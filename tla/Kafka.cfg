CONSTANTS
    t1 = t1
    t2 = t2
    Nobody = Nobody
    Spot = {t1, t2}
    Member = {a, b}
    MaxInFlight = 2
    Budgets <- MCBudgets
    c1 = c1
    c2 = c2
    Caller = {c1, c2}
    Sizes <- MCSizes
    Largest = 2
    TopicOf <- MCTopicOf
    Room = 1
    MaxProducers = 2
SPECIFICATION QueueSpec
INVARIANTS
    NeverCommittedUnsent
PROPERTIES
    RewoundSettlesNothing
    PublishedIsSent
