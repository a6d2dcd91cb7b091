SPECIFICATION Spec
CONSTANTS
    m1 = m1
    m2 = m2
    m3 = m3
    own = own
    other = other
    bot = bot
    NoMsg = NoMsg
    Msg <- MCMsg
    Queue = {own, other}
    Own = own
    Bot = {bot}
    QueueOf <- MCQueueOf
    BotOf <- MCBotOf
    Verdict <- MCVerdict
    Configs <- MCConfigs
    MaxFaults = 1
INVARIANTS
    NeverSettledUnsent
    BooksHold
PROPERTIES
    NoOvertaking
    Implements
    NeverStalls
