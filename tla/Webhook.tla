------------------------------ MODULE Webhook ------------------------------
(***************************************************************************)
(* The guards a webhook request passes before its update is fed to a bot,  *)
(* and the cache of served bots they share: consumer/webhook.py.           *)
(*                                                                         *)
(* Requests run on threads of their own.  One bot is followed; the table   *)
(* has others, so an answer is never held back as empty.  The age of the   *)
(* last read is all the clock there is: within MISS_GRACE, within          *)
(* BOT_REFRESH_INTERVAL, or past it.                                       *)
(***************************************************************************)
CONSTANTS Request, NoOne

VARIABLES
    req,    \* req[r]: where the request is, or how it was turned away
    twice,  \* twice[r]: it asks again, with refresh
    table,  \* the bot is configured
    served, \* the bot is in _served
    age,    \* of _read_at
    reader, \* who holds _reading
    sure    \* history: the last read went well and nothing changed since

cached == <<served, age, reader, sure>>
hookVars == <<req, twice, table, cached>>

(* Answered 404, or with one of the other statuses that refuse. *)
Refusal == {"not found", "turned away"}
Asking == {"looking", "waiting", "reading", "addressed"}
Answers(r) == req[r] \in Refusal

HookTypeOK ==
    /\ req \in [Request -> {"new", "accepted"} \cup Asking \cup Refusal]
    /\ twice \in [Request -> BOOLEAN]
    /\ {table, served, sure} \subseteq BOOLEAN
    /\ age \in {"never", "young", "fresh", "old"}
    /\ reader \in Request \cup {NoOne}

Warm == served = TRUE /\ age = "fresh" /\ table = TRUE /\ sure = TRUE
Cold == served = FALSE /\ age = "never" /\ table \in BOOLEAN /\ sure = FALSE
HookInit ==
    /\ req = [r \in Request |-> "new"] /\ twice = [r \in Request |-> FALSE]
    /\ reader = NoOne

Turns(r, state) == req' = [req EXCEPT ![r] = state]

----------------------------------------------------------------------------
(* _accepted_update: its guards, in order *)

(* Not a POST, a disabled bot, an unreadable MODE or one that polls; or a  *)
(* path that names no bot, or this one.                                    *)
RefusedByMode == {"turned away"}
Arrives(r) ==
    /\ req[r] = "new"
    /\ \E next \in RefusedByMode \cup {"addressed", "looking"} : Turns(r, next)
    /\ UNCHANGED <<twice, table, cached>>

(* Mutant of FreshEnough: what was never read is taken for an old answer. *)
FreshEvenUnread(refresh) ==
    age \in IF refresh THEN {"never", "young"} ELSE {"never", "young", "fresh"}

(* _fresh_enough: a miss may read again once the grace has passed. *)
FreshEnough(refresh) ==
    age \in IF refresh THEN {"young"} ELSE {"young", "fresh"}

(* What _addressed makes of an answer: found, asked for again, or a 404.   *)
Addressed(r, found) ==
    /\ Turns(r, IF found THEN "addressed" ELSE IF twice[r] THEN "not found" ELSE "looking")
    /\ twice' = [twice EXCEPT ![r] = @ \/ ~found]

(* served_records: a look without the lock. *)
Looks(r) ==
    /\ req[r] = "looking"
    /\ IF FreshEnough(twice[r]) THEN Addressed(r, served)
       ELSE Turns(r, "waiting") /\ UNCHANGED twice
    /\ UNCHANGED <<table, cached>>

(* The age is looked at again under the lock, and stamped before the read. *)
Enters(r) ==
    /\ req[r] = "waiting" /\ reader = NoOne
    /\ IF FreshEnough(twice[r]) THEN Addressed(r, served) /\ UNCHANGED cached
       ELSE /\ Turns(r, "reading") /\ reader' = r /\ age' = "young"
            /\ UNCHANGED <<twice, served, sure>>
    /\ UNCHANGED table

(* desired() answers, or fails and leaves what was last known. *)
Reads(r) ==
    /\ req[r] = "reading"
    /\ \/ served' = table /\ sure' = TRUE
       \/ served' = served /\ sure' = FALSE
    /\ reader' = NoOne
    /\ Addressed(r, served')
    /\ UNCHANGED <<table, age>>

(* The rest of the guards: a record or a secret that cannot be read, a     *)
(* wrong secret, no token, and a body that is no update.                   *)
Unserved == {"turned away"}
ReadUpdate == {"turned away", "accepted"}
Guards(r) ==
    /\ req[r] = "addressed"
    /\ \E next \in Unserved \cup ReadUpdate : Turns(r, next)
    /\ UNCHANGED <<twice, table, cached>>

----------------------------------------------------------------------------
(* What happens to the cache from outside *)

(* A bot is registered or removed. *)
Registers ==
    /\ table' = ~table /\ sure' = FALSE
    /\ UNCHANGED <<req, twice, served, age, reader>>

Ages ==
    /\ \/ age = "young" /\ age' = "fresh"
       \/ age = "fresh" /\ age' = "old"
    /\ UNCHANGED <<req, twice, table, served, reader, sure>>

(* A change of the settings drops what was read. *)
ForgetsTheBots ==
    /\ served' = FALSE /\ age' = "never" /\ sure' = FALSE
    /\ UNCHANGED <<req, twice, table, reader>>

Guarding(r) == Looks(r) \/ Enters(r) \/ Reads(r) \/ Guards(r)
Outside == Registers \/ Ages \/ ForgetsTheBots

----------------------------------------------------------------------------
(* Properties *)

(* An update is turned away as unknown by what was read within the grace,  *)
(* or while a read is under way; and a configured bot's only then, or when *)
(* the last read failed or is older than the bot.                          *)
UnknownForCause(r) ==
    req[r] # "not found" /\ req'[r] = "not found" =>
        reader # NoOne \/ (age = "young" /\ (~table \/ ~sure))
============================================================================
