--------------------------- MODULE OperationLedger ---------------------------
(***************************************************************************)
(* What an Idempotency-Key promises: the operation it names is performed   *)
(* at most once while its receipt is kept.  A request is answered once; it *)
(* is told of success only with the result of an operation that was        *)
(* performed for the same key and the same body, and a request that is     *)
(* refused has performed nothing.  A receipt may lapse, after which the    *)
(* key may be used again; a withdrawn receipt blocks its key for good.     *)
(***************************************************************************)
CONSTANTS
    Requests,   \* requests that carry a key
    Keys,       \* operation keys
    KeyOf,      \* the key of each request
    BodyOf,     \* the body of each request
    NoRequest   \* no request

VARIABLES
    ledger,     \* per key: "free", "done" or "withdrawn", by whom, lapsed or not
    answer      \* per request: "none", "refused", or the request whose result it got

lvars == <<ledger, answer>>

Free == [state |-> "free", by |-> NoRequest, lapsed |-> FALSE]

LInit ==
    /\ ledger = [k \in Keys |-> Free]
    /\ answer = [r \in Requests |-> "none"]

\* The operation is performed and answered in one indivisible step; its
\* receipt is kept, or is withdrawn at once.
Perform(r) ==
    LET k == KeyOf[r] IN
    /\ answer[r] = "none"
    /\ \/ ledger[k].state = "free"
       \/ ledger[k].state = "done" /\ ledger[k].lapsed
    /\ \E s \in {"done", "withdrawn"} :
         ledger' = [ledger EXCEPT ![k] = [state |-> s, by |-> r, lapsed |-> FALSE]]
    /\ answer' = [answer EXCEPT ![r] = r]

Replay(r) ==
    LET k == KeyOf[r] IN
    /\ answer[r] = "none"
    /\ ledger[k].state = "done"
    /\ BodyOf[ledger[k].by] = BodyOf[r]
    /\ answer' = [answer EXCEPT ![r] = ledger[k].by]
    /\ UNCHANGED ledger

Refuse(r) ==
    /\ answer[r] = "none"
    /\ answer' = [answer EXCEPT ![r] = "refused"]
    /\ UNCHANGED ledger

Lapse(k) ==
    /\ ledger[k].state = "done"
    /\ ledger' = [ledger EXCEPT ![k] = [state |-> "done", by |-> @.by, lapsed |-> TRUE]]
    /\ UNCHANGED answer

Drop(k) ==
    /\ ledger[k].state = "done" /\ ledger[k].lapsed
    /\ ledger' = [ledger EXCEPT ![k] = Free]
    /\ UNCHANGED answer

Withdraw(k) ==
    /\ ledger[k].state = "done"
    /\ ledger' = [ledger EXCEPT ![k] = [state |-> "withdrawn", by |-> @.by, lapsed |-> FALSE]]
    /\ UNCHANGED answer

LNext ==
    \/ \E r \in Requests : Perform(r) \/ Replay(r) \/ Refuse(r)
    \/ \E k \in Keys : Lapse(k) \/ Drop(k) \/ Withdraw(k)

LSpec == LInit /\ [][LNext]_lvars
=============================================================================
