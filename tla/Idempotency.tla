---------------------------- MODULE Idempotency ----------------------------
(***************************************************************************)
(* State-changing HTTP requests that carry an Idempotency-Key: the rows of *)
(* idempotency_records, and the way _handle_http reserves a key, performs  *)
(* the operation, stores its receipt and cleans up.                        *)
(*                                                                         *)
(* Several services (processes with a lock and a connection of their own)  *)
(* share the database.  An operation is of one of four kinds:              *)
(*   "single"     /v1/remember and un-negotiated review: reservation,      *)
(*                effect and receipt in one transaction;                   *)
(*   "route"      the ordinary routes: a reservation, then one transaction *)
(*                with effect and receipt, unwound for provider work;      *)
(*   "file"       backups, exports, restores, benchmarks: the effect is    *)
(*                outside the database, under the service lock;            *)
(*   "unguarded"  backup verification and compaction: like "file", but not *)
(*                in the list that refuses an expired reservation.         *)
(***************************************************************************)
EXTENDS Naturals, FiniteSets

CONSTANTS
    Requests,      \* HTTP requests (a retry is a request of its own)
    Keys,          \* credential, endpoint and Idempotency-Key
    Services,      \* service processes on the database
    KeyOf,         \* the key of each request
    BodyOf,        \* the request hash of each request
    ServiceOf,     \* the service each request is sent to
    KindOf,        \* the kind of operation each key names
    NoRequest,     \* no request
    NoBody,        \* no request hash
    MaxSuspends,   \* bound: provider suspensions per request
    StorageFails   \* may the database refuse a write after a file operation

Kinds == {"single", "route", "file", "unguarded"}

ASSUME IdempotencyAssumption ==
    /\ KeyOf \in [Requests -> Keys]
    /\ ServiceOf \in [Requests -> Services]
    /\ \A k \in Keys : KindOf[k] \in Kinds
    /\ NoRequest \notin Requests
    /\ \A r \in Requests : BodyOf[r] # NoBody
    /\ MaxSuspends \in Nat
    /\ StorageFails \in BOOLEAN
    /\ {"none", "refused"} \cap Requests = {}

VARIABLES
    record,     \* idempotency_records: one row per key
    pc,         \* where each request is
    suspends,   \* provider suspensions of each request
    answer,     \* "none", "refused", or the request whose result was returned
    applied     \* ghost: per key, the requests whose effect was committed
                \* since its last receipt expired

vars == <<record, pc, suspends, answer, applied>>

Key(r) == KeyOf[r]
Kind(r) == KindOf[KeyOf[r]]

Absent == [status |-> "absent", body |-> NoBody, by |-> NoRequest, expired |-> FALSE]

Reservation(r) ==
    [status |-> "in_progress", body |-> BodyOf[r], by |-> NoRequest, expired |-> FALSE]

Init ==
    /\ record = [k \in Keys |-> Absent]
    /\ pc = [r \in Requests |-> "idle"]
    /\ suspends = [r \in Requests |-> 0]
    /\ answer = [r \in Requests |-> "none"]
    /\ applied = [k \in Keys |-> {}]

\* The service lock is held from a file operation until its receipt is stored.
LockFree(r) ==
    \A q \in Requests : (q # r /\ ServiceOf[q] = ServiceOf[r]) => pc[q] # "filed"

Answer(r, value) ==
    /\ pc' = [pc EXCEPT ![r] = "done"]
    /\ answer' = [answer EXCEPT ![r] = value]

-----------------------------------------------------------------------------
(* _idempotency_replay: one transaction.                                   *)

\* A mutated form of Uncertain: an expired reservation is always reusable.
UncertainNever(r) == FALSE /\ Kind(r) = "file"

\* The row of an interrupted file operation: never repeated.
Uncertain(r) ==
    /\ record[Key(r)].status = "in_progress"
    /\ record[Key(r)].expired
    /\ Kind(r) = "file"

\* The row that is left once an expired one is deleted.
Current(r) == IF record[Key(r)].expired THEN Absent ELSE record[Key(r)]

\* Deleting an expired receipt starts a new period for its key.
AppliedBefore(r) ==
    IF record[Key(r)].expired /\ record[Key(r)].status = "completed"
    THEN {} ELSE applied[Key(r)]

\* The key is in use, for another body, withdrawn, in progress, uncertain, or
\* the receipt may no longer be read.
RefuseKey(r) ==
    /\ pc[r] = "idle" /\ LockFree(r)
    /\ Uncertain(r) \/ Current(r).status # "absent"
    /\ Answer(r, "refused")
    /\ UNCHANGED <<record, suspends, applied>>

\* A mutated form of ReplayReceipt: the request hash is not compared.
ReplayReceiptAnyBody(r) ==
    /\ pc[r] = "idle" /\ LockFree(r)
    /\ Current(r).status = "completed"
    /\ Answer(r, Current(r).by)
    /\ UNCHANGED <<record, suspends, applied>>

\* The stored response answers a retry with the same body.
ReplayReceipt(r) ==
    /\ pc[r] = "idle" /\ LockFree(r)
    /\ Current(r).status = "completed"
    /\ Current(r).body = BodyOf[r]
    /\ Answer(r, Current(r).by)
    /\ UNCHANGED <<record, suspends, applied>>

Reserve(r) ==
    /\ pc[r] = "idle" /\ LockFree(r) /\ Kind(r) # "single"
    /\ ~Uncertain(r) /\ Current(r).status = "absent"
    /\ record' = [record EXCEPT ![Key(r)] = Reservation(r)]
    /\ applied' = [applied EXCEPT ![Key(r)] = AppliedBefore(r)]
    /\ pc' = [pc EXCEPT ![r] = "reserved"]
    /\ UNCHANGED <<suspends, answer>>

-----------------------------------------------------------------------------
(* Performing the operation and storing its receipt.                       *)

\* The guard of the UPDATE in _idempotency_store.
Storable(r) ==
    /\ record[Key(r)].status = "in_progress"
    /\ record[Key(r)].body = BodyOf[r]

\* The receipt stored, or withheld because the caller lost access meanwhile
\* (then without an expiry).
Receipts(r) ==
    {[status |-> s, body |-> BodyOf[r], by |-> r, expired |-> FALSE] :
        s \in {"completed", "redacted"}}

\* Reservation, effect and receipt in one transaction; should the operation
\* raise, all of them are rolled back.
RunSingle(r) ==
    /\ pc[r] = "idle" /\ LockFree(r) /\ Kind(r) = "single"
    /\ Current(r).status = "absent"
    /\ \/ /\ \E receipt \in Receipts(r) : record' = [record EXCEPT ![Key(r)] = receipt]
          /\ applied' = [applied EXCEPT ![Key(r)] = AppliedBefore(r) \cup {r}]
          /\ Answer(r, r)
       \/ /\ Answer(r, "refused")
          /\ UNCHANGED <<record, applied>>
    /\ UNCHANGED suspends

\* The route and its receipt commit together ...
RouteCommits(r) ==
    /\ pc[r] = "reserved" /\ LockFree(r) /\ Kind(r) = "route"
    /\ Storable(r)
    /\ \E receipt \in Receipts(r) : record' = [record EXCEPT ![Key(r)] = receipt]
    /\ applied' = [applied EXCEPT ![Key(r)] = @ \cup {r}]
    /\ Answer(r, r)
    /\ UNCHANGED suspends

\* ... or roll back: the route raised, or the reservation is not there any more.
RouteRaises(r) ==
    /\ pc[r] = "reserved" /\ LockFree(r) /\ Kind(r) = "route"
    /\ pc' = [pc EXCEPT ![r] = "cleanup"]
    /\ UNCHANGED <<record, suspends, answer, applied>>

\* ProviderWorkNeeded rolls the transaction back and releases the lock.
RouteSuspends(r) ==
    /\ pc[r] = "reserved" /\ LockFree(r) /\ Kind(r) = "route"
    /\ suspends[r] < MaxSuspends
    /\ suspends' = [suspends EXCEPT ![r] = @ + 1]
    /\ pc' = [pc EXCEPT ![r] = "provider"]
    /\ UNCHANGED <<record, answer, applied>>

ProviderAnswers(r) ==
    /\ pc[r] = "provider"
    /\ \E next \in {"reserved", "cleanup"} : pc' = [pc EXCEPT ![r] = next]
    /\ UNCHANGED <<record, suspends, answer, applied>>

\* A file operation: its effect is not part of any transaction.  (Raising
\* after the output exists is the failing branch of FileReceipt.)
FileOperation(r) ==
    /\ pc[r] = "reserved" /\ LockFree(r) /\ Kind(r) \in {"file", "unguarded"}
    /\ \/ /\ applied' = [applied EXCEPT ![Key(r)] = @ \cup {r}]
          /\ pc' = [pc EXCEPT ![r] = "filed"]
       \/ /\ UNCHANGED applied
          /\ pc' = [pc EXCEPT ![r] = "cleanup"]
    /\ UNCHANGED <<record, suspends, answer>>

FileReceipt(r) ==
    /\ pc[r] = "filed"
    /\ \/ /\ Storable(r)
          /\ \E receipt \in Receipts(r) : record' = [record EXCEPT ![Key(r)] = receipt]
          /\ Answer(r, r)
       \/ /\ ~Storable(r) \/ StorageFails
          /\ pc' = [pc EXCEPT ![r] = "cleanup"]
          /\ UNCHANGED <<record, answer>>
    /\ UNCHANGED <<suspends, applied>>

-----------------------------------------------------------------------------
(* Cleanup, crashes, the clock, and deletion of the receipt's sources.     *)

\* A mutated form of Cleanup: the row is deleted whatever its status.
CleanupAnyStatus(r) ==
    /\ pc[r] = "cleanup" /\ LockFree(r)
    /\ record' = [record EXCEPT ![Key(r)] = Absent]
    /\ Answer(r, "refused")
    /\ UNCHANGED <<suspends, applied>>

\* The finally clause deletes the reservation of the key, by whoever it was
\* made; when the database cannot be written it stays.
Cleanup(r) ==
    /\ pc[r] = "cleanup" /\ LockFree(r)
    /\ \/ record' = [record EXCEPT ![Key(r)] = IF @.status = "in_progress" THEN Absent ELSE @]
       \/ UNCHANGED record
    /\ Answer(r, "refused")
    /\ UNCHANGED <<suspends, applied>>

\* The service dies: its requests get no answer, what it committed stays.
Crash(s) ==
    /\ \E r \in Requests : ServiceOf[r] = s /\ pc[r] \notin {"idle", "done"}
    /\ pc' = [r \in Requests |->
                IF ServiceOf[r] = s /\ pc[r] # "idle" THEN "done" ELSE pc[r]]
    /\ UNCHANGED <<record, suspends, answer, applied>>

\* Five minutes for a reservation, a day for a receipt.
Expire(k) ==
    /\ record[k].status \in {"in_progress", "completed"} /\ ~record[k].expired
    /\ record' = [record EXCEPT ![k].expired = TRUE]
    /\ UNCHANGED <<pc, suspends, answer, applied>>

\* A mutated form of Redact: the expiry of the receipt is kept.
RedactKeepingExpiry(k) ==
    /\ record[k].status = "completed"
    /\ record' = [record EXCEPT ![k].status = "redacted"]
    /\ UNCHANGED <<pc, suspends, answer, applied>>

\* deletion.apply keeps the key of a receipt that names deleted memory, as a
\* tombstone that does not expire.
Redact(k) ==
    /\ record[k].status = "completed"
    /\ record' = [record EXCEPT ![k].status = "redacted", ![k].expired = FALSE]
    /\ UNCHANGED <<pc, suspends, answer, applied>>

-----------------------------------------------------------------------------
RequestStep(r) ==
    \/ RefuseKey(r) \/ ReplayReceipt(r) \/ Reserve(r) \/ RunSingle(r)
    \/ RouteCommits(r) \/ RouteRaises(r) \/ RouteSuspends(r) \/ ProviderAnswers(r)
    \/ FileOperation(r) \/ FileReceipt(r) \/ Cleanup(r)

Next ==
    \/ \E r \in Requests : RequestStep(r)
    \/ \E s \in Services : Crash(s)
    \/ \E k \in Keys : Expire(k) \/ Redact(k)

Spec == Init /\ [][Next]_vars

-----------------------------------------------------------------------------
(* Properties.                                                             *)

Rows == [status : {"absent", "in_progress", "completed", "redacted"},
         body : {BodyOf[r] : r \in Requests} \cup {NoBody},
         by : Requests \cup {NoRequest}, expired : BOOLEAN]

TypeOK ==
    /\ record \in [Keys -> Rows]
    /\ pc \in [Requests -> {"idle", "reserved", "provider", "filed", "cleanup", "done"}]
    /\ suspends \in [Requests -> Nat]
    /\ answer \in [Requests -> {"none", "refused"} \cup Requests]
    /\ applied \in [Keys -> SUBSET Requests]

\* Operations whose effect is in the database.
Transactional(k) == KindOf[k] \in {"single", "route"}

\* A key's receipt stands for exactly one committed effect: while a completed
\* receipt is kept, the one it names was committed and no other; while there is
\* no receipt, none was.  Reservations that expire under a slow provider call
\* and are taken over, completed or deleted by another request included.
ReceiptIsTheEffect ==
    \A k \in Keys : Transactional(k) =>
        CASE record[k].status = "completed" -> applied[k] = {record[k].by}
          [] record[k].status = "redacted" -> applied[k] = {record[k].by}
          [] OTHER -> applied[k] = {}

\* A caller is told of success only with the result of an operation that was
\* sent with the same key and the same body.
AnswersMatchRequests ==
    \A r \in Requests : answer[r] \in Requests =>
        KeyOf[answer[r]] = KeyOf[r] /\ BodyOf[answer[r]] = BodyOf[r]

\* A request that was refused committed nothing in the database.
RefusedMeansUnapplied ==
    \A r \in Requests :
        (Transactional(KeyOf[r]) /\ answer[r] = "refused") => r \notin applied[KeyOf[r]]

\* Once the memory behind a receipt is deleted, its operation is never
\* performed again under that key.
WithdrawnForever ==
    [][\A k \in Keys : (Transactional(k) /\ record[k].status = "redacted") =>
          record'[k].status = "redacted" /\ applied'[k] = applied[k]]_vars

\* A file operation whose outcome is uncertain is not repeated under its key.
FileOperationsNotRepeated ==
    \A k \in Keys : KindOf[k] = "file" => Cardinality(applied[k]) <= 1

\* The ledger that the transactional operations implement: what a row says
\* about its operation.
LedgerEntry(row) ==
    CASE row.status = "completed" -> [state |-> "done", by |-> row.by, lapsed |-> row.expired]
      [] row.status = "redacted"  -> [state |-> "withdrawn", by |-> row.by, lapsed |-> FALSE]
      [] OTHER                    -> [state |-> "free", by |-> NoRequest, lapsed |-> FALSE]

LedgerView == [k \in Keys |-> LedgerEntry(record[k])]

Ledger == INSTANCE OperationLedger WITH ledger <- LedgerView

\* Every behaviour performs each operation at most once while its receipt is
\* kept, and answers with it only: reservations, provider suspensions, retries,
\* clean-up and crashes are invisible.
ImplementsLedger == Ledger!LSpec
=============================================================================
