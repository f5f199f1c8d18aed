-------------------------- MODULE IdempotencyProofs --------------------------
(***************************************************************************)
(* Proofs about Idempotency for any number of requests, keys and services  *)
(* and any mix of operations.  The inductive invariant ties the row of a   *)
(* key to the effects that were committed and to the answers that were     *)
(* given; with it every step is a step of OperationLedger.  A second one   *)
(* follows the one request that may act under the key of a file operation. *)
(***************************************************************************)
EXTENDS Idempotency, FiniteSetTheorems, TLAPS

\* A kept receipt names a request with the key and body it is stored under.
ReceiptsAreOwn ==
    \A k \in Keys : record[k].status \in {"completed", "redacted"} =>
        /\ record[k].by \in Requests
        /\ KeyOf[record[k].by] = k
        /\ record[k].status = "completed" => BodyOf[record[k].by] = record[k].body

\* What was committed in the database was answered with success, and an
\* unfinished request has no answer.
AppliedWasAnswered ==
    /\ \A k \in Keys : Transactional(k) => \A r \in applied[k] : answer[r] = r
    /\ \A r \in Requests : pc[r] # "done" => answer[r] = "none"

\* A tombstone does not expire, and no transactional request is ever between a
\* file operation and its receipt.
TombstonesStay ==
    /\ \A k \in Keys : record[k].status = "redacted" => ~record[k].expired
    /\ \A r \in Requests : Transactional(Key(r)) => pc[r] # "filed"

Inv ==
    /\ TypeOK
    /\ TombstonesStay
    /\ ReceiptIsTheEffect
    /\ ReceiptsAreOwn
    /\ AnswersMatchRequests
    /\ AppliedWasAnswered

Phases == {"idle", "reserved", "provider", "filed", "cleanup", "done"}

-----------------------------------------------------------------------------
(* The shape of a step, by what it does to the row of the request's key.   *)

\* Rows are records of their four fields.
LEMMA RowRecord ==
    ASSUME NEW s \in {"absent", "in_progress", "completed", "redacted"},
           NEW bd \in {BodyOf[r] : r \in Requests} \cup {NoBody},
           NEW who \in Requests \cup {NoRequest}, NEW e \in BOOLEAN
    PROVE  [status |-> s, body |-> bd, by |-> who, expired |-> e] \in Rows
  BY DEF Rows

\* Every receipt of r is a row that names r and its body.
LEMMA ReceiptRow ==
    ASSUME NEW r \in Requests, NEW receipt \in Receipts(r)
    PROVE  /\ receipt \in Rows
           /\ receipt.by = r /\ receipt.body = BodyOf[r]
           /\ receipt.status \in {"completed", "redacted"}
           /\ ~receipt.expired
  <1>1. PICK s \in {"completed", "redacted"} :
          receipt = [status |-> s, body |-> BodyOf[r], by |-> r, expired |-> FALSE]
    BY DEF Receipts
  <1>2. FALSE \in BOOLEAN
    OBVIOUS
  <1>3. receipt \in Rows
    BY <1>1, <1>2, RowRecord
  <1> QED
    BY <1>1, <1>3

\* Giving up: nothing is committed and the request is refused; a reservation
\* of its key may go.
LEMMA RefuseStep ==
    ASSUME Inv, NEW r \in Requests, pc[r] # "done", Answer(r, "refused"),
           applied' = applied, suspends' = suspends,
           \/ record' = record
           \/ record[Key(r)].status = "in_progress" /\ record' = [record EXCEPT ![Key(r)] = Absent]
    PROVE  Inv'
  <1> DEFINE k == Key(r)
  <1>k. k \in Keys
    BY IdempotencyAssumption DEF Key
  <1>t. TypeOK
    BY DEF Inv
  <1>a. Absent \in Rows /\ Absent.status = "absent"
    <2>1. FALSE \in BOOLEAN
      OBVIOUS
    <2> QED
      BY <2>1, RowRecord DEF Absent
  <1>s. \A j \in Keys : record'[j] = record[j] \/ (record[j].status = "in_progress" /\ record'[j] = Absent)
    BY <1>t, <1>k DEF TypeOK
  <1>3. answer' = [answer EXCEPT ![r] = "refused"] /\ pc' = [pc EXCEPT ![r] = "done"]
    BY DEF Answer
  <1>1. TypeOK'
    <2>1. record' \in [Keys -> Rows]
      BY <1>t, <1>k, <1>a DEF TypeOK
    <2> QED
      BY <1>t, <2>1, <1>3 DEF TypeOK
  <1>2. ReceiptIsTheEffect'
    BY <1>s, <1>a DEF Inv, ReceiptIsTheEffect
  <1>6. ReceiptsAreOwn' /\ TombstonesStay'
    BY <1>s, <1>a, <1>3, <1>t DEF Inv, TypeOK, ReceiptsAreOwn, TombstonesStay
  <1>4. AnswersMatchRequests'
    BY <1>3, IdempotencyAssumption DEF Inv, TypeOK, AnswersMatchRequests
  <1>5. AppliedWasAnswered'
    <2>1. answer[r] = "none" /\ r # "none"
      BY IdempotencyAssumption DEF Inv, AppliedWasAnswered
    <2> QED
      BY <1>3, <2>1 DEF Inv, TypeOK, AppliedWasAnswered
  <1> QED
    BY <1>1, <1>2, <1>4, <1>5, <1>6 DEF Inv

\* Moving on without an answer: the row, effects and answers stay.
LEMMA WaitStep ==
    ASSUME Inv, NEW r \in Requests, pc[r] # "done", NEW phase \in Phases \ {"done", "filed"},
           pc' = [pc EXCEPT ![r] = phase], suspends' \in [Requests -> Nat],
           UNCHANGED <<record, answer, applied>>
    PROVE  Inv'
  <1>1. TypeOK'
    BY DEF Inv, TypeOK, Phases
  <1>2. ReceiptIsTheEffect' /\ ReceiptsAreOwn' /\ AnswersMatchRequests'
    BY DEF Inv, ReceiptIsTheEffect, ReceiptsAreOwn, AnswersMatchRequests
  <1>3. AppliedWasAnswered' /\ TombstonesStay'
    BY DEF Inv, TypeOK, AppliedWasAnswered, TombstonesStay
  <1> QED
    BY <1>1, <1>2, <1>3 DEF Inv

\* A file operation, whose effect no receipt stands for yet.
LEMMA FileStep ==
    ASSUME Inv, NEW r \in Requests, pc[r] = "reserved", ~Transactional(Key(r)),
           pc' = [pc EXCEPT ![r] = "filed"], NEW S \in SUBSET Requests,
           applied' = [applied EXCEPT ![Key(r)] = S],
           UNCHANGED <<record, suspends, answer>>
    PROVE  Inv'
  <1>k. Key(r) \in Keys
    BY IdempotencyAssumption DEF Key
  <1>t. TypeOK
    BY DEF Inv
  <1>s. \A k \in Keys : Transactional(k) => applied'[k] = applied[k]
    BY <1>k, <1>t DEF TypeOK
  <1>1. TypeOK'
    BY <1>k, <1>t DEF TypeOK
  <1>2. ReceiptIsTheEffect' /\ ReceiptsAreOwn' /\ AnswersMatchRequests'
    BY <1>s DEF Inv, ReceiptIsTheEffect, ReceiptsAreOwn, AnswersMatchRequests
  <1>3. AppliedWasAnswered' /\ TombstonesStay'
    BY <1>s, <1>t DEF Inv, TypeOK, AppliedWasAnswered, TombstonesStay
  <1> QED
    BY <1>1, <1>2, <1>3 DEF Inv

\* Performing: a key gets the receipt of r, and if the effect is in the
\* database r is the one request whose effect counts.
LEMMA PerformStep ==
    ASSUME Inv, NEW r \in Requests, pc[r] # "done", Answer(r, r),
           NEW receipt \in Receipts(r), record' = [record EXCEPT ![Key(r)] = receipt],
           NEW S \in SUBSET Requests, applied' = [applied EXCEPT ![Key(r)] = S],
           Transactional(Key(r)) => S = {r}, suspends' = suspends
    PROVE  Inv'
  <1> DEFINE k == Key(r)
  <1>1. /\ k \in Keys /\ KeyOf[r] = k
        /\ receipt.by = r /\ receipt.body = BodyOf[r]
        /\ receipt.status \in {"completed", "redacted"}
        /\ receipt \in Rows
    BY IdempotencyAssumption, ReceiptRow DEF Key
  <1>2. /\ answer' = [answer EXCEPT ![r] = r] /\ pc' = [pc EXCEPT ![r] = "done"]
        /\ record' = [record EXCEPT ![k] = receipt] /\ applied' = [applied EXCEPT ![k] = S]
        /\ Transactional(k) => S = {r}
    BY DEF Answer
  <1>t. TypeOK
    BY DEF Inv
  <1> HIDE DEF k
  <1>3. TypeOK'
    <2>1. record' \in [Keys -> Rows]
      BY <1>1, <1>2, <1>t DEF TypeOK
    <2>3. applied' \in [Keys -> SUBSET Requests]
      <3>1. S \in SUBSET Requests /\ applied \in [Keys -> SUBSET Requests]
        BY <1>t DEF TypeOK
      <3> QED
        BY <1>2, <3>1
    <2>2. /\ pc' \in [Requests -> {"idle", "reserved", "provider", "filed", "cleanup", "done"}]
          /\ answer' \in [Requests -> {"none", "refused"} \cup Requests]
      BY <1>2, <1>t DEF TypeOK
    <2> QED
      BY <2>1, <2>2, <2>3, <1>t DEF TypeOK
  <1>4. ReceiptIsTheEffect'
    BY <1>1, <1>2, <1>t DEF Inv, TypeOK, ReceiptIsTheEffect
  <1>5. ReceiptsAreOwn'
    BY <1>1, <1>2, <1>t DEF Inv, TypeOK, ReceiptsAreOwn
  <1>6. AnswersMatchRequests'
    BY <1>2, <1>t DEF Inv, TypeOK, AnswersMatchRequests
  <1>7. AppliedWasAnswered'
    <2>1. answer[r] = "none" /\ r # "none"
      BY IdempotencyAssumption DEF Inv, AppliedWasAnswered
    <2> QED
      BY <1>2, <2>1, <1>t DEF Inv, TypeOK, AppliedWasAnswered
  <1>8. TombstonesStay'
    BY <1>1, <1>2, <1>t, ReceiptRow DEF Inv, TypeOK, TombstonesStay
  <1> QED
    BY <1>3, <1>4, <1>5, <1>6, <1>7, <1>8 DEF Inv

-----------------------------------------------------------------------------
(* Keys without a kept receipt.                                            *)

\* A row that is gone was not withdrawn.
LEMMA NotWithdrawn ==
    ASSUME Inv, NEW r \in Requests, Current(r).status = "absent"
    PROVE  /\ record[Key(r)].status # "redacted"
           /\ record[Key(r)].status = "completed" => record[Key(r)].expired
  <1>1. Key(r) \in Keys
    BY IdempotencyAssumption DEF Key
  <1> QED
    BY <1>1 DEF Current, Inv, TombstonesStay

\* If the current row is gone, no effect counts for the key any more.
LEMMA NoReceiptNoEffect ==
    ASSUME Inv, NEW r \in Requests, Transactional(Key(r)), Current(r).status = "absent"
    PROVE  AppliedBefore(r) = {}
  <1>1. Key(r) \in Keys
    BY IdempotencyAssumption DEF Key
  <1>2. CASE record[Key(r)].status = "completed"
    BY <1>2, NotWithdrawn DEF AppliedBefore
  <1>3. CASE record[Key(r)].status # "completed"
    <2>1. applied[Key(r)] = {}
      BY <1>1, <1>3, NotWithdrawn DEF Inv, ReceiptIsTheEffect
    <2> QED
      BY <1>3, <2>1 DEF AppliedBefore
  <1> QED
    BY <1>2, <1>3

\* A reservation that can still be completed has no effect yet.
LEMMA ReservedNoEffect ==
    ASSUME Inv, NEW r \in Requests, Transactional(Key(r)), Storable(r)
    PROVE  applied[Key(r)] = {}
  <1>1. Key(r) \in Keys
    BY IdempotencyAssumption DEF Key
  <1> QED
    BY <1>1 DEF Storable, Inv, ReceiptIsTheEffect

LEMMA InitInv == Init => Inv
  <1> SUFFICES ASSUME Init PROVE Inv
    OBVIOUS
  <1>a. Absent \in Rows /\ Absent.status = "absent"
    <2>1. FALSE \in BOOLEAN
      OBVIOUS
    <2> QED
      BY <2>1, RowRecord DEF Absent
  <1>1. TypeOK
    BY <1>a DEF Init, TypeOK
  <1>2. ReceiptIsTheEffect /\ ReceiptsAreOwn /\ TombstonesStay
    BY <1>a DEF Init, ReceiptIsTheEffect, ReceiptsAreOwn, TombstonesStay
  <1>3. AnswersMatchRequests /\ AppliedWasAnswered
    BY IdempotencyAssumption DEF Init, AnswersMatchRequests, AppliedWasAnswered
  <1> QED
    BY <1>1, <1>2, <1>3 DEF Inv

LEMMA NextInv == Inv /\ [Next]_vars => Inv'
  <1> SUFFICES ASSUME Inv, [Next]_vars PROVE Inv'
    OBVIOUS
  <1>t. TypeOK
    BY DEF Inv
  <1>k. \A r \in Requests : /\ Key(r) \in Keys
                            /\ Transactional(Key(r)) <=> Kind(r) \in {"single", "route"}
    BY IdempotencyAssumption DEF Key, Kind, Transactional
  <1>1. ASSUME NEW r \in Requests, RefuseKey(r) PROVE Inv'
    BY <1>1, RefuseStep DEF RefuseKey
  <1>2. ASSUME NEW r \in Requests, ReplayReceipt(r) PROVE Inv'
    <2>1. /\ record[Key(r)].status = "completed" /\ record[Key(r)].body = BodyOf[r]
          /\ answer' = [answer EXCEPT ![r] = record[Key(r)].by] /\ pc' = [pc EXCEPT ![r] = "done"]
          /\ UNCHANGED <<record, suspends, applied>> /\ pc[r] = "idle"
      BY <1>2 DEF ReplayReceipt, Current, Absent, Answer
    <2>2. /\ record[Key(r)].by \in Requests /\ KeyOf[record[Key(r)].by] = Key(r)
          /\ BodyOf[record[Key(r)].by] = BodyOf[r]
      BY <2>1, <1>k DEF Inv, ReceiptsAreOwn
    <2>3. TypeOK'
      BY <2>1, <2>2, <1>t DEF TypeOK
    <2>4. ReceiptIsTheEffect' /\ ReceiptsAreOwn' /\ TombstonesStay'
      BY <2>1, <1>t DEF Inv, TypeOK, ReceiptIsTheEffect, ReceiptsAreOwn, TombstonesStay
    <2>5. AnswersMatchRequests'
      BY <2>1, <2>2, <1>t DEF Inv, TypeOK, AnswersMatchRequests, Key
    <2>6. AppliedWasAnswered'
      <3>1. answer[r] = "none" /\ r # "none"
        BY <2>1, IdempotencyAssumption DEF Inv, AppliedWasAnswered
      <3> QED
        BY <2>1, <3>1, <1>t DEF Inv, TypeOK, AppliedWasAnswered
    <2> QED
      BY <2>3, <2>4, <2>5, <2>6 DEF Inv
  <1>3. ASSUME NEW r \in Requests, Reserve(r) PROVE Inv'
    <2>1. /\ record' = [record EXCEPT ![Key(r)] = Reservation(r)]
          /\ applied' = [applied EXCEPT ![Key(r)] = AppliedBefore(r)]
          /\ pc' = [pc EXCEPT ![r] = "reserved"] /\ pc[r] = "idle"
          /\ UNCHANGED <<suspends, answer>>
          /\ Transactional(Key(r)) => AppliedBefore(r) = {}
          /\ AppliedBefore(r) \in SUBSET Requests
      BY <1>3, <1>k, <1>t, NoReceiptNoEffect DEF Reserve, AppliedBefore, TypeOK
    <2>2. /\ Reservation(r) \in Rows /\ Reservation(r).status = "in_progress"
      <3>1. FALSE \in BOOLEAN
        OBVIOUS
      <3> QED
        BY <3>1, RowRecord DEF Reservation
    <2>3. TypeOK'
      <3>1. record' \in [Keys -> Rows] /\ applied' \in [Keys -> SUBSET Requests]
        BY <2>1, <2>2, <1>t DEF TypeOK
      <3> QED
        BY <2>1, <3>1, <1>t DEF TypeOK
    <2>4. ReceiptIsTheEffect' /\ ReceiptsAreOwn' /\ TombstonesStay'
      BY <2>1, <2>2, <1>k, <1>t DEF Inv, TypeOK, ReceiptIsTheEffect, ReceiptsAreOwn, TombstonesStay
    <2>5. AnswersMatchRequests' /\ AppliedWasAnswered'
      BY <2>1, <1>k, <1>t DEF Inv, TypeOK, AnswersMatchRequests, AppliedWasAnswered
    <2> QED
      BY <2>3, <2>4, <2>5 DEF Inv
  <1>4. ASSUME NEW r \in Requests, RunSingle(r) PROVE Inv'
    <2>1. pc[r] # "done" /\ suspends' = suspends /\ AppliedBefore(r) = {}
      BY <1>4, <1>k, NoReceiptNoEffect DEF RunSingle
    <2>2. CASE Answer(r, "refused") /\ UNCHANGED <<record, applied>>
      BY <2>1, <2>2, RefuseStep
    <2>3. ASSUME NEW receipt \in Receipts(r), record' = [record EXCEPT ![Key(r)] = receipt],
                 applied' = [applied EXCEPT ![Key(r)] = AppliedBefore(r) \cup {r}], Answer(r, r)
          PROVE  Inv'
      <3>1. applied' = [applied EXCEPT ![Key(r)] = {r}]
        BY <2>1, <2>3
      <3> QED
        BY <2>1, <2>3, <3>1, {r} \in SUBSET Requests, PerformStep
    <2> QED
      BY <1>4, <2>2, <2>3 DEF RunSingle
  <1>5. ASSUME NEW r \in Requests, RouteCommits(r) PROVE Inv'
    <2>1. PICK receipt \in Receipts(r) : record' = [record EXCEPT ![Key(r)] = receipt]
      BY <1>5 DEF RouteCommits
    <2>2. applied' = [applied EXCEPT ![Key(r)] = {r}]
      BY <1>5, ReservedNoEffect, <1>k, <1>t DEF RouteCommits, TypeOK
    <2>3. pc[r] # "done" /\ suspends' = suspends /\ Answer(r, r)
      BY <1>5 DEF RouteCommits
    <2> QED
      BY <2>1, <2>2, <2>3, {r} \in SUBSET Requests, PerformStep
  <1>6. ASSUME NEW r \in Requests, RouteRaises(r) \/ RouteSuspends(r) \/ ProviderAnswers(r) PROVE Inv'
    <2>1. PICK phase \in {"reserved", "provider", "cleanup"} : pc' = [pc EXCEPT ![r] = phase]
      BY <1>6 DEF RouteRaises, RouteSuspends, ProviderAnswers
    <2>2. pc[r] # "done" /\ UNCHANGED <<record, answer, applied>>
      BY <1>6 DEF RouteRaises, RouteSuspends, ProviderAnswers
    <2>3. suspends' \in [Requests -> Nat]
      BY <1>6, <1>t DEF RouteRaises, RouteSuspends, ProviderAnswers, TypeOK
    <2>4. phase \in Phases \ {"done", "filed"}
      BY DEF Phases
    <2> QED
      BY <2>1, <2>2, <2>3, <2>4, WaitStep
  <1>7. ASSUME NEW r \in Requests, FileOperation(r) \/ FileReceipt(r) PROVE Inv'
    <2>1. /\ ~Transactional(Key(r)) /\ pc[r] \in {"reserved", "filed"}
          /\ suspends' = suspends /\ suspends' \in [Requests -> Nat]
          /\ "cleanup" \in Phases \ {"done", "filed"}
          /\ applied[Key(r)] \in SUBSET Requests /\ applied[Key(r)] \cup {r} \in SUBSET Requests
      BY <1>7, <1>k, <1>t DEF FileOperation, FileReceipt, Inv, TombstonesStay, TypeOK, Phases
    <2>2. CASE /\ pc[r] = "reserved" /\ pc' = [pc EXCEPT ![r] = "filed"]
               /\ applied' = [applied EXCEPT ![Key(r)] = @ \cup {r}] /\ UNCHANGED <<record, suspends, answer>>
      <3>1. applied' = [applied EXCEPT ![Key(r)] = applied[Key(r)] \cup {r}]
        BY <2>2
      <3> QED
        BY <2>1, <2>2, <3>1, FileStep
    <2>3. CASE pc' = [pc EXCEPT ![r] = "cleanup"] /\ UNCHANGED <<record, answer, applied>>
      BY <2>1, <2>3, WaitStep
    <2>4. ASSUME NEW receipt \in Receipts(r), record' = [record EXCEPT ![Key(r)] = receipt],
                 Answer(r, r), applied' = applied
          PROVE  Inv'
      <3>1. applied' = [applied EXCEPT ![Key(r)] = applied[Key(r)]]
        BY <2>4, <1>t DEF TypeOK
      <3> QED
        BY <2>1, <2>4, <3>1, PerformStep
    <2> QED
      BY <1>7, <2>2, <2>3, <2>4 DEF FileOperation, FileReceipt
  <1>8. ASSUME NEW r \in Requests, Cleanup(r) PROVE Inv'
    <2>1. pc[r] # "done" /\ Answer(r, "refused") /\ UNCHANGED <<suspends, applied>>
      BY <1>8 DEF Cleanup
    <2>2. \/ record' = record
          \/ record[Key(r)].status = "in_progress" /\ record' = [record EXCEPT ![Key(r)] = Absent]
      BY <1>8, <1>t DEF Cleanup, TypeOK
    <2> QED
      BY <2>1, <2>2, RefuseStep
  <1>9. ASSUME NEW s \in Services, Crash(s) PROVE Inv'
    <2>1. /\ pc' = [r \in Requests |-> IF ServiceOf[r] = s /\ pc[r] # "idle" THEN "done" ELSE pc[r]]
          /\ UNCHANGED <<record, suspends, answer, applied>>
      BY <1>9 DEF Crash
    <2>2. TypeOK'
      BY <2>1, <1>t DEF TypeOK
    <2>3. AppliedWasAnswered' /\ TombstonesStay'
      BY <2>1 DEF Inv, AppliedWasAnswered, TombstonesStay
    <2>4. ReceiptIsTheEffect' /\ ReceiptsAreOwn' /\ AnswersMatchRequests'
      BY <2>1 DEF Inv, ReceiptIsTheEffect, ReceiptsAreOwn, AnswersMatchRequests
    <2> QED
      BY <2>2, <2>3, <2>4 DEF Inv
  <1>10. ASSUME NEW k \in Keys, Expire(k) \/ Redact(k) PROVE Inv'
    <2>1. PICK s \in {"in_progress", "completed", "redacted"}, e \in BOOLEAN :
            /\ record' = [record EXCEPT ![k].status = s, ![k].expired = e]
            /\ s = "redacted" => record[k].status = "completed" /\ ~e
            /\ s # "redacted" => record[k].status = s
      <3>1. CASE Expire(k)
        <4>1. record' = [record EXCEPT ![k].status = record[k].status, ![k].expired = TRUE]
          BY <3>1, <1>t DEF Expire, TypeOK, Rows
        <4> QED
          BY <3>1, <4>1 DEF Expire
      <3>2. CASE Redact(k)
        BY <3>2 DEF Redact
      <3> QED
        BY <1>10, <3>1, <3>2
    <2>2. UNCHANGED <<pc, suspends, answer, applied>>
      BY <1>10 DEF Expire, Redact
    <2>3. /\ record'[k] = [record[k] EXCEPT !.status = s, !.expired = e] /\ record'[k] \in Rows
          /\ record'[k].status = s /\ record'[k].by = record[k].by /\ record'[k].body = record[k].body
          /\ record'[k].expired = e
          /\ \A j \in Keys : j # k => record'[j] = record[j]
      BY <2>1, <1>t DEF TypeOK, Rows
    <2>4. TypeOK'
      BY <2>1, <2>2, <2>3, <1>t DEF TypeOK
    <2>5. ReceiptIsTheEffect'
      <3>1. /\ record[k].status \in {"completed", "redacted"} <=> s \in {"completed", "redacted"}
            /\ record'[k].by = record[k].by
        BY <2>1, <2>3
      <3>2. Transactional(k) => applied'[k] = IF s \in {"completed", "redacted"} THEN {record'[k].by} ELSE {}
        BY <3>1, <2>1, <2>2 DEF Inv, ReceiptIsTheEffect
      <3> QED
        BY <3>2, <2>2, <2>3 DEF Inv, ReceiptIsTheEffect
    <2>6. ReceiptsAreOwn'
      <3>1. s \in {"completed", "redacted"} => record[k].status \in {"completed", "redacted"}
        BY <2>1
      <3>2. s = "completed" => record[k].status = "completed"
        BY <2>1
      <3>3. s \in {"completed", "redacted"} =>
              /\ record'[k].by \in Requests /\ KeyOf[record'[k].by] = k
              /\ s = "completed" => BodyOf[record'[k].by] = record'[k].body
        <4>1. \A j \in Keys : record[j].status \in {"completed", "redacted"} =>
                /\ record[j].by \in Requests /\ KeyOf[record[j].by] = j
                /\ record[j].status = "completed" => BodyOf[record[j].by] = record[j].body
          BY DEF Inv, ReceiptsAreOwn
        <4>2. record'[k].by = record[k].by /\ record'[k].body = record[k].body
          BY <2>3
        <4> QED
          BY <3>1, <3>2, <4>1, <4>2
      <3> SUFFICES ASSUME NEW j \in Keys, record'[j].status \in {"completed", "redacted"}
                   PROVE  /\ record'[j].by \in Requests /\ KeyOf[record'[j].by] = j
                          /\ record'[j].status = "completed" => BodyOf[record'[j].by] = record'[j].body
        BY DEF ReceiptsAreOwn
      <3>4. CASE j = k
        <4>1. record'[k].status = s
          BY <2>3
        <4> QED
          BY <3>3, <3>4, <4>1
      <3>5. CASE j # k
        <4>1. record'[j] = record[j]
          BY <3>5, <2>3
        <4> QED
          BY <4>1 DEF Inv, ReceiptsAreOwn
      <3> QED
        BY <3>4, <3>5
    <2>7. TombstonesStay'
      BY <2>1, <2>2, <2>3 DEF Inv, TombstonesStay
    <2>8. AnswersMatchRequests' /\ AppliedWasAnswered'
      BY <2>2 DEF Inv, AnswersMatchRequests, AppliedWasAnswered
    <2> QED
      BY <2>4, <2>5, <2>6, <2>7, <2>8 DEF Inv
  <1>11. CASE UNCHANGED vars
    BY <1>11 DEF vars, Inv, TypeOK, TombstonesStay, ReceiptIsTheEffect, ReceiptsAreOwn,
                 AnswersMatchRequests, AppliedWasAnswered
  <1> QED
    BY <1>1, <1>2, <1>3, <1>4, <1>5, <1>6, <1>7, <1>8, <1>9, <1>10, <1>11 DEF Next, RequestStep

-----------------------------------------------------------------------------
(* Theorems.                                                               *)

\* For transactional operations a kept receipt always stands for exactly one
\* committed effect, answers are results of the same key and body, and a
\* refused request committed nothing.
THEOREM ReceiptSafety ==
    Spec => [](TypeOK /\ ReceiptIsTheEffect /\ AnswersMatchRequests /\ RefusedMeansUnapplied)
  <1>1. Inv => TypeOK /\ ReceiptIsTheEffect /\ AnswersMatchRequests /\ RefusedMeansUnapplied
    <2>1. Inv => RefusedMeansUnapplied
      <3> SUFFICES ASSUME Inv, NEW r \in Requests, Transactional(KeyOf[r]),
                          answer[r] = "refused", r \in applied[KeyOf[r]]
                   PROVE  FALSE
        BY DEF RefusedMeansUnapplied
      <3>1. answer[r] = r
        BY IdempotencyAssumption DEF Inv, AppliedWasAnswered
      <3> QED
        BY <3>1, IdempotencyAssumption
    <2> QED
      BY <2>1 DEF Inv
  <1> QED
    BY InitInv, NextInv, <1>1, PTL DEF Spec

\* The steps of the ledger that the rows of one key allow.
LEMMA ViewOfUpdate ==
    ASSUME TypeOK, NEW k \in Keys, NEW row, record' = [record EXCEPT ![k] = row]
    PROVE  LedgerView' = [LedgerView EXCEPT ![k] = LedgerEntry(row)]
  BY DEF TypeOK, LedgerView

LEMMA StepRefines ==
    Inv /\ [Next]_vars => [Ledger!LNext]_<<LedgerView, answer>>
  <1> SUFFICES ASSUME Inv, [Next]_vars PROVE Ledger!LNext \/ UNCHANGED <<LedgerView, answer>>
    OBVIOUS
  <1>t. TypeOK
    BY DEF Inv
  <1>k. \A r \in Requests : Key(r) \in Keys /\ KeyOf[r] = Key(r)
    BY IdempotencyAssumption DEF Key
  <1>v. \A k \in Keys : LedgerView[k] = LedgerEntry(record[k])
    BY DEF LedgerView
  <1>e. /\ \A row : row.status = "completed" =>
              LedgerEntry(row) = [state |-> "done", by |-> row.by, lapsed |-> row.expired]
        /\ \A row : row.status = "redacted" =>
              LedgerEntry(row) = [state |-> "withdrawn", by |-> row.by, lapsed |-> FALSE]
        /\ \A row : row.status \notin {"completed", "redacted"} => LedgerEntry(row) = Ledger!Free
    BY DEF LedgerEntry, Ledger!Free
  <1>n. \A r \in Requests : pc[r] # "done" => answer[r] = "none"
    BY DEF Inv, AppliedWasAnswered
  <1>r. \A r \in Requests : (pc[r] # "done" /\ Answer(r, "refused") /\ LedgerView' = LedgerView) => Ledger!Refuse(r)
    BY <1>n DEF Answer, Ledger!Refuse
  <1>p. ASSUME NEW r \in Requests, pc[r] # "done", Answer(r, r),
               \/ record[Key(r)].status \notin {"completed", "redacted"}
               \/ record[Key(r)].status = "completed" /\ record[Key(r)].expired,
               NEW receipt \in Receipts(r), record' = [record EXCEPT ![Key(r)] = receipt]
        PROVE  Ledger!Perform(r)
    <2>1. receipt.by = r /\ receipt.status \in {"completed", "redacted"} /\ ~receipt.expired
      BY ReceiptRow
    <2>2. receipt.expired = FALSE
      BY <1>p DEF Receipts
    <2>3. \E s \in {"done", "withdrawn"} : LedgerEntry(receipt) = [state |-> s, by |-> r, lapsed |-> FALSE]
      BY <2>1, <2>2, <1>e
    <2>4. LedgerView' = [LedgerView EXCEPT ![Key(r)] = LedgerEntry(receipt)]
      BY <1>p, <1>t, <1>k, ViewOfUpdate
    <2>5. \E s \in {"done", "withdrawn"} :
             LedgerView' = [LedgerView EXCEPT ![KeyOf[r]] = [state |-> s, by |-> r, lapsed |-> FALSE]]
      BY <2>3, <2>4, <1>k
    <2>6. \/ LedgerView[KeyOf[r]].state = "free"
          \/ LedgerView[KeyOf[r]].state = "done" /\ LedgerView[KeyOf[r]].lapsed
      <3>1. CASE record[Key(r)].status \notin {"completed", "redacted"}
        BY <3>1, <1>v, <1>e, <1>k DEF Ledger!Free
      <3>2. CASE record[Key(r)].status = "completed" /\ record[Key(r)].expired
        BY <3>2, <1>v, <1>e, <1>k
      <3> QED
        BY <1>p, <3>1, <3>2
    <2>7. answer[r] = "none" /\ answer' = [answer EXCEPT ![r] = r]
      BY <1>p, <1>n DEF Answer
    <2> QED
      BY <2>5, <2>6, <2>7 DEF Ledger!Perform
  <1>1. ASSUME NEW r \in Requests, RefuseKey(r) PROVE Ledger!Refuse(r)
    <2>1. record' = record /\ pc[r] # "done" /\ Answer(r, "refused")
      BY <1>1 DEF RefuseKey
    <2> QED
      BY <2>1, <1>r DEF LedgerView
  <1>2. ASSUME NEW r \in Requests, ReplayReceipt(r) PROVE Ledger!Replay(r)
    <2>1. /\ record[Key(r)].status = "completed" /\ record[Key(r)].body = BodyOf[r]
          /\ answer' = [answer EXCEPT ![r] = record[Key(r)].by]
          /\ record' = record /\ pc[r] = "idle"
      BY <1>2 DEF ReplayReceipt, Current, Absent, Answer
    <2>2. LedgerView[KeyOf[r]].state = "done" /\ LedgerView[KeyOf[r]].by = record[Key(r)].by
      BY <2>1, <1>v, <1>e, <1>k
    <2>3. BodyOf[record[Key(r)].by] = BodyOf[r]
      BY <2>1, <1>k DEF Inv, ReceiptsAreOwn
    <2>4. LedgerView' = LedgerView /\ answer[r] = "none"
      BY <2>1, <1>n DEF LedgerView
    <2> QED
      BY <2>1, <2>2, <2>3, <2>4 DEF Ledger!Replay
  <1>3. ASSUME NEW r \in Requests, Reserve(r)
        PROVE  Ledger!Drop(Key(r)) \/ UNCHANGED <<LedgerView, answer>>
    <2>1. record' = [record EXCEPT ![Key(r)] = Reservation(r)] /\ answer' = answer
      BY <1>3 DEF Reserve
    <2>2. LedgerView' = [LedgerView EXCEPT ![Key(r)] = Ledger!Free]
      <3>1. Reservation(r).status \notin {"completed", "redacted"}
        BY DEF Reservation
      <3>2. LedgerEntry(Reservation(r)) = Ledger!Free
        BY <3>1, <1>e
      <3> QED
        BY <2>1, <3>2, <1>t, <1>k, ViewOfUpdate
    <2>3. record[Key(r)].status # "redacted"
      BY <1>3, NotWithdrawn DEF Reserve
    <2>4. CASE record[Key(r)].status = "completed"
      <3>1. record[Key(r)].expired
        BY <1>3, <2>4 DEF Reserve, Current
      <3> QED
        BY <2>1, <2>2, <2>4, <3>1, <1>v, <1>e, <1>k DEF Ledger!Drop
    <2>5. CASE record[Key(r)].status # "completed"
      <3>1. LedgerView[Key(r)] = Ledger!Free
        BY <2>3, <2>5, <1>v, <1>e, <1>k
      <3> QED
        BY <2>1, <2>2, <3>1 DEF LedgerView
    <2> QED
      BY <2>4, <2>5
  <1>4. ASSUME NEW r \in Requests, RunSingle(r) PROVE Ledger!Perform(r) \/ Ledger!Refuse(r)
    <2>1. \/ record[Key(r)].status \notin {"completed", "redacted"}
          \/ record[Key(r)].status = "completed" /\ record[Key(r)].expired
      BY <1>4, NotWithdrawn DEF RunSingle, Current
    <2>2. pc[r] # "done"
      BY <1>4 DEF RunSingle
    <2>3. CASE Answer(r, "refused") /\ UNCHANGED <<record, applied>>
      BY <2>2, <2>3, <1>r DEF LedgerView
    <2>4. ASSUME NEW receipt \in Receipts(r), record' = [record EXCEPT ![Key(r)] = receipt], Answer(r, r)
          PROVE  Ledger!Perform(r)
      BY <2>1, <2>2, <2>4, <1>p
    <2> QED
      BY <1>4, <2>3, <2>4 DEF RunSingle
  <1>5. ASSUME NEW r \in Requests, RouteCommits(r) PROVE Ledger!Perform(r)
    <2>1. PICK receipt \in Receipts(r) : record' = [record EXCEPT ![Key(r)] = receipt]
      BY <1>5 DEF RouteCommits
    <2>2. pc[r] # "done" /\ Answer(r, r) /\ record[Key(r)].status = "in_progress"
      BY <1>5 DEF RouteCommits, Storable
    <2> QED
      BY <2>1, <2>2, <1>p
  <1>6. ASSUME NEW r \in Requests, RouteRaises(r) \/ RouteSuspends(r) \/ ProviderAnswers(r)
        PROVE  UNCHANGED <<LedgerView, answer>>
    BY <1>6 DEF RouteRaises, RouteSuspends, ProviderAnswers, LedgerView
  <1>7. ASSUME NEW r \in Requests, FileOperation(r) \/ FileReceipt(r)
        PROVE  Ledger!Perform(r) \/ UNCHANGED <<LedgerView, answer>>
    <2>1. CASE UNCHANGED <<record, answer>>
      BY <2>1 DEF LedgerView
    <2>2. ASSUME pc[r] = "filed", Storable(r), Answer(r, r),
                 NEW receipt \in Receipts(r), record' = [record EXCEPT ![Key(r)] = receipt]
          PROVE  Ledger!Perform(r)
      BY <2>2, <1>p DEF Storable
    <2> QED
      BY <1>7, <2>1, <2>2 DEF FileOperation, FileReceipt
  <1>8. ASSUME NEW r \in Requests, Cleanup(r) PROVE Ledger!Refuse(r)
    <2>1. pc[r] # "done" /\ Answer(r, "refused")
      BY <1>8 DEF Cleanup
    <2>2. CASE record' = record
      BY <2>1, <2>2, <1>r DEF LedgerView
    <2>3. CASE record[Key(r)].status = "in_progress" /\ record' = [record EXCEPT ![Key(r)] = Absent]
      <3>1. LedgerView' = [LedgerView EXCEPT ![Key(r)] = Ledger!Free]
        <4>1. Absent.status \notin {"completed", "redacted"}
          BY DEF Absent
        <4>2. LedgerEntry(Absent) = Ledger!Free
          BY <4>1, <1>e
        <4> QED
          BY <2>3, <4>2, <1>t, <1>k, ViewOfUpdate
      <3>2. LedgerView[Key(r)] = Ledger!Free
        BY <2>3, <1>v, <1>e, <1>k
      <3>3. LedgerView' = LedgerView
        BY <3>1, <3>2 DEF LedgerView
      <3> QED
        BY <2>1, <3>3, <1>r
    <2> QED
      BY <1>8, <1>t, <2>2, <2>3 DEF Cleanup, TypeOK
  <1>9. ASSUME NEW s \in Services, Crash(s) PROVE UNCHANGED <<LedgerView, answer>>
    BY <1>9 DEF Crash, LedgerView
  <1>10. ASSUME NEW k \in Keys, Expire(k) PROVE Ledger!Lapse(k) \/ UNCHANGED <<LedgerView, answer>>
    <2> DEFINE row == [record[k] EXCEPT !.expired = TRUE]
    <2>1. /\ record' = [record EXCEPT ![k] = row] /\ answer' = answer
          /\ row.status = record[k].status /\ row.by = record[k].by /\ row.expired = TRUE
      BY <1>10, <1>t DEF Expire, TypeOK, Rows
    <2> HIDE DEF row
    <2>2. LedgerView' = [LedgerView EXCEPT ![k] = LedgerEntry(row)]
      BY <2>1, <1>t, ViewOfUpdate
    <2>3. CASE record[k].status = "completed"
      <3>1. LedgerEntry(row) = [state |-> "done", by |-> record[k].by, lapsed |-> TRUE]
        BY <2>1, <2>3, <1>e
      <3>2. LedgerView[k] = [state |-> "done", by |-> record[k].by, lapsed |-> record[k].expired]
        BY <2>3, <1>v, <1>e
      <3>3. LedgerView[k].state = "done" /\ LedgerView[k].by = record[k].by
        BY <3>2
      <3>4. LedgerView' = [LedgerView EXCEPT ![k] = [state |-> "done", by |-> LedgerView[k].by, lapsed |-> TRUE]]
        BY <2>2, <3>1, <3>3
      <3> QED
        BY <2>1, <3>3, <3>4 DEF Ledger!Lapse
    <2>4. CASE record[k].status = "in_progress"
      <3>1. LedgerEntry(row) = Ledger!Free /\ LedgerView[k] = Ledger!Free
        BY <2>1, <2>4, <1>v, <1>e
      <3> QED
        BY <2>1, <2>2, <3>1 DEF LedgerView
    <2> QED
      BY <1>10, <2>3, <2>4 DEF Expire
  <1>11. ASSUME NEW k \in Keys, Redact(k) PROVE Ledger!Withdraw(k)
    <2> DEFINE row == [record[k] EXCEPT !.status = "redacted", !.expired = FALSE]
    <2>1. /\ record' = [record EXCEPT ![k] = row] /\ answer' = answer
          /\ record[k].status = "completed"
          /\ row.status = "redacted" /\ row.by = record[k].by
      BY <1>11, <1>t DEF Redact, TypeOK, Rows
    <2> HIDE DEF row
    <2>2. LedgerView' = [LedgerView EXCEPT ![k] = LedgerEntry(row)]
      BY <2>1, <1>t, ViewOfUpdate
    <2>3. LedgerEntry(row) = [state |-> "withdrawn", by |-> record[k].by, lapsed |-> FALSE]
      BY <2>1, <1>e
    <2>4. LedgerView[k] = [state |-> "done", by |-> record[k].by, lapsed |-> record[k].expired]
      BY <2>1, <1>v, <1>e
    <2>5. LedgerView[k].state = "done" /\ LedgerView[k].by = record[k].by
      BY <2>4
    <2>6. LedgerView' = [LedgerView EXCEPT ![k] = [state |-> "withdrawn", by |-> LedgerView[k].by, lapsed |-> FALSE]]
      BY <2>2, <2>3, <2>5
    <2> QED
      BY <2>1, <2>5, <2>6 DEF Ledger!Withdraw
  <1>12. CASE UNCHANGED vars
    BY <1>12 DEF vars, LedgerView
  <1> QED
    BY <1>1, <1>2, <1>3, <1>4, <1>5, <1>6, <1>7, <1>8, <1>9, <1>10, <1>11, <1>12, <1>k
       DEF Next, RequestStep, Ledger!LNext

\* The service implements the ledger: each operation is answered for at most
\* once while its receipt is kept, whatever kinds of operations are mixed and
\* even when the database refuses the receipts of file operations.
THEOREM LedgerRefinement == Spec => ImplementsLedger
  <1>1. Init => Ledger!LInit
    BY DEF Init, Ledger!LInit, LedgerView, LedgerEntry, Absent, Ledger!Free
  <1> QED
    BY <1>1, InitInv, NextInv, StepRefines, PTL
       DEF Spec, ImplementsLedger, Ledger!LSpec, Ledger!lvars

\* A step leaves a tombstone and its effects alone: nobody can reserve the key,
\* and no request that reserved it before can still store its receipt.
LEMMA TombstoneStep ==
    Inv /\ [Next]_vars =>
      [\A k \in Keys : (Transactional(k) /\ record[k].status = "redacted") =>
          record'[k].status = "redacted" /\ applied'[k] = applied[k]]_vars
  <1> DEFINE Stays == \A k \in Keys : (Transactional(k) /\ record[k].status = "redacted") =>
                          record'[k].status = "redacted" /\ applied'[k] = applied[k]
  <1> SUFFICES ASSUME Inv, Next PROVE Stays
    OBVIOUS
  <1>t. record \in [Keys -> Rows] /\ applied \in [Keys -> SUBSET Requests]
    BY DEF Inv, TypeOK
  <1>k. \A r \in Requests : /\ Key(r) \in Keys
                            /\ Transactional(Key(r)) => Kind(r) \in {"single", "route"}
    BY IdempotencyAssumption DEF Key, Kind, Transactional
  <1>a. \A r \in Requests : \A receipt :
          (record[Key(r)].status # "redacted" /\ record' = [record EXCEPT ![Key(r)] = receipt])
            => \A k \in Keys : record[k].status = "redacted" => record'[k] = record[k] /\ k # Key(r)
    BY <1>t
  <1>1. ASSUME NEW r \in Requests, Reserve(r) \/ RunSingle(r) PROVE Stays
    <2>1. record[Key(r)].status # "redacted"
      BY <1>1, NotWithdrawn DEF Reserve, RunSingle
    <2>2. \A k \in Keys : k # Key(r) => record'[k] = record[k] /\ applied'[k] = applied[k]
      BY <1>1, <1>t DEF Reserve, RunSingle
    <2> QED
      BY <2>1, <2>2
  <1>2. ASSUME NEW r \in Requests, RouteCommits(r) PROVE Stays
    <2>1. record[Key(r)].status # "redacted"
      BY <1>2 DEF RouteCommits, Storable
    <2>2. \A k \in Keys : k # Key(r) => record'[k] = record[k] /\ applied'[k] = applied[k]
      BY <1>2, <1>t DEF RouteCommits
    <2> QED
      BY <2>1, <2>2
  <1>3. ASSUME NEW r \in Requests, FileOperation(r) PROVE Stays
    BY <1>3, <1>k, <1>t DEF FileOperation
  <1>4. ASSUME NEW r \in Requests, FileReceipt(r) \/ Cleanup(r) PROVE Stays
    BY <1>4, <1>t DEF FileReceipt, Cleanup, Storable
  <1>5. ASSUME NEW k \in Keys, Expire(k) \/ Redact(k) PROVE Stays
    BY <1>5, <1>t DEF Expire, Redact
  <1>6. ASSUME UNCHANGED <<record, applied>> PROVE Stays
    BY <1>6
  <1> QED
    BY <1>1, <1>2, <1>3, <1>4, <1>5, <1>6
       DEF Next, RequestStep, RefuseKey, ReplayReceipt, RouteRaises, RouteSuspends, ProviderAnswers, Crash

\* Once the memory behind a receipt was deleted, its operation is never
\* performed again under that key.
THEOREM WithdrawnKeys == Spec => WithdrawnForever
  BY InitInv, NextInv, TombstoneStep, PTL DEF Spec, WithdrawnForever

-----------------------------------------------------------------------------
(* File operations.  Their effect precedes their receipt, so that only the  *)
(* protocol around the row keeps a second request out: the row of a         *)
(* reservation is neither taken over nor deleted by anyone but the request  *)
(* that made it, and an expired one is refused for ever.                    *)

IsFile(k) == KindOf[k] = "file"

\* The requests that may still act under k.
Acting(k) == {r \in Requests : KeyOf[r] = k /\ pc[r] \in {"reserved", "provider", "filed", "cleanup"}}

\* One request at a time acts under the key of a file operation, with the
\* reservation it made; before its own operation nothing counts as performed.
OneActs(k) ==
    /\ \A q, r \in Acting(k) : q = r
    /\ \A r \in Acting(k) :
         /\ record[k].status = "in_progress" /\ record[k].body = BodyOf[r]
         /\ applied[k] = IF pc[r] = "filed" THEN {r} ELSE {}

\* Without a row nothing was performed; and never twice.
Once(k) ==
    /\ record[k].status = "absent" => applied[k] = {}
    /\ \A q, r \in applied[k] : q = r

FileInv ==
    /\ Inv
    /\ \A k \in Keys : IsFile(k) => OneActs(k) /\ Once(k)

\* A key that a step leaves alone, with its requests.
LEMMA OtherKey ==
    ASSUME FileInv, NEW k \in Keys, IsFile(k),
           record'[k] = record[k], applied'[k] = applied[k],
           \A r \in Requests : KeyOf[r] = k => pc'[r] = pc[r]
    PROVE  OneActs(k)' /\ Once(k)'
  <1>1. Acting(k)' = Acting(k) /\ \A r \in Acting(k) : pc'[r] = pc[r]
    BY DEF Acting
  <1>2. OneActs(k) /\ Once(k)
    BY DEF FileInv
  <1> QED
    BY <1>1, <1>2 DEF OneActs, Once

\* A step by the one request that acts under a key: it goes on acting, or
\* stops, and what it leaves satisfies the invariant.
LEMMA ActingStep ==
    ASSUME FileInv, NEW k \in Keys, NEW r \in Requests, r \in Acting(k) \/ Acting(k) = {},
           NEW phase, pc' = [pc EXCEPT ![r] = phase], KeyOf[r] = k,
           phase \in {"reserved", "provider", "filed", "cleanup"} =>
              /\ record'[k].status = "in_progress" /\ record'[k].body = BodyOf[r]
              /\ applied'[k] = IF phase = "filed" THEN {r} ELSE {},
           Once(k)', IsFile(k)
    PROVE  OneActs(k)' /\ Once(k)'
  <1>1. pc \in [Requests -> {"idle", "reserved", "provider", "filed", "cleanup", "done"}]
    BY DEF FileInv, Inv, TypeOK
  <1>2. \A q \in Acting(k) : q = r
    BY DEF FileInv, OneActs
  <1>3. Acting(k)' \subseteq {r} /\ pc'[r] = phase
    BY <1>1, <1>2 DEF Acting
  <1>4. r \in Acting(k)' => phase \in {"reserved", "provider", "filed", "cleanup"}
    BY <1>3 DEF Acting
  <1> QED
    BY <1>3, <1>4 DEF OneActs

LEMMA InitFile == Init => FileInv
  <1> SUFFICES ASSUME Init PROVE FileInv
    OBVIOUS
  <1>1. \A k \in Keys : Acting(k) = {} /\ applied[k] = {}
    BY DEF Init, Acting
  <1> QED
    BY <1>1, InitInv DEF FileInv, OneActs, Once

\* Where the database takes every receipt, every step keeps the key of a file
\* operation with the one request that reserved it.
LEMMA NextFile ==
    ASSUME ~StorageFails
    PROVE  FileInv /\ [Next]_vars => FileInv'
  <1> SUFFICES ASSUME FileInv, [Next]_vars PROVE FileInv'
    OBVIOUS
  <1>i. Inv'
    BY NextInv DEF FileInv
  <1>t. /\ record \in [Keys -> Rows] /\ applied \in [Keys -> SUBSET Requests]
        /\ pc \in [Requests -> {"idle", "reserved", "provider", "filed", "cleanup", "done"}]
    BY DEF FileInv, Inv, TypeOK
  <1>c. \A r \in Requests : Key(r) = KeyOf[r] /\ Kind(r) = KindOf[KeyOf[r]]
    BY DEF Key, Kind
  <1> SUFFICES ASSUME NEW k \in Keys, IsFile(k) PROVE OneActs(k)' /\ Once(k)'
    BY <1>i DEF FileInv
  <1>o. OneActs(k) /\ Once(k)
    BY DEF FileInv
  <1>b. Absent.status = "absent"
    BY DEF Absent
  <1>1. ASSUME NEW r \in Requests, RequestStep(r), KeyOf[r] # k PROVE OneActs(k)' /\ Once(k)'
    <2>1. record'[k] = record[k]
      BY <1>1, <1>t, <1>c DEF RequestStep, RefuseKey, ReplayReceipt, Reserve, RunSingle, RouteCommits,
           RouteRaises, RouteSuspends, ProviderAnswers, FileOperation, FileReceipt, Cleanup
    <2>2. applied'[k] = applied[k]
      BY <1>1, <1>t, <1>c DEF RequestStep, RefuseKey, ReplayReceipt, Reserve, RunSingle, RouteCommits,
           RouteRaises, RouteSuspends, ProviderAnswers, FileOperation, FileReceipt, Cleanup
    <2>3. \A q \in Requests : KeyOf[q] = k => pc'[q] = pc[q]
      BY <1>1, <1>t DEF RequestStep, RefuseKey, ReplayReceipt, Reserve, RunSingle, RouteCommits,
           RouteRaises, RouteSuspends, ProviderAnswers, FileOperation, FileReceipt, Cleanup, Answer
    <2> QED
      BY <2>1, <2>2, <2>3, OtherKey
  <1>2. ASSUME NEW r \in Requests, KeyOf[r] = k, RefuseKey(r) \/ ReplayReceipt(r) PROVE OneActs(k)' /\ Once(k)'
    <2>1. UNCHANGED <<record, applied>> /\ pc[r] = "idle" /\ pc' = [pc EXCEPT ![r] = "done"]
      BY <1>2 DEF RefuseKey, ReplayReceipt, Answer
    <2>2. Acting(k)' = Acting(k) /\ \A q \in Acting(k) : pc'[q] = pc[q]
      BY <2>1, <1>t DEF Acting
    <2> QED
      BY <2>1, <2>2, <1>o DEF OneActs, Once
  <1>3. ASSUME NEW r \in Requests, KeyOf[r] = k, Reserve(r) PROVE OneActs(k)' /\ Once(k)'
    <2>1. /\ record' = [record EXCEPT ![k] = Reservation(r)]
          /\ applied' = [applied EXCEPT ![k] = AppliedBefore(r)]
          /\ pc' = [pc EXCEPT ![r] = "reserved"] /\ pc[r] = "idle"
          /\ ~Uncertain(r) /\ Current(r).status = "absent"
      BY <1>3, <1>c DEF Reserve
    <2>2. Reservation(r).status = "in_progress" /\ Reservation(r).body = BodyOf[r]
      BY DEF Reservation
    <2>3. record[k].status # "redacted" /\ (record[k].status = "completed" => record[k].expired)
      BY <2>1, <1>3, <1>c, NotWithdrawn DEF FileInv
    <2>4. record[k].status # "in_progress"
      BY <2>1, <1>3, <1>c DEF Uncertain, Current, IsFile
    <2>5. record[k].status \in {"absent", "completed"}
      BY <2>3, <2>4, <1>t DEF Rows
    <2>6. Acting(k) = {}
      BY <2>4, <1>o DEF OneActs
    <2>7. AppliedBefore(r) = {}
      BY <2>3, <2>5, <1>3, <1>c, <1>o DEF AppliedBefore, Once
    <2>8. record'[k].status = "in_progress" /\ record'[k].body = BodyOf[r] /\ applied'[k] = {}
      BY <2>1, <2>2, <2>7, <1>t
    <2>9. Once(k)'
      BY <2>8 DEF Once
    <2> QED
      BY <2>1, <2>6, <2>8, <2>9, <1>3, ActingStep
  <1>4. ASSUME NEW r \in Requests, KeyOf[r] = k, RunSingle(r) \/ RouteCommits(r) \/ RouteRaises(r) \/ RouteSuspends(r)
        PROVE  FALSE
    BY <1>4, <1>c DEF RunSingle, RouteCommits, RouteRaises, RouteSuspends, IsFile
  <1>a. ASSUME NEW r \in Requests, KeyOf[r] = k, pc[r] \in {"reserved", "provider", "filed", "cleanup"}
        PROVE  /\ r \in Acting(k)
               /\ record[k].status = "in_progress" /\ record[k].body = BodyOf[r]
               /\ applied[k] = IF pc[r] = "filed" THEN {r} ELSE {}
    BY <1>a, <1>o DEF Acting, OneActs
  <1>5. ASSUME NEW r \in Requests, KeyOf[r] = k, ProviderAnswers(r) PROVE OneActs(k)' /\ Once(k)'
    <2>1. UNCHANGED <<record, applied>> /\ pc[r] = "provider"
      BY <1>5 DEF ProviderAnswers
    <2>2. PICK phase \in {"reserved", "cleanup"} : pc' = [pc EXCEPT ![r] = phase]
      BY <1>5 DEF ProviderAnswers
    <2>3. Once(k)'
      BY <2>1, <1>o DEF Once
    <2> QED
      BY <2>1, <2>2, <2>3, <1>a, <1>5, ActingStep
  <1>6. ASSUME NEW r \in Requests, KeyOf[r] = k, FileOperation(r) PROVE OneActs(k)' /\ Once(k)'
    <2>1. pc[r] = "reserved" /\ record' = record
      BY <1>6 DEF FileOperation
    <2>2. /\ r \in Acting(k) /\ applied[k] = {}
          /\ record'[k].status = "in_progress" /\ record'[k].body = BodyOf[r]
      BY <2>1, <1>6, <1>a
    <2>3. CASE applied' = [applied EXCEPT ![k] = @ \cup {r}] /\ pc' = [pc EXCEPT ![r] = "filed"]
      <3>1. applied'[k] = {r}
        BY <2>2, <2>3, <1>t
      <3>2. Once(k)'
        BY <2>2, <3>1 DEF Once
      <3> QED
        BY <2>2, <2>3, <3>1, <3>2, <1>6, ActingStep
    <2>4. CASE UNCHANGED applied /\ pc' = [pc EXCEPT ![r] = "cleanup"]
      <3>1. Once(k)'
        BY <2>2, <2>4 DEF Once
      <3> QED
        BY <2>2, <2>4, <3>1, <1>6, ActingStep
    <2> QED
      BY <1>6, <1>c, <2>3, <2>4 DEF FileOperation
  <1>7. ASSUME NEW r \in Requests, KeyOf[r] = k, FileReceipt(r) PROVE OneActs(k)' /\ Once(k)'
    <2>1. pc[r] = "filed" /\ applied' = applied
      BY <1>7 DEF FileReceipt
    <2>2. r \in Acting(k) /\ applied[k] = {r} /\ Storable(r)
      BY <2>1, <1>7, <1>a, <1>c DEF Storable
    <2>3. PICK receipt \in Receipts(r) : record' = [record EXCEPT ![k] = receipt]
      BY <2>2, <1>7, <1>c DEF FileReceipt
    <2>4. pc' = [pc EXCEPT ![r] = "done"]
      BY <2>2, <1>7 DEF FileReceipt, Answer
    <2>5. record'[k].status # "absent"
      BY <2>3, <1>t, ReceiptRow
    <2>6. Once(k)'
      BY <2>1, <2>2, <2>5 DEF Once
    <2> QED
      BY <2>2, <2>4, <2>6, <1>7, ActingStep
  <1>8. ASSUME NEW r \in Requests, KeyOf[r] = k, Cleanup(r) PROVE OneActs(k)' /\ Once(k)'
    <2>1. pc[r] = "cleanup" /\ applied' = applied /\ pc' = [pc EXCEPT ![r] = "done"]
      BY <1>8 DEF Cleanup, Answer
    <2>2. r \in Acting(k) /\ applied[k] = {}
      BY <2>1, <1>8, <1>a
    <2>3. Once(k)'
      BY <2>1, <2>2 DEF Once
    <2> QED
      BY <2>1, <2>2, <2>3, <1>8, ActingStep
  <1>9. ASSUME NEW s \in Services, Crash(s) PROVE OneActs(k)' /\ Once(k)'
    <2>1. /\ pc' = [r \in Requests |-> IF ServiceOf[r] = s /\ pc[r] # "idle" THEN "done" ELSE pc[r]]
          /\ UNCHANGED <<record, applied>>
      BY <1>9 DEF Crash
    <2>2. Acting(k)' \subseteq Acting(k) /\ \A q \in Acting(k)' : pc'[q] = pc[q]
      BY <2>1, <1>t DEF Acting
    <2> QED
      BY <2>1, <2>2, <1>o DEF OneActs, Once
  <1>10. ASSUME NEW j \in Keys, Expire(j) \/ Redact(j) PROVE OneActs(k)' /\ Once(k)'
    <2>1. UNCHANGED <<pc, applied>>
      BY <1>10 DEF Expire, Redact
    <2>2. Acting(k)' = Acting(k)
      BY <2>1 DEF Acting
    <2>3. CASE j # k
      <3>1. record'[k] = record[k]
        BY <2>3, <1>10, <1>t DEF Expire, Redact
      <3> QED
        BY <2>1, <2>2, <3>1, <1>o DEF OneActs, Once
    <2>4. CASE Expire(k)
      <3>1. record'[k].status = record[k].status /\ record'[k].body = record[k].body
        BY <2>4, <1>t DEF Expire, Rows
      <3> QED
        BY <2>1, <2>2, <3>1, <1>o DEF OneActs, Once
    <2>5. CASE Redact(k)
      <3>1. record[k].status = "completed" /\ record'[k].status = "redacted"
        BY <2>5, <1>t DEF Redact, Rows
      <3>2. Acting(k) = {}
        BY <3>1, <1>o DEF OneActs
      <3> QED
        BY <2>1, <2>2, <3>1, <3>2, <1>o DEF OneActs, Once
    <2> QED
      BY <1>10, <2>3, <2>4, <2>5
  <1>11. CASE UNCHANGED vars
    BY <1>11, OtherKey DEF vars
  <1> QED
    BY <1>1, <1>2, <1>3, <1>4, <1>5, <1>6, <1>7, <1>8, <1>9, <1>10, <1>11 DEF Next, RequestStep

\* A file operation whose outcome is uncertain is never repeated under its key
\* while the database takes its receipt: expiry, crashes between the operation
\* and the receipt, and retries through other services included.
THEOREM FileSafety ==
    ASSUME ~StorageFails
    PROVE  Spec => []FileOperationsNotRepeated
  <1>1. FileInv => FileOperationsNotRepeated
    <2> SUFFICES ASSUME FileInv, NEW k \in Keys, IsFile(k)
                 PROVE  Cardinality(applied[k]) <= 1
      BY DEF FileOperationsNotRepeated, IsFile
    <2>1. applied[k] = {} \/ \E r : applied[k] = {r}
      <3>1. \A q, r \in applied[k] : q = r
        BY DEF FileInv, Once
      <3> QED
        BY <3>1
    <2>2. Cardinality({}) = 0 /\ \A r : Cardinality({r}) = 1
      BY FS_EmptySet, FS_Singleton
    <2>3. Cardinality(applied[k]) = 0 \/ Cardinality(applied[k]) = 1
      BY <2>1, <2>2, Zenon
    <2> QED
      BY <2>3
  <1> QED
    BY InitFile, NextFile, <1>1, PTL DEF Spec
=============================================================================
