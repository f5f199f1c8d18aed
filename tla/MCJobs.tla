------------------------------- MODULE MCJobs -------------------------------
(* Instances of Jobs for TLC.                                              *)
EXTENDS Jobs, TLC

CONSTANTS j1, j2, p1, p2, p3, r1, r2, r3

\* p1 and p2 are processes of one host, p3 of another one.
TwoHosts == [p \in Procs |-> IF p = p3 THEN "B" ELSE "A"]

\* Each process has one worker thread.
OneEach == (r1 :> p1) @@ (r2 :> p2) @@ (r3 :> p3)

\* Jobs are interchangeable until they are enqueued.
InOrder == job[j2].status # "absent" => job[j1].status # "absent"

ServicesNext == Next /\ InOrder'

ServicesSpec == Init /\ [][ServicesNext]_vars /\ Fairness
=============================================================================
