------------------------------ MODULE Sessions ------------------------------
(***************************************************************************)
(* Projects, sessions and what agents state in them: titles, summaries and *)
(* other notes, each an evidence event and a claim or a candidate of it.   *)
(*                                                                         *)
(* A request writes its own row, the event and the statement one after the *)
(* other; any of these may fail.                                           *)
(***************************************************************************)
EXTENDS Naturals

CONSTANTS
    Projects,
    ProjectTitles,
    Meetings,       \* sessions
    Notes           \* statements that are neither titles nor summaries

ASSUME SessionsAssumption == Projects \cap Meetings = {}

Summaries == Meetings \X {"first", "second"}
Statements == (Projects \X ProjectTitles) \cup Summaries \cup Notes

VARIABLES
    title,          \* projects.title
    meeting,        \* sessions.ended_at
    ended,          \* the summaries sessions were ended with
    source,         \* the evidence events of statements
    statement,      \* the status of their claims, or "pending" candidates
    withdrawn       \* ghost: statements somebody decided about

sessionVars == <<title, meeting, ended, source, statement, withdrawn>>

SessionsInit ==
    /\ title = [p \in Projects |-> "none"]
    /\ meeting = [m \in Meetings |-> "none"]
    /\ ended = {} /\ source = {} /\ withdrawn = {}
    /\ statement = [s \in Statements |-> "absent"]

Citable == {"active", "core"}

\* A mutated form of Committed: every write is a transaction of its own.
CommittedEach(done) == done

\* Of the three writes of a request those that remain when only the first were
\* carried out: its transaction has all of them or none.
Committed(done) == IF done = 3 THEN 3 ELSE 0

\* ingest: the batch with its evidence event.
Ingested(s, done) == source' = IF Committed(done) >= 2 THEN source \cup {s} ELSE source

\* The evidence, and write_claim or the candidate of a service.
Stated(s, status, done) ==
    /\ Ingested(s, done)
    /\ statement' = IF Committed(done) = 3 THEN [statement EXCEPT ![s] = status] ELSE statement

\* create_project: the title is stated unless a title of the project is in force,
\* which keeps saying what it said.
CreateProject(p, t, done) ==
    LET titled == \E u \in ProjectTitles : statement[<<p, u>>] \in Citable
    IN  /\ title' = IF Committed(done) >= 1 THEN [title EXCEPT ![p] = t] ELSE title
        /\ IF titled THEN UNCHANGED <<source, statement>> ELSE Stated(<<p, t>>, "active", done)
        /\ UNCHANGED <<meeting, ended, withdrawn>>

StartSession(m) ==
    /\ meeting[m] = "none"
    /\ meeting' = [meeting EXCEPT ![m] = "open"]
    /\ UNCHANGED <<title, ended, source, statement, withdrawn>>

\* Without a summary, or without remembering it.
EndQuietly(m) ==
    /\ meeting[m] # "none"
    /\ meeting' = [meeting EXCEPT ![m] = "ended"]
    /\ UNCHANGED <<title, ended, source, statement, withdrawn>>

\* A library states the summary as a claim, a service as it was asked to.  A
\* session may be ended again.
EndSession(m, s, status, done) ==
    /\ meeting[m] # "none" /\ s \in Summaries \ ended /\ s[1] = m
    /\ meeting' = IF Committed(done) >= 1 THEN [meeting EXCEPT ![m] = "ended"] ELSE meeting
    /\ ended' = IF Committed(done) >= 1 THEN ended \cup {s} ELSE ended
    /\ Stated(s, status, done)
    /\ UNCHANGED <<title, withdrawn>>

\* remember: the batch of a candidate is its own row.
Remember(n, status, done) ==
    /\ statement[n] = "absent" /\ n \notin withdrawn
    /\ Stated(n, status, done)
    /\ UNCHANGED <<title, meeting, ended, withdrawn>>

\* Any decision about a statement, a dispute, an erasure or a deletion.
Reconsider(s, status) ==
    /\ statement[s] # "absent"
    /\ statement' = [statement EXCEPT ![s] = status]
    /\ withdrawn' = withdrawn \cup {s}
    /\ UNCHANGED <<title, meeting, ended, source>>

SessionsNext ==
    \/ \E p \in Projects, t \in ProjectTitles, done \in 0..3 : CreateProject(p, t, done)
    \/ \E m \in Meetings :
        \/ StartSession(m) \/ EndQuietly(m)
        \/ \E s \in Summaries, status \in {"active", "pending"}, done \in 0..3 : EndSession(m, s, status, done)
    \/ \E n \in Notes, status \in {"active", "pending"}, done \in 0..3 : Remember(n, status, done)
    \/ \E s \in Statements, status \in {"absent", "active", "core", "retired"} : Reconsider(s, status)

-----------------------------------------------------------------------------
\* A session that was ended with a summary left it in memory, a project is known
\* there by a title, and evidence of a statement has its statement, until somebody
\* decides about it: whichever write of the requests failed.
RequestsAreWhole ==
    /\ \A s \in ended \cup source : statement[s] # "absent" \/ s \in withdrawn
    /\ \A p \in Projects : title[p] # "none" =>
        \E t \in ProjectTitles : statement[<<p, t>>] \in Citable \/ <<p, t>> \in withdrawn
=============================================================================
