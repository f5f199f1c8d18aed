------------------------------- MODULE Tasks -------------------------------
(***************************************************************************)
(* Review tasks: what waits for a person, with its wording, until somebody *)
(* resolves, dismisses or defers it.                                       *)
(*                                                                         *)
(* Tasks are generated from what is pending, decided upon elsewhere, and   *)
(* scrubbed when what they are about is redacted.  A request of the        *)
(* service is one transaction; a library reads what is pending and whether *)
(* it has a task before it writes one.                                     *)
(***************************************************************************)
EXTENDS Naturals, Sequences

CONSTANTS
    Objects,        \* candidates, conflict families and reflections
    Inferences,
    Flags           \* content_risk_flags

VARIABLES
    waiting,        \* what is pending review: its status
    wording,        \* of the objects and inferences: "live" or "redacted"
    tasks,          \* review_tasks of each target, in the order they were made
    reader,         \* what a library has read of a target
    carried         \* targets that a library read before they were redacted

taskVars == <<waiting, wording, tasks, reader, carried>>

Targets == Objects \cup Inferences \cup Flags
Unsettled == {"open", "deferred"}
Closed == {"resolved", "dismissed"}
NoReader == [target |-> "none", says |-> "none"]

TasksInit ==
    /\ waiting = [t \in Targets |-> "absent"]
    /\ wording = [t \in Targets |-> "live"]
    /\ tasks = [t \in Targets |-> <<>>]
    /\ reader = NoReader
    /\ carried = {}

Some(t, statuses) == \E i \in DOMAIN tasks[t] : tasks[t][i].status \in statuses

-----------------------------------------------------------------------------
(* What waits.                                                             *)

\* A reflection turns stale again, a family is reopened; a flag stays.
Appear(t) ==
    /\ waiting[t] # "pending" /\ (t \in Flags => waiting[t] = "absent")
    /\ waiting' = [waiting EXCEPT ![t] = "pending"]
    /\ UNCHANGED <<wording, tasks, reader, carried>>

\* Decided by any other way than the console: its tasks stay as they are.
Decide(t) ==
    /\ waiting[t] = "pending" /\ t \notin Flags
    /\ waiting' = [waiting EXCEPT ![t] = "decided"]
    /\ UNCHANGED <<wording, tasks, reader, carried>>

\* The console resolves the open tasks about what it decided.
DecideOnConsole(t) ==
    /\ waiting[t] = "pending" /\ t \in Objects
    /\ waiting' = [waiting EXCEPT ![t] = "decided"]
    /\ tasks' = [tasks EXCEPT ![t] = [i \in DOMAIN @ |->
            IF @[i].status = "open" THEN [@[i] EXCEPT !.status = "resolved"] ELSE @[i]]]
    /\ UNCHANGED <<wording, reader, carried>>

\* A mutated form of Scrubbed: closed tasks keep what they say.
ScrubbedIfOpen(t) ==
    [tasks EXCEPT ![t] = [i \in DOMAIN @ |->
        IF @[i].status \in Unsettled THEN [@[i] EXCEPT !.says = "redacted"] ELSE @[i]]]

Scrubbed(t) == [tasks EXCEPT ![t] = [i \in DOMAIN @ |-> [@[i] EXCEPT !.says = "redacted"]]]

\* A claim's redaction reaches the families it is in; a candidate is rejected by
\* it, a reflection waits for its refresh.
Redact(t) ==
    /\ waiting[t] # "absent" /\ t \notin Flags
    /\ wording' = [wording EXCEPT ![t] = "redacted"]
    /\ \E status \in {"pending", "decided"} : waiting' = [waiting EXCEPT ![t] = status]
    /\ tasks' = Scrubbed(t)
    /\ carried' = IF reader.target = t THEN carried \cup {t} ELSE carried
    /\ UNCHANGED reader

-----------------------------------------------------------------------------
(* Tasks.                                                                  *)

\* create_review_task returns an unsettled task of the target.
Wanted(t) == waiting[t] = "pending" /\ ~ Some(t, Unsettled)

NewTask(says) == [status |-> "open", says |-> says]

\* Everything pending, in one transaction.  One pending inference makes it raise,
\* and so does a flag, but for one that a task was closed about: nothing is kept.
Generate ==
    /\ \A t \in Inferences : waiting[t] # "pending"
    /\ \A t \in Flags : waiting[t] = "pending" => Some(t, Closed)
    /\ tasks' = [t \in Targets |-> IF t \in Objects /\ Wanted(t)
                                   THEN Append(tasks[t], NewTask(wording[t])) ELSE tasks[t]]
    /\ UNCHANGED <<waiting, wording, reader, carried>>

\* A library makes one task after the other, until it raises; a program makes
\* those that it wants itself.
ReadTarget(t) ==
    /\ reader = NoReader
    /\ Wanted(t)
    /\ reader' = [target |-> t, says |-> wording[t]]
    /\ UNCHANGED <<waiting, wording, tasks, carried>>

CreateTask ==
    /\ reader # NoReader
    /\ tasks' = [tasks EXCEPT ![reader.target] = Append(@, NewTask(reader.says))]
    /\ reader' = NoReader
    /\ UNCHANGED <<waiting, wording, carried>>

\* Whatever its status was.
Transition(t, i, status) ==
    /\ i \in DOMAIN tasks[t]
    /\ tasks' = [tasks EXCEPT ![t][i].status = status]
    /\ UNCHANGED <<waiting, wording, reader, carried>>

TasksNext ==
    \/ \E t \in Targets :
         \/ Appear(t) \/ Decide(t) \/ DecideOnConsole(t) \/ Redact(t) \/ ReadTarget(t)
         \/ \E i \in DOMAIN tasks[t], status \in {"resolved", "dismissed", "deferred"} : Transition(t, i, status)
    \/ Generate
    \/ CreateTask

-----------------------------------------------------------------------------
(* Properties.                                                             *)

\* No task, open or closed, says what was redacted, unless a library had read it
\* before.
TasksFollowTheirTargets ==
    \A t \in Targets \ carried :
        wording[t] = "redacted" => \A i \in DOMAIN tasks[t] : tasks[t][i].says = "redacted"
=============================================================================
