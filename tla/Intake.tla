------------------------------- MODULE Intake -------------------------------
(***************************************************************************)
(* Evidence comes in, is raised to stricter levels and erased, while       *)
(* extractions and advisory tasks read it, send it to a language model and *)
(* store what came back.                                                   *)
(*                                                                         *)
(* A service reads and stores in one transaction.  Where an answer of the  *)
(* model is missing it rolls back, asks with neither lock nor transaction, *)
(* and repeats the request.  A library process reads, asks and stores one  *)
(* after the other.                                                        *)
(***************************************************************************)
EXTENDS Naturals, Sequences

CONSTANTS
    Events,     \* evidence events, identified by their content
    Tasks,      \* extractions and advisory tasks
    Repairs     \* max_repair_attempts of an extraction

ASSUME IntakeAssumption == Repairs \in 0..2

VARIABLES
    event,      \* evidence_events
    task,       \* the requests for them, and how far they are
    candidate,  \* candidate_claims, by the extraction and the evidence
    late,       \* ghost: times a request sent text since it was raised or erased
    held        \* ghost: candidates a library process stored of text erased since it read it

intakeVars == <<event, task, candidate, late, held>>

\* "personal" also stands for public, "private" for sensitive.
Levels == {"personal", "private", "secret"}
Above(a, b) == <<a, b>> \in {<<"private", "personal">>, <<"secret", "personal">>, <<"secret", "private">>}

\* A rule based extractor, a model on this machine, a model over the network.
Providers == {"rules", "local", "remote"}

NoEvent == [level |-> "none", text |-> "none"]
NoCandidate == [status |-> "none", text |-> "none", linked |-> FALSE]

\* input: the evidence as it was sent; answers: the model's, that passed
\* validation or did not; run: the llm_run that remains.
NoTask == [mode |-> "none", kind |-> "none", provider |-> "none", evidence |-> {}, input |-> <<>>,
              answers |-> <<>>, phase |-> "none", run |-> "none"]

IntakeInit ==
    /\ event = [e \in Events |-> NoEvent]
    /\ task = [r \in Tasks |-> NoTask]
    /\ candidate = [r \in Tasks |-> [e \in Events |-> NoCandidate]]
    /\ late = [r \in Tasks |-> 0]
    /\ held = {}

Known(e) == event[e] # NoEvent

Blocked(provider, input) ==
    \E e \in DOMAIN input :
        \/ provider # "rules" /\ input[e].level = "secret"
        \/ provider = "remote" /\ input[e].level = "private"

\* May what a request sends still be sent, by the evidence there is.
Sendable(r, events) ==
    /\ ~Blocked(task[r].provider, [e \in task[r].evidence |-> events[e]])
    /\ \A e \in DOMAIN task[r].input : task[r].input[e].text = "own" => events[e].text = "own"

-----------------------------------------------------------------------------
(* Evidence.                                                               *)

\* Evidence that exists is only written again for a stricter level, with the
\* content that came in.
WriteEvent(e, level) ==
    /\ ~Known(e) \/ Above(level, event[e].level)
    /\ event' = [event EXCEPT ![e] = [level |-> level, text |-> "own"]]
    /\ late' = [r \in Tasks |-> IF Sendable(r, event') THEN 0 ELSE late[r]]
    /\ UNCHANGED <<task, candidate, held>>

\* A mutated form of Scrubbed: what was decided already is left alone.
ScrubbedIfPending(c) ==
    IF c.linked /\ c.status = "pending_review"
    THEN [c EXCEPT !.status = "rejected", !.text = "redacted"] ELSE c

Scrubbed(c) == IF c.linked THEN [c EXCEPT !.status = "rejected", !.text = "redacted"] ELSE c

RedactEvent(e) ==
    /\ Known(e)
    /\ event' = [event EXCEPT ![e].text = "redacted"]
    /\ candidate' = [r \in Tasks |-> [candidate[r] EXCEPT ![e] = Scrubbed(@)]]
    /\ UNCHANGED <<task, late, held>>

\* The links to the evidence are deleted with it.
DeleteEvent(e) ==
    /\ Known(e)
    /\ event' = [event EXCEPT ![e] = NoEvent]
    /\ candidate' = [r \in Tasks |-> [candidate[r] EXCEPT ![e] = [Scrubbed(@) EXCEPT !.linked = FALSE]]]
    /\ UNCHANGED <<task, late, held>>

-----------------------------------------------------------------------------
(* What every request goes by.                                          *)

Submit(r, mode, kind, provider, evidence) ==
    /\ task[r] = NoTask
    /\ evidence # {} /\ (provider = "rules" => kind = "extract")
    /\ task' = [task EXCEPT ![r] =
            [NoTask EXCEPT !.mode = mode, !.kind = kind, !.provider = provider,
                              !.evidence = evidence, !.phase = "ready"]]
    /\ UNCHANGED <<event, candidate, late, held>>

Found(r) == \A e \in task[r].evidence : Known(e)

Evidence(r) == [e \in task[r].evidence |-> event[e]]

\* What a provider makes of a request: JSON of the schema that it was given, or not.
Answers == {"valid", "invalid"}

\* An extraction shows the model what was wrong and asks again.
Unanswered(r) ==
    /\ task[r].provider # "rules"
    /\ \A i \in DOMAIN task[r].answers : task[r].answers[i] = "invalid"
    /\ Len(task[r].answers) <= (IF task[r].kind = "extract" THEN Repairs ELSE 0)

Answered(r) == task[r].provider = "rules" \/ "valid" \in {task[r].answers[i] : i \in DOMAIN task[r].answers}

Settled(r, phase, run) == [task EXCEPT ![r].phase = phase, ![r].run = run]

\* A draft that another candidate says already is stored as a duplicate of it.
CandidateStatus(e, text) ==
    IF \E q \in Tasks : candidate[q][e].text = text /\ candidate[q][e].status \in {"pending_review", "duplicate"}
    THEN "duplicate" ELSE "pending_review"

\* What an extractor draws candidates from: its rules, or its model, may find
\* nothing to claim in some of the evidence, and the policy may drop it.
Drawn(input) == SUBSET DOMAIN input

Drafted(r, input, drawn) ==
    [candidate EXCEPT ![r] = [e \in Events |->
        IF e \in drawn
        THEN [status |-> CandidateStatus(e, input[e].text), text |-> input[e].text, linked |-> TRUE]
        ELSE NoCandidate]]

\* The tail of a request.  An extraction without a valid answer is a run
\* without candidates; an advisory task without one fails.
Stored(r, input) ==
    /\ task' = IF Answered(r) THEN Settled(r, "done", IF task[r].provider = "rules" THEN "none" ELSE "completed")
                  ELSE IF task[r].kind = "extract" THEN Settled(r, "done", "invalid_schema")
                  ELSE Settled(r, "refused", IF task[r].mode = "library" THEN "invalid_schema" ELSE "none")
    /\ IF Answered(r) /\ task[r].kind = "extract"
       THEN \E drawn \in Drawn(input) : candidate' = Drafted(r, input, drawn)
       ELSE candidate' = candidate

-----------------------------------------------------------------------------
(* The service.                                                            *)

AttemptRefused(r) ==
    /\ task[r].mode = "service" /\ task[r].phase = "ready"
    /\ \/ ~Found(r)
       \/ /\ Blocked(task[r].provider, Evidence(r))
          /\ task[r].kind = "advise" \/ task[r].answers # <<>>
       \/ task[r].input \notin {<<>>, Evidence(r)}
    /\ task' = Settled(r, "refused", "none")
    /\ UNCHANGED <<event, candidate, late, held>>

Permitted(r) ==
    /\ task[r].mode = "service" /\ task[r].phase = "ready" /\ Found(r)
    /\ task[r].input \in {<<>>, Evidence(r)}
    /\ ~Blocked(task[r].provider, Evidence(r))

\* Before anything was sent, an extraction of blocked evidence is a run without candidates.
AttemptBlocked(r) ==
    /\ task[r].mode = "service" /\ task[r].phase = "ready" /\ Found(r)
    /\ task[r].kind = "extract" /\ task[r].answers = <<>>
    /\ Blocked(task[r].provider, Evidence(r))
    /\ task' = Settled(r, "done", "unsafe")
    /\ UNCHANGED <<event, candidate, late, held>>

AttemptSuspended(r) ==
    /\ Permitted(r) /\ Unanswered(r)
    /\ task' = [task EXCEPT ![r].phase = "working", ![r].input = Evidence(r)]
    /\ UNCHANGED <<event, candidate, late, held>>

AttemptStored(r) ==
    /\ Permitted(r) /\ ~Unanswered(r)
    /\ Stored(r, Evidence(r))
    /\ UNCHANGED <<event, late, held>>

-----------------------------------------------------------------------------
(* The library.                                                            *)

ReadEvidence(r) ==
    /\ task[r].mode = "library" /\ task[r].phase = "ready"
    /\ IF ~Found(r) THEN task' = Settled(r, "refused", "none")
       ELSE IF Blocked(task[r].provider, Evidence(r))
       THEN task' = Settled(r, IF task[r].kind = "extract" THEN "done" ELSE "refused", "unsafe")
       ELSE task' = [task EXCEPT ![r].input = Evidence(r),
                                       ![r].phase = IF Unanswered(r) THEN "working" ELSE "read"]
    /\ UNCHANGED <<event, candidate, late, held>>

AskAgain(r) ==
    /\ task[r].mode = "library" /\ task[r].phase = "read" /\ Unanswered(r)
    /\ task' = [task EXCEPT ![r].phase = "working"]
    /\ UNCHANGED <<event, candidate, late, held>>

\* The links of an extraction need its evidence; an advisory task has none.
StoreRead(r) ==
    LET input == task[r].input
        since == {e \in DOMAIN input : input[e].text = "own" /\ event[e].text # "own"} IN
    /\ task[r].mode = "library" /\ task[r].phase = "read" /\ ~Unanswered(r)
    /\ IF task[r].kind = "extract" /\ ~Found(r)
       THEN task' = Settled(r, "refused", "none") /\ UNCHANGED <<candidate, held>>
       ELSE Stored(r, input) /\ held' = held \cup {<<r, e>> : e \in since}
    /\ UNCHANGED <<event, late>>

-----------------------------------------------------------------------------
Ask(r, answer) ==
    /\ task[r].phase = "working"
    /\ task' = [task EXCEPT ![r].answers = Append(@, answer),
                                  ![r].phase = IF task[r].mode = "service" THEN "ready" ELSE "read"]
    /\ late' = [late EXCEPT ![r] = IF Sendable(r, event) THEN @ ELSE @ + 1]
    /\ UNCHANGED <<event, candidate, held>>

\* What the routes ingest, extract and llm offer, and a library process beside them.
IntakeNext ==
    \/ \E e \in Events : RedactEvent(e) \/ DeleteEvent(e) \/ \E level \in Levels : WriteEvent(e, level)
    \/ \E r \in Tasks, mode \in {"service", "library"}, kind \in {"extract", "advise"},
          provider \in Providers, evidence \in SUBSET Events : Submit(r, mode, kind, provider, evidence)
    \/ \E r \in Tasks :
         \/ AttemptRefused(r) \/ AttemptBlocked(r) \/ AttemptSuspended(r) \/ AttemptStored(r)
         \/ ReadEvidence(r) \/ AskAgain(r) \/ StoreRead(r)
         \/ \E answer \in Answers : Ask(r, answer)

IntakeSpec == IntakeInit /\ [][IntakeNext]_intakeVars

-----------------------------------------------------------------------------
\* The wording of erased evidence leaves its candidates, also those whose
\* extraction was waiting for a model while it was erased.  A library process
\* that held the text stores it after all (memory.py extract_candidates,
\* deletion.py apply).
ErasedTextLeavesCandidates ==
    \A r \in Tasks, e \in Events :
        candidate[r][e].text = "own" /\ event[e].text # "own" => <<r, e>> \in held

\* A service sends text that was erased, or became too private for the model,
\* at most once more, when the message was on its way; a library process sends
\* it for every repair it still makes (extraction.py LLMExtractor.extract,
\* provider_work.py).
SendingStops ==
    \A r \in Tasks :
        late[r] <= (IF task[r].mode = "library" /\ task[r].kind = "extract" THEN Repairs + 1 ELSE 1)
=============================================================================
