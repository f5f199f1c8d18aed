# Aletheia Memory: models, checks and proofs

Aletheia (`src/aletheia`) is a local memory for agents: a Python library (`Memory`, `core/memory.py`),
an HTTP service around it (`service/`), an MCP server, a command line, and a SQLite file. Text becomes
evidence, evidence becomes candidates, reviewers promote candidates to claims, contradicting claims are
disputed and resolved, inferences and reflections are derived from claims, everything is recalled in
context packs, and several installations exchange claims in signed bundles. This directory holds TLA+
models of the parts of it that are state machines with something to get wrong, TLC configurations that
check them on small instances, and TLAPS proofs of the results for every instance.

Contents: [1 The system](#1-the-system) · [2 The modules](#2-the-modules) ·
[3 From the code to the models](#3-from-the-code-to-the-models) · [4 The runs](#4-the-runs) ·
[5 The proofs](#5-the-proofs) · [6 Where code and documents disagree](#6-where-code-and-documents-disagree) ·
[7 What is not modelled](#7-what-is-not-modelled) · [8 Plan](#8-plan)

To repeat a result, in this directory: `tlc -config JobsServices.cfg MCJobs.tla`, `tlapm JobsProofs.tla`.

## 1 The system

### What holds it together

Every component keeps its state in the one SQLite file; there is no other shared state except the
operating system's processes and files, and a few dictionaries in the memory of a service.
`SQLiteStore.transaction` (`storage/sqlite.py:152`) is `BEGIN IMMEDIATE` under a process-wide lock, so
**a transaction is one action in every module**, and whatever the code does in two transactions is two
actions with everything else in between. A few mechanisms reach across components and are part of the
actions they belong to:

- a service runs the whole method of a request in one transaction, under its lock; a library process
  calls the same method without one, so that what the method reads before its own transaction can be
  stale when it writes. Many modules have each operation twice for this reason.
- a language or embedding provider must not be called inside a transaction. When one is needed,
  `ProviderWorkNeeded` unwinds the transaction, the call is made without a lock, and the whole
  attempt is repeated (`core/provider_work.py`, `service/http.py:567-656`). Any committed state may
  change while that happens.
- triggers on the memory tables count an *epoch*; every revision a reviewer sees names it
  (`storage/review.py`).
- `core/deletion.py` computes the closure of what a deletion withdraws: rows, evidence, candidates,
  derived records, index rows, tasks, entities, traces, stored receipts. Each module has the part of
  the closure that its state belongs to.

### Components

| component | state | operations | what is hard | what makes it correct |
|---|---|---|---|---|
| **durable job queue** (`memory.py:4810-4987, 11559-11667`, `http.py:373, 567-621, 3733`) | `local_jobs`: status, attempts, owner | enqueue, list, claim, execute, complete, fail, recover, close | processes that die between transactions, pids that come back, two kinds of runners, a batch claimed long before it is executed | a claim is a lease: nobody takes a job from a live owner; no attempt is committed twice; every job settles |
| **idempotent requests** (`http.py:404-656, 2867-2994`, `service/replay.py`) | `idempotency_records` | reserve, perform, store a receipt, replay, clean up, expire, withdraw | retries race with the request they repeat; reservations expire under it; three ways to perform an operation | an operation is performed at most once while its receipt is kept |
| **claims and conflicts** (`memory.py:6405-8555, 12824-13087`) | `claims.status`, scopes, `conflict_families` | write, detect, resolve (eight decisions), promote, demote, supersede, feedback, scope, curate, declare a predicate | detection is a transaction of its own; any family may be resolved again; families of two kinds overlap | no contradiction escapes; every dispute waits in an open family; readers are warned of it |
| **candidates, reviews and their protocol** (`memory.py:1763-1965, 9333-9451`, `service/reviews.py`, `storage/review.py`) | `candidate_claims`, epoch, generation, receipts, the service's secret | propose, edit, decide, inspect, replay, refuse, restart, restore | edits after a validation, lost answers, receipts that expire, a restore that brings old counters back | a decision takes effect once, on exactly what was inspected |
| **federation** (`core/federation.py`, `core/federation_recovery.py`) | peers, keys, grants, sync sources, notices, sync conflicts | export, import, trust, revoke, replace a key, resolve | bundles are files: replayed, old, out of order; approvals race with replacements | trust follows a key; what was withdrawn stays out |
| **derived memory** (`memory.py:2178-3043, 10603-10671`, `core/deletion.py`) | inferences, reflections, abstractions, edges | propose, review, promote, invalidate, refresh, delete | sources change under what was derived from them; walks over a graph that they change | nothing derived outlives its sources, no wording outlives its erasure |
| **reads and traces** (`service/reads.py`, `service/replay.py`, traces in `memory.py`) | traces, stored answers, levels | read under a ceiling, trace, replay | levels are raised and sources erased after something was derived, traced or answered | no reader sees what lies above its ceiling now |
| **ingestion and extraction** (`extraction.py`, `advisory.py`, `llm.py`, `memory.py`) | evidence, candidates | write, raise, erase, extract, ask, repair, store | a model answers long after the text was sent; texts are erased meanwhile | erased wording is in no candidate |
| **confidence** (`memory.py:12880-13200`) | `confidence_effective`, half-lives, feedback | write, judge, decide, set policies, recompute | some operations recompute, some do not; policies are set later | what a claim is ranked by counts every judgement and the claim's present place |
| **adaptive policies and procedures** (`memory.py:4025-4400`) | versions, proposals, evaluations | propose, review, apply, roll back, evaluate | apply against rollback, deletions, stale evaluations | one version in force; a gated one was itself judged |
| **semantic and full-text index, keys, retention** (`semantic.py`, `memory.py:6213`, `core/hardening.py`) | `claims_fts`, vectors, sealed payloads, keys | index, prune, verify, repair, protect, rotate, retain | texts and counts are read before the transaction that uses them | erased wording leaves the indexes; retired keys seal nothing |
| **archives** (`core/hardening.py:1950`, `core/archive_import.py`) | archives, `source_mappings`, tombstones | back up logically, import | tables read one by one; archives imported in any order | a deletion arrives; claims keep their evidence |
| **database files** (`storage/sqlite.py`, `core/hardening.py`) | version, triggers, generation, the file itself | migrate, back up, restore, replace | several releases and processes share a file; restores replace it | upgrades keep what owners set; no write is lost unnoticed; a revision names one state |
| **authentication, console, pairing** (`service/auth.py`, `local_pairing.py`, `http.py:2820-2866`) | clients, tokens, sessions, invitations, rates | authorise, pair, log in, revoke, count | one-time codes and crashes, two services counting one rate, credentials revoked during a provider call | one code yields one credential; an effect is authorized when it commits |
| **MCP server** (`service/mcp.py`) | registries, invocation log | register, initialize, call, log | registries share a service whose tokenless rights each of them sets | a call does what its own mode allows |
| **plugins** (`core/platform.py`, `service/operations.py`) | manifests, installations, grants | publish, install, enable, disable, run, answer | a name means another installation by the time the answer comes | answers with consent only |
| **entities** (`memory.py:5900-6200`) | names, aliases, mentions, links | resolve, extract, promote, merge, redact | a merge carries names that a redaction erases | an erased name is nowhere |
| **review tasks** (`memory.py:4990-5300`) | `review_tasks` | generate, decide, defer, scrub | tasks copy wording, once for each target | no task says what was redacted |
| **sessions and projects** (`http.py:1163`, `memory.py`) | projects, sessions, statements | create, start, end, remember | a request of several writes fails in the middle | requests are stored whole |
| retrieval and context packs (`retrieval/`, `memory.py:6683`) | none; packs and traces | retrieve, compose, warn | the parts of a pack are read at different times | contradictions come with warnings |
| command line, HTTP client, adapters, private files | none | translations, system calls | little | |

`PROJECT.json` lists every component with its files, its status and a note, and under `hazards`
what in the code is hard to test, each at its line, with the properties that would show it going
wrong.

### How they interact

A service request is authorised and counted (*Access*), then run under the service's lock by
`_handle_http`; if it carries an `Idempotency-Key` it is a request of *Idempotency*, whose operation may
be any method of the library. An agent's tool call (*Agents*) is such a request. Background jobs run the
same methods (detection, curation, decay) under the *Jobs* protocol. Evidence comes in and is extracted
(*Intake*, *Sessions*); a promoted candidate (*Reviews*) is written as a claim and enters detection
(*Conflicts*); most of what happens to it is followed by computing its *Confidence* anew. Claims feed *Derivations*, the indexes (*Protection*),
packs (*Recall*) and readers (*Reads*). An import (*Imports*) writes candidates and claims as they do,
and resolves conflicts between sites by a protocol of its own; whose bundles are imported is decided in
*Peers*. A deletion withdraws receipts (*Idempotency*, *Reviews*), derived records, index rows, tasks and
names, and on a remote site produces the notices of *Imports* and *Archives*. Backups and restores
(*Databases*) replace everything at once, which only the protocol of *Reviews* has to notice.


## 2 The modules

| module | what it is | run (profiles) | proved in |
|---|---|---|---|
| `Jobs` | the job queue | `jobs_services`; `upkeep` (jobs) | `JobsProofs` |
| `OperationLedger` | **abstract**: what an idempotency key promises | refined by `Idempotency` | `IdempotencyProofs` |
| `Idempotency` | the reservation protocol | `idempotency` (route, files), `idempotency_files_busy` | `IdempotencyProofs` |
| `Conflicts` | the claims of one slot and the conflict engine | `conflicts` (decisions, repeated, scopes), `conflicts_open` | `ConflictsProofs` |
| `Recall` | context packs over that slot; EXTENDS `Conflicts` | `conflicts` (recall) | `ConflictsProofs` |
| `Reviews` | candidates, direct reviews and the review protocol | `governance` (reviews) | `GovernanceProofs` |
| `Peers` | federation: trust, keys and grants | `federation` (trust) | `FederationProofs` |
| `Imports` | federation: content; EXTENDS `Peers` | `federation` (content) | `FederationProofs` |
| `Derivations` | inferences, reflections, abstractions and their edges | `derived` (chains, webs), `promoted_twice` | `DerivationsProofs` |
| `Reads` | ceilings, traces and stored answers; EXTENDS `Derivations` | `derived` (readers) | `DerivationsProofs` |
| `Protection` | sealed payloads, keys, full-text rows and vectors | `storage` (keys, indexes) | `StorageProofs` |
| `Archives` | logical backups and their imports | `storage` (torn archives, whole archives) | `StorageProofs` |
| `Databases` | upgrades, backups and restores of the file | `storage` (restores, upgrades, files) | `StorageProofs` |
| `Access` | credentials, pairing, rates, authorization | `governance` (pairing, rates, waiting) | `GovernanceProofs` |
| `Agents` | the MCP server's registries and modes | `governance` (agents) | `GovernanceProofs` |
| `Intake` | evidence on its way to models and candidates | `governance` (extracting) | `GovernanceProofs` |
| `Plugins` | installations, grants and answers | `governance` (plugins) | `GovernanceProofs` |
| `Confidence` | what the stored confidence was computed from | `upkeep` (judgements, policies), `policies_stick` | `UpkeepProofs` |
| `Learning` | versions of policies and procedures | `upkeep` (learning) | `UpkeepProofs` |
| `Evaluations` | evaluations and the gate; EXTENDS `Learning` | `upkeep` (gates) | `UpkeepProofs` |
| `Entities` | names, aliases, merges | `upkeep` (names) | `UpkeepProofs` |
| `Tasks` | review tasks | `upkeep` (tasks) | `UpkeepProofs` |
| `Sessions` | projects, sessions, statements | `upkeep` (sessions) | `UpkeepProofs` |

An `MC` module gives the components of one run their finite constants; where it has several, a variable
`profile` that never changes selects one of them, and with it the operations and the bounds. The
components of a run are checked side by side, not composed: in every step one of them moves.

What is composed is composed by extension: `Imports` on `Peers`, `Recall` on `Conflicts`, `Reads` on
`Derivations`, `Evaluations` on `Learning`. In each case the lower module is at once a component
and the abstraction of the upper one, and that is a theorem: `ImportsImplementPeers`, `PacksOnlyRead`,
`ReadersOnlyRead`, `EvaluationsImplementLearning`. What is proved of the lower module thereby holds of the
composition. `OperationLedger` is an abstraction for its own sake: it says that an operation is
performed, answered and recorded in one indivisible step, and `Idempotency` implements it under the
mapping `LedgerView`.

Ghost variables are marked as such in the modules. They record what happened (which effects were
committed, which revision is outdated, which wording a draft held), and no guard reads them.

## 3 From the code to the models

The complete correspondence, definition by definition with line ranges, is the `map` of
`PROJECT.json`. What follows is what a reader needs to follow it. The header of each module states what it
abstracts.

### Jobs

A row is `status, attempts, limit, owner, due`; the owner is the process (host and pid) that
`_worker_identity` writes into the payload, `due` stands for `available_at` against the clock.
A **service runner** (the worker thread, or `POST /v1/jobs/run`) claims a batch in one transaction
(`ClaimBatch`), may unwind for provider work (`SuspendBatch`, `ProviderAnswer`) and executes and
completes in one transaction (`ExecuteBatch`) exactly those claimed jobs that it still finds running
under its own identity; if the batch raises, each job is failed in a transaction of its own
(`BatchRaises`, `FailOne`). A **library runner** (`Memory.run_jobs`, the CLI) takes a snapshot
(`ListPending`), then claims job after job by compare-and-swap (`ClaimNext`), executes it in the
job's own transactions (`ExecuteJob`) and completes it in another (`CompleteJob`), whose UPDATE names
nothing but the id. What a job does is counted: `effects` are the executions that returned, `partial` those that raised and
left writes behind. A service catches what a handler raises *inside* its transaction and without a savepoint
(`_run_single_job`, `memory.py:11564`), so these writes are committed with the failure and the retry makes them again;
a library's are committed as it goes. `EffectsWithCompletion` says how often at most: one full execution, with the completion,
and one partial one for each failed attempt. Both listings first fail the jobs of owners that are dead as far as the process
can tell (`Abandoned`): same host, another pid, no such process. `RecoverJob` is the operator's, who
may be asked to confirm; with `TrustedOperator` the confirmation is true. `Close` fails what the
process owns; `Crash` and `Restart` are the system's; with `PidReuse` a restarted process gets the
pid, and so the identity, of the one that died.

### Idempotency

A row per key: `in_progress`, `completed` or `redacted`, the request hash, the request whose answer
is stored, and whether it has expired. `Reserve` covers all of `_idempotency_replay` that ends in a
new reservation (none yet, expired receipt or reservation); `ReplayReceipt` and `RefuseKey` are its
other outcomes. What happens next depends on the endpoint: `RunSingle` for `/v1/remember` and
un-negotiated review; `RouteCommits`, `RouteSuspends`, `RouteRaises` for ordinary routes;
`FileOperation` and `FileReceipt` for the operations outside a transaction, which hold the service
lock from the file to the receipt (`LockFree`). Storing updates the reservation and insists that one
row was changed (`Storable`). `Cleanup` is the `finally` clause: it deletes the reservation *by id*,
whoever it belongs to by then. `Expire` is the clock (five minutes for a reservation, a day for a
receipt), `Redact` what a deletion does to receipts.

### Conflicts

The claims of one slot: one namespace, subject and predicate. Detection groups by exactly this slot,
so slots do not interact. `Becomes` is `_set_claim_status` for any number of claims; `Target` and `Joined` are `_create_or_update_conflict`: a new dispute joins
the newest open family of its kind or opens one. `ResolveConflict` takes a family in **any** state,
as the code does. `Settle` is every strategy that picks a winner, and the manual one; `kept` are the members that
the caller's `scoped_claims` hands scopes, which both accept and do not compare with each other. `ScopeMembers` is the
resolution by scopes, which does; `MarkUnresolved` and `Coexist` are the others. `WriteCandidate` compares nothing;
`WriteServing` ends with the detection, in the same transaction; `DetectConflicts` is the operation and the job. `Curate`
lists, `CurateClaim` decides what it listed, later and one by one. A family *records* a contradiction (`Records`) while it waits
for a decision about both claims, or when its last decision left both in force (`LeftInForce`): as the one it chose, or with a
scope. Confidence
is in *Confidence*; here, wherever a threshold opens a branch, both ways are allowed. The ghosts: `unchecked` are the claims that came into force after the last detection,
`byHand` those a person marked disputed, which needs no family.

### Recall

The same slot seen by `context_pack` (`memory.py:6735`). A pack is made of several retrievals
(`BeginPack` for the query, `AddAmbient` for what is taken along without one) and ends with the
warnings (`FinishPack`). A claim may be shown if its status serves and its scopes match (`Matches`):
a period because it is that period now, a context because the query mentions it. What is ranked
or cut by a budget may be missing, so every retrieval returns *any* subset. A service makes the pack in
one transaction, a library while others write (`Meanwhile`); the clock moves in both (`Tick`). The reader
may be denied some claims (`hidden`); over HTTP a family with such a member is not mentioned.

### Reviews

The database is *one variable*, because a backup copies it and a restore replaces it. It holds the
generation and the epoch, the candidates, the values in force in the slot, and the receipts.
Every transaction that changes memory advances the epoch (`Advance`): by one, where the triggers may
advance it further; only equality with an inspected epoch is ever tested. `Inspect` gives the client
the revision (service identity, generation, epoch, candidate, credential), `Send` puts it in a
request, and the request is delivered any number of times: `Decide` if it is current and applicable,
`Replay` if a receipt is kept, `Refuse` otherwise. Meanwhile `ReviewCandidate`, `PromoteCandidate`
and `DeleteCandidate` are the library's and the legacy routes' operations on the same row;
`ChangeMemory` is every other writer. `Restore` and `Migrate` renew the generation (`Rotated`) and drop
receipts; `Restart` gives the service another identity.

### Peers

One remote and this site. The remote creates, revokes and lets lapse its grants, rotates its key
(which revokes all of them), and exports bundles to files, which stay there. This site has
one `peer_devices` row with a pinned key, a trust status and a domain, a row per imported grant, and
the keys it retired. `trust_peer` reads the peer, compares the key with what the owner presented, and
updates under a condition on the row: two actions, `InspectPeer` and `ApprovePeer`, with anything
between them. `ReplacePeerKey` is `federation_recovery.replace_peer_key`. `MayImport` is the
conjunction of the guards of an import; `Admission` and `ImportsActive` are how far policy,
trust and domain let a claim in.

### Imports

The remote's claims each rest on one evidence event and may be published, hidden, redacted; a bundle
holds what its share shows and the *notices* (deleted objects that the share has disclosed, if it receives
redactions: `WithRedactions`, `federation.py:1683`).
An import is one transaction, as in the code: notices, then evidence, then claims, or nothing
at all (`Changed` is the one data-dependent failure). A remote claim leads to a sequence of rows here:
a candidate, the claim it was promoted to, a candidate a resolution put in its place; `source` is
the row that the remote source mapping points to. A notice scrubs that row, and when it
is a candidate also the evidence it cites and all that rests on it. `Review(c)` has the
owner's decisions, redactions and `resolve_sync_conflict`, whose guard (`_sync_resolution_targets`)
compares both sides with what the conflict recorded.

### Derivations

Records are numbered in the order of their creation. A record has a kind (claim, derived claim,
inference, reflection, abstraction), a status, the records it was made `from`, and `text`: the claims
whose wording it holds. `Reached(R)` is the closure of records along the edges, a recursive function over
the numbers. `SetStatus` is `_set_claim_status` with `invalidate_derived` of everything below (`Staled`);
`InvalidateDerived` the owner's, in each of its modes; `Invalidated` has both outcomes that the order of
the walk can give a record below a derived claim that is itself rejected on the way. `Delete` is
`deletion.apply` on the closure, scrubbing or not; `HardDelete` also drops the row and cuts its edges. Inferences are
drawn by `RunInference`, reviewed by `ReviewInference` and promoted with or without `force`
(`PromoteToClaim`, `PromoteToReflection`). In a library `run_inference` and `build_reflection` read their
sources before their transaction (`ReadSources`, then `StoreDraft`); `held` is the ghost of what such a draft
held when a deletion went through.

### Reads

On top of it, who may see what. `Allowed(k)` is `ReadAccess.allowed` for a ceiling `k`: a claim by the
strictest level of its evidence, everything derived by all its parents, an abstraction never. It is decided
anew for each reading, each trace item (`ShownItems`) and each stored answer (`Replayable`). `Trace` stores
snapshots with their wording; a library reads them before its transaction (`ReadForTrace`, `StoreTrace`).
`RaiseLevel` is an event that is ingested again under a stricter level. A deletion is the one of
`Derivations` together with `Tombstoned`: tombstones, trace items and answers of all that is reached.

### Protection

Three copies of what is said: the payload of an event with its level and the key it is sealed with, the
row of a claim in `claims_fts`, and its vectors, per provider and version (the version is the policy).
`WriteEvent` stores or raises; `RotateKey` is a service's rotation, `CountForRotation` and `CommitRotation` a
library's, which counts before its transaction. `IndexSemantic` and `ReadTexts`/`StoreVectors` stand in the same
relation. `Scrubbed` is what a deletion does to both indexes, `RunRetention` applies any outcome of the
policies to any set of claims in one transaction. `CheckIntegrity` and `RepairFulltext` are the only
repair: a finding of too *many* rows is needed before the index is rebuilt.

### Archives

A source database, archives of it, and a target. `ReadEvidence`, `ReadClaims`, `ReadLinks` and `ReadNotices`
are the tables of a logical backup in the order in which `hardening.py:1950` reads them, with any writes of the source in
between (the archive is then `torn`, a ghost). `Import` is one transaction: `Acceptable` are the reasons for
which `archive_import.py` raises, `Announced` the deletions it carries out first, `Fresh` what gets a copy.
The target may remove a copy (`RemoveCopy`) or only bury it under a tombstone (`BuryCopy`). Identical
evidence deduplicates by content on both sides, so an erased event can come in again (`Again`).

### Databases

Two file names, each with a marker (the schema version), the triggers it has, the settings, the writes it
holds, generation and epoch. A process reads the version (`ReadVersion`) before the transaction of
`Migrate`, as `sqlite.py:103` does, so that it can hold an old answer; `Upgraded` runs the backfills of the version it
*read*. `NewerRelease` is a program of a later release on the same file. A restore checks and prepares a copy
(`Prepare`), sets the file aside (`SetAside`) and replaces it (`Replace`), three steps of one process, which
may stop at any of them (`Stop`). `Inspect` is a client that notes generation and epoch.

### Access

Rows of clients, tokens, login tokens and sessions, files of invitations, and what a service holds in
memory: failed guesses, the code it is redeeming, the rate record it is updating. An invitation's file is
removed (`RemoveCode`) before the token is stored (`MintToken`, or `MintFails`), so a crash in between loses
the code. `_check_rate_limit` reads and updates in two transactions (`ReadRate`, `CountRate`) under the lock of
*one* service. A request is authenticated when it is received (`Receive`) and again in each attempt (`Attempt`):
provider work leaves it `working` with anything in between, and `Authorized` is asked by the transaction that
commits.

### Agents

Registries over one service. Opening one (`Register`) without a token replaces what the shared service
grants to calls without one, unless the service requires tokens of everybody (`auth_required`; protected mode, which
requires them of calls, does not prevent it). `Call` asks the registry's mode and namespace (`RequireMode`),
`Serve` the service's (`Admits`) and carries the call out; `Log` writes the invocation row in a transaction of
its own, which can fail, whereupon the call is answered as an error although it was done.

### Intake

Events with a level and a text, and tasks (extractions, advisory tasks) over sets of them. A service
attempts a task in one transaction until it refuses (`AttemptRefused`, `AttemptBlocked`), needs an answer
(`AttemptSuspended`, `Ask`) or stores (`AttemptStored`); each attempt reads the evidence anew. A library reads
once (`ReadEvidence`), asks for as many repairs as it may (`AskAgain`) and stores what it read (`StoreRead`). What is
stored is `Drawn` from any part of the evidence, as rules or a model may find nothing in the rest.
A deletion rejects and scrubs the candidates it finds through the evidence links (`Scrubbed`).

### Plugins

A manifest belongs to a name and version, an installation to a path and version, and a name means the
newest installation. `Publish` is the author's change of the directory; `Install` records a manifest, a
known one unchanged (`Recorded`). `Run` is the service's use in one transaction, `RunInLibrary` and `StoreCandidate` the library's in
two. A language model is asked by `Request`, `Answer` and `RouteAgain`: the route runs again after the answer and asks for approval
again (`Approved`); `GiveAgain` replays a receipt.

### Confidence

In place of the float, the model keeps what it was computed from last: half-life, place among other claims,
judgements (`Inputs`). The formula is not modelled: strengths add and multiply (`memory.py:12998`, `13161`), base,
sources and age count, and where the code compares two numbers, every outcome is possible. What is modelled is
*which* claims an operation computes (`Rate`, `Ruled`): the claim that is written, but not those it comes into dispute
with; the claim that is judged; every member of a family that is resolved (the mutated form computes only those that
stay in service) or marked unresolved (`MarkDisputed`). `Overrule` are the operations that change a status and compute nothing.

### Learning and Evaluations

Versions of a policy are a sequence, as their numbers are; a proposal changes some knobs of the
configuration. `ApplyPolicy` lays the change over what is in force *now*, appends a version and marks it,
`RollbackPolicy` marks any earlier one. Procedures are the same with the text of a claim and its full-text row
(`WriteProcedure`), which deletions change without knowing of versions. In `Learning` whether an evaluation
passed is free; `Evaluations` adds the runs, their cases and the versions asked. A library asks its cases one by
one (`EvaluateInLibrary`, `StoreEvaluation`). The gate (`Gate`) evaluates the new version itself before it
commits; `ApplyUngated` takes the word of the run that was named.

### Entities

An entity is identified by the type and name it was created with, has a name, and is found through
aliases. `Extract` finds or creates what an event mentions; `PromoteMentions` carries the links to the claim.
`Merge` moves aliases, mentions and links and leaves the source's row; a library reads the names before its transaction
(`ReadForMerge`, `MergeInLibrary`). Redactions erase every entity the redacted object leads to (`Erased`).

### Tasks

Targets that wait for a person, and the sequence of tasks made about each. `Generate` is the service's
`generate_review_tasks`, one transaction, which raises and keeps nothing when an inference is pending, or a flag of which
no task was closed (section 6); `ReadTarget` and `CreateTask` are a library's, which keeps what it made before it
raised, or a program's own tasks. `Transition` takes any task of any
status, as the code does. `DecideOnConsole` also resolves the tasks, `Decide` does not.

### Sessions

A request writes its own row, an evidence event and a statement; `done` says after how many of the three
writes it failed, and `Committed` that its transaction keeps all or none.

## 4 The runs

There are a dozen runs, each finishing within a few minutes, one per question. Every property
of a passing run is also tried against a mutated form of some definition of the model (`mutants` in
`PROJECT.json`; the mutated forms stand in the modules before the definitions they mutate): the run
must then report that property violated.

| run | what varies | what it shows |
|---|---|---|
| `jobs_services` | 2 jobs, 3 processes on 2 hosts with one service runner each, 2 stops, an operator who may confirm wrongly, fairness | an execution that returns is committed once, with the completion, and what one that raised leaves behind once per failed attempt (`EffectsWithCompletion`); a settled job stays settled (`TerminalForever`); every enqueued job settles (`EventuallySettled`); deadlock is checked here |
| `idempotency` | *route*: 4 requests with one key, one of them with another body, 2 services; *files*: 6 requests on a file key, a single-transaction key and an unguarded one | a receipt is the effect (`ReceiptIsTheEffect`), a withdrawn key never performs again (`WithdrawnForever`), a crash in a file operation blocks its key (`FileOperationsNotRepeated`), the ledger is implemented (`ImplementsLedger`) |
| `idempotency_files_busy` | 2 requests, the database may refuse the receipt | **violation**, section 6 |
| `conflicts` | *decisions*: 2 contradicting claims, every decision about one claim, crashes; *repeated*: 2 claims that agree and 1 that contradicts, the declaration of the predicate changes; *scopes*: 2 or 3 claims, 2 scopes, resolutions that hand them out, manual ones included; *recall*: packs over them in a service and in a library | `ContradictionsOnRecord`, `OneOpenDispute`, `ContradictionsComeWithWarnings` |
| `conflicts_open` | a value written twice and disputed | **violation**, section 6 |
| `federation` | *trust*: 3 keys, 2 grants, 2 files; *content*: 1 claim, 2 grants (one with evidence and redactions), 2 files, a native claim in the slot | `TrustFollowsKey`, `GrantsFollowKey`, `RevocationsAreFinal`, `WithdrawnStaysOut` |
| `derived` | *chains*: 4 records above one claim; *webs*: 3 records with several sources, library drafts; *readers*: 2 ceilings, traces, answers | `ErasedTextStaysErased`, `WithdrawalsReachEverything`, `ReadersStayWithinCeilings`, `ErasedTextLeavesTraces` |
| `promoted_twice` | the same instance | **violation**, section 6 |
| `storage` | *keys*: 2 events, 3 keys; *indexes*: 1 claim, 2 providers, 3 policies; *torn archives*, *whole archives*: 1 event, up to 2 claims, 2 archives; *restores*, *upgrades*, *files*: 2 processes, 2 backups, 2 writes, releases before and after | `RetiredKeysSealNothing`, `ProtectionSeals`; `ErasedTextLeavesIndexes`; `SourceDeletionsArrive`, `ClaimsKeepTheirEvidence`, `ArchivesAreComplete`; `ChoicesSurviveUpgrades` |
| `governance` | *pairing*, *rates*, *waiting*: 2 services, 2 clients, 2 tokens, 2 sessions, 2 guesses, 4 requests against a limit of 2; *agents*: 2 registries; *extracting*: 2 tasks over 2 events, 1 repair; *plugins*: 2 paths, 2 versions; *reviews*: 1 risky candidate, 2 values, 2 requests with one key, 3 epochs, 1 renewal | `OneCredentialEach`, `AdmittedWithinLimit`, `EffectsAreAuthorized`; `CallsStayWithinTheirMode`; `ErasedTextLeavesCandidates`; `AnswersNeedConsent`; `AppliedOnce`, `DecisionsMatchInspections` |
| `upkeep` | *jobs*: services and a library, pid reuse, provider calls, a truthful operator; *judgements*, *policies*: 2 claims, 2 judgements, disputes; *learning*, *gates*: 3 proposals, 2 policies, a procedure, 2 cases, 3 evaluations; *names*: 2 names, 2 sources; *sessions*; *tasks* | `ExclusiveExecution`; `RankedByWhatIsKnown`; `OneVersionInForce`, `GatedVersionsWereJudged`; `ErasedNamesLeaveEntities`; `RequestsAreWhole`; `TasksFollowTheirTargets` |
| `policies_stick` | the profile *policies* alone | **violation**, section 6 |

### Bounds, and why they are enough

Bounds are constants and appear in guards only: `MaxSuspends`, `MaxStops`, `MaxFamilies`, `MaxEpoch`,
`MaxRenewals`, `MaxKey`, `MaxRevocations`, `MaxRecords`, `MaxKeys`, `MaxArchives`, `Repairs`; `Operations` switches
optional operations on. What the profiles leave out stands with its reason in the `MC` modules. For the
safety properties the proofs hold for every value of these bounds; the instances only have to be large enough that the
mutated models fail, and that nothing unexpected is true by accident.

- *Jobs*: a lease can go wrong between an owner, a runner that takes its job and one that lists
  meanwhile: three runners; two hosts because liveness of an owner is only visible on one's own; two
  stops, so that a job is lost, recovered and lost again; two attempts, so that both outcomes of a
  failure occur. `jobs_services` has no suspensions (`MaxSuspends = 0`), which would multiply its
  liveness graph; the profile *jobs* of `upkeep` has them. One process always survives two stops.
- *Idempotency*: request, retry and retry of the retry, and a request with a wrong body. One
  suspension lets a reservation expire under its request, which is all that suspensions do.
- *Conflicts*: contradiction is a relation between two claims; the third is needed for duplicates, and for a decision
  that leaves two claims in force and a third out.
  Two families suffice for one of each kind, or an old and a new one. A pack needs two claims and scopes,
  or three claims of which the reader may see two.
- *Federation*: three keys: one retired, one pinned, one newer. In *content* both sites' revocations are left out
  (`MaxRevocations = 0`), because there they can only forbid imports; *trust* has them. One claim: claims
  interact through shared evidence only.
- *Derived*: a chain of claim, inference, promoted claim and reflection has every kind of edge; a
  record with two sources is the least for which the order of a walk matters; two levels make one ceiling.
- *Storage*: three keys: one retired, one rotated, one new. Two archives can be imported in the wrong order. Two
  processes: one that upgrades or restores and one that is overtaken, or overtakes.
- *Governance*: four requests of two services exceed a limit of two by as much as they ever can. Three
  epochs let a restored database count past the epoch of an outdated revision; one renewal is one restore,
  migration or restart. Two registries, two installations: one that is asked about, one that disturbs.
- *Upkeep*: two claims dispute; three proposals are applied and rolled back in any order; of two names one is
  erased and one stays. An object has two tasks at most, an inference or a flag one, as theirs are made alike.

Deadlock checking is off where the bounded environment (requests, keys, families, records) runs out, which is
every instance but that of `jobs_services`, where the clock and the runners never stop.

### Fairness

Only `jobs_services` assumes fairness, weak fairness of each runner's next step and of the clock.
The worker loop (`http.py:3733-3753`) calls `run_background_jobs` for as long as its process is up
and catches what a run raises; a provider call returns or times out. Nothing obliges a process to
stop or restart, a client to enqueue, or an operator to recover, and none of these is fair. The
property excuses one case that the code cannot settle either: an owner on a host where no process
is up any more (`Orphaned`); nobody else can tell whether it is alive.

## 5 The proofs

TLAPS checks the following for every value of the constants, under the named assumptions of the
modules. **Every safety and action property that a passing run checks is the statement of a theorem**, and so is
every refinement; the one property of a run that stays with TLC is liveness. Other properties, such as `RetryBudget`,
`DeletionsStayAnnounced`, `ImportsOverwriteNothing`, `DecisionsAreFinal`, `SendingStops` and the `WithdrawnStaysOut` of
*Derivations*, are stated in the modules and proved, and no run spends its time on them.

| theorem | says | further assumption |
|---|---|---|
| **`JobsProofs`** | | |
| `LeaseSafety` | `HeldJobsAreRunning`, `ExclusiveExecution` | `TrustedOperator`: an operator who confirms that a live owner abandoned its job breaks the lease, by design |
| `TerminalSafety` | `TerminalForever` | the same; without it the UPDATE of a library runner that lost its job could complete a failed one |
| `ServiceEffects`, `ServiceTerminal` | `EffectsWithCompletion`, `TerminalForever` | none about the operator: services run the jobs (`Runners = ServiceRunners`) |
| `BudgetKept` | `RetryBudget` | none about the operator |
| **`IdempotencyProofs`** | | |
| `ReceiptSafety` | `ReceiptIsTheEffect`, with `AnswersMatchRequests` and `RefusedMeansUnapplied` | (the property speaks of keys of transactional operations) |
| `LedgerRefinement` | `Idempotency` implements `OperationLedger` | |
| `WithdrawnKeys` | `WithdrawnForever` | |
| `FileSafety` | `FileOperationsNotRepeated` | `~StorageFails`, the case in which section 6 refutes it |
| **`ConflictsProofs`** | | |
| `ConflictSafety`, `OneDispute` | `ContradictionsOnRecord`, `DisputesHaveFamilies`, `OneOpenDispute` | |
| `PacksOnlyRead` | `Recall` implements `Conflicts` | |
| `WarnedReaders` | `ContradictionsComeWithWarnings` | |
| **`FederationProofs`** | | |
| `PeerTypes`, `TrustSafety`, `GrantSafety`, `FinalRevocations` | `TrustFollowsKey`, `GrantsFollowKey`, `RevocationsAreFinal` | |
| `ImportsImplementPeers`, `TrustOfImports` | `Imports` implements `Peers`, so they hold of it | |
| `Withdrawals` | `WithdrawnStaysOut` | |
| `DeletionsAnnounced`, `NothingOverwritten`, `ImportsTypes` | `DeletionsStayAnnounced`, `ImportsOverwriteNothing`, `ImportsTypeOK` | |
| **`DerivationsProofs`** | | |
| `ErasureIsComplete` | `ErasedTextStaysErased` | |
| `WithdrawalsSpread`, `WithdrawnStayOut` | `WithdrawalsReachEverything`, `WithdrawnStaysOut` | |
| `ReadersOnlyRead` | `Reads` implements `Derivations` | |
| `ReadersAreConfined`, `TracesForget` | `ReadersStayWithinCeilings`, `ErasedTextLeavesTraces` | |
| **`StorageProofs`** | | |
| `DeletionsArrive`, `EvidenceComesAlong`, `WholeArchivesImport`, `ImportsAreSingle` | `SourceDeletionsArrive`, `ClaimsKeepTheirEvidence`, `ArchivesAreComplete`, `OneCopyOfEach` | a claim cites at least one event |
| `RetiredKeysSafety`, `ProtectionKept` | `RetiredKeysSealNothing`, `ProtectionSeals` | |
| `IndexesForget`, `SearchIsComplete` | `ErasedTextLeavesIndexes`, `SearchSeesEveryVector` | |
| `SettingsSurvive`, `NoWriteIsLost`, `RevisionsNameStates` | `ChoicesSurviveUpgrades`, `EarlierWritesAreKept`, `RevisionsNameOneState` | |
| **`GovernanceProofs`** | | |
| `CredentialsAreSingle`, `EffectsAuthorized` | `OneCredentialEach`, `EffectsAreAuthorized` | |
| `RateIsLimited` | `AdmittedWithinLimit` | finitely many services |
| `AgentsStayInMode` | `CallsStayWithinTheirMode` | |
| `CandidatesForget`, `SendingEnds` | `ErasedTextLeavesCandidates`, `SendingStops` | |
| `PluginsEnabledWithConsent`, `AnswersConsented` | `EnabledWithConsent`, `AnswersNeedConsent` | |
| `ReviewSafety`, `DecisionsMatch`, `FinalDecisions` | `AppliedOnce` and what answers and receipts say, `DecisionsMatchInspections`, `DecisionsAreFinal` | |
| **`UpkeepProofs`** | | |
| `ConfidenceIsCurrent` | `RankedByWhatIsKnown` | |
| `VersionsInForce` | `OneVersionInForce` | |
| `EvaluationsImplementLearning` | `Evaluations` implements `Learning` | |
| `GatedJudged` | `GatedVersionsWereJudged` | |
| `EntitiesForget` | `ErasedNamesLeaveEntities` | |
| `TasksForget` | `TasksFollowTheirTargets` | |
| `RequestsWhole` | `RequestsAreWhole` | |

The other assumptions are the types of the constants and that markers (`"none"`, `NoClaim`, `"absent"`) are no
proper values; each module names its own (`JobsAssumption`, …), and TLC evaluates them in the runs.

### The arguments

- **Jobs.** The lease invariant adds `StoppedHoldNothing`: a process that is not up has no runner
  that believes to hold something. With it no step takes a job from a live runner: a listing
  recovers only jobs of owners it saw dead; a compare-and-swap needs a pending row; a failure
  handler needs a running one. `TerminalForever` rests on it, too: the unguarded UPDATE that
  completes a job is harmless because a held job is running. For services alone nothing of this is needed:
  they execute and complete in one transaction that looks at the rows again, and no runner is between the two
  (`NoneBetween`). The budget needs neither: each row keeps it by itself (`InBudget`).
- **Idempotency.** The invariant ties the row of a key to what was committed and answered: a kept
  receipt names its own request and body, what was committed was answered with success, and nothing
  unfinished has an answer. The clean-up by id may remove a *stranger's* reservation, but never a
  receipt, and a request without its reservation cannot store one (`Storable`), so its transaction
  is rolled back. Once a row is redacted no step changes it (`TombstonesStay`). For file operations,
  `FileInv` says that at most one request acts for a key (`OneActs`), that an operation was performed
  at most once, and not at all while the key has no row (`Once`).
- **Conflicts.** The conjunction of the three invariants and the types is inductive. Nearly all actions
  change statuses through `Becomes`; two lemmas (`RecordKept`, `DisputesKept`) say when that keeps
  contradictions on record and disputes in families: a family goes on recording what it did, or at most one of the two
  claims stays in force (`Kept`). For a resolution this is a fact about the decision (`DecisionRecords`): whoever is not
  chosen and gets no scope is put out of force, unless the scopes are compared (`ScopeMembers`) or the family stays open.
- **Recall.** `ShownHolds` says of an unfinished, undisturbed pack that everything in it is still what the
  retrievals require. Where scopes were approved for two claims (`ApprovedApart`), no one period or context shows
  both; otherwise `ContradictionsOnRecord` gives a family that is open (`DisputeIsOpen`), and the last step of the pack mentions
  it. Every exception the property names was needed by the proof.
- **Peers.** A known peer has a pinned key and an unknown one has retired none (`Pinned`). An
  approval's UPDATE repeats the comparison with the key that was inspected, so a replacement
  in between makes it fail; a replacement revokes every grant, so a grant in force was accepted under
  the pinned key.
- **Imports.** A notice scrubs the mapped row only, unless that is a candidate. This is enough
  because of where rows in use can be (`RowsOK`): one that waits for review is the mapped one, and
  next to a mapped row that is a claim, or waits, none is in use. All other steps bring nothing back
  into a claim that had nothing in use (`Keeps`); an import does, but only for a claim that was never
  withdrawn. That deletions stay announced rests on `DisclosureInv`: what is in a bundle, or has arrived, was
  disclosed by a share, and a share that receives redactions announces the deletion of whatever it has disclosed; of the others
  the theorem says nothing.
- **Derivations.** `Reached` and `Allowed` are recursive functions over record numbers. Their values are
  characterised once: `SomeReach` and `SomeDecision` show by a least exception (`LeastNumber`, from well-founded
  induction over `<` on the naturals, applied to a set) that an edge-respecting function exists and is unique, and `ReachedIsLeast` that
  `Reached(R)` is the least set that contains `R` and is closed under edges. The invariant for wording is `WordingIsReached`: a record holds
  the wording of a claim only if it is reached from it, or a draft held it. It survives hard deletions, which
  cut edges, because these scrub what is reached first; `Cut` says that only claims have their rows deleted, and that such a row
  has no edges or wording left. For withdrawals, most steps are `Calm` (no claim goes out of force); the others are shown one by one to take
  along all that is below (`TakesAlong`). That it stays out is shown record by record (`StaysOut`).
- **Reads.** `Grounded` gives for every wording in a record a chain of parents down to the claim it came from,
  or an erased record on the way; so a reader who is allowed the record is allowed the claim (`AllowedWording`).
  `ItemsHold` and `AnswersHold` say the same of snapshots: their text was in a record that still answers for it.
- **Archives.** What makes an archive complete is in the source (`SourceSound`: a row that cites erased
  evidence is erased, each with a notice), in the half-read archive (`ReadingSound`: between two tables of an undisturbed backup
  the rows match the links still to be read) and only then in the archives (`ArchivesSound`). In the target (`TargetSound`) a copy in service has its
  evidence in service, and what has been told of a deletion is removed.
- **Keys.** A rotation that counted a key as unused may be wrong only about events sealed after its count
  (`CountedIsSealedLate`); no step seals with anything but the active key.
- **Indexes.** A vector or a text held by an indexing process that says what a claim said belongs to a claim that
  was not erased, or to one that is `held` (`ErasedTextIsFound`).
- **Databases.** Nothing but a replacement takes a write out of a file: every write is in a copy put aside, was made in
  the exposed window, or is in a file that nobody is about to replace (`WritesRest`, `WritesHeld`). Generations are drawn fresh (`Drawn`); a prepared copy has one of its own (`Apart`), so that
  a file with the inspected generation descends from the inspected one (`Followed`) and its epoch tells whether memory changed.
- **Access.** A token or session names its origin, an origin has one (`OneOrigin`), and one that was used is gone
  (`UsedUp`). For rates, the invariant counts: what was spent plus the services that are between reading and
  counting a request stays below the limit plus the number of services (`RateInv`).
- **Agents.** A call under way was checked against its own registry's mode, and what a service is asked is a part of it
  (`CallsChecked`).
- **Intake.** The wording of an event in a candidate has its evidence link, by which a deletion finds it
  (`FoundByDeletions`); what a request has read is the evidence of the request (`ReadIsEvidence`). Of text that was sent too late,
  `LateStops` counts how often it still can be: what a service sent so is not sendable again.
- **Plugins.** An enabled installation was granted what its manifest asks for, and manifests do not change
  (`Governed`).
- **Reviews.** The pair (generation, epoch) is a clock. No revision is ahead of it; one that equals
  it belongs to a holder whom nothing outdated; a decision that took effect is behind it (`Clock`,
  `Spent`, `Honest`). Every writer moves it past every revision given out. A restore moves the epoch back, but
  to a generation that nobody has seen; this is why the *backup* must be `Sound` too. Within a generation no step but a deletion changes
  a decided candidate, which makes decisions final.
- **Confidence.** One lemma says when a computation keeps the property (`RateKeeps`): the claims it leaves out stay where
  they were, or are in dispute, and are not judged by the step. Decisions and resolutions are instances of it
  (`RuledKeeps`), because a dispute ends only with all of its members computed.
- **Learning.** Exactly one version is marked: appending (`MarkedAppended`) and rolling back (`MarkedRolledBack`) move the mark.
- **Evaluations.** A stored run never changes and cases are only added (`RunsKept`, `RunsOnRecord`), so what was
  true of a run when a version came into force through the gate stays true (`GatesHeld`).
- **Entities.** A name of an entity that was not merged away is its alias (`NamesAreAliases`), and for an alias
  *some* event that still holds the name mentions the entity (`AliasesAreMentioned`). That *every* such event mentions it, the first
  guess, is false: extraction may attach a later mention to another entity of the same name.
- **Tasks, Sessions.** A library's reader holds what the target says, or the target is `carried` (`ReaderIsCurrent`); `RequestsAreWhole` is inductive with the types.

**Model-checked only**: `EventuallySettled` (liveness; out of the prover's reach, as is ENABLED). The prover also does no
induction over data, so no theorem says what a recursive definition computes for every input; the facts about
`Reached` and `Allowed` are about their defining equations. No module uses a RECURSIVE operator.

## 6 Where code and documents disagree

Shown by a run:

- `idempotency_files_busy`: when a file operation has written its output and the database is too busy
  to store the receipt, the `finally` clause (`http.py:542`) deletes the reservation; the retry that the
  503 answer (`http.py:527`) asks for repeats the operation.
  `docs/v1_6_1_upgrade.md:42-43` says that interrupted file operations "retain uncertain
  idempotency reservations rather than being repeated".
- `conflicts_open`: resolving a family of duplicates activates its winner (`memory.py:8206`) although
  the winner is a member of a dispute that is still open; `docs/m2_memory_integrity_contract.md:1271`
  says of unresolved disputed claims "Exclude by default".
- `promoted_twice`: a deletion sets every inference it reaches to `stale`, promoted and rejected ones too
  (`core/deletion.py`; `_apply_invalidation_action`, `memory.py:10635`, spares both), so that it can be reviewed
  and promoted again, although "Terminal inferences cannot be promoted again" (`memory.py:2262`).
- `policies_stick`: a half-life policy that is set or changed later never reaches a claim whose confidence was
  computed before, because the half-life used is stored with the claim (`memory.py:13125`);
  `docs/m2_memory_integrity_contract.md:531` calls it "create or update decay policy for a memory type".

Met while modelling. They are in the models as the code has them; they are no runs because a document
can be read either way, no document speaks of them, or the property would restate one comparison. The lists are
by component.

**Claims and conflicts**
- An approval of scopes is void as soon as one of its claims has another scope (`memory.py:7823`;
  `docs/m2_memory_integrity_contract.md:684`); duplicates of *different* values share one family
  (`memory.py:12841`; `:605`); a curation archives a claim that was promoted to core after the
  curation listed it (`memory.py:8532`; `:1349`); feedback "contradicted" marks a claim disputed
  without a family (`memory.py:13023`; `:515`), which is why `DisputesHaveFamilies` excepts `byHand`.
- `resolve_conflict` takes `scoped_claims` with a manual strategy, or one that picks a winner, too
  (`memory.py:8047-8118`, `8125`, `8251-8263`): two contradicting claims can then stay in force with a family that is
  resolved, so that no warning mentions it, and with scopes that nobody compared. The recall property names the case
  (`KeptByHand`); detection finds the two again, unless the family counts as scoped.
- `hard_delete` leaves `conflict_families.active_claim_id` pointing at nothing, after which a logical
  `run_inference` raises `NotFoundError` in that namespace for good (`memory.py:10078`).
- A job whose handler raises is failed in the transaction that holds the writes the handler had made (`memory.py:11564-11568`):
  what curation (`8523`), the refresh of reflections (`11629`) or a learning run (`4721`) had done until then
  stays, and the retry does it again.
- A curation over a library is not atomic; resolutions of sync conflicts, invalidation, retention and redaction
  change statuses without computing confidence again; a dispute lowers every member and computes only
  the newest.

**Candidates and reviews**
- `docs/v1_6_1_upgrade.md:40-41` says that editing a validated candidate requires renewed review; a
  deferral with edits keeps the status `validated` (`memory.py:1787`), and a validation given before an
  edit still counts for a risky candidate (`memory.py:9370`).

**Federation**
- Notices (`federation.py:2542-2547`) scrub evidence only for mapped *candidates*: the synthetic evidence of
  a claim that came in active keeps its text, and so does a promoted candidate left behind by
  `accept_remote_active` (against `docs/m10_federated_memory_contract.md:294`,
  `docs/storage_privacy_boundaries.md:78-80`). In return, the notice of claim A scrubs a candidate B that cites the
  same evidence, and B never comes back (`2221-2222`).
- One remote claim that was sent before with another payload stops every later bundle that carries it,
  the notices included (`2228-2230`; `storage_privacy_boundaries.md:73` documents the stop,
  `m10:288-294` promises that deletions propagate).
- A sync conflict whose candidate was reviewed in the meantime can never be resolved, and no fresh one
  is created (`2264-2267`, against the message at `966`). `propagate_revocations` (`1125`) only stamps
  `propagated_at` (`m10:1409`).

**Derived memory**
- In a library, `build_reflection`, `run_inference`, `index_semantic` and `extract_candidates` read their sources
  before their own transaction; an erasure in between leaves its wording in what they store. The
  ghosts `held` mark exactly this; in a service it cannot happen, which the same properties show.
  A claim promoted from such a record keeps the wording when the base claim is hard-deleted, with no edge left
  to find it by, and readers may then count it as personal.
- After the hard deletion of a source, `promote_inference` raises `NotFoundError` even with `force`; only
  the retirement of direct sources is checked before a promotion. Disabled inference rules still take effect
  (`docs/m4_reasoned_memory_contract.md:2227`); archiving by retention does not invalidate what was derived,
  and a disputed source leaves it active (`:160`).
- The refresh job lifts stale marks whoever set them, and nothing activates the candidates it makes.

**Reads and packs**
- A trace item of a forgotten derived claim stays readable through its inference; the readers of a promoted
  reflection are not asked about the inference it came from; the metadata of `trace_runs` keeps the
  wording of conflict warnings; a library trace stored after a deletion keeps the wording in its row.
- Each retrieval of a pack takes the time itself (`memory.py:6683`): at the boundary of a period a pack can
  hold both values. Approved contexts need distinct `applies_when` texts only, although the match is by
  shared terms (`m2_memory_integrity_contract.md:1272-1273`). Warnings cover the 50 newest unresolved
  conflicts, and over HTTP no family with a hidden member (`docs/v1_3_0_baseline_remediation_plan.md:106`);
  other warnings of a pack do not reach HTTP at all. Reflections and inferences take budget before claims.

**Storage**
- A key rotation in a library counts uses before its transaction, so an event sealed in between
  keeps the retired key (`hardening.py:686`; `docs/encryption_layer.md:141-143`); what remains true is
  `RetiredKeysSealNothing`.
- Raising an event's level leaves its full-text rows and vectors; raising a redacted event stores its
  content again, raising under protected mode switched off stores sealed content in the clear. A claim that is
  activated again lacks its full-text row, and only a deep check that finds *too many* rows repairs it.
- A logical backup that another process tore can verify and then fail to import ("dangling evidence link").
  An older archive imported after a newer one whose tombstone had nothing to be mapped to brings the object in
  (`storage_privacy_boundaries.md:59-61`); one changed row of a claim makes the whole import raise; physical
  archives with sealed rows cannot be imported; logical ones cannot be restored, although the m8
  contract lists the restore of a namespace.
- Writes between the copy that a restore puts aside and the replacement of the file are lost
  (`docs/v1_4_0_migration_guide.md:82`); `EarlierWritesAreKept` excepts exactly these.
- A process that read the schema version before another upgraded (`sqlite.py:103`) lowers the marker again
  (`migration_guide.md:74`).
- `run_retention` with a policy that deletes and one that redacts the same claim raises and rolls back.

**Learning, confidence, entities, tasks, projects**
- The proposal of `optimize_retrieval` carries a whole configuration, so that applying it later overwrites weights
  applied in between, and its evaluation is one of the baseline. Applying or rolling back a procedure after a
  redaction writes the earlier text back, into the full-text row too. The leak counts of an evaluation
  read statuses after the retrieval.
- Redacting a claim scrubs the names of entities it shares. Merging two entities linked to one claim raises
  `IntegrityError`. A merged source keeps its name after the target's redaction: a later mention resolves to it, and
  merging again brings the name back; a library merge that races a redaction does so at once.
- `generate_review_tasks` raises `AttributeError` when an inference is pending (`memory.py:5272`), and `IndexError` when a
  flag without a closed task is (`5361`).
  Closed tasks can be deferred again; `create_review_task` in a library can make duplicates; the console resolves
  only open tasks among the first 20 of a type (`http.py:2632`); decisions elsewhere leave tasks open;
  tasks of procedure proposals keep titles after a redaction.
- Retitling a project leaves its `has_title` claim at the old title; a session can be ended twice; summaries and
  titles stay in the audit log and in `projects.title` after a redaction.

**Services, agents, models, plugins**
- What an MCP registry's mode refuses leaves no invocation row, although `docs/mcp_reference.md` says that calls are logged.
  When the row of a call that was carried out cannot be written, the agent is told of an error and may repeat
  it. Opening a registry replaces the tokenless rights of the shared service; tools that address a row by id do not
  send the registry's namespace.
- In a service, the record of a blocked or malformed answer of a language model is rolled back with the
  exception that reports it, so no run and no safety flag remain (`test_m12:510-514` tests the library). A library
  extraction sends its evidence again for every repair and stores what it held. Evidence that is deleted and ingested
  again makes earlier sends possible again.
- A plugin's checksum is recorded and never verified; a changed directory of the same version keeps the
  permissions recorded first; grants are never withdrawn; a plugin named by name is the newest installation.
  A library run stores its candidate although the plugin was disabled in between.
- After a restart with the same pid (pid 1 of a container), a job left by the dead process has an
  owner that looks alive: no listing recovers it and `recover_job` refuses it (`memory.py:4926`). The
  documents only speak of live owners. `jobs_services` excludes it (`PidReuse = FALSE`).

## 7 What is not modelled

Components without a module (private files, the HTTP client and adapters, the command line) keep no state that
steps of others could disturb; for every other component `PROJECT.json` says which of its operations are left out
and why. Inside the modelled components:

- *Jobs*: what a job does (executions and partial ones are counted; kinds, priorities and payloads are left out), and
  a failure handler that itself meets a busy database.
- *Idempotency*: routing, the content of receipts; a restore over the live database, which replaces the
  file its own reservation is in; file endpoints of other kinds, which authenticate under the lock without a transaction.
- *Conflicts*, *Recall*: confidence (in *Confidence*), evidence links, entities, task bookkeeping; claims of different
  slots; ranking, budgets and wording of packs.
- *Reviews*: evidence spans, labels; cursors and grants of the protocol.
- *Peers*, *Imports*: this site's own exports and key rotation, grants that serve both directions,
  notices that keep content ("tombstone" mode), redacted exports, several remote claims in one
  slot, the coexistence of multivalued predicates, a native claim that is revived, the promotion of
  a redacted remote claim; that a sync with a lapsed share marks its row before it raises. Signatures are
  perfect: a bundle is what the holder of its key wrote.
- *Derivations*, *Reads*: which rule infers what; any set of sources may be inferred from. Levels are two
  per ceiling, and traces hold one snapshot per record.
- *Protection*, *Archives*, *Databases*: ciphers and formats; the rows a backfill adds for history and labels;
  several namespaces in one archive; a disk that fails.
- *Access*: passwords and lengths of tokens; failed authentications, which have a rate bucket of their own; the
  bounded map of failed pairing guesses.
- *Intake*, *Plugins*: what models and plugins answer, beyond valid, invalid, unsafe; batches of ingestion.
- *Confidence*: floats and time. A confidence is a tuple of what it was computed from; where the code compares numbers, every outcome is possible.
- *Learning*, *Evaluations*: usage events, outcomes, judgments and learning runs, which are logs.
- The closure of a deletion is in each module for the rows of that module; that the closures meet is code
  reading (`core/deletion.py`), not a theorem.
- Everywhere: SQLite itself. A transaction is atomic and durable.

## 8 Plan

Every module of the plan is written, checked and proved about. What would add most:

1. The closure of a deletion composed across *Derivations*, *Reads*, *Protection*, *Tasks* and *Entities*, so
   that its completeness becomes one theorem.
2. Fuller models: a failure handler that meets a busy database (*Jobs*), grants that serve both directions and
   this site's own key rotation (*Peers*).
