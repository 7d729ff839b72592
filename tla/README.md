# Secure Agent Gateway in TLA+

A verification project for `src/secure_agent_gateway` (Python): TLA+ modules translated from the
source, model-checked with TLC, and theorems about them checked by TLAPS. Paths below are relative to
the repository.

Contents: [the system](#the-system) · [modules](#modules) · [runs](#runs) ·
[fairness](#fairness) · [proofs](#proofs) · [divergences from the documentation](#divergences-from-the-documentation) ·
[not modelled](#not-modelled) · [plan](#plan)

## The system

A host process holds a `SecureAgentGateway`. Agents sign requests; the gateway authenticates them,
decides under a single-call policy and a policy over the session's history, asks for an approval
where the policy says so, runs a registered adapter, and records what happened. Around it are tools
that check a sequence policy before it is installed.

| Component (source) | State | Operations | What makes it correct |
| --- | --- | --- | --- |
| gateway (`gateway.py`, `models.py`) | pending calls under a lock | `submit`, `resume` | one adapter call per request identifier; decision, adapter and effect commit are one step of the session; answers and audit trail tell the truth; every call is answered |
| session stores (`session.py`, `sqlite_store.py`) | claimed identifiers, histories, a lock per session or one SQLite write lock | `claim_request`, `serialise`, `snapshot`, `record_success` | histories grow only by committed effects; claims outlive a SQLite process |
| sequence policy (`session.py`) | rules | `match`, `evaluate` | never weakens a control; windows look at the last events only |
| policy engine (`policy.py`, `registry.py`) | registry, version | `evaluate`, `revalidate`, `inspect` | a changed version or target is denied again at execution |
| approvals (`approvals.py`) | consumed identifiers under a lock | `issue`, `verify_and_consume` | a receipt binds one request, version and context, in time, once |
| authentication (`auth.py`) | nonce markers with expiries | `authenticate` | an envelope is accepted once |
| rate limiter (`rate_limit.py`) | a deque of stamps per principal and tool | `consume` | no more than the limit in a window; no refusal without cause |
| audit log (`audit.py`) | the file, last hash and sequence | `append`, `verify` | a file the program wrote verifies; damage inside it does not |
| bounded relational checker (`model_checking.py`) | search frontier, decisions | `run`, mutation analysis | a pass means the policy does what the requirements say; a mutant survives only if it still does |
| policy change checker (`policy_change.py`) | union frontier with two reachability flags | `run` | a pass means no new harm and no lost use; each policy is seen as it would be alone |
| trajectory contracts (`trajectory.py`) | the suite, the mutants left, the outcomes | `run` of the runner and of the mutation analyser, the generator of mutants | a conforming policy passes; the survivors are explained |
| probe synthesis (`probe_synthesis.py`) | probes, gaps, a budget of candidates | `run`, `build_contracts` | a probe isolates one condition in the shortest trace; a report without gaps covers the suite and compiles |
| policy contracts, MCP adapter, CLI, schema, secrets, request diff | none of their own | translation, validation | see [not modelled](#not-modelled) |

How they interact. `submit` calls the authenticator, the store's `claim_request`, and then, inside
the store's `serialise`, the snapshot, the policy engine (which asks the rate limiter), the sequence
policy, the audit log, the adapter and `record_success`. `resume` takes a parked call out of the
pending table while it consumes the receipt, and enters the same transaction. Threads share one
gateway; processes share only a SQLite file, and an audit file if they are given the same path. Offline,
a proposed sequence policy goes through `PolicyChangeChecker`, then `BoundedMutationAnalyser` (which
runs `BoundedRelationalChecker` on the policy and on each of its mutants); or its requirements go
through `RequirementProbeSynthesiser`, whose report `build_contracts` turns into a suite that
`SequenceMutationAnalyser` runs against a policy and its mutants.

What is hard: threads and processes that interleave between those calls; the time of a call, read
once on entry and used after waits; a store or an audit log that raises between two steps; a process
that stops after an adapter ran and before its effect is committed; memory (nonces, pending calls,
consumed approvals) that a restart forgets while the store does not; two processes that append to one
audit file, each with its own last hash; and searches that are cut by a budget, that remember only
the last events of a trace, and whose verdict people act on.

## Modules

| Module | Models |
| --- | --- |
| `SequencePolicy` | matching and evaluation of sequence rules, as operators |
| `Approvals` | receipts: `issue`, `verify_and_consume`, as operators |
| `Windows` | the nonce window and the sliding rate window, as operators |
| `Gateway` | `submit` and `resume` with the components they call; composes the three modules above |
| `GatewayProperties` | the properties of `Gateway`, the type invariant, the inductive invariant, the refinement |
| `PolicyHistory` | abstract specification: what the gateway promises about session histories |
| `RateLimiter`, `NonceStore` | the two windows against a real clock and callers that wait |
| `Admission` | one clock reading that passes the nonce store and, after a wait, the rate limiter; composes the two |
| `AuditLog` | an audit file and the processes that write it, failing writes, restarts, damage, verification |
| `TraceSearch` | traces, what a search may decide, and `Explores`, the invariant of a search |
| `FlowRequirements`, `CheckInputs` | requirements, expected controls, evidence, failures, metrics and thresholds, as operators; the arguments of the checkers |
| `RelationalChecker`, `PolicyChange` | the two breadth-first searches and their reports |
| `PolicyMutants` | the generator of policy mutants, as operators |
| `MutationAnalysis` | `BoundedMutationAnalyser` over `RelationalChecker` and `PolicyMutants` |
| `PolicyReview` | a proposal is checked as a change, then by the mutation analysis; the change checker as a refinement of two relational checkers |
| `PolicyReviewProperties` | what the verdicts of a review mean, its inductive invariant `ReviewInv` |
| `ProbeSynthesis` | the search for probes, its stages, budget, gaps and coverage |
| `TrajectoryContracts` | validity of contracts, the runner with its metrics, `SequenceMutationAnalyser` |
| `ProbeAssurance` | synthesis, compilation and mutation analysis as one; composes the two modules above |
| `ProbeAssuranceProperties` | what a report and the contracts compiled from it are worth, the inductive invariant `AssuranceInv` |
| `MC*` | instances for TLC |
| `*Proofs`, `*Theorems` | theorems |

### Gateway

A call is one of `Calls`; `pc` names the stretch of code it executes next and `frame` holds its
locals. Each action is a stretch that no other thread can interrupt: it takes and frees at most one
lock or does one statement on shared state. In order:

| Action | Code |
| --- | --- |
| `Submit`, `Resume` | entry, reading the clock; a resumption names any request and hands in any receipt |
| `Authenticate` | `Authenticator.authenticate`, freshness then nonce |
| `Claim`, `StoreUnavailable` | `claim_request`, or its exception |
| `Redeem`, `RedeemUnknown` | `resume` under the pending-state lock, receipt included |
| `Enter` | `serialise`: a session's lock in memory, `BEGIN IMMEDIATE` on SQLite |
| `Judge` | snapshot, `PolicyEngine.evaluate` with the rate limiter, `SequencePolicy.evaluate` |
| `CheckContext` | the context digest of a resumed call |
| `Park` | the pending call is stored, before its audit record and the return: from here on it can be approved and resumed |
| `Execute` | version, targets and sequence policy again |
| `EvaluationRaises` | an exception out of the path or host checks, in either evaluation; it leaves without an audit record |
| `Announce`, `Invoke`, `AdapterReturns`, `AdapterRaises` | `execution_started`, credential, adapter |
| `Settle`, `SettleFails` | `record_success` |
| `Exit`, `ExitFails` | commit or lock release; `_finalise_session_result`, `_session_failure_result` |
| `Record`, `RecordFails` | `_record`; an exception leaves through `submit` or `resume` |
| `Crash` | the process stops; memory is lost, SQLite rolls back |
| `Issue`, `Tick`, `ChangePolicy`, `Retarget` | approver, clock, host and file system |

Abstractions. A session is a (principal, session identifier) pair. A digest is what it digests: the
context digest of a decision is the history itself, the request digest the request. Signatures cannot
be forged, so a refused signature is a refused call without state. Role, secret and schema checks
are a set of tools that are denied. `Volatile` are the tools whose target may move, `Fragile` those
whose target check may raise (`expanduser`, `resolve`, `urlsplit`). `ran` and `runs` are ghost state that
says which adapters ran, for properties only. `MaxVersion`, `MaxFaults`, `MaxCrashes` and `MaxClock`
bound the model; each is a guard of the action that counts. `Sqlite` selects the store. A SQLite
statement is refused when the file is locked for longer than the busy timeout, which may be any time,
or when it fails, which counts as a fault.

### RateLimiter, NonceStore, Admission

Gateway shows these components among others, at one or a few instants. The modules of their own let
the clock run. `submit` reads it once, so in `Admission` a caller that the nonce store accepts keeps
its reading while it waits for the session's lock, and hands it to the limiter. Two waits are told
apart. Between the reading and the nonce store nothing blocks, and `MaxLag` bounds that wait by one
second (`AuthenticationIsPrompt`). The wait for the session's lock is as long as the holder's adapter
in memory and the busy timeout on SQLite, so the limiter's callers wait without any bound, and so do
the theorems about it.

### AuditLog

A line's hash is the record itself (no collisions). Each of `Writers` is a process with its own
`_sequence` and `_last_hash`, read from the file when its `AuditLog` is made and never again
(`audit.py:26-44`); the lock of `append` is within a process, so two processes interleave by whole
writes, which the model takes to be atomic (one `write` to a file opened for appending). A failing
write may leave nothing, a fragment, a record without its newline, or the whole line; a process may
also stop there. `Damage` edits, repeats, swaps or removes lines outside the program. Removal of the
last line is not in `Damage`: verification cannot notice it. `behind` and `overlapped` are ghost state:
who has not seen the latest lines, and whether such a writer has written.

### RelationalChecker, PolicyChange, MutationAnalysis, PolicyReview

Both searches keep one frontier per depth and extend its traces in order, which is the order of a
queue, so the models keep a queue (`todo`). Templates are numbered in the order of their
identifiers. A trace is decided by the operators of `FlowRequirements`; evidence is the set of
(effect, position of its latest visible source). Metrics are compared as counts with thresholds in
hundredths. A policy is a set of rules and a mutant a policy with one rule replaced, so mutants that
differ only in an identifier are one; the order in which mutants are run does not matter to the report
and one is chosen. The inputs (policies, suite, thresholds, budget) are chosen in `Init` out of small
sets. The references the reports are held against do not use the search: they quantify over all
traces up to `MaxEvents`.

`EachIsChecked` is a refinement: seen through the reachability flags, the search over two policies
takes the steps of `RelationalChecker` on each of them, with the same queue order, counterexamples and
verdict.

### ProbeSynthesis, TrajectoryContracts, ProbeAssurance

The synthesiser works on one requirement at a time (the code in the order of identifiers, the model
in any order). A requirement takes up to four stages, `FindSources`, `FindProhibited`,
`IsolateEffects` and `ProbeHistory`; before each stage its candidates are taken from the budget, and a
budget that runs out ends the search without a report. Templates are numbered, and "the least pair" of the code is
the least by the same keys. A trajectory case is its trace, the controls it expects, the position of
its first intervention and its evidence. `Compile` is `build_contracts` with the checks that
re-derive each probe; `Begin`, `Baseline`, `Try`, `Conclude` are `SequenceMutationAnalyser.run`. The
mean values in the reports, the digests and the content of requests other than the tool are left out.

## Runs

| Run | Instance and bounds | Shows |
| --- | --- | --- |
| `memory` | in-memory store, 4 calls, 2 sessions of one agent, a limit of one call, a leak rule, an adapter that may raise, a duplicated identifier | `TypeOK`, `DecidedOnPrefix`, refinement of `PolicyHistory` |
| `sqlite` | 2 processes, 3 calls, 1 fault, 1 crash, approval after a read | `AtMostOnce`, `OneDriver`, `TrailIsTrue`, `AnswerIsTrue`, refinement of `PolicyHistory` |
| `approvals` | 4 calls, 2 deletions to approve, 1 approval identifier, a policy change, a moving target | `DecidedOnPrefix`, `ApprovedRuns`, `ReceiptOneUse`, `ParkedIsIdle` |
| `time` | 3 calls, 5 instants, parked calls live 2 seconds and receipts 1, a missing credential | `TimelyResumes` |
| `liveness` | SQLite, 3 calls, 1 fault, 1 crash, exceptions out of policy evaluation, fair scheduling | `CallsReturn`, `AnnouncedIsSettled` |
| `admission` | 2 callers, 4 envelopes, two with one nonce, skew 1, 1 second to authenticate, any wait for the lock, 2 calls in 3 seconds, 8 instants | `Replays`, `AcceptedOnce`, `LaggedLimit`, `RefusalIsEarned` |
| `audit_log` | 2 processes, 4 lines, 2 events, 1 failing write, 2 restarts, 1 act of damage | `CleanFileVerifies`, `VerifiedIsComplete`, `DamageIsDetected` |
| `policy_review` | all changes from 3 policies to one of at most 2 of 9 rules, 4 suites, 3 tools, 3 events, full and no thresholds, budgets of 38 and 39 decisions; then the proposal and all its mutants | `NoNewHarm`, `NoLostUse`, `CandidateConforms`, `ChangesAreReal`, `PassMeansConforms`, `FailureIsExplained`, `ReportsAreComplete`, `SurvivorsConform`, `EachIsChecked` |
| `probe_assurance` | suites of 2 requirements (72 by 12 of them) and 3 dead ends, 5 templates, traces of 4 events, enough and too little of every limit, 3 policies, 2 thresholds | `PassedReportsCompile`, `CompleteReportsCover`, `ProbesIsolate`, `ProbesAreShortest`, `ConformingPoliciesPass`, `SurvivorsAreBacked`, `ContractionIsNoticed` |
| `rate_limiter_doc` | 3 callers that wait, 2 calls in 3 seconds, 7 instants | `WindowLimit` is violated |
| `audit_log_doc` | as `audit_log` | `EachNamesPrevious` is violated |
| `probe_pairs_doc` | one suite, as `probe_assurance` otherwise | `PairCountIsReal` is violated |

Why the bounds are enough. The properties of `Gateway` relate at most two calls of an identifier and
a third that disturbs them (a session that moves on, another process), so three or four calls reach
each case; one fault and one crash reach every partial failure, as each property speaks of one call's
or one identifier's steps; two versions are enough for a change between any two steps. A nonce or a
rate window is passed completely within the instants of its run, from both sides of each edge. With a
limit of two calls the deque of `admission` holds stamps out of order (a call that waited appends the
older one behind the younger), and calls are refused on such a deque. Four
lines of an audit file are two of each process in every order, with a restart of either between them;
the run also passes with two failing writes. Three events are the least in which a window of one or
two can forget a source, and a boundary pair exists for two-effect requirements; four events leave
room for a source trace of two, a spacer and the sink, so that a probe at a window of two or three
exists. `policy_review` and `probe_assurance` enumerate all inputs within their sets; 39 is the number
of all traces of three templates up to three events, so both searches that exhaust the budget and
that do not are in the runs.

`AnnouncedIsSettled` speaks of each call by itself: the call returns with the execution settled under
its own identifier, unless it raises, which after the announcement only its audit records can make
it do.

What the review of policies promises depends on more than its name says, and the properties keep
those conditions in sight. `NoNewHarm` is about sessions that run event by event; a candidate that
allows an event the baseline denied may open a path, and the checker follows it (`candidate_only`
boundaries). `SurvivorsConform` is an equivalence at full thresholds: the surviving mutants are those
that do what the requirements say up to the depth, no more and no fewer. `SurvivorsAreBacked` is
weaker, because the paired contracts are few: a mutant that lost one of several targets may survive
(a probe is made for one sink of a requirement), and so may one whose effect another requirement of the
same control also stops. `ConformingPoliciesPass` excludes only the empty policy, which has no mutant
and is refused for that.

Every property has at least one mutant in `PROJECT.json`: a definition changed as a plausible slip
would change it (`Slip:` in the modules), under which TLC finds the property violated.

## Fairness

`FairSpec` assumes weak fairness of `Step(c)` for each call: a thread that can go on eventually does.
The code justifies it by ordinary thread scheduling, by locks that are held only across steps that
are fair themselves, and by adapters that answer; an adapter that never returns is outside it, as
nothing in the code limits one. Nothing forces hosts to call, approvers to sign, clocks to advance or
components to fail. Weak fairness suffices for `Enter`, although the lock may be taken by others
again and again: there are finitely many calls in the model. For a server with endless calls it would
have to be strong fairness of the lock, which Python's locks do not promise; the liveness result is
therefore about finitely many contenders. On SQLite a waiting call may also be refused.

## Proofs

| Theorem | For every value of the constants |
| --- | --- |
| `TypeCorrect` (`GatewayProofs`) | `Spec => []TypeOK` |
| `DriverIsUnique`, `RunsAtMostOnce`, `ParkedStayIdle` (`GatewayProofs`) | `Spec => []OneDriver`, `[]AtMostOnce`, `[]ParkedIsIdle`, when `Durable` |
| `SessionsAreSerial`, `EventsAreDecidedOnPrefix` (`GatewaySafetyProofs`) | `Spec => []AllSerial`, `[]DecidedOnPrefix`, on either store |
| `GatewayKeepsPromise` (`GatewaySafetyProofs`) | `Spec => KeepsPromise`, the refinement of `PolicyHistory`, when `Durable` |
| `RunsAreApproved`, `ResumesAreTimely` (`GatewaySafetyProofs`) | `Spec => []ApprovedRuns`, `[]TimelyResumes`, on either store |
| `ReceiptsBuyOneRun` (`GatewaySafetyProofs`) | `Spec => []ReceiptOneUse`, when `OneMemory` |
| `TrailTellsTheTruth`, `AnswersTellTheTruth` (`GatewaySafetyProofs`) | `Spec => []TrailIsTrue`, `[]AnswerIsTrue`, when `Durable` |
| `ReplaysAreGuarded`, `EnvelopesAreAcceptedOnce` (`AdmissionProofs`) | `Spec => []Replays`, `[]AcceptedOnce` of `NonceStore`; with `AdmissionKeepsNonces`, `AdmissionSpec => Spec`, also of `Admission` |
| `LimitHoldsDespiteLag`, `RefusalsAreEarned` (`AdmissionProofs`) | `AdmissionSpec => []LaggedLimit`, `[]RefusalIsEarned` |
| `DamageAlwaysShows` (`AuditLogProofs`) | `Spec => DamageIsDetected`, for files of any length |
| `NothingAcknowledgedIsMissing`, `OnlyForksFailVerification` (`AuditLogProofs`) | `Spec => [](damage <= 1 => VerifiedIsComplete)`, `Spec => []CleanFileVerifies`, when `TornIsNoLine` |
| `CompositionIsMonotonic`, `MoreRulesAreStricter`, `UnboundedRulesPersist`, `WideWindowsForgetNothing` (`FlowTheorems`) | algebra of sequence policies |
| `ReviewInvariant` (`PolicyReviewProofs`) | `ReviewSpec => []ReviewInv` |
| `PassesConform`, `CompleteReports`, `FailuresAreExplained` (`PolicyReviewProofs`) | `ReviewSpec => []PassMeansConforms`, `[]ReportsAreComplete`, `[]FailureIsExplained` |
| `MutantsSurviveByConforming` (`PolicyReviewProofs`) | `ReviewSpec => []SurvivorsConform` |
| `PassingAddsNoHarm`, `PassingKeepsUse`, `PassingCandidatesConform`, `ReportedChangesAreReal` (`PolicyReviewProofs`) | `ReviewSpec => []NoNewHarm`, `[]NoLostUse`, `[]CandidateConforms`, `[]ChangesAreReal` |
| `EachIsCheckedAlone` (`PolicyReviewProofs`) | `ReviewSpec => EachIsChecked`, the refinement of `RelationalChecker`, once for each policy |
| `AssuranceInvariant` (`ProbeAssuranceProofs`) | `Spec => []AssuranceInv` |
| `ContrastsIsolate`, `ProbesAreMinimal`, `CompletenessIsCover`, `ReportsCompile` (`ProbeAssuranceProofs`) | `Spec => []ProbesIsolate`, `[]ProbesAreShortest`, `[]CompleteReportsCover`, `[]PassedReportsCompile` |
| `ConformanceIsAccepted`, `ContractionIsSeen`, `SurvivorsHaveBacking` (`ProbeAssuranceProofs`) | `Spec => []ConformingPoliciesPass`, `[]ContractionIsNoticed`, `[]SurvivorsAreBacked` |
| lemmas of `WindowTheorems` | the deque stays a sequence of stamps; used by `TypeCorrect` |

Assumptions are the named `ASSUME`s of the modules, which TLC evaluates in the runs, and `Durable`:
the store is SQLite or no process restarts. Without it the theorems are false, since an in-memory
store forgets its claims in a restart; the documentation says so (`THREAT_MODEL.md:35`). `OneMemory`
is one process that does not restart: consumed approval identifiers are kept in the memory of the
authority, so another process, or the next one, would accept the same receipt again. `TornIsNoLine`
is the hypothesis that a line that is not JSON is not a record.

*At most once.* `AtMostOnce` is not inductive: nothing in it prevents a second call from being on its
way to the adapter. `OneDriver` strengthens it to the argument the code relies on. An identifier is
driven by one party at a time: the call whose claim succeeded, then the parked entry it left, then
the resumption that took that entry out, and nobody once the adapter was called. A claim creates a
driver only for an unclaimed identifier; `Park` hands over to an entry; `Redeem` removes the entry in
the same step in which it becomes the driver; `Invoke` ends the role. The proof has one lemma per
action that changes drivers and one for all the others.

*One step of the session.* A call is decided on a snapshot and its event is committed several steps
later. `AllSerial` says what holds in between: the call owns the session's lock, the snapshot and the
decision's context are still the session's history, and the run that the commit will record was made
under this decision. Only the owner of the lock appends, and a crash frees a lock only together with
the call that held it, so every other call keeps all of this through any step. `DecidedOnPrefix`
follows from what a commit finds. For `PolicyHistory` also `OneCommit` is needed: the call about to
commit is the only one that ran its identifier (`OneDriver`), the identifier is in no history yet, and
the re-evaluation of `Execute` found the event lawful on that very history.

*Approved and timely.* `AllVouched` carries what was established at redemption to the adapter: a call
with a receipt runs the parked decision that the receipt signs, within its times; a call without one
was not told to ask. `ParkedInTime` carries the age of the signature over the time a call is parked.
For `ReceiptOneUse`, the identifier a call holds is in `consumed`, so no second call can get it, and no
run has it before the holder's own.

*True answers.* The trail and the answers are about the past (which adapter ran) and about the future
(a reported failure must never be committed later). `Truth` says both: `Told` relates a call's status to
`ran`; a call that goes on to report success has its event in a history, and histories keep their
events; a failure that is told or reported makes its identifier `Closed`: claimed, not committed, not
parked, with no call that could run or commit it. `RunnerIsAlone` shows that whoever fails was the only
one that could, and `ClosedStays` that no step of any other call opens a closed identifier again.

*Accepted once.* `Replays` says that an accepted envelope has a marker that outlives its freshness by
one second, or is stale for every caller. The retention of `2 * skew + 1` is exactly what the case of
a caller that reads the clock a second before it asks needs; `AuthenticationIsPrompt` is that
assumption. It covers the authentication only, not the wait for the session's lock that follows.

*The limit.* Nothing is assumed of how long callers wait. `admitted` keeps for each admission when its
call came (`came`, the reading) and when it was admitted (`at`). `Aligned` compares the deque with
it: the deque is the list of the readings of the last admitted calls, and every call it has forgotten
came before the window of the present. So the admitted calls that came within the last period are
all in the deque, which never holds more than the limit (`LaggedLimit`). `PoppedIsPrefix` says what the
popping loop takes. A refusal finds a full deque whose first reading is in the window of the refused
call. Readings in the deque may be out of order, but the calls were admitted in its order and none
before it came, so all of them were admitted after the first one came (`Crowded`, which gives
`RefusalIsEarned`).

*The audit file.* A file is a sequence of lines, each a record of four fields or `Torn`; this is all
`DamageAlwaysShows` needs. One lemma for each kind of damage finds the line that gives it away: an
edited event no longer has its hash, two swapped lines are at the other's number, a repeated or a
removed line moves the number of the line after it. (Removing the last line moves none, and is not
claimed.)

`NothingAcknowledgedIsMissing` has two arguments. While nobody damages the file it is `Kept`: no write
takes a line out of a file that still verifies; it only appends, or it spoils the unfinished line it
lands on, which then never verifies. This holds of forked files too. Damage may remove what keeps a
file from verifying (a fragment, or a line that a failed write left behind), so the rest is not
about the file at hand but about what a hash stands for: `Covers(hash, lines)` says that *every* file
that verifies and ends in that hash contains those lines. `Traced` says that the last hash of each
writer that has seen the whole file, and that of the file's last line, cover all acknowledged lines; a
line written after a hash that covers some lines covers them and itself (`CoverGrows`), because a hash
holds the one before it. One act of damage cannot change the last line of a file that verifies
afterwards (`DamageShows`): an edit leaves the old hash, and a swapped or repeated line is somewhere
with too small a number, for a line never counts further than its position (`Ordered`). So the last
line is what it was, and still covers everything. Two acts are too many: TLC finds at once that the
last line can be swapped away from the end and then removed.

`OnlyForksFailVerification` needs `Counted`, the inductive invariant about several writers: a writer
that is behind has counted fewer lines than there are, so its next line has a number that does not
fit; one that is not behind stands at the end, so its next line does. TLC found no violation of `Kept`,
`Counted`, `Ordered` and `Traced` (with `Covers` over the files of up to four lines) on the instance of
`audit_log`.

*The searches.* `ReviewInv` holds both checkers to what they explore. `Explores` says it without the
order of the queue: what is decided or waiting is reachable, nothing is there twice, and every
reachable trace is decided or continues one that waits. An empty queue then means that all reachable
traces are decided, and a budget that runs out means that there are more of them. A decision is the
one its trace gets; in the search over two policies each trace carries the sides that reach it
(`ReachedBy`), so a policy's own decisions are those it would make alone. The kept counterexamples
are shortest because each set of witnesses has a least one, by its length and then in the order of
the search. A pass speaks of what the policy allows, while `Conforms` speaks of what the
requirements permit: the two meet in the first event at which they differ (`ConformsWhereReached`),
which exists because the naturals are well-ordered. For `NoNewHarm`, take a session that the
candidate runs to a prohibited call and the baseline does not: either the baseline reaches that call
and stops it there, or it stopped an event before and only the candidate reaches it; the report has
a regression either way. `SurvivorsConform` needs `WellBounded`: full thresholds ask also for
boundaries, which the requirements have, as the policy itself passed, so a mutant fails by its
conduct alone. `ReviewInv` was model-checked on the instance of `policy_review` with five of its
nine rules.

*The two searches in one.* `EachIsChecked` maps the change checker to a relational checker of one policy: its
queue is what the policy reaches of the common queue (`OwnTraces`), its decisions are the policy's own. A
decision about a trace the policy does not reach is a stutter, and so is an exceeded budget, since
the policy alone may have needed less. `OwnTraces` is a recursive function, whose equations first have to be
shown to have a solution (`CollectionExists`); that it takes a joined queue apart (`OwnOfConcat`) is by induction on
a set of numbers (`UpTo`), which stands in for the induction theorem.

*The probes.* `AssuranceInv` says where a requirement stands: its sources are all the shortest
sequences of templates that cover it, its candidates are sessions it prohibits, each probe is a
prohibited trace and a permitted one that differ in one event, and a requirement that is done has a
gap exactly if it is not covered. The search looks only at sequences of different source templates;
`ProbesAreShortest` is about all traces, and rests on a count: fewer events than the shortest cover
leave an effect out (`FewerDoNotCover`). For the same reason a prohibited trace of that length lies
within the window (`ShortestIsInWindow`). The best of the pairs exists because their keys are
well-ordered. Compiled at full thresholds, a contract asks the policy for the same controls as the
requirements up to the first intervention, on both of its traces, and for the evidence
(`ContractsAsk`). A policy that conforms therefore passes. A rule that lost an effect stops the
permitted trace of that effect's probe; one whose window is an event too short misses the oldest
event of the window's probe; and no other rule can stand in unless it is `Backed`. `AssuranceInv`
was model-checked on the instance of `probe_assurance`. The assumptions are those of the constants:
requirements have at least one source (`model_checking.py:56`), the effects are finitely many
(`EffectsAreFinite`), and `MaxEvents`, up to which the properties speak of traces, is no less than
the limit given to the search (`TracesFit`).

Only model-checked: the temporal properties (TLAPS has no liveness under fairness here, nor
`ENABLED`): `CallsReturn` and `AnnouncedIsSettled`. Each other property of a passing run is stated by a
theorem.
The library's induction theorems take an operator, which the installed provers cannot instantiate; where a
proof needs induction, the argument about a set of numbers is spelled out (`LeastNatural`, `UpTo`).

## Divergences from the documentation

- *Sliding window* (`rate_limiter_doc`). `submit` reads the clock on entry (`gateway.py:75`) and the
  limiter is asked after the wait for the session lock, with that reading. Callers that waited can
  be admitted beyond the limit within one period of the clock. What holds is `LaggedLimit`: no more
  than the limit are admitted of the calls that came within the last period, so that a call which
  waited counts for a period less its wait.
- *Hash links* (`audit_log_doc`). When `fsync` raises after the line is in the file, the counters do
  not move and the next record repeats the sequence number and the previous hash of that line
  (`audit.py:70-74`). The file then no longer verifies, and a restart refuses it.
- *Minimal pairs* (`probe_pairs_doc`). When a window is as long as the source trace, the history stage
  pads candidates with no spacer and yields each of them once per neutral template
  (`probe_synthesis.py:419-445`); `_make_probe` counts the equal copies (`:570`). `minimal_pair_count`
  is then larger than the number of pairs that `docs/PROBE_SYNTHESIS.md:43-46` says it records.

Noticed while modelling, without a run of their own:

- Two processes on one audit file fork the chain at their first overlapping writes
  (`CleanFileVerifies`); nothing in the documentation forbids it, and a later restart refuses the file.
  With a forked file an editor can drop one branch and leave a file that verifies, which is why
  `VerifiedIsComplete` leaves that case out.
- The temporal coverage of a report divides by the requirements whose window is not one event, but counts
  on top all requirements with a probe at the boundary, those of one event among them
  (`probe_synthesis.py:815-830`): it may exceed one, and a requirement that is not covered may go
  unnoticed in it. The gaps of the report, which decide whether it passes, are not affected.
- The gap `no_selectable_prohibited_trace` is also reported of a requirement alone in its suite, when
  its window is shorter than the events that its effects need.

## Not modelled

- `schema.py`, `secrets.py`, `request_diff.py` and the path and host resolution of `policy.py`: pure
  functions of one request (and of the file system or DNS); `Gateway` keeps that they may deny and that
  a target may change between checks.
- `mcp.py`: stateless translation to `submit` and `resume`; `cli.py`, `__init__.py`.
- `contracts.py`: single-call cases evaluated one after the other, with no state but a list of results.
- `PolicyChangeAttestor` (a signature over a report), the descriptive change metrics, the means and
  digests in reports, the fields of probe and trajectory requests other than the tool.
- Exceptions out of policy evaluation other than those of the path and host checks (a registry or a
  sequence policy that a host changes while it is in use).
- A client that repeats an MCP call whose answer was lost: the adapter makes a new request identifier
  and a new nonce (`mcp.py:91`), so the gateway takes it for another call.
- Adapters that call the gateway again: a re-entrant lock in memory, a `RuntimeError` on SQLite.
- A commit that takes effect although it raises; a clock that steps back.
- Removal of the audit file's tail, which verification cannot notice; writes of two processes that mix
  within a line.
- HMAC and SHA-256: signatures are unforgeable, digests injective.

## Plan

1. Done: inventory; `Gateway` with its components, runs and mutants; `Admission`, `AuditLog` with several
   writers; the review of policies with both checkers and the mutation analysis; probes and trajectory
   contracts; the safety properties of `Gateway`, its refinement of `PolicyHistory`, and the replay,
   rate limit and audit file properties as theorems; every invariant of `policy_review` and of
   `probe_assurance` as a theorem.
2. Next modules: a `SessionStore` specification of its own that both stores implement, with crash and
   commit; the attestor.
3. Next theorems: those of the modules of point 2.
