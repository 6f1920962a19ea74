# TLA+ models of the Cognous agent control plane

This directory holds TLA+ specifications of `src/agent_control_plane`, TLC
configurations that check them on small instances, and TLAPS proofs of the
results that matter most. Every definition follows the Python source; comments
name the function it stands for, and `PROJECT.json` gives the lines.
Source paths below are relative to `src/agent_control_plane/` of the
repository.

## 1. The system

The package decides whether a proposed action of an agent is within its
authority, records the decision and what became of it, and (in the bounded
authorization pilot) carries the effect out at most once.

| component | state it keeps | operations | interacts with |
|---|---|---|---|
| **Bounded record store** (`bounded.py` 297-413) | one JSON document of append lists; a sidecar lock file; an `RLock` per instance | construct, `load`, `append_decision/refusal/attempt/observation/reconciliation` | threads and processes on one host share the file |
| **Refund destination** (`bounded.py` 527-586) | a JSON file: effects, number of effects per grant | `apply`, `observe`, `snapshot` | called by the workflow; a process-local `RLock` |
| **Bounded authorization workflow** (`bounded.py` 589-1011) | none of its own: everything is in the record store and the destination | `decide`, `execute`, `reconcile` | resolver (lookups), record store (appends), destination (apply, observe) |
| **Authority resolution** (`_resolve`, `bounded.py` 1007-1404; `SyntheticResolver` 421-525) | the institution's: authority context, status sources, clocks | one resolution: context, then some ten status lookups | called twice by decide and execute, once per claim |
| **Execution claims** (`local_authority_effect.py`) | the handoff lock of the resolver; the claims of a participating local store | `materialize_local_execution_claim`, `provision_local_execution_claim`, `verify_local_execution_claim` | resolver, record store, the institution's writers, the claim store |
| **Policy gate, run recorder, tool execution, validator** (`policy_gate.py`, `records.py`, `tools.py`, `validation.py`, `frame.py`) | one recorder: run id, frame, lists of actions, decisions, traces, grants, reliances, blocked actions | `start_run`, `add_authority_record`, `propose_action`, `evaluate_action`, `execute_with_control`, `complete_run`, `to_run_record` | adapters, which may call back into the recorder |
| **Microsoft AGT adapter** (`microsoft_agt.py`) | none of its own; the caller's mutable proposal object | `evaluate`: awaits a backend, then asks the local evaluator about the proposal or its transformed copy | AGT backend, local evaluator, the proposal's owner |
| **Decision input commitments** (`decision_input_profile.py`) | the record given to it | `verify_record`: obligations, requirements, admissibility, classification | the record's author |
| **Replay, redaction, signing, persistence, policy configuration, CLI, data models** | immutable data, one file write | pure functions and plain I/O | the above |

### What is hard in it

* **Threads and processes.** The record store is shared by the threads of
  several processes; the destination by threads; nothing excludes two
  overlapping `execute` calls of one effect.
* **Crashes.** A process can die between any two system calls, a host between
  a rename and the directory fsync; a caller can die between recording an
  attempt, applying it and recording the outcome.
* **Lost answers.** The destination's acknowledgement can be lost after the
  effect was committed; the caller asks again.
* **Moving authority.** Grants are revoked, policies revised, approvals
  withdrawn between the lookups of one resolution, between `decide` and
  `execute`, between two looks at one status, and while a claim is handed over
  to the store that will commit the effect. Reports are dated by clocks other
  than the workflow's.
* **An await.** The AGT adapter reads the proposal before it awaits the
  backend and again after it; the caller holds the same object.
* **Edited documents.** Several edits of a decision-input record, each with its
  commitments recomputed, may add up to another record than was issued.
* **Call-backs and reuse.** An adapter may call the recorder; `start_run` may
  be called on a recorder in use.

### What makes each part correct

* Record store: an append that returned success is kept, once, through any
  interleaving, failed system call or crash; readers never see history
  rewritten; unreadable content is never replaced; every operation ends.
* Destination: at most one commit per effect, never more effects of a grant
  than its limit, every request answered.
* Workflow: nothing reaches the destination unannounced; a dispatch rests on
  inputs resolved within the call; no resubmission once an attempt is recorded;
  the record tells the truth about the destination.
* Resolution: an authorization never rests on a state that was last true longer
  ago than the accepted age plus the clock skew, in the version the context names.
* Claims: no invalidation is lost between the resolver and the store; no effect
  is committed on an invalidated input; calls leave the handoff.
* AGT adapter: an authorization rests on both gates or its evidence shows the
  edit in between; a transformed result is out of the owner's reach.
* Decision input: the classifier follows its declared precedence; acceptance
  honours what the requirements name; bad evidence is not mended by more of it.
* Controlled runs: the record validates; a tool runs only inside the frame of
  its own run and on an allow; grants of another run, of another actor or out
  of date are never used.

## 2. Modules

    RecordLog  <--implements--  RecordStore         (MCRecordStore, RecordStoreProofs)
    EffectLedger <--implements-- RefundDestination   (MC-, RefundDestinationProofs)
         ^
         +-- uses its Commit --  BoundedWorkflow     (MC-, BoundedWorkflowProofs)
    AuthorityResolution                              (MC-, AuthorityResolutionProofs)
    ClaimHandoff                                     (MC-, ClaimHandoffProofs)
    ControlledRun                                    (MC-, ControlledRunProofs)
    AgtGate                                          (MC-, AgtGateProofs)
    DecisionInput                                    (MC-, DecisionInputProofs)

An `MC` module extends its specification and defines the small constants its
configurations use. Definitions marked "Mutant:" are wrong variants of the
definition that follows them; no specification uses them, and `PROJECT.json`
says which property each of them would break.

### RecordLog and RecordStore

`RecordLog` is what a caller is promised: append lists, success means exactly
one new entry for good, an exception or a death may or may not have added it, a
stop of the host takes back nothing acknowledged. `RecordStore` is the code:
`Construct`, `Load` and `AppendTo` begin an operation; `TakeRLock`, `TakeFlock`,
`Read`, `WriteTemp`, `Replace`, `SyncDirectory`, `Release` are the steps of
`_transaction`, `_append` and `_write`; `Raise` is any failing system call,
missing or invalid record (the check of `_require_local_locking`, which only
raises, is one of them); `ProcessDies` and `HostStops` are crashes. An entry is
identified with the call that wrote it. `disk` is the set of contents a stop of
the host may leave: the rename adds one, the directory fsync leaves only the
current one. The close of the descriptor and the release of the `RLock` are one
step, because the sidecar lock alone decides who goes on.

### EffectLedger and RefundDestination

`EffectLedger`: an effect is committed once and never changes; a grant's effects
stay within the limit of the request that takes the last place.
`RefundDestination`: `Request` calls `apply` or `observe`; `TakeLock`,
`LoadState`, then `Duplicate`, `Exhausted` or `Edit`, `WriteState` and
`Committed`, which answers or loses the acknowledgement; `Fail` is a failing
file operation, `Crash` a death and restart on the same file. `snapshot()`
reads like `observe` and changes nothing; it is not an action of its own. The
limit is per effect and not per grant because `effective_max_effects` comes
with each request and is not part of the effect id; it is the same in every
request of one effect, which makes no difference: a repeated effect is answered
before the limit is compared.

### BoundedWorkflow

One step per lookup, record append and destination call; local variables of a
call are `my[c]`. `Decide`: context, statuses, `RecordDecision`. `Execute`:
context, statuses, `Revalidated`; if something changed `Reread` (the second pass
of `_effect_time_changed_inputs`) and `RecordRefusal`; otherwise
`LoadPriorAttempts`, `Observe`, `RecordObservation`, `RecordReconciliation`, and
then either `RecordExisting`, nothing, or `RecordAttempt`, `Apply`,
`RecordOutcome` and a second observation. `Reconcile`: observation only. `Abort`
ends a call at any point: an exception, an adapter mismatch, or the caller's
death. Presenting a decision that is not a persisted authorized one raises
without a change of state, so it is no step. Record appends and the
destination's calls are atomic here, which is what `RecordStore` and
`RefundDestination` establish. The checks of an observation's time are the
nondeterministic `accepted`. Statuses are a version and a flag. A hold decision
keeps its binding in the model; the code stores none, and nothing reads it.

### AuthorityResolution

The institution acts (`InstitutionActs`), reissues its context (`Reissue`),
sources report with their own clocks or lose their report (`SourceReports`,
`SourceLoses`); `Reasons` is what `_resolve` would return now. `BoundTo` says
whose version a report must name: an approval is bound to the grant revision it
was given for. The requirement (which inputs besides the grant, which evidence
obligation) is chosen in `Init`. All versions are compared by equality only, so
identifiers (institution, tenant, source, role) are part of them.

### ClaimHandoff

`_materialize_under_handoff` step by step under the handoff lock: context and
statuses (`Resolved`: what `_resolve` insists on), `ResolutionChecked`, context
and statuses again (`Projected`: what `_validate_issuance_snapshot` insists on),
`SnapshotChecked`, and `Provision`, after which the store's rows are
authoritative. `Bound` are the inputs whose version the decision binds, which
`_resolve` compares with it; `Matched` those whose version in the snapshot's
context is compared with the decision, as `_validate_issuance_snapshot` does of
the grant and the requirement only. The store, its commit of an effect and the institution's writers
are outside this repository and modelled from the contract in the docstrings
and the qualification harness: `Write` respects the handoff, `WriteAround`
does not, `WriteStore` writes to the store once there is one.

### ControlledRun

Each method of `RunRecorder` is a step; `execute_with_control` is
`ExecuteWithControl`, `EvaluateControlled` (or `EvaluateRaises`),
`RejectAdapter` or `CallAdapter`, and `AdapterReturns` or `AdapterRaises`, so that
adapters can call back and other callers can interleave at method granularity
(another thread that looks between the appends of one `evaluate_action` is not
modelled).
`StartRun` leaves every list as it is, as the code does. `Rules` are the six
rules of `_apply_rules` in order. (The code allows an `external_send` that has
authority; the list in the docstring of `policy_gate.py`, lines 12-17, would
escalate it.) `ValidRecord` is `_validate_run_consistency`.
Direct calls of `record_reliance`, JSON export and replay bundles are left out.

### AgtGate

`evaluate` is two steps, because nothing suspends it but the await:
`Evaluate` up to the await, where the payload is copied into the request, and
then one of `BackendFails` (`MicrosoftAgtUnavailable`), `BackendRefuses` and
`CognousDecides`. `EvaluateNoTenant` is the call that asks nobody. `OwnerEdits`
is the caller, which edits the one proposal object at any time. A proposal is
its payload, the payload its commitment was taken of, and its other terms. The
backend may answer anything; the local evaluator may return anything but an
authorization of a payload that is not the one committed to, which is what
`_manifest_mismatches` compares. The await has no timeout in the code, so no
call is obliged to end and no liveness is claimed. The request is a value: the
SDK's backend gets a shallow copy of the payload (`microsoft_agt.py:123`), and a
backend that keeps nested values or edits them is not modelled.

### DecisionInput

`verify_record` as predicates over a record, and the author of the record as
the actions: `Declare`, `Recommit`, `Remove`, `Pin`, `AddEvidence`,
`WithdrawEvidence`, `Retime`. A commitment is modelled by what it commits to.
Those over the whole record anyone can recompute and they are taken to be up to
date; those of obligations (`committed`) and of requirements (`pinned`) can be at
odds with the record and are variables. The four rounds of checks are
`ObligationFaults`, `InstitutionalFaults`, `ItemFaults` and `StatusFaults`; each is
the set of codes the round can raise, since which of two faulty items comes
first is a matter of the list's order. `Status` is `_evidence_status`, missing
evidence first as in the code; `Precedence` is the order the profile declares. A
requirement's origin is compared by its reference alone, an obligation's by
reference and version with the policies listed, as in the code.

## 3. What the runs check

| run | properties | what it shows |
|---|---|---|
| `record_store` | `TypeOK`, `AckedRetainedOnce`, `SnapshotsArePrefixes`, `CorruptionPreserved`, `ImplementsLog`, `OperationsReturn` | two threads of one process and one of another, two operations each, one crash; starts from no file, an empty record or an unreadable one |
| `refund_destination` | `TypeOK`, `CapHolds`, `OneCommitPerEffect`, `ImplementsLedger`, `RequestsAnswered` | two threads, three effects of one grant with limits 1, 2 and 2, two requests each, one crash |
| `workflow_concurrent` | `TypeOK`, `WriteAhead`, `NoResubmission`, `ReconciliationBacked` | two callers with two calls each, two proposals, one change of authority, one call cut short |
| `workflow_sequential` | `RevalidatedWithinCall`, `OneDispatchPerEffect`, `OutcomesTrue` | one caller with four calls, the grant and the policy in two versions each, one proposal, two changes, one call cut short |
| `authority_resolution` | `TypeOK`, `AuthorizedRecentlyTrue`, `WaitingAuthorizesNothing` | a grant valid from instant 1 with an approval, or with a required evidence; instants 0 to 2, maximum age 0, tolerance and skew 1 |
| `claim_handoff` | `TypeOK`, `NoInvalidationLost`, `SnapshotWitnessed`, `EffectWhileValid`, `ProvisionedWhileValid`, `CallsReturn` | two issuers, four inputs (one only the resolution insists on, one only the snapshot does, one whose version in the snapshot nothing compares), one write that respects the handoff, one that does not |
| `controlled_run` | `TypeOK`, `RecordValid`, `FingerprintDetermines`, `ExecutedWithinFrame`, `AllowBacked` | two callers, two runs with different frames, two actions and decisions, a grant that may expire |
| `agt_gate` | `TypeOK`, `AuthorizedByBoth`, `TransformedResultStands` | two evaluations of one proposal object, two payloads, two other terms, two edits |
| `decision_input` | `TypeOK`, `StatusByPrecedence`, `PinsHonoured`, `NothingRevives`, `TimeOnlyAges` | two obligations of three payloads, three policies, seven kinds of evidence of which two at a time, instants 0 to 2 |
| `partial_effect` | `PartialNeverAcknowledged` | violated, see below |
| `decision_input_pins` | `RequirementBindsObligations` | violated, see below |
| `recorder_reuse` | `RecordsOneRun` | violated, see below |

**Bounds.** They are the smallest in which the hazard can happen. Losing an
append takes two writers, one of them in another process, and a third call that
looks. Exceeding a cap takes two effects of one grant; a cap that differs
between requests takes two limits, and exceeding the larger takes three effects;
any number of grants is left to `CapNeverExceeded`. A double dispatch takes two
executes and a lost answer; under two decisions (the effect id leaves the policy
version out) it takes a decision, an execute, a change of the policy, a second
decision and a second execute, which are the four calls and one of the two
changes of `workflow_sequential`. A stale authorization takes an instant more than age
plus skew, which `MaxTime` allows for an age of 0; `DecisionsAreRecent` is for
any ages. The edges that waiting crosses are those of `not_before` and of the
tolerance; that `expires_at` is exclusive is stated by `ResolutionIsExact`. A lost invalidation takes one write between two of the issuer's steps,
and a second issuer shows that one's release does not open the other's handoff.
Leaking a grant or a frame takes two runs. An edit that is put back before AGT
answers takes two edits, and a second evaluation shows whether one's transform
reaches the other. Conflicting or ageing evidence takes two items and two
instants. Deadlock checking is off where callers stop for good once their calls
are used up, and on in `authority_resolution`, `decision_input` and
`decision_input_pins`.

**Symmetry** permutes callers, proposals, payloads, terms, or versions, and is
used only in runs without liveness properties and refinements.

**Fairness** is weak fairness of the next step of a started call, per thread
(`Fairness` in `RecordStore`, `FairSpec` elsewhere). It says that a live thread
is scheduled and that a blocking `flock`, `RLock` or `with` on a free lock is
taken eventually. In `RecordStore` a failing system call is never what fairness
forces: a thread that waits for a lock does not get out of it by an exception,
and only a thread that cannot read the record must raise. Crashes may happen or
not. Nobody is
obliged to start a call. No fairness among waiters is assumed: the number of
calls is bounded, so competitors run out.

### Where the code and its documents disagree

* `partial_effect`: `docs/bounded_authorization_effect.md:115` says a partial
  effect is held. `bounded.py:733` takes the status of an attempt from the
  caller's `partial` argument; when two `execute` calls overlap and the
  destination answers the second with the first one's partial effect as a
  duplicate, the second records it as acknowledged.
* `decision_input_pins`: `docs/decision-input-commitment-profile.md:52` says that a
  requirement binds the exact commitments of its obligations. The commitment of
  a requirement covers its content alone, and
  `decision_input_profile.py:304` compares its `obligation_commitments` only with
  what the record lists: a record from which an obligation is taken in both
  places is accepted under the requirement's unchanged commitment.
* `recorder_reuse`: `records.py:35` and `:95` describe one run per recorder and a
  `start_run` that initialises it; `records.py:105` clears none of the lists, so
  the record of the second run holds the actions of the first.

### Properties with a condition

`NoInvalidationLost`, `EffectWhileValid` and `ProvisionedWhileValid` hold only
while every writer takes part in the handoff (`InOrder`), which the docstrings
require of a deployment. `SnapshotWitnessed` holds for all writers: an input
changed between the resolution and the snapshot's own lookup cannot enter the
claim. It says nothing of a change after that lookup; for writers that take part
in the handoff, the properties above do.
`WaitingAuthorizesNothing` has the two exceptions it names, because a grant
becomes valid and a report from the future comes into the tolerance by waiting.
`OneDispatchPerEffect` and `OutcomesTrue` are stated for callers whose calls do
not overlap: two overlapping `execute` calls do dispatch twice, and only the
destination keeps the effect single. Section 4 has what is proved of them under the
weaker condition `NoOverlap`, and without any. `RevalidatedWithinCall` says that every
input was good at some moment after `execute` was called, not that all were good
at the dispatch: the code has no exclusion between the two (its documents call
this the C0 limitation). `RecordValid` is for the first run of a recorder.

## 4. What is proved

Each theorem holds for every value of the constants that satisfies the named
assumption of its module. Seven of the eight proof modules have the same shape:
an inductive invariant, a lemma that it holds initially, one lemma for each kind
of step that it is preserved, and the properties as its consequences. The
invariants were checked by TLC before they were proved.

Section 3 leaves open what still holds where a run has a counterexample or a
property has a condition. The later parts of the proof modules say: what survives
any overlap of callers, what follows once a condition the code leaves to its
callers is assumed (`NoOverlap`, `Unedited`, `PinsAsIssued`), and how much of the
liveness properties is safety. The three conditions are hypotheses of the theorems
that name them, never assumptions of the model: the runs include the behaviours
that break them.

**RecordStoreProofs** (assumes: `InstanceOf` maps threads to instances, the bounds
are numbers, `NoFile`, `Corrupt` and `None` are distinct from documents and
threads): `TypeCorrect`, `Safety`, `AckedAreRetained`, `CorruptionIsPreserved`,
`SnapshotsArePast`, and `RefinesRecordLog`, the refinement of `RecordLog`.
`AckedRetainedOnce` is not inductive: it says nothing of a document about to be
written. `Safe` adds what the code relies on: who is between its read and its
directory fsync holds the sidecar lock (`LockInv`); hence what it is about to
write is the present record plus its entry (`WorkInv`); no document holds an
entry of a call that has not renamed yet (`FreshInv`), so an entry is added once
(`OnceInv`); a call past its rename has its entry in the record (`WrittenInv`),
and after the fsync in every content a stop of the host may leave (`SettledInv`);
an unreadable record is the only possible content (`DiskInv`). Most steps leave
`doc` and `disk` alone and need only `QuietSafe`. `PastInv` adds the order of
versions: what a stop of the host may bring back and what a live thread has
loaded are earlier versions of the record. With both, each step maps to one of
the log: `Replace` to `Create` or `Commit`, `Release` to `Acknowledge` or
`Abandon`, the death of a process to `Abandon`, a stop of the host to
`HostCrash`, the rest to the start of a call or to a stutter.
Two theorems are the part of `OperationsReturn` that is safety. `LocksOwned` says
that each lock is held by exactly the thread whose step is inside it, and gives
`NeverDeadlocked`: an operation that cannot go on waits for one that can, through
at most one other (a thread waits for the RLock of a thread that waits for the
sidecar lock of a third). `OperationsOnlyAdvance` gives every step a rank that
only falls, so that an operation is at most seven steps of its own.

**RefundDestinationProofs** (assumes: finitely many effects, each with a grant and a
limit): `TypeCorrect`, `CountsHold` (the stored count is the number of effects,
which no run checks), `CapNeverExceeded`, `OneCommit`, and
`Implements`, the refinement of `EffectLedger`. `Inv` says that whoever is inside
holds the lock, that the state it has loaded is the file, and that the state it
is about to write is the file with its one effect added (`WithEffect`); the count
of a grant is then one more than the number of its effects, which takes the
library's facts on cardinality. The rename is the only step the ledger sees.
`NeverDeadlocked` and `RequestsOnlyAdvance` (at most five steps) are as above.

**BoundedWorkflowProofs** (assumes: the inputs are a sequence that holds the grant,
the bounds are numbers): `TypeCorrect`, `EffectsAnnounced`, `DispatchesRevalidated`,
`RetriesDoNotDispatch`, `ReconciliationsBacked`, for any overlap of callers and
calls cut short anywhere. `Inv` relates each call to the records (`CallInv`): an
execute call refers to an authorized decision of its effect; what its status
lookups have passed so far was good within the call (`Seen`), so that all of it
was once they end; before it applies, its attempt is in the record (`Announced`);
and a call that found an attempt at its start knows of a prior one. Records and
ledger only grow (`Grown`), which is why a step of one call disturbs no other.
Two overlapping executes of one effect may both dispatch, so that three theorems
assume they do not (`NoOverlap`; executes of other effects, decisions,
reconciliations and changes of authority may overlap as they like):
`DispatchedAtMostOnce`, `OutcomesStayTrue` and `PartialStaysHeld`, which the run
`partial_effect` refutes without the condition. `Solo` adds to `Inv` that an
execute which found its effect without attempts still finds it so when it
dispatches, that the effect is then absent at the destination, and that the
outcome a call is about to record is so there. A call cut short between the
dispatch and its outcome leaves the "attempted" entry, which keeps every later
call from dispatching.
What is left when executes do overlap: no caller dispatches an effect twice
(`CallersDispatchOnce`); an outcome recorded as acknowledged, partial or unknown is
one of an effect that is at the destination (`ConfirmationsBacked`), so that only
the kind of a success, or a failure, can be wrong in the record; and what was
observed to be there stays (`ObservationsStayTrue`). `Shared` ties entries to calls
for these: a call has no entry before it dispatches, and if it found no attempt,
its caller has no entry of an earlier call.
`CommitsAnnounced` says whose a commit is (`CommitsAreOwn`): `WriteAhead` alone
would be satisfied by an attempt that another caller recorded, this one takes
the executing call's own, and with it that the call found every input current
since it began, and no attempt when it began. `LimitNeverExceeded` composes the
workflow with the destination's specification: two callers together never commit
more than the grant's limit.
`StrandedStays` is the price of the write-ahead entry: an effect with an attempt
whose caller is gone, and which never reached the destination, is never committed
afterwards.

**ClaimHandoffProofs** (assumes: the two checks insist on inputs that are looked up,
and `None` is no issuer and no row): `TypeCorrect`, `Safety`, `NothingLost`,
`ClaimsStand`, `EffectsStand`, as long as every writer has taken part in the
handoff, and `SnapshotsAreFresh` for any writers. `Safe` says of every issuer
(`IssuerInv`): inside, it owns the handoff; hence the context it has read and the
statuses it has looked up are still those of the resolver (`ReadInv`, `FoundInv`),
and so are the checks it has passed (`CheckedInv`), until there is a store or a
writer goes around the handoff. `SeenInv` and `WitnessedInv` need no lock: of the
inputs the snapshot has examined, each was either found active in the decided
version by that very lookup (`held`, a history variable) or is a fault, and a
snapshot without faults has therefore found all of them. `StandInv` ties the history variable `valid` to the resolver until
the store takes over. `NeverDeadlocked` and `CallsOnlyAdvance` are the safety in
`CallsReturn`; the rank of a call counts the lookups its two loops have left, for
a sequence of inputs of any length.

**AuthorityResolutionProofs** (assumes: ages, tolerance and skew are numbers; a
version is bound to that of an input): `TypeCorrect`, `HistoryHolds` and
`DecisionsAreRecent`. `History` relates the reports to the history variable
`lastGood`: what is good now was last good now, a report of a good state is of a
moment when it was good, give or take the source's clock, and nothing was good
in the future. The bound of age plus skew follows by arithmetic.
`ResolutionIsExact` compares the collected reasons with a definition of support
that does not mention them (`Supported`): the resolution authorizes if and only if
the grant is in force and each report it looks up supports it. From that follow
two action properties: `WaitingIsNoNews` (`WaitingAuthorizesNothing`), that time alone turns a hold into an
authorization only for a grant that was not valid yet or a report from the
future, and `NewVersionsHold`, that a change of a version a decision rests on
takes effect at once.

**ControlledRunProofs** (assumes: the fields of proposals, frames and grants that the
code reads, numbers for the bounds and for expiry times): `TypeCorrect`,
`CallsStayInFrame`, `AllowsAreBacked`, `FingerprintsDetermine`, `FirstRunValid`.
`Inv` says of each decision (`DecisionInv`) that its result is a function of its
fingerprint, that an allow of a write or send has a grant of its run behind it,
and that the action it decides was proposed in its run; lists only grow.
`RecordValid` is about a first run, and `recorder_reuse` shows why. `RunsStayApart`
says what survives a `start_run` while calls are under way: decisions, traces and
blocks stay with the run of their action, and every reliance is on a call that a
decision allowed, though it may be booked to a later run. `OneCallPerAction`
needs that each action is in one caller's hands (`Held`).

**AgtGateProofs** (assumes: `None` is no payload and no proposal, `MaxEdits` is a
number): `TypeCorrect`, `SoundHolds`, `BothGates`, `TransformsStand`. `Sound` says of a call that awaits what it has
sent, and of one that is done which of the two gates said what about which
payload; no step of another call or of the owner touches either.
`UneditedStand` adds that without edits there is no divergence to show: every
authorized result hands on what was authorized.

**DecisionInputProofs** (assumes: the fields of payloads and items, and the issued
obligations): `TypeCorrect`, `ClassifierAsDeclared`, `NoRevival`, `TimeAlone`,
`AcceptanceHonoursPins`. Beyond typing no invariant is needed: these are facts
about the classifier and the four rounds for any evidence, and about the effect
of one step on them. `IssuedPinsBind` locates the disagreement of
`decision_input_pins`: as long as the commitments of requirements are as issued,
acceptance does bind the obligations. `EditsOfPinnedShow` and `WithdrawalMisses`
say what single edits of an accepted record can lead to.

Only model-checked: that operations, requests and calls do return
(`OperationsReturn`, `RequestsAnswered`, `CallsReturn`), because fairness and
`ENABLED` are out of the prover's reach. What is proved of them is that there is
never a circle of waiting and that every call has a bounded number of steps; what
is left is that each step that can be taken is taken. Only model-checked, too, is
what the three runs with a counterexample refute. What a recursive function
computes for all inputs would need induction with an operator parameter, which
the provers at hand cannot instantiate; no module here needs it.

## 5. Observations, and what is not modelled

Three things met while modelling that no property states, because the documents
only imply that they are otherwise or leave them open:

* Optional evidence that is to hold the effect when unknown (`hold_effect`) is
  judged by `bounded.py:1256` by its age alone: a fresh report of "unknown" lets
  the effect pass. `docs/bounded_authorization_effect.md:90` lets unknown optional
  context pass only under `preserve_if_other_basis_suffices`, and
  `local_authority_effect.py:291` treats `hold_effect` as decision-critical.
* A refusal lists the reasons of one pass over the sources and the changed
  inputs of a second one (`bounded.py:668`, the step `Reread`): an input that is
  reinstated in between is a reason without a changed-input entry.
* After an edit during the await, an authorization without a transform is of a
  payload AGT never saw (`microsoft_agt.py:231`). The evidence shows it, by two
  different commitments and no transform; nothing refuses it.

Not modelled, and why:

* In `_resolve`: role mapping, identity chain, tenant equality, and the matching of
  Manifest and permissions (`bounded.py` 1020-1107, 1168-1177, 1303-1404). They
  compare immutable data and have no state.
* `verify_local_execution_claim` and the commitments in a claim: hashing of
  immutable data. A proposal object that its owner edits during
  materialization (`local_authority_effect.py:389`): the calls are synchronous;
  the same exposure is modelled in `AgtGate`, where the caller regains control.
* In the decision-input profile: field types, and commitments over parts that
  nothing else in the record refers to.
* Several processes on one destination file: excluded by
  `docs/record-store-persistence.md`.
* `record_reliance` called directly, JSON export and replay bundles: copies of
  the recorder's lists.
* Replay, redaction, signing, single-file persistence, configuration, CLI,
  data models, examples: pure functions and plain I/O.

## 6. Plan

Done, in order of weight: `RecordLog`, `RecordStore`; `EffectLedger`,
`RefundDestination`, `BoundedWorkflow`; `AuthorityResolution`, `ClaimHandoff`,
`ControlledRun`; `AgtGate`, `DecisionInput`; a proof module for each.

What could follow: a workflow whose destination is `RefundDestination` itself, step
by step, in place of its ledger; `_resolve`'s Manifest and permission matching and
the identity chain, as operators over small records, checked against a reference
definition.
