---------------------------- MODULE BoundedWorkflow ----------------------------
(***************************************************************************)
(* BoundedAuthorizationWorkflow (src/agent_control_plane/bounded.py        *)
(* 589-1011): decide, execute and reconcile, called by several callers     *)
(* that share a record store and a destination while the institution       *)
(* changes the authority inputs underneath them.  Record appends and the   *)
(* destination's apply and observe are atomic here, as RecordStore and     *)
(* RefundDestination show they are; everything between two of them may be  *)
(* interleaved, and a call may end at any point, by an exception or by the *)
(* death of its process, with its local variables lost.                    *)
(*                                                                         *)
(* Authority inputs (grant, policy, approval, ...) are versions: the       *)
(* authority context names the current version of each, a status source    *)
(* says which version it knows and whether that is active.  _resolve reads *)
(* the context and then each status, one lookup after the other.  The      *)
(* grant's version is the one that enters the effect id.                   *)
(***************************************************************************)
EXTENDS Integers, Sequences, FiniteSets

CONSTANTS Callers, Proposals,
          InputOrder,   \* the status lookups of _resolve, in order; "grant" is one
          Versions,
          Limit,        \* effective_max_effects of the one grant
          MaxCalls,     \* bound: calls one caller makes
          MaxChanges,   \* bound: changes of authority inputs
          MaxAborts,    \* bound: calls that end early
          None

Inputs == {InputOrder[k] : k \in DOMAIN InputOrder}

ASSUME WorkflowAssumption ==
    /\ InputOrder \in Seq(STRING) /\ "grant" \in Inputs
    /\ Limit \in Nat /\ MaxCalls \in Nat /\ MaxChanges \in Nat /\ MaxAborts \in Nat

VARIABLES
    context, status,    \* the authority context and the status sources
    decisions, refusals, attempts, observations, reconciliations,  \* the run record
    ledger,             \* the destination's effects
    pc,                 \* per caller, the step of its call
    my,                 \* per caller, the local variables of its call
    calls, changes, aborts

records == <<decisions, refusals, attempts, observations, reconciliations>>
authority == <<context, status>>
vars == <<authority, records, ledger, pc, my, calls, changes, aborts>>

Bindings == [Inputs -> Versions]
Effects == Proposals \X Versions
EffectId(p, binding) == <<p, binding["grant"]>>
Statuses == [version : Versions, active : BOOLEAN]
Current(version) == [version |-> version, active |-> TRUE]

Ledger == INSTANCE EffectLedger
          WITH Grants <- {"grant"}, GrantOf <- [e \in Effects |-> "grant"],
               LimitOf <- [e \in Effects |-> Limit]

Init ==
    /\ \E v \in Versions : context = [i \in Inputs |-> v]
    /\ status = [i \in Inputs |-> Current(context[i])]
    /\ decisions = <<>>
    /\ attempts = [e \in Effects |-> <<>>]
    /\ refusals = {} /\ observations = {} /\ reconciliations = {}
    /\ Ledger!Init
    /\ pc = [c \in Callers |-> "idle"]
    /\ my = [c \in Callers |-> None]
    /\ calls = [c \in Callers |-> 0]
    /\ changes = 0 /\ aborts = 0

Goto(c, step) == pc' = [pc EXCEPT ![c] = step]
Return(c) == Goto(c, "idle") /\ my' = [my EXCEPT ![c] = None]

------------------------------------------------------------------------------
(* The institution. *)

\* held: the inputs that have been active, since the call began, in the
\* version its decision binds (kept for RevalidatedWithinCall only).
Holding(binding, st) == {i \in Inputs : st[i] = Current(binding[i])}

Change ==
    /\ changes < MaxChanges
    /\ changes' = changes + 1
    /\ \/ \E i \in Inputs, v \in Versions :
            /\ context' = [context EXCEPT ![i] = v]
            /\ UNCHANGED <<status, my>>
       \/ \E i \in Inputs, s \in Statuses :
            /\ status' = [status EXCEPT ![i] = s]
            /\ my' = [c \in Callers |->
                        IF pc[c] = "idle" \/ my[c].decision = 0 THEN my[c]
                        ELSE [my[c] EXCEPT !.held = @ \cup
                                Holding(decisions[my[c].decision].binding, status')]]
            /\ UNCHANGED context
    /\ UNCHANGED <<records, ledger, pc, calls, aborts>>

------------------------------------------------------------------------------
(* Calls. *)

\* The local variables of a call: d is the decision to execute, or 0.
Locals(c, op, p, e, d) ==
    [op |-> op, id |-> <<c, calls[c] + 1>>, proposal |-> p, effect |-> e,
     decision |-> d, kind |-> "applied", read |-> context, next |-> 1,
     bad |-> {}, changed |-> {}, prior |-> FALSE, observed |-> "none",
     accepted |-> FALSE, phase |-> "pre", outcome |-> "attempted",
     held |-> IF d = 0 THEN {} ELSE Holding(decisions[d].binding, status),
     late |-> attempts[e] # <<>>]

Begin(c, locals, step) ==
    /\ pc[c] = "idle"
    /\ calls[c] < MaxCalls
    /\ calls' = [calls EXCEPT ![c] = @ + 1]
    /\ my' = [my EXCEPT ![c] = locals]
    /\ Goto(c, step)
    /\ UNCHANGED <<authority, records, ledger, changes, aborts>>

Decide(c, p) ==
    Begin(c, Locals(c, "decide", p, EffectId(p, context), 0), "context")

\* The decision must be a persisted, authorized one; any other call raises
\* before it has done anything.  The caller may present another proposal.
Execute(c, p, d, kind) ==
    /\ decisions[d].result = "authorized"
    /\ Begin(c, [Locals(c, "execute", p, decisions[d].effect, d) EXCEPT !.kind = kind],
             "context")

Reconcile(c, e) ==
    Begin(c, [Locals(c, "reconcile", e[1], e, 0) EXCEPT !.phase = "only"], "observe")

------------------------------------------------------------------------------
(* _resolve: one lookup per step. *)

ReadContext(c) ==
    /\ pc[c] = "context"
    /\ my' = [my EXCEPT ![c].read = context]
    /\ Goto(c, "status")
    /\ UNCHANGED <<authority, records, ledger, calls, changes, aborts>>

\* Mutant: the lookup of the next input starts past the last one.
ReadStatusUnreset(c) ==
    LET i == InputOrder[my[c].next]
        last == my[c].next = Len(InputOrder)
    IN  /\ pc[c] = "status"
        /\ my' = [my EXCEPT ![c].next = @ + 1,
                            ![c].bad = IF status[i] = Current(my[c].read[i])
                                       THEN @ ELSE @ \cup {i}]
        /\ Goto(c, IF last THEN "resolved" ELSE "status")
        /\ UNCHANGED <<authority, records, ledger, calls, changes, aborts>>

\* Mutant: any active status will do, whatever version it is of.
ReadStatusUnversioned(c) ==
    LET i == InputOrder[my[c].next]
        last == my[c].next = Len(InputOrder)
    IN  /\ pc[c] = "status"
        /\ my' = [my EXCEPT ![c].next = IF last THEN 1 ELSE @ + 1,
                            ![c].bad = IF status[i].active THEN @ ELSE @ \cup {i}]
        /\ Goto(c, IF last THEN "resolved" ELSE "status")
        /\ UNCHANGED <<authority, records, ledger, calls, changes, aborts>>

ReadStatus(c) ==
    LET i == InputOrder[my[c].next]
        last == my[c].next = Len(InputOrder)
    IN  /\ pc[c] = "status"
        /\ my' = [my EXCEPT ![c].next = IF last THEN 1 ELSE @ + 1,
                            ![c].bad = IF status[i] = Current(my[c].read[i])
                                       THEN @ ELSE @ \cup {i}]
        /\ Goto(c, IF last THEN "resolved" ELSE "status")
        /\ UNCHANGED <<authority, records, ledger, calls, changes, aborts>>

RecordDecision(c) ==
    /\ pc[c] = "resolved" /\ my[c].op = "decide"
    /\ decisions' = Append(decisions,
          [proposal |-> my[c].proposal, effect |-> EffectId(my[c].proposal, my[c].read),
           result |-> IF my[c].bad = {} THEN "authorized" ELSE "hold",
           binding |-> my[c].read])
    /\ Return(c)
    /\ UNCHANGED <<authority, refusals, attempts, observations, reconciliations,
                   ledger, calls, changes, aborts>>

\* Mutant: the binding is compared, the reasons of the new resolution are not.
ChangedBindingOnly(c) ==
    LET d == decisions[my[c].decision]
    IN  my[c].read # d.binding \/ my[c].proposal # d.proposal

\* reasons or current != persisted.binding; the binding includes the proposal.
Changed(c) ==
    LET d == decisions[my[c].decision]
    IN  my[c].bad # {} \/ my[c].read # d.binding \/ my[c].proposal # d.proposal

Revalidated(c) ==
    /\ pc[c] = "resolved" /\ my[c].op = "execute"
    /\ Goto(c, IF Changed(c) THEN "reread" ELSE "prior")
    /\ UNCHANGED <<authority, records, ledger, my, calls, changes, aborts>>

\* _effect_time_changed_inputs looks the statuses up again, after _resolve.
Reread(c) ==
    LET i == InputOrder[my[c].next]
        last == my[c].next = Len(InputOrder)
    IN  /\ pc[c] = "reread"
        /\ my' = [my EXCEPT ![c].next = IF last THEN 1 ELSE @ + 1,
                            ![c].changed =
                                IF status[i] = Current(decisions[my[c].decision].binding[i])
                                THEN @ ELSE @ \cup {i}]
        /\ Goto(c, IF last THEN "refuse" ELSE "reread")
        /\ UNCHANGED <<authority, records, ledger, calls, changes, aborts>>

RecordRefusal(c) ==
    /\ pc[c] = "refuse"
    /\ refusals' = refusals \cup
          {[decision |-> my[c].decision, reasons |-> my[c].bad, changed |-> my[c].changed]}
    /\ Return(c)
    /\ UNCHANGED <<authority, decisions, attempts, observations, reconciliations,
                   ledger, calls, changes, aborts>>

------------------------------------------------------------------------------
(* Dispatch. *)

\* Mutant: only attempts whose outcome was recorded count as prior attempts.
LoadPriorOutcomes(c) ==
    /\ pc[c] = "prior"
    /\ my' = [my EXCEPT ![c].prior = \E k \in DOMAIN attempts[my[c].effect] :
                                        attempts[my[c].effect][k].status # "attempted"]
    /\ Goto(c, "observe")
    /\ UNCHANGED <<authority, records, ledger, calls, changes, aborts>>

\* Mutant: only what this decision attempted counts, not what a decision under
\* other policies attempted of the same effect.
LoadPriorOfDecision(c) ==
    /\ pc[c] = "prior"
    /\ my' = [my EXCEPT ![c].prior = \E k \in DOMAIN attempts[my[c].effect] :
                                        attempts[my[c].effect][k].decision = my[c].decision]
    /\ Goto(c, "observe")
    /\ UNCHANGED <<authority, records, ledger, calls, changes, aborts>>

LoadPriorAttempts(c) ==
    /\ pc[c] = "prior"
    /\ my' = [my EXCEPT ![c].prior = attempts[my[c].effect] # <<>>]
    /\ Goto(c, "observe")
    /\ UNCHANGED <<authority, records, ledger, calls, changes, aborts>>

\* destination.observe, and the checks of _reconcile_observation: the
\* destination names the effect asked for, so what is left to reject is its
\* time (beyond the tolerance for the call's fixed now), a missing policy or
\* time, or an exception.
Observe(c) ==
    /\ pc[c] = "observe"
    /\ \E accepted \in BOOLEAN :
          /\ my' = [my EXCEPT ![c].observed = ledger[my[c].effect], ![c].accepted = accepted]
          /\ Goto(c, IF accepted THEN "observation" ELSE "reconciliation")
    /\ UNCHANGED <<authority, records, ledger, calls, changes, aborts>>

RecordObservation(c) ==
    /\ pc[c] = "observation"
    /\ observations' = observations \cup {<<my[c].effect, my[c].observed>>}
    /\ Goto(c, "reconciliation")
    /\ UNCHANGED <<authority, decisions, refusals, attempts, reconciliations,
                   ledger, my, calls, changes, aborts>>

\* Mutant: a rejected observation is classified like an accepted one.
ReconciledUnchecked(c) ==
    CASE my[c].observed = "applied" -> "applied"
      [] my[c].observed = "absent"  -> "observed_absent"
      [] OTHER -> "hold"

Reconciled(c) ==
    CASE my[c].accepted /\ my[c].observed = "applied" -> "applied"
      [] my[c].accepted /\ my[c].observed = "absent"  -> "observed_absent"
      [] OTHER -> "hold"

\* append_reconciliation, then what execute does with the result.
RecordReconciliation(c) ==
    /\ pc[c] = "reconciliation"
    /\ reconciliations' = reconciliations \cup {<<my[c].effect, Reconciled(c)>>}
    /\ \/ /\ my[c].phase = "pre"
          /\ my[c].accepted /\ my[c].observed # "absent"
          /\ my' = [my EXCEPT ![c].outcome =
                      IF my[c].observed = "applied" THEN "acknowledged" ELSE "partial"]
          /\ Goto(c, "existing")
       \/ /\ my[c].phase = "pre"
          /\ Reconciled(c) = "observed_absent" /\ ~my[c].prior
          /\ Goto(c, "attempt")
          /\ UNCHANGED my
       \/ /\ \/ my[c].phase # "pre"
             \/ ~my[c].accepted
             \/ Reconciled(c) = "observed_absent" /\ my[c].prior
          /\ Return(c)
    /\ UNCHANGED <<authority, decisions, refusals, attempts, observations,
                   ledger, calls, changes, aborts>>

AttemptRecorded(c, outcome) ==
    attempts' = [attempts EXCEPT ![my[c].effect] =
        Append(@, [id |-> my[c].id, decision |-> my[c].decision, status |-> outcome])]

\* The effect is there already: acknowledged or partial, reconciled_existing.
RecordExisting(c) ==
    /\ pc[c] = "existing"
    /\ AttemptRecorded(c, my[c].outcome)
    /\ Return(c)
    /\ UNCHANGED <<authority, decisions, refusals, observations, reconciliations,
                   ledger, calls, changes, aborts>>

\* Mutant: the attempt is first recorded with its outcome.
RecordAttemptLater(c) ==
    /\ pc[c] = "attempt"
    /\ Goto(c, "apply")
    /\ UNCHANGED <<authority, records, ledger, my, calls, changes, aborts>>

RecordAttempt(c) ==
    /\ pc[c] = "attempt"
    /\ AttemptRecorded(c, "attempted")
    /\ Goto(c, "apply")
    /\ UNCHANGED <<authority, decisions, refusals, observations, reconciliations,
                   ledger, my, calls, changes, aborts>>

\* Mutant: a lost acknowledgement is taken for a failure.
ApplyTimeoutFailed(c) ==
    LET e == my[c].effect
        answered == IF my[c].kind = "partial" THEN "partial" ELSE "acknowledged"
        Outcome(o) == my' = [my EXCEPT ![c].outcome = o, ![c].phase = "post"]
    IN  /\ pc[c] = "apply"
        /\ \/ Ledger!Commit(e, my[c].kind) /\ \E o \in {answered, "failed"} : Outcome(o)
           \/ ledger[e] # "absent" /\ Outcome(answered) /\ UNCHANGED ledger
           \/ Outcome("failed") /\ UNCHANGED ledger
        /\ Goto(c, "outcome")
        /\ UNCHANGED <<authority, records, calls, changes, aborts>>

\* destination.apply and how execute classifies its answer: the status of an
\* answered request is the caller's partial flag, not what was answered.
Apply(c) ==
    LET e == my[c].effect
        answered == IF my[c].kind = "partial" THEN "partial" ELSE "acknowledged"
        Outcome(o) == my' = [my EXCEPT ![c].outcome = o, ![c].phase = "post"]
    IN  /\ pc[c] = "apply"
        /\ \/ Ledger!Commit(e, my[c].kind) /\ \E o \in {answered, "unknown"} : Outcome(o)
           \/ ledger[e] # "absent" /\ Outcome(answered) /\ UNCHANGED ledger
           \/ Outcome("failed") /\ UNCHANGED ledger   \* cap exhausted, or I/O error
        /\ Goto(c, "outcome")
        /\ UNCHANGED <<authority, records, calls, changes, aborts>>

RecordOutcome(c) ==
    /\ pc[c] = "outcome"
    /\ AttemptRecorded(c, my[c].outcome)
    /\ Goto(c, "observe")
    /\ UNCHANGED <<authority, decisions, refusals, observations, reconciliations,
                   ledger, my, calls, changes, aborts>>

\* An adapter mismatch, a failing lookup or append, or the caller's death.
Abort(c) ==
    /\ pc[c] # "idle"
    /\ aborts < MaxAborts
    /\ aborts' = aborts + 1
    /\ Return(c)
    /\ UNCHANGED <<authority, records, ledger, calls, changes>>

Step(c) ==
    \/ ReadContext(c) \/ ReadStatus(c) \/ RecordDecision(c) \/ Revalidated(c)
    \/ Reread(c) \/ RecordRefusal(c) \/ LoadPriorAttempts(c) \/ Observe(c)
    \/ RecordObservation(c) \/ RecordReconciliation(c) \/ RecordExisting(c)
    \/ RecordAttempt(c) \/ Apply(c) \/ RecordOutcome(c)

Next ==
    \/ Change
    \/ \E c \in Callers :
          \/ Step(c)
          \/ Abort(c)
          \/ \E p \in Proposals : Decide(c, p)
          \/ \E p \in Proposals, d \in DOMAIN decisions, kind \in Ledger!Kinds :
                Execute(c, p, d, kind)
          \/ \E e \in Effects : Reconcile(c, e)

Spec == Init /\ [][Next]_vars
------------------------------------------------------------------------------

AttemptStatuses == {"attempted", "acknowledged", "unknown", "failed", "partial"}

Steps == {"idle", "context", "status", "resolved", "reread", "refuse", "prior", "observe",
          "observation", "reconciliation", "existing", "attempt", "apply", "outcome"}

CallIds == Callers \X (1..MaxCalls)

LocalsType ==
    [op : {"decide", "execute", "reconcile"}, id : CallIds,
     proposal : Proposals, effect : Effects, decision : Nat, kind : Ledger!Kinds,
     read : Bindings, next : DOMAIN InputOrder,
     bad : SUBSET Inputs, changed : SUBSET Inputs, held : SUBSET Inputs,
     prior : BOOLEAN, accepted : BOOLEAN, late : BOOLEAN,
     observed : {"none", "absent"} \cup Ledger!Kinds,
     phase : {"pre", "post", "only"}, outcome : AttemptStatuses]

\* The type invariant.
TypeOK ==
    /\ context \in Bindings
    /\ status \in [Inputs -> Statuses]
    /\ decisions \in Seq([proposal : Proposals, effect : Effects,
                          result : {"authorized", "hold"}, binding : Bindings])
    /\ refusals \subseteq [decision : DOMAIN decisions, reasons : SUBSET Inputs,
                           changed : SUBSET Inputs]
    /\ attempts \in [Effects -> Seq([id : CallIds, decision : DOMAIN decisions,
                                     status : AttemptStatuses])]
    /\ observations \subseteq Effects \X ({"absent"} \cup Ledger!Kinds)
    /\ reconciliations \subseteq Effects \X {"applied", "observed_absent", "hold"}
    /\ Ledger!LedgerTypeOK
    /\ pc \in [Callers -> Steps] /\ my \in [Callers -> LocalsType \cup {None}]
    /\ \A c \in Callers : IF pc[c] = "idle" THEN my[c] = None
                          ELSE my[c] \in LocalsType /\ my[c].decision =< Len(decisions)
    /\ calls \in [Callers -> 0..MaxCalls]
    /\ changes \in 0..MaxChanges /\ aborts \in 0..MaxAborts

Dispatches(e) == {k \in DOMAIN attempts[e] : attempts[e][k].status = "attempted"}

\* Nothing is at the destination that the record does not announce: a
\* committed effect has an "attempted" entry that was written before it, for
\* an authorized decision of that very effect, whoever crashed since.
WriteAhead ==
    \A e \in Effects : ledger[e] # "absent" =>
        \E k \in Dispatches(e) :
            LET d == decisions[attempts[e][k].decision]
            IN  d.result = "authorized" /\ d.effect = e

\* "Immediately before effect, the workflow resolves these inputs again": a
\* dispatch never rests on what decide saw; each input it binds was active in
\* the bound version at some moment after execute was called.  (At the moment
\* of the dispatch it need not be: that is the C0 limitation.)
RevalidatedWithinCall ==
    \A c \in Callers : pc[c] \in {"attempt", "apply"} => my[c].held = Inputs

\* "If any prior EffectAttempt for the effect exists, observed_absent does not
\* permit resubmission": an execute called after an attempt of its effect was
\* recorded does not dispatch, however that attempt ended.
NoResubmission ==
    \A c \in Callers : pc[c] \in {"attempt", "apply"} => ~my[c].late

\* "A fresh validated absence permits only the initial dispatch": one
\* "attempted" entry per effect.  For callers that do not overlap; the code
\* gives no workflow-wide exclusion and two overlapping executes both dispatch.
OneDispatchPerEffect == \A e \in Effects : Cardinality(Dispatches(e)) =< 1

Recorded(e, outcome) ==
    \E k \in DOMAIN attempts[e] : attempts[e][k].status = outcome

\* What the record says of an effect is so at the destination, now and later:
\* acknowledged effects are applied, partial ones partial, failed ones absent,
\* and a lost acknowledgement is one of an effect that was committed.
OutcomesTrue ==
    \A e \in Effects :
        /\ Recorded(e, "acknowledged") => ledger[e] = "applied"
        /\ Recorded(e, "partial") => ledger[e] = "partial"
        /\ Recorded(e, "failed") => ledger[e] = "absent"
        /\ Recorded(e, "unknown") => ledger[e] # "absent"

\* A reconciliation that says applied is backed by an accepted observation the
\* record kept before it, and by the destination.
ReconciliationBacked ==
    \A e \in Effects :
        <<e, "applied">> \in reconciliations =>
            <<e, "applied">> \in observations /\ ledger[e] = "applied"

\* "A partial effect is held", never recorded as acknowledged.
PartialNeverAcknowledged ==
    \A e \in Effects : Recorded(e, "acknowledged") => ledger[e] # "partial"
==============================================================================
