----------------------------- MODULE ControlledRun -----------------------------
(***************************************************************************)
(* A recorded run under the policy gate: RunRecorder (records.py), the     *)
(* ordered rules of PolicyGate (policy_gate.py), execute_with_control      *)
(* (tools.py) and the semantic validation of the record it leaves          *)
(* (validation.py), all in src/agent_control_plane.                        *)
(*                                                                         *)
(* Callers are threads of one agent, or an adapter that calls back into    *)
(* the recorder; each method of the recorder is one step, execute_with_    *)
(* control is propose_action, evaluate_action, the adapter's call and its  *)
(* return.  An identifier is a position in the list it was appended to.    *)
(***************************************************************************)
EXTENDS Integers, Sequences, FiniteSets

CONSTANTS Callers,
          Proposals,    \* [tool, type]: what an agent may propose
          Frames,       \* [actor, allowed, blocked]: what start_run may be given
          Grants,       \* [actor, scope, expires]: what add_authority_record may
          MaxRuns, MaxActions, MaxDecisions, MaxGrants, MaxTime,   \* bounds
          Never         \* expires_at is None

ASSUME ControlledRunAssumption ==
    /\ \A p \in Proposals : {"tool", "type"} \subseteq DOMAIN p
    /\ \A f \in Frames : {"actor", "allowed", "blocked"} \subseteq DOMAIN f
    /\ \A g \in Grants : {"actor", "scope", "expires"} \subseteq DOMAIN g
                         /\ g.expires \in Nat \cup {Never}
    /\ {MaxRuns, MaxActions, MaxDecisions, MaxGrants, MaxTime} \subseteq Nat
    /\ Never \notin Nat

VARIABLES
    clock,
    frames,        \* frame of every run started; the last is the recorder's
    actions, decisions, traces, authorities, reliances, blocked,   \* its lists
    completed,
    executed,      \* actions whose adapter has been called
    pc, act        \* per caller: step and the action it holds

lists == <<actions, decisions, traces, authorities, reliances, blocked>>
vars == <<clock, frames, lists, completed, executed, pc, act>>

run == Len(frames)
Started == run > 0

Goto(c, step) == pc' = [pc EXCEPT ![c] = step]

Init ==
    /\ clock = 0
    /\ frames = <<>>
    /\ actions = <<>> /\ decisions = <<>> /\ traces = <<>>
    /\ authorities = <<>> /\ reliances = <<>> /\ blocked = <<>>
    /\ completed = FALSE
    /\ executed = {}
    /\ pc = [c \in Callers |-> "idle"]
    /\ act = [c \in Callers |-> 0]

------------------------------------------------------------------------------
(* PolicyGate. *)

\* Mutant: a grant serves whichever run asks.
ScopesOfAnyRun(action, frame, now) ==
    UNION {authorities[k].scope : k \in {j \in DOMAIN authorities :
        /\ authorities[j].actor = frame.actor
        /\ authorities[j].expires = Never \/ authorities[j].expires > now}}

ActiveScopes(action, frame, now) ==
    UNION {authorities[k].scope : k \in {j \in DOMAIN authorities :
        /\ authorities[j].run = action.run
        /\ authorities[j].actor = frame.actor
        /\ authorities[j].expires = Never \/ authorities[j].expires > now}}

Rules(action, frame, scopes) ==
    <<[name |-> "blocked_tool", matched |-> action.tool \in frame.blocked, result |-> "block"],
      [name |-> "unknown_tool", matched |-> action.tool \notin frame.allowed, result |-> "escalate"],
      [name |-> "external_send_authority", matched |-> action.type = "external_send",
       result |-> IF "external_send" \in scopes THEN "allow" ELSE "block"],
      [name |-> "read_allowed_tool", matched |-> action.type = "read", result |-> "allow"],
      [name |-> "write_authority", matched |-> action.type = "write",
       result |-> IF "write" \in scopes THEN "allow" ELSE "escalate"],
      [name |-> "default_escalation", matched |-> TRUE, result |-> "escalate"]>>

FirstMatch(rules) ==
    CHOOSE k \in DOMAIN rules : rules[k].matched /\ \A j \in 1..(k - 1) : ~rules[j].matched

ApplyRules(action, frame, scopes) ==
    LET rules == Rules(action, frame, scopes) IN rules[FirstMatch(rules)].result

\* Mutant: the digest leaves the authority out.
FingerprintUnscoped(action, frame, scopes) ==
    [tool |-> action.tool, type |-> action.type,
     allowed |-> frame.allowed, blocked |-> frame.blocked, scopes |-> {}]

\* SHA-256 of canonical JSON; target, payload and policy_version decide nothing.
Fingerprint(action, frame, scopes) ==
    [tool |-> action.tool, type |-> action.type,
     allowed |-> frame.allowed, blocked |-> frame.blocked, scopes |-> scopes]

------------------------------------------------------------------------------
(* RunRecorder. *)

Tick ==
    /\ clock < MaxTime
    /\ clock' = clock + 1
    /\ UNCHANGED <<frames, lists, completed, executed, pc, act>>

\* A new run_id and frame; every list stays as it is.
StartRun(frame) ==
    /\ run < MaxRuns
    /\ frames' = Append(frames, frame)
    /\ UNCHANGED <<clock, lists, completed, executed, pc, act>>

AddAuthorityRecord(g) ==
    /\ Started /\ Len(authorities) < MaxGrants
    /\ authorities' = Append(authorities, [run |-> run, actor |-> g.actor,
                                           scope |-> g.scope, expires |-> g.expires])
    /\ UNCHANGED <<clock, frames, actions, decisions, traces, reliances, blocked,
                   completed, executed, pc, act>>

CompleteRun ==
    /\ Started
    /\ completed' = TRUE
    /\ UNCHANGED <<clock, frames, lists, executed, pc, act>>

\* Mutant: the proposal is handed out without being recorded.
ProposeUnrecorded(c, p, step) ==
    /\ pc[c] = "idle" /\ Started
    /\ Len(actions) < MaxActions
    /\ act' = [act EXCEPT ![c] = Len(actions) + 1]
    /\ Goto(c, step)
    /\ UNCHANGED <<clock, frames, lists, completed, executed>>

Propose(c, p, step) ==
    /\ pc[c] = "idle" /\ Started
    /\ Len(actions) < MaxActions
    /\ actions' = Append(actions, [run |-> run, tool |-> p.tool, type |-> p.type])
    /\ act' = [act EXCEPT ![c] = Len(actions')]
    /\ Goto(c, step)
    /\ UNCHANGED <<clock, frames, decisions, traces, authorities, reliances, blocked,
                   completed, executed>>

ProposeAction(c, p) == Propose(c, p, "idle")

\* Mutant: whatever is not allowed is booked as blocked.
NotAllowed(result) == result # "allow"

Blocks(result) == result = "block"

\* Mutant: an action of another run passes for one of this run.
AnyRun(a) == a \in DOMAIN actions

\* The two checks of evaluate_action: action.run_id, and the id was proposed.
ProposedInThisRun(a) == a \in DOMAIN actions /\ actions[a].run = run

\* evaluate_action on an action of this run, which its caller got from
\* propose_action; onAllow is where an allowed action goes on.
Evaluate(c, traced, onAllow) ==
    LET a == act[c]
        action == actions[a]
        scopes == ActiveScopes(action, frames[run], clock)
        result == ApplyRules(action, frames[run], scopes)
        fingerprint == Fingerprint(action, frames[run], scopes)
    IN  /\ ProposedInThisRun(a)
        /\ Len(decisions) < MaxDecisions
        /\ traces' = IF traced
                     THEN Append(traces, [run |-> action.run, action |-> a, fingerprint |-> fingerprint])
                     ELSE traces
        /\ decisions' = Append(decisions, [run |-> action.run, action |-> a, result |-> result,
                                           at |-> clock, fingerprint |-> fingerprint,
                                           trace |-> IF traced THEN Len(traces') ELSE 0])
        /\ blocked' = IF Blocks(result)
                      THEN Append(blocked, [run |-> run, action |-> a]) ELSE blocked
        /\ Goto(c, IF result = "allow" THEN onAllow ELSE "idle")
        /\ UNCHANGED <<clock, frames, actions, authorities, reliances, completed, executed, act>>

EvaluateAction(c, traced) ==
    /\ pc[c] = "idle" /\ act[c] # 0
    /\ Evaluate(c, traced, "idle")

------------------------------------------------------------------------------
(* execute_with_control. *)

ExecuteWithControl(c, p) == Propose(c, p, "evaluate")

EvaluateControlled(c) ==
    /\ pc[c] = "evaluate"
    /\ Evaluate(c, TRUE, "execute")

\* "Action belongs to a different run." leaves evaluate_action as ValueError.
EvaluateRaises(c) ==
    /\ pc[c] = "evaluate"
    /\ ~ProposedInThisRun(act[c])
    /\ Goto(c, "idle")
    /\ UNCHANGED <<clock, frames, lists, completed, executed, act>>

\* No adapter, or one bound to another tool or type.
RejectAdapter(c) ==
    /\ pc[c] = "execute"
    /\ Goto(c, "idle")
    /\ UNCHANGED <<clock, frames, lists, completed, executed, act>>

CallAdapter(c) ==
    /\ pc[c] = "execute"
    /\ executed' = executed \cup {act[c]}
    /\ Goto(c, "adapter")
    /\ UNCHANGED <<clock, frames, lists, completed, act>>

AdapterRaises(c) ==
    /\ pc[c] = "adapter"
    /\ Goto(c, "idle")
    /\ UNCHANGED <<clock, frames, lists, completed, executed, act>>

\* record_reliance, with the run the recorder is in by now.
AdapterReturns(c) ==
    /\ pc[c] = "adapter"
    /\ reliances' = Append(reliances, [run |-> run, action |-> act[c]])
    /\ Goto(c, "idle")
    /\ UNCHANGED <<clock, frames, actions, decisions, traces, authorities, blocked,
                   completed, executed, act>>

Controlled(c) ==
    \/ EvaluateControlled(c) \/ EvaluateRaises(c) \/ RejectAdapter(c)
    \/ CallAdapter(c) \/ AdapterRaises(c) \/ AdapterReturns(c)

Next ==
    \/ Tick \/ CompleteRun
    \/ \E f \in Frames : StartRun(f)
    \/ \E g \in Grants : AddAuthorityRecord(g)
    \/ \E c \in Callers :
          \/ \E p \in Proposals : ProposeAction(c, p) \/ ExecuteWithControl(c, p)
          \/ \E traced \in BOOLEAN : EvaluateAction(c, traced)
          \/ Controlled(c)

Spec == Init /\ [][Next]_vars
------------------------------------------------------------------------------
(* validation.py: the errors of _validate_run_consistency, on to_run_record. *)

Of(list) == {list[k] : k \in DOMAIN list}
Known(a) == a \in DOMAIN actions

ValidDecision(d) ==
    /\ d.run = run /\ Known(d.action)
    /\ d.trace # 0 => /\ d.trace \in DOMAIN traces
                      /\ traces[d.trace].fingerprint = d.fingerprint

ValidBlocked(b) ==
    /\ b.run = run /\ Known(b.action)
    /\ \E d \in Of(decisions) : d.action = b.action /\ d.result = "block"

ValidRecord ==
    /\ \A a \in Of(actions) : a.run = run
    /\ \A d \in Of(decisions) : ValidDecision(d)
    /\ \A b \in Of(blocked) : ValidBlocked(b)
    /\ \A r \in Of(reliances) \cup Of(traces) : r.run = run /\ Known(r.action)
    /\ \A g \in Of(authorities) : g.run = run

------------------------------------------------------------------------------
Results == {"allow", "block", "escalate"}

\* The type invariant.
TypeOK ==
    /\ clock \in 0..MaxTime
    /\ frames \in Seq(Frames) /\ run <= MaxRuns
    /\ \A a \in Of(actions) : a.run \in 1..run /\ \E p \in Proposals : a.tool = p.tool /\ a.type = p.type
    /\ \A d \in Of(decisions) : d.result \in Results /\ Known(d.action) /\ d.at \in 0..clock
    /\ \A g \in Of(authorities) : g.run \in 1..run /\ g.expires \in Nat \cup {Never}
    /\ \A r \in Of(reliances) \cup Of(blocked) \cup Of(traces) : r.run \in 1..run /\ Known(r.action)
    /\ completed \in BOOLEAN
    /\ executed \subseteq DOMAIN actions
    /\ pc \in [Callers -> {"idle", "evaluate", "execute", "adapter"}]
    /\ act \in [Callers -> 0..Len(actions)]

\* What a recorder exports passes validate_run_record at every moment of its
\* first run: no caller's step leaves a dangling reference, a block without its
\* decision or a decision whose trace tells another story.
RecordValid == run = 1 => ValidRecord

\* A real tool is called only for an action its own run's frame allows and does
\* not block, and only on an allow decision, whatever runs were started since
\* it was proposed.
ExecutedWithinFrame ==
    \A a \in executed :
        LET frame == frames[actions[a].run]
        IN  /\ actions[a].tool \in frame.allowed \ frame.blocked
            /\ \E d \in Of(decisions) : d.action = a /\ d.result = "allow"

\* An allowed write or external_send rests on a grant of its own run to the
\* actor of its own frame that had not expired at decided_at: grants of an
\* earlier run, of another actor or out of date never leak into a decision.
AllowBacked ==
    \A d \in Of(decisions) :
        d.result = "allow" /\ actions[d.action].type \in {"write", "external_send"} =>
            \E g \in Of(authorities) :
                /\ g.run = actions[d.action].run
                /\ g.actor = frames[g.run].actor
                /\ actions[d.action].type \in g.scope
                /\ g.expires = Never \/ g.expires > d.at

\* "Identical inputs always produce the same result and fingerprint": two
\* decisions with one fingerprint agree, across callers, runs and times.
FingerprintDetermines ==
    \A d, e \in Of(decisions) : d.fingerprint = e.fingerprint => d.result = e.result

\* A run's record holds that run: "Records a single agent run", and start_run
\* is to "Initialise a new run".
RecordsOneRun == Started => \A a \in Of(actions) : a.run = run
==============================================================================
