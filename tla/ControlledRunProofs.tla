-------------------------- MODULE ControlledRunProofs --------------------------
(* What the gate decides and the recorder keeps, for any callers, proposals, *)
(* frames, grants and number of runs.                                        *)
EXTENDS ControlledRun, TLAPS

\* A list is a sequence, of whatever it holds.
IsList(s) == s \in Seq(Of(s))

Bounds(s, e) ==
    /\ Len(Append(s, e)) = Len(s) + 1
    /\ DOMAIN s = 1..Len(s) /\ DOMAIN Append(s, e) = 1..(Len(s) + 1)
    /\ \A k \in DOMAIN s : Append(s, e)[k] = s[k]
    /\ Append(s, e)[Len(s) + 1] = e

\* append keeps a list, adds one element, and leaves the others in place.
LEMMA Appended ==
    ASSUME NEW s, IsList(s), NEW e
    PROVE  /\ IsList(Append(s, e))
           /\ Of(Append(s, e)) = Of(s) \cup {e}
           /\ Len(s) \in Nat
           /\ Bounds(s, e)
<1> DEFINE S == Of(s) \cup {e}
<1>1. s \in Seq(S) /\ e \in S
  BY DEF IsList
<1> HIDE DEF S
<1>2. /\ Append(s, e) \in Seq(S) /\ Len(s) \in Nat /\ Bounds(s, e)
  BY <1>1 DEF Bounds
<1>3. Of(Append(s, e)) = Of(s) \cup {e}
  BY <1>2 DEF Of, Bounds
<1> QED
  BY <1>2, <1>3 DEF IsList, S

------------------------------------------------------------------------------
(* The ordered rules. *)

\* Some rule matches, so the first one is there.
LEMMA SomeRule ==
    ASSUME NEW action, NEW frame, NEW scopes
    PROVE  LET rules == Rules(action, frame, scopes)
           IN  /\ FirstMatch(rules) \in 1..6
               /\ rules[FirstMatch(rules)].matched
               /\ \A j \in 1..(FirstMatch(rules) - 1) : ~rules[j].matched
<1> DEFINE rules == Rules(action, frame, scopes)
           First(k) == rules[k].matched /\ \A j \in 1..(k - 1) : ~rules[j].matched
<1>1. DOMAIN rules = 1..6 /\ rules[6].matched
  BY DEF Rules
<1> HIDE DEF rules
<1>2. \E k \in 1..6 : First(k)
  <2>1. CASE rules[1].matched
    BY <2>1
  <2>2. CASE ~rules[1].matched /\ rules[2].matched
    BY <2>2
  <2>3. CASE ~rules[1].matched /\ ~rules[2].matched /\ rules[3].matched
    BY <2>3
  <2>4. CASE /\ ~rules[1].matched /\ ~rules[2].matched /\ ~rules[3].matched
             /\ rules[4].matched
    BY <2>4
  <2>5. CASE /\ ~rules[1].matched /\ ~rules[2].matched /\ ~rules[3].matched
             /\ ~rules[4].matched /\ rules[5].matched
    BY <2>5
  <2>6. CASE /\ ~rules[1].matched /\ ~rules[2].matched /\ ~rules[3].matched
             /\ ~rules[4].matched /\ ~rules[5].matched
    BY <1>1, <2>6
  <2> QED
    BY <2>1, <2>2, <2>3, <2>4, <2>5, <2>6
<1>3. FirstMatch(rules) = CHOOSE k \in 1..6 : First(k)
  BY <1>1 DEF FirstMatch
<1>4. FirstMatch(rules) \in 1..6 /\ First(FirstMatch(rules))
  <2> HIDE DEF First
  <2> QED
    BY <1>2, <1>3
<1> QED
  BY <1>4 DEF rules

\* An allowed tool is in the frame and not blocked, and an allowed write or
\* external_send is in the scopes: no later rule makes up for an earlier one.
LEMMA AllowMeans ==
    ASSUME NEW action, NEW frame, NEW scopes, ApplyRules(action, frame, scopes) = "allow"
    PROVE  /\ action.tool \in frame.allowed \ frame.blocked
           /\ action.type \in {"write", "external_send"} => action.type \in scopes
<1> DEFINE rules == Rules(action, frame, scopes)
           k == FirstMatch(rules)
<1>1. k \in 1..6 /\ rules[k].matched /\ \A j \in 1..(k - 1) : ~rules[j].matched
  BY SomeRule
<1>2. rules[k].result = "allow"
  BY DEF ApplyRules
<1>3. /\ rules[1].matched = (action.tool \in frame.blocked) /\ rules[1].result = "block"
      /\ rules[2].matched = (action.tool \notin frame.allowed) /\ rules[2].result = "escalate"
      /\ rules[3].matched = (action.type = "external_send")
      /\ rules[3].result = IF "external_send" \in scopes THEN "allow" ELSE "block"
      /\ rules[4].matched = (action.type = "read")
      /\ rules[5].matched = (action.type = "write")
      /\ rules[5].result = IF "write" \in scopes THEN "allow" ELSE "escalate"
      /\ rules[6].result = "escalate"
  BY DEF Rules
<1> HIDE DEF k, rules
<1>4. k \in {3, 4, 5}
  BY <1>1, <1>2, <1>3
<1>5. action.tool \notin frame.blocked /\ action.tool \in frame.allowed
  <2>1. ~rules[1].matched /\ ~rules[2].matched
    BY <1>1, <1>4
  <2> QED
    BY <1>3, <2>1
<1>6. ASSUME action.type = "external_send" PROVE action.type \in scopes
  <2>1. k = 3
    BY <1>1, <1>3, <1>4, <1>6
  <2> QED
    BY <1>2, <1>3, <1>6, <2>1
<1>7. ASSUME action.type = "write" PROVE action.type \in scopes
  <2>1. k = 5
    BY <1>1, <1>3, <1>4, <1>7
  <2> QED
    BY <1>2, <1>3, <1>7, <2>1
<1> QED
  BY <1>5, <1>6, <1>7

LEMMA ResultsOnly ==
    ASSUME NEW action, NEW frame, NEW scopes
    PROVE  ApplyRules(action, frame, scopes) \in Results
<1> DEFINE rules == Rules(action, frame, scopes)
           k == FirstMatch(rules)
<1>1. k \in 1..6
  BY SomeRule
<1> HIDE DEF k
<1>2. rules[k].result \in Results
  BY <1>1 DEF Rules, Results
<1> QED
  BY <1>2 DEF ApplyRules, k

\* What a fingerprint says is decided.
ResultOf(fp) == ApplyRules(fp, fp, fp.scopes)

\* The digest covers every input of the decision.
LEMMA FingerprintDecides ==
    ASSUME NEW action, NEW frame, NEW scopes
    PROVE  ApplyRules(action, frame, scopes) = ResultOf(Fingerprint(action, frame, scopes))
<1> DEFINE fp == Fingerprint(action, frame, scopes)
<1>1. /\ fp.tool = action.tool /\ fp.type = action.type /\ fp.allowed = frame.allowed
      /\ fp.blocked = frame.blocked /\ fp.scopes = scopes
  BY DEF Fingerprint
<1> HIDE DEF fp
<1>2. Rules(fp, fp, fp.scopes) = Rules(action, frame, scopes)
  BY <1>1 DEF Rules
<1> QED
  BY <1>2 DEF ResultOf, ApplyRules, fp

------------------------------------------------------------------------------
(* The inductive invariant. *)

Keeps(s, t) == DOMAIN s \subseteq DOMAIN t /\ \A k \in DOMAIN s : t[k] = s[k]

LEMMA AppendKeeps == ASSUME NEW s, IsList(s), NEW e PROVE Keeps(s, Append(s, e))
BY Appended DEF Keeps, Bounds

\* Steps without a list to speak of.
LEMMA KeepsSelf == \A s : Keeps(s, s)
BY DEF Keeps

AllLists ==
    /\ IsList(actions) /\ IsList(decisions) /\ IsList(traces)
    /\ IsList(authorities) /\ IsList(reliances) /\ IsList(blocked)

Backed(d) ==
    \E g \in Of(authorities) :
        /\ g.run = actions[d.action].run
        /\ g.actor = frames[g.run].actor
        /\ actions[d.action].type \in g.scope
        /\ g.expires = Never \/ g.expires > d.at

\* What a decision says of its action, its run's frame, its trace and the
\* grants stays true.
DecisionInv(d) ==
    LET action == actions[d.action]
        frame == frames[action.run]
        fp == d.fingerprint
    IN  /\ d.action \in DOMAIN actions /\ d.run = action.run
        /\ d.trace # 0 => d.trace \in DOMAIN traces /\ traces[d.trace].fingerprint = fp
        /\ d.result = ResultOf(fp)
        /\ fp.tool = action.tool /\ fp.type = action.type
        /\ fp.allowed = frame.allowed /\ fp.blocked = frame.blocked
        /\ d.result = "allow" /\ action.type \in {"write", "external_send"} => Backed(d)

Decided(a, result) == \E d \in Of(decisions) : d.action = a /\ d.result = result

Inv ==
    /\ TypeOK /\ AllLists
    /\ \A d \in Of(decisions) : DecisionInv(d)
    /\ \A b \in Of(blocked) : Decided(b.action, "block")
    /\ \A a \in executed : Decided(a, "allow")
    /\ \A c \in Callers : pc[c] # "idle" => act[c] # 0
    /\ \A c \in Callers : pc[c] \in {"execute", "adapter"} => Decided(act[c], "allow")

LEMMA InvInit == Init => Inv
<1> SUFFICES ASSUME Init PROVE Inv
  OBVIOUS
<1>1. Of(<<>>) = {}
  BY DEF Of
<1>2. IsList(<<>>)
  BY <1>1 DEF IsList
<1>3. TypeOK
  <2>1. frames \in Seq(Frames) /\ run = 0 /\ Len(actions) = 0 /\ MaxRuns \in Nat /\ MaxTime \in Nat
    BY ControlledRunAssumption DEF Init, run
  <2>2. pc \in [Callers -> {"idle", "evaluate", "execute", "adapter"}] /\ act \in [Callers -> 0..Len(actions)]
    BY <2>1 DEF Init
  <2>3. /\ Of(actions) = {} /\ Of(decisions) = {} /\ Of(authorities) = {}
        /\ Of(reliances) \cup Of(blocked) \cup Of(traces) = {}
    BY <1>1 DEF Init
  <2>4. clock \in 0..MaxTime /\ run <= MaxRuns /\ executed \subseteq DOMAIN actions
    BY <2>1 DEF Init
  <2>5. completed \in BOOLEAN
    BY DEF Init
  <2> QED
    BY <2>1, <2>2, <2>3, <2>4, <2>5 DEF TypeOK
<1> QED
  BY <1>1, <1>2, <1>3 DEF Init, Inv, AllLists

\* Whatever is appended to the lists, an earlier decision stands.
LEMMA DecisionStays ==
    ASSUME Inv, Keeps(actions, actions'), Keeps(frames, frames'), Keeps(traces, traces'),
           Of(authorities) \subseteq Of(authorities'), NEW d \in Of(decisions)
    PROVE  DecisionInv(d)'
<1> DEFINE a == d.action
<1>1. DecisionInv(d) /\ a \in DOMAIN actions
  BY DEF Inv, DecisionInv
<1>2. actions'[a] = actions[a] /\ a \in DOMAIN actions'
  BY <1>1 DEF Keeps
<1>3. actions[a].run \in DOMAIN frames
  <2>1. actions[a] \in Of(actions)
    BY <1>1 DEF Of
  <2>2. actions[a].run \in 1..run
    BY <2>1 DEF Inv, TypeOK
  <2>3. DOMAIN frames = 1..run
    BY DEF Inv, TypeOK, run
  <2> QED
    BY <2>2, <2>3
<1>4. frames'[actions[a].run] = frames[actions[a].run]
  BY <1>3 DEF Keeps
<1>5. d.trace # 0 => d.trace \in DOMAIN traces' /\ traces'[d.trace].fingerprint = d.fingerprint
  BY <1>1 DEF DecisionInv, Keeps
<1>6. Backed(d) => Backed(d)'
  BY <1>2, <1>4 DEF Backed
<1> QED
  BY <1>1, <1>2, <1>4, <1>5, <1>6 DEF DecisionInv

\* Steps that leave the frames and the lists alone.
LEMMA ListsStay ==
    ASSUME Inv, UNCHANGED <<frames, lists>>
    PROVE  /\ AllLists'
           /\ \A d \in Of(decisions)' : DecisionInv(d)'
           /\ \A b \in Of(blocked)' : Decided(b.action, "block")'
           /\ \A a, result : Decided(a, result)' <=> Decided(a, result)
BY DEF Inv, AllLists, lists, DecisionInv, Backed, Decided

LEMMA TickSafe == ASSUME Inv, Tick PROVE Inv'
<1>1. TypeOK'
  BY ControlledRunAssumption DEF Inv, TypeOK, Tick, lists, run, Known
<1> QED
  BY <1>1, ListsStay DEF Inv, Tick

LEMMA CompleteSafe == ASSUME Inv, CompleteRun PROVE Inv'
<1>1. TypeOK'
  BY DEF Inv, TypeOK, CompleteRun, lists, run, Known
<1> QED
  BY <1>1, ListsStay DEF Inv, CompleteRun

\* The caller goes back to idle, or calls its adapter.
LEMMA CallerSafe ==
    ASSUME Inv, NEW c \in Callers,
           EvaluateRaises(c) \/ RejectAdapter(c) \/ AdapterRaises(c) \/ CallAdapter(c)
    PROVE  Inv'
<1>1. UNCHANGED <<clock, frames, lists, completed, act>>
  BY DEF EvaluateRaises, RejectAdapter, AdapterRaises, CallAdapter
<1>2. pc' = [pc EXCEPT ![c] = "idle"] \/ (pc' = [pc EXCEPT ![c] = "adapter"] /\ pc[c] = "execute")
  BY DEF EvaluateRaises, RejectAdapter, AdapterRaises, CallAdapter, Goto
<1>3. executed' = executed \/ (executed' = executed \cup {act[c]} /\ pc[c] = "execute")
  BY DEF EvaluateRaises, RejectAdapter, AdapterRaises, CallAdapter
<1>4. pc[c] = "execute" => act[c] \in DOMAIN actions
  BY DEF Inv, TypeOK, AllLists, IsList
<1>5. TypeOK'
  BY <1>1, <1>2, <1>3, <1>4 DEF Inv, TypeOK, lists, run, Known
<1>6. \A a \in executed' : Decided(a, "allow")
  BY <1>3 DEF Inv
<1>7. \A b \in Callers : pc'[b] # "idle" => act[b] # 0 /\ pc[b] # "idle"
  BY <1>2 DEF Inv, TypeOK
<1>8. \A b \in Callers : pc'[b] \in {"execute", "adapter"} => Decided(act[b], "allow")
  BY <1>2 DEF Inv, TypeOK
<1> QED
  BY <1>1, <1>5, <1>6, <1>7, <1>8, ListsStay DEF Inv

\* A new run: only the frames grow.
LEMMA StartSafe == ASSUME Inv, NEW f \in Frames, StartRun(f) PROVE Inv'
<1>1. /\ UNCHANGED <<clock, lists, completed, executed, pc, act>> /\ run < MaxRuns
      /\ frames' = Append(frames, f)
  BY DEF StartRun
<1>2. /\ frames' \in Seq(Frames) /\ run' = run + 1 /\ run \in Nat /\ Keeps(frames, frames')
  BY <1>1 DEF Inv, TypeOK, run, Keeps
<1>3. TypeOK'
  <2>1. run' =< MaxRuns /\ 1..run \subseteq 1..run'
    BY <1>1, <1>2, ControlledRunAssumption
  <2> QED
    BY <1>1, <1>2, <2>1 DEF Inv, TypeOK, lists, Known
<1>4. \A d \in Of(decisions) : DecisionInv(d)'
  BY <1>1, <1>2, DecisionStays, KeepsSelf DEF lists
<1> QED
  BY <1>1, <1>3, <1>4 DEF Inv, AllLists, lists, Decided

LEMMA GrantSafe == ASSUME Inv, NEW g \in Grants, AddAuthorityRecord(g) PROVE Inv'
<1> DEFINE new == [run |-> run, actor |-> g.actor, scope |-> g.scope, expires |-> g.expires]
<1>1. /\ UNCHANGED <<clock, frames, actions, decisions, traces, reliances, blocked,
                     completed, executed, pc, act>>
      /\ authorities' = Append(authorities, new) /\ run' = run
  BY DEF AddAuthorityRecord, run
<1>2. /\ new.run \in 1..run /\ new.expires \in Nat \cup {Never}
  BY ControlledRunAssumption DEF AddAuthorityRecord, Started, Inv, TypeOK, run
<1> HIDE DEF new
<1>3. IsList(authorities') /\ Of(authorities') = Of(authorities) \cup {new} /\ AllLists'
  <2>1. IsList(authorities)
    BY DEF Inv, AllLists
  <2>2. IsList(authorities') /\ Of(authorities') = Of(authorities) \cup {new}
    BY <1>1, <2>1, Appended
  <2> QED
    BY <1>1, <2>2 DEF Inv, AllLists
<1>4. TypeOK'
  BY <1>1, <1>2, <1>3 DEF Inv, TypeOK, Known, Of
<1>5. \A d \in Of(decisions) : DecisionInv(d)'
  BY <1>1, <1>3, DecisionStays, KeepsSelf
<1> QED
  BY <1>1, <1>3, <1>4, <1>5 DEF Inv, Decided

\* The adapter has returned and its reliance is booked.
LEMMA ReturnSafe == ASSUME Inv, NEW c \in Callers, AdapterReturns(c) PROVE Inv'
<1> DEFINE new == [run |-> run, action |-> act[c]]
<1>1. /\ UNCHANGED <<clock, frames, actions, decisions, traces, authorities, blocked,
                     completed, executed, act>>
      /\ pc[c] = "adapter" /\ pc' = [pc EXCEPT ![c] = "idle"]
      /\ reliances' = Append(reliances, new) /\ run' = run
  BY DEF AdapterReturns, Goto, run
<1>2. act[c] \in DOMAIN actions
  BY <1>1 DEF Inv, TypeOK, AllLists, IsList
<1>3. new.run \in 1..run
  <2>1. actions[act[c]].run \in 1..run /\ run \in Nat
    BY <1>2 DEF Inv, TypeOK, Of, run
  <2> QED
    BY <2>1
<1>4. new.action = act[c]
  OBVIOUS
<1> HIDE DEF new
<1>5. IsList(reliances') /\ Of(reliances') = Of(reliances) \cup {new} /\ AllLists'
  <2>1. IsList(reliances)
    BY DEF Inv, AllLists
  <2>2. IsList(reliances') /\ Of(reliances') = Of(reliances) \cup {new}
    BY <1>1, <2>1, Appended
  <2> QED
    BY <1>1, <2>2 DEF Inv, AllLists
<1>6. TypeOK'
  BY ZenonT(60), <1>1, <1>2, <1>3, <1>4, <1>5 DEF Inv, TypeOK, Known, Of
<1>7. \A d \in Of(decisions) : DecisionInv(d)'
  BY <1>1, DecisionStays, KeepsSelf
<1>8. \A b \in Callers : pc'[b] # "idle" => pc'[b] = pc[b]
  BY <1>1 DEF Inv, TypeOK
<1> QED
  BY <1>1, <1>5, <1>6, <1>7, <1>8 DEF Inv, Decided

LEMMA ProposeSafe ==
    ASSUME Inv, NEW c \in Callers, NEW p \in Proposals, NEW step \in {"idle", "evaluate"},
           Propose(c, p, step)
    PROVE  Inv'
<1> DEFINE new == [run |-> run, tool |-> p.tool, type |-> p.type]
<1>1. /\ UNCHANGED <<clock, frames, decisions, traces, authorities, reliances, blocked,
                     completed, executed>>
      /\ actions' = Append(actions, new) /\ run' = run /\ pc' = [pc EXCEPT ![c] = step]
      /\ act' = [act EXCEPT ![c] = Len(actions')]
      /\ pc[c] = "idle"
  BY DEF Propose, Goto, run
<1>2. new.run \in 1..run /\ new.tool = p.tool /\ new.type = p.type
  BY DEF Propose, Started, Inv, TypeOK, run
<1> HIDE DEF new
<1>3. /\ IsList(actions) /\ IsList(actions') /\ Of(actions') = Of(actions) \cup {new}
      /\ Bounds(actions, new) /\ Keeps(actions, actions') /\ Len(actions) \in Nat /\ AllLists'
  <2>1. IsList(actions)
    BY DEF Inv, AllLists
  <2>2. /\ IsList(actions') /\ Of(actions') = Of(actions) \cup {new} /\ Bounds(actions, new)
        /\ Len(actions) \in Nat /\ Keeps(actions, actions')
    BY <1>1, <2>1, Appended, AppendKeeps
  <2> QED
    BY <1>1, <2>1, <2>2 DEF Inv, AllLists
<1>4. /\ Len(actions') = Len(actions) + 1 /\ DOMAIN actions' = 1..(Len(actions) + 1)
      /\ DOMAIN actions = 1..Len(actions)
  BY <1>1, <1>3 DEF Bounds
<1>5. /\ \A a \in Of(actions') : a.run \in 1..run' /\ \E q \in Proposals : a.tool = q.tool /\ a.type = q.type
  BY <1>1, <1>2, <1>3 DEF Inv, TypeOK, Of
<1>6. act' \in [Callers -> 0..Len(actions')] /\ pc' \in [Callers -> {"idle", "evaluate", "execute", "adapter"}]
  BY <1>1, <1>3, <1>4 DEF Inv, TypeOK
<1>7. \A a : Known(a) => Known(a)'
  BY <1>3 DEF Known, Keeps
<1>8. TypeOK'
  BY <1>1, <1>3, <1>5, <1>6, <1>7 DEF Inv, TypeOK, Keeps
<1>9. \A d \in Of(decisions) : DecisionInv(d)'
  BY <1>1, <1>3, DecisionStays, KeepsSelf
<1>10. \A b \in Callers : /\ pc'[b] # "idle" => act'[b] # 0
                          /\ pc'[b] \in {"execute", "adapter"} => pc[b] = pc'[b] /\ act'[b] = act[b]
  BY <1>1, <1>3, <1>4 DEF Inv, TypeOK
<1> QED
  BY <1>1, <1>3, <1>8, <1>9, <1>10 DEF Inv, Decided

------------------------------------------------------------------------------
(* evaluate_action. *)

\* A scope the gate found is that of a grant of this run and actor, still valid.
LEMMA ScopesBacked ==
    ASSUME NEW action, NEW frame, NEW now, NEW s \in ActiveScopes(action, frame, now)
    PROVE  \E g \in Of(authorities) : /\ g.run = action.run /\ g.actor = frame.actor
                                      /\ s \in g.scope /\ (g.expires = Never \/ g.expires > now)
BY DEF ActiveScopes, Of

LEMMA EvaluateSafe ==
    ASSUME Inv, NEW c \in Callers, NEW traced \in BOOLEAN, NEW onAllow \in {"idle", "execute"},
           Evaluate(c, traced, onAllow)
    PROVE  Inv'
<1> PICK a \in DOMAIN actions : a = act[c] /\ actions[a].run = run
  BY DEF Evaluate, ProposedInThisRun
<1> PICK scopes : scopes = ActiveScopes(actions[a], frames[run], clock)
  OBVIOUS
<1> PICK action, frame : action = actions[a] /\ frame = frames[run]
  OBVIOUS
<1> PICK fp, result : /\ fp = Fingerprint(action, frame, scopes)
                      /\ result = ApplyRules(action, frame, scopes)
  OBVIOUS
<1> PICK trace : trace = IF traced THEN Len(traces') ELSE 0
  OBVIOUS
<1> PICK new, story, stop :
        /\ new = [run |-> action.run, action |-> a, result |-> result, at |-> clock,
                  fingerprint |-> fp, trace |-> trace]
        /\ story = [run |-> action.run, action |-> a, fingerprint |-> fp]
        /\ stop = [run |-> run, action |-> a]
  OBVIOUS
<1>1. /\ traces' = IF traced THEN Append(traces, story) ELSE traces
      /\ decisions' = Append(decisions, new)
      /\ blocked' = IF Blocks(result) THEN Append(blocked, stop) ELSE blocked
      /\ pc' = [pc EXCEPT ![c] = IF result = "allow" THEN onAllow ELSE "idle"]
      /\ UNCHANGED <<clock, frames, actions, authorities, reliances, completed, executed, act>>
  BY DEF Evaluate, Goto
<1>2. run \in Nat /\ run' = run /\ a \in 1..Len(actions) /\ a # 0 /\ action.run \in 1..run
  <2>1. actions[a] \in Of(actions) /\ DOMAIN actions = 1..Len(actions)
    BY DEF Of, Inv, AllLists, IsList
  <2> QED
    BY <1>1, <2>1 DEF Inv, TypeOK, run
<1>3. /\ IsList(decisions') /\ Of(decisions') = Of(decisions) \cup {new}
  <2>1. IsList(decisions)
    BY DEF Inv, AllLists
  <2> QED
    BY <1>1, <2>1, Appended
<1>4. /\ IsList(traces') /\ Keeps(traces, traces') /\ Of(traces') \subseteq Of(traces) \cup {story}
      /\ traced => trace \in DOMAIN traces' /\ traces'[trace] = story
  <2>1. IsList(traces)
    BY DEF Inv, AllLists
  <2>2. CASE traced
    <3>1. traces' = Append(traces, story) /\ Bounds(traces, story) /\ Len(traces) \in Nat
      BY <1>1, <2>1, <2>2, Appended
    <3>2. trace = Len(traces) + 1 /\ trace \in DOMAIN traces' /\ traces'[trace] = story
      BY <2>2, <3>1 DEF Bounds
    <3>3. IsList(traces') /\ Of(traces') = Of(traces) \cup {story}
      BY <2>1, <3>1, Appended
    <3>4. Keeps(traces, traces')
      BY <2>1, <3>1, AppendKeeps
    <3> QED
      BY <3>2, <3>3, <3>4
  <2>3. CASE ~traced
    BY <1>1, <2>1, <2>3, KeepsSelf
  <2> QED
    BY <2>2, <2>3
<1>5. /\ IsList(blocked') /\ Of(blocked') \subseteq Of(blocked) \cup {stop}
      /\ stop \in Of(blocked') => stop \in Of(blocked) \/ result = "block"
  <2>1. IsList(blocked)
    BY DEF Inv, AllLists
  <2>2. CASE Blocks(result)
    <3>1. IsList(blocked') /\ Of(blocked') = Of(blocked) \cup {stop}
      BY <1>1, <2>1, <2>2, Appended
    <3> QED
      BY <2>2, <3>1 DEF Blocks
  <2>3. CASE ~Blocks(result)
    BY <1>1, <2>1, <2>3
  <2> QED
    BY <2>2, <2>3
<1>6. AllLists'
  BY <1>1, <1>3, <1>4, <1>5 DEF Inv, AllLists
<1>7. /\ result \in Results /\ result = ResultOf(fp)
      /\ fp.tool = action.tool /\ fp.type = action.type
      /\ fp.allowed = frame.allowed /\ fp.blocked = frame.blocked
  BY ResultsOnly, FingerprintDecides DEF Fingerprint
<1>8. TypeOK'
  <2>1. \A d \in Of(decisions') : d.result \in Results /\ Known(d.action)' /\ d.at \in 0..clock'
    <3>1. clock \in 0..clock
      BY ControlledRunAssumption DEF Inv, TypeOK
    <3> QED
      BY <1>1, <1>3, <1>7, <3>1 DEF Inv, TypeOK, Known
  <2>2. \A r \in Of(reliances') \cup Of(blocked') \cup Of(traces') : r.run \in 1..run' /\ Known(r.action)'
    <3>1. run \in 1..run
      BY <1>2
    <3> QED
      BY <1>1, <1>2, <1>4, <1>5, <3>1 DEF Inv, TypeOK, Known
  <2>3. pc' \in [Callers -> {"idle", "evaluate", "execute", "adapter"}]
    BY <1>1 DEF Inv, TypeOK
  <2> QED
    BY <1>1, <1>2, <2>1, <2>2, <2>3 DEF Inv, TypeOK
<1>9. \A d \in Of(decisions) : DecisionInv(d)'
  BY <1>1, <1>4, DecisionStays, KeepsSelf
<1>10. DecisionInv(new)'
  <2>1. ASSUME result = "allow", action.type \in {"write", "external_send"}
        PROVE  Backed(new)'
    <3>1. action.type \in ActiveScopes(action, frame, clock)
      BY <2>1, AllowMeans
    <3>2. PICK g \in Of(authorities) :
              /\ g.run = action.run /\ g.actor = frame.actor
              /\ action.type \in g.scope /\ (g.expires = Never \/ g.expires > clock)
      BY <3>1, ScopesBacked
    <3> QED
      BY <1>1, <3>2 DEF Backed
  <2>2. trace # 0 => trace \in DOMAIN traces' /\ traces'[trace].fingerprint = fp
    BY <1>4
  <2> QED
    BY <1>1, <1>7, <2>1, <2>2 DEF DecisionInv
<1>11. /\ \A x, y : Decided(x, y) => Decided(x, y)'
       /\ Decided(a, result)'
  BY <1>3 DEF Decided
<1>12. \A b \in Of(blocked') : Decided(b.action, "block")'
  BY <1>5, <1>11 DEF Inv
<1>13. \A b \in Callers : /\ pc'[b] # "idle" => act[b] # 0
                          /\ pc'[b] \in {"execute", "adapter"} => Decided(act[b], "allow")'
  BY <1>1, <1>2, <1>11 DEF Inv, TypeOK
<1> QED
  BY <1>1, <1>3, <1>6, <1>8, <1>9, <1>10, <1>11, <1>12, <1>13 DEF Inv

LEMMA InvStep == Inv /\ [Next]_vars => Inv'
<1> SUFFICES ASSUME Inv, [Next]_vars PROVE Inv'
  OBVIOUS
<1>1. ASSUME NEW c \in Callers, NEW traced \in BOOLEAN, EvaluateAction(c, traced) PROVE Inv'
  BY <1>1, EvaluateSafe DEF EvaluateAction
<1>2. ASSUME NEW c \in Callers, Controlled(c) PROVE Inv'
  <2>1. ASSUME EvaluateControlled(c) PROVE Inv'
    BY <2>1, EvaluateSafe DEF EvaluateControlled
  <2> QED
    BY <1>2, <2>1, CallerSafe, ReturnSafe DEF Controlled
<1>3. ASSUME NEW c \in Callers, NEW p \in Proposals, ProposeAction(c, p) \/ ExecuteWithControl(c, p)
      PROVE  Inv'
  BY <1>3, ProposeSafe DEF ProposeAction, ExecuteWithControl
<1>4. CASE UNCHANGED vars
  <2>1. TypeOK'
    BY <1>4 DEF vars, lists, Inv, TypeOK, Known, run
  <2> QED
    BY <1>4, <2>1, ListsStay DEF vars, Inv
<1> QED
  BY <1>1, <1>2, <1>3, <1>4, TickSafe, CompleteSafe, StartSafe, GrantSafe DEF Next

\* What decisions, traces, grants and executed actions say of each other.
THEOREM InvHolds == Spec => []Inv
BY InvInit, InvStep, PTL DEF Spec

\* Every list refers to runs that were started and to actions that were proposed.
THEOREM TypeCorrect == Spec => []TypeOK
<1>1. Inv => TypeOK
  BY DEF Inv
<1> QED
  BY <1>1, InvHolds, PTL

\* A real tool is called only within the frame of its action's own run.
THEOREM CallsStayInFrame == Spec => []ExecutedWithinFrame
<1>1. Inv => ExecutedWithinFrame
  <2> SUFFICES ASSUME Inv, NEW a \in executed
               PROVE  LET frame == frames[actions[a].run]
                      IN  /\ actions[a].tool \in frame.allowed \ frame.blocked
                          /\ \E d \in Of(decisions) : d.action = a /\ d.result = "allow"
    BY DEF ExecutedWithinFrame
  <2>1. PICK d \in Of(decisions) : d.action = a /\ d.result = "allow"
    BY DEF Inv, Decided
  <2>2. DecisionInv(d)
    BY DEF Inv
  <2>3. d.fingerprint.tool \in d.fingerprint.allowed \ d.fingerprint.blocked
    BY <2>1, <2>2, AllowMeans DEF DecisionInv, ResultOf
  <2> QED
    BY <2>1, <2>2, <2>3 DEF DecisionInv
<1> QED
  BY <1>1, InvHolds, PTL

\* An allowed write or send rests on a grant of its run and actor, valid then.
THEOREM AllowsAreBacked == Spec => []AllowBacked
<1>1. Inv => AllowBacked
  BY DEF Inv, DecisionInv, Backed, AllowBacked
<1> QED
  BY <1>1, InvHolds, PTL

\* One fingerprint, one result.
THEOREM FingerprintsDetermine == Spec => []FingerprintDetermines
<1>1. Inv => FingerprintDetermines
  BY DEF Inv, DecisionInv, FingerprintDetermines
<1> QED
  BY <1>1, InvHolds, PTL

\* What a recorder of one run exports is valid at every moment.
THEOREM FirstRunValid == Spec => []RecordValid
<1>1. Inv => RecordValid
  <2> SUFFICES ASSUME Inv, run = 1 PROVE ValidRecord
    BY DEF RecordValid
  <2>1. \A k \in 1..run : k = run
    OBVIOUS
  <2>2. /\ \A a \in Of(actions) : a.run = run
        /\ \A r \in Of(reliances) \cup Of(blocked) \cup Of(traces) : r.run = run /\ Known(r.action)
        /\ \A g \in Of(authorities) : g.run = run
    BY <2>1 DEF Inv, TypeOK
  <2>3. ASSUME NEW d \in Of(decisions) PROVE ValidDecision(d)
    <3>1. DecisionInv(d) /\ actions[d.action] \in Of(actions)
      BY DEF Inv, DecisionInv, Of
    <3> QED
      BY <2>2, <3>1 DEF DecisionInv, ValidDecision, Known
  <2>4. ASSUME NEW b \in Of(blocked) PROVE ValidBlocked(b)
    BY <2>2 DEF Inv, Decided, ValidBlocked
  <2> QED
    BY <2>2, <2>3, <2>4 DEF ValidRecord
<1> QED
  BY <1>1, InvHolds, PTL
------------------------------------------------------------------------------
(* Several runs of one recorder, and tools that are called once. *)

\* What starting another run leaves intact: a decision, its trace and a block
\* are of the run of their action, and what was relied on was really called, on
\* an allow decision, though it may be booked to a later run.
RunsApart ==
    /\ \A d \in Of(decisions) :
          /\ d.run = actions[d.action].run
          /\ d.trace # 0 => traces[d.trace].run = d.run /\ traces[d.trace].action = d.action
    /\ \A b \in Of(blocked) : b.run = actions[b.action].run /\ Decided(b.action, "block")
    /\ \A r \in Of(reliances) : /\ actions[r.action].run =< r.run
                                /\ r.action \in executed /\ Decided(r.action, "allow")

\* The tool of an action is called at most once.
ToolsCalledOnce == [][\A c \in Callers : CallAdapter(c) => act[c] \notin executed]_vars

Booked ==
    /\ \A d \in Of(decisions) : d.trace # 0 => traces[d.trace].action = d.action
    /\ \A t \in Of(traces) : t.run = actions[t.action].run
    /\ \A b \in Of(blocked) : b.run = actions[b.action].run
    /\ \A r \in Of(reliances) : actions[r.action].run =< r.run /\ r.action \in executed

\* Each action in hand is in one caller's hands.
Held ==
    /\ \A c \in Callers : /\ pc[c] = "adapter" => act[c] \in executed
                          /\ pc[c] \in {"evaluate", "execute"} => act[c] \notin executed
    /\ \A b, c \in Callers : b # c /\ act[b] # 0 => act[b] # act[c]

LEMMA ProposeBooked ==
    ASSUME Inv, Booked, Held, NEW c \in Callers, NEW p \in Proposals,
           NEW step \in {"idle", "evaluate"}, Propose(c, p, step)
    PROVE  Booked' /\ Held'
<1> PICK new : new = [run |-> run, tool |-> p.tool, type |-> p.type]
  OBVIOUS
<1>1. /\ UNCHANGED <<decisions, traces, reliances, blocked, executed>>
      /\ actions' = Append(actions, new) /\ pc' = [pc EXCEPT ![c] = step]
      /\ act' = [act EXCEPT ![c] = Len(actions')]
  BY DEF Propose, Goto
<1>2. /\ Bounds(actions, new) /\ Keeps(actions, actions') /\ Len(actions) \in Nat
  BY <1>1, Appended, AppendKeeps DEF Inv, AllLists
<1> PICK n \in Nat : n = Len(actions)
  BY <1>2
<1>3. Len(actions') = n + 1 /\ DOMAIN actions = 1..n
  BY <1>1, <1>2 DEF Bounds
<1>4. \A r \in Of(reliances) \cup Of(blocked) \cup Of(traces) : actions'[r.action] = actions[r.action]
  BY <1>2 DEF Inv, TypeOK, Known, Keeps
<1>5. Booked'
  BY <1>1, <1>4 DEF Booked
<1>6. act \in [Callers -> 0..n] /\ pc \in [Callers -> {"idle", "evaluate", "execute", "adapter"}]
      /\ executed \subseteq 1..n
  BY <1>3 DEF Inv, TypeOK
<1>7. act'[c] = n + 1 /\ pc'[c] = step /\ \A b \in Callers \ {c} : act'[b] = act[b] /\ pc'[b] = pc[b]
  BY <1>1, <1>3, <1>6
<1>8. n + 1 \notin executed /\ \A b \in Callers : act[b] # n + 1
  BY <1>6
<1>9. Held'
  BY <1>1, <1>7, <1>8 DEF Held
<1> QED
  BY <1>5, <1>9

LEMMA EvaluateBooked ==
    ASSUME Inv, Booked, Held, NEW c \in Callers, NEW traced \in BOOLEAN,
           NEW onAllow \in {"idle", "execute"}, Evaluate(c, traced, onAllow),
           onAllow = "execute" => pc[c] = "evaluate"
    PROVE  Booked' /\ Held'
<1> PICK a \in DOMAIN actions : a = act[c] /\ actions[a].run = run
  BY DEF Evaluate, ProposedInThisRun
<1> PICK scopes : scopes = ActiveScopes(actions[a], frames[run], clock)
  OBVIOUS
<1> PICK action, frame : action = actions[a] /\ frame = frames[run]
  OBVIOUS
<1> PICK fp, result : /\ fp = Fingerprint(action, frame, scopes)
                      /\ result = ApplyRules(action, frame, scopes)
  OBVIOUS
<1> PICK trace : trace = IF traced THEN Len(traces') ELSE 0
  OBVIOUS
<1> PICK new, story, stop :
        /\ new = [run |-> action.run, action |-> a, result |-> result, at |-> clock,
                  fingerprint |-> fp, trace |-> trace]
        /\ story = [run |-> action.run, action |-> a, fingerprint |-> fp]
        /\ stop = [run |-> run, action |-> a]
  OBVIOUS
<1>1. /\ traces' = IF traced THEN Append(traces, story) ELSE traces
      /\ decisions' = Append(decisions, new)
      /\ blocked' = IF Blocks(result) THEN Append(blocked, stop) ELSE blocked
      /\ pc' = [pc EXCEPT ![c] = IF result = "allow" THEN onAllow ELSE "idle"]
      /\ UNCHANGED <<actions, reliances, executed, act>>
  BY DEF Evaluate, Goto
<1>2. /\ new.action = a /\ new.trace = trace
      /\ story.action = a /\ story.run = action.run
      /\ stop.action = a /\ stop.run = action.run
  OBVIOUS
<1>3. IsList(decisions) /\ IsList(traces) /\ IsList(blocked)
  BY DEF Inv, AllLists
<1>4. Of(decisions') = Of(decisions) \cup {new}
  BY <1>1, <1>3, Appended
<1>5. /\ Keeps(traces, traces') /\ Of(traces') \subseteq Of(traces) \cup {story}
      /\ traced => traces'[trace] = story
  <2>1. CASE traced
    <3>1. traces' = Append(traces, story) /\ Bounds(traces, story) /\ Len(traces) \in Nat
      BY <1>1, <1>3, <2>1, Appended
    <3>2. trace = Len(traces) + 1 /\ traces'[trace] = story
      BY <2>1, <3>1 DEF Bounds
    <3>3. Of(traces') = Of(traces) \cup {story} /\ Keeps(traces, traces')
      BY <1>3, <3>1, Appended, AppendKeeps
    <3> QED
      BY <3>2, <3>3
  <2>2. CASE ~traced
    BY <1>1, <2>2, KeepsSelf
  <2> QED
    BY <2>1, <2>2
<1>6. Of(blocked') \subseteq Of(blocked) \cup {stop}
  <2>1. CASE Blocks(result)
    BY <1>1, <1>3, <2>1, Appended
  <2>2. CASE ~Blocks(result)
    BY <1>1, <2>2
  <2> QED
    BY <2>1, <2>2
<1>7. \A d \in Of(decisions') : d.trace # 0 => traces'[d.trace].action = d.action
  <2>1. ASSUME NEW d \in Of(decisions), d.trace # 0 PROVE traces'[d.trace].action = d.action
    BY <1>5, <2>1 DEF Inv, DecisionInv, Keeps, Booked
  <2>2. new.trace # 0 => traces'[new.trace].action = new.action
    BY <1>2, <1>5
  <2> QED
    BY <1>4, <2>1, <2>2
<1>8. Booked'
  <2>1. \A t \in Of(traces') : t.run = actions[t.action].run
    BY <1>2, <1>5 DEF Booked
  <2>2. \A b \in Of(blocked') : b.run = actions[b.action].run
    BY <1>2, <1>6 DEF Booked
  <2> QED
    BY <1>1, <1>7, <2>1, <2>2 DEF Booked
<1>9. \A b \in Callers : pc'[b] = pc[b] \/ pc'[b] = "idle" \/ (pc'[b] = "execute" /\ pc[b] = "evaluate")
  BY <1>1 DEF Inv, TypeOK
<1>10. Held'
  BY <1>1, <1>9 DEF Held
<1> QED
  BY <1>8, <1>10

\* The caller of an adapter holds an action that nobody else does.
LEMMA CallerBooked ==
    ASSUME Inv, Booked, Held, NEW c \in Callers,
           EvaluateRaises(c) \/ RejectAdapter(c) \/ AdapterRaises(c) \/ CallAdapter(c)
    PROVE  Booked' /\ Held'
<1>1. UNCHANGED <<lists, act>>
  BY DEF EvaluateRaises, RejectAdapter, AdapterRaises, CallAdapter
<1>2. \/ executed' = executed /\ pc' = [pc EXCEPT ![c] = "idle"]
      \/ /\ executed' = executed \cup {act[c]} /\ pc' = [pc EXCEPT ![c] = "adapter"]
         /\ pc[c] = "execute"
  BY DEF EvaluateRaises, RejectAdapter, AdapterRaises, CallAdapter, Goto
<1>3. Booked'
  <2>1. UNCHANGED <<actions, decisions, traces, reliances, blocked>> /\ executed \subseteq executed'
    BY <1>1, <1>2 DEF lists
  <2> QED
    BY <2>1 DEF Booked
<1>4. pc \in [Callers -> {"idle", "evaluate", "execute", "adapter"}]
  BY DEF Inv, TypeOK
<1>5. CASE executed' = executed /\ pc' = [pc EXCEPT ![c] = "idle"]
  <2>1. \A b \in Callers : pc'[b] = pc[b] \/ pc'[b] = "idle"
    BY <1>4, <1>5
  <2> QED
    BY <1>1, <1>3, <1>5, <2>1 DEF Held
<1>6. CASE /\ executed' = executed \cup {act[c]} /\ pc' = [pc EXCEPT ![c] = "adapter"]
           /\ pc[c] = "execute"
  <2>1. act[c] # 0 /\ \A b \in Callers \ {c} : act[b] # act[c]
    BY <1>6 DEF Held, Inv
  <2>2. pc'[c] = "adapter" /\ \A b \in Callers \ {c} : pc'[b] = pc[b]
    BY <1>4, <1>6
  <2> QED
    BY <1>1, <1>3, <1>6, <2>1, <2>2 DEF Held
<1> QED
  BY <1>2, <1>3, <1>5, <1>6

LEMMA ReturnBooked ==
    ASSUME Inv, Booked, Held, NEW c \in Callers, AdapterReturns(c) PROVE Booked' /\ Held'
<1> PICK new : new = [run |-> run, action |-> act[c]]
  OBVIOUS
<1>1. /\ UNCHANGED <<actions, decisions, traces, blocked, executed, act>>
      /\ pc[c] = "adapter" /\ pc' = [pc EXCEPT ![c] = "idle"]
      /\ reliances' = Append(reliances, new)
  BY DEF AdapterReturns, Goto
<1>2. new.run = run /\ new.action = act[c] /\ act[c] \in executed
  BY <1>1 DEF Held
<1>3. actions[act[c]].run =< run
  <2>1. act[c] \in DOMAIN actions
    BY <1>2 DEF Inv, TypeOK
  <2> QED
    BY <2>1 DEF Inv, TypeOK, Of, run
<1>4. Of(reliances') = Of(reliances) \cup {new}
  BY <1>1, Appended DEF Inv, AllLists
<1>5. Booked'
  BY <1>1, <1>2, <1>3, <1>4 DEF Booked
<1>6. Held'
  BY <1>1 DEF Held, Inv, TypeOK
<1> QED
  BY <1>5, <1>6

LEMMA BookedStep == Inv /\ Booked /\ Held /\ [Next]_vars => Booked' /\ Held'
<1> SUFFICES ASSUME Inv, Booked, Held, [Next]_vars PROVE Booked' /\ Held'
  OBVIOUS
<1>1. ASSUME NEW c \in Callers, NEW traced \in BOOLEAN, EvaluateAction(c, traced)
      PROVE  Booked' /\ Held'
  BY <1>1, EvaluateBooked DEF EvaluateAction
<1>2. ASSUME NEW c \in Callers, Controlled(c) PROVE Booked' /\ Held'
  <2>1. ASSUME EvaluateControlled(c) PROVE Booked' /\ Held'
    BY <2>1, EvaluateBooked DEF EvaluateControlled
  <2> QED
    BY <1>2, <2>1, CallerBooked, ReturnBooked DEF Controlled
<1>3. ASSUME NEW c \in Callers, NEW p \in Proposals, ProposeAction(c, p) \/ ExecuteWithControl(c, p)
      PROVE  Booked' /\ Held'
  BY <1>3, ProposeBooked DEF ProposeAction, ExecuteWithControl
<1>4. ASSUME UNCHANGED <<actions, decisions, traces, reliances, blocked, executed, pc, act>>
      PROVE  Booked' /\ Held'
  BY <1>4 DEF Booked, Held
<1> QED
  BY <1>1, <1>2, <1>3, <1>4 DEF Next, Tick, CompleteRun, StartRun, AddAuthorityRecord, vars, lists

LEMMA BookedHolds == Spec => [](Inv /\ Booked /\ Held)
<1>1. Init => Booked /\ Held
  BY DEF Init, Booked, Held, Of
<1> QED
  BY <1>1, BookedStep, InvHolds, PTL DEF Spec

\* However often a recorder is started anew and whatever calls are then under
\* way, decisions, traces and blocks stay with the run of their action, and
\* every reliance is on a tool that was called on an allow decision.
THEOREM RunsStayApart == Spec => []RunsApart
<1>1. Inv /\ Booked => RunsApart
  <2> SUFFICES ASSUME Inv, Booked PROVE RunsApart
    OBVIOUS
  <2>1. ASSUME NEW d \in Of(decisions)
        PROVE  /\ d.run = actions[d.action].run
               /\ d.trace # 0 => traces[d.trace].run = d.run /\ traces[d.trace].action = d.action
    <3>1. d.run = actions[d.action].run
      BY DEF Inv, DecisionInv
    <3>2. ASSUME d.trace # 0 PROVE traces[d.trace].run = d.run /\ traces[d.trace].action = d.action
      <4>1. traces[d.trace] \in Of(traces) /\ traces[d.trace].action = d.action
        BY <3>2 DEF Inv, DecisionInv, Of, Booked
      <4> QED
        BY <3>1, <4>1 DEF Booked
    <3> QED
      BY <3>1, <3>2
  <2>2. \A r \in Of(reliances) : Decided(r.action, "allow")
    BY DEF Inv, Booked
  <2> QED
    BY <2>1, <2>2 DEF RunsApart, Booked, Inv
<1> QED
  BY <1>1, BookedHolds, PTL

\* Whatever callers and runs there are, no action's tool is called twice.
THEOREM OneCallPerAction == Spec => ToolsCalledOnce
<1>1. Held => \A c \in Callers : CallAdapter(c) => act[c] \notin executed
  BY DEF Held, CallAdapter
<1> QED
  BY <1>1, BookedHolds, PTL DEF ToolsCalledOnce
==============================================================================
