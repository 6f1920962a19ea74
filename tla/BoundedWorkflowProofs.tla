------------------------ MODULE BoundedWorkflowProofs ------------------------
(* decide, execute and reconcile keep the record ahead of the destination,   *)
(* for any callers, proposals, inputs, versions, changes and calls cut short. *)
EXTENDS BoundedWorkflow, FiniteSetTheorems, TLAPS

Authorizes(d, e) ==
    d \in DOMAIN decisions /\ decisions[d].result = "authorized" /\ decisions[d].effect = e

\* The record holds the attempt of an authorized decision of the effect.
Announced(e) == \E k \in Dispatches(e) : Authorizes(attempts[e][k].decision, e)

\* What the status lookups have found so far.
Seen(m, step) ==
    \A k \in DOMAIN InputOrder :
        step = "resolved" \/ k < m.next =>
            LET i == InputOrder[k]
            IN  i \in m.bad \/ m.read[i] # decisions[m.decision].binding[i] \/ i \in m.held

\* A call with the local variables m at a step.
CallInv(m, step) ==
    /\ m.op = "execute" => /\ Authorizes(m.decision, m.effect) /\ m.decision # 0
                           /\ Holding(decisions[m.decision].binding, status) \subseteq m.held
    /\ m.op = "decide" => step \in {"context", "status", "resolved"}
    /\ m.op = "reconcile" => /\ step \in {"observe", "observation", "reconciliation"}
                             /\ m.phase = "only"
    /\ step = "context" => m.next = 1
    /\ m.op = "execute" /\ step \in {"status", "resolved"} => Seen(m, step)
    /\ m.op = "execute" /\ step \notin {"context", "status", "resolved", "reread", "refuse"} =>
          m.held = Inputs
    /\ step = "apply" => Announced(m.effect)
    /\ step \in {"observation", "reconciliation"} =>
          m.observed # "none" /\ (m.observed = "applied" => ledger[m.effect] = "applied")
    /\ step = "reconciliation" /\ m.accepted => <<m.effect, m.observed>> \in observations
    /\ m.late => 1 \in DOMAIN attempts[m.effect]
    /\ m.late /\ m.phase = "pre" /\ step \in {"observe", "observation", "reconciliation"} =>
          m.prior
    /\ step \in {"attempt", "apply", "outcome"} => ~m.late

CallOK(c) == pc[c] # "idle" => CallInv(my[c], pc[c])

Inv ==
    /\ TypeOK
    /\ \A e \in Effects : ledger[e] # "absent" => Announced(e)
    /\ ReconciliationBacked
    /\ \A c \in Callers : CallOK(c)

Keeps(s, t) == DOMAIN s \subseteq DOMAIN t /\ \A k \in DOMAIN s : t[k] = s[k]

\* The record and the ledger only grow.
Grown ==
    /\ Keeps(decisions, decisions') /\ Len(decisions) =< Len(decisions')
    /\ \A e \in Effects : Keeps(attempts[e], attempts'[e])
    /\ observations \subseteq observations'
    /\ \A e \in Effects : ledger[e] # "absent" => ledger'[e] = ledger[e]

LEMMA AuthorizesStays ==
    ASSUME Grown, NEW d, NEW e, Authorizes(d, e) PROVE Authorizes(d, e)'
BY DEF Grown, Keeps, Authorizes

LEMMA AnnouncedStays ==
    ASSUME Grown, NEW e \in Effects, Announced(e) PROVE Announced(e)'
<1> PICK k \in Dispatches(e) : Authorizes(attempts[e][k].decision, e)
  BY DEF Announced
<1> PICK d : d = attempts[e][k].decision
  OBVIOUS
<1>1. k \in Dispatches(e)' /\ attempts'[e][k].decision = d
  BY DEF Dispatches, Grown, Keeps
<1>2. Authorizes(d, e)'
  BY AuthorizesStays
<1> QED
  BY <1>1, <1>2 DEF Announced, Authorizes

\* Growth, and statuses that stay, do not disturb a call.
LEMMA CallStays ==
    ASSUME Grown, UNCHANGED status, NEW m \in LocalsType, NEW step, CallInv(m, step)
    PROVE  CallInv(m, step)'
<1>1. m.effect \in Effects
  BY DEF LocalsType
<1>2. m.op = "execute" => /\ Authorizes(m.decision, m.effect)'
                          /\ decisions'[m.decision] = decisions[m.decision]
  BY <1>1, AuthorizesStays DEF CallInv, Grown, Keeps, Authorizes
<1>3. step = "apply" => Announced(m.effect)'
  BY <1>1, AnnouncedStays DEF CallInv
<1>4. m.op = "execute" /\ Seen(m, step) => Seen(m, step)'
  BY <1>2 DEF Seen
<1>5. m.op = "execute" => Holding(decisions[m.decision].binding, status)' \subseteq m.held
  BY <1>2 DEF CallInv, Holding
<1>6. m.late => 1 \in DOMAIN attempts'[m.effect]
  BY <1>1 DEF CallInv, Grown, Keeps
<1>7. /\ step \in {"observation", "reconciliation"} /\ m.observed = "applied" =>
            ledger'[m.effect] = "applied"
      /\ step = "reconciliation" /\ m.accepted => <<m.effect, m.observed>> \in observations'
  BY <1>1 DEF CallInv, Grown
<1> QED
  BY <1>1, <1>2, <1>3, <1>4, <1>5, <1>6, <1>7 DEF CallInv

LEMMA NothingGrows == ASSUME TypeOK, UNCHANGED <<records, ledger>> PROVE Grown
BY DEF TypeOK, records, Grown, Keeps

\* What leaves the calls, the record, the ledger and the statuses alone.
LEMMA UntouchedSafe ==
    ASSUME Inv, TypeOK', UNCHANGED <<status, my, pc, records, ledger>> PROVE Inv'
<1>1. Grown
  BY NothingGrows DEF Inv
<1>2. ASSUME NEW e \in Effects, ledger'[e] # "absent" PROVE Announced(e)'
  BY <1>1, <1>2, AnnouncedStays DEF Inv
<1>3. ReconciliationBacked'
  BY DEF records, Inv, ReconciliationBacked
<1>4. ASSUME NEW c \in Callers, pc[c] # "idle" PROVE CallOK(c)'
  <2> PICK m \in LocalsType, step \in Steps : m = my[c] /\ step = pc[c]
    BY <1>4 DEF Inv, TypeOK
  <2>1. CallInv(m, step)
    BY <1>4 DEF Inv, CallOK
  <2>2. CallInv(m, step)'
    BY <1>1, <2>1, CallStays
  <2> QED
    BY <2>2 DEF CallOK
<1>5. \A c \in Callers : CallOK(c)'
  BY <1>4 DEF CallOK
<1> QED
  BY <1>2, <1>3, <1>5 DEF Inv

LEMMA InvInit == Init => Inv
<1> SUFFICES ASSUME Init PROVE Inv
  OBVIOUS
<1>1. PICK v \in Versions : context = [i \in Inputs |-> v]
  BY DEF Init
<1>2. TypeOK
  BY <1>1, WorkflowAssumption DEF Init, TypeOK, Bindings, Statuses, Current, Ledger!Init,
     Ledger!LedgerTypeOK, Steps
<1>3. \A e \in Effects : ledger[e] = "absent"
  BY DEF Init, Ledger!Init
<1> QED
  BY <1>2, <1>3 DEF Init, Inv, ReconciliationBacked, CallOK

------------------------------------------------------------------------------
(* Steps of one call that only move its local variables. *)

\* The other calls do not notice.
LEMMA OthersStay ==
    ASSUME Inv, Grown, UNCHANGED status, NEW c \in Callers, NEW b \in Callers \ {c},
           my'[b] = my[b], pc'[b] = pc[b]
    PROVE  CallOK(b)'
<1> SUFFICES ASSUME pc[b] # "idle" PROVE CallInv(my[b], pc[b])'
  BY DEF CallOK
<1> PICK m \in LocalsType, step \in Steps : m = my[b] /\ step = pc[b]
  BY DEF Inv, TypeOK
<1>1. CallInv(m, step)
  BY DEF Inv, CallOK
<1>2. CallInv(m, step)'
  BY <1>1, CallStays
<1>3. m = my'[b] /\ step = pc'[b]
  OBVIOUS
<1> QED
  BY <1>2, <1>3 DEF CallInv, Seen

LEMMA LocalStep ==
    ASSUME Inv, NEW c \in Callers, pc[c] # "idle",
           UNCHANGED <<authority, records, ledger, calls, changes, aborts>>,
           NEW n \in LocalsType, n.decision = my[c].decision,
           NEW step \in Steps \ {"idle"}, CallInv(n, step),
           my' = [my EXCEPT ![c] = n], pc' = [pc EXCEPT ![c] = step]
    PROVE  Inv'
<1>1. UNCHANGED <<context, status>> /\ Grown
  BY NothingGrows DEF authority, Inv
<1>2. TypeOK'
  BY <1>1 DEF records, Inv, TypeOK, Ledger!LedgerTypeOK
<1>3. ReconciliationBacked' /\ \A e \in Effects : ledger'[e] # "absent" => Announced(e)'
  BY <1>1 DEF records, Inv, ReconciliationBacked, Announced, Authorizes, Dispatches
<1>4. \A b \in Callers \ {c} : CallOK(b)'
  BY <1>1, OthersStay DEF Inv, TypeOK
<1>5. my'[c] = n /\ pc'[c] = step
  BY DEF Inv, TypeOK
<1>6. CallInv(n, step)'
  BY <1>1, CallStays
<1>7. CallOK(c)'
  BY <1>5, <1>6 DEF CallOK, CallInv, Seen
<1> QED
  BY <1>2, <1>3, <1>4, <1>7 DEF Inv

LEMMA ReadContextSafe == ASSUME Inv, NEW c \in Callers, ReadContext(c) PROVE Inv'
<1> PICK m \in LocalsType : m = my[c]
  BY DEF Inv, TypeOK, ReadContext
<1> PICK n : n = [m EXCEPT !.read = context]
  OBVIOUS
<1>1. CallInv(m, "context") /\ pc[c] = "context" /\ context \in Bindings
  BY DEF Inv, CallOK, TypeOK, ReadContext
<1>2. my' = [my EXCEPT ![c] = n] /\ pc' = [pc EXCEPT ![c] = "status"]
      /\ UNCHANGED <<authority, records, ledger, calls, changes, aborts>>
  BY DEF ReadContext, Goto
<1>3. /\ n \in LocalsType /\ n.read = context /\ n.op = m.op /\ n.effect = m.effect
      /\ n.decision = m.decision /\ n.next = m.next /\ n.bad = m.bad /\ n.held = m.held
      /\ n.phase = m.phase /\ n.late = m.late
  BY <1>1 DEF LocalsType
<1>4. n.op = "execute" => Seen(n, "status")
  BY <1>1, <1>3, WorkflowAssumption DEF CallInv, Seen
<1>5. CallInv(n, "status")
  BY <1>1, <1>3, <1>4 DEF CallInv
<1> QED
  BY <1>1, <1>2, <1>3, <1>5, LocalStep DEF Steps

LEMMA ReadStatusSafe == ASSUME Inv, NEW c \in Callers, ReadStatus(c) PROVE Inv'
<1> PICK m \in LocalsType : m = my[c]
  BY DEF Inv, TypeOK, ReadStatus
<1> PICK i, last : i = InputOrder[m.next] /\ last = (m.next = Len(InputOrder))
  OBVIOUS
<1>x. PICK next, bad : /\ next = IF m.next = Len(InputOrder) THEN 1 ELSE m.next + 1
                       /\ bad = IF status[i] = Current(m.read[i]) THEN m.bad ELSE m.bad \cup {i}
  OBVIOUS
<1>n. PICK n : n = [m EXCEPT !.next = next, !.bad = bad]
  OBVIOUS
<1>s. PICK step : step = IF m.next = Len(InputOrder) THEN "resolved" ELSE "status"
  OBVIOUS
<1>1. CallInv(m, "status") /\ pc[c] = "status"
  BY DEF Inv, CallOK, ReadStatus
<1>2. my' = [my EXCEPT ![c] = n] /\ pc' = [pc EXCEPT ![c] = step]
      /\ UNCHANGED <<authority, records, ledger, calls, changes, aborts>>
  BY <1>x, <1>n, <1>s DEF ReadStatus, Goto
<1>3. next \in DOMAIN InputOrder /\ bad \in SUBSET Inputs
  BY <1>x, WorkflowAssumption DEF LocalsType, Inputs
<1>4. /\ n \in LocalsType /\ n.read = m.read /\ n.op = m.op /\ n.effect = m.effect
      /\ n.decision = m.decision /\ n.next = next /\ n.bad = bad /\ n.held = m.held
      /\ n.phase = m.phase /\ n.late = m.late
  BY <1>3, <1>n DEF LocalsType
<1>5. ASSUME n.op = "execute" PROVE Seen(n, step)
  <2> SUFFICES ASSUME NEW k \in DOMAIN InputOrder, step = "resolved" \/ k < n.next,
                      NEW j, j = InputOrder[k]
               PROVE  j \in n.bad \/ n.read[j] # decisions[n.decision].binding[j] \/ j \in n.held
    BY DEF Seen
  <2>1. DOMAIN InputOrder = 1..Len(InputOrder) /\ Len(InputOrder) \in Nat /\ m.next \in DOMAIN InputOrder
    BY WorkflowAssumption DEF LocalsType
  <2>2. Seen(m, "status") /\ Holding(decisions[m.decision].binding, status) \subseteq m.held
    BY <1>1, <1>4, <1>5 DEF CallInv
  <2>3. CASE k < m.next
    BY <1>x, <1>4, <2>2, <2>3 DEF Seen
  <2>4. CASE k = m.next
    <3>1. j \in Inputs /\ j = i
      BY <2>4 DEF Inputs
    <3>2. status[j] = Current(decisions[m.decision].binding[j]) => j \in m.held
      BY <2>2, <3>1 DEF Holding
    <3>3. /\ n.read = m.read /\ n.held = m.held /\ n.decision = m.decision
          /\ status[j] # Current(m.read[j]) => j \in n.bad
      BY <1>x, <1>4, <3>1
    <3>4. CASE m.read[j] = decisions[m.decision].binding[j]
      BY <3>2, <3>3, <3>4
    <3>5. CASE m.read[j] # decisions[m.decision].binding[j]
      BY <3>3, <3>5
    <3> QED
      BY <3>4, <3>5
  <2>5. n.next = next
    BY <1>4
  <2>6. k < m.next \/ k = m.next
    BY <1>x, <1>s, <2>1, <2>5
  <2> QED
    BY <2>3, <2>4, <2>6
<1>6. CallInv(n, step)
  BY <1>s, <1>1, <1>4, <1>5 DEF CallInv
<1> QED
  BY <1>s, <1>1, <1>2, <1>4, <1>6, LocalStep DEF Steps

LEMMA RevalidatedSafe == ASSUME Inv, NEW c \in Callers, Revalidated(c) PROVE Inv'
<1> PICK m \in LocalsType : m = my[c]
  BY DEF Inv, TypeOK, Revalidated
<1> PICK step : step = IF Changed(c) THEN "reread" ELSE "prior"
  OBVIOUS
<1>1. /\ CallInv(m, "resolved") /\ pc[c] = "resolved" /\ m.op = "execute"
      /\ pc' = [pc EXCEPT ![c] = step]
      /\ UNCHANGED <<authority, records, ledger, my, calls, changes, aborts>>
  BY DEF Inv, CallOK, Revalidated, Goto
<1>2. ASSUME step = "prior" PROVE m.held = Inputs
  <2>1. m.bad = {} /\ m.read = decisions[m.decision].binding
    BY <1>2 DEF Changed
  <2>2. \A k \in DOMAIN InputOrder : InputOrder[k] \in m.held
    BY <1>1, <2>1 DEF CallInv, Seen
  <2> QED
    BY <2>2 DEF Inputs, LocalsType
<1>3. CallInv(m, step)
  BY <1>1, <1>2 DEF CallInv
<1>4. my' = [my EXCEPT ![c] = m]
  BY <1>1 DEF Inv, TypeOK
<1> QED
  BY <1>1, <1>3, <1>4, LocalStep DEF Steps

LEMMA RereadSafe == ASSUME Inv, NEW c \in Callers, Reread(c) PROVE Inv'
<1> PICK m \in LocalsType : m = my[c]
  BY DEF Inv, TypeOK, Reread
<1> PICK i : i = InputOrder[m.next]
  OBVIOUS
<1>x. PICK next, changed :
        /\ next = IF m.next = Len(InputOrder) THEN 1 ELSE m.next + 1
        /\ changed = IF status[i] = Current(decisions[m.decision].binding[i])
                     THEN m.changed ELSE m.changed \cup {i}
  OBVIOUS
<1>n. PICK n : n = [m EXCEPT !.next = next, !.changed = changed]
  OBVIOUS
<1>s. PICK step : step = IF m.next = Len(InputOrder) THEN "refuse" ELSE "reread"
  OBVIOUS
<1>1. CallInv(m, "reread") /\ pc[c] = "reread"
  BY DEF Inv, CallOK, Reread
<1>2. my' = [my EXCEPT ![c] = n] /\ pc' = [pc EXCEPT ![c] = step]
      /\ UNCHANGED <<authority, records, ledger, calls, changes, aborts>>
  BY <1>x, <1>n, <1>s DEF Reread, Goto
<1>3. next \in DOMAIN InputOrder /\ changed \in SUBSET Inputs
  BY <1>x, WorkflowAssumption DEF LocalsType, Inputs
<1>4. /\ n \in LocalsType /\ n.op = m.op /\ n.effect = m.effect /\ n.decision = m.decision
      /\ n.held = m.held /\ n.phase = m.phase /\ n.late = m.late
  BY <1>3, <1>n DEF LocalsType
<1>5. CallInv(n, step)
  BY <1>s, <1>1, <1>4 DEF CallInv
<1> QED
  BY <1>s, <1>1, <1>2, <1>4, <1>5, LocalStep DEF Steps

LEMMA LoadPriorSafe == ASSUME Inv, NEW c \in Callers, LoadPriorAttempts(c) PROVE Inv'
<1> PICK m \in LocalsType : m = my[c]
  BY DEF Inv, TypeOK, LoadPriorAttempts
<1> PICK prior \in BOOLEAN : prior = (attempts[m.effect] # <<>>)
  OBVIOUS
<1> PICK n : n = [m EXCEPT !.prior = prior]
  OBVIOUS
<1>1. CallInv(m, "prior") /\ pc[c] = "prior"
  BY DEF Inv, CallOK, LoadPriorAttempts
<1>2. my' = [my EXCEPT ![c] = n] /\ pc' = [pc EXCEPT ![c] = "observe"]
      /\ UNCHANGED <<authority, records, ledger, calls, changes, aborts>>
  BY DEF LoadPriorAttempts, Goto
<1>3. /\ n \in LocalsType /\ n.op = m.op /\ n.effect = m.effect /\ n.decision = m.decision
      /\ n.held = m.held /\ n.phase = m.phase /\ n.late = m.late /\ n.prior = prior
  BY DEF LocalsType
<1>4. m.late => prior
  <2>1. 1 \notin DOMAIN <<>>
    OBVIOUS
  <2>2. m.late => 1 \in DOMAIN attempts[m.effect]
    BY <1>1 DEF CallInv
  <2> QED
    BY <2>1, <2>2
<1>5. CallInv(n, "observe")
  BY <1>1, <1>3, <1>4 DEF CallInv
<1> QED
  BY <1>1, <1>2, <1>3, <1>5, LocalStep DEF Steps

LEMMA ObserveSafe == ASSUME Inv, NEW c \in Callers, Observe(c) PROVE Inv'
<1> PICK m \in LocalsType : m = my[c]
  BY DEF Inv, TypeOK, Observe
<1> PICK accepted \in BOOLEAN :
        /\ my' = [my EXCEPT ![c].observed = ledger[my[c].effect], ![c].accepted = accepted]
        /\ pc' = [pc EXCEPT ![c] = IF accepted THEN "observation" ELSE "reconciliation"]
  BY DEF Observe, Goto
<1> PICK seen, step : /\ seen = ledger[m.effect]
                      /\ step = IF accepted THEN "observation" ELSE "reconciliation"
  OBVIOUS
<1> PICK n : n = [m EXCEPT !.observed = seen, !.accepted = accepted]
  OBVIOUS
<1>1. /\ CallInv(m, "observe") /\ pc[c] = "observe"
      /\ my' = [my EXCEPT ![c] = n] /\ pc' = [pc EXCEPT ![c] = step]
      /\ UNCHANGED <<authority, records, ledger, calls, changes, aborts>>
  BY DEF Inv, CallOK, Observe
<1>2. seen \in {"none", "absent"} \cup Ledger!Kinds /\ seen # "none"
  BY DEF Inv, TypeOK, Ledger!LedgerTypeOK, Ledger!Kinds, LocalsType
<1>3. /\ n \in LocalsType /\ n.op = m.op /\ n.effect = m.effect /\ n.decision = m.decision
      /\ n.held = m.held /\ n.phase = m.phase /\ n.late = m.late /\ n.prior = m.prior
      /\ n.observed = seen /\ n.accepted = accepted
  BY <1>2 DEF LocalsType
<1>4. CallInv(n, step)
  BY <1>1, <1>2, <1>3 DEF CallInv
<1> QED
  BY <1>1, <1>3, <1>4, LocalStep DEF Steps

------------------------------------------------------------------------------
(* Calls that begin, are cut short, or see the institution act. *)

LEMMA BeginSafe ==
    ASSUME Inv, NEW c \in Callers, NEW n \in LocalsType, n.decision =< Len(decisions),
           NEW step \in Steps \ {"idle"}, CallInv(n, step), Begin(c, n, step)
    PROVE  Inv'
<1>1. /\ UNCHANGED <<context, status, records, ledger, changes, aborts>>
      /\ calls' = [calls EXCEPT ![c] = @ + 1] /\ calls[c] < MaxCalls
      /\ my' = [my EXCEPT ![c] = n] /\ pc' = [pc EXCEPT ![c] = step]
  BY DEF Begin, authority, Goto
<1>2. Grown
  BY <1>1, NothingGrows DEF Inv
<1>3. calls' \in [Callers -> 0..MaxCalls]
  BY <1>1, WorkflowAssumption DEF Inv, TypeOK
<1>4. TypeOK'
  BY <1>1, <1>3 DEF records, Inv, TypeOK, Ledger!LedgerTypeOK
<1>5. ReconciliationBacked' /\ \A e \in Effects : ledger'[e] # "absent" => Announced(e)'
  BY <1>1 DEF records, Inv, ReconciliationBacked, Announced, Authorizes, Dispatches
<1>6. \A b \in Callers \ {c} : CallOK(b)'
  BY <1>1, <1>2, OthersStay DEF Inv, TypeOK
<1>7. my'[c] = n /\ pc'[c] = step
  BY <1>1 DEF Inv, TypeOK
<1>8. CallInv(n, step)'
  BY <1>1, <1>2, CallStays
<1>9. CallOK(c)'
  BY <1>7, <1>8 DEF CallOK, CallInv, Seen
<1> QED
  BY <1>4, <1>5, <1>6, <1>9 DEF Inv

\* The local variables a call starts with.
LEMMA LocalsTyped ==
    ASSUME Inv, NEW c \in Callers, calls[c] < MaxCalls,
           NEW op \in {"decide", "execute", "reconcile"}, NEW p \in Proposals, NEW e \in Effects,
           NEW d \in 0..Len(decisions)
    PROVE  /\ Locals(c, op, p, e, d) \in LocalsType
           /\ Locals(c, op, p, e, d).late => 1 \in DOMAIN attempts[e]
<1>1. <<c, calls[c] + 1>> \in CallIds
  BY WorkflowAssumption DEF Inv, TypeOK, CallIds
<1>2. 1 \in DOMAIN InputOrder
  <2>1. DOMAIN InputOrder = 1..Len(InputOrder) /\ Len(InputOrder) \in Nat
    BY WorkflowAssumption
  <2>2. \E k \in DOMAIN InputOrder : InputOrder[k] = "grant"
    BY WorkflowAssumption DEF Inputs
  <2> QED
    BY <2>1, <2>2
<1>3. context \in Bindings /\ d \in Nat
  BY DEF Inv, TypeOK
<1>4. Holding(decisions[d].binding, status) \subseteq Inputs
  BY DEF Holding
<1>5. Locals(c, op, p, e, d) \in LocalsType
  BY <1>1, <1>2, <1>3, <1>4 DEF Locals, LocalsType, AttemptStatuses, Ledger!Kinds
<1>6. (attempts[e] # <<>>) => 1 \in DOMAIN attempts[e]
  BY DEF Inv, TypeOK
<1> QED
  BY <1>5, <1>6 DEF Locals

LEMMA DecideSafe == ASSUME Inv, NEW c \in Callers, NEW p \in Proposals, Decide(c, p) PROVE Inv'
<1> PICK e : e = EffectId(p, context)
  OBVIOUS
<1> PICK n : n = Locals(c, "decide", p, e, 0)
  OBVIOUS
<1>1. Begin(c, n, "context") /\ calls[c] < MaxCalls
  BY DEF Decide, Begin
<1>2. e \in Effects
  BY WorkflowAssumption DEF EffectId, Effects, Inv, TypeOK, Bindings
<1>3. 0 \in 0..Len(decisions) /\ 0 =< Len(decisions)
  BY DEF Inv, TypeOK
<1>4. n \in LocalsType /\ (n.late => 1 \in DOMAIN attempts[e])
  BY <1>1, <1>2, <1>3, LocalsTyped
<1>5. n.op = "decide" /\ n.effect = e /\ n.next = 1 /\ n.decision = 0
  BY DEF Locals
<1>6. CallInv(n, "context")
  BY <1>4, <1>5 DEF CallInv
<1> QED
  BY <1>1, <1>3, <1>4, <1>5, <1>6, BeginSafe DEF Steps

LEMMA ExecuteSafe ==
    ASSUME Inv, NEW c \in Callers, NEW p \in Proposals, NEW d \in DOMAIN decisions,
           NEW kind \in Ledger!Kinds, Execute(c, p, d, kind)
    PROVE  Inv'
<1> PICK e : e = decisions[d].effect
  OBVIOUS
<1> PICK m : m = Locals(c, "execute", p, e, d)
  OBVIOUS
<1> PICK n : n = [m EXCEPT !.kind = kind]
  OBVIOUS
<1>1. Begin(c, n, "context") /\ calls[c] < MaxCalls /\ decisions[d].result = "authorized"
  BY DEF Execute, Begin
<1>2. e \in Effects /\ d \in 0..Len(decisions) /\ d # 0 /\ d =< Len(decisions)
  <2> DEFINE D == [proposal : Proposals, effect : Effects,
                   result : {"authorized", "hold"}, binding : Bindings]
  <2>1. decisions \in Seq(D)
    BY DEF Inv, TypeOK
  <2>2. \A x \in D : x.effect \in Effects
    OBVIOUS
  <2> HIDE DEF D
  <2>3. decisions[d] \in D /\ d \in 1..Len(decisions) /\ Len(decisions) \in Nat
    BY <2>1
  <2> QED
    BY <2>2, <2>3
<1>3. m \in LocalsType /\ (m.late => 1 \in DOMAIN attempts[e])
  BY <1>1, <1>2, LocalsTyped
<1>4. /\ m.op = "execute" /\ m.effect = e /\ m.next = 1 /\ m.decision = d
      /\ m.held = Holding(decisions[d].binding, status)
  BY <1>2 DEF Locals
<1>5. /\ n \in LocalsType /\ n.op = m.op /\ n.effect = e /\ n.next = 1 /\ n.decision = d
      /\ n.held = m.held /\ n.late = m.late
  BY <1>3, <1>4 DEF LocalsType
<1>6. CallInv(n, "context")
  BY <1>1, <1>3, <1>4, <1>5, <1>2 DEF CallInv, Authorizes
<1> QED
  BY <1>1, <1>2, <1>5, <1>6, BeginSafe DEF Steps

LEMMA ReconcileSafe == ASSUME Inv, NEW c \in Callers, NEW e \in Effects, Reconcile(c, e) PROVE Inv'
<1> PICK p : p = e[1]
  OBVIOUS
<1> PICK m : m = Locals(c, "reconcile", p, e, 0)
  OBVIOUS
<1> PICK n : n = [m EXCEPT !.phase = "only"]
  OBVIOUS
<1>1. Begin(c, n, "observe") /\ calls[c] < MaxCalls
  BY DEF Reconcile, Begin
<1>2. p \in Proposals /\ 0 \in 0..Len(decisions) /\ 0 =< Len(decisions)
  BY DEF Effects, Inv, TypeOK
<1>3. m \in LocalsType /\ (m.late => 1 \in DOMAIN attempts[e])
  BY <1>1, <1>2, LocalsTyped
<1>4. m.op = "reconcile" /\ m.effect = e /\ m.decision = 0
  BY DEF Locals
<1>5. /\ n \in LocalsType /\ n.op = m.op /\ n.effect = e /\ n.decision = 0
      /\ n.late = m.late /\ n.phase = "only"
  BY <1>3, <1>4 DEF LocalsType
<1>6. CallInv(n, "observe")
  BY <1>3, <1>4, <1>5 DEF CallInv
<1> QED
  BY <1>1, <1>2, <1>5, <1>6, BeginSafe DEF Steps

LEMMA ChangeSafe == ASSUME Inv, Change PROVE Inv'
<1>0. UNCHANGED <<records, ledger, pc, calls, aborts>> /\ changes' \in 0..MaxChanges
  BY WorkflowAssumption DEF Change, Inv, TypeOK
<1>1. ASSUME NEW i \in Inputs, NEW v \in Versions, context' = [context EXCEPT ![i] = v],
             UNCHANGED <<status, my>>
      PROVE  Inv'
  <2>1. /\ UNCHANGED <<status, my, records, ledger, pc, calls, aborts>>
        /\ context' \in Bindings /\ changes' \in 0..MaxChanges
    BY <1>0, <1>1 DEF Inv, TypeOK, Bindings
  <2>2. TypeOK'
    BY <2>1 DEF records, Inv, TypeOK, Ledger!LedgerTypeOK
  <2> QED
    BY <2>1, <2>2, UntouchedSafe
<1>2. ASSUME NEW i \in Inputs, NEW s \in Statuses,
             status' = [status EXCEPT ![i] = s],
             my' = [c \in Callers |->
                        IF pc[c] = "idle" \/ my[c].decision = 0 THEN my[c]
                        ELSE [my[c] EXCEPT !.held = @ \cup
                                Holding(decisions[my[c].decision].binding, status')]],
             UNCHANGED context
      PROVE  Inv'
  <2>1. /\ UNCHANGED <<context, records, ledger, pc, calls, aborts>>
        /\ status' \in [Inputs -> Statuses] /\ changes' \in 0..MaxChanges
    BY <1>0, <1>2 DEF Inv, TypeOK
  <2>2. ASSUME NEW c \in Callers, pc[c] # "idle"
        PROVE  /\ my'[c] \in LocalsType /\ my'[c].decision =< Len(decisions)
               /\ CallInv(my[c], pc[c])'
    <3> PICK m \in LocalsType, step \in Steps : m = my[c] /\ step = pc[c] /\ m.decision =< Len(decisions)
      BY <2>2 DEF Inv, TypeOK
    <3> PICK held : held = m.held \cup Holding(decisions[m.decision].binding, status')
      OBVIOUS
    <3> PICK n : n = IF m.decision = 0 THEN m ELSE [m EXCEPT !.held = held]
      OBVIOUS
    <3>1. my'[c] = n /\ pc'[c] = step
      BY <1>2, <2>1, <2>2
    <3>2. held \in SUBSET Inputs
      BY DEF Holding, LocalsType
    <3>3. /\ n \in LocalsType /\ n.op = m.op /\ n.decision = m.decision /\ n.effect = m.effect
          /\ n.next = m.next /\ n.bad = m.bad /\ n.read = m.read /\ n.observed = m.observed
          /\ n.accepted = m.accepted /\ n.late = m.late /\ n.phase = m.phase /\ n.prior = m.prior
          /\ n.held = IF m.decision = 0 THEN m.held ELSE held
      BY <3>2 DEF LocalsType
    <3>4. CallInv(m, step)
      BY <2>2 DEF Inv, CallOK
    <3>5. m.held \subseteq n.held /\ n.held \subseteq Inputs
      BY <3>2, <3>3 DEF LocalsType
    <3>6. m.op = "execute" => /\ Holding(decisions[m.decision].binding, status') \subseteq n.held
                              /\ m.decision # 0
      BY <3>3, <3>4 DEF CallInv
    <3>7. Seen(m, step) => Seen(n, step)
      BY <3>3, <3>5 DEF Seen
    <3>8. CallInv(n, step)'
      <4>1. /\ decisions' = decisions /\ attempts' = attempts /\ ledger' = ledger
            /\ observations' = observations
        BY <2>1 DEF records
      <4>2. Announced(n.effect) => Announced(n.effect)'
        BY <4>1 DEF Announced, Authorizes, Dispatches
      <4>3. Authorizes(n.decision, n.effect) => Authorizes(n.decision, n.effect)'
        BY <4>1 DEF Authorizes
      <4>4. Seen(n, step) => Seen(n, step)'
        BY <4>1 DEF Seen
      <4>5. Holding(decisions[n.decision].binding, status)' = Holding(decisions[n.decision].binding, status')
        BY <4>1 DEF Holding
      <4> QED
        BY <3>3, <3>4, <3>5, <3>6, <3>7, <4>1, <4>2, <4>3, <4>4, <4>5 DEF CallInv
    <3>9. CallInv(my[c], pc[c])'
      BY <3>1, <3>8 DEF CallInv, Seen
    <3> QED
      BY <3>1, <3>3, <3>9
  <2>3. my' \in [Callers -> LocalsType \cup {None}]
    <3>1. \A c \in Callers : my'[c] \in LocalsType \cup {None}
      BY <1>2, <2>2 DEF Inv, TypeOK
    <3> QED
      BY <1>2, <3>1
  <2>4. TypeOK'
    <3>1. \A c \in Callers : pc[c] = "idle" => my'[c] = None
      BY <1>2 DEF Inv, TypeOK
    <3> QED
      BY <1>2, <2>1, <2>2, <2>3, <3>1 DEF records, Inv, TypeOK, Ledger!LedgerTypeOK
  <2>5. \A c \in Callers : CallOK(c)'
    BY <2>1, <2>2 DEF CallOK
  <2> QED
    BY <2>1, <2>4, <2>5 DEF records, Inv, ReconciliationBacked, Announced, Authorizes, Dispatches
<1> QED
  BY <1>1, <1>2 DEF Change

------------------------------------------------------------------------------
(* Steps that append to the record or reach the destination. *)

RecordTypes ==
    /\ decisions \in Seq([proposal : Proposals, effect : Effects,
                          result : {"authorized", "hold"}, binding : Bindings])
    /\ refusals \subseteq [decision : DOMAIN decisions, reasons : SUBSET Inputs,
                           changed : SUBSET Inputs]
    /\ attempts \in [Effects -> Seq([id : CallIds, decision : DOMAIN decisions,
                                     status : AttemptStatuses])]
    /\ observations \subseteq Effects \X ({"absent"} \cup Ledger!Kinds)
    /\ reconciliations \subseteq Effects \X {"applied", "observed_absent", "hold"}
    /\ Ledger!LedgerTypeOK

EffectsInv == (\A e \in Effects : ledger[e] # "absent" => Announced(e)) /\ ReconciliationBacked

\* The call returns, or goes on with the local variables n.
LEMMA RecordStep ==
    ASSUME Inv, NEW c \in Callers, pc[c] # "idle", UNCHANGED <<authority, calls, changes>>,
           aborts' \in 0..MaxAborts, RecordTypes', Grown, EffectsInv',
           NEW n, NEW step \in Steps,
           my' = [my EXCEPT ![c] = n], pc' = [pc EXCEPT ![c] = step],
           IF step = "idle" THEN n = None
           ELSE n \in LocalsType /\ n.decision =< Len(decisions) /\ CallInv(n, step)'
    PROVE  Inv'
<1>1. UNCHANGED <<context, status, calls, changes>>
  BY DEF authority
<1>2. my'[c] = n /\ pc'[c] = step
  BY DEF Inv, TypeOK
<1>3. TypeOK'
  <2>1. Len(decisions) \in Nat /\ Len(decisions') \in Nat /\ Len(decisions) =< Len(decisions')
    BY DEF Inv, TypeOK, RecordTypes, Grown
  <2>2. ASSUME NEW b \in Callers, pc'[b] # "idle"
        PROVE  my'[b] \in LocalsType /\ my'[b].decision =< Len(decisions')
    <3>1. my'[b] \in LocalsType /\ my'[b].decision =< Len(decisions)
      BY <1>2, <2>2 DEF Inv, TypeOK
    <3>2. my'[b].decision \in Nat
      BY <3>1 DEF LocalsType
    <3> QED
      BY <2>1, <3>1, <3>2
  <2>3. \A b \in Callers : pc'[b] = "idle" => my'[b] = None
    BY <1>2 DEF Inv, TypeOK
  <2>4. my' \in [Callers -> LocalsType \cup {None}] /\ pc' \in [Callers -> Steps]
    BY DEF Inv, TypeOK
  <2>5. /\ context' \in Bindings /\ status' \in [Inputs -> Statuses]
        /\ calls' \in [Callers -> 0..MaxCalls] /\ changes' \in 0..MaxChanges
    BY <1>1 DEF Inv, TypeOK
  <2> QED
    BY <2>2, <2>3, <2>4, <2>5 DEF RecordTypes, TypeOK
<1>4. \A b \in Callers \ {c} : CallOK(b)'
  BY <1>1, OthersStay DEF Inv, TypeOK
<1>5. CallOK(c)'
  BY <1>2 DEF CallOK, CallInv, Seen
<1> QED
  BY <1>3, <1>4, <1>5 DEF EffectsInv, Inv

LEMMA TypesHold == Inv => RecordTypes /\ EffectsInv
BY DEF Inv, TypeOK, RecordTypes, EffectsInv

LEMMA AbortSafe == ASSUME Inv, NEW c \in Callers, Abort(c) PROVE Inv'
<1>1. /\ pc[c] # "idle" /\ my' = [my EXCEPT ![c] = None] /\ pc' = [pc EXCEPT ![c] = "idle"]
      /\ UNCHANGED <<authority, calls, changes>> /\ UNCHANGED <<records, ledger>>
  BY DEF Abort, Return, Goto
<1>2. aborts' \in 0..MaxAborts
  BY WorkflowAssumption DEF Abort, Inv, TypeOK
<1>3. Grown
  BY <1>1, NothingGrows DEF Inv
<1>4. RecordTypes'
  BY <1>1, TypesHold DEF records, RecordTypes, Ledger!LedgerTypeOK
<1>5. EffectsInv'
  BY <1>1, TypesHold DEF records, EffectsInv, ReconciliationBacked, Announced, Authorizes, Dispatches
<1> QED
  BY <1>1, <1>2, <1>3, <1>4, <1>5, RecordStep DEF Steps

LEMMA RecordRefusalSafe == ASSUME Inv, NEW c \in Callers, RecordRefusal(c) PROVE Inv'
<1> PICK m \in LocalsType : m = my[c] /\ CallInv(m, "refuse")
  BY DEF Inv, TypeOK, RecordRefusal, CallOK
<1> PICK new : new = [decision |-> m.decision, reasons |-> m.bad, changed |-> m.changed]
  OBVIOUS
<1>1. /\ pc[c] # "idle" /\ my' = [my EXCEPT ![c] = None] /\ pc' = [pc EXCEPT ![c] = "idle"]
      /\ UNCHANGED <<authority, calls, changes>>
      /\ UNCHANGED <<decisions, attempts, observations, reconciliations, ledger, aborts>>
      /\ refusals' = refusals \cup {new}
  BY DEF RecordRefusal, Return, Goto
<1>2. aborts' \in 0..MaxAborts
  BY <1>1 DEF Inv, TypeOK
<1>3. Grown
  BY <1>1 DEF Grown, Keeps, Inv, TypeOK
<1>4. RecordTypes'
  <2>1. m.op = "execute"
    BY DEF CallInv, LocalsType
  <2>2. m.decision \in DOMAIN decisions /\ m.bad \subseteq Inputs /\ m.changed \subseteq Inputs
    BY <2>1 DEF CallInv, Authorizes, LocalsType
  <2>3. new \in [decision : DOMAIN decisions, reasons : SUBSET Inputs, changed : SUBSET Inputs]
    BY <2>2
  <2> QED
    BY <1>1, <2>3, TypesHold DEF RecordTypes, Ledger!LedgerTypeOK
<1>5. EffectsInv'
  BY <1>1, TypesHold DEF EffectsInv, ReconciliationBacked, Announced, Authorizes, Dispatches
<1> QED
  BY <1>1, <1>2, <1>3, <1>4, <1>5, RecordStep DEF Steps

LEMMA RecordDecisionSafe == ASSUME Inv, NEW c \in Callers, RecordDecision(c) PROVE Inv'
<1> PICK m \in LocalsType : m = my[c]
  BY DEF Inv, TypeOK, RecordDecision
<1> PICK effect, result : /\ effect = EffectId(m.proposal, m.read)
                          /\ result = IF m.bad = {} THEN "authorized" ELSE "hold"
  OBVIOUS
<1> PICK new : new = [proposal |-> m.proposal, effect |-> effect, result |-> result,
                      binding |-> m.read]
  OBVIOUS
<1>1. /\ pc[c] # "idle" /\ my' = [my EXCEPT ![c] = None] /\ pc' = [pc EXCEPT ![c] = "idle"]
      /\ UNCHANGED <<authority, calls, changes>>
      /\ UNCHANGED <<refusals, attempts, observations, reconciliations, ledger, aborts>>
      /\ decisions' = Append(decisions, new)
  BY DEF RecordDecision, Return, Goto
<1>2. aborts' \in 0..MaxAborts
  BY <1>1 DEF Inv, TypeOK
<1> DEFINE D == [proposal : Proposals, effect : Effects,
                 result : {"authorized", "hold"}, binding : Bindings]
           A(ds) == [id : CallIds, decision : ds, status : AttemptStatuses]
<1>3. new \in D
  BY WorkflowAssumption DEF LocalsType, EffectId, Effects, Bindings
<1>4. decisions \in Seq(D)
  BY DEF Inv, TypeOK
<1>5. /\ decisions' \in Seq(D) /\ Keeps(decisions, decisions') /\ Len(decisions) =< Len(decisions')
  <2> HIDE DEF D
  <2> QED
    BY <1>1, <1>3, <1>4 DEF Keeps
<1>6. Grown
  BY <1>1, <1>5 DEF Grown, Keeps
<1>7. RecordTypes'
  <2>1. DOMAIN decisions \subseteq DOMAIN decisions'
    BY <1>5 DEF Keeps
  <2>2. A(DOMAIN decisions) \subseteq A(DOMAIN decisions')
    BY <2>1
  <2>3. Seq(A(DOMAIN decisions)) \subseteq Seq(A(DOMAIN decisions'))
    <3> HIDE DEF A
    <3> QED
      BY <2>2
  <2>4. attempts \in [Effects -> Seq(A(DOMAIN decisions))]
    BY DEF Inv, TypeOK
  <2>5. attempts' \in [Effects -> Seq(A(DOMAIN decisions'))]
    <3> HIDE DEF A
    <3> QED
      BY <1>1, <2>3, <2>4
  <2>6. refusals' \subseteq [decision : DOMAIN decisions', reasons : SUBSET Inputs,
                             changed : SUBSET Inputs]
    BY <1>1, <2>1 DEF Inv, TypeOK
  <2> QED
    BY <1>1, <1>5, <2>5, <2>6, TypesHold DEF RecordTypes, Ledger!LedgerTypeOK
<1>8. EffectsInv'
  <2>1. \A e \in Effects : ledger'[e] # "absent" => Announced(e)'
    BY <1>1, <1>6, AnnouncedStays, TypesHold DEF EffectsInv
  <2> QED
    BY <1>1, <2>1, TypesHold DEF EffectsInv, ReconciliationBacked
<1> QED
  BY <1>1, <1>2, <1>6, <1>7, <1>8, RecordStep DEF Steps

LEMMA RecordObservationSafe ==
    ASSUME Inv, NEW c \in Callers, RecordObservation(c) PROVE Inv'
<1> PICK m \in LocalsType : m = my[c] /\ CallInv(m, "observation") /\ m.decision =< Len(decisions)
  BY DEF Inv, TypeOK, RecordObservation, CallOK
<1>1. /\ pc[c] # "idle" /\ my' = [my EXCEPT ![c] = m] /\ pc' = [pc EXCEPT ![c] = "reconciliation"]
      /\ UNCHANGED <<authority, calls, changes>>
      /\ UNCHANGED <<decisions, refusals, attempts, reconciliations, ledger, aborts>>
      /\ observations' = observations \cup {<<m.effect, m.observed>>}
  BY DEF RecordObservation, Goto, Inv, TypeOK
<1>2. aborts' \in 0..MaxAborts
  BY <1>1 DEF Inv, TypeOK
<1>3. Grown
  BY <1>1 DEF Grown, Keeps, Inv, TypeOK
<1>4. RecordTypes'
  <2>1. m.observed \in {"absent"} \cup Ledger!Kinds /\ m.effect \in Effects
    BY DEF CallInv, LocalsType
  <2>2. observations' \subseteq Effects \X ({"absent"} \cup Ledger!Kinds)
    BY <1>1, <2>1, TypesHold DEF RecordTypes
  <2> QED
    BY <1>1, <2>2, TypesHold DEF RecordTypes, Ledger!LedgerTypeOK
<1>5. EffectsInv'
  BY <1>1, TypesHold DEF EffectsInv, ReconciliationBacked, Announced, Authorizes, Dispatches
<1>6. CallInv(m, "reconciliation")'
  <2>1. CallInv(m, "observation")'
    BY <1>1, <1>3, CallStays DEF authority
  <2> QED
    BY <1>1, <2>1 DEF CallInv
<1> QED
  BY <1>1, <1>2, <1>3, <1>4, <1>5, <1>6, RecordStep DEF Steps

LEMMA RecordReconciliationSafe ==
    ASSUME Inv, NEW c \in Callers, RecordReconciliation(c) PROVE Inv'
<1> PICK m \in LocalsType :
        m = my[c] /\ CallInv(m, "reconciliation") /\ m.decision =< Len(decisions)
  BY DEF Inv, TypeOK, RecordReconciliation, CallOK
<1> PICK r : r = Reconciled(c)
  OBVIOUS
<1>1. /\ pc[c] = "reconciliation" /\ UNCHANGED <<authority, calls, changes>>
      /\ UNCHANGED <<decisions, refusals, attempts, observations, ledger, aborts>>
      /\ reconciliations' = reconciliations \cup {<<m.effect, r>>}
  BY DEF RecordReconciliation
<1>2. /\ r \in {"applied", "observed_absent", "hold"}
      /\ r = "applied" => m.accepted /\ m.observed = "applied"
      /\ m.effect \in Effects
  BY DEF Reconciled, LocalsType
<1>3. aborts' \in 0..MaxAborts
  BY <1>1 DEF Inv, TypeOK
<1>4. Grown
  BY <1>1 DEF Grown, Keeps, Inv, TypeOK
<1>5. RecordTypes'
  <2>1. reconciliations' \subseteq Effects \X {"applied", "observed_absent", "hold"}
    BY <1>1, <1>2, TypesHold DEF RecordTypes
  <2> QED
    BY <1>1, <2>1, TypesHold DEF RecordTypes, Ledger!LedgerTypeOK
<1>6. EffectsInv'
  <2>1. r = "applied" => <<m.effect, "applied">> \in observations /\ ledger[m.effect] = "applied"
    BY <1>2 DEF CallInv
  <2>2. ReconciliationBacked'
    <3> SUFFICES ASSUME NEW e \in Effects, <<e, "applied">> \in reconciliations'
                 PROVE  <<e, "applied">> \in observations /\ ledger[e] = "applied"
      BY <1>1 DEF ReconciliationBacked
    <3>1. <<e, "applied">> \in reconciliations \/ (e = m.effect /\ r = "applied")
      BY <1>1
    <3> QED
      BY <2>1, <3>1, TypesHold DEF EffectsInv, ReconciliationBacked
  <2> QED
    BY <1>1, <2>2, TypesHold DEF EffectsInv, Announced, Authorizes, Dispatches
<1>7. CallInv(m, "reconciliation")'
  BY <1>1, <1>4, CallStays DEF authority
<1>8. CASE m.phase = "pre" /\ my' = [my EXCEPT ![c].outcome =
                      IF my[c].observed = "applied" THEN "acknowledged" ELSE "partial"]
           /\ Goto(c, "existing")
  <2> PICK o \in AttemptStatuses : o = IF m.observed = "applied" THEN "acknowledged" ELSE "partial"
    BY DEF AttemptStatuses
  <2> PICK n : n = [m EXCEPT !.outcome = o]
    OBVIOUS
  <2>1. my' = [my EXCEPT ![c] = n] /\ pc' = [pc EXCEPT ![c] = "existing"]
    BY <1>8 DEF Goto
  <2>2. /\ n \in LocalsType /\ n.op = m.op /\ n.effect = m.effect /\ n.decision = m.decision
        /\ n.held = m.held /\ n.late = m.late /\ n.phase = m.phase
    BY DEF LocalsType
  <2>3. CallInv(n, "existing")'
    BY <1>7, <1>8, <2>2 DEF CallInv
  <2> QED
    BY <1>1, <1>3, <1>4, <1>5, <1>6, <2>1, <2>2, <2>3, RecordStep DEF Steps
<1>9. CASE m.phase = "pre" /\ ~m.prior /\ Goto(c, "attempt") /\ UNCHANGED my
  <2>1. my' = [my EXCEPT ![c] = m] /\ pc' = [pc EXCEPT ![c] = "attempt"]
    BY <1>9 DEF Goto, Inv, TypeOK
  <2>2. CallInv(m, "attempt")'
    BY <1>7, <1>9 DEF CallInv
  <2> QED
    BY <1>1, <1>3, <1>4, <1>5, <1>6, <2>1, <2>2, RecordStep DEF Steps
<1>10. CASE Return(c)
  <2>1. my' = [my EXCEPT ![c] = None] /\ pc' = [pc EXCEPT ![c] = "idle"]
    BY <1>10 DEF Return, Goto
  <2> QED
    BY <1>1, <1>3, <1>4, <1>5, <1>6, <2>1, RecordStep DEF Steps
<1> QED
  BY <1>8, <1>9, <1>10 DEF RecordReconciliation

Entry(m, outcome) ==
    \E k \in DOMAIN attempts[m.effect] :
        attempts[m.effect][k].status = outcome /\ attempts[m.effect][k].decision = m.decision

\* An entry appended for the effect of an execute.
LEMMA AttemptAdded ==
    ASSUME Inv, NEW c \in Callers, NEW m \in LocalsType, m = my[c], m.op = "execute",
           NEW step, CallInv(m, step), NEW outcome \in AttemptStatuses, AttemptRecorded(c, outcome),
           UNCHANGED <<decisions, refusals, observations, reconciliations, ledger>>
    PROVE  Grown /\ RecordTypes' /\ EffectsInv' /\ Entry(m, outcome)'
<1> DEFINE A == [id : CallIds, decision : DOMAIN decisions, status : AttemptStatuses]
<1> PICK e, new : e = m.effect /\ new = [id |-> m.id, decision |-> m.decision, status |-> outcome]
  OBVIOUS
<1>1. attempts' = [attempts EXCEPT ![e] = Append(@, new)]
  BY DEF AttemptRecorded
<1>2. e \in Effects /\ m.decision \in DOMAIN decisions
  BY DEF LocalsType, CallInv, Authorizes
<1>3. new \in A /\ new.status = outcome /\ new.decision = m.decision
  BY <1>2 DEF LocalsType
<1>4. attempts \in [Effects -> Seq(A)]
  BY DEF Inv, TypeOK
<1> HIDE DEF A
<1>5. /\ attempts' \in [Effects -> Seq(A)]
      /\ \A d \in Effects : Keeps(attempts[d], attempts'[d])
      /\ Len(attempts[e]) + 1 \in DOMAIN attempts'[e]
      /\ attempts'[e][Len(attempts[e]) + 1] = new
  BY <1>1, <1>2, <1>3, <1>4 DEF Keeps
<1>6. Grown
  BY <1>5 DEF Grown, Keeps, Inv, TypeOK
<1>7. RecordTypes'
  BY <1>5, TypesHold DEF RecordTypes, Ledger!LedgerTypeOK, A
<1>8. EffectsInv'
  <2>1. \A d \in Effects : ledger'[d] # "absent" => Announced(d)'
    BY <1>6, AnnouncedStays, TypesHold DEF EffectsInv
  <2> QED
    BY <2>1, TypesHold DEF EffectsInv, ReconciliationBacked
<1>9. Entry(m, outcome)'
  <2> PICK k : k = Len(attempts[e]) + 1
    OBVIOUS
  <2>1. k \in DOMAIN attempts'[m.effect] /\ attempts'[m.effect][k] = new
    BY <1>5
  <2> QED
    BY <1>3, <2>1 DEF Entry
<1> QED
  BY <1>6, <1>7, <1>8, <1>9

LEMMA RecordExistingSafe == ASSUME Inv, NEW c \in Callers, RecordExisting(c) PROVE Inv'
<1> PICK m \in LocalsType :
        m = my[c] /\ CallInv(m, "existing") /\ m.decision =< Len(decisions)
  BY DEF Inv, TypeOK, RecordExisting, CallOK
<1>0. m.op = "execute"
  BY DEF CallInv, LocalsType
<1>1. /\ pc[c] # "idle" /\ my' = [my EXCEPT ![c] = None] /\ pc' = [pc EXCEPT ![c] = "idle"]
      /\ UNCHANGED <<authority, calls, changes>>
      /\ UNCHANGED <<decisions, refusals, observations, reconciliations, ledger>>
      /\ aborts' = aborts
  BY DEF RecordExisting, Return, Goto
<1>2. m.outcome \in AttemptStatuses /\ AttemptRecorded(c, m.outcome) /\ aborts' \in 0..MaxAborts
  BY <1>1 DEF RecordExisting, LocalsType, Inv, TypeOK
<1>3. Grown /\ RecordTypes' /\ EffectsInv'
  BY <1>0, <1>1, <1>2, AttemptAdded
<1> QED
  BY <1>1, <1>2, <1>3, RecordStep DEF Steps

LEMMA RecordAttemptSafe == ASSUME Inv, NEW c \in Callers, RecordAttempt(c) PROVE Inv'
<1> PICK m \in LocalsType :
        m = my[c] /\ CallInv(m, "attempt") /\ m.decision =< Len(decisions)
  BY DEF Inv, TypeOK, RecordAttempt, CallOK
<1>0. m.op = "execute"
  BY DEF CallInv, LocalsType
<1>1. /\ pc[c] # "idle" /\ my' = [my EXCEPT ![c] = m] /\ pc' = [pc EXCEPT ![c] = "apply"]
      /\ UNCHANGED <<authority, calls, changes>>
      /\ UNCHANGED <<decisions, refusals, observations, reconciliations, ledger>>
      /\ aborts' = aborts
  BY DEF RecordAttempt, Goto, Inv, TypeOK
<1>2. "attempted" \in AttemptStatuses /\ AttemptRecorded(c, "attempted") /\ aborts' \in 0..MaxAborts
  BY <1>1 DEF RecordAttempt, AttemptStatuses, Inv, TypeOK
<1>3. Grown /\ RecordTypes' /\ EffectsInv' /\ Entry(m, "attempted")'
  BY <1>0, <1>1, <1>2, AttemptAdded
<1>4. CallInv(m, "attempt")'
  BY <1>1, <1>3, CallStays DEF authority
<1>5. Announced(m.effect)'
  BY ZenonT(60), <1>0, <1>3, <1>4 DEF CallInv, Announced, Dispatches, Authorizes, Entry
<1>6. CallInv(m, "apply")'
  BY <1>0, <1>4, <1>5 DEF CallInv
<1> QED
  BY <1>1, <1>2, <1>3, <1>6, RecordStep DEF Steps

LEMMA RecordOutcomeSafe == ASSUME Inv, NEW c \in Callers, RecordOutcome(c) PROVE Inv'
<1> PICK m \in LocalsType :
        m = my[c] /\ CallInv(m, "outcome") /\ m.decision =< Len(decisions)
  BY DEF Inv, TypeOK, RecordOutcome, CallOK
<1>0. m.op = "execute"
  BY DEF CallInv, LocalsType
<1>1. /\ pc[c] # "idle" /\ my' = [my EXCEPT ![c] = m] /\ pc' = [pc EXCEPT ![c] = "observe"]
      /\ UNCHANGED <<authority, calls, changes>>
      /\ UNCHANGED <<decisions, refusals, observations, reconciliations, ledger>>
      /\ aborts' = aborts
  BY DEF RecordOutcome, Goto, Inv, TypeOK
<1>2. m.outcome \in AttemptStatuses /\ AttemptRecorded(c, m.outcome) /\ aborts' \in 0..MaxAborts
  BY <1>1 DEF RecordOutcome, LocalsType, Inv, TypeOK
<1>3. Grown /\ RecordTypes' /\ EffectsInv'
  BY <1>0, <1>1, <1>2, AttemptAdded
<1>4. CallInv(m, "outcome")'
  BY <1>1, <1>3, CallStays DEF authority
<1>5. CallInv(m, "observe")'
  BY <1>0, <1>4 DEF CallInv
<1> QED
  BY <1>1, <1>2, <1>3, <1>5, RecordStep DEF Steps

LEMMA ApplySafe == ASSUME Inv, NEW c \in Callers, Apply(c) PROVE Inv'
<1> PICK m \in LocalsType :
        m = my[c] /\ CallInv(m, "apply") /\ m.decision =< Len(decisions)
  BY DEF Inv, TypeOK, Apply, CallOK
<1>0. m.op = "execute"
  BY DEF CallInv, LocalsType
<1> PICK e \in Effects, kind \in Ledger!Kinds : e = m.effect /\ kind = m.kind
  BY DEF LocalsType
<1>1. /\ pc[c] # "idle" /\ pc' = [pc EXCEPT ![c] = "outcome"]
      /\ UNCHANGED <<decisions, refusals, attempts, observations, reconciliations>>
      /\ UNCHANGED <<authority, calls, changes>> /\ aborts' \in 0..MaxAborts
  BY DEF Apply, Goto, records, Inv, TypeOK
<1>2. ledger' = ledger \/ (ledger[e] = "absent" /\ ledger' = [ledger EXCEPT ![e] = kind])
  BY DEF Apply, Ledger!Commit
<1>3. PICK o \in AttemptStatuses : my' = [my EXCEPT ![c].outcome = o, ![c].phase = "post"]
  BY DEF Apply, AttemptStatuses
<1>4. Grown
  BY <1>1, <1>2 DEF Grown, Keeps, Inv, TypeOK, Ledger!LedgerTypeOK
<1>5. RecordTypes'
  BY <1>1, <1>2, TypesHold DEF RecordTypes, Ledger!LedgerTypeOK
<1>6. EffectsInv'
  <2>1. \A d \in Effects : ledger'[d] # "absent" => Announced(d)
    BY <1>2, TypesHold DEF EffectsInv, CallInv, RecordTypes, Ledger!LedgerTypeOK
  <2>2. \A d \in Effects : ledger'[d] # "absent" => Announced(d)'
    BY <1>4, <2>1, AnnouncedStays
  <2> QED
    BY <1>1, <1>4, <2>2, TypesHold DEF EffectsInv, ReconciliationBacked, Grown
<1> PICK n : n = [m EXCEPT !.outcome = o, !.phase = "post"]
  OBVIOUS
<1>7. my' = [my EXCEPT ![c] = n]
  BY <1>3
<1>8. /\ n \in LocalsType /\ n.op = m.op /\ n.effect = m.effect /\ n.decision = m.decision
      /\ n.held = m.held /\ n.late = m.late /\ n.phase = "post"
  BY DEF LocalsType
<1>9. CallInv(m, "apply")'
  BY <1>1, <1>4, CallStays DEF authority
<1>10. CallInv(n, "outcome")'
  BY <1>0, <1>8, <1>9 DEF CallInv
<1> QED
  BY <1>1, <1>4, <1>5, <1>6, <1>7, <1>8, <1>10, RecordStep DEF Steps

------------------------------------------------------------------------------

LEMMA InvStep == Inv /\ [Next]_vars => Inv'
<1> SUFFICES ASSUME Inv, [Next]_vars PROVE Inv'
  OBVIOUS
<1>1. ASSUME NEW c \in Callers, Step(c) PROVE Inv'
  BY <1>1, ReadContextSafe, ReadStatusSafe, RecordDecisionSafe, RevalidatedSafe, RereadSafe,
     RecordRefusalSafe, LoadPriorSafe, ObserveSafe, RecordObservationSafe,
     RecordReconciliationSafe, RecordExistingSafe, RecordAttemptSafe, ApplySafe,
     RecordOutcomeSafe DEF Step
<1>2. CASE UNCHANGED vars
  <2>1. TypeOK'
    BY <1>2 DEF vars, authority, records, Inv, TypeOK, Ledger!LedgerTypeOK
  <2> QED
    BY <1>2, <2>1, UntouchedSafe DEF vars, authority
<1> QED
  BY <1>1, <1>2, ChangeSafe, AbortSafe, DecideSafe, ExecuteSafe, ReconcileSafe DEF Next

\* The record stays ahead of the destination, and each call of its decision.
THEOREM InvHolds == Spec => []Inv
BY InvInit, InvStep, PTL DEF Spec

\* Every variable keeps its type; a record never refers to a decision it lacks.
THEOREM TypeCorrect == Spec => []TypeOK
<1>1. Inv => TypeOK
  BY DEF Inv
<1> QED
  BY <1>1, InvHolds, PTL

\* Nothing is at the destination that an attempt of an authorized decision does
\* not announce.
THEOREM EffectsAnnounced == Spec => []WriteAhead
<1>1. Inv => WriteAhead
  BY DEF Inv, WriteAhead, Announced, Authorizes
<1> QED
  BY <1>1, InvHolds, PTL

\* A dispatch rests on what was found after execute was called.
THEOREM DispatchesRevalidated == Spec => []RevalidatedWithinCall
<1>1. Inv => RevalidatedWithinCall
  <2> SUFFICES ASSUME Inv, NEW c \in Callers, pc[c] \in {"attempt", "apply"}
               PROVE  my[c].held = Inputs
    BY DEF RevalidatedWithinCall
  <2>1. my[c] \in LocalsType /\ CallInv(my[c], pc[c])
    BY DEF Inv, TypeOK, CallOK
  <2>2. my[c].op = "execute"
    BY <2>1 DEF CallInv, LocalsType
  <2> QED
    BY <2>1, <2>2 DEF CallInv
<1> QED
  BY <1>1, InvHolds, PTL

\* An execute that found an attempt when it was called does not dispatch.
THEOREM RetriesDoNotDispatch == Spec => []NoResubmission
<1>1. Inv => NoResubmission
  BY DEF Inv, CallOK, CallInv, NoResubmission
<1> QED
  BY <1>1, InvHolds, PTL

\* "applied" is reconciled only on an observation the record kept.
THEOREM ReconciliationsBacked == Spec => []ReconciliationBacked
<1>1. Inv => ReconciliationBacked
  BY DEF Inv
<1> QED
  BY <1>1, InvHolds, PTL

------------------------------------------------------------------------------
(* Executes that do not overlap: what the record says of an effect is so. *)

Executing(c, e) == pc[c] # "idle" /\ my[c].op = "execute" /\ my[c].effect = e

\* No two executes of one effect are running.  Executes of other effects,
\* decisions and reconciliations may be.
NoOverlap == \A e \in Effects : \A b, c \in Callers :
    Executing(b, e) /\ Executing(c, e) => b = c

\* A step of c is no step of another call.
OthersWait(c) == \A b \in Callers \ {c} : my'[b] = my[b] /\ pc'[b] = pc[b]

\* What an outcome says of an effect that is l at the destination.
OutcomeHolds(outcome, l) ==
    /\ outcome = "acknowledged" => l = "applied"
    /\ outcome = "partial" => l = "partial"
    /\ outcome = "failed" => l = "absent"
    /\ outcome = "unknown" => l # "absent"

\* An execute that nobody overlaps, with the local variables m at a step: until
\* it dispatches, an effect it found without attempts has none.
SoloCall(m, step) == m.op = "execute" =>
    /\ m.phase = "pre" /\ step # "apply" /\ ~m.late => attempts[m.effect] = <<>>
    /\ step = "attempt" => m.phase = "pre"
    /\ step = "apply" => /\ ledger[m.effect] = "absent"
                         /\ \A k \in DOMAIN attempts[m.effect] :
                               attempts[m.effect][k].status = "attempted"
    /\ step \in {"observation", "reconciliation"} /\ m.observed # "absent" =>
          ledger[m.effect] = m.observed
    /\ step \in {"existing", "outcome"} =>
          m.outcome # "attempted" /\ OutcomeHolds(m.outcome, ledger[m.effect])
    /\ step = "outcome" => m.phase = "post"

EntriesHold ==
    \A e \in Effects : \A k \in DOMAIN attempts[e] : OutcomeHolds(attempts[e][k].status, ledger[e])

DispatchedOnce == \A e \in Effects : \A j, k \in Dispatches(e) : j = k

Solo ==
    /\ DispatchedOnce /\ EntriesHold
    /\ \A c \in Callers : pc[c] # "idle" => SoloCall(my[c], pc[c])

LEMMA StepsApart ==
    ASSUME Inv, NEW c \in Callers,
           \/ Step(c) \/ Abort(c)
           \/ \E p \in Proposals : Decide(c, p)
           \/ \E p \in Proposals, d \in DOMAIN decisions, kind \in Ledger!Kinds :
                 Execute(c, p, d, kind)
           \/ \E e \in Effects : Reconcile(c, e)
    PROVE  OthersWait(c)
<1>1. my \in [Callers -> LocalsType \cup {None}] /\ pc \in [Callers -> Steps]
  BY DEF Inv, TypeOK
<1>2. CASE Step(c) \/ Abort(c)
  BY <1>1, <1>2 DEF Step, ReadContext, ReadStatus, RecordDecision, Revalidated, Reread,
     RecordRefusal, LoadPriorAttempts, Observe, RecordObservation, RecordReconciliation,
     RecordExisting, RecordAttempt, Apply, RecordOutcome, Abort, Return, Goto, OthersWait
<1>3. ASSUME NEW n, NEW step, Begin(c, n, step) PROVE OthersWait(c)
  BY <1>1, <1>3 DEF Begin, Goto, OthersWait
<1> QED
  BY <1>2, <1>3 DEF Decide, Execute, Reconcile

\* What leaves the attempts and the ledger alone leaves what is recorded so.
LEMMA SoloLocal ==
    ASSUME Solo, NEW c \in Callers, OthersWait(c), UNCHANGED <<attempts, ledger>>,
           pc'[c] = "idle" \/ SoloCall(my'[c], pc'[c])
    PROVE  Solo'
<1>1. DispatchedOnce' /\ EntriesHold'
  BY DEF Solo, DispatchedOnce, EntriesHold, Dispatches, OutcomeHolds
<1>2. ASSUME NEW b \in Callers \ {c}, pc'[b] # "idle" PROVE SoloCall(my[b], pc[b])'
  BY <1>2 DEF Solo, OthersWait, SoloCall, OutcomeHolds
<1>3. pc'[c] # "idle" => SoloCall(my[c], pc[c])'
  BY DEF SoloCall, OutcomeHolds
<1> QED
  BY <1>1, <1>2, <1>3 DEF Solo

\* What changes one effect is no matter to the executes of the others.
LEMMA SoloOthers ==
    ASSUME Inv, Solo, NoOverlap, NEW c \in Callers, OthersWait(c), NEW e \in Effects, Executing(c, e),
           \A d \in Effects \ {e} : attempts'[d] = attempts[d] /\ ledger'[d] = ledger[d],
           NEW b \in Callers \ {c}, pc'[b] # "idle"
    PROVE  SoloCall(my[b], pc[b])'
<1> PICK m \in LocalsType, step \in Steps : m = my[b] /\ step = pc[b]
  BY DEF Inv, TypeOK, OthersWait
<1>1. SoloCall(m, step) /\ m.effect \in Effects
  BY DEF Solo, OthersWait, LocalsType
<1>2. m.op = "execute" => m.effect # e
  BY DEF NoOverlap, Executing, OthersWait
<1>3. m.op = "execute" => attempts'[m.effect] = attempts[m.effect] /\ ledger'[m.effect] = ledger[m.effect]
  BY <1>1, <1>2
<1>4. m = my'[b] /\ step = pc'[b]
  BY DEF OthersWait
<1>5. SoloCall(m, step)'
  BY <1>1, <1>3 DEF SoloCall, OutcomeHolds
<1> QED
  BY <1>4, <1>5 DEF SoloCall, OutcomeHolds

\* A step before the dispatch that touches neither what was found late nor the
\* phase.
LEMMA SoloMoves ==
    ASSUME Solo, NEW c \in Callers, OthersWait(c), UNCHANGED <<attempts, ledger>>,
           pc[c] \notin {"idle", "apply"},
           NEW m, m = my[c], NEW n, n = my'[c],
           n.op = m.op, n.phase = m.phase, n.late = m.late, n.effect = m.effect,
           pc'[c] \in {"status", "resolved", "reread", "refuse", "prior", "observe"}
    PROVE  Solo'
<1>1. SoloCall(m, pc[c])
  BY DEF Solo
<1>2. SoloCall(n, pc'[c])
  BY <1>1 DEF SoloCall
<1> QED
  BY <1>2, SoloLocal

LEMMA SoloBegins ==
    ASSUME Inv, Solo, NEW c \in Callers, OthersWait(c),
           \/ \E p \in Proposals : Decide(c, p)
           \/ \E p \in Proposals, d \in DOMAIN decisions, kind \in Ledger!Kinds :
                 Execute(c, p, d, kind)
           \/ \E e \in Effects : Reconcile(c, e)
    PROVE  Solo'
<1>1. ASSUME NEW n, NEW step \in {"context", "observe"}, Begin(c, n, step), SoloCall(n, step)
      PROVE  Solo'
  <2>1. my'[c] = n /\ pc'[c] = step /\ UNCHANGED <<attempts, ledger>>
    BY <1>1 DEF Begin, Goto, records, Inv, TypeOK
  <2> QED
    BY <1>1, <2>1, SoloLocal
<1>2. ASSUME NEW p \in Proposals, Decide(c, p) PROVE Solo'
  <2> PICK n : n = Locals(c, "decide", p, EffectId(p, context), 0)
    OBVIOUS
  <2>1. n.op = "decide"
    BY DEF Locals
  <2> QED
    BY <1>1, <1>2, <2>1 DEF Decide, SoloCall
<1>3. ASSUME NEW p \in Proposals, NEW d \in DOMAIN decisions, NEW kind \in Ledger!Kinds,
             Execute(c, p, d, kind)
      PROVE  Solo'
  <2> PICK e : e = decisions[d].effect
    OBVIOUS
  <2> PICK n : n = [Locals(c, "execute", p, e, d) EXCEPT !.kind = kind]
    OBVIOUS
  <2>1. n.effect = e /\ n.late = (attempts[e] # <<>>)
    BY DEF Locals
  <2>2. SoloCall(n, "context")
    BY <2>1 DEF SoloCall
  <2>3. Begin(c, n, "context")
    BY <1>3 DEF Execute
  <2> QED
    BY <1>1, <2>2, <2>3
<1>4. ASSUME NEW e \in Effects, Reconcile(c, e) PROVE Solo'
  <2> PICK m : m = Locals(c, "reconcile", e[1], e, 0)
    OBVIOUS
  <2> PICK n : n = [m EXCEPT !.phase = "only"]
    OBVIOUS
  <2>1. n.op = "reconcile"
    BY DEF Locals
  <2>2. Begin(c, n, "observe")
    BY <1>4 DEF Reconcile
  <2> QED
    BY <1>1, <2>1, <2>2 DEF SoloCall
<1> QED
  BY <1>2, <1>3, <1>4

LEMMA SoloChanges == ASSUME Inv, Solo, Change PROVE Solo'
<1>1. UNCHANGED <<attempts, ledger, pc>>
  BY DEF Change, records
<1>2. ASSUME NEW c \in Callers, pc[c] # "idle" PROVE SoloCall(my[c], pc[c])'
  <2> PICK m \in LocalsType : m = my[c]
    BY <1>2 DEF Inv, TypeOK
  <2> PICK n : n = my'[c]
    OBVIOUS
  <2>1. n = m \/ \E held : n = [m EXCEPT !.held = held]
    BY <1>2 DEF Change
  <2>2. /\ n.op = m.op /\ n.phase = m.phase /\ n.late = m.late /\ n.effect = m.effect
        /\ n.observed = m.observed /\ n.outcome = m.outcome
    BY <2>1 DEF LocalsType
  <2>3. SoloCall(m, pc[c])
    BY <1>2 DEF Solo
  <2> QED
    BY <1>1, <2>2, <2>3 DEF SoloCall, OutcomeHolds
<1>3. DispatchedOnce' /\ EntriesHold'
  BY <1>1 DEF Solo, DispatchedOnce, EntriesHold, Dispatches, OutcomeHolds
<1> QED
  BY <1>1, <1>2, <1>3 DEF Solo

LEMMA SoloReads ==
    ASSUME Inv, Solo, NEW c \in Callers, OthersWait(c),
           \/ ReadContext(c) \/ ReadStatus(c) \/ Revalidated(c) \/ Reread(c)
           \/ LoadPriorAttempts(c)
    PROVE  Solo'
<1>1. /\ pc[c] \notin {"idle", "apply"} /\ UNCHANGED <<attempts, ledger>>
      /\ pc'[c] \in {"status", "resolved", "reread", "refuse", "prior", "observe"}
  BY DEF ReadContext, ReadStatus, Revalidated, Reread, LoadPriorAttempts, Goto, records, Inv, TypeOK
<1> PICK m \in LocalsType : m = my[c]
  BY <1>1 DEF Inv, TypeOK
<1> PICK n : n = my'[c]
  OBVIOUS
<1> DEFINE Same == n.op = m.op /\ n.phase = m.phase /\ n.late = m.late /\ n.effect = m.effect
<1>2. CASE ReadContext(c)
  <2>1. n = [m EXCEPT !.read = context]
    BY <1>2 DEF ReadContext, Inv, TypeOK
  <2>2. Same
    BY <2>1 DEF LocalsType
  <2> QED
    BY <1>1, <2>2, SoloMoves
<1>3. CASE ReadStatus(c)
  <2> PICK i, next, bad :
        /\ i = InputOrder[m.next] /\ next = IF m.next = Len(InputOrder) THEN 1 ELSE m.next + 1
        /\ bad = IF status[i] = Current(m.read[i]) THEN m.bad ELSE m.bad \cup {i}
    OBVIOUS
  <2>1. n = [m EXCEPT !.next = next, !.bad = bad]
    BY <1>3 DEF ReadStatus, Inv, TypeOK
  <2>2. Same
    BY <2>1 DEF LocalsType
  <2> QED
    BY <1>1, <2>2, SoloMoves
<1>4. CASE Revalidated(c)
  <2>1. Same
    BY <1>4 DEF Revalidated
  <2> QED
    BY <1>1, <2>1, SoloMoves
<1>5. CASE Reread(c)
  <2> PICK i, next, changed :
        /\ i = InputOrder[m.next] /\ next = IF m.next = Len(InputOrder) THEN 1 ELSE m.next + 1
        /\ changed = IF status[i] = Current(decisions[m.decision].binding[i])
                     THEN m.changed ELSE m.changed \cup {i}
    OBVIOUS
  <2>1. n = [m EXCEPT !.next = next, !.changed = changed]
    BY <1>5 DEF Reread, Inv, TypeOK
  <2>2. Same
    BY <2>1 DEF LocalsType
  <2> QED
    BY <1>1, <2>2, SoloMoves
<1>6. CASE LoadPriorAttempts(c)
  <2>1. \E prior : n = [m EXCEPT !.prior = prior]
    BY <1>6 DEF LoadPriorAttempts, Inv, TypeOK
  <2>2. Same
    BY <2>1 DEF LocalsType
  <2> QED
    BY <1>1, <2>2, SoloMoves
<1> QED
  BY <1>2, <1>3, <1>4, <1>5, <1>6

LEMMA SoloObserves ==
    ASSUME Inv, Solo, NEW c \in Callers, OthersWait(c), Observe(c) \/ RecordObservation(c)
    PROVE  Solo'
<1>1. UNCHANGED <<attempts, ledger>> /\ pc[c] \in {"observe", "observation"}
  BY DEF Observe, RecordObservation, records
<1> PICK m \in LocalsType : m = my[c]
  BY <1>1 DEF Inv, TypeOK
<1>2. SoloCall(m, pc[c])
  BY <1>1 DEF Solo
<1>3. CASE Observe(c)
  <2> PICK n : n = my'[c]
    OBVIOUS
  <2> PICK accepted \in BOOLEAN :
        /\ my' = [my EXCEPT ![c].observed = ledger[my[c].effect], ![c].accepted = accepted]
        /\ pc' = [pc EXCEPT ![c] = IF accepted THEN "observation" ELSE "reconciliation"]
    BY <1>3 DEF Observe, Goto
  <2> PICK seen : seen = ledger[m.effect]
    OBVIOUS
  <2>1. /\ n = [m EXCEPT !.observed = seen, !.accepted = accepted]
        /\ pc'[c] \in {"observation", "reconciliation"}
    BY DEF Inv, TypeOK
  <2>2. /\ n.op = m.op /\ n.phase = m.phase /\ n.late = m.late /\ n.effect = m.effect
        /\ n.observed = ledger[m.effect]
    BY <2>1 DEF LocalsType
  <2>3. SoloCall(n, pc'[c])
    BY <1>1, <1>2, <2>1, <2>2 DEF SoloCall
  <2> QED
    BY <1>1, <2>3, SoloLocal
<1>4. CASE RecordObservation(c)
  <2>1. my'[c] = m /\ pc[c] = "observation" /\ pc'[c] = "reconciliation"
    BY <1>4 DEF RecordObservation, Goto, Inv, TypeOK
  <2>2. SoloCall(m, pc'[c])
    BY <1>2, <2>1 DEF SoloCall
  <2> QED
    BY <1>1, <2>1, <2>2, SoloLocal
<1> QED
  BY <1>3, <1>4

LEMMA SoloReconciles ==
    ASSUME Inv, Solo, NEW c \in Callers, OthersWait(c), RecordReconciliation(c) PROVE Solo'
<1>1. UNCHANGED <<attempts, ledger>> /\ pc[c] = "reconciliation"
  BY DEF RecordReconciliation
<1> PICK m \in LocalsType : m = my[c] /\ CallInv(m, "reconciliation")
  BY <1>1 DEF Inv, TypeOK, CallOK
<1>2. SoloCall(m, "reconciliation")
  BY <1>1 DEF Solo
<1>3. CASE /\ m.phase = "pre" /\ m.observed # "absent" /\ Goto(c, "existing")
           /\ my' = [my EXCEPT ![c].outcome =
                      IF my[c].observed = "applied" THEN "acknowledged" ELSE "partial"]
  <2> PICK o : o = IF m.observed = "applied" THEN "acknowledged" ELSE "partial"
    OBVIOUS
  <2> PICK n : n = [m EXCEPT !.outcome = o]
    OBVIOUS
  <2>1. my'[c] = n /\ pc'[c] = "existing"
    BY <1>3 DEF Goto, Inv, TypeOK
  <2>2. /\ n.op = m.op /\ n.phase = m.phase /\ n.late = m.late /\ n.effect = m.effect
        /\ n.outcome = o
    BY DEF LocalsType
  <2>3. m.observed \in Ledger!Kinds
    BY <1>3 DEF LocalsType, CallInv
  <2>4. m.op = "execute" => o # "attempted" /\ OutcomeHolds(o, ledger[m.effect])
    BY <1>2, <1>3, <2>3 DEF SoloCall, OutcomeHolds, Ledger!Kinds
  <2>5. SoloCall(n, "existing")
    BY <1>2, <2>2, <2>4 DEF SoloCall
  <2> QED
    BY <1>1, <2>1, <2>5, SoloLocal
<1>4. CASE m.phase = "pre" /\ Goto(c, "attempt") /\ UNCHANGED my
  <2>1. my'[c] = m /\ pc'[c] = "attempt"
    BY <1>4 DEF Goto, Inv, TypeOK
  <2>2. SoloCall(m, "attempt")
    BY <1>2, <1>4 DEF SoloCall
  <2> QED
    BY <1>1, <2>1, <2>2, SoloLocal
<1>5. CASE Return(c)
  <2>1. pc'[c] = "idle"
    BY <1>5 DEF Return, Goto, Inv, TypeOK
  <2> QED
    BY <1>1, <2>1, SoloLocal
<1> QED
  BY <1>3, <1>4, <1>5 DEF RecordReconciliation

LEMMA SoloEnds ==
    ASSUME Inv, Solo, NEW c \in Callers, OthersWait(c), RecordDecision(c) \/ RecordRefusal(c) \/ Abort(c)
    PROVE  Solo'
<1>1. UNCHANGED <<attempts, ledger>> /\ pc'[c] = "idle"
  BY DEF RecordDecision, RecordRefusal, Abort, Return, Goto, records, Inv, TypeOK
<1> QED
  BY <1>1, SoloLocal

\* An entry that is so, and the only dispatch of its effect if it is one.
LEMMA SoloAppends ==
    ASSUME Inv, Solo, NEW c \in Callers, NEW m \in LocalsType, m = my[c],
           NEW outcome, AttemptRecorded(c, outcome), UNCHANGED ledger,
           OutcomeHolds(outcome, ledger[m.effect]),
           outcome = "attempted" => attempts[m.effect] = <<>>
    PROVE  /\ DispatchedOnce' /\ EntriesHold'
           /\ attempts[m.effect] = <<>> =>
                 \A k \in DOMAIN attempts'[m.effect] : attempts'[m.effect][k].status = outcome
<1> PICK e \in Effects : e = m.effect
  BY DEF LocalsType
<1> PICK new : new = [id |-> m.id, decision |-> m.decision, status |-> outcome]
  OBVIOUS
<1> DEFINE A == [id : CallIds, decision : DOMAIN decisions, status : AttemptStatuses]
<1>1. attempts' = [attempts EXCEPT ![e] = Append(@, new)] /\ attempts \in [Effects -> Seq(A)]
  BY DEF AttemptRecorded, Inv, TypeOK
<1> HIDE DEF A
<1> PICK s \in Seq(A) : s = attempts[e]
  BY <1>1
<1>2. /\ attempts'[e] = Append(s, new) /\ new.status = outcome
      /\ \A d \in Effects \ {e} : attempts'[d] = attempts[d]
  BY <1>1
<1> PICK n \in Nat : n = Len(s)
  OBVIOUS
<1>3. /\ DOMAIN s = 1..n /\ DOMAIN attempts'[e] = 1..(n + 1)
      /\ \A k \in 1..n : attempts'[e][k] = s[k]
      /\ attempts'[e][n + 1] = new
  BY <1>2
<1>4. DispatchedOnce'
  <2> SUFFICES ASSUME NEW d \in Effects, NEW j \in DOMAIN attempts'[d], NEW k \in DOMAIN attempts'[d],
                      attempts'[d][j].status = "attempted", attempts'[d][k].status = "attempted"
               PROVE  j = k
    BY DEF DispatchedOnce, Dispatches
  <2>1. CASE d # e
    BY <1>2, <2>1 DEF Solo, DispatchedOnce, Dispatches
  <2>2. CASE d = e /\ outcome # "attempted"
    <3>1. attempts'[e][n + 1].status # "attempted"
      BY <1>2, <1>3, <2>2
    <3>2. j # n + 1 /\ k # n + 1 /\ j \in 1..(n + 1) /\ k \in 1..(n + 1)
      BY <1>3, <2>2, <3>1
    <3>3. j \in 1..n /\ k \in 1..n
      BY <1>3, <3>2
    <3>4. s[j].status = "attempted" /\ s[k].status = "attempted"
      BY <1>3, <2>2, <3>3
    <3> QED
      BY <1>3, <2>2, <3>3, <3>4 DEF Solo, DispatchedOnce, Dispatches
  <2>3. CASE d = e /\ outcome = "attempted"
    <3>1. s = <<>> /\ n = 0
      BY <2>3
    <3> QED
      BY <1>3, <2>3, <3>1
  <2> QED
    BY <2>1, <2>2, <2>3
<1>5. EntriesHold'
  <2> SUFFICES ASSUME NEW d \in Effects, NEW k \in DOMAIN attempts'[d]
               PROVE  OutcomeHolds(attempts'[d][k].status, ledger[d])
    BY DEF EntriesHold, OutcomeHolds
  <2>1. CASE d # e
    BY <1>2, <2>1 DEF Solo, EntriesHold
  <2>2. CASE d = e /\ k \in 1..n
    BY <1>3, <2>2 DEF Solo, EntriesHold
  <2>3. CASE d = e /\ k = n + 1
    BY <1>2, <1>3, <2>3
  <2> QED
    BY <1>3, <2>1, <2>2, <2>3
<1>6. ASSUME attempts[m.effect] = <<>>, NEW k \in DOMAIN attempts'[m.effect]
      PROVE  attempts'[m.effect][k].status = outcome
  <2>1. s = <<>> /\ n = 0
    BY <1>6
  <2> QED
    BY <1>2, <1>3, <1>6, <2>1
<1> QED
  BY <1>4, <1>5, <1>6

LEMMA SoloRecords ==
    ASSUME Inv, Solo, NoOverlap, NEW c \in Callers, OthersWait(c),
           RecordExisting(c) \/ RecordAttempt(c) \/ RecordOutcome(c)
    PROVE  Solo'
<1>0. pc[c] \in {"existing", "attempt", "outcome"} /\ UNCHANGED ledger
  BY DEF RecordExisting, RecordAttempt, RecordOutcome
<1> PICK m \in LocalsType : m = my[c] /\ CallInv(m, pc[c])
  BY <1>0 DEF Inv, TypeOK, CallOK
<1>1. SoloCall(m, pc[c]) /\ m.op = "execute"
  BY <1>0 DEF Solo, CallInv, LocalsType
<1>2. ASSUME DispatchedOnce', EntriesHold', pc'[c] = "idle" \/ SoloCall(my[c], pc[c])'
      PROVE  Solo'
  <2>1. m.effect \in Effects /\ Executing(c, m.effect)
    BY <1>0, <1>1 DEF LocalsType, Executing
  <2>2. \A d \in Effects \ {m.effect} : attempts'[d] = attempts[d] /\ ledger'[d] = ledger[d]
    BY <1>0 DEF RecordExisting, RecordAttempt, RecordOutcome, AttemptRecorded, Inv, TypeOK
  <2>3. \A b \in Callers \ {c} : pc'[b] # "idle" => SoloCall(my[b], pc[b])'
    BY <2>1, <2>2, SoloOthers
  <2> QED
    BY <1>2, <2>3 DEF Solo
<1>3. CASE RecordExisting(c)
  <2>1. pc[c] = "existing" /\ AttemptRecorded(c, m.outcome) /\ pc'[c] = "idle"
    BY <1>3 DEF RecordExisting, Return, Goto, Inv, TypeOK
  <2>2. m.outcome # "attempted" /\ OutcomeHolds(m.outcome, ledger[m.effect])
    BY <1>1, <2>1 DEF SoloCall
  <2> QED
    BY <1>0, <1>2, <2>1, <2>2, SoloAppends
<1>4. CASE RecordOutcome(c)
  <2>1. /\ pc[c] = "outcome" /\ AttemptRecorded(c, m.outcome)
        /\ pc'[c] = "observe" /\ my'[c] = m
    BY <1>4 DEF RecordOutcome, Goto, Inv, TypeOK
  <2>2. /\ m.outcome # "attempted" /\ OutcomeHolds(m.outcome, ledger[m.effect])
        /\ m.phase = "post"
    BY <1>1, <2>1 DEF SoloCall
  <2>3. SoloCall(my[c], pc[c])'
    BY <2>1, <2>2 DEF SoloCall
  <2> QED
    BY <1>0, <1>2, <2>1, <2>2, <2>3, SoloAppends
<1>5. CASE RecordAttempt(c)
  <2>1. /\ pc[c] = "attempt" /\ AttemptRecorded(c, "attempted")
        /\ pc'[c] = "apply" /\ my'[c] = m
    BY <1>5 DEF RecordAttempt, Goto, Inv, TypeOK
  <2>2. attempts[m.effect] = <<>> /\ m.effect \in Effects
    BY <1>1, <2>1 DEF SoloCall, CallInv, LocalsType
  <2>3. ledger[m.effect] = "absent"
    <3>1. Dispatches(m.effect) = {}
      BY <2>2 DEF Dispatches
    <3> QED
      BY <2>2, <3>1 DEF Inv, Announced
  <2>4. OutcomeHolds("attempted", ledger[m.effect])
    BY DEF OutcomeHolds
  <2>5. /\ DispatchedOnce' /\ EntriesHold'
        /\ \A k \in DOMAIN attempts'[m.effect] : attempts'[m.effect][k].status = "attempted"
    BY <1>0, <2>1, <2>2, <2>4, SoloAppends
  <2>6. SoloCall(my[c], pc[c])'
    BY <1>0, <2>1, <2>3, <2>5 DEF SoloCall
  <2> QED
    BY <1>2, <2>5, <2>6
<1> QED
  BY <1>3, <1>4, <1>5

LEMMA SoloApplies == ASSUME Inv, Solo, NoOverlap, NEW c \in Callers, OthersWait(c), Apply(c) PROVE Solo'
<1>0. pc[c] = "apply" /\ pc'[c] = "outcome" /\ UNCHANGED attempts
  BY DEF Apply, Goto, records, Inv, TypeOK
<1> PICK m \in LocalsType : m = my[c] /\ CallInv(m, "apply")
  BY <1>0 DEF Inv, TypeOK, CallOK
<1> PICK e \in Effects, kind \in Ledger!Kinds : e = m.effect /\ kind = m.kind
  BY DEF LocalsType
<1>1. /\ m.op = "execute" /\ ledger[e] = "absent"
      /\ \A k \in DOMAIN attempts[e] : attempts[e][k].status = "attempted"
  BY <1>0 DEF Solo, SoloCall, CallInv, LocalsType
<1> PICK n : n = my'[c]
  OBVIOUS
<1> DEFINE Answered == IF kind = "partial" THEN "partial" ELSE "acknowledged"
<1>a. PICK o : /\ my' = [my EXCEPT ![c].outcome = o, ![c].phase = "post"]
               /\ \/ ledger' = [ledger EXCEPT ![e] = kind] /\ o \in {Answered, "unknown"}
                  \/ o = "failed" /\ ledger' = ledger
  <2>1. CASE /\ ledger' = [ledger EXCEPT ![e] = kind]
             /\ \E o \in {Answered, "unknown"} :
                   my' = [my EXCEPT ![c].outcome = o, ![c].phase = "post"]
    BY <2>1
  <2>2. CASE /\ ledger' = ledger
             /\ my' = [my EXCEPT ![c].outcome = "failed", ![c].phase = "post"]
    BY <2>2
  <2> QED
    BY <1>1, <2>1, <2>2 DEF Apply, Ledger!Commit
<1>2. /\ n = [m EXCEPT !.outcome = o, !.phase = "post"]
      /\ \/ ledger' = [ledger EXCEPT ![e] = kind] /\ o \in {Answered, "unknown"}
         \/ o = "failed" /\ ledger' = ledger
  BY <1>a, <1>0 DEF Inv, TypeOK
<1>3. n.op = "execute" /\ n.effect = e /\ n.outcome = o /\ n.phase = "post"
  BY <1>1, <1>2 DEF LocalsType
<1>4. ledger \in [Effects -> {"absent"} \cup Ledger!Kinds]
  BY DEF Inv, TypeOK, Ledger!LedgerTypeOK
<1>5. o # "attempted" /\ OutcomeHolds(o, ledger'[e])
  BY <1>1, <1>2, <1>4 DEF OutcomeHolds, Ledger!Kinds
<1>6. SoloCall(my[c], pc[c])'
  BY <1>0, <1>3, <1>5 DEF SoloCall, OutcomeHolds
<1>7. EntriesHold'
  <2> SUFFICES ASSUME NEW d \in Effects, NEW k \in DOMAIN attempts[d]
               PROVE  OutcomeHolds(attempts[d][k].status, ledger'[d])
    BY <1>0 DEF EntriesHold, OutcomeHolds
  <2>1. CASE d = e
    BY <1>1, <2>1 DEF OutcomeHolds
  <2>2. CASE d # e
    <3>1. ledger'[d] = ledger[d]
      BY <1>2, <1>4, <2>2
    <3> QED
      BY <3>1 DEF Solo, EntriesHold
  <2> QED
    BY <2>1, <2>2
<1>8. DispatchedOnce'
  BY <1>0 DEF Solo, DispatchedOnce, Dispatches
<1>9. \A b \in Callers \ {c} : pc'[b] # "idle" => SoloCall(my[b], pc[b])'
  <2>1. Executing(c, e) /\ e \in Effects
    BY <1>0, <1>1 DEF Executing
  <2>2. \A d \in Effects \ {e} : attempts'[d] = attempts[d] /\ ledger'[d] = ledger[d]
    BY <1>0, <1>2, <1>4
  <2> QED
    BY <2>1, <2>2, SoloOthers
<1> QED
  BY <1>6, <1>7, <1>8, <1>9 DEF Solo

LEMMA SoloStep == Inv /\ Solo /\ NoOverlap /\ [Next]_vars => Solo'
<1> SUFFICES ASSUME Inv, Solo, NoOverlap, [Next]_vars PROVE Solo'
  OBVIOUS
<1>1. ASSUME NEW c \in Callers, Step(c) PROVE Solo'
  BY <1>1, StepsApart, SoloReads, SoloObserves, SoloReconciles, SoloEnds, SoloRecords, SoloApplies
     DEF Step
<1>2. ASSUME NEW c \in Callers, Abort(c) PROVE Solo'
  BY <1>2, StepsApart, SoloEnds
<1>3. ASSUME NEW c \in Callers,
             \/ \E p \in Proposals : Decide(c, p)
             \/ \E p \in Proposals, d \in DOMAIN decisions, kind \in Ledger!Kinds :
                   Execute(c, p, d, kind)
             \/ \E e \in Effects : Reconcile(c, e)
      PROVE  Solo'
  BY <1>3, StepsApart, SoloBegins
<1>4. CASE UNCHANGED vars
  BY <1>4 DEF vars, records, Solo, DispatchedOnce, EntriesHold, Dispatches, OutcomeHolds, SoloCall
<1> QED
  BY <1>1, <1>2, <1>3, <1>4, SoloChanges DEF Next

\* As long as no two executes of one effect overlap, whatever other calls do
\* and wherever calls are cut short, the record is true to the destination.
LEMMA SoloHolds == Spec /\ []NoOverlap => [](Inv /\ Solo)
<1>1. Init => Solo
  BY DEF Init, Solo, DispatchedOnce, EntriesHold, Dispatches
<1> QED
  BY <1>1, SoloStep, InvHolds, PTL DEF Spec

\* Where no two executes of one effect overlap, the effect is dispatched at
\* most once, however many executes are called for it, by however many callers
\* one after the other, and wherever they are cut short.
THEOREM DispatchedAtMostOnce == Spec /\ []NoOverlap => []OneDispatchPerEffect
<1>1. Solo => OneDispatchPerEffect
  <2> SUFFICES ASSUME Solo, NEW e \in Effects PROVE Cardinality(Dispatches(e)) =< 1
    BY DEF OneDispatchPerEffect
  <2>1. CASE Dispatches(e) = {}
    BY <2>1, FS_EmptySet
  <2>2. CASE Dispatches(e) # {}
    <3>1. PICK k : Dispatches(e) = {k}
      BY <2>2 DEF Solo, DispatchedOnce
    <3>2. Cardinality({k}) = 1
      BY FS_Singleton
    <3> QED
      BY <3>1, <3>2
  <2> QED
    BY <2>1, <2>2
<1> QED
  BY <1>1, SoloHolds, PTL

\* There, every outcome in the record is so at the destination, now and later.
THEOREM OutcomesStayTrue == Spec /\ []NoOverlap => []OutcomesTrue
<1>1. Solo => OutcomesTrue
  BY DEF Solo, EntriesHold, OutcomeHolds, OutcomesTrue, Recorded
<1> QED
  BY <1>1, SoloHolds, PTL

\* And there a partial effect is never recorded as acknowledged: it takes two
\* overlapping executes to break what the run partial_effect shows broken.
THEOREM PartialStaysHeld == Spec /\ []NoOverlap => []PartialNeverAcknowledged
<1>1. OutcomesTrue => PartialNeverAcknowledged
  BY DEF OutcomesTrue, PartialNeverAcknowledged
<1> QED
  BY <1>1, OutcomesStayTrue, PTL
------------------------------------------------------------------------------
(* Any overlap of calls. *)

\* Outcomes that say the destination has the effect.
Confirms(outcome) == outcome \in {"acknowledged", "partial", "unknown"}

\* However calls overlap, two dispatches of an effect are by two callers.
OncePerCaller == \A e \in Effects : \A j, k \in Dispatches(e) :
    attempts[e][j].id[1] = attempts[e][k].id[1] => j = k

\* However calls overlap, an effect whose outcome is recorded as acknowledged,
\* partial or unknown is at the destination, and what a call observed to be
\* there is there still.
ConfirmedCommitted == \A e \in Effects : \A k \in DOMAIN attempts[e] :
    Confirms(attempts[e][k].status) => ledger[e] # "absent"

ObservedStays == \A x \in observations : x[2] # "absent" => ledger[x[1]] = x[2]

CallsCounted == \A e \in Effects : \A k \in DOMAIN attempts[e] :
    attempts[e][k].id[2] =< calls[attempts[e][k].id[1]]

\* A call of c with the local variables m at a step: it has no entry before it
\* dispatches, and its caller has none from before if there was no attempt.
SharedCall(c, m, step) ==
    /\ m.id = <<c, calls[c]>>
    /\ ~m.late => \A k \in DOMAIN attempts[m.effect] :
           attempts[m.effect][k].id[1] = c => attempts[m.effect][k].id = m.id
    /\ m.phase = "pre" /\ step # "apply" => \A k \in DOMAIN attempts[m.effect] :
           attempts[m.effect][k].id # m.id
    /\ step \in {"existing", "attempt"} => m.phase = "pre"
    /\ step = "outcome" => m.phase = "post"
    /\ step \in {"observation", "reconciliation"} /\ m.observed # "absent" =>
           ledger[m.effect] = m.observed
    /\ step \in {"existing", "outcome"} =>
           m.outcome # "attempted" /\ (Confirms(m.outcome) => ledger[m.effect] # "absent")

SharedRecord == OncePerCaller /\ ConfirmedCommitted /\ ObservedStays /\ CallsCounted

Shared == SharedRecord /\ \A c \in Callers : pc[c] # "idle" => SharedCall(c, my[c], pc[c])

\* Another call notices entries of c and effects that were absent no more than
\* it must.
LEMMA SharedOthers ==
    ASSUME Inv, Shared, NEW c \in Callers, OthersWait(c),
           \A b \in Callers \ {c} : calls'[b] = calls[b],
           \A e \in Effects : ledger[e] # "absent" => ledger'[e] = ledger[e],
           \A e \in Effects : \A k \in DOMAIN attempts'[e] :
               \/ k \in DOMAIN attempts[e] /\ attempts'[e][k] = attempts[e][k]
               \/ attempts'[e][k].id[1] = c,
           NEW b \in Callers \ {c}, pc'[b] # "idle"
    PROVE  SharedCall(b, my[b], pc[b])'
<1> PICK m \in LocalsType, step \in Steps : m = my[b] /\ step = pc[b]
  BY DEF Inv, TypeOK, OthersWait
<1>1. SharedCall(b, m, step) /\ m.effect \in Effects /\ calls'[b] = calls[b]
  BY DEF Shared, OthersWait, LocalsType
<1>2. m.id = <<b, calls[b]>> /\ m.id[1] = b
  BY <1>1 DEF SharedCall
<1>3. m = my'[b] /\ step = pc'[b]
  BY DEF OthersWait
<1>4. \A k \in DOMAIN attempts'[m.effect] :
          \/ k \in DOMAIN attempts[m.effect] /\ attempts'[m.effect][k] = attempts[m.effect][k]
          \/ attempts'[m.effect][k].id[1] = c
  BY <1>1
<1>5. ~m.late => \A k \in DOMAIN attempts'[m.effect] :
          attempts'[m.effect][k].id[1] = b => attempts'[m.effect][k].id = m.id
  BY <1>1, <1>4 DEF SharedCall
<1>6. m.phase = "pre" /\ step # "apply" => \A k \in DOMAIN attempts'[m.effect] :
          attempts'[m.effect][k].id # m.id
  BY <1>1, <1>2, <1>4 DEF SharedCall
<1>7. /\ step \in {"observation", "reconciliation"} /\ m.observed # "absent" =>
             ledger'[m.effect] = m.observed
      /\ step \in {"existing", "outcome"} =>
             m.outcome # "attempted" /\ (Confirms(m.outcome) => ledger'[m.effect] # "absent")
  <2>1. m.observed \in {"none", "absent"} \cup Ledger!Kinds
    BY DEF LocalsType
  <2>2. step \in {"observation", "reconciliation"} => m.observed # "none"
    BY DEF Inv, CallOK, CallInv, OthersWait
  <2> QED
    BY <1>1, <2>1, <2>2 DEF SharedCall, Ledger!Kinds
<1> QED
  BY <1>1, <1>2, <1>3, <1>5, <1>6, <1>7 DEF SharedCall

\* What leaves the attempts and the ledger alone.
LEMMA SharedLocal ==
    ASSUME Inv, Shared, NEW c \in Callers, OthersWait(c), UNCHANGED <<attempts, ledger, calls>>,
           ObservedStays', pc'[c] = "idle" \/ SharedCall(c, my'[c], pc'[c])
    PROVE  Shared'
<1>1. OncePerCaller' /\ ConfirmedCommitted' /\ CallsCounted'
  BY DEF Shared, SharedRecord, OncePerCaller, ConfirmedCommitted, CallsCounted, Dispatches
<1>2. \A b \in Callers \ {c} : pc'[b] # "idle" => SharedCall(b, my[b], pc[b])'
  BY SharedOthers
<1>3. pc'[c] # "idle" => SharedCall(c, my[c], pc[c])'
  BY DEF SharedCall
<1> QED
  BY <1>1, <1>2, <1>3 DEF Shared, SharedRecord

LEMMA SharedMoves ==
    ASSUME Inv, Shared, NEW c \in Callers, OthersWait(c),
           UNCHANGED <<attempts, ledger, calls, observations>>,
           pc[c] \notin {"idle", "apply"},
           NEW m, m = my[c], NEW n, n = my'[c],
           n.id = m.id, n.phase = m.phase, n.late = m.late, n.effect = m.effect,
           pc'[c] \in {"status", "resolved", "reread", "refuse", "prior", "observe"}
    PROVE  Shared'
<1>1. SharedCall(c, m, pc[c])
  BY DEF Shared
<1>2. SharedCall(c, n, pc'[c])
  BY <1>1 DEF SharedCall
<1>3. ObservedStays'
  BY DEF Shared, SharedRecord, ObservedStays
<1> QED
  BY <1>2, <1>3, SharedLocal

LEMMA SharedReads ==
    ASSUME Inv, Shared, NEW c \in Callers, OthersWait(c),
           \/ ReadContext(c) \/ ReadStatus(c) \/ Revalidated(c) \/ Reread(c)
           \/ LoadPriorAttempts(c)
    PROVE  Shared'
<1>1. /\ pc[c] \notin {"idle", "apply"} /\ UNCHANGED <<attempts, ledger, calls, observations>>
      /\ pc'[c] \in {"status", "resolved", "reread", "refuse", "prior", "observe"}
  BY DEF ReadContext, ReadStatus, Revalidated, Reread, LoadPriorAttempts, Goto, records, Inv, TypeOK
<1> PICK m \in LocalsType : m = my[c]
  BY <1>1 DEF Inv, TypeOK
<1> PICK n : n = my'[c]
  OBVIOUS
<1> DEFINE Same == n.id = m.id /\ n.phase = m.phase /\ n.late = m.late /\ n.effect = m.effect
<1>2. CASE ReadContext(c)
  <2>1. n = [m EXCEPT !.read = context]
    BY <1>2 DEF ReadContext, Inv, TypeOK
  <2>2. Same
    BY <2>1 DEF LocalsType
  <2> QED
    BY <1>1, <2>2, SharedMoves
<1>3. CASE ReadStatus(c)
  <2> PICK i, next, bad :
        /\ i = InputOrder[m.next] /\ next = IF m.next = Len(InputOrder) THEN 1 ELSE m.next + 1
        /\ bad = IF status[i] = Current(m.read[i]) THEN m.bad ELSE m.bad \cup {i}
    OBVIOUS
  <2>1. n = [m EXCEPT !.next = next, !.bad = bad]
    BY <1>3 DEF ReadStatus, Inv, TypeOK
  <2>2. Same
    BY <2>1 DEF LocalsType
  <2> QED
    BY <1>1, <2>2, SharedMoves
<1>4. CASE Revalidated(c)
  <2>1. Same
    BY <1>4 DEF Revalidated
  <2> QED
    BY <1>1, <2>1, SharedMoves
<1>5. CASE Reread(c)
  <2> PICK i, next, changed :
        /\ i = InputOrder[m.next] /\ next = IF m.next = Len(InputOrder) THEN 1 ELSE m.next + 1
        /\ changed = IF status[i] = Current(decisions[m.decision].binding[i])
                     THEN m.changed ELSE m.changed \cup {i}
    OBVIOUS
  <2>1. n = [m EXCEPT !.next = next, !.changed = changed]
    BY <1>5 DEF Reread, Inv, TypeOK
  <2>2. Same
    BY <2>1 DEF LocalsType
  <2> QED
    BY <1>1, <2>2, SharedMoves
<1>6. CASE LoadPriorAttempts(c)
  <2>1. \E prior : n = [m EXCEPT !.prior = prior]
    BY <1>6 DEF LoadPriorAttempts, Inv, TypeOK
  <2>2. Same
    BY <2>1 DEF LocalsType
  <2> QED
    BY <1>1, <2>2, SharedMoves
<1> QED
  BY <1>2, <1>3, <1>4, <1>5, <1>6

LEMMA SharedObserves ==
    ASSUME Inv, Shared, NEW c \in Callers, OthersWait(c), Observe(c) \/ RecordObservation(c)
    PROVE  Shared'
<1>1. UNCHANGED <<attempts, ledger, calls>> /\ pc[c] \in {"observe", "observation"}
  BY DEF Observe, RecordObservation, records
<1> PICK m \in LocalsType : m = my[c]
  BY <1>1 DEF Inv, TypeOK
<1>2. SharedCall(c, m, pc[c])
  BY <1>1 DEF Shared
<1>o. ASSUME pc[c] = "observe", NEW n, NEW step \in {"observation", "reconciliation"},
             n.id = m.id, n.phase = m.phase, n.late = m.late, n.effect = m.effect,
             n.observed = ledger[m.effect]
      PROVE  SharedCall(c, n, step)
  <2>1. SharedCall(c, m, "observe")
    BY <1>2, <1>o
  <2>2. step # "existing" /\ step # "attempt" /\ step # "outcome" /\ step # "apply"
    BY <1>o
  <2> QED
    BY <1>o, <2>1, <2>2 DEF SharedCall
<1>3. CASE Observe(c)
  <2> PICK n : n = my'[c]
    OBVIOUS
  <2> PICK accepted \in BOOLEAN :
        /\ my' = [my EXCEPT ![c].observed = ledger[my[c].effect], ![c].accepted = accepted]
        /\ pc' = [pc EXCEPT ![c] = IF accepted THEN "observation" ELSE "reconciliation"]
    BY <1>3 DEF Observe, Goto
  <2> PICK seen : seen = ledger[m.effect]
    OBVIOUS
  <2>1. /\ n = [m EXCEPT !.observed = seen, !.accepted = accepted]
        /\ pc'[c] \in {"observation", "reconciliation"}
    BY DEF Inv, TypeOK
  <2>2. /\ n.id = m.id /\ n.phase = m.phase /\ n.late = m.late /\ n.effect = m.effect
        /\ n.observed = ledger[m.effect]
    BY <2>1 DEF LocalsType
  <2>3. pc[c] = "observe"
    BY <1>3 DEF Observe
  <2>5. SharedCall(c, n, pc'[c])
    BY ONLY <1>o, <2>1, <2>2, <2>3
  <2>4. ObservedStays'
    BY <1>3 DEF Shared, SharedRecord, ObservedStays, Observe, records
  <2> QED
    BY <1>1, <2>5, <2>4, SharedLocal
<1>4. CASE RecordObservation(c)
  <2>1. my'[c] = m /\ pc[c] = "observation" /\ pc'[c] = "reconciliation"
    BY <1>4 DEF RecordObservation, Goto, Inv, TypeOK
  <2>2. SharedCall(c, m, pc'[c])
    BY <1>2, <2>1 DEF SharedCall
  <2>3. /\ m.observed # "absent" => ledger[m.effect] = m.observed
        /\ observations' = observations \cup {<<m.effect, m.observed>>}
    BY <1>2, <1>4, <2>1 DEF SharedCall, RecordObservation
  <2>4. ObservedStays'
    BY <1>1, <2>3 DEF Shared, SharedRecord, ObservedStays
  <2> QED
    BY <1>1, <2>1, <2>2, <2>4, SharedLocal
<1> QED
  BY <1>3, <1>4

LEMMA SharedReconciles ==
    ASSUME Inv, Shared, NEW c \in Callers, OthersWait(c), RecordReconciliation(c) PROVE Shared'
<1>1. UNCHANGED <<attempts, ledger, calls, observations>> /\ pc[c] = "reconciliation"
  BY DEF RecordReconciliation
<1> PICK m \in LocalsType : m = my[c] /\ CallInv(m, "reconciliation")
  BY <1>1 DEF Inv, TypeOK, CallOK
<1>2. SharedCall(c, m, "reconciliation")
  BY <1>1 DEF Shared
<1>s. ObservedStays'
  BY <1>1 DEF Shared, SharedRecord, ObservedStays
<1>3. CASE /\ m.phase = "pre" /\ m.observed # "absent" /\ Goto(c, "existing")
           /\ my' = [my EXCEPT ![c].outcome =
                      IF my[c].observed = "applied" THEN "acknowledged" ELSE "partial"]
  <2> PICK o : o = IF m.observed = "applied" THEN "acknowledged" ELSE "partial"
    OBVIOUS
  <2> PICK n : n = [m EXCEPT !.outcome = o]
    OBVIOUS
  <2>1. my'[c] = n /\ pc'[c] = "existing"
    BY <1>3 DEF Goto, Inv, TypeOK
  <2>2. /\ n.id = m.id /\ n.phase = m.phase /\ n.late = m.late /\ n.effect = m.effect
        /\ n.outcome = o
    BY DEF LocalsType
  <2>3. o # "attempted" /\ ledger[m.effect] # "absent"
    BY <1>2, <1>3 DEF SharedCall
  <2>4. SharedCall(c, n, "existing")
    BY <1>2, <1>3, <2>2, <2>3 DEF SharedCall
  <2> QED
    BY <1>1, <1>s, <2>1, <2>4, SharedLocal
<1>4. CASE m.phase = "pre" /\ Goto(c, "attempt") /\ UNCHANGED my
  <2>1. my'[c] = m /\ pc'[c] = "attempt"
    BY <1>4 DEF Goto, Inv, TypeOK
  <2>2. SharedCall(c, m, "attempt")
    BY <1>2, <1>4 DEF SharedCall
  <2> QED
    BY <1>1, <1>s, <2>1, <2>2, SharedLocal
<1>5. CASE Return(c)
  <2>1. pc'[c] = "idle"
    BY <1>5 DEF Return, Goto, Inv, TypeOK
  <2> QED
    BY <1>1, <1>s, <2>1, SharedLocal
<1> QED
  BY <1>3, <1>4, <1>5 DEF RecordReconciliation

LEMMA SharedEnds ==
    ASSUME Inv, Shared, NEW c \in Callers, OthersWait(c),
           RecordDecision(c) \/ RecordRefusal(c) \/ Abort(c)
    PROVE  Shared'
<1>1. UNCHANGED <<attempts, ledger, calls, observations>> /\ pc'[c] = "idle"
  BY DEF RecordDecision, RecordRefusal, Abort, Return, Goto, records, Inv, TypeOK
<1>2. ObservedStays'
  BY <1>1 DEF Shared, SharedRecord, ObservedStays
<1> QED
  BY <1>1, <1>2, SharedLocal

LEMMA SharedChanges == ASSUME Inv, Shared, Change PROVE Shared'
<1>1. UNCHANGED <<attempts, ledger, calls, observations, pc>>
  BY DEF Change, records
<1>2. ASSUME NEW c \in Callers, pc[c] # "idle" PROVE SharedCall(c, my[c], pc[c])'
  <2> PICK m \in LocalsType : m = my[c]
    BY <1>2 DEF Inv, TypeOK
  <2> PICK n : n = my'[c]
    OBVIOUS
  <2>1. n = m \/ \E held : n = [m EXCEPT !.held = held]
    BY <1>2 DEF Change
  <2>2. /\ n.id = m.id /\ n.phase = m.phase /\ n.late = m.late /\ n.effect = m.effect
        /\ n.observed = m.observed /\ n.outcome = m.outcome
    BY <2>1 DEF LocalsType
  <2>3. SharedCall(c, m, pc[c])
    BY <1>2 DEF Shared
  <2> QED
    BY <1>1, <2>2, <2>3 DEF SharedCall
<1>3. SharedRecord'
  BY <1>1 DEF Shared, SharedRecord, OncePerCaller, ConfirmedCommitted, ObservedStays, CallsCounted,
     Dispatches
<1> QED
  BY <1>1, <1>2, <1>3 DEF Shared

\* A call that begins has no entry; if there is no attempt of its effect, its
\* caller has none either.
LEMMA SharedBegins ==
    ASSUME Inv, Shared, NEW c \in Callers, OthersWait(c),
           \/ \E p \in Proposals : Decide(c, p)
           \/ \E p \in Proposals, d \in DOMAIN decisions, kind \in Ledger!Kinds :
                 Execute(c, p, d, kind)
           \/ \E e \in Effects : Reconcile(c, e)
    PROVE  Shared'
<1> PICK number \in Nat : number = calls[c] + 1
  BY DEF Inv, TypeOK
<1>1. ASSUME NEW n \in LocalsType, n.id = <<c, number>>, n.late = (attempts[n.effect] # <<>>),
             NEW step \in {"context", "observe"}, Begin(c, n, step)
      PROVE  Shared'
  <2>1. /\ my'[c] = n /\ pc'[c] = step /\ UNCHANGED <<attempts, ledger, observations>>
        /\ calls' = [calls EXCEPT ![c] = number] /\ calls \in [Callers -> Nat]
    BY <1>1 DEF Begin, Goto, records, Inv, TypeOK
  <2>2. calls'[c] = number /\ \A b \in Callers \ {c} : calls'[b] = calls[b]
    BY <2>1
  <2>3. \A b \in Callers \ {c} : pc'[b] # "idle" => SharedCall(b, my[b], pc[b])'
    BY <2>1, <2>2, SharedOthers
  <2> PICK e \in Effects : e = n.effect
    BY DEF LocalsType
  <2> PICK s : s = attempts[e]
    OBVIOUS
  <2>4. ASSUME NEW d \in Effects
        PROVE  \A k \in DOMAIN attempts[d] :
                   attempts[d][k].id[1] \in Callers /\ attempts[d][k].id[2] \in Nat
    <3> PICK Entries : /\ Entries = [id : CallIds, decision : DOMAIN decisions, status : AttemptStatuses]
                     /\ attempts \in [Effects -> Seq(Entries)]
      BY DEF Inv, TypeOK
    <3> PICK t \in Seq(Entries) : t = attempts[d]
      OBVIOUS
    <3>1. \A k \in DOMAIN t : t[k] \in Entries
      BY ONLY t \in Seq(Entries)
    <3>2. \A a \in Entries : a.id \in CallIds
      BY ONLY Entries = [id : CallIds, decision : DOMAIN decisions, status : AttemptStatuses]
    <3>3. \A i \in CallIds : i[1] \in Callers /\ i[2] \in Nat
      BY DEF CallIds
    <3> QED
      BY <3>1, <3>2, <3>3
  <2>5. \A k \in DOMAIN s : s[k].id # n.id
    <3> SUFFICES ASSUME NEW k \in DOMAIN s, s[k].id = n.id PROVE FALSE
      OBVIOUS
    <3>1. s[k].id[1] = c /\ s[k].id[2] = number
      BY ONLY n.id = <<c, number>>, s[k].id = n.id, <1>1
    <3>2. s[k].id[2] =< calls[c] /\ calls[c] \in Nat
      BY <2>1, <3>1 DEF Shared, SharedRecord, CallsCounted
    <3> QED
      BY <3>1, <3>2
  <2>6. ~n.late => DOMAIN s = {}
    <3>1. n.late \/ s = <<>>
      BY <1>1
    <3>2. DOMAIN <<>> = {}
      OBVIOUS
    <3> QED
      BY ONLY <3>1, <3>2
  <2>7. SharedCall(c, my[c], pc[c])'
    BY <1>1, <2>1, <2>2, <2>5, <2>6 DEF SharedCall
  <2>8. CallsCounted'
    <3> SUFFICES ASSUME NEW d \in Effects, NEW k \in DOMAIN attempts[d]
                 PROVE  attempts[d][k].id[2] =< calls'[attempts[d][k].id[1]]
      BY <2>1 DEF CallsCounted
    <3> PICK b \in Callers, j \in Nat : b = attempts[d][k].id[1] /\ j = attempts[d][k].id[2]
      BY <2>4
    <3>1. j =< calls[b] /\ calls[b] \in Nat
      BY <2>1 DEF Shared, SharedRecord, CallsCounted
    <3> QED
      BY <2>2, <3>1
  <2>9. OncePerCaller' /\ ConfirmedCommitted' /\ ObservedStays'
    BY <2>1 DEF Shared, SharedRecord, OncePerCaller, ConfirmedCommitted, ObservedStays, Dispatches
  <2> QED
    BY <2>3, <2>7, <2>8, <2>9 DEF Shared, SharedRecord
<1>2. Inv' /\ pc'[c] # "idle"
  <2>1. [Next]_vars
    BY DEF Next
  <2>2. pc'[c] # "idle"
    BY DEF Decide, Execute, Reconcile, Begin, Goto, Inv, TypeOK
  <2> QED
    BY <2>1, <2>2, InvStep
<1>3. my'[c] \in LocalsType
  BY <1>2 DEF Inv, TypeOK
<1>4. ASSUME NEW p \in Proposals, Decide(c, p) PROVE Shared'
  <2> PICK e : e = EffectId(p, context)
    OBVIOUS
  <2> PICK n : n = Locals(c, "decide", p, e, 0)
    OBVIOUS
  <2>1. Begin(c, n, "context")
    BY <1>4 DEF Decide
  <2>2. n.effect = e /\ n.id = <<c, number>>
    BY DEF Locals
  <2>4. n.late = (attempts[n.effect] # <<>>)
    BY DEF Locals
  <2>3. n \in LocalsType
    BY <1>3, <2>1 DEF Begin, Inv, TypeOK
  <2> QED
    BY ONLY <1>1, <2>1, <2>2, <2>3, <2>4
<1>5. ASSUME NEW p \in Proposals, NEW d \in DOMAIN decisions, NEW kind \in Ledger!Kinds,
             Execute(c, p, d, kind)
      PROVE  Shared'
  <2> PICK e : e = decisions[d].effect
    OBVIOUS
  <2> PICK n : n = [Locals(c, "execute", p, e, d) EXCEPT !.kind = kind]
    OBVIOUS
  <2>1. Begin(c, n, "context")
    BY <1>5 DEF Execute
  <2>2. n.effect = e /\ n.id = <<c, number>>
    BY DEF Locals
  <2>4. n.late = (attempts[n.effect] # <<>>)
    BY DEF Locals
  <2>3. n \in LocalsType
    BY <1>3, <2>1 DEF Begin, Inv, TypeOK
  <2> QED
    BY ONLY <1>1, <2>1, <2>2, <2>3, <2>4
<1>6. ASSUME NEW e \in Effects, Reconcile(c, e) PROVE Shared'
  <2> PICK n : n = [Locals(c, "reconcile", e[1], e, 0) EXCEPT !.phase = "only"]
    OBVIOUS
  <2>1. Begin(c, n, "observe")
    BY <1>6 DEF Reconcile
  <2>2. n.effect = e /\ n.id = <<c, number>>
    BY DEF Locals
  <2>4. n.late = (attempts[n.effect] # <<>>)
    BY DEF Locals
  <2>3. n \in LocalsType
    BY <1>3, <2>1 DEF Begin, Inv, TypeOK
  <2> QED
    BY ONLY <1>1, <2>1, <2>2, <2>3, <2>4
<1> QED
  BY <1>4, <1>5, <1>6

\* An entry of c that is so, and the first of its caller if it is a dispatch.
LEMMA SharedAppends ==
    ASSUME Inv, Shared, NEW c \in Callers, NEW m \in LocalsType, m = my[c], pc[c] # "idle",
           NEW outcome, AttemptRecorded(c, outcome), UNCHANGED <<ledger, observations, calls>>,
           Confirms(outcome) => ledger[m.effect] # "absent",
           outcome = "attempted" =>
               \A k \in DOMAIN attempts[m.effect] : attempts[m.effect][k].id[1] # c
    PROVE  /\ SharedRecord'
           /\ \A d \in Effects : \A k \in DOMAIN attempts'[d] :
                 \/ k \in DOMAIN attempts[d] /\ attempts'[d][k] = attempts[d][k]
                 \/ d = m.effect /\ attempts'[d][k].id = m.id
<1> PICK e \in Effects : e = m.effect
  BY DEF LocalsType
<1> PICK new : new = [id |-> m.id, decision |-> m.decision, status |-> outcome]
  OBVIOUS
<1> DEFINE A == [id : CallIds, decision : DOMAIN decisions, status : AttemptStatuses]
<1>1. attempts' = [attempts EXCEPT ![e] = Append(@, new)] /\ attempts \in [Effects -> Seq(A)]
  BY DEF AttemptRecorded, Inv, TypeOK
<1> HIDE DEF A
<1> PICK s \in Seq(A) : s = attempts[e]
  BY <1>1
<1>2. /\ attempts'[e] = Append(s, new) /\ new.status = outcome /\ new.id = m.id
      /\ \A d \in Effects \ {e} : attempts'[d] = attempts[d]
  BY <1>1
<1> PICK n \in Nat : n = Len(s)
  OBVIOUS
<1>3. /\ DOMAIN s = 1..n /\ DOMAIN attempts'[e] = 1..(n + 1)
      /\ \A k \in 1..n : attempts'[e][k] = s[k]
      /\ attempts'[e][n + 1] = new
  BY <1>2
<1>4. ASSUME NEW d \in Effects, NEW k \in DOMAIN attempts'[d]
      PROVE  \/ k \in DOMAIN attempts[d] /\ attempts'[d][k] = attempts[d][k]
             \/ d = e /\ k = n + 1 /\ attempts'[d][k] = new
  <2>1. CASE d # e
    BY <1>2, <1>4, <2>1
  <2>2. CASE d = e
    <3>1. k \in 1..n \/ k = n + 1
      BY <1>3, <1>4, <2>2
    <3>2. k \in 1..n => k \in DOMAIN attempts[d] /\ attempts'[d][k] = attempts[d][k]
      BY ONLY s = attempts[e], <1>3, <2>2
    <3> QED
      BY ONLY <1>3, <2>2, <3>1, <3>2
  <2> QED
    BY <2>1, <2>2
<1>5. m.id = <<c, calls[c]>> /\ calls[c] \in Nat
  BY DEF Shared, SharedCall, Inv, TypeOK
<1>6. new.id[1] = c /\ new.id[2] = calls[c]
  BY <1>2, <1>5
<1>7. OncePerCaller'
  <2> SUFFICES ASSUME NEW d \in Effects, NEW j \in DOMAIN attempts'[d], NEW k \in DOMAIN attempts'[d],
                      attempts'[d][j].status = "attempted", attempts'[d][k].status = "attempted",
                      attempts'[d][j].id[1] = attempts'[d][k].id[1]
               PROVE  j = k
    BY DEF OncePerCaller, Dispatches
  <2>1. ASSUME NEW i \in DOMAIN attempts'[e], attempts'[e][i].status = "attempted",
               d = e, attempts'[e][n + 1].status = "attempted", attempts'[e][i].id[1] = c
        PROVE  i = n + 1
    <3>1. i \in 1..n \/ i = n + 1
      BY ONLY n \in Nat, <1>3, <2>1
    <3>2. ASSUME i \in 1..n PROVE FALSE
      <4>1. s[i].id[1] = c /\ i \in DOMAIN s
        BY ONLY <1>3, <2>1, <3>2
      <4>2. outcome = "attempted"
        BY ONLY <1>2, <1>3, <2>1
      <4> QED
        BY <4>1, <4>2
    <3> QED
      BY <3>1, <3>2
  <2>2. CASE /\ j \in DOMAIN attempts[d] /\ attempts'[d][j] = attempts[d][j]
             /\ k \in DOMAIN attempts[d] /\ attempts'[d][k] = attempts[d][k]
    BY <2>2 DEF Shared, SharedRecord, OncePerCaller, Dispatches
  <2>3. CASE d = e /\ j = n + 1 /\ attempts'[d][j] = new
    BY <1>6, <2>1, <2>3
  <2>4. CASE d = e /\ k = n + 1 /\ attempts'[d][k] = new
    BY <1>6, <2>1, <2>4
  <2> QED
    BY <1>4, <2>2, <2>3, <2>4
<1>8. ConfirmedCommitted' /\ CallsCounted'
  <2> SUFFICES ASSUME NEW d \in Effects, NEW k \in DOMAIN attempts'[d]
               PROVE  /\ Confirms(attempts'[d][k].status) => ledger[d] # "absent"
                      /\ attempts'[d][k].id[2] =< calls[attempts'[d][k].id[1]]
    BY DEF ConfirmedCommitted, CallsCounted, Confirms
  <2>1. CASE k \in DOMAIN attempts[d] /\ attempts'[d][k] = attempts[d][k]
    BY <2>1 DEF Shared, SharedRecord, ConfirmedCommitted, CallsCounted
  <2>2. CASE d = e /\ attempts'[d][k] = new
    BY <1>2, <1>5, <1>6, <2>2
  <2> QED
    BY <1>4, <2>1, <2>2
<1>9. ObservedStays'
  BY DEF Shared, SharedRecord, ObservedStays
<1> QED
  BY <1>2, <1>4, <1>7, <1>8, <1>9 DEF SharedRecord

LEMMA SharedRecords ==
    ASSUME Inv, Shared, NEW c \in Callers, OthersWait(c),
           RecordExisting(c) \/ RecordAttempt(c) \/ RecordOutcome(c)
    PROVE  Shared'
<1>0. /\ pc[c] \in {"existing", "attempt", "outcome"}
      /\ UNCHANGED <<ledger, observations, calls>>
  BY DEF RecordExisting, RecordAttempt, RecordOutcome
<1> PICK m \in LocalsType : m = my[c] /\ CallInv(m, pc[c])
  BY <1>0 DEF Inv, TypeOK, CallOK
<1>1. SharedCall(c, m, pc[c]) /\ m.effect \in Effects
  BY <1>0 DEF Shared, LocalsType
<1>2. m.id = <<c, calls[c]>> /\ m.id[1] = c
  BY <1>1 DEF SharedCall
<1> DEFINE Kept == \A d \in Effects : \A k \in DOMAIN attempts'[d] :
                      \/ k \in DOMAIN attempts[d] /\ attempts'[d][k] = attempts[d][k]
                      \/ d = m.effect /\ attempts'[d][k].id = m.id
<1>3. ASSUME SharedRecord', Kept, pc'[c] = "idle" \/ SharedCall(c, my[c], pc[c])'
      PROVE  Shared'
  <2>1. \A d \in Effects : \A k \in DOMAIN attempts'[d] :
            \/ k \in DOMAIN attempts[d] /\ attempts'[d][k] = attempts[d][k]
            \/ attempts'[d][k].id[1] = c
    BY <1>2, <1>3
  <2>2. \A b \in Callers \ {c} : pc'[b] # "idle" => SharedCall(b, my[b], pc[b])'
    BY <1>0, <2>1, SharedOthers
  <2> QED
    BY <1>3, <2>2 DEF Shared
<1>4. ASSUME Kept
      PROVE  ~m.late => \A k \in DOMAIN attempts'[m.effect] :
                attempts'[m.effect][k].id[1] = c => attempts'[m.effect][k].id = m.id
  BY <1>1, <1>4 DEF SharedCall
<1>5. CASE RecordExisting(c)
  <2>1. pc[c] = "existing" /\ AttemptRecorded(c, m.outcome) /\ pc'[c] = "idle"
    BY <1>5 DEF RecordExisting, Return, Goto, Inv, TypeOK
  <2>2. m.outcome # "attempted" /\ (Confirms(m.outcome) => ledger[m.effect] # "absent")
    BY <1>1, <2>1 DEF SharedCall
  <2>3. SharedRecord' /\ Kept
    BY <1>0, <2>1, <2>2, SharedAppends
  <2> QED
    BY <1>3, <2>1, <2>3
<1>6. CASE RecordOutcome(c)
  <2>1. /\ pc[c] = "outcome" /\ AttemptRecorded(c, m.outcome)
        /\ pc'[c] = "observe" /\ my'[c] = m
    BY <1>6 DEF RecordOutcome, Goto, Inv, TypeOK
  <2>2. /\ m.outcome # "attempted" /\ (Confirms(m.outcome) => ledger[m.effect] # "absent")
        /\ m.phase = "post"
    BY <1>1, <2>1 DEF SharedCall
  <2>3. SharedRecord' /\ Kept
    BY <1>0, <2>1, <2>2, SharedAppends
  <2>4. SharedCall(c, my[c], pc[c])'
    BY <1>0, <1>2, <1>4, <2>1, <2>2, <2>3 DEF SharedCall
  <2> QED
    BY <1>3, <2>3, <2>4
<1>7. CASE RecordAttempt(c)
  <2>1. /\ pc[c] = "attempt" /\ AttemptRecorded(c, "attempted")
        /\ pc'[c] = "apply" /\ my'[c] = m
    BY <1>7 DEF RecordAttempt, Goto, Inv, TypeOK
  <2>2. ~m.late /\ m.phase = "pre"
    BY <1>1, <2>1 DEF CallInv, SharedCall
  <2>3. \A k \in DOMAIN attempts[m.effect] : attempts[m.effect][k].id[1] # c
    BY <1>1, <2>1, <2>2 DEF SharedCall
  <2>4. ~Confirms("attempted")
    BY DEF Confirms
  <2>5. SharedRecord' /\ Kept
    BY <1>0, <2>1, <2>3, <2>4, SharedAppends
  <2>6. SharedCall(c, my[c], pc[c])'
    BY <1>0, <1>2, <1>4, <2>1, <2>5 DEF SharedCall
  <2> QED
    BY <1>3, <2>5, <2>6
<1> QED
  BY <1>5, <1>6, <1>7

LEMMA SharedApplies == ASSUME Inv, Shared, NEW c \in Callers, OthersWait(c), Apply(c) PROVE Shared'
<1>0. /\ pc[c] = "apply" /\ pc'[c] = "outcome" /\ UNCHANGED <<attempts, observations, calls>>
  BY DEF Apply, Goto, records, Inv, TypeOK
<1> PICK m \in LocalsType : m = my[c]
  BY <1>0 DEF Inv, TypeOK
<1> PICK e \in Effects, kind \in Ledger!Kinds : e = m.effect /\ kind = m.kind
  BY DEF LocalsType
<1> PICK n : n = my'[c]
  OBVIOUS
<1> DEFINE Answered == IF kind = "partial" THEN "partial" ELSE "acknowledged"
<1>a. PICK o : /\ my' = [my EXCEPT ![c].outcome = o, ![c].phase = "post"]
               /\ \/ /\ ledger[e] = "absent" /\ ledger' = [ledger EXCEPT ![e] = kind]
                     /\ o \in {Answered, "unknown"}
                  \/ ledger[e] # "absent" /\ o = Answered /\ ledger' = ledger
                  \/ o = "failed" /\ ledger' = ledger
  <2>1. CASE /\ ledger[e] = "absent" /\ ledger' = [ledger EXCEPT ![e] = kind]
             /\ \E o \in {Answered, "unknown"} :
                   my' = [my EXCEPT ![c].outcome = o, ![c].phase = "post"]
    BY <2>1
  <2>2. CASE /\ ledger[e] # "absent" /\ ledger' = ledger
             /\ my' = [my EXCEPT ![c].outcome = Answered, ![c].phase = "post"]
    BY <2>2
  <2>3. CASE /\ ledger' = ledger
             /\ my' = [my EXCEPT ![c].outcome = "failed", ![c].phase = "post"]
    BY <2>3
  <2> QED
    BY <2>1, <2>2, <2>3 DEF Apply, Ledger!Commit
<1>1. n = [m EXCEPT !.outcome = o, !.phase = "post"]
  BY <1>a, <1>0 DEF Inv, TypeOK
<1>2. /\ n.id = m.id /\ n.late = m.late /\ n.effect = e /\ n.outcome = o /\ n.phase = "post"
  BY <1>1 DEF LocalsType
<1>3. ledger \in [Effects -> {"absent"} \cup Ledger!Kinds] /\ kind # "absent"
  BY DEF Inv, TypeOK, Ledger!LedgerTypeOK, Ledger!Kinds
<1>4. \A d \in Effects : ledger[d] # "absent" => ledger'[d] = ledger[d]
  BY <1>a, <1>3
<1>5. o # "attempted" /\ (Confirms(o) => ledger'[e] # "absent")
  BY <1>a, <1>3 DEF Confirms
<1>6. SharedCall(c, m, "apply")
  BY <1>0 DEF Shared
<1> HIDE <1>a
<1>7. SharedCall(c, my[c], pc[c])'
  BY <1>0, <1>2, <1>5, <1>6 DEF SharedCall, Confirms
<1>8. ConfirmedCommitted' /\ ObservedStays'
  <2>1. observations \subseteq Effects \X ({"absent"} \cup Ledger!Kinds)
    BY DEF Inv, TypeOK
  <2> QED
    BY <1>0, <1>4, <2>1 DEF Shared, SharedRecord, ConfirmedCommitted, ObservedStays, Confirms
<1>9. OncePerCaller' /\ CallsCounted'
  BY <1>0 DEF Shared, SharedRecord, OncePerCaller, CallsCounted, Dispatches
<1>10. \A b \in Callers \ {c} : pc'[b] # "idle" => SharedCall(b, my[b], pc[b])'
  BY <1>0, <1>4, SharedOthers
<1> QED
  BY <1>7, <1>8, <1>9, <1>10 DEF Shared, SharedRecord

LEMMA SharedStep == Inv /\ Shared /\ [Next]_vars => Shared'
<1> SUFFICES ASSUME Inv, Shared, [Next]_vars PROVE Shared'
  OBVIOUS
<1>1. ASSUME NEW c \in Callers, Step(c) PROVE Shared'
  BY <1>1, StepsApart, SharedReads, SharedObserves, SharedReconciles, SharedEnds, SharedRecords,
     SharedApplies DEF Step
<1>2. ASSUME NEW c \in Callers, Abort(c) PROVE Shared'
  BY <1>2, StepsApart, SharedEnds
<1>3. ASSUME NEW c \in Callers,
             \/ \E p \in Proposals : Decide(c, p)
             \/ \E p \in Proposals, d \in DOMAIN decisions, kind \in Ledger!Kinds :
                   Execute(c, p, d, kind)
             \/ \E e \in Effects : Reconcile(c, e)
      PROVE  Shared'
  BY <1>3, StepsApart, SharedBegins
<1>4. CASE UNCHANGED vars
  <2>1. UNCHANGED <<attempts, ledger, observations, calls, pc, my>>
    BY ONLY <1>4 DEF vars, records
  <2>2. SharedRecord'
    BY <2>1 DEF Shared, SharedRecord, OncePerCaller, ConfirmedCommitted, ObservedStays,
       CallsCounted, Dispatches
  <2>3. ASSUME NEW c \in Callers, pc[c] # "idle" PROVE SharedCall(c, my[c], pc[c])'
    <3>1. SharedCall(c, my[c], pc[c])
      BY <2>3 DEF Shared
    <3> QED
      BY ONLY <2>1, <3>1 DEF SharedCall
  <2> QED
    BY <2>1, <2>2, <2>3 DEF Shared
<1> QED
  BY <1>1, <1>2, <1>3, <1>4, SharedChanges DEF Next

LEMMA SharedHolds == Spec => [](Inv /\ Shared)
<1>1. Init => Shared
  BY DEF Init, Shared, SharedRecord, OncePerCaller, ConfirmedCommitted, ObservedStays, CallsCounted,
     Dispatches
<1> QED
  BY <1>1, SharedStep, InvHolds, PTL DEF Spec

\* However executes overlap, no caller dispatches an effect a second time: two
\* dispatches of an effect are by two callers.
THEOREM CallersDispatchOnce == Spec => []OncePerCaller
<1>1. Shared => OncePerCaller
  BY DEF Shared, SharedRecord
<1> QED
  BY <1>1, SharedHolds, PTL

\* However executes overlap, an effect recorded as acknowledged, partial or
\* unknown is at the destination: an outcome may be of the wrong kind, or a
\* failure that was none, but it is never a success that was none.
THEOREM ConfirmationsBacked == Spec => []ConfirmedCommitted
<1>1. Shared => ConfirmedCommitted
  BY DEF Shared, SharedRecord
<1> QED
  BY <1>1, SharedHolds, PTL

\* However executes overlap, what an observation recorded as there stays there.
THEOREM ObservationsStayTrue == Spec => []ObservedStays
<1>1. Shared => ObservedStays
  BY DEF Shared, SharedRecord
<1> QED
  BY <1>1, SharedHolds, PTL
------------------------------------------------------------------------------
(* The workflow and the destination. *)

LEMMA SameCardinality == \A S : Ledger!Cardinality(S) = Cardinality(S)
BY DEF Ledger!Cardinality, Cardinality, Ledger!IsFiniteSet, IsFiniteSet

\* The effects at the destination.
Committed == {e \in Effects : ledger[e] # "absent"}

\* However calls overlap, the effects at the destination do not outnumber the
\* limit of the one grant.
LimitKept == IsFiniteSet(Committed) /\ Cardinality(Committed) =< Limit

\* Only an apply changes the ledger.
LEMMA OnlyAppliesCommit ==
    ASSUME [Next]_vars, ledger' # ledger
    PROVE  \E c \in Callers : Apply(c)
<1>1. \A b \in Callers : ~Abort(b)
      /\ (\A p \in Proposals : ~Decide(b, p))
      /\ (\A p \in Proposals, d \in DOMAIN decisions, kind \in Ledger!Kinds : ~Execute(b, p, d, kind))
      /\ (\A f \in Effects : ~Reconcile(b, f))
  BY DEF Abort, Decide, Execute, Reconcile, Begin
<1>2. \E b \in Callers : Step(b)
  BY <1>1 DEF Next, Change, vars
<1> QED
  BY <1>2 DEF Step, ReadContext, ReadStatus, RecordDecision, Revalidated, Reread, RecordRefusal,
     LoadPriorAttempts, Observe, RecordObservation, RecordReconciliation, RecordExisting,
     RecordAttempt, RecordOutcome

LEMMA CommitInEffects ==
    ASSUME Inv, [Next]_vars, ledger' # ledger
    PROVE  \E e \in Effects, kind \in Ledger!Kinds : Ledger!Commit(e, kind)
<1>1. PICK c \in Callers : Apply(c)
  BY OnlyAppliesCommit
<1>2. my[c] \in LocalsType
  BY <1>1 DEF Apply, Inv, TypeOK
<1>3. my[c].effect \in Effects /\ my[c].kind \in Ledger!Kinds
  BY <1>2 DEF LocalsType
<1>4. Ledger!Commit(my[c].effect, my[c].kind)
  BY <1>1 DEF Apply
<1> QED
  BY <1>3, <1>4

LEMMA LimitStep == Inv /\ LimitKept /\ [Next]_vars => LimitKept'
<1> SUFFICES ASSUME Inv, LimitKept, [Next]_vars PROVE LimitKept'
  OBVIOUS
<1>1. CASE ledger' = ledger
  BY <1>1 DEF LimitKept, Committed
<1>2. CASE ledger' # ledger
  <2>1. PICK e \in Effects, kind \in Ledger!Kinds : Ledger!Commit(e, kind)
    BY <1>2, CommitInEffects
  <2>2. Ledger!Used("grant") = Committed
    BY DEF Ledger!Used, Committed
  <2>3. Cardinality(Committed) < Limit
    BY <2>1, <2>2, SameCardinality DEF Ledger!Commit
  <2>4. e \notin Committed /\ Committed' = Committed \cup {e}
    BY <2>1 DEF Committed, Ledger!Commit, Ledger!Kinds, Inv, TypeOK, Ledger!LedgerTypeOK
  <2>5. IsFiniteSet(Committed \cup {e}) /\ Cardinality(Committed \cup {e}) = Cardinality(Committed) + 1
    BY <2>4, FS_AddElement DEF LimitKept
  <2>6. Cardinality(Committed) \in Nat
    BY FS_CardinalityType DEF LimitKept
  <2> QED
    BY <2>3, <2>4, <2>5, <2>6, WorkflowAssumption DEF LimitKept
<1> QED
  BY <1>1, <1>2

\* Two executes that both dispatch (of one effect or of two) do not together
\* exceed max_effects: the destination refuses the one that comes too late.
THEOREM LimitNeverExceeded == Spec => []LimitKept
<1>1. Init => LimitKept
  <2> SUFFICES ASSUME Init PROVE LimitKept
    OBVIOUS
  <2>1. Committed = {}
    BY DEF Init, Ledger!Init, Committed
  <2> QED
    BY <2>1, FS_EmptySet, WorkflowAssumption DEF LimitKept
<1> QED
  BY <1>1, LimitStep, InvHolds, PTL DEF Spec

------------------------------------------------------------------------------
(* What becomes of an effect whose attempt was cut short. *)

\* There is an attempt of e, nothing of it is at the destination, and whoever
\* is executing it found that attempt when he began.
Stranded(e) ==
    /\ attempts[e] # <<>> /\ ledger[e] = "absent"
    /\ \A c \in Callers : Executing(c, e) => my[c].late

\* Such an effect is held for good: no call, by whomever, ever commits it.
StrandedForGood == [][\A e \in Effects : Stranded(e) => Stranded(e)']_vars

\* The effect, the operation and the lateness of a call are settled when it
\* begins.
LEMMA CallKeeps ==
    ASSUME Inv, NEW c \in Callers, Step(c) \/ Abort(c), NEW m, m = my[c], NEW n, n = my'[c]
    PROVE  pc'[c] = "idle" \/ (n.op = m.op /\ n.effect = m.effect /\ n.late = m.late)
<1>1. /\ pc \in [Callers -> Steps] /\ my \in [Callers -> LocalsType \cup {None}]
      /\ pc[c] # "idle" => m \in LocalsType
  BY DEF Inv, TypeOK
<1>2. CASE RecordDecision(c) \/ RecordRefusal(c) \/ RecordExisting(c) \/ Abort(c)
  BY <1>1, <1>2 DEF RecordDecision, RecordRefusal, RecordExisting, Abort, Return, Goto
<1>3. CASE Revalidated(c) \/ RecordObservation(c) \/ RecordAttempt(c) \/ RecordOutcome(c)
  BY <1>3 DEF Revalidated, RecordObservation, RecordAttempt, RecordOutcome
<1>4. ASSUME pc[c] # "idle", NEW r, my' = [my EXCEPT ![c] = r],
             r.op = m.op /\ r.effect = m.effect /\ r.late = m.late
      PROVE  n.op = m.op /\ n.effect = m.effect /\ n.late = m.late
  BY <1>1, <1>4
<1> DEFINE Same(r) == r.op = m.op /\ r.effect = m.effect /\ r.late = m.late
<1>5. CASE ReadContext(c)
  <2> PICK r : r = [m EXCEPT !.read = context]
    OBVIOUS
  <2>1. pc[c] # "idle" /\ my' = [my EXCEPT ![c] = r]
    BY <1>5 DEF ReadContext
  <2>2. Same(r)
    BY <1>1, <2>1 DEF LocalsType
  <2> QED
    BY <1>4, <2>1, <2>2
<1>6. CASE ReadStatus(c)
  <2> PICK i, next, bad :
        /\ i = InputOrder[m.next] /\ next = IF m.next = Len(InputOrder) THEN 1 ELSE m.next + 1
        /\ bad = IF status[i] = Current(m.read[i]) THEN m.bad ELSE m.bad \cup {i}
    OBVIOUS
  <2> PICK r : r = [m EXCEPT !.next = next, !.bad = bad]
    OBVIOUS
  <2>1. pc[c] # "idle" /\ my' = [my EXCEPT ![c] = r]
    BY <1>1, <1>6 DEF ReadStatus
  <2>2. Same(r)
    BY <1>1, <2>1 DEF LocalsType
  <2> QED
    BY <1>4, <2>1, <2>2
<1>7. CASE Reread(c)
  <2> PICK i, next, changed :
        /\ i = InputOrder[m.next] /\ next = IF m.next = Len(InputOrder) THEN 1 ELSE m.next + 1
        /\ changed = IF status[i] = Current(decisions[m.decision].binding[i])
                     THEN m.changed ELSE m.changed \cup {i}
    OBVIOUS
  <2> PICK r : r = [m EXCEPT !.next = next, !.changed = changed]
    OBVIOUS
  <2>1. pc[c] # "idle" /\ my' = [my EXCEPT ![c] = r]
    BY <1>1, <1>7 DEF Reread
  <2>2. Same(r)
    BY <1>1, <2>1 DEF LocalsType
  <2> QED
    BY <1>4, <2>1, <2>2
<1>8. CASE LoadPriorAttempts(c)
  <2> PICK prior : my' = [my EXCEPT ![c].prior = prior]
    BY <1>8 DEF LoadPriorAttempts
  <2> PICK r : r = [m EXCEPT !.prior = prior]
    OBVIOUS
  <2>1. pc[c] # "idle" /\ my' = [my EXCEPT ![c] = r]
    BY <1>8 DEF LoadPriorAttempts
  <2>2. Same(r)
    BY <1>1, <2>1 DEF LocalsType
  <2> QED
    BY <1>4, <2>1, <2>2
<1>9. CASE Observe(c)
  <2> PICK seen : seen = ledger[m.effect]
    OBVIOUS
  <2> PICK accepted : my' = [my EXCEPT ![c].observed = seen, ![c].accepted = accepted]
    BY <1>9 DEF Observe
  <2> PICK r : r = [m EXCEPT !.observed = seen, !.accepted = accepted]
    OBVIOUS
  <2>1. pc[c] # "idle" /\ my' = [my EXCEPT ![c] = r]
    BY <1>9 DEF Observe
  <2>2. Same(r)
    BY <1>1, <2>1 DEF LocalsType
  <2> QED
    BY <1>4, <2>1, <2>2
<1>10. CASE RecordReconciliation(c)
  <2>1. pc[c] # "idle"
    BY <1>10 DEF RecordReconciliation
  <2>2. ASSUME NEW o, my' = [my EXCEPT ![c].outcome = o] PROVE Same(n)
    <3> PICK r : r = [m EXCEPT !.outcome = o]
      OBVIOUS
    <3>1. my' = [my EXCEPT ![c] = r]
      BY <2>2
    <3>2. Same(r)
      BY <1>1, <2>1 DEF LocalsType
    <3> QED
      BY <1>4, <2>1, <3>1, <3>2
  <2>3. \/ my' = [my EXCEPT ![c].outcome = "acknowledged"]
        \/ my' = [my EXCEPT ![c].outcome = "partial"]
        \/ my' = my
        \/ pc' = [pc EXCEPT ![c] = "idle"]
    BY <1>10 DEF RecordReconciliation, Return, Goto
  <2> QED
    BY <1>1, <2>2, <2>3
<1>11. CASE Apply(c)
  <2> PICK o : my' = [my EXCEPT ![c].outcome = o, ![c].phase = "post"]
    BY <1>11 DEF Apply
  <2> PICK r : r = [m EXCEPT !.outcome = o, !.phase = "post"]
    OBVIOUS
  <2>1. pc[c] # "idle" /\ my' = [my EXCEPT ![c] = r]
    BY <1>11 DEF Apply
  <2>2. Same(r)
    BY <1>1, <2>1 DEF LocalsType
  <2> QED
    BY <1>4, <2>1, <2>2
<1> QED
  BY <1>2, <1>3, <1>5, <1>6, <1>7, <1>8, <1>9, <1>10, <1>11 DEF Step

\* It changes the ledger only at the effect it is of.
LEMMA OnlyApplyCommits ==
    ASSUME Inv, [Next]_vars, NEW e \in Effects, ledger'[e] # ledger[e]
    PROVE  \E c \in Callers : Apply(c) /\ my[c].effect = e
<1>1. PICK c \in Callers : Apply(c)
  BY OnlyAppliesCommit
<1>2. ledger' = ledger \/ Ledger!Commit(my[c].effect, my[c].kind)
  BY <1>1 DEF Apply
<1>3. my[c].effect = e
  BY <1>2 DEF Ledger!Commit, Inv, TypeOK, Ledger!LedgerTypeOK
<1> QED
  BY <1>1, <1>3

\* An attempt once recorded stays recorded.
LEMMA AttemptsGrow ==
    ASSUME Inv, [Next]_vars, NEW e \in Effects
    PROVE  Keeps(attempts[e], attempts'[e])
<1>1. CASE attempts' = attempts
  BY <1>1 DEF Keeps
<1>2. CASE attempts' # attempts
  <2>1. PICK c \in Callers : RecordExisting(c) \/ RecordAttempt(c) \/ RecordOutcome(c)
    <3>1. \A b \in Callers : ~Abort(b)
          /\ (\A p \in Proposals : ~Decide(b, p))
          /\ (\A p \in Proposals, d \in DOMAIN decisions, kind \in Ledger!Kinds : ~Execute(b, p, d, kind))
          /\ (\A f \in Effects : ~Reconcile(b, f))
      BY <1>2 DEF Abort, Decide, Execute, Reconcile, Begin, records
    <3>2. \E b \in Callers : Step(b)
      BY <1>2, <3>1 DEF Next, Change, vars, records
    <3> QED
      BY <1>2, <3>2 DEF Step, ReadContext, ReadStatus, RecordDecision, Revalidated, Reread,
         RecordRefusal, LoadPriorAttempts, Observe, RecordObservation, RecordReconciliation, Apply,
         records
  <2>2. PICK o : AttemptRecorded(c, o)
    BY <2>1 DEF RecordExisting, RecordAttempt, RecordOutcome
  <2> PICK x : x = [id |-> my[c].id, decision |-> my[c].decision, status |-> o]
    OBVIOUS
  <2> PICK s : s = attempts[e]
    OBVIOUS
  <2>3. attempts'[e] = s \/ attempts'[e] = Append(s, x)
    BY <2>2 DEF AttemptRecorded, Inv, TypeOK
  <2>4. PICK Entries : s \in Seq(Entries)
    BY DEF Inv, TypeOK
  <2>5. Keeps(s, s) /\ Keeps(s, Append(s, x))
    BY <2>4 DEF Keeps
  <2> QED
    BY <2>3, <2>5
<1> QED
  BY <1>1, <1>2

LEMMA AttemptsStay ==
    ASSUME Inv, [Next]_vars, NEW e \in Effects, attempts[e] # <<>>
    PROVE  attempts'[e] # <<>>
<1> PICK s, t : s = attempts[e] /\ t = attempts'[e]
  OBVIOUS
<1>1. PICK Entries : s \in Seq(Entries)
  BY DEF Inv, TypeOK
<1>2. 1 \in DOMAIN s
  BY <1>1
<1>3. 1 \in DOMAIN t
  BY <1>2, AttemptsGrow DEF Keeps
<1> QED
  BY <1>3

\* Whoever executes a stranded effect after a step found its attempt when he
\* began: he was executing it before, or began with the step.
LEMMA ExecutesOrBegins ==
    ASSUME Inv, [Next]_vars, NEW e \in Effects, Stranded(e), NEW c \in Callers, Executing(c, e)'
    PROVE  my'[c].late
<1> PICK n : n = my'[c]
  OBVIOUS
<1>t. /\ pc \in [Callers -> Steps] /\ my \in [Callers -> LocalsType \cup {None}]
      /\ pc'[c] # "idle" /\ n.op = "execute" /\ n.effect = e
  BY DEF Inv, TypeOK, Executing
<1>0. CASE n = my[c] /\ pc[c] # "idle"
  BY <1>t, <1>0 DEF Stranded, Executing
<1>1. CASE Change
  <2>1. pc[c] # "idle"
    BY <1>t, <1>1 DEF Change
  <2> PICK m \in LocalsType : m = my[c]
    BY <2>1 DEF Inv, TypeOK
  <2>2. n = m \/ \E held : n = [m EXCEPT !.held = held]
    BY <1>1 DEF Change
  <2>3. n.op = m.op /\ n.effect = m.effect /\ n.late = m.late
    BY <2>2 DEF LocalsType
  <2> QED
    BY <1>t, <2>1, <2>3 DEF Stranded, Executing
<1>2. ASSUME NEW b \in Callers, Step(b) \/ Abort(b) PROVE n.late
  <2>1. CASE b # c
    <3>1. OthersWait(b)
      BY <1>2, StepsApart
    <3> QED
      BY <1>t, <1>0, <2>1, <3>1 DEF OthersWait
  <2>2. CASE b = c
    <3>1. pc[c] # "idle"
      BY <1>2, <2>2 DEF Step, ReadContext, ReadStatus, RecordDecision, Revalidated, Reread,
         RecordRefusal, LoadPriorAttempts, Observe, RecordObservation, RecordReconciliation,
         RecordExisting, RecordAttempt, Apply, RecordOutcome, Abort
    <3> PICK m : m = my[c]
      OBVIOUS
    <3>2. n.op = m.op /\ n.effect = m.effect /\ n.late = m.late
      BY <1>t, <1>2, <2>2, CallKeeps
    <3> QED
      BY <1>t, <3>1, <3>2 DEF Stranded, Executing
  <2> QED
    BY <2>1, <2>2
<1>3. ASSUME NEW b \in Callers, NEW r, NEW step, Begin(b, r, step), r.late = (attempts[r.effect] # <<>>)
      PROVE  n.late
  <2>1. CASE b # c
    BY <1>t, <1>0, <1>3, <2>1 DEF Begin, Goto
  <2>2. CASE b = c
    <3>1. n = r
      BY <1>t, <1>3, <2>2 DEF Begin
    <3> QED
      BY <1>t, <1>3, <3>1 DEF Stranded
  <2> QED
    BY <2>1, <2>2
<1>4. ASSUME NEW b \in Callers, NEW p \in Proposals, Decide(b, p) PROVE n.late
  <2> PICK f : f = EffectId(p, context)
    OBVIOUS
  <2> PICK r : r = Locals(b, "decide", p, f, 0)
    OBVIOUS
  <2>1. Begin(b, r, "context") /\ r.late = (attempts[r.effect] # <<>>)
    BY <1>4 DEF Decide, Locals
  <2> QED
    BY ONLY <1>3, <2>1
<1>5. ASSUME NEW b \in Callers, NEW p \in Proposals, NEW d \in DOMAIN decisions,
             NEW kind \in Ledger!Kinds, Execute(b, p, d, kind)
      PROVE  n.late
  <2> PICK f : f = decisions[d].effect
    OBVIOUS
  <2> PICK r : r = [Locals(b, "execute", p, f, d) EXCEPT !.kind = kind]
    OBVIOUS
  <2>1. Begin(b, r, "context")
    BY <1>5 DEF Execute
  <2>2. r.late = (attempts[r.effect] # <<>>)
    BY DEF Locals
  <2> QED
    BY ONLY <1>3, <2>1, <2>2
<1>6. ASSUME NEW b \in Callers, NEW f \in Effects, Reconcile(b, f) PROVE n.late
  <2> PICK r : r = [Locals(b, "reconcile", f[1], f, 0) EXCEPT !.phase = "only"]
    OBVIOUS
  <2>1. Begin(b, r, "observe")
    BY <1>6 DEF Reconcile
  <2>2. r.late = (attempts[r.effect] # <<>>)
    BY DEF Locals
  <2> QED
    BY ONLY <1>3, <2>1, <2>2
<1>7. CASE UNCHANGED vars
  BY <1>t, <1>0, <1>7 DEF vars
<1> QED
  BY <1>1, <1>2, <1>4, <1>5, <1>6, <1>7 DEF Next

\* An effect whose attempt was recorded and never reached the destination
\* stays uncommitted whatever its callers do: the attempt bars every later
\* dispatch of it, and no operation lifts the bar.
THEOREM StrandedStays == Spec => StrandedForGood
<1> DEFINE Stays == \A e \in Effects : Stranded(e) => Stranded(e)'
<1>1. Inv /\ [Next]_vars => Stays
  <2> SUFFICES ASSUME Inv, [Next]_vars, NEW e \in Effects, Stranded(e) PROVE Stranded(e)'
    OBVIOUS
  <2>1. attempts'[e] # <<>>
    BY AttemptsStay DEF Stranded
  <2>2. ledger'[e] = "absent"
    <3> SUFFICES ASSUME ledger'[e] # ledger[e] PROVE FALSE
      BY DEF Stranded
    <3>1. PICK c \in Callers : Apply(c) /\ my[c].effect = e
      BY OnlyApplyCommits
    <3> PICK m \in LocalsType : m = my[c]
      BY <3>1 DEF Apply, Inv, TypeOK
    <3>2. pc[c] = "apply" /\ CallInv(m, "apply")
      BY <3>1 DEF Apply, Inv, CallOK
    <3>3. m.op = "execute" /\ ~m.late
      BY <3>2 DEF CallInv, LocalsType
    <3> QED
      BY <3>1, <3>2, <3>3 DEF Stranded, Executing
  <2>3. \A c \in Callers : Executing(c, e)' => my'[c].late
    BY ExecutesOrBegins
  <2> QED
    BY <2>1, <2>2, <2>3 DEF Stranded, Executing
<1>2. Spec => [][Stays]_vars
  BY <1>1, InvHolds, PTL DEF Spec
<1> QED
  BY <1>2 DEF StrandedForGood
------------------------------------------------------------------------------
(* Whose a commit is. *)

\* The call of c has itself announced that it is about to dispatch e, for the
\* authorized decision it executes.  (Ids are unique to a call.)
OwnAttempt(c, e) ==
    /\ Authorizes(my[c].decision, e)
    /\ \E k \in DOMAIN attempts[e] :
          attempts[e][k] = [id |-> my[c].id, decision |-> my[c].decision, status |-> "attempted"]

AppliesOwn == \A c \in Callers : pc[c] = "apply" => OwnAttempt(c, my[c].effect)

\* An effect appears at the destination only by a call that has its own attempt
\* of that effect on record, that found every input its decision binds current
\* since it began, and that found no attempt of the effect when it began: not on
\* the strength of an announcement that another call made.
CommitsAreOwn ==
    [][\A e \in Effects : ledger'[e] # ledger[e] =>
          \E c \in Callers :
             /\ pc[c] = "apply" /\ pc'[c] = "outcome"
             /\ OwnAttempt(c, e) /\ my[c].held = Inputs /\ ~my[c].late]_vars

\* A call comes to apply by recording its attempt, or was there before.
LEMMA ComesToApply ==
    ASSUME Inv, [Next]_vars, NEW c \in Callers, pc'[c] = "apply", NEW m, m = my[c], NEW n, n = my'[c]
    PROVE  \/ RecordAttempt(c)
           \/ pc[c] = "apply" /\ n.id = m.id /\ n.decision = m.decision /\ n.effect = m.effect
<1>1. pc \in [Callers -> Steps] /\ my \in [Callers -> LocalsType \cup {None}]
  BY DEF Inv, TypeOK
<1>2. CASE n = m /\ pc[c] = "apply"
  BY <1>2
<1>3. CASE Change
  <2>1. pc[c] = "apply"
    BY <1>3 DEF Change
  <2>2. m \in LocalsType
    BY <2>1 DEF Inv, TypeOK
  <2>3. n = m \/ \E held : n = [m EXCEPT !.held = held]
    BY <1>3 DEF Change
  <2> QED
    BY <2>1, <2>2, <2>3 DEF LocalsType
<1>4. CASE UNCHANGED vars
  BY <1>2, <1>4 DEF vars
<1>5. ASSUME NEW b \in Callers, OthersWait(b), b # c
      PROVE  n = m /\ pc[c] = "apply"
  BY <1>5 DEF OthersWait
<1>6. CASE Step(c)
  BY <1>1, <1>6 DEF Step, ReadContext, ReadStatus, RecordDecision, Revalidated, Reread,
     RecordRefusal, LoadPriorAttempts, Observe, RecordObservation, RecordReconciliation,
     RecordExisting, Apply, RecordOutcome, Return, Goto
<1>7. ~Abort(c)
  BY <1>1 DEF Abort, Return, Goto
<1>8. /\ \A p \in Proposals : ~Decide(c, p)
      /\ \A p \in Proposals, d \in DOMAIN decisions, kind \in Ledger!Kinds : ~Execute(c, p, d, kind)
      /\ \A f \in Effects : ~Reconcile(c, f)
  BY <1>1 DEF Decide, Execute, Reconcile, Begin, Goto
<1>9. ASSUME NEW b \in Callers \ {c},
             \/ Step(b) \/ Abort(b)
             \/ \E p \in Proposals : Decide(b, p)
             \/ \E p \in Proposals, d \in DOMAIN decisions, kind \in Ledger!Kinds :
                   Execute(b, p, d, kind)
             \/ \E f \in Effects : Reconcile(b, f)
      PROVE  n = m /\ pc[c] = "apply"
  <2>1. OthersWait(b)
    BY <1>9, StepsApart
  <2> QED
    BY <1>5, <2>1
<1> QED
  BY <1>2, <1>3, <1>4, <1>6, <1>7, <1>8, <1>9 DEF Next

LEMMA OwnStep == Inv /\ Inv' /\ AppliesOwn /\ [Next]_vars => AppliesOwn'
<1> SUFFICES ASSUME Inv, Inv', AppliesOwn, [Next]_vars, NEW c \in Callers, pc'[c] = "apply"
             PROVE  OwnAttempt(c, my[c].effect)'
  BY DEF AppliesOwn
<1> PICK m : m = my[c]
  OBVIOUS
<1> PICK n : n = my'[c]
  OBVIOUS
<1>1. n \in LocalsType /\ CallInv(n, "apply")'
  BY DEF Inv, TypeOK, CallOK
<1>2. Authorizes(n.decision, n.effect)'
  BY <1>1 DEF CallInv, LocalsType
<1> PICK e : e = n.effect
  OBVIOUS
<1>3. e \in Effects
  BY <1>1 DEF LocalsType
<1> PICK x : x = [id |-> n.id, decision |-> n.decision, status |-> "attempted"]
  OBVIOUS
<1>4. \E k \in DOMAIN attempts'[e] : attempts'[e][k] = x
  <2>1. CASE RecordAttempt(c)
    <3>1. n = m /\ AttemptRecorded(c, "attempted")
      BY <2>1 DEF RecordAttempt
    <3>2. attempts' = [attempts EXCEPT ![e] = Append(@, x)]
      BY <3>1 DEF AttemptRecorded
    <3> DEFINE A == [id : CallIds, decision : DOMAIN decisions, status : AttemptStatuses]
    <3>3. attempts \in [Effects -> Seq(A)]
      BY DEF Inv, TypeOK
    <3> HIDE DEF A
    <3> PICK s : s = attempts[e]
      OBVIOUS
    <3>4. s \in Seq(A) /\ attempts'[e] = Append(s, x)
      BY <1>3, <3>2, <3>3
    <3>5. Len(s) + 1 \in DOMAIN Append(s, x) /\ Append(s, x)[Len(s) + 1] = x
      BY <3>4
    <3> QED
      BY <3>4, <3>5
  <2>2. CASE pc[c] = "apply" /\ n.id = m.id /\ n.decision = m.decision /\ n.effect = m.effect
    <3>1. OwnAttempt(c, e)
      BY <2>2 DEF AppliesOwn
    <3>2. PICK k \in DOMAIN attempts[e] : attempts[e][k] = x
      BY <2>2, <3>1 DEF OwnAttempt
    <3>3. Keeps(attempts[e], attempts'[e])
      BY <1>3, AttemptsGrow
    <3> QED
      BY <3>2, <3>3 DEF Keeps
  <2> QED
    BY <2>1, <2>2, ComesToApply
<1> QED
  BY <1>2, <1>4 DEF OwnAttempt

\* Every commit of the workflow is its call's own, however calls overlap.
THEOREM CommitsAnnounced == Spec => CommitsAreOwn
<1> DEFINE A == \A e \in Effects : ledger'[e] # ledger[e] =>
                  \E c \in Callers :
                     /\ pc[c] = "apply" /\ pc'[c] = "outcome"
                     /\ OwnAttempt(c, e) /\ my[c].held = Inputs /\ ~my[c].late
<1>1. Init => AppliesOwn
  BY DEF Init, AppliesOwn
<1>2. Inv /\ AppliesOwn /\ [Next]_vars => A
  <2> SUFFICES ASSUME Inv, AppliesOwn, [Next]_vars, NEW e \in Effects, ledger'[e] # ledger[e]
               PROVE  \E c \in Callers :
                         /\ pc[c] = "apply" /\ pc'[c] = "outcome"
                         /\ OwnAttempt(c, e) /\ my[c].held = Inputs /\ ~my[c].late
    OBVIOUS
  <2>1. PICK c \in Callers : Apply(c) /\ my[c].effect = e
    BY OnlyApplyCommits
  <2>2. pc[c] = "apply" /\ pc'[c] = "outcome"
    BY <2>1 DEF Apply, Goto, Inv, TypeOK
  <2>3. OwnAttempt(c, e)
    BY <2>1, <2>2 DEF AppliesOwn
  <2>4. my[c].held = Inputs /\ ~my[c].late
    <3> PICK m \in LocalsType : m = my[c]
      BY <2>2 DEF Inv, TypeOK
    <3>1. CallInv(m, "apply")
      BY <2>2 DEF Inv, CallOK
    <3> QED
      BY <3>1 DEF CallInv, LocalsType
  <2> QED
    BY <2>2, <2>3, <2>4
<1> QED
  BY <1>1, <1>2, OwnStep, InvHolds, PTL DEF Spec, CommitsAreOwn
==============================================================================
