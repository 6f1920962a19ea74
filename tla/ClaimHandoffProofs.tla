-------------------------- MODULE ClaimHandoffProofs --------------------------
(***************************************************************************)
(* For any issuers, inputs, versions and bounds: no invalidation is lost   *)
(* between the resolver and the store, a claim is provisioned and an       *)
(* effect committed only on inputs that stand (all three for writers that  *)
(* take part in the handoff), and a claim rests on what the snapshot found *)
(* at its own lookups (for every writer).                                  *)
(***************************************************************************)
EXTENDS ClaimHandoff, TLAPS

\* A call in progress has been counted.
Counted == \A c \in Issuers : pc[c] # "idle" => calls[c] >= 1

Typed == TypeOK /\ Counted

LEMMA FirstInput == 1 \in DOMAIN InputOrder /\ DOMAIN InputOrder = 1..Len(InputOrder)
BY HandoffAssumption

\* Looking a status up keeps the types.
LEMMA LookTyped ==
    ASSUME Typed, NEW c \in Issuers, NEW insisted, NEW versions, NEW step \in Steps \ {"idle"},
           NEW done \in Steps, Look(c, insisted, versions, step, done)
    PROVE  Typed'
<1> DEFINE i == InputOrder[my[c].next]
           last == my[c].next = Len(InputOrder)
<1>1. my[c] \in Locals /\ i \in Inputs /\ my \in [Issuers -> Locals] /\ pc \in [Issuers -> Steps]
  BY DEF Typed, TypeOK, Locals, Inputs
<1>2. (IF last THEN 1 ELSE my[c].next + 1) \in DOMAIN InputOrder
  BY <1>1, FirstInput DEF Locals
<1>3. my' \in [Issuers -> Locals]
  <2>1. my' = [my EXCEPT ![c] = [my[c] EXCEPT !.next = IF last THEN 1 ELSE @ + 1,
                   !.bad = IF i \in insisted /\ source[i] # Current(versions[i])
                           THEN @ \cup {i} ELSE @,
                   !.held = Found(i, @)]]
    BY <1>1 DEF Look, Locals
  <2>2. Found(i, my[c].held) \in SUBSET Inputs
    BY <1>1 DEF Found, Locals
  <2> QED
    BY <1>1, <1>2, <2>1, <2>2 DEF Locals
<1>4. pc' \in [Issuers -> Steps] /\ \A d \in Issuers : pc'[d] # "idle" => pc[d] # "idle"
  BY <1>1 DEF Look, Goto
<1>5. UNCHANGED <<decided, authority, lock, target, calls, writes, bypasses>>
  BY DEF Look
<1> QED
  BY <1>3, <1>4, <1>5 DEF Typed, TypeOK, Counted, authority, target

\* Writing to the resolver keeps the types.
LEMMA WriteTyped ==
    ASSUME Typed, WriteSource, writes' \in 0..MaxWrites, bypasses' \in 0..MaxBypass
    PROVE  Typed'
<1>1. context' \in Bindings /\ source' \in [Inputs -> Statuses]
  BY DEF WriteSource, Typed, TypeOK, Bindings
<1>2. valid' \in [Inputs -> BOOLEAN]
  BY DEF WriteSource, Stands
<1> QED
  BY <1>1, <1>2 DEF WriteSource, Typed, TypeOK, Counted, target

LEMMA TypedStep == Typed /\ [Next]_vars => Typed'
<1> SUFFICES ASSUME Typed, [Next]_vars PROVE Typed'
  OBVIOUS
<1> USE DEF authority, target
<1>0. pc \in [Issuers -> Steps] /\ my \in [Issuers -> Locals] /\ writes \in 0..MaxWrites
      /\ bypasses \in 0..MaxBypass /\ calls \in [Issuers -> 0..MaxCalls]
      /\ MaxCalls \in Nat /\ MaxWrites \in Nat /\ MaxBypass \in Nat
  BY HandoffAssumption DEF Typed, TypeOK
<1>1. CASE Write
  BY <1>0, <1>1, WriteTyped DEF Write
<1>2. CASE WriteAround
  BY <1>0, <1>2, WriteTyped DEF WriteAround
<1>3. CASE WriteStore
  <2>1. writes' \in 0..MaxWrites
    BY <1>0, <1>3 DEF WriteStore
  <2>2. store' \in [Inputs -> BOOLEAN] /\ valid' \in [Inputs -> BOOLEAN]
    BY <1>3 DEF WriteStore, Typed, TypeOK
  <2> QED
    BY <1>3, <2>1, <2>2 DEF WriteStore, Typed, TypeOK, Counted
<1>4. CASE CommitEffect
  BY <1>4 DEF CommitEffect, Typed, TypeOK, Counted
<1>5. ASSUME NEW c \in Issuers, NEW p \in BOOLEAN, Start(c, p) PROVE Typed'
  <2>1. my' \in [Issuers -> Locals]
    BY <1>0, <1>5 DEF Start, Locals
  <2>2. calls' \in [Issuers -> 0..MaxCalls] /\ calls'[c] >= 1
        /\ \A d \in Issuers \ {c} : calls'[d] = calls[d]
    BY <1>0, <1>5 DEF Start
  <2>3. pc' \in [Issuers -> Steps] /\ \A d \in Issuers \ {c} : pc'[d] = pc[d]
    BY <1>0, <1>5 DEF Start, Goto, Steps
  <2> QED
    BY <1>5, <2>1, <2>2, <2>3 DEF Start, Typed, TypeOK, Counted
<1>6. ASSUME NEW c \in Issuers, TakeHandoff(c) PROVE Typed'
  BY <1>0, <1>6 DEF TakeHandoff, Goto, Typed, TypeOK, Counted, Steps
<1>7. ASSUME NEW c \in Issuers, ReadContext(c) PROVE Typed'
  <2>1. my' \in [Issuers -> Locals]
    <3>1. my' = [my EXCEPT ![c] = [my[c] EXCEPT !.read = context, !.bad = {}, !.next = 1, !.held = {}]]
      BY <1>0, <1>7 DEF ReadContext, Locals
    <3> QED
      BY ZenonT(60), <1>0, <3>1, FirstInput DEF Locals, Typed, TypeOK
  <2> QED
    BY <1>0, <1>7, <2>1 DEF ReadContext, Goto, Typed, TypeOK, Counted, Steps
<1>8. ASSUME NEW c \in Issuers, ResolveStatus(c) \/ ProjectStatus(c) PROVE Typed'
  BY <1>8, LookTyped DEF ResolveStatus, ProjectStatus, Steps
<1>9. ASSUME NEW c \in Issuers, ResolutionChecked(c) PROVE Typed'
  BY <1>0, <1>9 DEF ResolutionChecked, Goto, Typed, TypeOK, Counted, Steps
<1>10. ASSUME NEW c \in Issuers, SnapshotChecked(c) PROVE Typed'
  BY <1>0, <1>10 DEF SnapshotChecked, Goto, Typed, TypeOK, Counted, Steps
<1>11. ASSUME NEW c \in Issuers, Provision(c) PROVE Typed'
  <2>1. <<c, calls[c]>> \in Issuers \X (1..MaxCalls)
    BY <1>0, <1>11 DEF Provision, Typed, Counted
  <2> QED
    BY <1>0, <1>11, <2>1 DEF Provision, Goto, Typed, TypeOK, Counted, Steps
<1>12. ASSUME NEW c \in Issuers, Fail(c) PROVE Typed'
  BY <1>0, <1>12 DEF Fail, Goto, Typed, TypeOK, Counted, Steps
<1>13. ASSUME NEW c \in Issuers, Release(c) PROVE Typed'
  <2>1. NoLocals \in Locals
    BY FirstInput DEF NoLocals, Locals, Typed, TypeOK, Bindings, Inputs
  <2> QED
    BY <1>0, <1>13, <2>1 DEF Release, Goto, Typed, TypeOK, Counted, Steps
<1>14. CASE UNCHANGED vars
  BY <1>14 DEF vars, Typed, TypeOK, Counted
<1> QED
  BY <1>1, <1>2, <1>3, <1>4, <1>5, <1>6, <1>7, <1>8, <1>9, <1>10, <1>11, <1>12,
     <1>13, <1>14 DEF Next, Step

\* It starts well typed.
LEMMA InitTyped == Init => Typed
<1> SUFFICES ASSUME Init PROVE Typed
  OBVIOUS
<1>1. NoLocals \in Locals
  BY FirstInput DEF Init, NoLocals, Locals, Bindings, Inputs
<1> QED
  BY <1>1, HandoffAssumption DEF Init, Typed, TypeOK, Counted, Bindings, Statuses, Current, Steps

\* Every reachable state is well typed.
THEOREM TypeCorrect == Spec => [](TypeOK /\ Counted)
<1>1. Typed <=> TypeOK /\ Counted
  BY DEF Typed
<1> QED
  BY <1>1, InitTyped, TypedStep, PTL DEF Spec

------------------------------------------------------------------------------
(* The safety of the handoff. *)

\* A step of another issuer, or of the store, does not concern d.
LEMMA Unaffected ==
    ASSUME NEW d \in Issuers, IssuerInv(d), pc'[d] = pc[d], my'[d] = my[d],
           lock' = lock \/ pc[d] \notin Inside,
           UNCHANGED <<decided, context, source, bypasses>>,
           store' = None => store = None
    PROVE  IssuerInv(d)'
BY DEF IssuerInv, LockInv, SeenInv, WitnessedInv, Examined, ReadInv, FoundInv,
       CheckedInv, InOrder, Stands

\* Nor is anything asked of an issuer outside the handoff.
LEMMA Outside ==
    ASSUME NEW d \in Issuers, pc'[d] \in {"idle", "handoff"}
    PROVE  IssuerInv(d)'
BY DEF IssuerInv, LockInv, SeenInv, WitnessedInv, Examined, ReadInv, FoundInv,
       CheckedInv, Inside, Snapshotting

\* A step of c changes nothing but c's own state.
LEMMA OwnStep ==
    ASSUME Typed, Safe, NEW c \in Issuers, pc' = [pc EXCEPT ![c] = pc'[c]],
           my' = [my EXCEPT ![c] = my'[c]],
           UNCHANGED <<decided, authority, target, bypasses>>,
           \A d \in Issuers \ {c} : lock' = lock \/ pc[d] \notin Inside,
           IssuerInv(c)'
    PROVE  Safe'
<1>1. \A d \in Issuers \ {c} : pc'[d] = pc[d] /\ my'[d] = my[d]
  BY DEF Typed, TypeOK
<1>2. ASSUME NEW d \in Issuers \ {c} PROVE IssuerInv(d)'
  BY <1>1, <1>2, Unaffected DEF Safe, authority, target
<1>3. StandInv' /\ NoInvalidationLost'
  BY DEF Safe, StandInv, NoInvalidationLost, InOrder, Stands, authority, target
<1> QED
  BY <1>2, <1>3 DEF Safe

\* Looking up a status keeps the invariant.
LEMMA LookSafe ==
    ASSUME Typed, Safe, NEW c \in Issuers, ResolveStatus(c) \/ ProjectStatus(c)
    PROVE  Safe'
<1> DEFINE i == InputOrder[my[c].next]
           last == my[c].next = Len(InputOrder)
           insisted == IF pc[c] = "status" THEN Resolved ELSE Projected
           versions == IF pc[c] = "status" THEN my[c].read ELSE decided
<1>1. /\ my[c] \in Locals /\ pc[c] \in {"status", "projection"}
      /\ pc' = [pc EXCEPT ![c] = IF last THEN IF pc[c] = "status" THEN "resolved" ELSE "projected"
                                 ELSE pc[c]]
      /\ my' = [my EXCEPT ![c] = my'[c]]
      /\ my'[c].next = (IF last THEN 1 ELSE my[c].next + 1)
      /\ my'[c].read = my[c].read /\ my'[c].held = Found(i, my[c].held)
      /\ my'[c].bad = (IF i \in insisted /\ source[i] # Current(versions[i])
                       THEN my[c].bad \cup {i} ELSE my[c].bad)
      /\ UNCHANGED <<decided, authority, lock, target, calls, writes, bypasses>>
  <2>1. my[c] \in Locals /\ my \in [Issuers -> Locals]
    BY DEF Typed, TypeOK
  <2>2. pc[c] \in {"status", "projection"}
    BY DEF ResolveStatus, ProjectStatus, Look
  <2>3. /\ pc' = [pc EXCEPT ![c] = IF last THEN IF pc[c] = "status" THEN "resolved" ELSE "projected"
                                   ELSE pc[c]]
        /\ UNCHANGED <<decided, authority, lock, target, calls, writes, bypasses>>
    BY DEF ResolveStatus, ProjectStatus, Look, Goto
  <2>4. my' = [my EXCEPT ![c] = [my[c] EXCEPT
                !.next = IF last THEN 1 ELSE @ + 1,
                !.bad = IF i \in insisted /\ source[i] # Current(versions[i])
                        THEN @ \cup {i} ELSE @,
                !.held = Found(i, @)]]
    BY <2>1 DEF ResolveStatus, ProjectStatus, Look, Locals
  <2> HIDE DEF i, last, insisted, versions
  <2>5. /\ my'[c].next = (IF last THEN 1 ELSE my[c].next + 1)
        /\ my'[c].read = my[c].read /\ my'[c].held = Found(i, my[c].held)
        /\ my'[c].bad = (IF i \in insisted /\ source[i] # Current(versions[i])
                         THEN my[c].bad \cup {i} ELSE my[c].bad)
    BY <2>1, <2>4 DEF Locals
  <2>6. my' = [my EXCEPT ![c] = my'[c]]
    BY <2>1, <2>4
  <2> QED
    BY <2>1, <2>2, <2>3, <2>5, <2>6
<1>2. /\ my[c].next \in 1..Len(InputOrder) /\ Len(InputOrder) \in Nat
      /\ \A j \in Inputs : \E k \in 1..Len(InputOrder) : InputOrder[k] = j
      /\ Resolved \subseteq Inputs /\ Projected \subseteq Inputs
  BY <1>1, FirstInput, HandoffAssumption DEF Locals, Inputs
<1>3. pc \in [Issuers -> Steps] /\ my \in [Issuers -> Locals]
  BY DEF Typed, TypeOK
<1>4. pc'[c] = (IF last THEN IF pc[c] = "status" THEN "resolved" ELSE "projected" ELSE pc[c])
  BY <1>1, <1>3
\* What counts now has counted before, or is the input just looked up.
<1>5. ASSUME NEW j \in Inputs, Examined(c, j)' PROVE j \in insisted /\ (Examined(c, j) \/ j = i)
  <2>1. CASE last
    <3>1. PICK k \in 1..Len(InputOrder) : InputOrder[k] = j
      BY <1>2
    <3>2. j \in insisted
      BY <1>1, <1>4, <1>5, <2>1 DEF Examined
    <3>3. k = my[c].next \/ k \in 1..(my[c].next - 1)
      BY <1>2, <2>1, <3>1
    <3> QED
      BY <1>1, <3>1, <3>2, <3>3 DEF Examined
  <2>2. CASE ~last
    <3>1. pc'[c] = pc[c] /\ my'[c].next = my[c].next + 1
      BY <1>1, <1>4, <2>2
    <3>2. j \in insisted /\ \E k \in 1..(my'[c].next - 1) : InputOrder[k] = j
      BY <1>1, <1>5, <3>1 DEF Examined
    <3>3. PICK k \in 1..(my'[c].next - 1) : InputOrder[k] = j
      BY <3>2
    <3>4. k = my[c].next \/ k \in 1..(my[c].next - 1)
      BY <1>2, <3>1, <3>3
    <3> QED
      BY <1>1, <3>2, <3>3, <3>4 DEF Examined
  <2> QED
    BY <2>1, <2>2
<1>6. IssuerInv(c)
  BY DEF Safe
<1>7. LockInv(c)' /\ WitnessedInv(c)'
  BY <1>1, <1>4, <1>6 DEF IssuerInv, LockInv, WitnessedInv, Inside, Steps
<1>8. SeenInv(c)'
  <2> SUFFICES ASSUME NEW j \in Inputs, pc'[c] \in {"projection", "projected"}, Examined(c, j)'
               PROVE  j \in my'[c].bad \cup my'[c].held
    BY DEF SeenInv
  <2>1. pc[c] = "projection" /\ versions = decided
    BY <1>1, <1>4
  <2>2. my[c].bad \subseteq my'[c].bad /\ my[c].held \subseteq my'[c].held
    BY <1>1 DEF Found
  <2>3. CASE Examined(c, j)
    BY <1>6, <2>1, <2>2, <2>3 DEF IssuerInv, SeenInv
  <2>4. CASE j = i
    BY <1>1, <1>5, <2>1, <2>4 DEF Found
  <2> QED
    BY <1>5, <2>3, <2>4
<1>9. InOrder' /\ store' = None => ReadInv(c)' /\ FoundInv(c)' /\ CheckedInv(c)'
  <2> SUFFICES ASSUME InOrder', store' = None
               PROVE  ReadInv(c)' /\ FoundInv(c)' /\ CheckedInv(c)'
    OBVIOUS
  <2>1. ReadInv(c) /\ FoundInv(c) /\ CheckedInv(c)
    BY <1>1, <1>6 DEF IssuerInv, InOrder, target
  <2>2. ReadInv(c)' /\ CheckedInv(c)'
    BY <1>1, <1>4, <2>1 DEF ReadInv, CheckedInv, Stands, Snapshotting, authority
  <2>3. FoundInv(c)'
    <3> SUFFICES ASSUME NEW j \in Inputs, Examined(c, j)'
                 PROVE  \/ j \in my'[c].bad
                        \/ source'[j] = Current(IF pc'[c] \in {"status", "resolved"}
                                                THEN my'[c].read[j] ELSE decided'[j])
      BY DEF FoundInv, Current
    <3>1. j \in insisted /\ (Examined(c, j) \/ j = i)
      BY <1>5
    <3> QED
      BY <1>1, <2>1, <3>1 DEF FoundInv, authority
  <2> QED
    BY <2>2, <2>3
<1> QED
  BY <1>1, <1>3, <1>7, <1>8, <1>9, OwnStep DEF IssuerInv

\* Start, Fail and Release leave an issuer of whom little is asked.
LEMMA QuietSafe ==
    ASSUME Typed, Safe, NEW c \in Issuers,
           Fail(c) \/ Release(c) \/ (\E p \in BOOLEAN : Start(c, p)) \/ TakeHandoff(c)
    PROVE  Safe'
<1>1. pc \in [Issuers -> Steps] /\ my \in [Issuers -> Locals] /\ LockInv(c)
      /\ \A d \in Issuers : LockInv(d)
  BY DEF Typed, TypeOK, Safe, IssuerInv
<1>2. CASE Fail(c)
  <2>1. pc' = [pc EXCEPT ![c] = "release"] /\ pc[c] \in Inside
        /\ UNCHANGED <<decided, authority, lock, target, my, bypasses>>
    BY <1>2 DEF Fail, Goto, Inside, Steps
  <2>2. IssuerInv(c)'
    BY <1>1, <2>1 DEF IssuerInv, LockInv, SeenInv, WitnessedInv, Examined, ReadInv, FoundInv,
                      CheckedInv, Snapshotting
  <2> QED
    BY <1>1, <2>1, <2>2, OwnStep
<1>3. CASE Release(c)
  <2>1. pc' = [pc EXCEPT ![c] = "idle"] /\ pc[c] \in Inside
        /\ my' = [my EXCEPT ![c] = NoLocals]
        /\ UNCHANGED <<decided, authority, target, bypasses>>
    BY <1>3 DEF Release, Goto, Inside, Steps
  <2>2. \A d \in Issuers \ {c} : pc[d] \notin Inside
    BY <1>1, <2>1 DEF LockInv
  <2>3. IssuerInv(c)'
    BY <1>1, <2>1, Outside
  <2> QED
    BY <1>1, <2>1, <2>2, <2>3, OwnStep
<1>4. ASSUME NEW p \in BOOLEAN, Start(c, p) PROVE Safe'
  <2>1. pc' = [pc EXCEPT ![c] = "handoff"]
        /\ my' = [my EXCEPT ![c].provision = p]
        /\ UNCHANGED <<decided, authority, lock, target, bypasses>>
    BY <1>4 DEF Start, Goto
  <2>2. IssuerInv(c)'
    BY <1>1, <2>1, Outside
  <2> QED
    BY <1>1, <2>1, <2>2, OwnStep
<1>5. CASE TakeHandoff(c)
  <2>1. pc' = [pc EXCEPT ![c] = "context"] /\ lock = None /\ lock' = c
        /\ UNCHANGED <<decided, authority, target, my, bypasses>>
    BY <1>5 DEF TakeHandoff, Goto
  <2>2. \A d \in Issuers : pc[d] \notin Inside
    BY <1>1, <2>1, HandoffAssumption DEF LockInv
  <2>3. IssuerInv(c)'
    BY <1>1, <2>1 DEF IssuerInv, LockInv, SeenInv, WitnessedInv, Examined, ReadInv, FoundInv,
                      CheckedInv, Snapshotting
  <2> QED
    BY <1>1, <2>1, <2>2, <2>3, OwnStep
<1> QED
  BY <1>2, <1>3, <1>4, <1>5

\* The reads of the context begin a phase in which nothing is found yet.
LEMMA ReadSafe == ASSUME Typed, Safe, NEW c \in Issuers, ReadContext(c) PROVE Safe'
<1>1. pc \in [Issuers -> Steps] /\ my \in [Issuers -> Locals] /\ my[c] \in Locals /\ IssuerInv(c)
  BY DEF Typed, TypeOK, Safe
<1>2. /\ \/ pc[c] = "context" /\ pc' = [pc EXCEPT ![c] = "status"]
         \/ pc[c] = "snapshot" /\ pc' = [pc EXCEPT ![c] = "projection"]
      /\ my' = [my EXCEPT ![c] = [my[c] EXCEPT !.read = context, !.bad = {}, !.next = 1,
                                           !.held = {}]]
      /\ UNCHANGED <<decided, authority, lock, target, bypasses>>
  BY <1>1 DEF ReadContext, Goto, Locals
<1>3. my'[c].read = context /\ my'[c].next = 1
  BY <1>1, <1>2 DEF Locals
<1>4. \A i \in Inputs : ~Examined(c, i)'
  BY <1>1, <1>2, <1>3 DEF Examined
<1>5. LockInv(c)' /\ SeenInv(c)' /\ WitnessedInv(c)'
  BY <1>1, <1>2, <1>3, <1>4 DEF IssuerInv, LockInv, SeenInv, WitnessedInv, Inside,
                                Steps, authority
<1>6. InOrder' /\ store' = None => ReadInv(c)' /\ FoundInv(c)' /\ CheckedInv(c)'
  BY <1>1, <1>2, <1>3, <1>4 DEF IssuerInv, InOrder, ReadInv, FoundInv, CheckedInv, Snapshotting,
                                Stands, authority, target
<1> QED
  BY <1>1, <1>2, <1>5, <1>6, OwnStep DEF IssuerInv

\* The two checks let only what stands go on.
LEMMA ResolutionSafe == ASSUME Typed, Safe, NEW c \in Issuers, ResolutionChecked(c) PROVE Safe'
<1>1. pc \in [Issuers -> Steps] /\ my \in [Issuers -> Locals] /\ my[c] \in Locals /\ IssuerInv(c)
      /\ Resolved \subseteq Inputs /\ Bound \subseteq Inputs
  BY HandoffAssumption DEF Typed, TypeOK, Safe
<1> DEFINE passed == my[c].bad = {} /\ \A i \in Bound : my[c].read[i] = decided[i]
<1>2. /\ pc[c] = "resolved"
      /\ pc' = [pc EXCEPT ![c] = IF passed THEN "snapshot" ELSE "release"]
      /\ UNCHANGED <<decided, authority, lock, target, my, bypasses>>
  BY DEF ResolutionChecked, Agrees, Goto
<1>3. LockInv(c)' /\ SeenInv(c)' /\ WitnessedInv(c)'
  BY <1>1, <1>2 DEF IssuerInv, LockInv, SeenInv, WitnessedInv, Inside, Steps, authority
<1>4. InOrder' /\ store' = None => ReadInv(c)' /\ FoundInv(c)' /\ CheckedInv(c)'
  <2> SUFFICES ASSUME InOrder', store' = None
               PROVE  ReadInv(c)' /\ FoundInv(c)' /\ CheckedInv(c)'
    OBVIOUS
  <2>1. ReadInv(c) /\ FoundInv(c)
    BY <1>1, <1>2 DEF IssuerInv, InOrder, target
  <2>2. passed => /\ \A i \in Bound : context[i] = decided[i]
                  /\ \A i \in Resolved : Stands(i, context, source)
    BY <1>1, <1>2, <2>1 DEF ReadInv, FoundInv, Examined, Stands
  <2> QED
    BY <1>1, <1>2, <2>2 DEF ReadInv, FoundInv, CheckedInv, Examined, Stands, Snapshotting, authority
<1> QED
  BY <1>1, <1>2, <1>3, <1>4, OwnStep DEF IssuerInv

LEMMA SnapshotSafe == ASSUME Typed, Safe, NEW c \in Issuers, SnapshotChecked(c) PROVE Safe'
<1>1. pc \in [Issuers -> Steps] /\ my \in [Issuers -> Locals] /\ my[c] \in Locals /\ IssuerInv(c)
      /\ Projected \subseteq Inputs /\ Projected \subseteq Bound
  BY HandoffAssumption DEF Typed, TypeOK, Safe
<1> DEFINE passed == Agrees(c, Matched) /\ my[c].provision
<1>2. /\ pc[c] = "projected"
      /\ pc' = [pc EXCEPT ![c] = IF passed THEN "provision" ELSE "release"]
      /\ UNCHANGED <<decided, authority, lock, target, my, bypasses>>
  BY DEF SnapshotChecked, Goto
<1>3. passed => Projected \subseteq my[c].held
  BY <1>1, <1>2 DEF IssuerInv, SeenInv, Examined, Agrees
<1>4. LockInv(c)' /\ SeenInv(c)' /\ WitnessedInv(c)'
  BY <1>1, <1>2, <1>3 DEF IssuerInv, LockInv, SeenInv, WitnessedInv, Inside,
                          Steps, authority
<1>5. InOrder' /\ store' = None => ReadInv(c)' /\ FoundInv(c)' /\ CheckedInv(c)'
  <2> SUFFICES ASSUME InOrder', store' = None
               PROVE  ReadInv(c)' /\ FoundInv(c)' /\ CheckedInv(c)'
    OBVIOUS
  <2>1. ReadInv(c) /\ FoundInv(c) /\ CheckedInv(c)
    BY <1>1, <1>2 DEF IssuerInv, InOrder, target
  <2>2. passed => \A i \in Projected : Stands(i, context, source)
    <3>1. \A i \in Bound : context[i] = decided[i]
      BY <1>2, <2>1 DEF CheckedInv, Snapshotting
    <3>2. passed => \A i \in Projected : source[i] = Current(decided[i])
      BY <1>1, <1>2, <2>1 DEF FoundInv, Examined, Agrees
    <3> QED
      BY <1>1, <3>1, <3>2 DEF Stands
  <2> QED
    BY <1>1, <1>2, <2>1, <2>2 DEF ReadInv, FoundInv, CheckedInv, Examined, Stands, Snapshotting,
                                  authority
<1> QED
  BY <1>1, <1>2, <1>4, <1>5, OwnStep DEF IssuerInv

\* What is provisioned stands at that moment.
LEMMA ProvisionedStands ==
    ASSUME Typed, Safe, NEW c \in Issuers, Provision(c), InOrder
    PROVE  \A i \in Resolved \cup Projected : valid[i]
<1>1. ReadInv(c) /\ FoundInv(c) /\ CheckedInv(c) /\ store = None /\ pc[c] = "provision"
  BY DEF Safe, IssuerInv, Provision
<1> QED
  BY <1>1, HandoffAssumption DEF CheckedInv, Snapshotting, Safe, StandInv

LEMMA ProvisionSafe == ASSUME Typed, Safe, NEW c \in Issuers, Provision(c) PROVE Safe'
<1>1. pc \in [Issuers -> Steps] /\ \A d \in Issuers : IssuerInv(d)
  BY DEF Typed, TypeOK, Safe
<1>2. /\ pc[c] = "provision" /\ pc' = [pc EXCEPT ![c] = "release"]
      /\ store = None /\ store' = [i \in Inputs |-> TRUE]
      /\ UNCHANGED <<decided, authority, lock, my, bypasses>>
  BY DEF Provision, Goto
<1>3. store' # None
  <2>1. store' \in [Inputs -> BOOLEAN]
    BY <1>2
  <2> QED
    BY <2>1, HandoffAssumption
<1>4. NoInvalidationLost'
  BY <1>2, ProvisionedStands DEF NoInvalidationLost, InOrder, authority
<1>5. ASSUME NEW d \in Issuers PROVE IssuerInv(d)'
  <2>1. CASE d = c
    BY <1>1, <1>2, <1>3, <2>1 DEF IssuerInv, LockInv, SeenInv, WitnessedInv, Inside, Snapshotting
  <2>2. CASE d # c
    BY <1>1, <1>2, <1>3, <2>2, Unaffected DEF authority
  <2> QED
    BY <2>1, <2>2
<1> QED
  BY <1>3, <1>4, <1>5 DEF Safe, StandInv

\* Writing to the resolver, in the handoff's order or around it.
LEMMA WriteSafe ==
    ASSUME Typed, Safe, WriteSource, store = None,
           \/ bypasses' # 0
           \/ bypasses' = bypasses /\ lock = None
    PROVE  Safe'
<1>1. /\ UNCHANGED <<decided, lock, store, claims, effect, pc, my, calls>>
      /\ valid' = [i \in Inputs |-> Stands(i, context', source')]
  BY DEF WriteSource, target
<1>2. ASSUME NEW c \in Issuers PROVE IssuerInv(c)'
  <2>1. IssuerInv(c)
    BY DEF Safe
  <2>2. LockInv(c)' /\ SeenInv(c)' /\ WitnessedInv(c)'
    BY <1>1, <2>1 DEF IssuerInv, LockInv, SeenInv, WitnessedInv, Examined
  <2>3. CASE bypasses' # 0
    BY <2>2, <2>3 DEF IssuerInv, InOrder
  <2>4. CASE lock = None
    <3>1. pc'[c] \in {"idle", "handoff"}
      BY <1>1, <2>1, <2>4, HandoffAssumption DEF IssuerInv, LockInv, Inside, Typed, TypeOK
    <3> QED
      BY <3>1, Outside
  <2> QED
    BY <2>3, <2>4
<1>3. StandInv'
  BY <1>1 DEF StandInv, Stands
<1>4. NoInvalidationLost'
  BY <1>1 DEF NoInvalidationLost
<1> QED
  BY <1>2, <1>3, <1>4 DEF Safe

\* Safe is inductive over the types.
LEMMA SafeStep == Typed /\ Safe /\ [Next]_vars => Safe'
<1> SUFFICES ASSUME Typed, Safe, [Next]_vars PROVE Safe'
  OBVIOUS
<1>1. CASE Write
  BY <1>1, WriteSafe DEF Write
<1>2. CASE WriteAround
  <2>1. bypasses' # 0
    BY <1>2 DEF WriteAround, Typed, TypeOK
  <2> QED
    BY <1>2, <2>1, WriteSafe DEF WriteAround
<1>3. CASE WriteStore
  <2>1. store # None /\ UNCHANGED <<decided, context, source, lock, pc, my, bypasses>>
    BY <1>3 DEF WriteStore
  <2>2. PICK i \in Inputs, b \in BOOLEAN :
           store' = [store EXCEPT ![i] = b] /\ valid' = [valid EXCEPT ![i] = b]
    BY <1>3 DEF WriteStore
  <2>3. store \in [Inputs -> BOOLEAN] /\ valid \in [Inputs -> BOOLEAN] /\ Projected \subseteq Inputs
    BY <2>1, HandoffAssumption DEF Typed, TypeOK
  <2>4. store' # None
    <3>1. store' \in [Inputs -> BOOLEAN]
      BY <2>2, <2>3
    <3> QED
      BY <3>1, HandoffAssumption
  <2>5. NoInvalidationLost'
    BY <2>1, <2>2, <2>3 DEF Safe, NoInvalidationLost, InOrder
  <2>6. \A d \in Issuers : IssuerInv(d)'
    BY <2>1, <2>4, Unaffected DEF Safe
  <2> QED
    BY <2>4, <2>5, <2>6 DEF Safe, StandInv
<1>4. CASE CommitEffect \/ UNCHANGED vars
  <2>1. UNCHANGED <<decided, authority, lock, store, pc, my, bypasses>>
    BY <1>4 DEF CommitEffect, vars, target
  <2>2. \A d \in Issuers : IssuerInv(d)'
    BY <2>1, Unaffected DEF Safe, authority
  <2> QED
    BY <2>1, <2>2 DEF Safe, StandInv, NoInvalidationLost, InOrder, Stands, authority
<1>5. ASSUME NEW c \in Issuers, Step(c) PROVE Safe'
  BY <1>5, LookSafe, QuietSafe, ReadSafe, ResolutionSafe, SnapshotSafe, ProvisionSafe DEF Step
<1>6. ASSUME NEW c \in Issuers, NEW p \in BOOLEAN, Start(c, p) PROVE Safe'
  BY <1>6, QuietSafe
<1> QED
  BY <1>1, <1>2, <1>3, <1>4, <1>5, <1>6 DEF Next

\* The inductive invariant holds of every behaviour.
THEOREM Safety == Spec => [](Typed /\ Safe)
<1>1. Init => Safe
  <2> SUFFICES ASSUME Init PROVE Safe
    OBVIOUS
  <2>1. \A c \in Issuers : IssuerInv(c)
    BY DEF Init, IssuerInv, LockInv, SeenInv, WitnessedInv, ReadInv, FoundInv, CheckedInv,
           Examined, Inside, Snapshotting
  <2>2. StandInv /\ NoInvalidationLost
    BY DEF Init, StandInv, Stands, NoInvalidationLost
  <2> QED
    BY <2>1, <2>2 DEF Safe
<1> QED
  BY <1>1, InitTyped, TypedStep, SafeStep, PTL DEF Spec

\* As long as every writer takes part in the handoff, a row the store holds for
\* good is one the institution let stand.
THEOREM NothingLost == Spec => []NoInvalidationLost
<1>1. Safe => NoInvalidationLost
  BY DEF Safe
<1> QED
  BY <1>1, Safety, PTL

\* Whatever writers do, what enters a claim was found active, in the decided
\* version, by the lookups of the claim's own snapshot.
THEOREM SnapshotsAreFresh == Spec => []SnapshotWitnessed
<1>1. Safe => SnapshotWitnessed
  BY DEF Safe, IssuerInv, WitnessedInv, SnapshotWitnessed
<1> QED
  BY <1>1, Safety, PTL

\* Claims enter the store only while all that the resolution checked stands.
THEOREM ClaimsStand == Spec => ProvisionedWhileValid
<1>1. Typed /\ Safe /\ [Next]_vars =>
         (InOrder /\ store = None /\ store' # None => \A i \in Resolved : valid[i])
  <2> SUFFICES ASSUME Typed, Safe, [Next]_vars, InOrder, store = None, store' # None
               PROVE  \A i \in Resolved : valid[i]
    OBVIOUS
  <2>1. PICK c \in Issuers : Provision(c)
    BY DEF Next, Step, Write, WriteAround, WriteSource, WriteStore, CommitEffect, Start, TakeHandoff,
           ReadContext, ResolveStatus, ProjectStatus, Look, ResolutionChecked, SnapshotChecked, Fail,
           Release, vars, target
  <2> QED
    BY <2>1, ProvisionedStands
<1> QED
  BY <1>1, Safety, PTL DEF Spec, ProvisionedWhileValid

\* Effects are committed only while every projected input stands, wherever it
\* was last written to.
THEOREM EffectsStand == Spec => EffectWhileValid
<1>1. Typed /\ Safe /\ [Next]_vars =>
         (InOrder /\ effect' # effect => \A i \in Projected : valid[i])
  <2> SUFFICES ASSUME Typed, Safe, [Next]_vars, InOrder, effect' # effect
               PROVE  \A i \in Projected : valid[i]
    OBVIOUS
  <2>1. CommitEffect
    BY DEF Next, Step, Write, WriteAround, WriteSource, WriteStore, Provision, Start, TakeHandoff,
           ReadContext, ResolveStatus, ProjectStatus, Look, ResolutionChecked, SnapshotChecked, Fail,
           Release, vars, target
  <2> QED
    BY <2>1 DEF CommitEffect, Safe, NoInvalidationLost
<1> QED
  BY <1>1, Safety, PTL DEF Spec, EffectWhileValid
------------------------------------------------------------------------------
(* Progress: what of CallsReturn is a safety property. *)

\* The owner of the handoff lock is inside, and nobody else is.
LockOwned ==
    /\ \A c \in Issuers : LockInv(c)
    /\ lock # None => pc[lock] \in Inside

\* The guards of Step: inside, a call can always raise or return.
CanGoOn(c) == (pc[c] = "handoff" /\ lock = None) \/ pc[c] \in Inside

\* A call that cannot go on waits for one that can; a writer that takes part
\* waits for nobody else either.
NoDeadlock ==
    /\ \A c \in Issuers : pc[c] # "idle" =>
           CanGoOn(c) \/ (pc[c] = "handoff" /\ lock \in Issuers /\ CanGoOn(lock))
    /\ lock # None => lock \in Issuers /\ CanGoOn(lock)

\* How many steps a call has left at most, at step s with input n to look up:
\* each of the two phases looks every input up once.
StepsLeft(s, n) ==
    LET inputs == Len(InputOrder)
    IN  CASE s = "handoff" -> 2 * inputs + 7
          [] s = "context" -> 2 * inputs + 6
          [] s = "status" -> 2 * inputs + 6 - n
          [] s = "resolved" -> inputs + 5
          [] s = "snapshot" -> inputs + 4
          [] s = "projection" -> inputs + 4 - n
          [] s = "projected" -> 3
          [] s = "provision" -> 2
          [] s = "release" -> 1
          [] s = "idle" -> 0

Forward(c) ==
    \/ pc'[c] = pc[c] /\ my'[c].next = my[c].next
    \/ pc[c] = "idle"
    \/ StepsLeft(pc'[c], my'[c].next) < StepsLeft(pc[c], my[c].next)

\* A call never goes back, to a step or to an input.
CallsAdvance == [][\A c \in Issuers : Forward(c)]_vars

LEMMA LockStep == Typed /\ LockOwned /\ [Next]_vars => LockOwned'
<1> SUFFICES ASSUME Typed, LockOwned, [Next]_vars PROVE LockOwned'
  OBVIOUS
<1>0. pc \in [Issuers -> Steps] /\ lock \in Issuers \cup {None} /\ None \notin Issuers
  BY HandoffAssumption DEF Typed, TypeOK
<1>1. ASSUME UNCHANGED <<lock, pc>> PROVE LockOwned'
  BY <1>1 DEF LockOwned, LockInv
<1>2. CASE Write \/ WriteAround \/ WriteStore \/ CommitEffect
  BY <1>1, <1>2 DEF Write, WriteAround, WriteSource, WriteStore, CommitEffect
<1>3. ASSUME NEW c \in Issuers, NEW p \in BOOLEAN, Start(c, p) PROVE LockOwned'
  BY <1>0, <1>3 DEF Start, Goto, LockOwned, LockInv, Inside, Steps
<1>4. ASSUME NEW c \in Issuers, TakeHandoff(c) PROVE LockOwned'
  BY <1>0, <1>4 DEF TakeHandoff, Goto, LockOwned, LockInv, Inside, Steps
<1>5. ASSUME NEW c \in Issuers, NEW s \in Inside, pc[c] \in Inside,
             pc' = [pc EXCEPT ![c] = s], lock' = lock
      PROVE  LockOwned'
  BY <1>0, <1>5 DEF LockOwned, LockInv
<1>6. ASSUME NEW c \in Issuers,
             \/ ReadContext(c) \/ ResolveStatus(c) \/ ProjectStatus(c) \/ ResolutionChecked(c)
             \/ SnapshotChecked(c) \/ Provision(c) \/ Fail(c)
      PROVE  LockOwned'
  <2>1. pc[c] \in Inside /\ lock' = lock /\ \E s \in Inside : pc' = [pc EXCEPT ![c] = s]
    BY <1>6 DEF ReadContext, ResolveStatus, ProjectStatus, Look, ResolutionChecked,
                SnapshotChecked, Provision, Fail, Goto, Inside, Steps
  <2> QED
    BY <1>5, <2>1
<1>7. ASSUME NEW c \in Issuers, Release(c) PROVE LockOwned'
  BY <1>0, <1>7 DEF Release, Goto, LockOwned, LockInv, Inside, Steps
<1>8. CASE UNCHANGED vars
  BY <1>1, <1>8 DEF vars
<1> QED
  BY <1>2, <1>3, <1>4, <1>6, <1>7, <1>8 DEF Next, Step

\* The handoff lock has its owner: no refusal, lookup that raises or store that
\* refuses the claim leaves it taken.
THEOREM LockIsOwned == Spec => []LockOwned
<1>1. Init => LockOwned
  BY DEF Init, LockOwned, LockInv, Inside
<1>2. Typed /\ Safe => Typed
  OBVIOUS
<1> QED
  BY <1>1, <1>2, LockStep, Safety, PTL DEF Spec

\* No deadlock, among callers or with the writers that take part: whoever has
\* the handoff lock needs nothing that another holds to give it back.
THEOREM NeverDeadlocked == Spec => []NoDeadlock
<1>1. Typed /\ LockOwned => NoDeadlock
  BY HandoffAssumption DEF Typed, TypeOK, LockOwned, LockInv, NoDeadlock, CanGoOn, Inside, Steps
<1>2. Typed /\ Safe => Typed
  OBVIOUS
<1> QED
  BY <1>1, <1>2, LockIsOwned, Safety, PTL

\* A call is at most seven steps and two lookups of every input.
THEOREM CallsOnlyAdvance == Spec => CallsAdvance
<1>1. Typed /\ [Next]_vars => \A c \in Issuers : Forward(c)
  <2> SUFFICES ASSUME Typed, Next, NEW c \in Issuers PROVE Forward(c)
    BY DEF vars, Forward
  <2> PICK inputs \in Nat : inputs = Len(InputOrder)
    BY HandoffAssumption
  <2> PICK n \in 1..inputs : n = my[c].next
    BY FirstInput DEF Typed, TypeOK, Locals
  <2>0. pc \in [Issuers -> Steps] /\ my \in [Issuers -> Locals]
    BY DEF Typed, TypeOK
  <2>1. ASSUME pc' = pc, \A d \in Issuers : my'[d].next = my[d].next PROVE Forward(c)
    BY <2>1 DEF Forward
  <2>2. CASE Write \/ WriteAround
    BY <2>1, <2>2 DEF Write, WriteAround, WriteSource
  <2>3. CASE WriteStore \/ CommitEffect
    BY <2>1, <2>3 DEF WriteStore, CommitEffect
  <2>4. ASSUME NEW d \in Issuers, NEW p \in BOOLEAN, Start(d, p) PROVE Forward(c)
    BY <2>0, <2>4 DEF Start, Goto, Forward
  <2>5. ASSUME NEW d \in Issuers \ {c}, Step(d) PROVE Forward(c)
    <3>1. pc'[c] = pc[c] /\ my'[c] = my[c]
      BY <2>0, <2>5 DEF Step, TakeHandoff, ReadContext, ResolveStatus, ProjectStatus, Look,
           ResolutionChecked, SnapshotChecked, Provision, Fail, Release, Goto
    <3> QED
      BY <3>1 DEF Forward
  <2>6. CASE Step(c)
    <3>1. \/ pc[c] = "handoff" /\ pc'[c] = "context"
          \/ pc[c] = "context" /\ pc'[c] = "status" /\ my'[c].next = 1
          \/ pc[c] = "status" /\ n # inputs /\ pc'[c] = "status" /\ my'[c].next = n + 1
          \/ pc[c] = "status" /\ pc'[c] = "resolved"
          \/ pc[c] = "resolved" /\ pc'[c] \in {"snapshot", "release"}
          \/ pc[c] = "snapshot" /\ pc'[c] = "projection" /\ my'[c].next = 1
          \/ pc[c] = "projection" /\ n # inputs /\ pc'[c] = "projection" /\ my'[c].next = n + 1
          \/ pc[c] = "projection" /\ pc'[c] = "projected"
          \/ pc[c] = "projected" /\ pc'[c] \in {"provision", "release"}
          \/ pc[c] = "provision" /\ pc'[c] = "release"
          \/ pc[c] = "release" /\ pc'[c] = "idle"
          \/ pc[c] \in Inside \ {"release"} /\ pc'[c] = "release"
      <4>1. CASE ResolveStatus(c) \/ ProjectStatus(c)
        BY <2>0, <4>1 DEF ResolveStatus, ProjectStatus, Look, Goto, Locals
      <4>2. CASE ReadContext(c)
        BY <2>0, <4>2 DEF ReadContext, Goto, Locals
      <4>3. CASE TakeHandoff(c) \/ ResolutionChecked(c) \/ SnapshotChecked(c) \/ Provision(c)
                 \/ Fail(c) \/ Release(c)
        BY <2>0, <4>3 DEF TakeHandoff, ResolutionChecked, SnapshotChecked, Provision, Fail,
             Release, Goto, Inside, Steps
      <4> QED
        BY <2>6, <4>1, <4>2, <4>3 DEF Step
    <3>2. StepsLeft(pc'[c], my'[c].next) < StepsLeft(pc[c], n)
      BY <2>0, <3>1 DEF StepsLeft, Inside, Steps
    <3> QED
      BY <3>2 DEF Forward
  <2> QED
    BY <2>2, <2>3, <2>4, <2>5, <2>6 DEF Next
<1>2. Typed /\ Safe => Typed
  OBVIOUS
<1> QED
  BY <1>1, <1>2, Safety, PTL DEF Spec, CallsAdvance

==============================================================================
