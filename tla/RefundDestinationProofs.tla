------------------------ MODULE RefundDestinationProofs ------------------------
(* The refund destination keeps its ledger for any threads, effects, grants, *)
(* limits, failed writes and deaths of the process.                          *)
EXTENDS RefundDestination, FiniteSetTheorems, TLAPS

\* Between taking and releasing the RLock.
Inside == {"load", "observed", "check", "write", "written"}

\* What a request has in hand is the file, or the file and its one effect.
ThreadInv(t) ==
    LET e == req[t].effect IN
    /\ pc[t] # "idle" => req[t] \in Requests
    /\ pc[t] \in Inside => lock = t
    /\ pc[t] \in {"observed", "check"} => state[t] = file
    /\ pc[t] \in {"check", "write", "written"} => req[t].kind \in Kinds
    /\ pc[t] = "write" =>
          /\ file.effects[e] = "absent" /\ file.counts[GrantOf[e]] < LimitOf[e]
          /\ state[t] = WithEffect(file, e, req[t].kind)
    /\ pc[t] = "written" => file.effects[e] # "absent" /\ commits[e] = 0

\* Nothing is counted or acknowledged that is not in the file.
FileInv ==
    /\ CountsAreEffects /\ CapHolds
    /\ \A e \in Effects : commits[e] =< 1 /\ (file.effects[e] = "absent" => commits[e] = 0)

Inv == TypeOK /\ FileInv /\ \A t \in Threads : ThreadInv(t)

\* The ledger counts as this module does.
LEMMA SameCardinality == \A S : Ledger!Cardinality(S) = Cardinality(S)
BY DEF Ledger!Cardinality, Cardinality, Ledger!IsFiniteSet, IsFiniteSet

LEMMA InvInit == Init => Inv
<1> SUFFICES ASSUME Init PROVE Inv
  OBVIOUS
<1>1. TypeOK
  BY DestinationAssumption DEF Init, TypeOK, Files, NewFile, Kinds
<1>2. \A g \in Grants : Ledger!Used(g) = {}
  BY DEF Init, NewFile, Ledger!Used
<1>3. FileInv
  BY <1>2, FS_EmptySet DEF Init, NewFile, FileInv, CountsAreEffects, CapHolds, Ledger!WithinLimit
<1>4. \A t \in Threads : ThreadInv(t)
  BY DEF Init, ThreadInv, Inside
<1> QED
  BY <1>1, <1>3, <1>4 DEF Inv

\* A step of t that touches the file, the lock or the commits has the lock or
\* finds it free; so it is no matter to the requests of other threads.
LEMMA OthersStay ==
    ASSUME Inv, NEW t \in Threads, NEW u \in Threads \ {t},
           pc'[u] = pc[u], req'[u] = req[u], state'[u] = state[u],
           lock = t \/ lock = None \/ (lock' = lock /\ UNCHANGED <<file, commits>>)
    PROVE  ThreadInv(u)'
<1>1. ThreadInv(u) /\ u # None
  BY DestinationAssumption DEF Inv
<1>2. CASE pc[u] \in Inside
  <2>1. lock' = lock /\ UNCHANGED <<file, commits>> /\ lock = u
    BY <1>1, <1>2 DEF ThreadInv
  <2> QED
    BY <1>1, <2>1 DEF ThreadInv
<1>3. CASE pc[u] \notin Inside
  BY <1>1, <1>3 DEF ThreadInv, Inside
<1> QED
  BY <1>2, <1>3

\* Steps that leave the file and the commits alone keep FileInv.
LEMMA FileStays == ASSUME FileInv, UNCHANGED <<file, commits>> PROVE FileInv'
BY DEF FileInv, CountsAreEffects, CapHolds, Ledger!WithinLimit, Ledger!Used

\* A request that ends.
LEMMA Replied ==
    ASSUME Inv, NEW t \in Threads, lock = t, UNCHANGED <<file, calls, commits, crashes>>,
           NEW a \in {"absent", "applied", "partial", "duplicate", "exhausted", "failed",
                      "committed", "timeout"},
           Reply(t, a)
    PROVE  Inv'
<1>1. TypeOK'
  BY DEF Inv, TypeOK, Reply, Goto
<1>2. FileInv'
  BY FileStays DEF Inv
<1>3. \A u \in Threads \ {t} : ThreadInv(u)'
  BY OthersStay DEF Inv, TypeOK, Reply, Goto
<1>4. ThreadInv(t)'
  BY DEF Inv, TypeOK, Reply, Goto, ThreadInv, Inside
<1> QED
  BY <1>1, <1>2, <1>3, <1>4 DEF Inv

------------------------------------------------------------------------------

\* The edit of the file: one effect more, counted once.
LEMMA OneMore ==
    ASSUME Inv, NEW t \in Threads, pc[t] = "write", file' = state[t]
    PROVE  LET e == req[t].effect
           IN  /\ e \in Effects /\ req[t].kind \in Kinds
               /\ file.effects[e] = "absent"
               /\ file' \in Files
               /\ file'.effects = [file.effects EXCEPT ![e] = req[t].kind]
               /\ file'.counts = [file.counts EXCEPT ![GrantOf[e]] = @ + 1]
               /\ file.counts[GrantOf[e]] < LimitOf[e]
<1> DEFINE e == req[t].effect
<1>1. e \in Effects /\ GrantOf[e] \in Grants
  BY DestinationAssumption DEF Inv, ThreadInv, Requests
<1>2. /\ req[t].kind \in Kinds /\ file.effects[e] = "absent"
      /\ file.counts[GrantOf[e]] < LimitOf[e]
      /\ file' = WithEffect(file, e, req[t].kind)
  BY DEF Inv, ThreadInv
<1>3. file \in Files
  BY DEF Inv, TypeOK
<1> HIDE DEF e
<1> DEFINE k == req[t].kind
           g == GrantOf[e]
           effects == [file.effects EXCEPT ![e] = k]
           counts == [file.counts EXCEPT ![g] = @ + 1]
<1>4. effects \in [Effects -> {"absent"} \cup Kinds] /\ counts \in [Grants -> Nat]
  BY <1>1, <1>2, <1>3 DEF Files
<1>5. file' = [effects |-> effects, counts |-> counts]
  BY <1>2 DEF WithEffect
<1> QED
  BY <1>1, <1>2, <1>4, <1>5 DEF Files, e

\* One effect more keeps the counts and the cap.
LEMMA EffectsCounted ==
    ASSUME Inv, NEW t \in Threads, pc[t] = "write", file' = state[t], commits' = commits
    PROVE  FileInv'
<1> PICK e \in Effects, g \in Grants : e = req[t].effect /\ g = GrantOf[e]
  BY OneMore, DestinationAssumption
<1>1. /\ e \in Effects /\ req[t].kind \in Kinds /\ file.effects[e] = "absent"
      /\ file'.effects = [file.effects EXCEPT ![e] = req[t].kind]
      /\ file'.counts = [file.counts EXCEPT ![g] = @ + 1]
      /\ file.counts[g] < LimitOf[e]
  BY OneMore
<1>2. /\ file.effects \in [Effects -> {"absent"} \cup Kinds] /\ file.counts \in [Grants -> Nat]
      /\ g \in Grants /\ LimitOf[e] \in Nat
  BY <1>1, DestinationAssumption DEF Inv, TypeOK, Files
<1>3. req[t].kind # "absent"
  BY <1>1 DEF Kinds
<1>4. \A d \in Effects : file'.effects[d] = IF d = e THEN req[t].kind ELSE file.effects[d]
  BY <1>1, <1>2
<1>5. \A h \in Grants : file'.counts[h] = IF h = g THEN file.counts[h] + 1 ELSE file.counts[h]
  BY <1>1, <1>2
<1>6. Ledger!Used(g)' = Ledger!Used(g) \cup {e} /\ e \notin Ledger!Used(g)
  BY <1>1, <1>3, <1>4 DEF Ledger!Used
<1>7. \A h \in Grants \ {g} : Ledger!Used(h)' = Ledger!Used(h)
  BY <1>3, <1>4 DEF Ledger!Used
<1>8. IsFiniteSet(Ledger!Used(g))
  <2>1. Ledger!Used(g) \in SUBSET Effects
    BY DEF Ledger!Used
  <2> QED
    BY <2>1, DestinationAssumption, FS_Subset
<1>9. Cardinality(Ledger!Used(g)') = Cardinality(Ledger!Used(g)) + 1
  BY ZenonT(60), <1>6, <1>8, FS_AddElement
<1>10. Cardinality(Ledger!Used(g)) = file.counts[g]
  BY <1>2 DEF Inv, FileInv, CountsAreEffects
<1>11. CountsAreEffects'
  <2> SUFFICES ASSUME NEW h \in Grants PROVE file'.counts[h] = Cardinality(Ledger!Used(h)')
    BY DEF CountsAreEffects
  <2>1. CASE h = g
    BY <1>2, <1>5, <1>9, <1>10, <2>1
  <2>2. CASE h # g
    BY <1>5, <1>7, <2>2 DEF Inv, FileInv, CountsAreEffects
  <2> QED
    BY <2>1, <2>2
<1>12. CapHolds'
  <2> SUFFICES ASSUME NEW h \in Grants, Ledger!Used(h)' # {}
               PROVE  \E d \in Ledger!Used(h)' : Cardinality(Ledger!Used(h)') =< LimitOf[d]
    BY SameCardinality DEF CapHolds, Ledger!WithinLimit
  <2>1. CASE h = g
    <3>1. e \in Ledger!Used(g)' /\ file.counts[g] \in Nat
      BY <1>2, <1>6
    <3>2. Cardinality(Ledger!Used(g)') =< LimitOf[e]
      BY <1>1, <1>2, <1>9, <1>10, <3>1
    <3> QED
      BY <2>1, <3>1, <3>2
  <2>2. CASE h # g
    <3>1. Ledger!Used(h)' = Ledger!Used(h)
      BY <1>7, <2>2
    <3> QED
      BY <3>1, SameCardinality DEF Inv, FileInv, CapHolds, Ledger!WithinLimit
  <2> QED
    BY <2>1, <2>2
<1>13. \A d \in Effects : commits'[d] =< 1 /\ (file'.effects[d] = "absent" => commits'[d] = 0)
  BY <1>3, <1>4 DEF Inv, FileInv
<1> QED
  BY <1>11, <1>12, <1>13 DEF FileInv

LEMMA WriteSafe == ASSUME Inv, NEW t \in Threads, WriteState(t) PROVE Inv'
<1> DEFINE e == req[t].effect
<1>1. pc[t] = "write" /\ file' = state[t] /\ UNCHANGED <<lock, req, state, answer, calls, commits, crashes>>
      /\ pc' = [pc EXCEPT ![t] = "written"] /\ lock = t
  BY DEF WriteState, Goto, Inv, ThreadInv, Inside
<1>2. /\ e \in Effects /\ req[t].kind \in Kinds /\ file.effects[e] = "absent" /\ file' \in Files
      /\ file'.effects = [file.effects EXCEPT ![e] = req[t].kind]
  BY <1>1, OneMore
<1>3. TypeOK'
  BY <1>1, <1>2 DEF Inv, TypeOK
<1>4. FileInv'
  BY <1>1, EffectsCounted
<1>5. \A u \in Threads \ {t} : ThreadInv(u)'
  BY <1>1, OthersStay DEF Inv, TypeOK
<1>6. ThreadInv(t)'
  <2>1. file'.effects[e] # "absent" /\ commits[e] = 0
    BY <1>2 DEF Inv, TypeOK, Files, Kinds, FileInv
  <2> QED
    BY <1>1, <2>1 DEF Inv, TypeOK, ThreadInv, Inside
<1> QED
  BY <1>3, <1>4, <1>5, <1>6 DEF Inv

LEMMA CommittedSafe == ASSUME Inv, NEW t \in Threads, Committed(t) PROVE Inv'
<1> DEFINE e == req[t].effect
           a == IF req[t].loseAck THEN "timeout" ELSE "committed"
<1>1. /\ pc[t] = "written" /\ UNCHANGED <<file, calls, crashes>> /\ lock = t /\ Reply(t, a)
      /\ commits' = [commits EXCEPT ![e] = @ + 1]
      /\ file.effects[e] # "absent" /\ commits[e] = 0 /\ e \in Effects
  BY DEF Committed, Inv, ThreadInv, Inside, Requests
<1>2. a \in {"timeout", "committed"}
  OBVIOUS
<1> HIDE DEF e, a
<1>3. commits' \in [Effects -> Nat] /\ \A d \in Effects : commits'[d] = IF d = e THEN 1 ELSE commits[d]
  BY <1>1 DEF Inv, TypeOK
<1>4. TypeOK'
  BY <1>1, <1>2, <1>3 DEF Inv, TypeOK, Reply, Goto
<1>5. FileInv'
  <2>1. CountsAreEffects' /\ CapHolds'
    BY <1>1 DEF Inv, FileInv, CountsAreEffects, CapHolds, Ledger!WithinLimit, Ledger!Used
  <2> QED
    BY <1>1, <1>3, <2>1 DEF Inv, FileInv
<1>6. \A u \in Threads \ {t} : ThreadInv(u)'
  BY <1>1, OthersStay DEF Inv, TypeOK, Reply, Goto
<1>7. ThreadInv(t)'
  BY <1>1 DEF Inv, TypeOK, Reply, Goto, ThreadInv, Inside
<1> QED
  BY <1>4, <1>5, <1>6, <1>7 DEF Inv

LEMMA EditSafe == ASSUME Inv, NEW t \in Threads, Edit(t) PROVE Inv'
<1> DEFINE e == req[t].effect
           edited == WithEffect(file, e, req[t].kind)
<1>1. /\ pc[t] = "check" /\ state[t] = file /\ lock = t /\ req[t] \in Requests
      /\ req[t].kind \in Kinds
  BY DEF Edit, Inv, ThreadInv, Inside
<1>2. /\ file.effects[e] = "absent" /\ file.counts[GrantOf[e]] < LimitOf[e]
      /\ state' = [state EXCEPT ![t] = edited]
      /\ pc' = [pc EXCEPT ![t] = "write"]
      /\ UNCHANGED <<file, lock, req, answer, calls, commits, crashes>>
  BY <1>1 DEF Edit, Goto
<1>3. e \in Effects /\ GrantOf[e] \in Grants
  BY <1>1, DestinationAssumption DEF Requests
<1>4. edited \in Files
  <2> HIDE DEF e
  <2> DEFINE effects == [file.effects EXCEPT ![e] = req[t].kind]
             counts == [file.counts EXCEPT ![GrantOf[e]] = @ + 1]
  <2>1. effects \in [Effects -> {"absent"} \cup Kinds] /\ counts \in [Grants -> Nat]
    BY <1>1, <1>3 DEF Inv, TypeOK, Files
  <2>2. edited = [effects |-> effects, counts |-> counts]
    BY DEF WithEffect
  <2> QED
    BY <2>1, <2>2 DEF Files
<1> HIDE DEF edited
<1>5. /\ state' \in [Threads -> Files \cup {None}] /\ state'[t] = edited
      /\ \A u \in Threads \ {t} : state'[u] = state[u]
  BY <1>2, <1>4 DEF Inv, TypeOK
<1>6. TypeOK'
  BY <1>2, <1>5 DEF Inv, TypeOK
<1>7. FileInv'
  BY <1>2, FileStays DEF Inv
<1>8. \A u \in Threads \ {t} : ThreadInv(u)'
  BY <1>1, <1>2, <1>5, OthersStay DEF Inv, TypeOK
<1>9. ThreadInv(t)'
  <2>1. pc'[t] = "write" /\ UNCHANGED <<req, file, lock, commits>>
    BY <1>2 DEF Inv, TypeOK
  <2> QED
    BY <1>1, <1>2, <1>5, <2>1 DEF ThreadInv, Inside, edited
<1> QED
  BY <1>6, <1>7, <1>8, <1>9 DEF Inv

LEMMA TakeLockSafe == ASSUME Inv, NEW t \in Threads, TakeLock(t) PROVE Inv'
<1>1. TypeOK'
  BY DEF Inv, TypeOK, TakeLock, Goto
<1>2. FileInv'
  BY FileStays DEF Inv, TakeLock
<1>3. \A u \in Threads \ {t} : ThreadInv(u)'
  BY OthersStay DEF Inv, TypeOK, TakeLock, Goto
<1>4. ThreadInv(t)'
  BY DEF Inv, TypeOK, TakeLock, Goto, ThreadInv, Inside
<1> QED
  BY <1>1, <1>2, <1>3, <1>4 DEF Inv

LEMMA LoadSafe == ASSUME Inv, NEW t \in Threads, LoadState(t) PROVE Inv'
<1>1. TypeOK'
  BY DEF Inv, TypeOK, LoadState, Goto
<1>2. FileInv'
  BY FileStays DEF Inv, LoadState
<1>3. \A u \in Threads \ {t} : ThreadInv(u)'
  BY OthersStay DEF Inv, TypeOK, LoadState, Goto
<1>4. ThreadInv(t)'
  BY DEF Inv, TypeOK, LoadState, Goto, ThreadInv, Inside, Requests, Kinds
<1> QED
  BY <1>1, <1>2, <1>3, <1>4 DEF Inv

LEMMA RequestSafe == ASSUME Inv, NEW t \in Threads, NEW r \in Requests, Request(t, r) PROVE Inv'
<1>1. TypeOK'
  BY DestinationAssumption DEF Inv, TypeOK, Request, Goto
<1>2. FileInv'
  BY FileStays DEF Inv, Request
<1>3. \A u \in Threads \ {t} : ThreadInv(u)'
  BY OthersStay DEF Inv, TypeOK, Request, Goto
<1>4. ThreadInv(t)'
  BY DEF Inv, TypeOK, Request, Goto, ThreadInv, Inside
<1> QED
  BY <1>1, <1>2, <1>3, <1>4 DEF Inv

LEMMA ReplySafe ==
    ASSUME Inv, NEW t \in Threads, Observe(t) \/ Duplicate(t) \/ Exhausted(t) \/ Fail(t)
    PROVE  Inv'
<1>1. lock = t /\ req[t].effect \in Effects /\ UNCHANGED <<file, calls, commits, crashes>>
  BY DEF Inv, ThreadInv, Inside, Requests, Observe, Duplicate, Exhausted, Fail
<1>2. CASE Observe(t)
  <2> DEFINE a == state[t].effects[req[t].effect]
  <2>1. a \in {"absent", "applied", "partial"}
    BY <1>1, <1>2 DEF Inv, ThreadInv, TypeOK, Files, Kinds, Observe
  <2>2. Reply(t, a)
    BY <1>2 DEF Observe
  <2> HIDE DEF a
  <2> QED
    BY <1>1, <2>1, <2>2, Replied
<1>3. CASE Duplicate(t)
  BY <1>1, <1>3, Replied DEF Duplicate
<1>4. CASE Exhausted(t)
  BY <1>1, <1>4, Replied DEF Exhausted
<1>5. CASE Fail(t)
  BY <1>1, <1>5, Replied DEF Fail
<1> QED
  BY <1>2, <1>3, <1>4, <1>5

\* Death of the process forgets every request and leaves the file.
LEMMA CrashSafe == ASSUME Inv, Crash PROVE Inv'
<1>1. TypeOK'
  BY DestinationAssumption DEF Inv, TypeOK, Crash
<1>2. FileInv'
  BY FileStays DEF Inv, Crash
<1>3. \A u \in Threads : ThreadInv(u)'
  BY DEF Crash, ThreadInv, Inside
<1> QED
  BY <1>1, <1>2, <1>3 DEF Inv

LEMMA InvStep == Inv /\ [Next]_vars => Inv'
<1> SUFFICES ASSUME Inv, [Next]_vars PROVE Inv'
  OBVIOUS
<1>1. CASE \E t \in Threads : Step(t)
  BY <1>1, TakeLockSafe, LoadSafe, ReplySafe, EditSafe, WriteSafe, CommittedSafe DEF Step
<1>2. CASE \E t \in Threads, r \in Requests : Request(t, r)
  BY <1>2, RequestSafe
<1>3. CASE Crash
  BY <1>3, CrashSafe
<1>4. CASE UNCHANGED vars
  BY <1>4 DEF vars, Inv, TypeOK, FileInv, CountsAreEffects, CapHolds, Ledger!WithinLimit,
     Ledger!Used, ThreadInv
<1> QED
  BY <1>1, <1>2, <1>3, <1>4 DEF Next

\* The lock, the file and what each request has in hand stay as Inv says.
THEOREM InvHolds == Spec => []Inv
BY InvInit, InvStep, PTL DEF Spec

\* Every variable keeps its type; a count never leaves the naturals.
THEOREM TypeCorrect == Spec => []TypeOK
<1>1. Inv => TypeOK
  BY DEF Inv
<1> QED
  BY <1>1, InvHolds, PTL

\* The counter of a grant is the number of its effects.
THEOREM CountsHold == Spec => []CountsAreEffects
<1>1. Inv => CountsAreEffects
  BY DEF Inv, FileInv
<1> QED
  BY <1>1, InvHolds, PTL

\* No grant has more effects than the limit of the one that came last.
THEOREM CapNeverExceeded == Spec => []CapHolds
<1>1. Inv => CapHolds
  BY DEF Inv, FileInv
<1> QED
  BY <1>1, InvHolds, PTL

\* At most one request is told that it committed the effect.
THEOREM OneCommit == Spec => []OneCommitPerEffect
<1>1. Inv => OneCommitPerEffect
  BY DEF Inv, FileInv, OneCommitPerEffect
<1> QED
  BY <1>1, InvHolds, PTL

\* The rename is the ledger's commit.
LEMMA WriteCommits ==
    ASSUME Inv, NEW t \in Threads, WriteState(t)
    PROVE  Ledger!Next
<1> PICK e \in Effects, g \in Grants, kind \in Kinds :
        e = req[t].effect /\ g = GrantOf[e] /\ kind = req[t].kind
  BY OneMore, DestinationAssumption DEF WriteState
<1>1. /\ file.effects[e] = "absent" /\ file.counts[g] < LimitOf[e]
      /\ file'.effects = [file.effects EXCEPT ![e] = kind]
  BY OneMore DEF WriteState
<1>2. Ledger!Cardinality(Ledger!Used(g)) = file.counts[g]
  BY SameCardinality DEF Inv, FileInv, CountsAreEffects
<1>3. Ledger!Commit(e, kind)
  BY <1>1, <1>2 DEF Ledger!Commit
<1> QED
  BY <1>3 DEF Ledger!Next, Ledger!Kinds, Kinds

\* The destination is the ledger: no step but the rename changes it.
THEOREM Implements == Spec => ImplementsLedger
<1>1. Init => Ledger!Init
  BY DEF Init, NewFile, Ledger!Init
<1>2. Inv /\ [Next]_vars => [Ledger!Next]_(file.effects)
  <2> SUFFICES ASSUME Inv, [Next]_vars, file' # file PROVE Ledger!Next
    OBVIOUS
  <2>1. PICK t \in Threads : WriteState(t)
    BY DEF Next, Step, vars, TakeLock, LoadState, Observe, Duplicate, Exhausted, Edit, Fail,
       Committed, Request, Crash
  <2> QED
    BY <2>1, WriteCommits
<1> QED
  BY <1>1, <1>2, InvHolds, PTL DEF Spec, ImplementsLedger, Ledger!Spec
------------------------------------------------------------------------------
(* Progress: what of RequestsAnswered is a safety property. *)

\* The owner of the RLock is inside apply or observe, and nobody else is: no
\* answer, refusal, raised call or death leaves it taken.
LockOwned ==
    /\ \A t \in Threads : pc[t] \in Inside => lock = t
    /\ lock # None => pc[lock] \in Inside

\* The guards of Step.
CanGoOn(t) ==
    \/ pc[t] = "lock" /\ lock = None
    \/ pc[t] \in {"load", "observed", "write", "written"}
    \/ /\ pc[t] = "check"
       /\ LET e == req[t].effect
              used == state[t].counts[GrantOf[e]]
          IN  state[t].effects[e] # "absent" \/ used >= LimitOf[e] \/ used < LimitOf[e]

\* A request that cannot go on waits for one that can.
NoDeadlock == \A t \in Threads : pc[t] # "idle" =>
    CanGoOn(t) \/ (pc[t] = "lock" /\ lock \in Threads /\ CanGoOn(lock))

\* How many steps a request has left at most.
StepsLeft == [s \in {"idle"} \cup {"lock"} \cup Inside |->
    CASE s = "lock" -> 5 [] s = "load" -> 4 [] s = "check" -> 3 [] s = "write" -> 2
      [] s \in {"observed", "written"} -> 1 [] s = "idle" -> 0]

Forward(t) == \/ pc'[t] = pc[t]
              \/ pc[t] = "idle"
              \/ StepsLeft[pc'[t]] < StepsLeft[pc[t]]

\* A request that was made never goes back to a step it has done.
RequestsAdvance == [][\A t \in Threads : Forward(t)]_vars

LEMMA LockStep == Inv /\ LockOwned /\ [Next]_vars => LockOwned'
<1> SUFFICES ASSUME Inv, LockOwned, [Next]_vars PROVE LockOwned'
  OBVIOUS
<1>0. /\ pc \in [Threads -> {"idle", "lock", "load", "observed", "check", "write", "written"}]
      /\ lock \in Threads \cup {None} /\ None \notin Threads
  BY DestinationAssumption DEF Inv, TypeOK
<1>1. ASSUME NEW t \in Threads, NEW r \in Requests, Request(t, r) PROVE LockOwned'
  BY <1>0, <1>1 DEF Request, Goto, LockOwned, Inside
<1>2. ASSUME NEW t \in Threads, TakeLock(t) PROVE LockOwned'
  BY <1>0, <1>2 DEF TakeLock, Goto, LockOwned, Inside
<1>3. ASSUME NEW t \in Threads, LoadState(t) \/ Edit(t) \/ WriteState(t) PROVE LockOwned'
  BY <1>0, <1>3 DEF LoadState, Edit, WriteState, Goto, LockOwned, Inside
<1>4. ASSUME NEW t \in Threads, NEW a, pc[t] \in Inside, Reply(t, a) PROVE LockOwned'
  BY <1>0, <1>4 DEF Reply, Goto, LockOwned, Inside
<1>5. ASSUME NEW t \in Threads, Observe(t) \/ Duplicate(t) \/ Exhausted(t) \/ Fail(t) \/ Committed(t)
      PROVE  LockOwned'
  BY <1>4, <1>5 DEF Observe, Duplicate, Exhausted, Fail, Committed, Inside
<1>6. CASE Crash
  BY <1>0, <1>6 DEF Crash, LockOwned, Inside
<1>7. CASE UNCHANGED vars
  BY <1>7 DEF vars, LockOwned
<1> QED
  BY <1>1, <1>2, <1>3, <1>5, <1>6, <1>7 DEF Next, Step

\* The RLock has its owner, in every interleaving of requests, refusals,
\* failed writes, lost acknowledgements and deaths of the process.
THEOREM LockIsOwned == Spec => []LockOwned
<1>1. Init => LockOwned
  BY DEF Init, LockOwned, Inside
<1> QED
  BY <1>1, LockStep, InvHolds, PTL DEF Spec

\* The checks of apply leave no case open and the lock is always on its way
\* back: no deadlock.
THEOREM NeverDeadlocked == Spec => []NoDeadlock
<1>1. Inv /\ LockOwned => NoDeadlock
  <2> SUFFICES ASSUME Inv, LockOwned, NEW t \in Threads, pc[t] # "idle"
               PROVE  CanGoOn(t) \/ (pc[t] = "lock" /\ lock \in Threads /\ CanGoOn(lock))
    BY DEF NoDeadlock
  <2>1. ASSUME NEW u \in Threads, pc[u] \in Inside PROVE CanGoOn(u)
    <3>1. CASE pc[u] = "check"
      <4> PICK e \in Effects, g \in Grants : e = req[u].effect /\ g = GrantOf[e]
        BY <3>1, DestinationAssumption DEF Inv, ThreadInv, Requests
      <4>1. state[u].counts[g] \in Nat /\ LimitOf[e] \in Nat
        BY <3>1, DestinationAssumption DEF Inv, ThreadInv, TypeOK, Files
      <4>2. state[u].counts[g] >= LimitOf[e] \/ state[u].counts[g] < LimitOf[e]
        BY <4>1
      <4> QED
        BY <3>1, <4>2 DEF CanGoOn
    <3> QED
      BY <2>1, <3>1 DEF CanGoOn, Inside
  <2>2. pc[t] = "lock" \/ pc[t] \in Inside
    BY DEF Inv, TypeOK, Inside
  <2>3. lock # None => lock \in Threads /\ CanGoOn(lock)
    BY <2>1 DEF LockOwned, Inv, TypeOK
  <2> QED
    BY <2>1, <2>2, <2>3 DEF CanGoOn
<1> QED
  BY <1>1, LockIsOwned, InvHolds, PTL

\* A request is at most five steps of its own: what separates this and
\* NeverDeadlocked from RequestsAnswered is that the steps are taken.
THEOREM RequestsOnlyAdvance == Spec => RequestsAdvance
<1>1. Inv /\ [Next]_vars => \A t \in Threads : Forward(t)
  <2> SUFFICES ASSUME Inv, Next, NEW t \in Threads, pc'[t] # pc[t], pc[t] # "idle"
               PROVE  StepsLeft[pc'[t]] < StepsLeft[pc[t]]
    BY DEF vars, Forward
  <2>0. pc \in [Threads -> {"idle", "lock", "load", "observed", "check", "write", "written"}]
    BY DEF Inv, TypeOK
  <2>1. /\ StepsLeft["lock"] = 5 /\ StepsLeft["load"] = 4 /\ StepsLeft["check"] = 3
        /\ StepsLeft["write"] = 2 /\ StepsLeft["observed"] = 1 /\ StepsLeft["written"] = 1
        /\ StepsLeft["idle"] = 0
    BY DEF StepsLeft, Inside
  <2>2. ASSUME NEW u \in Threads, NEW r \in Requests, Request(u, r) PROVE FALSE
    BY <2>0, <2>2 DEF Request, Goto
  <2>3. ASSUME pc'[t] = "idle" PROVE StepsLeft[pc'[t]] < StepsLeft[pc[t]]
    BY <2>0, <2>1, <2>3
  <2>4. ASSUME NEW u \in Threads, NEW a, Reply(u, a) PROVE pc'[t] = "idle"
    BY <2>0, <2>4 DEF Reply, Goto
  <2>5. ASSUME NEW u \in Threads, TakeLock(u) \/ LoadState(u) \/ Edit(u) \/ WriteState(u)
        PROVE  StepsLeft[pc'[t]] < StepsLeft[pc[t]]
    <3>1. \/ pc[t] = "lock" /\ pc'[t] = "load"
          \/ pc[t] = "load" /\ pc'[t] \in {"observed", "check"}
          \/ pc[t] = "check" /\ pc'[t] = "write"
          \/ pc[t] = "write" /\ pc'[t] = "written"
      BY <2>0, <2>5 DEF TakeLock, LoadState, Edit, WriteState, Goto
    <3> QED
      BY <2>1, <3>1
  <2>6. CASE Crash
    BY <2>3, <2>6 DEF Crash
  <2> QED
    BY <2>2, <2>3, <2>4, <2>5, <2>6
       DEF Next, Step, Observe, Duplicate, Exhausted, Fail, Committed
<1> QED
  BY <1>1, InvHolds, PTL DEF Spec, RequestsAdvance

==============================================================================
