--------------------------- MODULE RecordStoreProofs ---------------------------
(***************************************************************************)
(* Theorems about RecordStore, for any number of threads, instances,       *)
(* fields, calls and crashes.                                              *)
(***************************************************************************)
EXTENDS RecordStore, TLAPS

------------------------------------------------------------------------------
(* Documents. *)

\* A new record holds no entry.
LEMMA EmptyDocument ==
    /\ Empty \in Documents
    /\ \A c : ~Log!Holds(Empty, c)
    /\ Once(Empty)
BY DEF Empty, Documents, Log!Holds, Once

\* Appending an entry keeps every list and adds that entry to one of them.
LEMMA EntryAdded ==
    ASSUME NEW d \in Documents, NEW f \in Fields, NEW c \in Calls
    PROVE  /\ WithEntry(d, f, c) \in Documents
           /\ \A x : Log!Holds(WithEntry(d, f, c), x) <=> Log!Holds(d, x) \/ x = c
<1> DEFINE e == WithEntry(d, f, c)
<1>1. d[f] \in Seq(Calls) /\ e[f] = Append(d[f], c)
  BY DEF Documents, WithEntry
<1>2. \A g \in Fields \ {f} : e[g] = d[g]
  BY DEF Documents, WithEntry
<1>3. e \in Documents
  BY DEF Documents, WithEntry
<1>4. ASSUME NEW x, Log!Holds(d, x) PROVE Log!Holds(e, x)
  <2>1. PICK g \in Fields : \E k \in DOMAIN d[g] : d[g][k] = x
    BY <1>4 DEF Log!Holds
  <2>2. PICK k \in DOMAIN d[g] : d[g][k] = x
    BY <2>1
  <2>3. k \in DOMAIN e[g] /\ e[g][k] = x
    BY <1>1, <1>2, <2>2
  <2> QED
    BY <2>3 DEF Log!Holds
<1>5. Log!Holds(e, c)
  <2>1. Len(d[f]) + 1 \in DOMAIN e[f] /\ e[f][Len(d[f]) + 1] = c
    BY <1>1
  <2> QED
    BY <2>1 DEF Log!Holds
<1>6. ASSUME NEW x, Log!Holds(e, x), x # c PROVE Log!Holds(d, x)
  <2>1. PICK g \in Fields : \E k \in DOMAIN e[g] : e[g][k] = x
    BY <1>6 DEF Log!Holds
  <2>2. PICK k \in DOMAIN e[g] : e[g][k] = x
    BY <2>1
  <2>3. k \in DOMAIN d[g] /\ d[g][k] = x
    BY <1>1, <1>2, <1>6, <2>2
  <2> QED
    BY <2>3 DEF Log!Holds
<1> QED
  BY <1>3, <1>4, <1>5, <1>6

\* An entry that is new to a document is in it once, and leaves the others so.
LEMMA AddedOnce ==
    ASSUME NEW d \in Documents, NEW f \in Fields, NEW c \in Calls,
           Once(d), ~Log!Holds(d, c)
    PROVE  Once(WithEntry(d, f, c))
<1> DEFINE e == WithEntry(d, f, c)
<1>1. d[f] \in Seq(Calls) /\ e[f] = Append(d[f], c)
  BY DEF Documents, WithEntry
<1>2. \A g \in Fields \ {f} : e[g] = d[g]
  BY DEF Documents, WithEntry
<1>3. ASSUME NEW g \in Fields, NEW k \in DOMAIN e[g]
      PROVE  \/ k \in DOMAIN d[g] /\ e[g][k] = d[g][k] /\ e[g][k] # c
             \/ g = f /\ k = Len(d[f]) + 1 /\ e[g][k] = c
  <2>1. CASE k \in DOMAIN d[g]
    <3>1. e[g][k] = d[g][k]
      BY <1>1, <1>2, <2>1
    <3> QED
      BY <2>1, <3>1 DEF Log!Holds
  <2>2. CASE k \notin DOMAIN d[g]
    BY <1>1, <1>2, <2>2
  <2> QED
    BY <2>1, <2>2
<1>4. ASSUME NEW g \in Fields, NEW h \in Fields, NEW j \in DOMAIN e[g], NEW k \in DOMAIN e[h],
             e[g][j] = e[h][k]
      PROVE  g = h /\ j = k
  <2>1. CASE e[g][j] = c
    BY <1>3, <1>4, <2>1
  <2>2. CASE e[g][j] # c
    <3>1. j \in DOMAIN d[g] /\ k \in DOMAIN d[h] /\ d[g][j] = d[h][k]
      BY <1>3, <1>4, <2>2
    <3> QED
      BY <3>1 DEF Once
  <2> QED
    BY <2>1, <2>2
<1> QED
  BY <1>4 DEF Once

------------------------------------------------------------------------------
(* Types. *)

\* TypeOK is not inductive: that Replace puts a document at the path rests on
\* the thread having prepared one before it reached the write.
Prepared == \A t \in Threads : pc[t] \in {"write", "replace"} => work[t] \in Documents

Typed == TypeOK /\ Prepared

\* One step keeps the types.
LEMMA TypedStep == Typed /\ [Next]_vars => Typed'
<1> SUFFICES ASSUME Typed, [Next]_vars PROVE Typed'
  OBVIOUS
<1> USE InstanceAssumption, BoundAssumption
<1>0. \A t \in Threads : field[t] \in Fields /\ CallOf(t) \in Calls
  BY DEF Typed, TypeOK, CallOf, Calls
<1>1. ASSUME NEW t \in Threads, NEW f \in Fields, NEW o \in {"construct", "load", "append"},
             Begin(t, o, f)
      PROVE  Typed'
  BY <1>1 DEF Typed, TypeOK, Prepared, Begin, Goto, Steps
<1>2. ASSUME NEW t \in Threads, Construct(t) PROVE Typed'
  BY <1>0, <1>1, <1>2 DEF Construct
<1>3. ASSUME NEW t \in Threads, Load(t) PROVE Typed'
  BY <1>0, <1>1, <1>3 DEF Load
<1>4. ASSUME NEW t \in Threads, NEW f \in Fields, AppendTo(t, f) PROVE Typed'
  BY <1>1, <1>4 DEF AppendTo
<1>5. ASSUME NEW t \in Threads, TakeRLock(t) PROVE Typed'
  BY <1>5 DEF Typed, TypeOK, Prepared, TakeRLock, Goto, Steps
<1>6. ASSUME NEW t \in Threads, TakeFlock(t) PROVE Typed'
  BY <1>6 DEF Typed, TypeOK, Prepared, TakeFlock, Goto, Steps
<1>7. ASSUME NEW t \in Threads, Read(t) PROVE Typed'
  <2>1. CASE ReadForConstruct(t)
    BY <1>7, <2>1, EmptyDocument
       DEF Typed, TypeOK, Prepared, Read, ReadForConstruct, Goto, Steps
  <2>2. CASE ReadForLoad(t)
    BY <1>7, <2>2 DEF Typed, TypeOK, Prepared, Read, ReadForLoad, Goto, Steps
  <2>3. CASE ReadForAppend(t)
    <3>1. doc \in Documents
      BY <2>3 DEF Typed, TypeOK, ReadForAppend
    <3>2. WithEntry(doc, field[t], CallOf(t)) \in Documents
      BY <1>0, <3>1, EntryAdded
    <3> QED
      BY <1>7, <2>3, <3>2 DEF Typed, TypeOK, Prepared, Read, ReadForAppend, Goto, Steps
  <2> QED
    BY <1>7, <2>1, <2>2, <2>3 DEF Read
<1>8. ASSUME NEW t \in Threads, WriteTemp(t) PROVE Typed'
  BY <1>8 DEF Typed, TypeOK, Prepared, WriteTemp, Goto, Steps
<1>9. ASSUME NEW t \in Threads, Replace(t) PROVE Typed'
  BY <1>9 DEF Typed, TypeOK, Prepared, Replace, Goto, Steps
<1>10. ASSUME NEW t \in Threads, SyncDirectory(t) PROVE Typed'
  BY <1>10 DEF Typed, TypeOK, Prepared, SyncDirectory, Goto, Steps
<1>11. ASSUME NEW t \in Threads, Raise(t) PROVE Typed'
  BY <1>11 DEF Typed, TypeOK, Prepared, Raise, Goto, Steps
<1>12. ASSUME NEW t \in Threads, Release(t) PROVE Typed'
  BY <1>0, <1>12 DEF Typed, TypeOK, Prepared, Release, Goto, Steps
<1>13. ASSUME NEW i \in Instances, ProcessDies(i) PROVE Typed'
  BY <1>13 DEF Typed, TypeOK, Prepared, ProcessDies, Kill, Steps
<1>14. CASE HostStops
  BY <1>14 DEF Typed, TypeOK, Prepared, HostStops, Kill, Steps
<1>15. CASE UNCHANGED vars
  BY <1>15 DEF Typed, TypeOK, Prepared, vars
<1> QED
  BY <1>2, <1>3, <1>4, <1>5, <1>6, <1>7, <1>8, <1>9, <1>10, <1>11, <1>12, <1>13,
     <1>14, <1>15 DEF Next, Transaction, Advance

\* Whatever is read, raised, crashed or restarted, every variable keeps to its
\* type and only documents are ever put at the record's path.
THEOREM TypeCorrect == Spec => [](TypeOK /\ Prepared)
<1>1. Init => Typed
  BY EmptyDocument, InstanceAssumption, BoundAssumption
     DEF Init, Typed, TypeOK, Prepared, Steps
<1> QED
  BY <1>1, TypedStep, PTL DEF Spec, Typed

------------------------------------------------------------------------------
(* Acknowledged entries are kept. *)

\* Two threads are never between read and directory fsync together.
LEMMA OneInside ==
    ASSUME LockInv, NEW t \in Threads, NEW u \in Threads,
           pc[t] \in Critical, pc[u] \in Critical
    PROVE  t = u
BY DEF LockInv

\* Replace keeps the invariant.
LEMMA ReplaceSafe == ASSUME Typed, Safe, NEW t \in Threads, Replace(t) PROVE Safe'
<1> DEFINE w == work[t]
<1>0. /\ pc[t] = "replace" /\ pc' = [pc EXCEPT ![t] = "dirsync"]
      /\ doc' = w /\ disk' = disk \cup {w}
      /\ UNCHANGED <<flock, op, field, work, result, calls, acked>>
  BY DEF Replace, Goto
<1>1. /\ pc \in [Threads -> Steps] /\ calls \in [Threads -> 0..MaxCalls]
      /\ field[t] \in Fields /\ CallOf(t) \in Calls /\ w \in Documents
  BY <1>0 DEF Typed, TypeOK, Prepared, CallOf, Calls
<1>2. /\ pc'[t] = "dirsync"
      /\ \A u \in Threads \ {t} : pc'[u] = pc[u] /\ pc[u] \notin Critical
  BY <1>0, <1>1, OneInside DEF Safe, Critical
<1>3. doc \in disk /\ doc # Corrupt
  <2>1. Corrupt \notin Documents /\ NoFile # Corrupt
    BY DistinctAssumption DEF Documents, Calls
  <2> QED
    BY <1>0, <2>1 DEF Safe, DiskInv, WorkInv
<1>4. ~Log!Holds(w, CallOf(t)) => op[t] = "construct"
  <2>1. CASE op[t] = "construct"
    BY <2>1
  <2>2. CASE op[t] = "append" /\ doc \in Documents /\ w = WithEntry(doc, field[t], CallOf(t))
    BY <1>1, <2>2, EntryAdded
  <2> QED
    BY <1>0, <2>1, <2>2 DEF Safe, WorkInv
<1>5. \A c : Log!Holds(w, c) => c = CallOf(t) \/ (doc \in Documents /\ Log!Holds(doc, c))
  <2>1. CASE w = Empty
    BY <2>1, EmptyDocument
  <2>2. CASE op[t] = "append" /\ doc \in Documents /\ w = WithEntry(doc, field[t], CallOf(t))
    BY <1>1, <2>2, EntryAdded
  <2> QED
    BY <1>0, <2>1, <2>2 DEF Safe, WorkInv
<1>6. Settled' = Settled
  <2>1. \A u \in Threads : CallOf(u)' = CallOf(u)
    BY <1>0 DEF CallOf
  <2> QED
    BY <1>0, <1>2, <2>1 DEF Settled
<1>7. LockInv'
  BY <1>0, <1>2 DEF Safe, LockInv, Critical
<1>8. WorkInv'
  BY <1>2 DEF WorkInv, Critical
<1>9. FreshInv'
  <2> SUFFICES ASSUME NEW d \in disk' \cap Documents, NEW u \in Threads, NEW n \in 0..MaxCalls,
                      n > calls[u] \/ (n = calls[u] /\ pc'[u] \in Pending),
                      Log!Holds(d, <<u, n>>)
               PROVE  FALSE
    BY <1>0 DEF FreshInv, Log!Holds
  <2>1. n > calls[u] \/ (n = calls[u] /\ pc[u] \in Pending)
    BY <1>0, <1>2 DEF Pending
  <2>2. CASE d \in disk
    BY <2>1, <2>2 DEF Safe, FreshInv
  <2>3. CASE d = w
    <3>1. CASE <<u, n>> = CallOf(t)
      <4>1. u = t /\ n = calls[t]
        BY <3>1 DEF CallOf
      <4> QED
        BY <1>1, <1>2, <4>1 DEF Pending
    <3>2. CASE doc \in Documents /\ Log!Holds(doc, <<u, n>>)
      BY <1>3, <2>1, <3>2 DEF Safe, FreshInv
    <3> QED
      BY <1>5, <2>3, <3>1, <3>2
  <2> QED
    BY <1>0, <2>2, <2>3
<1>10. SettledInv'
  <2> SUFFICES ASSUME NEW c \in Settled, NEW d \in disk'
               PROVE  d \in Documents /\ Log!Holds(d, c)
    BY <1>6 DEF SettledInv, Log!Holds
  <2>1. doc \in Documents /\ Log!Holds(doc, c)
    BY <1>3 DEF Safe, SettledInv
  <2>2. NoFile \notin Documents
    BY DistinctAssumption DEF Documents, Calls
  <2>3. w = WithEntry(doc, field[t], CallOf(t))
    BY <1>0, <2>1, <2>2 DEF Safe, WorkInv
  <2>4. Log!Holds(w, c)
    BY <1>1, <2>1, <2>3, EntryAdded
  <2> QED
    BY <1>0, <1>1, <2>4 DEF Safe, SettledInv
<1>11. WrittenInv'
  <2> SUFFICES ASSUME op[t] = "append" PROVE w \in Documents /\ Log!Holds(w, CallOf(t))
    BY <1>0, <1>2 DEF WrittenInv, Critical, CallOf, Log!Holds
  <2> QED
    BY <1>1, <1>4
<1>12. OnceInv'
  <2>1. Once(w)
    <3>1. CASE w = Empty
      BY <3>1, EmptyDocument
    <3>2. CASE op[t] = "append" /\ doc \in Documents /\ w = WithEntry(doc, field[t], CallOf(t))
      <4>1. ~Log!Holds(doc, CallOf(t))
        BY <1>0, <1>1, <1>3, <3>2 DEF Safe, FreshInv, CallOf, Pending
      <4>2. Once(doc)
        BY <1>3, <3>2 DEF Safe, OnceInv
      <4> QED
        BY <1>1, <3>2, <4>1, <4>2, AddedOnce
    <3> QED
      BY <1>0, <3>1, <3>2 DEF Safe, WorkInv
  <2> QED
    BY <1>0, <2>1 DEF Safe, OnceInv, Once
<1>13. DiskInv'
  <2>1. w # Corrupt
    BY <1>1, DistinctAssumption DEF Documents, Calls
  <2> QED
    BY <1>0, <2>1 DEF DiskInv
<1> QED
  BY <1>7, <1>8, <1>9, <1>10, <1>11, <1>12, <1>13 DEF Safe

\* A step that writes neither the record nor its versions on disk keeps the
\* invariant if it keeps to the locks, brings no call back to before its
\* rename and acknowledges only settled calls.
LEMMA QuietSafe ==
    ASSUME Safe, doc' = doc, disk' = disk, LockInv', WorkInv',
           \A u \in Threads : \A n \in 0..MaxCalls :
              n > calls'[u] \/ (n = calls'[u] /\ pc'[u] \in Pending)
                 => n > calls[u] \/ (n = calls[u] /\ pc[u] \in Pending),
           Settled' \subseteq Settled,
           \A u \in Threads : pc'[u] = "dirsync" =>
              pc[u] = "dirsync" /\ op'[u] = op[u] /\ calls'[u] = calls[u]
    PROVE  Safe'
<1>1. FreshInv'
  BY DEF Safe, FreshInv, Log!Holds
<1>2. SettledInv'
  BY DEF Safe, SettledInv, Log!Holds
<1>3. WrittenInv'
  BY DEF Safe, WrittenInv, CallOf, Log!Holds
<1>4. OnceInv' /\ DiskInv'
  BY DEF Safe, OnceInv, Once, DiskInv
<1> QED
  BY <1>1, <1>2, <1>3, <1>4 DEF Safe

\* The start of an operation, with a call number nobody has used.
LEMMA BeginSafe ==
    ASSUME Typed, Safe, NEW t \in Threads, NEW o, NEW f, Begin(t, o, f)
    PROVE  Safe'
<1>1. /\ pc[t] = "idle" /\ pc' = [pc EXCEPT ![t] = "rlock"]
      /\ calls' = [calls EXCEPT ![t] = @ + 1]
      /\ op' = [op EXCEPT ![t] = o] /\ field' = [field EXCEPT ![t] = f]
      /\ UNCHANGED <<doc, disk, flock, work, result, acked>>
  BY DEF Begin, Goto
<1>2. /\ pc \in [Threads -> Steps] /\ calls \in [Threads -> 0..MaxCalls]
      /\ op \in [Threads -> {"none", "construct", "load", "append"}]
      /\ field \in [Threads -> Fields] /\ result \in [Threads -> {"ok", "raised"}]
  BY DEF Typed, TypeOK
<1>3. /\ pc'[t] = "rlock" /\ calls'[t] = calls[t] + 1
      /\ \A u \in Threads \ {t} : /\ pc'[u] = pc[u] /\ calls'[u] = calls[u]
                                  /\ op'[u] = op[u] /\ field'[u] = field[u]
                                  /\ result'[u] = result[u]
  BY <1>1, <1>2
<1>4. LockInv' /\ WorkInv'
  BY <1>1, <1>3 DEF Safe, LockInv, WorkInv, Critical, CallOf
<1>5. Settled' \subseteq Settled
  BY <1>1, <1>3 DEF Settled, CallOf
<1>6. \A u \in Threads : \A n \in 0..MaxCalls :
         n > calls'[u] \/ (n = calls'[u] /\ pc'[u] \in Pending)
            => n > calls[u] \/ (n = calls[u] /\ pc[u] \in Pending)
  BY <1>2, <1>3, BoundAssumption
<1> QED
  BY <1>1, <1>3, <1>4, <1>5, <1>6, QuietSafe

\* The steps inside a call of t that leave the record and the numbering alone.
LEMMA StepSafe ==
    ASSUME Typed, Safe, NEW t \in Threads, NEW step \in Steps,
           pc' = [pc EXCEPT ![t] = step],
           UNCHANGED <<doc, disk, field, calls>>,
           \A u \in Threads \ {t} : op'[u] = op[u] /\ work'[u] = work[u] /\ result'[u] = result[u],
           LockInv', WorkInv',
           step \in Pending => pc[t] \in Pending,
           step # "dirsync",
           acked' \subseteq Settled,
           step = "release" => (op'[t] = "append" /\ result'[t] = "ok" => CallOf(t) \in Settled)
    PROVE  Safe'
<1>1. pc \in [Threads -> Steps]
  BY DEF Typed, TypeOK
<1>2. pc'[t] = step /\ \A u \in Threads \ {t} : pc'[u] = pc[u]
  BY <1>1
<1>3. \A u \in Threads : CallOf(u)' = CallOf(u)
  BY DEF CallOf
<1>4. Settled' \subseteq Settled
  <2> SUFFICES ASSUME NEW u \in Threads, pc'[u] = "release", op'[u] = "append",
                      result'[u] = "ok"
               PROVE  CallOf(u) \in Settled
    BY <1>3 DEF Settled
  <2>1. CASE u = t
    BY <1>2, <2>1
  <2>2. CASE u # t
    BY <1>2, <2>2 DEF Settled
  <2> QED
    BY <2>1, <2>2
<1>5. \A u \in Threads : \A n \in 0..MaxCalls :
         n > calls'[u] \/ (n = calls'[u] /\ pc'[u] \in Pending)
            => n > calls[u] \/ (n = calls[u] /\ pc[u] \in Pending)
  BY <1>2
<1>6. \A u \in Threads : pc'[u] = "dirsync" =>
         pc[u] = "dirsync" /\ op'[u] = op[u] /\ calls'[u] = calls[u]
  BY <1>2
<1> QED
  BY <1>4, <1>5, <1>6, QuietSafe

\* Taking a lock, reading and writing the temporary file.
LEMMA WorkSafe ==
    ASSUME Typed, Safe, NEW t \in Threads,
           TakeRLock(t) \/ TakeFlock(t) \/ Read(t) \/ WriteTemp(t)
    PROVE  Safe'
<1>1. /\ pc \in [Threads -> Steps] /\ work \in [Threads -> Documents \cup {None}]
      /\ flock \in Threads \cup {None} /\ None \notin Threads
  BY DistinctAssumption DEF Typed, TypeOK
<1>2. acked \subseteq Settled
  BY DEF Settled
<1>3. CASE TakeRLock(t)
  <2>1. LockInv' /\ WorkInv'
    BY <1>1, <1>3 DEF Safe, LockInv, WorkInv, TakeRLock, Goto, Critical, CallOf
  <2> QED
    BY <1>2, <1>3, <2>1, StepSafe DEF TakeRLock, Goto, Steps, Pending
<1>4. CASE TakeFlock(t)
  <2>1. LockInv' /\ WorkInv'
    BY <1>1, <1>4 DEF Safe, LockInv, WorkInv, TakeFlock, Goto, Critical, CallOf
  <2> QED
    BY <1>2, <1>4, <2>1, StepSafe DEF TakeFlock, Goto, Steps, Pending
<1>5. CASE Read(t)
  <2>1. LockInv'
    BY <1>1, <1>5 DEF Safe, LockInv, Read, ReadForConstruct, ReadForLoad, ReadForAppend,
                      Goto, Critical
  <2>2. WorkInv'
    <3>1. CASE ReadForConstruct(t)
      BY <1>1, <1>5, <3>1 DEF Safe, WorkInv, Read, ReadForConstruct, Goto, CallOf
    <3>2. CASE ReadForLoad(t)
      BY <1>1, <1>5, <3>2 DEF Safe, WorkInv, Read, ReadForLoad, Goto, CallOf
    <3>3. CASE ReadForAppend(t)
      <4>1. doc \in Documents
        BY <3>3 DEF Typed, TypeOK, ReadForAppend
      <4> QED
        BY <1>1, <1>5, <3>3, <4>1 DEF Safe, WorkInv, Read, ReadForAppend, Goto, CallOf
    <3> QED
      BY <1>5, <3>1, <3>2, <3>3 DEF Read
  <2>3. PICK step \in {"write", "release"} :
           /\ pc' = [pc EXCEPT ![t] = step]
           /\ step = "release" => op[t] # "append"
           /\ \A u \in Threads \ {t} : work'[u] = work[u]
    BY <1>1, <1>5 DEF Read, ReadForConstruct, ReadForLoad, ReadForAppend, Goto
  <2>4. pc[t] = "read" /\ UNCHANGED <<doc, disk, field, calls, op, result, acked>>
    BY <1>5 DEF Read
  <2> QED
    BY <1>2, <2>1, <2>2, <2>3, <2>4, StepSafe DEF Steps, Pending
<1>6. CASE WriteTemp(t)
  <2>1. LockInv' /\ WorkInv'
    BY <1>1, <1>6 DEF Safe, LockInv, WorkInv, WriteTemp, Goto, Critical, CallOf
  <2> QED
    BY <1>2, <1>6, <2>1, StepSafe DEF WriteTemp, Goto, Steps, Pending
<1> QED
  BY <1>3, <1>4, <1>5, <1>6

\* Exceptions and returns.
LEMMA EndSafe ==
    ASSUME Typed, Safe, NEW t \in Threads, Raise(t) \/ Release(t)
    PROVE  Safe'
<1>1. /\ pc \in [Threads -> Steps] /\ work \in [Threads -> Documents \cup {None}]
      /\ op \in [Threads -> {"none", "construct", "load", "append"}]
      /\ result \in [Threads -> {"ok", "raised"}]
      /\ flock \in Threads \cup {None} /\ None \notin Threads
  BY DistinctAssumption DEF Typed, TypeOK
<1>2. acked \subseteq Settled
  BY DEF Settled
<1>3. CASE Raise(t)
  <2>1. LockInv' /\ WorkInv'
    BY <1>1, <1>3 DEF Safe, LockInv, WorkInv, Raise, Goto, Critical, CallOf
  <2>2. result'[t] = "raised" /\ \A u \in Threads \ {t} : result'[u] = result[u]
    BY <1>1, <1>3 DEF Raise
  <2> QED
    BY <1>2, <1>3, <2>1, <2>2, StepSafe DEF Raise, Goto, Steps, Pending
<1>4. CASE Release(t)
  <2>1. LockInv' /\ WorkInv'
    BY <1>1, <1>4 DEF Safe, LockInv, WorkInv, Release, Goto, Critical, CallOf
  <2>2. acked' \subseteq Settled
    BY <1>2, <1>4 DEF Release, Settled
  <2>3. \A u \in Threads \ {t} : op'[u] = op[u] /\ work'[u] = work[u] /\ result'[u] = result[u]
    BY <1>1, <1>4 DEF Release
  <2> QED
    BY <1>4, <2>1, <2>2, <2>3, StepSafe DEF Release, Goto, Steps, Pending
<1> QED
  BY <1>3, <1>4

\* The directory fsync makes the record as it is the only version, and the
\* call that asked for it settled.
LEMMA SyncSafe == ASSUME Typed, Safe, NEW t \in Threads, SyncDirectory(t) PROVE Safe'
<1>1. /\ pc[t] = "dirsync" /\ pc' = [pc EXCEPT ![t] = "release"] /\ disk' = {doc}
      /\ UNCHANGED <<doc, flock, op, field, work, result, calls, acked>>
  BY DEF SyncDirectory, Goto
<1>2. pc'[t] = "release" /\ \A u \in Threads \ {t} : pc'[u] = pc[u]
  BY <1>1 DEF Typed, TypeOK
<1>3. doc \in disk
  BY DEF Safe, DiskInv
<1>4. LockInv' /\ WorkInv'
  BY <1>1, <1>2 DEF Safe, LockInv, WorkInv, Critical, CallOf
<1>5. FreshInv'
  BY <1>1, <1>2, <1>3 DEF Safe, FreshInv, Pending, Log!Holds
<1>6. SettledInv'
  <2> SUFFICES ASSUME NEW c \in Settled' PROVE doc \in Documents /\ Log!Holds(doc, c)
    BY <1>1 DEF SettledInv, Log!Holds
  <2>1. CASE c \in Settled
    BY <1>3, <2>1 DEF Safe, SettledInv
  <2>2. CASE c = CallOf(t) /\ op[t] = "append"
    BY <1>1, <2>2 DEF Safe, WrittenInv
  <2> QED
    BY <1>1, <1>2, <2>1, <2>2 DEF Settled, CallOf
<1>7. WrittenInv'
  BY <1>1, <1>2 DEF Safe, WrittenInv, CallOf, Log!Holds
<1>8. OnceInv' /\ DiskInv'
  BY <1>1, <1>3 DEF Safe, OnceInv, Once, DiskInv
<1> QED
  BY <1>4, <1>5, <1>6, <1>7, <1>8 DEF Safe

\* The death of any set of threads, and a stop of the host that brings back
\* one of the versions on disk.
LEMMA CrashSafe ==
    ASSUME Typed, Safe, NEW T \in SUBSET Threads, Kill(T),
           \/ UNCHANGED <<doc, disk>>
           \/ T = Threads /\ doc' \in disk /\ disk' = {doc'}
    PROVE  Safe'
<1>1. /\ flock' = (IF flock \in T THEN None ELSE flock)
      /\ \A u \in Threads : u \in T => pc'[u] = "idle"
      /\ \A u \in Threads : u \notin T =>
            /\ pc'[u] = pc[u] /\ op'[u] = op[u]
            /\ work'[u] = work[u] /\ result'[u] = result[u]
      /\ UNCHANGED <<field, calls, acked>>
  BY DEF Kill
<1>2. Settled' \subseteq Settled
  BY <1>1 DEF Settled, CallOf
<1>3. LockInv'
  BY <1>1 DEF Safe, LockInv, Critical
<1>4. CASE UNCHANGED <<doc, disk>>
  <2>1. WorkInv'
    BY <1>1, <1>4 DEF Safe, WorkInv, CallOf
  <2>2. \A u \in Threads : \A n \in 0..MaxCalls :
           n > calls'[u] \/ (n = calls'[u] /\ pc'[u] \in Pending)
              => n > calls[u] \/ (n = calls[u] /\ pc[u] \in Pending)
    BY <1>1 DEF Pending
  <2>3. \A u \in Threads : pc'[u] = "dirsync" =>
           pc[u] = "dirsync" /\ op'[u] = op[u] /\ calls'[u] = calls[u]
    BY <1>1
  <2> QED
    BY <1>2, <1>3, <1>4, <2>1, <2>2, <2>3, QuietSafe
<1>5. CASE T = Threads /\ doc' \in disk /\ disk' = {doc'}
  <2>1. \A u \in Threads : pc'[u] = "idle"
    BY <1>1, <1>5
  <2>2. WorkInv' /\ WrittenInv'
    BY <2>1 DEF WorkInv, WrittenInv
  <2>3. FreshInv'
    BY <1>1, <1>5, <2>1 DEF Safe, FreshInv, Pending, Log!Holds
  <2>4. SettledInv'
    BY <1>2, <1>5 DEF Safe, SettledInv, Log!Holds
  <2>5. OnceInv' /\ DiskInv'
    BY <1>5 DEF Safe, OnceInv, Once, DiskInv
  <2> QED
    BY <1>3, <2>2, <2>3, <2>4, <2>5 DEF Safe
<1> QED
  BY <1>4, <1>5

\* Safe is inductive over the types.
LEMMA SafeStep == Typed /\ Safe /\ [Next]_vars => Safe'
<1> SUFFICES ASSUME Typed, Safe, [Next]_vars PROVE Safe'
  OBVIOUS
<1>1. ASSUME NEW t \in Threads, Construct(t) \/ Load(t) PROVE Safe'
  BY <1>1, BeginSafe DEF Construct, Load
<1>2. ASSUME NEW t \in Threads, NEW f \in Fields, AppendTo(t, f) PROVE Safe'
  BY <1>2, BeginSafe DEF AppendTo
<1>3. ASSUME NEW t \in Threads, Transaction(t) PROVE Safe'
  BY <1>3, WorkSafe, ReplaceSafe, SyncSafe, EndSafe DEF Transaction, Advance
<1>4. ASSUME NEW i \in Instances, ProcessDies(i) PROVE Safe'
  BY <1>4, CrashSafe DEF ProcessDies
<1>5. CASE HostStops
  BY <1>5, CrashSafe DEF HostStops
<1>6. CASE UNCHANGED vars
  <2>1. LockInv' /\ WorkInv' /\ DiskInv'
    BY <1>6 DEF vars, Safe, LockInv, WorkInv, DiskInv, CallOf
  <2>2. FreshInv'
    BY <1>6 DEF vars, Safe, FreshInv, Log!Holds
  <2>3. SettledInv' /\ WrittenInv'
    BY ZenonT(60), <1>6 DEF vars, Safe, SettledInv, Settled, WrittenInv, CallOf, Log!Holds
  <2>4. OnceInv'
    BY <1>6 DEF vars, Safe, OnceInv, Once
  <2> QED
    BY <2>1, <2>2, <2>3, <2>4 DEF Safe
<1> QED
  BY <1>1, <1>2, <1>3, <1>4, <1>5, <1>6 DEF Next

\* The inductive invariant holds of every behaviour.
THEOREM Safety == Spec => [](Typed /\ Safe)
<1>1. Init => Typed /\ Safe
  <2> SUFFICES ASSUME Init PROVE Typed /\ Safe
    OBVIOUS
  <2>1. Typed
    BY EmptyDocument, InstanceAssumption, BoundAssumption
       DEF Init, Typed, TypeOK, Prepared, Steps
  <2>2. doc \in Documents => doc = Empty
    BY DistinctAssumption DEF Init, Documents, Calls
  <2>3. FreshInv /\ OnceInv
    BY <2>2, EmptyDocument DEF Init, FreshInv, OnceInv
  <2>4. LockInv /\ WorkInv /\ WrittenInv /\ SettledInv /\ DiskInv
    BY DEF Init, LockInv, WorkInv, WrittenInv, SettledInv, Settled, DiskInv, Critical
  <2> QED
    BY <2>1, <2>3, <2>4 DEF Safe
<1> QED
  BY <1>1, TypedStep, SafeStep, PTL DEF Spec

\* Every append that returned success is in the record, once, whatever the
\* other threads and processes do, whichever system calls fail, and however
\* often processes are killed or the host stops.
THEOREM AckedAreRetained == Spec => []AckedRetainedOnce
<1>1. Typed /\ Safe => AckedRetainedOnce
  <2> SUFFICES ASSUME Typed, Safe, NEW c \in acked
               PROVE  /\ doc \in Documents
                      /\ \E f \in Fields : \E k \in DOMAIN doc[f] :
                           /\ doc[f][k] = c
                           /\ \A g \in Fields : \A j \in DOMAIN doc[g] :
                                doc[g][j] = c => g = f /\ j = k
    BY DEF AckedRetainedOnce
  <2>1. doc \in Documents /\ Log!Holds(doc, c) /\ Once(doc)
    BY DEF Safe, SettledInv, Settled, DiskInv, OnceInv
  <2>2. PICK f \in Fields : \E k \in DOMAIN doc[f] : doc[f][k] = c
    BY <2>1 DEF Log!Holds
  <2>3. PICK k \in DOMAIN doc[f] : doc[f][k] = c
    BY <2>2
  <2>4. ASSUME NEW g \in Fields, NEW j \in DOMAIN doc[g], doc[g][j] = c
        PROVE  g = f /\ j = k
    BY <2>1, <2>3, <2>4 DEF Once
  <2> QED
    BY <2>1, <2>3, <2>4
<1> QED
  BY <1>1, Safety, PTL

\* An unreadable record stays as it is: no construction, append or crash ever
\* puts anything in its place.
THEOREM CorruptionIsPreserved == Spec => CorruptionPreserved
<1>1. Typed /\ Safe /\ [Next]_vars => (doc = Corrupt => doc' = Corrupt)
  <2> SUFFICES ASSUME Typed, Safe, Next, doc = Corrupt PROVE doc' = Corrupt
    BY DEF vars
  <2>1. Corrupt \notin Documents /\ Corrupt # NoFile /\ disk = {Corrupt}
    BY DistinctAssumption DEF Documents, Calls, Safe, DiskInv
  <2>2. ASSUME NEW t \in Threads, Replace(t) PROVE FALSE
    BY <2>1, <2>2 DEF Replace, Safe, WorkInv
  <2>3. ASSUME NEW t \in Threads, Transaction(t) PROVE doc' = doc
    BY <2>2, <2>3 DEF Transaction, Advance, TakeRLock, TakeFlock, Read, WriteTemp, SyncDirectory,
                      Raise, Release
  <2>4. ASSUME NEW t \in Threads, NEW f \in Fields, Construct(t) \/ Load(t) \/ AppendTo(t, f)
        PROVE  doc' = doc
    BY <2>4 DEF Construct, Load, AppendTo, Begin
  <2>5. ASSUME NEW t \in Threads, Construct(t) \/ Load(t)
        PROVE  doc' = doc
    BY <2>5 DEF Construct, Load, Begin
  <2>6. ASSUME NEW i \in Instances, ProcessDies(i) PROVE doc' = doc
    BY <2>6 DEF ProcessDies
  <2>7. CASE HostStops
    BY <2>1, <2>7 DEF HostStops
  <2> QED
    BY <2>3, <2>4, <2>5, <2>6, <2>7 DEF Next
<1> QED
  BY <1>1, Safety, PTL DEF Spec, CorruptionPreserved

------------------------------------------------------------------------------
(* Nothing is rewritten, and the refinement of RecordLog. *)

\* A version of a document is one of each document that adds an entry to it.
LEMMA EarlierStays ==
    ASSUME NEW c \in Documents, NEW d \in Documents, NEW f \in Fields, NEW x \in Calls,
           Log!Earlier(c, d)
    PROVE  Log!Earlier(c, WithEntry(d, f, x))
<1> SUFFICES ASSUME NEW g \in Fields
             PROVE  /\ Len(c[g]) =< Len(WithEntry(d, f, x)[g])
                    /\ SubSeq(WithEntry(d, f, x)[g], 1, Len(c[g])) = c[g]
  BY DEF Log!Earlier
<1>1. c[g] \in Seq(Calls) /\ d[g] \in Seq(Calls)
  BY DEF Documents
<1>2. Len(c[g]) =< Len(d[g]) /\ SubSeq(d[g], 1, Len(c[g])) = c[g]
  BY DEF Log!Earlier
<1>3. CASE g # f
  <2>1. WithEntry(d, f, x)[g] = d[g]
    BY <1>3 DEF Documents, WithEntry
  <2> QED
    BY <1>2, <2>1
<1>4. CASE g = f
  <2>1. WithEntry(d, f, x)[g] = Append(d[g], x)
    BY <1>4 DEF Documents, WithEntry
  <2>2. PICK s, t : s = c[g] /\ t = d[g]
    OBVIOUS
  <2>3. SubSeq(Append(t, x), 1, Len(s)) = SubSeq(t, 1, Len(s))
    BY <1>1, <1>2, <2>2
  <2> QED
    BY <1>1, <1>2, <2>1, <2>2, <2>3
<1> QED
  BY <1>3, <1>4

LEMMA EarlierSelf == ASSUME NEW d \in Documents PROVE Log!Earlier(d, d)
<1> SUFFICES ASSUME NEW g \in Fields
             PROVE  Len(d[g]) =< Len(d[g]) /\ SubSeq(d[g], 1, Len(d[g])) = d[g]
  BY DEF Log!Earlier
<1>1. PICK s \in Seq(Calls) : s = d[g]
  BY DEF Documents
<1>2. SubSeq(s, 1, Len(s)) = s
  OBVIOUS
<1> QED
  BY <1>1, <1>2


\* What a stop of the host brings back and what a reader has seen are earlier
\* versions of the record; between two operations no append is open.
PastInv ==
    /\ \A d \in disk : d \in Documents => doc \in Documents /\ Log!Earlier(d, doc)
    /\ Corrupt \in disk => doc = Corrupt
    /\ SnapshotsArePrefixes
    /\ \A t \in Threads : pc[t] = "idle" => op[t] # "append"

\* The steps that leave the record alone.
LEMMA DocStays ==
    ASSUME PastInv, doc' = doc, disk' \subseteq disk, doc \in disk',
           \A t \in Threads : \/ seen'[t] \in {seen[t], None}
                              \/ seen'[t] = doc /\ doc \in Documents,
           \A t \in Threads : pc'[t] = "idle" => op'[t] # "append"
    PROVE  PastInv'
<1>1. ASSUME NEW d \in disk', d \in Documents PROVE doc' \in Documents /\ Log!Earlier(d, doc)'
  BY <1>1 DEF PastInv, Log!Earlier
<1>2. ASSUME NEW t \in Threads, seen'[t] # None
      PROVE  doc' \in Documents /\ Log!Earlier(seen[t], doc)'
  <2>1. CASE seen'[t] = seen[t]
    BY <1>2, <2>1 DEF PastInv, SnapshotsArePrefixes, Log!Earlier
  <2>2. CASE seen'[t] = doc /\ doc \in Documents
    BY <2>2, EarlierSelf DEF Log!Earlier
  <2> QED
    BY <1>2, <2>1, <2>2
<1>3. SnapshotsArePrefixes'
  BY <1>2 DEF SnapshotsArePrefixes
<1>4. Corrupt \in disk' => doc' = Corrupt
  BY DEF PastInv
<1> QED
  BY <1>1, <1>3, <1>4 DEF PastInv

\* Replace puts the record itself or the record with one more entry there.
LEMMA ReplaceGrows == ASSUME Typed, Safe, PastInv, NEW t \in Threads, Replace(t) PROVE PastInv'
<1> PICK w : w = work[t]
  OBVIOUS
<1>1. /\ pc[t] = "replace" /\ pc' = [pc EXCEPT ![t] = "dirsync"]
      /\ doc' = w /\ disk' = disk \cup {w} /\ UNCHANGED <<op, seen>>
  BY DEF Replace, Goto
<1>2. w \in Documents /\ field[t] \in Fields /\ CallOf(t) \in Calls /\ pc \in [Threads -> Steps]
  BY <1>1 DEF Typed, TypeOK, Prepared, CallOf, Calls
<1>3. Corrupt \notin Documents /\ NoFile \notin Documents /\ NoFile # Corrupt
  BY DistinctAssumption DEF Documents, Calls
<1>4. ASSUME NEW d \in Documents, doc \in Documents /\ Log!Earlier(d, doc)
      PROVE  Log!Earlier(d, w)
  <2>1. w = WithEntry(doc, field[t], CallOf(t))
    BY <1>1, <1>3, <1>4 DEF Safe, WorkInv
  <2> QED
    BY <1>2, <1>4, <2>1, EarlierStays
<1>5. doc # Corrupt
  BY <1>1, <1>3 DEF Safe, WorkInv
<1>6. ASSUME NEW d \in disk', d \in Documents PROVE Log!Earlier(d, w)
  <2>1. CASE d = w
    BY <1>2, <2>1, EarlierSelf
  <2>2. CASE d \in disk
    BY <1>4, <1>6, <2>2 DEF PastInv
  <2> QED
    BY <1>1, <2>1, <2>2
<1>7. ASSUME NEW u \in Threads, seen[u] # None PROVE Log!Earlier(seen[u], w)
  <2>1. doc \in Documents /\ Log!Earlier(seen[u], doc) /\ seen[u] \in Documents
    BY <1>7 DEF PastInv, SnapshotsArePrefixes, Typed, TypeOK
  <2> QED
    BY <1>4, <2>1
<1>8. SnapshotsArePrefixes'
  BY <1>1, <1>2, <1>7 DEF SnapshotsArePrefixes, Log!Earlier
<1>9. \A d \in disk' : d \in Documents => doc' \in Documents /\ Log!Earlier(d, doc)'
  BY <1>1, <1>2, <1>6 DEF Log!Earlier
<1>10. Corrupt \notin disk'
  BY <1>1, <1>2, <1>3, <1>5 DEF PastInv
<1>11. \A u \in Threads : pc'[u] = "idle" => op'[u] # "append"
  BY <1>1, <1>2 DEF PastInv
<1> QED
  BY <1>8, <1>9, <1>10, <1>11 DEF PastInv

LEMMA PastStep == Typed /\ Safe /\ PastInv /\ [Next]_vars => PastInv'
<1> SUFFICES ASSUME Typed, Safe, PastInv, [Next]_vars PROVE PastInv'
  OBVIOUS
<1>0. /\ pc \in [Threads -> Steps] /\ op \in [Threads -> {"none", "construct", "load", "append"}]
      /\ seen \in [Threads -> Documents \cup {None}] /\ doc \in disk
      /\ doc \in Documents \cup {NoFile, Corrupt}
  BY DEF Typed, TypeOK, Safe, DiskInv
<1>1. ASSUME NEW t \in Threads, NEW o, NEW f, Begin(t, o, f) PROVE PastInv'
  <2>1. \A u \in Threads : pc'[u] = "idle" => op'[u] # "append"
    BY <1>0, <1>1 DEF Begin, Goto, PastInv
  <2> QED
    BY <1>0, <1>1, <2>1, DocStays DEF Begin
<1>2. ASSUME NEW t \in Threads, NEW f \in Fields, Construct(t) \/ Load(t) \/ AppendTo(t, f)
      PROVE  PastInv'
  BY <1>1, <1>2 DEF Construct, Load, AppendTo
<1>3. ASSUME NEW t \in Threads, Construct(t) \/ Load(t) PROVE PastInv'
  BY <1>1, <1>3 DEF Construct, Load
<1>4. ASSUME NEW t \in Threads,
             TakeRLock(t) \/ TakeFlock(t) \/ WriteTemp(t) \/ SyncDirectory(t) \/ Raise(t)
      PROVE  PastInv'
  <2>1. \A u \in Threads : pc'[u] = "idle" => op'[u] # "append"
    BY <1>0, <1>4 DEF TakeRLock, TakeFlock, WriteTemp, SyncDirectory, Raise, Goto, PastInv
  <2>2. doc' = doc /\ seen' = seen /\ disk' \subseteq disk /\ doc \in disk'
    BY <1>0, <1>4 DEF TakeRLock, TakeFlock, WriteTemp, SyncDirectory, Raise
  <2> QED
    BY <2>1, <2>2, DocStays
<1>5. ASSUME NEW t \in Threads, Read(t) PROVE PastInv'
  <2>1. \A u \in Threads : pc'[u] = "idle" => op'[u] # "append"
    BY <1>0, <1>5 DEF Read, ReadForConstruct, ReadForLoad, ReadForAppend, Goto, PastInv
  <2>2. doc' = doc /\ disk' = disk
    BY <1>5 DEF Read
  <2>3. \A u \in Threads : seen'[u] = seen[u] \/ (seen'[u] = doc /\ doc \in Documents)
    BY <1>0, <1>5 DEF Read, ReadForConstruct, ReadForLoad, ReadForAppend
  <2> QED
    BY <1>0, <2>1, <2>2, <2>3, DocStays
<1>6. ASSUME NEW t \in Threads, Release(t) PROVE PastInv'
  <2>1. \A u \in Threads : pc'[u] = "idle" => op'[u] # "append"
    BY <1>0, <1>6 DEF Release, Goto, PastInv
  <2> QED
    BY <1>0, <1>6, <2>1, DocStays DEF Release
<1>7. ASSUME NEW T \in SUBSET Threads, Kill(T)
      PROVE  /\ \A u \in Threads : pc'[u] = "idle" => op'[u] # "append"
             /\ \A u \in Threads : seen'[u] \in {seen[u], None}
             /\ T = Threads => \A u \in Threads : seen'[u] = None
  BY <1>7 DEF Kill, PastInv
<1>8. ASSUME NEW i \in Instances, ProcessDies(i) PROVE PastInv'
  <2> PICK T \in SUBSET Threads : Kill(T)
    BY <1>8 DEF ProcessDies
  <2>1. doc' = doc /\ disk' = disk
    BY <1>8 DEF ProcessDies
  <2> QED
    BY <1>0, <1>7, <2>1, DocStays
<1>9. CASE HostStops
  <2>1. Kill(Threads) /\ doc' \in disk /\ disk' = {doc'}
    BY <1>9 DEF HostStops
  <2>2. \A u \in Threads : seen'[u] = None /\ (pc'[u] = "idle" => op'[u] # "append")
    BY <1>7, <2>1
  <2>3. ASSUME doc' \in Documents PROVE Log!Earlier(doc, doc)'
    <3> PICK d : d = doc'
      OBVIOUS
    <3>1. Log!Earlier(d, d)
      BY <2>3, EarlierSelf
    <3> QED
      BY <3>1 DEF Log!Earlier
  <2>4. \A d \in disk' : d \in Documents => doc' \in Documents /\ Log!Earlier(d, doc)'
    BY <2>1, <2>3 DEF Log!Earlier
  <2>5. SnapshotsArePrefixes'
    BY <2>2 DEF SnapshotsArePrefixes
  <2> QED
    BY <2>1, <2>2, <2>4, <2>5 DEF PastInv
<1>10. CASE UNCHANGED vars
  <2>1. UNCHANGED <<doc, disk, seen, pc, op>>
    BY <1>10 DEF vars
  <2> QED
    BY <1>0, <2>1, DocStays DEF PastInv
<1> QED
  BY <1>2, <1>3, <1>4, <1>5, <1>6, <1>8, <1>9, <1>10, ReplaceGrows DEF Next, Transaction, Advance

\* The record and its past.
THEOREM PastHolds == Spec => [](Typed /\ Safe /\ PastInv)
<1>1. Init /\ Typed => PastInv
  <2> SUFFICES ASSUME Init, Typed PROVE PastInv
    OBVIOUS
  <2>1. doc \in Documents => Log!Earlier(doc, doc)
    BY EarlierSelf
  <2> QED
    BY <2>1 DEF Init, PastInv, SnapshotsArePrefixes
<1> QED
  BY <1>1, PastStep, Safety, PTL DEF Spec

\* What the last load of a live thread returned is, list by list, a prefix of
\* the record: readers never see history rewritten.
THEOREM SnapshotsArePast == Spec => []SnapshotsArePrefixes
<1>1. PastInv => SnapshotsArePrefixes
  BY DEF PastInv
<1> QED
  BY <1>1, PastHolds, PTL

\* The append calls in progress, as the refinement sees them.
Open == {CallOf(t) : t \in {u \in Threads : op[u] = "append"}}

\* Two calls of different threads are different calls.
LEMMA OpenCalls ==
    /\ \A t \in Threads : CallOf(t) \in Open <=> op[t] = "append"
    /\ \A t, u \in Threads : CallOf(t) = CallOf(u) => t = u
BY DEF Open, CallOf

\* A call that starts is Begin for an append and nothing for the others.
LEMMA BeginRefines ==
    ASSUME Typed, Safe, PastInv, NEW t \in Threads, NEW o, NEW f, Begin(t, o, f)
    PROVE  [Log!Next]_(Log!logVars)
<1> PICK n : n = calls[t] + 1
  OBVIOUS
<1> DEFINE c == <<t, n>>
<1>0. /\ pc[t] = "idle" /\ op' = [op EXCEPT ![t] = o] /\ calls' = [calls EXCEPT ![t] = n]
      /\ UNCHANGED <<doc, acked>>
  BY DEF Begin
<1>1. n \in 0..MaxCalls /\ n > calls[t] /\ c \in Calls
  BY BoundAssumption DEF Begin, Typed, TypeOK, Calls
<1>2. op \in [Threads -> {"none", "construct", "load", "append"}]
      /\ calls \in [Threads -> 0..MaxCalls]
  BY DEF Typed, TypeOK
<1>3. op[t] # "append" /\ doc \in disk
  BY <1>0 DEF PastInv, Safe, DiskInv
<1>4. \A u \in Threads \ {t} : op'[u] = op[u]
  BY <1>0, <1>2
<1>5. op'[t] = o
  BY <1>0, <1>2
<1>6. Open' = IF o = "append" THEN Open \cup {c} ELSE Open
  <2>1. \A x : x \in Open' <=> \E u \in Threads : op'[u] = "append" /\ x = <<u, calls'[u]>>
    BY DEF Open, CallOf
  <2>2. \A x : x \in Open <=> \E u \in Threads : op[u] = "append" /\ x = <<u, calls[u]>>
    BY DEF Open, CallOf
  <2>3. \A u \in Threads \ {t} : calls'[u] = calls[u]
    BY <1>0, <1>2
  <2>4. calls'[t] = n
    BY <1>0, <1>2
  <2> QED
    BY <1>3, <1>4, <1>5, <2>1, <2>2, <2>3, <2>4
<1>7. c \notin Open
  BY <1>3 DEF Open, CallOf
<1>8. \A d \in disk \cap Documents : ~Log!Holds(d, c)
  BY <1>1 DEF Safe, FreshInv
<1>9. c \notin acked
  <2>1. c \in acked => doc \in Documents /\ Log!Holds(doc, c)
    BY <1>3 DEF Safe, SettledInv, Settled
  <2> QED
    BY <1>3, <1>8, <2>1
<1>10. CASE o = "append"
  <2>1. doc \in Log!Documents => ~Log!Holds(doc, c)
    BY <1>3, <1>8 DEF Documents, Log!Documents
  <2>2. Log!Begin(c)
    BY <1>0, <1>6, <1>7, <1>9, <1>10, <2>1 DEF Log!Begin, Open, CallOf
  <2> QED
    BY <1>1, <2>2 DEF Log!Next
<1>11. CASE o # "append"
  BY <1>0, <1>6, <1>11 DEF Log!logVars, Open, CallOf
<1> QED
  BY <1>10, <1>11

\* Replace commits the entry of its call, or creates the record.
LEMMA ReplaceRefines ==
    ASSUME Typed, Safe, PastInv, NEW t \in Threads, Replace(t)
    PROVE  Log!Next
<1>0. /\ pc[t] = "replace" /\ doc' = work[t] /\ UNCHANGED <<op, calls, acked>>
  BY DEF Replace
<1>1. field[t] \in Fields /\ calls[t] \in 0..MaxCalls /\ CallOf(t) \in Calls
  BY DEF Typed, TypeOK, CallOf, Calls
<1>2. Open' = Open
  BY <1>0 DEF Open, CallOf
<1>3. CASE op[t] = "construct" /\ doc = NoFile /\ work[t] = Empty
  <2>1. Log!Create
    BY <1>0, <1>2, <1>3 DEF Log!Create, Log!Empty, Empty, Open, CallOf
  <2> QED
    BY <2>1 DEF Log!Next
<1>4. CASE op[t] = "append" /\ doc \in Documents
           /\ work[t] = WithEntry(doc, field[t], CallOf(t))
  <2>1. ~Log!Holds(doc, CallOf(t))
    BY <1>0, <1>1, <1>4 DEF Safe, FreshInv, DiskInv, Pending, CallOf
  <2>2. CallOf(t) \in Open
    BY <1>4, OpenCalls
  <2>3. doc \in Log!Documents
    BY <1>4 DEF Documents, Log!Documents
  <2>4. Log!Commit(CallOf(t), field[t])
    BY <1>0, <1>2, <1>4, <2>1, <2>2, <2>3 DEF Log!Commit, WithEntry, Open, CallOf
  <2> QED
    BY <1>1, <2>4 DEF Log!Next
<1> QED
  BY <1>0, <1>3, <1>4 DEF Safe, WorkInv

\* Release acknowledges a successful append and abandons one that raised.
LEMMA ReleaseRefines ==
    ASSUME Typed, Safe, PastInv, NEW t \in Threads, Release(t)
    PROVE  [Log!Next]_(Log!logVars)
<1>0. /\ pc[t] = "release" /\ op' = [op EXCEPT ![t] = "none"] /\ UNCHANGED <<doc, calls>>
      /\ acked' = IF op[t] = "append" /\ result[t] = "ok"
                  THEN acked \cup {CallOf(t)} ELSE acked
  BY DEF Release
<1>1. op \in [Threads -> {"none", "construct", "load", "append"}] /\ CallOf(t) \in Calls
  BY <1>0 DEF Typed, TypeOK, CallOf, Calls
<1>2. /\ op'[t] = "none"
      /\ \A u \in Threads \ {t} : op'[u] = op[u]
  BY <1>0, <1>1
<1>3. op[t] = "append" => Open' = Open \ {CallOf(t)}
  BY <1>0, <1>2 DEF Open, CallOf
<1>4. op[t] # "append" => Open' = Open
  BY <1>0, <1>2 DEF Open, CallOf
<1> PICK c : c = CallOf(t)
  OBVIOUS
<1>5. CASE op[t] # "append"
  BY <1>0, <1>4, <1>5 DEF Log!logVars, Open, CallOf
<1>6. CASE op[t] = "append" /\ result[t] = "ok"
  <2>1. doc \in Documents /\ Log!Holds(doc, CallOf(t))
    BY <1>0, <1>6 DEF Safe, SettledInv, Settled, DiskInv
  <2>2. doc \in Log!Documents
    BY <2>1 DEF Documents, Log!Documents
  <2>3. c \in Open
    BY <1>6, OpenCalls
  <2>4. Open' = Open \ {c} /\ acked' = acked \cup {c} /\ doc' = doc /\ Log!Holds(doc, c)
    BY <1>0, <1>3, <1>6, <2>1
  <2>5. Log!Acknowledge(c)
    BY <2>2, <2>3, <2>4 DEF Log!Acknowledge, Open, CallOf
  <2> QED
    BY <1>1, <2>5 DEF Log!Next
<1>7. CASE op[t] = "append" /\ result[t] # "ok"
  <2>1. {c} \in SUBSET Open
    BY <1>7, OpenCalls
  <2>2. Open' = Open \ {c} /\ doc' = doc /\ acked' = acked
    BY <1>0, <1>3, <1>7
  <2>3. Log!Abandon({c})
    BY <2>2 DEF Log!Abandon, Open, CallOf
  <2> QED
    BY <2>1, <2>3 DEF Log!Next, Open, CallOf
<1> QED
  BY <1>5, <1>6, <1>7

\* The calls of the threads that die end without an answer.
LEMMA KillAbandons ==
    ASSUME NEW T \in SUBSET Threads, Kill(T)
    PROVE  /\ Open' = Open \ {CallOf(t) : t \in T}
           /\ T = Threads => Open' = {}
           /\ acked' = acked
<1>1. /\ op' = [u \in Threads |-> IF u \in T THEN "none" ELSE op[u]]
      /\ calls' = calls /\ acked' = acked
  BY DEF Kill
<1>2. \A u \in Threads : op'[u] = IF u \in T THEN "none" ELSE op[u]
  BY <1>1
<1>3. ASSUME NEW x PROVE x \in Open' <=> x \in Open /\ x \notin {CallOf(t) : t \in T}
  <2>1. x \in Open' <=> \E u \in Threads : op'[u] = "append" /\ x = <<u, calls[u]>>
    BY <1>1 DEF Open, CallOf
  <2>2. x \in Open <=> \E u \in Threads : op[u] = "append" /\ x = <<u, calls[u]>>
    BY DEF Open, CallOf
  <2>3. x \in {CallOf(t) : t \in T} <=> \E u \in T : x = <<u, calls[u]>>
    BY DEF CallOf
  <2> QED
    BY <1>2, <2>1, <2>2, <2>3
<1>4. T = Threads => Open' = {}
  BY <1>2 DEF Open, CallOf
<1> QED
  BY <1>1, <1>3, <1>4

\* A process that dies abandons its calls.
LEMMA DeathRefines ==
    ASSUME NEW i \in Instances, ProcessDies(i)
    PROVE  Log!Next
<1> PICK T \in SUBSET Threads : Kill(T)
  BY DEF ProcessDies
<1> PICK C : C = {x \in Open : x \notin Open'}
  OBVIOUS
<1>1. doc' = doc /\ Open' = Open \ C /\ acked' = acked /\ C \in SUBSET Open
  BY KillAbandons DEF ProcessDies
<1>2. Log!Abandon(C)
  BY <1>1 DEF Log!Abandon, Open, CallOf
<1> QED
  BY <1>1, <1>2 DEF Log!Next, Open, CallOf

\* A stop of the host brings back an earlier version with every entry a caller
\* was told of.
LEMMA HostRefines ==
    ASSUME Typed, Safe, PastInv, HostStops
    PROVE  Log!Next
<1>1. doc' \in disk /\ Open' = {} /\ acked' = acked
  BY KillAbandons DEF HostStops
<1> PICK d \in disk : d = doc'
  BY <1>1
<1>2. doc \in disk /\ (doc = Corrupt => disk = {Corrupt}) /\ (Corrupt \in disk => doc = Corrupt)
  BY DEF Safe, DiskInv, PastInv
<1>3. \A c \in acked : d \in Documents /\ Log!Holds(d, c)
  BY DEF Safe, SettledInv, Settled
<1>4. d \in Documents \cup {NoFile, Corrupt}
  BY DEF Typed, TypeOK
<1>5. Corrupt \notin Documents /\ NoFile \notin Documents /\ NoFile # Corrupt
  BY DistinctAssumption DEF Documents, Calls
<1>6. \/ d = doc
      \/ d = NoFile /\ acked = {} /\ doc # Corrupt
      \/ /\ doc \in Documents /\ d \in Documents /\ Log!Earlier(d, doc)
         /\ \A c \in acked : Log!Holds(d, c)
  <2>1. CASE d = Corrupt
    BY <1>2, <2>1
  <2>2. CASE d = NoFile
    BY <1>2, <1>3, <1>5, <2>2
  <2>3. CASE d \in Documents
    BY <1>3, <2>3 DEF PastInv
  <2> QED
    BY <1>4, <2>1, <2>2, <2>3
<1>7. Log!HostCrash
  <2>1. CASE d = doc
    BY <1>1, <2>1 DEF Log!HostCrash, Open, CallOf
  <2>2. CASE d = NoFile /\ acked = {} /\ doc # Corrupt
    BY <1>1, <2>2 DEF Log!HostCrash, Open, CallOf
  <2>3. CASE /\ doc \in Documents /\ d \in Documents /\ Log!Earlier(d, doc)
             /\ \A c \in acked : Log!Holds(d, c)
    <3>1. doc \in Log!Documents /\ d \in Log!Documents
      BY <2>3 DEF Documents, Log!Documents
    <3> QED
      BY <1>1, <2>3, <3>1 DEF Log!HostCrash, Log!Earlier, Log!Holds, Open, CallOf
  <2> QED
    BY <1>6, <2>1, <2>2, <2>3
<1> QED
  BY <1>7 DEF Log!Next

\* Every other step leaves the record, the open calls and the answers alone.
LEMMA StepRefines ==
    Typed /\ Safe /\ PastInv /\ [Next]_vars => [Log!Next]_(Log!logVars)
<1> SUFFICES ASSUME Typed, Safe, PastInv, [Next]_vars PROVE [Log!Next]_(Log!logVars)
  OBVIOUS
<1>1. ASSUME NEW t \in Threads, Construct(t) \/ Load(t) PROVE [Log!Next]_(Log!logVars)
  BY <1>1, BeginRefines DEF Construct, Load
<1>2. ASSUME NEW t \in Threads, NEW f \in Fields, AppendTo(t, f)
      PROVE  [Log!Next]_(Log!logVars)
  BY <1>2, BeginRefines DEF AppendTo
<1>3. ASSUME UNCHANGED <<doc, op, calls, acked>> PROVE [Log!Next]_(Log!logVars)
  <2>1. Open' = Open
    BY <1>3 DEF Open, CallOf
  <2> QED
    BY <1>3, <2>1 DEF Log!logVars, Open, CallOf
<1>4. ASSUME NEW t \in Threads, Advance(t) \/ Raise(t), ~Replace(t), ~Release(t)
      PROVE  UNCHANGED <<doc, op, calls, acked>>
  BY <1>4 DEF Advance, TakeRLock, TakeFlock, Read, WriteTemp, SyncDirectory, Raise
<1>5. ASSUME NEW t \in Threads, Transaction(t) PROVE [Log!Next]_(Log!logVars)
  BY <1>3, <1>4, <1>5, ReplaceRefines, ReleaseRefines DEF Transaction
<1>6. CASE UNCHANGED vars
  BY <1>3, <1>6 DEF vars
<1> QED
  BY <1>1, <1>2, <1>5, <1>6, DeathRefines, HostRefines DEF Next

\* BoundedRecordStore is a RecordLog: entries are only added, each by a call in
\* progress and at most once, success is told only of an entry that is there
\* for good, and no crash takes back what a caller was told of.
THEOREM RefinesRecordLog == Spec => ImplementsLog
<1>1. Init => Log!Init
  <2> SUFFICES ASSUME Init PROVE Log!Init
    OBVIOUS
  <2>1. Open = {}
    BY DEF Init, Open, CallOf
  <2> QED
    BY <2>1 DEF Init, Log!Init, Log!Empty, Empty, Open, CallOf
<1> QED
  BY <1>1, PastHolds, StepRefines, PTL DEF Spec, ImplementsLog, Log!Spec

------------------------------------------------------------------------------
(* Progress: what of OperationsReturn is a safety property. *)

Owning == Critical \cup {"flock", "release"}   \* the steps inside the RLock

\* Each instance's RLock and the sidecar lock have the owner whose step says
\* so, and nobody else: no failure, kill or stop of the host leaves one behind.
LocksOwned ==
    /\ \A t \in Threads : pc[t] \in Owning => rlock[InstanceOf[t]] = t
    /\ \A i \in Instances : rlock[i] # None =>
           InstanceOf[rlock[i]] = i /\ pc[rlock[i]] \in Owning
    /\ flock # None => pc[flock] \in Critical \cup {"release"}

\* The guards of Advance and, for a record that cannot be read, of Raise.
CanGoOn(t) ==
    \/ pc[t] = "rlock" /\ rlock[InstanceOf[t]] = None
    \/ pc[t] = "flock" /\ flock = None
    \/ pc[t] \in Critical \cup {"release"}

WaitsFor(t, u) ==
    \/ pc[t] = "rlock" /\ rlock[InstanceOf[t]] = u
    \/ pc[t] = "flock" /\ flock = u

\* Threads of several processes never wait for each other in a circle: one
\* that cannot go on waits for one that can, at most through one other.
NoDeadlock == \A t \in Threads : pc[t] # "idle" =>
    \/ CanGoOn(t)
    \/ \E u \in Threads : /\ WaitsFor(t, u)
                          /\ CanGoOn(u) \/ \E v \in Threads : WaitsFor(u, v) /\ CanGoOn(v)

\* How many steps an operation has left at most.
StepsLeft == [s \in Steps |->
    CASE s = "rlock" -> 7 [] s = "flock" -> 6 [] s = "read" -> 5 [] s = "write" -> 4
      [] s = "replace" -> 3 [] s = "dirsync" -> 2 [] s = "release" -> 1 [] s = "idle" -> 0]

\* An operation that has begun never goes back to a step it has done.
Forward(t) == \/ pc'[t] = pc[t]
              \/ pc[t] = "idle"
              \/ StepsLeft[pc'[t]] < StepsLeft[pc[t]]

OperationsAdvance == [][\A t \in Threads : Forward(t)]_vars

\* A step of t that leaves the locks of the other threads alone.
LEMMA LocksStay ==
    ASSUME Typed, LocksOwned, NEW t \in Threads, NEW s \in Steps, pc' = [pc EXCEPT ![t] = s],
           UNCHANGED <<flock, rlock>>,
           s \in Owning <=> pc[t] \in Owning,
           flock = t => s \in Critical \cup {"release"}
    PROVE  LocksOwned'
<1>1. pc \in [Threads -> Steps]
  BY DEF Typed, TypeOK
<1>2. pc'[t] = s /\ \A u \in Threads \ {t} : pc'[u] = pc[u]
  BY <1>1
<1>3. \A i \in Instances : rlock[i] # None => rlock[i] \in Threads
  BY DEF Typed, TypeOK
<1>4. flock # None => flock \in Threads
  BY DEF Typed, TypeOK
<1>5. /\ \A u \in Threads : pc[u] \in Owning => rlock[InstanceOf[u]] = u
      /\ \A i \in Instances : rlock[i] # None =>
             InstanceOf[rlock[i]] = i /\ pc[rlock[i]] \in Owning
      /\ flock # None => pc[flock] \in Critical \cup {"release"}
  BY DEF LocksOwned
<1>6. \A u \in Threads : pc'[u] \in Owning => rlock'[InstanceOf[u]] = u
  BY <1>2, <1>5
<1>7. \A i \in Instances : rlock'[i] # None =>
             InstanceOf[rlock'[i]] = i /\ pc'[rlock'[i]] \in Owning
  BY <1>2, <1>3, <1>5
<1>8. flock' # None => pc'[flock'] \in Critical \cup {"release"}
  BY <1>2, <1>4, <1>5
<1> QED
  BY <1>6, <1>7, <1>8 DEF LocksOwned

\* The steps that take and release the locks.
LEMMA LocksMove ==
    ASSUME Typed, LocksOwned, NEW t \in Threads, TakeRLock(t) \/ TakeFlock(t) \/ Release(t)
    PROVE  LocksOwned'
<1>1. /\ pc \in [Threads -> Steps] /\ rlock \in [Instances -> Threads \cup {None}]
      /\ flock \in Threads \cup {None} /\ InstanceOf[t] \in Instances
      /\ None \notin Threads
  BY InstanceAssumption, DistinctAssumption DEF Typed, TypeOK
<1>2. /\ \A u \in Threads : pc[u] \in Owning => rlock[InstanceOf[u]] = u
      /\ \A i \in Instances : rlock[i] # None =>
             InstanceOf[rlock[i]] = i /\ pc[rlock[i]] \in Owning
      /\ flock # None => pc[flock] \in Critical \cup {"release"}
  BY DEF LocksOwned
<1>3. CASE TakeRLock(t)
  <2>1. /\ pc[t] = "rlock" /\ pc' = [pc EXCEPT ![t] = "flock"]
        /\ rlock[InstanceOf[t]] = None /\ rlock' = [rlock EXCEPT ![InstanceOf[t]] = t]
        /\ flock' = flock
    BY <1>3 DEF TakeRLock, Goto
  <2>2. pc'[t] = "flock" /\ \A u \in Threads \ {t} : pc'[u] = pc[u]
    BY <1>1, <2>1
  <2>3. /\ rlock'[InstanceOf[t]] = t
        /\ \A i \in Instances \ {InstanceOf[t]} : rlock'[i] = rlock[i]
    BY <1>1, <2>1
  <2>4. \A u \in Threads : pc'[u] \in Owning => rlock'[InstanceOf[u]] = u
    BY <1>1, <1>2, <2>1, <2>2, <2>3, InstanceAssumption DEF Owning, Critical
  <2>5. \A i \in Instances : rlock'[i] # None =>
             InstanceOf[rlock'[i]] = i /\ pc'[rlock'[i]] \in Owning
    <3> SUFFICES ASSUME NEW i \in Instances, rlock'[i] # None
                 PROVE  InstanceOf[rlock'[i]] = i /\ pc'[rlock'[i]] \in Owning
      OBVIOUS
    <3>1. CASE i = InstanceOf[t]
      BY <2>2, <2>3, <3>1 DEF Owning
    <3>2. CASE i # InstanceOf[t]
      <4>1. rlock'[i] = rlock[i] /\ rlock[i] \in Threads
        BY <1>1, <2>3, <3>2
      <4>2. rlock[i] # t
        BY <1>2, <4>1, <3>2
      <4> QED
        BY <1>2, <2>2, <4>1, <4>2
    <3> QED
      BY <3>1, <3>2
  <2>6. flock' # None => pc'[flock'] \in Critical \cup {"release"}
    BY <1>1, <1>2, <2>1, <2>2 DEF Critical
  <2> QED
    BY <2>4, <2>5, <2>6 DEF LocksOwned
<1>4. CASE TakeFlock(t)
  <2>1. /\ pc[t] = "flock" /\ pc' = [pc EXCEPT ![t] = "read"]
        /\ rlock' = rlock /\ flock' = t
    BY <1>4 DEF TakeFlock, Goto
  <2>2. pc'[t] = "read" /\ \A u \in Threads \ {t} : pc'[u] = pc[u]
    BY <1>1, <2>1
  <2>3. \A u \in Threads : pc'[u] \in Owning => rlock'[InstanceOf[u]] = u
    BY <1>2, <2>1, <2>2 DEF Owning
  <2>4. \A i \in Instances : rlock'[i] # None =>
             InstanceOf[rlock'[i]] = i /\ pc'[rlock'[i]] \in Owning
    BY <1>1, <1>2, <2>1, <2>2 DEF Owning, Critical
  <2> QED
    BY <2>1, <2>2, <2>3, <2>4 DEF LocksOwned, Critical
<1>5. CASE Release(t)
  <2>1. /\ pc[t] = "release" /\ pc' = [pc EXCEPT ![t] = "idle"]
        /\ rlock' = [rlock EXCEPT ![InstanceOf[t]] = None]
        /\ flock' = IF flock = t THEN None ELSE flock
    BY <1>5 DEF Release, Goto
  <2>2. pc'[t] = "idle" /\ \A u \in Threads \ {t} : pc'[u] = pc[u]
    BY <1>1, <2>1
  <2>3. /\ rlock'[InstanceOf[t]] = None
        /\ \A i \in Instances \ {InstanceOf[t]} : rlock'[i] = rlock[i]
    BY <1>1, <2>1
  <2>4. rlock[InstanceOf[t]] = t
    BY <1>2, <2>1 DEF Owning
  <2>5. ASSUME NEW u \in Threads, pc'[u] \in Owning PROVE rlock'[InstanceOf[u]] = u
    <3>1. u # t
      BY <2>2, <2>5 DEF Owning, Critical
    <3>2. rlock[InstanceOf[u]] = u
      BY <1>2, <2>2, <2>5, <3>1
    <3> QED
      BY <2>3, <2>4, <3>1, <3>2, InstanceAssumption
  <2>6. ASSUME NEW i \in Instances, rlock'[i] # None
        PROVE  InstanceOf[rlock'[i]] = i /\ pc'[rlock'[i]] \in Owning
    <3>1. i # InstanceOf[t] /\ rlock'[i] = rlock[i] /\ rlock[i] \in Threads
      BY <1>1, <2>3, <2>6
    <3>2. rlock[i] # None /\ rlock[i] # t
      BY <1>2, <2>6, <3>1
    <3> QED
      BY <1>2, <2>2, <3>1, <3>2
  <2>7. flock' # None => pc'[flock'] \in Critical \cup {"release"}
    BY <1>1, <1>2, <2>1, <2>2
  <2> QED
    BY <2>5, <2>6, <2>7 DEF LocksOwned
<1> QED
  BY <1>3, <1>4, <1>5

LEMMA LocksStep == Typed /\ LocksOwned /\ [Next]_vars => LocksOwned'
<1> SUFFICES ASSUME Typed, LocksOwned, [Next]_vars PROVE LocksOwned'
  OBVIOUS
<1>0. pc \in [Threads -> Steps] /\ None \notin Threads
  BY DistinctAssumption DEF Typed, TypeOK
<1>1. ASSUME NEW t \in Threads, NEW o, NEW f, Begin(t, o, f) PROVE LocksOwned'
  <2>1. /\ pc[t] = "idle" /\ pc' = [pc EXCEPT ![t] = "rlock"] /\ UNCHANGED <<flock, rlock>>
    BY <1>1 DEF Begin, Goto
  <2>2. flock # t
    BY <1>0, <2>1 DEF LocksOwned, Critical
  <2> QED
    BY <2>1, <2>2, LocksStay DEF Owning, Critical, Steps
<1>2. ASSUME NEW t \in Threads, Construct(t) \/ Load(t) PROVE LocksOwned'
  BY <1>1, <1>2 DEF Construct, Load
<1>3. ASSUME NEW t \in Threads, NEW f \in Fields, AppendTo(t, f) PROVE LocksOwned'
  BY <1>1, <1>3 DEF AppendTo
<1>4. ASSUME NEW t \in Threads, Read(t) \/ WriteTemp(t) \/ Replace(t) \/ SyncDirectory(t) \/ Raise(t)
      PROVE  LocksOwned'
  <2>1. /\ pc[t] \in Owning \ {"release"} /\ UNCHANGED <<flock, rlock>>
        /\ \E s \in {"write", "replace", "dirsync", "release"} : pc' = [pc EXCEPT ![t] = s]
    BY <1>4 DEF Read, ReadForConstruct, ReadForLoad, ReadForAppend, WriteTemp, Replace,
                SyncDirectory, Raise, Goto, Owning, Critical
  <2> PICK s \in {"write", "replace", "dirsync", "release"} : pc' = [pc EXCEPT ![t] = s]
    BY <2>1
  <2> QED
    BY <2>1, LocksStay DEF Owning, Critical, Steps
<1>5. ASSUME NEW T \in SUBSET Threads, Kill(T) PROVE LocksOwned'
  <2>1. /\ \A t \in Threads : pc'[t] = IF t \in T THEN "idle" ELSE pc[t]
        /\ \A i \in Instances : rlock'[i] = IF rlock[i] \in T THEN None ELSE rlock[i]
        /\ flock' = IF flock \in T THEN None ELSE flock
    BY <1>5 DEF Kill
  <2>2. \A t \in Threads : pc'[t] \in Owning => rlock'[InstanceOf[t]] = t
    BY <2>1, InstanceAssumption DEF LocksOwned, Owning, Critical
  <2>3. \A i \in Instances : rlock'[i] # None =>
             InstanceOf[rlock'[i]] = i /\ pc'[rlock'[i]] \in Owning
    <3>1. \A i \in Instances : rlock[i] # None => rlock[i] \in Threads
      BY DEF Typed, TypeOK
    <3> QED
      BY <2>1, <3>1 DEF LocksOwned
  <2>4. flock' # None => pc'[flock'] \in Critical \cup {"release"}
    <3>1. flock # None => flock \in Threads
      BY DEF Typed, TypeOK
    <3> QED
      BY <2>1, <3>1 DEF LocksOwned
  <2> QED
    BY <2>2, <2>3, <2>4 DEF LocksOwned
<1>6. ASSUME NEW i \in Instances, ProcessDies(i) PROVE LocksOwned'
  BY <1>5, <1>6 DEF ProcessDies
<1>7. CASE HostStops
  BY <1>5, <1>7 DEF HostStops
<1>8. CASE UNCHANGED vars
  BY <1>8 DEF vars, LocksOwned
<1> QED
  BY <1>2, <1>3, <1>4, <1>6, <1>7, <1>8, LocksMove DEF Next, Transaction, Advance

\* The locks have their owners, in every interleaving of operations, raised
\* calls, kills and stops of the host.
THEOREM LocksAreOwned == Spec => []LocksOwned
<1>1. Init => LocksOwned
  BY InstanceAssumption, DistinctAssumption DEF Init, LocksOwned, Owning, Critical
<1>2. Typed /\ Safe => Typed
  OBVIOUS
<1> QED
  BY <1>1, <1>2, LocksStep, Safety, PTL DEF Spec

\* Two nested locks, always taken in the same order, by any number of
\* processes and threads: no deadlock.
THEOREM NeverDeadlocked == Spec => []NoDeadlock
<1>1. Typed /\ LocksOwned => NoDeadlock
  <2> SUFFICES ASSUME Typed, LocksOwned, NEW t \in Threads, pc[t] # "idle", ~CanGoOn(t)
               PROVE  \E u \in Threads : /\ WaitsFor(t, u)
                                         /\ \/ CanGoOn(u)
                                            \/ \E v \in Threads : WaitsFor(u, v) /\ CanGoOn(v)
    BY DEF NoDeadlock
  <2>1. pc[t] = "rlock" \/ pc[t] = "flock"
    BY DEF Typed, TypeOK, Steps, CanGoOn, Critical
  <2>2. ASSUME NEW u \in Threads, pc[u] = "flock", ~CanGoOn(u)
        PROVE  \E v \in Threads : WaitsFor(u, v) /\ CanGoOn(v)
    <3>1. flock \in Threads
      BY <2>2 DEF CanGoOn, Typed, TypeOK
    <3>2. WaitsFor(u, flock) /\ CanGoOn(flock)
      BY <2>2, <3>1, DistinctAssumption DEF WaitsFor, CanGoOn, LocksOwned
    <3> QED
      BY <3>1, <3>2
  <2>3. CASE pc[t] = "flock"
    BY <2>2, <2>3
  <2>4. CASE pc[t] = "rlock"
    <3> PICK u \in Threads : u = rlock[InstanceOf[t]]
      BY <2>4, InstanceAssumption DEF CanGoOn, Typed, TypeOK
    <3>1. pc[u] \in Owning /\ WaitsFor(t, u)
      BY <2>4, InstanceAssumption, DistinctAssumption DEF LocksOwned, WaitsFor
    <3>2. CanGoOn(u) \/ pc[u] = "flock"
      BY <3>1 DEF Owning, CanGoOn
    <3> QED
      BY <2>2, <3>1, <3>2
  <2> QED
    BY <2>1, <2>3, <2>4
<1>2. Typed /\ Safe => Typed
  OBVIOUS
<1> QED
  BY <1>1, <1>2, LocksAreOwned, Safety, PTL

\* An operation is at most seven steps of its own: what separates this and
\* NeverDeadlocked from OperationsReturn is that the steps are taken.
THEOREM OperationsOnlyAdvance == Spec => OperationsAdvance
<1>1. Typed /\ [Next]_vars => \A t \in Threads : Forward(t)
  <2> SUFFICES ASSUME Typed, Next, NEW t \in Threads, pc'[t] # pc[t], pc[t] # "idle"
               PROVE  StepsLeft[pc'[t]] < StepsLeft[pc[t]]
    BY DEF vars, Forward
  <2>0. pc \in [Threads -> Steps]
    BY DEF Typed, TypeOK
  <2>1. /\ StepsLeft["rlock"] = 7 /\ StepsLeft["flock"] = 6 /\ StepsLeft["read"] = 5
        /\ StepsLeft["write"] = 4 /\ StepsLeft["replace"] = 3 /\ StepsLeft["dirsync"] = 2
        /\ StepsLeft["release"] = 1 /\ StepsLeft["idle"] = 0
    BY DEF StepsLeft, Steps
  <2>2. ASSUME NEW u \in Threads, NEW o, NEW f, Begin(u, o, f) PROVE FALSE
    BY <2>0, <2>2 DEF Begin, Goto
  <2>3. ASSUME NEW u \in Threads, Transaction(u) PROVE StepsLeft[pc'[t]] < StepsLeft[pc[t]]
    <3>1. u = t
      BY <2>0, <2>3 DEF Transaction, Advance, TakeRLock, TakeFlock, Read, ReadForConstruct,
           ReadForLoad, ReadForAppend, WriteTemp, Replace, SyncDirectory, Raise, Release, Goto
    <3>2. \/ pc[t] = "rlock" /\ pc'[t] = "flock"
          \/ pc[t] = "flock" /\ pc'[t] = "read"
          \/ pc[t] = "read" /\ pc'[t] \in {"write", "release"}
          \/ pc[t] = "write" /\ pc'[t] = "replace"
          \/ pc[t] = "replace" /\ pc'[t] = "dirsync"
          \/ pc[t] = "dirsync" /\ pc'[t] = "release"
          \/ pc[t] = "release" /\ pc'[t] = "idle"
          \/ pc[t] \in {"flock", "read", "write", "replace", "dirsync"} /\ pc'[t] = "release"
      BY <2>0, <2>3, <3>1 DEF Transaction, Advance, TakeRLock, TakeFlock, Read, ReadForConstruct,
           ReadForLoad, ReadForAppend, WriteTemp, Replace, SyncDirectory, Raise, Release, Goto
    <3> QED
      BY <2>1, <3>2
  <2>4. ASSUME NEW T, Kill(T) PROVE pc'[t] = "idle"
    BY <2>4 DEF Kill
  <2>5. ASSUME pc'[t] = "idle" PROVE StepsLeft[pc'[t]] < StepsLeft[pc[t]]
    BY <2>0, <2>1, <2>5 DEF Steps
  <2>6. ASSUME NEW u \in Threads, Construct(u) \/ Load(u) PROVE FALSE
    BY <2>2, <2>6 DEF Construct, Load
  <2>7. ASSUME NEW u \in Threads, NEW f \in Fields, AppendTo(u, f) PROVE FALSE
    BY <2>2, <2>7 DEF AppendTo
  <2> QED
    BY <2>3, <2>4, <2>5, <2>6, <2>7 DEF Next, ProcessDies, HostStops
<1>2. Typed /\ Safe => Typed
  OBVIOUS
<1> QED
  BY <1>1, <1>2, Safety, PTL DEF Spec, OperationsAdvance

==============================================================================
