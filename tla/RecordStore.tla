----------------------------- MODULE RecordStore -----------------------------
(***************************************************************************)
(* BoundedRecordStore (src/agent_control_plane/bounded.py 306-413): one    *)
(* JSON run record shared by the threads of several processes.  Every      *)
(* construction, load and append runs as a transaction: the instance's     *)
(* RLock, then an exclusive flock on the sidecar file, then reload, edit,  *)
(* write of a fresh temporary file, rename over the record, fsync of the   *)
(* directory, and release in reverse order.  Any system call may raise, a  *)
(* process may be killed between any two steps, the host may stop.         *)
(*                                                                         *)
(* An entry is identified with the append call that wrote it.  A temporary *)
(* file is private to its call (mkstemp) and is read by nobody, so only    *)
(* its content, work[t], is kept.  The kernel is modelled as the code      *)
(* relies on it: flock is per open file and dies with its process, rename  *)
(* is atomic, and a rename is certain to survive a stop of the host only   *)
(* once the directory has been fsynced.                                    *)
(***************************************************************************)
EXTENDS Integers, Sequences, FiniteSets

CONSTANTS Threads,      \* callers
          Instances,    \* BoundedRecordStore objects, one per process
          InstanceOf,   \* the instance a thread calls
          Fields,       \* the append lists of BoundedRunRecord
          MaxCalls,     \* bound: operations one thread starts
          MaxCrashes,   \* bound: process kills and host stops together
          NoFile, Corrupt, None

ASSUME InstanceAssumption == InstanceOf \in [Threads -> Instances]
ASSUME BoundAssumption == MaxCalls \in Nat /\ MaxCrashes \in Nat
ASSUME DistinctAssumption ==
    /\ None \notin Threads
    /\ \A v \in {NoFile, Corrupt, None} : v \notin [Fields -> Seq(Threads \X (0..MaxCalls))]
    /\ NoFile # Corrupt /\ NoFile # None /\ Corrupt # None

VARIABLES
    doc,      \* what the record's path names
    disk,     \* the contents the path may have after a stop of the host
    flock,    \* the thread whose descriptor holds the sidecar lock, or None
    rlock,    \* per instance, the thread that owns its RLock, or None
    up,       \* per instance, whether __init__ has returned
    pc, op,   \* per thread, the step it is at and the operation it runs
    field,    \* per thread, the list its append goes to
    work,     \* per thread, the document it is about to write
    seen,     \* per thread, what its last load returned
    result,   \* per thread, "ok" or "raised", of the operation in progress
    calls,    \* per thread, the number of operations it has started
    acked,    \* append calls that returned to their caller
    crashes   \* process kills and host stops so far

vars == <<doc, disk, flock, rlock, up, pc, op, field, work, seen, result,
          calls, acked, crashes>>

Calls == Threads \X (0..MaxCalls)
Documents == [Fields -> Seq(Calls)]
Empty == [f \in Fields |-> <<>>]
CallOf(t) == <<t, calls[t]>>

\* One entry for call c at the end of the list f: document.setdefault(f, []).append.
WithEntry(d, f, c) == [d EXCEPT ![f] = Append(@, c)]

Goto(t, step) == pc' = [pc EXCEPT ![t] = step]

Init ==
    /\ doc \in {NoFile, Corrupt, Empty}
    /\ disk = {doc}
    /\ flock = None
    /\ rlock = [i \in Instances |-> None]
    /\ up = [i \in Instances |-> FALSE]
    /\ pc = [t \in Threads |-> "idle"]
    /\ op = [t \in Threads |-> "none"]
    /\ field \in [Threads -> Fields]
    /\ work = [t \in Threads |-> None]
    /\ seen = [t \in Threads |-> None]
    /\ result = [t \in Threads |-> "ok"]
    /\ calls = [t \in Threads |-> 0]
    /\ acked = {}
    /\ crashes = 0

------------------------------------------------------------------------------
(* Calls.  One thread of a process constructs the instance; the others use *)
(* it once the constructor has returned.                                   *)

Begin(t, operation, f) ==
    /\ pc[t] = "idle"
    /\ calls[t] < MaxCalls
    /\ calls' = [calls EXCEPT ![t] = @ + 1]
    /\ op' = [op EXCEPT ![t] = operation]
    /\ field' = [field EXCEPT ![t] = f]
    /\ Goto(t, "rlock")
    /\ UNCHANGED <<doc, disk, flock, rlock, up, work, seen, result, acked, crashes>>

Construct(t) ==
    /\ ~up[InstanceOf[t]]
    /\ \A u \in Threads : InstanceOf[u] = InstanceOf[t] => pc[u] = "idle"
    /\ Begin(t, "construct", field[t])

Load(t) == up[InstanceOf[t]] /\ Begin(t, "load", field[t])

AppendTo(t, f) == up[InstanceOf[t]] /\ Begin(t, "append", f)

------------------------------------------------------------------------------
(* The transaction. *)

TakeRLock(t) ==
    /\ pc[t] = "rlock"
    /\ rlock[InstanceOf[t]] = None
    /\ rlock' = [rlock EXCEPT ![InstanceOf[t]] = t]
    /\ Goto(t, "flock")
    /\ UNCHANGED <<doc, disk, flock, up, op, field, work, seen, result, calls, acked, crashes>>

\* Mutant: transactions that do not exclude each other.
TakeFlockShared(t) ==
    /\ pc[t] = "flock"
    /\ flock' = t
    /\ Goto(t, "read")
    /\ UNCHANGED <<doc, disk, rlock, up, op, field, work, seen, result, calls, acked, crashes>>

TakeFlock(t) ==
    /\ pc[t] = "flock"
    /\ flock = None
    /\ flock' = t
    /\ Goto(t, "read")
    /\ UNCHANGED <<doc, disk, rlock, up, op, field, work, seen, result, calls, acked, crashes>>

\* Mutant: the empty document is not built before the write.
ReadForConstructUnprepared(t) ==
    /\ op[t] = "construct"
    /\ doc # Corrupt
    /\ Goto(t, IF doc = NoFile THEN "write" ELSE "release")
    /\ UNCHANGED <<work, seen>>

\* Mutant: a record that cannot be read is started afresh.
ReadForConstructOverwriting(t) ==
    /\ op[t] = "construct"
    /\ IF doc \in {NoFile, Corrupt}
       THEN /\ work' = [work EXCEPT ![t] = Empty]
            /\ Goto(t, "write")
       ELSE /\ Goto(t, "release")
            /\ UNCHANGED work
    /\ UNCHANGED seen

\* __init__ writes an empty document only where there is no file.
ReadForConstruct(t) ==
    /\ op[t] = "construct"
    /\ doc # Corrupt
    /\ IF doc = NoFile
       THEN /\ work' = [work EXCEPT ![t] = Empty]
            /\ Goto(t, "write")
       ELSE /\ Goto(t, "release")
            /\ UNCHANGED work
    /\ UNCHANGED seen

ReadForLoad(t) ==
    /\ op[t] = "load"
    /\ doc \notin {NoFile, Corrupt}
    /\ seen' = [seen EXCEPT ![t] = doc]
    /\ Goto(t, "release")
    /\ UNCHANGED work

\* Mutant: the document the thread loaded earlier is edited, not a fresh one.
ReadForAppendCached(t) ==
    LET base == IF seen[t] # None THEN seen[t] ELSE doc
    IN  /\ op[t] = "append"
        /\ doc \notin {NoFile, Corrupt}
        /\ work' = [work EXCEPT ![t] = WithEntry(base, field[t], CallOf(t))]
        /\ Goto(t, "write")
        /\ UNCHANGED seen

\* _append: reload under the lock, never a document kept from an earlier call.
ReadForAppend(t) ==
    /\ op[t] = "append"
    /\ doc \notin {NoFile, Corrupt}
    /\ work' = [work EXCEPT ![t] = WithEntry(doc, field[t], CallOf(t))]
    /\ Goto(t, "write")
    /\ UNCHANGED seen

Read(t) ==
    /\ pc[t] = "read"
    /\ ReadForConstruct(t) \/ ReadForLoad(t) \/ ReadForAppend(t)
    /\ UNCHANGED <<doc, disk, flock, rlock, up, op, field, result, calls, acked, crashes>>

\* mkstemp, json.dump, flush and fsync of the temporary file.
WriteTemp(t) ==
    /\ pc[t] = "write"
    /\ Goto(t, "replace")
    /\ UNCHANGED <<doc, disk, flock, rlock, up, op, field, work, seen, result, calls, acked, crashes>>

\* os.replace: visible at once, durable only after the directory fsync.
Replace(t) ==
    /\ pc[t] = "replace"
    /\ doc' = work[t]
    /\ disk' = disk \cup {work[t]}
    /\ Goto(t, "dirsync")
    /\ UNCHANGED <<flock, rlock, up, op, field, work, seen, result, calls, acked, crashes>>

\* Mutant: success without the directory fsync.
SyncDirectorySkipped(t) ==
    /\ pc[t] = "dirsync"
    /\ Goto(t, "release")
    /\ UNCHANGED <<doc, disk, flock, rlock, up, op, field, work, seen, result, calls, acked, crashes>>

SyncDirectory(t) ==
    /\ pc[t] = "dirsync"
    /\ disk' = {doc}
    /\ Goto(t, "release")
    /\ UNCHANGED <<doc, flock, rlock, up, op, field, work, seen, result, calls, acked, crashes>>

\* Any system call of the transaction fails, or the record is missing, does
\* not parse or does not validate; the finally clauses unlink the temporary
\* file and release the locks.
Raise(t) ==
    /\ pc[t] \in {"flock", "read", "write", "replace", "dirsync"}
    /\ result' = [result EXCEPT ![t] = "raised"]
    /\ Goto(t, "release")
    /\ UNCHANGED <<doc, disk, flock, rlock, up, op, field, work, seen, calls, acked, crashes>>

\* Mutant: close(fd) is not in a finally clause.
ReleaseUnlessRaised(t) ==
    /\ pc[t] = "release"
    /\ flock' = IF flock = t /\ result[t] # "raised" THEN None ELSE flock
    /\ rlock' = [rlock EXCEPT ![InstanceOf[t]] = None]
    /\ up' = IF op[t] = "construct" /\ result[t] = "ok"
             THEN [up EXCEPT ![InstanceOf[t]] = TRUE] ELSE up
    /\ acked' = IF op[t] = "append" /\ result[t] = "ok"
                THEN acked \cup {CallOf(t)} ELSE acked
    /\ work' = [work EXCEPT ![t] = None]
    /\ op' = [op EXCEPT ![t] = "none"]
    /\ result' = [result EXCEPT ![t] = "ok"]
    /\ Goto(t, "idle")
    /\ UNCHANGED <<doc, disk, field, seen, calls, crashes>>

\* close(fd), release of the RLock and return.  No other thread can tell the
\* three apart: the sidecar lock alone decides who goes on.
Release(t) ==
    /\ pc[t] = "release"
    /\ flock' = IF flock = t THEN None ELSE flock
    /\ rlock' = [rlock EXCEPT ![InstanceOf[t]] = None]
    /\ up' = IF op[t] = "construct" /\ result[t] = "ok"
             THEN [up EXCEPT ![InstanceOf[t]] = TRUE] ELSE up
    /\ acked' = IF op[t] = "append" /\ result[t] = "ok"
                THEN acked \cup {CallOf(t)} ELSE acked
    /\ work' = [work EXCEPT ![t] = None]
    /\ op' = [op EXCEPT ![t] = "none"]
    /\ result' = [result EXCEPT ![t] = "ok"]
    /\ Goto(t, "idle")
    /\ UNCHANGED <<doc, disk, field, seen, calls, crashes>>

------------------------------------------------------------------------------
(* Crashes. *)

\* The threads in T are gone, with their locks and their memory.
Kill(T) ==
    /\ crashes < MaxCrashes
    /\ crashes' = crashes + 1
    /\ flock' = IF flock \in T THEN None ELSE flock
    /\ rlock' = [i \in Instances |-> IF rlock[i] \in T THEN None ELSE rlock[i]]
    /\ up' = [i \in Instances |-> up[i] /\ \A t \in T : InstanceOf[t] # i]
    /\ pc' = [t \in Threads |-> IF t \in T THEN "idle" ELSE pc[t]]
    /\ op' = [t \in Threads |-> IF t \in T THEN "none" ELSE op[t]]
    /\ work' = [t \in Threads |-> IF t \in T THEN None ELSE work[t]]
    /\ seen' = [t \in Threads |-> IF t \in T THEN None ELSE seen[t]]
    /\ result' = [t \in Threads |-> IF t \in T THEN "ok" ELSE result[t]]
    /\ UNCHANGED <<field, calls, acked>>

ProcessDies(i) ==
    /\ up[i] \/ \E t \in Threads : InstanceOf[t] = i /\ pc[t] # "idle"
    /\ Kill({t \in Threads : InstanceOf[t] = i})
    /\ UNCHANGED <<doc, disk>>

HostStops ==
    /\ Kill(Threads)
    /\ doc' \in disk
    /\ disk' = {doc'}

------------------------------------------------------------------------------

Advance(t) ==
    \/ TakeRLock(t) \/ TakeFlock(t) \/ Read(t) \/ WriteTemp(t)
    \/ Replace(t) \/ SyncDirectory(t) \/ Release(t)

Transaction(t) == Advance(t) \/ Raise(t)

Next ==
    \/ \E t \in Threads : Construct(t) \/ Load(t) \/ Transaction(t)
    \/ \E t \in Threads, f \in Fields : AppendTo(t, f)
    \/ \E i \in Instances : ProcessDies(i)
    \/ HostStops

\* A live thread takes its next step; it need not start operations, and no
\* system call must fail: waiting for a lock does not end by itself.  A record
\* that cannot be read does raise.  flock and RLock promise no order.
Fairness == \A t \in Threads : WF_vars(Advance(t) \/ (pc[t] = "read" /\ Raise(t)))

Spec == Init /\ [][Next]_vars

FairSpec == Spec /\ Fairness
------------------------------------------------------------------------------

Steps == {"idle", "rlock", "flock", "read", "write", "replace", "dirsync", "release"}

\* The type invariant.
TypeOK ==
    /\ doc \in Documents \cup {NoFile, Corrupt}
    /\ disk \in SUBSET (Documents \cup {NoFile, Corrupt})
    /\ flock \in Threads \cup {None}
    /\ rlock \in [Instances -> Threads \cup {None}]
    /\ up \in [Instances -> BOOLEAN]
    /\ pc \in [Threads -> Steps]
    /\ op \in [Threads -> {"none", "construct", "load", "append"}]
    /\ field \in [Threads -> Fields]
    /\ work \in [Threads -> Documents \cup {None}]
    /\ seen \in [Threads -> Documents \cup {None}]
    /\ result \in [Threads -> {"ok", "raised"}]
    /\ calls \in [Threads -> 0..MaxCalls]
    /\ acked \in SUBSET Calls
    /\ crashes \in Nat

Log == INSTANCE RecordLog
       WITH Calls <- Calls,
            log <- doc,
            open <- {CallOf(t) : t \in {u \in Threads : op[u] = "append"}},
            acked <- acked

\* "A successful append retains one new entry for that call and all earlier
\* entries" (docs/record-store-persistence.md): whatever the other threads and
\* processes did since, and whatever crashed, the entry of every append that
\* returned is in the record, and it is there once.
AckedRetainedOnce ==
    \A c \in acked : /\ doc \in Documents
                     /\ \E f \in Fields : \E k \in DOMAIN doc[f] :
                          /\ doc[f][k] = c
                          /\ \A g \in Fields : \A j \in DOMAIN doc[g] :
                               doc[g][j] = c => g = f /\ j = k

\* Readers never see history rewritten: what a live thread's last load
\* returned is, list by list, a prefix of the record now.
SnapshotsArePrefixes ==
    \A t \in Threads : seen[t] # None => doc \in Documents /\ Log!Earlier(seen[t], doc)

\* "Corrupt/malformed/invalid records raise an error and are never replaced by
\* an empty store", by any construction, append or crash.
CorruptionPreserved == [][doc = Corrupt => doc' = Corrupt]_vars

\* Each list only grows, by the entry of one running call at a time; only a
\* stop of the host takes anything back, and then nothing acknowledged.
ImplementsLog == Log!Spec

\* An operation on a live process returns or raises: no crash leaves a lock
\* behind that its waiters never get.
OperationsReturn == \A t \in Threads : pc[t] # "idle" ~> pc[t] = "idle"
------------------------------------------------------------------------------
(* Why AckedRetainedOnce and CorruptionPreserved hold: the inductive        *)
(* invariant of RecordStoreProofs.                                          *)

Critical == {"read", "write", "replace", "dirsync"}
Pending == {"rlock", "flock", "read", "write", "replace"}

\* Whoever is between its read and its directory fsync has the sidecar lock.
LockInv == \A t \in Threads : pc[t] \in Critical => flock = t

\* What a thread is about to put at the path is the record as it is now, with
\* the entry of its call added; only a construction writes where nothing was.
WorkInv == \A t \in Threads : pc[t] \in {"write", "replace"} =>
    \/ /\ op[t] = "construct"
       /\ doc = NoFile
       /\ work[t] = Empty
    \/ /\ op[t] = "append"
       /\ doc \in Documents
       /\ work[t] = WithEntry(doc, field[t], CallOf(t))

\* No document holds an entry of a call that has not replaced the record yet.
FreshInv == \A d \in disk \cap Documents : \A t \in Threads : \A n \in 0..MaxCalls :
    n > calls[t] \/ (n = calls[t] /\ pc[t] \in Pending) => ~Log!Holds(d, <<t, n>>)

\* The calls that have returned success or are about to.
Settled == acked \cup {CallOf(t) : t \in {u \in Threads :
                pc[u] = "release" /\ op[u] = "append" /\ result[u] = "ok"}}

\* Their entries are in everything a stop of the host may leave, ...
SettledInv == \A c \in Settled : \A d \in disk : d \in Documents /\ Log!Holds(d, c)

\* ... and a call past the rename has its entry in the record.
WrittenInv == \A t \in Threads : pc[t] = "dirsync" /\ op[t] = "append" =>
    doc \in Documents /\ Log!Holds(doc, CallOf(t))

Once(d) == \A f, g \in Fields : \A j \in DOMAIN d[f] : \A k \in DOMAIN d[g] :
    d[f][j] = d[g][k] => f = g /\ j = k

OnceInv == \A d \in disk \cap Documents : Once(d)

\* The record is one of the contents a stop of the host may leave; an
\* unreadable one is the only one.
DiskInv == doc \in disk /\ (doc = Corrupt => disk = {Corrupt})

Safe == /\ LockInv /\ WorkInv /\ FreshInv /\ SettledInv
        /\ WrittenInv /\ OnceInv /\ DiskInv
==============================================================================
