--------------------------- MODULE RefundDestination ---------------------------
(***************************************************************************)
(* LocalRefundDestination (src/agent_control_plane/bounded.py 527-586):    *)
(* one JSON file of effects and per-grant counts, used by the threads of   *)
(* one process under a process-local RLock.  apply loads the file, answers *)
(* a known effect with its record, refuses one over the limit, and         *)
(* otherwise writes the whole new state to a temporary file and renames    *)
(* it; the acknowledgement may then be lost.  The process may be killed    *)
(* between any two steps and started again on the same file.               *)
(***************************************************************************)
EXTENDS Integers, FiniteSets

CONSTANTS Threads, Effects, Grants, GrantOf, LimitOf,
          MaxCalls,     \* bound: requests one thread makes
          MaxCrashes,   \* bound: process deaths
          None

ASSUME DestinationAssumption ==
    /\ IsFiniteSet(Effects)
    /\ GrantOf \in [Effects -> Grants]
    /\ LimitOf \in [Effects -> Nat]
    /\ MaxCalls \in Nat /\ MaxCrashes \in Nat
    /\ None \notin Threads

VARIABLES
    file,       \* the state on disk: effects and grant_effect_counts
    lock,       \* the thread that owns the RLock, or None
    pc,         \* per thread, the step it is at
    req,        \* per thread, its request: effect, kind and whether the ack is lost
    state,      \* per thread, the state it loaded and edited
    answer,     \* per thread, what its last request was answered
    calls,      \* per thread, requests made
    commits,    \* per effect, the requests answered as having committed it
    crashes

vars == <<file, lock, pc, req, state, answer, calls, commits, crashes>>

Kinds == {"applied", "partial"}
Requests == [effect : Effects, kind : Kinds, loseAck : BOOLEAN]
            \cup [effect : Effects, kind : {"observe"}, loseAck : {FALSE}]
NewFile == [effects |-> [e \in Effects |-> "absent"], counts |-> [g \in Grants |-> 0]]

Goto(t, step) == pc' = [pc EXCEPT ![t] = step]

Init ==
    /\ file = NewFile
    /\ lock = None
    /\ pc = [t \in Threads |-> "idle"]
    /\ req = [t \in Threads |-> None]
    /\ state = [t \in Threads |-> None]
    /\ answer = [t \in Threads |-> "none"]
    /\ calls = [t \in Threads |-> 0]
    /\ commits = [e \in Effects |-> 0]
    /\ crashes = 0

\* apply(effect_id, ..., lose_ack, partial) or observe(effect_id) is called.
Request(t, r) ==
    /\ pc[t] = "idle"
    /\ calls[t] < MaxCalls
    /\ calls' = [calls EXCEPT ![t] = @ + 1]
    /\ req' = [req EXCEPT ![t] = r]
    /\ answer' = [answer EXCEPT ![t] = "none"]
    /\ Goto(t, "lock")
    /\ UNCHANGED <<file, lock, state, commits, crashes>>

\* Mutant: apply runs outside the lock.
TakeLockShared(t) ==
    /\ pc[t] = "lock"
    /\ lock' = t
    /\ Goto(t, "load")
    /\ UNCHANGED <<file, req, state, answer, calls, commits, crashes>>

TakeLock(t) ==
    /\ pc[t] = "lock"
    /\ lock = None
    /\ lock' = t
    /\ Goto(t, "load")
    /\ UNCHANGED <<file, req, state, answer, calls, commits, crashes>>

LoadState(t) ==
    /\ pc[t] = "load"
    /\ state' = [state EXCEPT ![t] = file]
    /\ Goto(t, IF req[t].kind = "observe" THEN "observed" ELSE "check")
    /\ UNCHANGED <<file, lock, req, answer, calls, commits, crashes>>

\* The end of the with block: answer, release the RLock.
Reply(t, a) ==
    /\ answer' = [answer EXCEPT ![t] = a]
    /\ lock' = None
    /\ state' = [state EXCEPT ![t] = None]
    /\ req' = [req EXCEPT ![t] = None]
    /\ Goto(t, "idle")

Observe(t) ==
    /\ pc[t] = "observed"
    /\ Reply(t, state[t].effects[req[t].effect])
    /\ UNCHANGED <<file, calls, commits, crashes>>

Duplicate(t) ==
    /\ pc[t] = "check"
    /\ state[t].effects[req[t].effect] # "absent"
    /\ Reply(t, "duplicate")
    /\ UNCHANGED <<file, calls, commits, crashes>>

\* Mutant: the RuntimeError leaves the lock taken.
ExhaustedLocked(t) ==
    LET e == req[t].effect IN
    /\ pc[t] = "check"
    /\ state[t].effects[e] = "absent"
    /\ state[t].counts[GrantOf[e]] >= LimitOf[e]
    /\ answer' = [answer EXCEPT ![t] = "exhausted"]
    /\ state' = [state EXCEPT ![t] = None]
    /\ req' = [req EXCEPT ![t] = None]
    /\ Goto(t, "idle")
    /\ UNCHANGED <<file, lock, calls, commits, crashes>>

Exhausted(t) ==
    LET e == req[t].effect IN
    /\ pc[t] = "check"
    /\ state[t].effects[e] = "absent"
    /\ state[t].counts[GrantOf[e]] >= LimitOf[e]
    /\ Reply(t, "exhausted")
    /\ UNCHANGED <<file, calls, commits, crashes>>

\* Mutant: the counter is taken for what is left.
EditCountingDown(t) ==
    LET e == req[t].effect IN
    /\ pc[t] = "check"
    /\ state[t].effects[e] = "absent"
    /\ state[t].counts[GrantOf[e]] < LimitOf[e]
    /\ state' = [state EXCEPT ![t].effects[e] = req[t].kind,
                              ![t].counts[GrantOf[e]] = @ - 1]
    /\ Goto(t, "write")
    /\ UNCHANGED <<file, lock, req, answer, calls, commits, crashes>>

\* Mutant: the effect is written but not counted.
EditUncounted(t) ==
    LET e == req[t].effect IN
    /\ pc[t] = "check"
    /\ state[t].effects[e] = "absent"
    /\ state[t].counts[GrantOf[e]] < LimitOf[e]
    /\ state' = [state EXCEPT ![t].effects[e] = req[t].kind]
    /\ Goto(t, "write")
    /\ UNCHANGED <<file, lock, req, answer, calls, commits, crashes>>

\* Mutant: one effect more than the limit.
EditOffByOne(t) ==
    LET e == req[t].effect IN
    /\ pc[t] = "check"
    /\ state[t].effects[e] = "absent"
    /\ state[t].counts[GrantOf[e]] =< LimitOf[e]
    /\ state' = [state EXCEPT ![t].effects[e] = req[t].kind,
                              ![t].counts[GrantOf[e]] = @ + 1]
    /\ Goto(t, "write")
    /\ UNCHANGED <<file, lock, req, answer, calls, commits, crashes>>

\* Mutant: a known effect is written over.
EditAgain(t) ==
    LET e == req[t].effect IN
    /\ pc[t] = "check"
    /\ state[t].counts[GrantOf[e]] < LimitOf[e]
    /\ state' = [state EXCEPT ![t].effects[e] = req[t].kind,
                              ![t].counts[GrantOf[e]] = @ + 1]
    /\ Goto(t, "write")
    /\ UNCHANGED <<file, lock, req, answer, calls, commits, crashes>>

\* state["effects"][effect_id] = effect; counts[grant] = prior + 1.
WithEffect(f, e, kind) ==
    [effects |-> [f.effects EXCEPT ![e] = kind],
     counts |-> [f.counts EXCEPT ![GrantOf[e]] = @ + 1]]

Edit(t) ==
    LET e == req[t].effect IN
    /\ pc[t] = "check"
    /\ state[t].effects[e] = "absent"
    /\ state[t].counts[GrantOf[e]] < LimitOf[e]
    /\ state' = [state EXCEPT ![t] = WithEffect(@, e, req[t].kind)]
    /\ Goto(t, "write")
    /\ UNCHANGED <<file, lock, req, answer, calls, commits, crashes>>

\* os.replace of the temporary file.
WriteState(t) ==
    /\ pc[t] = "write"
    /\ file' = state[t]
    /\ Goto(t, "written")
    /\ UNCHANGED <<lock, req, state, answer, calls, commits, crashes>>

\* Loading, writing or renaming the file raises.
Fail(t) ==
    /\ pc[t] \in {"load", "write"}
    /\ Reply(t, "failed")
    /\ UNCHANGED <<file, calls, commits, crashes>>

\* TimeoutError once the effect is committed, or the effect.
Committed(t) ==
    /\ pc[t] = "written"
    /\ Reply(t, IF req[t].loseAck THEN "timeout" ELSE "committed")
    /\ commits' = [commits EXCEPT ![req[t].effect] = @ + 1]
    /\ UNCHANGED <<file, calls, crashes>>

\* The process dies and is started again: only the file is left.
Crash ==
    /\ crashes < MaxCrashes
    /\ crashes' = crashes + 1
    /\ lock' = None
    /\ pc' = [t \in Threads |-> "idle"]
    /\ req' = [t \in Threads |-> None]
    /\ state' = [t \in Threads |-> None]
    /\ answer' = [t \in Threads |-> "none"]
    /\ UNCHANGED <<file, calls, commits>>

Step(t) ==
    \/ TakeLock(t) \/ LoadState(t) \/ Observe(t) \/ Duplicate(t)
    \/ Exhausted(t) \/ Edit(t) \/ WriteState(t) \/ Fail(t) \/ Committed(t)

Next ==
    \/ \E t \in Threads : Step(t)
    \/ \E t \in Threads, r \in Requests : Request(t, r)
    \/ Crash

Spec == Init /\ [][Next]_vars

FairSpec == Spec /\ \A t \in Threads : WF_vars(Step(t))

------------------------------------------------------------------------------

Files == [effects : [Effects -> {"absent"} \cup Kinds], counts : [Grants -> Nat]]

\* The type invariant.
TypeOK ==
    /\ file \in Files
    /\ lock \in Threads \cup {None}
    /\ pc \in [Threads -> {"idle", "lock", "load", "observed", "check", "write", "written"}]
    /\ req \in [Threads -> Requests \cup {None}]
    /\ state \in [Threads -> Files \cup {None}]
    /\ answer \in [Threads -> {"none", "absent", "applied", "partial", "duplicate",
                               "exhausted", "failed", "committed", "timeout"}]
    /\ calls \in [Threads -> 0..MaxCalls]
    /\ commits \in [Effects -> Nat]
    /\ crashes \in 0..MaxCrashes

Ledger == INSTANCE EffectLedger WITH ledger <- file.effects

\* The counter the cap is decided on is the number of effects of the grant,
\* after any interleaving of requests, failed writes and process deaths.
CountsAreEffects ==
    \A g \in Grants : file.counts[g] = Cardinality(Ledger!Used(g))

\* "Concurrent threads sharing that destination cannot both consume a
\* one-effect grant": no grant has more effects than the limit of the request
\* that took the last place.
CapHolds == Ledger!WithinLimit

\* However often an effect is requested, at most one request is told, by an
\* effect or by a lost acknowledgement, that it was the one that committed it.
OneCommitPerEffect == \A e \in Effects : commits[e] =< 1

\* The file moves as the ledger does: an effect appears once, whole, within
\* the limit, and is never changed or taken back by a later request, a failed
\* write or a death of the process.
ImplementsLedger == Ledger!Spec

\* Every request is answered unless the process dies: no thread is left
\* waiting for the RLock.
RequestsAnswered == \A t \in Threads : pc[t] # "idle" ~> pc[t] = "idle"
==============================================================================
