------------------------------ MODULE ClaimHandoff ------------------------------
(***************************************************************************)
(* Execution claims (src/agent_control_plane/local_authority_effect.py,    *)
(* with authority_effect_handoff and authority_effect_snapshot of          *)
(* bounded.py): a claim is issued from a persisted authorized decision     *)
(* under the resolver's handoff lock: a fresh _resolve, a snapshot that is *)
(* validated again, and the call that provisions the claim into a store on *)
(* the same host, which is authoritative for every change from then on and *)
(* commits the effect in the transaction that looks at its own rows.       *)
(*                                                                         *)
(* The institution's writers are external: those that take part in the     *)
(* exclusion wait for the handoff lock and write to the store once there   *)
(* is one; MaxBypass others write to the resolver at any time, as the      *)
(* repository's tests do.  The store is modelled from the contract in the  *)
(* module's docstrings and its qualification harness.                      *)
(***************************************************************************)
EXTENDS Integers, Sequences, FiniteSets

CONSTANTS Issuers,
          InputOrder,   \* the inputs in the order they are looked up
          Resolved,     \* inputs whose state _resolve insists on
          Projected,    \* inputs the snapshot's validation insists on
          Bound,        \* inputs whose version the decision binds
          Matched,      \* inputs whose version in the snapshot's context is
                        \* compared with the decision
          Versions,
          MaxCalls, MaxWrites, MaxBypass,   \* bounds
          None

Inputs == {InputOrder[k] : k \in DOMAIN InputOrder}

ASSUME HandoffAssumption ==
    /\ InputOrder \in Seq(STRING) /\ InputOrder # <<>>
    /\ Resolved \subseteq Inputs /\ Projected \subseteq Bound
    /\ Bound \subseteq Inputs /\ Matched \subseteq Bound
    /\ MaxCalls \in Nat /\ MaxWrites \in Nat /\ MaxBypass \in Nat
    /\ None \notin Issuers /\ None \notin Issuers \X Nat /\ None \notin [Inputs -> BOOLEAN]

VARIABLES
    decided,            \* the versions the persisted decision was taken on
    context, source,    \* the resolver: authority context and statuses
    valid,              \* what the institution last did, per input: does it
                        \* stand, in the decided version if that is bound
    lock,               \* owner of the handoff lock, or None
    store,              \* the store's authority rows, or None before a claim
    claims, effect,     \* claims in the store, and the one it committed
    pc, my,             \* per issuer, step and local variables
    calls, writes, bypasses

authority == <<context, source, valid>>
target == <<store, claims, effect>>
vars == <<decided, authority, lock, target, pc, my, calls, writes, bypasses>>

Bindings == [Inputs -> Versions]
Statuses == [version : Versions, active : BOOLEAN]
Current(v) == [version |-> v, active |-> TRUE]
Stands(i, c, s) == s[i] = Current(c[i]) /\ (i \in Bound => c[i] = decided[i])

NoLocals == [provision |-> FALSE, read |-> [i \in Inputs |-> CHOOSE v \in Versions : TRUE],
             bad |-> {}, next |-> 1, held |-> {}]

Goto(c, step) == pc' = [pc EXCEPT ![c] = step]

Init ==
    /\ \E v \in Versions : decided = [i \in Inputs |-> v]
    /\ context = decided
    /\ source = [i \in Inputs |-> Current(decided[i])]
    /\ valid = [i \in Inputs |-> TRUE]
    /\ lock = None
    /\ store = None /\ claims = {} /\ effect = None
    /\ pc = [c \in Issuers |-> "idle"]
    /\ my = [c \in Issuers |-> NoLocals]
    /\ calls = [c \in Issuers |-> 0]
    /\ writes = 0 /\ bypasses = 0

------------------------------------------------------------------------------
(* The institution and its store. *)

WriteSource ==
    /\ \E i \in Inputs :
          \/ /\ \E v \in Versions : context' = [context EXCEPT ![i] = v]
             /\ UNCHANGED source
          \/ /\ \E s \in Statuses : source' = [source EXCEPT ![i] = s]
             /\ UNCHANGED context
    /\ valid' = [i \in Inputs |-> Stands(i, context', source')]
    /\ UNCHANGED <<decided, lock, target, pc, my, calls>>

Write ==
    /\ lock = None /\ store = None
    /\ writes < MaxWrites
    /\ writes' = writes + 1
    /\ WriteSource
    /\ UNCHANGED bypasses

WriteAround ==
    /\ store = None
    /\ bypasses < MaxBypass
    /\ bypasses' = bypasses + 1
    /\ WriteSource
    /\ UNCHANGED writes

WriteStore ==
    /\ store # None
    /\ writes < MaxWrites
    /\ writes' = writes + 1
    /\ \E i \in Inputs, b \in BOOLEAN :
          /\ store' = [store EXCEPT ![i] = b]
          /\ valid' = [valid EXCEPT ![i] = b]
    /\ UNCHANGED <<decided, context, source, lock, claims, effect, pc, my, calls, bypasses>>

\* One transaction of the store: its rows and the effect.
CommitEffect ==
    /\ store # None /\ effect = None
    /\ \A i \in Projected : store[i]
    /\ effect' \in claims
    /\ UNCHANGED <<decided, authority, lock, store, claims, pc, my, calls, writes, bypasses>>

------------------------------------------------------------------------------
(* materialize_local_execution_claim and provision_local_execution_claim. *)

Start(c, provision) ==
    /\ pc[c] = "idle"
    /\ calls[c] < MaxCalls
    /\ calls' = [calls EXCEPT ![c] = @ + 1]
    /\ my' = [my EXCEPT ![c].provision = provision]
    /\ Goto(c, "handoff")
    /\ UNCHANGED <<decided, authority, lock, target, writes, bypasses>>

\* Mutant: the handoff excludes nobody.
TakeHandoffShared(c) ==
    /\ pc[c] = "handoff"
    /\ Goto(c, "context")
    /\ UNCHANGED <<decided, authority, lock, target, my, calls, writes, bypasses>>

TakeHandoff(c) ==
    /\ pc[c] = "handoff"
    /\ lock = None
    /\ lock' = c
    /\ Goto(c, "context")
    /\ UNCHANGED <<decided, authority, target, my, calls, writes, bypasses>>

\* held: the inputs this phase has itself looked up and found active in the
\* decided version (kept for SnapshotWitnessed only).
ReadContext(c) ==
    /\ \/ pc[c] = "context" /\ Goto(c, "status")
       \/ pc[c] = "snapshot" /\ Goto(c, "projection")
    /\ my' = [my EXCEPT ![c].read = context, ![c].bad = {}, ![c].next = 1, ![c].held = {}]
    /\ UNCHANGED <<decided, authority, lock, target, calls, writes, bypasses>>

Found(i, held) == IF source[i] = Current(decided[i]) THEN held \cup {i} ELSE held

\* Mutant: next is left where the phase ended.
LookUnreset(c, insisted, versions, step, done) ==
    LET i == InputOrder[my[c].next]
    IN  /\ pc[c] = step
        /\ my' = [my EXCEPT ![c].next = @ + 1,
                            ![c].bad = IF i \in insisted /\ source[i] # Current(versions[i])
                                       THEN @ \cup {i} ELSE @,
                            ![c].held = Found(i, @)]
        /\ Goto(c, IF my[c].next = Len(InputOrder) THEN done ELSE step)
        /\ UNCHANGED <<decided, authority, lock, target, calls, writes, bypasses>>

\* One status; it counts if the phase insists on it.
Look(c, insisted, versions, step, done) ==
    LET i == InputOrder[my[c].next]
        last == my[c].next = Len(InputOrder)
    IN  /\ pc[c] = step
        /\ my' = [my EXCEPT ![c].next = IF last THEN 1 ELSE @ + 1,
                            ![c].bad = IF i \in insisted /\ source[i] # Current(versions[i])
                                       THEN @ \cup {i} ELSE @,
                            ![c].held = Found(i, @)]
        /\ Goto(c, IF last THEN done ELSE step)
        /\ UNCHANGED <<decided, authority, lock, target, calls, writes, bypasses>>

\* _resolve compares a status with the context it has read, ...
ResolveStatus(c) == Look(c, Resolved, my[c].read, "status", "resolved")

\* Mutant: what _resolve has just checked is not checked again.
ProjectStatusRest(c) == Look(c, Projected \ Resolved, decided, "projection", "projected")

\* ... the validation of the snapshot compares it with the decision.
ProjectStatus(c) == Look(c, Projected, decided, "projection", "projected")

Agrees(c, inputs) == my[c].bad = {} /\ \A i \in inputs : my[c].read[i] = decided[i]

\* reasons or current != decision.binding: raise.
ResolutionChecked(c) ==
    /\ pc[c] = "resolved"
    /\ Goto(c, IF Agrees(c, Bound) THEN "snapshot" ELSE "release")
    /\ UNCHANGED <<decided, authority, lock, target, my, calls, writes, bypasses>>

\* Mutant: the snapshot is taken as it comes.
SnapshotTrusted(c) ==
    /\ pc[c] = "projected"
    /\ Goto(c, IF my[c].provision THEN "provision" ELSE "release")
    /\ UNCHANGED <<decided, authority, lock, target, my, calls, writes, bypasses>>

\* _validate_issuance_snapshot against the decision's binding.
SnapshotChecked(c) ==
    /\ pc[c] = "projected"
    /\ Goto(c, IF Agrees(c, Matched) /\ my[c].provision THEN "provision" ELSE "release")
    /\ UNCHANGED <<decided, authority, lock, target, my, calls, writes, bypasses>>

\* provision(claim): the store takes its one claim and becomes authoritative.
Provision(c) ==
    /\ pc[c] = "provision"
    /\ store = None
    /\ store' = [i \in Inputs |-> TRUE]
    /\ claims' = claims \cup {<<c, calls[c]>>}
    /\ Goto(c, "release")
    /\ UNCHANGED <<decided, authority, lock, effect, my, calls, writes, bypasses>>

\* A lookup, the validity interval or the store makes the call raise.
Fail(c) ==
    /\ pc[c] \in {"context", "status", "resolved", "snapshot", "projection", "projected", "provision"}
    /\ Goto(c, "release")
    /\ UNCHANGED <<decided, authority, lock, target, my, calls, writes, bypasses>>

\* Mutant: the exclusion is left unreleased on the way out.
ReleaseKeepingHandoff(c) ==
    /\ pc[c] = "release"
    /\ my' = [my EXCEPT ![c] = NoLocals]
    /\ Goto(c, "idle")
    /\ UNCHANGED <<decided, authority, lock, target, calls, writes, bypasses>>

\* The end of the with block, by return or exception.
Release(c) ==
    /\ pc[c] = "release"
    /\ lock' = IF lock = c THEN None ELSE lock
    /\ my' = [my EXCEPT ![c] = NoLocals]
    /\ Goto(c, "idle")
    /\ UNCHANGED <<decided, authority, target, calls, writes, bypasses>>

Step(c) ==
    \/ TakeHandoff(c) \/ ReadContext(c) \/ ResolveStatus(c) \/ ProjectStatus(c)
    \/ ResolutionChecked(c) \/ SnapshotChecked(c) \/ Provision(c) \/ Fail(c) \/ Release(c)

Next ==
    \/ Write \/ WriteAround \/ WriteStore \/ CommitEffect
    \/ \E c \in Issuers : Step(c) \/ \E provision \in BOOLEAN : Start(c, provision)

Spec == Init /\ [][Next]_vars

FairSpec == Spec /\ \A c \in Issuers : WF_vars(Step(c))
------------------------------------------------------------------------------

Steps == {"idle", "handoff", "context", "status", "resolved", "snapshot",
          "projection", "projected", "provision", "release"}

Locals == [provision : BOOLEAN, read : Bindings, bad : SUBSET Inputs,
           next : DOMAIN InputOrder, held : SUBSET Inputs]

\* The type invariant.
TypeOK ==
    /\ decided \in Bindings /\ context \in Bindings
    /\ source \in [Inputs -> Statuses]
    /\ valid \in [Inputs -> BOOLEAN]
    /\ lock \in Issuers \cup {None}
    /\ store \in [Inputs -> BOOLEAN] \cup {None}
    /\ claims \subseteq Issuers \X (1..MaxCalls)
    /\ effect \in claims \cup {None}
    /\ pc \in [Issuers -> Steps]
    /\ my \in [Issuers -> Locals]
    /\ calls \in [Issuers -> 0..MaxCalls]
    /\ writes \in 0..MaxWrites /\ bypasses \in 0..MaxBypass

\* Every writer has taken part in the exclusion so far.
InOrder == bypasses = 0

\* "After provision() returns, the participating local store becomes
\* authoritative for all subsequent changes": no invalidation is lost on the
\* way from one to the other, so that a row the store holds for good is one the
\* institution let stand.
NoInvalidationLost ==
    InOrder /\ store # None => \A i \in Projected : store[i] => valid[i]

\* "If an invalidating mutation obtains the authoritative order first, effect
\* commit holds": an effect is committed only while every input its claim
\* rests on stands, whichever of the two places it was last written to.
EffectWhileValid == [][InOrder /\ effect' # effect => \A i \in Projected : valid[i]]_vars

\* The inputs _resolve alone checks (identity, mandate, conflict, ...) stand
\* too at the moment the claim enters the store.
ProvisionedWhileValid ==
    [][InOrder /\ store = None /\ store' # None => \A i \in Resolved : valid[i]]_vars

\* "Invalidation between resolve and snapshot cannot enter claim", not even
\* that of a writer which ignores the handoff: whatever it did since _resolve,
\* the claim projects only inputs the snapshot itself found active in the
\* decided version, each at its own lookup.
SnapshotWitnessed ==
    \A c \in Issuers : pc[c] = "provision" => Projected \subseteq my[c].held

\* Callers of the two functions get out of the handoff again, whatever raises.
CallsReturn == \A c \in Issuers : pc[c] # "idle" ~> pc[c] = "idle"
------------------------------------------------------------------------------
(* Why they hold: the inductive invariant of ClaimHandoffProofs.            *)

Inside == Steps \ {"idle", "handoff"}
Snapshotting == {"snapshot", "projection", "projected", "provision"}

\* Whoever is inside owns the handoff.
LockInv(c) == pc[c] \in Inside => lock = c

\* Input i counts in the phase c is in, and its status has been looked up.
Examined(c, i) ==
    \/ pc[c] = "status" /\ i \in Resolved /\ \E k \in 1..(my[c].next - 1) : InputOrder[k] = i
    \/ pc[c] = "resolved" /\ i \in Resolved
    \/ pc[c] = "projection" /\ i \in Projected /\ \E k \in 1..(my[c].next - 1) : InputOrder[k] = i
    \/ pc[c] = "projected" /\ i \in Projected

\* What an issuer has read is so still, ...
ReadInv(c) == pc[c] \in {"status", "resolved", "projection", "projected"} => my[c].read = context

\* ... what it has looked up too, ...
FoundInv(c) == \A i \in Inputs :
    Examined(c, i) =>
        \/ i \in my[c].bad
        \/ source[i] = Current(IF pc[c] \in {"status", "resolved"} THEN my[c].read[i] ELSE decided[i])

\* ... and so are the two checks it has passed.
CheckedInv(c) ==
    /\ pc[c] \in Snapshotting =>
           /\ \A i \in Bound : context[i] = decided[i]
           /\ \A i \in Resolved : Stands(i, context, source)
    /\ pc[c] = "provision" => \A i \in Projected : Stands(i, context, source)

\* Whatever the writers do: what a snapshot has not found active it rejects, ...
SeenInv(c) == \A i \in Inputs :
    pc[c] \in {"projection", "projected"} /\ Examined(c, i) => i \in my[c].bad \cup my[c].held

\* ... so that a claim is provisioned on what it has found.
WitnessedInv(c) == pc[c] = "provision" => Projected \subseteq my[c].held

IssuerInv(c) ==
    /\ LockInv(c) /\ SeenInv(c) /\ WitnessedInv(c)
    /\ InOrder /\ store = None => ReadInv(c) /\ FoundInv(c) /\ CheckedInv(c)

\* Until a store takes over, an input stands as the resolver says.
StandInv == store = None => \A i \in Inputs : valid[i] <=> Stands(i, context, source)

Safe == StandInv /\ NoInvalidationLost /\ \A c \in Issuers : IssuerInv(c)
==============================================================================
