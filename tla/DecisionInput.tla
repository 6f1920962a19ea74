------------------------------ MODULE DecisionInput ------------------------------
(***************************************************************************)
(* The proposed decision-input commitment profile                          *)
(* (src/agent_control_plane/decision_input_profile.py): verify_record on a *)
(* record whose author changes it between verifications.  A record lists   *)
(* evidence obligations, each with a commitment to its semantic payload,   *)
(* an institutional requirement that names the commitments of its own      *)
(* obligations, evidence items, and the time it is to be evaluated at.     *)
(*                                                                         *)
(* A commitment is modelled by what it commits to.  Commitments anyone can *)
(* recompute, so the author keeps those over the whole of the record, and  *)
(* over parts that nothing else refers to, up to date; the two kinds that  *)
(* can be at odds with each other, of obligations and of requirements, are *)
(* fields of their own.  There is one classification semantics, and every  *)
(* field has its type: what else _validate_... reject is left out.         *)
(***************************************************************************)
EXTENDS Integers, FiniteSets

CONSTANTS
    Ids,        \* obligation_id
    Payloads,   \* semantic payloads of an obligation
    Policies,   \* the policies the record lists, each a ref and a version
    Origin,     \* the requirement's policy_origin_ref
    Items,      \* evidence items
    MaxItems,   \* bound: evidence items at a time
    MaxTime,    \* bound: instants
    Issued,     \* the obligations the requirement was issued with, by id
    None

Instants == 0..MaxTime
States == {"current", "unknown", "conflict"}

ASSUME ProfileAssumption ==
    /\ MaxTime \in Nat /\ MaxItems \in Nat
    /\ \A p \in Payloads : p.required \in BOOLEAN /\ p.maxAge \in Nat
    /\ \A i \in Items : i.for \in SUBSET Ids \ {{}} /\ i.observed \in Instants
                        /\ i.state \in States
    /\ Issued \in [Ids -> Payloads \cup {None}]
    /\ None \notin Payloads

VARIABLES
    obligation, \* per id, the payload listed in the record, or None
    committed,  \* per id, the payload its obligation_commitment is of, or None
    pinned,     \* per id, the payload the requirement's commitment is of, or None
    items,      \* evidence_items
    time        \* evaluation_time

obligations == <<obligation, committed>>
vars == <<obligations, pinned, items, time>>

Init ==
    /\ obligation = Issued
    /\ committed = Issued
    /\ pinned = Issued
    /\ items = {}
    /\ time = 0

------------------------------------------------------------------------------
(* What an author may do to the record. *)

\* An obligation's fields are edited, and perhaps committed to.
Declare(o, p) ==
    /\ obligation[o] # p
    /\ obligation' = [obligation EXCEPT ![o] = p]
    /\ UNCHANGED <<committed, pinned, items, time>>

Recommit(o) ==
    /\ committed[o] # obligation[o]
    /\ committed' = [committed EXCEPT ![o] = obligation[o]]
    /\ UNCHANGED <<obligation, pinned, items, time>>

\* Mutant: the id is forgotten along with the obligation.
RemoveId(o) ==
    /\ obligation[o] # None
    /\ obligation' = [x \in Ids \ {o} |-> obligation[x]]
    /\ committed' = [committed EXCEPT ![o] = None]
    /\ UNCHANGED <<pinned, items, time>>

Remove(o) ==
    /\ obligation[o] # None
    /\ obligation' = [obligation EXCEPT ![o] = None]
    /\ committed' = [committed EXCEPT ![o] = None]
    /\ UNCHANGED <<pinned, items, time>>

\* The obligation_commitments of the requirement are edited.
Pin(o, p) ==
    /\ pinned[o] # p
    /\ pinned' = [pinned EXCEPT ![o] = p]
    /\ UNCHANGED <<obligations, items, time>>

AddEvidence(i) ==
    /\ i \notin items
    /\ Cardinality(items) < MaxItems
    /\ items' = items \cup {i}
    /\ UNCHANGED <<obligations, pinned, time>>

WithdrawEvidence(i) ==
    /\ i \in items
    /\ items' = items \ {i}
    /\ UNCHANGED <<obligations, pinned, time>>

Retime(t) ==
    /\ t # time
    /\ time' = t
    /\ UNCHANGED <<obligations, pinned, items>>

Next ==
    \/ \E o \in Ids :
          \/ \E p \in Payloads : Declare(o, p)
          \/ Recommit(o)
          \/ Remove(o)
          \/ \E p \in Payloads \cup {None} : Pin(o, p)
    \/ \E i \in Items : AddEvidence(i) \/ WithdrawEvidence(i)
    \/ \E t \in Instants : Retime(t)

Spec == Init /\ [][Next]_vars

------------------------------------------------------------------------------
(* verify_record: four rounds of checks, the first that fails raises. *)

ObligationFault(o, code) ==
    /\ obligation[o] # None
    /\ \/ code = "POLICY_BINDING_FAILED" /\ obligation[o].origin \notin Policies
       \/ code = "OBLIGATION_COMMITMENT_MISMATCH" /\ committed[o] # obligation[o]

\* Mutant: an obligation the requirement names may be missing.
InstitutionalFaultKept(o, code) ==
    /\ pinned[o] # None
    /\ \/ /\ code = "INSTITUTIONAL_OBLIGATION_REINTERPRETED"
          /\ obligation[o] # None
          /\ committed[o] # pinned[o] \/ obligation[o].origin.ref # Origin

InstitutionalFault(o, code) ==
    /\ pinned[o] # None
    /\ \/ code = "INSTITUTIONAL_OBLIGATION_REMOVED" /\ obligation[o] = None
       \/ /\ code = "INSTITUTIONAL_OBLIGATION_REINTERPRETED"
          /\ obligation[o] # None
          /\ committed[o] # pinned[o] \/ obligation[o].origin.ref # Origin

\* Mutant: evidence of any source is admissible.
ItemFaultAnySource(i, code) ==
    \/ code = "EVIDENCE_OBLIGATION_UNKNOWN" /\ \E o \in i.for : obligation[o] = None
    \/ code = "EVIDENCE_TIME_FUTURE" /\ i.observed > time

ItemFault(i, code) ==
    \/ code = "EVIDENCE_OBLIGATION_UNKNOWN" /\ \E o \in i.for : obligation[o] = None
    \/ code = "EVIDENCE_SOURCE_MISMATCH"
       /\ \E o \in i.for : obligation[o] # None /\ obligation[o].source # i.source
    \/ code = "EVIDENCE_TIME_FUTURE" /\ i.observed > time

\* Mutant: evidence that is too old is dropped before it is classified.
CandidatesRecent(o) == {i \in items : o \in i.for /\ time - i.observed =< obligation[o].maxAge}

Candidates(o) == {i \in items : o \in i.for}

Conflicting(o) ==
    \/ \E i \in Candidates(o) : i.state = "conflict"
    \/ \E i, j \in Candidates(o) : i.content # j.content

\* Mutant: one item that is recent enough makes up for an old one.
TooOldLatest(o) == \A i \in Candidates(o) : time - i.observed > obligation[o].maxAge

TooOld(o) == \E i \in Candidates(o) : time - i.observed > obligation[o].maxAge

\* Mutant: age is looked at before the items' states.
StatusAgeFirst(o) ==
    IF Candidates(o) = {} THEN "MISSING"
    ELSE IF TooOld(o) THEN "STALE"
    ELSE IF Conflicting(o) THEN "CONFLICT"
    ELSE IF \E i \in Candidates(o) : i.state = "unknown" THEN "UNKNOWN"
    ELSE "VALID"

\* _evidence_status.
Status(o) ==
    IF Candidates(o) = {} THEN "MISSING"
    ELSE IF Conflicting(o) THEN "CONFLICT"
    ELSE IF \E i \in Candidates(o) : i.state = "unknown" THEN "UNKNOWN"
    ELSE IF TooOld(o) THEN "STALE"
    ELSE "VALID"

ObligationFaults ==
    {code \in {"POLICY_BINDING_FAILED", "OBLIGATION_COMMITMENT_MISMATCH"} :
        \E o \in Ids : ObligationFault(o, code)}

InstitutionalFaults ==
    {code \in {"INSTITUTIONAL_OBLIGATION_REMOVED", "INSTITUTIONAL_OBLIGATION_REINTERPRETED"} :
        \E o \in Ids : InstitutionalFault(o, code)}

ItemFaults ==
    {code \in {"EVIDENCE_OBLIGATION_UNKNOWN", "EVIDENCE_SOURCE_MISMATCH",
               "EVIDENCE_TIME_FUTURE"} :
        \E i \in items : ItemFault(i, code)}

\* The ids whose status does not satisfy them, by status.
Unsatisfied(status) ==
    {o \in Ids : obligation[o] # None /\ obligation[o].required /\ Status(o) = status}

StatusFaults ==
    {status \in {"CONFLICT", "UNKNOWN", "STALE", "MISSING"} : Unsatisfied(status) # {}}

\* Evidence is classified only once it is known to be admissible.
WellFormed == ObligationFaults = {} /\ InstitutionalFaults = {} /\ ItemFaults = {}

Accepted == WellFormed /\ StatusFaults = {}

------------------------------------------------------------------------------

\* The type invariant.
TypeOK ==
    /\ obligation \in [Ids -> Payloads \cup {None}]
    /\ committed \in [Ids -> Payloads \cup {None}]
    /\ pinned \in [Ids -> Payloads \cup {None}]
    /\ items \subseteq Items
    /\ time \in Instants

\* When each status is called for, taken by itself.
CallsFor(o, status) ==
    CASE status = "CONFLICT" -> Conflicting(o)
      [] status = "UNKNOWN"  -> \E i \in Candidates(o) : i.state = "unknown"
      [] status = "STALE"    -> \E i \in Candidates(o) : time - i.observed > obligation[o].maxAge
      [] status = "MISSING"  -> Candidates(o) = {}
      [] status = "VALID"    -> TRUE

\* The precedence SUPPORTED_CLASSIFICATION_SEMANTICS declares.
Precedence == <<"CONFLICT", "UNKNOWN", "STALE", "MISSING", "VALID">>

\* The classifier, which looks for missing evidence first, decides as the
\* precedence it declares says: the status is the first one called for.
StatusByPrecedence == \A o \in Ids : obligation[o] # None =>
    \E n \in 1..5 :
        /\ Status(o) = Precedence[n]
        /\ CallsFor(o, Precedence[n])
        /\ \A m \in 1..(n - 1) : ~CallsFor(o, Precedence[m])

Fails(o) == Status(o) \in {"CONFLICT", "UNKNOWN", "STALE"}

\* What evidence has been found wanting, neither more evidence nor time mends:
\* no step that withdraws none, does not put the clock back and leaves the
\* obligation as it was makes a conflicting, unknown or stale one valid.  A
\* late item in particular does not replace an old one.
NothingRevives ==
    [][items \subseteq items' /\ time' >= time =>
          \A o \in Ids :
              obligation[o] # None /\ obligation'[o] = obligation[o] /\ Fails(o)
                => Status(o)' # "VALID"]_vars

\* Only time can turn a record it alone changes, and only so: from accepted to
\* rejected by evidence that has become stale, and from rejected to accepted by
\* evidence that no longer is from the future.
TimeOnlyAges ==
    [][UNCHANGED <<obligations, pinned, items>> /\ time' > time =>
          /\ Accepted => WellFormed' /\ StatusFaults' \subseteq {"STALE"}
          /\ ~Accepted /\ "EVIDENCE_TIME_FUTURE" \notin ItemFaults => ~Accepted']_vars

\* What acceptance says of every obligation the requirement names: it is there,
\* with the payload the requirement commits to, and if it is required there is
\* evidence of the source it names, all of it current, of one content and no
\* older than it allows.
PinsHonoured == Accepted => \A o \in Ids : pinned[o] # None =>
    /\ obligation[o] = pinned[o]
    /\ pinned[o].required =>
          /\ \E i \in items : o \in i.for
          /\ \A i \in items : o \in i.for =>
                /\ i.source = pinned[o].source /\ i.state = "current"
                /\ i.observed =< time /\ time - i.observed =< pinned[o].maxAge
                /\ \A j \in items : o \in j.for => j.content = i.content

\* Not so in the code.  "Each institutional requirement binds the exact
\* commitments of its institutional obligations": a record with the
\* requirement as issued - its content, and so its commitment - is accepted
\* only with the obligations it was issued with.
RequirementBindsObligations == Accepted => \A o \in Ids :
    Issued[o] # None => obligation[o] = Issued[o]
==============================================================================
