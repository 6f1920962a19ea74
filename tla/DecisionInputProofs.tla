--------------------------- MODULE DecisionInputProofs ---------------------------
(* What verify_record accepts, and what becomes of it, for any obligations,  *)
(* evidence and time.                                                        *)
EXTENDS DecisionInput, TLAPS

LEMMA TypedStep == TypeOK /\ [Next]_vars => TypeOK'
<1> SUFFICES ASSUME TypeOK, [Next]_vars PROVE TypeOK'
  OBVIOUS
<1>1. ASSUME NEW o \in Ids, NEW p \in Payloads, Declare(o, p) PROVE TypeOK'
  BY <1>1 DEF Declare, TypeOK
<1>2. ASSUME NEW o \in Ids, Recommit(o) PROVE TypeOK'
  BY <1>2 DEF Recommit, TypeOK
<1>3. ASSUME NEW o \in Ids, Remove(o) PROVE TypeOK'
  BY <1>3 DEF Remove, TypeOK
<1>4. ASSUME NEW o \in Ids, NEW p \in Payloads \cup {None}, Pin(o, p) PROVE TypeOK'
  BY <1>4 DEF Pin, obligations, TypeOK
<1>5. ASSUME NEW i \in Items, AddEvidence(i) \/ WithdrawEvidence(i) PROVE TypeOK'
  BY <1>5 DEF AddEvidence, WithdrawEvidence, obligations, TypeOK
<1>6. ASSUME NEW t \in Instants, Retime(t) PROVE TypeOK'
  BY <1>6 DEF Retime, obligations, TypeOK
<1>7. CASE UNCHANGED vars
  BY <1>7 DEF vars, obligations, TypeOK
<1> QED
  BY <1>1, <1>2, <1>3, <1>4, <1>5, <1>6, <1>7 DEF Next

\* Every reachable record is well typed.
THEOREM TypeCorrect == Spec => []TypeOK
<1>1. Init => TypeOK
  BY ProfileAssumption DEF Init, TypeOK, Instants
<1> QED
  BY <1>1, TypedStep, PTL DEF Spec

------------------------------------------------------------------------------
(* The classifier. *)

\* When an obligation has each of the statuses.
LEMMA StatusIs ==
    ASSUME NEW o \in Ids
    PROVE  /\ Candidates(o) = {} <=> Status(o) = "MISSING"
           /\ Status(o) = "CONFLICT" <=> Candidates(o) # {} /\ Conflicting(o)
           /\ Status(o) = "VALID" <=>
                 /\ Candidates(o) # {} /\ ~Conflicting(o) /\ ~TooOld(o)
                 /\ ~\E i \in Candidates(o) : i.state = "unknown"
           /\ Status(o) \in {"MISSING", "CONFLICT", "UNKNOWN", "STALE", "VALID"}
BY DEF Status

\* _evidence_status and the precedence its semantics declares agree.
LEMMA PrecedenceHolds == StatusByPrecedence
<1> SUFFICES ASSUME NEW o \in Ids
             PROVE  \E n \in 1..5 : /\ Status(o) = Precedence[n]
                                    /\ CallsFor(o, Precedence[n])
                                    /\ \A m \in 1..(n - 1) : ~CallsFor(o, Precedence[m])
  BY DEF StatusByPrecedence
<1>1. CASE Candidates(o) = {}
  <2>1. /\ Status(o) = Precedence[4] /\ CallsFor(o, Precedence[4])
        /\ ~CallsFor(o, Precedence[1]) /\ ~CallsFor(o, Precedence[2])
        /\ ~CallsFor(o, Precedence[3])
    BY <1>1 DEF Status, Precedence, CallsFor, Conflicting
  <2>2. \A m \in 1..(4 - 1) : m = 1 \/ m = 2 \/ m = 3
    OBVIOUS
  <2> QED
    BY <2>1, <2>2
<1>2. CASE Candidates(o) # {} /\ Conflicting(o)
  <2>1. Status(o) = Precedence[1] /\ CallsFor(o, Precedence[1])
    BY <1>2 DEF Status, Precedence, CallsFor
  <2> QED
    BY <2>1
<1> DEFINE Unknown == \E i \in Candidates(o) : i.state = "unknown"
<1>3. CASE Candidates(o) # {} /\ ~Conflicting(o) /\ Unknown
  <2>1. Status(o) = Precedence[2] /\ CallsFor(o, Precedence[2]) /\ ~CallsFor(o, Precedence[1])
    BY <1>3 DEF Status, Precedence, CallsFor
  <2> QED
    BY <2>1
<1>4. CASE Candidates(o) # {} /\ ~Conflicting(o) /\ ~Unknown /\ TooOld(o)
  <2>1. /\ Status(o) = Precedence[3] /\ CallsFor(o, Precedence[3])
        /\ ~CallsFor(o, Precedence[1]) /\ ~CallsFor(o, Precedence[2])
    BY <1>4 DEF Status, Precedence, CallsFor, TooOld
  <2>2. \A m \in 1..(3 - 1) : m = 1 \/ m = 2
    OBVIOUS
  <2> QED
    BY <2>1, <2>2
<1>5. CASE Candidates(o) # {} /\ ~Conflicting(o) /\ ~Unknown /\ ~TooOld(o)
  <2>1. /\ Status(o) = Precedence[5] /\ CallsFor(o, Precedence[5])
        /\ ~CallsFor(o, Precedence[1]) /\ ~CallsFor(o, Precedence[2])
        /\ ~CallsFor(o, Precedence[3]) /\ ~CallsFor(o, Precedence[4])
    BY <1>5 DEF Status, Precedence, CallsFor, TooOld
  <2>2. \A m \in 1..(5 - 1) : m = 1 \/ m = 2 \/ m = 3 \/ m = 4
    OBVIOUS
  <2> QED
    BY <2>1, <2>2
<1> QED
  BY <1>1, <1>2, <1>3, <1>4, <1>5

\* The status the code computes is always the one its declared precedence
\* (conflict, unknown, stale, missing, valid) calls for.
THEOREM ClassifierAsDeclared == Spec => []StatusByPrecedence
BY PrecedenceHolds, PTL

------------------------------------------------------------------------------
(* Evidence and time. *)

\* More evidence and more time, for the same obligation.
More(o) ==
    /\ items \subseteq items' /\ time' >= time
    /\ obligation'[o] = obligation[o] /\ obligation[o] # None

\* What is wrong with the evidence of an obligation stays wrong.
LEMMA FaultsStay ==
    ASSUME TypeOK, TypeOK', NEW o \in Ids, More(o)
    PROVE  /\ Candidates(o) \subseteq Candidates(o)'
           /\ Conflicting(o) => Conflicting(o)'
           /\ TooOld(o) => TooOld(o)'
<1>1. Candidates(o) \subseteq Candidates(o)'
  BY DEF More, Candidates
<1>2. Conflicting(o) => Conflicting(o)'
  BY <1>1 DEF Conflicting
<1>3. ASSUME TooOld(o) PROVE TooOld(o)'
  <2>1. PICK i \in Candidates(o) : time - i.observed > obligation[o].maxAge
    BY <1>3 DEF TooOld
  <2>2. i \in Items
    BY <2>1 DEF Candidates, TypeOK
  <2>3. i.observed \in Int /\ time \in Int /\ time' \in Int /\ time' >= time
    BY <2>2, ProfileAssumption DEF TypeOK, Instants, More
  <2>4. obligation[o] \in Payloads /\ obligation[o].maxAge \in Int
    BY ProfileAssumption DEF TypeOK, More
  <2>5. time' - i.observed > obligation'[o].maxAge
    BY <2>1, <2>3, <2>4 DEF More
  <2> QED
    BY <1>1, <2>1, <2>5 DEF TooOld
<1> QED
  BY <1>1, <1>2, <1>3

LEMMA FailureStays ==
    ASSUME TypeOK, TypeOK', NEW o \in Ids, More(o), Fails(o)
    PROVE  Status(o)' # "VALID"
<1>1. Candidates(o) # {} /\ (Conflicting(o) \/ TooOld(o) \/ \E i \in Candidates(o) : i.state = "unknown")
  BY DEF Fails, Status
<1>2. Candidates(o)' # {} /\ (Conflicting(o)' \/ TooOld(o)' \/ \E i \in Candidates(o)' : i.state = "unknown")
  BY <1>1, FaultsStay
<1> QED
  BY <1>2 DEF Status

\* Neither added evidence nor time makes a conflicting, unknown or stale
\* obligation valid.
THEOREM NoRevival == Spec => NothingRevives
<1> DEFINE Kept(o) == obligation[o] # None /\ obligation'[o] = obligation[o] /\ Fails(o)
           A == items \subseteq items' /\ time' >= time =>
                   \A o \in Ids : Kept(o) => Status(o)' # "VALID"
<1>1. TypeOK /\ TypeOK' => A
  BY FailureStays DEF More
<1>2. TypeOK /\ [Next]_vars => A
  BY <1>1, TypedStep
<1> QED
  BY <1>2, TypeCorrect, PTL DEF Spec, NothingRevives

------------------------------------------------------------------------------
(* Acceptance. *)

\* An accepted record's required obligations have valid evidence.
LEMMA AcceptedValid ==
    ASSUME Accepted, NEW o \in Ids, obligation[o] # None, obligation[o].required
    PROVE  Status(o) = "VALID"
<1>1. \A status \in {"CONFLICT", "UNKNOWN", "STALE", "MISSING"} : Status(o) # status
  <2> SUFFICES ASSUME NEW status \in {"CONFLICT", "UNKNOWN", "STALE", "MISSING"},
                      Status(o) = status
               PROVE  FALSE
    OBVIOUS
  <2>1. Unsatisfied(status) # {}
    BY DEF Unsatisfied
  <2> QED
    BY <2>1 DEF Accepted, StatusFaults
<1> QED
  BY <1>1, StatusIs

\* The same, in a form that holds of the next state too.
RequiredAreValid ==
    Accepted => \A o \in Ids : obligation[o] # None /\ obligation[o].required => Status(o) = "VALID"

LEMMA AllValid == RequiredAreValid
BY AcceptedValid DEF RequiredAreValid

\* What time alone does to an accepted record.
LEMMA AcceptedAges ==
    ASSUME TypeOK, TypeOK', Accepted, UNCHANGED <<obligations, pinned, items>>, time' > time
    PROVE  WellFormed' /\ StatusFaults' \subseteq {"STALE"}
<1>1. ObligationFaults' = {} /\ InstitutionalFaults' = {}
  BY DEF Accepted, WellFormed, ObligationFaults, InstitutionalFaults, ObligationFault,
         InstitutionalFault, obligations
<1>2. ItemFaults' = {}
  <2> SUFFICES ASSUME NEW i \in items,
                      NEW code \in {"EVIDENCE_OBLIGATION_UNKNOWN", "EVIDENCE_SOURCE_MISMATCH",
                                   "EVIDENCE_TIME_FUTURE"},
                      ItemFault(i, code)'
               PROVE  FALSE
    BY DEF ItemFaults
  <2>1. ~ItemFault(i, code)
    BY DEF Accepted, WellFormed, ItemFaults
  <2>2. i.observed \in Int /\ time \in Int /\ time' \in Int
    BY ProfileAssumption DEF TypeOK, Instants
  <2>3. i.observed > time' => i.observed > time
    BY <2>2
  <2> QED
    BY <2>1, <2>3 DEF ItemFault, obligations
<1>3. ASSUME NEW status \in {"CONFLICT", "UNKNOWN", "MISSING"}, Unsatisfied(status)' # {}
      PROVE  FALSE
  <2>1. PICK o \in Ids : obligation[o] # None /\ obligation[o].required /\ Status(o)' = status
    BY <1>3 DEF Unsatisfied, obligations
  <2>2. /\ Candidates(o) # {} /\ ~Conflicting(o)
        /\ ~\E i \in Candidates(o) : i.state = "unknown"
    BY <2>1, AcceptedValid, StatusIs
  <2>3. Candidates(o)' = Candidates(o) /\ (Conflicting(o)' <=> Conflicting(o))
    BY DEF Candidates, Conflicting
  <2> QED
    BY <2>1, <2>2, <2>3 DEF Status
<1> QED
  BY <1>1, <1>2, <1>3 DEF WellFormed, StatusFaults

\* What time alone does to a rejected record without evidence from the future.
LEMMA RejectedAges ==
    ASSUME TypeOK, TypeOK', ~Accepted, "EVIDENCE_TIME_FUTURE" \notin ItemFaults,
           UNCHANGED <<obligations, pinned, items>>, time' > time
    PROVE  ~Accepted'
<1> SUFFICES ASSUME Accepted' PROVE FALSE
  OBVIOUS
<1>1. ObligationFaults = {} /\ InstitutionalFaults = {}
  BY DEF Accepted, WellFormed, ObligationFaults, InstitutionalFaults, ObligationFault,
         InstitutionalFault, obligations
<1>2. ItemFaults = {}
  BY DEF Accepted, WellFormed, ItemFaults, ItemFault, obligations
<1>3. StatusFaults # {}
  BY <1>1, <1>2 DEF Accepted, WellFormed
<1>4. PICK o \in Ids : /\ obligation[o] # None /\ obligation[o].required
                      /\ Status(o) \in {"CONFLICT", "UNKNOWN", "STALE", "MISSING"}
  BY <1>3 DEF StatusFaults, Unsatisfied
<1>5. Status(o)' = "VALID"
  <2>1. RequiredAreValid'
    BY AllValid, PTL
  <2> QED
    BY <1>4, <2>1 DEF RequiredAreValid, obligations
<1>6. time \in Int /\ time' \in Int
  BY ProfileAssumption DEF TypeOK, Instants
<1>7. More(o)
  BY <1>4, <1>6 DEF More, obligations
<1>8. CASE Status(o) = "MISSING"
  BY <1>5, <1>8 DEF Status, Candidates
<1>9. CASE Status(o) \in {"CONFLICT", "UNKNOWN", "STALE"}
  BY <1>5, <1>7, <1>9, FailureStays DEF Fails
<1> QED
  BY <1>4, <1>8, <1>9

\* Time alone rejects an accepted record for stale evidence only, and accepts
\* a rejected one only for evidence that was from the future.
THEOREM TimeAlone == Spec => TimeOnlyAges
<1> DEFINE A == UNCHANGED <<obligations, pinned, items>> /\ time' > time =>
                   /\ Accepted => WellFormed' /\ StatusFaults' \subseteq {"STALE"}
                   /\ ~Accepted /\ "EVIDENCE_TIME_FUTURE" \notin ItemFaults => ~Accepted'
<1>1. TypeOK /\ TypeOK' => A
  BY AcceptedAges, RejectedAges
<1>2. TypeOK /\ [Next]_vars => A
  BY <1>1, TypedStep
<1> QED
  BY <1>2, TypeCorrect, PTL DEF Spec, TimeOnlyAges

LEMMA AcceptedPins == TypeOK => PinsHonoured
<1> SUFFICES ASSUME TypeOK, Accepted, NEW o \in Ids, pinned[o] # None
             PROVE  /\ obligation[o] = pinned[o]
                    /\ pinned[o].required =>
                          /\ \E i \in items : o \in i.for
                          /\ \A i \in items : o \in i.for =>
                                /\ i.source = pinned[o].source /\ i.state = "current"
                                /\ i.observed =< time /\ time - i.observed =< pinned[o].maxAge
                                /\ \A j \in items : o \in j.for => j.content = i.content
  BY DEF PinsHonoured
<1>1. /\ ~InstitutionalFault(o, "INSTITUTIONAL_OBLIGATION_REMOVED")
      /\ ~InstitutionalFault(o, "INSTITUTIONAL_OBLIGATION_REINTERPRETED")
      /\ ~ObligationFault(o, "OBLIGATION_COMMITMENT_MISMATCH")
  BY DEF Accepted, WellFormed, InstitutionalFaults, ObligationFaults
<1>2. obligation[o] # None /\ obligation[o] = pinned[o]
  BY <1>1 DEF InstitutionalFault, ObligationFault
<1>3. ASSUME pinned[o].required
      PROVE  /\ \E i \in items : o \in i.for
             /\ \A i \in items : o \in i.for =>
                   /\ i.source = pinned[o].source /\ i.state = "current"
                   /\ i.observed =< time /\ time - i.observed =< pinned[o].maxAge
                   /\ \A j \in items : o \in j.for => j.content = i.content
  <2>1. /\ Candidates(o) # {} /\ ~Conflicting(o) /\ ~TooOld(o)
        /\ ~\E i \in Candidates(o) : i.state = "unknown"
    BY <1>2, <1>3, AcceptedValid, StatusIs
  <2>2. ASSUME NEW i \in items, o \in i.for
        PROVE  /\ i.source = pinned[o].source /\ i.state = "current"
               /\ i.observed =< time /\ time - i.observed =< pinned[o].maxAge
               /\ \A j \in items : o \in j.for => j.content = i.content
    <3>1. i \in Candidates(o) /\ i \in Items
      BY <2>2 DEF Candidates, TypeOK
    <3>2. ~ItemFault(i, "EVIDENCE_SOURCE_MISMATCH") /\ ~ItemFault(i, "EVIDENCE_TIME_FUTURE")
      BY DEF Accepted, WellFormed, ItemFaults
    <3>3. i.source = pinned[o].source
      BY <1>2, <2>2, <3>2 DEF ItemFault
    <3>4. i.state = "current"
      BY <2>1, <3>1, ProfileAssumption DEF Conflicting, States
    <3>5. ~(i.observed > time) /\ ~(time - i.observed > pinned[o].maxAge)
      BY <1>2, <2>1, <3>1, <3>2 DEF ItemFault, TooOld
    <3>6. i.observed \in Int /\ time \in Int /\ pinned[o].maxAge \in Int
      BY <3>1, ProfileAssumption DEF TypeOK, Instants
    <3>7. \A j \in items : o \in j.for => j.content = i.content
      BY <2>1, <3>1 DEF Conflicting, Candidates
    <3> QED
      BY <3>3, <3>4, <3>5, <3>6, <3>7
  <2>3. \E i \in items : o \in i.for
    BY <2>1 DEF Candidates
  <2> QED
    BY <2>2, <2>3
<1> QED
  BY <1>2, <1>3

\* Whatever verify_record accepts honours the obligations its requirement
\* names, with their payloads, sources and ages.
THEOREM AcceptanceHonoursPins == Spec => []PinsHonoured
BY TypeCorrect, AcceptedPins, PTL

\* As long as a record keeps the commitments its requirement was issued with,
\* acceptance does bind the obligations: what RequirementBindsObligations lacks
\* is only that the commitments themselves are bound.
PinsAsIssued == \A o \in Ids : Issued[o] # None => pinned[o] = Issued[o]

KeptPinsBind == PinsAsIssued => RequirementBindsObligations

\* The validator binds obligations exactly as firmly as the record's own
\* commitments are kept.
THEOREM IssuedPinsBind == Spec => []KeptPinsBind
<1>1. PinsHonoured => KeptPinsBind
  BY DEF PinsHonoured, PinsAsIssued, KeptPinsBind, RequirementBindsObligations
<1> QED
  BY <1>1, AcceptanceHonoursPins, PTL

\* No step leads from an accepted record to an accepted one with another
\* payload for an obligation that is pinned, unless it moves the pin.
PinnedEditsShow == [][Accepted /\ Accepted' /\ UNCHANGED pinned =>
    \A o \in Ids : pinned[o] # None => obligation'[o] = obligation[o]]_vars

\* The commitments make an edit of a pinned obligation visible to the validator.
THEOREM EditsOfPinnedShow == Spec => PinnedEditsShow
<1> DEFINE A == Accepted /\ Accepted' /\ UNCHANGED pinned =>
                   \A o \in Ids : pinned[o] # None => obligation'[o] = obligation[o]
<1>1. PinsHonoured /\ PinsHonoured' => A
  <2>1. PinsHonoured => (Accepted => \A o \in Ids : pinned[o] # None => obligation[o] = pinned[o])
    BY DEF PinsHonoured
  <2>2. PinsHonoured' => (Accepted' => \A o \in Ids : pinned'[o] # None => obligation'[o] = pinned'[o])
    BY DEF PinsHonoured
  <2> QED
    BY <2>1, <2>2
<1> QED
  BY <1>1, AcceptanceHonoursPins, PTL DEF PinnedEditsShow

------------------------------------------------------------------------------
(* Evidence that is withdrawn. *)

\* Withdrawing evidence from an accepted record leaves it accepted or with
\* evidence missing: what is left is still of one content, current and young
\* enough, because each of these was so of all of it.
WithdrawalOnlyMisses ==
    [][Accepted /\ items' \subseteq items /\ UNCHANGED <<obligations, pinned, time>> =>
          WellFormed' /\ StatusFaults' \subseteq {"MISSING"}]_vars

LEMMA AcceptedWithdraws ==
    ASSUME TypeOK, Accepted, items' \subseteq items, UNCHANGED <<obligations, pinned, time>>
    PROVE  WellFormed' /\ StatusFaults' \subseteq {"MISSING"}
<1>1. ObligationFaults' = {} /\ InstitutionalFaults' = {}
  BY DEF Accepted, WellFormed, ObligationFaults, InstitutionalFaults, ObligationFault,
         InstitutionalFault, obligations
<1>2. ItemFaults' = {}
  <2> SUFFICES ASSUME NEW i \in items,
                      NEW code \in {"EVIDENCE_OBLIGATION_UNKNOWN", "EVIDENCE_SOURCE_MISMATCH",
                                   "EVIDENCE_TIME_FUTURE"},
                      ItemFault(i, code)'
               PROVE  FALSE
    BY DEF ItemFaults
  <2>1. ~ItemFault(i, code)
    BY DEF Accepted, WellFormed, ItemFaults
  <2> QED
    BY <2>1 DEF ItemFault, obligations
<1>3. ASSUME NEW status \in {"CONFLICT", "UNKNOWN", "STALE"}, Unsatisfied(status)' # {}
      PROVE  FALSE
  <2>1. PICK o \in Ids : obligation[o] # None /\ obligation[o].required /\ Status(o)' = status
    BY <1>3 DEF Unsatisfied, obligations
  <2>2. /\ ~Conflicting(o) /\ ~TooOld(o)
        /\ ~\E i \in Candidates(o) : i.state = "unknown"
    BY <2>1, AcceptedValid, StatusIs
  <2>3. Candidates(o)' \subseteq Candidates(o)
    BY DEF Candidates
  <2>4. /\ ~Conflicting(o)' /\ ~TooOld(o)'
        /\ ~(\E i \in Candidates(o) : i.state = "unknown")'
    BY <2>2, <2>3 DEF Conflicting, TooOld, obligations
  <2> QED
    BY <2>1, <2>4 DEF Status
<1> QED
  BY <1>1, <1>2, <1>3 DEF WellFormed, StatusFaults

\* The classifier never rejects a record for what was taken out of it other than
\* as missing.
THEOREM WithdrawalMisses == Spec => WithdrawalOnlyMisses
<1> DEFINE A == Accepted /\ items' \subseteq items /\ UNCHANGED <<obligations, pinned, time>> =>
                   WellFormed' /\ StatusFaults' \subseteq {"MISSING"}
<1>1. TypeOK => A
  BY AcceptedWithdraws
<1> QED
  BY <1>1, TypeCorrect, PTL DEF WithdrawalOnlyMisses
==============================================================================
