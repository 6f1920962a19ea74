---------------------- MODULE AuthorityResolutionProofs ----------------------
(* Every decision rests on what was recently so, for any inputs, versions,  *)
(* ages, clock tolerance and skew.                                          *)
EXTENDS AuthorityResolution, TLAPS

\* The variables that are functions of the input are just that.
Total(f) == f = [i \in Inputs |-> f[i]]

Typed ==
    /\ TypeOK
    /\ Total(context) /\ Total(truth) /\ Total(report) /\ Total(lastGood)

History == NowIsSeen /\ ReportsWereTrue /\ PastIsPast

\* What Seen remembers: the moment given for what is good, else what it did.
LEMMA SeenIs ==
    ASSUME NEW t, NEW facts, NEW past, NEW i \in Inputs, NEW v \in Versions[i]
    PROVE  /\ facts[i] = [version |-> v, state |-> "good"] => Seen(t, facts, past)[i][v] = t
           /\ Seen(t, facts, past)[i][v] = t \/ Seen(t, facts, past)[i][v] = past[i][v]
BY DEF Seen

LEMMA SeenTotal == ASSUME NEW t, NEW facts, NEW past PROVE Total(Seen(t, facts, past))
BY DEF Seen, Total

\* Another round of Seen keeps types and forgets nothing.
LEMMA SeenTyped ==
    ASSUME NEW t \in Instants, NEW facts, NEW past,
           \A i \in Inputs : past[i] \in [Versions[i] -> Instants \cup {-1}]
    PROVE  \A i \in Inputs : Seen(t, facts, past)[i] \in [Versions[i] -> Instants \cup {-1}]
<1> TAKE i \in Inputs
<1> DEFINE Is(v) == facts[i] = [version |-> v, state |-> "good"]
<1>1. Seen(t, facts, past)[i] = [v \in Versions[i] |-> IF Is(v) THEN t ELSE past[i][v]]
  BY DEF Seen
<1> HIDE DEF Is
<1> QED
  BY <1>1

LEMMA TypedInit == Init => Typed
<1> SUFFICES ASSUME Init PROVE Typed
  OBVIOUS
<1>1. 0 \in Instants /\ now \in Instants
  BY ResolutionAssumption DEF Init, Instants
<1>2. Total(context) /\ Total(truth) /\ Total(report)
  BY DEF Init, Total
<1>3. \A i \in Inputs : /\ context[i] \in Versions[i]
                        /\ truth[i] \in Facts(i)
                        /\ report[i] = None
  BY DEF Init, Facts, States
<1>4. /\ Total(lastGood)
      /\ \A i \in Inputs : lastGood[i] \in [Versions[i] -> Instants \cup {-1}]
  <2> DEFINE never == [i \in Inputs |-> [v \in Versions[i] |-> -1]]
  <2>1. \A i \in Inputs : never[i] \in [Versions[i] -> Instants \cup {-1}]
    OBVIOUS
  <2>2. lastGood = Seen(0, truth, never)
    BY DEF Init
  <2> HIDE DEF never
  <2> QED
    BY <1>1, <2>1, <2>2, SeenTotal, SeenTyped
<1> QED
  BY <1>1, <1>2, <1>3, <1>4 DEF Init, Typed, TypeOK

\* Each step keeps the types.
LEMMA TypedStep == Typed /\ [Next]_vars => Typed'
<1> SUFFICES ASSUME Typed, [Next]_vars PROVE Typed'
  OBVIOUS
<1>0. MaxTime \in Nat /\ MaxSkew \in Nat /\ Looked \subseteq Inputs
  BY ResolutionAssumption DEF Typed, TypeOK, Looked
<1>1. CASE Tick
  <2>1. now' \in Instants /\ \A i \in Inputs : lastGood[i] \in [Versions[i] -> Instants \cup {-1}]
    BY <1>0, <1>1 DEF Tick, Typed, TypeOK, Instants
  <2>2. Total(lastGood)' /\ \A i \in Inputs : lastGood'[i] \in [Versions[i] -> Instants \cup {-1}]
    BY <1>1, <2>1, SeenTotal, SeenTyped DEF Tick, Total
  <2> QED
    BY <1>1, <2>1, <2>2 DEF Tick, Typed, TypeOK, Total, requirement, Reports, Facts
<1>2. ASSUME NEW i \in Looked, NEW fact \in Facts(i), InstitutionActs(i, fact) PROVE Typed'
  <2>1. Total(truth)' /\ \A j \in Inputs : truth'[j] \in Facts(j)
    BY <1>0, <1>2 DEF InstitutionActs, Typed, TypeOK, Total
  <2>2. Total(lastGood)' /\ \A j \in Inputs : lastGood'[j] \in [Versions[j] -> Instants \cup {-1}]
    <3>1. lastGood' = Seen(now, truth', lastGood)
          /\ now \in Instants /\ \A j \in Inputs : lastGood[j] \in [Versions[j] -> Instants \cup {-1}]
      BY <1>2 DEF InstitutionActs, Typed, TypeOK
    <3> QED
      BY <3>1, SeenTotal, SeenTyped DEF Total
  <2> QED
    BY <1>2, <2>1, <2>2 DEF InstitutionActs, Typed, TypeOK, Total, requirement, Reports
<1>3. ASSUME NEW i \in Looked, NEW skew \in 0..MaxSkew, SourceReports(i, skew) PROVE Typed'
  <2> DEFINE r == [version |-> truth[i].version, state |-> truth[i].state,
                   observed |-> now + skew]
  <2>1. now + skew \in 0..(MaxTime + MaxSkew)
    BY <1>0 DEF Typed, TypeOK, Instants
  <2>2. r \in Reports(i)
    BY <1>0, <2>1 DEF Typed, TypeOK, Facts, Reports
  <2>3. Total(report)' /\ \A j \in Inputs : report'[j] = IF j = i THEN r ELSE report[j]
    BY <1>0, <1>3 DEF SourceReports, Typed, Total
  <2> HIDE DEF r
  <2> QED
    BY <1>3, <2>2, <2>3 DEF SourceReports, Typed, TypeOK, Total, requirement, Facts, Reports
<1>4. ASSUME NEW i \in Looked, Reissue(i) PROVE Typed'
  <2>1. Total(context)' /\ \A j \in Inputs : context'[j] \in Versions[j]
    BY <1>0, <1>4 DEF Reissue, Typed, TypeOK, Total, Facts
  <2> QED
    BY <1>4, <2>1 DEF Reissue, Typed, TypeOK, Total, requirement, Facts, Reports
<1>5. ASSUME NEW i \in Looked, SourceLoses(i) PROVE Typed'
  <2>1. Total(report)' /\ \A j \in Inputs : report'[j] = IF j = i THEN None ELSE report[j]
    BY <1>0, <1>5 DEF SourceLoses, Typed, Total
  <2> QED
    BY <1>5, <2>1 DEF SourceLoses, Typed, TypeOK, Total, requirement, Facts, Reports
<1>6. CASE UNCHANGED vars
  BY <1>6 DEF vars, requirement, Typed, TypeOK, Total, Facts, Reports
<1> QED
  BY <1>1, <1>2, <1>3, <1>4, <1>5, <1>6 DEF Next

\* Every reachable state is well typed.
THEOREM TypeCorrect == Spec => []TypeOK
<1>1. Spec => []Typed
  BY TypedInit, TypedStep, PTL DEF Spec
<1>2. Typed => TypeOK
  BY DEF Typed
<1> QED
  BY <1>1, <1>2, PTL

------------------------------------------------------------------------------
(* Reports and what they report. *)

LEMMA HistoryInit == Init => History
<1> SUFFICES ASSUME Init PROVE History
  OBVIOUS
<1> DEFINE never == [i \in Inputs |-> [v \in Versions[i] |-> -1]]
<1>1. lastGood = Seen(0, truth, never) /\ now = 0
  BY DEF Init
<1>2. \A i \in Inputs : truth[i] = [version |-> context[i], state |-> "good"]
                        /\ context[i] \in Versions[i] /\ report[i] = None
  BY DEF Init
<1>3. \A i \in Inputs : \A v \in Versions[i] : never[i][v] = -1
  OBVIOUS
<1> HIDE DEF never
<1>4. \A i \in Inputs : \A v \in Versions[i] :
         /\ truth[i] = [version |-> v, state |-> "good"] => lastGood[i][v] = 0
         /\ lastGood[i][v] = 0 \/ lastGood[i][v] = never[i][v]
  <2> TAKE i \in Inputs
  <2> TAKE v \in Versions[i]
  <2>1. /\ truth[i] = [version |-> v, state |-> "good"] => Seen(0, truth, never)[i][v] = 0
        /\ Seen(0, truth, never)[i][v] = 0 \/ Seen(0, truth, never)[i][v] = never[i][v]
    BY SeenIs
  <2> QED
    BY <1>1, <2>1
<1>5. NowIsSeen
  <2> SUFFICES ASSUME NEW i \in Inputs PROVE lastGood[i][truth[i].version] = now
    BY DEF NowIsSeen
  <2>1. truth[i] = [version |-> context[i], state |-> "good"] /\ context[i] \in Versions[i]
    BY <1>2
  <2>2. truth[i].version = context[i]
    BY <2>1
  <2> QED
    BY <1>1, <1>4, <2>1, <2>2
<1>6. PastIsPast
  <2> SUFFICES ASSUME NEW i \in Inputs, NEW v \in Versions[i] PROVE lastGood[i][v] =< 0
    BY <1>1 DEF PastIsPast
  <2>1. lastGood[i][v] = 0 \/ lastGood[i][v] = -1
    BY <1>3, <1>4
  <2> QED
    BY <2>1
<1>7. ReportsWereTrue
  BY <1>2 DEF ReportsWereTrue
<1> QED
  BY <1>5, <1>6, <1>7 DEF History

\* Time passing, or the institution acting, adds to the history of every
\* input and takes nothing from it.
LEMMA MovingOn ==
    ASSUME Typed, History, Typed', now' \in {now, now + 1},
           report' = report,
           lastGood' = Seen(now', truth', lastGood)
    PROVE  History'
<1>1. \A i \in Inputs : \A v \in Versions[i] :
         /\ truth'[i] = [version |-> v, state |-> "good"] => lastGood'[i][v] = now'
         /\ lastGood'[i][v] = now' \/ lastGood'[i][v] = lastGood[i][v]
  <2> TAKE i \in Inputs
  <2> TAKE v \in Versions[i]
  <2> DEFINE seen == Seen(now', truth', lastGood)
  <2>1. /\ truth'[i] = [version |-> v, state |-> "good"] => seen[i][v] = now'
        /\ seen[i][v] = now' \/ seen[i][v] = lastGood[i][v]
    BY SeenIs
  <2>2. lastGood' = seen
    OBVIOUS
  <2> HIDE DEF seen
  <2> QED
    BY <2>1, <2>2
<1>2. /\ now \in Instants /\ now' \in Instants /\ Instants \subseteq Int /\ now =< now'
      /\ \A i \in Inputs : \A v \in Versions[i] : lastGood[i][v] \in Instants \cup {-1}
  BY DEF Typed, TypeOK, Instants
<1>3. NowIsSeen'
  <2> SUFFICES ASSUME NEW i \in Inputs, truth'[i].state = "good"
               PROVE  lastGood'[i][truth'[i].version] = now'
    BY DEF NowIsSeen
  <2>1. truth'[i] \in Facts(i)
    BY DEF Typed, TypeOK
  <2>2. truth'[i].version \in Versions[i]
        /\ truth'[i] = [version |-> truth'[i].version, state |-> "good"]
    BY <2>1 DEF Facts
  <2> QED
    BY <1>1, <2>2
<1>4. PastIsPast'
  <2> SUFFICES ASSUME NEW i \in Inputs, NEW v \in Versions[i]
               PROVE  lastGood'[i][v] =< now'
    BY DEF PastIsPast
  <2>0. lastGood[i][v] \in Instants \cup {-1}
    BY <1>2
  <2>1. lastGood[i][v] =< now
    BY DEF History, PastIsPast
  <2>2. lastGood[i][v] \in Int /\ now \in Int /\ now' \in Int
    BY <1>2, <2>0 DEF Instants
  <2>3. lastGood'[i][v] = now' \/ lastGood'[i][v] = lastGood[i][v]
    BY <1>1
  <2> QED
    BY <1>2, <2>1, <2>2, <2>3
<1>5. ReportsWereTrue'
  <2> SUFFICES ASSUME NEW i \in Inputs, report[i] # None, report[i].state = "good"
               PROVE  /\ lastGood'[i][report[i].version] \in Instants
                      /\ report[i].observed - lastGood'[i][report[i].version] =< MaxSkew
    BY DEF ReportsWereTrue
  <2> DEFINE v == report[i].version
  <2>1. report[i] \in Reports(i) /\ MaxSkew \in Nat /\ MaxTime \in Nat
    BY ResolutionAssumption DEF Typed, TypeOK
  <2>2. v \in Versions[i] /\ report[i].observed \in Int
    BY <2>1 DEF Reports
  <2>3. lastGood[i][v] \in Instants /\ report[i].observed - lastGood[i][v] =< MaxSkew
    BY DEF History, ReportsWereTrue
  <2>4. lastGood[i][v] =< now
    BY <2>2 DEF History, PastIsPast
  <2>5. lastGood'[i][v] = now' \/ lastGood'[i][v] = lastGood[i][v]
    BY <1>1, <2>2
  <2>6. /\ lastGood'[i][v] \in Instants
        /\ report[i].observed - lastGood'[i][v] =< MaxSkew
    <3> HIDE DEF v
    <3>1. lastGood[i][v] \in Int /\ now' \in Int /\ now \in Int
      BY <1>2, <2>3 DEF Instants
    <3>4. lastGood[i][v] =< now'
      BY <1>2, <2>4, <3>1
    <3>2. CASE lastGood'[i][v] = now'
      BY <1>2, <2>1, <2>2, <2>3, <3>1, <3>2, <3>4
    <3>3. CASE lastGood'[i][v] = lastGood[i][v]
      BY <2>3, <3>3
    <3> QED
      BY <2>5, <3>2, <3>3
  <2> QED
    BY <2>6
<1> QED
  BY <1>3, <1>4, <1>5 DEF History

LEMMA HistoryStep == Typed /\ Typed' /\ History /\ [Next]_vars => History'
<1> SUFFICES ASSUME Typed, Typed', History, [Next]_vars PROVE History'
  OBVIOUS
<1>0. Looked \subseteq Inputs
  BY ResolutionAssumption DEF Typed, TypeOK, Looked
<1>1. CASE Tick
  BY <1>1, MovingOn DEF Tick
<1>2. ASSUME NEW i \in Looked, NEW fact \in Facts(i), InstitutionActs(i, fact) PROVE History'
  BY <1>2, MovingOn DEF InstitutionActs
<1>3. ASSUME NEW i \in Looked, NEW skew \in 0..MaxSkew, SourceReports(i, skew) PROVE History'
  <2>1. UNCHANGED <<now, truth, lastGood>>
    BY <1>3 DEF SourceReports
  <2>2. \A j \in Inputs \ {i} : report'[j] = report[j]
    BY <1>3 DEF SourceReports, Typed, Total
  <2>3. report'[i] = [version |-> truth[i].version, state |-> truth[i].state,
                      observed |-> now + skew]
    BY <1>0, <1>3 DEF SourceReports, Typed, Total
  <2>4. truth[i].state = "good" => lastGood[i][truth[i].version] = now
    BY <1>0 DEF History, NowIsSeen
  <2>5. now \in Instants /\ now \in Int /\ skew \in Int /\ skew =< MaxSkew /\ MaxSkew \in Nat
    BY ResolutionAssumption DEF Typed, TypeOK, Instants
  <2>6. ReportsWereTrue'
    <3> SUFFICES ASSUME NEW j \in Inputs, report'[j] # None, report'[j].state = "good"
                 PROVE  /\ lastGood[j][report'[j].version] \in Instants
                        /\ report'[j].observed - lastGood[j][report'[j].version] =< MaxSkew
      BY <2>1 DEF ReportsWereTrue
    <3>1. CASE j = i
      <4>1. /\ report'[j].version = truth[i].version /\ report'[j].observed = now + skew
            /\ lastGood[j][report'[j].version] = now
        BY <2>3, <2>4, <3>1
      <4> QED
        BY <2>5, <4>1
    <3>2. CASE j # i
      BY <2>2, <3>2 DEF History, ReportsWereTrue
    <3> QED
      BY <3>1, <3>2
  <2> QED
    BY <2>1, <2>6 DEF History, NowIsSeen, PastIsPast
<1>4. ASSUME NEW i \in Looked, Reissue(i) PROVE History'
  BY <1>4 DEF Reissue, History, NowIsSeen, ReportsWereTrue, PastIsPast
<1>5. ASSUME NEW i \in Looked, SourceLoses(i) PROVE History'
  <2>1. UNCHANGED <<now, truth, lastGood>>
    BY <1>5 DEF SourceLoses
  <2>2. \A j \in Inputs : report'[j] = None \/ report'[j] = report[j]
    BY <1>0, <1>5 DEF SourceLoses, Typed, Total
  <2> QED
    BY <2>1, <2>2 DEF History, NowIsSeen, ReportsWereTrue, PastIsPast
<1>6. CASE UNCHANGED vars
  BY <1>6 DEF vars, History, NowIsSeen, ReportsWereTrue, PastIsPast
<1> QED
  BY <1>1, <1>2, <1>3, <1>4, <1>5, <1>6 DEF Next

\* What an authorization says of the report of a decisive input.
LEMMA AuthorizedReport ==
    ASSUME Typed, Authorized, NEW i \in Decisive
    PROVE  /\ i \in Inputs
           /\ report[i] # None
           /\ report[i].state = "good"
           /\ report[i].version = Expected(i)
           /\ now - report[i].observed =< MaxAge[i]
<1>1. i \in Looked /\ Looked \subseteq Inputs
  BY ResolutionAssumption DEF Typed, TypeOK, Looked, Decisive
<1>2. ReportReasons = {} /\ EvidenceReasons = {}
  BY DEF Authorized, Reasons
<1>3. CASE i # "evidence"
  <2> DEFINE Whys == {"missing", "state", "version", "stale_or_future"}
  <2>1. \A why \in Whys : ~Problem(i, why)
    <3> SUFFICES ASSUME NEW why \in Whys, Problem(i, why) PROVE FALSE
      OBVIOUS
    <3>1. <<i, why>> \in ReportReasons
      BY <1>1, <1>3 DEF ReportReasons
    <3> QED
      BY <1>2, <3>1
  <2>2. ~Problem(i, "missing") /\ ~Problem(i, "state") /\ ~Problem(i, "version")
        /\ ~Problem(i, "stale_or_future")
    BY <2>1
  <2> QED
    BY <1>1, <2>2 DEF Problem, Fresh
<1>4. CASE i = "evidence"
  <2>1. obligation.required /\ obligation.authorization
    BY <1>4 DEF Decisive
  <2>2. \A why \in {"required_not_current", "required_stale_or_future"} : ~EvidenceProblem(why)
    <3> SUFFICES ASSUME NEW why \in {"required_not_current", "required_stale_or_future"},
                        EvidenceProblem(why)
                 PROVE  FALSE
      OBVIOUS
    <3>1. <<"evidence", why>> \in EvidenceReasons
      BY <1>1, <1>4 DEF EvidenceReasons
    <3> QED
      BY <1>2, <3>1
  <2>3. ~EvidenceProblem("required_not_current") /\ ~EvidenceProblem("required_stale_or_future")
    BY <2>2
  <2>4. EvidenceBound /\ report["evidence"].state = "good"
    BY <2>1, <2>3 DEF EvidenceProblem
  <2>5. Fresh(report["evidence"].observed, MaxAge["evidence"])
    BY <2>1, <2>3, <2>4 DEF EvidenceProblem
  <2> QED
    BY <1>1, <1>4, <2>4, <2>5 DEF EvidenceBound, Fresh
<1> QED
  BY <1>3, <1>4

\* The bound on how old the truth of an authorization can be.
LEMMA HistorySuffices == Typed /\ History => AuthorizedRecentlyTrue
<1> SUFFICES ASSUME Typed, History, Authorized, NEW i \in Decisive
             PROVE  /\ lastGood[i][Expected(i)] # -1
                    /\ now - lastGood[i][Expected(i)] =< MaxAge[i] + MaxSkew
  BY DEF AuthorizedRecentlyTrue
<1>1. /\ i \in Inputs /\ report[i] # None /\ report[i].state = "good"
      /\ report[i].version = Expected(i)
      /\ now - report[i].observed =< MaxAge[i]
  BY AuthorizedReport
<1>2. /\ lastGood[i][Expected(i)] \in Instants
      /\ report[i].observed - lastGood[i][Expected(i)] =< MaxSkew
  BY <1>1 DEF History, ReportsWereTrue
<1>3. report[i] \in Reports(i)
  BY <1>1 DEF Typed, TypeOK
<1>4. report[i].observed \in 0..(MaxTime + MaxSkew) /\ now \in Instants
  BY <1>3 DEF Reports, Typed, TypeOK
<1>5. MaxAge[i] \in Nat /\ MaxSkew \in Nat /\ MaxTime \in Nat
  BY <1>1, ResolutionAssumption
<1> QED
  BY <1>1, <1>2, <1>4, <1>5 DEF Instants

\* The inductive invariant holds of every behaviour.
THEOREM HistoryHolds == Spec => [](Typed /\ History)
<1>1. Init => Typed /\ History
  BY TypedInit, HistoryInit
<1>2. Typed /\ History /\ [Next]_vars => Typed' /\ History'
  BY TypedStep, HistoryStep
<1> QED
  BY <1>1, <1>2, PTL DEF Spec

\* No decision of _resolve rests on a grant, policy, approval, mandate or
\* required evidence that was last good, in the version the context names,
\* longer ago than its maximum age and its source's clock skew allow.
THEOREM DecisionsAreRecent == Spec => []AuthorizedRecentlyTrue
BY HistoryHolds, HistorySuffices, PTL
------------------------------------------------------------------------------
(* What authorizes: the reasons of _resolve, read the other way round. *)

\* The report of an input is there, good, of the version expected and in time.
Supports(i) ==
    /\ report[i] # None /\ report[i].state = "good" /\ report[i].version = Expected(i)
    /\ Fresh(report[i].observed, MaxAge[i])

\* Evidence that a decision requires counts like any other report; other
\* evidence must not be of something else, and where its absence holds the
\* effect it must be there and in time, whatever it says.
EvidenceSupports ==
    IF obligation.required /\ obligation.authorization THEN Supports("evidence")
    ELSE /\ report["evidence"] # None => EvidenceBound
         /\ obligation.holdEffect =>
               EvidenceBound /\ Fresh(report["evidence"].observed, MaxAge["evidence"])

Supported ==
    /\ NotBefore =< now /\ now < ExpiresAt
    /\ \A i \in Looked \ {"evidence"} : Supports(i)
    /\ "evidence" \in Looked => EvidenceSupports

\* There is a reason to hold exactly where support is lacking: _resolve neither
\* passes over a report it looked up nor holds a request without cause.
HoldsExactly == Authorized <=> Supported

LEMMA NoReports == ReportReasons = {} <=> \A i \in Looked \ {"evidence"} : Supports(i)
<1> DEFINE Whys == {"missing", "state", "version", "stale_or_future"}
<1>1. ReportReasons = {} <=> \A i \in Looked \ {"evidence"} : \A why \in Whys : ~Problem(i, why)
  <2>1. ASSUME NEW i \in Looked \ {"evidence"}, NEW why \in Whys
        PROVE  <<i, why>> \in ReportReasons <=> Problem(i, why)
    BY DEF ReportReasons
  <2>2. ASSUME ReportReasons # {} PROVE \E i \in Looked \ {"evidence"}, why \in Whys : Problem(i, why)
    BY <2>2 DEF ReportReasons
  <2> QED
    BY <2>1, <2>2
<1>2. ASSUME NEW i PROVE (\A why \in Whys : ~Problem(i, why)) <=> Supports(i)
  <2>1. (\A why \in Whys : ~Problem(i, why)) <=>
            /\ ~Problem(i, "missing") /\ ~Problem(i, "state")
            /\ ~Problem(i, "version") /\ ~Problem(i, "stale_or_future")
    OBVIOUS
  <2> QED
    BY <2>1 DEF Problem, Supports
<1> QED
  BY <1>1, <1>2

LEMMA NoEvidence == ASSUME Typed PROVE EvidenceReasons = {} <=> ("evidence" \in Looked => EvidenceSupports)
<1> DEFINE Whys == {"binding_mismatch", "required_not_current",
                    "required_stale_or_future", "context_unknown_requires_hold"}
<1>1. CASE "evidence" \notin Looked
  BY <1>1 DEF EvidenceReasons
<1>2. CASE "evidence" \in Looked
  <2>1. EvidenceReasons = {} <=> \A why \in Whys : ~EvidenceProblem(why)
    <3>1. ASSUME NEW why \in Whys PROVE <<"evidence", why>> \in EvidenceReasons <=> EvidenceProblem(why)
      BY <1>2 DEF EvidenceReasons
    <3>2. ASSUME EvidenceReasons # {} PROVE \E why \in Whys : EvidenceProblem(why)
      BY <1>2, <3>2 DEF EvidenceReasons
    <3> QED
      BY <3>1, <3>2
  <2>2. (\A why \in Whys : ~EvidenceProblem(why)) <=>
            /\ ~EvidenceProblem("binding_mismatch") /\ ~EvidenceProblem("required_not_current")
            /\ ~EvidenceProblem("required_stale_or_future")
            /\ ~EvidenceProblem("context_unknown_requires_hold")
    OBVIOUS
  <2>3. (/\ ~EvidenceProblem("binding_mismatch") /\ ~EvidenceProblem("required_not_current")
         /\ ~EvidenceProblem("required_stale_or_future")
         /\ ~EvidenceProblem("context_unknown_requires_hold")) <=> EvidenceSupports
    <3>1. CASE obligation.required /\ obligation.authorization
      BY <3>1 DEF EvidenceProblem, EvidenceSupports, EvidenceBound, Supports
    <3>2. CASE ~(obligation.required /\ obligation.authorization)
      BY <3>2 DEF EvidenceProblem, EvidenceSupports, EvidenceBound
    <3> QED
      BY <3>1, <3>2
  <2> QED
    BY <1>2, <2>1, <2>2, <2>3
<1> QED
  BY <1>1, <1>2

LEMMA ExactlySupported == Typed => HoldsExactly
<1> SUFFICES ASSUME Typed PROVE Authorized <=> Supported
  BY DEF HoldsExactly
<1>1. ValidityReasons = {} <=> NotBefore =< now /\ now < ExpiresAt
  <2>1. now \in Int /\ NotBefore \in Int /\ ExpiresAt \in Int
    BY ResolutionAssumption DEF Typed, TypeOK, Instants
  <2>2. ValidityReasons = {} <=> ~(NotBefore > now \/ ExpiresAt =< now)
    BY DEF ValidityReasons
  <2> QED
    BY <2>1, <2>2
<1>2. Authorized <=> ReportReasons = {} /\ EvidenceReasons = {} /\ ValidityReasons = {}
  BY DEF Authorized, Reasons
<1> QED
  BY <1>1, <1>2, NoReports, NoEvidence DEF Supported

\* The resolution decides as its statement in Supported says, in every state.
THEOREM ResolutionIsExact == Spec => []HoldsExactly
BY HistoryHolds, ExactlySupported, PTL

------------------------------------------------------------------------------
(* What waiting and a new context do to a decision. *)

\* Once the context names another version of what a decision rests on - of the
\* grant, for an approval of it - reports of the old one authorize no more.
NewVersionHolds ==
    [][Authorized => \A i \in Decisive : Expected(i)' # Expected(i) => ~Authorized']_vars

LEMMA WaitingStep ==
    ASSUME Typed, Typed', HoldsExactly, HoldsExactly', [Next]_vars,
           UNCHANGED <<requirement, context, report>>, ~Authorized, Authorized',
           NotBefore =< now,
           \A i \in Looked : report[i] = None \/ report[i].observed =< now + Tolerance
    PROVE  FALSE
<1>1. now \in Instants /\ now' \in Instants /\ now =< now'
  <2>1. now \in Instants /\ now' \in Instants
    BY DEF Typed, TypeOK
  <2>2. now' = now \/ now' = now + 1
    BY DEF Next, Tick, InstitutionActs, Reissue, SourceReports, SourceLoses, vars
  <2> QED
    BY <2>1, <2>2 DEF Instants
<1>2. /\ now \in Int /\ now' \in Int /\ ExpiresAt \in Int
      /\ Looked \subseteq Inputs /\ Looked' = Looked /\ obligation' = obligation
  BY <1>1, ResolutionAssumption DEF Typed, TypeOK, Instants, Looked, requirement
<1>3. Supported'
  BY DEF HoldsExactly
<1>4. \A i \in Inputs : Expected(i)' = Expected(i)
  BY DEF Expected
<1>5. ASSUME NEW i \in Looked, report[i] # None, Fresh(report[i].observed, MaxAge[i])'
      PROVE  Fresh(report[i].observed, MaxAge[i])
  <2>1. report[i] \in Reports(i)
    BY <1>2, <1>5 DEF Typed, TypeOK
  <2>2. report[i].observed \in Int /\ MaxAge[i] \in Int
    BY <1>2, <2>1, ResolutionAssumption DEF Reports
  <2>3. report[i].observed =< now + Tolerance
    BY <1>5
  <2>4. now' - report[i].observed =< MaxAge[i]
    BY <1>5 DEF Fresh
  <2>5. now - report[i].observed =< MaxAge[i]
    BY <1>1, <1>2, <2>2, <2>4
  <2> QED
    BY <2>3, <2>5 DEF Fresh
<1>6. ASSUME NEW i \in Looked, Supports(i)' PROVE Supports(i)
  BY <1>2, <1>4, <1>5, <1>6 DEF Supports
<1>7. "evidence" \in Looked => EvidenceSupports
  <2>1. ASSUME "evidence" \in Looked PROVE EvidenceSupports
    <3>1. EvidenceSupports'
      BY <1>2, <1>3, <2>1 DEF Supported
    <3>2. EvidenceBound' <=> EvidenceBound
      BY <1>2, <1>4, <2>1 DEF EvidenceBound
    <3>3. CASE obligation.required /\ obligation.authorization
      BY <1>2, <1>6, <2>1, <3>1, <3>3 DEF EvidenceSupports
    <3>4. CASE ~(obligation.required /\ obligation.authorization)
      <4>1. report["evidence"] # None => EvidenceBound
        BY <1>2, <3>1, <3>2, <3>4 DEF EvidenceSupports
      <4>2. ASSUME obligation.holdEffect
            PROVE  EvidenceBound /\ Fresh(report["evidence"].observed, MaxAge["evidence"])
        <5>1. EvidenceBound /\ Fresh(report["evidence"].observed, MaxAge["evidence"])'
          BY <1>2, <3>1, <3>2, <3>4, <4>2 DEF EvidenceSupports
        <5> QED
          BY <1>5, <2>1, <5>1 DEF EvidenceBound
      <4> QED
        BY <3>4, <4>1, <4>2 DEF EvidenceSupports
    <3> QED
      BY <3>3, <3>4
  <2> QED
    BY <2>1
<1>8. now < ExpiresAt
  BY <1>1, <1>2, <1>3 DEF Supported
<1> QED
  BY <1>2, <1>3, <1>6, <1>7, <1>8 DEF Supported, HoldsExactly

\* _resolve, asked again with nothing new, does not change a hold into an
\* authorization but in the two ways named.
THEOREM WaitingIsNoNews == Spec => WaitingAuthorizesNothing
<1> DEFINE A == now' # now /\ UNCHANGED <<requirement, context, report>>
                /\ ~Authorized /\ Authorized' =>
                   \/ NotBefore > now
                   \/ \E i \in Looked : report[i] # None /\ report[i].observed > now + Tolerance
<1>1. ASSUME Typed, Typed', HoldsExactly, HoldsExactly', [Next]_vars PROVE A
  <2> SUFFICES ASSUME UNCHANGED <<requirement, context, report>>, ~Authorized, Authorized',
                      ~(NotBefore > now),
                      ~\E i \in Looked : report[i] # None /\ report[i].observed > now + Tolerance
               PROVE  FALSE
    OBVIOUS
  <2>0. NotBefore \in Int /\ now \in Int
    BY <1>1, ResolutionAssumption DEF Typed, TypeOK, Instants
  <2>1. NotBefore =< now
    BY <2>0
  <2>2. ASSUME NEW i \in Looked, report[i] # None PROVE report[i].observed =< now + Tolerance
    <3>1. i \in Inputs /\ report[i] \in Reports(i)
      <4>1. Looked \subseteq Inputs
        BY <1>1, ResolutionAssumption DEF Typed, TypeOK, Looked
      <4> QED
        BY <1>1, <2>2, <4>1 DEF Typed, TypeOK
    <3>2. report[i].observed \in Int /\ now \in Int /\ Tolerance \in Int
      BY <1>1, <3>1, ResolutionAssumption DEF Reports, Typed, TypeOK, Instants
    <3> QED
      BY <2>2, <3>2
  <2> QED
    BY <1>1, <2>1, <2>2, WaitingStep
<1> QED
  BY <1>1, HistoryHolds, ResolutionIsExact, PTL DEF Spec, WaitingAuthorizesNothing

\* The report of an input that a decision rests on, as an invariant.
DecisiveReported == Authorized => \A i \in Decisive :
    i \in Inputs /\ report[i].version = Expected(i)

LEMMA VersionsReported == Spec => []DecisiveReported
<1>1. Typed => DecisiveReported
  BY AuthorizedReport DEF DecisiveReported
<1> QED
  BY <1>1, HistoryHolds, PTL

\* A change of the authority context takes effect at once: what it replaces must
\* be reported anew before _resolve authorizes again.
THEOREM NewVersionsHold == Spec => NewVersionHolds
<1> DEFINE A == Authorized => \A i \in Decisive : Expected(i)' # Expected(i) => ~Authorized'
<1>1. ASSUME DecisiveReported, DecisiveReported', [Next]_vars PROVE A
  <2> SUFFICES ASSUME Authorized, NEW i \in Decisive, Expected(i)' # Expected(i), Authorized'
               PROVE  FALSE
    OBVIOUS
  <2>0. context' # context
    BY DEF Expected
  <2>1. UNCHANGED <<requirement, report>>
    BY <1>1, <2>0 DEF Next, Tick, InstitutionActs, Reissue, SourceReports, SourceLoses, vars
  <2>2. i \in Decisive'
    BY <2>1 DEF Decisive, Looked, requirement
  <2>3. report[i].version = Expected(i) /\ report[i].version = Expected(i)'
    BY <1>1, <2>1, <2>2 DEF DecisiveReported
  <2> QED
    BY <2>3
<1> QED
  BY <1>1, VersionsReported, PTL DEF Spec, NewVersionHolds
==============================================================================
