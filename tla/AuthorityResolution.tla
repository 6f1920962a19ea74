--------------------------- MODULE AuthorityResolution ---------------------------
(***************************************************************************)
(* BoundedAuthorizationWorkflow._resolve (src/agent_control_plane/         *)
(* bounded.py 1007-1301) against an institution whose state moves on while *)
(* its status sources answer with dated reports.  A report carries the     *)
(* version and the state its source saw and the source's own clock, which  *)
(* runs up to MaxSkew ahead of the workflow's; the workflow accepts it if  *)
(* it is not dated beyond its tolerance and not older than a maximum age.  *)
(*                                                                         *)
(* Versions stand for what ties a report to the authority context: grant   *)
(* revision, policy version, the grant revision, policies and proposal an  *)
(* approval was given for.  "good" is active, clear, authenticated with a  *)
(* valid delegation, a valid mandate, or current; "bad" is any other state *)
(* a report can name, "unknown" among them.  Identifiers that are compared *)
(* for equality only (institution, domain, tenant, source, role) are part  *)
(* of the version.                                                         *)
(***************************************************************************)
EXTENDS Integers

CONSTANTS
    Inputs,         \* status lookups; "grant" is one
    Needs,          \* what a requirement may ask for beyond the grant
    BoundTo,        \* per input, the input whose current version it must name
    Versions,       \* per input, its versions
    MaxAge,         \* per input, the accepted age of a report
    Tolerance,      \* clock_tolerance_seconds
    MaxSkew,        \* bound: how far a source's clock is ahead
    NotBefore, ExpiresAt,   \* the grant's validity interval
    Obligations,    \* the evidence obligations a requirement may carry
    MaxTime,        \* bound: the last instant looked at
    None

Instants == 0..MaxTime

ASSUME ResolutionAssumption ==
    /\ "grant" \in Inputs
    /\ BoundTo \in [Inputs -> Inputs]
    /\ DOMAIN Versions = Inputs
    /\ MaxAge \in [Inputs -> Nat]
    /\ Tolerance \in Nat /\ MaxSkew \in Nat /\ MaxTime \in Nat
    /\ NotBefore \in Nat /\ ExpiresAt \in Nat
    /\ Needs \subseteq SUBSET (Inputs \ {"grant"})
    /\ Obligations \subseteq [required : BOOLEAN, authorization : BOOLEAN, holdEffect : BOOLEAN]

VARIABLES
    needed,     \* the requirement: its inputs besides the grant,
    obligation, \* and its evidence obligation
    now,        \* the workflow's clock
    context,    \* per input, the version the authority context names
    truth,      \* per input, the institution's own state
    report,     \* per input, the last report of its source, or None
    lastGood    \* per input and version, when that was last true and good

requirement == <<needed, obligation>>
vars == <<requirement, now, context, truth, report, lastGood>>

States == {"good", "bad"}
Facts(i) == [version : Versions[i], state : States]
Reports(i) == [version : Versions[i], state : States, observed : 0..(MaxTime + MaxSkew)]
AllVersions == UNION {Versions[i] : i \in Inputs}

Seen(t, facts, past) ==
    [i \in Inputs |-> [v \in Versions[i] |->
        IF facts[i] = [version |-> v, state |-> "good"] THEN t ELSE past[i][v]]]

Looked == {"grant"} \cup needed

Init ==
    /\ needed \in Needs
    /\ obligation \in Obligations
    /\ now = 0
    /\ context \in [Inputs -> AllVersions]
    /\ \A i \in Inputs : context[i] \in Versions[i] /\ context[i] = context[BoundTo[i]]
    /\ truth = [i \in Inputs |-> [version |-> context[i], state |-> "good"]]
    /\ report = [i \in Inputs |-> None]
    /\ lastGood = Seen(0, truth, [i \in Inputs |-> [v \in Versions[i] |-> -1]])

Tick ==
    /\ now < MaxTime
    /\ now' = now + 1
    /\ lastGood' = Seen(now', truth, lastGood)
    /\ UNCHANGED <<requirement, context, truth, report>>

\* Revocation, supersession, withdrawal, reinstatement, a new version.
InstitutionActs(i, fact) ==
    /\ truth[i] # fact
    /\ truth' = [truth EXCEPT ![i] = fact]
    /\ lastGood' = Seen(now, truth', lastGood)
    /\ UNCHANGED <<requirement, now, context, report>>

\* The authority context is issued anew for the version now in force.
Reissue(i) ==
    /\ BoundTo[i] = i
    /\ context[i] # truth[i].version
    /\ context' = [context EXCEPT ![i] = truth[i].version]
    /\ UNCHANGED <<requirement, now, truth, report, lastGood>>

\* Mutant: a source's clock drifts beyond the skew the deployment allows for.
SourceReportsDrifting(i, skew) ==
    /\ report' = [report EXCEPT ![i] = [version |-> truth[i].version, state |-> truth[i].state,
                                        observed |-> now + 2 * skew]]
    /\ UNCHANGED <<requirement, now, context, truth, lastGood>>

SourceReports(i, skew) ==
    /\ report' = [report EXCEPT ![i] = [version |-> truth[i].version, state |-> truth[i].state,
                                        observed |-> now + skew]]
    /\ UNCHANGED <<requirement, now, context, truth, lastGood>>

SourceLoses(i) ==
    /\ report[i] # None
    /\ report' = [report EXCEPT ![i] = None]
    /\ UNCHANGED <<requirement, now, context, truth, lastGood>>

Next ==
    \/ Tick
    \/ \E i \in Looked :
          \/ \E fact \in Facts(i) : InstitutionActs(i, fact)
          \/ \E skew \in 0..MaxSkew : SourceReports(i, skew)
          \/ Reissue(i)
          \/ SourceLoses(i)

Spec == Init /\ [][Next]_vars

------------------------------------------------------------------------------
(* The resolution. *)

\* Mutant: a report dated exactly at the tolerance is refused.
FreshExclusive(observed, maxAge) ==
    /\ observed < now + Tolerance
    /\ now - observed =< maxAge

\* Mutant: reports are only kept from the future, not from the past.
FreshUnaged(observed, maxAge) == observed =< now + Tolerance

Fresh(observed, maxAge) ==
    /\ observed =< now + Tolerance
    /\ now - observed =< maxAge

Expected(i) == context[BoundTo[i]]

\* Mutant: an approval of any revision of the grant will do.
ProblemUnbound(i, why) ==
    IF report[i] = None THEN why = "missing"
    ELSE \/ why = "state" /\ report[i].state # "good"
         \/ why = "version" /\ BoundTo[i] = i /\ report[i].version # Expected(i)
         \/ why = "stale_or_future" /\ ~Fresh(report[i].observed, MaxAge[i])

\* What is wrong with an identity, mandate, grant, conflict, policy or
\* approval report.
Problem(i, why) ==
    IF report[i] = None THEN why = "missing"
    ELSE \/ why = "state" /\ report[i].state # "good"
         \/ why = "version" /\ report[i].version # Expected(i)
         \/ why = "stale_or_future" /\ ~Fresh(report[i].observed, MaxAge[i])

ReportReasons ==
    {r \in (Looked \ {"evidence"}) \X {"missing", "state", "version", "stale_or_future"} :
        Problem(r[1], r[2])}

\* A report of another obligation or source counts as no report.
EvidenceBound ==
    report["evidence"] # None /\ report["evidence"].version = Expected("evidence")

EvidenceProblem(why) ==
    LET r == report["evidence"]
        fresh == Fresh(r.observed, MaxAge["evidence"])
    IN  \/ why = "binding_mismatch" /\ r # None /\ ~EvidenceBound
        \/ /\ obligation.required /\ obligation.authorization
           /\ \/ why = "required_not_current" /\ (~EvidenceBound \/ r.state # "good")
              \/ /\ why = "required_stale_or_future"
                 /\ EvidenceBound /\ r.state = "good" /\ ~fresh
        \/ /\ ~(obligation.required /\ obligation.authorization)
           /\ obligation.holdEffect
           /\ why = "context_unknown_requires_hold"
           /\ EvidenceBound => ~fresh

EvidenceReasons ==
    IF "evidence" \notin Looked THEN {}
    ELSE {r \in {"evidence"} \X {"binding_mismatch", "required_not_current",
                                 "required_stale_or_future", "context_unknown_requires_hold"} :
             EvidenceProblem(r[2])}

\* Mutant: not_before is exclusive.
ValidityReasonsExclusive ==
    IF NotBefore >= now \/ ExpiresAt =< now THEN {<<"grant", "outside_validity">>} ELSE {}

\* Valid from not_before until, exclusively, expires_at.
ValidityReasons ==
    IF NotBefore > now \/ ExpiresAt =< now THEN {<<"grant", "outside_validity">>} ELSE {}

Reasons == ReportReasons \cup EvidenceReasons \cup ValidityReasons

Authorized == Reasons = {}

------------------------------------------------------------------------------

\* The type invariant.
TypeOK ==
    /\ needed \in Needs /\ obligation \in Obligations
    /\ now \in Instants
    /\ \A i \in Inputs :
          /\ context[i] \in Versions[i]
          /\ truth[i] \in Facts(i)
          /\ report[i] = None \/ report[i] \in Reports(i)
          /\ lastGood[i] \in [Versions[i] -> Instants \cup {-1}]

\* The inputs an authorization cannot do without.
Decisive == {i \in Looked : i = "evidence" => obligation.required /\ obligation.authorization}

\* "Suspended, revoked, unknown, stale or revision-mismatched status holds the
\* effect", however late the news: a decision never rests on a grant, policy,
\* approval, mandate, ... that was last good, in the version the context names,
\* longer ago than its maximum age plus what its source's clock may be ahead.
AuthorizedRecentlyTrue ==
    Authorized => \A i \in Decisive :
        /\ lastGood[i][Expected(i)] # -1
        /\ now - lastGood[i][Expected(i)] =< MaxAge[i] + MaxSkew

\* A request that is held is not authorized by waiting, at none of the edges of
\* the validity interval, the maximum age or the tolerance: unless the grant was
\* not valid yet or a report was dated beyond the tolerance, only news can do it.
WaitingAuthorizesNothing ==
    [][now' # now /\ UNCHANGED <<requirement, context, report>> /\ ~Authorized /\ Authorized' =>
          \/ NotBefore > now
          \/ \E i \in Looked : report[i] # None /\ report[i].observed > now + Tolerance]_vars

------------------------------------------------------------------------------
(* Why AuthorizedRecentlyTrue holds: the inductive invariant of             *)
(* AuthorityResolutionProofs.                                               *)

\* What is true and good now was so just now.
NowIsSeen == \A i \in Inputs : truth[i].state = "good" =>
    lastGood[i][truth[i].version] = now

\* A report of a good state is of a moment when it was, its clock allowed for.
ReportsWereTrue == \A i \in Inputs :
    report[i] # None /\ report[i].state = "good" =>
        /\ lastGood[i][report[i].version] \in Instants
        /\ report[i].observed - lastGood[i][report[i].version] =< MaxSkew

\* History does not run ahead.
PastIsPast == \A i \in Inputs : \A v \in Versions[i] : lastGood[i][v] =< now
==============================================================================
