-------------------------------- MODULE AgtGate --------------------------------
(***************************************************************************)
(* MicrosoftAgtPreToolCallAdapter (src/agent_control_plane/                *)
(* microsoft_agt.py): a gate that asks the Microsoft AGT runtime about a   *)
(* tool call and then Cognous about the proposal behind it, and authorizes *)
(* when both do.  The first question is awaited.  The adapter runs in one  *)
(* step up to that await and in one step after it; in between, other calls *)
(* run and the caller, which holds the same mutable RuntimeProposal, may   *)
(* edit it in place.                                                       *)
(*                                                                         *)
(* A proposal is its payload, the payload_commitment it carries (the       *)
(* payload that was committed to) and its other terms; a proposal's        *)
(* commitment is its content.                                              *)
(***************************************************************************)
EXTENDS Naturals

CONSTANTS
    Calls,      \* concurrent evaluations of one proposal object
    Payloads,
    Terms,      \* values of the commitment-bearing fields besides the payload
    MaxEdits,   \* bound: edits of the proposal by its owner
    None

ASSUME BoundAssumption == MaxEdits \in Nat

VARIABLES
    proposal,   \* the caller's proposal object, now
    edits,      \* how often it has been edited
    call        \* per call, its progress, its evidence and its result

vars == <<proposal, edits, call>>

Contents == [payload : Payloads, stamp : Payloads, terms : Terms]

ASSUME NoneAssumption == None \notin Payloads \cup Contents

\* AgtDecision: a target is the transformed policy target if it was applied
\* and is a mapping, None otherwise.
Answers == [decision : {"allow", "deny", "escalate", "warn", "transform", "unsupported"},
            warnings : BOOLEAN, target : Payloads \cup {None}]
Unavailable == [decision |-> "unavailable", warnings |-> FALSE, target |-> None]

Results == {"authorized", "deny", "hold", "error"}

Idle == [at |-> "idle", sent |-> None, original |-> None, agt |-> None,
         asked |-> None, effective |-> None, transformed |-> FALSE,
         own |-> None, result |-> None]

Init ==
    /\ proposal \in Contents
    /\ edits = 0
    /\ call = [c \in Calls |-> Idle]

------------------------------------------------------------------------------

\* Mutant: the original commitment is taken when the evidence is written.
FinishedLate(c, agt, result, effective, asked, transformed) ==
    [call[c] EXCEPT !.at = "done", !.agt = agt, !.result = result, !.asked = asked,
                    !.original = proposal,
                    !.effective = effective, !.transformed = transformed,
                    !.own = IF transformed THEN effective ELSE None]

\* Mutant: the result of a transform shares the caller's object.
FinishedShared(c, agt, result, effective, asked, transformed) ==
    [call[c] EXCEPT !.at = "done", !.agt = agt, !.result = result, !.asked = asked,
                    !.effective = effective, !.transformed = transformed]

\* _finish: the evidence and the result.  "own" is the proposal in the result
\* if that is a copy, and None if it is the caller's object.
Finished(c, agt, result, effective, asked, transformed) ==
    [call[c] EXCEPT !.at = "done", !.agt = agt, !.result = result, !.asked = asked,
                    !.effective = effective, !.transformed = transformed,
                    !.own = IF transformed THEN effective ELSE None]

\* The steps up to the await.  Without a tenant nobody is asked.
EvaluateNoTenant(c) ==
    /\ call[c].at = "idle"
    /\ call' = [call EXCEPT ![c] = [Finished(c, Unavailable, "hold", None, None, FALSE)
                                    EXCEPT !.original = proposal]]
    /\ UNCHANGED <<proposal, edits>>

\* The backend copies the payload into its request before it is suspended.
Evaluate(c) ==
    /\ call[c].at = "idle"
    /\ call' = [call EXCEPT ![c] = [@ EXCEPT !.at = "awaiting", !.sent = proposal.payload,
                                             !.original = proposal]]
    /\ UNCHANGED <<proposal, edits>>

\* Whatever the runtime raises, the SDK backend raises MicrosoftAgtUnavailable.
BackendFails(c) ==
    /\ call[c].at = "awaiting"
    /\ call' = [call EXCEPT ![c] = Finished(c, Unavailable, "hold", None, None, FALSE)]
    /\ UNCHANGED <<proposal, edits>>

\* Mutant: warnings do not restrict an allow.
RefusesUnwarned(agt) ==
    \/ agt.warnings /\ agt.decision # "allow"
    \/ agt.decision \in {"deny", "escalate", "warn", "unsupported"}
    \/ agt.decision = "transform" /\ agt.target = None

\* Mutant: a transform is not looked at for a target that was applied.
RefusesUnmapped(agt) ==
    \/ agt.warnings
    \/ agt.decision \in {"deny", "escalate", "warn", "unsupported"}

\* A warning restricts, whatever comes with it.
Refuses(agt) ==
    \/ agt.warnings
    \/ agt.decision \in {"deny", "escalate", "warn", "unsupported"}
    \/ agt.decision = "transform" /\ agt.target = None

BackendRefuses(c, agt) ==
    /\ call[c].at = "awaiting"
    /\ Refuses(agt)
    /\ LET result == IF agt.decision = "deny" /\ ~agt.warnings THEN "deny" ELSE "hold"
       IN  call' = [call EXCEPT ![c] = Finished(c, agt, result, None, None, FALSE)]
    /\ UNCHANGED <<proposal, edits>>

Transforms(agt) == agt.decision = "transform"

\* Mutant: Cognous is asked about the proposal before the transform.
EffectiveUntransformed(agt) == proposal

\* What Cognous is asked about: the caller's proposal as it is by now, with
\* the transformed payload and its commitment if there is one.
Effective(agt) ==
    IF Transforms(agt) THEN [proposal EXCEPT !.payload = agt.target, !.stamp = agt.target]
                       ELSE proposal

\* Mutant: the payload is not compared with its commitment.
CognousMayAny(result, p) == result \in Results

\* Any evaluation may hold or deny or raise; none authorizes a payload that is
\* not the one committed to (_manifest_mismatches).
CognousMay(result, p) == result = "authorized" => p.stamp = p.payload

CognousDecides(c, agt, result) ==
    /\ call[c].at = "awaiting"
    /\ ~Refuses(agt)
    /\ CognousMay(result, Effective(agt))
    /\ call' = [call EXCEPT ![c] =
                  Finished(c, agt, result, Effective(agt), Effective(agt), Transforms(agt))]
    /\ UNCHANGED <<proposal, edits>>

\* The caller edits its object, at any time.
OwnerEdits(p) ==
    /\ edits < MaxEdits
    /\ p # proposal
    /\ proposal' = p
    /\ edits' = edits + 1
    /\ UNCHANGED call

Next ==
    \/ \E c \in Calls :
          \/ EvaluateNoTenant(c)
          \/ Evaluate(c)
          \/ BackendFails(c)
          \/ \E agt \in Answers :
                \/ BackendRefuses(c, agt)
                \/ \E result \in Results : CognousDecides(c, agt, result)
    \/ \E p \in Contents : OwnerEdits(p)

Spec == Init /\ [][Next]_vars

------------------------------------------------------------------------------

\* The type invariant.
TypeOK ==
    /\ proposal \in Contents
    /\ edits \in 0..MaxEdits
    /\ \A c \in Calls :
          /\ call[c].at \in {"idle", "awaiting", "done"}
          /\ call[c].sent \in Payloads \cup {None}
          /\ call[c].original \in Contents \cup {None}
          /\ call[c].agt \in Answers \cup {Unavailable, None}
          /\ call[c].asked \in Contents \cup {None}
          /\ call[c].effective \in Contents \cup {None}
          /\ call[c].own \in Contents \cup {None}
          /\ call[c].transformed \in BOOLEAN
          /\ call[c].result \in Results \cup {None}

Authorized(c) == call[c].at = "done" /\ call[c].result = "authorized"

\* "AGT is conjunctive only": an authorization rests on Cognous' word about the
\* very proposal the evidence commits to, and on AGT's unqualified word about
\* its payload - the one it was sent or the one it transformed that into.  An
\* edit made while AGT was asked can put another payload in, but then the
\* evidence shows it: original and effective commitment differ although
\* nothing was transformed.
AuthorizedByBoth == \A c \in Calls : Authorized(c) =>
    LET r == call[c]
    IN  /\ r.asked = r.effective /\ r.asked.stamp = r.asked.payload
        /\ ~r.agt.warnings
        /\ \/ r.transformed /\ r.agt.decision = "transform" /\ r.asked.payload = r.agt.target
           \/ /\ ~r.transformed /\ r.agt.decision = "allow"
              /\ r.asked.payload = r.sent \/ r.original # r.effective

\* The proposal in a result, as whoever holds the result sees it now.
Given(c) == IF call[c].own # None THEN call[c].own ELSE proposal

\* "Authorization for the original proposal is never reused": what a
\* transformed result hands on is what Cognous authorized and the evidence
\* commits to, whatever becomes of the caller's object or of another
\* evaluation of it in the meantime.
TransformedResultStands == \A c \in Calls :
    Authorized(c) /\ call[c].agt.decision = "transform" =>
        /\ Given(c) = call[c].effective
        /\ Given(c).payload = call[c].agt.target
==============================================================================
