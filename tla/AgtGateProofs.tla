----------------------------- MODULE AgtGateProofs -----------------------------
(* An authorization by both gates is one, for any number of concurrent      *)
(* evaluations of a proposal and any edits of it.                           *)
EXTENDS AgtGate, TLAPS

\* What is remembered of a call while AGT is asked about it.
Asking(r) == r.at = "awaiting" => r.original \in Contents /\ r.sent = r.original.payload

\* What is so of a call that ended in an authorization: AuthorizedByBoth, and
\* a transform's result is a copy.
Backed(r) ==
    r.at = "done" /\ r.result = "authorized" =>
        /\ r.effective \in Contents
        /\ r.asked = r.effective /\ r.asked.stamp = r.asked.payload
        /\ ~r.agt.warnings
        /\ \/ /\ r.transformed /\ r.agt.decision = "transform"
              /\ r.asked.payload = r.agt.target /\ r.own = r.effective
           \/ /\ ~r.transformed /\ r.agt.decision = "allow"
              /\ r.asked.payload = r.sent \/ r.original # r.effective

Fields == {"at", "sent", "original", "agt", "asked", "effective", "transformed", "own", "result"}

\* The inductive invariant.
Sound ==
    /\ proposal \in Contents
    /\ DOMAIN call = Calls
    /\ \A c \in Calls : /\ DOMAIN call[c] = Fields
                        /\ Asking(call[c])
                        /\ Backed(call[c])

LEMMA SoundInit == Init => Sound
<1> SUFFICES ASSUME Init, NEW c \in Calls
             PROVE  DOMAIN call[c] = Fields /\ Asking(call[c]) /\ Backed(call[c])
  BY DEF Init, Sound
<1>1. call[c] = Idle
  BY DEF Init
<1> QED
  BY <1>1 DEF Idle, Fields, Asking, Backed

\* A call that moves to a sound one keeps the others as they are.
LEMMA OneCallMoves ==
    ASSUME Sound, NEW c \in Calls, NEW r, DOMAIN r = Fields, Asking(r), Backed(r),
           call' = [call EXCEPT ![c] = r], proposal' \in Contents
    PROVE  Sound'
<1>1. DOMAIN call' = Calls /\ \A d \in Calls : call'[d] = IF d = c THEN r ELSE call[d]
  BY DEF Sound
<1> QED
  BY <1>1 DEF Sound

LEMMA SoundStep == Sound /\ [Next]_vars => Sound'
<1> SUFFICES ASSUME Sound, [Next]_vars PROVE Sound'
  OBVIOUS
<1>0. proposal \in Contents /\ \A c \in Calls : DOMAIN call[c] = Fields /\ Asking(call[c])
  BY DEF Sound
<1>1. ASSUME NEW c \in Calls, EvaluateNoTenant(c) PROVE Sound'
  <2> DEFINE f == Finished(c, Unavailable, "hold", None, None, FALSE)
             r == [f EXCEPT !.original = proposal]
  <2>1. DOMAIN f = Fields /\ f.at = "done" /\ f.result = "hold"
    BY <1>0 DEF Finished, Fields
  <2>2. call' = [call EXCEPT ![c] = r] /\ proposal' = proposal
    BY <1>1 DEF EvaluateNoTenant
  <2> HIDE DEF f
  <2>3. DOMAIN r = Fields /\ r.at = "done" /\ r.result = "hold"
    BY <2>1 DEF Fields
  <2> HIDE DEF r
  <2> QED
    BY <1>0, <2>2, <2>3, OneCallMoves DEF Asking, Backed
<1>2. ASSUME NEW c \in Calls, Evaluate(c) PROVE Sound'
  <2> DEFINE r == [call[c] EXCEPT !.at = "awaiting", !.sent = proposal.payload,
                                  !.original = proposal]
  <2>1. call' = [call EXCEPT ![c] = r] /\ proposal' = proposal
    BY <1>2 DEF Evaluate
  <2>2. DOMAIN r = Fields /\ r.at = "awaiting" /\ r.original = proposal /\ r.sent = proposal.payload
    BY <1>0 DEF Fields
  <2> HIDE DEF r
  <2> QED
    BY <1>0, <2>1, <2>2, OneCallMoves DEF Asking, Backed
<1>3. ASSUME NEW c \in Calls, BackendFails(c) PROVE Sound'
  <2> DEFINE r == Finished(c, Unavailable, "hold", None, None, FALSE)
  <2>1. call' = [call EXCEPT ![c] = r] /\ proposal' = proposal
    BY <1>3 DEF BackendFails
  <2>2. DOMAIN r = Fields /\ r.at = "done" /\ r.result = "hold"
    BY <1>0 DEF Finished, Fields
  <2> HIDE DEF r
  <2> QED
    BY <1>0, <2>1, <2>2, OneCallMoves DEF Asking, Backed
<1>4. ASSUME NEW c \in Calls, NEW agt \in Answers, BackendRefuses(c, agt) PROVE Sound'
  <2> DEFINE result == IF agt.decision = "deny" /\ ~agt.warnings THEN "deny" ELSE "hold"
             r == Finished(c, agt, result, None, None, FALSE)
  <2>1. call' = [call EXCEPT ![c] = r] /\ proposal' = proposal
    BY <1>4 DEF BackendRefuses
  <2>2. result # "authorized"
    OBVIOUS
  <2> HIDE DEF result
  <2>3. DOMAIN r = Fields /\ r.at = "done" /\ r.result = result
    BY <1>0 DEF Finished, Fields
  <2> HIDE DEF r
  <2> QED
    BY <1>0, <2>1, <2>2, <2>3, OneCallMoves DEF Asking, Backed
<1>5. ASSUME NEW c \in Calls, NEW agt \in Answers, NEW result \in Results,
             CognousDecides(c, agt, result)
      PROVE  Sound'
  <2> DEFINE e == Effective(agt)
             r == Finished(c, agt, result, e, e, Transforms(agt))
  <2>1. call' = [call EXCEPT ![c] = r] /\ proposal' = proposal
    BY <1>5 DEF CognousDecides
  <2>2. /\ DOMAIN r = Fields /\ r.at = "done" /\ r.agt = agt /\ r.result = result
        /\ r.asked = e /\ r.effective = e /\ r.transformed = Transforms(agt)
        /\ r.own = (IF Transforms(agt) THEN e ELSE None)
        /\ r.sent = call[c].sent /\ r.original = call[c].original
    BY <1>0 DEF Finished, Fields, Transforms
  <2>3. /\ call[c].original \in Contents /\ call[c].sent = call[c].original.payload
        /\ ~Refuses(agt)
        /\ result = "authorized" => e.stamp = e.payload
    BY <1>0, <1>5 DEF CognousDecides, Asking, CognousMay
  <2>4. ~agt.warnings /\ (Transforms(agt) => agt.target \in Payloads)
        /\ (~Transforms(agt) => agt.decision = "allow")
    BY <2>3 DEF Refuses, Answers, Transforms
  <2>5. e \in Contents /\ (Transforms(agt) => e.payload = agt.target)
        /\ (~Transforms(agt) => e = proposal)
    BY <1>0, <2>4 DEF Effective, Contents
  <2> HIDE DEF e, r
  <2>6. Backed(r)
    <3>1. CASE Transforms(agt)
      BY <2>2, <2>3, <2>4, <2>5, <3>1 DEF Backed, Transforms
    <3>2. CASE ~Transforms(agt)
      <4>1. e.payload = call[c].sent \/ call[c].original # e
        BY <2>3
      <4> QED
        BY <2>2, <2>3, <2>4, <2>5, <3>2, <4>1 DEF Backed
    <3> QED
      BY <3>1, <3>2
  <2>7. Asking(r)
    BY <2>2 DEF Asking
  <2> QED
    BY <1>0, <2>1, <2>2, <2>6, <2>7, OneCallMoves
<1>6. ASSUME NEW p \in Contents, OwnerEdits(p) PROVE Sound'
  BY <1>6 DEF OwnerEdits, Sound
<1>7. CASE UNCHANGED vars
  BY <1>7 DEF vars, Sound
<1> QED
  BY <1>1, <1>2, <1>3, <1>4, <1>5, <1>6, <1>7 DEF Next

\* The inductive invariant holds of every behaviour.
THEOREM SoundHolds == Spec => []Sound
BY SoundInit, SoundStep, PTL DEF Spec

\* No evaluation by the adapter authorizes what Cognous did not authorize, or
\* what AGT did not allow or transform, unless its evidence tells.
THEOREM BothGates == Spec => []AuthorizedByBoth
<1>1. Sound => AuthorizedByBoth
  BY DEF Sound, Backed, AuthorizedByBoth, Authorized
<1> QED
  BY <1>1, SoundHolds, PTL

\* The proposal in a transformed result is, forever, the one authorized.
THEOREM TransformsStand == Spec => []TransformedResultStands
<1>1. Sound => TransformedResultStands
  <2> SUFFICES ASSUME Sound, NEW c \in Calls, Authorized(c), call[c].agt.decision = "transform"
               PROVE  Given(c) = call[c].effective /\ Given(c).payload = call[c].agt.target
    BY DEF TransformedResultStands
  <2>1. Backed(call[c])
    BY DEF Sound
  <2>2. /\ call[c].own = call[c].effective /\ call[c].effective \in Contents
        /\ call[c].effective.payload = call[c].agt.target
    BY <2>1 DEF Backed, Authorized
  <2> QED
    BY <2>2, NoneAssumption DEF Given
<1> QED
  BY <1>1, SoundHolds, PTL

------------------------------------------------------------------------------

\* A call, field by field.
CallType ==
    [at : {"idle", "awaiting", "done"}, sent : Payloads \cup {None},
     original : Contents \cup {None}, agt : Answers \cup {Unavailable, None},
     asked : Contents \cup {None}, effective : Contents \cup {None},
     own : Contents \cup {None}, transformed : BOOLEAN, result : Results \cup {None}]

Typed == proposal \in Contents /\ edits \in 0..MaxEdits /\ call \in [Calls -> CallType]

LEMMA TypedStep == Typed /\ [Next]_vars => Typed'
<1> SUFFICES ASSUME Typed, [Next]_vars PROVE Typed'
  OBVIOUS
<1>1. ASSUME NEW c \in Calls, NEW r \in CallType, call' = [call EXCEPT ![c] = r],
             UNCHANGED <<proposal, edits>>
      PROVE  Typed'
  BY <1>1 DEF Typed
<1>2. ASSUME NEW c \in Calls, NEW agt \in Answers \cup {Unavailable}, NEW result \in Results,
             NEW e \in Contents \cup {None}, NEW transformed \in BOOLEAN
      PROVE  Finished(c, agt, result, e, e, transformed) \in CallType
  <2> PICK m \in CallType : m = call[c]
    BY DEF Typed
  <2> PICK own \in Contents \cup {None} : own = IF transformed THEN e ELSE None
    OBVIOUS
  <2> PICK n : n = [m EXCEPT !.at = "done", !.agt = agt, !.result = result, !.asked = e,
                             !.effective = e, !.transformed = transformed, !.own = own]
    OBVIOUS
  <2>1. /\ n = [at |-> "done", sent |-> m.sent, original |-> m.original, agt |-> agt,
                asked |-> e, effective |-> e, own |-> own, transformed |-> transformed,
                result |-> result]
        /\ m.sent \in Payloads \cup {None} /\ m.original \in Contents \cup {None}
    BY DEF CallType
  <2>2. n \in CallType
    BY <2>1 DEF CallType
  <2> QED
    BY <2>2 DEF Finished
<1>3. ASSUME NEW c \in Calls, EvaluateNoTenant(c) PROVE Typed'
  <2> PICK f : f = Finished(c, Unavailable, "hold", None, None, FALSE)
    OBVIOUS
  <2>1. f \in CallType
    BY <1>2 DEF Results
  <2>2. [f EXCEPT !.original = proposal] \in CallType
    BY <2>1 DEF Typed, CallType
  <2> QED
    BY <1>1, <1>3, <2>2 DEF EvaluateNoTenant
<1>4. ASSUME NEW c \in Calls, Evaluate(c) PROVE Typed'
  <2> PICK m \in CallType : m = call[c]
    BY DEF Typed
  <2>1. proposal.payload \in Payloads
    BY DEF Typed, Contents
  <2>2. [m EXCEPT !.at = "awaiting", !.sent = proposal.payload, !.original = proposal] \in CallType
    BY <2>1 DEF Typed, CallType
  <2> QED
    BY <1>1, <1>4, <2>2 DEF Evaluate, Typed
<1>5. ASSUME NEW c \in Calls, BackendFails(c) PROVE Typed'
  BY <1>1, <1>2, <1>5 DEF BackendFails, Results
<1>6. ASSUME NEW c \in Calls, NEW agt \in Answers, BackendRefuses(c, agt) PROVE Typed'
  BY <1>1, <1>2, <1>6 DEF BackendRefuses, Results
<1>7. ASSUME NEW c \in Calls, NEW agt \in Answers, NEW result \in Results,
             CognousDecides(c, agt, result)
      PROVE  Typed'
  <2> PICK e : e = Effective(agt)
    OBVIOUS
  <2>1. Transforms(agt) => agt.target \in Payloads
    BY <1>7 DEF CognousDecides, Refuses, Answers, Transforms
  <2>2. e \in Contents /\ Transforms(agt) \in BOOLEAN
    BY <2>1 DEF Effective, Contents, Typed, Transforms
  <2>3. Finished(c, agt, result, e, e, Transforms(agt)) \in CallType
    BY <1>2, <2>2
  <2> QED
    BY <1>1, <1>7, <2>3 DEF CognousDecides
<1>8. ASSUME NEW p \in Contents, OwnerEdits(p) PROVE Typed'
  BY <1>8, BoundAssumption DEF OwnerEdits, Typed
<1>9. CASE UNCHANGED vars
  BY <1>9 DEF vars, Typed
<1> QED
  BY <1>3, <1>4, <1>5, <1>6, <1>7, <1>8, <1>9 DEF Next

\* The proposal, the evidence and the result of every evaluation keep to their
\* types, whatever AGT answers or raises.
THEOREM TypeCorrect == Spec => []TypeOK
<1>1. Init => Typed
  BY BoundAssumption DEF Init, Typed, Idle, CallType
<1>2. Typed => TypeOK
  BY DEF Typed, TypeOK, CallType
<1> QED
  BY <1>1, <1>2, TypedStep, PTL DEF Spec
------------------------------------------------------------------------------
(* A proposal that its owner leaves alone. *)

Unedited == edits = 0

\* What an authorized result hands on is what the evidence calls effective,
\* and that is the original, as AGT was sent it, unless AGT transformed it.
ResultsStand == \A c \in Calls : Authorized(c) =>
    /\ Given(c) = call[c].effective
    /\ ~call[c].transformed =>
          call[c].effective = call[c].original /\ call[c].effective.payload = call[c].sent

\* A call about a proposal that has not changed.
Still(r) ==
    /\ r.at # "idle" => r.original = proposal
    /\ r.at = "done" /\ r.result = "authorized" =>
          (IF r.transformed THEN r.own = r.effective
           ELSE r.effective = proposal /\ r.own = None /\ r.sent = proposal.payload)

AllStill == \A c \in Calls : Still(call[c])

LEMMA OneCallStill ==
    ASSUME Sound, AllStill, NEW c \in Calls, NEW r, Still(r),
           call' = [call EXCEPT ![c] = r], proposal' = proposal
    PROVE  AllStill'
<1>1. \A d \in Calls : call'[d] = IF d = c THEN r ELSE call[d]
  BY DEF Sound
<1> QED
  BY <1>1 DEF AllStill, Still

LEMMA StillStep == Sound /\ AllStill /\ Unedited /\ Unedited' /\ [Next]_vars => AllStill'
<1> SUFFICES ASSUME Sound, AllStill, Unedited, Unedited', [Next]_vars PROVE AllStill'
  OBVIOUS
<1>0. \A c \in Calls : DOMAIN call[c] = Fields /\ Asking(call[c]) /\ Still(call[c])
  BY DEF Sound, AllStill
<1>1. ASSUME NEW c \in Calls, EvaluateNoTenant(c) PROVE AllStill'
  <2> PICK f : f = Finished(c, Unavailable, "hold", None, None, FALSE)
    OBVIOUS
  <2> PICK r : r = [f EXCEPT !.original = proposal]
    OBVIOUS
  <2>1. DOMAIN f = Fields /\ f.at = "done" /\ f.result = "hold"
    BY <1>0 DEF Finished, Fields
  <2>2. call' = [call EXCEPT ![c] = r] /\ proposal' = proposal
    BY <1>1 DEF EvaluateNoTenant
  <2>3. r.original = proposal /\ r.result = "hold"
    BY <2>1 DEF Fields
  <2> QED
    BY <2>2, <2>3, OneCallStill DEF Still
<1>2. ASSUME NEW c \in Calls, Evaluate(c) PROVE AllStill'
  <2> PICK r : r = [call[c] EXCEPT !.at = "awaiting", !.sent = proposal.payload,
                                   !.original = proposal]
    OBVIOUS
  <2>1. call' = [call EXCEPT ![c] = r] /\ proposal' = proposal
    BY <1>2 DEF Evaluate
  <2>2. r.at = "awaiting" /\ r.original = proposal
    BY <1>0 DEF Fields
  <2> QED
    BY <2>1, <2>2, OneCallStill DEF Still
<1>3. ASSUME NEW c \in Calls, NEW agt, NEW result, NEW e, NEW transformed \in BOOLEAN,
             call[c].at = "awaiting", proposal' = proposal,
             call' = [call EXCEPT ![c] = Finished(c, agt, result, e, e, transformed)],
             result = "authorized" /\ ~transformed => e = proposal
      PROVE  AllStill'
  <2> PICK r : r = Finished(c, agt, result, e, e, transformed)
    OBVIOUS
  <2>1. /\ r.at = "done" /\ r.result = result /\ r.effective = e /\ r.transformed = transformed
        /\ r.own = (IF transformed THEN e ELSE None)
        /\ r.original = call[c].original /\ r.sent = call[c].sent
    BY <1>0 DEF Finished, Fields
  <2>2. call[c].original = proposal /\ call[c].sent = proposal.payload
    BY <1>0, <1>3 DEF Asking, Still
  <2>3. Still(r)
    BY <1>3, <2>1, <2>2 DEF Still
  <2> QED
    BY <1>3, <2>3, OneCallStill
<1>4. ASSUME NEW c \in Calls, BackendFails(c) PROVE AllStill'
  <2>1. /\ call[c].at = "awaiting" /\ proposal' = proposal
        /\ call' = [call EXCEPT ![c] = Finished(c, Unavailable, "hold", None, None, FALSE)]
    BY <1>4 DEF BackendFails
  <2>2. "hold" # "authorized" /\ FALSE \in BOOLEAN
    OBVIOUS
  <2> QED
    BY ONLY <1>3, <2>1, <2>2
<1>5. ASSUME NEW c \in Calls, NEW agt \in Answers, BackendRefuses(c, agt) PROVE AllStill'
  <2> PICK result : result = IF agt.decision = "deny" /\ ~agt.warnings THEN "deny" ELSE "hold"
    OBVIOUS
  <2>1. result # "authorized"
    OBVIOUS
  <2>2. /\ call[c].at = "awaiting" /\ proposal' = proposal
        /\ call' = [call EXCEPT ![c] = Finished(c, agt, result, None, None, FALSE)]
    BY <1>5 DEF BackendRefuses
  <2> QED
    BY <1>3, <2>1, <2>2
<1>6. ASSUME NEW c \in Calls, NEW agt \in Answers, NEW result \in Results,
             CognousDecides(c, agt, result)
      PROVE  AllStill'
  <2> PICK e : e = Effective(agt)
    OBVIOUS
  <2>1. /\ call[c].at = "awaiting" /\ proposal' = proposal
        /\ call' = [call EXCEPT ![c] = Finished(c, agt, result, e, e, Transforms(agt))]
    BY <1>6 DEF CognousDecides
  <2>2. ~Transforms(agt) => e = proposal
    BY DEF Effective
  <2>3. Transforms(agt) \in BOOLEAN
    BY DEF Transforms
  <2> QED
    BY <1>3, <2>1, <2>2, <2>3
<1>7. ASSUME NEW p \in Contents, OwnerEdits(p) PROVE AllStill'
  BY <1>7 DEF OwnerEdits, Unedited
<1>8. CASE UNCHANGED vars
  BY <1>8 DEF vars, AllStill, Still
<1> QED
  BY <1>1, <1>2, <1>4, <1>5, <1>6, <1>7, <1>8 DEF Next

\* As long as the owner does not edit the proposal, every authorized result
\* hands on what was authorized, however many evaluations run at a time.
THEOREM UneditedStand == Spec /\ []Unedited => []ResultsStand
<1>1. Init => AllStill
  <2> SUFFICES ASSUME Init, NEW c \in Calls PROVE Still(call[c])
    BY Zenon DEF AllStill
  <2>1. call[c] = Idle
    BY DEF Init
  <2>2. call[c].at = "idle"
    BY <2>1 DEF Idle
  <2>3. call[c].at # "done"
    BY <2>2
  <2> QED
    BY <2>2, <2>3 DEF Still
<1>2. Sound /\ AllStill => ResultsStand
  <2> SUFFICES ASSUME Sound, AllStill, NEW c \in Calls, Authorized(c)
               PROVE  /\ Given(c) = call[c].effective
                      /\ ~call[c].transformed =>
                            /\ call[c].effective = call[c].original
                            /\ call[c].effective.payload = call[c].sent
    BY DEF ResultsStand
  <2>1. Still(call[c]) /\ Backed(call[c])
    BY DEF AllStill, Sound
  <2> QED
    BY <2>1, NoneAssumption DEF Still, Backed, Authorized, Given
<1> QED
  BY <1>1, <1>2, StillStep, SoundHolds, PTL DEF Spec
==============================================================================
