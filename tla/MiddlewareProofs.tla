-------------------------- MODULE MiddlewareProofs --------------------------
(***************************************************************************)
(* Theorems about Middleware, for every set of requests, every number of   *)
(* layers, every answer of Identify and every bound.                       *)
(***************************************************************************)
EXTENDS Middleware, SessionStoreProofs

-----------------------------------------------------------------------------
(***************************************************************************)
(* What one request's local state keeps, whatever the others do.           *)
(***************************************************************************)
\* The stages of resolving a request, before its identity is known.
Before == {"session", "stamp", "lookup", "identify"}

\* Where each stage of the control flow can be.  Only a probe is resolved after
\* downstream, and a probe only there.
PathOK(q) ==
    /\ q.stage = "prepare" =>
          q.pc \in {"idle", "downstream", "handler", "recover"} \cup Before
    /\ q.stage = "finish" => q.pc \in {"finish", "emit", "done"} \cup Before
    /\ q.stage = "unwind" => q.pc \in {"lookup", "identify", "emit", "recover", "done"}
    /\ q.stage = "bare" => q.pc \in {"handler", "done"}
    /\ q.pc \in Before /\ q.stage # "prepare" => q.kind = "probe"
    /\ q.kind = "probe" =>
          /\ q.stage # "bare"
          /\ q.stage = "prepare" =>
                /\ q.pc \notin {"lookup", "identify", "recover"}
                /\ q.answer = NoIdentity
    /\ q.pc = "idle" => q = IdleRequest
    /\ q.kind = "other" => q.stage = "bare"

\* Downstream has been called exactly when the preparation is over, and the main
\* event emitted exactly when the request is about to be answered or to panic on.
CountsOK(q) ==
    /\ q.calls = IF q.stage = "prepare" /\ q.pc # "handler" THEN 0 ELSE 1
    /\ q.reports = IF "main" \in q.sent THEN 1 ELSE 0
    /\ "main" \in q.sent =>
          /\ q.pc = "done" \/ (q.pc = "recover" /\ q.stage = "unwind")
          /\ q.stage # "bare"
    /\ q.pc \in {"recover", "done"} /\ q.stage # "prepare" =>
          \/ "main" \in q.sent
          \/ q.stage = "bare"
          \/ q.stage = "unwind" /\ q.kind = "probe"
    /\ q.stage = "bare" => q.kind = "other" \/ q.layer = Layers

\* Only an unknown tool is missing, and a stored change is either still to be
\* announced or has been.
AnswersOK(q) ==
    /\ q.missing =>
          /\ q.outcome = "unknown" /\ q.kind = "probe"
          /\ q.stage \in {"finish", "unwind"}
    /\ q.pc = "done" => q.reply = q.outcome \/ (q.missing /\ q.reply = "virtual")
    /\ q.changed =>
          /\ q.publish
          /\ q.pc \notin Before
          /\ q.stage # "bare"
          /\ q.stage = "prepare" => q.kind # "probe" /\ q.pc # "recover"
          /\ q.pc \in {"recover", "done"} => "identify" \in q.sent

\* The handler of a request that is no probe runs with the attribution the request's
\* events will carry, and captures with it.
CaptureOK(q) ==
    q.kind # "probe" =>
       /\ (q.stage = "prepare" /\ q.pc = "handler") \/ q.stage \in {"finish", "unwind"}
             => q.context = q.attribution /\ q.context # NoAttribution
       /\ "custom" \in q.sent /\ q.stage # "bare" => q.captured = q.attribution
       /\ q.stage = "prepare" /\ q.pc # "handler" => q.sent = {}

RequestInv(q) == q \in RequestStates /\ PathOK(q) /\ CountsOK(q) /\ AnswersOK(q)

\* From the moment it is resolved, a request has one of the sessions ids.
HasSession(q) ==
    \/ q.pc \in {"stamp", "lookup", "identify", "downstream", "finish", "emit"}
    \/ q.pc = "handler" /\ q.stage = "prepare"

HeldIn(q, ids) ==
    /\ q.attribution.session \in ids \cup {NoSession}
    /\ HasSession(q) => q.attribution.session \in ids

LocalInv(q, ids) == RequestInv(q) /\ HeldIn(q, ids) /\ CaptureOK(q)

\* Identify has answered for the request, and it will not be asked again.
Settled(q) ==
    /\ q.answer # NoIdentity
    /\ q.pc \notin Before
    /\ ~(q.pc = "recover" /\ q.stage = "prepare")

StaysSettled(q, n) ==
    Settled(q) => /\ Settled(n)
                  /\ n.answer = q.answer
                  /\ n.attribution.session = q.attribution.session

\* A request that has not arrived has a local state like any other, and may arrive.
LEMMA IdleType == IdleRequest \in RequestStates /\ RequestInv(IdleRequest)
<1>1. NoAttribution \in Attributions
  BY DEF NoAttribution, Attributions
<1>2. IdleRequest \in RequestStates
  BY <1>1, MiddlewareAssumption DEF IdleRequest, RequestStates, Steps, Stages, Raisers,
                                LocalKinds, LocalOutcomes, Replies
<1> QED BY <1>2 DEF RequestInv, PathOK, CountsOK, AnswersOK, IdleRequest, Before

\* Every step of a request keeps what its local state promises, whatever ids it can
\* be given a session from.
LEMMA RequestStepInv ==
    ASSUME StoreInv, NEW r \in Requests, req \in [Requests -> RequestStates],
           NEW q, q = req[r], NEW ids \in SUBSET SessionIds, LocalInv(q, ids),
           \A s : SessionOf(r, s) => s \in ids,
           Begin(r) \/ BeginOther(r) \/ WrapperStep(r) \/ HandlerStep(r)
    PROVE  LocalInv(req'[r], ids) /\ StaysSettled(q, req'[r])
<1>a. RequestInv(q) /\ HeldIn(q, ids) /\ CaptureOK(q)
  BY DEF LocalInv
<1>1. CASE Begin(r)
  <2>a. PICK kind \in Kinds \ {"other"}, caller \in Callers, conversation \in Conversations :
           Goto(r, [req[r] EXCEPT !.pc = "session", !.kind = kind,
                                  !.caller = caller, !.conversation = conversation])
    BY <1>1 DEF Begin
  <2>1. req'[r] = [q EXCEPT !.pc = "session", !.kind = kind,
                            !.caller = caller, !.conversation = conversation]
    BY <2>a DEF Goto
  <2>2. q = IdleRequest
    BY <1>a, <1>1 DEF Begin, At, RequestInv, PathOK
  <2>3. /\ kind \in LocalKinds /\ kind # "other"
        /\ caller \in DerivedIds \cup Connections \cup {NoConnection}
        /\ conversation \in DerivedIds \cup {NoSession}
    BY <2>a, MiddlewareAssumption DEF LocalKinds
  <2>4. "session" \in Steps
    BY DEF Steps
  <2>5. req'[r] \in RequestStates
    BY ZenonT(60), <1>a, <2>1, <2>3, <2>4 DEF RequestInv, RequestStates
  <2>6. PathOK(req'[r])
    BY <1>a, <2>1, <2>2, <2>3 DEF PathOK, RequestInv, RequestStates, Before, IdleRequest
  <2>7. CountsOK(req'[r])
    BY <1>a, <2>1, <2>2, <2>3 DEF CountsOK, PathOK, RequestInv, RequestStates, Before, IdleRequest
  <2>8. AnswersOK(req'[r])
    BY <1>a, <2>1, <2>2, <2>3 DEF AnswersOK, PathOK, RequestInv, RequestStates, Before, IdleRequest
  <2>9. HeldIn(req'[r], ids)
    BY <1>a, <2>1, <2>2, <2>3 DEF HeldIn, HasSession, PathOK, RequestInv, RequestStates, Before, IdleRequest, NoAttribution
  <2>10. CaptureOK(req'[r])
    BY <1>a, <2>1, <2>2, <2>3 DEF CaptureOK, PathOK, CountsOK, RequestInv, RequestStates, Before, IdleRequest
  <2>11. StaysSettled(q, req'[r])
    BY <1>a, <2>1, <2>2, <2>3 DEF StaysSettled, Settled, PathOK, RequestInv, RequestStates, Before, IdleRequest
  <2> QED BY <2>5, <2>6, <2>7, <2>8, <2>9, <2>10, <2>11 DEF LocalInv, RequestInv
<1>2. CASE BeginOther(r)
  <2>1. req'[r] = [q EXCEPT !.pc = "handler", !.kind = "other", !.stage = "bare",
                            !.calls = @ + 1]
    BY <1>2 DEF BeginOther, Goto
  <2>2. q = IdleRequest
    BY <1>a, <1>2 DEF BeginOther, At, RequestInv, PathOK
  <2>3. "handler" \in Steps /\ "bare" \in Stages /\ "other" \in LocalKinds
        /\ q.calls + 1 \in Nat
    BY <1>a DEF Steps, Stages, LocalKinds, AllKinds, RequestInv, RequestStates
  <2>5. req'[r] \in RequestStates
    BY ZenonT(60), <1>a, <2>1, <2>3 DEF RequestInv, RequestStates
  <2>6. PathOK(req'[r])
    BY <1>a, <2>1, <2>2 DEF PathOK, RequestInv, RequestStates, Before, IdleRequest
  <2>7. CountsOK(req'[r])
    BY <1>a, <2>1, <2>2 DEF CountsOK, PathOK, RequestInv, RequestStates, Before, IdleRequest
  <2>8. AnswersOK(req'[r])
    BY <1>a, <2>1, <2>2 DEF AnswersOK, PathOK, RequestInv, RequestStates, Before, IdleRequest
  <2>9. HeldIn(req'[r], ids)
    BY <1>a, <2>1, <2>2 DEF HeldIn, HasSession, PathOK, RequestInv, RequestStates, Before, IdleRequest, NoAttribution
  <2>10. CaptureOK(req'[r])
    BY <1>a, <2>1, <2>2 DEF CaptureOK, PathOK, CountsOK, RequestInv, RequestStates, Before, IdleRequest
  <2>11. StaysSettled(q, req'[r])
    BY <1>a, <2>1, <2>2 DEF StaysSettled, Settled, PathOK, RequestInv, RequestStates, Before, IdleRequest
  <2> QED BY <2>5, <2>6, <2>7, <2>8, <2>9, <2>10, <2>11 DEF LocalInv, RequestInv
<1>3. CASE ResolveSession(r)
  <2>1. PICK s \in SessionIds :
           /\ s \in ids
           /\ req'[r] = [q EXCEPT !.pc = "stamp",
                                  !.attribution = [session |-> s, identity |-> NoIdentity]]
    BY <1>3 DEF ResolveSession, Goto
  <2>2. q.pc = "session"
    BY <1>3 DEF ResolveSession, At
  <2>3. "stamp" \in Steps /\ [session |-> s, identity |-> NoIdentity] \in Attributions
    BY DEF Steps, Attributions
  <2>5. req'[r] \in RequestStates
    BY ZenonT(60), <1>a, <2>1, <2>3 DEF RequestInv, RequestStates
  <2>6. PathOK(req'[r])
    BY <1>a, <2>1, <2>2 DEF PathOK, RequestInv, RequestStates, Before
  <2>7. CountsOK(req'[r])
    BY <1>a, <2>1, <2>2 DEF CountsOK, PathOK, RequestInv, RequestStates, Before
  <2>8. AnswersOK(req'[r])
    BY <1>a, <2>1, <2>2 DEF AnswersOK, PathOK, RequestInv, RequestStates, Before
  <2>9. HeldIn(req'[r], ids)
    BY <1>a, <2>1, <2>2 DEF HeldIn, HasSession, PathOK, RequestInv, RequestStates, Before
  <2>10. CaptureOK(req'[r])
    BY <1>a, <2>1, <2>2 DEF CaptureOK, PathOK, CountsOK, RequestInv, RequestStates, Before
  <2>11. StaysSettled(q, req'[r])
    BY <1>a, <2>1, <2>2 DEF StaysSettled, Settled, PathOK, RequestInv, RequestStates, Before
  <2> QED BY <2>5, <2>6, <2>7, <2>8, <2>9, <2>10, <2>11 DEF LocalInv, RequestInv
<1>4. CASE Stamp(r)
  <2>1. req'[r] = [q EXCEPT !.pc = IF q.kind = "probe" /\ q.stage = "prepare"
                                   THEN "downstream" ELSE "lookup"]
    BY <1>4 DEF Stamp, Goto, IsProbe
  <2>2. q.pc = "stamp"
    BY <1>4 DEF Stamp, At
  <2>3. "downstream" \in Steps /\ "lookup" \in Steps
    BY DEF Steps
  <2>5. req'[r] \in RequestStates
    BY <1>a, <2>1, <2>3 DEF RequestInv, RequestStates
  <2>6. PathOK(req'[r])
    BY <1>a, <2>1, <2>2 DEF PathOK, RequestInv, RequestStates, Before
  <2>7. CountsOK(req'[r])
    BY <1>a, <2>1, <2>2 DEF CountsOK, PathOK, RequestInv, RequestStates, Before
  <2>8. AnswersOK(req'[r])
    BY <1>a, <2>1, <2>2 DEF AnswersOK, PathOK, RequestInv, RequestStates, Before
  <2>9. HeldIn(req'[r], ids)
    BY <1>a, <2>1, <2>2 DEF HeldIn, HasSession, PathOK, RequestInv, RequestStates, Before
  <2>10. CaptureOK(req'[r])
    BY <1>a, <2>1, <2>2 DEF CaptureOK, PathOK, CountsOK, RequestInv, RequestStates, Before
  <2>11. StaysSettled(q, req'[r])
    BY <1>a, <2>1, <2>2 DEF StaysSettled, Settled, PathOK, RequestInv, RequestStates, Before
  <2> QED BY <2>5, <2>6, <2>7, <2>8, <2>9, <2>10, <2>11 DEF LocalInv, RequestInv
<1>5. CASE Lookup(r)
  <2> DEFINE known == StateOf(sessions, Session(r)).identity
  <2>1. req'[r] = [q EXCEPT !.pc = "identify", !.publish = FALSE,
                            !.attribution.identity = known]
    BY <1>5 DEF Lookup, Goto
  <2>2. q.pc = "lookup"
    BY <1>5 DEF Lookup, At
  <2>3. known \in Identities \cup {NoIdentity}
    BY StateOfType DEF SessionStates
  <2> HIDE DEF known
  <2>4. /\ "identify" \in Steps
        /\ [q.attribution EXCEPT !.identity = known] \in Attributions
        /\ [q.attribution EXCEPT !.identity = known].session = q.attribution.session
    BY <1>a, <2>3 DEF Steps, Attributions, RequestInv, RequestStates
  <2>5. req'[r] \in RequestStates
    BY ZenonT(60), <1>a, <2>1, <2>4 DEF RequestInv, RequestStates
  <2>6. PathOK(req'[r])
    BY <1>a, <2>1, <2>2 DEF PathOK, RequestInv, RequestStates, Before
  <2>7. CountsOK(req'[r])
    BY <1>a, <2>1, <2>2 DEF CountsOK, PathOK, RequestInv, RequestStates, Before
  <2>8. AnswersOK(req'[r])
    BY <1>a, <2>1, <2>2 DEF AnswersOK, PathOK, RequestInv, RequestStates, Before
  <2>9. HeldIn(req'[r], ids)
    BY <1>a, <2>1, <2>2, <2>4 DEF HeldIn, HasSession, PathOK, RequestInv, RequestStates, Before
  <2>10. CaptureOK(req'[r])
    BY <1>a, <2>1, <2>2 DEF CaptureOK, PathOK, CountsOK, RequestInv, RequestStates, Before
  <2>11. StaysSettled(q, req'[r])
    BY <1>a, <2>1, <2>2 DEF StaysSettled, Settled, PathOK, RequestInv, RequestStates, Before
  <2> QED BY <2>5, <2>6, <2>7, <2>8, <2>9, <2>10, <2>11 DEF LocalInv, RequestInv
<1>6. CASE IdentifyNobody(r)
  <2>1. req'[r] = [q EXCEPT !.pc = AfterIdentity(r)]
    BY <1>6 DEF IdentifyNobody, Goto
  <2>2. q.pc = "identify"
    BY <1>6 DEF IdentifyNobody, At
  <2>a. \/ q.stage = "prepare" /\ AfterIdentity(r) = "downstream"
        \/ q.stage = "finish" /\ AfterIdentity(r) = "finish"
        \/ q.stage = "unwind" /\ AfterIdentity(r) = "emit"
    BY <1>a, <2>2 DEF AfterIdentity, RequestInv, RequestStates, Stages, PathOK
  <2>b. AfterIdentity(r) \in Steps
    BY <2>a DEF Steps
  <2>5. req'[r] \in RequestStates
    BY <1>a, <2>1, <2>b DEF RequestInv, RequestStates
  <2>6. PathOK(req'[r])
    BY <1>a, <2>1, <2>2, <2>a DEF PathOK, RequestInv, RequestStates, Before
  <2>7. CountsOK(req'[r])
    BY <1>a, <2>1, <2>2, <2>a DEF CountsOK, PathOK, RequestInv, RequestStates, Before
  <2>8. AnswersOK(req'[r])
    BY <1>a, <2>1, <2>2, <2>a DEF AnswersOK, PathOK, RequestInv, RequestStates, Before
  <2>9. HeldIn(req'[r], ids)
    BY <1>a, <2>1, <2>2, <2>a DEF HeldIn, HasSession, PathOK, RequestInv, RequestStates, Before
  <2>10. CaptureOK(req'[r])
    BY <1>a, <2>1, <2>2, <2>a DEF CaptureOK, PathOK, CountsOK, RequestInv, RequestStates, Before
  <2>11. StaysSettled(q, req'[r])
    BY <1>a, <2>1, <2>2, <2>a DEF StaysSettled, Settled, PathOK, RequestInv, RequestStates, Before
  <2> QED BY <2>5, <2>6, <2>7, <2>8, <2>9, <2>10, <2>11 DEF LocalInv, RequestInv
<1>7. CASE Update(r)
  <2> DEFINE known == StateOf(sessions, Session(r)).identity
  <2>1. PICK answer \in Answers :
           req'[r] = [q EXCEPT
                         !.pc = AfterIdentity(r),
                         !.answer = answer,
                         !.attribution.identity = MergedIdentity(known, answer),
                         !.publish = Publishes(Session(r), answer),
                         !.changed = @ \/ Publishes(Session(r), answer)]
    BY <1>7 DEF Update, Goto
  <2>2. q.pc = "identify"
    BY <1>7 DEF Update, At
  <2>a. \/ q.stage = "prepare" /\ AfterIdentity(r) = "downstream"
        \/ q.stage = "finish" /\ AfterIdentity(r) = "finish"
        \/ q.stage = "unwind" /\ AfterIdentity(r) = "emit"
    BY <1>a, <2>2 DEF AfterIdentity, RequestInv, RequestStates, Stages, PathOK
  <2>b. AfterIdentity(r) \in Steps
    BY <2>a DEF Steps
  <2>3. known \in Identities \cup {NoIdentity} /\ answer \in Identities
    BY StateOfType, SnapshotsType, MiddlewareAssumption DEF SessionStates
  <2> DEFINE merged    == MergedIdentity(known, answer)
             publishes == Publishes(Session(r), answer)
  <2>c. merged \in Identities
    BY <2>3, MergedIdentityType
  <2>d. publishes \in BOOLEAN
    BY DEF Publishes
  <2>e. q.changed = FALSE
    BY <1>a, <2>2 DEF RequestInv, AnswersOK, RequestStates, Before
  <2> HIDE DEF known, merged, publishes
  <2>f. /\ [q.attribution EXCEPT !.identity = merged] \in Attributions
        /\ [q.attribution EXCEPT !.identity = merged].session = q.attribution.session
    BY <1>a, <2>c DEF Attributions, RequestInv, RequestStates
  <2>4. req'[r] = [q EXCEPT
                      !.pc = AfterIdentity(r),
                      !.answer = answer,
                      !.attribution = [q.attribution EXCEPT !.identity = merged],
                      !.publish = publishes,
                      !.changed = publishes]
    BY <2>1, <2>d, <2>e DEF known, merged, publishes
  <2>5. req'[r] \in RequestStates
    BY ZenonT(60), <1>a, <2>3, <2>4, <2>b, <2>d, <2>f DEF RequestInv, RequestStates
  <2>6. PathOK(req'[r])
    BY <1>a, <2>2, <2>4, <2>a, <2>d DEF PathOK, RequestInv, RequestStates, Before
  <2>7. CountsOK(req'[r])
    BY <1>a, <2>2, <2>4, <2>a, <2>d DEF CountsOK, PathOK, RequestInv, RequestStates, Before
  <2>8. AnswersOK(req'[r])
    BY <1>a, <2>2, <2>4, <2>a, <2>d DEF AnswersOK, PathOK, RequestInv, RequestStates, Before
  <2>9. HeldIn(req'[r], ids)
    BY ZenonT(60), <1>a, <2>2, <2>4, <2>a, <2>d, <2>f DEF HeldIn, HasSession, PathOK, RequestInv, RequestStates, Before
  <2>10. CaptureOK(req'[r])
    BY <1>a, <2>2, <2>4, <2>a, <2>d DEF CaptureOK, PathOK, CountsOK, RequestInv, RequestStates, Before
  <2>11. StaysSettled(q, req'[r])
    BY <1>a, <2>2, <2>4, <2>a, <2>d DEF StaysSettled, Settled, PathOK, RequestInv, RequestStates, Before
  <2> QED BY <2>5, <2>6, <2>7, <2>8, <2>9, <2>10, <2>11 DEF LocalInv, RequestInv
<1>8. CASE UpdatePanics(r)
  <2>1. PICK answer \in Answers :
           req'[r] = [q EXCEPT
                         !.raised = "wrapper",
                         !.answer = answer,
                         !.pc     = IF q.stage = "finish" THEN "lookup" ELSE "recover",
                         !.stage  = IF q.stage = "finish" THEN "unwind" ELSE @]
    BY <1>8 DEF UpdatePanics, Goto
  <2>2. q.pc = "identify"
    BY <1>8 DEF UpdatePanics, At
  <2>3. /\ answer \in Identities \cup {NoIdentity}
        /\ "lookup" \in Steps /\ "recover" \in Steps
        /\ "unwind" \in Stages
        /\ "wrapper" \in Raisers
    BY SnapshotsType, MiddlewareAssumption DEF Steps, Stages, Raisers
  <2>4. q.stage \in {"prepare", "finish", "unwind"}
    BY <1>a, <2>2 DEF RequestInv, RequestStates, PathOK, Stages
  <2>5. req'[r] \in RequestStates
    BY ZenonT(60), <1>a, <2>1, <2>3 DEF RequestInv, RequestStates
  <2>6. PathOK(req'[r])
    BY <1>a, <2>1, <2>2, <2>4 DEF PathOK, RequestInv, RequestStates, Before
  <2>7. CountsOK(req'[r])
    BY <1>a, <2>1, <2>2, <2>4 DEF CountsOK, PathOK, RequestInv, RequestStates, Before
  <2>8. AnswersOK(req'[r])
    BY <1>a, <2>1, <2>2, <2>4 DEF AnswersOK, PathOK, RequestInv, RequestStates, Before
  <2>9. HeldIn(req'[r], ids)
    BY <1>a, <2>1, <2>2, <2>4 DEF HeldIn, HasSession, PathOK, RequestInv, RequestStates, Before
  <2>10. CaptureOK(req'[r])
    BY <1>a, <2>1, <2>2, <2>4 DEF CaptureOK, PathOK, CountsOK, RequestInv, RequestStates, Before
  <2>11. StaysSettled(q, req'[r])
    BY <1>a, <2>1, <2>2, <2>4 DEF StaysSettled, Settled, PathOK, RequestInv, RequestStates, Before
  <2> QED BY <2>5, <2>6, <2>7, <2>8, <2>9, <2>10, <2>11 DEF LocalInv, RequestInv
<1>9. CASE CallDownstream(r)
  <2>1. req'[r] = [q EXCEPT !.pc = "handler", !.calls = @ + 1, !.context = q.attribution]
    BY <1>9 DEF CallDownstream, Goto
  <2>2. q.pc = "downstream"
    BY <1>9 DEF CallDownstream, At
  <2>3. "handler" \in Steps /\ q.attribution \in Attributions /\ q.calls + 1 \in Nat
    BY <1>a DEF Steps, RequestInv, RequestStates
  <2>4. q.calls = 0 /\ q.stage = "prepare"
    BY <1>a, <2>2 DEF CountsOK, PathOK, RequestInv, RequestStates, Stages, Before
  <2>a. q.attribution # NoAttribution
    BY <1>a, <2>2, StoreAssumption DEF HeldIn, HasSession, NoAttribution
  <2>5. req'[r] \in RequestStates
    BY ZenonT(60), <1>a, <2>1, <2>3 DEF RequestInv, RequestStates
  <2>6. PathOK(req'[r])
    BY <1>a, <2>1, <2>2, <2>4 DEF PathOK, RequestInv, RequestStates, Before
  <2>7. CountsOK(req'[r])
    BY <1>a, <2>1, <2>2, <2>4 DEF CountsOK, PathOK, RequestInv, RequestStates, Before
  <2>8. AnswersOK(req'[r])
    BY <1>a, <2>1, <2>2, <2>4 DEF AnswersOK, PathOK, RequestInv, RequestStates, Before
  <2>9. HeldIn(req'[r], ids)
    BY <1>a, <2>1, <2>2, <2>4 DEF HeldIn, HasSession, PathOK, RequestInv, RequestStates, Before
  <2>10. CaptureOK(req'[r])
    BY <1>a, <2>1, <2>2, <2>4, <2>a DEF CaptureOK, PathOK, CountsOK, RequestInv, RequestStates, Before
  <2>11. StaysSettled(q, req'[r])
    BY <1>a, <2>1, <2>2, <2>4 DEF StaysSettled, Settled, PathOK, RequestInv, RequestStates, Before
  <2> QED BY <2>5, <2>6, <2>7, <2>8, <2>9, <2>10, <2>11 DEF LocalInv, RequestInv
<1>10. CASE Finish(r)
  <2>1. req'[r] = [q EXCEPT !.pc = "emit"]
    BY <1>10 DEF Finish, Goto
  <2>2. q.pc = "finish"
    BY <1>10 DEF Finish, At
  <2>3. "emit" \in Steps
    BY DEF Steps
  <2>5. req'[r] \in RequestStates
    BY <1>a, <2>1, <2>3 DEF RequestInv, RequestStates
  <2>6. PathOK(req'[r])
    BY <1>a, <2>1, <2>2 DEF PathOK, RequestInv, RequestStates, Before
  <2>7. CountsOK(req'[r])
    BY <1>a, <2>1, <2>2 DEF CountsOK, PathOK, RequestInv, RequestStates, Before
  <2>8. AnswersOK(req'[r])
    BY <1>a, <2>1, <2>2 DEF AnswersOK, PathOK, RequestInv, RequestStates, Before
  <2>9. HeldIn(req'[r], ids)
    BY <1>a, <2>1, <2>2 DEF HeldIn, HasSession, PathOK, RequestInv, RequestStates, Before
  <2>10. CaptureOK(req'[r])
    BY <1>a, <2>1, <2>2 DEF CaptureOK, PathOK, CountsOK, RequestInv, RequestStates, Before
  <2>11. StaysSettled(q, req'[r])
    BY <1>a, <2>1, <2>2 DEF StaysSettled, Settled, PathOK, RequestInv, RequestStates, Before
  <2> QED BY <2>5, <2>6, <2>7, <2>8, <2>9, <2>10, <2>11 DEF LocalInv, RequestInv
<1>11. CASE FinishInitialize(r)
  <2>1. req'[r] = [q EXCEPT !.pc = "emit"]
    BY <1>11 DEF FinishInitialize, Goto
  <2>2. q.pc = "finish"
    BY <1>11 DEF FinishInitialize, At
  <2>3. "emit" \in Steps
    BY DEF Steps
  <2>5. req'[r] \in RequestStates
    BY <1>a, <2>1, <2>3 DEF RequestInv, RequestStates
  <2>6. PathOK(req'[r])
    BY <1>a, <2>1, <2>2 DEF PathOK, RequestInv, RequestStates, Before
  <2>7. CountsOK(req'[r])
    BY <1>a, <2>1, <2>2 DEF CountsOK, PathOK, RequestInv, RequestStates, Before
  <2>8. AnswersOK(req'[r])
    BY <1>a, <2>1, <2>2 DEF AnswersOK, PathOK, RequestInv, RequestStates, Before
  <2>9. HeldIn(req'[r], ids)
    BY <1>a, <2>1, <2>2 DEF HeldIn, HasSession, PathOK, RequestInv, RequestStates, Before
  <2>10. CaptureOK(req'[r])
    BY <1>a, <2>1, <2>2 DEF CaptureOK, PathOK, CountsOK, RequestInv, RequestStates, Before
  <2>11. StaysSettled(q, req'[r])
    BY <1>a, <2>1, <2>2 DEF StaysSettled, Settled, PathOK, RequestInv, RequestStates, Before
  <2> QED BY <2>5, <2>6, <2>7, <2>8, <2>9, <2>10, <2>11 DEF LocalInv, RequestInv
<1>12. CASE FinishPanics(r)
  <2>1. req'[r] = [q EXCEPT !.raised = "wrapper", !.stage = "unwind", !.pc = "emit"]
    BY <1>12 DEF FinishPanics, Goto
  <2>2. q.pc = "finish"
    BY <1>12 DEF FinishPanics, At
  <2>3. "emit" \in Steps /\ "unwind" \in Stages /\ "wrapper" \in Raisers
    BY DEF Steps, Stages, Raisers
  <2>4. q.stage = "finish"
    BY <1>a, <2>2 DEF RequestInv, RequestStates, PathOK, Stages, Before
  <2>5. req'[r] \in RequestStates
    BY ZenonT(60), <1>a, <2>1, <2>3 DEF RequestInv, RequestStates
  <2>6. PathOK(req'[r])
    BY <1>a, <2>1, <2>2 DEF PathOK, RequestInv, RequestStates, Before
  <2>7. CountsOK(req'[r])
    BY <1>a, <2>1, <2>2 DEF CountsOK, PathOK, RequestInv, RequestStates, Before
  <2>8. AnswersOK(req'[r])
    BY <1>a, <2>1, <2>2 DEF AnswersOK, PathOK, RequestInv, RequestStates, Before
  <2>9. HeldIn(req'[r], ids)
    BY <1>a, <2>1, <2>2 DEF HeldIn, HasSession, PathOK, RequestInv, RequestStates, Before
  <2>10. CaptureOK(req'[r])
    BY <1>a, <2>1, <2>2, <2>4 DEF CaptureOK, PathOK, CountsOK, RequestInv, RequestStates, Before
  <2>11. StaysSettled(q, req'[r])
    BY <1>a, <2>1, <2>2 DEF StaysSettled, Settled, PathOK, RequestInv, RequestStates, Before
  <2> QED BY <2>5, <2>6, <2>7, <2>8, <2>9, <2>10, <2>11 DEF LocalInv, RequestInv
<1>13. CASE EmitIdentify(r)
  <2>1. req'[r] = [q EXCEPT !.sent = @ \cup {"identify"}]
    BY <1>13 DEF EmitIdentify, Goto
  <2>2. q.pc = "emit"
    BY <1>13 DEF EmitIdentify, At
  <2>3. q.sent \cup {"identify"} \in SUBSET Events
    BY <1>a DEF Events, RequestInv, RequestStates
  <2>5. req'[r] \in RequestStates
    BY <1>a, <2>1, <2>3 DEF RequestInv, RequestStates
  <2>6. PathOK(req'[r])
    BY <1>a, <2>1, <2>2 DEF PathOK, RequestInv, RequestStates, Before
  <2>7. CountsOK(req'[r])
    BY <1>a, <2>1, <2>2 DEF CountsOK, PathOK, RequestInv, RequestStates, Before
  <2>8. AnswersOK(req'[r])
    BY <1>a, <2>1, <2>2 DEF AnswersOK, PathOK, RequestInv, RequestStates, Before
  <2>9. HeldIn(req'[r], ids)
    BY <1>a, <2>1, <2>2 DEF HeldIn, HasSession, PathOK, RequestInv, RequestStates, Before
  <2>10. CaptureOK(req'[r])
    BY <1>a, <2>1, <2>2 DEF CaptureOK, PathOK, CountsOK, RequestInv, RequestStates, Before
  <2>11. StaysSettled(q, req'[r])
    BY <1>a, <2>1, <2>2 DEF StaysSettled, Settled, PathOK, RequestInv, RequestStates, Before
  <2> QED BY <2>5, <2>6, <2>7, <2>8, <2>9, <2>10, <2>11 DEF LocalInv, RequestInv
<1>14. CASE Report(r)
  <2> DEFINE reports == q.reports + 1
             sent == q.sent \cup ({"main"} \cup IF Failed(r) THEN {"exception"} ELSE {})
  <2>1. req'[r] = IF q.stage = "unwind"
                  THEN [q EXCEPT !.sent = sent, !.reports = @ + 1, !.pc = "recover"]
                  ELSE [q EXCEPT !.sent = sent, !.reports = @ + 1, !.pc = "done",
                                 !.reply = Final(r)]
    BY <1>14 DEF Report, Goto
  <2>2. q.pc = "emit" /\ (q.publish => "identify" \in q.sent)
    BY <1>14 DEF Report, At
  <2>3. /\ sent \in SUBSET Events
        /\ "recover" \in Steps /\ "done" \in Steps
        /\ Final(r) \in Replies
        /\ reports \in Nat
    BY <1>a DEF Final, Events, Steps, RequestInv, RequestStates, LocalOutcomes, Replies
  <2>4. "main" \in sent /\ q.sent \subseteq sent /\ ("custom" \in sent => "custom" \in q.sent)
    OBVIOUS
  <2>a. Final(r) = IF q.missing THEN "virtual" ELSE q.outcome
    BY DEF Final
  <2>d. q.stage \in {"finish", "unwind"}
    BY <1>a, <2>2 DEF RequestInv, RequestStates, PathOK, Stages, Before
  <2> HIDE DEF sent, reports
  <2>b. ASSUME q.stage = "unwind" PROVE req'[r] \in RequestStates
    <3>1. req'[r] = [q EXCEPT !.sent = sent, !.reports = reports, !.pc = "recover"]
      BY <2>1, <2>b DEF reports
    <3> QED BY ZenonT(60), <1>a, <2>3, <3>1 DEF RequestInv, RequestStates
  <2>c. ASSUME q.stage # "unwind" PROVE req'[r] \in RequestStates
    <3> DEFINE reply == Final(r)
    <3>1. req'[r] = [q EXCEPT !.sent = sent, !.reports = reports, !.pc = "done",
                              !.reply = reply]
      BY <2>1, <2>c DEF reports
    <3>2. reply \in Replies
      BY <2>3
    <3> HIDE DEF reply
    <3> QED BY ZenonT(60), <1>a, <2>3, <3>1, <3>2 DEF RequestInv, RequestStates
  <2>5. req'[r] \in RequestStates
    BY <1>a, <2>b, <2>c DEF RequestInv, RequestStates
  <2>6. PathOK(req'[r])
    BY <1>a, <2>1, <2>2, <2>4, <2>a DEF PathOK, RequestInv, RequestStates, Before
  <2>7. CountsOK(req'[r])
    BY <1>a, <2>1, <2>2, <2>4, <2>a DEF CountsOK, PathOK, RequestInv, RequestStates, Before
  <2>8. AnswersOK(req'[r])
    BY <1>a, <2>1, <2>2, <2>4, <2>a DEF AnswersOK, PathOK, RequestInv, RequestStates, Before
  <2>9. HeldIn(req'[r], ids)
    BY <1>a, <2>1, <2>2, <2>4, <2>a DEF HeldIn, HasSession, PathOK, RequestInv, RequestStates, Before
  <2>10. CaptureOK(req'[r])
    BY <1>a, <2>1, <2>2, <2>4, <2>a, <2>d DEF CaptureOK, PathOK, CountsOK, RequestInv, RequestStates, Before
  <2>11. StaysSettled(q, req'[r])
    BY <1>a, <2>1, <2>2, <2>4, <2>a DEF StaysSettled, Settled, PathOK, RequestInv, RequestStates, Before
  <2> QED BY <2>5, <2>6, <2>7, <2>8, <2>9, <2>10, <2>11 DEF LocalInv, RequestInv
<1>15. CASE Recover(r)
  <2>1. q.pc = "recover" /\ q \in RequestStates /\ PathOK(q) /\ CountsOK(q) /\ AnswersOK(q)
    BY <1>a, <1>15 DEF Recover, At, RequestInv
  <2>2. CASE q.calls = 0 /\ q.layer < Layers
    <3>a. NextLayer(r)
      BY <1>15, <2>2 DEF Recover
    <3>b. PICK kind \in {q.kind} \cup (IF q.kind = "tool" THEN {"probe"} ELSE {}),
               conversation \in {q.conversation, NoSession} :
             Goto(r, [IdleRequest EXCEPT
                         !.pc = "session", !.kind = kind, !.caller = q.caller,
                         !.conversation = conversation, !.layer = q.layer + 1,
                         !.calls = q.calls, !.reports = q.reports])
      BY <3>a DEF NextLayer
    <3>1. req'[r] = [IdleRequest EXCEPT
                        !.pc = "session", !.kind = kind, !.caller = q.caller,
                        !.conversation = conversation, !.layer = q.layer + 1,
                        !.calls = q.calls, !.reports = q.reports]
      BY <3>b DEF Goto
    <3>2. q.reports = 0 /\ q.kind # "other" /\ q.stage = "prepare"
      BY <2>1, <2>2 DEF PathOK, CountsOK, RequestStates, Stages
    <3>3. /\ kind \in LocalKinds /\ kind # "other"
          /\ q.caller \in DerivedIds \cup Connections \cup {NoConnection}
          /\ conversation \in DerivedIds \cup {NoSession}
      BY <2>1, <3>b, <3>2 DEF RequestStates, LocalKinds, AllKinds
    <3>4. q.layer + 1 \in 1..Layers /\ "session" \in Steps
      BY <2>1, <2>2, MiddlewareAssumption DEF RequestStates, Steps
    <3>5. req'[r] \in RequestStates
      <4> DEFINE layer  == q.layer + 1
                 caller == q.caller
                 none   == 0
      <4>1. /\ req'[r] = [IdleRequest EXCEPT
                             !.pc = "session", !.kind = kind, !.caller = caller,
                             !.conversation = conversation, !.layer = layer,
                             !.calls = none, !.reports = none]
            /\ none \in Nat
            /\ layer \in 1..Layers /\ "session" \in Steps /\ kind \in LocalKinds
            /\ caller \in DerivedIds \cup Connections \cup {NoConnection}
        BY <2>2, <3>1, <3>2, <3>3, <3>4
      <4>2. IdleRequest \in RequestStates
        BY IdleType
      <4>3. conversation \in DerivedIds \cup {NoSession}
        BY <3>3
      <4> HIDE DEF layer, caller, none
      <4> DEFINE entered == [IdleRequest EXCEPT
                                !.pc = "session", !.kind = kind, !.caller = caller,
                                !.conversation = conversation]
      <4>4. entered \in RequestStates
        BY <4>1, <4>2, <4>3 DEF RequestStates
      <4>5. req'[r] = [entered EXCEPT !.layer = layer, !.calls = none, !.reports = none]
        BY <4>1
      <4> HIDE DEF entered
      <4> QED BY ZenonT(60), <4>1, <4>4, <4>5 DEF RequestStates
    <3>6. PathOK(req'[r])
      BY <3>1, <3>3 DEF PathOK, IdleRequest, Before
    <3>7. CountsOK(req'[r])
      BY <2>2, <3>1, <3>2 DEF CountsOK, IdleRequest
    <3>8. AnswersOK(req'[r])
      BY <3>1 DEF AnswersOK, IdleRequest
    <3>9. HeldIn(req'[r], ids)
      BY <1>a, <2>1, <3>1 DEF HeldIn, HasSession, RequestStates, Before, IdleRequest, NoAttribution
    <3>10. CaptureOK(req'[r])
      BY <1>a, <2>1, <3>1 DEF CaptureOK, RequestStates, Before, IdleRequest, NoAttribution
    <3>11. StaysSettled(q, req'[r])
      BY <2>1, <3>1, <3>2 DEF StaysSettled, Settled, RequestStates, Before, IdleRequest, NoAttribution
    <3> QED BY <3>5, <3>6, <3>7, <3>8, <3>9, <3>10, <3>11 DEF LocalInv, RequestInv
  <2>3. CASE q.calls = 0 /\ ~(q.layer < Layers)
    <3>1. req'[r] = [q EXCEPT !.pc = "handler", !.stage = "bare", !.raised = "none",
                              !.calls = @ + 1, !.context = NoAttribution]
      BY <1>15, <2>3 DEF Recover, Goto
    <3>2. /\ "handler" \in Steps /\ "bare" \in Stages /\ "none" \in Raisers
          /\ NoAttribution \in Attributions /\ q.calls + 1 \in Nat
      BY <2>3 DEF Steps, Stages, Raisers, Attributions, NoAttribution
    <3>3. q.layer = Layers /\ q.stage = "prepare"
      BY <2>1, <2>3, MiddlewareAssumption DEF RequestStates, CountsOK, PathOK
    <3>4. ~q.changed /\ ~q.missing
      BY <2>1, <3>3 DEF AnswersOK
    <3>5. req'[r] \in RequestStates
      BY ZenonT(60), <2>1, <3>1, <3>2 DEF RequestStates
    <3>6. PathOK(req'[r])
      BY <2>1, <3>1, <3>3 DEF PathOK, RequestStates, Before
    <3>7. CountsOK(req'[r])
      BY <2>1, <2>3, <3>1, <3>3 DEF CountsOK, RequestStates
    <3>8. AnswersOK(req'[r])
      BY <2>1, <3>1, <3>4 DEF AnswersOK, RequestStates, Before
    <3>9. HeldIn(req'[r], ids)
      BY <1>a, <2>1, <3>1, <3>3 DEF HeldIn, HasSession, RequestStates, Before, NoAttribution
    <3>10. CaptureOK(req'[r])
      BY <1>a, <2>1, <3>1, <3>3 DEF CaptureOK, RequestStates, Before, NoAttribution
    <3>11. StaysSettled(q, req'[r])
      BY <2>1, <3>1, <3>3 DEF StaysSettled, Settled, RequestStates, Before, NoAttribution
    <3> QED BY <3>5, <3>6, <3>7, <3>8, <3>9, <3>10, <3>11 DEF LocalInv, RequestInv
  <2>4. CASE q.calls # 0
    <3>1. req'[r] = [q EXCEPT !.pc = "done", !.reply = q.outcome]
      BY <1>15, <2>4 DEF Recover, Goto
    <3>2. "done" \in Steps /\ q.outcome \in Replies /\ q.stage = "unwind"
      BY <2>1, <2>4 DEF Steps, PathOK, CountsOK, RequestStates, Stages, LocalOutcomes, Replies
    <3>5. req'[r] \in RequestStates
      BY <2>1, <3>1, <3>2 DEF RequestStates
    <3>6. PathOK(req'[r])
      BY <2>1, <3>1, <3>2 DEF PathOK, RequestStates, Before
    <3>7. CountsOK(req'[r])
      BY <2>1, <3>1, <3>2 DEF CountsOK, RequestStates
    <3>8. AnswersOK(req'[r])
      BY <2>1, <3>1, <3>2 DEF AnswersOK, RequestStates, Before
    <3>9. HeldIn(req'[r], ids)
      BY <1>a, <2>1, <3>1, <3>2 DEF HeldIn, HasSession, RequestStates, Before
    <3>10. CaptureOK(req'[r])
      BY <1>a, <2>1, <3>1, <3>2 DEF CaptureOK, RequestStates, Before
    <3>11. StaysSettled(q, req'[r])
      BY <2>1, <3>1, <3>2 DEF StaysSettled, Settled, RequestStates, Before
    <3> QED BY <3>5, <3>6, <3>7, <3>8, <3>9, <3>10, <3>11 DEF LocalInv, RequestInv
  <2> QED BY <2>2, <2>3, <2>4
<1>16. CASE HandlerCapture(r)
  <2>1. PICK captured \in Attributions :
           /\ q.context # NoAttribution => captured = q.context
           /\ req'[r] = [q EXCEPT !.sent = @ \cup {"custom"}, !.captured = captured]
    <3>1. PICK s \in GeneratedIds :
             req'[r] = [q EXCEPT !.sent = @ \cup {"custom"},
                                 !.captured = IF q.context = NoAttribution
                                              THEN [session |-> s, identity |-> NoIdentity]
                                              ELSE q.context]
      BY <1>16 DEF HandlerCapture, Goto
    <3>2. q.context \in Attributions /\ [session |-> s, identity |-> NoIdentity] \in Attributions
      BY <1>a DEF Attributions, SessionIds, RequestInv, RequestStates
    <3> QED BY <3>1, <3>2
  <2>2. q.pc = "handler"
    BY <1>16 DEF HandlerCapture, At
  <2>3. q.sent \cup {"custom"} \in SUBSET Events
    BY <1>a DEF Events, RequestInv, RequestStates
  <2>4. /\ q.stage = "prepare" \/ q.stage = "bare"
        /\ "custom" \in req'[r].sent /\ req'[r].stage = q.stage /\ req'[r].pc = q.pc
    BY <1>a, <2>1, <2>2 DEF RequestInv, RequestStates, PathOK, Stages, Before
  <2>5. req'[r] \in RequestStates
    BY <1>a, <2>1, <2>3 DEF RequestInv, RequestStates
  <2>6. PathOK(req'[r])
    BY <1>a, <2>1, <2>2 DEF PathOK, RequestInv, RequestStates, Before
  <2>7. CountsOK(req'[r])
    BY <1>a, <2>1, <2>2 DEF CountsOK, PathOK, RequestInv, RequestStates, Before
  <2>8. AnswersOK(req'[r])
    BY <1>a, <2>1, <2>2 DEF AnswersOK, PathOK, RequestInv, RequestStates, Before
  <2>9. HeldIn(req'[r], ids)
    BY <1>a, <2>1, <2>2 DEF HeldIn, HasSession, PathOK, RequestInv, RequestStates, Before
  <2>10. CaptureOK(req'[r])
    BY <1>a, <2>1, <2>2, <2>4 DEF CaptureOK, PathOK, CountsOK, RequestInv, RequestStates, Before
  <2>11. StaysSettled(q, req'[r])
    BY <1>a, <2>1, <2>2 DEF StaysSettled, Settled, PathOK, RequestInv, RequestStates, Before
  <2> QED BY <2>5, <2>6, <2>7, <2>8, <2>9, <2>10, <2>11 DEF LocalInv, RequestInv
<1>17. CASE BareReturn(r)
  <2>1. PICK outcome \in OutcomesOf(q.kind) :
           req'[r] = [q EXCEPT !.pc = "done", !.outcome = outcome, !.reply = outcome,
                               !.raised = IF outcome = "panic" THEN "handler" ELSE @]
    BY <1>17 DEF BareReturn, Goto
  <2>2. q.pc = "handler" /\ q.stage = "bare"
    BY <1>17 DEF BareReturn, At
  <2>3. outcome \in LocalOutcomes /\ outcome \in Replies /\ "done" \in Steps /\ "handler" \in Raisers
    BY <2>1 DEF OutcomesOf, Outcomes, LocalOutcomes, Replies, Steps, Raisers
  <2>5. req'[r] \in RequestStates
    BY ZenonT(60), <1>a, <2>1, <2>3 DEF RequestInv, RequestStates
  <2>6. PathOK(req'[r])
    BY <1>a, <2>1, <2>2 DEF PathOK, RequestInv, RequestStates, Before
  <2>7. CountsOK(req'[r])
    BY <1>a, <2>1, <2>2 DEF CountsOK, PathOK, RequestInv, RequestStates, Before
  <2>8. AnswersOK(req'[r])
    BY <1>a, <2>1, <2>2 DEF AnswersOK, PathOK, RequestInv, RequestStates, Before
  <2>9. HeldIn(req'[r], ids)
    BY <1>a, <2>1, <2>2 DEF HeldIn, HasSession, PathOK, RequestInv, RequestStates, Before
  <2>10. CaptureOK(req'[r])
    BY <1>a, <2>1, <2>2 DEF CaptureOK, PathOK, CountsOK, RequestInv, RequestStates, Before
  <2>11. StaysSettled(q, req'[r])
    BY <1>a, <2>1, <2>2 DEF StaysSettled, Settled, PathOK, RequestInv, RequestStates, Before
  <2> QED BY <2>5, <2>6, <2>7, <2>8, <2>9, <2>10, <2>11 DEF LocalInv, RequestInv
<1>18. CASE HandlerPanics(r)
  <2>1. PICK pc \in {"lookup", "emit"} :
           /\ pc = "lookup" <=> q.kind = "probe"
           /\ req'[r] = [q EXCEPT !.outcome = "panic", !.raised = "handler",
                                  !.stage = "unwind", !.pc = pc]
    BY <1>18 DEF HandlerPanics, Goto, IsProbe
  <2>2. q.pc = "handler" /\ q.stage = "prepare"
    BY <1>18 DEF HandlerPanics, At
  <2>3. /\ "panic" \in LocalOutcomes /\ "handler" \in Raisers /\ "unwind" \in Stages
        /\ pc \in Steps
    BY DEF Outcomes, LocalOutcomes, Steps, Stages, Raisers
  <2>5. req'[r] \in RequestStates
    BY ZenonT(60), <1>a, <2>1, <2>3 DEF RequestInv, RequestStates
  <2>6. PathOK(req'[r])
    BY <1>a, <2>1, <2>2 DEF PathOK, RequestInv, RequestStates, Before
  <2>7. CountsOK(req'[r])
    BY <1>a, <2>1, <2>2 DEF CountsOK, PathOK, RequestInv, RequestStates, Before
  <2>8. AnswersOK(req'[r])
    BY <1>a, <2>1, <2>2 DEF AnswersOK, PathOK, RequestInv, RequestStates, Before
  <2>9. HeldIn(req'[r], ids)
    BY <1>a, <2>1, <2>2 DEF HeldIn, HasSession, PathOK, RequestInv, RequestStates, Before
  <2>10. CaptureOK(req'[r])
    BY <1>a, <2>1, <2>2 DEF CaptureOK, PathOK, CountsOK, RequestInv, RequestStates, Before
  <2>11. StaysSettled(q, req'[r])
    BY <1>a, <2>1, <2>2 DEF StaysSettled, Settled, PathOK, RequestInv, RequestStates, Before
  <2> QED BY <2>5, <2>6, <2>7, <2>8, <2>9, <2>10, <2>11 DEF LocalInv, RequestInv
<1>19. CASE HandlerReturns(r)
  <2>1. PICK outcome \in OutcomesOf(q.kind) \ {"panic"}, missing \in BOOLEAN,
             pc \in {"session", "lookup", "finish"} :
           /\ missing <=> q.kind = "probe" /\ outcome = "unknown"
           /\ pc \in Before => q.kind = "probe"
           /\ req'[r] = [q EXCEPT !.outcome = outcome, !.missing = missing,
                                  !.stage = "finish", !.pc = pc]
    BY <1>19 DEF HandlerReturns, Goto, IsProbe, Before
  <2>2. q.pc = "handler" /\ q.stage = "prepare"
    BY <1>19 DEF HandlerReturns, At
  <2>3. outcome \in LocalOutcomes /\ "finish" \in Stages /\ pc \in Steps
    BY <2>1 DEF OutcomesOf, Outcomes, LocalOutcomes, Stages, Steps
  <2>5. req'[r] \in RequestStates
    BY ZenonT(60), <1>a, <2>1, <2>3 DEF RequestInv, RequestStates
  <2>6. PathOK(req'[r])
    BY <1>a, <2>1, <2>2 DEF PathOK, RequestInv, RequestStates, Before
  <2>7. CountsOK(req'[r])
    BY <1>a, <2>1, <2>2 DEF CountsOK, PathOK, RequestInv, RequestStates, Before
  <2>8. AnswersOK(req'[r])
    BY <1>a, <2>1, <2>2 DEF AnswersOK, PathOK, RequestInv, RequestStates, Before
  <2>9. HeldIn(req'[r], ids)
    BY <1>a, <2>1, <2>2 DEF HeldIn, HasSession, PathOK, RequestInv, RequestStates, Before
  <2>10. CaptureOK(req'[r])
    BY <1>a, <2>1, <2>2 DEF CaptureOK, PathOK, CountsOK, RequestInv, RequestStates, Before
  <2>11. StaysSettled(q, req'[r])
    BY <1>a, <2>1, <2>2 DEF StaysSettled, Settled, PathOK, RequestInv, RequestStates, Before
  <2> QED BY <2>5, <2>6, <2>7, <2>8, <2>9, <2>10, <2>11 DEF LocalInv, RequestInv
<1> QED BY <1>1, <1>2, <1>3, <1>4, <1>5, <1>6, <1>7, <1>8, <1>9, <1>10, <1>11, <1>12, <1>13, <1>14, <1>15, <1>16, <1>17, <1>18, <1>19 DEF WrapperStep, HandlerStep

-----------------------------------------------------------------------------
(***************************************************************************)
(* The requests and the store they share.                                  *)
(***************************************************************************)
\* A step of request r, of the wrapper or of a handler.
StepOf(r) == Begin(r) \/ BeginOther(r) \/ WrapperStep(r) \/ HandlerStep(r)

MiddlewareInv ==
    /\ StoreInv
    /\ fallbackSession \in issued
    /\ req \in [Requests -> RequestStates]
    /\ lastIdentify \in [SessionIds -> Identities \cup {NoIdentity}]
    /\ \A r \in Requests : LocalInv(req[r], HeldIds)

\* A step of a request is a step of no other.
LEMMA OneRequest ==
    ASSUME NEW r \in Requests, req \in [Requests -> RequestStates], StepOf(r)
    PROVE  /\ DOMAIN req' = Requests
           /\ \A p \in Requests \ {r} : req'[p] = req[p]
<1>1. \E state : Goto(r, state)
  BY DEF StepOf, WrapperStep, HandlerStep, Begin, BeginOther, ResolveSession, Stamp,
         Lookup, IdentifyNobody, Update, UpdatePanics, CallDownstream, Finish,
         FinishInitialize, FinishPanics, EmitIdentify, Report, Recover, NextLayer,
         HandlerCapture, BareReturn, HandlerPanics, HandlerReturns
<1> QED BY <1>1 DEF Goto

\* An id that may be held may be held ever after.
LEMMA HeldIdsGrow == ASSUME [StoreNext]_storeVars PROVE HeldIds \subseteq HeldIds'
BY DEF StoreNext, storeVars, HeldIds, Tick, GeneratedFallback, KeepFallbackSession,
       RollFallbackSession, ConnectionSession, ReuseConnectionSession,
       MintConnectionSession, IdentityForSession, StampStoredAttribution, ReadSession,
       ReadAbsentSession, UpdateIdentity, UpdateIdentityPanics, RememberInitialize,
       WriteSession

\* What resolveAttribution picks is an id of a conversation or of a protocol
\* session, or one that has been issued.
LEMMA SessionOfHeld ==
    ASSUME MiddlewareInv, NEW r \in Requests, NEW s, SessionOf(r, s)
    PROVE  s \in HeldIds'
<1>1. req[r] \in RequestStates
  BY DEF MiddlewareInv
<1>2. CASE s \in DerivedIds
  BY <1>2 DEF HeldIds
<1>3. ASSUME NEW c \in Connections, ConnectionSession(c, s)
      PROVE  s \in HeldIds'
  BY <1>3 DEF ConnectionSession, ReuseConnectionSession, MintConnectionSession, IsLive,
              HeldIds, MiddlewareInv, StoreInv
<1>4. CASE GeneratedFallback(s)
  BY <1>4 DEF GeneratedFallback, KeepFallbackSession, RollFallbackSession, HeldIds,
              MiddlewareInv
<1>5. UsesConversation(r) => req[r].conversation \in DerivedIds
  BY <1>1 DEF UsesConversation, RequestStates
<1> QED BY <1>2, <1>3, <1>4, <1>5 DEF SessionOf

\* A step of a request is a critical section of a.mu on a session it may hold, or
\* leaves the store alone.
LEMMA StepUsesStore ==
    ASSUME MiddlewareInv, NEW r \in Requests, StepOf(r)
    PROVE  [StoreNext]_storeVars
<1>1. /\ RequestInv(req[r])
      /\ HasSession(req[r]) => Session(r) \in HeldIds
  BY DEF MiddlewareInv, LocalInv, HeldIn, Session
<1>2. CASE ResolveSession(r)
  <2>1. PICK s \in SessionIds : SessionOf(r, s)
    BY <1>2 DEF ResolveSession
  <2>2. ASSUME NEW c \in Connections, ConnectionSession(c, s)
        PROVE  StoreNext
    <3>1. s \in GeneratedIds
      BY <2>2 DEF ConnectionSession, ReuseConnectionSession, MintConnectionSession, IsLive,
                  Fresh, MiddlewareInv, StoreInv, Consistent, WellTyped
    <3> QED BY <2>2, <3>1 DEF StoreNext
  <2>3. ASSUME GeneratedFallback(s) PROVE StoreNext
    <3>1. s \in GeneratedIds
      BY <2>3 DEF GeneratedFallback, KeepFallbackSession, RollFallbackSession, Fresh,
                  MiddlewareInv, StoreInv
    <3> QED BY <2>3, <3>1 DEF StoreNext
  <2> QED BY <2>1, <2>2, <2>3 DEF SessionOf
<1>3. CASE Stamp(r)
  BY <1>1, <1>3 DEF Stamp, At, HasSession, StoreNext
<1>4. CASE Lookup(r)
  BY <1>1, <1>4 DEF Lookup, At, HasSession, StoreNext
<1>5. CASE Update(r)
  <2>1. PICK answer \in Answers : UpdateIdentity(Session(r), answer)
    BY <1>5 DEF Update
  <2> QED BY <1>1, <1>5, <2>1, MiddlewareAssumption DEF Update, At, HasSession, StoreNext
<1>6. CASE UpdatePanics(r)
  <2>1. PICK answer \in Answers : UpdateIdentityPanics(Session(r), answer)
    BY <1>6 DEF UpdatePanics
  <2> QED BY <1>1, <1>6, <2>1, MiddlewareAssumption DEF UpdatePanics, At, HasSession, StoreNext
<1>7. CASE FinishInitialize(r)
  BY <1>1, <1>7 DEF FinishInitialize, At, HasSession, StoreNext
<1>8. CASE HandlerCapture(r)
  BY <1>8 DEF HandlerCapture, StoreNext
<1>9. CASE UNCHANGED storeVars
  BY <1>9
<1> QED BY <1>2, <1>3, <1>4, <1>5, <1>6, <1>7, <1>8, <1>9
        DEF StepOf, WrapperStep, HandlerStep, Begin, BeginOther, IdentifyNobody,
            CallDownstream, Finish, FinishPanics, EmitIdentify, Report, Recover,
            BareReturn, HandlerPanics, HandlerReturns

\* The clock is a critical section of its own.
LEMMA NextUsesStore ==
    ASSUME MiddlewareInv, [Next]_vars PROVE [StoreNext]_storeVars
<1>1. CASE Pass
  BY <1>1 DEF Pass, StoreNext
<1>2. ASSUME NEW r \in Requests, StepOf(r) PROVE [StoreNext]_storeVars
  BY <1>2, StepUsesStore
<1>3. CASE UNCHANGED vars
  BY <1>3 DEF vars, storeVars
<1> QED BY <1>1, <1>2, <1>3 DEF Next, StepOf

\* Only generatedSessionID without a connection changes the fallback session.
LEMMA OthersKeepFallback ==
    ASSUME [StoreNext]_storeVars, ~ \E s \in GeneratedIds : RollFallbackSession(s)
    PROVE  fallbackSession' = fallbackSession
BY DEF StoreNext, storeVars, Tick, GeneratedFallback, KeepFallbackSession,
       ConnectionSession, ReuseConnectionSession, MintConnectionSession,
       IdentityForSession, StampStoredAttribution, ReadSession, ReadAbsentSession,
       UpdateIdentity, UpdateIdentityPanics, RememberInitialize, WriteSession

\* The fallback session has always been issued.
LEMMA FallbackIssued ==
    ASSUME StoreInv, StoreInv', [StoreNext]_storeVars, fallbackSession \in issued
    PROVE  fallbackSession' \in issued'
<1>1. CASE \E s \in GeneratedIds : RollFallbackSession(s)
  BY <1>1 DEF RollFallbackSession
<1>2. CASE ~ \E s \in GeneratedIds : RollFallbackSession(s)
  <2>1. fallbackSession' = fallbackSession /\ HeldIds \subseteq HeldIds'
    BY <1>2, OthersKeepFallback, HeldIdsGrow
  <2> QED BY <2>1, StoreAssumption DEF HeldIds, StoreInv
<1> QED BY <1>1, <1>2

\* What a request has been promised of ids holds of more of them.
LEMMA LocalInvGrows ==
    ASSUME NEW q, NEW ids, NEW more, ids \subseteq more, LocalInv(q, ids)
    PROVE  LocalInv(q, more)
BY DEF LocalInv, HeldIn

\* No request has been seen at the start.
LEMMA MiddlewareInitInv == Init => MiddlewareInv
<1> SUFFICES ASSUME Init PROVE MiddlewareInv
  OBVIOUS
<1>1. StoreInv /\ fallbackSession \in issued
  BY StoreInitInv DEF Init, StoreInit
<1>2. LocalInv(IdleRequest, HeldIds)
  BY IdleType DEF LocalInv, HeldIn, HasSession, CaptureOK, IdleRequest, NoAttribution
<1>3. /\ req \in [Requests -> RequestStates]
      /\ lastIdentify \in [SessionIds -> Identities \cup {NoIdentity}]
      /\ \A r \in Requests : req[r] = IdleRequest
  BY IdleType DEF Init
<1> QED BY <1>1, <1>2, <1>3 DEF MiddlewareInv

\* What a request is attributed to has the type of an attribution.
LEMMA AttributionType ==
    ASSUME MiddlewareInv, NEW r \in Requests
    PROVE  /\ req[r] \in RequestStates
           /\ Session(r) \in SessionIds \cup {NoSession}
           /\ req[r].attribution.identity \in Identities \cup {NoIdentity}
           /\ req[r].answer \in Identities \cup {NoIdentity}
BY DEF MiddlewareInv, RequestStates, Attributions, Session

\* Every step preserves the invariant.
LEMMA MiddlewareStepInv == MiddlewareInv /\ [Next]_vars => MiddlewareInv'
<1> SUFFICES ASSUME MiddlewareInv, [Next]_vars PROVE MiddlewareInv'
  OBVIOUS
<1>1. [StoreNext]_storeVars
  BY NextUsesStore
<1>a. StoreInv'
  BY <1>1, StoreStepInv DEF MiddlewareInv
<1>2. StoreInv' /\ fallbackSession' \in issued' /\ HeldIds \subseteq HeldIds'
  BY <1>1, <1>a, FallbackIssued, HeldIdsGrow DEF MiddlewareInv
<1>3. HeldIds' \in SUBSET SessionIds
  BY <1>2 DEF StoreInv, HeldIds, SessionIds
<1>4. \A r \in Requests : LocalInv(req[r], HeldIds')
  BY <1>2, LocalInvGrows DEF MiddlewareInv
<1>5. ASSUME NEW r \in Requests, StepOf(r) PROVE MiddlewareInv'
  <2>1. LocalInv(req'[r], HeldIds')
    <3>1. \A s : SessionOf(r, s) => s \in HeldIds'
      BY SessionOfHeld
    <3> QED BY <1>3, <1>4, <1>5, <3>1, RequestStepInv DEF MiddlewareInv, StepOf
  <2>2. /\ DOMAIN req' = Requests
        /\ \A p \in Requests \ {r} : req'[p] = req[p]
    BY <1>5, OneRequest DEF MiddlewareInv
  <2>3. \A p \in Requests : LocalInv(req'[p], HeldIds')
    BY <1>4, <2>1, <2>2
  <2>4. req' \in [Requests -> RequestStates]
    <3>1. \A p \in Requests : req'[p] \in RequestStates
      BY <2>3 DEF LocalInv, RequestInv
    <3>2. req' = [p \in Requests |-> req'[p]]
      BY <1>5 DEF StepOf, WrapperStep, HandlerStep, Begin, BeginOther, ResolveSession,
             Stamp, Lookup, IdentifyNobody, Update, UpdatePanics, CallDownstream, Finish,
             FinishInitialize, FinishPanics, EmitIdentify, Report, Recover, NextLayer,
             HandlerCapture, BareReturn, HandlerPanics, HandlerReturns, Goto, MiddlewareInv
    <3> QED BY <3>1, <3>2
  <2>5. lastIdentify' \in [SessionIds -> Identities \cup {NoIdentity}]
    BY <1>5, AttributionType
       DEF MiddlewareInv, StepOf, WrapperStep, HandlerStep, Begin, BeginOther,
           ResolveSession, Stamp, Lookup, IdentifyNobody, Update, UpdatePanics,
           CallDownstream, Finish, FinishInitialize, FinishPanics, EmitIdentify, Report,
           Recover, HandlerCapture, BareReturn, HandlerPanics, HandlerReturns
  <2> QED BY <1>2, <2>3, <2>4, <2>5 DEF MiddlewareInv
<1>6. CASE Pass \/ UNCHANGED vars
  BY <1>2, <1>4, <1>6 DEF Pass, vars, MiddlewareInv
<1> QED BY <1>5, <1>6 DEF Next, StepOf

\* The invariant holds in every reachable state.
THEOREM MiddlewareInvariant == Spec => []MiddlewareInv
BY MiddlewareInitInv, MiddlewareStepInv, PTL DEF Spec

\* The wrapper is the store, used: each of its steps is one critical section of a.mu on
\* an id that exists, or none.
THEOREM WrapperUsesStoreProperly == Spec => ImplementsSessionStore
<1>1. Init => StoreInit
  BY DEF Init
<1>2. MiddlewareInv /\ [Next]_vars => [StoreNext]_storeVars
  BY NextUsesStore
<1> QED BY <1>1, <1>2, MiddlewareInvariant, PTL DEF Spec, StoreSpec, ImplementsSessionStore

\* The state of the wrapper keeps its types.
THEOREM MiddlewareTypes == Spec => []MiddlewareTypeOK
<1>1. MiddlewareInv => MiddlewareTypeOK
  BY DEF MiddlewareInv, MiddlewareTypeOK, StoreInv, Consistent, WellTyped, StoreTypeOK
<1> QED BY <1>1, MiddlewareInvariant, PTL

\* Whatever panics, wherever and in how many layers: downstream is called once.
THEOREM DownstreamIsCalledOnce == Spec => []DownstreamOnce
<1>1. MiddlewareInv => DownstreamOnce
  BY DEF MiddlewareInv, LocalInv, RequestInv, CountsOK, PathOK, DownstreamOnce, Done, Before
<1> QED BY <1>1, MiddlewareInvariant, PTL

\* A request is reported once, however many layers instrument it, and escapes only by
\* a panic of every layer's preparation or of a probe's identification.
THEOREM RequestsAreReportedOnce == Spec => []ReportedOnce
<1>1. MiddlewareInv => ReportedOnce
  <2> SUFFICES ASSUME MiddlewareInv, NEW r \in Requests
               PROVE  /\ req[r].reports <= 1
                      /\ Done(r) /\ req[r].kind # "other" =>
                            \/ req[r].reports = 1
                            \/ req[r].stage = "bare" /\ req[r].layer = Layers
                            \/ req[r].stage = "unwind" /\ IsProbe(r)
    BY DEF ReportedOnce
  <2>1. PathOK(req[r]) /\ CountsOK(req[r])
    BY DEF MiddlewareInv, LocalInv, RequestInv
  <2> QED BY <2>1 DEF PathOK, CountsOK, Done, IsProbe, Before
<1> QED BY <1>1, MiddlewareInvariant, PTL

\* The caller gets what downstream answered, but for the unknown tool that becomes the
\* virtual one.
THEOREM RepliesAreDownstreams == Spec => []ReplyIsDownstreams
<1>1. MiddlewareInv => ReplyIsDownstreams
  BY DEF MiddlewareInv, LocalInv, RequestInv, AnswersOK, ReplyIsDownstreams, Done
<1> QED BY <1>1, MiddlewareInvariant, PTL

\* A change of a stored identity is announced before its request is answered.
THEOREM ChangesAreAnnounced == Spec => []ChangesAnnounced
<1>1. MiddlewareInv => ChangesAnnounced
  BY DEF MiddlewareInv, LocalInv, RequestInv, AnswersOK, ChangesAnnounced, Done
<1> QED BY <1>1, MiddlewareInvariant, PTL

\* A handler's own event carries the attribution of the request it serves.
THEOREM CapturesInherit == Spec => []CaptureInheritsAttribution
<1>1. MiddlewareInv => CaptureInheritsAttribution
  <2> SUFFICES ASSUME MiddlewareInv, NEW r \in Requests, Done(r), ~IsProbe(r),
                      {"custom", "main"} \subseteq req[r].sent
               PROVE  req[r].captured = req[r].attribution
    BY DEF CaptureInheritsAttribution
  <2>1. CountsOK(req[r]) /\ CaptureOK(req[r])
    BY DEF MiddlewareInv, LocalInv, RequestInv
  <2> QED BY <2>1 DEF CountsOK, CaptureOK, IsProbe
<1> QED BY <1>1, MiddlewareInvariant, PTL

-----------------------------------------------------------------------------
(***************************************************************************)
(* Identities do not cross sessions.                                       *)
(***************************************************************************)
\* Id was answered for a request of session s, by an answer that stays.
SettledOn(local, s, id) ==
    \E q \in Requests : /\ Settled(local[q])
                        /\ local[q].attribution.session = s
                        /\ local[q].answer.distinctID = id

\* Every identity in use has been settled on, by a request of its session.  An answer
\* that does not stay, of a preparation that panics, is never stored or attributed.
Isolated ==
    /\ \A r \in Requests :
          req[r].attribution.identity # NoIdentity =>
             SettledOn(req, Session(r), req[r].attribution.identity.distinctID)
    /\ \A s \in DOMAIN sessions :
          sessions[s].identity # NoIdentity =>
             SettledOn(req, s, sessions[s].identity.distinctID)

\* The identity a session is left with is the one it had, none if it is new.
IdentityKept(s) == sessions'[s].identity = StateOf(sessions, s).identity

\* What a write does to the identities: that of the session written is the one
\* given, the others keep theirs.
LEMMA WriteIdentities ==
    ASSUME StoreInv, NEW s \in HeldIds, NEW state \in SessionStates, WriteSession(s, state)
    PROVE  /\ \A t \in DOMAIN sessions' \ {s} : IdentityKept(t)
           /\ sessions'[s].identity = state.identity
<1>1. PICK victim : TouchSession(sessions, s, state, victim)
  BY DEF WriteSession
<1>2. /\ DOMAIN sessions' = (DOMAIN sessions \ {victim}) \cup {s}
      /\ \A t \in DOMAIN sessions' \ {s} : sessions'[t] = sessions[t]
      /\ sessions'[s].identity = state.identity
  BY <1>1 DEF TouchSession, Put, Delete, Restrict, SessionStates
<1> QED BY <1>2 DEF IdentityKept, StateOf

\* A touch keeps every identity, when it writes back the identity it found.
LEMMA TouchIdentities ==
    ASSUME StoreInv, NEW s \in DOMAIN sessions, NEW state \in SessionStates,
           state.identity = sessions[s].identity, TouchPresent(s, state)
    PROVE  \A t \in DOMAIN sessions' : IdentityKept(t)
BY DEF TouchPresent, IdentityKept, StateOf, SessionStates

\* A session that is minted starts without an identity.
LEMMA MintIdentities ==
    ASSUME StoreInv, NEW c \in Connections, NEW s, MintConnectionSession(c, s)
    PROVE  \A t \in DOMAIN sessions' : IdentityKept(t)
<1> DEFINE kept == IF c \in DOMAIN generated THEN Delete(sessions, generated[c])
                                             ELSE sessions
           state == [StateOf(kept, s) EXCEPT !.connection = c, !.lastActivity = clock]
<1>1. PICK victim : TouchSession(kept, s, state, victim)
  BY DEF MintConnectionSession
<1>2. /\ DOMAIN kept \subseteq DOMAIN sessions
      /\ \A t \in DOMAIN kept : kept[t] = sessions[t]
  BY DEF Delete, Restrict
<1>3. s \notin DOMAIN sessions
  BY StoreAssumption DEF MintConnectionSession, Fresh, StoreInv, HeldIds
<1>4. StateOf(kept, s) = NewState
  BY <1>2, <1>3 DEF StateOf
<1>a. NewState \in SessionStates /\ NewState.identity = NoIdentity
  BY DEF NewState, SessionStates
<1>b. state \in SessionStates /\ state.identity = NoIdentity
  BY <1>4, <1>a DEF SessionStates, StoreInv
<1> HIDE DEF kept, state
<1>5. /\ DOMAIN sessions' \subseteq DOMAIN kept \cup {s}
      /\ \A t \in DOMAIN sessions' \ {s} : sessions'[t] = kept[t]
      /\ sessions'[s].identity = NoIdentity
  BY <1>1, <1>b DEF TouchSession, Put, Delete, Restrict, SessionStates
<1> QED BY <1>2, <1>3, <1>5 DEF IdentityKept, StateOf, NewState

\* Only an answer of Identify changes what a session knows.
LEMMA OthersKeepIdentities ==
    ASSUME MiddlewareInv, NEW r \in Requests, StepOf(r), ~Update(r)
    PROVE  \A t \in DOMAIN sessions' : IdentityKept(t)
<1>1. ASSUME NEW s, StampStoredAttribution(s)
      PROVE  \A t \in DOMAIN sessions' : IdentityKept(t)
  <2>1. CASE s \in DOMAIN sessions
    <3>1. sessions[s] \in SessionStates /\ TouchPresent(s, sessions[s])
      BY <1>1, <2>1 DEF StampStoredAttribution, ReadSession, ReadAbsentSession,
                        MiddlewareInv, StoreInv, Consistent, WellTyped
    <3> QED BY <2>1, <3>1, TouchIdentities DEF MiddlewareInv
  <2>2. CASE s \notin DOMAIN sessions
    BY <1>1, <2>2 DEF StampStoredAttribution, ReadSession, ReadAbsentSession, storeVars,
                      IdentityKept, StateOf
  <2> QED BY <2>1, <2>2
<1>2. ASSUME NEW s \in HeldIds, NEW state \in SessionStates,
             state.identity = StateOf(sessions, s).identity, WriteSession(s, state)
      PROVE  \A t \in DOMAIN sessions' : IdentityKept(t)
  BY <1>2, WriteIdentities DEF MiddlewareInv, IdentityKept, StateOf, NewState
<1>3. HasSession(req[r]) => Session(r) \in HeldIds
  BY DEF MiddlewareInv, LocalInv, HeldIn, Session
<1>4. CASE sessions' = sessions
  BY <1>4 DEF IdentityKept, StateOf
<1>5. CASE ResolveSession(r)
  <2>1. PICK s \in SessionIds : SessionOf(r, s)
    BY <1>5 DEF ResolveSession
  <2>2. ASSUME NEW c \in Connections, ReuseConnectionSession(c, s)
        PROVE  \A t \in DOMAIN sessions' : IdentityKept(t)
    <3> DEFINE state == [sessions[s] EXCEPT !.lastActivity = clock]
    <3>1. /\ s \in DOMAIN sessions /\ TouchPresent(s, state)
          /\ state \in SessionStates /\ state.identity = sessions[s].identity
      BY <2>2 DEF ReuseConnectionSession, IsLive, SessionStates, MiddlewareInv, StoreInv,
                  Consistent, WellTyped
    <3> HIDE DEF state
    <3> QED BY <3>1, TouchIdentities DEF MiddlewareInv
  <2>3. CASE sessions' = sessions
    BY <2>3 DEF IdentityKept, StateOf
  <2> QED BY <2>1, <2>2, <2>3, MintIdentities
          DEF SessionOf, ConnectionSession, GeneratedFallback, KeepFallbackSession,
              RollFallbackSession, storeVars, MiddlewareInv
<1>6. CASE Stamp(r) \/ Lookup(r)
  BY <1>1, <1>6 DEF Stamp, Lookup, IdentityForSession, StampStoredAttribution
<1>7. CASE UpdatePanics(r)
  <2>1. WriteSession(Session(r), StateOf(sessions, Session(r)))
    BY <1>7 DEF UpdatePanics, UpdateIdentityPanics
  <2>2. Session(r) \in HeldIds
    BY <1>3, <1>7 DEF UpdatePanics, At, HasSession
  <2> QED BY <1>2, <2>1, <2>2, StateOfType DEF MiddlewareInv
<1>8. CASE FinishInitialize(r)
  <2>1. PICK server \in Servers \cup {NoServer} : RememberInitialize(Session(r), server)
    BY <1>8 DEF FinishInitialize
  <2> DEFINE state == [StateOf(sessions, Session(r)) EXCEPT !.server = server]
  <2>2. state \in SessionStates /\ state.identity = StateOf(sessions, Session(r)).identity
    BY StateOfType DEF MiddlewareInv, SessionStates
  <2>3. WriteSession(Session(r), state)
    BY <2>1 DEF RememberInitialize
  <2>4. Session(r) \in HeldIds
    BY <1>3, <1>8 DEF FinishInitialize, At, HasSession
  <2> HIDE DEF state
  <2> QED BY <1>2, <2>2, <2>3, <2>4
<1> QED BY <1>4, <1>5, <1>6, <1>7, <1>8
        DEF StepOf, WrapperStep, HandlerStep, Begin, BeginOther, IdentifyNobody,
            CallDownstream, Finish, FinishPanics, EmitIdentify, Report, Recover,
            HandlerCapture, GeneratedFallback, KeepFallbackSession, RollFallbackSession,
            BareReturn, HandlerPanics, HandlerReturns, storeVars

\* A step of a request never takes back what was settled.
LEMMA SettledGrows ==
    ASSUME MiddlewareInv, NEW r \in Requests, StepOf(r), NEW s, NEW id,
           SettledOn(req, s, id)
    PROVE  SettledOn(req', s, id)
<1>1. PICK q \in Requests : /\ Settled(req[q])
                            /\ req[q].attribution.session = s
                            /\ req[q].answer.distinctID = id
  BY DEF SettledOn
<1>2. CASE q = r
  <2>1. HeldIds' \in SUBSET SessionIds /\ LocalInv(req[r], HeldIds')
    <3>1. HeldIds \subseteq HeldIds' /\ StoreInv'
      BY StepUsesStore, HeldIdsGrow, StoreStepInv DEF MiddlewareInv
    <3> QED BY <3>1, LocalInvGrows DEF MiddlewareInv, StoreInv, HeldIds, SessionIds
  <2>2. \A t : SessionOf(r, t) => t \in HeldIds'
    BY SessionOfHeld
  <2>3. StaysSettled(req[r], req'[r])
    BY <2>1, <2>2, RequestStepInv DEF MiddlewareInv, StepOf
  <2> QED BY <1>1, <1>2, <2>3 DEF StaysSettled, SettledOn
<1>3. CASE q # r
  BY <1>1, <1>3, OneRequest DEF MiddlewareInv, SettledOn
<1> QED BY <1>2, <1>3

\* A request changes its attribution when it is resolved, looked up or answered, and
\* has none when it arrives and when the next layer takes it over.
LEMMA AttributionKept ==
    ASSUME MiddlewareInv, NEW r \in Requests, StepOf(r),
           ~ResolveSession(r), ~Lookup(r), ~Update(r)
    PROVE  \/ req'[r].attribution = NoAttribution
           \/ /\ req'[r].attribution = req[r].attribution
              /\ req'[r].caller = req[r].caller
<1>1. req[r] \in RequestStates /\ (req[r].pc = "idle" => req[r] = IdleRequest)
  BY DEF MiddlewareInv, LocalInv, RequestInv, PathOK
<1>2. CASE Begin(r)
  <2>1. PICK kind, caller, conversation :
           Goto(r, [req[r] EXCEPT !.pc = "session", !.kind = kind,
                                  !.caller = caller, !.conversation = conversation])
    BY <1>2 DEF Begin
  <2>2. req'[r].attribution = req[r].attribution /\ req[r] = IdleRequest
    BY <1>1, <1>2, <2>1 DEF Begin, At, Goto, MiddlewareInv, RequestStates
  <2> QED BY <2>2 DEF IdleRequest
<1>3. CASE Recover(r)
  <2>1. CASE NextLayer(r)
    BY <2>1 DEF NextLayer, Goto, IdleRequest, MiddlewareInv
  <2>2. CASE ~NextLayer(r)
    BY ZenonT(60), <1>1, <1>3, <2>2 DEF Recover, Goto, RequestStates, MiddlewareInv
  <2> QED BY <2>1, <2>2
<1>4. CASE BeginOther(r) \/ Stamp(r) \/ IdentifyNobody(r) \/ UpdatePanics(r)
  BY ZenonT(60), <1>1, <1>4 DEF BeginOther, Stamp, IdentifyNobody, UpdatePanics, Goto,
                    RequestStates, MiddlewareInv
<1>5. CASE CallDownstream(r) \/ HandlerPanics(r)
  BY ZenonT(60), <1>1, <1>5 DEF CallDownstream, HandlerPanics, Goto, RequestStates, MiddlewareInv
<1>6. CASE BareReturn(r)
  BY <1>1, <1>6 DEF BareReturn, Goto, RequestStates, MiddlewareInv
<1>7. CASE HandlerReturns(r)
  <2>1. PICK outcome, missing, pc :
           Goto(r, [req[r] EXCEPT !.outcome = outcome, !.missing = missing,
                                  !.stage = "finish", !.pc = pc])
    BY <1>7 DEF HandlerReturns
  <2> QED BY <1>1, <2>1 DEF Goto, RequestStates, MiddlewareInv
<1>8. CASE HandlerCapture(r)
  <2>1. PICK captured : Goto(r, [req[r] EXCEPT !.sent = @ \cup {"custom"},
                                               !.captured = captured])
    BY <1>8 DEF HandlerCapture
  <2> QED BY <1>1, <2>1 DEF Goto, RequestStates, MiddlewareInv
<1>9. CASE Finish(r) \/ FinishInitialize(r) \/ FinishPanics(r) \/ EmitIdentify(r)
  BY ZenonT(60), <1>1, <1>9 DEF Finish, FinishInitialize, FinishPanics, EmitIdentify, Goto,
                    RequestStates, MiddlewareInv
<1>10. CASE Report(r)
  BY <1>1, <1>10 DEF Report, Goto, RequestStates, MiddlewareInv
<1> QED BY <1>2, <1>3, <1>4, <1>5, <1>6, <1>7, <1>8, <1>9, <1>10
        DEF StepOf, WrapperStep, HandlerStep

\* A request is attributed an identity by its answer, or takes it from its session.
LEMMA AttributionOf ==
    ASSUME MiddlewareInv, NEW r \in Requests, StepOf(r), ~Update(r),
           req'[r].attribution.identity # NoIdentity
    PROVE  /\ req'[r].attribution.session = Session(r)
           /\ req'[r].attribution.identity \in
                 {req[r].attribution.identity, StateOf(sessions, Session(r)).identity}
<1>1. req[r] \in RequestStates /\ req[r].attribution \in Attributions
  BY DEF MiddlewareInv, RequestStates
<1>2. CASE ResolveSession(r)
  BY <1>1, <1>2 DEF ResolveSession, Goto, MiddlewareInv, RequestStates
<1>3. CASE Lookup(r)
  BY <1>1, <1>3 DEF Lookup, Goto, Session, MiddlewareInv, RequestStates, Attributions
<1> QED BY <1>2, <1>3, AttributionKept DEF NoAttribution, Session

\* An answer is settled on by the step that stores it and attributes it.
LEMMA UpdateSettles ==
    ASSUME MiddlewareInv, NEW r \in Requests, Update(r)
    PROVE  LET s == Session(r)
               n == req'[r]
           IN  /\ Settled(n) /\ n.attribution.session = s
               /\ n.attribution.identity \in Identities
               /\ n.attribution.identity.distinctID = n.answer.distinctID
               /\ sessions'[s].identity = n.attribution.identity
               /\ \A t \in DOMAIN sessions' \ {s} : IdentityKept(t)
<1> DEFINE s == Session(r)
           state == StateOf(sessions, s)
<1>1. PICK answer \in Answers :
         /\ UpdateIdentity(s, answer)
         /\ Goto(r, [req[r] EXCEPT
                        !.pc = AfterIdentity(r),
                        !.answer = answer,
                        !.attribution.identity = MergedIdentity(state.identity, answer),
                        !.publish = Publishes(s, answer),
                        !.changed = @ \/ Publishes(s, answer)])
  BY DEF Update
<1>2. req[r] \in RequestStates /\ req[r].attribution \in Attributions /\ req[r].stage \in Stages
  BY DEF MiddlewareInv, RequestStates
<1>3. /\ req[r].pc = "identify" /\ req[r].stage # "bare"
      /\ s \in HeldIds
  BY DEF Update, At, MiddlewareInv, LocalInv, RequestInv, PathOK, HeldIn, HasSession, Session
<1>4. state \in SessionStates /\ state.identity \in Identities \cup {NoIdentity}
  BY StateOfType DEF MiddlewareInv, SessionStates
<1>5. answer \in Identities
  BY <1>1, SnapshotsType, MiddlewareAssumption
<1>6. /\ MergedIdentity(state.identity, answer) \in Identities
      /\ MergedIdentity(state.identity, answer).distinctID = answer.distinctID
  BY <1>4, <1>5, MergedIdentityType DEF MergedIdentity
<1> DEFINE merged == MergedIdentity(state.identity, answer)
           after == [state EXCEPT !.identity = merged]
<1>7. after \in SessionStates /\ after.identity = merged /\ WriteSession(s, after)
  BY <1>1, <1>4, <1>6 DEF UpdateIdentity, SessionStates
<1>8. AfterIdentity(r) \in {"downstream", "finish", "emit"}
  BY <1>2, <1>3 DEF AfterIdentity, Stages
<1> HIDE DEF merged, after, state, s
<1>9. /\ req'[r].attribution.session = req[r].attribution.session
      /\ req'[r].attribution.identity = merged
      /\ req'[r].answer = answer
      /\ req'[r].pc = AfterIdentity(r)
  BY <1>1, <1>2 DEF Goto, MiddlewareInv, RequestStates, Attributions, merged
<1>10. Settled(req'[r])
  BY <1>5, <1>8, <1>9, IdentityAssumption DEF Settled, Before
<1>11. /\ sessions'[s].identity = merged
       /\ \A t \in DOMAIN sessions' \ {s} : IdentityKept(t)
  BY <1>3, <1>7, WriteIdentities DEF MiddlewareInv
<1> QED BY <1>6, <1>9, <1>10, <1>11 DEF s, Session, merged

\* A step of a request keeps identities where they belong.
LEMMA IsolationStep ==
    ASSUME MiddlewareInv, Isolated, [Next]_vars
    PROVE  Isolated'
<1>1. CASE Pass \/ UNCHANGED vars
  BY <1>1 DEF Pass, Tick, vars, Isolated, Session
<1>2. ASSUME NEW r \in Requests, StepOf(r) PROVE Isolated'
  <2>1. \A s, id : SettledOn(req, s, id) => SettledOn(req', s, id)
    BY <1>2, SettledGrows
  <2>2. \A p \in Requests \ {r} : req'[p] = req[p]
    BY <1>2, OneRequest DEF MiddlewareInv
  <2>3. \A t \in DOMAIN sessions' :
           IdentityKept(t) /\ sessions'[t].identity # NoIdentity =>
              SettledOn(req', t, sessions'[t].identity.distinctID)
    BY <2>1 DEF Isolated, IdentityKept, StateOf, NewState
  <2>4. \A p \in Requests \ {r} :
           req'[p].attribution.identity # NoIdentity =>
              SettledOn(req', req'[p].attribution.session,
                        req'[p].attribution.identity.distinctID)
    BY <2>1, <2>2 DEF Isolated, Session
  <2>5. CASE ~Update(r)
    <3>1. \A t \in DOMAIN sessions' : IdentityKept(t)
      BY <1>2, <2>5, OthersKeepIdentities
    <3>2. req'[r].attribution.identity # NoIdentity =>
             SettledOn(req', req'[r].attribution.session,
                       req'[r].attribution.identity.distinctID)
      <4> SUFFICES ASSUME req'[r].attribution.identity # NoIdentity
                   PROVE  SettledOn(req', req'[r].attribution.session,
                                    req'[r].attribution.identity.distinctID)
        OBVIOUS
      <4>1. /\ req'[r].attribution.session = Session(r)
            /\ \/ req'[r].attribution.identity = req[r].attribution.identity
               \/ req'[r].attribution.identity = StateOf(sessions, Session(r)).identity
        BY <1>2, <2>5, AttributionOf
      <4> QED BY <2>1, <4>1 DEF Isolated, StateOf, NewState
    <3> QED BY <2>3, <2>4, <3>1, <3>2 DEF Isolated, Session
  <2>6. CASE Update(r)
    <3>1. /\ Settled(req'[r]) /\ req'[r].attribution.session = Session(r)
          /\ req'[r].attribution.identity.distinctID = req'[r].answer.distinctID
          /\ sessions'[Session(r)].identity = req'[r].attribution.identity
          /\ \A t \in DOMAIN sessions' \ {Session(r)} : IdentityKept(t)
      BY <2>6, UpdateSettles
    <3>2. SettledOn(req', Session(r), req'[r].answer.distinctID)
      BY <3>1 DEF SettledOn
    <3> QED BY <2>3, <2>4, <3>1, <3>2 DEF Isolated, Session
  <2> QED BY <2>5, <2>6
<1> QED BY <1>1, <1>2 DEF Next, StepOf

\* No request is attributed, and no session remembers, the identity of another
\* session's requests, however requests overlap and sessions come and go.
THEOREM IdentitiesDoNotCross == Spec => []IdentityIsolation
<1>1. Init => Isolated
  BY DEF Init, StoreInit, EmptyMap, Isolated, IdleRequest, NoAttribution
<1>2. MiddlewareInv /\ Isolated /\ [Next]_vars => Isolated'
  BY IsolationStep
<1>3. Isolated => IdentityIsolation
  BY DEF Isolated, IdentityIsolation, SettledOn, Settled, NamedOn, Session
<1> QED BY <1>1, <1>2, <1>3, MiddlewareInvariant, PTL DEF Spec

-----------------------------------------------------------------------------
(***************************************************************************)
(* Generated sessions are not shared.                                      *)
(***************************************************************************)
\* The session of a connection is held by requests of that connection, the fallback
\* session by requests without one, and no id is ever both.
Unshared ==
    /\ \A r \in Requests, c \in DOMAIN generated :
          Session(r) = generated[c] => req[r].caller = c
    /\ \A r \in Requests : Session(r) = fallbackSession => req[r].caller = NoConnection
    /\ \A c \in DOMAIN generated : generated[c] # fallbackSession
    /\ SessionsNotShared

\* A request is resolved to the session of its caller, or to one it brings with it.
LEMMA SessionStep ==
    ASSUME MiddlewareInv, NEW r \in Requests, ResolveSession(r)
    PROVE  /\ req'[r].caller = req[r].caller
           /\ \/ /\ req'[r].attribution.session \in DerivedIds
                 /\ UNCHANGED storeVars
              \/ /\ req[r].caller \in Connections
                 /\ ConnectionSession(req[r].caller, req'[r].attribution.session)
              \/ /\ req[r].caller = NoConnection
                 /\ GeneratedFallback(req'[r].attribution.session)
<1>1. PICK s \in SessionIds :
         /\ SessionOf(r, s)
         /\ Goto(r, [req[r] EXCEPT !.pc = "stamp",
                                   !.attribution = [session |-> s, identity |-> NoIdentity]])
  BY DEF ResolveSession
<1>2. req[r] \in RequestStates
  BY DEF MiddlewareInv
<1>3. req'[r].caller = req[r].caller /\ req'[r].attribution.session = s
  BY <1>1, <1>2 DEF Goto, MiddlewareInv, RequestStates
<1>4. UsesConversation(r) => req[r].conversation \in DerivedIds
  BY <1>2 DEF UsesConversation, RequestStates
<1> QED BY <1>1, <1>3, <1>4 DEF SessionOf

\* Any other step leaves a request with its caller and its session, or without a
\* session.
LEMMA SessionKept ==
    ASSUME MiddlewareInv, NEW r \in Requests, StepOf(r), ~ResolveSession(r)
    PROVE  \/ req'[r].attribution.session = NoSession
           \/ /\ req'[r].attribution.session = Session(r)
              /\ req'[r].caller = req[r].caller
<1>1. req[r] \in RequestStates /\ req[r].attribution \in Attributions
  BY DEF MiddlewareInv, RequestStates
<1>2. CASE Lookup(r)
  BY <1>1, <1>2 DEF Lookup, Goto, Session, MiddlewareInv, RequestStates, Attributions
<1>3. CASE Update(r)
  <2>1. PICK pc, answer, identity, publish, changed :
           Goto(r, [req[r] EXCEPT !.pc = pc, !.answer = answer,
                                  !.attribution.identity = identity,
                                  !.publish = publish, !.changed = changed])
    BY <1>3 DEF Update
  <2> QED BY <1>1, <2>1 DEF Goto, Session, MiddlewareInv, RequestStates, Attributions
<1> QED BY <1>2, <1>3, AttributionKept DEF NoAttribution, Session

\* Steps that hand out no id keep ids unshared: requests keep what they hold, and an
\* entry of a connection is at most forgotten.
LEMMA QuietStep ==
    ASSUME MiddlewareInv, Unshared, [Next]_vars,
           fallbackSession' = fallbackSession,
           \A d \in DOMAIN generated' : d \in DOMAIN generated /\ generated'[d] = generated[d],
           \A p \in Requests :
              \/ req'[p].attribution.session \in DerivedIds \cup {NoSession}
              \/ /\ req'[p].attribution.session = Session(p)
                 /\ req'[p].caller = req[p].caller
    PROVE  Unshared'
<1>1. fallbackSession \in GeneratedIds /\ \A d \in DOMAIN generated : generated[d] \in GeneratedIds
  BY DEF MiddlewareInv, StoreInv, Consistent, WellTyped
<1>2. \A s \in DerivedIds \cup {NoSession} : s \notin GeneratedIds
  BY StoreAssumption DEF SessionIds
<1> QED BY <1>1, <1>2 DEF Unshared, SessionsNotShared, Session

\* Only resolving a session and capturing without one hand out ids.
LEMMA NothingHandedOut ==
    ASSUME NEW r \in Requests, StepOf(r), ~ResolveSession(r), ~HandlerCapture(r)
    PROVE  /\ fallbackSession' = fallbackSession
           /\ \A d \in DOMAIN generated' :
                 d \in DOMAIN generated /\ generated'[d] = generated[d]
<1>1. ASSUME NEW s, NEW state, WriteSession(s, state)
      PROVE  /\ fallbackSession' = fallbackSession
             /\ \A d \in DOMAIN generated' :
                   d \in DOMAIN generated /\ generated'[d] = generated[d]
  BY <1>1 DEF WriteSession, Disowned, Delete, Restrict
<1>2. CASE UNCHANGED <<fallbackSession, generated>>
  BY <1>2
<1> QED BY <1>1, <1>2
        DEF StepOf, WrapperStep, HandlerStep, Begin, BeginOther, Stamp, Lookup,
            IdentifyNobody, Update, UpdatePanics, CallDownstream, Finish, FinishInitialize,
            FinishPanics, EmitIdentify, Report, Recover, BareReturn, HandlerPanics,
            HandlerReturns, storeVars, IdentityForSession, StampStoredAttribution,
            ReadSession, ReadAbsentSession, UpdateIdentity, UpdateIdentityPanics,
            RememberInitialize

\* An id that nobody held before is given to one request and its connection.
LEMMA MintStep ==
    ASSUME MiddlewareInv, Unshared, NEW r \in Requests, StepOf(r), NEW s \in GeneratedIds,
           NEW c \in Connections, MintConnectionSession(c, s),
           req'[r].attribution.session = s, req'[r].caller = c
    PROVE  Unshared'
<1>1. /\ \A p \in Requests : Session(p) # s
      /\ s # fallbackSession
      /\ \A d \in DOMAIN generated : generated[d] # s
  BY StoreAssumption DEF MintConnectionSession, Fresh, MiddlewareInv, LocalInv, HeldIn,
                         HeldIds, SessionIds, StoreInv, Consistent, WellTyped, Paired, Session
<1>2. \A p \in Requests \ {r} : req'[p] = req[p]
  BY OneRequest DEF MiddlewareInv
<1>3. fallbackSession' = fallbackSession
  BY DEF MintConnectionSession
<1>4. \A d \in DOMAIN generated' :
         \/ d = c /\ generated'[d] = s
         \/ d # c /\ d \in DOMAIN generated /\ generated'[d] = generated[d]
  BY MintKeepsOthers
<1>5. NoConnection # c
  BY StoreAssumption
<1> QED BY <1>1, <1>2, <1>3, <1>4, <1>5 DEF Unshared, SessionsNotShared, Session

\* A connection's live session is given to one more of its own requests.
LEMMA ReuseStep ==
    ASSUME MiddlewareInv, Unshared, NEW r \in Requests, StepOf(r), NEW s,
           NEW c \in Connections, ReuseConnectionSession(c, s),
           req'[r].attribution.session = s, req'[r].caller = c
    PROVE  Unshared'
<1>1. c \in DOMAIN generated /\ s = generated[c]
  BY DEF ReuseConnectionSession, IsLive
<1>2. \A p \in Requests \ {r} : req'[p] = req[p]
  BY OneRequest DEF MiddlewareInv
<1>3. fallbackSession' = fallbackSession /\ generated' = generated
  BY DEF ReuseConnectionSession
<1>4. /\ s \in GeneratedIds
      /\ \A d \in DOMAIN generated : generated[d] = s => d = c
  BY <1>1 DEF MiddlewareInv, StoreInv, Consistent, WellTyped, Paired
<1>5. \A p \in Requests : Session(p) = s => req[p].caller = c
  BY <1>1 DEF Unshared
<1> QED BY <1>1, <1>2, <1>3, <1>4, <1>5 DEF Unshared, SessionsNotShared, Session

\* The fallback session is used up to now, or replaced by an id nobody held before,
\* and a request without a connection may be given it.
LEMMA FallbackStep ==
    ASSUME MiddlewareInv, Unshared, NEW r \in Requests, StepOf(r), NEW s,
           GeneratedFallback(s),
           \/ /\ req'[r].attribution.session = s
              /\ req'[r].caller = NoConnection
           \/ /\ req'[r].attribution.session = Session(r)
              /\ req'[r].caller = req[r].caller
    PROVE  Unshared'
<1>1. \A p \in Requests \ {r} : req'[p] = req[p]
  BY OneRequest DEF MiddlewareInv
<1>2. generated' = generated /\ fallbackSession' = s
  BY DEF GeneratedFallback, KeepFallbackSession, RollFallbackSession
<1>3. CASE s = fallbackSession
  BY <1>1, <1>2, <1>3 DEF Unshared, SessionsNotShared, Session
<1>4. CASE s # fallbackSession
  <2>1. /\ \A p \in Requests : Session(p) # s
        /\ \A d \in DOMAIN generated : generated[d] # s
    BY <1>4, StoreAssumption DEF GeneratedFallback, KeepFallbackSession,
       RollFallbackSession, Fresh, MiddlewareInv, LocalInv, HeldIn, HeldIds, SessionIds,
       StoreInv, Consistent, WellTyped, Paired, Session
  <2> QED BY <1>1, <1>2, <2>1 DEF Unshared, SessionsNotShared, Session
<1> QED BY <1>3, <1>4

\* Every step keeps ids unshared.
LEMMA UnsharedStep ==
    ASSUME MiddlewareInv, Unshared, [Next]_vars
    PROVE  Unshared'
<1>1. CASE Pass \/ UNCHANGED vars
  BY <1>1, QuietStep DEF Pass, Tick, vars, Session
<1>2. ASSUME NEW r \in Requests, StepOf(r) PROVE Unshared'
  <2>1. \A p \in Requests \ {r} : req'[p] = req[p]
    BY <1>2, OneRequest DEF MiddlewareInv
  <2>2. CASE ResolveSession(r)
    <3>1. PICK s : /\ s = req'[r].attribution.session
                   /\ req'[r].caller = req[r].caller
                   /\ \/ s \in DerivedIds /\ UNCHANGED storeVars
                      \/ req[r].caller \in Connections /\ ConnectionSession(req[r].caller, s)
                      \/ req[r].caller = NoConnection /\ GeneratedFallback(s)
      BY <2>2, SessionStep
    <3>2. CASE s \in DerivedIds /\ UNCHANGED storeVars
      BY <2>1, <3>1, <3>2, QuietStep DEF storeVars, Session
    <3>3. ASSUME NEW c \in Connections, c = req[r].caller, ConnectionSession(c, s)
          PROVE  Unshared'
      <4>1. CASE ReuseConnectionSession(c, s)
        BY <1>2, <3>1, <3>3, <4>1, ReuseStep
      <4>2. CASE MintConnectionSession(c, s)
        BY <1>2, <3>1, <3>3, <4>2, MintStep DEF MintConnectionSession, Fresh
      <4> QED BY <3>3, <4>1, <4>2 DEF ConnectionSession
    <3>4. CASE req[r].caller = NoConnection /\ GeneratedFallback(s)
      BY <1>2, <3>1, <3>4, FallbackStep
    <3> QED BY <3>1, <3>2, <3>3, <3>4
  <2>3. CASE HandlerCapture(r)
    <3>1. PICK s \in GeneratedIds :
             /\ GeneratedFallback(s)
             /\ \E captured : Goto(r, [req[r] EXCEPT !.sent = @ \cup {"custom"},
                                                   !.captured = captured])
      BY <2>3 DEF HandlerCapture
    <3>2. req'[r].attribution = req[r].attribution /\ req'[r].caller = req[r].caller
      BY <3>1 DEF Goto, MiddlewareInv, RequestStates
    <3> QED BY <1>2, <3>1, <3>2, FallbackStep DEF Session
  <2>4. CASE ~ResolveSession(r) /\ ~HandlerCapture(r)
    <3>1. \A p \in Requests :
             \/ req'[p].attribution.session \in DerivedIds \cup {NoSession}
             \/ /\ req'[p].attribution.session = Session(p)
                /\ req'[p].caller = req[p].caller
      BY <1>2, <2>1, <2>4, SessionKept DEF Session
    <3>2. /\ fallbackSession' = fallbackSession
          /\ \A d \in DOMAIN generated' :
                d \in DOMAIN generated /\ generated'[d] = generated[d]
      BY <1>2, <2>4, NothingHandedOut
    <3> QED BY <3>1, <3>2, QuietStep
  <2> QED BY <2>2, <2>3, <2>4
<1> QED BY <1>1, <1>2 DEF Next, StepOf

\* A generated session serves one connection only, and never doubles as the fallback
\* session, even after it rolled or expired.
THEOREM SessionsAreNotShared == Spec => []SessionsNotShared
<1>1. Init => Unshared
  BY StoreAssumption DEF Init, StoreInit, EmptyMap, Unshared, SessionsNotShared, Session,
     IdleRequest, NoAttribution, SessionIds
<1>2. MiddlewareInv /\ Unshared /\ [Next]_vars => Unshared'
  BY UnsharedStep
<1>3. Unshared => SessionsNotShared
  BY DEF Unshared
<1> QED BY <1>1, <1>2, <1>3, MiddlewareInvariant, PTL DEF Spec

-----------------------------------------------------------------------------
(***************************************************************************)
(* What holds when mergeIdentity does not panic.                           *)
(***************************************************************************)
\* The Identify callback does not return an identity without properties and, another
\* time, one with some: the condition under which mergeIdentity never panics.
AnswersMerge == \A first, second \in Answers : ~MergePanics(first, second)

\* An identity without properties was answered so.
NilIsAnswered ==
    \A s \in DOMAIN sessions :
       sessions[s].identity # NoIdentity /\ sessions[s].identity.properties = Nil =>
          \E answer \in Answers : answer.properties = Nil

\* Without a panic of mergeIdentity, the wrapper fails only after downstream, and an
\* answer of Identify is attributed.
CalmOK(q) ==
    /\ q.pc = "recover" => q.stage = "unwind"
    /\ q.stage = "bare" => q.kind = "other"
    /\ q.kind = "probe" /\ q.outcome = "unknown" => q.missing /\ q.stage = "finish"
    /\ q.missing /\ q.pc = "done" => q.reply = "virtual"
    /\ q.outcome = "panic" => q.raised = "handler"
    /\ q.answer # NoIdentity =>
          /\ q.pc \notin Before
          /\ q.attribution.identity # NoIdentity
          /\ q.attribution.identity.distinctID = q.answer.distinctID

CalmInv == NilIsAnswered /\ \A r \in Requests : CalmOK(req[r])

\* No step is a panic of mergeIdentity.
LEMMA UpdateNeverPanics ==
    ASSUME AnswersMerge, MiddlewareInv, NilIsAnswered, NEW r \in Requests
    PROVE  ~UpdatePanics(r)
<1> SUFFICES ASSUME UpdatePanics(r) PROVE FALSE
  OBVIOUS
<1>1. PICK answer \in Answers : MergePanics(StateOf(sessions, Session(r)).identity, answer)
  BY DEF UpdatePanics, UpdateIdentityPanics
<1>2. PICK first \in Answers : first.properties = Nil
  BY <1>1 DEF MergePanics, StateOf, NewState, NilIsAnswered
<1>3. first # NoIdentity
  BY SnapshotsType, MiddlewareAssumption, IdentityAssumption
<1> QED BY <1>1, <1>2, <1>3 DEF MergePanics, AnswersMerge

\* A step of a request without such a panic keeps what it promises.
LEMMA CalmStep ==
    ASSUME MiddlewareInv, NEW r \in Requests, StepOf(r), ~UpdatePanics(r), CalmOK(req[r])
    PROVE  CalmOK(req'[r])
<1> DEFINE q == req[r]
           n == req'[r]
<1>1. /\ q \in RequestStates /\ q.attribution \in Attributions
      /\ PathOK(q) /\ CountsOK(q) /\ AnswersOK(q)
  BY DEF MiddlewareInv, LocalInv, RequestInv, RequestStates
<1>2. CASE Begin(r)
  <2>1. PICK kind, caller, conversation :
           /\ kind # "other"
           /\ Goto(r, [q EXCEPT !.pc = "session", !.kind = kind,
                                !.caller = caller, !.conversation = conversation])
    BY <1>2 DEF Begin
  <2>2. q.pc = "idle" /\ q = IdleRequest
    BY <1>1, <1>2 DEF Begin, At, PathOK
  <2> QED BY <1>1, <2>1, <2>2 DEF Goto, MiddlewareInv, RequestStates, CalmOK, IdleRequest
<1>3. CASE BeginOther(r)
  <2>1. q.pc = "idle" /\ q = IdleRequest
    BY <1>1, <1>3 DEF BeginOther, At, PathOK
  <2> QED BY <1>1, <1>3, <2>1 DEF BeginOther, Goto, MiddlewareInv, RequestStates, CalmOK,
                                  IdleRequest, Before
<1>4. CASE ResolveSession(r)
  <2>1. PICK attribution : Goto(r, [q EXCEPT !.pc = "stamp", !.attribution = attribution])
    BY <1>4 DEF ResolveSession
  <2>2. q.pc = "session"
    BY <1>4 DEF ResolveSession, At
  <2> QED BY <1>1, <2>1, <2>2 DEF Goto, MiddlewareInv, RequestStates, CalmOK, Before
<1>5. CASE Stamp(r)
  <2>1. PICK pc \in {"downstream", "lookup"} : Goto(r, [q EXCEPT !.pc = pc])
    BY <1>5 DEF Stamp
  <2>2. q.pc = "stamp"
    BY <1>5 DEF Stamp, At
  <2> QED BY <1>1, <2>1, <2>2 DEF Goto, MiddlewareInv, RequestStates, CalmOK, Before
<1>6. CASE Lookup(r)
  <2>1. PICK identity : Goto(r, [q EXCEPT !.pc = "identify", !.publish = FALSE,
                                          !.attribution.identity = identity])
    BY <1>6 DEF Lookup
  <2>2. q.pc = "lookup"
    BY <1>6 DEF Lookup, At
  <2> QED BY <1>1, <2>1, <2>2 DEF Goto, MiddlewareInv, RequestStates, CalmOK, Before
<1>7. q.pc = "identify" => AfterIdentity(r) \in {"downstream", "finish", "emit"}
  BY <1>1 DEF AfterIdentity, RequestStates, Stages, PathOK
<1>8. CASE IdentifyNobody(r)
  <2>1. n = [q EXCEPT !.pc = AfterIdentity(r)] /\ q.pc = "identify"
    BY <1>8 DEF IdentifyNobody, At, Goto, MiddlewareInv
  <2> QED BY <1>1, <1>7, <2>1 DEF RequestStates, CalmOK, Before
<1>9. CASE Update(r)
  <2>1. PICK answer, identity, publish, changed :
           Goto(r, [q EXCEPT !.pc = AfterIdentity(r), !.answer = answer,
                             !.attribution.identity = identity,
                             !.publish = publish, !.changed = changed])
    BY <1>9 DEF Update
  <2>2. q.pc = "identify"
    BY <1>9 DEF Update, At
  <2>3. /\ n.attribution.identity # NoIdentity
        /\ n.attribution.identity.distinctID = n.answer.distinctID
    BY <1>9, UpdateSettles, IdentityAssumption
  <2>4. /\ n.pc = AfterIdentity(r) /\ n.stage = q.stage /\ n.kind = q.kind
        /\ n.outcome = q.outcome /\ n.missing = q.missing /\ n.raised = q.raised
    BY <1>1, <2>1 DEF Goto, MiddlewareInv, RequestStates
  <2> QED BY <1>7, <2>2, <2>3, <2>4 DEF CalmOK, Before
<1>10. CASE CallDownstream(r)
  <2>1. q.pc = "downstream"
    BY <1>10 DEF CallDownstream, At
  <2> QED BY <1>1, <1>10, <2>1 DEF CallDownstream, Goto, MiddlewareInv, RequestStates,
                                   CalmOK, Before
<1>11. CASE HandlerCapture(r)
  <2>1. PICK captured : Goto(r, [q EXCEPT !.sent = @ \cup {"custom"}, !.captured = captured])
    BY <1>11 DEF HandlerCapture
  <2> QED BY <1>1, <2>1 DEF Goto, MiddlewareInv, RequestStates, CalmOK
<1>12. CASE BareReturn(r)
  <2>1. PICK outcome \in OutcomesOf(q.kind) :
           Goto(r, [q EXCEPT !.pc = "done", !.outcome = outcome, !.reply = outcome,
                             !.raised = IF outcome = "panic" THEN "handler" ELSE @])
    BY <1>12 DEF BareReturn
  <2>2. q.pc = "handler" /\ q.stage = "bare"
    BY <1>12 DEF BareReturn, At
  <2> QED BY <1>1, <2>1, <2>2 DEF Goto, MiddlewareInv, RequestStates, CalmOK, AnswersOK,
                                  Before
<1>13. CASE HandlerPanics(r)
  <2>1. PICK pc \in {"lookup", "emit"} :
           /\ pc = "lookup" => q.kind = "probe"
           /\ Goto(r, [q EXCEPT !.outcome = "panic", !.raised = "handler",
                                !.stage = "unwind", !.pc = pc])
    BY <1>13 DEF HandlerPanics, IsProbe
  <2>2. q.pc = "handler" /\ q.stage = "prepare"
    BY <1>13 DEF HandlerPanics, At
  <2> QED BY <1>1, <2>1, <2>2 DEF Goto, MiddlewareInv, RequestStates, CalmOK, PathOK,
                                  AnswersOK, Before
<1>14. CASE HandlerReturns(r)
  <2>1. PICK outcome \in OutcomesOf(q.kind) \ {"panic"}, missing \in BOOLEAN,
             pc \in {"session", "lookup", "finish"} :
           /\ missing <=> q.kind = "probe" /\ outcome = "unknown"
           /\ pc \in Before => q.kind = "probe"
           /\ n = [q EXCEPT !.outcome = outcome, !.missing = missing,
                            !.stage = "finish", !.pc = pc]
    BY <1>14 DEF HandlerReturns, Goto, IsProbe, Before, MiddlewareInv
  <2>2. q.pc = "handler" /\ q.stage = "prepare"
    BY <1>14 DEF HandlerReturns, At
  <2> QED BY <1>1, <2>1, <2>2 DEF Goto, MiddlewareInv, RequestStates, CalmOK, PathOK, Before
<1>15. CASE Finish(r) \/ FinishInitialize(r)
  <2>1. n = [q EXCEPT !.pc = "emit"] /\ q.pc = "finish"
    BY <1>15 DEF Finish, FinishInitialize, At, Goto, MiddlewareInv
  <2> QED BY <1>1, <2>1 DEF RequestStates, CalmOK, Before
<1>16. CASE FinishPanics(r)
  <2>1. /\ n = [q EXCEPT !.raised = "wrapper", !.stage = "unwind", !.pc = "emit"]
        /\ q.pc = "finish" /\ q.kind = "tool" /\ q.outcome \in {"result", "toolError"}
    BY <1>16 DEF FinishPanics, At, Goto, MiddlewareInv
  <2> QED BY <1>1, <2>1 DEF RequestStates, CalmOK, Before
<1>17. CASE EmitIdentify(r)
  <2>1. n = [q EXCEPT !.sent = @ \cup {"identify"}]
    BY <1>17 DEF EmitIdentify, Goto, MiddlewareInv
  <2> QED BY <1>1, <2>1 DEF RequestStates, CalmOK
<1>18. CASE Report(r)
  <2> DEFINE sent == q.sent \cup ({"main"} \cup IF Failed(r) THEN {"exception"} ELSE {})
  <2>1. n = IF q.stage = "unwind"
            THEN [q EXCEPT !.sent = sent, !.reports = @ + 1, !.pc = "recover"]
            ELSE [q EXCEPT !.sent = sent, !.reports = @ + 1, !.pc = "done",
                           !.reply = Final(r)]
    BY <1>18 DEF Report, Goto, MiddlewareInv
  <2>2. q.pc = "emit"
    BY <1>18 DEF Report, At
  <2>3. Final(r) = IF q.missing THEN "virtual" ELSE q.outcome
    BY DEF Final
  <2> HIDE DEF sent
  <2> QED BY <1>1, <2>1, <2>2, <2>3 DEF RequestStates, CalmOK, Before
<1>19. CASE Recover(r)
  <2>1. q.pc = "recover" /\ q.stage = "unwind" /\ q.calls = 1
    BY <1>1, <1>19 DEF Recover, At, CalmOK, CountsOK
  <2>2. n = [q EXCEPT !.pc = "done", !.reply = q.outcome]
    BY <1>19, <2>1 DEF Recover, Goto, MiddlewareInv
  <2> QED BY <1>1, <2>1, <2>2 DEF RequestStates, CalmOK, AnswersOK, Before
<1> QED BY <1>2, <1>3, <1>4, <1>5, <1>6, <1>8, <1>9, <1>10, <1>11, <1>12, <1>13, <1>14,
           <1>15, <1>16, <1>17, <1>18, <1>19
        DEF StepOf, WrapperStep, HandlerStep

\* The identities in use come from answers that merge.
LEMMA NilStep ==
    ASSUME MiddlewareInv, NilIsAnswered, NEW r \in Requests, StepOf(r)
    PROVE  NilIsAnswered'
<1>1. \A t \in DOMAIN sessions' :
         IdentityKept(t) /\ sessions'[t].identity # NoIdentity
                         /\ sessions'[t].identity.properties = Nil =>
            \E answer \in Answers : answer.properties = Nil
  BY DEF NilIsAnswered, IdentityKept, StateOf, NewState
<1>2. CASE ~Update(r)
  <2>1. \A t \in DOMAIN sessions' : IdentityKept(t)
    BY <1>2, OthersKeepIdentities
  <2> QED BY <1>1, <2>1 DEF NilIsAnswered
<1>3. CASE Update(r)
  <2> DEFINE s == Session(r)
             known == StateOf(sessions, s).identity
  <2>1. PICK answer \in Answers : UpdateIdentity(s, answer)
    BY <1>3 DEF Update
  <2>2. /\ s \in HeldIds
        /\ StateOf(sessions, s) \in SessionStates
        /\ known \in Identities \cup {NoIdentity}
    BY <1>3, StateOfType DEF Update, At, MiddlewareInv, LocalInv, HeldIn, HasSession, Session,
                             SessionStates
  <2> DEFINE after == [StateOf(sessions, s) EXCEPT !.identity = MergedIdentity(known, answer)]
  <2>3. /\ after \in SessionStates /\ after.identity = MergedIdentity(known, answer)
        /\ WriteSession(s, after)
    BY <2>1, <2>2, MergedIdentityType, SnapshotsType, MiddlewareAssumption
       DEF UpdateIdentity, SessionStates
  <2> HIDE DEF after
  <2>4. /\ \A t \in DOMAIN sessions' \ {s} : IdentityKept(t)
        /\ sessions'[s].identity = MergedIdentity(known, answer)
    BY <2>2, <2>3, WriteIdentities DEF MiddlewareInv
  <2>5. ASSUME MergedIdentity(known, answer).properties = Nil
        PROVE  \E first \in Answers : first.properties = Nil
    <3>a. answer \in Identities
      BY SnapshotsType, MiddlewareAssumption
    <3>b. MergeIdentity(known, answer) \in Identities
      BY <2>2, <3>a, MergeIdentityType
    <3>0. MergeIdentity(known, answer).properties = Nil
      <4>1. PICK merge \in Identities : merge = MergeIdentity(known, answer)
        BY <3>b
      <4> HIDE DEF s, known
      <4> QED BY <2>5, <4>1, CloneIdentityType DEF MergedIdentity
    <3>1. CASE known = NoIdentity
      BY <3>0, <3>1, <3>a, CloneIdentityType DEF MergeIdentity
    <3>2. CASE known # NoIdentity /\ known.properties = Nil
      <4>1. s \in DOMAIN sessions
        BY <3>2 DEF StateOf, NewState
      <4> QED BY <3>2, <4>1 DEF NilIsAnswered, StateOf
    <3>3. CASE known # NoIdentity /\ known.properties # Nil
      <4>1. MergeProperties(CloneProperties(known.properties), answer.properties) = Nil
        BY <3>0, <3>3 DEF MergeIdentity
      <4>2. /\ CloneProperties(known.properties) \in PropertyMaps
            /\ answer.properties \in PropertyMaps \cup {Nil}
        BY <2>2, <3>3, <3>a, ClonePropertiesType DEF Identities
      <4>3. answer.properties # Nil =>
               MergeProperties(CloneProperties(known.properties), answer.properties) # Nil
        BY <4>2, MergePropertiesType, IdentityAssumption
      <4>4. answer.properties = Nil
        BY <4>1, <4>3
      <4> QED BY <4>4
    <3> QED BY <3>1, <3>2, <3>3
  <2> QED BY <1>1, <2>4, <2>5 DEF NilIsAnswered
<1> QED BY <1>2, <1>3

\* The invariant of a wrapper whose answers merge.
LEMMA CalmInvariant == AnswersMerge => (Spec => [](MiddlewareInv /\ CalmInv))
<1> SUFFICES ASSUME AnswersMerge PROVE Spec => [](MiddlewareInv /\ CalmInv)
  OBVIOUS
<1>1. Init => CalmInv
  BY DEF Init, StoreInit, EmptyMap, CalmInv, NilIsAnswered, CalmOK, IdleRequest, Before
<1>2. MiddlewareInv /\ CalmInv /\ [Next]_vars => CalmInv'
  <2> SUFFICES ASSUME MiddlewareInv, CalmInv, [Next]_vars PROVE CalmInv'
    OBVIOUS
  <2>1. CASE Pass \/ UNCHANGED vars
    BY <2>1 DEF Pass, Tick, vars, CalmInv, NilIsAnswered
  <2>2. ASSUME NEW r \in Requests, StepOf(r) PROVE CalmInv'
    <3>1. NilIsAnswered'
      BY <2>2, NilStep DEF CalmInv
    <3>2. CalmOK(req'[r])
      BY <2>2, CalmStep, UpdateNeverPanics DEF CalmInv
    <3>3. \A p \in Requests \ {r} : req'[p] = req[p]
      BY <2>2, OneRequest DEF MiddlewareInv
    <3> QED BY <3>1, <3>2, <3>3 DEF CalmInv
  <2> QED BY <2>1, <2>2 DEF Next, StepOf
<1> QED BY <1>1, <1>2, MiddlewareInvariant, PTL DEF Spec

\* The identity Identify returned for a request is the one its events carry, if its
\* answers merge.
THEOREM AnswersAreAttributed == AnswersMerge => (Spec => []AnswerIsAttributed)
<1>1. CalmInv => AnswerIsAttributed
  BY DEF CalmInv, CalmOK, AnswerIsAttributed, Done
<1> QED BY <1>1, CalmInvariant, PTL

\* A panic that reaches the caller is the one downstream raised, if answers merge.
THEOREM PanicsAreOriginal == AnswersMerge => (Spec => []OriginalPanic)
<1>1. MiddlewareInv /\ CalmInv => OriginalPanic
  BY DEF MiddlewareInv, LocalInv, RequestInv, AnswersOK, CalmInv, CalmOK, OriginalPanic, Done
<1> QED BY <1>1, CalmInvariant, PTL

\* A call of the virtual tool gets the virtual tool's answer, if answers merge.
THEOREM VirtualToolAnswers == AnswersMerge => (Spec => []VirtualAnswered)
<1>1. MiddlewareInv /\ CalmInv => VirtualAnswered
  BY DEF MiddlewareInv, LocalInv, RequestInv, AnswersOK, CalmInv, CalmOK, VirtualAnswered, Done
<1> QED BY <1>1, CalmInvariant, PTL

-----------------------------------------------------------------------------
(***************************************************************************)
(* What holds when no structured content is copied either.                 *)
(***************************************************************************)
\* Without conversations a request unwinds only when downstream panicked, and has its
\* $exception with its main event exactly when its tool failed.
ToolFailureOK(q) ==
    /\ q.conversation = NoSession
    /\ q.stage = "unwind" => q.outcome = "panic"
    /\ q.outcome = "panic" => q.stage \in {"unwind", "bare"}
    /\ "exception" \in q.sent => "main" \in q.sent
    /\ "main" \in q.sent =>
          ("exception" \in q.sent <=>
              /\ q.kind \in {"tool", "probe"}
              /\ \/ q.stage = "unwind"
                 \/ q.pc = "done" /\ q.reply \in {"toolError", "error", "unknown"})

\* Every step of a calm request without a conversation keeps it.
LEMMA ToolFailureStep ==
    ASSUME Conversations \subseteq {NoSession}, MiddlewareInv, NEW r \in Requests, StepOf(r),
           ~UpdatePanics(r), CalmOK(req[r]), ToolFailureOK(req[r])
    PROVE  ToolFailureOK(req'[r])
<1> DEFINE q == req[r]
           n == req'[r]
<1>1. /\ q \in RequestStates
      /\ PathOK(q) /\ CountsOK(q) /\ AnswersOK(q)
  BY DEF MiddlewareInv, LocalInv, RequestInv
<1>2. CASE Begin(r)
  <2>1. PICK kind \in Kinds \ {"other"}, caller \in Callers, conversation \in Conversations :
           Goto(r, [q EXCEPT !.pc = "session", !.kind = kind,
                             !.caller = caller, !.conversation = conversation])
    BY <1>2 DEF Begin
  <2>2. q = IdleRequest
    BY <1>1, <1>2 DEF Begin, At, PathOK
  <2>3. conversation = NoSession
    BY <2>1
  <2> QED BY <1>1, <2>1, <2>2, <2>3 DEF Goto, MiddlewareInv, RequestStates, ToolFailureOK,
                                        IdleRequest
<1>3. CASE BeginOther(r)
  <2>1. q = IdleRequest
    BY <1>1, <1>3 DEF BeginOther, At, PathOK
  <2> QED BY <1>1, <1>3, <2>1 DEF BeginOther, Goto, MiddlewareInv, RequestStates,
                                  ToolFailureOK, IdleRequest
<1>4. ASSUME "main" \notin q.sent,
             n.conversation = q.conversation, n.stage = q.stage, n.outcome = q.outcome,
             n.sent = q.sent \/ n.sent = q.sent \cup {"identify"}
                             \/ n.sent = q.sent \cup {"custom"}
      PROVE  ToolFailureOK(n)
  BY <1>4 DEF ToolFailureOK
<1>5. CASE ResolveSession(r)
  <2>1. PICK attribution : Goto(r, [q EXCEPT !.pc = "stamp", !.attribution = attribution])
    BY <1>5 DEF ResolveSession
  <2>2. q.pc = "session"
    BY <1>5 DEF ResolveSession, At
  <2> QED BY <1>1, <1>4, <2>1, <2>2 DEF Goto, MiddlewareInv, RequestStates, CountsOK
<1>6. CASE Lookup(r)
  <2>1. PICK identity : Goto(r, [q EXCEPT !.pc = "identify", !.publish = FALSE,
                                          !.attribution.identity = identity])
    BY <1>6 DEF Lookup
  <2>2. q.pc = "lookup"
    BY <1>6 DEF Lookup, At
  <2> QED BY <1>1, <1>4, <2>1, <2>2 DEF Goto, MiddlewareInv, RequestStates, CountsOK
<1>7. CASE Update(r)
  <2>1. PICK pc, answer, identity, publish, changed :
           Goto(r, [q EXCEPT !.pc = pc, !.answer = answer,
                             !.attribution.identity = identity,
                             !.publish = publish, !.changed = changed])
    BY <1>7 DEF Update
  <2>2. q.pc = "identify"
    BY <1>7 DEF Update, At
  <2> QED BY <1>1, <1>4, <2>1, <2>2 DEF Goto, MiddlewareInv, RequestStates, CountsOK
<1>8. CASE Stamp(r) \/ IdentifyNobody(r) \/ Finish(r) \/ FinishInitialize(r)
  <2>1. PICK pc : Goto(r, [q EXCEPT !.pc = pc])
    BY <1>8 DEF Stamp, IdentifyNobody, Finish, FinishInitialize
  <2>2. q.pc \in {"stamp", "identify", "finish"}
    BY <1>8 DEF Stamp, IdentifyNobody, Finish, FinishInitialize, At
  <2> QED BY <1>1, <1>4, <2>1, <2>2 DEF Goto, MiddlewareInv, RequestStates, CountsOK
<1>9. CASE CallDownstream(r)
  <2>1. q.pc = "downstream"
    BY <1>9 DEF CallDownstream, At
  <2> QED BY <1>1, <1>4, <1>9, <2>1
          DEF CallDownstream, Goto, MiddlewareInv, RequestStates, CountsOK
<1>10. CASE HandlerCapture(r)
  <2>1. PICK captured : Goto(r, [q EXCEPT !.sent = @ \cup {"custom"}, !.captured = captured])
    BY <1>10 DEF HandlerCapture
  <2>2. q.pc = "handler"
    BY <1>10 DEF HandlerCapture, At
  <2> QED BY <1>1, <1>4, <2>1, <2>2 DEF Goto, MiddlewareInv, RequestStates, CountsOK
<1>11. CASE EmitIdentify(r)
  <2>1. n = [q EXCEPT !.sent = @ \cup {"identify"}] /\ q.pc = "emit"
    BY <1>11 DEF EmitIdentify, At, Goto, MiddlewareInv
  <2> QED BY <1>1, <1>4, <2>1 DEF RequestStates, CountsOK
<1>12. CASE BareReturn(r)
  <2>1. PICK outcome, raised :
           Goto(r, [q EXCEPT !.pc = "done", !.outcome = outcome, !.reply = outcome,
                             !.raised = raised])
    BY <1>12 DEF BareReturn
  <2>2. q.pc = "handler" /\ q.stage = "bare"
    BY <1>12 DEF BareReturn, At
  <2> QED BY <1>1, <2>1, <2>2 DEF Goto, MiddlewareInv, RequestStates, ToolFailureOK, CountsOK
<1>13. CASE HandlerPanics(r)
  <2>1. PICK pc : Goto(r, [q EXCEPT !.outcome = "panic", !.raised = "handler",
                                    !.stage = "unwind", !.pc = pc])
    BY <1>13 DEF HandlerPanics
  <2>2. q.pc = "handler"
    BY <1>13 DEF HandlerPanics, At
  <2> QED BY <1>1, <2>1, <2>2 DEF Goto, MiddlewareInv, RequestStates, ToolFailureOK, CountsOK
<1>14. CASE HandlerReturns(r)
  <2>1. PICK outcome \in OutcomesOf(q.kind) \ {"panic"}, missing \in BOOLEAN,
             pc \in {"session", "lookup", "finish"} :
           n = [q EXCEPT !.outcome = outcome, !.missing = missing,
                         !.stage = "finish", !.pc = pc]
    BY <1>14 DEF HandlerReturns, Goto, IsProbe, MiddlewareInv
  <2>2. q.pc = "handler"
    BY <1>14 DEF HandlerReturns, At
  <2> QED BY <1>1, <2>1, <2>2 DEF RequestStates, ToolFailureOK, CountsOK
<1>15. ~FinishPanics(r)
  BY DEF FinishPanics, ToolFailureOK
<1>16. CASE Report(r)
  <2> DEFINE events == {"main"} \cup IF Failed(r) THEN {"exception"} ELSE {}
  <2>1. n = IF q.stage = "unwind"
            THEN [q EXCEPT !.sent = @ \cup events, !.reports = @ + 1, !.pc = "recover"]
            ELSE [q EXCEPT !.sent = @ \cup events, !.reports = @ + 1, !.pc = "done",
                           !.reply = Final(r)]
    BY <1>16 DEF Report, Goto, MiddlewareInv
  <2>2. q.pc = "emit" /\ "main" \notin q.sent /\ "exception" \notin q.sent
    BY <1>1, <1>16 DEF Report, At, CountsOK, ToolFailureOK
  <2>3. Failed(r) <=> /\ q.kind \in {"tool", "probe"}
                      /\ q.stage = "unwind" \/ Final(r) \in {"toolError", "error", "unknown"}
    BY DEF Failed
  <2>4. /\ n.sent = q.sent \cup events /\ n.kind = q.kind /\ n.stage = q.stage
        /\ n.conversation = q.conversation /\ n.outcome = q.outcome
        /\ q.stage # "unwind" => n.pc = "done" /\ n.reply = Final(r)
    BY <1>1, <2>1 DEF RequestStates
  <2>5. "main" \in n.sent /\ ("exception" \in n.sent <=> Failed(r))
    BY <2>2, <2>4
  <2> QED BY <2>3, <2>4, <2>5 DEF ToolFailureOK
<1>17. CASE Recover(r)
  <2>1. q.pc = "recover" /\ q.stage = "unwind" /\ q.calls = 1
    BY <1>1, <1>17 DEF Recover, At, CalmOK, CountsOK
  <2>2. n = [q EXCEPT !.pc = "done", !.reply = q.outcome]
    BY <1>17, <2>1 DEF Recover, Goto, MiddlewareInv
  <2> QED BY <1>1, <2>1, <2>2 DEF RequestStates, ToolFailureOK
<1> QED BY <1>2, <1>3, <1>5, <1>6, <1>7, <1>8, <1>9, <1>10, <1>11, <1>12, <1>13, <1>14,
           <1>15, <1>16, <1>17
        DEF StepOf, WrapperStep, HandlerStep

\* A request that is reported has an $exception exactly when the tool failed for its
\* caller, if answers merge and no conversation id is in use.
THEOREM ExceptionsAreToolFailures ==
    AnswersMerge /\ Conversations \subseteq {NoSession} => (Spec => []ExceptionIffToolFailed)
<1> SUFFICES ASSUME AnswersMerge, Conversations \subseteq {NoSession}
             PROVE  Spec => []ExceptionIffToolFailed
  OBVIOUS
<1> DEFINE FailureInv == \A r \in Requests : ToolFailureOK(req[r])
<1>1. Init => FailureInv
  BY DEF Init, ToolFailureOK, IdleRequest
<1>2. MiddlewareInv /\ CalmInv /\ FailureInv /\ [Next]_vars => FailureInv'
  <2> SUFFICES ASSUME MiddlewareInv, CalmInv, FailureInv, [Next]_vars PROVE FailureInv'
    OBVIOUS
  <2>1. CASE Pass \/ UNCHANGED vars
    BY <2>1 DEF Pass, vars
  <2>2. ASSUME NEW r \in Requests, StepOf(r) PROVE FailureInv'
    <3>1. ToolFailureOK(req'[r])
      BY <2>2, ToolFailureStep, UpdateNeverPanics DEF CalmInv
    <3>2. \A p \in Requests \ {r} : req'[p] = req[p]
      BY <2>2, OneRequest DEF MiddlewareInv
    <3> QED BY <3>1, <3>2
  <2> QED BY <2>1, <2>2 DEF Next, StepOf
<1>3. MiddlewareInv /\ FailureInv => ExceptionIffToolFailed
  <2> SUFFICES ASSUME MiddlewareInv, FailureInv, NEW r \in Requests, Done(r),
                      "main" \in req[r].sent
               PROVE  "exception" \in req[r].sent <=>
                         /\ req[r].kind \in {"tool", "probe"}
                         /\ req[r].reply \in {"toolError", "error", "unknown", "panic"}
    BY DEF ExceptionIffToolFailed
  <2>1. /\ ToolFailureOK(req[r]) /\ req[r].pc = "done"
        /\ PathOK(req[r]) /\ CountsOK(req[r]) /\ AnswersOK(req[r])
    BY DEF Done, MiddlewareInv, LocalInv, RequestInv
  <2> QED BY <2>1 DEF ToolFailureOK, PathOK, CountsOK, AnswersOK, Before
<1> QED BY <1>1, <1>2, <1>3, CalmInvariant, PTL DEF Spec

-----------------------------------------------------------------------------
(***************************************************************************)
(* $identify events of one session differ, while requests come one at a    *)
(* time.                                                                   *)
(***************************************************************************)
\* Requests come one at a time.
OneByOne == MaxInFlight <= 1

\* The store has room for every session there can be: none is evicted.
Roomy == IsFiniteSet(SessionIds) /\ Cardinality(SessionIds) <= SessionLimit

\* No identity has more properties than the limit, nor has a merge of identities.
PropertiesFit == IsFiniteSet(PropertyKeys) /\ Cardinality(PropertyKeys) <= MaxProperties

\* Then a clone is what it was made of.
LEMMA ClonesFit ==
    ASSUME PropertiesFit, NEW identity \in Identities
    PROVE  CloneIdentity(identity) = identity
<1>1. ASSUME NEW properties \in PropertyMaps, NEW key \in DOMAIN properties
      PROVE  Cardinality({smaller \in DOMAIN properties : smaller < key}) < MaxProperties
  <2> DEFINE below == {smaller \in DOMAIN properties : smaller < key}
             rest  == PropertyKeys \ {key}
  <2>1. key \in PropertyKeys /\ DOMAIN properties \subseteq PropertyKeys
    BY DEF PropertyMaps
  <2>2. below \subseteq rest
    BY <2>1, IdentityAssumption
  <2>3. IsFiniteSet(rest) /\ Cardinality(rest) = Cardinality(PropertyKeys) - 1
    BY <2>1, FS_RemoveElement DEF PropertiesFit
  <2> HIDE DEF below, rest
  <2>4. Cardinality(below) <= Cardinality(rest)
    BY <2>2, <2>3, FS_Subset
  <2>5. Cardinality(below) \in Nat /\ Cardinality(PropertyKeys) \in Nat
    BY <2>2, <2>3, FS_Subset, FS_CardinalityType DEF PropertiesFit
  <2>6. Cardinality(below) < MaxProperties
    BY <2>3, <2>4, <2>5, IdentityAssumption DEF PropertiesFit
  <2> QED BY <2>6 DEF below
<1>2. \A properties \in PropertyMaps : CloneProperties(properties) = properties
  BY <1>1 DEF CloneProperties, FirstKeys
<1>3. CloneProperties(identity.properties) = identity.properties
  BY <1>2, ClonePropertiesType DEF Identities
<1> QED BY <1>3 DEF CloneIdentity, Identities

\* The request has changed an identity and has not announced it yet.
Pending(q) == q.publish /\ "identify" \notin q.sent

\* Only a change is published.
PublishOK(q) == q.publish \/ "identify" \in q.sent => q.changed

\* Session s was replaced by its connection: nobody is at work in it, and nobody will be.
Retired(s) ==
    /\ s \in issued \ {fallbackSession}
    /\ \A c \in DOMAIN generated : generated[c] # s
    /\ \A r \in InFlight : Session(r) # s

Gone(s) == s \notin DOMAIN sessions /\ Retired(s)

\* What is pending is in the store and differs from what was announced last.
PendingOK(r) ==
    /\ Session(r) \in DOMAIN sessions
    /\ sessions[Session(r)].identity = req[r].attribution.identity
    /\ lastIdentify[Session(r)] # req[r].attribution.identity

\* A session that has been announced knows the identity announced last, or a pending
\* one, until it is retired.
AnnouncedOK(s) ==
    \/ /\ s \in DOMAIN sessions
       /\ \/ sessions[s].identity = lastIdentify[s]
          \/ \E r \in Requests : Pending(req[r]) /\ Session(r) = s
    \/ Gone(s)

\* The inductive invariant of requests that come one at a time.
AnnouncedInv ==
    /\ \A p, q \in InFlight : p = q
    /\ \A r \in Requests : PublishOK(req[r])
    /\ \A r \in Requests : Pending(req[r]) => PendingOK(r)
    /\ \A s \in SessionIds : lastIdentify[s] # NoIdentity => AnnouncedOK(s)

\* Whoever has something pending is at work, and beyond its preparation.
LEMMA PendingAtWork ==
    ASSUME MiddlewareInv, NEW r \in Requests, PublishOK(req[r]), Pending(req[r])
    PROVE  r \in InFlight /\ req[r].pc \notin Before \cup {"recover"}
<1>1. PathOK(req[r]) /\ AnswersOK(req[r])
  BY DEF MiddlewareInv, LocalInv, RequestInv
<1>2. req[r].changed /\ req[r].publish /\ "identify" \notin req[r].sent
  BY DEF PublishOK, Pending
<1> QED BY <1>1, <1>2 DEF PathOK, AnswersOK, InFlight, IdleRequest

\* Nobody else is at work when a request takes a step, nor afterwards.
LEMMA OneAtWork ==
    ASSUME OneByOne, MiddlewareInv, AnnouncedInv, NEW r \in Requests, StepOf(r)
    PROVE  \A p \in Requests \ {r} : req'[p] = req[p] /\ p \notin InFlight
<1>1. \A p \in Requests \ {r} : req'[p] = req[p]
  BY OneRequest DEF MiddlewareInv
<1>2. CASE r \in InFlight
  BY <1>1, <1>2 DEF AnnouncedInv
<1>3. CASE r \notin InFlight
  <2>1. Cardinality(InFlight) < MaxInFlight
    BY <1>3 DEF InFlight, StepOf, WrapperStep, HandlerStep, Begin, BeginOther, At,
       ResolveSession, Stamp, Lookup, IdentifyNobody, Update, UpdatePanics, CallDownstream,
       Finish, FinishInitialize, FinishPanics, EmitIdentify, Report, Recover,
       HandlerCapture, BareReturn, HandlerPanics, HandlerReturns
  <2>2. ASSUME NEW p \in InFlight PROVE FALSE
    <3>1. InFlight = {p}
      BY DEF AnnouncedInv
    <3>2. Cardinality(InFlight) = 1
      BY <3>1, FS_Singleton
    <3> QED BY <2>1, <3>2, MiddlewareAssumption DEF OneByOne
  <2> QED BY <1>1, <2>2
<1> QED BY <1>2, <1>3

\* An announcement stays pending until it is made, and only Update and EmitIdentify
\* have to do with it.
LEMMA PublishStep ==
    ASSUME MiddlewareInv, NEW r \in Requests, StepOf(r), PublishOK(req[r]),
           ~Update(r), ~EmitIdentify(r)
    PROVE  /\ PublishOK(req'[r])
           /\ Pending(req'[r]) <=> Pending(req[r])
           /\ Pending(req[r]) => req'[r].attribution = req[r].attribution
           /\ "identify" \in req'[r].sent => "identify" \in req[r].sent
<1> DEFINE q == req[r]
           n == req'[r]
<1>1. /\ q \in RequestStates
      /\ q.pc \in Before => ~q.changed /\ ~q.publish /\ "identify" \notin q.sent
      /\ q.pc = "idle" => q = IdleRequest
  BY DEF MiddlewareInv, LocalInv, RequestInv, PathOK, AnswersOK, PublishOK
<1>2. CASE Begin(r)
  <2>1. PICK kind, caller, conversation :
           Goto(r, [q EXCEPT !.pc = "session", !.kind = kind,
                             !.caller = caller, !.conversation = conversation])
    BY <1>2 DEF Begin
  <2> QED BY <1>1, <2>1 DEF Goto, MiddlewareInv, RequestStates, PublishOK, Pending
<1>3. CASE Recover(r)
  <2>0. ~Pending(q)
    BY <1>3, PendingAtWork DEF Recover, At
  <2>1. CASE NextLayer(r)
    BY <2>0, <2>1 DEF NextLayer, Goto, IdleRequest, MiddlewareInv, PublishOK, Pending
  <2>2. CASE ~NextLayer(r)
    <3>1. n.publish = q.publish /\ n.sent = q.sent /\ n.changed = q.changed
      BY ZenonT(60), <1>1, <1>3, <2>2 DEF Recover, Goto, RequestStates, MiddlewareInv
    <3> QED BY <2>0, <3>1 DEF PublishOK, Pending
  <2> QED BY <2>1, <2>2
<1>4. CASE ResolveSession(r)
  <2>1. PICK attribution : Goto(r, [q EXCEPT !.pc = "stamp", !.attribution = attribution])
    BY <1>4 DEF ResolveSession
  <2> QED BY <1>1, <1>4, <2>1 DEF ResolveSession, At, Before, Goto, RequestStates,
             MiddlewareInv, PublishOK, Pending
<1>5. CASE Lookup(r)
  <2>1. PICK identity : Goto(r, [q EXCEPT !.pc = "identify", !.publish = FALSE,
                                        !.attribution.identity = identity])
    BY <1>5 DEF Lookup
  <2> QED BY <1>1, <1>5, <2>1 DEF Lookup, At, Before, Goto, RequestStates,
             MiddlewareInv, PublishOK, Pending
<1>6. CASE UpdatePanics(r)
  <2>1. PICK answer, pc, stage : Goto(r, [q EXCEPT !.raised = "wrapper", !.answer = answer,
                                                  !.pc = pc, !.stage = stage])
    BY <1>6 DEF UpdatePanics
  <2> QED BY <1>1, <2>1 DEF Goto, RequestStates, MiddlewareInv, PublishOK, Pending
<1>7. CASE HandlerReturns(r)
  <2>1. PICK outcome, missing, pc :
           Goto(r, [q EXCEPT !.outcome = outcome, !.missing = missing,
                             !.stage = "finish", !.pc = pc])
    BY <1>7 DEF HandlerReturns
  <2> QED BY <1>1, <2>1 DEF Goto, RequestStates, MiddlewareInv, PublishOK, Pending
<1>8. CASE HandlerCapture(r)
  <2>1. PICK captured : Goto(r, [q EXCEPT !.sent = @ \cup {"custom"},
                                          !.captured = captured])
    BY <1>8 DEF HandlerCapture
  <2> QED BY <1>1, <2>1 DEF Goto, RequestStates, MiddlewareInv, PublishOK, Pending
<1>9. CASE Report(r)
  <2>1. PICK events, reports, pc, reply :
           /\ "identify" \notin events
           /\ Goto(r, [q EXCEPT !.sent = @ \cup events, !.reports = reports,
                                !.pc = pc, !.reply = reply])
    <3> DEFINE events == {"main"} \cup IF Failed(r) THEN {"exception"} ELSE {}
    <3>1. "identify" \notin events
      OBVIOUS
    <3>2. CASE q.stage = "unwind"
      <4>1. Goto(r, [q EXCEPT !.sent = @ \cup events, !.reports = @ + 1,
                              !.pc = "recover", !.reply = @])
        BY <1>9, <3>2 DEF Report
      <4> QED BY <3>1, <4>1
    <3>3. CASE q.stage # "unwind"
      <4>1. Goto(r, [q EXCEPT !.sent = @ \cup events, !.reports = @ + 1,
                              !.pc = "done", !.reply = Final(r)])
        BY <1>9, <3>3 DEF Report
      <4> QED BY <3>1, <4>1
    <3> QED BY <3>2, <3>3
  <2> QED BY <1>1, <2>1 DEF Goto, RequestStates, MiddlewareInv, PublishOK, Pending
<1>10. CASE \/ BeginOther(r) \/ Stamp(r) \/ IdentifyNobody(r) \/ CallDownstream(r)
            \/ BareReturn(r) \/ HandlerPanics(r) \/ Finish(r) \/ FinishInitialize(r)
            \/ FinishPanics(r)
  <2>1. /\ n.publish = q.publish /\ n.sent = q.sent /\ n.changed = q.changed
        /\ n.attribution = q.attribution
    <3>1. CASE BeginOther(r) \/ Stamp(r) \/ IdentifyNobody(r)
      BY ZenonT(60), <1>1, <3>1 DEF BeginOther, Stamp, IdentifyNobody, Goto, RequestStates,
         MiddlewareInv
    <3>2. CASE CallDownstream(r)
      BY <1>1, <3>2 DEF CallDownstream, Goto, RequestStates, MiddlewareInv
    <3>a. CASE HandlerPanics(r)
      <4>1. PICK pc : Goto(r, [q EXCEPT !.outcome = "panic", !.raised = "handler",
                                        !.stage = "unwind", !.pc = pc])
        BY <3>a DEF HandlerPanics
      <4> QED BY <1>1, <4>1 DEF Goto, RequestStates, MiddlewareInv
    <3>3. CASE BareReturn(r)
      BY <1>1, <3>3 DEF BareReturn, Goto, RequestStates, MiddlewareInv
    <3>4. CASE Finish(r) \/ FinishInitialize(r) \/ FinishPanics(r)
      BY ZenonT(60), <1>1, <3>4 DEF Finish, FinishInitialize, FinishPanics, Goto,
         RequestStates, MiddlewareInv
    <3> QED BY <1>10, <3>1, <3>2, <3>3, <3>4, <3>a
  <2> QED BY <2>1 DEF PublishOK, Pending
<1> QED BY <1>2, <1>3, <1>4, <1>5, <1>6, <1>7, <1>8, <1>9, <1>10
        DEF StepOf, WrapperStep, HandlerStep

\* With room for every session, none is evicted.
LEMMA NobodyEvicted ==
    ASSUME Roomy, NEW known, DOMAIN known \subseteq SessionIds, NEW s \in SessionIds,
           NEW victim \in Victims(known, s)
    PROVE  victim = NoSession
<1>1. CASE s \in DOMAIN known
  BY <1>1 DEF Victims
<1>2. CASE s \notin DOMAIN known
  <2>1. DOMAIN known \in SUBSET (SessionIds \ {s}) /\ IsFiniteSet(SessionIds \ {s})
    BY <1>2, FS_RemoveElement DEF Roomy
  <2>2. /\ Cardinality(SessionIds \ {s}) = Cardinality(SessionIds) - 1
        /\ Cardinality(DOMAIN known) <= Cardinality(SessionIds \ {s})
        /\ Cardinality(DOMAIN known) \in Nat /\ Cardinality(SessionIds) \in Nat
    BY <2>1, FS_RemoveElement, FS_Subset, FS_CardinalityType DEF Roomy
  <2>3. Cardinality(DOMAIN known) < SessionLimit
    BY <2>2, StoreAssumption DEF Roomy
  <2>4. Victims(known, s) = {NoSession}
    BY <2>3 DEF Victims
  <2> QED BY <2>4
<1> QED BY <1>1, <1>2

\* A write loses nothing but the oldest session, here none, and adds what it writes.
LEMMA WriteGrows ==
    ASSUME Roomy, StoreInv, NEW s \in HeldIds, NEW state, WriteSession(s, state)
    PROVE  /\ DOMAIN sessions' = DOMAIN sessions \cup {s}
           /\ UNCHANGED <<generated, fallbackSession, issued>>
<1>1. /\ DOMAIN sessions \subseteq SessionIds /\ s \in SessionIds
      /\ NoSession \notin SessionIds
  BY StoreAssumption DEF StoreInv, Consistent, WellTyped, HeldIds, SessionIds
<1>2. PICK victim \in Victims(sessions, s) :
         /\ TouchSession(sessions, s, state, victim)
         /\ generated' = Disowned(sessions, generated, victim)
  BY DEF WriteSession
<1>3. victim = NoSession
  BY <1>1, <1>2, NobodyEvicted
<1> QED BY <1>1, <1>2, <1>3 DEF TouchSession, Put, Delete, Restrict, Disowned, WriteSession

\* A request works on its own session, loses none, and at most rolls the fallback
\* session on to an id nobody had.
LEMMA StoreGrows ==
    ASSUME Roomy, MiddlewareInv, NEW r \in Requests, StepOf(r), ~ResolveSession(r)
    PROVE  /\ DOMAIN sessions' \in {DOMAIN sessions, DOMAIN sessions \cup {Session(r)}}
           /\ generated' = generated
           /\ issued \subseteq issued'
           /\ fallbackSession' = fallbackSession \/ fallbackSession' \notin issued
<1>1. HasSession(req[r]) => Session(r) \in HeldIds
  BY DEF MiddlewareInv, LocalInv, HeldIn, Session
<1>2. CASE Stamp(r) \/ Lookup(r)
  BY <1>2 DEF Stamp, Lookup, StampStoredAttribution, IdentityForSession, ReadSession,
              ReadAbsentSession, TouchPresent, storeVars
<1>3. CASE Update(r) \/ UpdatePanics(r) \/ FinishInitialize(r)
  <2>1. \E state : WriteSession(Session(r), state)
    BY <1>3 DEF Update, UpdatePanics, FinishInitialize, UpdateIdentity,
                UpdateIdentityPanics, RememberInitialize
  <2>2. Session(r) \in HeldIds
    BY <1>1, <1>3 DEF Update, UpdatePanics, FinishInitialize, At, HasSession
  <2> QED BY <2>1, <2>2, WriteGrows DEF MiddlewareInv
<1>4. CASE HandlerCapture(r)
  BY <1>4 DEF HandlerCapture, GeneratedFallback, KeepFallbackSession, RollFallbackSession,
              Fresh
<1>5. CASE UNCHANGED storeVars
  BY <1>5 DEF storeVars
<1> QED BY <1>2, <1>3, <1>4, <1>5
        DEF StepOf, WrapperStep, HandlerStep, Begin, BeginOther, IdentifyNobody,
            CallDownstream, Finish, FinishPanics, EmitIdentify, Report, Recover,
            BareReturn, HandlerPanics, HandlerReturns

\* A connection's new session takes the place of its old one, and of no other.
LEMMA MintReplaces ==
    ASSUME Roomy, StoreInv, NEW c \in Connections, NEW s, MintConnectionSession(c, s)
    PROVE  /\ s \in GeneratedIds \ issued /\ issued' = issued \cup {s}
           /\ fallbackSession' = fallbackSession
           /\ DOMAIN sessions' \subseteq DOMAIN sessions \cup {s}
           /\ \A t \in DOMAIN sessions \ DOMAIN sessions' :
                 c \in DOMAIN generated /\ t = generated[c]
           /\ \A d \in DOMAIN generated' :
                 \/ d = c /\ generated'[d] = s
                 \/ d # c /\ d \in DOMAIN generated /\ generated'[d] = generated[d]
<1> DEFINE kept == IF c \in DOMAIN generated THEN Delete(sessions, generated[c])
                                             ELSE sessions
           lost == IF c \in DOMAIN generated THEN {generated[c]} ELSE {}
<1>1. /\ s \in GeneratedIds \ issued /\ issued' = issued \cup {s}
      /\ fallbackSession' = fallbackSession
  BY DEF MintConnectionSession, Fresh
<1>2. PICK victim \in Victims(kept, s) : \E state : TouchSession(kept, s, state, victim)
  BY DEF MintConnectionSession
<1>3. DOMAIN kept = DOMAIN sessions \ lost
  BY DEF Delete, Restrict
<1>4. /\ DOMAIN sessions \subseteq SessionIds /\ s \in SessionIds
      /\ NoSession \notin SessionIds /\ s \notin DOMAIN sessions
  BY <1>1, StoreAssumption DEF StoreInv, Consistent, WellTyped, HeldIds, SessionIds
<1> HIDE DEF kept
<1>5. victim = NoSession
  BY <1>2, <1>3, <1>4, NobodyEvicted
<1>6. DOMAIN sessions' = DOMAIN kept \cup {s}
  BY <1>2, <1>3, <1>4, <1>5 DEF TouchSession, Put, Delete, Restrict
<1>7. /\ DOMAIN sessions' \subseteq DOMAIN sessions \cup {s}
      /\ \A t \in DOMAIN sessions \ DOMAIN sessions' :
            c \in DOMAIN generated /\ t = generated[c]
  BY <1>3, <1>6
<1> QED BY <1>1, <1>7, MintKeepsOthers

\* A session that is gone does not come back.
LEMMA GoneStays ==
    ASSUME OneByOne, Roomy, MiddlewareInv, AnnouncedInv, NEW r \in Requests, StepOf(r),
           NEW s \in SessionIds, Gone(s)
    PROVE  Gone(s)'
<1>1. \A p \in Requests \ {r} : req'[p] = req[p] /\ p \notin InFlight
  BY OneAtWork
<1>2. /\ s \in GeneratedIds /\ s \in issued /\ s # fallbackSession
      /\ s \notin DerivedIds /\ s # NoSession
      /\ \A c \in DOMAIN generated : generated[c] # s
      /\ s \notin DOMAIN sessions
  BY StoreAssumption DEF Gone, Retired, MiddlewareInv, StoreInv
<1>3. SUFFICES /\ s \in issued' /\ s # fallbackSession' /\ s \notin DOMAIN sessions'
               /\ \A c \in DOMAIN generated' : generated'[c] # s
               /\ req'[r].attribution.session # s
  BY <1>1 DEF Gone, Retired, InFlight, Session
<1>4. CASE ~ResolveSession(r)
  <2>1. Session(r) # s
    <3>1. CASE r \in InFlight
      BY <3>1 DEF Gone, Retired
    <3>2. CASE r \notin InFlight
      <4>1. At(r, "idle")
        BY <3>2 DEF InFlight, StepOf, WrapperStep, HandlerStep, Begin, BeginOther, At,
           ResolveSession, Stamp, Lookup, IdentifyNobody, Update, UpdatePanics,
           CallDownstream, Finish, FinishInitialize, FinishPanics, EmitIdentify, Report,
           Recover, HandlerCapture, BareReturn, HandlerPanics, HandlerReturns
      <4>2. Session(r) = NoSession
        BY <4>1 DEF At, MiddlewareInv, LocalInv, RequestInv, PathOK, Session, IdleRequest,
                    NoAttribution
      <4> QED BY <1>2, <4>2
    <3> QED BY <3>1, <3>2
  <2> QED BY <1>2, <1>4, <2>1, StoreGrows, SessionKept
<1>5. CASE ResolveSession(r)
  <2> PICK c, t : c = req[r].caller /\ t = req'[r].attribution.session
    OBVIOUS
  <2>1. CASE t \in DerivedIds /\ UNCHANGED storeVars
    BY <1>2, <2>1 DEF storeVars
  <2>2. CASE c \in Connections /\ ReuseConnectionSession(c, t)
    BY <1>2, <2>2 DEF ReuseConnectionSession, IsLive, TouchPresent
  <2>3. CASE c \in Connections /\ MintConnectionSession(c, t)
    <3>1. StoreInv
      BY DEF MiddlewareInv
    <3>2. /\ t \in GeneratedIds \ issued /\ issued' = issued \cup {t}
          /\ fallbackSession' = fallbackSession
          /\ DOMAIN sessions' \subseteq {t} \cup DOMAIN sessions
          /\ \A d \in DOMAIN generated' :
                generated'[d] = t \/ (d \in DOMAIN generated /\ generated'[d] = generated[d])
      BY <2>3, <3>1, MintReplaces
    <3> QED BY <1>2, <3>2
  <2>4. CASE GeneratedFallback(t)
    BY <1>2, <2>4 DEF GeneratedFallback, KeepFallbackSession, RollFallbackSession, Fresh
  <2> QED BY <1>5, <2>1, <2>2, <2>3, <2>4, SessionStep DEF ConnectionSession
<1> QED BY <1>4, <1>5

\* Only a connection's own request loses a session, and nobody is left in it.
LEMMA LostIsGone ==
    ASSUME OneByOne, Roomy, MiddlewareInv, Unshared, AnnouncedInv, NEW r \in Requests,
           StepOf(r), NEW s \in DOMAIN sessions, s \notin DOMAIN sessions'
    PROVE  Gone(s)' /\ ResolveSession(r)
<1>1. \A p \in Requests \ {r} : req'[p] = req[p] /\ p \notin InFlight
  BY OneAtWork
<1>2. ResolveSession(r)
  BY StoreGrows
<1> PICK c, t : c = req[r].caller /\ t = req'[r].attribution.session
  OBVIOUS
<1>3. c \in Connections /\ MintConnectionSession(c, t)
  BY <1>2, SessionStep DEF ConnectionSession, ReuseConnectionSession, TouchPresent,
     GeneratedFallback, KeepFallbackSession, RollFallbackSession, storeVars
<1>a. StoreInv
  BY DEF MiddlewareInv
<1>4. /\ t \in GeneratedIds \ issued /\ issued' = issued \cup {t}
      /\ fallbackSession' = fallbackSession
      /\ c \in DOMAIN generated /\ s = generated[c]
      /\ \A d \in DOMAIN generated' :
            \/ d = c /\ generated'[d] = t
            \/ d # c /\ d \in DOMAIN generated /\ generated'[d] = generated[d]
  BY <1>3, <1>a, MintReplaces
<1>5. s \in issued /\ s # fallbackSession
  BY <1>4, StoreAssumption DEF MiddlewareInv, StoreInv, Consistent, WellTyped, HeldIds,
     Unshared
<1>6. \A d \in DOMAIN generated : generated[d] = s => d = c
  BY <1>4 DEF MiddlewareInv, StoreInv, Consistent, Paired
<1> QED BY <1>1, <1>2, <1>4, <1>5, <1>6 DEF Gone, Retired, InFlight, Session

\* What an answer changes is pending from then on, and nothing else is.
LEMMA UpdateIsPending ==
    ASSUME PropertiesFit, MiddlewareInv, NEW r \in Requests, PublishOK(req[r]), Update(r)
    PROVE  LET s     == Session(r)
               known == StateOf(sessions, s).identity
           IN  /\ r \in InFlight /\ ~Pending(req[r])
               /\ PublishOK(req'[r]) /\ "identify" \notin req'[r].sent
               /\ s \in DOMAIN sessions'
               /\ req'[r].publish <=>
                     known = NoIdentity \/ sessions'[s].identity # known
<1> DEFINE s == Session(r)
           known == StateOf(sessions, s).identity
<1>1. PICK answer \in Answers :
         /\ UpdateIdentity(s, answer)
         /\ Goto(r, [req[r] EXCEPT
                        !.pc = AfterIdentity(r),
                        !.answer = answer,
                        !.attribution.identity = MergedIdentity(known, answer),
                        !.publish = Publishes(s, answer),
                        !.changed = @ \/ Publishes(s, answer)])
  BY DEF Update
<1>2. /\ req[r] \in RequestStates
      /\ req[r].pc = "identify"
      /\ ~req[r].changed /\ ~req[r].publish /\ "identify" \notin req[r].sent
  BY DEF Update, At, MiddlewareInv, LocalInv, RequestInv, AnswersOK, PublishOK, Before
<1>3. /\ req'[r].publish = Publishes(s, answer)
      /\ req'[r].changed = (req[r].changed \/ Publishes(s, answer))
      /\ req'[r].sent = req[r].sent
  BY <1>1, <1>2 DEF Goto, MiddlewareInv, RequestStates
<1>4. sessions'[s].identity = MergedIdentity(known, answer)
  <2>1. req'[r].attribution.identity = MergedIdentity(known, answer)
    BY <1>1, <1>2 DEF Goto, MiddlewareInv, RequestStates, Attributions
  <2> QED BY <2>1, UpdateSettles
<1>5. s \in DOMAIN sessions'
  BY <1>1 DEF UpdateIdentity, WriteSession, TouchSession, Put
<1>6. Publishes(s, answer) <=> known = NoIdentity \/ MergedIdentity(known, answer) # known
  <2>1. known \in Identities \cup {NoIdentity} /\ answer \in Identities
    BY <1>2, StateOfType, SnapshotsType, MiddlewareAssumption
       DEF MiddlewareInv, LocalInv, HeldIn, HasSession, Session, SessionStates
  <2>2. MergedIdentity(known, answer) = MergeIdentity(known, answer)
    BY <2>1, MergeIdentityType, ClonesFit DEF MergedIdentity
  <2> QED BY <2>2 DEF Publishes
<1> HIDE DEF s, known
<1> QED BY <1>2, <1>3, <1>4, <1>5, <1>6 DEF InFlight, Pending, PublishOK, s, known

\* An identity a session is left with differs from the one announced last only while it
\* is pending.
LEMMA AnnouncedStep ==
    ASSUME OneByOne, Roomy, PropertiesFit, MiddlewareInv, Unshared, AnnouncedInv,
           NEW r \in Requests, StepOf(r)
    PROVE  AnnouncedInv'
<1>1. \A p \in Requests \ {r} : req'[p] = req[p] /\ p \notin InFlight
  BY OneAtWork
<1>2. \A p \in Requests : PublishOK(req[p])
  BY DEF AnnouncedInv
<1>3. \A p \in Requests \ {r} : ~Pending(req[p])
  BY <1>1, <1>2, PendingAtWork
<1>4. (\A p, q \in InFlight : p = q)'
  BY <1>1 DEF InFlight
<1>5. /\ lastIdentify \in [SessionIds -> Identities \cup {NoIdentity}]
      /\ Pending(req[r]) => PendingOK(r)
      /\ \A s \in SessionIds : lastIdentify[s] # NoIdentity => AnnouncedOK(s)
  BY DEF MiddlewareInv, AnnouncedInv
<1>6. CASE EmitIdentify(r)
  <2> DEFINE s == Session(r)
  <2>1. /\ Pending(req[r])
        /\ req'[r] = [req[r] EXCEPT !.sent = @ \cup {"identify"}]
        /\ lastIdentify' = [lastIdentify EXCEPT ![s] = req[r].attribution.identity]
        /\ sessions' = sessions
    BY <1>6 DEF EmitIdentify, Goto, Pending, storeVars, MiddlewareInv
  <2>2. PublishOK(req'[r]) /\ ~Pending(req'[r])
    <3>1. req[r] \in RequestStates
      BY DEF MiddlewareInv
    <3> QED BY <1>2, <2>1, <3>1 DEF PublishOK, Pending, RequestStates
  <2>3. ASSUME NEW t \in SessionIds, lastIdentify'[t] # NoIdentity
        PROVE  AnnouncedOK(t)'
    <3>1. CASE t = s
      BY <1>5, <2>1, <3>1 DEF PendingOK, AnnouncedOK, Gone
    <3>2. CASE t # s
      <4>1. AnnouncedOK(t)
        BY <1>5, <2>1, <2>3, <3>2
      <4>2. lastIdentify'[t] = lastIdentify[t]
        BY <1>5, <2>1, <3>2
      <4>3. CASE t \in DOMAIN sessions
        BY <1>3, <2>1, <3>2, <4>1, <4>2, <4>3 DEF AnnouncedOK, Gone
      <4>4. CASE t \notin DOMAIN sessions
        BY <4>1, <4>4, GoneStays DEF AnnouncedOK, Gone
      <4> QED BY <4>3, <4>4
    <3> QED BY <3>1, <3>2
  <2> QED BY <1>1, <1>2, <1>3, <1>4, <2>2, <2>3 DEF AnnouncedInv
<1>7. CASE ~EmitIdentify(r)
  <2>1. lastIdentify' = lastIdentify
    BY <1>7 DEF StepOf, WrapperStep, HandlerStep, Begin, BeginOther, ResolveSession, Stamp,
       Lookup, IdentifyNobody, Update, UpdatePanics, CallDownstream, Finish,
       FinishInitialize, FinishPanics, EmitIdentify, Report, Recover,
       HandlerCapture, BareReturn, HandlerPanics, HandlerReturns
  <2>2. ASSUME NEW s \in SessionIds, lastIdentify[s] # NoIdentity, s \notin DOMAIN sessions'
        PROVE  AnnouncedOK(s)'
    <3>1. CASE s \in DOMAIN sessions
      BY <2>2, <3>1, LostIsGone DEF Gone, AnnouncedOK
    <3>2. CASE s \notin DOMAIN sessions
      BY <1>5, <2>2, <3>2, GoneStays DEF Gone, AnnouncedOK
    <3> QED BY <3>1, <3>2
  <2>3. ASSUME NEW s \in SessionIds, lastIdentify[s] # NoIdentity, s \in DOMAIN sessions'
        PROVE  s \in DOMAIN sessions
    BY <1>5, <2>3, GoneStays DEF Gone, AnnouncedOK
  <2>4. CASE ~Update(r)
    <3>1. /\ PublishOK(req'[r])
          /\ Pending(req'[r]) <=> Pending(req[r])
          /\ Pending(req[r]) => req'[r].attribution = req[r].attribution
      BY <1>2, <1>7, <2>4, PublishStep
    <3>2. \A t \in DOMAIN sessions' : IdentityKept(t)
      BY <2>4, OthersKeepIdentities
    <3>3. Pending(req'[r]) => PendingOK(r)'
      <4> SUFFICES ASSUME Pending(req'[r]) PROVE PendingOK(r)'
        OBVIOUS
      <4>1. /\ PendingOK(r) /\ req'[r].attribution = req[r].attribution
            /\ req[r].pc \notin Before
        BY <1>2, <1>5, <3>1, PendingAtWork
      <4>2. Session(r) \in DOMAIN sessions'
        BY <4>1, LostIsGone DEF PendingOK, ResolveSession, At, Before
      <4> QED BY <2>1, <3>2, <4>1, <4>2 DEF PendingOK, IdentityKept, StateOf, Session
    <3>4. ASSUME NEW s \in SessionIds, lastIdentify[s] # NoIdentity, s \in DOMAIN sessions'
          PROVE  AnnouncedOK(s)'
      <4>1. s \in DOMAIN sessions /\ AnnouncedOK(s)
        BY <1>5, <2>3, <3>4
      <4>2. sessions'[s].identity = sessions[s].identity
        BY <3>2, <3>4, <4>1 DEF IdentityKept, StateOf
      <4>3. CASE sessions[s].identity = lastIdentify[s]
        BY <2>1, <3>4, <4>2, <4>3 DEF AnnouncedOK, Gone
      <4>4. CASE Pending(req[r]) /\ Session(r) = s
        BY <3>1, <3>4, <4>4 DEF AnnouncedOK, Gone, Session
      <4> QED BY <1>3, <4>1, <4>3, <4>4 DEF AnnouncedOK, Gone
    <3> QED BY <1>1, <1>2, <1>3, <1>4, <2>1, <2>2, <3>1, <3>3, <3>4 DEF AnnouncedInv
  <2>5. CASE Update(r)
    <3> DEFINE u == Session(r)
               known == StateOf(sessions, u).identity
               n == req'[r]
    <3>1. /\ r \in InFlight /\ ~Pending(req[r])
          /\ PublishOK(n) /\ "identify" \notin n.sent
          /\ u \in DOMAIN sessions'
          /\ n.publish <=> known = NoIdentity \/ sessions'[u].identity # known
      BY <1>2, <2>5, UpdateIsPending
    <3>2. /\ n.attribution.session = u
          /\ n.attribution.identity \in Identities
          /\ sessions'[u].identity = n.attribution.identity
          /\ \A t \in DOMAIN sessions' \ {u} : IdentityKept(t)
      BY <2>5, UpdateSettles
    <3>3. ASSUME NEW s \in SessionIds, lastIdentify[s] # NoIdentity, s \in DOMAIN sessions'
          PROVE  s \in DOMAIN sessions /\ sessions[s].identity = lastIdentify[s]
      BY <1>3, <1>5, <2>3, <3>1, <3>3 DEF AnnouncedOK, Gone
    <3>4. u \in SessionIds
      BY <3>1, StoreStepInv, StepUsesStore DEF MiddlewareInv, StoreInv, Consistent, WellTyped
    <3>5. Pending(n) => PendingOK(r)'
      <4> SUFFICES ASSUME Pending(n), lastIdentify[u] # NoIdentity
                   PROVE  lastIdentify[u] # n.attribution.identity
        BY <2>1, <3>1, <3>2, <3>4, IdentityAssumption DEF PendingOK, Session
      <4>1. known = lastIdentify[u]
        BY <3>1, <3>3, <3>4 DEF StateOf
      <4> QED BY <3>1, <3>2, <4>1 DEF Pending
    <3>6. ASSUME NEW s \in SessionIds, lastIdentify[s] # NoIdentity, s \in DOMAIN sessions'
          PROVE  AnnouncedOK(s)'
      <4>1. s \in DOMAIN sessions /\ sessions[s].identity = lastIdentify[s]
        BY <3>3, <3>6
      <4>2. CASE s # u
        BY <2>1, <3>2, <3>6, <4>1, <4>2 DEF AnnouncedOK, Gone, IdentityKept, StateOf
      <4>3. CASE s = u /\ n.publish
        BY <3>1, <3>2, <4>3 DEF AnnouncedOK, Gone, Pending, Session
      <4>4. CASE s = u /\ ~n.publish
        BY <2>1, <3>1, <4>1, <4>4 DEF AnnouncedOK, Gone, StateOf
      <4> QED BY <4>2, <4>3, <4>4
    <3> QED BY <1>1, <1>2, <1>3, <1>4, <2>1, <2>2, <3>1, <3>5, <3>6 DEF AnnouncedInv
  <2> QED BY <2>4, <2>5
<1> QED BY <1>6, <1>7

\* While requests come one at a time, the store has room and all the properties that
\* identities can have fit into one, two $identify events in a row for a session carry
\* different identities, whichever connections' sessions expire meanwhile.  With more
\* properties than fit, the merge is stored cut, and the same answer changes it again.
THEOREM IdentifiesDiffer ==
    OneByOne /\ Roomy /\ PropertiesFit => (Spec => NoRepeatedIdentify)
<1> SUFFICES ASSUME OneByOne, Roomy, PropertiesFit PROVE Spec => NoRepeatedIdentify
  OBVIOUS
<1>1. Init => Unshared /\ AnnouncedInv
  <2> SUFFICES ASSUME Init PROVE Unshared /\ AnnouncedInv
    OBVIOUS
  <2>1. Unshared
    BY StoreAssumption DEF Init, StoreInit, EmptyMap, Unshared, SessionsNotShared, Session,
       IdleRequest, NoAttribution, SessionIds
  <2>2. AnnouncedInv
    BY DEF Init, AnnouncedInv, InFlight, IdleRequest, PublishOK, Pending
  <2> QED BY <2>1, <2>2
<1>2. MiddlewareInv /\ Unshared /\ AnnouncedInv /\ [Next]_vars => Unshared' /\ AnnouncedInv'
  <2> SUFFICES ASSUME MiddlewareInv, Unshared, AnnouncedInv, [Next]_vars
               PROVE  AnnouncedInv'
    BY UnsharedStep
  <2>1. CASE Pass \/ UNCHANGED vars
    BY <2>1 DEF Pass, Tick, vars, AnnouncedInv, InFlight, PublishOK, Pending, PendingOK,
                AnnouncedOK, Gone, Retired, Session
  <2>2. ASSUME NEW r \in Requests, StepOf(r) PROVE AnnouncedInv'
    BY <2>2, AnnouncedStep
  <2> QED BY <2>1, <2>2 DEF Next, StepOf
<1>3. MiddlewareInv /\ AnnouncedInv /\ [Next]_vars =>
         [\A r \in Requests :
            (req[r].sent # req'[r].sent /\ "identify" \in req'[r].sent \ req[r].sent) =>
               lastIdentify[Session(r)] # req[r].attribution.identity]_vars
  <2> SUFFICES ASSUME MiddlewareInv, AnnouncedInv, [Next]_vars, NEW p \in Requests,
                      "identify" \in req'[p].sent \ req[p].sent
               PROVE  lastIdentify[Session(p)] # req[p].attribution.identity
    OBVIOUS
  <2>1. CASE Pass \/ UNCHANGED vars
    BY <2>1 DEF Pass, vars
  <2>2. ASSUME NEW r \in Requests, StepOf(r)
        PROVE  lastIdentify[Session(p)] # req[p].attribution.identity
    <3>1. PublishOK(req[r]) /\ (Pending(req[r]) => PendingOK(r))
      BY DEF AnnouncedInv
    <3>2. p = r
      BY <2>2, OneRequest DEF MiddlewareInv
    <3>3. CASE EmitIdentify(r)
      BY <3>1, <3>2, <3>3 DEF EmitIdentify, Pending, PendingOK
    <3>4. ~Update(r)
      BY <3>1, <3>2, UpdateIsPending
    <3> QED BY <2>2, <3>1, <3>2, <3>3, <3>4, PublishStep
  <2> QED BY <2>1, <2>2 DEF Next, StepOf
<1> QED BY <1>1, <1>2, <1>3, MiddlewareInvariant, PTL DEF Spec, NoRepeatedIdentify
=============================================================================
