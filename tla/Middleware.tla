----------------------------- MODULE Middleware -----------------------------
(***************************************************************************)
(* One Analytics wrapping one chain of MCP handlers, once or several times *)
(* over: requests run concurrently through Middleware and handleToolCall,  *)
(* resolve a session and an identity in the shared store, call downstream, *)
(* emit their events and answer the caller.  Between two critical sections *)
(* of a.mu a request may be overtaken by any other.                        *)
(*                                                                         *)
(* A panic of the wrapper's own code unwinds through the deferred          *)
(* functions of handleToolCall (stage "unwind") into the recover of        *)
(* Middleware (pc "recover").  The context a layer calls downstream with   *)
(* carries its mark, on which the layers below only pass the request on;   *)
(* the context the recover calls downstream with does not.                 *)
(***************************************************************************)
EXTENDS SessionStore

CONSTANTS
    Requests,         \* one request each
    Kinds,            \* the kinds of request that arrive
    Callers,          \* how requests reach the server, see SessionOf
    Conversations,    \* the session a request's conversation id derives, or NoSession
    Answers,          \* what the Identify callback may return, besides nothing
    Layers,           \* how often Middleware of the same Analytics was added
    MaxInFlight       \* bound on the number of requests at work

\* "request" is any captured method but tools/call and initialize; "probe" is a
\* tools/call for the missing-capability name that no listed tool owns; "other" is
\* a method that has no event.
AllKinds == {"request", "initialize", "tool", "probe", "other"}

ASSUME MiddlewareAssumption ==
    /\ Kinds \subseteq AllKinds
    /\ Callers \subseteq DerivedIds \cup Connections \cup {NoConnection}
    /\ Conversations \subseteq DerivedIds \cup {NoSession}
    /\ Answers \subseteq Snapshots
    /\ Layers \in Nat \ {0}
    /\ MaxInFlight \in Nat

VARIABLES
    req,              \* the local state of each request
    lastIdentify      \* the identity of the last $identify emitted per session

vars == <<sessions, generated, touchSequence, fallbackSession, lastActivity,
          clock, issued, req, lastIdentify>>

\* What downstream does with a request: "unknown" is the SDK's unknown-tool error.
Outcomes == {"result", "toolError", "error", "unknown", "panic"}

\* Only tools/call has failed results and unknown tools.
OutcomesOf(kind) ==
    IF kind \in {"tool", "probe"} THEN Outcomes ELSE {"result", "error", "panic"}

Attributions == [session  : SessionIds \cup {NoSession},
                 identity : Identities \cup {NoIdentity}]
NoAttribution == [session |-> NoSession, identity |-> NoIdentity]

\* What a request does next; "handler" is downstream at work.
Steps == {"idle", "session", "stamp", "lookup", "identify", "downstream", "handler",
          "finish", "emit", "recover", "done"}

\* Which code runs: up to the call of downstream, after it, the deferred function of
\* a panic, or none of the wrapper's.
Stages == {"prepare", "finish", "unwind", "bare"}

Raisers == {"none", "handler", "wrapper"}

Events == {"identify", "main", "exception", "custom"}

\* A request has no kind until it arrives, no outcome until downstream is done and
\* no reply until it is answered.
LocalKinds == AllKinds \cup {"none"}
LocalOutcomes == Outcomes \cup {"none"}
Replies == Outcomes \cup {"none", "virtual"}

RequestStates ==
    [pc           : Steps,
     kind         : LocalKinds,
     caller       : DerivedIds \cup Connections \cup {NoConnection},
     conversation : DerivedIds \cup {NoSession},
     stage        : Stages,
     layer        : 1..Layers,    \* the layer whose code runs, or last ran
     attribution  : Attributions,
     answer       : Identities \cup {NoIdentity},
     publish      : BOOLEAN,      \* the local variable identify is not nil
     changed      : BOOLEAN,      \* history: the request changed a stored identity
     calls        : Nat,          \* history: how often downstream was called
     outcome      : LocalOutcomes,
     missing      : BOOLEAN,
     raised       : Raisers,
     context      : Attributions, \* the attribution in the handler's context
     captured     : Attributions, \* history: that of the handler's own event
     sent         : SUBSET Events,
     reports      : Nat,          \* history: how often its main event was emitted
     reply        : Replies]

IdleRequest ==
    [pc |-> "idle", kind |-> "none", caller |-> NoConnection,
     conversation |-> NoSession, stage |-> "prepare", layer |-> 1,
     attribution |-> NoAttribution, answer |-> NoIdentity, publish |-> FALSE, changed |-> FALSE, calls |-> 0,
     outcome |-> "none", missing |-> FALSE, raised |-> "none",
     context |-> NoAttribution, captured |-> NoAttribution, sent |-> {},
     reports |-> 0, reply |-> "none"]

Init ==
    /\ StoreInit
    /\ req = [r \in Requests |-> IdleRequest]
    /\ lastIdentify = [s \in SessionIds |-> NoIdentity]

InFlight == {r \in Requests : req[r].pc \notin {"idle", "done"}}

\* Request r moves on to local state state.
Goto(r, state) == req' = [req EXCEPT ![r] = state]

At(r, pc) == req[r].pc = pc

Session(r) == req[r].attribution.session

IsProbe(r) == req[r].kind = "probe"
-----------------------------------------------------------------------------
\* A request enters Middleware.
Begin(r) ==
    /\ At(r, "idle")
    /\ Cardinality(InFlight) < MaxInFlight
    /\ \E kind \in Kinds \ {"other"}, caller \in Callers, conversation \in Conversations :
          /\ kind \notin {"tool", "probe"} => conversation = NoSession
          /\ Goto(r, [req[r] EXCEPT !.pc = "session", !.kind = kind,
                                    !.caller = caller, !.conversation = conversation])
    /\ UNCHANGED <<storeVars, lastIdentify>>

\* A method without an event goes straight downstream.
BeginOther(r) ==
    /\ At(r, "idle")
    /\ Cardinality(InFlight) < MaxInFlight
    /\ "other" \in Kinds
    /\ Goto(r, [req[r] EXCEPT !.pc = "handler", !.kind = "other", !.stage = "bare",
                              !.calls = @ + 1])
    /\ UNCHANGED <<storeVars, lastIdentify>>

\* The conversation id resolveAttribution is called with: a probe's is withheld
\* until downstream has disowned the tool.
UsesConversation(r) ==
    /\ req[r].conversation # NoSession
    /\ req[r].kind = "tool" \/ req[r].stage = "finish"

\* The session resolveAttribution picks, with what picking it does to the store.
SessionOf(r, s) ==
    IF UsesConversation(r)
    THEN s = req[r].conversation /\ UNCHANGED storeVars
    ELSE \/ req[r].caller \in DerivedIds /\ s = req[r].caller /\ UNCHANGED storeVars
         \/ req[r].caller \in Connections /\ ConnectionSession(req[r].caller, s)
         \/ req[r].caller = NoConnection /\ GeneratedFallback(s)

ResolveSession(r) ==
    /\ At(r, "session")
    /\ \E s \in SessionIds :
          /\ SessionOf(r, s)
          /\ Goto(r, [req[r] EXCEPT
                         !.pc = "stamp",
                         !.attribution = [session |-> s, identity |-> NoIdentity]])
    /\ UNCHANGED lastIdentify

\* The end of resolveAttribution.  A probe is not identified before downstream.
Stamp(r) ==
    /\ At(r, "stamp")
    /\ StampStoredAttribution(Session(r))
    /\ Goto(r, [req[r] EXCEPT
                   !.pc = IF IsProbe(r) /\ req[r].stage = "prepare"
                          THEN "downstream" ELSE "lookup"])
    /\ UNCHANGED lastIdentify

-----------------------------------------------------------------------------
\* Mutant: what the session holds is attributed, instead of its identity.
LookupState(r) ==
    /\ At(r, "lookup")
    /\ IdentityForSession(Session(r))
    /\ Goto(r, [req[r] EXCEPT
                   !.pc = "identify",
                   !.publish = FALSE,
                   !.attribution.identity = StateOf(sessions, Session(r))])
    /\ UNCHANGED lastIdentify

\* resolveIdentity, up to the callback.
Lookup(r) ==
    /\ At(r, "lookup")
    /\ IdentityForSession(Session(r))
    /\ Goto(r, [req[r] EXCEPT
                   !.pc = "identify",
                   !.publish = FALSE,
                   !.attribution.identity = StateOf(sessions, Session(r)).identity])
    /\ UNCHANGED lastIdentify

\* Where a request goes once its identity is resolved.
AfterIdentity(r) ==
    CASE req[r].stage = "prepare" -> "downstream"
      [] req[r].stage = "finish"  -> "finish"
      [] req[r].stage = "unwind"  -> "emit"

\* There is no Identify callback, or it returned nothing, an error, or panicked.
IdentifyNobody(r) ==
    /\ At(r, "identify")
    /\ Goto(r, [req[r] EXCEPT !.pc = AfterIdentity(r)])
    /\ UNCHANGED <<storeVars, lastIdentify>>

\* Mutant: every identity is published.
PublishesAlways(s, next) == TRUE

\* updateIdentity publishes what is new or has changed.
Publishes(s, next) ==
    LET known == StateOf(sessions, s).identity
    IN  known = NoIdentity \/ known # MergeIdentity(known, next)

\* Mutant: the identity is written without touching the session.
UpdateUntouched(r) ==
    /\ At(r, "identify")
    /\ Session(r) \in DOMAIN sessions
    /\ \E answer \in Answers :
          /\ sessions' = [sessions EXCEPT ![Session(r)].identity = answer]
          /\ Goto(r, [req[r] EXCEPT !.pc = AfterIdentity(r), !.answer = answer])
    /\ UNCHANGED <<generated, touchSequence, fallbackSession, lastActivity, clock,
                   issued, lastIdentify>>

\* Mutant: the request keeps the identity it looked up before the callback.
UpdateKeepsPrevious(r) ==
    /\ At(r, "identify")
    /\ \E answer \in Answers :
          /\ UpdateIdentity(Session(r), answer)
          /\ Goto(r, [req[r] EXCEPT
                         !.pc = AfterIdentity(r),
                         !.answer = answer,
                         !.publish = Publishes(Session(r), answer),
                         !.changed = @ \/ Publishes(Session(r), answer)])
    /\ UNCHANGED lastIdentify

\* The callback returned an identity; what is left of the call is updateIdentity.
Update(r) ==
    /\ At(r, "identify")
    /\ \E answer \in Answers :
          LET s         == Session(r)
              publishes == Publishes(s, answer)
          IN  /\ UpdateIdentity(s, answer)
              /\ Goto(r, [req[r] EXCEPT
                             !.pc = AfterIdentity(r),
                             !.answer = answer,
                             !.attribution.identity =
                                 MergedIdentity(StateOf(sessions, s).identity, answer),
                             !.publish = publishes,
                             !.changed = @ \/ publishes])
    /\ UNCHANGED lastIdentify

\* mergeIdentity panicked.  Before downstream no deferred function of the request
\* is in place yet; after it that of handleToolCall is, and resolves the identity
\* again; a panic within that one leaves at once.
UpdatePanics(r) ==
    /\ At(r, "identify")
    /\ \E answer \in Answers :
          /\ UpdateIdentityPanics(Session(r), answer)
          /\ Goto(r, [req[r] EXCEPT
                         !.raised = "wrapper",
                         !.answer = answer,
                         !.pc     = IF req[r].stage = "finish" THEN "lookup" ELSE "recover",
                         !.stage  = IF req[r].stage = "finish" THEN "unwind" ELSE @])
    /\ UNCHANGED lastIdentify

-----------------------------------------------------------------------------
\* Mutant: the context goes downstream without the attribution.
CallWithoutAttribution(r) ==
    /\ At(r, "downstream")
    /\ Goto(r, [req[r] EXCEPT !.pc = "handler", !.calls = @ + 1])
    /\ UNCHANGED <<storeVars, lastIdentify>>

\* guardedNext: the handler's context carries the attribution resolved so far.
CallDownstream(r) ==
    /\ At(r, "downstream")
    /\ Goto(r, [req[r] EXCEPT !.pc = "handler",
                              !.calls = @ + 1,
                              !.context = req[r].attribution])
    /\ UNCHANGED <<storeVars, lastIdentify>>

\* The handler calls Capture with its context: the fallback session is used up to
\* now, and the attribution of the context, if any, decides.
HandlerCapture(r) ==
    /\ At(r, "handler")
    /\ "custom" \notin req[r].sent
    /\ \E s \in GeneratedIds :
          /\ GeneratedFallback(s)
          /\ Goto(r, [req[r] EXCEPT
                         !.sent = @ \cup {"custom"},
                         !.captured = IF req[r].context = NoAttribution
                                      THEN [session |-> s, identity |-> NoIdentity]
                                      ELSE req[r].context])
    /\ UNCHANGED lastIdentify

\* The handler is done, with a request that went around the instrumentation.
BareReturn(r) ==
    /\ At(r, "handler")
    /\ req[r].stage = "bare"
    /\ \E outcome \in OutcomesOf(req[r].kind) :
          Goto(r, [req[r] EXCEPT
                      !.pc = "done", !.outcome = outcome, !.reply = outcome,
                      !.raised = IF outcome = "panic" THEN "handler" ELSE @])
    /\ UNCHANGED <<storeVars, lastIdentify>>

\* Mutant: the deferred function panics on before it emits.
PanicsSilently(r) ==
    /\ At(r, "handler")
    /\ req[r].stage = "prepare"
    /\ Goto(r, [req[r] EXCEPT !.outcome = "panic", !.raised = "handler",
                              !.stage = "unwind", !.pc = "recover"])
    /\ UNCHANGED <<storeVars, lastIdentify>>

\* The handler panics: the deferred function identifies a probe before it emits.
HandlerPanics(r) ==
    /\ At(r, "handler")
    /\ req[r].stage = "prepare"
    /\ Goto(r, [req[r] EXCEPT !.outcome = "panic", !.raised = "handler",
                              !.stage = "unwind",
                              !.pc = IF IsProbe(r) THEN "lookup" ELSE "emit"])
    /\ UNCHANGED <<storeVars, lastIdentify>>

\* Mutant: a probe is taken for the virtual tool whatever downstream answered.
ReturnsVirtual(r) ==
    /\ At(r, "handler")
    /\ req[r].stage = "prepare"
    /\ \E outcome \in OutcomesOf(req[r].kind) \ {"panic"} :
          Goto(r, [req[r] EXCEPT !.outcome = outcome,
                                 !.missing = IsProbe(r),
                                 !.stage   = "finish",
                                 !.pc      = IF IsProbe(r) THEN "session" ELSE "finish"])
    /\ UNCHANGED <<storeVars, lastIdentify>>

\* The handler returns.  Only a probe tells the unknown-tool error from others:
\* it becomes a call of the virtual tool, whose session is resolved anew.
HandlerReturns(r) ==
    /\ At(r, "handler")
    /\ req[r].stage = "prepare"
    /\ \E outcome \in OutcomesOf(req[r].kind) \ {"panic"} :
          LET missing == IsProbe(r) /\ outcome = "unknown"
          IN  Goto(r, [req[r] EXCEPT
                          !.outcome = outcome,
                          !.missing = missing,
                          !.stage = "finish",
                          !.pc = CASE missing                -> "session"
                                   [] ~missing /\ IsProbe(r) -> "lookup"
                                   [] OTHER                  -> "finish"])
    /\ UNCHANGED <<storeVars, lastIdentify>>

\* The rest of the function body once downstream has returned.
Finish(r) ==
    /\ At(r, "finish")
    /\ ~ (req[r].kind = "initialize" /\ req[r].outcome = "result")
    /\ Goto(r, [req[r] EXCEPT !.pc = "emit"])
    /\ UNCHANGED <<storeVars, lastIdentify>>

\* rememberInitialize; a result may come without server fields.
FinishInitialize(r) ==
    /\ At(r, "finish")
    /\ req[r].kind = "initialize" /\ req[r].outcome = "result"
    /\ \E server \in Servers \cup {NoServer} : RememberInitialize(Session(r), server)
    /\ Goto(r, [req[r] EXCEPT !.pc = "emit"])
    /\ UNCHANGED lastIdentify

\* applyConversationResult copies structured content through its marshaler, which
\* is the customer's code and may panic.
FinishPanics(r) ==
    /\ At(r, "finish")
    /\ req[r].kind = "tool" /\ req[r].conversation # NoSession
    /\ req[r].outcome \in {"result", "toolError"}
    /\ Goto(r, [req[r] EXCEPT !.raised = "wrapper", !.stage = "unwind", !.pc = "emit"])
    /\ UNCHANGED <<storeVars, lastIdentify>>

-----------------------------------------------------------------------------
\* Mutant: the unknown-tool error is not replaced.
FinalUnreplaced(r) == req[r].outcome

\* What the caller of handleToolCall or of the lifecycle handler gets.
Final(r) == IF req[r].missing THEN "virtual" ELSE req[r].outcome

\* Mutant: the failure is classified before the answer is replaced.
FailedDownstream(r) ==
    /\ req[r].kind \in {"tool", "probe"}
    /\ req[r].stage = "unwind" \/ req[r].outcome \in {"toolError", "error", "unknown"}

\* The failure emitLifecycle is given, which is what tools/call makes of it.
Failed(r) ==
    /\ req[r].kind \in {"tool", "probe"}
    /\ req[r].stage = "unwind" \/ Final(r) \in {"toolError", "error", "unknown"}

\* emitLifecycle: $identify first, then the event of the request, then $exception.
EmitIdentify(r) ==
    /\ At(r, "emit")
    /\ req[r].publish /\ "identify" \notin req[r].sent
    /\ Goto(r, [req[r] EXCEPT !.sent = @ \cup {"identify"}])
    /\ lastIdentify' = [lastIdentify EXCEPT ![Session(r)] = req[r].attribution.identity]
    /\ UNCHANGED storeVars

\* The other events are private to the request: emit them, and return to the
\* caller or panic on.
Report(r) ==
    /\ At(r, "emit")
    /\ req[r].publish => "identify" \in req[r].sent
    /\ LET events == {"main"} \cup IF Failed(r) THEN {"exception"} ELSE {}
           told   == [req[r] EXCEPT !.sent = @ \cup events, !.reports = @ + 1]
       IN  Goto(r, IF req[r].stage = "unwind"
                   THEN [told EXCEPT !.pc = "recover"]
                   ELSE [told EXCEPT !.pc = "done", !.reply = Final(r)])
    /\ UNCHANGED <<storeVars, lastIdentify>>

\* Mutant: downstream is called again unless it panicked.
RecoverRetries(r) ==
    /\ At(r, "recover")
    /\ Goto(r, IF req[r].outcome # "panic"
               THEN [req[r] EXCEPT !.pc = "handler", !.stage = "bare", !.raised = "none",
                                   !.calls = @ + 1, !.context = NoAttribution]
               ELSE [req[r] EXCEPT !.pc = "done", !.reply = req[r].outcome])
    /\ UNCHANGED <<storeVars, lastIdentify>>

\* Mutant: whatever panics once downstream was called panics on.
RecoverPanics(r) ==
    /\ At(r, "recover")
    /\ Goto(r, IF req[r].calls = 0
               THEN [req[r] EXCEPT !.pc = "handler", !.stage = "bare", !.raised = "none",
                                   !.calls = @ + 1, !.context = NoAttribution]
               ELSE [req[r] EXCEPT !.pc = "done", !.reply = "panic"])
    /\ UNCHANGED <<storeVars, lastIdentify>>

\* The next layer instruments the request from the start, as its own middlewareState
\* has it: a tool it has not listed is a probe when its name is that of the virtual
\* tool, and has no conversation.
NextLayer(r) ==
    \E kind \in {req[r].kind} \cup (IF req[r].kind = "tool" THEN {"probe"} ELSE {}),
       conversation \in {req[r].conversation, NoSession} :
          Goto(r, [IdleRequest EXCEPT
                      !.pc = "session", !.kind = kind, !.caller = req[r].caller,
                      !.conversation = conversation, !.layer = req[r].layer + 1,
                      !.calls = req[r].calls, !.reports = req[r].reports])

\* Mutant: a layer that fails leaves the request to the next one in any case.
RecoverInNextLayer(r) ==
    /\ At(r, "recover")
    /\ IF req[r].layer < Layers
       THEN NextLayer(r)
       ELSE Goto(r, [req[r] EXCEPT !.pc = "done", !.reply = req[r].outcome])
    /\ UNCHANGED <<storeVars, lastIdentify>>

\* The recover of Middleware: downstream has not been called, so call it with the
\* context the request came with, which no layer below takes for visited; it panicked,
\* so panic; or it returned.
Recover(r) ==
    /\ At(r, "recover")
    /\ IF req[r].calls = 0 /\ req[r].layer < Layers
       THEN NextLayer(r)
       ELSE Goto(r, IF req[r].calls = 0
                    THEN [req[r] EXCEPT !.pc = "handler", !.stage = "bare",
                                        !.raised = "none", !.calls = @ + 1,
                                        !.context = NoAttribution]
                    ELSE [req[r] EXCEPT !.pc = "done", !.reply = req[r].outcome])
    /\ UNCHANGED <<storeVars, lastIdentify>>
-----------------------------------------------------------------------------
\* A step of the wrapper, as opposed to one of the handlers it calls.
WrapperStep(r) ==
    \/ ResolveSession(r) \/ Stamp(r)
    \/ Lookup(r) \/ IdentifyNobody(r) \/ Update(r) \/ UpdatePanics(r)
    \/ CallDownstream(r)
    \/ Finish(r) \/ FinishInitialize(r) \/ FinishPanics(r)
    \/ EmitIdentify(r) \/ Report(r) \/ Recover(r)

HandlerStep(r) ==
    HandlerCapture(r) \/ BareReturn(r) \/ HandlerPanics(r) \/ HandlerReturns(r)

Pass == Tick /\ UNCHANGED <<req, lastIdentify>>

Next == Pass \/ \E r \in Requests : Begin(r) \/ BeginOther(r) \/ WrapperStep(r) \/ HandlerStep(r)

Spec == Init /\ [][Next]_vars
-----------------------------------------------------------------------------
MiddlewareTypeOK ==
    /\ StoreTypeOK
    /\ req \in [Requests -> RequestStates]
    /\ lastIdentify \in [SessionIds -> Identities \cup {NoIdentity}]

Done(r) == req[r].pc = "done"

\* Whatever panics and wherever, a request that is answered has been sent
\* downstream once, and none is ever sent twice.
DownstreamOnce ==
    \A r \in Requests : req[r].calls <= 1 /\ (Done(r) => req[r].calls = 1)

\* However many layers instrument a request, it is reported once: twice never, and not
\* at all only if the preparation of every layer panicked, or the identification of a
\* probe did within the deferred function.
ReportedOnce ==
    \A r \in Requests :
        /\ req[r].reports <= 1
        /\ Done(r) /\ req[r].kind # "other" =>
              \/ req[r].reports = 1
              \/ req[r].stage = "bare" /\ req[r].layer = Layers
              \/ req[r].stage = "unwind" /\ IsProbe(r)

\* The caller gets what downstream did, a panic for a panic; only an unknown-tool
\* error on the missing-capability name may become the virtual tool's answer.
ReplyIsDownstreams ==
    \A r \in Requests :
        Done(r) => \/ req[r].reply = req[r].outcome
                   \/ /\ req[r].reply = "virtual"
                      /\ req[r].outcome = "unknown"
                      /\ req[r].kind = "probe"

\* No identity crosses sessions: the distinct id a request is attributed to, or a
\* session remembers, is one that Identify returned for a request of that very
\* session, however requests overlap and sessions come and go.
NamedOn(s) == {req[r].answer.distinctID :
                  r \in {q \in Requests : /\ req[q].answer # NoIdentity
                                         /\ Session(q) = s}}

IdentityIsolation ==
    /\ \A r \in Requests :
          req[r].attribution.identity # NoIdentity =>
             req[r].attribution.identity.distinctID \in NamedOn(Session(r))
    /\ \A s \in DOMAIN sessions :
          sessions[s].identity # NoIdentity =>
             sessions[s].identity.distinctID \in NamedOn(s)

\* A generated session serves one connection only, and never doubles as the
\* fallback session of requests that have none, even after it rolled or expired.
SessionsNotShared ==
    \A p, q \in Requests :
        (Session(p) = Session(q) /\ Session(p) \in GeneratedIds)
            => req[p].caller = req[q].caller

\* A request that changed a session's identity announces it with $identify before
\* it is answered, though the request may be resolved twice or end in a panic.
ChangesAnnounced ==
    \A r \in Requests : Done(r) /\ req[r].changed => "identify" \in req[r].sent

\* A request whose events were emitted has one $exception exactly when the tool
\* failed for its caller.
ExceptionIffToolFailed ==
    \A r \in Requests :
        Done(r) /\ "main" \in req[r].sent =>
            ("exception" \in req[r].sent <=>
                /\ req[r].kind \in {"tool", "probe"}
                /\ req[r].reply \in {"toolError", "error", "unknown", "panic"})

\* An event the handler captures carries the attribution of the request's own, but
\* for a probe's: that one is identified only when downstream has answered.
CaptureInheritsAttribution ==
    \A r \in Requests :
        Done(r) /\ ~IsProbe(r) /\ {"custom", "main"} \subseteq req[r].sent =>
            req[r].captured = req[r].attribution

\* The identity Identify returned for a request is the one its events carry.
AnswerIsAttributed ==
    \A r \in Requests :
        Done(r) /\ req[r].answer # NoIdentity =>
            /\ req[r].attribution.identity # NoIdentity
            /\ req[r].attribution.identity.distinctID = req[r].answer.distinctID

\* A panic of downstream reaches the caller as the value it was raised with.
OriginalPanic ==
    \A r \in Requests :
        Done(r) /\ req[r].reply = "panic" => req[r].raised = "handler"

\* A call of the virtual tool gets the virtual tool's answer.
VirtualAnswered ==
    \A r \in Requests :
        Done(r) /\ req[r].kind = "probe" /\ req[r].outcome = "unknown"
            => req[r].reply = "virtual"

\* Two $identify events in a row for a session carry different identities.
NoRepeatedIdentify ==
    [][\A r \in Requests :
          (req[r].sent # req'[r].sent /\ "identify" \in req'[r].sent \ req[r].sent) =>
             lastIdentify[Session(r)] # req[r].attribution.identity]_vars

\* The wrapper works on the store by its critical sections only, on sessions that
\* exist, so that what holds of SessionStore holds here.
ImplementsSessionStore == StoreSpec
=============================================================================
