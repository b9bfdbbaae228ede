------------------------------ MODULE StoreLock ------------------------------
(***************************************************************************)
(* The mutex a.mu that guards the session store, and the goroutines that   *)
(* take it: requests on their way through one layer of Middleware, and     *)
(* calls of Capture, by goroutines of the server's own or from inside the  *)
(* customer's callbacks and handlers.  SessionStore and Middleware take    *)
(* each critical section for one step; this module shows what they rely    *)
(* on: that the sections exclude each other, that a panic inside one       *)
(* leaves the mutex free, that no customer code runs inside one, and that  *)
(* everybody who wants in gets in.                                         *)
(*                                                                         *)
(* What the sections do to the store is left out.  A goroutine is a stack  *)
(* of calls, the innermost first; customer code that is not configured is  *)
(* customer code that returns at once.                                     *)
(***************************************************************************)
EXTENDS Naturals, Sequences

CONSTANTS
    Goroutines,       \* at work on the same Analytics
    Nobody,           \* holds a.mu when it is free
    MaxDepth,         \* bound on calls of Capture inside one another
    MaxEvents         \* events a request emits at most

ASSUME LockAssumption ==
    /\ Nobody \notin Goroutines
    /\ MaxDepth \in Nat
    /\ MaxEvents \in Nat \ {0}

VARIABLES
    holder,           \* who holds a.mu
    stack             \* the calls each goroutine is in

vars == <<holder, stack>>

\* The functions that lock a.mu, once each.
Sections == {"generatedSessionID", "stampStoredAttribution", "identityForSession",
             "updateIdentity", "rememberInitialize", "fallbackSessionSnapshot"}

\* The customer's code a call waits for.
Customer == {"Identify", "handler", "EventProperties", "BeforeSend"}

\* "request" is any request but initialize and the probe of a tool no listing knows.
Kinds == {"request", "initialize", "probe", "capture"}

Frames == [kind   : Kinds,
           stage  : {"prepare", "finish", "unwind", "bare"},   \* as in Middleware
           pc     : Sections \cup Customer,
           inside : BOOLEAN,           \* it is past Lock and not yet at Unlock
           events : 0..MaxEvents]      \* emitted so far

Working(g) == stack[g] # <<>>
Top(g)     == Head(stack[g])
Inside(g)  == Working(g) /\ Top(g).inside

\* Where resolveAttribution starts: without a session id of the request's own it
\* generates one.
ResolvingAt == {"generatedSessionID", "stampStoredAttribution"}

Call(kind, pc) ==
    [kind |-> kind, stage |-> "prepare", pc |-> pc, inside |-> FALSE, events |-> 0]

Init ==
    /\ holder = Nobody
    /\ stack = [g \in Goroutines |-> <<>>]

Goto(g, frame) == stack' = [stack EXCEPT ![g] = <<frame>> \o Tail(@)]
Return(g)      == stack' = [stack EXCEPT ![g] = Tail(@)]
-----------------------------------------------------------------------------
\* A request arrives, or a goroutine of the server's own captures an event.
Begin(g) ==
    /\ ~Working(g)
    /\ \/ \E kind \in Kinds \ {"capture"}, pc \in ResolvingAt :
             stack' = [stack EXCEPT ![g] = <<Call(kind, pc)>>]
       \/ stack' = [stack EXCEPT ![g] = <<Call("capture", "generatedSessionID")>>]
    /\ UNCHANGED holder

\* a.mu.Lock: not reentrant.
Lock(g) ==
    /\ Working(g) /\ Top(g).pc \in Sections /\ ~Top(g).inside
    /\ holder = Nobody
    /\ holder' = g
    /\ Goto(g, [Top(g) EXCEPT !.inside = TRUE])

\* Where a request goes on once its identity is resolved.
AfterIdentity(frame) == IF frame.stage = "prepare" THEN "handler" ELSE "EventProperties"

\* Where a call goes on after a critical section.
AfterSection(frame) ==
    CASE frame.pc = "generatedSessionID" ->
            IF frame.kind = "capture" THEN "fallbackSessionSnapshot" ELSE "stampStoredAttribution"
      [] frame.pc = "stampStoredAttribution" ->
            IF frame.kind = "probe" /\ frame.stage = "prepare" THEN "handler" ELSE "identityForSession"
      [] frame.pc = "identityForSession" -> "Identify"
      [] frame.pc = "updateIdentity" -> AfterIdentity(frame)
      [] frame.pc = "rememberInitialize" -> "EventProperties"
      [] frame.pc = "fallbackSessionSnapshot" ->
            IF frame.kind = "capture" THEN "EventProperties" ELSE "BeforeSend"

Left(frame) == [frame EXCEPT !.inside = FALSE, !.pc = AfterSection(frame)]

\* Mutant: resolveIdentity calls Identify before it gives the mutex back.
UnlockLate(g) ==
    /\ Inside(g)
    /\ holder' = IF Top(g).pc = "identityForSession" THEN holder ELSE Nobody
    /\ Goto(g, Left(Top(g)))

\* The section is done: a.mu.Unlock, deferred or not.
Unlock(g) ==
    /\ Inside(g)
    /\ holder' = Nobody
    /\ Goto(g, Left(Top(g)))

\* How a request goes on when updateIdentity panics: before downstream in the recover
\* of Middleware, which goes around the instrumentation; after it in the deferred
\* function of handleToolCall, which resolves the identity of a probe again; and a
\* panic in that one ends the call.
Unwind(g) ==
    CASE Top(g).stage = "prepare" ->
            Goto(g, [Top(g) EXCEPT !.inside = FALSE, !.stage = "bare", !.pc = "handler"])
      [] Top(g).stage = "finish" ->
            Goto(g, [Top(g) EXCEPT !.inside = FALSE, !.stage = "unwind",
                                   !.pc = "identityForSession"])
      [] OTHER -> Return(g)

\* Mutant: updateIdentity unlocks at its end instead of deferring it.
PanicLocked(g) ==
    /\ Inside(g) /\ Top(g).pc = "updateIdentity"
    /\ Unwind(g)
    /\ UNCHANGED holder

\* mergeIdentity panics with the mutex held; the deferred Unlock runs first.
Panic(g) ==
    /\ Inside(g) /\ Top(g).pc = "updateIdentity"
    /\ holder' = Nobody
    /\ Unwind(g)
-----------------------------------------------------------------------------
\* Where a request goes on after downstream: rememberInitialize locks unless there is
\* no result; a probe of a tool nobody knows resolves its attribution again, any other
\* its identity.
AfterHandler(kind) ==
    CASE kind = "initialize" -> {"rememberInitialize", "EventProperties"}
      [] kind = "probe"      -> ResolvingAt \cup {"identityForSession"}
      [] OTHER               -> {"EventProperties"}

AfterPanic(kind) == IF kind = "probe" THEN "identityForSession" ELSE "EventProperties"

\* Identify answers, or does not, or panics, which callIdentify recovers.
IdentifyReturns(g) ==
    /\ Top(g).pc = "Identify"
    /\ \E pc \in {"updateIdentity", AfterIdentity(Top(g))} : Goto(g, [Top(g) EXCEPT !.pc = pc])

HandlerReturns(g) ==
    /\ Top(g).pc = "handler" /\ Top(g).stage = "prepare"
    /\ \/ \E pc \in AfterHandler(Top(g).kind) :
             Goto(g, [Top(g) EXCEPT !.stage = "finish", !.pc = pc])
       \/ Goto(g, [Top(g) EXCEPT !.stage = "unwind", !.pc = AfterPanic(Top(g).kind)])

BareReturns(g) ==
    /\ Top(g).pc = "handler" /\ Top(g).stage = "bare"
    /\ Return(g)

\* EventProperties comes first in emitLifecycle, and within captureEvent for Capture.
EventPropertiesReturns(g) ==
    /\ Top(g).pc = "EventProperties"
    /\ LET next == IF Top(g).kind = "capture" THEN "BeforeSend" ELSE "fallbackSessionSnapshot"
       IN  Goto(g, [Top(g) EXCEPT !.pc = next])

\* Mutant: the events of a request are not counted.
BeforeSendReturnsAlways(g) ==
    /\ Top(g).pc = "BeforeSend"
    /\ \/ Return(g)
       \/ /\ Top(g).kind # "capture"
          /\ Goto(g, [Top(g) EXCEPT !.pc = "fallbackSessionSnapshot", !.events = @ + 1])

\* An event is out: the next one of the request, or none.
BeforeSendReturns(g) ==
    /\ Top(g).pc = "BeforeSend"
    /\ \/ Return(g)
       \/ /\ Top(g).kind # "capture" /\ Top(g).events + 1 < MaxEvents
          /\ Goto(g, [Top(g) EXCEPT !.pc = "fallbackSessionSnapshot", !.events = @ + 1])

CustomerReturns(g) ==
    /\ Working(g)
    /\ \/ IdentifyReturns(g) \/ HandlerReturns(g) \/ BareReturns(g)
       \/ EventPropertiesReturns(g) \/ BeforeSendReturns(g)
    /\ UNCHANGED holder

\* The customer's code calls Capture with the context it was given.
CustomerCaptures(g) ==
    /\ Working(g) /\ Top(g).pc \in Customer
    /\ Len(stack[g]) <= MaxDepth
    /\ stack' = [stack EXCEPT ![g] = <<Call("capture", "generatedSessionID")>> \o @]
    /\ UNCHANGED holder

Next ==
    \E g \in Goroutines :
        \/ Begin(g) \/ Lock(g) \/ Unlock(g) \/ Panic(g)
        \/ CustomerReturns(g) \/ CustomerCaptures(g)

\* The scheduler runs a goroutine that can go on; sync.Mutex hands the lock to the
\* longest waiter once it waits too long; and the customer's code returns, however
\* often it calls Capture before it does.
Fairness ==
    \A g \in Goroutines :
        /\ SF_vars(Lock(g))
        /\ WF_vars(Unlock(g) \/ Panic(g))
        /\ \A depth \in 1..MaxDepth + 1 :
              SF_vars(Len(stack[g]) = depth /\ CustomerReturns(g))

Spec == Init /\ [][Next]_vars

FairSpec == Spec /\ Fairness
-----------------------------------------------------------------------------
LockTypeOK ==
    /\ holder \in Goroutines \cup {Nobody}
    /\ stack \in [Goroutines -> Seq(Frames)]

\* The sections exclude each other, and whoever holds the mutex is at work inside one:
\* neither in the customer's code, which may call Capture and so wait for the mutex it
\* holds itself, nor waiting, nor gone, whichever way and wherever a panic unwinds.
HolderIsInside ==
    \A g \in Goroutines :
        /\ Inside(g) <=> holder = g
        /\ Inside(g) => Top(g).pc \in Sections

\* Every request and every Capture returns: nobody waits for a.mu forever, whoever
\* panics inside a section and however the callbacks come back to the store.
EveryCallReturns == \A g \in Goroutines : Working(g) ~> ~Working(g)
=============================================================================
