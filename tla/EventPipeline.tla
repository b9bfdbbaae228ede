--------------------------- MODULE EventPipeline ---------------------------
(***************************************************************************)
(* The way of events from a request, or from a call of Capture, to the     *)
(* PostHog client: emitLifecycle and captureEvent.  EventProperties is     *)
(* asked once; each event in turn is put together, sanitized and bounded,  *)
(* handed to the customer's BeforeSend, copied, and enqueued.              *)
(*                                                                         *)
(* Requests do this concurrently.  What matters of memory is on the heap:  *)
(* the event BeforeSend is given, one of the customer's own that it may    *)
(* return instead, and the copy that goes to the client.  The customer may *)
(* keep any event it has seen and change it at any later time, and so it   *)
(* may the map that EventProperties returned, which is read again for each *)
(* event.                                                                  *)
(***************************************************************************)
EXTENDS Truncation, GoMaps

CONSTANTS
    Requests,         \* whatever produces events: requests and calls of Capture
    Lifecycles,       \* what each of them may turn out to be, see IsLifecycle
    NoLifecycle,      \* that of a request that has not begun
    MaxChanges        \* bound on the events the customer changes behind our back

VARIABLES
    work,             \* the local state of each request
    heap,             \* the events in memory
    queue             \* what the client was handed, in order

pipelineVars == <<work, heap, queue>>

EventKinds == {"identify", "main", "exception", "custom"}

Empty == [p \in {} |-> Leaf("map")]
False == Leaf("scalar")
At(key, v) == [p \in {<<key>>} |-> v]
NoPerson == [distinctID |-> Text(0), set |-> Empty, groups |-> Empty]

\* snapshotIdentity: a person's values are sanitized before the session keeps them.
Snapshot(person) ==
    [distinctID |-> TruncateUTF8(SanitizeString(person.distinctID), MaxStringBytes),
     set        |-> SanitizeValue(person.set, MaxDepth),
     groups     |-> SanitizeValue(person.groups, MaxDepth)]

\* A short text that no reduction changes, and one that is a result of snapshotIdentity.
IsPlain(v) ==
    /\ IsLeaf(v) /\ v.kind = "text"
    /\ v.len <= ShortestLimit /\ v.secret = 0 /\ ~v.binary
IsSnapshot(v) == IsLeaf(v) /\ TruncateUTF8(SanitizeString(v), MaxStringBytes) = v

\* A lifecycle is a tool call, or a call of Capture with a handler's context or
\* without.  An automatic event has a short name, and the body as its parameters and
\* response, which are JSON; a custom event has the caller's name, and the body's
\* entries, which are any values, as its properties.  resolves holds what
\* EventProperties may return, which nil, an error and a panic all make Empty.
IsLifecycle(life) ==
    /\ DOMAIN life = {"custom", "attributed", "identify", "failed", "name", "session",
                      "person", "body", "resolves"}
    /\ IsLeaf(life.name) /\ life.name.kind = "text"
    /\ IsPlain(life.session) /\ IsSnapshot(life.person.distinctID)
    /\ {life.custom, life.attributed, life.identify, life.failed} \subseteq BOOLEAN
    /\ ~life.custom =>
          /\ life.attributed
          /\ \A p \in DOMAIN life.body : life.body[p].kind \in {"map", "slice", "text", "scalar"}
    /\ \A tree \in {life.body, life.person.set, life.person.groups} \cup life.resolves :
          IsTree(tree)

ASSUME PipelineAssumption ==
    /\ MaxChanges \in Nat
    /\ \A r \in Requests : \A life \in Lifecycles[r] : IsLifecycle(life)

\* The events a lifecycle emits, in their order.
Plan(life) ==
    IF life.custom THEN <<"custom">>
    ELSE IF life.identify
         THEN IF life.failed THEN <<"identify", "main", "exception">> ELSE <<"identify", "main">>
         ELSE IF life.failed THEN <<"main", "exception">> ELSE <<"main">>
-----------------------------------------------------------------------------
\* The tree under a key, with the container it is in; and the properties of b put
\* over those of a.
Under(key, tree) ==
    [p \in {<<key>>} \cup {<<key>> \o q : q \in DOMAIN tree} |->
        IF Len(p) = 1 THEN Leaf("map") ELSE tree[Tail(p)]]

Has(tree, key) == \E p \in DOMAIN tree : p[1] = key
Overlay(a, b)  ==
    [p \in DOMAIN b \cup {q \in DOMAIN a : ~Has(b, q[1])} |->
        IF p \in DOMAIN b THEN b[p] ELSE a[p]]

IsIdentified(life) == life.person # NoPerson

\* applyToEvent: the properties it sets.
Attribution(life) ==
    Overlay(At(SessionKey, life.session),
            IF ~IsIdentified(life) THEN At(ProfileKey, False)
            ELSE IF life.person.set = Empty THEN Empty
            ELSE Under(SetKey, life.person.set))

\* applyToEvent: the groups, which cloneGroups sanitizes again.
Groups(life) == SanitizeValue(life.person.groups, MaxDepth)

\* The exceptions applyToolFailure lists: one, without stack frames.
ExceptionList ==
    [p \in {<<ExceptionKey>>, <<ExceptionKey, 1>>, <<ExceptionKey, 1, ValueKey>>} |->
        CASE Len(p) = 1 -> Leaf("slice")
          [] Len(p) = 2 -> Leaf("map")
          [] Len(p) = 3 -> Text(4000)]

\* The properties an event has before captureEvent: those of emitLifecycle, those
\* applyToolFailure copies from them, or those given to Capture.
OwnProperties(life, kind) ==
    LET request == Overlay(Overlay(At(ToolKey, Text(8)), At(IsErrorKey, False)),
                           Under(ParametersKey, life.body))
        main    == Overlay(request, Attribution(life))
        copied  == {p \in DOMAIN main : p[1] \in {SessionKey, ToolKey, ProfileKey}}
    IN  CASE kind = "identify"  -> Overlay(At(AnonKey, life.session), Attribution(life))
          [] kind = "main"      -> main
          [] kind = "exception" -> Overlay(Only(main, copied), ExceptionList)
          [] kind = "custom"    -> life.body

\* captureEvent after the attribution: the session unless there is one, and the mark of
\* an event of nobody, unless there is a person.
Anonymized(id, properties) ==
    LET known == IF Has(properties, SessionKey) THEN properties
                 ELSE Overlay(properties, At(SessionKey, id))
    IN  IF ~Has(known, SetKey) /\ known[<<SessionKey>>] = id
        THEN Overlay(known, At(ProfileKey, False))
        ELSE known

\* Mutant: EventProperties has the last word, as in the order of SPEC.md.
ResolvedLast(life, resolved, kind) ==
    [name       |-> IF kind = "custom" THEN life.name ELSE Text(16),
     distinctID |-> IF life.attributed /\ IsIdentified(life)
                    THEN life.person.distinctID ELSE life.session,
     groups     |-> IF life.attributed THEN Groups(life) ELSE Empty,
     properties |-> Overlay(Overlay(OwnProperties(life, kind), Attribution(life)), resolved)]

\* captureEvent up to sanitizeAndBoundEvent: the event's own properties go over the
\* resolved ones, and the source and the attribution over both.
MergedEvent(life, resolved, kind) ==
    LET own    == Overlay(resolved, OwnProperties(life, kind))
        source == Overlay(own, At(SourceKey, Text(21)))
        id     == IF life.attributed /\ IsIdentified(life)
                  THEN life.person.distinctID ELSE life.session
    IN  [name       |-> IF kind = "custom" THEN life.name ELSE Text(16),
         distinctID |-> id,
         groups     |-> IF life.attributed THEN Groups(life) ELSE Empty,
         properties |-> Anonymized(id, IF life.attributed
                                       THEN Overlay(source, Attribution(life))
                                       ELSE source)]
-----------------------------------------------------------------------------
\* Places on the heap: the event given to BeforeSend, one the customer makes itself,
\* and the copy for the client.
Places == {"event", "own", "wire"}
Refs   == Requests \X EventKinds \X Places

Kind(r) == Head(work[r].todo)
Ref(r, place) == <<r, Kind(r), place>>

\* What the customer may hold on to.
Held == {ref \in DOMAIN heap : ref[3] # "wire"}

\* resolved is what the map of EventProperties holds, and used, a history, what it held
\* when each event was put together.
IdleWork ==
    [pc |-> "idle", life |-> NoLifecycle, resolved |-> Empty,
     used |-> [kind \in EventKinds |-> Empty], todo |-> <<>>, returned |-> <<>>]

PipelineInit ==
    /\ work = [r \in Requests |-> IdleWork]
    /\ heap = [ref \in {} |-> {}]
    /\ queue = <<>>

AtStep(r, pc) == work[r].pc = pc

\* The local state of r once its event is sent or lost.
Settled(r) ==
    LET rest == Tail(work[r].todo)
    IN  [work[r] EXCEPT !.todo = rest,
                        !.returned = <<>>,
                        !.pc = IF rest = <<>> THEN "done" ELSE "build"]

Begin(r) ==
    /\ AtStep(r, "idle")
    /\ \E life \in Lifecycles[r] :
          work' = [work EXCEPT ![r] = [@ EXCEPT !.pc = "resolve", !.life = life,
                                                !.todo = Plan(life)]]
    /\ UNCHANGED <<heap, queue>>

\* resolveEventProperties, once for all events of a lifecycle: the customer's map
\* itself, no copy, goes into their context.
Resolve(r) ==
    /\ AtStep(r, "resolve")
    /\ \E resolved \in work[r].life.resolves \cup {Empty} :
          work' = [work EXCEPT ![r].pc = "build", ![r].resolved = resolved]
    /\ UNCHANGED <<heap, queue>>

\* The customer, in a hook or elsewhere, changes the map that EventProperties returned.
\* Nothing reads the map but the next event, so a change at any time comes down to one
\* right before it.
ChangeResolved(r) ==
    /\ AtStep(r, "build")
    /\ \E resolved \in (work[r].life.resolves \cup {Empty}) \ {work[r].resolved} :
          work' = [work EXCEPT ![r].resolved = resolved]
    /\ UNCHANGED <<heap, queue>>

Built(life, resolved, kind) == SanitizeAndBoundEvent(MergedEvent(life, resolved, kind))

\* The local state of r once it has put its event together.
Read(r) == [work[r] EXCEPT !.used[Kind(r)] = work[r].resolved]

\* And once that event is given up.
GivenUp(r) == [Settled(r) EXCEPT !.used = Read(r).used]

\* Mutant: the size is not looked at again.
BuildUnchecked(r) ==
    /\ AtStep(r, "build")
    /\ heap' = Put(heap, Ref(r, "event"),
                   [event |-> Built(work[r].life, work[r].resolved, Kind(r)), state |-> "built"])
    /\ work' = [work EXCEPT ![r] = [Read(r) EXCEPT !.pc = "hook"]]
    /\ UNCHANGED queue

\* Mutant: every event asks EventProperties itself.
BuildResolvingAgain(r) ==
    /\ AtStep(r, "build")
    /\ \E resolved \in work[r].life.resolves \cup {Empty} :
          heap' = Put(heap, Ref(r, "event"),
                      [event |-> Built(work[r].life, resolved, Kind(r)), state |-> "built"])
    /\ work' = [work EXCEPT ![r] = [Read(r) EXCEPT !.pc = "hook"]]
    /\ UNCHANGED queue

\* captureEvent up to BeforeSend, which is not called for what does not fit.
Build(r) ==
    /\ AtStep(r, "build")
    /\ LET built == Built(work[r].life, work[r].resolved, Kind(r))
       IN  IF Fits(built)
           THEN /\ heap' = Put(heap, Ref(r, "event"), [event |-> built, state |-> "built"])
                /\ work' = [work EXCEPT ![r] = [Read(r) EXCEPT !.pc = "hook"]]
           ELSE /\ work' = [work EXCEPT ![r] = GivenUp(r)]
                /\ UNCHANGED heap
    /\ UNCHANGED queue

\* Mutant: nobody looks whether it returned an event at all.
HookReturnsAny(r) ==
    /\ AtStep(r, "hook")
    /\ \E ref \in {held \in Held : held[1] = r} \cup {<<>>} :
          work' = [work EXCEPT ![r].pc = "snapshot", ![r].returned = ref]
    /\ UNCHANGED <<heap, queue>>

\* BeforeSend returns an event it has: the one it was given, or one it kept of this
\* request.  Without a BeforeSend it is the one that was built.
HookReturns(r) ==
    /\ AtStep(r, "hook")
    /\ \E ref \in {held \in Held : held[1] = r} :
          work' = [work EXCEPT ![r].pc = "snapshot", ![r].returned = ref]
    /\ UNCHANGED <<heap, queue>>

CustomersOwn == [name |-> Text(9), distinctID |-> Text(9), groups |-> Empty,
                 properties |-> At(PasswordKey, Text(MaxEventBytes))]

\* BeforeSend returns a new event of its own making, which nobody bounds any more.
HookReplaces(r) ==
    /\ AtStep(r, "hook")
    /\ heap' = Put(heap, Ref(r, "own"), [event |-> CustomersOwn, state |-> "built"])
    /\ work' = [work EXCEPT ![r].pc = "snapshot", ![r].returned = Ref(r, "own")]
    /\ UNCHANGED queue

\* BeforeSend returns nil or an error, or panics.
HookDrops(r) ==
    /\ AtStep(r, "hook")
    /\ work' = [work EXCEPT ![r] = Settled(r)]
    /\ UNCHANGED <<heap, queue>>

Returned(r) == heap[work[r].returned]

\* Mutant: what BeforeSend returned goes to the client as it is.
EnqueueShared(r) ==
    /\ AtStep(r, "snapshot")
    /\ Returned(r).state # "broken"
    /\ queue' = Append(queue, [source |-> r, kind |-> Kind(r), ref |-> work[r].returned])
    /\ work' = [work EXCEPT ![r] = Settled(r)]
    /\ UNCHANGED heap

\* snapshotHookEvent copies what was returned, and the client takes the copy.
Enqueue(r) ==
    /\ AtStep(r, "snapshot")
    /\ Returned(r).state # "broken"
    /\ heap' = Put(heap, Ref(r, "wire"), Returned(r))
    /\ queue' = Append(queue, [source |-> r, kind |-> Kind(r), ref |-> Ref(r, "wire")])
    /\ work' = [work EXCEPT ![r] = Settled(r)]

\* The copy fails, on a value that contains itself or cannot be JSON; or the client
\* refuses the event or panics.
EnqueueFails(r) ==
    /\ AtStep(r, "snapshot")
    /\ work' = [work EXCEPT ![r] = Settled(r)]
    /\ UNCHANGED <<heap, queue>>

\* The customer changes an event it holds, or makes it one that cannot be copied.
Scribble ==
    /\ Cardinality({ref \in Held : heap[ref].state # "built"}) < MaxChanges
    /\ \E ref \in Held, state \in {"edited", "broken"} :
          /\ heap[ref].state = "built"
          /\ heap' = [heap EXCEPT ![ref].state = state]
    /\ UNCHANGED <<work, queue>>

PipelineStep(r) ==
    \/ Resolve(r) \/ ChangeResolved(r) \/ Build(r)
    \/ HookReturns(r) \/ HookReplaces(r) \/ HookDrops(r)
    \/ Enqueue(r) \/ EnqueueFails(r)

PipelineNext == Scribble \/ \E r \in Requests : Begin(r) \/ PipelineStep(r)

PipelineSpec == PipelineInit /\ [][PipelineNext]_pipelineVars
-----------------------------------------------------------------------------
IsAnswer(resolved) == \A p \in DOMAIN resolved : resolved[p] \in Leaves

PipelineTypeOK ==
    /\ \A r \in Requests :
          /\ work[r].pc \in {"idle", "resolve", "build", "hook", "snapshot", "done"}
          /\ work[r].life \in Lifecycles[r] \cup {NoLifecycle}
          /\ IsAnswer(work[r].resolved)
          /\ DOMAIN work[r].used = EventKinds
          /\ \A kind \in EventKinds : IsAnswer(work[r].used[kind])
          /\ work[r].todo \in Seq(EventKinds)
          /\ work[r].returned \in IF AtStep(r, "snapshot") THEN Held ELSE {<<>>}
    /\ DOMAIN heap \subseteq Refs
    /\ \A ref \in DOMAIN heap : heap[ref].state \in {"built", "edited", "broken"}
    /\ \A i \in DOMAIN queue : queue[i].ref \in DOMAIN heap

\* The events BeforeSend has been given and nobody has changed since.
Offered == {ref \in DOMAIN heap : ref[3] = "event" /\ heap[ref].state = "built"}
Life(ref) == work[ref[1]].life
Carried(ref) == heap[ref].event

\* Whatever the customer's values, hooks and servers put into an event, its properties
\* and groups at any depth, its name and its distinct id: BeforeSend sees no PostHog
\* token of a text, no bytes, no encoded binary text of Base64SizeGate or more bytes, no
\* binary block of content and no value of a sensitive key.  The code leaves, and so this
\* allows, the text of an error value with all that is in it, and encoded binary text
\* that is shorter, data URLs included; SPEC.md exempts neither.
SecretsRedacted ==
    \A ref \in Offered :
        /\ IsPrivate(Carried(ref).properties) /\ IsPrivate(Carried(ref).groups)
        /\ IsClean(Carried(ref).name) /\ IsClean(Carried(ref).distinctID)

\* BeforeSend sees values within every limit and events within the budget.
LimitsKept ==
    \A ref \in Offered :
        /\ IsLimited(Carried(ref).properties) /\ IsLimited(Carried(ref).groups)
        /\ FieldsAreLimited(Carried(ref).properties)
        /\ Fits(Carried(ref))

\* An event is given up before BeforeSend only if what cannot be reduced of it is
\* over the budget, or cannot be JSON: not because truncation stops too early, and not
\* because a sibling, or the sibling's hook, failed.  A property "$event" is excluded: its
\* location is taken for the event's name, and what it should save is never saved.
ReducibleIsOffered ==
    \A r \in Requests : AtStep(r, "done") =>
        \A i \in DOMAIN Plan(work[r].life) :
            LET kind   == Plan(work[r].life)[i]
                merged == MergedEvent(work[r].life, work[r].used[kind], kind)
            IN  \/ <<r, kind, "event">> \in DOMAIN heap
                \/ Has(merged.properties, EventKey)
                \/ Irreducible(merged) > MaxEventBytes

\* What an event of the heap was made from.
Used(ref)   == work[ref[1]].used[ref[2]]
Merged(ref) == MergedEvent(Life(ref), Used(ref), ref[2])

\* Fewer keys than the limit sort before key in the merged properties of an event:
\* visitMap does not leave it out.
WithinBreadth(ref, key) ==
    Cardinality({p \in DOMAIN Merged(ref).properties : Len(p) = 1 /\ p[1] < key}) < MaxBreadth

\* Events with an attribution carry it, whatever EventProperties and the caller say
\* about session and person and whatever had to be cut: the session, and either the
\* person or the mark that there is none.
EventsAttributed ==
    \A ref \in Offered :
        LET life == Life(ref)  properties == Carried(ref).properties
        IN  life.attributed =>
               /\ WithinBreadth(ref, SessionKey) =>
                     /\ Has(properties, SessionKey)
                     /\ properties[<<SessionKey>>] = life.session
               /\ IF IsIdentified(life)
                  THEN Carried(ref).distinctID = life.person.distinctID
                  ELSE /\ Carried(ref).distinctID = life.session
                       /\ WithinBreadth(ref, ProfileKey) =>
                             /\ Has(properties, ProfileKey)
                             /\ properties[<<ProfileKey>>] = False

\* The keys that events of these kinds need not have in common, and values that no
\* reduction changes.
OwnKeys(kinds) ==
    {AnonKey, ExceptionKey, IsErrorKey, ParametersKey, EllipsisKey}
        \cup IF "identify" \in kinds THEN {ToolKey} ELSE {}
IsStable(v) == v = Leaf("scalar") \/ IsPlain(v)

\* The events of one request agree in what they share, though hooks run in between and
\* may change the map that EventProperties returned: always in the person, the groups,
\* the session and the properties that none sets itself and the map has not; in those the
\* map has as long as it stays what it was.  What was cut to fit the budget is left out.
SiblingsAgree ==
    \A a, b \in Offered :
        a[1] = b[1] /\ a # b =>
            LET x == Carried(a).properties  y == Carried(b).properties
                merged == Merged(a).properties
            IN  /\ Carried(a).distinctID = Carried(b).distinctID
                /\ Carried(a).groups = Carried(b).groups
                /\ \A p \in DOMAIN x \cap DOMAIN y :
                      /\ Len(p) = 1 /\ p[1] \notin OwnKeys({a[2], b[2]})
                      /\ p \in DOMAIN merged /\ IsStable(merged[p])
                      /\ \/ Used(a) = Used(b)
                         \/ p[1] = SessionKey
                         \/ ~Has(Used(a), p[1]) /\ ~Has(Used(b), p[1])
                      => x[p] = y[p]

\* The client's feed is what EventFeed promises: the siblings of a request arrive
\* in their order and at most once, and no later change by a customer's hook, to an
\* event it was given, returned or kept, reaches what was enqueued.
Feed == INSTANCE EventFeed WITH
    Sources <- Requests,
    Plans   <- UNION {{Plan(life) : life \in Lifecycles[r]} : r \in Requests},
    feed    <- [i \in DOMAIN queue |-> [source  |-> queue[i].source,
                                        kind    |-> queue[i].kind,
                                        content |-> heap[queue[i].ref]]],
    plan    <- [r \in Requests |-> IF AtStep(r, "idle") THEN <<>> ELSE Plan(work[r].life)],
    settled <- [r \in Requests |-> IF AtStep(r, "idle") THEN 0
                                   ELSE Len(Plan(work[r].life)) - Len(work[r].todo)]

ImplementsEventFeed == Feed!FeedSpec
=============================================================================
