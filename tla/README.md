# A formal model of the PostHog MCP analytics SDK for Go

The repository is a Go library. A program that serves the Model Context Protocol
(MCP) with the official Go SDK creates one `Analytics`, installs its `Middleware`
around the server's method handler, and from then on every request that arrives is
timed, attributed to a session and a person, and reported to PostHog. The library
must do this without ever changing what the server does: it sits in the path of every
request, runs hooks written by its customer, and rewrites the tools the server
advertises and the arguments the tools receive.

This directory holds TLA+ models of the library, TLC configurations that check them
on small instances, and theorems with proofs that TLAPS checks for all instances.
Paths such as `identity.go:98` are relative to `src/`.

## 1. Inventory

| Component | State | Operations | Modelled in |
|---|---|---|---|
| Session store (`identity.go`, `session.go`, `attribution.go`, `api.go`) | `a.sessions`, `a.generated`, `a.touchSequence`, `a.fallbackSession`, `a.lastActivity`, all under `a.mu` | generate a session for a connection, keep or roll the fallback session, read, stamp, update identity, remember initialize | `SessionStore`, `LruCache` |
| Store lock (`identity.go`, `session.go`, `attribution.go`) | `a.mu` | every critical section, entered by requests and by `Capture` from anywhere | `StoreLock` |
| Identity values (`identity.go`) | none | `mergeIdentity`, when it panics, and what is cut when it is stored | `Identity` |
| Middleware and tool calls (`middleware.go`, `lifecycle.go`, `tool_call.go`, `exception.go`) | local variables of each request, the deferred functions on its stack | resolve, call downstream, finish, emit, recover | `Middleware` |
| Custom capture (`capture.go`, `attribution_context.go`) | the attribution in a handler's context | `Capture` from a handler or elsewhere | `Middleware` (whose attribution), `EventPipeline` |
| Missing-capability tool (`missing.go`) | none of its own | probe downstream, answer virtually | `Middleware`, `ToolOwnership` |
| Tool listing and ownership (`schema.go`) | `middlewareState.ownership` under its own lock | extend a listing, remember what was added, strip it from calls | `ToolOwnership` |
| Conversation ids (`conversation.go`) | none | accept or mint an id, tell the client | `ToolOwnership`; as a session source in `Middleware` |
| Event pipeline (`capture.go`) | the events in memory, of which hooks may hold some | resolve, build, bound, `BeforeSend`, copy, enqueue | `EventPipeline`, `EventFeed` |
| Nested middleware (`middleware.go`) | the mark in a request's context | pass on a marked request; recover with the unmarked context | `Middleware` |
| Sanitizer (`privacy.go`) | none | `sanitizeValue`, recursive | `Sanitizer` |
| Size budget (`truncation.go`) | none | `sanitizeAndBoundEvent` | `Truncation` |
| Ids (`ids.go`) | `crypto/rand`, a fallback counter | `newPrefixedID`, `deriveSessionID` | `Ids` (the fallback); as fresh ids in `SessionStore` |
| Request cloning (`callback_request.go`), constants | none | copies | no |
| MCP SDK, posthog-go | outside `src/` | handlers, tools, connections, delivery | as the environment |

**How they interact.** A request enters `Middleware`. `resolveAttribution` picks its
session: that of its conversation id, one the protocol or the caller gives, the one
generated for its transport connection, or the fallback session. It then stamps what
the store remembers and `resolveIdentity` calls the customer's `Identify`. Each of
these takes and releases `a.mu`, and nothing is held while a hook or the server runs.
Downstream is then called with the attribution in the context, from which `Capture`
called by a handler takes it. Afterwards the events are emitted: `$identify` if the
identity is new or has changed, the event of the request, `$exception` if a tool
failed. `tools/list` answers are rewritten on their way out and what was added is
remembered per tool; `tools/call` reads it back up to three times, to strip the
arguments, to decide whether the call is a probe for the missing-capability tool, and
to shape the virtual answer.

**What is hard.** Requests run on goroutines of their own and share the store and the
ownership. State is read, a hook or the server is called without the lock, and the
state is written afterwards. The session map has a limit, so a session may vanish
between two steps of a request that uses it. The library may panic itself and recovers
at two levels, and what that leaves of the request is nowhere tested with concurrency; an
outer layer that recovers before downstream hands the request to the next layer as if it
had never seen it. Events are maps the customer's hooks are given and may keep, while the
client still has to send them; they contain whatever tools, clients and the customer put
into them, and have to be reduced in rounds that each change what the next one sees.
The ownership is lost in a restart while clients still hold what they were told.
`PROJECT.json` lists these hazards at their lines, each with the properties about it.

**What makes the components correct.**

- Store: bounded; the two maps agree; the victim of the limit is the least recently
  used session; a connection keeps its session unless it is idle or evicted.
- Store lock: its sections exclude each other, run no code of the customer's, give it
  back however they end, and everybody who waits for it gets it.
- Middleware: downstream is called exactly once, whatever panics; its answer is the
  caller's; identities and sessions do not cross; a changed identity is announced and
  an unchanged one is not.
- Pipeline: `BeforeSend` sees what the code redacts redacted, nothing over a limit, and the
  session and person of the request; an event is given up only if it cannot be reduced; the
  client gets the events of a request in order, once, and nobody changes them afterwards.
- Ownership: what is owned is what was injected, and a new listing corrects what has become
  stale; fields of the customer's tools reach
  them, injected ones do not; the virtual tool is answered; a minted conversation id is
  told to somebody.

## 2. Modules

| Module | Contents |
|---|---|
| `GoMaps` | Go maps as functions: the empty map, assignment, `delete` |
| `Identity` | `Identity` values and `mergeIdentity`; nil and empty maps are told apart, and a clone is cut to the limit of breadth |
| `LruCache` | abstract: a bounded cache with uses, insertions, replacements, and the eviction of the least recently used key |
| `SessionStore` | the store, one action for each critical section of `a.mu` |
| `SessionStoreProofs` | theorems about `SessionStore` |
| `StoreLock` | `a.mu` and the goroutines that take it; it stands alone, and runs in TLC as it is |
| `Middleware` | extends `SessionStore` with concurrent requests through one or more layers |
| `MiddlewareProofs` | theorems about `Middleware`, resting on those about the store |
| `ToolOwnership` | listings, calls, registrations, removals and restarts around `middlewareState` |
| `ToolOwnershipProofs` | theorems about `ToolOwnership` |
| `Sanitizer` | `sanitizeValue` on trees of values, and the predicates of its contract |
| `SanitizerProofs` | `sanitizeValue` keeps that contract |
| `Truncation` | extends `Sanitizer` with `sanitizeAndBoundEvent` |
| `SumProofs` | lemmas about sums over finite sets, `SumFunctionOnSet` of the community modules |
| `TruncationProofs` | no reduction breaks the contract, and ten rounds of cutting are enough, resting on `SanitizerProofs` and `SumProofs` |
| `EventFeed` | abstract: a feed of events that only grows, each source's in the order it planned |
| `EventPipeline` | extends `Truncation` with the way of events through hooks to the client |
| `EventPipelineProofs` | theorems about `EventPipeline`, resting on those about its events |
| `Ids` | the layout of fallback ids, with two theorems |
| `MCSessionStore`, `MCMiddleware`, `MCToolOwnership`, `MCEventPipeline` | the instances TLC checks: symmetry, answers, pages, schemas, events |

An operator whose comment starts with "Mutant:" is a plausible bug in the definition
that follows it. No specification uses it; it shows that a property notices the bug.

### SessionStore

`sessions` and `generated` are the two Go maps, `touchSequence`, `fallbackSession` and
`lastActivity` the fields of those names, and `clock` what `a.now()` reads. `issued` is
a history variable, the ids `newPrefixedID` has returned. An action is one critical
section with everything it calls: `MintConnectionSession` (`session.go:62-83`) drops
the expired session from both maps, makes room, touches, and records the new session
in both. `touchSessionLocked` is `Victims` (who has to go, if anybody), `Disowned` (the
connection of a victim forgets it) and `TouchSession`. `updateIdentity` is two actions:
`UpdateIdentity`, and `UpdateIdentityPanics` for when the merge panics after the
session was touched, with the lock released by its `defer`.

`LruCache` says what this amounts to for a request: a key is lost to the limit only when
it is the one used least recently, or to its owner, who trades it for a new one. The
refinement mapping makes connections the owners and turns the touches into an order:
`older` holds the pairs of sessions of which the first was touched earlier. Times,
counters and the second map disappear.

`Identity` has of sanitizing only what can change a value that has been sanitized before: the
limit of breadth. A clone of more than `MaxProperties` properties keeps the first ones and adds the
marker (`CloneProperties`), so a clone at the limit that is merged and cloned again may lose another one.
`MergeIdentity` is the merge `identitiesEqual` compares, `MergedIdentity` the cut one that is stored and returned
(`identity.go:100-103`).

### StoreLock

`SessionStore` and `Middleware` take a critical section of `a.mu` for one step; `StoreLock` is about
what they rely on. `holder` is who has the mutex. A goroutine is a stack of calls: a request or a
`Capture`, and above it the `Capture` that the customer's code, for which the call below waits, has
made. A call goes from section to section and hook to hook as the code does: a probe resolves its
identity after downstream and, if the tool is unknown, its session again; `Panic` is that of
`mergeIdentity` inside `updateIdentity`, after which a call goes on in the recover of `Middleware`, or in the
deferred function of `handleToolCall`, whose own panic ends it. Hooks that are called before the first
section (`resolveIntent`) or between two events, and loggers, are left out: they wait for nothing and
hold nothing. What the sections do to the store is `SessionStore`'s matter.

### Middleware

A request is a record with a program counter: `session`, `stamp`, `lookup`, `identify`
(up to the return of the callback and `updateIdentity`), `downstream`, `handler`,
`finish`, `emit`, and `recover` for the recover at `middleware.go:36`. `stage` says
whether this pass over `lookup` and `identify` happens before downstream, after it, in
the deferred function of `handleToolCall`, or not at all because the request has left
the instrumentation. A probe goes downstream before it is identified, and is identified
when it comes back, with its conversation id if downstream did not know the tool.
The store's critical sections are used as they are, and `ImplementsSessionStore`
checks that nothing else happens to the store.

`layer` is the layer of the middleware whose code runs. The context a layer calls downstream
with carries its mark, and the layers below only pass a marked request on, so they do not
appear. The recover calls downstream with the context the request came with: `NextLayer` then
starts the instrumentation over, with the next layer's own `middlewareState`, which may
see a probe in what this layer took for a tool, and may own no conversation.

`calls`, `reports`, `changed`, `captured` and `lastIdentify` are history variables. A kind
`request` stands for every captured method but `tools/call` and `initialize`; they
share one handler. What the
library guards hooks with (a recover around each) makes an error, a panic and no answer
of `Identify` the same step, `IdentifyNobody`. The other hooks change no state the
model has.

### ToolOwnership

`tools` is what the server has registered, a tool's schema being reduced to what
injection depends on: which of the two input fields it declares itself and whether its
input and output can be extended. A listing takes its snapshot of a page
(`ServeListing`), then extends one tool after the other, writing `ownership` in each
turn (`PrepareTool`), and answers or is abandoned when a schema panics. A page is a set
of names: the code goes through them in the order of the server's answer, which the
server is free to choose, so every order is explored. A call takes
its looks at the ownership in separate steps. `advertised` is what clients have last
been told and survives a `Restart`; the ownership does not. The server may remove a tool (`Remove`), of which nobody tells the middleware:
its ownership stays, and a listing without the tool only overwrites it if the name is the virtual
tool's; `removed` is the history of these. `PreparePanics` and `AnswerPanics`
are the wrapper's own panics, in `resolveIdentity` before downstream and in
`applyConversationResult` after it, with what the recover of `Middleware` makes of them.
`alone` is a history variable, the listings no other one has overlapped.

### Sanitizer and Truncation

A value is a tree, given as a function from paths to leaves, so that the recursion of
`visit` becomes a statement about all paths at once: which are beyond the limit of breadth,
below the limit of depth, under a sensitive key, inside a binary content block. A leaf keeps of a
text what decides its fate: its length, the JSON bytes one of its bytes takes, the bytes of
PostHog tokens in it, whether it looks like encoded binary data, and which type of content it
names. A token has at least 24 bytes (`privacy.go:34`), the types the code knows are shorter, so
redaction never makes a text name another one. References that lead
back into a container they are inside of are leaves of their own, and so is a `json.Number` that is no
number: sanitizing lets both pass in some places, and an event with one cannot be marshalled
(`Unmarshalable`), hence never fits. Keys are numbers in the
order of `sort.Strings`, which decides what the limit of breadth keeps.

`Visit` is the recursion over values, `SanitizeResponseContent` what `visitMap` does to each map
it has finished: typed maps in a slice under `content` become a text when they are media, a
resource with a blob, or of a type the code does not know. The code does it bottom-up, so an
inner block is replaced before an outer one; what is inside a replaced block is gone either way,
and doing all at once gives the same tree. The text for an unknown type quotes it with `%q`; the
bytes its escapes add are left out.

`IsPrivate` and `IsLimited` state the contract of `SPEC.md`, section 8, without mentioning how
it is reached. `EventJSONSize` counts JSON bytes; `TruncateEventToSize` reduces the depth, then
cuts the largest strings in rounds, as the code does. `Irreducible` is the reference: the
size of what neither can take from an event.

### EventPipeline

A lifecycle is one request's `emitLifecycle`, or a call of `Capture` with a handler's context
or without. `resolve` asks `EventProperties` once and keeps the customer's map itself, which its
owner may change before any event is built (`ChangeResolved`); `used` is the history of what it held
each time it was read. Each event of the plan is then built
(`Build`: merged, sanitized, bounded, dropped if over the budget), given to `BeforeSend`, and
settled: enqueued or lost. The heap holds the events by reference, as a hook may return the
event it was given or one it kept, may make its own, and may change any event it holds at any
later time (`Scribble`). The client's copy is out of its reach. Persons are what
`snapshotIdentity` leaves of an identity; the parameters and the response of an automatic event
are JSON, what `Capture` and `EventProperties` give is any Go value.

`EventFeed` promises the client that the feed only grows, that what was sent stays as it was,
and that each source's events come in the order of its plan and at most once.
`ImplementsEventFeed` maps the queue, with the events its references lead to, to the feed; a
`Scribble` that reached one of them would change the feed.

### Ids

`FallbackUUIDv7` is an id as a record of its groups of bytes. `IsConversationID` is what the
pattern of `conversation.go:15` asks of version and variant.

## 3. What TLC checks

| Run | Instance | Question |
|---|---|---|
| `store` | 2 connections, 1 derived and 4 generated ids, limit 2, window 1, clock to 2, 5 touches | Do the maps agree, is the limit kept, is the victim the right one, do connections keep sessions? Is the whole an LRU cache? |
| `middleware` | 2 concurrent calls and probes, 2 layers, limit 1, answers that make the merge panic | Is downstream called once and its answer returned? Are changes announced? Is a request reported once in two layers? Does the wrapper respect the store's critical sections? |
| `sharing` | 2 concurrent tool calls by connection, conversation or neither, limit 1, window 0 | Do sessions or identities cross? Do a handler's events carry its request's attribution? |
| `sequential` | 3 requests of all kinds, one at a time, 2 callers with a property each, breadth 2 | Is `$identify` emitted for changes only, `$exception` for failed tools only? |
| `lock` | 2 goroutines, requests of every kind, one `Capture` inside any callback, 2 events | Do the sections of `a.mu` exclude each other, also when they panic? Does no callback run inside one? Does every call return? |
| `ownership` | 2 listings, 1 call, 2 tools, a page of both and a page of one, one of the tools removed and registered again, 1 restart | Is what is owned what was added, and again after one more listing? Do fields get where they belong? |
| `pipeline` | 1 request of 22 shapes and a plain one, 1 change of an event by a hook, any of the map of `EventProperties`, the code's limits | Is what hooks see redacted, bounded, attributed, and given up only if it must be? Do siblings agree? Is the client's feed left alone? |
| `nil_properties`, `probe_panic`, `repeated_identify`, `ownership_race`, `restart` | as small as the case allows | The findings of section 6 |

**Bounds.** Every bound is a constant in a guard.

- `SessionLimit` is 1 or 2, so that every further insertion evicts and requests at work
  lose their session (3 in `sequential`, where none is to be evicted); the code compares with the limit only, so a thousand shows
  nothing that two does not, and the theorems hold for every limit.
- `Window` and `MaxClock`: sessions are seen before, exactly at and after the end of the
  window. With `Window = 0` one tick is enough for an expiry.
- `MaxTouch` bounds `touchSequence`. In the runs of `Middleware` it is more than the
  touches all requests can make together and never stops one. In `store` it is the
  bound on the length of behaviours; five touches fill the store, evict, evict a
  session of the other connection, and expire one.
- `GeneratedIds` are enough for each connection to mint on entry and after an expiry and
  for the fallback session to roll.
- `Requests` and `MaxInFlight`: two requests suffice for one to overtake the other
  between any two steps. In `sequential` requests do not overlap,
  as overlapping ones do repeat `$identify` (see 6), and all belong to the one derived
  session, as an evicted session legitimately identifies itself anew.
- `MaxProperties` is the code's 100 made 2. The callers' properties fit together in `sequential` and not in
  `repeated_identify`, where the one answer has three; keys are numbers, in their order.
- `Listings`, `Calls`, `MaxRestarts`: calls do not write what another call reads, so one
  call and two listings contain every interference. The ownership does not reveal how
  many restarts there have been.
- Schemas: a plain tool and one that declares `context` itself in `ownership`; also one that
  declares `conversation_id` and cannot be extended in `ownership_race` and `restart`; together
  they exercise each condition of `injectInputParameter` with both outcomes. Only the second
  tool, the one under the missing-capability name, is registered again in `ownership`: that is
  what `ListingRefreshes` needs, and a second such tool multiplies the states only.
- `Layers` is 2 in `middleware`: a layer knows of another one only that it is
  there, so a third repeats the second. It is 1 in the other runs, whose questions are not
  about layers.
- `lock`: a request's events come one after the other by the same calls, so two stand for the code's
  three, and a `Capture` inside a `Capture`'s hook waits for the mutex in the same way as the first.
  Two goroutines are enough for one to wait for the other.
- `pipeline` uses the code's own limits (depth 10, breadth 100, 32768 bytes for a string, 10240
  for binary, 102400 for an event), as rounding and slack depend on their proportions. The
  22 shapes put events on both sides of each limit: depth 9 to 12, 95 to 102 keys, binary
  texts of 10239 and 10240 bytes, a body that fits at some lower depth, one only after cutting,
  one only because of its escapes, one never because of its groups, content blocks as deep as they
  are still looked at and one level deeper, within one another and of a type of 40000 bytes. `EnvelopeBytes`, `KeyBytes`
  and `ScalarBytes` are typical. What happens to one event depends on no other request except
  through the queue and the heap, so one request of special shape and one plain request show
  every interference; `MaxChanges = 1`, since one change that reached the queue would already
  be a violation.

Requests are identical, as are listings, ids and persons, and symmetry over them is
used in the safety runs. The `lock` run uses none. Deadlock checking is off where the
clock comes to its bound and all requests are done, as nothing is left to happen then; in
`lock`, where goroutines start over, it is on, so that a deadlock would be found as such.

**Fairness.** `EveryCallReturns` assumes three things of each goroutine. One that is inside a section goes
on and leaves it (weak fairness of `Unlock` or `Panic`): Go schedules a goroutine that can run, and no
section calls anything that blocks. One that wants the mutex gets it if it is free again and again (strong
fairness of `Lock`): a `sync.Mutex` goes into starvation mode and is handed to the longest waiter. And the
customer's code returns, however often it calls `Capture` before it does (strong fairness of
`CustomerReturns` at each depth, as a hook that keeps capturing is not always about to return): hooks are
required to return (`SPEC.md`, section 10), and a handler that never does keeps only its own request.
What the property then shows is that no path, panics included, leaves the mutex taken or a goroutine waiting for itself.
The other modules have no liveness property: between the sections and hooks of `StoreLock` their steps
follow one another in a request's own goroutine.

## 4. What is proved

`SessionStoreProofs` proves for every set of connections and ids, every limit from 1
on, every window and every bound, from `StoreAssumption` and `IdentityAssumption`
(generated and derived ids are disjoint; the values that stand for "none" are not ids):

- `StoreCorrect`: `StoreTypeOK`, `BoundedStore`, `GeneratedMatchesSessions` and
  `DistinctTouches` are invariants of the store; `StoreTypes`, `StoreIsBounded` and
  `TouchesAreDistinct` state them one by one.
- `ConnectionsRollOnlyWhenIdle`: a connection's session is replaced only after the window.
- `StoreImplementsLruCache`: the store refines `LruCache`.

None of the four invariants is inductive alone. That the limit is kept needs the session
map to be finite; that eviction forgets the right connection needs the maps to agree;
that they agree after a mint needs the minted id not to be in the map, hence that
sessions are derived or issued (`DOMAIN sessions \subseteq HeldIds`); that the victim is
unique needs distinct touches. `StoreInv` is the conjunction. As one critical section may
delete, evict and insert, its central part `Consistent` is stated of any pair of maps, and
one lemma for each elementary change (`ExpireConsistent`, `EvictConsistent`,
`TouchConsistent`, `AdoptConsistent`) shows that it survives; the lemmas about the
actions chain them. The refinement follows the same chain: `StoreRefines` shows that a map
kept in part and then written at one key is one `Store` of the cache, and `VictimIsLeast`
that `Oldest` picks the minimum of the abstract order. That a connection which mints owns
nothing any more, or trades just its own session, is again the agreement of the maps.

`MiddlewareProofs` proves for any requests, callers, conversations, layers and answers of
`Identify`, from the same assumptions and `MiddlewareAssumption` (what the constants may be):

- `WrapperUsesStoreProperly`: every step does to the store what one of its critical sections
  does, or nothing. The middleware implements `StoreSpec`, and the theorems above hold of it.
- `MiddlewareTypes`, `DownstreamIsCalledOnce`, `RequestsAreReportedOnce`,
  `RepliesAreDownstreams`, `ChangesAreAnnounced`, `CapturesInherit`: the invariants of the same
  content that the runs `middleware` and `sharing` check.
- `IdentitiesDoNotCross` (`IdentityIsolation`) and `SessionsAreNotShared`
  (`SessionsNotShared`): attribution does not mix up requests.
- If no two answers make the merge panic (`AnswersMerge`): `AnswersAreAttributed`,
  `PanicsAreOriginal`, `VirtualToolAnswers`; and if in addition requests bring no conversation
  ids, so that no structured result is copied, `ExceptionsAreToolFailures`. The conditions are
  restrictions on the customer's hook and on clients, not on the code, and they are needed: the runs
  `nil_properties` and `probe_panic` violate the first two without them.
- If requests come one at a time (`OneByOne`), the store has room for every session (`Roomy`) and all properties
  together are within the limit of breadth (`PropertiesFit`): `IdentifiesDiffer`, which is `NoRepeatedIdentify`
  for any callers and conversations, also when sessions of connections expire. An evicted session
  identifies itself anew, which is no repetition of the code's making; without each of the other two the code
  does repeat `$identify`: run `repeated_identify` shows it for `PropertiesFit`, and for `OneByOne` see 6.

The invariant `MiddlewareInv` is the store's together with a promise of each request,
`LocalInv`. It speaks of one request at a time, so that a step of one leaves the promises of
the others alone. `PathOK` says which steps a stage of the control flow can be at, since
"downstream has been called" is not visible in the program counter alone; `CountsOK` ties the
history variables to it: downstream has been called once exactly when the preparation is over,
the main event was sent exactly when the request is about to be answered or to panic on.
`AnswersOK` keeps a stored change marked as to be announced until it is, through
whichever of the three ways out the request takes. `HeldIn` says that a resolved request holds one of
the ids the store has handed out, which is what the store's actions require of their caller.

`IdentityIsolation` is not inductive: a request may look at a session while another one, whose
preparation is about to panic and so to lose its answer, has been answered. `Isolated` asks more: each
identity stored or attributed was answered for a request that is `Settled`, past every point at
which the answer could be dropped or the session be resolved anew. `Unshared` strengthens
`SessionsNotShared` by what the store knows: the session of a connection is held by
requests of that connection only, the fallback session by requests without one, and the two never
coincide; a minted id was held by nobody, by `HeldIn`. `CalmInv` is what a store without nil
properties, or with nothing else, gives: the merge cannot panic, hence a request cannot fail before downstream.

`AnnouncedInv` relates what a session knows to the `$identify` last sent for it: they are the
same unless the one request at work has a change `Pending`, which differs from both what was known and what
was announced (`PendingOK`). A session may also be lost to its connection, which replaces it after the
window; then it is `Gone`, was announced for the last time, and does not come back: it is no connection's
and not the fallback session, which `Unshared` knows, no request is at work in it, and the ids
handed out later are fresh.

`ToolOwnershipProofs` proves for every server, every set of pages and schemas, every
setting of the options and any number of listings, calls and restarts, from
`ToolAssumption` (the shapes of the constants, and that the missing-capability name is a
name):

- `ToolsWellTyped`: `ToolTypeOK` is an invariant.
- `OwnershipCorrect`: `OwnershipIsSound` is one.
- `DeclaredFieldsAreKept`, `AdvertisedFieldsGo`: so are `OrdinaryFieldsKept` and
  `AdvertisedFieldsStripped`.
- `VirtualToolIsAnswered`, `MintedIdsAreDelivered`: and `VirtualToolAnswers` and
  `MintedIdsAreTold`. The first leaves out names the server had a tool under and removed (see 6).
- `ListingsRefresh`: so is `ListingRefreshes`, for all tools, those registered again included.
  It needs no more than that nobody else writes the ownership while a listing is alone.

The inductive invariant `ToolInv` adds to the types what is true between the steps. Of the
world (`WorldInv`): a listing at work holds the schemas the server still has, and what it has
prepared is remembered; a field advertised by this process is owned; a name remembered
without the mark of the virtual tool is registered. Of a call (`CallInv`): the ownership it
found is none or that of its tool's schema; it is a probe unless a real tool had the name.
The argument that concurrency does no harm is `Grows`: apart from a restart, which loses all
requests at work, no action takes back anything a request relies on, so the facts a request
holds survive the steps of all others (`ListingStays`, `RemembersStays`, `CallStays`), and only
its own steps need looking at. TLC confirmed `ToolInv` on the instance of run `ownership`.

`OwnershipCorrect`, `DeclaredFieldsAreKept` and `AdvertisedFieldsGo` leave out the tools whose names are in
`Replaceable` and, for the fields, the missing-capability name itself; finding 4 shows that the
latter is necessary. `AdvertisedFieldsStripped` leaves out the calls whose preparation
panicked, `MintedIdsAreTold` those on which telling the id did.

`SanitizerProofs` and `TruncationProofs` prove what an event has become when it is finished, for all
trees, also deep, wide and cyclic ones, and for all limits that `SanitizerAssumption` and
`TruncationAssumption` allow: depth and breadth are not 0, a string and a text that may be binary
may have 100 bytes, and the limits of fields are below that of strings, by at least the "..." a cut adds.

- `SanitizedTree`: whatever tree `SanitizeValue` is given and to whatever depth it goes, what it
  leaves is a tree (`IsTree`), redacted (`IsPrivate`) and within the limits (`IsLimited`).
- `BoundedEvent`: whichever reductions an event needs, its properties are sanitized in that sense
  and `FieldsAreLimited` holds; and a short property that sorts within the breadth keeps its place
  and its value (`Holds`), which is what attribution rests on; no key at the top is new but the
  marker's, and a short value that is still there is unchanged (`Keeps`). Its name and its distinct id
  are free of tokens.

- `ReducibleFits`: if what no reduction can take from an event is within the budget
  (`Irreducible`), what comes out of `sanitizeAndBoundEvent` is. It has to have no key `$event` (see 6),
  and is proved for strings up to the code's 32768 bytes and up to 1000 keys, ten times the code's breadth
  (`FewAndShort`): with larger ones ten rounds may not be enough.

A tree is a function, so nothing of `SanitizedTree` and `BoundedEvent` needs induction over data. `SanitizedTree` follows `Visit`: its
leaves are tidy, its places prefix-closed, at most `MaxBreadth + 1` of them in a
container (`VisitBreadth`, with the cardinalities of initial segments of the keys), and those of
sensitive keys redacted. Replacing the blocks then leaves none: a replaced block is of type text,
and a kept map that is a block afterwards was one before, with the same type, since only the places
of replaced blocks are new. `BoundedEvent` goes by `Reduces(t, s)`, which relates an event's properties
to what became of them and says all of the above. Each reduction preserves it: sanitizing
again at a lower depth, the limits of fields, and a round of cuts. For a round it has to
be shown that it only ever shortens strings: a cut saves at least ten bytes, more than the "..."
costs, and at most half of the string (`SavingRange`), and strings up to 100 bytes, which all
redactions are, it leaves alone. The ten rounds are
unrolled by name (`TenRounds`), as induction over them is not available.

`ReducibleFits` is about the last resort, an event without depth (`IsPlainEvent`), and about how fast the
rounds get there. Sums over finite sets are defined by recursion; `SumProofs` gets from well-founded
orders of the library what induction would give: how a sum grows by an element, and that it is monotone
and additive. So an event's size is one over its places (`EventSize`), and what a
round saves is no less than what its strings lose (`RoundSize`). `Saving` walks the strings in their
order and stops halfway through one when enough is saved; `RoundSaves` shows that a round either halves
every string that can be cut, or ends at most 3 bytes for each string it has halved, less 191, over the
budget: each cut adds "...", a saving of less than ten bytes is not made, and both are what the
slack of 200 is for. `Near(c, x)` combines the two: an event fits, or has no string much longer than `c`, or is
so close that one more round of the second kind, which then has at most 60 strings to halve, is enough.
`RoundNears`: a round takes it from `2c` to `c`. From 33 KB that is 33 bytes after ten rounds, when
no string is left that can be cut; then the event is no larger than `Irreducible` says (`NothingLeft`),
as places are only left out and strings that were cut are shorter than what always stays (`Trimmed`).

`EventPipelineProofs` proves for any requests, any lifecycles that `IsLifecycle` describes, any
hooks and all limits, from `PipelineAssumption` besides:

- `PipelineTypes`: `PipelineTypeOK` is an invariant; no reference dangles.
- `PipelineImplementsEventFeed`: the pipeline refines `EventFeed`.
- `PipelineRedactsSecrets`, `PipelineKeepsLimits`, `PipelineAttributesEvents`: `SecretsRedacted`,
  `LimitsKept` and `EventsAttributed` are invariants. The first says what the code redacts: texts of error
  values and binary texts below `Base64SizeGate` are not in it (see 6).
- `PipelineSiblingsAgree`: so is `SiblingsAgree`. Two events of one request that are offered have the
  same person, groups and session and, under each key that neither has to itself, the same value, if
  it is one that no reduction changes and the map of `EventProperties` says nothing of the key or was left
  alone between them; a longer one may be cut to a different length in an event whose
  other properties leave it less room.

- `PipelineOffersReducible`: under `FewAndShort`, so is `ReducibleIsOffered`.

The inductive invariant `PipelineInv` (theorem `PipelineInvariant`) has three parts. `WorkInv`: what a request
has still to send is the end of its plan, without repetition, and it holds an event only between
the hook and the copy. `HeapInv`: a place on the heap belongs to an event of the plan that its request
is done with or at, and an event offered to the hook is the one `Built` from the life of the request and
what the map of `EventProperties` held at the time, and fits. `QueueInv`: the queue has references to copies only. The refinement needs all three: a
copy is made in a place that was free, because the event was still pending, and `Scribble`
reaches no copy, so what the feed shows never changes; and what is sent next is the next kind of
the plan. The four theorems on what hooks see then are about `Built` alone, hence
follow from `BoundedEvent` and from what goes into an event: `MergedFacts` shows that the merged
properties are a tree and that the attribution is in it, whatever `EventProperties` and
the caller put under the same keys. For the siblings, `SharedValue` shows that what an automatic
event has under a shared key, however five maps are laid over each other, is a function of
the lifecycle and the answer of `EventProperties`, not of the kind of event. That nothing is
given up too early needs a further invariant, `TurnsInv`: an event of the plan that has had its turn is on
the heap or did not fit, whatever happened to the ones before it; `ReducibleFits` says when it fits.
TLC confirmed `PipelineInv` and `TurnsInv` on the instance of run `pipeline`.

`Ids` proves that every fallback id is a version 7 UUID and so is accepted when a client sends
it back (`FallbackIsConversationID`), and that ids with different counters below 2^62 differ
(`FallbackIdsDistinct`), although version and variant overwrite bits of the counter: the variant
hides its two highest bits, while the bits the version hides are also in the last eight bytes.
The counter belongs to the process; another process, or the same one restarted, that draws ids
in the same millisecond repeats them.

## 5. What is only model-checked

- The properties of `StoreLock`, which is about progress first: `EveryCallReturns` is out of the prover's
  reach, as all liveness is, and `LockTypeOK` and `HolderIsInside` are invariants of two variables on which nothing
  else is built. Every other property of a passing run is stated by a theorem of section 4.

Some theorems have conditions: `FewAndShort`, `AnswersMerge`, the absence of conversation ids, `OneByOne`,
`Roomy` and `PropertiesFit`. Runs that end in a violation show that without `AnswersMerge` or `PropertiesFit` their
properties fail. `FewAndShort` is a sufficient condition; whether larger limits
would need more than ten rounds is not settled.

## 6. Findings

Each is a run that ends in a violation; the property is what the repository's documents say.

1. `nil_properties` (code bug, `identity.go:179`). An identity stored without properties,
   then an answer with some: `mergeIdentity` writes to a nil map and panics. Every such
   request of the session passes without events. The answers of `FullAnswers` avoid it
   and the property then holds (`sharing`).
2. `probe_panic` (code bug, `tool_call.go:41`). The same panic, in the deferred function
   that handles a handler's panic, replaces the handler's.
3. `repeated_identify` (code bug, `identity.go:101`). An identity is compared with what was
   stored before it is cut to a hundred properties, while what was stored has been cut. A
   session whose merged properties are more than that is never known to be unchanged, and every
   request, also of requests one after the other, emits `$identify`.
4. `ownership_race` (code bug, `tool_call.go:15`). A listing between two looks at the
   ownership strips a real tool's own field under the missing-capability name.
5. `restart` (`lifecycle.go:225`). After a restart a call made on an earlier listing
   reaches its tool with the added field.

Seen while modelling and without a run: a handler reached by a probe captures events
without the request's identity (`tool_call.go:33`); a panic of a structured result's
marshaler in `applyConversationResult` is reported as a failed tool though the caller gets
the success (`tool_call.go:71`); after a panic of the preparation the tool gets the
added fields unstripped (`middleware.go:46`); a probe whose identification panics in the deferred
function is not reported at all; a tool registered again under its name keeps its old
ownership until it is listed; several pages of one listing may each name the virtual tool
(`schema.go:86`); two listings may write the ownership of a tool that was registered again in the other order
than they saw it (`schema.go:83`). `$identify` may be emitted twice in a row for the same identity when three
requests of one session overlap and its answers change back and forth, since whether to publish is decided when
the store is updated and the event emitted after downstream (`lifecycle.go:91`; `NoRepeatedIdentify`
fails in the instance of `sequential` with `MaxInFlight = 3` and the answers of `FullAnswers`, which differ in
the distinct id alone), though `SPEC.md:167-168` has it "only when
material identity changes". A tool registered under the missing-capability name, listed and then removed with
`mcp.Server.RemoveTools` is remembered as a real tool: the call is not taken for a probe (`tool_call.go:15`) and the
caller gets the unknown-tool error, where the virtual tool would have answered, until a listing
without the tool is prepared. `VirtualToolAnswers` exempts it.

In the pipeline: the text of an error value is cut but not searched for tokens
(`privacy.go:57`), though `SPEC.md:203` has "redact PostHog keys embedded in strings"; `IsPrivate` exempts it.
Data URLs and encoded texts of less than 10240 bytes are passed on (`privacy.go:187`), though `SPEC.md:204` has
"replace image, audio, blob, data-URL, and large base64 content" and sets no limit for data URLs; `IsPrivate` exempts
them. The two are what `SecretsRedacted` does not say.
A property `$event` is taken for the event's name when strings are cut (`truncation.go:153`), so
that a large one is never cut and the event may be given up. `SPEC.md:183-184` has
`EventProperties` applied after truncation; the code merges it before (`capture.go:66`), which is
what makes `LimitsKept` true. A hundred keys that sort before `$session_id` push it out of the
event (`privacy.go:105`), and as the marker counts as a key, every normalization of such a map
drops one more. Keys, groups and the distinct id are never reduced by the budget. At depth 1, the
only one at which strings are cut, none is nested: `truncateAtPath`'s walk has nothing to do.
The text that stands for a block of an unknown type quotes the type, which may itself be as long as a
string may be (`privacy.go:223`): it is not cut again and exceeds the limit of strings by up to 82
bytes, which `IsLimited` allows for texts the SDK makes up.
The map `EventProperties` returns is not copied (`lifecycle.go:48`) and read again for each event
(`capture.go:62-68`), so one that a hook or its owner changes while a request's events are sent makes
them differ, against `SPEC.md:189-190` ("All mutable data given to hooks or PostHog is cloned. Hook mutation cannot
alter the MCP request, result, sibling event, or another concurrent capture"). `ChangeResolved` has this happen in the model;
`SiblingsAgree` says what is the same even then, and that all is while the map is left alone. A map
changed while it is read is a data race, which Go may end with a fatal error; the model has changes between
two reads only.

## 7. What is not modelled, and the plan

Left out for good: wording of texts and schemas, what the redaction patterns match, the boundary
of UTF-8 characters, the JSON detour of unusual Go values, the limit of stack frames (the SDK's
own exceptions have none), client and header attributes, request cloning (copies that give hooks
nothing to change), constants, the delivery posthog-go does. FNV collisions of `deriveSessionID`
are not modelled: derived ids stand for themselves. Exception autocapture is taken to be on.

The modules were written in the order of the table in section 2: the store first, as all
attribution rests on it, then the requests that share it, then the ownership, then the events the
requests produce. The middleware and the pipeline are not composed in one specification: a
request hands the pipeline a finished snapshot and takes nothing back from it, `emitLifecycle`
recovers from whatever happens in it (`lifecycle.go:35`), and `Middleware` models it as
the one step `Report`.

What remains to be proved is in section 5.
