---------------------------- MODULE ToolOwnership ----------------------------
(***************************************************************************)
(* The parameters an Analytics adds to tools and takes back from calls: a  *)
(* middlewareState remembers, per tool name, what prepareToolsList added   *)
(* to its schema, and handleToolCall strips only that.  Listings and calls *)
(* run concurrently, and each look at the state is a critical section of   *)
(* its own, so a call that looks three times may see three answers.        *)
(*                                                                         *)
(* The server behind the middleware registers tools at any time; a schema  *)
(* is what injection depends on and nothing more.  An argument is present  *)
(* or absent, and a conversation id is valid or not.                       *)
(***************************************************************************)
EXTENDS GoMaps, Naturals

CONSTANTS
    ToolNames,        \* names of tools
    MissingTool,      \* Options.MissingCapabilityToolName
    Replaceable,      \* tools the server may remove, or register again with another schema
    Pages,            \* the server's listing: a set of pages, each a set of names
    Schemas,          \* schemas of registered tools
    InjectContext,    \* ~Options.DisableContextInjection
    EnableConversationID,
    ReportMissing,
    Listings,         \* one tools/list request each
    Calls,            \* one tools/call request each
    MaxRestarts       \* bound on restarts

VARIABLES
    tools,            \* the tools registered: a map from names to schemas
    ownership,        \* middlewareState.ownership
    listing,          \* the local state of each tools/list request
    call,             \* the local state of each tools/call request
    advertised,       \* the parameters clients were last told were added, by tool
    restarts,         \* the number of restarts so far
    alone,            \* history: the listings no other one has overlapped yet
    removed           \* history: the tools the server has ever removed

vars == <<tools, ownership, listing, call, advertised, restarts, alone, removed>>

Fields == {"context", "conversation_id"}

AllSchemas == [input      : SUBSET Fields,   \* fields of the tool's own input
               inputSafe  : BOOLEAN,         \* its input schema can be extended
               outputSafe : BOOLEAN]         \* its output schema can be extended

ASSUME ToolAssumption ==
    /\ MissingTool \in ToolNames
    /\ Replaceable \subseteq ToolNames
    /\ Schemas \subseteq AllSchemas
    /\ Pages \subseteq SUBSET ToolNames
    /\ {InjectContext, EnableConversationID, ReportMissing} \subseteq BOOLEAN
    /\ MaxRestarts \in Nat

\* A parameterOwnership as the set of its fields that are true.
Ownerships == SUBSET (Fields \cup {"outputInstructions", "virtualMissing"})

\* Tools that are always the server's own and stay what they were registered as.
OrdinaryTools == ToolNames \ (Replaceable \cup {MissingTool})

ListingStates ==
    [pc       : {"idle", "prepare", "done", "lost"},
     snapshot : UNION {[names -> Schemas] : names \in SUBSET ToolNames},
     todo     : SUBSET ToolNames]             \* tools not prepared yet

CallStates ==
    [pc           : {"idle", "prepare", "check", "server", "return", "done", "lost"},
     tool         : ToolNames,
     arguments    : SUBSET Fields,
     present      : BOOLEAN,                  \* the call has an arguments object
     valid        : BOOLEAN,                  \* its conversation_id is a UUIDv7
     owned        : Ownerships,               \* the local variable ownership
     probe        : BOOLEAN,                  \* probeMissing
     conversation : {"none", "supplied", "minted"},
     intent       : BOOLEAN,                  \* the intent is the context argument
     asked        : SUBSET Fields,            \* history: advertised when the call began
     delivered    : SUBSET Fields,            \* arguments the server got
     declared     : SUBSET Fields,            \* history: the tool's own fields by then
     outcome      : {"none", "result", "failed", "error", "unknown"},
     reply        : {"none", "result", "failed", "error", "unknown", "virtual"},
     told         : BOOLEAN,                  \* the reply gives a conversation id
     fault        : {"none", "prepare", "tell"}]   \* history: where the wrapper panicked

IdleListing == [pc |-> "idle", snapshot |-> EmptyMap, todo |-> {}]

IdleCall ==
    [pc |-> "idle", tool |-> MissingTool, arguments |-> {}, present |-> FALSE,
     valid |-> FALSE, owned |-> {}, probe |-> FALSE, conversation |-> "none",
     intent |-> FALSE, asked |-> {}, delivered |-> {}, declared |-> {},
     outcome |-> "none", reply |-> "none", told |-> FALSE, fault |-> "none"]

Init ==
    /\ tools = EmptyMap
    /\ ownership = EmptyMap
    /\ listing = [l \in Listings |-> IdleListing]
    /\ call = [q \in Calls |-> IdleCall]
    /\ advertised = [n \in ToolNames |-> {}]
    /\ restarts = 0
    /\ alone = {}
    /\ removed = {}

-----------------------------------------------------------------------------
\* middlewareState.get: the zero ownership for a name that is not there.
Get(name) == IF name \in DOMAIN ownership THEN ownership[name] ELSE {}

\* The server registers a tool, or registers it again.
Register(name, schema) ==
    /\ name \notin DOMAIN tools \/ name \in Replaceable
    /\ tools' = Put(tools, name, schema)
    /\ UNCHANGED <<ownership, listing, call, advertised, restarts, alone, removed>>

\* The server removes a tool.  Nothing tells the middleware, whose memory of the tool
\* stays what it was.
Remove(name) ==
    /\ name \in Replaceable \cap DOMAIN tools
    /\ tools' = Delete(tools, name)
    /\ removed' = removed \cup {name}
    /\ UNCHANGED <<ownership, listing, call, advertised, restarts, alone>>

\* The process restarts: the requests at work are lost, the middleware state is
\* new, the server registers the same tools, and clients keep what they know.
Restart ==
    /\ restarts < MaxRestarts
    /\ restarts' = restarts + 1
    /\ ownership' = EmptyMap
    /\ listing' = [l \in Listings |->
                      IF listing[l].pc \in {"idle", "done"}
                      THEN listing[l] ELSE [IdleListing EXCEPT !.pc = "lost"]]
    /\ call' = [q \in Calls |->
                   IF call[q].pc \in {"idle", "done"}
                   THEN call[q] ELSE [IdleCall EXCEPT !.pc = "lost"]]
    /\ UNCHANGED <<tools, advertised, alone, removed>>

-----------------------------------------------------------------------------
\* Mutant: the fields the tool already has are owned as well.
OwnershipOfEverything(schema) ==
    LET enabled == (IF InjectContext THEN {"context"} ELSE {})
                      \cup (IF EnableConversationID THEN {"conversation_id"} ELSE {})
    IN  (IF schema.inputSafe THEN enabled ELSE {})
           \cup (IF EnableConversationID /\ schema.outputSafe
                 THEN {"outputInstructions"} ELSE {})

\* Mutant: the structured field goes by its name in the schema.
OwnershipByName(schema) ==
    LET enabled == (IF InjectContext THEN {"context"} ELSE {})
                      \cup (IF EnableConversationID THEN {"conversation_id"} ELSE {})
    IN  (IF schema.inputSafe THEN enabled \ schema.input ELSE {})
           \cup (IF EnableConversationID /\ schema.outputSafe
                 THEN {"_mcp_instructions"} ELSE {})

\* injectInputParameter and injectOutputInstructions: what is added to a tool.
OwnershipOf(schema) ==
    LET enabled == (IF InjectContext THEN {"context"} ELSE {})
                      \cup (IF EnableConversationID THEN {"conversation_id"} ELSE {})
    IN  (IF schema.inputSafe THEN enabled \ schema.input ELSE {})
           \cup (IF EnableConversationID /\ schema.outputSafe
                 THEN {"outputInstructions"} ELSE {})

\* The virtual tool requires a context; its schema can always be extended.
VirtualOwnership ==
    {"context", "virtualMissing"}
       \cup (IF EnableConversationID THEN {"conversation_id"} ELSE {})

\* The server answers a listing request with the tools of a page it has by then.
ServeListing(l) ==
    /\ listing[l].pc = "idle"
    /\ \E page \in Pages :
          LET names == page \cap DOMAIN tools
          IN  listing' = [listing EXCEPT ![l] = [pc       |-> "prepare",
                                                 snapshot |-> Restrict(tools, names),
                                                 todo     |-> names]]
    /\ LET others == {m \in Listings : listing[m].pc = "prepare"}
       IN  alone' = IF others = {} THEN alone \cup {l} ELSE alone \ others
    /\ UNCHANGED <<tools, ownership, call, advertised, restarts, removed>>

\* Mutant: a context is owned wherever one is wanted, injected or not.
PrepareToolAlways(l) ==
    /\ listing[l].pc = "prepare"
    /\ \E name \in listing[l].todo :
          /\ ownership' = Put(ownership, name,
                              {"context"} \cup OwnershipOf(listing[l].snapshot[name]))
          /\ listing' = [listing EXCEPT ![l].todo = @ \ {name}]
    /\ UNCHANGED <<tools, call, advertised, restarts, alone, removed>>

\* Mutant: a tool that is remembered is not prepared again.
PrepareToolOnce(l) ==
    /\ listing[l].pc = "prepare"
    /\ \E name \in listing[l].todo :
          /\ ownership' = IF name \in DOMAIN ownership THEN ownership
                          ELSE Put(ownership, name, OwnershipOf(listing[l].snapshot[name]))
          /\ listing' = [listing EXCEPT ![l].todo = @ \ {name}]
    /\ UNCHANGED <<tools, call, advertised, restarts, alone, removed>>

\* One turn of the loop of prepareToolsList: extend a tool, remember how.  The order
\* is that of the server's answer, which is any.
PrepareTool(l) ==
    /\ listing[l].pc = "prepare"
    /\ \E name \in listing[l].todo :
          /\ ownership' = Put(ownership, name, OwnershipOf(listing[l].snapshot[name]))
          /\ listing' = [listing EXCEPT ![l].todo = @ \ {name}]
    /\ UNCHANGED <<tools, call, advertised, restarts, alone, removed>>

\* The tools of the page a listing request got, and those its client is told of.
Listed(l) == DOMAIN listing[l].snapshot

InjectsVirtual(l) == ReportMissing /\ MissingTool \notin Listed(l)

\* The end of prepareToolsList: the client gets the extended tools, and the
\* virtual one unless the page has a real tool of that name.
AnswerListing(l) ==
    /\ listing[l].pc = "prepare"
    /\ listing[l].todo = {}
    /\ ownership' = IF InjectsVirtual(l) THEN Put(ownership, MissingTool, VirtualOwnership)
                                         ELSE ownership
    /\ advertised' = [n \in ToolNames |->
                         CASE n \in Listed(l)
                              -> OwnershipOf(listing[l].snapshot[n]) \cap Fields
                           [] n = MissingTool /\ InjectsVirtual(l)
                              -> VirtualOwnership \cap Fields
                           [] OTHER -> advertised[n]]
    /\ listing' = [listing EXCEPT ![l] = [IdleListing EXCEPT !.pc = "done"]]
    /\ UNCHANGED <<tools, call, restarts, alone, removed>>

\* Extending a tool panics, in the marshaler of a schema: the client gets the
\* listing as the server made it; what was remembered so far stays.
AbandonListing(l) ==
    /\ listing[l].pc = "prepare"
    /\ listing[l].todo # {}
    /\ advertised' = [n \in ToolNames |-> IF n \in Listed(l) THEN {} ELSE advertised[n]]
    /\ listing' = [listing EXCEPT ![l] = [IdleListing EXCEPT !.pc = "done"]]
    /\ UNCHANGED <<tools, ownership, call, restarts, alone, removed>>

-----------------------------------------------------------------------------
\* A client calls a tool it may or may not have seen, with any arguments.
BeginCall(q) ==
    /\ call[q].pc = "idle"
    /\ \E name \in ToolNames, arguments \in SUBSET Fields, present, valid \in BOOLEAN :
          /\ ~present => arguments = {}
          /\ "conversation_id" \notin arguments => ~valid
          /\ call' = [call EXCEPT
                         ![q].pc = "prepare", ![q].tool = name,
                         ![q].arguments = arguments, ![q].present = present,
                         ![q].valid = valid, ![q].asked = advertised[name]]
    /\ UNCHANGED <<tools, ownership, listing, advertised, restarts, alone, removed>>

\* resolveConversationID
Conversation(q, owned) ==
    IF ~(EnableConversationID /\ "conversation_id" \in owned)
    THEN "none"
    ELSE IF "conversation_id" \in call[q].arguments /\ call[q].valid
         THEN "supplied" ELSE "minted"

\* resolveIntent without a fallback.
ContextIsIntent(q, owned) == "context" \in owned \cap call[q].arguments

\* Mutant: a conversation id is left in the arguments.
PrepareContextOnly(q) ==
    LET owned == Get(call[q].tool)
    IN  /\ call[q].pc = "prepare"
        /\ call' = [call EXCEPT
                       ![q].pc = IF ReportMissing /\ call[q].tool = MissingTool
                                 THEN "check" ELSE "server",
                       ![q].owned     = owned,
                       ![q].delivered = call[q].arguments \ (owned \cap {"context"}),
                       ![q].intent    = ContextIsIntent(q, owned)]
        /\ UNCHANGED <<tools, ownership, listing, advertised, restarts, alone, removed>>

\* prepareToolRequest, the first look at the ownership.
PrepareRequest(q) ==
    LET owned == Get(call[q].tool)
    IN  /\ call[q].pc = "prepare"
        /\ call' = [call EXCEPT
                       ![q].pc = IF ReportMissing /\ call[q].tool = MissingTool
                                 THEN "check" ELSE "server",
                       ![q].owned        = owned,
                       ![q].delivered    = call[q].arguments \ owned,
                       ![q].conversation = IF call[q].present THEN Conversation(q, owned)
                                                              ELSE "none",
                       ![q].intent       = ContextIsIntent(q, owned)]
        /\ UNCHANGED <<tools, ownership, listing, advertised, restarts, alone, removed>>

\* Mutant: only a name listed as virtual is probed.
CheckListedOnly(q) ==
    /\ call[q].pc = "check"
    /\ call' = [call EXCEPT ![q] =
                   IF "virtualMissing" \in Get(MissingTool)
                   THEN [@ EXCEPT !.pc = "server", !.probe = TRUE, !.owned = {},
                                  !.delivered = call[q].arguments,
                                  !.conversation = "none", !.intent = FALSE]
                   ELSE [@ EXCEPT !.pc = "server"]]
    /\ UNCHANGED <<tools, ownership, listing, advertised, restarts, alone, removed>>

\* handleToolCall, the second look: a name that no listed tool owns is probed, with
\* the request as it came.
CheckMissing(q) ==
    /\ call[q].pc = "check"
    /\ call' = [call EXCEPT ![q] =
                   IF MissingTool \notin DOMAIN ownership
                         \/ "virtualMissing" \in ownership[MissingTool]
                   THEN [@ EXCEPT !.pc = "server", !.probe = TRUE, !.owned = {},
                                  !.delivered = call[q].arguments,
                                  !.conversation = "none", !.intent = FALSE]
                   ELSE [@ EXCEPT !.pc = "server"]]
    /\ UNCHANGED <<tools, ownership, listing, advertised, restarts, alone, removed>>

\* resolveIdentity panics, which only a probe leaves for later: the recover of
\* Middleware sends the request downstream as it came, and nothing is remembered.
PreparePanics(q) ==
    /\ call[q].pc = "server"
    /\ ~call[q].probe /\ call[q].fault = "none"
    /\ call' = [call EXCEPT
                   ![q].owned = {}, ![q].delivered = call[q].arguments,
                   ![q].conversation = "none", ![q].intent = FALSE,
                   ![q].fault = "prepare"]
    /\ UNCHANGED <<tools, ownership, listing, advertised, restarts, alone, removed>>

\* The server calls the tool, if it has one of that name.
ServeCall(q) ==
    /\ call[q].pc = "server"
    /\ \/ /\ call[q].tool \in DOMAIN tools
          /\ \E outcome \in {"result", "failed", "error"} :
                call' = [call EXCEPT ![q].pc = "return",
                                     ![q].declared = tools[call[q].tool].input,
                                     ![q].outcome = outcome]
       \/ /\ call[q].tool \notin DOMAIN tools
          /\ call' = [call EXCEPT ![q].pc = "return", ![q].outcome = "unknown"]
    /\ UNCHANGED <<tools, ownership, listing, advertised, restarts, alone, removed>>

\* The ownership a call of the virtual tool is given, the third look.
VirtualOwned ==
    IF "virtualMissing" \in Get(MissingTool) THEN Get(MissingTool)
                                             ELSE {"context", "virtualMissing"}

\* Mutant: the id is told in structured content only.
TellsStructuredOnly(conversation, owned) ==
    conversation # "none" /\ "outputInstructions" \in owned

\* What applyConversationResult adds to a result: always an id that is new, and one
\* the client supplied if there is structured content to put it in.
Tells(conversation, owned) ==
    \/ conversation = "minted"
    \/ conversation = "supplied" /\ "outputInstructions" \in owned

\* A probe the server does not know is a call of the virtual tool.
AnswerVirtual(q) ==
    /\ call[q].pc = "return"
    /\ call[q].probe /\ call[q].outcome = "unknown"
    /\ call' = [call EXCEPT
                   ![q].pc = "done", ![q].reply = "virtual",
                   ![q].owned        = VirtualOwned,
                   ![q].conversation = Conversation(q, VirtualOwned),
                   ![q].intent       = ContextIsIntent(q, VirtualOwned),
                   ![q].told         = Tells(Conversation(q, VirtualOwned), VirtualOwned)]
    /\ UNCHANGED <<tools, ownership, listing, advertised, restarts, alone, removed>>

\* Any other call gets the server's answer, which tells the conversation id when it
\* is a result, of success or of failure.
AnswerCall(q) ==
    /\ call[q].pc = "return"
    /\ ~(call[q].probe /\ call[q].outcome = "unknown")
    /\ call' = [call EXCEPT
                   ![q].pc = "done", ![q].reply = call[q].outcome,
                   ![q].told = /\ ~call[q].probe
                               /\ call[q].outcome \in {"result", "failed"}
                               /\ Tells(call[q].conversation, call[q].owned)]
    /\ UNCHANGED <<tools, ownership, listing, advertised, restarts, alone, removed>>

\* applyConversationResult panics in the marshaler of structured content: the caller
\* gets the server's answer as it was.
AnswerPanics(q) ==
    /\ call[q].pc = "return"
    /\ ~call[q].probe
    /\ call[q].outcome \in {"result", "failed"}
    /\ call[q].conversation # "none" /\ "outputInstructions" \in call[q].owned
    /\ call' = [call EXCEPT
                   ![q].pc = "done", ![q].reply = call[q].outcome, ![q].fault = "tell"]
    /\ UNCHANGED <<tools, ownership, listing, advertised, restarts, alone, removed>>

-----------------------------------------------------------------------------
ListingStep(l) == ServeListing(l) \/ PrepareTool(l) \/ AnswerListing(l) \/ AbandonListing(l)

CallStep(q) ==
    \/ BeginCall(q) \/ PrepareRequest(q) \/ CheckMissing(q) \/ PreparePanics(q)
    \/ ServeCall(q) \/ AnswerVirtual(q) \/ AnswerCall(q) \/ AnswerPanics(q)

Next ==
    \/ \E name \in ToolNames, schema \in Schemas : Register(name, schema)
    \/ \E name \in ToolNames : Remove(name)
    \/ Restart
    \/ \E l \in Listings : ListingStep(l)
    \/ \E q \in Calls : CallStep(q)

Spec == Init /\ [][Next]_vars

-----------------------------------------------------------------------------
ToolTypeOK ==
    /\ tools \in [DOMAIN tools -> Schemas] /\ DOMAIN tools \subseteq ToolNames
    /\ ownership \in [DOMAIN ownership -> Ownerships] /\ DOMAIN ownership \subseteq ToolNames
    /\ listing \in [Listings -> ListingStates]
    /\ call \in [Calls -> CallStates]
    /\ advertised \in [ToolNames -> SUBSET Fields]
    /\ restarts \in Nat
    /\ alone \subseteq Listings
    /\ removed \subseteq Replaceable

\* What is remembered of an ordinary tool is what its schema allowed, whichever of
\* the listings at work wrote it last and whether or not one was abandoned; and the
\* virtual tool is remembered under its own name only.
OwnershipIsSound ==
    \A n \in DOMAIN ownership :
        /\ n \in OrdinaryTools =>
              n \in DOMAIN tools /\ ownership[n] = OwnershipOf(tools[n])
        /\ "virtualMissing" \in ownership[n] => n = MissingTool

\* What was remembered of a tool that was registered again is wrong until the next
\* listing only: one that nobody overlaps leaves of each tool it has prepared what the
\* schema it saw allows, whatever earlier listings, abandoned ones and restarts left.
ListingRefreshes ==
    \A l \in alone : listing[l].pc = "prepare" =>
        \A n \in Listed(l) \ listing[l].todo :
            n \in DOMAIN ownership /\ ownership[n] = OwnershipOf(listing[l].snapshot[n])

\* A call that is over, and that reached a real tool.
Served(q) == call[q].pc = "done" /\ call[q].outcome \notin {"none", "unknown"}

\* A field the customer's tool declares is never owned: it reaches the tool when the
\* client sends it, and is not taken for the intent.
KeepsCustomerFields(q) ==
    /\ call[q].arguments \cap call[q].declared \subseteq call[q].delivered
    /\ "context" \in call[q].declared => ~call[q].intent

CustomerFieldsKept ==
    \A q \in Calls : Served(q) => KeepsCustomerFields(q)

OrdinaryFieldsKept ==
    \A q \in Calls :
        Served(q) /\ call[q].tool \in OrdinaryTools => KeepsCustomerFields(q)

Stripped(q) ==
    /\ Served(q) /\ call[q].fault # "prepare"
    /\ call[q].tool \in OrdinaryTools
    /\ call[q].arguments \subseteq call[q].declared \cup call[q].asked
    => call[q].delivered \subseteq call[q].declared

\* A client that sends nothing but the tool's own fields and those it was told were
\* added is not rejected for the latter: they are gone when the tool is called, at
\* least while the process that added them runs and unless its preparation panicked.
AdvertisedFieldsStripped == restarts = 0 => \A q \in Calls : Stripped(q)

\* The same of every call, those made on the strength of an earlier process's listing
\* included.
StrippedAcrossRestarts == \A q \in Calls : Stripped(q)

\* A call to the name advertised for missing capabilities that the server does not
\* know is answered, however listings, calls and the registration of a real tool of
\* that name interleave, unless the server has had such a tool and removed it: what is
\* remembered of it then stops the probe, until a listing without it has been prepared.
VirtualToolAnswers ==
    \A q \in Calls :
        /\ ReportMissing /\ MissingTool \notin removed
        /\ call[q].pc = "done" /\ call[q].tool = MissingTool
        /\ call[q].outcome = "unknown"
        => call[q].reply = "virtual"

\* An id made up for a conversation is told to the client, unless the server has
\* answered with an error, or telling it panicked: otherwise an event never names a
\* conversation nobody knows of.
MintedIdsAreTold ==
    \A q \in Calls :
        /\ call[q].pc = "done"
        /\ call[q].conversation = "minted"
        => call[q].told \/ call[q].reply \in {"error", "unknown"} \/ call[q].fault = "tell"
=============================================================================
