------------------------ MODULE ToolOwnershipProofs ------------------------
(***************************************************************************)
(* Theorems about ToolOwnership, for every server, whatever it registers   *)
(* and however it pages its listing, and for any number of listings, calls *)
(* and restarts.                                                           *)
(***************************************************************************)
EXTENDS ToolOwnership, TLAPS

\* What was added to a tool is an ownership, and none of it is a field of the tool's
\* own or the mark of the virtual tool.
LEMMA OwnershipOfFacts ==
    ASSUME NEW schema
    PROVE  /\ OwnershipOf(schema) \in Ownerships
           /\ OwnershipOf(schema) \cap Fields \cap schema.input = {}
           /\ "virtualMissing" \notin OwnershipOf(schema)
BY DEF OwnershipOf, Ownerships, Fields

\* The ownership of the virtual tool is one, and marks it.
LEMMA VirtualOwnershipFacts ==
    VirtualOwnership \in Ownerships /\ "virtualMissing" \in VirtualOwnership
BY DEF VirtualOwnership, Ownerships, Fields

\* A call finds an ownership, if only the empty one.
LEMMA GetType ==
    ASSUME ToolTypeOK, NEW n PROVE Get(n) \in Ownerships
BY DEF ToolTypeOK, Get, Ownerships

\* The ownership map keeps its type when a tool is remembered.
LEMMA RememberType ==
    ASSUME ToolTypeOK, NEW name \in ToolNames, NEW o \in Ownerships,
           ownership' = Put(ownership, name, o)
    PROVE  /\ ownership' \in [DOMAIN ownership' -> Ownerships]
           /\ DOMAIN ownership' \subseteq ToolNames
BY DEF ToolTypeOK, Put

\* The server's tools keep their type when one is registered.
LEMMA RegisterType ==
    ASSUME ToolTypeOK, NEW name \in ToolNames, NEW schema \in Schemas,
           tools' = Put(tools, name, schema)
    PROVE  /\ tools' \in [DOMAIN tools' -> Schemas]
           /\ DOMAIN tools' \subseteq ToolNames
BY DEF ToolTypeOK, Put

\* The server's tools keep their type when one is removed.
LEMMA RemoveType ==
    ASSUME ToolTypeOK, NEW name, tools' = Delete(tools, name)
    PROVE  /\ tools' \in [DOMAIN tools' -> Schemas]
           /\ DOMAIN tools' \subseteq ToolNames
BY DEF ToolTypeOK, Delete, Restrict

\* What a listing request is.
LEMMA ListingType ==
    ASSUME NEW pc \in {"idle", "prepare", "done", "lost"},
           NEW names \in SUBSET ToolNames, NEW snapshot \in [names -> Schemas],
           NEW todo \in SUBSET ToolNames
    PROVE  [pc |-> pc, snapshot |-> snapshot, todo |-> todo] \in ListingStates
BY DEF ListingStates

\* A listing request that is over, or lost, is one.
LEMMA OverListingType ==
    /\ IdleListing \in ListingStates
    /\ [IdleListing EXCEPT !.pc = "done"] \in ListingStates
    /\ [IdleListing EXCEPT !.pc = "lost"] \in ListingStates
<1>1. EmptyMap \in [{} -> Schemas]
  BY DEF EmptyMap
<1>2. /\ [IdleListing EXCEPT !.pc = "done"]
            = [pc |-> "done", snapshot |-> EmptyMap, todo |-> {}]
      /\ [IdleListing EXCEPT !.pc = "lost"]
            = [pc |-> "lost", snapshot |-> EmptyMap, todo |-> {}]
  BY DEF IdleListing
<1>3. ASSUME NEW pc \in {"idle", "prepare", "done", "lost"}
      PROVE  [pc |-> pc, snapshot |-> EmptyMap, todo |-> {}] \in ListingStates
  <2>1. {} \in SUBSET ToolNames
    OBVIOUS
  <2> QED BY <1>1, <2>1, ListingType
<1> QED BY <1>2, <1>3 DEF IdleListing

-----------------------------------------------------------------------------
(***************************************************************************)
(* Type correctness.                                                       *)
(***************************************************************************)
\* A server without tools, and no requests, are well typed.
LEMMA ToolTypeInit == Init => ToolTypeOK
<1> SUFFICES ASSUME Init PROVE ToolTypeOK
  OBVIOUS
<1>1. EmptyMap \in [{} -> Schemas] /\ DOMAIN EmptyMap = {}
  BY DEF EmptyMap
<1>2. IdleListing \in ListingStates
  BY OverListingType
<1>3. IdleCall \in CallStates
  BY ToolAssumption DEF IdleCall, CallStates, Ownerships
<1> QED BY <1>1, <1>2, <1>3 DEF Init, ToolTypeOK, EmptyMap

\* Every action keeps the types of what it writes.
LEMMA ToolTypeStep == ToolTypeOK /\ [Next]_vars => ToolTypeOK'
<1> SUFFICES ASSUME ToolTypeOK, [Next]_vars PROVE ToolTypeOK'
  OBVIOUS
<1> USE DEF ToolTypeOK
<1>1. CASE UNCHANGED vars
  BY <1>1 DEF vars
<1>2. ASSUME NEW name \in ToolNames, NEW schema \in Schemas, Register(name, schema)
      PROVE  ToolTypeOK'
  BY <1>2, RegisterType DEF Register
<1>3. CASE Restart
  <2>1. EmptyMap \in [{} -> Schemas] /\ DOMAIN EmptyMap = {}
    BY DEF EmptyMap
  <2>2. [IdleListing EXCEPT !.pc = "lost"] \in ListingStates
    BY OverListingType
  <2>3. [IdleCall EXCEPT !.pc = "lost"] \in CallStates
    BY ToolAssumption DEF IdleCall, CallStates, Ownerships
  <2>4. listing' \in [Listings -> ListingStates] /\ call' \in [Calls -> CallStates]
    BY <1>3, <2>2, <2>3 DEF Restart
  <2> QED BY <1>3, <2>1, <2>4 DEF Restart, EmptyMap
<1>4. ASSUME NEW l \in Listings, ServeListing(l) PROVE ToolTypeOK'
  <2>1. PICK page \in Pages :
          listing' = [listing EXCEPT
                         ![l] = [pc       |-> "prepare",
                                 snapshot |-> Restrict(tools, page \cap DOMAIN tools),
                                 todo     |-> page \cap DOMAIN tools]]
    BY <1>4 DEF ServeListing
  <2>2. /\ page \cap DOMAIN tools \in SUBSET ToolNames
        /\ Restrict(tools, page \cap DOMAIN tools) \in [page \cap DOMAIN tools -> Schemas]
    BY DEF Restrict
  <2>3. listing'[l] \in ListingStates
    BY <2>1, <2>2, ListingType
  <2>4. listing' \in [Listings -> ListingStates]
    BY <2>1, <2>3
  <2> QED BY <1>4, <2>4 DEF ServeListing
<1>5. ASSUME NEW l \in Listings, PrepareTool(l) PROVE ToolTypeOK'
  <2>1. PICK name \in listing[l].todo :
          /\ ownership' = Put(ownership, name, OwnershipOf(listing[l].snapshot[name]))
          /\ listing' = [listing EXCEPT ![l].todo = @ \ {name}]
    BY <1>5 DEF PrepareTool
  <2>2. name \in ToolNames
    BY DEF ListingStates
  <2>3. /\ ownership' \in [DOMAIN ownership' -> Ownerships]
        /\ DOMAIN ownership' \subseteq ToolNames
    BY <2>1, <2>2, OwnershipOfFacts, RememberType
  <2>4. listing' \in [Listings -> ListingStates]
    BY <2>1 DEF ListingStates
  <2> QED BY <1>5, <2>3, <2>4 DEF PrepareTool
<1>6. ASSUME NEW l \in Listings, AnswerListing(l) \/ AbandonListing(l) PROVE ToolTypeOK'
  <2>1. [IdleListing EXCEPT !.pc = "done"] \in ListingStates
    BY OverListingType
  <2>2. listing' \in [Listings -> ListingStates]
    BY <1>6, <2>1 DEF AnswerListing, AbandonListing
  <2>3. /\ ownership' \in [DOMAIN ownership' -> Ownerships]
        /\ DOMAIN ownership' \subseteq ToolNames
    BY <1>6, VirtualOwnershipFacts, RememberType, ToolAssumption
       DEF AnswerListing, AbandonListing
  <2>4. advertised' \in [ToolNames -> SUBSET Fields]
    BY <1>6 DEF AnswerListing, AbandonListing
  <2> QED BY <1>6, <2>2, <2>3, <2>4 DEF AnswerListing, AbandonListing
<1>7. ASSUME NEW q \in Calls, CallStep(q) PROVE ToolTypeOK'
  <2>1. call[q] \in CallStates
    OBVIOUS
  <2>2. CASE BeginCall(q)
    <3>1. PICK name \in ToolNames, arguments \in SUBSET Fields, present, valid \in BOOLEAN :
            /\ ~present => arguments = {}
            /\ "conversation_id" \notin arguments => ~valid
            /\ call' = [call EXCEPT
                          ![q].pc = "prepare", ![q].tool = name,
                          ![q].arguments = arguments, ![q].present = present,
                          ![q].valid = valid, ![q].asked = advertised[name]]
      BY <2>2 DEF BeginCall
    <3>2. call'[q] \in CallStates
      BY ZenonT(60), <2>1, <3>1 DEF CallStates
    <3> QED BY <2>2, <3>1, <3>2 DEF BeginCall
  <2>3. CASE PrepareRequest(q)
    <3> DEFINE pc    == IF ReportMissing /\ call[q].tool = MissingTool THEN "check" ELSE "server"
               owned == Get(call[q].tool)
               c     == IF call[q].present THEN Conversation(q, owned) ELSE "none"
               asks  == ContextIsIntent(q, owned)
    <3>1. /\ pc \in {"check", "server"}
          /\ owned \in Ownerships
          /\ c \in {"none", "supplied", "minted"}
          /\ asks \in BOOLEAN
      BY GetType DEF Conversation, ContextIsIntent
    <3>2. call' = [call EXCEPT ![q].pc = pc, ![q].owned = owned,
                               ![q].delivered = call[q].arguments \ owned,
                               ![q].conversation = c, ![q].intent = asks]
      BY <2>3 DEF PrepareRequest
    <3> HIDE DEF pc, owned, c, asks
    <3>3. call'[q] \in CallStates
      <4>1. [call[q] EXCEPT !.pc = pc, !.owned = owned,
                            !.delivered = call[q].arguments \ owned,
                            !.conversation = c] \in CallStates
        BY ZenonT(60), <2>1, <3>1 DEF CallStates
      <4>2. \A d \in CallStates : [d EXCEPT !.intent = asks] \in CallStates
        BY <3>1 DEF CallStates
      <4>3. call'[q] = [[call[q] EXCEPT !.pc = pc, !.owned = owned,
                                        !.delivered = call[q].arguments \ owned,
                                        !.conversation = c]
                            EXCEPT !.intent = asks]
        BY <3>2
      <4> QED BY <4>1, <4>2, <4>3
    <3> QED BY <2>3, <3>2, <3>3 DEF PrepareRequest
  <2>4. CASE CheckMissing(q)
    BY <2>1, <2>4 DEF CheckMissing, CallStates, Ownerships
  <2>5. CASE ServeCall(q)
    <3>1. call[q].tool \in DOMAIN tools => tools[call[q].tool].input \in SUBSET Fields
      BY ToolAssumption DEF AllSchemas
    <3> QED BY <2>1, <2>5, <3>1 DEF ServeCall, CallStates
  <2>6. CASE AnswerVirtual(q)
    <3> DEFINE owned == VirtualOwned
               c     == Conversation(q, owned)
               asks  == ContextIsIntent(q, owned)
               tells == Tells(c, owned)
    <3>1. /\ owned \in Ownerships
          /\ c \in {"none", "supplied", "minted"}
          /\ asks \in BOOLEAN
          /\ tells \in BOOLEAN
      BY GetType DEF VirtualOwned, Ownerships, Fields, Conversation, ContextIsIntent, Tells
    <3>2. call' = [call EXCEPT ![q].pc = "done", ![q].reply = "virtual",
                               ![q].owned = owned, ![q].conversation = c,
                               ![q].intent = asks, ![q].told = tells]
      BY <2>6 DEF AnswerVirtual
    <3> HIDE DEF owned, c, asks, tells
    <3>3. call'[q] \in CallStates
      <4>1. [call[q] EXCEPT !.pc = "done", !.reply = "virtual", !.owned = owned,
                            !.conversation = c, !.intent = asks] \in CallStates
        BY ZenonT(60), <2>1, <3>1 DEF CallStates
      <4>2. \A d \in CallStates : [d EXCEPT !.told = tells] \in CallStates
        BY <3>1 DEF CallStates
      <4>3. call'[q] = [[call[q] EXCEPT !.pc = "done", !.reply = "virtual", !.owned = owned,
                                        !.conversation = c, !.intent = asks]
                            EXCEPT !.told = tells]
        BY <3>2
      <4> QED BY <4>1, <4>2, <4>3
    <3> QED BY <2>6, <3>2, <3>3 DEF AnswerVirtual
  <2>7. CASE AnswerCall(q)
    BY ZenonT(60), <2>1, <2>7 DEF AnswerCall, Tells, CallStates
  <2>8. CASE PreparePanics(q)
    BY <2>1, <2>8 DEF PreparePanics, CallStates, Ownerships
  <2>9. CASE AnswerPanics(q)
    BY <2>1, <2>9 DEF AnswerPanics, CallStates
  <2> QED BY <1>7, <2>2, <2>3, <2>4, <2>5, <2>6, <2>7, <2>8, <2>9 DEF CallStep
<1>8. ASSUME NEW name \in ToolNames, Remove(name) PROVE ToolTypeOK'
  BY <1>8, RemoveType DEF Remove
<1> QED BY <1>1, <1>2, <1>3, <1>4, <1>5, <1>6, <1>7, <1>8 DEF Next, ListingStep

-----------------------------------------------------------------------------
(***************************************************************************)
(* The inductive invariant: what is remembered and advertised, what        *)
(* listings at work hold, and what calls at work hold.                     *)
(***************************************************************************)

\* The tools the server has, or has had.
Known == DOMAIN tools \cup removed

\* A real tool remembered under the missing-capability name is or was registered.
RealIsKnown ==
    MissingTool \in DOMAIN ownership /\ "virtualMissing" \notin ownership[MissingTool]
        => MissingTool \in Known

\* What a listing got is what the server has, unless it was removed since or changed its
\* schema; what it has prepared is remembered.
ListingInv(l) ==
    listing[l].pc = "prepare" =>
        /\ DOMAIN listing[l].snapshot \subseteq Known
        /\ \A n \in DOMAIN listing[l].snapshot \cap OrdinaryTools :
              n \in DOMAIN tools /\ listing[l].snapshot[n] = tools[n]
        /\ listing[l].todo \subseteq DOMAIN listing[l].snapshot
        /\ DOMAIN listing[l].snapshot \ listing[l].todo \subseteq DOMAIN ownership

\* A process that has advertised a field of a tool owns it.
Remembers(n, fields) ==
    restarts = 0 /\ n \in OrdinaryTools /\ fields # {} =>
        n \in DOMAIN ownership /\ fields \subseteq ownership[n]

WorldInv ==
    /\ OwnershipIsSound
    /\ RealIsKnown
    /\ \A l \in Listings : ListingInv(l)
    /\ \A n \in ToolNames : Remembers(n, advertised[n])

\* The ownership a call of an ordinary tool has found: none, or that of its schema.
Found(n, owned) == owned = {} \/ (n \in DOMAIN tools /\ owned = OwnershipOf(tools[n]))

\* What a call holds between its looks at the ownership and its tool.
CallInv(q) ==
    LET c == call[q]
    IN  /\ c.pc \in {"idle", "prepare", "check"} => ~c.probe
        /\ c.pc \in {"idle", "prepare", "check"} => c.fault = "none"
        /\ c.pc = "check" => c.tool = MissingTool /\ ReportMissing
        /\ c.pc \in {"idle", "prepare"} => c.conversation = "none"
        /\ c.pc = "prepare" => Remembers(c.tool, c.asked)
        /\ c.pc = "server" /\ c.tool \in OrdinaryTools =>
              /\ Found(c.tool, c.owned)
              /\ c.delivered = c.arguments \ c.owned
              /\ c.intent => "context" \in c.owned
              /\ restarts = 0 /\ c.fault # "prepare" => c.asked \subseteq c.owned
        /\ c.pc \in {"server", "return"} =>
              /\ c.probe => c.conversation = "none"
              /\ c.fault = "prepare" => c.owned = {}
              /\ ReportMissing /\ c.tool = MissingTool /\ ~c.probe =>
                    MissingTool \in Known
        /\ c.pc = "return" => c.outcome \in {"result", "failed", "error", "unknown"}
        /\ c.pc = "return" /\ c.outcome = "unknown" /\ ReportMissing
              /\ c.tool = MissingTool => c.probe \/ MissingTool \in removed

\* What holds of a call once its tool has been called, or disowned.
CallDone(q) ==
    LET c == call[q]
    IN  /\ /\ c.pc \in {"return", "done"}
           /\ c.outcome \notin {"none", "unknown"}
           /\ c.tool \in OrdinaryTools
           => /\ KeepsCustomerFields(q)
              /\ /\ restarts = 0 /\ c.fault # "prepare"
                 /\ c.arguments \subseteq c.declared \cup c.asked
                 => c.delivered \subseteq c.declared
        /\ /\ c.pc = "done"
           /\ c.outcome = "unknown" /\ ReportMissing /\ c.tool = MissingTool
           /\ MissingTool \notin removed
           => c.reply = "virtual"
        /\ /\ c.pc = "done"
           /\ c.conversation = "minted"
           => c.told \/ c.reply \in {"error", "unknown"} \/ c.fault = "tell"

CallsInv == \A q \in Calls : CallInv(q) /\ CallDone(q)

ToolInv == ToolTypeOK /\ WorldInv /\ CallsInv

\* Nothing a request at work relies on is taken back while the process runs: ordinary
\* tools stay registered as they are, what is owned of them stays owned, and of the others
\* it stays known that the server has had them.
Grows ==
    /\ restarts' = restarts
    /\ Known \subseteq Known' /\ removed \subseteq removed'
    /\ \A n \in DOMAIN tools \cap OrdinaryTools :
          n \in DOMAIN tools' /\ tools'[n] = tools[n]
    /\ DOMAIN ownership \subseteq DOMAIN ownership'
    /\ \A n \in DOMAIN ownership \cap OrdinaryTools : ownership'[n] = ownership[n]

\* Nothing is remembered or at work at the start.
LEMMA ToolInvInit == Init => ToolInv
<1> SUFFICES ASSUME Init PROVE WorldInv /\ CallsInv
  BY ToolTypeInit DEF ToolInv
<1>1. WorldInv
  BY DEF Init, EmptyMap, WorldInv, OwnershipIsSound, RealIsKnown, ListingInv,
         IdleListing, Remembers
<1>2. CallsInv
  BY DEF Init, CallsInv, CallInv, CallDone, IdleCall
<1> QED BY <1>1, <1>2

\* Every action but a restart only adds to what is known.
LEMMA ActionsGrow ==
    ASSUME ToolTypeOK, WorldInv, [Next]_vars, ~Restart
    PROVE  Grows
<1>1. CASE UNCHANGED vars
  BY <1>1 DEF vars, Grows, Known
<1>2. ASSUME NEW name \in ToolNames, NEW schema \in Schemas, Register(name, schema)
      PROVE  Grows
  BY <1>2 DEF Register, Put, Grows, Known, OrdinaryTools
<1>3. ASSUME NEW l \in Listings, ServeListing(l) \/ AbandonListing(l) PROVE Grows
  BY <1>3 DEF ServeListing, AbandonListing, Grows, Known
<1>4. ASSUME NEW l \in Listings, PrepareTool(l) PROVE Grows
  <2>1. PICK name \in listing[l].todo :
          ownership' = Put(ownership, name, OwnershipOf(listing[l].snapshot[name]))
    BY <1>4 DEF PrepareTool
  <2>2. name \in DOMAIN listing[l].snapshot
    BY <1>4, <2>1 DEF PrepareTool, WorldInv, ListingInv
  <2>3. ASSUME NEW n \in DOMAIN ownership \cap OrdinaryTools
        PROVE  n \in DOMAIN ownership' /\ ownership'[n] = ownership[n]
    <3>1. ownership[n] = OwnershipOf(tools[n])
      BY DEF WorldInv, OwnershipIsSound, ToolTypeOK
    <3>2. n = name => listing[l].snapshot[name] = tools[n]
      BY <1>4, <2>2 DEF PrepareTool, WorldInv, ListingInv
    <3> QED BY <2>1, <3>1, <3>2 DEF Put
  <2>4. DOMAIN ownership \subseteq DOMAIN ownership'
    BY <2>1 DEF Put
  <2> QED BY <1>4, <2>3, <2>4 DEF PrepareTool, Grows, Known
<1>5. ASSUME NEW l \in Listings, AnswerListing(l) PROVE Grows
  BY <1>5 DEF AnswerListing, Put, Grows, Known, OrdinaryTools
<1>6. ASSUME NEW q \in Calls, CallStep(q) PROVE Grows
  BY <1>6 DEF CallStep, BeginCall, PrepareRequest, CheckMissing, ServeCall, AnswerVirtual,
              AnswerCall, PreparePanics, AnswerPanics, Grows, Known
<1>7. ASSUME NEW name \in ToolNames, Remove(name) PROVE Grows
  BY <1>7 DEF Remove, Delete, Restrict, Grows, Known, OrdinaryTools
<1> QED BY <1>1, <1>2, <1>3, <1>4, <1>5, <1>6, <1>7 DEF Next, ListingStep

\* What holds of a listing at work goes on to hold while others add.
LEMMA ListingStays ==
    ASSUME Grows, NEW l, listing'[l] = listing[l], ListingInv(l)
    PROVE  ListingInv(l)'
BY DEF Grows, ListingInv

\* What is remembered is not forgotten while the process runs.
LEMMA RemembersStays ==
    ASSUME Grows, NEW n, NEW fields, Remembers(n, fields)
    PROVE  Remembers(n, fields)'
BY DEF Grows, Remembers

\* The ownership map after an action that leaves it and the tools alone.
LEMMA OwnershipStays ==
    ASSUME OwnershipIsSound, RealIsKnown, UNCHANGED <<tools, ownership, removed>>
    PROVE  (OwnershipIsSound /\ RealIsKnown)'
BY DEF OwnershipIsSound, RealIsKnown, Known

\* Listings, registrations and restarts keep what is remembered right.
LEMMA WorldStep ==
    ASSUME ToolTypeOK, WorldInv, [Next]_vars
    PROVE  WorldInv'
<1>1. CASE Restart
  <2>1. OwnershipIsSound' /\ RealIsKnown'
    BY <1>1 DEF Restart, EmptyMap, OwnershipIsSound, RealIsKnown
  <2>2. ASSUME NEW l \in Listings PROVE ListingInv(l)'
    BY <1>1, <2>2 DEF Restart, ListingInv, IdleListing, ToolTypeOK
  <2>3. restarts' # 0
    BY <1>1 DEF Restart, ToolTypeOK
  <2> QED BY <2>1, <2>2, <2>3 DEF WorldInv, Remembers
<1>2. CASE ~Restart
  <2>1. Grows
    BY <1>2, ActionsGrow
  <2>2. ASSUME UNCHANGED <<tools, ownership, listing, advertised, removed>>
        PROVE  WorldInv'
    BY <2>1, <2>2, OwnershipStays, ListingStays, RemembersStays DEF WorldInv
  <2>3. ASSUME NEW name \in ToolNames, NEW schema \in Schemas, Register(name, schema)
        PROVE  WorldInv'
    <3>1. OwnershipIsSound' /\ RealIsKnown'
      BY <2>1, <2>3 DEF Register, Grows, WorldInv, OwnershipIsSound, RealIsKnown
    <3>2. ASSUME NEW l \in Listings PROVE ListingInv(l)'
      BY <2>1, <2>3, ListingStays DEF Register, WorldInv
    <3>3. ASSUME NEW n \in ToolNames PROVE Remembers(n, advertised[n])'
      BY <2>1, <2>3, RemembersStays DEF Register, WorldInv
    <3> QED BY <3>1, <3>2, <3>3 DEF WorldInv
  <2>4. ASSUME NEW l \in Listings, ServeListing(l) PROVE WorldInv'
    <3>1. PICK page \in Pages :
            listing' = [listing EXCEPT
                           ![l] = [pc       |-> "prepare",
                                   snapshot |-> Restrict(tools, page \cap DOMAIN tools),
                                   todo     |-> page \cap DOMAIN tools]]
      BY <2>4 DEF ServeListing
    <3>2. ASSUME NEW m \in Listings PROVE ListingInv(m)'
      <4>1. CASE m = l
        BY <2>4, <3>1, <4>1 DEF ServeListing, ListingInv, Restrict, ToolTypeOK, Known
      <4>2. CASE m # l
        BY <2>1, <3>1, <4>2, ListingStays DEF WorldInv, ToolTypeOK
      <4> QED BY <4>1, <4>2
    <3>3. OwnershipIsSound' /\ RealIsKnown'
      BY <2>4, OwnershipStays DEF ServeListing, WorldInv
    <3>4. ASSUME NEW n \in ToolNames PROVE Remembers(n, advertised[n])'
      BY <2>1, <2>4, RemembersStays DEF ServeListing, WorldInv
    <3> QED BY <3>2, <3>3, <3>4 DEF WorldInv
  <2>5. ASSUME NEW l \in Listings, PrepareTool(l) PROVE WorldInv'
    <3>1. PICK name \in listing[l].todo :
            /\ ownership' = Put(ownership, name, OwnershipOf(listing[l].snapshot[name]))
            /\ listing' = [listing EXCEPT ![l].todo = @ \ {name}]
      BY <2>5 DEF PrepareTool
    <3>2. /\ name \in DOMAIN listing[l].snapshot /\ name \in Known
          /\ name \in OrdinaryTools =>
                name \in DOMAIN tools /\ listing[l].snapshot[name] = tools[name]
      BY <2>5, <3>1 DEF PrepareTool, WorldInv, ListingInv
    <3>3. ASSUME NEW m \in Listings PROVE ListingInv(m)'
      <4>1. CASE m = l
        <5>1. /\ listing'[l].snapshot = listing[l].snapshot
              /\ listing'[l].todo = listing[l].todo \ {name}
              /\ DOMAIN ownership' = DOMAIN ownership \cup {name}
          BY <3>1 DEF Put, ToolTypeOK, ListingStates
        <5> QED BY <2>5, <4>1, <5>1 DEF PrepareTool, WorldInv, ListingInv, Known
      <4>2. CASE m # l
        BY <2>1, <3>1, <4>2, ListingStays DEF WorldInv, ToolTypeOK
      <4> QED BY <4>1, <4>2
    <3>4. OwnershipIsSound' /\ RealIsKnown'
      <4>1. tools' = tools /\ Known' = Known
        BY <2>5 DEF PrepareTool, Known
      <4>2. ASSUME NEW n \in DOMAIN ownership'
            PROVE  \/ n = name /\ ownership'[n] = OwnershipOf(listing[l].snapshot[name])
                   \/ n \in DOMAIN ownership /\ n # name /\ ownership'[n] = ownership[n]
        BY <3>1 DEF Put
      <4>3. OwnershipIsSound'
        BY <3>2, <4>1, <4>2, OwnershipOfFacts DEF WorldInv, OwnershipIsSound
      <4>4. RealIsKnown'
        BY <3>2, <4>1, <4>2 DEF WorldInv, RealIsKnown
      <4> QED BY <4>3, <4>4
    <3>5. ASSUME NEW n \in ToolNames PROVE Remembers(n, advertised[n])'
      BY <2>1, <2>5, RemembersStays DEF PrepareTool, WorldInv
    <3> QED BY <3>3, <3>4, <3>5 DEF WorldInv
  <2>6. ASSUME NEW l \in Listings, AnswerListing(l) PROVE WorldInv'
    <3>1. ASSUME NEW m \in Listings PROVE ListingInv(m)'
      <4>1. CASE m = l
        BY <2>6, <4>1 DEF AnswerListing, IdleListing, ListingInv, ToolTypeOK
      <4>2. CASE m # l
        BY <2>1, <2>6, <4>2, ListingStays DEF AnswerListing, WorldInv, ToolTypeOK
      <4> QED BY <4>1, <4>2
    <3>2. OwnershipIsSound' /\ RealIsKnown'
      <4>1. tools' = tools /\ Known' = Known
        BY <2>6 DEF AnswerListing, Known
      <4>2. ASSUME NEW n \in DOMAIN ownership'
            PROVE  \/ n = MissingTool /\ ownership'[n] = VirtualOwnership
                   \/ n \in DOMAIN ownership /\ ownership'[n] = ownership[n]
        BY <2>6 DEF AnswerListing, Put
      <4>3. MissingTool \notin OrdinaryTools
        BY DEF OrdinaryTools
      <4>4. OwnershipIsSound'
        BY <4>1, <4>2, <4>3 DEF WorldInv, OwnershipIsSound
      <4>5. RealIsKnown'
        BY <4>1, <4>2, VirtualOwnershipFacts DEF WorldInv, RealIsKnown
      <4> QED BY <4>4, <4>5
    <3>3. ASSUME NEW n \in OrdinaryTools PROVE Remembers(n, advertised[n])'
      <4>1. n \in ToolNames /\ n # MissingTool
        BY DEF OrdinaryTools
      <4>2. CASE n \in Listed(l)
        <5>1. advertised'[n] = OwnershipOf(listing[l].snapshot[n]) \cap Fields
          BY <2>6, <4>1, <4>2 DEF AnswerListing
        <5>2. n \in DOMAIN ownership /\ listing[l].snapshot[n] = tools[n]
          BY <2>6, <4>2 DEF AnswerListing, Listed, WorldInv, ListingInv
        <5>3. ownership[n] = OwnershipOf(tools[n])
          BY <5>2 DEF WorldInv, OwnershipIsSound
        <5> QED BY <2>1, <5>1, <5>2, <5>3 DEF Grows, Remembers
      <4>3. CASE n \notin Listed(l)
        <5>1. advertised'[n] = advertised[n]
          BY <2>6, <4>1, <4>3 DEF AnswerListing
        <5> QED BY <2>1, <4>1, <5>1, RemembersStays DEF WorldInv
      <4> QED BY <4>2, <4>3
    <3>4. \A n \in ToolNames : Remembers(n, advertised[n])'
      BY <3>3 DEF Remembers
    <3> QED BY <3>1, <3>2, <3>4 DEF WorldInv
  <2>7. ASSUME NEW l \in Listings, AbandonListing(l) PROVE WorldInv'
    <3>1. ASSUME NEW m \in Listings PROVE ListingInv(m)'
      <4>1. CASE m = l
        BY <2>7, <4>1 DEF AbandonListing, IdleListing, ListingInv, ToolTypeOK
      <4>2. CASE m # l
        BY <2>1, <2>7, <4>2, ListingStays DEF AbandonListing, WorldInv, ToolTypeOK
      <4> QED BY <4>1, <4>2
    <3>2. OwnershipIsSound' /\ RealIsKnown'
      BY <2>7, OwnershipStays DEF AbandonListing, WorldInv
    <3>3. ASSUME NEW n \in ToolNames PROVE Remembers(n, advertised[n])'
      <4>1. advertised'[n] = {} \/ advertised'[n] = advertised[n]
        BY <2>7 DEF AbandonListing
      <4> QED BY <2>1, <4>1, RemembersStays DEF WorldInv, Remembers
    <3> QED BY <3>1, <3>2, <3>3 DEF WorldInv
  <2>8. ASSUME NEW q \in Calls, CallStep(q)
        PROVE  UNCHANGED <<tools, ownership, listing, advertised, removed>>
    BY <2>8 DEF CallStep, BeginCall, PrepareRequest, CheckMissing, ServeCall, AnswerVirtual,
                AnswerCall, PreparePanics, AnswerPanics
  <2>9. ASSUME NEW name \in ToolNames, Remove(name) PROVE WorldInv'
    <3>1. /\ UNCHANGED <<ownership, listing, advertised>>
          /\ \A n \in OrdinaryTools \cap DOMAIN tools :
                n \in DOMAIN tools' /\ tools'[n] = tools[n]
      BY <2>1, <2>9 DEF Remove, Grows
    <3>2. OwnershipIsSound' /\ RealIsKnown'
      BY <2>1, <3>1 DEF Grows, WorldInv, OwnershipIsSound, RealIsKnown
    <3>3. ASSUME NEW l \in Listings PROVE ListingInv(l)'
      BY <2>1, <3>1, ListingStays DEF WorldInv
    <3>4. ASSUME NEW n \in ToolNames PROVE Remembers(n, advertised[n])'
      BY <2>1, <3>1, RemembersStays DEF WorldInv
    <3> QED BY <3>2, <3>3, <3>4 DEF WorldInv
  <2> QED BY <1>2, <2>2, <2>3, <2>4, <2>5, <2>6, <2>7, <2>8, <2>9
             DEF Next, ListingStep, vars
<1> QED BY <1>1, <1>2

\* A call that does nothing goes on to hold what it holds while others add.
LEMMA CallStays ==
    ASSUME Grows, NEW q, call'[q] = call[q], CallInv(q), CallDone(q)
    PROVE  CallInv(q)' /\ CallDone(q)'
<1>1. \A owned : \A n \in OrdinaryTools : Found(n, owned) => Found(n, owned)'
  BY DEF Grows, Found
<1>2. Remembers(call[q].tool, call[q].asked)
        => Remembers(call[q].tool, call[q].asked)'
  BY DEF Grows, Remembers
<1>3. CallInv(q)'
  BY <1>1, <1>2 DEF Grows, CallInv
<1>4. CallDone(q)'
  BY DEF Grows, CallDone, KeepsCustomerFields
<1> QED BY <1>3, <1>4

\* A client begins a call with what it was told.
LEMMA BeginCallInv ==
    ASSUME ToolTypeOK, WorldInv, NEW q \in Calls, CallInv(q), BeginCall(q)
    PROVE  CallInv(q)' /\ CallDone(q)'
<1>1. PICK name \in ToolNames :
        /\ call'[q].pc = "prepare" /\ call'[q].tool = name
        /\ call'[q].asked = advertised[name]
        /\ call'[q].fault = call[q].fault
        /\ call'[q].probe = call[q].probe
        /\ call'[q].conversation = call[q].conversation
  BY DEF BeginCall, ToolTypeOK, CallStates
<1>2. ~call[q].probe /\ call[q].conversation = "none" /\ call[q].fault = "none"
  BY DEF BeginCall, CallInv
<1>3. Remembers(name, advertised[name])'
  BY DEF BeginCall, WorldInv, Remembers
<1>4. advertised' = advertised
  BY DEF BeginCall
<1> QED BY <1>1, <1>2, <1>3, <1>4 DEF CallInv, CallDone, Remembers

\* A call is stripped of what it finds to be owned.
LEMMA PrepareRequestInv ==
    ASSUME ToolTypeOK, WorldInv, NEW q \in Calls, CallInv(q), PrepareRequest(q)
    PROVE  CallInv(q)' /\ CallDone(q)'
<1> DEFINE owned == Get(call[q].tool)
<1>1. /\ call'[q].pc = IF ReportMissing /\ call[q].tool = MissingTool
                       THEN "check" ELSE "server"
      /\ call'[q].tool = call[q].tool
      /\ call'[q].asked = call[q].asked
      /\ call'[q].arguments = call[q].arguments
      /\ call'[q].probe = call[q].probe
      /\ call'[q].owned = owned
      /\ call'[q].delivered = call[q].arguments \ owned
      /\ call'[q].intent = ContextIsIntent(q, owned)
      /\ call'[q].fault = call[q].fault
      /\ UNCHANGED <<tools, ownership, restarts>>
  BY DEF PrepareRequest, ToolTypeOK, CallStates
<1>2. ~call[q].probe /\ call[q].fault = "none" /\ Remembers(call[q].tool, call[q].asked)
  BY DEF PrepareRequest, CallInv
<1>3. CASE call[q].tool \in OrdinaryTools
  <2>1. Found(call[q].tool, owned)
    BY <1>3 DEF Found, Get, WorldInv, OwnershipIsSound
  <2>2. restarts = 0 => call[q].asked \subseteq owned
    BY <1>2, <1>3 DEF Remembers, Get
  <2>3. call[q].tool # MissingTool
    BY <1>3 DEF OrdinaryTools
  <2>4. Found(call[q].tool, owned)'
    BY <1>1, <2>1 DEF Found, Get
  <2>5. call'[q].intent => "context" \in owned
    BY <1>1 DEF ContextIsIntent
  <2> HIDE DEF owned
  <2>6. CallInv(q)'
    BY <1>1, <1>2, <2>1, <2>2, <2>3, <2>5 DEF CallInv, Found
  <2> QED BY <1>1, <2>3, <2>6 DEF CallDone
<1>4. CASE call[q].tool \notin OrdinaryTools
  BY <1>1, <1>2, <1>4 DEF CallInv, CallDone
<1> QED BY <1>3, <1>4

\* A call of the missing-capability name is a probe unless a real tool has it.
LEMMA CheckMissingInv ==
    ASSUME ToolTypeOK, WorldInv, NEW q \in Calls, CallInv(q), CheckMissing(q)
    PROVE  CallInv(q)' /\ CallDone(q)'
<1> DEFINE probes == MissingTool \notin DOMAIN ownership
                        \/ "virtualMissing" \in ownership[MissingTool]
<1>1. /\ call'[q].pc = "server"
      /\ call'[q].tool = MissingTool
      /\ probes => call'[q].probe /\ call'[q].conversation = "none"
      /\ ~probes => call'[q].probe = call[q].probe
      /\ call'[q].fault = call[q].fault
      /\ UNCHANGED tools
  BY DEF CheckMissing, CallInv, ToolTypeOK, CallStates
<1>2. ~call[q].probe /\ call[q].fault = "none" /\ MissingTool \notin OrdinaryTools
  BY DEF CheckMissing, CallInv, OrdinaryTools
<1>3. /\ ~probes => MissingTool \in Known
      /\ Known' = Known
  BY DEF CheckMissing, WorldInv, RealIsKnown, Known
<1> HIDE DEF probes
<1> QED BY <1>1, <1>2, <1>3 DEF CallInv, CallDone

\* A call whose preparation panicked owns nothing, and nothing is taken from it.
LEMMA PreparePanicsInv ==
    ASSUME ToolTypeOK, NEW q \in Calls, CallInv(q), PreparePanics(q)
    PROVE  CallInv(q)' /\ CallDone(q)'
<1>1. /\ call'[q].pc = "server"
      /\ call'[q].tool = call[q].tool
      /\ call'[q].arguments = call[q].arguments
      /\ call'[q].probe = call[q].probe
      /\ call'[q].owned = {}
      /\ call'[q].delivered = call[q].arguments
      /\ call'[q].conversation = "none"
      /\ ~call'[q].intent
      /\ call'[q].fault = "prepare"
      /\ UNCHANGED <<tools, restarts, removed>> /\ Known' = Known
  BY DEF PreparePanics, ToolTypeOK, CallStates, Known
<1>2. call[q].pc = "server"
  BY DEF PreparePanics
<1> QED BY <1>1, <1>2 DEF CallInv, CallDone, Found

\* The tool sees the arguments against its own schema; a name that is not there is
\* disowned.
LEMMA ServeCallInv ==
    ASSUME ToolTypeOK, NEW q \in Calls, CallInv(q), ServeCall(q)
    PROVE  CallInv(q)' /\ CallDone(q)'
<1>1. /\ call'[q].pc = "return"
      /\ call'[q].tool = call[q].tool
      /\ call'[q].asked = call[q].asked
      /\ call'[q].arguments = call[q].arguments
      /\ call'[q].probe = call[q].probe
      /\ call'[q].conversation = call[q].conversation
      /\ call'[q].delivered = call[q].delivered
      /\ call'[q].intent = call[q].intent
      /\ call'[q].fault = call[q].fault
      /\ call'[q].owned = call[q].owned
      /\ UNCHANGED <<tools, restarts, removed>> /\ Known' = Known
  BY DEF ServeCall, ToolTypeOK, CallStates, Known
<1>2. \/ /\ call[q].tool \in DOMAIN tools
         /\ call'[q].declared = tools[call[q].tool].input
         /\ call'[q].outcome \in {"result", "failed", "error"}
      \/ call[q].tool \notin DOMAIN tools /\ call'[q].outcome = "unknown"
  BY DEF ServeCall, ToolTypeOK, CallStates
<1>3. CallInv(q)'
  BY <1>1, <1>2 DEF ServeCall, CallInv, Known
<1>4. ASSUME call[q].tool \in OrdinaryTools, call[q].tool \in DOMAIN tools,
             call'[q].declared = tools[call[q].tool].input
      PROVE  /\ KeepsCustomerFields(q)'
             /\ /\ restarts' = 0 /\ call'[q].fault # "prepare"
                /\ call'[q].arguments \subseteq call'[q].declared \cup call'[q].asked
                => call'[q].delivered \subseteq call'[q].declared
  <2>1. /\ call[q].delivered = call[q].arguments \ call[q].owned
        /\ call[q].intent => "context" \in call[q].owned
        /\ restarts = 0 /\ call[q].fault # "prepare" => call[q].asked \subseteq call[q].owned
        /\ Found(call[q].tool, call[q].owned)
    BY <1>4 DEF ServeCall, CallInv
  <2>2. call[q].owned \cap Fields \cap call'[q].declared = {}
    BY <1>4, <2>1, OwnershipOfFacts DEF Found
  <2>3. call[q].arguments \subseteq Fields /\ "context" \in Fields
    BY DEF ToolTypeOK, CallStates, Fields
  <2> QED BY <1>1, <2>1, <2>2, <2>3 DEF KeepsCustomerFields
<1>5. CallDone(q)'
  BY <1>1, <1>2, <1>4 DEF CallDone
<1> QED BY <1>3, <1>5

\* A call ends with the server's answer or with that of the virtual tool.
LEMMA AnswerInv ==
    ASSUME ToolTypeOK, NEW q \in Calls, CallInv(q), CallDone(q),
           AnswerVirtual(q) \/ AnswerCall(q) \/ AnswerPanics(q)
    PROVE  CallInv(q)' /\ CallDone(q)'
<1>1. /\ call[q].pc = "return" /\ call'[q].pc = "done"
      /\ call'[q].tool = call[q].tool
      /\ call'[q].outcome = call[q].outcome
      /\ UNCHANGED <<restarts, removed>>
  BY DEF AnswerVirtual, AnswerCall, AnswerPanics, ToolTypeOK, CallStates
<1>2. CallInv(q)'
  BY <1>1 DEF CallInv
<1>3. CASE AnswerVirtual(q)
  <2>1. /\ call'[q].reply = "virtual"
        /\ call[q].outcome = "unknown"
        /\ call'[q].told = Tells(Conversation(q, VirtualOwned), VirtualOwned)
        /\ call'[q].conversation = Conversation(q, VirtualOwned)
    BY <1>3 DEF AnswerVirtual, ToolTypeOK, CallStates
  <2>2. call'[q].conversation = "minted" => call'[q].told
    BY <2>1 DEF Tells
  <2> QED BY <1>1, <1>2, <2>1, <2>2 DEF CallDone
<1>4. CASE AnswerCall(q)
  <2>1. /\ call'[q].reply = call[q].outcome
        /\ call'[q].conversation = call[q].conversation
        /\ call'[q].arguments = call[q].arguments
        /\ call'[q].asked = call[q].asked
        /\ call'[q].declared = call[q].declared
        /\ call'[q].delivered = call[q].delivered
        /\ call'[q].intent = call[q].intent
        /\ call'[q].fault = call[q].fault
        /\ ~(call[q].probe /\ call[q].outcome = "unknown")
    BY <1>4 DEF AnswerCall, ToolTypeOK, CallStates
  <2>2. /\ ~call[q].probe
        /\ call[q].outcome \in {"result", "failed"}
        /\ call[q].conversation = "minted"
        => call'[q].told
    BY <1>4 DEF AnswerCall, ToolTypeOK, CallStates, Tells
  <2>3. /\ call[q].outcome \in {"result", "failed", "error", "unknown"}
        /\ call[q].probe => call[q].conversation = "none"
        /\ /\ call[q].outcome = "unknown" /\ ReportMissing /\ call[q].tool = MissingTool
           => call[q].probe \/ MissingTool \in removed
    BY <1>1 DEF CallInv
  <2>4. /\ call[q].outcome \notin {"none", "unknown"} /\ call[q].tool \in OrdinaryTools
        => /\ KeepsCustomerFields(q)'
           /\ /\ restarts' = 0 /\ call'[q].fault # "prepare"
              /\ call'[q].arguments \subseteq call'[q].declared \cup call'[q].asked
              => call'[q].delivered \subseteq call'[q].declared
    BY <1>1, <2>1 DEF CallDone, KeepsCustomerFields
  <2>5. call'[q].conversation = "minted" => call'[q].told \/ call'[q].reply \in {"error", "unknown"}
    BY <2>1, <2>2, <2>3
  <2>6. ~ (/\ call'[q].outcome = "unknown" /\ ReportMissing /\ call'[q].tool = MissingTool
           /\ MissingTool \notin removed')
    BY <1>1, <2>1, <2>3
  <2>7. CallDone(q)'
    BY <1>1, <2>1, <2>4, <2>5, <2>6 DEF CallDone
  <2> QED BY <1>2, <2>7
<1>5. CASE AnswerPanics(q)
  <2>1. /\ call'[q].arguments = call[q].arguments
        /\ call'[q].asked = call[q].asked
        /\ call'[q].declared = call[q].declared
        /\ call'[q].delivered = call[q].delivered
        /\ call'[q].intent = call[q].intent
        /\ call'[q].fault = "tell"
        /\ call[q].outcome \in {"result", "failed"}
        /\ call[q].fault # "prepare"
    BY <1>5 DEF AnswerPanics, ToolTypeOK, CallStates, CallInv
  <2>2. call[q].tool \in OrdinaryTools =>
           /\ KeepsCustomerFields(q)
           /\ /\ restarts = 0
              /\ call[q].arguments \subseteq call[q].declared \cup call[q].asked
              => call[q].delivered \subseteq call[q].declared
    BY <1>1, <2>1 DEF CallDone
  <2> QED BY <1>1, <1>2, <2>1, <2>2 DEF CallDone, KeepsCustomerFields
<1> QED BY <1>3, <1>4, <1>5

\* What calls hold is right, however listings overtake them.
LEMMA CallsStep ==
    ASSUME ToolTypeOK, WorldInv, CallsInv, [Next]_vars
    PROVE  CallsInv'
<1> SUFFICES ASSUME NEW q \in Calls PROVE CallInv(q)' /\ CallDone(q)'
  BY DEF CallsInv
<1>1. CallInv(q) /\ CallDone(q)
  BY DEF CallsInv
<1>2. CASE Restart
  <2>1. restarts' # 0
    BY <1>2 DEF Restart, ToolTypeOK
  <2>2. CASE call[q].pc \in {"idle", "done"}
    <3>1. call'[q] = call[q] /\ removed' = removed
      BY <1>2, <2>2 DEF Restart
    <3> QED BY <1>1, <2>1, <2>2, <3>1 DEF CallInv, CallDone, KeepsCustomerFields
  <2>3. CASE call[q].pc \notin {"idle", "done"}
    <3>1. call'[q].pc = "lost"
      BY <1>2, <2>3 DEF Restart, IdleCall
    <3> QED BY <3>1 DEF CallInv, CallDone
  <2> QED BY <2>2, <2>3
<1>3. CASE ~Restart /\ call'[q] = call[q]
  <2>1. Grows
    BY <1>3, ActionsGrow
  <2> QED BY <1>1, <1>3, <2>1, CallStays
<1>4. ASSUME NEW p \in Calls, CallStep(p), p # q
      PROVE  call'[q] = call[q]
  <2>1. CASE BeginCall(p)
    BY <1>4, <2>1 DEF BeginCall, ToolTypeOK
  <2>2. CASE PrepareRequest(p) \/ CheckMissing(p)
    BY <1>4, <2>2 DEF PrepareRequest, CheckMissing, ToolTypeOK
  <2>3. CASE ServeCall(p)
    BY <1>4, <2>3 DEF ServeCall, ToolTypeOK
  <2>4. CASE AnswerVirtual(p) \/ AnswerCall(p)
    BY <1>4, <2>4 DEF AnswerVirtual, AnswerCall, ToolTypeOK
  <2>5. CASE PreparePanics(p) \/ AnswerPanics(p)
    BY <1>4, <2>5 DEF PreparePanics, AnswerPanics, ToolTypeOK
  <2> QED BY <1>4, <2>1, <2>2, <2>3, <2>4, <2>5 DEF CallStep
<1>5. CASE CallStep(q)
  BY <1>1, <1>5, BeginCallInv, PrepareRequestInv, CheckMissingInv, PreparePanicsInv,
     ServeCallInv, AnswerInv
     DEF CallStep
<1>6. CASE UNCHANGED call
  BY <1>2, <1>3, <1>6
<1>7. ASSUME NEW l \in Listings, ListingStep(l) PROVE UNCHANGED call
  BY <1>7 DEF ListingStep, ServeListing, PrepareTool, AnswerListing, AbandonListing
<1>8. ASSUME NEW name \in ToolNames, NEW schema \in Schemas, Register(name, schema)
      PROVE  UNCHANGED call
  BY <1>8 DEF Register
<1>9. ASSUME NEW name \in ToolNames, Remove(name) PROVE UNCHANGED call
  BY <1>9 DEF Remove
<1> QED BY <1>2, <1>3, <1>4, <1>5, <1>6, <1>7, <1>8, <1>9 DEF Next, vars
-----------------------------------------------------------------------------
\* A listing that is alone works on what nobody else writes.
RefreshInv ==
    /\ ListingRefreshes
    /\ \A l \in alone : listing[l].pc # "idle"
    /\ \A l \in alone, m \in Listings :
          listing[l].pc = "prepare" /\ listing[m].pc = "prepare" => m = l

\* A listing that is alone goes on to be right about what it has prepared.
LEMMA RefreshStep ==
    ASSUME ToolTypeOK, RefreshInv, [Next]_vars
    PROVE  RefreshInv'
<1>1. ASSUME UNCHANGED <<ownership, listing, alone>> PROVE RefreshInv'
  BY <1>1 DEF RefreshInv, ListingRefreshes, Listed
<1>2. CASE Restart
  <2>1. \A l \in Listings : /\ listing'[l].pc # "prepare"
                            /\ listing[l].pc # "idle" => listing'[l].pc # "idle"
    BY <1>2 DEF Restart, IdleListing, ToolTypeOK
  <2>2. alone' = alone /\ alone \subseteq Listings
    BY <1>2 DEF Restart, ToolTypeOK
  <2>3. \A l \in alone' : listing'[l].pc # "prepare" /\ listing'[l].pc # "idle"
    BY <2>1, <2>2 DEF RefreshInv
  <2>4. ListingRefreshes'
    BY <2>3 DEF ListingRefreshes
  <2> QED BY <2>3, <2>4 DEF RefreshInv
<1>3. ASSUME NEW l \in Listings, ServeListing(l) PROVE RefreshInv'
  <2> DEFINE others == {m \in Listings : listing[m].pc = "prepare"}
  <2>1. /\ listing'[l].pc = "prepare"
        /\ Listed(l)' \ listing'[l].todo = {}
        /\ \A m \in Listings \ {l} : listing'[m] = listing[m]
        /\ UNCHANGED ownership
        /\ listing[l].pc = "idle"
    BY <1>3 DEF ServeListing, ToolTypeOK, Restrict, Listed
  <2>2. alone' = IF others = {} THEN alone \cup {l} ELSE alone \ others
    BY <1>3 DEF ServeListing
  <2>3. l \notin alone
    BY <2>1 DEF RefreshInv
  <2>4. \A m \in alone' \ {l} : m \in alone /\ m \in Listings /\ listing'[m].pc # "prepare"
    BY <2>1, <2>2, <2>3 DEF ToolTypeOK
  <2>5. l \in alone' => \A m \in Listings \ {l} : listing'[m].pc # "prepare"
    BY <2>1, <2>2, <2>3
  <2>6. ListingRefreshes'
    BY <2>1, <2>4 DEF ListingRefreshes, Listed
  <2>7. \A m \in alone' : listing'[m].pc # "idle"
    BY <2>1, <2>3, <2>4 DEF RefreshInv
  <2>8. ASSUME NEW m \in alone', NEW p \in Listings,
               listing'[m].pc = "prepare", listing'[p].pc = "prepare"
        PROVE  p = m
    <3>1. m = l
      BY <2>4, <2>8
    <3> QED BY <2>5, <2>8, <3>1
  <2> QED BY <2>6, <2>7, <2>8 DEF RefreshInv
<1>4. ASSUME NEW l \in Listings, PrepareTool(l) PROVE RefreshInv'
  <2>1. PICK name \in listing[l].todo :
          /\ ownership' = Put(ownership, name, OwnershipOf(listing[l].snapshot[name]))
          /\ listing' = [listing EXCEPT ![l].todo = @ \ {name}]
    BY <1>4 DEF PrepareTool
  <2>2. /\ listing[l].pc = "prepare" /\ alone' = alone /\ alone \subseteq Listings
        /\ \A m \in Listings : /\ listing'[m].pc = listing[m].pc
                               /\ listing'[m].snapshot = listing[m].snapshot
        /\ listing'[l].todo = listing[l].todo \ {name}
    BY <1>4, <2>1 DEF PrepareTool, ToolTypeOK, ListingStates
  <2>3. \A m \in alone : listing[m].pc = "prepare" => m = l
    BY <2>2 DEF RefreshInv
  <2>4. ASSUME l \in alone, NEW n \in Listed(l)' \ listing'[l].todo
        PROVE  n \in DOMAIN ownership' /\ ownership'[n] = OwnershipOf(listing'[l].snapshot[n])
    <3>1. CASE n = name
      BY <2>1, <2>2, <3>1 DEF Put
    <3>2. CASE n # name
      <4>1. n \in DOMAIN ownership /\ ownership[n] = OwnershipOf(listing[l].snapshot[n])
        BY <2>2, <2>4, <3>2 DEF RefreshInv, ListingRefreshes, Listed
      <4> QED BY <2>1, <2>2, <3>2, <4>1 DEF Put
    <3> QED BY <3>1, <3>2
  <2>5. ListingRefreshes'
    BY <2>2, <2>3, <2>4 DEF ListingRefreshes, Listed
  <2> QED BY <2>2, <2>5 DEF RefreshInv
<1>5. ASSUME NEW l \in Listings, AnswerListing(l) \/ AbandonListing(l) PROVE RefreshInv'
  <2>1. /\ listing[l].pc = "prepare" /\ listing'[l].pc = "done"
        /\ \A m \in Listings \ {l} : listing'[m] = listing[m]
        /\ alone' = alone /\ alone \subseteq Listings
    BY <1>5 DEF AnswerListing, AbandonListing, IdleListing, ToolTypeOK
  <2>2. \A m \in alone : listing'[m].pc # "prepare"
    BY <2>1 DEF RefreshInv
  <2> QED BY <2>1, <2>2 DEF RefreshInv, ListingRefreshes
<1>6. ASSUME NEW q \in Calls, CallStep(q) PROVE UNCHANGED <<ownership, listing, alone>>
  BY <1>6 DEF CallStep, BeginCall, PrepareRequest, CheckMissing, ServeCall, AnswerVirtual,
              AnswerCall, PreparePanics, AnswerPanics
<1>7. ASSUME NEW name \in ToolNames, NEW schema \in Schemas, Register(name, schema)
      PROVE  UNCHANGED <<ownership, listing, alone>>
  BY <1>7 DEF Register
<1>8. ASSUME NEW name \in ToolNames, Remove(name)
      PROVE  UNCHANGED <<ownership, listing, alone>>
  BY <1>8 DEF Remove
<1> QED BY <1>1, <1>2, <1>3, <1>4, <1>5, <1>6, <1>7, <1>8 DEF Next, ListingStep, vars

\* A listing that nobody overlaps makes middlewareState right again about every tool it
\* has prepared, whatever was remembered before it.
THEOREM ListingsRefresh == Spec => []ListingRefreshes
<1>1. Init => RefreshInv
  BY DEF Init, RefreshInv, ListingRefreshes
<1>2. ToolTypeOK /\ RefreshInv /\ [Next]_vars => RefreshInv'
  BY RefreshStep
<1>3. Init => ToolTypeOK
  BY ToolTypeInit
<1>4. ToolTypeOK /\ [Next]_vars => ToolTypeOK'
  BY ToolTypeStep
<1>5. RefreshInv => ListingRefreshes
  BY DEF RefreshInv
<1> QED BY <1>1, <1>2, <1>3, <1>4, <1>5, PTL DEF Spec

-----------------------------------------------------------------------------
\* The invariant says what the properties of ToolOwnership promise.
LEMMA ToolInvImplies ==
    ToolInv => /\ OrdinaryFieldsKept /\ AdvertisedFieldsStripped
               /\ VirtualToolAnswers /\ MintedIdsAreTold
<1> SUFFICES ASSUME ToolInv, NEW q \in Calls
             PROVE  /\ Served(q) /\ call[q].tool \in OrdinaryTools => KeepsCustomerFields(q)
                    /\ restarts = 0 => Stripped(q)
                    /\ ReportMissing /\ MissingTool \notin removed
                          /\ call[q].pc = "done" /\ call[q].tool = MissingTool
                          /\ call[q].outcome = "unknown" => call[q].reply = "virtual"
                    /\ call[q].pc = "done" /\ call[q].conversation = "minted"
                          => call[q].told \/ call[q].reply \in {"error", "unknown"}
                                \/ call[q].fault = "tell"
  BY DEF OrdinaryFieldsKept, AdvertisedFieldsStripped, VirtualToolAnswers, MintedIdsAreTold
<1>1. CallDone(q)
  BY DEF ToolInv, CallsInv
<1> QED BY <1>1 DEF CallDone, Served, Stripped

\* The models of the server, of the ownership and of requests are well typed, and the
\* invariant holds.
LEMMA ToolInvariant == Spec => []ToolInv
<1>1. ToolInv /\ [Next]_vars => ToolInv'
  BY ToolTypeStep, WorldStep, CallsStep DEF ToolInv
<1> QED BY <1>1, ToolInvInit, PTL DEF Spec

\* Type correctness of ToolOwnership.
THEOREM ToolsWellTyped == Spec => []ToolTypeOK
<1>1. ToolInv => ToolTypeOK
  BY DEF ToolInv
<1> QED BY <1>1, ToolInvariant, PTL

\* Whichever listing wrote last, what middlewareState remembers of an ordinary tool is
\* what prepareToolsList added to its schema.
THEOREM OwnershipCorrect == Spec => []OwnershipIsSound
<1>1. ToolInv => OwnershipIsSound
  BY DEF ToolInv, WorldInv
<1> QED BY <1>1, ToolInvariant, PTL

\* prepareToolRequest never takes a field from a tool that declares it.
THEOREM DeclaredFieldsAreKept == Spec => []OrdinaryFieldsKept
<1>1. ToolInv => OrdinaryFieldsKept
  BY ToolInvImplies
<1> QED BY <1>1, ToolInvariant, PTL

\* prepareToolRequest takes every field that clients were told of by the same process.
THEOREM AdvertisedFieldsGo == Spec => []AdvertisedFieldsStripped
<1>1. ToolInv => AdvertisedFieldsStripped
  BY ToolInvImplies
<1> QED BY <1>1, ToolInvariant, PTL

\* handleToolCall answers for the virtual tool whenever the server does not know the name
\* and has never removed a real tool of that name, whatever listings and calls interleave.
THEOREM VirtualToolIsAnswered == Spec => []VirtualToolAnswers
<1>1. ToolInv => VirtualToolAnswers
  BY ToolInvImplies
<1> QED BY <1>1, ToolInvariant, PTL

\* handleToolCall tells the conversation ids it makes up.
THEOREM MintedIdsAreDelivered == Spec => []MintedIdsAreTold
<1>1. ToolInv => MintedIdsAreTold
  BY ToolInvImplies
<1> QED BY <1>1, ToolInvariant, PTL
=============================================================================
