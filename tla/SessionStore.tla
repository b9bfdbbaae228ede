---------------------------- MODULE SessionStore ----------------------------
(***************************************************************************)
(* The state an Analytics keeps about sessions, guarded by a.mu: the       *)
(* bounded map of session states, the map from live connections to the     *)
(* session generated for them, and the fallback session used outside a     *)
(* request.  Every action is one critical section of a.mu.                 *)
(*                                                                         *)
(* Time is counted in steps of the clock; Window of them are the 30        *)
(* minutes of generatedSessionInactivity.                                  *)
(***************************************************************************)
EXTENDS Identity

CONSTANTS
    Connections,      \* mcp.Session values (transport connections)
    GeneratedIds,     \* ids newPrefixedID("ses") can return
    DerivedIds,       \* ids deriveSessionID can return
    Servers,          \* server name, version and protocol, as one value
    SessionLimit,     \* identityCacheLimit
    Window,           \* generatedSessionInactivity
    NoConnection,     \* a nil connection
    NoSession,        \* no session: the victim of an insertion that has room
    NoServer,         \* the zero server fields
    MaxClock,         \* bound on clock
    MaxTouch          \* bound on touchSequence

VARIABLES
    sessions,         \* a.sessions
    generated,        \* a.generated
    touchSequence,    \* a.touchSequence
    fallbackSession,  \* a.fallbackSession
    lastActivity,     \* a.lastActivity
    clock,            \* what a.now() reads
    issued            \* every id newPrefixedID("ses") has returned so far

storeVars == <<sessions, generated, touchSequence, fallbackSession,
               lastActivity, clock, issued>>

SessionIds == GeneratedIds \cup DerivedIds

ASSUME StoreAssumption ==
    /\ SessionLimit \in Nat \ {0}
    /\ Window \in Nat
    /\ MaxClock \in Nat
    /\ MaxTouch \in Nat
    /\ GeneratedIds \cap DerivedIds = {}
    /\ NoSession \notin SessionIds
    /\ NoConnection \notin Connections
    /\ NoServer \notin Servers

SessionStates == [identity     : Identities \cup {NoIdentity},
                  server       : Servers \cup {NoServer},
                  connection   : Connections \cup {NoConnection},
                  lastActivity : Nat,
                  touched      : Nat]

\* sessionState{}: what touchSessionLocked allocates for an absent session.
NewState == [identity     |-> NoIdentity,
             server       |-> NoServer,
             connection   |-> NoConnection,
             lastActivity |-> 0,
             touched      |-> 0]

\* The ids a request can hold: derived from what the caller sent, or issued.
HeldIds == DerivedIds \cup issued

StoreInit ==
    /\ fallbackSession \in GeneratedIds
    /\ issued = {fallbackSession}
    /\ sessions = EmptyMap
    /\ generated = EmptyMap
    /\ touchSequence = 0
    /\ clock = 0
    /\ lastActivity = 0

-----------------------------------------------------------------------------
\* Mutant: the scan starts from zero and keeps the greatest touch.
NewestInstead(known) ==
    {s \in DOMAIN known :
        \A t \in DOMAIN known : known[t].touched <= known[s].touched}

\* The scan of evictOldestSessionLocked over the session map.
Oldest(known) ==
    {s \in DOMAIN known :
        \A t \in DOMAIN known : known[s].touched <= known[t].touched}

\* Mutant: room is made one insertion too late.
VictimsAboveLimit(known, s) ==
    IF s \in DOMAIN known \/ Cardinality(DOMAIN known) <= SessionLimit
    THEN {NoSession}
    ELSE Oldest(known)

\* What touchSessionLocked removes to make room for s: nothing when s is present
\* or the map is below its limit, else an oldest session.
Victims(known, s) ==
    IF s \in DOMAIN known \/ Cardinality(DOMAIN known) < SessionLimit
    THEN {NoSession}
    ELSE Oldest(known)

\* Mutant: eviction leaves the connection of the victim behind.
OwnersLeftBehind(known, owners, victim) == owners

\* a.generated once victim is evicted: its connection, if any, is forgotten.
Disowned(known, owners, victim) ==
    IF victim = NoSession THEN owners
                          ELSE Delete(owners, known[victim].connection)

\* The state touchSessionLocked returns, before its caller writes to it.
StateOf(known, s) == IF s \in DOMAIN known THEN known[s] ELSE NewState

\* touchSessionLocked(s) on the map known, and the caller's state stored in it.
TouchSession(known, s, state, victim) ==
    /\ touchSequence < MaxTouch
    /\ touchSequence' = touchSequence + 1
    /\ sessions' = Put(Delete(known, victim), s,
                       [state EXCEPT !.touched = touchSequence + 1])

\* Mutant: the sequence is read but not advanced.
TouchWithoutBump(s, state) ==
    /\ touchSequence' = touchSequence
    /\ sessions' = [sessions EXCEPT ![s] = [state EXCEPT !.touched = touchSequence]]

\* The methods that touch a session only when it is present.
TouchPresent(s, state) ==
    /\ touchSequence < MaxTouch
    /\ touchSequence' = touchSequence + 1
    /\ sessions' = [sessions EXCEPT
                       ![s] = [state EXCEPT !.touched = touchSequence + 1]]
-----------------------------------------------------------------------------
\* a.now() moves on.
Tick ==
    /\ clock < MaxClock
    /\ clock' = clock + 1
    /\ UNCHANGED <<sessions, generated, touchSequence, fallbackSession,
                   lastActivity, issued>>

\* newPrefixedID("ses") makes a UUIDv7: s has not been returned before.
Fresh(s) == s \in GeneratedIds \ issued

\* Mutant: a session idle for exactly the window has expired.
IsLiveBeforeWindow(c) ==
    /\ c \in DOMAIN generated
    /\ generated[c] \in DOMAIN sessions
    /\ clock - sessions[generated[c]].lastActivity < Window

\* The session of the connection is still known and not idle.
IsLive(c) ==
    /\ c \in DOMAIN generated
    /\ generated[c] \in DOMAIN sessions
    /\ clock - sessions[generated[c]].lastActivity <= Window

\* generatedConnectionSessionID, the session of the connection is still live.
ReuseConnectionSession(c, s) ==
    /\ IsLive(c)
    /\ s = generated[c]
    /\ TouchPresent(s, [sessions[s] EXCEPT !.lastActivity = clock])
    /\ UNCHANGED <<generated, fallbackSession, lastActivity, clock, issued>>

\* Mutant: the state of the session that expired moves to the new one.
MintWithOldState(c, s) ==
    LET kept   == IF c \in DOMAIN generated THEN Delete(sessions, generated[c])
                                            ELSE sessions
        owners == Delete(generated, c)
        state  == IF c \in DOMAIN generated THEN StateOf(sessions, generated[c])
                                            ELSE NewState
    IN  /\ ~IsLive(c)
        /\ Fresh(s)
        /\ issued' = issued \cup {s}
        /\ \E victim \in Victims(kept, s) :
              /\ TouchSession(kept, s, [state EXCEPT !.connection   = c,
                                                    !.lastActivity = clock], victim)
              /\ generated' = Put(Disowned(kept, owners, victim), c, s)
        /\ UNCHANGED <<fallbackSession, lastActivity, clock>>

\* Mutant: a connection starts on the fallback session.
MintFromFallback(c, s) ==
    /\ ~IsLive(c)
    /\ s = fallbackSession
    /\ \E victim \in Victims(sessions, s) :
          /\ TouchSession(sessions, s, [StateOf(sessions, s) EXCEPT
                                           !.connection   = c,
                                           !.lastActivity = clock], victim)
          /\ generated' = Put(Disowned(sessions, generated, victim), c, s)
    /\ UNCHANGED <<fallbackSession, lastActivity, clock, issued>>

\* generatedConnectionSessionID, the connection has no session or an idle one.
MintConnectionSession(c, s) ==
    LET kept   == IF c \in DOMAIN generated THEN Delete(sessions, generated[c])
                                            ELSE sessions
        owners == Delete(generated, c)
    IN  /\ ~IsLive(c)
        /\ Fresh(s)
        /\ issued' = issued \cup {s}
        /\ \E victim \in Victims(kept, s) :
              /\ TouchSession(kept, s, [StateOf(kept, s) EXCEPT
                                           !.connection   = c,
                                           !.lastActivity = clock], victim)
              /\ generated' = Put(Disowned(kept, owners, victim), c, s)
        /\ UNCHANGED <<fallbackSession, lastActivity, clock>>

ConnectionSession(c, s) == ReuseConnectionSession(c, s) \/ MintConnectionSession(c, s)

\* generatedSessionID without a connection: Capture, and requests without one.
KeepFallbackSession(s) ==
    /\ clock - lastActivity <= Window
    /\ s = fallbackSession
    /\ lastActivity' = clock
    /\ UNCHANGED <<sessions, generated, touchSequence, fallbackSession, clock, issued>>

\* Mutant: an idle fallback session is cleared for the next caller to replace.
RollToNothing(s) ==
    /\ clock - lastActivity > Window
    /\ Fresh(s)
    /\ fallbackSession' = NoSession
    /\ lastActivity' = clock
    /\ UNCHANGED <<sessions, generated, touchSequence, clock, issued>>

RollFallbackSession(s) ==
    /\ clock - lastActivity > Window
    /\ Fresh(s)
    /\ issued' = issued \cup {s}
    /\ fallbackSession' = s
    /\ lastActivity' = clock
    /\ UNCHANGED <<sessions, generated, touchSequence, clock>>

GeneratedFallback(s) == KeepFallbackSession(s) \/ RollFallbackSession(s)

-----------------------------------------------------------------------------
\* identityForSession and stampStoredAttribution: a read that counts as a use.
ReadSession(s) ==
    /\ s \in DOMAIN sessions
    /\ TouchPresent(s, sessions[s])
    /\ UNCHANGED <<generated, fallbackSession, lastActivity, clock, issued>>

ReadAbsentSession(s) ==
    /\ s \notin DOMAIN sessions
    /\ UNCHANGED storeVars

IdentityForSession(s) == ReadSession(s) \/ ReadAbsentSession(s)

StampStoredAttribution(s) == ReadSession(s) \/ ReadAbsentSession(s)

\* A write to session s, creating it and evicting the oldest one if need be.
WriteSession(s, state) ==
    /\ \E victim \in Victims(sessions, s) :
          /\ TouchSession(sessions, s, state, victim)
          /\ generated' = Disowned(sessions, generated, victim)
    /\ UNCHANGED <<fallbackSession, lastActivity, clock, issued>>

\* updateIdentity when mergeIdentity returns.
UpdateIdentity(s, next) ==
    LET state == StateOf(sessions, s)
    IN  /\ ~MergePanics(state.identity, next)
        /\ WriteSession(s, [state EXCEPT
                               !.identity = MergedIdentity(state.identity, next)])

\* updateIdentity when mergeIdentity panics: the lock is released by its defer,
\* the session has been touched and nothing is stored.
UpdateIdentityPanics(s, next) ==
    /\ MergePanics(StateOf(sessions, s).identity, next)
    /\ WriteSession(s, StateOf(sessions, s))

RememberInitialize(s, server) ==
    WriteSession(s, [StateOf(sessions, s) EXCEPT !.server = server])

StoreNext ==
    \/ Tick
    \/ \E s \in GeneratedIds :
          \/ GeneratedFallback(s)
          \/ \E c \in Connections : ConnectionSession(c, s)
    \/ \E s \in HeldIds :
          \/ IdentityForSession(s)
          \/ StampStoredAttribution(s)
          \/ \E next \in Snapshots :
                UpdateIdentity(s, next) \/ UpdateIdentityPanics(s, next)
          \/ \E server \in Servers \cup {NoServer} : RememberInitialize(s, server)

StoreSpec == StoreInit /\ [][StoreNext]_storeVars

-----------------------------------------------------------------------------
StoreTypeOK ==
    /\ DOMAIN sessions \subseteq SessionIds
    /\ sessions \in [DOMAIN sessions -> SessionStates]
    /\ DOMAIN generated \subseteq Connections
    /\ generated \in [DOMAIN generated -> GeneratedIds]
    /\ touchSequence \in Nat
    /\ fallbackSession \in GeneratedIds
    /\ lastActivity \in Nat
    /\ clock \in Nat
    /\ issued \subseteq GeneratedIds

\* The store never holds more than identityCacheLimit sessions, whatever the mix
\* of connections, protocol sessions and conversations.
BoundedStore == Cardinality(DOMAIN sessions) <= SessionLimit

\* a.generated and the connection field of a.sessions are each other's inverse:
\* eviction and expiry forget both or neither, so a.generated is bounded as well,
\* no session is shared by two connections, and an evicted session recreated by
\* a request still in flight is not taken for a connection's session.
GeneratedMatchesSessions ==
    /\ \A c \in DOMAIN generated :
          /\ generated[c] \in DOMAIN sessions
          /\ sessions[generated[c]].connection = c
    /\ \A s \in DOMAIN sessions :
          sessions[s].connection # NoConnection =>
             /\ sessions[s].connection \in DOMAIN generated
             /\ generated[sessions[s].connection] = s

\* No two sessions carry the same touch, so the scan of a Go map, whose order is
\* random, always finds the same victim.
DistinctTouches ==
    /\ \A s \in DOMAIN sessions : sessions[s].touched <= touchSequence
    /\ \A s, t \in DOMAIN sessions :
          sessions[s].touched = sessions[t].touched => s = t

-----------------------------------------------------------------------------
\* The store as a cache: each session with what its requests read from it and the
\* connection it belongs to, in the order of their touches.
StoreValue(state) ==
    [content |-> [identity |-> state.identity, server |-> state.server],
     owner   |-> state.connection]

StoreOrder == {pair \in (DOMAIN sessions) \X (DOMAIN sessions) :
                  sessions[pair[1]].touched < sessions[pair[2]].touched}

Lru == INSTANCE LruCache WITH
    Keys     <- SessionIds,
    Contents <- [identity : Identities \cup {NoIdentity},
                 server   : Servers \cup {NoServer}],
    Owners   <- Connections,
    NoOwner  <- NoConnection,
    Limit    <- SessionLimit,
    cache    <- [s \in DOMAIN sessions |-> StoreValue(sessions[s])],
    older    <- StoreOrder

\* Every critical section of a.mu leaves the store as an LRU cache would: a
\* session is only ever lost to the limit, being then the one whose last use is
\* the oldest, or to its own connection, which replaces it.
ImplementsLruCache == Lru!LruSpec

\* A connection keeps its session for as long as it is not idle, unless the
\* session falls victim to the limit: the id a connection holds is only ever
\* replaced by another one when the inactivity window has passed.
RollsOnlyWhenIdle ==
    [][\A c \in DOMAIN generated \cap DOMAIN generated' :
          generated'[c] # generated[c] =>
             clock - sessions[generated[c]].lastActivity > Window]_storeVars
=============================================================================
