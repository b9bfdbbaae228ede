------------------------- MODULE SessionStoreProofs -------------------------
(***************************************************************************)
(* Theorems about SessionStore, for every set of connections and session   *)
(* ids, every limit and every window.                                      *)
(***************************************************************************)
EXTENDS SessionStore, FiniteSetTheorems, TLAPS

\* What delete(m, k) keeps of a map: the other keys, each with its value.
LEMMA DeleteFacts ==
    ASSUME NEW f, NEW k
    PROVE  /\ DOMAIN Delete(f, k) = DOMAIN f \ {k}
           /\ \A x \in DOMAIN f \ {k} : Delete(f, k)[x] = f[x]
BY DEF Delete, Restrict

\* A map keeps its type through an assignment and a deletion.
LEMMA PutType ==
    ASSUME NEW T, NEW f, f \in [DOMAIN f -> T], NEW k, NEW v \in T
    PROVE  Put(f, k, v) \in [DOMAIN Put(f, k, v) -> T]
BY DEF Put

\* A map keeps its type through a deletion.
LEMMA DeleteType ==
    ASSUME NEW T, NEW f, f \in [DOMAIN f -> T], NEW k
    PROVE  Delete(f, k) \in [DOMAIN Delete(f, k) -> T]
BY DEF Delete, Restrict

\* Properties merged into properties are properties.
LEMMA MergePropertiesType ==
    ASSUME NEW previous \in PropertyMaps, NEW next \in PropertyMaps
    PROVE  MergeProperties(previous, next) \in PropertyMaps
<1>1. PICK K \in SUBSET PropertyKeys : previous \in [K -> PropertyValues]
  BY DEF PropertyMaps
<1>2. PICK L \in SUBSET PropertyKeys : next \in [L -> PropertyValues]
  BY DEF PropertyMaps
<1>3. MergeProperties(previous, next) \in [K \cup L -> PropertyValues]
  BY <1>1, <1>2, IdentityAssumption DEF MergeProperties
<1> QED BY <1>3 DEF PropertyMaps

\* A clone of properties is properties, though it may be a cut one; a nil map stays one.
LEMMA ClonePropertiesType ==
    /\ \A properties \in PropertyMaps : CloneProperties(properties) \in PropertyMaps
    /\ CloneProperties(Nil) = Nil
<1>1. ASSUME NEW properties \in PropertyMaps
      PROVE  CloneProperties(properties) \in PropertyMaps
  <2> DEFINE kept == Restrict(properties, FirstKeys(properties))
  <2>1. PICK K \in SUBSET PropertyKeys : properties \in [K -> PropertyValues]
    BY DEF PropertyMaps
  <2>2. FirstKeys(properties) \subseteq K
    BY <2>1 DEF FirstKeys
  <2>3. kept \in [FirstKeys(properties) -> PropertyValues]
    BY <2>1, <2>2 DEF Restrict
  <2>4. FirstKeys(properties) \cup {MoreKey} \in SUBSET PropertyKeys
    BY <2>2, IdentityAssumption
  <2> HIDE DEF kept
  <2>5. Put(kept, MoreKey, MoreValue)
           \in [FirstKeys(properties) \cup {MoreKey} -> PropertyValues]
    BY <2>3, IdentityAssumption DEF Put
  <2>6. Put(kept, MoreKey, MoreValue) \in PropertyMaps
    BY <2>4, <2>5 DEF PropertyMaps
  <2> QED BY <2>6 DEF CloneProperties, kept
<1> QED BY <1>1 DEF CloneProperties

\* A clone of an identity is an identity, of the same caller.
LEMMA CloneIdentityType ==
    ASSUME NEW identity \in Identities
    PROVE  /\ CloneIdentity(identity) \in Identities
           /\ CloneIdentity(identity).distinctID = identity.distinctID
           /\ CloneIdentity(identity).properties = Nil <=> identity.properties = Nil
<1>1. identity.properties \in PropertyMaps => CloneProperties(identity.properties) \in PropertyMaps
  BY ClonePropertiesType
<1>2. CloneProperties(Nil) = Nil
  BY ClonePropertiesType
<1>3. CloneProperties(identity.properties) \in PropertyMaps \cup {Nil}
  BY <1>1, <1>2 DEF Identities
<1>4. CloneProperties(identity.properties) = Nil <=> identity.properties = Nil
  BY <1>1, <1>2, IdentityAssumption DEF Identities
<1> QED BY <1>3, <1>4 DEF CloneIdentity, Identities

\* What callIdentify returns is an identity.
LEMMA SnapshotsType == Snapshots \subseteq Identities
BY CloneIdentityType DEF Snapshots

\* mergeIdentity, when it does not panic, returns an Identity.
LEMMA MergeIdentityType ==
    ASSUME NEW previous \in Identities \cup {NoIdentity}, NEW next \in Identities
    PROVE  /\ MergeIdentity(previous, next) \in Identities
           /\ MergeIdentity(previous, next).distinctID = next.distinctID
<1>1. CASE previous = NoIdentity
  BY <1>1, CloneIdentityType DEF MergeIdentity
<1>2. CASE previous # NoIdentity
  <2> DEFINE known == CloneProperties(previous.properties)
  <2>1. known \in PropertyMaps \cup {Nil}
    BY <1>2, ClonePropertiesType DEF Identities
  <2>2. MergeProperties(known, next.properties) \in PropertyMaps \cup {Nil}
    <3>1. CASE known = Nil \/ next.properties = Nil
      BY <2>1, <3>1 DEF MergeProperties
    <3>2. CASE known # Nil /\ next.properties # Nil
      BY <2>1, <3>2, MergePropertiesType DEF Identities
    <3> QED BY <3>1, <3>2
  <2> HIDE DEF known
  <2>3. MergeIdentity(previous, next)
           = [distinctID |-> next.distinctID,
              properties |-> MergeProperties(known, next.properties),
              groups     |-> IF next.groups = Nil THEN previous.groups ELSE next.groups]
    BY <1>2 DEF MergeIdentity, known
  <2> QED BY <1>2, <2>2, <2>3 DEF Identities
<1> QED BY <1>1, <1>2

\* What updateIdentity stores and returns is an Identity of the caller just named.
LEMMA MergedIdentityType ==
    ASSUME NEW previous \in Identities \cup {NoIdentity}, NEW next \in Identities
    PROVE  /\ MergedIdentity(previous, next) \in Identities
           /\ MergedIdentity(previous, next).distinctID = next.distinctID
<1>1. MergeIdentity(previous, next) \in Identities
  BY MergeIdentityType
<1>2. PICK merged \in Identities : merged = MergeIdentity(previous, next)
  BY <1>1
<1> QED BY <1>2, CloneIdentityType, MergeIdentityType DEF MergedIdentity

-----------------------------------------------------------------------------
(***************************************************************************)
(* The inductive invariant, stated of any session map, owner map and touch *)
(* counter, because one critical section may delete, evict and insert.     *)
(***************************************************************************)
WellTyped(known, owners, seq) ==
    /\ DOMAIN known \subseteq SessionIds
    /\ known \in [DOMAIN known -> SessionStates]
    /\ DOMAIN owners \subseteq Connections
    /\ owners \in [DOMAIN owners -> GeneratedIds]
    /\ seq \in Nat

Paired(known, owners) ==
    /\ \A c \in DOMAIN owners :
          /\ owners[c] \in DOMAIN known
          /\ known[owners[c]].connection = c
    /\ \A s \in DOMAIN known :
          known[s].connection # NoConnection =>
             /\ known[s].connection \in DOMAIN owners
             /\ owners[known[s].connection] = s

Ordered(known, seq) ==
    /\ \A s \in DOMAIN known : known[s].touched <= seq
    /\ \A s, t \in DOMAIN known : known[s].touched = known[t].touched => s = t

Bounded(known) ==
    /\ IsFiniteSet(DOMAIN known)
    /\ Cardinality(DOMAIN known) <= SessionLimit

Consistent(known, owners, seq) ==
    /\ WellTyped(known, owners, seq)
    /\ Paired(known, owners)
    /\ Ordered(known, seq)
    /\ Bounded(known)

\* Deleting the session of a connection from both maps.
LEMMA ExpireConsistent ==
    ASSUME NEW known, NEW owners, NEW seq, Consistent(known, owners, seq),
           NEW c \in DOMAIN owners
    PROVE  Consistent(Delete(known, owners[c]), Delete(owners, c), seq)
<1> DEFINE kept == Delete(known, owners[c])
           left == Delete(owners, c)
<1>1. /\ DOMAIN kept = DOMAIN known \ {owners[c]}
      /\ \A s \in DOMAIN known \ {owners[c]} : kept[s] = known[s]
      /\ DOMAIN left = DOMAIN owners \ {c}
      /\ \A d \in DOMAIN owners \ {c} : left[d] = owners[d]
  BY DeleteFacts
<1>2. WellTyped(kept, left, seq)
  <2>1. WellTyped(known, owners, seq)
    BY DEF Consistent
  <2>2. kept \in [DOMAIN kept -> SessionStates]
    BY <2>1, DeleteType DEF WellTyped
  <2>3. left \in [DOMAIN left -> GeneratedIds]
    BY <2>1, DeleteType DEF WellTyped
  <2> HIDE DEF kept, left
  <2> QED BY <1>1, <2>1, <2>2, <2>3 DEF WellTyped
<1> HIDE DEF kept, left
<1>3. Paired(kept, left)
  BY <1>1 DEF Consistent, Paired
<1>4. Ordered(kept, seq)
  BY <1>1 DEF Consistent, Ordered
<1>5. Bounded(kept)
  <2>1. IsFiniteSet(DOMAIN known) /\ Cardinality(DOMAIN known) <= SessionLimit
    BY DEF Consistent, Bounded
  <2>2. /\ DOMAIN kept \subseteq DOMAIN known
        /\ IsFiniteSet(DOMAIN kept)
        /\ Cardinality(DOMAIN kept) <= Cardinality(DOMAIN known)
    BY <1>1, <2>1, FS_Subset
  <2>3. Cardinality(DOMAIN known) \in Nat /\ Cardinality(DOMAIN kept) \in Nat
    BY <2>1, <2>2, FS_CardinalityType
  <2> QED BY <2>1, <2>2, <2>3, StoreAssumption DEF Bounded
<1> QED BY <1>2, <1>3, <1>4, <1>5 DEF Consistent, kept, left

\* evictOldestSessionLocked, and the room touchSessionLocked has after it.
LEMMA EvictConsistent ==
    ASSUME NEW known, NEW owners, NEW seq, Consistent(known, owners, seq),
           NEW s \in SessionIds, NEW victim \in Victims(known, s)
    PROVE  /\ Consistent(Delete(known, victim), Disowned(known, owners, victim), seq)
           /\ s \in DOMAIN known => victim = NoSession
           /\ s \notin DOMAIN known =>
                 Cardinality(DOMAIN Delete(known, victim)) < SessionLimit
<1> DEFINE kept == Delete(known, victim)
           left == Disowned(known, owners, victim)
<1>1. /\ DOMAIN kept = DOMAIN known \ {victim}
      /\ \A t \in DOMAIN known \ {victim} : kept[t] = known[t]
  BY DeleteFacts
<1>a. WellTyped(known, owners, seq)
  BY DEF Consistent
<1>2. CASE victim = NoSession
  <2>1. left = owners
    BY <1>2 DEF Disowned
  <2>2. kept = known
    BY <1>2, <1>a, StoreAssumption DEF WellTyped, Delete, Restrict
  <2>4. Consistent(kept, left, seq)
    BY <2>1, <2>2
  <2>5. s \in DOMAIN known \/ Cardinality(DOMAIN known) < SessionLimit
    <3>1. ASSUME s \notin DOMAIN known, ~(Cardinality(DOMAIN known) < SessionLimit)
          PROVE  FALSE
      <4>1. NoSession \in DOMAIN known
        BY <3>1, <1>2 DEF Victims, Oldest
      <4> QED BY <4>1, StoreAssumption DEF Consistent, WellTyped
    <3> QED BY <3>1
  <2> QED BY <1>2, <2>2, <2>4, <2>5
<1>3. CASE victim # NoSession
  <2>1. s \notin DOMAIN known /\ victim \in DOMAIN known
    BY <1>3 DEF Victims, Oldest
  <2>2. left = Delete(owners, known[victim].connection)
    BY <1>3 DEF Disowned
  <2>a. kept \in [DOMAIN kept -> SessionStates]
    BY <1>a, DeleteType DEF WellTyped
  <2> HIDE DEF left, kept
  <2>b. left \in [DOMAIN left -> GeneratedIds]
    BY <1>a, <2>2, DeleteType DEF WellTyped
  <2>3. /\ DOMAIN left = DOMAIN owners \ {known[victim].connection}
        /\ \A d \in DOMAIN owners \ {known[victim].connection} : left[d] = owners[d]
    BY <2>2, DeleteFacts
  <2>4. WellTyped(kept, left, seq)
    BY <1>1, <1>a, <2>3, <2>a, <2>b DEF WellTyped
  <2>5. Paired(kept, left)
    <3>1. ASSUME NEW d \in DOMAIN left
          PROVE  left[d] \in DOMAIN kept /\ kept[left[d]].connection = d
      BY <1>1, <2>1, <2>3 DEF Consistent, Paired
    <3>2. ASSUME NEW t \in DOMAIN kept, kept[t].connection # NoConnection
          PROVE  /\ kept[t].connection \in DOMAIN left
                 /\ left[kept[t].connection] = t
      BY <1>1, <2>1, <2>3, <3>2 DEF Consistent, Paired
    <3> QED BY <3>1, <3>2 DEF Paired
  <2>6. Ordered(kept, seq)
    BY <1>1 DEF Consistent, Ordered
  <2>7. Bounded(kept) /\ Cardinality(DOMAIN kept) < SessionLimit
    <3>1. IsFiniteSet(DOMAIN known) /\ Cardinality(DOMAIN known) <= SessionLimit
      BY DEF Consistent, Bounded
    <3>2. /\ IsFiniteSet(DOMAIN kept)
          /\ Cardinality(DOMAIN kept) = Cardinality(DOMAIN known) - 1
      BY <1>1, <2>1, <3>1, FS_RemoveElement
    <3>3. Cardinality(DOMAIN known) \in Nat
      BY <3>1, FS_CardinalityType
    <3> QED BY <3>1, <3>2, <3>3, StoreAssumption DEF Bounded
  <2> QED BY <2>1, <2>4, <2>5, <2>6, <2>7 DEF Consistent, kept, left
<1> QED BY <1>2, <1>3

\* A session given the next touch keeps the touches distinct.
LEMMA NewestTouch ==
    ASSUME NEW known, NEW owners, NEW seq, Consistent(known, owners, seq),
           NEW s, NEW after,
           DOMAIN after = DOMAIN known \cup {s},
           \A t \in DOMAIN known \ {s} : after[t] = known[t],
           after[s].touched = seq + 1
    PROVE  Ordered(after, seq + 1)
<1>1. seq \in Nat
  BY DEF Consistent, WellTyped
<1>2. \A t \in DOMAIN known : known[t].touched \in Nat /\ known[t].touched <= seq
  BY DEF Consistent, Ordered, WellTyped, SessionStates
<1>3. \A t \in DOMAIN after : after[t].touched <= seq + 1
  BY <1>1, <1>2
<1>4. \A t \in DOMAIN known \ {s} : after[t].touched # after[s].touched
  BY <1>1, <1>2
<1>5. \A t, u \in DOMAIN known : known[t].touched = known[u].touched => t = u
  BY DEF Consistent, Ordered
<1>6. ASSUME NEW t \in DOMAIN after, NEW u \in DOMAIN after,
             after[t].touched = after[u].touched
      PROVE  t = u
  BY <1>4, <1>5, <1>6
<1> QED BY <1>3, <1>6 DEF Ordered

\* touchSessionLocked once there is room: the touch is newer than all others, and
\* the caller's write leaves the connection of the session alone.
LEMMA TouchConsistent ==
    ASSUME NEW known, NEW owners, NEW seq, Consistent(known, owners, seq),
           NEW s \in SessionIds,
           s \in DOMAIN known \/ Cardinality(DOMAIN known) < SessionLimit,
           NEW state \in SessionStates,
           state.connection = StateOf(known, s).connection
    PROVE  Consistent(Put(known, s, [state EXCEPT !.touched = seq + 1]), owners, seq + 1)
<1> DEFINE new   == [state EXCEPT !.touched = seq + 1]
           after == Put(known, s, new)
<1>1. seq \in Nat
  BY DEF Consistent, WellTyped
<1>2. /\ new \in SessionStates
      /\ new.touched = seq + 1
      /\ new.connection = state.connection
  BY <1>1 DEF SessionStates
<1> HIDE DEF new
<1>3. /\ DOMAIN after = DOMAIN known \cup {s}
      /\ after[s] = new
      /\ \A t \in DOMAIN known \ {s} : after[t] = known[t]
  BY DEF Put
<1>a. WellTyped(known, owners, seq) /\ after \in [DOMAIN after -> SessionStates]
  BY <1>2, PutType DEF Consistent, WellTyped
<1> HIDE DEF after
<1>4. WellTyped(after, owners, seq + 1)
  BY <1>1, <1>a, <1>3 DEF WellTyped
<1>5. Paired(after, owners)
  <2>1. s \notin DOMAIN known => new.connection = NoConnection
    BY <1>2 DEF StateOf, NewState
  <2>2. s \in DOMAIN known => new.connection = known[s].connection
    BY <1>2 DEF StateOf
  <2> QED BY <1>3, <2>1, <2>2 DEF Consistent, Paired
<1>6. Ordered(after, seq + 1)
  BY <1>2, <1>3, NewestTouch
<1>7. Bounded(after)
  <2>1. IsFiniteSet(DOMAIN known) /\ Cardinality(DOMAIN known) <= SessionLimit
    BY DEF Consistent, Bounded
  <2>2. /\ IsFiniteSet(DOMAIN after)
        /\ Cardinality(DOMAIN after) =
              IF s \in DOMAIN known THEN Cardinality(DOMAIN known)
                                    ELSE Cardinality(DOMAIN known) + 1
    BY <1>3, <2>1, FS_AddElement
  <2>3. Cardinality(DOMAIN known) \in Nat
    BY <2>1, FS_CardinalityType
  <2> QED BY <2>1, <2>2, <2>3, StoreAssumption DEF Bounded
<1> QED BY <1>4, <1>5, <1>6, <1>7 DEF Consistent, new, after

\* The end of generatedConnectionSessionID: a fresh session is stored for a
\* connection that has none, and both maps record it.
LEMMA AdoptConsistent ==
    ASSUME NEW known, NEW owners, NEW seq, Consistent(known, owners, seq),
           NEW s \in GeneratedIds, s \notin DOMAIN known,
           Cardinality(DOMAIN known) < SessionLimit,
           NEW c \in Connections, c \notin DOMAIN owners,
           NEW state \in SessionStates, state.connection = c
    PROVE  Consistent(Put(known, s, [state EXCEPT !.touched = seq + 1]),
                      Put(owners, c, s), seq + 1)
<1> DEFINE new   == [state EXCEPT !.touched = seq + 1]
           after == Put(known, s, new)
           mine  == Put(owners, c, s)
<1>1. seq \in Nat
  BY DEF Consistent, WellTyped
<1>2. /\ new \in SessionStates
      /\ new.touched = seq + 1
      /\ new.connection = c
  BY <1>1 DEF SessionStates
<1> HIDE DEF new
<1>3. /\ DOMAIN after = DOMAIN known \cup {s}
      /\ after[s] = new
      /\ \A t \in DOMAIN known \ {s} : after[t] = known[t]
      /\ DOMAIN mine = DOMAIN owners \cup {c}
      /\ mine[c] = s
      /\ \A d \in DOMAIN owners \ {c} : mine[d] = owners[d]
  BY DEF Put
<1>a. /\ WellTyped(known, owners, seq)
      /\ after \in [DOMAIN after -> SessionStates]
      /\ mine \in [DOMAIN mine -> GeneratedIds]
  BY <1>2, PutType DEF Consistent, WellTyped
<1> HIDE DEF after, mine
<1>4. WellTyped(after, mine, seq + 1)
  BY <1>1, <1>a, <1>3 DEF WellTyped, SessionIds
<1>5. Paired(after, mine)
  <2>1. ASSUME NEW d \in DOMAIN mine
        PROVE  mine[d] \in DOMAIN after /\ after[mine[d]].connection = d
    BY <1>2, <1>3, <2>1 DEF Consistent, Paired
  <2>2. ASSUME NEW t \in DOMAIN after, after[t].connection # NoConnection
        PROVE  /\ after[t].connection \in DOMAIN mine
               /\ mine[after[t].connection] = t
    BY <1>2, <1>3, <2>2 DEF Consistent, Paired
  <2> QED BY <2>1, <2>2 DEF Paired
<1>6. Ordered(after, seq + 1)
  BY <1>2, <1>3, NewestTouch
<1>7. Bounded(after)
  <2>1. IsFiniteSet(DOMAIN known) /\ Cardinality(DOMAIN known) <= SessionLimit
    BY DEF Consistent, Bounded
  <2>2. /\ IsFiniteSet(DOMAIN after)
        /\ Cardinality(DOMAIN after) = Cardinality(DOMAIN known) + 1
    BY <1>3, <2>1, FS_AddElement
  <2>3. Cardinality(DOMAIN known) \in Nat
    BY <2>1, FS_CardinalityType
  <2> QED BY <2>1, <2>2, <2>3, StoreAssumption DEF Bounded
<1> QED BY <1>4, <1>5, <1>6, <1>7 DEF Consistent, new, after, mine

-----------------------------------------------------------------------------
\* The inductive invariant: the two maps and the counter are consistent, and no
\* session but an issued or a derived one is stored.
StoreInv ==
    /\ Consistent(sessions, generated, touchSequence)
    /\ fallbackSession \in GeneratedIds
    /\ lastActivity \in Nat
    /\ clock \in Nat
    /\ issued \subseteq GeneratedIds
    /\ DOMAIN sessions \subseteq HeldIds

\* The state a session is found or created with is a sessionState.
LEMMA StateOfType ==
    ASSUME StoreInv, NEW s
    PROVE  StateOf(sessions, s) \in SessionStates
<1>1. NewState \in SessionStates
  BY DEF NewState, SessionStates
<1> QED BY <1>1 DEF StateOf, StoreInv, Consistent, WellTyped

\* Every write through touchSessionLocked that leaves the connection alone.
LEMMA WriteSessionInv ==
    ASSUME StoreInv, NEW s \in HeldIds, NEW state \in SessionStates,
           state.connection = StateOf(sessions, s).connection,
           WriteSession(s, state)
    PROVE  StoreInv'
<1>1. PICK victim \in Victims(sessions, s) :
         /\ TouchSession(sessions, s, state, victim)
         /\ generated' = Disowned(sessions, generated, victim)
  BY DEF WriteSession
<1> DEFINE kept == Delete(sessions, victim)
           left == Disowned(sessions, generated, victim)
<1>2. s \in SessionIds
  BY DEF HeldIds, SessionIds, StoreInv
<1>3. Consistent(sessions, generated, touchSequence)
  BY DEF StoreInv
<1>4. /\ Consistent(kept, left, touchSequence)
      /\ s \in DOMAIN sessions => victim = NoSession
      /\ s \notin DOMAIN sessions => Cardinality(DOMAIN kept) < SessionLimit
  BY <1>2, <1>3, EvictConsistent
<1>5. /\ DOMAIN kept = DOMAIN sessions \ {victim}
      /\ \A t \in DOMAIN sessions \ {victim} : kept[t] = sessions[t]
  BY DeleteFacts
<1> HIDE DEF kept, left
<1>6. s \in DOMAIN sessions => s \in DOMAIN kept
  BY <1>2, <1>4, <1>5, StoreAssumption
<1>7. state.connection = StateOf(kept, s).connection
  BY <1>2, <1>4, <1>5, StoreAssumption DEF StateOf
<1>8. s \in DOMAIN kept \/ Cardinality(DOMAIN kept) < SessionLimit
  BY <1>4, <1>6
<1>9. Consistent(Put(kept, s, [state EXCEPT !.touched = touchSequence + 1]),
                 left, touchSequence + 1)
  BY <1>2, <1>4, <1>7, <1>8, TouchConsistent
<1>10. Consistent(sessions', generated', touchSequence')
  BY <1>1, <1>9 DEF TouchSession, kept, left
<1>11. DOMAIN sessions' \subseteq HeldIds'
  <2>1. DOMAIN sessions' = DOMAIN kept \cup {s}
    BY <1>1 DEF TouchSession, Put, kept
  <2>2. HeldIds' = HeldIds
    BY DEF WriteSession, HeldIds
  <2> QED BY <1>5, <2>1, <2>2 DEF StoreInv
<1> QED BY <1>10, <1>11 DEF StoreInv, WriteSession

\* Every use of a session that is present.
LEMMA TouchPresentInv ==
    ASSUME StoreInv, NEW s \in DOMAIN sessions, NEW state \in SessionStates,
           state.connection = sessions[s].connection,
           TouchPresent(s, state),
           UNCHANGED <<generated, fallbackSession, clock, issued>>,
           UNCHANGED lastActivity
    PROVE  StoreInv'
<1>1. Consistent(sessions, generated, touchSequence) /\ s \in SessionIds
  BY DEF StoreInv, Consistent, WellTyped
<1>2. state.connection = StateOf(sessions, s).connection
  BY DEF StateOf
<1>3. Consistent(Put(sessions, s, [state EXCEPT !.touched = touchSequence + 1]),
                 generated, touchSequence + 1)
  BY <1>1, <1>2, TouchConsistent
<1>4. sessions' = Put(sessions, s, [state EXCEPT !.touched = touchSequence + 1])
  BY DEF TouchPresent, Put
<1>5. Consistent(sessions', generated', touchSequence')
  BY <1>3, <1>4 DEF TouchPresent
<1>6. DOMAIN sessions' = DOMAIN sessions
  BY DEF TouchPresent
<1> QED BY <1>5, <1>6 DEF StoreInv, HeldIds

\* A connection is given a new session: an expired one is deleted first, then
\* room is made, then both maps record the new id.
LEMMA MintConnectionSessionInv ==
    ASSUME StoreInv, NEW c \in Connections, NEW s \in GeneratedIds,
           MintConnectionSession(c, s)
    PROVE  StoreInv'
<1> DEFINE kept   == IF c \in DOMAIN generated THEN Delete(sessions, generated[c])
                                               ELSE sessions
           owners == Delete(generated, c)
           state  == [StateOf(kept, s) EXCEPT !.connection = c, !.lastActivity = clock]
<1>1. PICK victim \in Victims(kept, s) :
         /\ TouchSession(kept, s, state, victim)
         /\ generated' = Put(Disowned(kept, owners, victim), c, s)
  BY DEF MintConnectionSession
<1>2. /\ Consistent(sessions, generated, touchSequence)
      /\ WellTyped(sessions, generated, touchSequence)
  BY DEF StoreInv, Consistent
<1>3. Consistent(kept, owners, touchSequence)
  <2>1. CASE c \in DOMAIN generated
    BY <1>2, <2>1, ExpireConsistent
  <2>2. CASE c \notin DOMAIN generated
    <3>1. owners = generated
      BY <1>2, <2>2 DEF WellTyped, Delete, Restrict
    <3> QED BY <1>2, <2>2, <3>1
  <2> QED BY <2>1, <2>2
<1>4. s \in SessionIds
  BY DEF SessionIds
<1>5. DOMAIN kept \subseteq DOMAIN sessions
  BY DEF Delete, Restrict
<1>6. s \notin DOMAIN sessions
  BY StoreAssumption DEF MintConnectionSession, Fresh, StoreInv, HeldIds
<1>7. c \notin DOMAIN owners
  BY DeleteFacts
<1>8. state \in SessionStates /\ state.connection = c
  <2>1. StateOf(kept, s) = NewState
    BY <1>5, <1>6 DEF StateOf
  <2>2. NewState \in SessionStates
    BY DEF NewState, SessionStates
  <2>3. clock \in Nat
    BY DEF StoreInv
  <2> QED BY <2>1, <2>2, <2>3 DEF SessionStates
<1> HIDE DEF kept, owners, state
<1> DEFINE room == Delete(kept, victim)
           left == Disowned(kept, owners, victim)
<1>9. /\ Consistent(room, left, touchSequence)
      /\ Cardinality(DOMAIN room) < SessionLimit
  BY <1>3, <1>4, <1>5, <1>6, EvictConsistent
<1>10. DOMAIN room \subseteq DOMAIN kept /\ DOMAIN left \subseteq DOMAIN owners
  BY DEF Disowned, Delete, Restrict
<1>11. sessions' = Put(room, s, [state EXCEPT !.touched = touchSequence + 1])
  BY <1>1 DEF TouchSession
<1> HIDE DEF room, left
<1>12. Consistent(Put(room, s, [state EXCEPT !.touched = touchSequence + 1]),
                  Put(left, c, s), touchSequence + 1)
  <2>1. s \notin DOMAIN room /\ c \notin DOMAIN left
    BY <1>5, <1>6, <1>7, <1>10
  <2> QED BY <1>8, <1>9, <2>1, AdoptConsistent
<1>13. Consistent(sessions', generated', touchSequence')
  BY <1>1, <1>11, <1>12 DEF TouchSession, left
<1>14. DOMAIN sessions' \subseteq HeldIds'
  <2>1. DOMAIN sessions' = DOMAIN room \cup {s}
    BY <1>11 DEF Put
  <2>2. HeldIds' = HeldIds \cup {s}
    BY DEF MintConnectionSession, HeldIds
  <2> QED BY <1>5, <1>10, <2>1, <2>2 DEF StoreInv
<1> QED BY <1>13, <1>14 DEF StoreInv, MintConnectionSession

\* The maps New makes, which are empty, satisfy the invariant.
LEMMA StoreInitInv == StoreInit => StoreInv
<1> SUFFICES ASSUME StoreInit PROVE StoreInv
  OBVIOUS
<1>1. DOMAIN sessions = {} /\ DOMAIN generated = {}
  BY DEF StoreInit, EmptyMap
<1>2. /\ sessions \in [DOMAIN sessions -> SessionStates]
      /\ generated \in [DOMAIN generated -> GeneratedIds]
  BY DEF StoreInit, EmptyMap
<1>3. Bounded(sessions)
  BY <1>1, FS_EmptySet, StoreAssumption DEF Bounded
<1> QED BY <1>1, <1>2, <1>3
        DEF StoreInit, EmptyMap, StoreInv, Consistent, WellTyped, Paired, Ordered, HeldIds

\* Every critical section of a.mu preserves the invariant.
LEMMA StoreStepInv == StoreInv /\ [StoreNext]_storeVars => StoreInv'
<1> SUFFICES ASSUME StoreInv, [StoreNext]_storeVars PROVE StoreInv'
  OBVIOUS
<1>1. CASE Tick
  BY <1>1 DEF Tick, StoreInv, HeldIds
<1>2. ASSUME NEW s \in GeneratedIds, NEW c \in Connections, ReuseConnectionSession(c, s)
      PROVE  StoreInv'
  <2>1. s \in DOMAIN sessions
    BY <1>2 DEF ReuseConnectionSession, IsLive
  <2> DEFINE state == [sessions[s] EXCEPT !.lastActivity = clock]
  <2>2. state \in SessionStates /\ state.connection = sessions[s].connection
    BY <2>1 DEF StoreInv, Consistent, WellTyped, SessionStates
  <2>3. TouchPresent(s, state)
    BY <1>2 DEF ReuseConnectionSession
  <2> HIDE DEF state
  <2> QED BY <1>2, <2>1, <2>2, <2>3, TouchPresentInv DEF ReuseConnectionSession
<1>3. ASSUME NEW s \in GeneratedIds, NEW c \in Connections, MintConnectionSession(c, s)
      PROVE  StoreInv'
  BY <1>3, MintConnectionSessionInv
<1>4. ASSUME NEW s \in GeneratedIds, GeneratedFallback(s)
      PROVE  StoreInv'
  <2>1. CASE KeepFallbackSession(s)
    BY <2>1 DEF KeepFallbackSession, StoreInv, HeldIds
  <2>2. CASE RollFallbackSession(s)
    BY <2>2 DEF RollFallbackSession, StoreInv, HeldIds
  <2> QED BY <1>4, <2>1, <2>2 DEF GeneratedFallback
<1>5. ASSUME NEW s \in HeldIds, ReadSession(s)
      PROVE  StoreInv'
  <2>1. sessions[s] \in SessionStates
    BY <1>5 DEF ReadSession, StoreInv, Consistent, WellTyped
  <2> QED BY <1>5, <2>1, TouchPresentInv DEF ReadSession
<1>6. CASE UNCHANGED storeVars
  BY <1>6 DEF storeVars, StoreInv, HeldIds
<1>7. ASSUME NEW s \in HeldIds, NEW next \in Identities, UpdateIdentity(s, next)
      PROVE  StoreInv'
  <2> DEFINE state  == StateOf(sessions, s)
             merged == [state EXCEPT !.identity = MergedIdentity(state.identity, next)]
  <2>1. state \in SessionStates
    BY StateOfType
  <2>2. MergedIdentity(state.identity, next) \in Identities
    BY <2>1, MergedIdentityType DEF SessionStates
  <2>3. merged \in SessionStates /\ merged.connection = state.connection
    BY <2>1, <2>2 DEF SessionStates
  <2>4. WriteSession(s, merged)
    BY <1>7 DEF UpdateIdentity
  <2> HIDE DEF merged
  <2> QED BY <2>3, <2>4, WriteSessionInv
<1>8. ASSUME NEW s \in HeldIds, NEW next \in Identities, UpdateIdentityPanics(s, next)
      PROVE  StoreInv'
  BY <1>8, StateOfType, WriteSessionInv DEF UpdateIdentityPanics
<1>9. ASSUME NEW s \in HeldIds, NEW server \in Servers \cup {NoServer},
             RememberInitialize(s, server)
      PROVE  StoreInv'
  <2> DEFINE state  == StateOf(sessions, s)
             stored == [state EXCEPT !.server = server]
  <2>1. state \in SessionStates
    BY StateOfType
  <2>2. stored \in SessionStates /\ stored.connection = state.connection
    BY <2>1 DEF SessionStates
  <2>3. WriteSession(s, stored)
    BY <1>9 DEF RememberInitialize
  <2> HIDE DEF stored
  <2> QED BY <2>2, <2>3, WriteSessionInv
<1> QED BY <1>1, <1>2, <1>3, <1>4, <1>5, <1>6, <1>7, <1>8, <1>9, SnapshotsType
        DEF StoreNext, ConnectionSession, IdentityForSession,
            StampStoredAttribution, ReadAbsentSession

\* The store is well typed, bounded, its two maps mirror each other and its touches
\* are distinct: the facts of SessionStore as invariants of every run of it.
THEOREM StoreCorrect ==
    StoreSpec => [](StoreTypeOK /\ BoundedStore /\ GeneratedMatchesSessions /\ DistinctTouches)
<1>1. StoreInv => StoreTypeOK /\ BoundedStore /\ GeneratedMatchesSessions /\ DistinctTouches
  BY DEF StoreInv, Consistent, WellTyped, Paired, Ordered, Bounded,
         StoreTypeOK, BoundedStore, GeneratedMatchesSessions, DistinctTouches
<1> QED BY <1>1, StoreInitInv, StoreStepInv, PTL DEF StoreSpec

\* The state of the store keeps its types.
THEOREM StoreTypes == StoreSpec => []StoreTypeOK
BY StoreCorrect, PTL

\* The store never outgrows identityCacheLimit.
THEOREM StoreIsBounded == StoreSpec => []BoundedStore
BY StoreCorrect, PTL

\* No two sessions carry the same touch, so eviction finds one victim.
THEOREM TouchesAreDistinct == StoreSpec => []DistinctTouches
BY StoreCorrect, PTL

-----------------------------------------------------------------------------
\* Only generatedConnectionSessionID gives a connection a session: every other
\* critical section leaves a connection's entry alone or forgets it.
LEMMA OthersKeepGenerated ==
    ASSUME [StoreNext]_storeVars, NEW d \in DOMAIN generated',
           ~ \E c \in Connections, s \in GeneratedIds : MintConnectionSession(c, s)
    PROVE  d \in DOMAIN generated /\ generated'[d] = generated[d]
<1>1. ASSUME NEW s, NEW state, WriteSession(s, state)
      PROVE  d \in DOMAIN generated /\ generated'[d] = generated[d]
  BY <1>1 DEF WriteSession, Disowned, Delete, Restrict
<1>2. CASE generated' = generated
  BY <1>2
<1> QED BY <1>1, <1>2
        DEF StoreNext, storeVars, Tick, GeneratedFallback, KeepFallbackSession,
            RollFallbackSession, ConnectionSession, ReuseConnectionSession,
            IdentityForSession, StampStoredAttribution, ReadSession, ReadAbsentSession,
            UpdateIdentity, UpdateIdentityPanics, RememberInitialize

\* What a mint does to the entry of a connection, its own or another's.
LEMMA MintKeepsOthers ==
    ASSUME NEW c \in Connections, NEW s \in GeneratedIds, MintConnectionSession(c, s),
           NEW d \in DOMAIN generated'
    PROVE  \/ d = c /\ generated'[d] = s
           \/ d # c /\ d \in DOMAIN generated /\ generated'[d] = generated[d]
BY DEF MintConnectionSession, Disowned, Put, Delete, Restrict

\* A connection changes its session only after the inactivity window.
THEOREM ConnectionsRollOnlyWhenIdle == StoreSpec => RollsOnlyWhenIdle
<1> DEFINE Rolls == \A c \in DOMAIN generated \cap DOMAIN generated' :
                       generated'[c] # generated[c] =>
                          clock - sessions[generated[c]].lastActivity > Window
<1>1. StoreInv /\ [StoreNext]_storeVars => [Rolls]_storeVars
  <2> SUFFICES ASSUME StoreInv, [StoreNext]_storeVars,
                      NEW d \in DOMAIN generated \cap DOMAIN generated',
                      generated'[d] # generated[d]
               PROVE  clock - sessions[generated[d]].lastActivity > Window
    OBVIOUS
  <2>1. PICK c \in Connections, s \in GeneratedIds : MintConnectionSession(c, s)
    BY OthersKeepGenerated
  <2>2. d = c
    BY <2>1, MintKeepsOthers
  <2>3. /\ generated[d] \in DOMAIN sessions
        /\ sessions[generated[d]].lastActivity \in Nat
        /\ clock \in Nat
    BY DEF StoreInv, Consistent, WellTyped, Paired, SessionStates
  <2> QED BY <2>1, <2>2, <2>3, StoreAssumption DEF MintConnectionSession, IsLive
<1>2. StoreSpec => [][Rolls]_storeVars
  BY <1>1, StoreInitInv, StoreStepInv, PTL DEF StoreSpec
<1> QED BY <1>2 DEF RollsOnlyWhenIdle

-----------------------------------------------------------------------------
(***************************************************************************)
(* Refinement: the store implements LruCache.                              *)
(***************************************************************************)

\* A map kept in part, then written at s, is one Store of the abstract cache.
LEMMA StoreRefines ==
    ASSUME NEW held \in SUBSET DOMAIN sessions, NEW s, NEW v,
           Consistent(sessions, generated, touchSequence),
           DOMAIN sessions' = held \cup {s},
           \A t \in held \ {s} : sessions'[t] = sessions[t],
           sessions'[s].touched = touchSequence + 1,
           StoreValue(sessions'[s]) = v
    PROVE  Lru!Store(held, s, v)
<1>1. touchSequence \in Nat
  BY DEF Consistent, WellTyped
<1>2. [t \in DOMAIN sessions |-> StoreValue(sessions[t])]'
        = [t \in held \cup {s} |->
             IF t = s THEN v
                      ELSE [u \in DOMAIN sessions |-> StoreValue(sessions[u])][t]]
  OBVIOUS
<1>3. \A t \in held \ {s} : /\ sessions'[t].touched = sessions[t].touched
                            /\ sessions'[t].touched \in Nat
                            /\ sessions'[t].touched < sessions'[s].touched
  <2> SUFFICES ASSUME NEW t \in held \ {s}
               PROVE  /\ sessions'[t].touched = sessions[t].touched
                      /\ sessions'[t].touched \in Nat
                      /\ sessions'[t].touched < sessions'[s].touched
    OBVIOUS
  <2>1. sessions[t].touched \in Nat /\ sessions[t].touched <= touchSequence
    BY DEF Consistent, WellTyped, Ordered, SessionStates
  <2> QED BY <1>1, <2>1
<1>4. StoreOrder' = Lru!MakeNewest(held, s)
  <2>1. ASSUME NEW t \in held \cup {s}, NEW u \in held \cup {s}
        PROVE  <<t, u>> \in StoreOrder' <=> <<t, u>> \in Lru!MakeNewest(held, s)
    <3>1. <<t, u>> \in StoreOrder' <=> sessions'[t].touched < sessions'[u].touched
      BY DEF StoreOrder
    <3>2. <<t, u>> \in Lru!MakeNewest(held, s) <=>
             \/ t # s /\ u # s /\ sessions[t].touched < sessions[u].touched
             \/ t # s /\ u = s
      BY DEF Lru!MakeNewest, StoreOrder
    <3>3. CASE t = s
      <4>1. ~ (sessions'[t].touched < sessions'[u].touched)
        BY <1>1, <1>3, <3>3
      <4> QED BY <3>1, <3>2, <3>3, <4>1
    <3>4. CASE t # s /\ u = s
      <4>1. sessions'[t].touched < sessions'[u].touched
        BY <1>3, <3>4
      <4> QED BY <3>1, <3>2, <3>4, <4>1
    <3>5. CASE t # s /\ u # s
      BY <1>3, <3>1, <3>2, <3>5
    <3> QED BY <3>3, <3>4, <3>5
  <2>2. StoreOrder' \subseteq (held \cup {s}) \X (held \cup {s})
    BY DEF StoreOrder
  <2>3. Lru!MakeNewest(held, s) \subseteq (held \cup {s}) \X (held \cup {s})
    BY DEF Lru!MakeNewest
  <2> QED BY <2>1, <2>2, <2>3
<1> QED BY <1>2, <1>4 DEF Lru!Store

\* What requests read from a session, with its connection, is a value of the cache.
LEMMA StoreValueType ==
    ASSUME NEW state \in SessionStates PROVE StoreValue(state) \in Lru!Values
BY DEF SessionStates, StoreValue, Lru!Values

\* The connection with which a session may be written: its own, or for a session
\* that is not there one that has no session, NoConnection included.
OwnerFits(s, state) ==
    IF s \in DOMAIN sessions THEN state.connection = sessions[s].connection
                             ELSE state.connection \notin DOMAIN generated

\* A connection without an entry in a.generated owns no session.
LEMMA KeylessConnection ==
    ASSUME StoreInv, NEW c, c \notin DOMAIN generated
    PROVE  Lru!Keyless(c)
BY DEF StoreInv, Consistent, Paired, Lru!Keyless, StoreValue

\* The writes that leave the connection of a session alone.
LEMMA SameConnectionFits ==
    ASSUME StoreInv, NEW s, NEW state, state.connection = StateOf(sessions, s).connection
    PROVE  OwnerFits(s, state)
<1>1. NoConnection \notin DOMAIN generated
  BY StoreAssumption DEF StoreInv, Consistent, WellTyped
<1> QED BY <1>1 DEF OwnerFits, StateOf, NewState

\* A use of a session that is present is a Use of the cache.
LEMMA TouchPresentRefines ==
    ASSUME StoreInv, NEW s \in DOMAIN sessions, NEW state \in SessionStates,
           state.connection = sessions[s].connection, TouchPresent(s, state)
    PROVE  Lru!LruNext
<1> DEFINE v == StoreValue(state)
<1>1. Consistent(sessions, generated, touchSequence) /\ s \in SessionIds /\ touchSequence \in Nat
  BY DEF StoreInv, Consistent, WellTyped
<1>2. /\ DOMAIN sessions' = DOMAIN sessions
      /\ \A t \in DOMAIN sessions \ {s} : sessions'[t] = sessions[t]
      /\ sessions'[s].touched = touchSequence + 1
      /\ StoreValue(sessions'[s]) = v
  BY <1>1 DEF TouchPresent, SessionStates, StoreValue
<1>3. v \in Lru!Values /\ v.owner = StoreValue(sessions[s]).owner
  BY StoreValueType DEF StoreValue
<1> HIDE DEF v
<1>4. Lru!Store(DOMAIN sessions, s, v)
  BY <1>1, <1>2, StoreRefines
<1>5. Lru!Use(s, v)
  BY <1>3, <1>4 DEF Lru!Use
<1> QED BY <1>1, <1>3, <1>5 DEF Lru!LruNext

\* What touchSessionLocked does, on a map kept from the session map.
LEMMA TouchSessionRefines ==
    ASSUME StoreInv, NEW kept, NEW s \in SessionIds, NEW state \in SessionStates, NEW victim,
           DOMAIN kept \subseteq DOMAIN sessions,
           \A t \in DOMAIN kept : kept[t] = sessions[t],
           TouchSession(kept, s, state, victim)
    PROVE  Lru!Store(DOMAIN kept \ {victim}, s, StoreValue(state))
<1>1. Consistent(sessions, generated, touchSequence) /\ touchSequence \in Nat
  BY DEF StoreInv, Consistent, WellTyped
<1>2. /\ DOMAIN sessions' = (DOMAIN kept \ {victim}) \cup {s}
      /\ \A t \in (DOMAIN kept \ {victim}) \ {s} : sessions'[t] = kept[t]
      /\ sessions'[s].touched = touchSequence + 1
      /\ StoreValue(sessions'[s]) = StoreValue(state)
  BY <1>1 DEF TouchSession, Put, Delete, Restrict, SessionStates, StoreValue
<1> QED BY <1>1, <1>2, StoreRefines

\* A victim of the limit is the least recently used session.
LEMMA VictimIsLeast ==
    ASSUME StoreInv, NEW s \in SessionIds, NEW victim \in Victims(sessions, s)
    PROVE  \/ victim = NoSession /\ victim \notin DOMAIN sessions
              /\ (s \in DOMAIN sessions \/ Cardinality(DOMAIN sessions) < SessionLimit)
           \/ /\ s \notin DOMAIN sessions
              /\ Cardinality(DOMAIN sessions) >= SessionLimit
              /\ victim \in DOMAIN sessions
              /\ \A t \in DOMAIN sessions \ {victim} : <<victim, t>> \in StoreOrder
<1>1. NoSession \notin DOMAIN sessions
  BY StoreAssumption DEF StoreInv, Consistent, WellTyped
<1>2. CASE s \in DOMAIN sessions \/ Cardinality(DOMAIN sessions) < SessionLimit
  BY <1>1, <1>2 DEF Victims
<1>3. CASE ~ (s \in DOMAIN sessions \/ Cardinality(DOMAIN sessions) < SessionLimit)
  <2>1. victim \in Oldest(sessions)
    BY <1>3 DEF Victims
  <2>2. ASSUME NEW t \in DOMAIN sessions \ {victim}
        PROVE  sessions[victim].touched < sessions[t].touched
    <3>1. /\ sessions[victim].touched <= sessions[t].touched
          /\ sessions[victim].touched \in Nat
          /\ sessions[t].touched \in Nat
          /\ sessions[victim].touched # sessions[t].touched
      BY <2>1 DEF Oldest, StoreInv, Consistent, WellTyped, Ordered, SessionStates
    <3> QED BY <3>1
  <2>3. Cardinality(DOMAIN sessions) \in Nat
    BY FS_CardinalityType DEF StoreInv, Consistent, Bounded
  <2>4. Cardinality(DOMAIN sessions) >= SessionLimit
    BY <1>3, <2>3, StoreAssumption
  <2>5. victim \in DOMAIN sessions
    BY <2>1 DEF Oldest
  <2> QED BY <1>3, <2>2, <2>4, <2>5 DEF StoreOrder
<1> QED BY <1>2, <1>3

\* The Cardinality of the instance is that of FiniteSets.
LEMMA SameCardinality == ASSUME NEW S PROVE Lru!Cardinality(S) = Cardinality(S)
BY DEF Lru!Cardinality, Cardinality

\* Reading or creating a session through touchSessionLocked, evicting if need be.
LEMMA TouchRefines ==
    ASSUME StoreInv, NEW s \in SessionIds, NEW state \in SessionStates,
           OwnerFits(s, state),
           NEW victim \in Victims(sessions, s), TouchSession(sessions, s, state, victim)
    PROVE  Lru!LruNext
<1> DEFINE v == StoreValue(state)
<1>1. Lru!Store(DOMAIN sessions \ {victim}, s, v)
  BY TouchSessionRefines
<1>2. /\ v \in Lru!Values
      /\ s \in DOMAIN sessions => v.owner = StoreValue(sessions[s]).owner
      /\ s \notin DOMAIN sessions => Lru!Keyless(v.owner)
  BY StoreValueType, KeylessConnection DEF OwnerFits, StoreValue
<1> HIDE DEF v
<1>3. CASE victim = NoSession /\ victim \notin DOMAIN sessions
  <2>1. Lru!Store(DOMAIN sessions, s, v)
    <3>1. DOMAIN sessions \ {victim} = DOMAIN sessions
      BY <1>3
    <3> QED BY <1>1, <3>1
  <2>2. CASE s \in DOMAIN sessions
    <3>1. Lru!Use(s, v)
      BY <1>2, <2>1, <2>2 DEF Lru!Use
    <3> QED BY <1>2, <3>1 DEF Lru!LruNext
  <2>3. CASE s \notin DOMAIN sessions /\ Cardinality(DOMAIN sessions) < SessionLimit
    <3>1. Lru!Insert(s, v)
      BY <1>2, <2>1, <2>3, SameCardinality DEF Lru!Insert
    <3> QED BY <1>2, <3>1 DEF Lru!LruNext
  <2> QED BY <1>3, <2>2, <2>3, VictimIsLeast
<1>4. CASE victim \in DOMAIN sessions
  <2>1. /\ s \notin DOMAIN sessions
        /\ Cardinality(DOMAIN sessions) >= SessionLimit
        /\ \A t \in DOMAIN sessions \ {victim} : <<victim, t>> \in StoreOrder
    BY <1>4, VictimIsLeast
  <2>2. Lru!Displace(s, v, victim)
    BY <1>1, <1>2, <1>4, <2>1, SameCardinality DEF Lru!Displace
  <2>3. victim \in SessionIds
    BY <1>4 DEF StoreInv, Consistent, WellTyped
  <2> QED BY <1>2, <2>2, <2>3 DEF Lru!LruNext
<1> QED BY <1>3, <1>4, VictimIsLeast

\* A minted session takes the place of its connection's expired one, or is
\* inserted like any other.
LEMMA MintRefines ==
    ASSUME StoreInv, NEW c \in Connections, NEW s \in GeneratedIds,
           MintConnectionSession(c, s)
    PROVE  Lru!LruNext
<1> DEFINE kept   == IF c \in DOMAIN generated THEN Delete(sessions, generated[c])
                                               ELSE sessions
           state  == [StateOf(kept, s) EXCEPT !.connection = c, !.lastActivity = clock]
<1>1. PICK victim \in Victims(kept, s) : TouchSession(kept, s, state, victim)
  BY DEF MintConnectionSession
<1>2. s \in SessionIds /\ s \notin DOMAIN sessions
  BY StoreAssumption DEF MintConnectionSession, Fresh, StoreInv, HeldIds, SessionIds
<1>3. state \in SessionStates /\ state.connection = c
  <2>1. DOMAIN kept \subseteq DOMAIN sessions
    BY DEF Delete, Restrict
  <2>2. StateOf(kept, s) = NewState
    BY <1>2, <2>1 DEF StateOf
  <2>3. NewState \in SessionStates /\ clock \in Nat
    BY DEF NewState, SessionStates, StoreInv
  <2> QED BY <2>2, <2>3 DEF SessionStates
<1>4. CASE c \notin DOMAIN generated
  <2>1. kept = sessions
    BY <1>4
  <2>2. OwnerFits(s, state)
    BY <1>2, <1>3, <1>4 DEF OwnerFits
  <2> HIDE DEF kept, state
  <2> QED BY <1>1, <1>2, <1>3, <2>1, <2>2, TouchRefines
<1>5. CASE c \in DOMAIN generated
  <2> DEFINE old == generated[c]
             v   == StoreValue(state)
  <2>1. old \in DOMAIN sessions /\ old \in SessionIds
    BY <1>5 DEF StoreInv, Consistent, Paired, WellTyped
  <2>2. /\ DOMAIN kept = DOMAIN sessions \ {old}
        /\ \A t \in DOMAIN kept : kept[t] = sessions[t]
    BY <1>5 DEF Delete, Restrict
  <2>3. v \in Lru!Values /\ v.owner # NoConnection /\ v.owner = StoreValue(sessions[old]).owner
    <3>1. sessions[old].connection = c
      BY <1>5 DEF StoreInv, Consistent, Paired
    <3> QED BY <1>3, <3>1, StoreValueType, StoreAssumption DEF StoreValue
  <2> HIDE DEF kept, state, old, v
  <2>4. Cardinality(DOMAIN kept) < SessionLimit
    <3>1. /\ IsFiniteSet(DOMAIN sessions)
          /\ Cardinality(DOMAIN sessions) <= SessionLimit
      BY DEF StoreInv, Consistent, Bounded
    <3>2. /\ Cardinality(DOMAIN kept) = Cardinality(DOMAIN sessions) - 1
          /\ Cardinality(DOMAIN sessions) \in Nat
      BY <2>1, <2>2, <3>1, FS_RemoveElement, FS_CardinalityType
    <3> QED BY <3>1, <3>2, StoreAssumption
  <2>5. victim = NoSession
    BY <1>1, <2>4 DEF Victims
  <2>6. DOMAIN kept \ {victim} = DOMAIN kept
    BY <2>2, <2>5, StoreAssumption DEF StoreInv, Consistent, WellTyped
  <2>7. Lru!Store(DOMAIN kept \ {victim}, s, v)
    BY <1>1, <1>2, <1>3, <2>2, TouchSessionRefines DEF v
  <2>8. Lru!Store(DOMAIN sessions \ {old}, s, v)
    BY <2>2, <2>6, <2>7
  <2>9. Lru!Replace(s, v, old)
    BY <1>2, <2>1, <2>3, <2>8 DEF Lru!Replace
  <2> QED BY <1>2, <2>1, <2>3, <2>9 DEF Lru!LruNext
<1> QED BY <1>4, <1>5

\* Every critical section is a step of the cache, or leaves it alone.
LEMMA StoreStepRefines ==
    StoreInv /\ [StoreNext]_storeVars => [Lru!LruNext]_(Lru!lruVars)
<1> SUFFICES ASSUME StoreInv, [StoreNext]_storeVars
             PROVE  Lru!LruNext \/ UNCHANGED Lru!lruVars
  OBVIOUS
<1>1. CASE UNCHANGED sessions
  BY <1>1 DEF Lru!lruVars, StoreOrder
<1>2. ASSUME NEW s \in GeneratedIds, NEW c \in Connections, ReuseConnectionSession(c, s)
      PROVE  Lru!LruNext
  <2> DEFINE state == [sessions[s] EXCEPT !.lastActivity = clock]
  <2>1. s \in DOMAIN sessions
    BY <1>2 DEF ReuseConnectionSession, IsLive
  <2>2. state \in SessionStates /\ state.connection = sessions[s].connection
    BY <2>1 DEF StoreInv, Consistent, WellTyped, SessionStates
  <2>3. TouchPresent(s, state)
    BY <1>2 DEF ReuseConnectionSession
  <2> HIDE DEF state
  <2> QED BY <2>1, <2>2, <2>3, TouchPresentRefines
<1>3. ASSUME NEW s \in HeldIds, ReadSession(s)
      PROVE  Lru!LruNext
  <2>1. s \in DOMAIN sessions /\ sessions[s] \in SessionStates
    BY <1>3 DEF ReadSession, StoreInv, Consistent, WellTyped
  <2> QED BY <1>3, <2>1, TouchPresentRefines DEF ReadSession
<1>4. ASSUME NEW s \in HeldIds, NEW state \in SessionStates,
             state.connection = StateOf(sessions, s).connection, WriteSession(s, state)
      PROVE  Lru!LruNext
  <2>1. s \in SessionIds
    BY DEF HeldIds, SessionIds, StoreInv
  <2>2. OwnerFits(s, state)
    BY <1>4, SameConnectionFits
  <2> QED BY <1>4, <2>1, <2>2, TouchRefines DEF WriteSession
<1>5. ASSUME NEW s \in HeldIds, NEW next \in Identities, UpdateIdentity(s, next)
      PROVE  Lru!LruNext
  <2> DEFINE state  == StateOf(sessions, s)
             merged == [state EXCEPT !.identity = MergedIdentity(state.identity, next)]
  <2>1. state \in SessionStates
    BY StateOfType
  <2>2. MergedIdentity(state.identity, next) \in Identities
    BY <2>1, MergedIdentityType DEF SessionStates
  <2>3. merged \in SessionStates /\ merged.connection = state.connection
    BY <2>1, <2>2 DEF SessionStates
  <2>4. WriteSession(s, merged)
    BY <1>5 DEF UpdateIdentity
  <2> HIDE DEF merged
  <2> QED BY <1>4, <2>3, <2>4
<1>6. ASSUME NEW s \in HeldIds, NEW next \in Identities, UpdateIdentityPanics(s, next)
      PROVE  Lru!LruNext
  BY <1>4, <1>6, StateOfType DEF UpdateIdentityPanics
<1>7. ASSUME NEW s \in HeldIds, NEW server \in Servers \cup {NoServer},
             RememberInitialize(s, server)
      PROVE  Lru!LruNext
  <2> DEFINE stored == [StateOf(sessions, s) EXCEPT !.server = server]
  <2>1. stored \in SessionStates /\ stored.connection = StateOf(sessions, s).connection
    BY StateOfType DEF SessionStates
  <2>2. WriteSession(s, stored)
    BY <1>7 DEF RememberInitialize
  <2> HIDE DEF stored
  <2> QED BY <1>4, <2>1, <2>2
<1> QED BY <1>1, <1>2, <1>3, <1>5, <1>6, <1>7, MintRefines,
           SnapshotsType
        DEF StoreNext, storeVars, Tick, GeneratedFallback, KeepFallbackSession,
            RollFallbackSession, ConnectionSession, IdentityForSession,
            StampStoredAttribution, ReadAbsentSession

\* Every behaviour of the store is a behaviour of the LRU cache it stands for.
THEOREM StoreImplementsLruCache == StoreSpec => ImplementsLruCache
<1>1. StoreInit => Lru!LruInit
  BY DEF StoreInit, EmptyMap, Lru!LruInit, StoreOrder
<1> QED BY <1>1, StoreInitInv, StoreStepInv, StoreStepRefines, PTL
        DEF StoreSpec, ImplementsLruCache, Lru!LruSpec
=============================================================================
