------------------------------ MODULE Identity ------------------------------
(***************************************************************************)
(* The values of identity.go: an Identity is a distinct id with optional   *)
(* properties and optional groups, and mergeIdentity combines what a       *)
(* session already knows with what the Identify callback just returned.    *)
(* A Go nil map and an empty map are different values here, as they are in *)
(* the code: reading a nil map is fine, writing to one panics.             *)
(*                                                                         *)
(* Every clone sanitizes again.  Of what sanitizing does only the limit on *)
(* the number of properties can change a clone once more: the marker a cut *)
(* leaves behind is a property itself.                                     *)
(***************************************************************************)
EXTENDS GoMaps, Naturals, FiniteSets

CONSTANTS
    DistinctIDs,      \* the callers an Identify callback can name
    PropertyKeys,     \* keys of Identity.Properties, numbered in their sort order
    PropertyValues,   \* values of Identity.Properties
    MaxProperties,    \* maxBreadth
    MoreKey,          \* the key "..." of the marker
    MoreValue,        \* the value "[MaxProperties ~]" of the marker
    Groups,           \* non-nil Identity.Groups values
    Nil,              \* a nil map
    NoIdentity        \* a nil *Identity

PropertyMaps == UNION {[keys -> PropertyValues] : keys \in SUBSET PropertyKeys}

Identities == [distinctID : DistinctIDs,
               properties : PropertyMaps \cup {Nil},
               groups     : Groups \cup {Nil}]

ASSUME IdentityAssumption ==
    /\ PropertyKeys \subseteq Nat
    /\ MaxProperties \in Nat
    /\ MoreKey \in PropertyKeys /\ MoreValue \in PropertyValues
    /\ Nil \notin PropertyMaps
    /\ Nil \notin Groups
    /\ NoIdentity \notin Identities

-----------------------------------------------------------------------------
\* The keys visitMap gets to before the limit.
FirstKeys(properties) ==
    {key \in DOMAIN properties :
        Cardinality({smaller \in DOMAIN properties : smaller < key}) < MaxProperties}

\* cloneIdentityProperties: the first properties, and the marker if there are more.
CloneProperties(properties) ==
    IF properties = Nil \/ FirstKeys(properties) = DOMAIN properties
    THEN properties
    ELSE Put(Restrict(properties, FirstKeys(properties)), MoreKey, MoreValue)

\* cloneIdentity
CloneIdentity(identity) ==
    [identity EXCEPT !.properties = CloneProperties(identity.properties)]

\* What callIdentify makes of the callback's answers.
Snapshots == {CloneIdentity(identity) : identity \in Identities}

\* The properties loop of mergeIdentity: the previous entries, overwritten by
\* the next ones.  Ranging over a nil map runs no iteration.
MergeProperties(previous, next) ==
    IF previous = Nil \/ next = Nil
    THEN previous
    ELSE [key \in DOMAIN previous \cup DOMAIN next |->
             IF key \in DOMAIN next THEN next[key] ELSE previous[key]]

\* mergeIdentity, whose result can have more properties than the limit.
MergeIdentity(previous, next) ==
    IF previous = NoIdentity
    THEN CloneIdentity(next)
    ELSE [distinctID |-> next.distinctID,
          properties |-> MergeProperties(CloneProperties(previous.properties),
                                         next.properties),
          groups     |-> IF next.groups = Nil THEN previous.groups
                                              ELSE next.groups]

\* What updateIdentity stores and returns.
MergedIdentity(previous, next) == CloneIdentity(MergeIdentity(previous, next))

\* cloneIdentityProperties(nil) is nil, so the first assignment of the loop in
\* mergeIdentity writes to a nil map and panics.
MergePanics(previous, next) ==
    /\ previous # NoIdentity
    /\ previous.properties = Nil
    /\ next.properties # Nil
    /\ DOMAIN next.properties # {}
=============================================================================
