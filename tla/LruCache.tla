------------------------------ MODULE LruCache ------------------------------
(***************************************************************************)
(* What the session store promises, without clocks, counters or locks: a   *)
(* bounded map that makes room for a new key by dropping the key used      *)
(* least recently, and drops nothing else except a key that its owner      *)
(* trades for another.  An owner has one key at most, and a key keeps its  *)
(* owner.  The order of use is the set of pairs older, in which <<k, l>>   *)
(* says that k was last used before l.                                     *)
(***************************************************************************)
EXTENDS Naturals, FiniteSets

CONSTANTS Keys, Contents, Owners, NoOwner, Limit

VARIABLES cache, older

lruVars == <<cache, older>>

Values == [content : Contents, owner : Owners \cup {NoOwner}]

LruInit == DOMAIN cache = {} /\ older = {}

\* Among the keys held, k becomes the newest and the others keep their order.
MakeNewest(held, k) ==
    {pair \in (held \cup {k}) \X (held \cup {k}) :
        /\ pair[1] # k
        /\ pair[2] = k \/ pair \in older}

\* Whatever k maps to afterwards, among the keys in held it is the newest.
Store(held, k, v) ==
    /\ cache' = [key \in held \cup {k} |-> IF key = k THEN v ELSE cache[key]]
    /\ older' = MakeNewest(held, k)

\* The owner, if it is one, has no key.
Keyless(owner) ==
    owner # NoOwner => \A k \in DOMAIN cache : cache[k].owner # owner

\* Reading or writing a key that is present uses it.
Use(k, v) ==
    /\ k \in DOMAIN cache
    /\ v.owner = cache[k].owner
    /\ Store(DOMAIN cache, k, v)

Insert(k, v) ==
    /\ k \notin DOMAIN cache
    /\ Keyless(v.owner)
    /\ Cardinality(DOMAIN cache) < Limit
    /\ Store(DOMAIN cache, k, v)

\* There is no room: the key used least recently goes.
Displace(k, v, least) ==
    /\ k \notin DOMAIN cache
    /\ Keyless(v.owner)
    /\ Cardinality(DOMAIN cache) >= Limit
    /\ least \in DOMAIN cache
    /\ \A other \in DOMAIN cache \ {least} : <<least, other>> \in older
    /\ Store(DOMAIN cache \ {least}, k, v)

\* The owner of a key trades it for a new one, which takes its place.
Replace(k, v, old) ==
    /\ k \notin DOMAIN cache
    /\ old \in DOMAIN cache
    /\ v.owner # NoOwner /\ v.owner = cache[old].owner
    /\ Store(DOMAIN cache \ {old}, k, v)

LruNext ==
    \E k \in Keys, v \in Values :
        \/ Use(k, v)
        \/ Insert(k, v)
        \/ \E other \in Keys : Displace(k, v, other) \/ Replace(k, v, other)

LruSpec == LruInit /\ [][LruNext]_lruVars
=============================================================================
