------------------------------- MODULE GoMaps -------------------------------
(***************************************************************************)
(* Go maps as partial functions: the DOMAIN is the set of keys present.    *)
(***************************************************************************)
EXTENDS Functions

EmptyMap == [key \in {} |-> key]

\* m[key] = value
Put(map, key, value) ==
    [x \in DOMAIN map \cup {key} |-> IF x = key THEN value ELSE map[x]]

\* delete(m, key)
Delete(map, key) == Restrict(map, DOMAIN map \ {key})
=============================================================================
