---------------------------- MODULE MCMiddleware ----------------------------
(***************************************************************************)
(* Instances of Middleware.  An answer of Identify names one of the        *)
(* callers, with no properties, or with some: after the first kind the     *)
(* second makes mergeIdentity panic.                                       *)
(***************************************************************************)
EXTENDS Middleware, TLC

Named(id, properties) == [distinctID |-> id, properties |-> properties, groups |-> Nil]

\* Every answer, those on which mergeIdentity panics included.
AllAnswers == {Named(id, properties) :
                  id \in DistinctIDs,
                  properties \in {Nil} \cup [PropertyKeys -> PropertyValues]}

\* Answers that always carry properties: mergeIdentity never panics.
FullAnswers == {Named(id, properties) :
                   id \in DistinctIDs, properties \in [PropertyKeys -> PropertyValues]}

\* Each caller has a property of its own, and what the session has of the other's is
\* merged in.
OwnProperties == {Named(id, [key \in {id} |-> value]) :
                     id \in DistinctIDs \cap PropertyKeys, value \in PropertyValues}

\* The answer of a callback that always returns the same properties, more than fit.
TooManyProperties ==
    {CloneIdentity(Named(id, [key \in PropertyKeys \ {MoreKey} |-> value])) :
        id \in DistinctIDs, value \in PropertyValues \ {MoreValue}}

RequestSymmetry == Permutations(Requests)

Symmetry ==
    Permutations(Requests) \cup Permutations(GeneratedIds) \cup Permutations(DistinctIDs)
=============================================================================
