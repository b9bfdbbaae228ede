----------------------------- MODULE Truncation -----------------------------
(***************************************************************************)
(* truncation.go: an event is sanitized and then made to fit the budget,   *)
(* first by reducing the depth of its properties, then by cutting the      *)
(* largest strings.  An event that still does not fit is given up.         *)
(*                                                                         *)
(* An event is a record of its name, its distinct id, its properties and   *)
(* its groups.  JSON is counted as it is written: each place has a key and *)
(* punctuation, each byte of a text as many bytes as its escapes take.     *)
(***************************************************************************)
EXTENDS Sanitizer, Functions

CONSTANTS
    MaxEventBytes,    \* maxEventBytes
    EnvelopeBytes,    \* JSON of what every event has besides these fields
    KeyBytes,         \* JSON of a key with its punctuation
    ScalarBytes,      \* JSON of a number or a truth value
    FieldLimits       \* applyFieldLimits: the properties with a limit of their own

Attempts         == 10     \* rounds of truncateLargestEventStrings
ShortestCut      == 100    \* strings up to here are never cut
SmallestSaving   == 10     \* nor is one cut to save less than this
Slack            == 200
MaxExceptionText == 2048   \* truncateExceptions

\* What is cut to a limit of its own is within that of all strings.
ASSUME TruncationAssumption ==
    /\ MaxEventBytes \in Nat /\ EnvelopeBytes \in Nat
    /\ KeyBytes \in Nat /\ ScalarBytes \in Nat
    /\ MaxExceptionText + 3 <= MaxStringBytes
    /\ \A key \in DOMAIN FieldLimits :
          key \in Int /\ FieldLimits[key] \in ShortestLimit..(MaxStringBytes - 3)

LeafBytes(v) ==
    CASE IsContainer(v) -> 2
      [] IsString(v)    -> v.len * v.width + 2
      [] OTHER          -> ScalarBytes

TreeBytes(tree) == SumFunction([p \in DOMAIN tree |-> KeyBytes + LeafBytes(tree[p])])

\* json.Marshal fails on a value that contains itself, and on a json.Number that is
\* no number, which sanitizing lets pass.
Unmarshalable(tree) ==
    \E p \in DOMAIN tree : tree[p].kind \in {"backmap", "backslice", "badnumber"}

\* eventJSONSize.
EventJSONSize(event) ==
    IF Unmarshalable(event.properties) \/ Unmarshalable(event.groups)
    THEN MaxEventBytes + 1
    ELSE EnvelopeBytes + LeafBytes(event.name) + LeafBytes(event.distinctID)
            + TreeBytes(event.properties) + TreeBytes(event.groups)

Fits(event) == EventJSONSize(event) <= MaxEventBytes
-----------------------------------------------------------------------------
\* The places of applyFieldLimits: some properties, and the "value" of each map in a
\* slice of exceptions.  The SDK's own have no stack frames, whose limit is left out.
IsField(p)           == Len(p) = 1 /\ p[1] \in DOMAIN FieldLimits
IsException(tree, p) ==
    /\ Len(p) = 3 /\ p[1] = ExceptionKey /\ p[3] = ValueKey
    /\ tree[<<ExceptionKey>>].kind = "slice" /\ tree[Parent(p)].kind = "map"

IsBounded(tree, p) == IsString(tree[p]) /\ (IsField(p) \/ IsException(tree, p))
FieldLimit(p)      == IF Len(p) = 1 THEN FieldLimits[p[1]] ELSE MaxExceptionText

\* applyFieldLimits; a limit applies to strings only.
ApplyFieldLimits(tree) ==
    [p \in DOMAIN tree |->
        IF IsBounded(tree, p) THEN TruncateUTF8(tree[p], FieldLimit(p)) ELSE tree[p]]

\* The part of the contract that applyFieldLimits is for.
FieldsAreLimited(tree) ==
    \A p \in DOMAIN tree : IsBounded(tree, p) => tree[p].len <= FieldLimit(p) + 3

NormalizeProperties(tree, depth) == ApplyFieldLimits(SanitizeValue(tree, depth))

\* The paths of collectStrings; "name" stands for the place of the event's name,
\* which truncateLargestEventStrings lists under the path of a key "$event".
Cuttable(event) ==
    {p \in DOMAIN event.properties :
        IsString(event.properties[p]) /\ event.properties[p].len > ShortestCut}

Locations(event) ==
    {[path |-> p, len |-> event.properties[p].len, name |-> FALSE] : p \in Cuttable(event)}
    \cup IF event.name.len > ShortestCut
         THEN {[path |-> <<EventKey>>, len |-> event.name.len, name |-> TRUE]}
         ELSE {}

\* The order of paths of a same length that first differ in one place, and the
\* order in which locations are cut: the longest first; the sort is stable.
PathBefore(p, q) ==
    \/ \E i \in DOMAIN p \cap DOMAIN q : p[i] < q[i] /\ \A j \in 1..(i - 1) : p[j] = q[j]
    \/ IsBelow(q, p)

CutBefore(l, m) ==
    \/ l.len > m.len
    \/ l.len = m.len /\ PathBefore(l.path, m.path)
    \/ l.len = m.len /\ l.path = m.path /\ m.name /\ ~l.name

\* What is saved at location l: up to half of it, as long as the ones before have
\* left something to save.
Saving(l, all, excess) ==
    LET before    == {m \in all : CutBefore(m, l)}
        remaining == excess - SumFunction([m \in before |-> m.len \div 2])
        half      == l.len \div 2
        reduction == IF remaining \in 0..half THEN remaining
                     ELSE IF remaining > 0 THEN half ELSE 0
    IN  IF reduction >= SmallestSaving THEN reduction ELSE 0

\* One round of truncateLargestEventStrings.  A location <<EventKey>> is taken for
\* the name of the event, even when it is a property with that key.
CutRound(event) ==
    LET all    == Locations(event)
        excess == EventJSONSize(event) - MaxEventBytes + Slack
        saving == [l \in all |-> Saving(l, all, excess)]
        named  == {l \in all : l.path = <<EventKey>> /\ saving[l] > 0}
        shorter(p) ==
            LET l == [path |-> p, len |-> event.properties[p].len, name |-> FALSE]
            IN  IF l \in all /\ p # <<EventKey>> /\ saving[l] > 0
                THEN TruncateUTF8(event.properties[p], l.len - saving[l])
                ELSE event.properties[p]
        shortest == CHOOSE l \in named : \A m \in named : l.len - saving[l] <= m.len - saving[m]
    IN  [event EXCEPT
            !.properties = [p \in DOMAIN @ |-> shorter(p)],
            !.name = IF named = {} THEN @ ELSE TruncateUTF8(@, shortest.len - saving[shortest])]

\* truncateLargestEventStrings.  A round that changes nothing ends it in the code;
\* all further ones would change nothing.
TruncateLargestEventStrings(event) ==
    LET copy     == [event EXCEPT !.properties = SanitizeValue(@, MaxDepth)]
        round[i \in 0..Attempts] ==
            IF i = 0 THEN copy
            ELSE LET last == round[i - 1] IN IF Fits(last) THEN last ELSE CutRound(last)
    IN  round[Attempts]

\* Mutant: the largest strings are cut without reducing the depth to the limit.
TruncateDepthOnly(event) ==
    LET reduced(depth) == [event EXCEPT !.properties = NormalizeProperties(@, depth)]
        fitting == {depth \in 1..(MaxDepth - 1) : Fits(reduced(depth))}
    IN  IF Fits(event) THEN event
        ELSE IF fitting # {}
             THEN reduced(CHOOSE d \in fitting : \A e \in fitting : e <= d)
             ELSE reduced(1)

\* truncateEventToSize: the greatest depth that fits, or else the largest strings.
TruncateEventToSize(event) ==
    LET reduced(depth) == [event EXCEPT !.properties = NormalizeProperties(@, depth)]
        fitting == {depth \in 1..(MaxDepth - 1) : Fits(reduced(depth))}
    IN  IF Fits(event) THEN event
        ELSE IF fitting # {}
             THEN reduced(CHOOSE d \in fitting : \A e \in fitting : e <= d)
             ELSE TruncateLargestEventStrings(reduced(1))

SanitizeAndBoundEvent(event) ==
    TruncateEventToSize(
        [event EXCEPT
            !.name       = TruncateUTF8(SanitizeString(@), MaxStringBytes),
            !.distinctID = TruncateUTF8(SanitizeString(@), MaxStringBytes),
            !.properties = NormalizeProperties(@, MaxDepth),
            !.groups     = SanitizeValue(@, MaxDepth)])
-----------------------------------------------------------------------------
\* What no reduction can take from an event: its keys, its groups, its distinct id,
\* and of each string that can be cut the part that always stays.
Irreducible(event) ==
    LET flat == NormalizeProperties(NormalizeProperties(event.properties, MaxDepth), 1)
        name == TruncateUTF8(SanitizeString(event.name), ShortestCut)
        least(p) == IF IsString(flat[p]) THEN TruncateUTF8(flat[p], ShortestCut) ELSE flat[p]
    IN  EventJSONSize(
            [name       |-> name,
             distinctID |-> TruncateUTF8(SanitizeString(event.distinctID), MaxStringBytes),
             properties |-> [p \in DOMAIN flat |-> least(p)],
             groups     |-> SanitizeValue(event.groups, MaxDepth)])
=============================================================================
