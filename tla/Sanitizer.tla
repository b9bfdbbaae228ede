----------------------------- MODULE Sanitizer -----------------------------
(***************************************************************************)
(* privacy.go: what sanitizeValue makes of a value before anybody but the  *)
(* SDK sees it.                                                            *)
(*                                                                         *)
(* A value is a tree, given as a function from paths to leaves.  A path is *)
(* the sequence of keys and indices that leads to a place, the empty path, *)
(* the map that holds it all, being left out; a map or a slice is a leaf   *)
(* of its own kind with longer paths below it.  Where a Go value refers to *)
(* a map or a slice it is itself inside of, the tree has a "back" leaf.    *)
(* Of a text only what decides its fate is kept: its length in bytes, how  *)
(* many bytes of JSON one of its bytes takes, the bytes of PostHog tokens  *)
(* in it, whether it looks like encoded binary data, and what type of      *)
(* content it names.                                                       *)
(***************************************************************************)
EXTENDS Integers, Sequences, FiniteSets

CONSTANTS
    MaxDepth,         \* maxDepth
    MaxBreadth,       \* maxBreadth
    MaxStringBytes,   \* maxStringBytes
    Base64SizeGate    \* base64SizeGate

ShortestToken == 24     \* what posthogToken matches has at least these bytes
ShortestLimit == 100    \* all limits of strings are at least this

ASSUME SanitizerAssumption ==
    /\ MaxDepth \in Nat \ {0} /\ MaxBreadth \in Nat \ {0}
    /\ MaxStringBytes \in Nat /\ MaxStringBytes >= ShortestLimit
    /\ Base64SizeGate \in Nat /\ Base64SizeGate >= ShortestLimit

\* A key is its place in the order of Go's sort.Strings: the SDK's own keys start
\* with "$" and precede "...", letters follow.  Callers may use keys before the
\* SDK's, which are negative, and any number of keys from FirstOrdinaryKey on.
AnonKey          == 1     \* $anon_distinct_id
EventKey         == 2     \* $event, which no event of the SDK has
ExceptionKey     == 3     \* $exception_list
IntentKey        == 4     \* $mcp_intent
IsErrorKey       == 5     \* $mcp_is_error
ParametersKey    == 6     \* $mcp_parameters
SourceKey        == 7     \* $mcp_source
ToolKey          == 8     \* $mcp_tool_name
ProfileKey       == 9     \* $process_person_profile
SessionKey       == 10    \* $session_id
SetKey           == 11    \* $set
EllipsisKey      == 20    \* ...
BlobKey          == 25    \* blob
ContentKey       == 30    \* content
PasswordKey      == 40    \* password, one of those sensitiveKey matches
ResourceKey      == 45    \* resource
TextKey          == 50    \* text
TypeKey          == 60    \* type
ValueKey         == 70    \* value
FirstOrdinaryKey == 100

SensitiveKeys == {PasswordKey}

\* Texts the SDK leaves of error values are "message"s, those it makes up are "mark"s;
\* a "badnumber" is a json.Number that is no number.
\* As the type of a block of content, a text names "text" or a resource link, "media",
\* that is an image or audio, a "resource", or some "other" type.
Kinds == {"map", "slice", "text", "error", "message", "bytes", "scalar", "mark",
          "badnumber", "backmap", "backslice"}
Names == {"text", "media", "resource", "other"}

Leaves == [kind : Kinds, len : Nat, width : Nat \ {0}, secret : Nat, binary : BOOLEAN,
           names : Names]

Leaf(kind)    == [kind |-> kind, len |-> 0, width |-> 1, secret |-> 0,
                  binary |-> FALSE, names |-> "other"]
Text(len)     == [Leaf("text") EXCEPT !.len = len]
Mark(len)     == [Leaf("mark") EXCEPT !.len = len]
TextType      == [Text(4) EXCEPT !.names = "text"]

Redacted        == Mark(10)      \* [redacted]
BinaryRedaction == Mark(62)      \* [binary data redacted - ...]
Omission        == Mark(17)      \* [MaxProperties ~]
Circular        == Mark(12)      \* [Circular ~]

\* Kinds that hold other places, and kinds that are strings to truncation.
IsContainer(v) == v.kind \in {"map", "slice"}
IsString(v)    == v.kind \in {"text", "message", "mark"}

\* The bytes of a token are some of the text's; the types of content that have a name
\* of their own are shorter than any.
IsLeaf(v) ==
    /\ v \in Leaves
    /\ v.secret \in {0} \cup ShortestToken..v.len
    /\ v.names # "other" => v.len < ShortestToken

Parent(p)      == SubSeq(p, 1, Len(p) - 1)
IsBelow(p, q)  == Len(p) > Len(q) /\ \A i \in DOMAIN q : p[i] = q[i]
Children(tree, q) == {p \in DOMAIN tree : Len(p) = Len(q) + 1 /\ IsBelow(p, q)}
Containers(tree)  == {<<>>} \cup {q \in DOMAIN tree : IsContainer(tree[q])}
InMap(tree, p)    == Len(p) = 1 \/ tree[Parent(p)].kind = "map"
Only(tree, paths) == [p \in paths |-> tree[p]]

IsTree(tree) ==
    /\ IsFiniteSet(DOMAIN tree)
    /\ \A p \in DOMAIN tree :
          /\ p \in Seq(Int) \ {<<>>}
          /\ IsLeaf(tree[p])
          /\ Len(p) > 1 => Parent(p) \in DOMAIN tree /\ IsContainer(tree[Parent(p)])
-----------------------------------------------------------------------------
\* truncateUTF8, for a text that may be cut anywhere; the "..." it ends in then is
\* part of no encoding.
TruncateUTF8(v, max) ==
    IF v.len <= max THEN v
    ELSE [v EXCEPT !.len    = max + 3,
                   !.secret = IF @ <= max THEN @ ELSE max,
                   !.binary = FALSE]

\* sanitizeString.
SanitizeString(v) ==
    IF v.binary /\ v.len >= Base64SizeGate THEN BinaryRedaction
    ELSE IF v.secret > 0
         THEN [v EXCEPT !.len = @ - v.secret + Redacted.len, !.secret = 0]
         ELSE v

\* visit of anything without places of its own.
Normalized(v) ==
    CASE IsString(v) ->
            TruncateUTF8(SanitizeString([v EXCEPT !.kind = IF @ = "mark" THEN @ ELSE "text"]),
                         MaxStringBytes)
      [] v.kind = "error" -> TruncateUTF8([v EXCEPT !.kind = "message"], MaxStringBytes)
      [] v.kind = "bytes" -> BinaryRedaction
      [] OTHER -> v

\* What visitMap and visitSlice leave of a container at the limit of depth.
Cut(v) == IF v.kind \in {"map", "backmap"} THEN Mark(8) ELSE Mark(7)

\* The paths beyond the first MaxBreadth of their container.
Overflow(tree) ==
    UNION {{p \in Children(tree, q) :
               Cardinality({s \in Children(tree, q) : s[Len(s)] < p[Len(p)]}) >= MaxBreadth} :
              q \in {c \in Containers(tree) : Cardinality(Children(tree, c)) > MaxBreadth}}

\* The marker of what was left out, at the key "..." of a map, at the end of a slice.
OverflowMarks(tree, over) ==
    {Append(q, IF q = <<>> \/ tree[q].kind = "map" THEN EllipsisKey ELSE MaxBreadth + 1) :
        q \in {Parent(p) : p \in over}}

\* Mutant: only the keys of the event itself are looked at.
IsSecretAtTop(tree, p) == Len(p) = 1 /\ p[1] \in SensitiveKeys

\* The value at p is replaced because of its key.
IsSecret(tree, p) == InMap(tree, p) /\ p[Len(p)] \in SensitiveKeys

Secrets(tree) == {p \in DOMAIN tree : IsSecret(tree, p)}

\* The places that are left: nothing in what was left out or replaced, and no deeper.
Visible(tree, depth, over) ==
    LET marks  == OverflowMarks(tree, over)
        hidden == over \cup Secrets(tree) \cup marks
    IN  {p \in (DOMAIN tree \ over) \cup marks :
            Len(p) <= depth /\ \A q \in hidden : ~IsBelow(p, q)}

\* sanitizeValue, without what sanitizeResponseContent does.
Visit(tree, depth) ==
    LET over  == Overflow(tree)
        marks == OverflowMarks(tree, over)
    IN  [p \in Visible(tree, depth, over) |->
            IF p \in marks THEN Omission
            ELSE IF IsSecret(tree, p) THEN Redacted
            ELSE IF tree[p].kind \in {"map", "slice", "backmap", "backslice"} /\ Len(p) >= depth
                 THEN Cut(tree[p])
            ELSE IF tree[p].kind \in {"backmap", "backslice"} THEN Circular
            ELSE Normalized(tree[p])]

\* The blocks of content are the maps in a slice under the key "content" of any map
\* that have a type.
IsBlock(tree, b) ==
    /\ Len(b) > 1 /\ tree[b].kind = "map"
    /\ tree[Parent(b)].kind = "slice"
    /\ InMap(tree, Parent(b)) /\ b[Len(b) - 1] = ContentKey
    /\ Append(b, TypeKey) \in DOMAIN tree /\ IsString(tree[Append(b, TypeKey)])

TypeOf(tree, b) == tree[Append(b, TypeKey)]
HasBlob(tree, b) ==
    LET resource == Append(b, ResourceKey)
    IN  Append(resource, BlobKey) \in DOMAIN tree /\ tree[resource].kind = "map"

\* Those that sanitizeContentBlock replaces.
Unsupported(tree) ==
    {b \in DOMAIN tree :
        /\ IsBlock(tree, b)
        /\ \/ TypeOf(tree, b).names \in {"media", "other"}
           \/ TypeOf(tree, b).names = "resource" /\ HasBlob(tree, b)}

\* The text it leaves; that of an unknown type quotes it, of which %q escapes nothing.
Replacement(tree, b) ==
    LET type == TypeOf(tree, b)
    IN  CASE type.names = "media"    -> Mark(65)
          [] type.names = "resource" -> Mark(75)
          [] OTHER                   -> [Mark(79 + type.len) EXCEPT !.width = type.width]

\* sanitizeResponseContent, of all maps.
SanitizeResponseContent(tree) ==
    LET blocks   == Unsupported(tree)
        kept     == {p \in DOMAIN tree : \A b \in blocks : ~IsBelow(p, b)}
        replaced == blocks \cap kept
        types    == {Append(b, TypeKey) : b \in replaced}
        texts    == {Append(b, TextKey) : b \in replaced}
    IN  [p \in kept \cup types \cup texts |->
            IF p \in types THEN TextType
            ELSE IF p \in texts THEN Replacement(tree, Parent(p))
            ELSE IF p \in replaced THEN Leaf("map")
            ELSE tree[p]]

SanitizeValue(tree, depth) == SanitizeResponseContent(Visit(tree, depth))
-----------------------------------------------------------------------------
(* The contract of SPEC.md, section 8, as predicates of a tree.            *)

\* Nothing is left of a text that was to be redacted.  A binary one may be short.
IsClean(v) == v.secret = 0 /\ (v.binary => v.len < Base64SizeGate)

\* Nothing is left that was to be redacted: no token in a text, no encoded binary
\* that is large, no bytes, no binary block, no value of a sensitive key.  The text
\* of an error value is exempt, see Normalized.
IsPrivate(tree) ==
    /\ \A p \in DOMAIN tree :
          /\ tree[p].kind # "bytes"
          /\ tree[p].kind = "text" => IsClean(tree[p])
          /\ InMap(tree, p) /\ p[Len(p)] \in SensitiveKeys => tree[p] = Redacted
    /\ Unsupported(tree) = {}

\* The tree is within the limits, and is one: no reference leads back.  A cut string
\* ends in "...", and the text for a block of an unknown type quotes one.
IsLimited(tree) ==
    /\ \A p \in DOMAIN tree :
          /\ Len(p) <= MaxDepth
          /\ tree[p].kind \notin {"backmap", "backslice"}
          /\ IsString(tree[p]) =>
                tree[p].len <= MaxStringBytes + 3 + (IF tree[p].kind = "mark" THEN 79 ELSE 0)
    /\ \A q \in Containers(tree) : Cardinality(Children(tree, q)) <= MaxBreadth + 1
=============================================================================
