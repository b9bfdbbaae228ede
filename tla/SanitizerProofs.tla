-------------------------- MODULE SanitizerProofs --------------------------
(***************************************************************************)
(* Theorems about Sanitizer, for every tree and every limit.               *)
(***************************************************************************)
EXTENDS Sanitizer, SequenceTheorems, FiniteSetTheorems, TLAPS

-----------------------------------------------------------------------------
(***************************************************************************)
(* Paths.                                                                  *)
(***************************************************************************)
Paths   == Seq(Int) \ {<<>>}
Last(p) == p[Len(p)]

LEMMA PathParent ==
    ASSUME NEW p \in Paths
    PROVE  /\ Len(p) \in Nat \ {0} /\ DOMAIN p = 1..Len(p)
           /\ Parent(p) \in Seq(Int) /\ Len(Parent(p)) = Len(p) - 1
           /\ \A i \in 1..(Len(p) - 1) : Parent(p)[i] = p[i]
           /\ Len(p) > 1 => Parent(p) \in Paths
           /\ Len(p) = 1 => Parent(p) = <<>>
           /\ Last(p) \in Int
<1>1. Len(p) \in Nat \ {0} /\ DOMAIN p = 1..Len(p) /\ \A i \in 1..Len(p) : p[i] \in Int
  BY DEF Paths
<1> DEFINE n == Len(p) - 1
<1>2. n \in Nat /\ 1 \in Int /\ n \in Int /\ \A i \in 1..n : p[i] \in Int
  BY <1>1
<1> HIDE DEF n
<1>3. /\ Parent(p) \in Seq(Int)
      /\ Len(Parent(p)) = IF 1 <= n THEN n - 1 + 1 ELSE 0
      /\ \A i \in 1..(n - 1 + 1) : Parent(p)[i] = p[1 + i - 1]
  <2>1. Parent(p) = SubSeq(p, 1, n)
    BY DEF Parent, n
  <2> QED BY <1>2, <2>1, SubSeqProperties
<1>4. Len(Parent(p)) = n
  BY <1>2, <1>3
<1>5. ASSUME NEW i \in 1..n  PROVE Parent(p)[i] = p[i]
  <2>1. i \in 1..(n - 1 + 1) /\ 1 + i - 1 = i
    BY <1>2
  <2> QED BY <1>3, <2>1
<1>6. ASSUME Len(p) > 1  PROVE Parent(p) \in Paths
  <2>1. Len(Parent(p)) # 0
    BY <1>1, <1>4, <1>6 DEF n
  <2> QED BY <1>3, <2>1 DEF Paths
<1>7. ASSUME Len(p) = 1  PROVE Parent(p) = <<>>
  <2>1. Len(Parent(p)) = 0
    BY <1>4, <1>7 DEF n
  <2> QED BY <1>3, <2>1, EmptySeq
<1>8. Last(p) \in Int
  BY <1>1 DEF Last
<1> QED BY <1>1, <1>3, <1>4, <1>5, <1>6, <1>7, <1>8 DEF n

LEMMA PathAppend ==
    ASSUME NEW q \in Seq(Int), NEW k \in Int
    PROVE  /\ Append(q, k) \in Paths /\ Len(Append(q, k)) = Len(q) + 1 /\ Len(q) \in Nat
           /\ Parent(Append(q, k)) = q /\ Last(Append(q, k)) = k
           /\ \A i \in 1..Len(q) : Append(q, k)[i] = q[i]
<1> DEFINE p == Append(q, k)
<1>1. /\ p \in Paths /\ Len(p) = Len(q) + 1 /\ Len(q) \in Nat /\ Last(p) = k
      /\ \A i \in 1..Len(q) : p[i] = q[i]
  BY AppendProperties DEF Paths, Last
<1> HIDE DEF p
<1>2. /\ Parent(p) \in Seq(Int) /\ Len(Parent(p)) = Len(q)
      /\ \A i \in 1..Len(q) : Parent(p)[i] = q[i]
  <2>1. Len(p) - 1 = Len(q)
    BY <1>1
  <2> QED BY <1>1, <2>1, PathParent
<1>3. Parent(p) = q
  BY <1>2, SeqEqual
<1> QED BY <1>1, <1>3 DEF p

\* A path is its parent's, and one key more.
LEMMA PathSplit ==
    ASSUME NEW p \in Paths
    PROVE  p = Append(Parent(p), Last(p))
<1>1. Parent(p) \in Seq(Int) /\ Last(p) \in Int
  BY PathParent
<1> DEFINE s == Append(Parent(p), Last(p))
<1>2. /\ s \in Seq(Int) /\ Len(s) = Len(p)
      /\ s[Len(p)] = p[Len(p)] /\ \A i \in 1..(Len(p) - 1) : s[i] = p[i]
  BY <1>1, PathParent, PathAppend DEF Paths, Last
<1> HIDE DEF s
<1>3. Len(p) \in Nat \ {0} /\ p \in Seq(Int)
  BY PathParent DEF Paths
<1>4. \A i \in 1..Len(p) : s[i] = p[i]
  BY <1>2, <1>3
<1>5. s = p
  BY <1>2, <1>3, <1>4, SeqEqual
<1> QED BY <1>5 DEF s

\* What a path is below is its parent, or what that is below.
LEMMA PathBelow ==
    ASSUME NEW p \in Paths, NEW q \in Seq(Int)
    PROVE  /\ IsBelow(p, Parent(p))
           /\ IsBelow(p, q) <=> q = Parent(p) \/ IsBelow(Parent(p), q)
<1> DEFINE n == Len(p)
           m == Len(q)
<1>1. /\ n \in Nat \ {0} /\ Parent(p) \in Seq(Int) /\ Len(Parent(p)) = n - 1
      /\ DOMAIN Parent(p) = 1..(n - 1)
      /\ \A i \in 1..(n - 1) : Parent(p)[i] = p[i]
  BY PathParent, LenProperties
<1>2. m \in Nat /\ DOMAIN q = 1..m
  BY LenProperties
<1>3. IsBelow(p, Parent(p))
  BY <1>1 DEF IsBelow
<1>4. ASSUME IsBelow(Parent(p), q)  PROVE IsBelow(p, q)
  BY <1>1, <1>2, <1>4 DEF IsBelow
<1>5. ASSUME IsBelow(p, q), ~IsBelow(Parent(p), q)  PROVE q = Parent(p)
  <2>1. m < n /\ \A i \in 1..m : p[i] = q[i]
    BY <1>2, <1>5 DEF IsBelow
  <2>2. \A i \in 1..m : Parent(p)[i] = q[i]
    BY <1>1, <1>2, <2>1
  <2>3. m = n - 1
    BY <1>1, <1>2, <1>5, <2>1, <2>2 DEF IsBelow
  <2> QED BY <1>1, <2>2, <2>3, SeqEqual
<1> QED BY <1>3, <1>4, <1>5

\* Nothing of one key is below a path; and what is below is longer.
LEMMA PathTop ==
    ASSUME NEW p \in Paths, NEW q \in Paths, IsBelow(p, q)
    PROVE  Len(p) > Len(q) /\ Len(q) >= 1 /\ Len(p) > 1
BY PathParent DEF IsBelow

\* The children of a place are the paths whose parent it is.
LEMMA ChildrenByParent ==
    ASSUME NEW tree, DOMAIN tree \subseteq Paths, NEW q \in Seq(Int)
    PROVE  Children(tree, q) = {p \in DOMAIN tree : Parent(p) = q}
<1>1. ASSUME NEW p \in Paths
      PROVE  Len(p) = Len(q) + 1 /\ IsBelow(p, q) <=> Parent(p) = q
  <2>1. ASSUME Len(p) = Len(q) + 1, IsBelow(p, q)  PROVE Parent(p) = q
    <3>1. Len(Parent(p)) = Len(q) /\ Len(q) \in Nat
      BY <2>1, PathParent, LenProperties
    <3>2. ~IsBelow(Parent(p), q)
      BY <3>1 DEF IsBelow
    <3> QED BY <2>1, <3>2, PathBelow
  <2>2. ASSUME Parent(p) = q  PROVE Len(p) = Len(q) + 1 /\ IsBelow(p, q)
    BY <2>2, PathParent, PathBelow
  <2> QED BY <2>1, <2>2
<1> QED BY <1>1 DEF Children
-----------------------------------------------------------------------------
(***************************************************************************)
(* Leaves.                                                                 *)
(***************************************************************************)
\* What a sanitized tree is made of.
IsTidy(v) ==
    /\ IsLeaf(v)
    /\ v.kind \in {"map", "slice", "text", "message", "scalar", "badnumber", "mark"}
    /\ v.kind = "text" => IsClean(v)
    /\ IsString(v) => v.len <= MaxStringBytes + 3

LEMMA LeafFields ==
    ASSUME NEW v, IsLeaf(v)
    PROVE  /\ v \in Leaves /\ v.kind \in Kinds /\ v.len \in Nat /\ v.secret \in Nat
           /\ v.binary \in BOOLEAN /\ v.names \in Names /\ v.width \in Nat \ {0}
           /\ v.secret <= v.len
BY DEF IsLeaf, Leaves, ShortestToken

LEMMA LeafType ==
    ASSUME NEW kind \in Kinds
    PROVE  /\ IsLeaf(Leaf(kind))
           /\ Leaf(kind).kind = kind /\ Leaf(kind).len = 0 /\ Leaf(kind).secret = 0
           /\ Leaf(kind).names = "other" /\ ~Leaf(kind).binary
BY DEF Leaf, IsLeaf, Leaves, Names

LEMMA MarkType ==
    ASSUME NEW n \in Nat
    PROVE  /\ IsLeaf(Mark(n)) /\ Mark(n).kind = "mark" /\ Mark(n).len = n
           /\ IsClean(Mark(n)) /\ (n <= MaxStringBytes + 3 => IsTidy(Mark(n)))
<1>1. Mark(n) = [Leaf("mark") EXCEPT !.len = n] /\ Leaf("mark") \in Leaves
      /\ Leaf("mark").kind = "mark" /\ Leaf("mark").secret = 0 /\ Leaf("mark").names = "other"
      /\ ~Leaf("mark").binary
  BY LeafType DEF Mark, Kinds, IsLeaf
<1>2. \A w \in Leaves : LET x == [w EXCEPT !.len = n]
                        IN  /\ x \in Leaves /\ x.kind = w.kind /\ x.len = n
                            /\ x.secret = w.secret /\ x.names = w.names
                            /\ x.binary = w.binary
  BY DEF Leaves
<1>3. /\ Mark(n) \in Leaves /\ Mark(n).kind = "mark" /\ Mark(n).len = n
      /\ Mark(n).secret = 0 /\ Mark(n).names = "other" /\ ~Mark(n).binary
  BY <1>1, <1>2
<1> QED BY <1>3 DEF IsTidy, IsLeaf, IsClean

LEMMA TextTypeTidy ==
    IsTidy(TextType) /\ TextType.kind = "text" /\ TextType.names = "text" /\ TextType.len = 4
<1> DEFINE text == "text"
           four == 4
<1>1. TextType = [[Leaf("text") EXCEPT !.len = four] EXCEPT !.names = text]
      /\ Leaf("text") \in Leaves /\ Leaf("text").kind = "text" /\ Leaf("text").secret = 0
      /\ ~Leaf("text").binary /\ four \in Nat /\ text \in Names
  BY LeafType DEF TextType, Text, Kinds, IsLeaf, Names
<1>2. \A w \in Leaves : LET x == [[w EXCEPT !.len = four] EXCEPT !.names = text]
                        IN  /\ x \in Leaves /\ x.kind = w.kind /\ x.len = four
                            /\ x.secret = w.secret /\ x.names = text
                            /\ x.binary = w.binary
  <2> HIDE DEF four, text
  <2> QED BY <1>1 DEF Leaves
<1>3. /\ TextType \in Leaves /\ TextType.kind = "text" /\ TextType.len = four
      /\ TextType.secret = 0 /\ TextType.names = text /\ ~TextType.binary
  BY <1>1, <1>2
<1> QED BY <1>3, SanitizerAssumption DEF IsTidy, IsLeaf, IsClean, ShortestToken, ShortestLimit

\* truncateUTF8 leaves short texts alone and makes the others little longer than the
\* limit; nothing comes back that was redacted, and no name of a type is cut.
LEMMA Truncated ==
    ASSUME NEW v, IsLeaf(v), NEW max \in Nat, max >= ShortestToken
    PROVE  LET u == TruncateUTF8(v, max)
           IN  /\ IsLeaf(u) /\ u.kind = v.kind /\ u.names = v.names
               /\ u.len <= max + 3 /\ (v.len <= max => u = v)
               /\ IsClean(v) => IsClean(u)
<1> DEFINE u   == TruncateUTF8(v, max)
           cut == IF v.secret <= max THEN v.secret ELSE max
           len == max + 3
           no  == FALSE
<1>1. CASE v.len <= max
  <2>1. u = v
    BY <1>1 DEF TruncateUTF8
  <2> QED BY <1>1, <2>1, LeafFields
<1>2. CASE ~(v.len <= max)
  <2>1. u = [v EXCEPT !.len = max + 3, !.secret = cut, !.binary = FALSE]
    BY <1>2 DEF TruncateUTF8
  <2>2. v \in Leaves /\ v.len \in Nat /\ v.secret \in {0} \cup ShortestToken..v.len
    BY DEF IsLeaf, Leaves
  <2>3. /\ cut \in Nat /\ cut \in {0} \cup ShortestToken..(max + 3)
        /\ v.secret = 0 => cut = 0
    BY <2>2 DEF ShortestToken
  <2>4. \A w \in Leaves :
           LET x == [w EXCEPT !.len = max + 3, !.secret = cut, !.binary = FALSE]
           IN  /\ x \in Leaves /\ x.kind = w.kind /\ x.len = max + 3 /\ x.secret = cut
               /\ x.binary = FALSE /\ x.names = w.names
    <3>1. len \in Nat /\ no \in BOOLEAN
      OBVIOUS
    <3>2. \A w \in Leaves :
             LET x == [w EXCEPT !.len = len, !.secret = cut, !.binary = no]
             IN  /\ x \in Leaves /\ x.kind = w.kind /\ x.len = len /\ x.secret = cut
                 /\ x.binary = no /\ x.names = w.names
      <4> HIDE DEF cut, len, no
      <4> QED BY <2>3, <3>1 DEF Leaves
    <3> QED BY <3>2
  <2>5. /\ u \in Leaves /\ u.kind = v.kind /\ u.len = max + 3 /\ u.secret = cut
        /\ u.binary = FALSE /\ u.names = v.names
    BY <2>1, <2>2, <2>4
  <2> HIDE DEF u, cut
  <2>6. v.names = "other"
    <3>1. ~(v.len < ShortestToken)
      BY <1>2, <2>2 DEF ShortestToken
    <3> QED BY <3>1 DEF IsLeaf
  <2>7. IsLeaf(u)
    BY <2>3, <2>5, <2>6 DEF IsLeaf
  <2>8. IsClean(v) => IsClean(u)
    BY <2>3, <2>5 DEF IsClean
  <2> QED BY <1>2, <2>5, <2>7, <2>8 DEF u
<1> QED BY <1>1, <1>2

\* sanitizeString leaves nothing that was to be redacted, and no text longer than it
\* was or than what it puts in its place.
LEMMA Sanitized ==
    ASSUME NEW v, IsLeaf(v)
    PROVE  LET u == SanitizeString(v)
           IN  /\ IsLeaf(u) /\ IsClean(u)
               /\ u.kind \in {v.kind, "mark"}
               /\ u.len <= v.len \/ u.len = 62
<1> DEFINE u == SanitizeString(v)
           n == v.len - v.secret + 10
<1>1. v \in Leaves /\ v.len \in Nat /\ v.secret \in {0} \cup ShortestToken..v.len
  BY DEF IsLeaf, Leaves
<1>2. CASE v.binary /\ v.len >= Base64SizeGate
  <2>1. u = Mark(62)
    BY <1>2 DEF SanitizeString, BinaryRedaction
  <2> QED BY <2>1, MarkType
<1>3. CASE ~(v.binary /\ v.len >= Base64SizeGate) /\ v.secret > 0
  <2>1. Redacted.len = 10
    BY MarkType DEF Redacted
  <2>2. u = [v EXCEPT !.len = n, !.secret = 0]
    BY <1>3, <2>1 DEF SanitizeString
  <2>3. n \in Nat /\ n < v.len
    BY <1>1, <1>3 DEF ShortestToken
  <2>4. \A w \in Leaves :
           LET x == [w EXCEPT !.len = n, !.secret = 0]
           IN  /\ x \in Leaves /\ x.kind = w.kind /\ x.len = n /\ x.secret = 0
               /\ x.binary = w.binary /\ x.names = w.names
    <3> HIDE DEF n
    <3> QED BY <2>3 DEF Leaves
  <2>5. /\ u \in Leaves /\ u.kind = v.kind /\ u.len = n /\ u.secret = 0
        /\ u.binary = v.binary /\ u.names = v.names
    BY <1>1, <2>2, <2>4
  <2> HIDE DEF u, n
  <2>6. IsLeaf(u)
    BY <1>1, <2>3, <2>5 DEF IsLeaf, ShortestToken
  <2>7. IsClean(u)
    BY <1>1, <1>3, <2>3, <2>5, SanitizerAssumption DEF IsClean
  <2>8. u.len <= v.len
    BY <1>1, <2>3, <2>5
  <2> QED BY <2>5, <2>6, <2>7, <2>8 DEF u
<1>4. CASE ~(v.binary /\ v.len >= Base64SizeGate) /\ ~(v.secret > 0)
  <2>1. u = v
    BY <1>4 DEF SanitizeString
  <2>2. v.secret = 0
    BY <1>1, <1>4 DEF ShortestToken
  <2> QED BY <1>1, <1>4, <2>1, <2>2, SanitizerAssumption DEF IsClean
<1> QED BY <1>2, <1>3, <1>4

\* The leaves with another kind.
LEMMA LeafOfKind ==
    ASSUME NEW v, IsLeaf(v), NEW kind \in Kinds
    PROVE  LET u == [v EXCEPT !.kind = kind]
           IN  /\ IsLeaf(u) /\ u.kind = kind /\ u.len = v.len /\ u.secret = v.secret
               /\ u.binary = v.binary /\ u.names = v.names /\ (kind = v.kind => u = v)
<1> DEFINE u == [v EXCEPT !.kind = kind]
<1>1. \A w \in Leaves :
         LET x == [w EXCEPT !.kind = kind]
         IN  /\ x \in Leaves /\ x.kind = kind /\ x.len = w.len /\ x.secret = w.secret
             /\ x.binary = w.binary /\ x.names = w.names /\ (kind = w.kind => x = w)
  BY DEF Leaves
<1>2. v \in Leaves
  BY DEF IsLeaf
<1> QED BY <1>1, <1>2 DEF IsLeaf

\* visit, of what is no reference back: what it leaves is within the limits and clean,
\* a container is left alone, and no string gets longer than a mark.
LEMMA NormalizedTidy ==
    ASSUME NEW v, IsLeaf(v), v.kind \notin {"backmap", "backslice"}
    PROVE  LET u == Normalized(v)
           IN  /\ IsTidy(u)
               /\ IsContainer(u) <=> IsContainer(v)
               /\ IsContainer(v) => u = v
               /\ \A l \in ShortestLimit..(MaxStringBytes - 3) :
                     IsString(v) /\ v.len <= l + 3 => u.len <= l + 3
<1> DEFINE u == Normalized(v)
<1>0. /\ MaxStringBytes \in Nat /\ MaxStringBytes >= 100 /\ v.kind \in Kinds
      /\ MaxStringBytes >= ShortestToken /\ v.len \in Nat
  BY SanitizerAssumption, LeafFields DEF ShortestLimit, ShortestToken
<1>1. CASE IsString(v)
  <2> DEFINE kind  == IF v.kind = "mark" THEN v.kind ELSE "text"
             w     == [v EXCEPT !.kind = kind]
             clean == SanitizeString(w)
  <2>1. u = TruncateUTF8(clean, MaxStringBytes)
    BY <1>1, Zenon DEF Normalized, IsString
  <2>2. kind \in Kinds /\ kind \in {"text", "mark"}
    BY <1>0 DEF Kinds
  <2> HIDE DEF kind
  <2>3. IsLeaf(w) /\ w.kind = kind /\ w.len = v.len
    BY <2>2, LeafOfKind
  <2> HIDE DEF w
  <2>4. /\ IsLeaf(clean) /\ IsClean(clean) /\ clean.kind \in {"text", "mark"}
        /\ clean.len <= v.len \/ clean.len = 62
    BY <2>2, <2>3, Sanitized
  <2> HIDE DEF clean
  <2>5. /\ IsLeaf(u) /\ IsClean(u) /\ u.kind \in {"text", "mark"}
        /\ u.len <= MaxStringBytes + 3 /\ (clean.len <= MaxStringBytes => u = clean)
    BY <1>0, <2>1, <2>4, Truncated
  <2>6. IsTidy(u) /\ ~IsContainer(u) /\ ~IsContainer(v)
    BY <1>1, <2>5 DEF IsTidy, IsContainer, IsString
  <2>7. ASSUME NEW l \in ShortestLimit..(MaxStringBytes - 3), v.len <= l + 3
        PROVE  u.len <= l + 3
    <3>1. clean.len <= MaxStringBytes /\ clean.len <= l + 3
      BY <1>0, <2>4, <2>7, LeafFields DEF ShortestLimit
    <3> QED BY <2>5, <3>1
  <2> QED BY <2>6, <2>7
<1>2. CASE ~IsString(v) /\ v.kind = "error"
  <2> DEFINE kind == "message"
             w    == [v EXCEPT !.kind = kind]
  <2>1. u = TruncateUTF8(w, MaxStringBytes)
    BY <1>2 DEF Normalized
  <2>2. IsLeaf(w) /\ w.kind = "message"
    <3>1. kind \in Kinds /\ kind = "message"
      BY DEF Kinds
    <3> HIDE DEF kind
    <3> QED BY <3>1, LeafOfKind
  <2> HIDE DEF w
  <2>3. IsLeaf(u) /\ u.kind = "message" /\ u.len <= MaxStringBytes + 3
    BY <1>0, <2>1, <2>2, Truncated
  <2> QED BY <1>2, <2>3 DEF IsTidy, IsContainer
<1>3. CASE ~IsString(v) /\ v.kind = "bytes"
  <2>1. u = Mark(62)
    BY <1>3 DEF Normalized, BinaryRedaction
  <2>2. IsTidy(u) /\ u.kind = "mark"
    BY <1>0, <2>1, MarkType
  <2> QED BY <1>3, <2>2 DEF IsContainer
<1>4. CASE ~IsString(v) /\ v.kind \notin {"error", "bytes"}
  <2>1. u = v
    BY <1>4 DEF Normalized
  <2>2. v.kind \in {"map", "slice", "scalar", "badnumber"}
    BY <1>0, <1>4 DEF Kinds, IsString
  <2> QED BY <1>4, <2>1, <2>2 DEF IsTidy
<1> QED BY <1>1, <1>2, <1>3, <1>4
-----------------------------------------------------------------------------
(***************************************************************************)
(* The order of siblings.                                                  *)
(***************************************************************************)
\* Of things with different ranks, at most n have fewer than n of a lower rank.
LEMMA RankBound ==
    ASSUME NEW S, IsFiniteSet(S), NEW rank \in [S -> Int],
           \A x, y \in S : rank[x] = rank[y] => x = y,
           NEW n \in Nat
    PROVE  LET K == {x \in S : Cardinality({y \in S : rank[y] < rank[x]}) < n}
           IN  IsFiniteSet(K) /\ Cardinality(K) <= n
<1> DEFINE Lower(x) == {y \in S : rank[y] < rank[x]}
           K == {x \in S : Cardinality(Lower(x)) < n}
           f == [x \in K |-> Cardinality(Lower(x))]
<1>1. ASSUME NEW x \in S  PROVE IsFiniteSet(Lower(x)) /\ Cardinality(Lower(x)) \in Nat
  <2>1. Lower(x) \in SUBSET S
    OBVIOUS
  <2> HIDE DEF Lower
  <2> QED BY <2>1, FS_Subset, FS_CardinalityType
<1>2. ASSUME NEW x \in S, NEW y \in S, rank[x] < rank[y]
      PROVE  Cardinality(Lower(x)) < Cardinality(Lower(y))
  <2>1. Lower(x) \in SUBSET Lower(y) /\ x \in Lower(y) /\ x \notin Lower(x)
    BY <1>2
  <2>2. IsFiniteSet(Lower(y)) /\ Cardinality(Lower(y)) \in Nat /\ Cardinality(Lower(x)) \in Nat
    BY <1>1
  <2> HIDE DEF Lower
  <2>3. Cardinality(Lower(x)) <= Cardinality(Lower(y))
        /\ (Cardinality(Lower(y)) = Cardinality(Lower(x)) => Lower(y) = Lower(x))
    BY <2>1, <2>2, FS_Subset
  <2> QED BY <2>1, <2>2, <2>3
<1> HIDE DEF Lower
<1>3. f \in [K -> 0..(n - 1)]
  BY <1>1
<1>4. \A x, y \in K : f[x] = f[y] => x = y
  <2> SUFFICES ASSUME NEW x \in K, NEW y \in K, f[x] = f[y]  PROVE x = y
    OBVIOUS
  <2>1. ~(rank[x] < rank[y]) /\ ~(rank[y] < rank[x])
    BY <1>1, <1>2
  <2> QED BY <2>1
<1>5. f \in Injection(K, 0..(n - 1))
  BY <1>3, <1>4 DEF Injection, IsInjective
<1>6. IsFiniteSet(0..(n - 1)) /\ Cardinality(0..(n - 1)) = n
  <2>1. 0 \in Int /\ n - 1 \in Int
    OBVIOUS
  <2>2. Cardinality(0..(n - 1)) = IF 0 > n - 1 THEN 0 ELSE (n - 1) - 0 + 1
    BY <2>1, FS_Interval
  <2> QED BY <2>1, <2>2, FS_Interval
<1> HIDE DEF f, K
<1>7. IsFiniteSet(K) /\ Cardinality(K) <= n
  BY <1>5, <1>6, FS_Injection
<1> QED BY <1>7 DEF K, Lower
-----------------------------------------------------------------------------
(***************************************************************************)
(* Visit.                                                                  *)
(***************************************************************************)
LEMMA TreeFacts ==
    ASSUME NEW t, IsTree(t)
    PROVE  /\ IsFiniteSet(DOMAIN t) /\ DOMAIN t \subseteq Paths
           /\ \A p \in DOMAIN t :
                 /\ IsLeaf(t[p])
                 /\ Parent(p) \in Seq(Int) /\ Parent(p) \in Containers(t)
                 /\ Len(p) > 1 => Parent(p) \in DOMAIN t /\ IsContainer(t[Parent(p)])
           /\ Containers(t) \subseteq Seq(Int)
<1>1. /\ IsFiniteSet(DOMAIN t) /\ DOMAIN t \subseteq Paths
      /\ \A p \in DOMAIN t :
            /\ IsLeaf(t[p])
            /\ Len(p) > 1 => Parent(p) \in DOMAIN t /\ IsContainer(t[Parent(p)])
  BY DEF IsTree, Paths
<1>2. ASSUME NEW p \in DOMAIN t  PROVE Parent(p) \in Seq(Int) /\ Parent(p) \in Containers(t)
  <2>1. /\ Parent(p) \in Seq(Int) /\ Len(p) \in Nat \ {0}
        /\ Len(p) = 1 => Parent(p) = <<>>
    BY <1>1, PathParent
  <2>2. Len(p) = 1 \/ Len(p) > 1
    <3>1. \A n \in Nat \ {0} : n = 1 \/ n > 1
      OBVIOUS
    <3> QED BY <2>1, <3>1
  <2> QED BY <1>1, <2>1, <2>2 DEF Containers
<1>3. Containers(t) \subseteq Seq(Int)
  <2>1. <<>> \in Seq(Int)
    BY EmptySeq
  <2> QED BY <1>1, <2>1 DEF Containers, Paths
<1> QED BY <1>1, <1>2, <1>3

LEMMA OverflowFacts ==
    ASSUME NEW t, IsTree(t), NEW p
    PROVE  p \in Overflow(t) <=>
              /\ p \in DOMAIN t
              /\ Cardinality(Children(t, Parent(p))) > MaxBreadth
              /\ Cardinality({s \in Children(t, Parent(p)) : Last(s) < Last(p)}) >= MaxBreadth
<1>1. ASSUME p \in Overflow(t)
      PROVE  /\ p \in DOMAIN t
             /\ Cardinality(Children(t, Parent(p))) > MaxBreadth
             /\ Cardinality({s \in Children(t, Parent(p)) : Last(s) < Last(p)}) >= MaxBreadth
  <2>1. PICK c \in Containers(t) :
           /\ Cardinality(Children(t, c)) > MaxBreadth /\ p \in Children(t, c)
           /\ Cardinality({s \in Children(t, c) : Last(s) < Last(p)}) >= MaxBreadth
    BY <1>1 DEF Overflow, Last
  <2>2. p \in DOMAIN t /\ Parent(p) = c
    BY <2>1, TreeFacts, ChildrenByParent
  <2> QED BY <2>1, <2>2
<1>2. ASSUME p \in DOMAIN t,
             Cardinality(Children(t, Parent(p))) > MaxBreadth,
             Cardinality({s \in Children(t, Parent(p)) : Last(s) < Last(p)}) >= MaxBreadth
      PROVE  p \in Overflow(t)
  <2>1. Parent(p) \in Containers(t) /\ p \in Children(t, Parent(p))
    BY <1>2, TreeFacts, ChildrenByParent
  <2> QED BY <1>2, <2>1 DEF Overflow, Last
<1> QED BY <1>1, <1>2

\* The marker of an overflow is a sibling of what was left out.
LEMMA MarkFacts ==
    ASSUME NEW t, IsTree(t), NEW m \in OverflowMarks(t, Overflow(t))
    PROVE  \E p \in Overflow(t) :
              /\ m \in Paths /\ Parent(m) = Parent(p) /\ Len(m) = Len(p)
              /\ Last(m) = IF Parent(p) = <<>> \/ t[Parent(p)].kind = "map"
                          THEN EllipsisKey ELSE MaxBreadth + 1
<1>1. PICK p \in Overflow(t) :
         m = Append(Parent(p), IF Parent(p) = <<>> \/ t[Parent(p)].kind = "map"
                               THEN EllipsisKey ELSE MaxBreadth + 1)
  BY DEF OverflowMarks
<1>2. p \in Paths /\ Parent(p) \in Seq(Int)
  BY OverflowFacts, TreeFacts
<1> DEFINE k == IF Parent(p) = <<>> \/ t[Parent(p)].kind = "map"
                THEN EllipsisKey ELSE MaxBreadth + 1
<1>3. k \in Int /\ m = Append(Parent(p), k)
  BY <1>1, SanitizerAssumption DEF EllipsisKey
<1> HIDE DEF k
<1>4. m \in Paths /\ Parent(m) = Parent(p) /\ Len(m) = Len(Parent(p)) + 1 /\ Last(m) = k
  BY <1>2, <1>3, PathAppend
<1>5. Len(m) = Len(p)
  BY <1>2, <1>4, PathParent
<1> QED BY <1>4, <1>5 DEF k

LEMMA MarksFinite ==
    ASSUME NEW t, IsTree(t)
    PROVE  IsFiniteSet(OverflowMarks(t, Overflow(t)))
<1> DEFINE over  == Overflow(t)
           marks == OverflowMarks(t, over)
           f     == [p \in over |-> Append(Parent(p), IF Parent(p) = <<>> \/ t[Parent(p)].kind = "map"
                                                     THEN EllipsisKey ELSE MaxBreadth + 1)]
<1>1. IsFiniteSet(over)
  <2>1. over \in SUBSET DOMAIN t
    BY OverflowFacts
  <2> QED BY <2>1, TreeFacts, FS_Subset
<1>2. \A p \in over : f[p] \in marks
  BY DEF OverflowMarks
<1>3. \A m \in marks : \E p \in over : f[p] = m
  BY DEF OverflowMarks
<1> HIDE DEF over, marks
<1>4. f \in [over -> marks]
  BY <1>2
<1> HIDE DEF f
<1>5. f \in Surjection(over, marks)
  BY <1>3, <1>4 DEF Surjection
<1> QED BY <1>1, <1>5, FS_Surjection DEF marks, over

\* What is visible: finitely many places, each in a container that is visible, and that
\* is neither a marker nor replaced.
LEMMA VisibleFacts ==
    ASSUME NEW t, IsTree(t), NEW d \in Nat
    PROVE  LET over  == Overflow(t)
               marks == OverflowMarks(t, over)
               vis   == Visible(t, d, over)
           IN  /\ IsFiniteSet(vis) /\ vis \subseteq Paths
               /\ vis \subseteq (DOMAIN t \ over) \cup marks
               /\ \A p \in vis :
                     /\ Len(p) <= d
                     /\ Len(p) > 1 =>
                           /\ Parent(p) \in vis /\ Parent(p) \in DOMAIN t
                           /\ Parent(p) \notin marks /\ ~IsSecret(t, Parent(p))
                           /\ IsContainer(t[Parent(p)])
<1> DEFINE over   == Overflow(t)
           marks  == OverflowMarks(t, over)
           vis    == Visible(t, d, over)
           hidden == over \cup Secrets(t) \cup marks
<1>1. IsFiniteSet(vis) /\ vis \subseteq Paths
  <2>1. IsFiniteSet(DOMAIN t) /\ IsFiniteSet(marks)
    BY TreeFacts, MarksFinite
  <2>2. IsFiniteSet(DOMAIN t \cup marks)
    BY <2>1, FS_Union
  <2>3. vis \in SUBSET (DOMAIN t \cup marks)
    BY DEF Visible
  <2>4. DOMAIN t \cup marks \subseteq Paths
    BY TreeFacts, MarkFacts
  <2> QED BY <2>2, <2>3, <2>4, FS_Subset
<1>2. vis \subseteq (DOMAIN t \ over) \cup marks
  BY DEF Visible
<1>3. \A p \in vis : Len(p) <= d /\ \A q \in hidden : ~IsBelow(p, q)
  BY DEF Visible
<1>4. hidden \subseteq Seq(Int)
  BY TreeFacts, OverflowFacts, MarkFacts DEF Secrets, Paths
<1>5. ASSUME NEW p \in vis, Len(p) > 1
      PROVE  /\ Parent(p) \in vis /\ Parent(p) \in DOMAIN t
             /\ Parent(p) \notin marks /\ ~IsSecret(t, Parent(p))
             /\ IsContainer(t[Parent(p)])
  <2>1. p \in Paths /\ Len(Parent(p)) = Len(p) - 1 /\ Len(p) \in Nat /\ Parent(p) \in Paths
    BY <1>1, <1>5, PathParent
  <2>2. Parent(p) \in DOMAIN t /\ IsContainer(t[Parent(p)])
    <3>1. CASE p \in DOMAIN t
      BY <1>5, <3>1, TreeFacts
    <3>2. CASE p \in marks
      <4>1. PICK o \in over : Parent(p) = Parent(o) /\ Len(p) = Len(o)
        BY <3>2, MarkFacts
      <4>2. o \in DOMAIN t
        BY <4>1, OverflowFacts
      <4> QED BY <1>5, <4>1, <4>2, TreeFacts
    <3> QED BY <1>2, <3>1, <3>2
  <2>3. Parent(p) \notin hidden
    BY <1>3, <2>1, PathBelow DEF Paths
  <2>4. \A q \in hidden : ~IsBelow(Parent(p), q)
    BY <1>3, <1>4, <2>1, PathBelow
  <2>5. Len(Parent(p)) <= d
    BY <1>3, <2>1
  <2> QED BY <2>2, <2>3, <2>4, <2>5 DEF Visible, Secrets
<1> QED BY <1>1, <1>2, <1>3, <1>5

\* What Visit leaves at a place: a tidy leaf; a container only where there was one; and
\* the redaction under each sensitive key.
LEMMA VisitLeaf ==
    ASSUME NEW t, IsTree(t), NEW d \in Nat, NEW p \in DOMAIN Visit(t, d)
    PROVE  LET v     == Visit(t, d)
               marks == OverflowMarks(t, Overflow(t))
           IN  /\ IsTidy(v[p])
               /\ IsContainer(v[p]) => p \in DOMAIN t \ marks /\ v[p] = t[p]
               /\ p \notin marks /\ IsSecret(t, p) => v[p] = Redacted
               /\ \A l \in ShortestLimit..(MaxStringBytes - 3) :
                     (p \in DOMAIN t => t[p].kind # "error" /\ (IsString(t[p]) => t[p].len <= l + 3))
                     /\ IsString(v[p]) => v[p].len <= l + 3
<1> DEFINE over  == Overflow(t)
           marks == OverflowMarks(t, over)
           v     == Visit(t, d)
           small == {Mark(n) : n \in 0..65}
<1>1. /\ p \in Visible(t, d, over)
      /\ v[p] = IF p \in marks THEN Omission
                ELSE IF IsSecret(t, p) THEN Redacted
                ELSE IF t[p].kind \in {"map", "slice", "backmap", "backslice"} /\ Len(p) >= d
                     THEN Cut(t[p])
                ELSE IF t[p].kind \in {"backmap", "backslice"} THEN Circular
                ELSE Normalized(t[p])
  BY DEF Visit
<1>2. p \in marks \/ p \in DOMAIN t
  BY <1>1, VisibleFacts
<1>3. ASSUME NEW u \in small
      PROVE  /\ IsTidy(u) /\ ~IsContainer(u)
             /\ \A l \in ShortestLimit..(MaxStringBytes - 3) : u.len <= l + 3
  <2>1. PICK n \in 0..65 : u = Mark(n)
    OBVIOUS
  <2>2. n \in Nat /\ n <= MaxStringBytes + 3 /\ n <= ShortestLimit
    BY SanitizerAssumption DEF ShortestLimit
  <2>3. IsTidy(u) /\ u.kind = "mark" /\ u.len = n
    BY <2>1, <2>2, MarkType
  <2> QED BY <2>2, <2>3, SanitizerAssumption DEF IsContainer, ShortestLimit
<1>4. Omission \in small /\ Redacted \in small /\ Circular \in small
      /\ \A u : Cut(u) \in small
  BY DEF Omission, Redacted, Circular, Cut
<1>5. CASE p \in marks
  BY <1>1, <1>3, <1>4, <1>5
<1>6. CASE p \notin marks /\ (v[p] = Redacted \/ v[p] = Circular \/ v[p] = Cut(t[p]))
  <2>1. IsSecret(t, p) => v[p] = Redacted
    BY <1>1, <1>6
  <2> QED BY <1>3, <1>4, <1>6, <2>1
<1>7. CASE p \notin marks /\ ~(v[p] = Redacted \/ v[p] = Circular \/ v[p] = Cut(t[p]))
  <2>1. /\ v[p] = Normalized(t[p]) /\ ~IsSecret(t, p) /\ p \in DOMAIN t
        /\ t[p].kind \notin {"backmap", "backslice"}
    BY <1>1, <1>2, <1>7
  <2>2. IsLeaf(t[p])
    BY <2>1, TreeFacts
  <2>3. /\ IsTidy(v[p]) /\ (IsContainer(v[p]) <=> IsContainer(t[p]))
        /\ (IsContainer(t[p]) => v[p] = t[p])
        /\ \A l \in ShortestLimit..(MaxStringBytes - 3) :
              IsString(t[p]) /\ t[p].len <= l + 3 => v[p].len <= l + 3
    BY <2>1, <2>2, NormalizedTidy
  <2>4. IsString(v[p]) => IsString(t[p]) \/ t[p].kind = "error" \/ v[p] = Mark(62)
    BY <2>1 DEF Normalized, BinaryRedaction
  <2>5. Mark(62) \in small
    OBVIOUS
  <2> QED BY <1>3, <1>7, <2>1, <2>3, <2>4, <2>5
<1> QED BY <1>5, <1>6, <1>7

\* Visit leaves a tree.
LEMMA VisitTree ==
    ASSUME NEW t, IsTree(t), NEW d \in Nat
    PROVE  LET v == Visit(t, d)
           IN  /\ IsTree(v)
               /\ DOMAIN v \subseteq DOMAIN t \cup OverflowMarks(t, Overflow(t))
               /\ \A p \in DOMAIN v :
                     /\ Len(p) <= d
                     /\ Len(p) > 1 => Parent(p) \in DOMAIN t /\ v[Parent(p)] = t[Parent(p)]
<1> DEFINE over  == Overflow(t)
           marks == OverflowMarks(t, over)
           v     == Visit(t, d)
<1>1. DOMAIN v = Visible(t, d, over)
  BY DEF Visit
<1>2. /\ IsFiniteSet(DOMAIN v) /\ DOMAIN v \subseteq Paths
      /\ DOMAIN v \subseteq DOMAIN t \cup marks
      /\ \A p \in DOMAIN v : Len(p) <= d
  BY <1>1, VisibleFacts
<1>3. ASSUME NEW p \in DOMAIN v, Len(p) > 1
      PROVE  /\ Parent(p) \in DOMAIN v /\ Parent(p) \in DOMAIN t
             /\ v[Parent(p)] = t[Parent(p)] /\ IsContainer(v[Parent(p)])
  <2> DEFINE q == Parent(p)
  <2>1. /\ q \in DOMAIN v /\ q \in DOMAIN t /\ q \notin marks /\ ~IsSecret(t, q)
        /\ IsContainer(t[q])
    BY <1>1, <1>3, VisibleFacts
  <2>2. Len(q) < d
    <3>1. Len(q) = Len(p) - 1 /\ Len(p) \in Nat
      BY <1>2, PathParent
    <3> QED BY <1>2, <3>1
  <2>3. v[q] = Normalized(t[q])
    <3>1. ~(Len(q) >= d) /\ t[q].kind \notin {"backmap", "backslice"}
      <4>1. Len(q) \in Nat
        BY <1>2, <2>1, PathParent
      <4> QED BY <2>1, <2>2, <4>1 DEF IsContainer
    <3> QED BY <1>1, <2>1, <3>1 DEF Visit
  <2>4. Normalized(t[q]) = t[q]
    <3>1. IsLeaf(t[q]) /\ t[q].kind \notin {"backmap", "backslice"}
      BY <2>1, TreeFacts DEF IsContainer
    <3> QED BY <2>1, <3>1, NormalizedTidy
  <2> QED BY <2>1, <2>3, <2>4
<1>4. \A p \in DOMAIN v : IsLeaf(v[p])
  BY VisitLeaf DEF IsTidy
<1> QED BY <1>2, <1>3, <1>4 DEF IsTree, Paths

\* Of the children of a place at most MaxBreadth are no overflow.
LEMMA KeptChildren ==
    ASSUME NEW t, IsTree(t), NEW q \in Seq(Int)
    PROVE  LET K == Children(t, q) \ Overflow(t)
           IN  IsFiniteSet(K) /\ Cardinality(K) <= MaxBreadth
<1> DEFINE S    == Children(t, q)
           K    == S \ Overflow(t)
           rank == [p \in S |-> Last(p)]
           Few  == {x \in S : Cardinality({y \in S : rank[y] < rank[x]}) < MaxBreadth}
<1>1. S \subseteq DOMAIN t /\ \A p \in S : p \in Paths /\ Parent(p) = q
  BY TreeFacts, ChildrenByParent
<1>2. IsFiniteSet(S) /\ Cardinality(S) \in Nat
  <2>1. S \in SUBSET DOMAIN t /\ IsFiniteSet(DOMAIN t)
    BY <1>1, TreeFacts
  <2> QED BY <2>1, FS_Subset, FS_CardinalityType
<1>3. MaxBreadth \in Nat
  BY SanitizerAssumption
<1>4. CASE Cardinality(S) <= MaxBreadth
  <2>1. K \in SUBSET S
    OBVIOUS
  <2>2. IsFiniteSet(K) /\ Cardinality(K) <= Cardinality(S) /\ Cardinality(K) \in Nat
    BY <1>2, <2>1, FS_Subset, FS_CardinalityType
  <2> QED BY <1>2, <1>3, <1>4, <2>2
<1>5. CASE ~(Cardinality(S) <= MaxBreadth)
  <2>1. rank \in [S -> Int]
    BY <1>1, PathParent
  <2>2. ASSUME NEW x \in S, NEW y \in S, rank[x] = rank[y]  PROVE x = y
    <3>1. x = Append(q, Last(x)) /\ y = Append(q, Last(y))
      BY <1>1, PathSplit
    <3> QED BY <2>2, <3>1
  <2>3. IsFiniteSet(Few) /\ Cardinality(Few) <= MaxBreadth
    <3> HIDE DEF rank, S
    <3> QED BY <1>2, <1>3, <2>1, <2>2, RankBound
  <2>4. K \subseteq Few
    <3> SUFFICES ASSUME NEW x \in K  PROVE x \in Few
      OBVIOUS
    <3>1. Parent(x) = q /\ x \in DOMAIN t
      BY <1>1
    <3>2. ~(Cardinality({y \in S : Last(y) < Last(x)}) >= MaxBreadth)
      BY <1>2, <1>3, <1>5, <3>1, OverflowFacts
    <3>3. {y \in S : Last(y) < Last(x)} = {y \in S : rank[y] < rank[x]}
      OBVIOUS
    <3>4. Cardinality({y \in S : rank[y] < rank[x]}) \in Nat
      <4>1. {y \in S : rank[y] < rank[x]} \in SUBSET S
        OBVIOUS
      <4> HIDE DEF S, rank
      <4> QED BY <1>2, <4>1, FS_Subset, FS_CardinalityType
    <3>5. \A n \in Nat : ~(n >= MaxBreadth) => n < MaxBreadth
      BY <1>3
    <3>6. Cardinality({y \in S : rank[y] < rank[x]}) < MaxBreadth
      <4> HIDE DEF S, rank
      <4> QED BY <3>2, <3>3, <3>4, <3>5
    <3>7. x \in S
      OBVIOUS
    <3> HIDE DEF S, rank
    <3> QED BY <3>6, <3>7
  <2> HIDE DEF Few, K
  <2>5. K \in SUBSET Few
    BY <2>4
  <2>6. IsFiniteSet(K) /\ Cardinality(K) <= Cardinality(Few) /\ Cardinality(K) \in Nat
        /\ Cardinality(Few) \in Nat
    BY <2>3, <2>5, FS_Subset, FS_CardinalityType
  <2> QED BY <1>3, <2>3, <2>6 DEF K
<1> QED BY <1>4, <1>5

\* Visit keeps at most MaxBreadth children of a place, and the marker.
LEMMA VisitBreadth ==
    ASSUME NEW t, IsTree(t), NEW d \in Nat, NEW q \in Seq(Int)
    PROVE  /\ IsFiniteSet(Children(Visit(t, d), q))
           /\ Cardinality(Children(Visit(t, d), q)) <= MaxBreadth + 1
<1> DEFINE over  == Overflow(t)
           marks == OverflowMarks(t, over)
           v     == Visit(t, d)
           K     == Children(t, q) \ over
           m     == Append(q, IF q = <<>> \/ t[q].kind = "map" THEN EllipsisKey ELSE MaxBreadth + 1)
<1>1. Children(v, q) \subseteq K \cup {m}
  <2> SUFFICES ASSUME NEW p \in Children(v, q)  PROVE p \in K \cup {m}
    OBVIOUS
  <2>1. p \in DOMAIN v /\ p \in Paths /\ Parent(p) = q
    <3>1. IsTree(v)
      BY VisitTree
    <3> QED BY <3>1, TreeFacts, ChildrenByParent
  <2>2. p \in (DOMAIN t \ over) \cup marks
    BY <2>1, VisibleFacts DEF Visit
  <2>3. CASE p \in DOMAIN t \ over
    BY <2>1, <2>3, TreeFacts, ChildrenByParent
  <2>4. CASE p \in marks
    BY <2>1, <2>4, PathSplit, MarkFacts
  <2> QED BY <2>2, <2>3, <2>4
<1>2. IsFiniteSet(K) /\ Cardinality(K) <= MaxBreadth
  BY KeptChildren
<1> DEFINE C == Children(v, q)
<1> HIDE DEF K, m, C
<1>3. IsFiniteSet(K \cup {m}) /\ Cardinality(K \cup {m}) <= Cardinality(K) + 1
      /\ Cardinality(K) \in Nat /\ Cardinality(K \cup {m}) \in Nat
  <2>1. /\ IsFiniteSet(K \cup {m})
        /\ Cardinality(K \cup {m}) = IF m \in K THEN Cardinality(K) ELSE Cardinality(K) + 1
    BY <1>2, FS_AddElement
  <2>2. Cardinality(K) \in Nat /\ Cardinality(K \cup {m}) \in Nat
    BY <1>2, <2>1, FS_CardinalityType
  <2> QED BY <2>1, <2>2
<1>4. C \in SUBSET (K \cup {m})
  BY <1>1 DEF C
<1>5. IsFiniteSet(C) /\ Cardinality(C) <= Cardinality(K \cup {m}) /\ Cardinality(C) \in Nat
  BY <1>3, <1>4, FS_Subset, FS_CardinalityType
<1>6. MaxBreadth \in Nat
  BY SanitizerAssumption
<1> QED BY <1>2, <1>3, <1>5, <1>6 DEF C

\* Under a sensitive key, Visit leaves the redaction only.
LEMMA VisitSecrets ==
    ASSUME NEW t, IsTree(t), NEW d \in Nat, NEW p \in DOMAIN Visit(t, d),
           InMap(Visit(t, d), p), Last(p) \in SensitiveKeys
    PROVE  Visit(t, d)[p] = Redacted
<1> DEFINE v     == Visit(t, d)
           marks == OverflowMarks(t, Overflow(t))
<1>1. p \in Paths /\ Len(p) \in Nat \ {0}
  BY VisitTree, TreeFacts, PathParent
<1>2. /\ Len(p) = 1 => Parent(p) = <<>>
      /\ Len(p) # 1 => Parent(p) \in DOMAIN t /\ v[Parent(p)] = t[Parent(p)]
  <2>1. Len(p) = 1 \/ Len(p) > 1
    <3>1. \A n \in Nat \ {0} : n = 1 \/ n > 1
      OBVIOUS
    <3> QED BY <1>1, <3>1
  <2> QED BY <1>1, <2>1, VisitTree, PathParent
<1>3. InMap(t, p)
  BY <1>2 DEF InMap
<1>4. p \notin marks
  <2> SUFFICES ASSUME p \in marks  PROVE FALSE
    OBVIOUS
  <2>1. PICK o \in Overflow(t) :
           /\ Parent(p) = Parent(o)
           /\ Last(p) = IF Parent(o) = <<>> \/ t[Parent(o)].kind = "map"
                       THEN EllipsisKey ELSE MaxBreadth + 1
    BY MarkFacts
  <2>2. Last(p) = EllipsisKey
    BY <1>2, <1>3, <2>1 DEF InMap
  <2> QED BY <2>2 DEF EllipsisKey, SensitiveKeys, PasswordKey
<1>5. IsSecret(t, p)
  BY <1>3 DEF IsSecret, Last
<1> QED BY <1>4, <1>5, VisitLeaf

\* Visit leaves no longer paths than there were.
LEMMA VisitDepth ==
    ASSUME NEW t, IsTree(t), NEW d \in Nat, NEW m \in Nat, \A p \in DOMAIN t : Len(p) <= m
    PROVE  \A p \in DOMAIN Visit(t, d) : Len(p) <= m
<1>1. ASSUME NEW p \in OverflowMarks(t, Overflow(t))  PROVE Len(p) <= m
  BY MarkFacts, OverflowFacts
<1> QED BY <1>1, VisitTree
-----------------------------------------------------------------------------
(***************************************************************************)
(* SanitizeResponseContent.                                                *)
(***************************************************************************)
\* What Visit leaves, and what sanitizing leaves.
IsTidyTree(t) ==
    /\ IsTree(t)
    /\ \A p \in DOMAIN t : IsTidy(t[p])
    /\ \A p \in DOMAIN t : InMap(t, p) /\ Last(p) \in SensitiveKeys => t[p] = Redacted
    /\ \A q \in Seq(Int) : /\ IsFiniteSet(Children(t, q))
                          /\ Cardinality(Children(t, q)) <= MaxBreadth + 1

LEMMA VisitTidy ==
    ASSUME NEW t, IsTree(t), NEW d \in Nat
    PROVE  IsTidyTree(Visit(t, d))
BY VisitTree, VisitLeaf, VisitBreadth, VisitSecrets DEF IsTidyTree

\* The places of the replaced blocks, and of what they become.
Kept(t)     == {p \in DOMAIN t : \A b \in Unsupported(t) : ~IsBelow(p, b)}
Replaced(t) == Unsupported(t) \cap Kept(t)
Types(t)    == {Append(b, TypeKey) : b \in Replaced(t)}
Texts(t)    == {Append(b, TextKey) : b \in Replaced(t)}

LEMMA ContentDomain ==
    ASSUME NEW t
    PROVE  LET s == SanitizeResponseContent(t)
           IN  /\ DOMAIN s = Kept(t) \cup Types(t) \cup Texts(t)
               /\ \A p \in DOMAIN s :
                     s[p] = IF p \in Types(t) THEN TextType
                            ELSE IF p \in Texts(t) THEN Replacement(t, Parent(p))
                            ELSE IF p \in Replaced(t) THEN Leaf("map")
                            ELSE t[p]
BY DEF SanitizeResponseContent, Kept, Replaced, Types, Texts

\* A block is a map with a type, in a slice.
LEMMA BlockFacts ==
    ASSUME NEW t, IsTree(t), NEW b \in Unsupported(t)
    PROVE  /\ b \in DOMAIN t /\ b \in Paths /\ Len(b) > 1 /\ t[b].kind = "map"
           /\ Append(b, TypeKey) \in DOMAIN t /\ IsString(TypeOf(t, b))
           /\ TypeOf(t, b).names \in {"media", "other", "resource"}
BY TreeFacts DEF Unsupported, IsBlock, TypeOf

\* The type and the text of a replaced block are its only children.
LEMMA NewPlaces ==
    ASSUME NEW t, IsTree(t), NEW p \in Types(t) \cup Texts(t)
    PROVE  /\ p \in Paths /\ Parent(p) \in Replaced(t) /\ p \notin Kept(t)
           /\ p \in Types(t) <=> Last(p) = TypeKey
           /\ p \in Texts(t) <=> Last(p) = TextKey
           /\ Len(p) = Len(Append(Parent(p), TypeKey)) /\ Len(p) > 2
<1>1. PICK b \in Replaced(t), k \in {TypeKey, TextKey} : p = Append(b, k)
  BY DEF Types, Texts
<1>2. b \in Unsupported(t) /\ b \in Paths /\ b \in Seq(Int) /\ Len(b) > 1
  BY <1>1, BlockFacts DEF Replaced, Paths
<1>3. TypeKey \in Int /\ TextKey \in Int /\ TypeKey # TextKey
  BY DEF TypeKey, TextKey
<1>4. p \in Paths /\ Parent(p) = b /\ Last(p) = k /\ Len(p) = Len(b) + 1 /\ Len(b) \in Nat
  BY <1>1, <1>2, <1>3, PathAppend
<1>5. Len(Append(b, TypeKey)) = Len(b) + 1
  BY <1>2, <1>3, PathAppend
<1>6. IsBelow(p, b)
  BY <1>2, <1>4, PathBelow
<1>7. p \notin Kept(t)
  BY <1>2, <1>6 DEF Kept
<1>8. ASSUME NEW key \in {TypeKey, TextKey}, NEW c \in Replaced(t), p = Append(c, key)
      PROVE  key = k
  <2>1. c \in Seq(Int)
    BY BlockFacts DEF Replaced, Paths
  <2> QED BY <1>3, <1>4, <1>8, <2>1, PathAppend
<1>9. /\ p \in Types(t) <=> k = TypeKey
      /\ p \in Texts(t) <=> k = TextKey
  BY <1>1, <1>8 DEF Types, Texts
<1> QED BY <1>1, <1>2, <1>4, <1>5, <1>7, <1>9

\* What is kept is in places that are kept and that are no replaced block.
LEMMA KeptFacts ==
    ASSUME NEW t, IsTree(t), NEW p \in Kept(t)
    PROVE  /\ p \in DOMAIN t /\ p \in Paths /\ p \notin Types(t) /\ p \notin Texts(t)
           /\ p \notin Replaced(t) => SanitizeResponseContent(t)[p] = t[p]
           /\ Len(p) > 1 =>
                 /\ Parent(p) \in Kept(t) /\ Parent(p) \in DOMAIN t
                 /\ Parent(p) \notin Unsupported(t) /\ Parent(p) \notin Replaced(t)
                 /\ SanitizeResponseContent(t)[Parent(p)] = t[Parent(p)]
                 /\ IsContainer(t[Parent(p)])
<1>1. \A q \in Kept(t) :
         /\ q \in DOMAIN t /\ q \in Paths /\ q \notin Types(t) /\ q \notin Texts(t)
         /\ q \notin Replaced(t) => SanitizeResponseContent(t)[q] = t[q]
  BY NewPlaces, ContentDomain, TreeFacts DEF Kept
<1>2. ASSUME Len(p) > 1
      PROVE  /\ Parent(p) \in Kept(t) /\ Parent(p) \in DOMAIN t
             /\ Parent(p) \notin Unsupported(t) /\ IsContainer(t[Parent(p)])
  <2>1. p \in Paths /\ Parent(p) \in DOMAIN t /\ IsContainer(t[Parent(p)])
    BY <1>1, <1>2, TreeFacts
  <2>2. \A b \in Unsupported(t) : b \in Seq(Int) /\ ~IsBelow(p, b)
    BY BlockFacts DEF Kept, Paths
  <2>3. \A b \in Unsupported(t) : b # Parent(p) /\ ~IsBelow(Parent(p), b)
    BY <2>1, <2>2, PathBelow
  <2> QED BY <2>1, <2>3 DEF Kept
<1> QED BY <1>1, <1>2 DEF Replaced

LEMMA ReplacementType ==
    ASSUME NEW t, IsTidyTree(t), NEW b \in Unsupported(t)
    PROVE  LET u == Replacement(t, b)
           IN  /\ IsLeaf(u) /\ u.kind = "mark" /\ u.len <= MaxStringBytes + 3 + 79
<1> DEFINE type == TypeOf(t, b)
           u    == Replacement(t, b)
<1>1. IsTidy(type) /\ IsString(type)
  BY BlockFacts DEF IsTidyTree, TypeOf
<1>2. type.len \in Nat /\ type.width \in Nat \ {0} /\ type.len <= MaxStringBytes + 3
  BY <1>1, LeafFields DEF IsTidy
<1>3. MaxStringBytes \in Nat /\ MaxStringBytes >= 100
  BY SanitizerAssumption DEF ShortestLimit
<1> HIDE DEF type
<1>4. u \in {Mark(65), Mark(75), [Mark(79 + type.len) EXCEPT !.width = type.width]}
  BY DEF Replacement, type
<1>5. CASE u \in {Mark(65), Mark(75)}
  BY <1>3, <1>5, MarkType
<1>6. CASE u = [Mark(79 + type.len) EXCEPT !.width = type.width]
  <2> DEFINE m == Mark(79 + type.len)
             w == type.width
  <2>1. IsLeaf(m) /\ m.kind = "mark" /\ m.len = 79 + type.len
    <3>1. 79 + type.len \in Nat
      BY <1>2
    <3> QED BY <3>1, MarkType
  <2>2. \A x \in Leaves : LET y == [x EXCEPT !.width = w]
                          IN  /\ y \in Leaves /\ y.kind = x.kind /\ y.len = x.len
                              /\ y.secret = x.secret /\ y.names = x.names
    <3>1. w \in Nat \ {0}
      BY <1>2
    <3> HIDE DEF w
    <3> QED BY <3>1 DEF Leaves
  <2> HIDE DEF m, w
  <2>3. m \in Leaves /\ u = [m EXCEPT !.width = w]
    BY <1>6, <2>1 DEF m, w, IsLeaf
  <2>4. /\ u \in Leaves /\ u.kind = m.kind /\ u.len = m.len /\ u.secret = m.secret
        /\ u.names = m.names
    BY <2>2, <2>3
  <2>5. IsLeaf(u)
    BY <2>1, <2>4 DEF IsLeaf
  <2> QED BY <1>2, <1>3, <2>1, <2>4, <2>5
<1> QED BY <1>4, <1>5, <1>6

\* A sanitized leaf: a tidy one, or the text for a block.
IsSane(v) ==
    /\ IsLeaf(v)
    /\ v.kind \in {"map", "slice", "text", "message", "scalar", "badnumber", "mark"}
    /\ v.kind = "text" => IsClean(v)
    /\ IsString(v) =>
          v.len <= MaxStringBytes + 3 + (IF v.kind = "mark" THEN 79 ELSE 0)

LEMMA ContentLeaf ==
    ASSUME NEW t, IsTidyTree(t), NEW p \in DOMAIN SanitizeResponseContent(t)
    PROVE  LET s == SanitizeResponseContent(t)
           IN  /\ IsSane(s[p])
               /\ p \in Types(t) => s[p] = TextType
               /\ p \in Texts(t) \ Types(t) => s[p].kind = "mark"
               /\ p \in Replaced(t) => s[p] = Leaf("map")
               /\ p \notin Kept(t) => p \in Types(t) \cup Texts(t)
<1> DEFINE s == SanitizeResponseContent(t)
<1>1. /\ p \in Kept(t) \cup Types(t) \cup Texts(t)
      /\ s[p] = IF p \in Types(t) THEN TextType
                ELSE IF p \in Texts(t) THEN Replacement(t, Parent(p))
                ELSE IF p \in Replaced(t) THEN Leaf("map")
                ELSE t[p]
  BY ContentDomain
<1>2. IsTree(t)
  BY DEF IsTidyTree
<1>3. MaxStringBytes \in Nat
  BY SanitizerAssumption
<1>4. ASSUME NEW v, IsTidy(v)  PROVE IsSane(v)
  <2>1. v.len \in Nat
    BY <1>4, LeafFields DEF IsTidy
  <2> QED BY <1>3, <1>4, <2>1 DEF IsTidy, IsSane
<1>5. CASE p \in Types(t)
  <2>1. p \notin Kept(t)
    BY <1>2, <1>5, NewPlaces
  <2> QED BY <1>1, <1>4, <1>5, <2>1, TextTypeTidy DEF Replaced
<1>6. CASE p \in Texts(t) \ Types(t)
  <2>1. p \notin Kept(t) /\ Parent(p) \in Unsupported(t)
    BY <1>2, <1>6, NewPlaces DEF Replaced
  <2>2. IsLeaf(s[p]) /\ s[p].kind = "mark" /\ s[p].len <= MaxStringBytes + 3 + 79
    BY <1>1, <1>6, <2>1, ReplacementType
  <2> QED BY <1>6, <2>1, <2>2 DEF IsSane, Replaced
<1>7. CASE p \notin Types(t) /\ p \notin Texts(t) /\ p \in Replaced(t)
  <2>1. s[p] = Leaf("map")
    BY <1>1, <1>7
  <2>2. IsLeaf(Leaf("map")) /\ Leaf("map").kind = "map"
    BY LeafType DEF Kinds
  <2> QED BY <1>1, <1>7, <2>1, <2>2 DEF IsSane, IsString
<1>8. CASE p \notin Types(t) /\ p \notin Texts(t) /\ p \notin Replaced(t)
  <2>1. p \in DOMAIN t /\ s[p] = t[p]
    BY <1>1, <1>8 DEF Kept
  <2> QED BY <1>1, <1>4, <1>8, <2>1 DEF IsTidyTree
<1> QED BY <1>5, <1>6, <1>7, <1>8

LEMMA NewPlacesFinite ==
    ASSUME NEW t, IsTree(t)
    PROVE  IsFiniteSet(Types(t)) /\ IsFiniteSet(Texts(t))
<1>1. IsFiniteSet(Replaced(t))
  <2>1. Replaced(t) \in SUBSET DOMAIN t
    BY DEF Replaced, Kept
  <2> QED BY <2>1, TreeFacts, FS_Subset
<1> DEFINE f == [b \in Replaced(t) |-> Append(b, TypeKey)]
           g == [b \in Replaced(t) |-> Append(b, TextKey)]
<1>2. f \in Surjection(Replaced(t), Types(t))
  BY DEF Surjection, Types
<1>3. g \in Surjection(Replaced(t), Texts(t))
  BY DEF Surjection, Texts
<1> HIDE DEF f, g
<1> QED BY <1>1, <1>2, <1>3, FS_Surjection

\* Replacing blocks leaves a tree.
LEMMA ContentTree ==
    ASSUME NEW t, IsTidyTree(t)
    PROVE  LET s == SanitizeResponseContent(t)
           IN  /\ IsTree(s)
               /\ \A m \in Nat : (\A p \in DOMAIN t : Len(p) <= m) => (\A p \in DOMAIN s : Len(p) <= m)
<1> DEFINE s == SanitizeResponseContent(t)
<1>1. IsTree(t) /\ DOMAIN s = Kept(t) \cup Types(t) \cup Texts(t)
  BY ContentDomain DEF IsTidyTree
<1>2. IsFiniteSet(DOMAIN s)
  <2>1. Kept(t) \in SUBSET DOMAIN t /\ IsFiniteSet(DOMAIN t)
    BY <1>1, TreeFacts DEF Kept
  <2>2. IsFiniteSet(Kept(t))
    BY <2>1, FS_Subset
  <2>3. IsFiniteSet(Kept(t) \cup Types(t))
    BY <1>1, <2>2, NewPlacesFinite, FS_Union
  <2> QED BY <1>1, <2>3, NewPlacesFinite, FS_Union
<1>3. DOMAIN s \subseteq Paths
  BY <1>1, KeptFacts, NewPlaces
<1>4. \A p \in DOMAIN s : IsLeaf(s[p])
  BY ContentLeaf DEF IsSane
<1>5. ASSUME NEW p \in DOMAIN s, Len(p) > 1
      PROVE  Parent(p) \in DOMAIN s /\ IsContainer(s[Parent(p)])
  <2>1. CASE p \in Kept(t)
    BY <1>1, <1>5, <2>1, KeptFacts
  <2>2. CASE p \in Types(t) \cup Texts(t)
    <3>1. Parent(p) \in Replaced(t) /\ Parent(p) \in DOMAIN s
      BY <1>1, <2>2, NewPlaces DEF Replaced
    <3>2. s[Parent(p)] = Leaf("map")
      BY <3>1, ContentLeaf
    <3>3. Leaf("map").kind = "map"
      BY LeafType DEF Kinds
    <3> QED BY <3>1, <3>2, <3>3 DEF IsContainer
  <2> QED BY <1>1, <2>1, <2>2
<1>6. ASSUME NEW m \in Nat, \A p \in DOMAIN t : Len(p) <= m, NEW p \in DOMAIN s
      PROVE  Len(p) <= m
  <2>1. CASE p \in Kept(t)
    BY <1>1, <1>6, <2>1, KeptFacts
  <2>2. CASE p \in Types(t) \cup Texts(t)
    <3>1. Append(Parent(p), TypeKey) \in DOMAIN t /\ Len(p) = Len(Append(Parent(p), TypeKey))
      BY <1>1, <2>2, NewPlaces, BlockFacts DEF Replaced
    <3> QED BY <1>6, <3>1
  <2> QED BY <1>1, <2>1, <2>2
<1> QED BY <1>2, <1>3, <1>4, <1>5, <1>6 DEF IsTree, Paths

\* A place with another key than a type's or a text's is one of the tree's.
LEMMA OldPlace ==
    ASSUME NEW t, IsTree(t), NEW p \in DOMAIN SanitizeResponseContent(t),
           Last(p) \notin {TypeKey, TextKey}
    PROVE  p \in Kept(t)
<1>1. p \in Kept(t) \cup Types(t) \cup Texts(t)
  BY ContentDomain
<1>2. ASSUME p \in Types(t) \cup Texts(t)  PROVE FALSE
  <2>1. /\ p \in Types(t) <=> Last(p) = TypeKey
        /\ p \in Texts(t) <=> Last(p) = TextKey
    BY <1>2, NewPlaces
  <2> QED BY <1>2, <2>1
<1> QED BY <1>1, <1>2

LEMMA ContentSecrets ==
    ASSUME NEW t, IsTidyTree(t), NEW p \in DOMAIN SanitizeResponseContent(t),
           InMap(SanitizeResponseContent(t), p), Last(p) \in SensitiveKeys
    PROVE  SanitizeResponseContent(t)[p] = Redacted
<1> DEFINE s == SanitizeResponseContent(t)
<1>1. IsTree(t)
  BY DEF IsTidyTree
<1>2. p \in Kept(t)
  <2>1. Last(p) \notin {TypeKey, TextKey}
    BY DEF SensitiveKeys, PasswordKey, TypeKey, TextKey
  <2> QED BY <1>1, <2>1, OldPlace
<1>3. InMap(t, p)
  <2>1. Len(p) \in Nat \ {0}
    BY <1>1, <1>2, KeptFacts, PathParent
  <2>2. Len(p) = 1 \/ Len(p) > 1
    <3>1. \A n \in Nat \ {0} : n = 1 \/ n > 1
      OBVIOUS
    <3> QED BY <2>1, <3>1
  <2> QED BY <1>1, <1>2, <2>2, KeptFacts DEF InMap
<1>4. t[p] = Redacted /\ p \in DOMAIN t
  BY <1>1, <1>2, <1>3, KeptFacts DEF IsTidyTree
<1>5. p \notin Replaced(t)
  <2>1. Redacted.kind = "mark"
    BY MarkType DEF Redacted
  <2>2. \A b \in Replaced(t) : t[b].kind = "map"
    BY <1>1, BlockFacts DEF Replaced
  <2> QED BY <1>4, <2>1, <2>2
<1> QED BY <1>1, <1>2, <1>4, <1>5, KeptFacts

\* No block is left that is to be replaced.
LEMMA ContentBlocks ==
    ASSUME NEW t, IsTidyTree(t)
    PROVE  Unsupported(SanitizeResponseContent(t)) = {}
<1> DEFINE s == SanitizeResponseContent(t)
<1> SUFFICES ASSUME NEW b \in Unsupported(s)  PROVE FALSE
  OBVIOUS
<1>1. IsTree(t) /\ IsTree(s)
  BY ContentTree DEF IsTidyTree
<1>2. /\ b \in DOMAIN s /\ b \in Paths /\ Len(b) > 1 /\ s[b].kind = "map"
      /\ Append(b, TypeKey) \in DOMAIN s /\ IsString(TypeOf(s, b))
      /\ TypeOf(s, b).names \in {"media", "other", "resource"}
  BY <1>1, BlockFacts
<1>3. b \in Kept(t)
  <2>1. \A p \in Types(t) \cup Texts(t) : p \in DOMAIN s => s[p].kind # "map"
    BY TextTypeTidy, ContentLeaf
  <2> QED BY <1>2, <2>1, ContentDomain
<1> DEFINE type == Append(b, TypeKey)
<1>4. /\ TypeKey \in Int /\ ResourceKey \in Int /\ BlobKey \in Int /\ TextKey \in Int
      /\ TypeKey \notin {TextKey} /\ {ResourceKey, BlobKey} \cap {TypeKey, TextKey} = {}
  BY DEF TypeKey, ResourceKey, BlobKey, TextKey
<1>5. b \in Seq(Int) /\ type \in Paths /\ Parent(type) = b /\ Last(type) = TypeKey
  BY <1>2, <1>4, PathAppend DEF Paths
<1>6. b \notin Replaced(t)
  <2> SUFFICES ASSUME b \in Replaced(t)  PROVE FALSE
    OBVIOUS
  <2>1. type \in Types(t)
    BY DEF Types
  <2>2. s[type] = TextType
    BY <1>2, <2>1, ContentLeaf
  <2> QED BY <1>2, <2>2, TextTypeTidy DEF TypeOf
<1>7. b \notin Unsupported(t) /\ s[b] = t[b] /\ b \in DOMAIN t
  BY <1>1, <1>3, <1>6, KeptFacts DEF Replaced
<1>8. /\ type \in Kept(t) /\ type \in DOMAIN t /\ s[type] = t[type]
  <2>1. type \notin Types(t) \cup Texts(t)
    BY <1>1, <1>5, <1>6, NewPlaces
  <2>2. type \in Kept(t)
    BY <1>2, <2>1, ContentDomain
  <2>3. type \notin Replaced(t)
    <3>1. s[type].kind # "map"
      BY <1>2 DEF TypeOf, IsString
    <3>2. Leaf("map").kind = "map"
      BY LeafType DEF Kinds
    <3> QED BY <1>2, <3>1, <3>2, ContentLeaf
  <2> QED BY <1>1, <2>2, <2>3, KeptFacts
<1>9. /\ Parent(b) \in Kept(t) /\ s[Parent(b)] = t[Parent(b)]
      /\ InMap(s, Parent(b)) => InMap(t, Parent(b))
  <2>1. Parent(b) \in Kept(t) /\ s[Parent(b)] = t[Parent(b)]
    BY <1>1, <1>2, <1>3, KeptFacts
  <2>2. Len(Parent(b)) \in Nat \ {0}
    BY <1>1, <2>1, KeptFacts, PathParent
  <2>3. Len(Parent(b)) = 1 \/ Len(Parent(b)) > 1
    <3>1. \A n \in Nat \ {0} : n = 1 \/ n > 1
      OBVIOUS
    <3> QED BY <2>2, <3>1
  <2>4. Len(Parent(b)) > 1 => s[Parent(Parent(b))] = t[Parent(Parent(b))]
    BY <1>1, <2>1, KeptFacts
  <2> QED BY <2>1, <2>3, <2>4 DEF InMap
<1>10. IsBlock(t, b)
  BY <1>7, <1>8, <1>9 DEF Unsupported, IsBlock
<1>11. HasBlob(s, b) => HasBlob(t, b)
  <2> DEFINE res  == Append(b, ResourceKey)
             blob == Append(res, BlobKey)
  <2> SUFFICES ASSUME HasBlob(s, b)  PROVE HasBlob(t, b)
    OBVIOUS
  <2>1. res \in Paths /\ res \in Seq(Int) /\ Last(res) = ResourceKey
    BY <1>4, <1>5, PathAppend DEF Paths
  <2>2. blob \in Paths /\ Parent(blob) = res /\ Last(blob) = BlobKey /\ Len(blob) > 1
    <3>1. Len(res) = Len(b) + 1 /\ Len(b) \in Nat
      BY <1>4, <1>5, PathAppend
    <3>2. /\ blob \in Paths /\ Parent(blob) = res /\ Last(blob) = BlobKey
          /\ Len(blob) = Len(res) + 1
      <4> HIDE DEF res
      <4> QED BY <1>4, <2>1, PathAppend
    <3>3. Len(blob) > 1
      BY <3>1, <3>2
    <3> QED BY <3>2, <3>3
  <2>3. blob \in DOMAIN s /\ s[res].kind = "map"
    BY DEF HasBlob
  <2>4. blob \in Kept(t)
    BY <1>1, <1>4, <2>2, <2>3, OldPlace
  <2>5. s[res] = t[res] /\ blob \in DOMAIN t
    BY <1>1, <2>2, <2>4, KeptFacts
  <2> QED BY <2>3, <2>5 DEF HasBlob
<1>12. TypeOf(s, b) = TypeOf(t, b)
  BY <1>8 DEF TypeOf
<1>13. b \in Unsupported(t)
  BY <1>7, <1>10, <1>11, <1>12 DEF Unsupported
<1> QED BY <1>7, <1>13

LEMMA ContentBreadth ==
    ASSUME NEW t, IsTidyTree(t), NEW q \in Seq(Int)
    PROVE  /\ IsFiniteSet(Children(SanitizeResponseContent(t), q))
           /\ Cardinality(Children(SanitizeResponseContent(t), q)) <= MaxBreadth + 1
<1> DEFINE s == SanitizeResponseContent(t)
           C == Children(s, q)
<1>1. IsTree(t) /\ IsTree(s) /\ DOMAIN s = Kept(t) \cup Types(t) \cup Texts(t)
  BY ContentTree, ContentDomain DEF IsTidyTree
<1>2. \A p \in C : p \in DOMAIN s /\ p \in Paths /\ Parent(p) = q
  BY <1>1, TreeFacts, ChildrenByParent
<1>3. MaxBreadth \in Nat /\ MaxBreadth >= 1
  BY SanitizerAssumption
<1>4. CASE q \in Replaced(t)
  <2> DEFINE D == {Append(q, TypeKey), Append(q, TextKey)}
  <2>1. C \subseteq D
    <3> SUFFICES ASSUME NEW p \in C  PROVE p \in D
      OBVIOUS
    <3>1. p \notin Kept(t)
      <4>1. IsBelow(p, q)
        BY <1>2, PathBelow
      <4> QED BY <1>4, <4>1 DEF Kept, Replaced
    <3>2. p = Append(q, Last(p))
      BY <1>2, PathSplit
    <3> QED BY <1>1, <1>2, <3>1, <3>2, NewPlaces
  <2> HIDE DEF C
  <2>2. IsFiniteSet(D) /\ Cardinality(D) <= 2
    <3> DEFINE a == Append(q, TypeKey)
               b == Append(q, TextKey)
    <3> HIDE DEF a, b
    <3>1. IsFiniteSet({a}) /\ Cardinality({a}) = 1
      BY FS_Singleton
    <3>2. /\ IsFiniteSet({a} \cup {b})
          /\ Cardinality({a} \cup {b}) = IF b \in {a} THEN Cardinality({a}) ELSE Cardinality({a}) + 1
      BY <3>1, FS_AddElement
    <3>3. D = {a} \cup {b}
      BY DEF a, b
    <3>4. Cardinality({a} \cup {b}) <= 2
      <4>1. \A one, both : one = 1 /\ both = (IF b \in {a} THEN one ELSE one + 1) => both <= 2
        OBVIOUS
      <4> QED BY <3>1, <3>2, <4>1
    <3> QED BY <3>2, <3>3, <3>4
  <2>3. C \in SUBSET D
    BY <2>1
  <2> HIDE DEF D
  <2>4. IsFiniteSet(C) /\ Cardinality(C) <= Cardinality(D)
        /\ Cardinality(C) \in Nat /\ Cardinality(D) \in Nat
    BY <2>2, <2>3, FS_Subset, FS_CardinalityType
  <2>5. \A c, k \in Nat : c <= k /\ k <= 2 => c <= MaxBreadth + 1
    BY <1>3
  <2>6. Cardinality(C) <= MaxBreadth + 1
    BY <2>2, <2>4, <2>5
  <2> QED BY <2>4, <2>6 DEF C
<1>5. CASE q \notin Replaced(t)
  <2>1. C \subseteq Children(t, q)
    <3> SUFFICES ASSUME NEW p \in C  PROVE p \in Children(t, q)
      OBVIOUS
    <3>1. p \in Kept(t)
      BY <1>1, <1>2, <1>5, NewPlaces
    <3>2. p \in DOMAIN t
      BY <1>1, <3>1, KeptFacts
    <3> QED BY <1>1, <1>2, <3>2, TreeFacts, ChildrenByParent
  <2>2. IsFiniteSet(Children(t, q)) /\ Cardinality(Children(t, q)) <= MaxBreadth + 1
    BY DEF IsTidyTree
  <2>3. C \in SUBSET Children(t, q)
    BY <2>1
  <2> DEFINE D == Children(t, q)
  <2> HIDE DEF C, D
  <2>4. IsFiniteSet(C) /\ Cardinality(C) <= Cardinality(D)
        /\ Cardinality(C) \in Nat /\ Cardinality(D) \in Nat
    BY <2>2, <2>3, FS_Subset, FS_CardinalityType DEF D
  <2>5. \A c, k \in Nat : c <= k /\ k <= MaxBreadth + 1 => c <= MaxBreadth + 1
    BY <1>3
  <2>6. Cardinality(C) <= MaxBreadth + 1
    BY <2>2, <2>4, <2>5 DEF D
  <2> QED BY <2>4, <2>6 DEF C
<1> QED BY <1>4, <1>5
-----------------------------------------------------------------------------
(***************************************************************************)
(* SanitizeValue, and what keeps its contract.                             *)
(***************************************************************************)
IsSanitized(t) ==
    /\ IsTree(t)
    /\ \A p \in DOMAIN t : IsSane(t[p])
    /\ IsPrivate(t)
    /\ IsLimited(t)

\* Whatever tree sanitizeValue is given, and to whatever depth it goes, what it leaves
\* is a tree without anything that was to be redacted, and within all limits.
THEOREM SanitizedTree ==
    ASSUME NEW t, IsTree(t), NEW d \in 1..MaxDepth
    PROVE  IsSanitized(SanitizeValue(t, d))
<1> DEFINE v == Visit(t, d)
           s == SanitizeResponseContent(v)
<1>1. d \in Nat /\ d <= MaxDepth /\ MaxDepth \in Nat
  BY SanitizerAssumption
<1>2. IsTidyTree(v) /\ IsTree(v) /\ \A p \in DOMAIN v : Len(p) <= d
  BY <1>1, VisitTidy, VisitTree
<1> HIDE DEF v
<1>3. IsTree(s) /\ \A p \in DOMAIN s : Len(p) <= d
  BY <1>1, <1>2, ContentTree
<1>4. \A p \in DOMAIN s : IsSane(s[p]) /\ p \in Paths
  BY <1>2, <1>3, ContentLeaf, TreeFacts
<1>5. IsPrivate(s)
  <2>1. \A p \in DOMAIN s : s[p].kind # "bytes" /\ (s[p].kind = "text" => IsClean(s[p]))
    BY <1>4 DEF IsSane
  <2>2. \A p \in DOMAIN s : InMap(s, p) /\ p[Len(p)] \in SensitiveKeys => s[p] = Redacted
    BY <1>2, ContentSecrets DEF Last
  <2> QED BY <1>2, <2>1, <2>2, ContentBlocks DEF IsPrivate
<1>6. IsLimited(s)
  <2>1. ASSUME NEW p \in DOMAIN s
        PROVE  /\ Len(p) <= MaxDepth /\ s[p].kind \notin {"backmap", "backslice"}
               /\ IsString(s[p]) =>
                     s[p].len <= MaxStringBytes + 3 + (IF s[p].kind = "mark" THEN 79 ELSE 0)
    <3>1. Len(p) \in Nat /\ Len(p) <= d
      BY <1>3, <1>4, PathParent
    <3> QED BY <1>1, <1>4, <3>1 DEF IsSane
  <2>2. \A q \in Containers(s) : Cardinality(Children(s, q)) <= MaxBreadth + 1
    BY <1>2, <1>3, TreeFacts, ContentBreadth
  <2> QED BY <2>1, <2>2 DEF IsLimited
<1> QED BY <1>3, <1>4, <1>5, <1>6 DEF IsSanitized, SanitizeValue, v

\* Sanitizing leaves no longer paths than there were, and no longer than the depth.
LEMMA SanitizedDepth ==
    ASSUME NEW t, IsTree(t), NEW d \in Nat
    PROVE  /\ \A p \in DOMAIN SanitizeValue(t, d) : Len(p) <= d
           /\ \A m \in Nat : (\A p \in DOMAIN t : Len(p) <= m) =>
                 \A p \in DOMAIN SanitizeValue(t, d) : Len(p) <= m
<1>1. IsTidyTree(Visit(t, d)) /\ \A p \in DOMAIN Visit(t, d) : Len(p) <= d
  BY VisitTidy, VisitTree
<1>2. ASSUME NEW m \in Nat, \A p \in DOMAIN Visit(t, d) : Len(p) <= m
      PROVE  \A p \in DOMAIN SanitizeValue(t, d) : Len(p) <= m
  BY <1>1, <1>2, ContentTree DEF SanitizeValue
<1> QED BY <1>1, <1>2, VisitDepth

\* Cutting strings that are not short keeps what sanitizing has achieved.
LEMMA CutTree ==
    ASSUME NEW t, IsSanitized(t), NEW s, IsFiniteSet(DOMAIN t), DOMAIN s = DOMAIN t,
           \A p \in DOMAIN t :
              /\ IsSane(s[p]) /\ s[p].kind = t[p].kind /\ s[p].names = t[p].names
              /\ ~(IsString(t[p]) /\ t[p].len > ShortestLimit) => s[p] = t[p]
    PROVE  IsSanitized(s)
<1>1. IsTree(t) /\ DOMAIN t \subseteq Paths
  BY TreeFacts DEF IsSanitized
<1>2. \A p \in DOMAIN t : (IsContainer(s[p]) <=> IsContainer(t[p])) /\ (IsString(s[p]) <=> IsString(t[p]))
  BY DEF IsContainer, IsString
<1>3. IsTree(s)
  BY <1>1, <1>2 DEF IsTree, IsSane
<1>4. ASSUME NEW p \in DOMAIN t  PROVE InMap(s, p) <=> InMap(t, p)
  <2>1. Len(p) = 1 \/ Len(p) > 1
    <3>1. \A n \in Nat \ {0} : n = 1 \/ n > 1
      OBVIOUS
    <3> QED BY <1>1, <3>1, PathParent
  <2>2. Len(p) > 1 => Parent(p) \in DOMAIN t
    BY <1>1, TreeFacts
  <2> QED BY <2>1, <2>2 DEF InMap
<1>5. Unsupported(s) = {}
  <2> SUFFICES ASSUME NEW b \in Unsupported(s)  PROVE b \in Unsupported(t)
    BY DEF IsSanitized, IsPrivate
  <2>1. /\ b \in DOMAIN t /\ IsBlock(s, b) /\ Append(b, TypeKey) \in DOMAIN t
    BY DEF Unsupported, IsBlock
  <2>2. Parent(b) \in DOMAIN t
    BY <1>1, <2>1, TreeFacts DEF IsBlock
  <2>3. IsBlock(t, b)
    BY <1>2, <1>4, <2>1, <2>2 DEF IsBlock
  <2>4. TypeOf(s, b).names = TypeOf(t, b).names
    BY <2>1 DEF TypeOf
  <2>5. HasBlob(s, b) => HasBlob(t, b)
    <3> DEFINE res  == Append(b, ResourceKey)
               blob == Append(res, BlobKey)
    <3> SUFFICES ASSUME HasBlob(s, b)  PROVE HasBlob(t, b)
      OBVIOUS
    <3>1. blob \in DOMAIN t /\ s[res].kind = "map"
      BY DEF HasBlob
    <3>2. res \in DOMAIN t
      <4>1. b \in Seq(Int) /\ ResourceKey \in Int /\ BlobKey \in Int
        BY <1>1, <2>1 DEF Paths, ResourceKey, BlobKey
      <4>2. res \in Paths /\ Len(res) \in Nat \ {0}
        BY <4>1, PathAppend, PathParent
      <4> HIDE DEF res
      <4>3. Parent(blob) = res /\ Len(blob) = Len(res) + 1
        BY <4>1, <4>2, PathAppend DEF Paths
      <4>4. Len(blob) > 1
        BY <4>2, <4>3
      <4> QED BY <1>1, <3>1, <4>3, <4>4, TreeFacts
    <3> QED BY <3>1, <3>2 DEF HasBlob
  <2> QED BY <2>1, <2>3, <2>4, <2>5 DEF Unsupported
<1>6. IsPrivate(s)
  <2>1. ASSUME NEW p \in DOMAIN s, InMap(s, p), p[Len(p)] \in SensitiveKeys
        PROVE  s[p] = Redacted
    <3>1. t[p] = Redacted
      BY <1>4, <2>1 DEF IsSanitized, IsPrivate
    <3>2. Redacted.len = 10
      BY MarkType DEF Redacted
    <3> QED BY <3>1, <3>2 DEF ShortestLimit
  <2>2. \A p \in DOMAIN s : s[p].kind # "bytes" /\ (s[p].kind = "text" => IsClean(s[p]))
    BY DEF IsSane
  <2> QED BY <1>5, <2>1, <2>2 DEF IsPrivate
<1>7. IsLimited(s)
  <2>1. Containers(s) = Containers(t) /\ \A q : Children(s, q) = Children(t, q)
    BY <1>2 DEF Containers, Children
  <2>2. \A p \in DOMAIN s : /\ s[p].kind \notin {"backmap", "backslice"}
                            /\ IsString(s[p]) => s[p].len <= MaxStringBytes + 3
                                                  + (IF s[p].kind = "mark" THEN 79 ELSE 0)
    BY DEF IsSane
  <2> QED BY <2>1, <2>2 DEF IsSanitized, IsLimited
<1> QED BY <1>3, <1>6, <1>7 DEF IsSanitized

\* The top keys before one.
Before(t, key) == {p \in DOMAIN t : Len(p) = 1 /\ p[1] < key}

LEMMA TopKey ==
    ASSUME NEW key \in Int
    PROVE  /\ <<key>> \in Paths /\ Len(<<key>>) = 1 /\ Parent(<<key>>) = <<>>
           /\ Last(<<key>>) = key
<1>1. <<key>> \in Paths /\ Len(<<key>>) = 1 /\ <<key>>[1] = key
  BY DEF Paths
<1> QED BY <1>1, PathParent DEF Last

\* At the top, sanitizing is what Visit does.
LEMMA TopOfVisit ==
    ASSUME NEW t, IsTree(t), NEW d \in Nat, NEW p, Len(p) = 1
    PROVE  /\ p \in DOMAIN SanitizeValue(t, d) <=> p \in DOMAIN Visit(t, d)
           /\ p \in DOMAIN Visit(t, d) => SanitizeValue(t, d)[p] = Visit(t, d)[p]
<1> DEFINE v == Visit(t, d)
           s == SanitizeResponseContent(v)
<1>1. SanitizeValue(t, d) = s
  BY DEF SanitizeValue
<1>2. IsTidyTree(v) /\ IsTree(v)
  BY VisitTidy, VisitTree
<1> HIDE DEF v
<1>3. p \notin Types(v) \cup Texts(v) /\ p \notin Unsupported(v)
  <2>1. p \in Types(v) \cup Texts(v) => Len(p) > 2
    BY <1>2, NewPlaces
  <2>2. p \in Unsupported(v) => Len(p) > 1
    BY <1>2, BlockFacts
  <2>3. ~(Len(p) > 2) /\ ~(Len(p) > 1)
    OBVIOUS
  <2> QED BY <2>1, <2>2, <2>3
<1>4. DOMAIN s = Kept(v) \cup Types(v) \cup Texts(v)
  BY ContentDomain
<1>5. ASSUME p \in DOMAIN v  PROVE p \in Kept(v)
  <2> SUFFICES ASSUME NEW b \in Unsupported(v), IsBelow(p, b)  PROVE FALSE
    BY <1>5 DEF Kept
  <2>1. b \in Paths /\ p \in Paths
    BY <1>2, <1>5, BlockFacts, TreeFacts
  <2>2. Len(p) > 1
    BY <2>1, PathTop
  <2> QED BY <2>2
<1>6. p \in Kept(v) => p \in DOMAIN v /\ s[p] = v[p]
  BY <1>2, <1>3, KeptFacts DEF Replaced
<1> QED BY <1>1, <1>3, <1>4, <1>5, <1>6 DEF v

\* A value that sanitizing has nothing to do with survives under a key that is among
\* the first, and no other key gets before it.
LEMMA KeySurvives ==
    ASSUME NEW t, IsTree(t), NEW d \in 1..MaxDepth,
           NEW key \in Int, key < EllipsisKey, key \notin SensitiveKeys,
           <<key>> \in DOMAIN t, t[<<key>>].kind \in {"text", "scalar"},
           Normalized(t[<<key>>]) = t[<<key>>],
           Cardinality(Before(t, key)) < MaxBreadth
    PROVE  LET s == SanitizeValue(t, d)
           IN  /\ <<key>> \in DOMAIN s /\ s[<<key>>] = t[<<key>>]
               /\ Before(s, key) \subseteq Before(t, key)
<1> DEFINE p     == <<key>>
           over  == Overflow(t)
           marks == OverflowMarks(t, over)
           v     == Visit(t, d)
           s     == SanitizeResponseContent(v)
<1>1. p \in Paths /\ Len(p) = 1 /\ Parent(p) = <<>> /\ Last(p) = key
  BY TopKey
<1> HIDE DEF p
<1>2. d \in Nat /\ d >= 1
  BY SanitizerAssumption
<1>3. p \notin over
  <2>1. {x \in Children(t, Parent(p)) : Last(x) < Last(p)} = Before(t, key)
    <3>1. <<>> \in Seq(Int)
      BY EmptySeq
    <3>2. \A x \in DOMAIN t : Parent(x) = <<>> <=> Len(x) = 1
      <4> SUFFICES ASSUME NEW x \in DOMAIN t  PROVE Parent(x) = <<>> <=> Len(x) = 1
        OBVIOUS
      <4>1. /\ Len(x) \in Nat \ {0} /\ Len(Parent(x)) = Len(x) - 1 /\ Parent(x) \in Seq(Int)
            /\ Len(x) = 1 => Parent(x) = <<>>
        BY TreeFacts, PathParent
      <4>2. Parent(x) = <<>> => Len(Parent(x)) = 0
        BY EmptySeq
      <4> QED BY <4>1, <4>2
    <3>3. Children(t, <<>>) = {x \in DOMAIN t : Len(x) = 1}
      BY <3>1, <3>2, TreeFacts, ChildrenByParent
    <3> QED BY <1>1, <3>3 DEF Before, Last
  <2>2. ~(Cardinality({x \in Children(t, Parent(p)) : Last(x) < Last(p)}) >= MaxBreadth)
    <3>1. Cardinality(Before(t, key)) \in Nat
      <4>1. Before(t, key) \in SUBSET DOMAIN t
        BY DEF Before
      <4> QED BY <4>1, TreeFacts, FS_Subset, FS_CardinalityType
    <3>2. MaxBreadth \in Nat
      BY SanitizerAssumption
    <3> QED BY <2>1, <3>1, <3>2
  <2> QED BY <2>2, OverflowFacts
<1>4. ASSUME NEW m \in marks, Len(m) = 1  PROVE Last(m) = EllipsisKey
  <2>1. PICK o \in over :
           /\ m \in Paths /\ Parent(m) = Parent(o)
           /\ Last(m) = IF Parent(o) = <<>> \/ t[Parent(o)].kind = "map"
                       THEN EllipsisKey ELSE MaxBreadth + 1
    BY MarkFacts
  <2> QED BY <1>4, <2>1, PathParent
<1>5. p \notin marks
  BY <1>1, <1>4 DEF EllipsisKey
<1>6. \A q \in Paths : ~IsBelow(p, q)
  <2> SUFFICES ASSUME NEW q \in Paths, IsBelow(p, q)  PROVE FALSE
    OBVIOUS
  <2>1. Len(p) > 1
    BY <1>1, PathTop
  <2> QED BY <1>1, <2>1
<1>7. p \in DOMAIN v
  <2>1. over \cup Secrets(t) \cup marks \subseteq Paths
    BY TreeFacts, OverflowFacts, MarkFacts DEF Secrets
  <2>2. Len(p) <= d
    BY <1>1, <1>2
  <2> QED BY <1>3, <1>6, <2>1, <2>2 DEF Visit, Visible, p
<1>8. v[p] = t[p]
  <2>1. ~IsSecret(t, p)
    BY <1>1 DEF IsSecret, Last
  <2> QED BY <1>5, <1>7, <2>1 DEF Visit, p
<1>9. IsTidyTree(v) /\ IsTree(v) /\ IsTree(s)
  BY <1>2, VisitTidy, VisitTree, ContentTree
<1>10. p \in DOMAIN s /\ s[p] = t[p]
  BY <1>1, <1>2, <1>7, <1>8, TopOfVisit DEF SanitizeValue
<1>11. Before(s, key) \subseteq Before(t, key)
  <2> SUFFICES ASSUME NEW x \in DOMAIN s, Len(x) = 1, x[1] < key  PROVE x \in DOMAIN t
    BY DEF Before
  <2>1. x \in Kept(v)
    <3>1. x \in Types(v) \cup Texts(v) => Len(x) > 2
      BY <1>9, NewPlaces
    <3>2. DOMAIN s = Kept(v) \cup Types(v) \cup Texts(v)
      BY ContentDomain
    <3>3. ~(Len(x) > 2)
      OBVIOUS
    <3> QED BY <3>1, <3>2, <3>3
  <2>2. x \in DOMAIN t \cup marks
    BY <1>2, <2>1, VisitTree DEF Kept
  <2>3. x \notin marks
    <3>1. Last(x) = x[1]
      BY DEF Last
    <3> QED BY <1>4, <3>1 DEF EllipsisKey
  <2> QED BY <2>2, <2>3
<1> QED BY <1>10, <1>11 DEF SanitizeValue, p

\* Every key at the top but the marker's was there before, and its value is the same
\* unless sanitizing has to do with it.
LEMMA KeyUnchanged ==
    ASSUME NEW t, IsTree(t), NEW d \in 1..MaxDepth,
           NEW key \in Int, key # EllipsisKey, <<key>> \in DOMAIN SanitizeValue(t, d)
    PROVE  /\ <<key>> \in DOMAIN t
           /\ /\ key \notin SensitiveKeys /\ t[<<key>>].kind \in {"text", "scalar"}
              /\ Normalized(t[<<key>>]) = t[<<key>>]
              => SanitizeValue(t, d)[<<key>>] = t[<<key>>]
<1> DEFINE p     == <<key>>
           marks == OverflowMarks(t, Overflow(t))
           v     == Visit(t, d)
           s     == SanitizeResponseContent(v)
<1>1. p \in Paths /\ Len(p) = 1 /\ Last(p) = key /\ p \in DOMAIN s
  BY TopKey DEF SanitizeValue
<1> HIDE DEF p
<1>2. d \in Nat
  BY SanitizerAssumption
<1>3. p \in DOMAIN v /\ s[p] = v[p]
  BY <1>1, <1>2, TopOfVisit DEF SanitizeValue
<1>4. p \notin marks
  <2> SUFFICES ASSUME p \in marks  PROVE FALSE
    OBVIOUS
  <2>1. PICK o \in Overflow(t) :
           /\ Parent(p) = Parent(o)
           /\ Last(p) = IF Parent(o) = <<>> \/ t[Parent(o)].kind = "map"
                       THEN EllipsisKey ELSE MaxBreadth + 1
    BY MarkFacts
  <2> QED BY <1>1, <2>1, PathParent
<1>5. p \in DOMAIN t
  BY <1>2, <1>3, <1>4, VisitTree
<1>6. key \notin SensitiveKeys => ~IsSecret(t, p)
  BY <1>1 DEF IsSecret, Last
<1>7. /\ key \notin SensitiveKeys /\ t[p].kind \in {"text", "scalar"}
      /\ Normalized(t[p]) = t[p]
      => v[p] = t[p]
  <2>1. v[p] = IF p \in marks THEN Omission
               ELSE IF IsSecret(t, p) THEN Redacted
               ELSE IF t[p].kind \in {"map", "slice", "backmap", "backslice"} /\ Len(p) >= d
                    THEN Cut(t[p])
               ELSE IF t[p].kind \in {"backmap", "backslice"} THEN Circular
               ELSE Normalized(t[p])
    BY <1>3 DEF Visit
  <2> QED BY <1>4, <1>6, <2>1
<1> QED BY <1>3, <1>5, <1>7 DEF SanitizeValue, p

\* A full map has the marker of what was left out.
LEMMA FullIsMarked ==
    ASSUME NEW t, IsTree(t), NEW d \in 1..MaxDepth,
           Cardinality(Children(SanitizeValue(t, d), <<>>)) > MaxBreadth
    PROVE  /\ <<EllipsisKey>> \in DOMAIN SanitizeValue(t, d)
           /\ SanitizeValue(t, d)[<<EllipsisKey>>] = Omission
<1> DEFINE m     == <<EllipsisKey>>
           marks == OverflowMarks(t, Overflow(t))
           v     == Visit(t, d)
           s     == SanitizeValue(t, d)
           K     == Children(t, <<>>) \ Overflow(t)
           C     == Children(s, <<>>)
<1>1. d \in Nat /\ <<>> \in Seq(Int)
  BY EmptySeq, SanitizerAssumption
<1>2. IsTree(v) /\ IsTree(s)
  BY <1>1, VisitTree, SanitizedTree DEF IsSanitized
<1>3. \A p \in C : p \in DOMAIN s /\ p \in Paths /\ Parent(p) = <<>> /\ Len(p) = 1
  <2> SUFFICES ASSUME NEW p \in C
               PROVE  p \in DOMAIN s /\ p \in Paths /\ Parent(p) = <<>> /\ Len(p) = 1
    OBVIOUS
  <2>1. p \in DOMAIN s /\ p \in Paths /\ Parent(p) = <<>>
    BY <1>1, <1>2, TreeFacts, ChildrenByParent
  <2>2. Len(p) \in Nat /\ Len(Parent(p)) = Len(p) - 1 /\ Len(<<>>) = 0
    BY <2>1, PathParent
  <2> QED BY <2>1, <2>2
<1> HIDE DEF C
<1>4. PICK p \in C : p \notin K
  <2> SUFFICES ASSUME C \subseteq K  PROVE FALSE
    OBVIOUS
  <2>1. IsFiniteSet(K) /\ Cardinality(K) <= MaxBreadth
    BY <1>1, KeptChildren
  <2> HIDE DEF K
  <2>2. Cardinality(C) <= Cardinality(K) /\ Cardinality(C) \in Nat /\ Cardinality(K) \in Nat
    BY <2>1, FS_Subset, FS_CardinalityType
  <2>3. Cardinality(C) > MaxBreadth /\ MaxBreadth \in Nat
    BY SanitizerAssumption DEF C
  <2> QED BY <2>1, <2>2, <2>3
<1>5. p \in DOMAIN v /\ s[p] = v[p]
  BY <1>1, <1>3, <1>4, TopOfVisit
<1>6. p \in marks
  <2> SUFFICES ASSUME p \notin marks  PROVE p \in K
    BY <1>4
  <2>1. p \in DOMAIN t \ Overflow(t)
    BY <1>1, <1>5, VisibleFacts DEF Visit
  <2> QED BY <1>1, <1>3, <1>4, <2>1, TreeFacts, ChildrenByParent
<1>7. p = m
  <2>1. Last(p) = EllipsisKey
    BY <1>3, <1>4, <1>6, MarkFacts
  <2>2. Last(p) = p[1]
    BY <1>3, <1>4 DEF Last
  <2>3. p \in Seq(Int) /\ Len(p) = 1
    BY <1>3, <1>4 DEF Paths
  <2> QED BY <2>1, <2>2, <2>3
<1>8. v[p] = Omission
  BY <1>5, <1>6 DEF Visit
<1> QED BY <1>3, <1>4, <1>5, <1>7, <1>8
=============================================================================
