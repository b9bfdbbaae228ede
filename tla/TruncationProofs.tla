-------------------------- MODULE TruncationProofs --------------------------
(***************************************************************************)
(* Theorems about Truncation, for every event and every limit.             *)
(***************************************************************************)
EXTENDS Truncation, SanitizerProofs, SumProofs

-----------------------------------------------------------------------------
(***************************************************************************)
(* What every reduction of an event keeps.                                 *)
(***************************************************************************)
\* The value under a key that is among the first, when no reduction has anything to do
\* with it.
IsSteady(v) ==
    /\ IsLeaf(v) /\ v.kind \in {"text", "scalar"}
    /\ Normalized(v) = v /\ v.len <= ShortestLimit

Holds(t, key, v) ==
    /\ key \in Int /\ key < EllipsisKey /\ key \notin SensitiveKeys
    /\ IsSteady(v)
    /\ <<key>> \in DOMAIN t /\ t[<<key>>] = v
    /\ Cardinality(Before(t, key)) < MaxBreadth

\* No key is new, but for the marker of what was left out, and steady values stay where
\* they are, if they do.
Keeps(t, s) ==
    \A key \in Int :
        key # EllipsisKey /\ key \notin SensitiveKeys /\ <<key>> \in DOMAIN s
           => /\ <<key>> \in DOMAIN t
              /\ IsSteady(t[<<key>>]) => s[<<key>>] = t[<<key>>]

\* The contract of SPEC.md, section 8, for a tree that was made from another.
Reduces(t, s) ==
    /\ IsSanitized(s) /\ FieldsAreLimited(s)
    /\ \A key, v : Holds(t, key, v) => Holds(s, key, v)
    /\ Keeps(t, s)

LEMMA KeepsAgain ==
    ASSUME NEW t, NEW s, NEW r, Keeps(t, s), Keeps(s, r)
    PROVE  Keeps(t, r)
<1> SUFFICES ASSUME NEW key \in Int, key # EllipsisKey, key \notin SensitiveKeys,
                    <<key>> \in DOMAIN r
             PROVE  /\ <<key>> \in DOMAIN t
                    /\ IsSteady(t[<<key>>]) => r[<<key>>] = t[<<key>>]
  BY DEF Keeps
<1>1. <<key>> \in DOMAIN s /\ (IsSteady(s[<<key>>]) => r[<<key>>] = s[<<key>>])
  BY DEF Keeps
<1>2. <<key>> \in DOMAIN t /\ (IsSteady(t[<<key>>]) => s[<<key>>] = t[<<key>>])
  BY <1>1 DEF Keeps
<1> QED BY <1>1, <1>2

\* Fewer keys before one, and the same value.
LEMMA HoldsStill ==
    ASSUME NEW t, IsTree(t), NEW s, NEW key, NEW v, Holds(t, key, v),
           <<key>> \in DOMAIN s, s[<<key>>] = v, Before(s, key) \subseteq Before(t, key)
    PROVE  Holds(s, key, v)
<1>1. Before(t, key) \in SUBSET DOMAIN t /\ IsFiniteSet(DOMAIN t)
  BY TreeFacts DEF Before
<1>2. IsFiniteSet(Before(t, key)) /\ Cardinality(Before(t, key)) \in Nat
  BY <1>1, FS_Subset, FS_CardinalityType
<1>3. Before(s, key) \in SUBSET Before(t, key)
  OBVIOUS
<1>4. Cardinality(Before(s, key)) <= Cardinality(Before(t, key)) /\ Cardinality(Before(s, key)) \in Nat
  BY <1>2, <1>3, FS_Subset, FS_CardinalityType
<1>5. MaxBreadth \in Nat
  BY SanitizerAssumption
<1> QED BY <1>2, <1>4, <1>5 DEF Holds

\* Sanitizing keeps what is steady.
LEMMA SanitizingKeeps ==
    ASSUME NEW t, IsTree(t), NEW d \in 1..MaxDepth
    PROVE  Keeps(t, SanitizeValue(t, d))
BY KeyUnchanged DEF Keeps, IsSteady

LEMMA SanitizingReduces ==
    ASSUME NEW t, IsTree(t), NEW d \in 1..MaxDepth, NEW key, NEW v, Holds(t, key, v)
    PROVE  Holds(SanitizeValue(t, d), key, v)
<1>1. /\ <<key>> \in DOMAIN SanitizeValue(t, d) /\ SanitizeValue(t, d)[<<key>>] = v
      /\ Before(SanitizeValue(t, d), key) \subseteq Before(t, key)
  BY KeySurvives DEF Holds, IsSteady
<1> QED BY <1>1, HoldsStill

\* Cutting strings that are not short keeps everything, if no field gets longer.
LEMMA CuttingReduces ==
    ASSUME NEW t, IsSanitized(t), NEW s, DOMAIN s = DOMAIN t,
           \A p \in DOMAIN t :
              /\ IsSane(s[p]) /\ s[p].kind = t[p].kind /\ s[p].names = t[p].names
              /\ ~(IsString(t[p]) /\ t[p].len > ShortestLimit) => s[p] = t[p]
              /\ IsBounded(t, p) => s[p].len <= FieldLimit(p) + 3
    PROVE  Reduces(t, s)
<1>1. IsTree(t) /\ IsFiniteSet(DOMAIN t)
  BY TreeFacts DEF IsSanitized
<1>2. IsSanitized(s)
  BY <1>1, CutTree
<1>3. ASSUME NEW p \in DOMAIN t, IsBounded(s, p)  PROVE IsBounded(t, p)
  <2>1. ASSUME IsException(s, p)  PROVE IsException(t, p)
    <3>1. p \in Paths /\ Len(p) = 3 /\ p[1] = ExceptionKey
      BY <1>1, <2>1, TreeFacts DEF IsException
    <3> DEFINE q == Parent(p)
               r == Parent(q)
    <3>2. Len(p) > 1 /\ Len(p) - 1 = 2
      BY <3>1
    <3>3. q \in Paths /\ Len(q) = 2 /\ q \in DOMAIN t /\ \A i \in 1..2 : q[i] = p[i]
      <4>1. \A i \in 1..(Len(p) - 1) : q[i] = p[i]
        BY <3>1, PathParent
      <4>2. q \in Paths /\ Len(q) = Len(p) - 1
        BY <3>1, <3>2, PathParent
      <4>3. q \in DOMAIN t
        BY <1>1, <3>2, TreeFacts
      <4> QED BY <3>2, <4>1, <4>2, <4>3
    <3>4. Len(q) > 1 /\ Len(q) - 1 = 1
      BY <3>3
    <3>5. r \in Seq(Int) /\ Len(r) = 1 /\ r \in DOMAIN t /\ r[1] = ExceptionKey
      <4>1. \A i \in 1..(Len(q) - 1) : r[i] = q[i]
        BY <3>3, PathParent
      <4>2. r \in Seq(Int) /\ Len(r) = Len(q) - 1
        BY <3>3, PathParent
      <4>3. r \in DOMAIN t
        BY <1>1, <3>3, <3>4, TreeFacts
      <4>4. r[1] = q[1] /\ q[1] = p[1]
        BY <3>3, <3>4, <4>1
      <4> QED BY <3>1, <3>4, <4>2, <4>3, <4>4
    <3>6. r = <<ExceptionKey>>
      BY <3>5
    <3> QED BY <2>1, <3>3, <3>5, <3>6 DEF IsException
  <2> QED BY <1>3, <2>1 DEF IsBounded, IsString
<1>4. FieldsAreLimited(s)
  BY <1>3 DEF FieldsAreLimited
<1>5. ASSUME NEW p \in DOMAIN t, IsSteady(t[p])  PROVE s[p] = t[p]
  <2>1. t[p].len \in Nat /\ t[p].len <= ShortestLimit
    BY <1>5, LeafFields DEF IsSteady
  <2>2. ~(t[p].len > ShortestLimit)
    BY <2>1 DEF ShortestLimit
  <2> QED BY <2>2
<1>6. ASSUME NEW key, NEW v, Holds(t, key, v)  PROVE Holds(s, key, v)
  <2>1. <<key>> \in DOMAIN s /\ s[<<key>>] = v
    BY <1>5, <1>6 DEF Holds
  <2>2. Before(s, key) \subseteq Before(t, key)
    BY DEF Before
  <2> QED BY <1>1, <1>6, <2>1, <2>2, HoldsStill
<1>7. Keeps(t, s)
  BY <1>5 DEF Keeps
<1> QED BY <1>2, <1>4, <1>6, <1>7 DEF Reduces
-----------------------------------------------------------------------------
(***************************************************************************)
(* ApplyFieldLimits and NormalizeProperties.                               *)
(***************************************************************************)
LEMMA CutSane ==
    ASSUME NEW v, IsSane(v), NEW max \in Nat, max >= ShortestToken,
           max <= MaxStringBytes \/ max + 3 <= v.len
    PROVE  LET u == TruncateUTF8(v, max)
           IN  /\ IsSane(u) /\ u.kind = v.kind /\ u.names = v.names
               /\ u.len <= max + 3 /\ u.len \in Nat /\ (v.len <= max => u = v)
<1> DEFINE u     == TruncateUTF8(v, max)
           extra == IF v.kind = "mark" THEN 79 ELSE 0
<1>1. /\ IsLeaf(u) /\ u.kind = v.kind /\ u.names = v.names
      /\ u.len <= max + 3 /\ (v.len <= max => u = v)
      /\ IsClean(v) => IsClean(u)
  BY Truncated DEF IsSane
<1>2. u.len \in Nat /\ v.len \in Nat /\ MaxStringBytes \in Nat /\ extra \in Nat
  BY <1>1, LeafFields, SanitizerAssumption DEF IsSane
<1>3. IsString(v) => v.len <= MaxStringBytes + 3 + extra
  BY DEF IsSane
<1>4. IsString(u) => IsString(v)
  BY <1>1 DEF IsString
<1> HIDE DEF u, extra
<1>5. IsString(u) => u.len <= MaxStringBytes + 3 + extra
  BY <1>1, <1>2, <1>3, <1>4
<1>6. IsSane(u)
  BY <1>1, <1>5 DEF IsSane, extra
<1> QED BY <1>1, <1>2, <1>6 DEF u

\* All limits are at least the shortest and less than that of all strings.
LEMMA LimitRange ==
    ASSUME NEW t, NEW p, IsBounded(t, p)
    PROVE  /\ FieldLimit(p) \in ShortestLimit..(MaxStringBytes - 3)
           /\ FieldLimit(p) \in Nat /\ FieldLimit(p) >= ShortestToken
           /\ FieldLimit(p) <= MaxStringBytes
<1>1. MaxStringBytes \in Nat /\ MaxExceptionText + 3 <= MaxStringBytes
  BY SanitizerAssumption, TruncationAssumption
<1>2. CASE Len(p) = 1
  <2>1. FieldLimit(p) \in ShortestLimit..(MaxStringBytes - 3)
    BY <1>2, TruncationAssumption DEF IsBounded, IsField, IsException, FieldLimit
  <2> QED BY <1>1, <2>1 DEF ShortestLimit, ShortestToken
<1>3. CASE Len(p) # 1
  BY <1>1, <1>3 DEF FieldLimit, MaxExceptionText, ShortestLimit, ShortestToken
<1> QED BY <1>2, <1>3

LEMMA LimitsReduce ==
    ASSUME NEW t, IsSanitized(t)
    PROVE  Reduces(t, ApplyFieldLimits(t)) /\ DOMAIN ApplyFieldLimits(t) = DOMAIN t
<1> DEFINE s == ApplyFieldLimits(t)
<1>1. /\ DOMAIN s = DOMAIN t
      /\ \A p \in DOMAIN t :
            s[p] = IF IsBounded(t, p) THEN TruncateUTF8(t[p], FieldLimit(p)) ELSE t[p]
  BY DEF ApplyFieldLimits
<1> HIDE DEF s
<1>2. ASSUME NEW p \in DOMAIN t
      PROVE  /\ IsSane(s[p]) /\ s[p].kind = t[p].kind /\ s[p].names = t[p].names
             /\ ~(IsString(t[p]) /\ t[p].len > ShortestLimit) => s[p] = t[p]
             /\ IsBounded(t, p) => s[p].len <= FieldLimit(p) + 3
  <2>1. IsSane(t[p])
    BY DEF IsSanitized
  <2>2. CASE ~IsBounded(t, p)
    BY <1>1, <2>1, <2>2
  <2>3. CASE IsBounded(t, p)
    <3> DEFINE max == FieldLimit(p)
    <3>1. /\ max \in Nat /\ max >= ShortestToken /\ max <= MaxStringBytes
          /\ max \in ShortestLimit..(MaxStringBytes - 3)
      BY <2>3, LimitRange
    <3>2. s[p] = TruncateUTF8(t[p], max) /\ IsString(t[p])
      BY <1>1, <2>3 DEF IsBounded
    <3> HIDE DEF max
    <3>3. /\ IsSane(s[p]) /\ s[p].kind = t[p].kind /\ s[p].names = t[p].names
          /\ s[p].len <= max + 3 /\ (t[p].len <= max => s[p] = t[p])
      BY <2>1, <3>1, <3>2, CutSane
    <3>4. t[p].len \in Nat
      BY <2>1, LeafFields DEF IsSane
    <3>5. ~(t[p].len > ShortestLimit) => t[p].len <= max
      BY <3>1, <3>4 DEF ShortestLimit
    <3> QED BY <3>2, <3>3, <3>5 DEF max
  <2> QED BY <2>2, <2>3
<1>3. Reduces(t, s)
  BY <1>1, <1>2, CuttingReduces
<1> QED BY <1>1, <1>3 DEF s

\* Reducing twice reduces.
LEMMA ReducesAgain ==
    ASSUME NEW t, NEW s, NEW r, \A key, v : Holds(t, key, v) => Holds(s, key, v),
           Keeps(t, s), Reduces(s, r)
    PROVE  Reduces(t, r)
BY KeepsAgain DEF Reduces

\* normalizeProperties, to any depth.
LEMMA NormalizingReduces ==
    ASSUME NEW t, IsTree(t), NEW d \in 1..MaxDepth
    PROVE  LET s == NormalizeProperties(t, d)
           IN  /\ Reduces(t, s) /\ IsTree(s)
               /\ \A p \in DOMAIN s : Len(p) <= d
<1> DEFINE r == SanitizeValue(t, d)
           s == NormalizeProperties(t, d)
<1>1. IsSanitized(r)
  BY SanitizedTree
<1>2. s = ApplyFieldLimits(r)
  BY DEF NormalizeProperties
<1>3. Reduces(r, s) /\ DOMAIN s = DOMAIN r
  BY <1>1, <1>2, LimitsReduce
<1>4. Reduces(t, s)
  BY <1>3, SanitizingReduces, SanitizingKeeps, ReducesAgain
<1>5. d \in Nat
  BY SanitizerAssumption
<1>6. \A p \in DOMAIN s : Len(p) <= d
  BY <1>3, <1>5, SanitizedDepth
<1> QED BY <1>4, <1>6 DEF Reduces, IsSanitized

\* Properties without any depth can be sanitized once more.
LEMMA SanitizingAgain ==
    ASSUME NEW t, IsSanitized(t), FieldsAreLimited(t), \A p \in DOMAIN t : Len(p) <= 1
    PROVE  Reduces(t, SanitizeValue(t, MaxDepth))
<1> DEFINE v == Visit(t, MaxDepth)
           s == SanitizeValue(t, MaxDepth)
<1>1. IsTree(t) /\ MaxDepth \in Nat /\ MaxDepth \in 1..MaxDepth /\ 1 \in Nat
  BY SanitizerAssumption DEF IsSanitized
<1>2. IsSanitized(s) /\ IsTree(s)
  BY <1>1, SanitizedTree DEF IsSanitized
<1>3. \A p \in DOMAIN s : Len(p) <= 1
  BY <1>1, SanitizedDepth
<1>4. s = SanitizeResponseContent(v) /\ IsTidyTree(v) /\ IsTree(v)
  BY <1>1, VisitTidy DEF SanitizeValue, IsTidyTree
<1> HIDE DEF s
<1>5. ASSUME NEW p \in DOMAIN s, IsBounded(s, p)  PROVE s[p].len <= FieldLimit(p) + 3
  <2>1. Len(p) = 1 /\ p \in Paths /\ IsString(s[p]) /\ IsField(p)
    <3>1. p \in Paths /\ Len(p) <= 1
      BY <1>2, <1>3, TreeFacts
    <3>2. \A n \in Nat \ {0} : n <= 1 => n = 1
      OBVIOUS
    <3>3. Len(p) \in Nat \ {0}
      BY <3>1, PathParent
    <3>4. Len(p) = 1
      BY <3>1, <3>2, <3>3
    <3> QED BY <1>5, <3>1, <3>4 DEF IsBounded, IsException
  <2>2. p \in Kept(v)
    <3>1. p \in Kept(v) \/ p \in Types(v) \cup Texts(v)
      BY <1>4, ContentDomain
    <3>2. p \in Types(v) \cup Texts(v) => Len(p) > 2
      BY <1>4, NewPlaces
    <3>3. ~(1 > 2)
      OBVIOUS
    <3> QED BY <2>1, <3>1, <3>2, <3>3
  <2>3. s[p] = v[p] /\ p \in DOMAIN v
    <3>1. \A b \in Unsupported(v) : Len(b) > 1
      BY <1>4, BlockFacts
    <3>2. ~(1 > 1)
      OBVIOUS
    <3>3. p \notin Unsupported(v)
      BY <2>1, <3>1, <3>2, Zenon
    <3> QED BY <1>4, <2>2, <3>3, KeptFacts DEF Replaced
  <2>4. p \in DOMAIN t => /\ t[p].kind # "error"
                          /\ IsString(t[p]) => t[p].len <= FieldLimit(p) + 3
    BY <2>1 DEF IsSanitized, IsSane, FieldsAreLimited, IsBounded
  <2>5. FieldLimit(p) \in ShortestLimit..(MaxStringBytes - 3)
    BY <1>5, LimitRange
  <2>6. \A l \in ShortestLimit..(MaxStringBytes - 3) :
          (p \in DOMAIN t => t[p].kind # "error" /\ (IsString(t[p]) => t[p].len <= l + 3))
          /\ IsString(v[p]) => v[p].len <= l + 3
    BY <1>1, <2>3, VisitLeaf
  <2>7. IsString(v[p])
    BY <2>1, <2>3
  <2> HIDE DEF v
  <2>8. v[p].len <= FieldLimit(p) + 3
    BY <2>4, <2>5, <2>6, <2>7, Zenon
  <2> QED BY <2>3, <2>8
<1>6. FieldsAreLimited(s)
  BY <1>5 DEF FieldsAreLimited
<1>7. \A key, w : Holds(t, key, w) => Holds(s, key, w)
  BY <1>1, SanitizingReduces DEF s
<1>8. Keeps(t, s)
  BY <1>1, SanitizingKeeps DEF s
<1> QED BY <1>2, <1>6, <1>7, <1>8 DEF Reduces, s
-----------------------------------------------------------------------------
(***************************************************************************)
(* TruncateLargestEventStrings.                                            *)
(***************************************************************************)
IsEvent(e) == DOMAIN e = {"name", "distinctID", "properties", "groups"}

\* A text of which nothing is left to redact.
IsCleanText(v) == IsLeaf(v) /\ IsClean(v)

\* What cutting leaves of an event: all but its name and its properties, and of the name
\* it leaves nothing that was redacted.
Shortens(e, r) ==
    /\ IsEvent(r) /\ r.distinctID = e.distinctID /\ r.groups = e.groups
    /\ IsCleanText(e.name) => IsCleanText(r.name)
    /\ Reduces(e.properties, r.properties)

\* What is saved of a string is at most half of it.
LEMMA SavingRange ==
    ASSUME NEW l, l.len \in Nat, NEW all, NEW excess
    PROVE  Saving(l, all, excess) \in {0} \cup SmallestSaving..(l.len \div 2)
<1> DEFINE remaining == excess - SumFunction([m \in {m \in all : CutBefore(m, l)} |-> m.len \div 2])
           half      == l.len \div 2
           reduction == IF remaining \in 0..half THEN remaining
                        ELSE IF remaining > 0 THEN half ELSE 0
<1>1. half \in Nat
  OBVIOUS
<1>2. Saving(l, all, excess) = IF reduction >= SmallestSaving THEN reduction ELSE 0
  BY DEF Saving
<1> HIDE DEF half, remaining
<1>3. reduction \in 0..half
  BY <1>1
<1> HIDE DEF reduction
<1>4. \A r, h \in Nat : r >= 10 /\ r \in 0..h => r \in 10..h
  OBVIOUS
<1>5. reduction \in Nat /\ (reduction >= 10 => reduction \in 10..half)
  BY <1>1, <1>3, <1>4
<1> QED BY <1>2, <1>5 DEF half, SmallestSaving

\* A round leaves a clean name clean: it is cut to no less than a token is long.
LEMMA RoundKeepsClean ==
    ASSUME NEW e, IsEvent(e), IsSanitized(e.properties), IsCleanText(e.name)
    PROVE  IsCleanText(CutRound(e).name)
<1> DEFINE all    == Locations(e)
           excess == EventJSONSize(e) - MaxEventBytes + Slack
           saving == [l \in all |-> Saving(l, all, excess)]
           named  == {l \in all : l.path = <<EventKey>> /\ saving[l] > 0}
           shortest == CHOOSE l \in named : \A m \in named : l.len - saving[l] <= m.len - saving[m]
           left(l) == l.len - saving[l]
           r      == CutRound(e)
<1>1. PICK s : r = [e EXCEPT
                       !.properties = s,
                       !.name = IF named = {} THEN @
                                ELSE TruncateUTF8(@, shortest.len - saving[shortest])]
  BY Zenon DEF CutRound
<1>2. r.name = IF named = {} THEN e.name
               ELSE TruncateUTF8(e.name, shortest.len - saving[shortest])
  <2>1. \A x, y : [e EXCEPT !.properties = x, !.name = y].name = y
    BY DEF IsEvent
  <2> HIDE DEF named, shortest, saving
  <2> QED BY <1>1, <2>1
<1>3. ASSUME NEW l \in all  PROVE l.len \in Nat /\ l.len > 100
  <2>1. CASE \E p \in Cuttable(e) : l = [path |-> p, len |-> e.properties[p].len, name |-> FALSE]
    <3>1. PICK p \in Cuttable(e) :
             l = [path |-> p, len |-> e.properties[p].len, name |-> FALSE]
      BY <2>1
    <3>2. e.properties[p].len \in Nat /\ e.properties[p].len > 100
      BY LeafFields DEF Cuttable, IsSanitized, IsSane, ShortestCut
    <3> QED BY <3>1, <3>2
  <2>2. CASE l = [path |-> <<EventKey>>, len |-> e.name.len, name |-> TRUE]
             /\ e.name.len > ShortestCut
    BY <2>2, LeafFields DEF IsCleanText, ShortestCut
  <2> QED BY <1>3, <2>1, <2>2 DEF Locations
<1>4. ASSUME NEW l \in all  PROVE left(l) \in Nat /\ left(l) >= 24
  <2>1. saving[l] \in {0} \cup 10..(l.len \div 2)
    BY <1>3, SavingRange DEF SmallestSaving
  <2>2. \A n \in Nat : \A k \in {0} \cup 10..(n \div 2) :
           n > 100 => n - k \in Nat /\ n - k >= 24
    OBVIOUS
  <2> HIDE DEF saving, all
  <2> QED BY <1>3, <2>1, <2>2
<1>5. CASE named = {}
  BY <1>2, <1>5
<1>6. CASE named # {}
  <2> DEFINE S == {left(l) : l \in named}
             max == shortest.len - saving[shortest]
  <2>1. S \subseteq Nat /\ S # {}
    BY <1>4, <1>6
  <2>2. PICK x \in S : \A y \in S : x <= y
    BY <2>1, Smallest
  <2>3. \E l \in named : \A m \in named : l.len - saving[l] <= m.len - saving[m]
    BY <2>2
  <2>4. shortest \in named
    BY <2>3
  <2>5. max \in Nat /\ max >= ShortestToken
    BY <1>4, <2>4 DEF ShortestToken
  <2>6. r.name = TruncateUTF8(e.name, max)
    BY <1>2, <1>6
  <2> HIDE DEF max, r
  <2>7. IsLeaf(r.name) /\ IsClean(r.name)
    BY <2>5, <2>6, Truncated DEF IsCleanText
  <2> QED BY <2>7 DEF IsCleanText, r
<1> QED BY <1>5, <1>6

LEMMA RoundShortens ==
    ASSUME NEW e, IsEvent(e), IsSanitized(e.properties), FieldsAreLimited(e.properties)
    PROVE  Shortens(e, CutRound(e))
<1> DEFINE t      == e.properties
           all    == Locations(e)
           excess == EventJSONSize(e) - MaxEventBytes + Slack
           saving == [l \in all |-> Saving(l, all, excess)]
           at(p)  == [path |-> p, len |-> t[p].len, name |-> FALSE]
           shorter(p) == IF at(p) \in all /\ p # <<EventKey>> /\ saving[at(p)] > 0
                         THEN TruncateUTF8(t[p], t[p].len - saving[at(p)])
                         ELSE t[p]
           s      == [p \in DOMAIN t |-> shorter(p)]
<1> DEFINE r == CutRound(e)
<1>1. PICK name : r = [e EXCEPT !.properties = s, !.name = name]
  BY DEF CutRound
<1>2. \A x, y : LET f == [e EXCEPT !.properties = x, !.name = y]
                IN  /\ IsEvent(f) /\ f.distinctID = e.distinctID /\ f.groups = e.groups
                    /\ f.properties = x
  BY DEF IsEvent
<1>3. ASSUME NEW p \in DOMAIN t, at(p) \in all
      PROVE  IsString(t[p]) /\ t[p].len > ShortestCut
  BY <1>3 DEF Locations, Cuttable
<1>4. ASSUME NEW p \in DOMAIN t
      PROVE  /\ IsSane(s[p]) /\ s[p].kind = t[p].kind /\ s[p].names = t[p].names
             /\ ~(IsString(t[p]) /\ t[p].len > ShortestLimit) => s[p] = t[p]
             /\ IsBounded(t, p) => s[p].len <= FieldLimit(p) + 3
  <2> DEFINE v == t[p]
             k == saving[at(p)]
  <2>1. IsSane(v) /\ v.len \in Nat
    BY LeafFields DEF IsSanitized, IsSane
  <2>2. IsBounded(t, p) => v.len <= FieldLimit(p) + 3 /\ FieldLimit(p) \in Nat
    BY LimitRange DEF FieldsAreLimited
  <2>3. CASE at(p) \in all /\ p # <<EventKey>> /\ k > 0
    <3>1. s[p] = TruncateUTF8(v, v.len - k)
      BY <2>3
    <3>2. IsString(v) /\ v.len > 100
      BY <1>3, <2>3 DEF ShortestCut
    <3>3. k \in {0} \cup 10..(v.len \div 2)
      <4>1. at(p).len = v.len
        OBVIOUS
      <4>2. k = Saving(at(p), all, excess)
        BY <2>3
      <4> QED BY <2>1, <4>1, <4>2, SavingRange DEF SmallestSaving
    <3> HIDE DEF v, k, s
    <3>4. k \in 10..(v.len \div 2)
      BY <2>3, <3>3
    <3>5. \A n \in Nat : \A m \in 10..(n \div 2) :
             n > 100 => n - m \in Nat /\ n - m >= 24 /\ (n - m) + 3 <= n
      OBVIOUS
    <3> DEFINE max == v.len - k
    <3>6. max \in Nat /\ max >= ShortestToken /\ max + 3 <= v.len
      BY <2>1, <3>2, <3>4, <3>5 DEF ShortestToken
    <3>7. s[p] = TruncateUTF8(v, max)
      BY <3>1
    <3> HIDE DEF max
    <3>8. /\ IsSane(s[p]) /\ s[p].kind = v.kind /\ s[p].names = v.names
          /\ s[p].len <= max + 3 /\ s[p].len \in Nat
      BY <2>1, <3>6, <3>7, CutSane
    <3>9. s[p].len <= v.len
      BY <2>1, <3>6, <3>8
    <3>10. v.len > ShortestLimit
      BY <3>2 DEF ShortestLimit
    <3>11. IsBounded(t, p) => s[p].len <= FieldLimit(p) + 3
      BY <2>1, <2>2, <3>8, <3>9
    <3> QED BY <3>2, <3>8, <3>10, <3>11 DEF v
  <2>4. CASE ~(at(p) \in all /\ p # <<EventKey>> /\ k > 0)
    <3>1. s[p] = v
      BY <2>4
    <3> QED BY <2>1, <2>2, <3>1
  <2> QED BY <2>3, <2>4
<1>5. DOMAIN s = DOMAIN t
  OBVIOUS
<1> HIDE DEF s
<1>6. Reduces(t, s)
  BY <1>4, <1>5, CuttingReduces
<1> HIDE DEF r
<1>7. IsEvent(r) /\ r.distinctID = e.distinctID /\ r.groups = e.groups /\ r.properties = s
  BY <1>1, <1>2
<1>8. IsCleanText(e.name) => IsCleanText(r.name)
  BY RoundKeepsClean DEF r
<1> QED BY <1>6, <1>7, <1>8 DEF Shortens, r

LEMMA ShortensAgain ==
    ASSUME NEW e, NEW f, NEW r, Shortens(e, f), Shortens(f, r)
    PROVE  Shortens(e, r)
BY KeepsAgain DEF Shortens, Reduces

\* The rounds are those of a function, given here by its values: no induction is needed
\* for a fixed number of them.
LEMMA TenRounds ==
    ASSUME NEW e
    PROVE  \E round :
              /\ round[0] = [e EXCEPT !.properties = SanitizeValue(@, MaxDepth)]
              /\ \A i \in 1..10 : round[i] = IF Fits(round[i - 1]) THEN round[i - 1]
                                             ELSE CutRound(round[i - 1])
              /\ TruncateLargestEventStrings(e) = round[10]
<1> DEFINE copy    == [e EXCEPT !.properties = SanitizeValue(@, MaxDepth)]
           step(f) == IF Fits(f) THEN f ELSE CutRound(f)
           round[i \in 0..Attempts] ==
               IF i = 0 THEN copy
               ELSE LET last == round[i - 1] IN IF Fits(last) THEN last ELSE CutRound(last)
<1>1. TruncateLargestEventStrings(e) = round[10]
  BY Zenon DEF TruncateLargestEventStrings, Attempts
<1> DEFINE c1  == step(copy)
           c2  == step(c1)
           c3  == step(c2)
           c4  == step(c3)
           c5  == step(c4)
           c6  == step(c5)
           c7  == step(c6)
           c8  == step(c7)
           c9  == step(c8)
           c10 == step(c9)
           value == <<c1, c2, c3, c4, c5, c6, c7, c8, c9, c10>>
           f     == [i \in 0..Attempts |-> IF i = 0 THEN copy ELSE value[i]]
<1>2. \A x : step(x) = IF Fits(x) THEN x ELSE CutRound(x)
  OBVIOUS
<1> HIDE DEF copy, step
<1>3. \A i \in 0..10 : f[i] = IF i = 0 THEN copy ELSE step(f[i - 1])
  BY DEF Attempts
<1>4. f = [i \in 0..Attempts |->
               IF i = 0 THEN copy
               ELSE LET last == f[i - 1] IN IF Fits(last) THEN last ELSE CutRound(last)]
  <2>1. f = [i \in 0..Attempts |-> f[i]]
    OBVIOUS
  <2> HIDE DEF f
  <2>2. \A i \in 0..10 : f[i] = IF i = 0 THEN copy
                               ELSE IF Fits(f[i - 1]) THEN f[i - 1] ELSE CutRound(f[i - 1])
    BY <1>2, <1>3
  <2> QED BY <2>1, <2>2 DEF Attempts
<1> HIDE DEF f
<1>5. round = [i \in 0..Attempts |->
                   IF i = 0 THEN copy
                   ELSE LET last == round[i - 1] IN IF Fits(last) THEN last ELSE CutRound(last)]
  BY <1>4
<1> HIDE DEF round
<1>6. round[0] = copy /\ \A i \in 1..10 : round[i] = IF Fits(round[i - 1]) THEN round[i - 1]
                                                     ELSE CutRound(round[i - 1])
  <2>1. \A i \in 0..10 : round[i] = IF i = 0 THEN copy
                                   ELSE IF Fits(round[i - 1]) THEN round[i - 1]
                                   ELSE CutRound(round[i - 1])
    BY <1>5 DEF Attempts
  <2>2. \A i \in 1..10 : i \in 0..10 /\ i # 0
    OBVIOUS
  <2>3. 0 \in 0..10
    OBVIOUS
  <2> QED BY <2>1, <2>2, <2>3
<1> QED BY <1>1, <1>6 DEF copy

LEMMA CuttingShortens ==
    ASSUME NEW e, IsEvent(e), IsSanitized(e.properties), FieldsAreLimited(e.properties),
           \A p \in DOMAIN e.properties : Len(p) <= 1
    PROVE  Shortens(e, TruncateLargestEventStrings(e))
<1> DEFINE copy == [e EXCEPT !.properties = SanitizeValue(@, MaxDepth)]
<1>1. PICK round :
         /\ round[0] = copy
         /\ \A i \in 1..10 : round[i] = IF Fits(round[i - 1]) THEN round[i - 1]
                                        ELSE CutRound(round[i - 1])
         /\ TruncateLargestEventStrings(e) = round[10]
  BY TenRounds
<1>2. Shortens(e, copy)
  <2> DEFINE t == SanitizeValue(e.properties, MaxDepth)
  <2>1. copy = [e EXCEPT !.properties = t]
    OBVIOUS
  <2>2. Reduces(e.properties, t)
    BY SanitizingAgain
  <2> HIDE DEF t, copy
  <2>3. IsEvent(copy) /\ copy.distinctID = e.distinctID /\ copy.groups = e.groups
        /\ copy.properties = t /\ copy.name = e.name
    BY <2>1 DEF IsEvent
  <2> QED BY <2>2, <2>3 DEF Shortens
<1> HIDE DEF copy
<1>3. ASSUME NEW f, Shortens(e, f)  PROVE Shortens(e, CutRound(f))
  <2>1. Shortens(f, CutRound(f))
    BY <1>3, RoundShortens DEF Shortens, Reduces
  <2> QED BY <1>3, <2>1, ShortensAgain
<1>4. /\ Shortens(e, round[0])
      /\ \A i \in 1..10 : Shortens(e, round[i - 1]) => Shortens(e, round[i])
  BY <1>1, <1>2, <1>3
<1>5. /\ Shortens(e, round[0]) => Shortens(e, round[1])
      /\ Shortens(e, round[1]) => Shortens(e, round[2])
      /\ Shortens(e, round[2]) => Shortens(e, round[3])
      /\ Shortens(e, round[3]) => Shortens(e, round[4])
      /\ Shortens(e, round[4]) => Shortens(e, round[5])
      /\ Shortens(e, round[5]) => Shortens(e, round[6])
      /\ Shortens(e, round[6]) => Shortens(e, round[7])
      /\ Shortens(e, round[7]) => Shortens(e, round[8])
      /\ Shortens(e, round[8]) => Shortens(e, round[9])
      /\ Shortens(e, round[9]) => Shortens(e, round[10])
  BY <1>4
<1> QED BY <1>1, <1>4, <1>5
-----------------------------------------------------------------------------
(***************************************************************************)
(* TruncateEventToSize and SanitizeAndBoundEvent.                          *)
(***************************************************************************)
LEMMA Greatest ==
    ASSUME NEW T, NEW n \in Nat, T \subseteq 1..n, T # {}
    PROVE  \E d \in T : \A f \in T : f <= d
<1> DEFINE S == {n - d : d \in T}
<1>1. S \subseteq Nat /\ S # {}
  <2>1. \A d \in T : d \in 1..n /\ n - d \in Nat
    OBVIOUS
  <2> QED BY <2>1
<1>2. PICK x \in S : \A y \in S : x <= y
  BY <1>1, Smallest
<1>3. PICK d \in T : x = n - d
  BY <1>2
<1>4. ASSUME NEW f \in T  PROVE f <= d
  <2>1. n - f \in S
    OBVIOUS
  <2>2. n - d <= n - f
    BY <1>2, <1>3, <2>1
  <2> QED BY <2>2
<1> QED BY <1>4

LEMMA BoundingShortens ==
    ASSUME NEW e, IsEvent(e), IsSanitized(e.properties), FieldsAreLimited(e.properties)
    PROVE  Shortens(e, TruncateEventToSize(e))
<1> DEFINE reduced(depth) == [e EXCEPT !.properties = NormalizeProperties(@, depth)]
           fitting == {depth \in 1..(MaxDepth - 1) : Fits(reduced(depth))}
           r == TruncateEventToSize(e)
           greatest == CHOOSE d \in fitting : \A f \in fitting : f <= d
<1>1. r = IF Fits(e) THEN e
          ELSE IF fitting # {} THEN reduced(greatest)
          ELSE TruncateLargestEventStrings(reduced(1))
  BY DEF TruncateEventToSize
<1> HIDE DEF r
<1>2. ASSUME NEW d \in 1..MaxDepth
      PROVE  /\ Shortens(e, reduced(d))
             /\ \A p \in DOMAIN reduced(d).properties : Len(p) <= d
  <2> DEFINE t == NormalizeProperties(e.properties, d)
             f == reduced(d)
  <2>1. f = [e EXCEPT !.properties = t]
    OBVIOUS
  <2>2. Reduces(e.properties, t) /\ \A p \in DOMAIN t : Len(p) <= d
    BY NormalizingReduces DEF IsSanitized
  <2> HIDE DEF t, f
  <2>3. IsEvent(f) /\ f.distinctID = e.distinctID /\ f.groups = e.groups
        /\ f.properties = t /\ f.name = e.name
    BY <2>1 DEF IsEvent
  <2> QED BY <2>2, <2>3 DEF Shortens, f
<1>3. fitting \subseteq 1..(MaxDepth - 1) /\ MaxDepth \in Nat \ {0}
  BY SanitizerAssumption
<1> HIDE DEF reduced, fitting
<1>4. CASE Fits(e)
  <2>1. r = e
    BY <1>1, <1>4
  <2> QED BY <2>1 DEF Shortens, Reduces, Keeps, r
<1>5. CASE ~Fits(e) /\ fitting # {}
  <2>1. \E d \in fitting : \A f \in fitting : f <= d
    <3>1. MaxDepth - 1 \in Nat
      BY <1>3
    <3> QED BY <1>3, <1>5, <3>1, Greatest
  <2>2. greatest \in fitting
    BY <2>1
  <2> HIDE DEF greatest
  <2>3. greatest \in 1..MaxDepth
    BY <1>3, <2>2
  <2>4. Shortens(e, reduced(greatest))
    BY <1>2, <2>3
  <2>5. r = reduced(greatest)
    BY <1>1, <1>5
  <2> QED BY <2>4, <2>5 DEF r
<1>6. CASE ~Fits(e) /\ fitting = {}
  <2> DEFINE f == reduced(1)
  <2>1. Shortens(e, f) /\ \A p \in DOMAIN f.properties : Len(p) <= 1
    <3>1. 1 \in 1..MaxDepth
      BY <1>3
    <3> QED BY <1>2, <3>1
  <2> HIDE DEF f
  <2>2. Shortens(f, TruncateLargestEventStrings(f))
    BY <2>1, CuttingShortens DEF Shortens, Reduces
  <2>3. r = TruncateLargestEventStrings(f)
    BY <1>1, <1>6 DEF f
  <2> QED BY <2>1, <2>2, <2>3, ShortensAgain DEF r
<1> QED BY <1>4, <1>5, <1>6

\* sanitizeAndBoundEvent keeps the contract for every event: what it leaves is sanitized
\* and within all limits of strings, depth, breadth and fields, in the properties and in
\* the groups, its name and its distinct id are clean, and no value is lost that it has nothing to do with.
THEOREM BoundedEvent ==
    ASSUME NEW e, IsEvent(e), IsTree(e.properties), IsTree(e.groups), IsLeaf(e.distinctID),
           IsLeaf(e.name)
    PROVE  LET r == SanitizeAndBoundEvent(e)
           IN  /\ Reduces(e.properties, r.properties)
               /\ r.groups = SanitizeValue(e.groups, MaxDepth) /\ IsSanitized(r.groups)
               /\ r.distinctID = TruncateUTF8(SanitizeString(e.distinctID), MaxStringBytes)
               /\ IsClean(r.name) /\ IsClean(r.distinctID)
<1> DEFINE name  == TruncateUTF8(SanitizeString(e.name), MaxStringBytes)
           id    == TruncateUTF8(SanitizeString(e.distinctID), MaxStringBytes)
           props == NormalizeProperties(e.properties, MaxDepth)
           grps  == SanitizeValue(e.groups, MaxDepth)
           f == [e EXCEPT !.name = name, !.distinctID = id, !.properties = props, !.groups = grps]
<1>1. SanitizeAndBoundEvent(e) = TruncateEventToSize(f)
  BY DEF SanitizeAndBoundEvent
<1>2. MaxDepth \in 1..MaxDepth
  BY SanitizerAssumption
<1>3. Reduces(e.properties, props) /\ IsSanitized(grps)
  BY <1>2, NormalizingReduces, SanitizedTree
<1>6. IsCleanText(name) /\ IsCleanText(id)
  <2>1. /\ IsLeaf(SanitizeString(e.name)) /\ IsClean(SanitizeString(e.name))
        /\ IsLeaf(SanitizeString(e.distinctID)) /\ IsClean(SanitizeString(e.distinctID))
    BY Sanitized
  <2>2. MaxStringBytes \in Nat /\ MaxStringBytes >= ShortestToken
    BY SanitizerAssumption DEF ShortestToken, ShortestLimit
  <2> QED BY <2>1, <2>2, Truncated DEF IsCleanText
<1> HIDE DEF name, id, props, grps
<1>4. /\ IsEvent(f) /\ f.distinctID = id /\ f.groups = grps /\ f.properties = props
      /\ f.name = name
  BY DEF IsEvent
<1> HIDE DEF f
<1>5. Shortens(f, TruncateEventToSize(f))
  BY <1>3, <1>4, BoundingShortens DEF Reduces
<1> QED BY <1>1, <1>3, <1>4, <1>5, <1>6, ReducesAgain
       DEF Shortens, Reduces, IsCleanText, id, grps
-----------------------------------------------------------------------------
(***************************************************************************)
(* What sanitizing leaves alone, and trees without depth.                  *)
(***************************************************************************)
\* A value no further sanitizing changes, as it is when it is no longer than a limit
\* and the mark of the cut.
IsFinal(v) ==
    /\ IsLeaf(v) /\ v.kind \in {"text", "scalar", "badnumber", "mark"}
    /\ v.kind \in {"text", "mark"} =>
          /\ v.secret = 0 /\ (v.binary => v.len < Base64SizeGate)
          /\ v.len > MaxStringBytes => v.len = MaxStringBytes + 3 /\ ~v.binary

LEMMA FinalUnchanged ==
    ASSUME NEW v, IsFinal(v)
    PROVE  Normalized(v) = v
<1>1. v \in Leaves /\ v.len \in Nat /\ MaxStringBytes \in Nat /\ v.binary \in BOOLEAN
  BY LeafFields, SanitizerAssumption DEF IsFinal
<1>2. CASE v.kind \in {"scalar", "badnumber"}
  BY <1>2 DEF Normalized, IsString
<1>3. CASE v.kind \in {"text", "mark"}
  <2>1. \A w \in Leaves : LET kind == IF w.kind = "mark" THEN w.kind ELSE "text"
                          IN  w.kind \in {"text", "mark"} => [w EXCEPT !.kind = kind] = w
    BY DEF Leaves
  <2>2. Normalized(v) = TruncateUTF8(SanitizeString(v), MaxStringBytes)
    BY <1>1, <1>3, <2>1 DEF Normalized, IsString
  <2>3. SanitizeString(v) = v
    <3>1. v.secret = 0 /\ ~(v.binary /\ v.len >= Base64SizeGate)
      BY <1>1, <1>3, SanitizerAssumption DEF IsFinal
    <3> QED BY <3>1 DEF SanitizeString
  <2>4. TruncateUTF8(v, MaxStringBytes) = v
    <3>1. CASE v.len <= MaxStringBytes
      BY <3>1 DEF TruncateUTF8
    <3>2. CASE ~(v.len <= MaxStringBytes)
      <4> DEFINE len == MaxStringBytes + 3
                 sec == 0
                 bin == FALSE
      <4>1. v.len = len /\ v.binary = bin /\ v.secret = sec
        BY <1>1, <1>3, <3>2 DEF IsFinal
      <4>2. TruncateUTF8(v, MaxStringBytes) = [v EXCEPT !.len = len, !.secret = sec, !.binary = bin]
        BY <1>1, <3>2, <4>1 DEF TruncateUTF8
      <4>3. \A w \in Leaves : w.len = len /\ w.secret = sec /\ w.binary = bin
               => [w EXCEPT !.len = len, !.secret = sec, !.binary = bin] = w
        <5> HIDE DEF len, sec, bin
        <5> QED BY DEF Leaves
      <4> QED BY <1>1, <4>1, <4>2, <4>3
    <3> QED BY <3>1, <3>2
  <2> QED BY <2>2, <2>3, <2>4
<1> QED BY <1>2, <1>3 DEF IsFinal

\* What truncateUTF8 changes.
LEMMA TruncatedFields ==
    ASSUME NEW v, IsLeaf(v), NEW max \in Nat
    PROVE  LET u == TruncateUTF8(v, max)
           IN  /\ v.len <= max => u = v
               /\ v.len > max => u.len = max + 3 /\ ~u.binary
               /\ u.kind = v.kind /\ u.width = v.width
               /\ v.secret = 0 => u.secret = 0
<1> DEFINE u   == TruncateUTF8(v, max)
           sec == IF v.secret <= max THEN v.secret ELSE max
           len == max + 3
           bin == FALSE
<1>1. v \in Leaves /\ v.len \in Nat /\ v.secret \in Nat
  BY LeafFields
<1>2. v.len <= max => u = v
  BY DEF TruncateUTF8
<1>3. CASE v.len > max
  <2>1. u = [v EXCEPT !.len = len, !.secret = sec, !.binary = bin]
    BY <1>1, <1>3 DEF TruncateUTF8
  <2>2. \A w \in Leaves :
           LET x == [w EXCEPT !.len = len, !.secret = sec, !.binary = bin]
           IN  x.len = len /\ x.binary = bin /\ x.kind = w.kind /\ x.width = w.width
               /\ x.secret = sec
    <3> HIDE DEF len, sec, bin
    <3> QED BY DEF Leaves
  <2> HIDE DEF u
  <2>3. u.len = len /\ u.binary = bin /\ u.kind = v.kind /\ u.width = v.width /\ u.secret = sec
    BY <1>1, <2>1, <2>2
  <2>4. v.secret = 0 => sec = 0
    OBVIOUS
  <2>5. ~(v.len <= max)
    BY <1>1, <1>3
  <2> HIDE DEF sec
  <2> QED BY <1>3, <2>3, <2>4, <2>5 DEF u, len, bin
<1>4. CASE ~(v.len > max)
  BY <1>1, <1>2, <1>4
<1> QED BY <1>3, <1>4

\* Once cut, a final value is final.
LEMMA CutFinal ==
    ASSUME NEW v, IsFinal(v), NEW max \in Nat, max >= ShortestToken, max + 3 <= MaxStringBytes
    PROVE  IsFinal(TruncateUTF8(v, max))
<1> DEFINE u == TruncateUTF8(v, max)
<1>1. IsLeaf(v) /\ v.len \in Nat /\ MaxStringBytes \in Nat
  BY LeafFields, SanitizerAssumption DEF IsFinal
<1>2. /\ v.len <= max => u = v
      /\ v.len > max => u.len = max + 3 /\ ~u.binary
      /\ u.kind = v.kind /\ (v.secret = 0 => u.secret = 0)
  BY <1>1, TruncatedFields
<1>3. IsLeaf(u)
  BY <1>1, Truncated
<1> HIDE DEF u
<1>4. CASE v.len <= max
  BY <1>2, <1>4 DEF u
<1>5. CASE v.len > max
  <2>1. u.len = max + 3 /\ ~u.binary /\ ~(u.len > MaxStringBytes)
    BY <1>1, <1>2, <1>5
  <2> QED BY <1>2, <1>3, <2>1 DEF IsFinal, u
<1> QED BY <1>1, <1>4, <1>5

\* Short marks are final; so is what visit leaves of a sane value that holds nothing.
LEMMA MarkFinal ==
    ASSUME NEW n \in 0..65
    PROVE  IsFinal(Mark(n)) /\ Mark(n).len = n
<1>1. IsLeaf(Mark(n)) /\ Mark(n).kind = "mark" /\ Mark(n).len = n /\ Mark(n).secret = 0
  BY MarkType DEF IsClean
<1>2. n < Base64SizeGate /\ ~(n > MaxStringBytes)
  BY SanitizerAssumption DEF ShortestLimit
<1> QED BY <1>1, <1>2 DEF IsFinal

LEMMA NormalizedFinal ==
    ASSUME NEW v, IsSane(v), ~IsContainer(v)
    PROVE  IsFinal(Normalized(v))
<1>1. IsLeaf(v) /\ v.kind \in {"text", "message", "scalar", "badnumber", "mark"}
  BY DEF IsSane, IsContainer
<1>2. CASE v.kind \in {"scalar", "badnumber"}
  <2>1. Normalized(v) = v
    BY <1>2 DEF Normalized, IsString
  <2> QED BY <1>1, <1>2, <2>1 DEF IsFinal
<1>3. CASE v.kind \in {"text", "message", "mark"}
  <2> DEFINE kind == IF v.kind = "mark" THEN "mark" ELSE "text"
             w == [v EXCEPT !.kind = kind]
             x == SanitizeString(w)
             u == TruncateUTF8(x, MaxStringBytes)
  <2>1. Normalized(v) = u
    BY <1>3 DEF Normalized, IsString
  <2>2. IsLeaf(w) /\ w.kind \in {"text", "mark"}
    <3>1. kind \in Kinds /\ kind \in {"text", "mark"}
      BY DEF Kinds
    <3> HIDE DEF kind
    <3> QED BY <1>1, <3>1, LeafOfKind
  <2> HIDE DEF w
  <2>3. IsLeaf(x) /\ IsClean(x) /\ x.kind \in {"text", "mark"}
    BY <2>2, Sanitized
  <2> HIDE DEF x
  <2>4. MaxStringBytes \in Nat /\ MaxStringBytes >= ShortestToken
    BY SanitizerAssumption DEF ShortestLimit, ShortestToken
  <2>5. IsLeaf(u)
    BY <2>3, <2>4, Truncated
  <2>6. /\ x.len <= MaxStringBytes => u = x
        /\ x.len > MaxStringBytes => u.len = MaxStringBytes + 3 /\ ~u.binary
        /\ u.kind = x.kind /\ (x.secret = 0 => u.secret = 0)
    BY <2>3, <2>4, TruncatedFields
  <2> HIDE DEF u
  <2>7. IsFinal(u)
    <3>1. x.len \in Nat
      BY <2>3, LeafFields
    <3>2. CASE x.len <= MaxStringBytes
      BY <2>3, <2>4, <2>6, <3>1, <3>2 DEF IsFinal, IsClean
    <3>3. CASE x.len > MaxStringBytes
      BY <2>3, <2>4, <2>5, <2>6, <3>1, <3>3 DEF IsFinal, IsClean
    <3> QED BY <2>4, <3>1, <3>2, <3>3
  <2> QED BY <2>1, <2>7
<1> QED BY <1>1, <1>2, <1>3

-----------------------------------------------------------------------------
\* Properties without depth and without anything more to sanitize.
IsFlat(t) ==
    /\ IsTree(t)
    /\ \A p \in DOMAIN t : Len(p) = 1 /\ IsFinal(t[p])

\* The top of what Visit leaves without depth, of what has been sanitized before.
LEMMA VisitFlat ==
    ASSUME NEW t, IsSanitized(t), NEW p \in DOMAIN Visit(t, 1), Len(p) = 1
    PROVE  IsFinal(Visit(t, 1)[p])
<1> DEFINE v     == Visit(t, 1)
           marks == OverflowMarks(t, Overflow(t))
<1>1. v[p] = IF p \in marks THEN Omission
             ELSE IF IsSecret(t, p) THEN Redacted
             ELSE IF t[p].kind \in {"map", "slice", "backmap", "backslice"} /\ Len(p) >= 1
                  THEN Cut(t[p])
             ELSE IF t[p].kind \in {"backmap", "backslice"} THEN Circular
             ELSE Normalized(t[p])
  BY DEF Visit
<1>2. IsFinal(Omission) /\ IsFinal(Redacted) /\ IsFinal(Circular) /\ IsFinal(Cut(t[p]))
  BY MarkFinal DEF Omission, Redacted, Circular, Cut
<1>3. CASE p \in marks \/ t[p].kind \in {"map", "slice"}
  BY <1>1, <1>2, <1>3
<1>4. CASE p \notin marks /\ ~(t[p].kind \in {"map", "slice"})
  <2>1. p \in DOMAIN t
    <3>1. IsTree(t) /\ 1 \in Nat
      BY DEF IsSanitized
    <3> QED BY <1>4, <3>1, VisitTree
  <2>2. IsSane(t[p]) /\ ~IsContainer(t[p])
    BY <1>4, <2>1 DEF IsSanitized, IsContainer
  <2>3. IsFinal(Normalized(t[p]))
    BY <2>2, NormalizedFinal
  <2> QED BY <1>1, <1>2, <2>3
<1> QED BY <1>3, <1>4

LEMMA SingleKey ==
    ASSUME NEW p \in Seq(Int), Len(p) = 1
    PROVE  p[1] \in Int /\ p = <<p[1]>>
<1>1. p[1] \in Int
  OBVIOUS
<1>2. p = <<p[1]>>
  BY <1>1
<1> QED BY <1>1, <1>2

\* A tree of paths no longer than one has only paths of that length.
LEMMA TopOnly ==
    ASSUME NEW t, IsTree(t), \A p \in DOMAIN t : Len(p) <= 1
    PROVE  /\ \A p \in DOMAIN t : Len(p) = 1 /\ p = <<p[1]>> /\ p[1] \in Int
           /\ Children(t, <<>>) = DOMAIN t
<1>1. ASSUME NEW p \in DOMAIN t  PROVE Len(p) = 1 /\ p = <<p[1]>> /\ p[1] \in Int /\ p \in Paths
  <2>1. p \in Paths /\ Len(p) \in Nat \ {0} /\ Len(p) <= 1
    BY TreeFacts, PathParent
  <2>2. \A n \in Nat \ {0} : n <= 1 => n = 1
    OBVIOUS
  <2>3. Len(p) = 1 /\ p \in Seq(Int)
    BY <2>1, <2>2 DEF Paths
  <2> QED BY <2>1, <2>3, SingleKey
<1>2. ASSUME NEW p \in DOMAIN t  PROVE Parent(p) = <<>>
  BY <1>1, PathParent
<1>3. <<>> \in Seq(Int)
  BY EmptySeq
<1> QED BY <1>1, <1>2, <1>3, TreeFacts, ChildrenByParent

\* normalizeProperties without depth.
LEMMA NormalizedFlat ==
    ASSUME NEW t, IsSanitized(t)
    PROVE  LET s == NormalizeProperties(t, 1)
           IN  /\ IsFlat(s) /\ IsSanitized(s)
               /\ Cardinality(DOMAIN s) > MaxBreadth =>
                     <<EllipsisKey>> \in DOMAIN s /\ s[<<EllipsisKey>>] = Omission
<1> DEFINE r == SanitizeValue(t, 1)
           s == NormalizeProperties(t, 1)
<1>1. IsTree(t) /\ 1 \in Nat /\ 1 \in 1..MaxDepth
  BY SanitizerAssumption DEF IsSanitized
<1>2. IsSanitized(s) /\ IsTree(s) /\ \A p \in DOMAIN s : Len(p) <= 1
  BY <1>1, NormalizingReduces DEF Reduces
<1>3. IsSanitized(r) /\ IsTree(r) /\ s = ApplyFieldLimits(r)
  BY <1>1, SanitizedTree DEF NormalizeProperties, IsSanitized
<1>4. /\ DOMAIN s = DOMAIN r
      /\ \A p \in DOMAIN r :
            s[p] = IF IsBounded(r, p) THEN TruncateUTF8(r[p], FieldLimit(p)) ELSE r[p]
  BY <1>3 DEF ApplyFieldLimits
<1> HIDE DEF s
<1>5. \A p \in DOMAIN s : Len(p) = 1
  BY <1>2, TopOnly
<1>6. ASSUME NEW p \in DOMAIN s  PROVE IsFinal(s[p])
  <2>1. IsFinal(r[p])
    BY <1>1, <1>4, <1>5, TopOfVisit, VisitFlat
  <2>2. CASE IsBounded(r, p)
    <3> DEFINE max == FieldLimit(p)
    <3>1. max \in Nat /\ max >= ShortestToken /\ max \in ShortestLimit..(MaxStringBytes - 3)
      BY <2>2, LimitRange
    <3>2. s[p] = TruncateUTF8(r[p], max)
      BY <1>4, <2>2
    <3> HIDE DEF max
    <3>3. max + 3 <= MaxStringBytes
      BY <3>1, SanitizerAssumption
    <3> QED BY <2>1, <3>1, <3>2, <3>3, CutFinal
  <2>3. CASE ~IsBounded(r, p)
    BY <1>4, <2>1, <2>3
  <2> QED BY <2>2, <2>3
<1>7. ASSUME Cardinality(DOMAIN s) > MaxBreadth
      PROVE  <<EllipsisKey>> \in DOMAIN s /\ s[<<EllipsisKey>>] = Omission
  <2> DEFINE m == <<EllipsisKey>>
  <2>1. Children(r, <<>>) = DOMAIN s
    BY <1>2, <1>3, <1>4, TopOnly
  <2>2. m \in DOMAIN r /\ r[m] = Omission
    BY <1>1, <1>7, <2>1, FullIsMarked
  <2>3. CASE IsBounded(r, m)
    <3>1. FieldLimit(m) \in Nat /\ FieldLimit(m) \in ShortestLimit..(MaxStringBytes - 3)
      BY <2>3, LimitRange
    <3>2. Omission.len = 17
      BY MarkFinal DEF Omission
    <3>3. Omission.len <= FieldLimit(m)
      BY <3>1, <3>2, SanitizerAssumption DEF ShortestLimit
    <3> QED BY <1>4, <2>2, <2>3, <3>3 DEF TruncateUTF8
  <2> QED BY <1>4, <2>2, <2>3
<1> QED BY <1>2, <1>5, <1>6, <1>7 DEF IsFlat, s

\* Sanitizing it once more changes nothing, though it may leave out a key.
LEMMA SanitizedFlat ==
    ASSUME NEW t, IsFlat(t), IsSanitized(t),
           Cardinality(DOMAIN t) > MaxBreadth =>
              <<EllipsisKey>> \in DOMAIN t /\ t[<<EllipsisKey>>] = Omission
    PROVE  LET s == SanitizeValue(t, MaxDepth)
           IN  /\ IsFlat(s)
               /\ DOMAIN s \subseteq DOMAIN t /\ \A p \in DOMAIN s : s[p] = t[p]
<1> DEFINE v     == Visit(t, MaxDepth)
           s     == SanitizeValue(t, MaxDepth)
           marks == OverflowMarks(t, Overflow(t))
           m     == <<EllipsisKey>>
<1>1. /\ IsTree(t) /\ MaxDepth \in Nat /\ MaxDepth \in 1..MaxDepth /\ 1 \in Nat
      /\ \A p \in DOMAIN t : Len(p) <= 1
  <2>1. \A n : n = 1 => n <= 1
    OBVIOUS
  <2>2. \A p \in DOMAIN t : Len(p) <= 1
    BY <2>1, Zenon DEF IsFlat
  <2>3. MaxDepth \in Nat /\ MaxDepth \in 1..MaxDepth
    BY SanitizerAssumption
  <2> QED BY <2>2, <2>3 DEF IsFlat
<1>2. IsTree(s) /\ \A p \in DOMAIN s : Len(p) <= 1
  BY <1>1, SanitizedTree, SanitizedDepth DEF IsSanitized
<1>3. \A p \in DOMAIN s : Len(p) = 1 /\ p = <<p[1]>>
  BY <1>2, TopOnly
<1>4. ASSUME NEW p \in DOMAIN s  PROVE p \in DOMAIN t /\ s[p] = t[p]
  <2>1. p \in DOMAIN v /\ s[p] = v[p] /\ Len(p) = 1
    BY <1>1, <1>3, TopOfVisit
  <2>2. v[p] = IF p \in marks THEN Omission
               ELSE IF IsSecret(t, p) THEN Redacted
               ELSE IF t[p].kind \in {"map", "slice", "backmap", "backslice"} /\ Len(p) >= MaxDepth
                    THEN Cut(t[p])
               ELSE IF t[p].kind \in {"backmap", "backslice"} THEN Circular
               ELSE Normalized(t[p])
    BY <2>1 DEF Visit
  <2>3. CASE p \in marks
    <3>1. PICK o \in Overflow(t) :
             /\ Parent(p) = Parent(o)
             /\ Last(p) = IF Parent(o) = <<>> \/ t[Parent(o)].kind = "map"
                          THEN EllipsisKey ELSE MaxBreadth + 1
      BY <1>1, <2>3, MarkFacts
    <3>2. Parent(p) = <<>>
      BY <1>2, <2>1, TreeFacts, PathParent
    <3>3. p = m
      BY <1>3, <2>1, <3>1, <3>2 DEF Last
    <3>4. Cardinality(DOMAIN t) > MaxBreadth
      <4> DEFINE S == {x \in Children(t, Parent(o)) : Last(x) < Last(o)}
      <4>1. o \in Children(t, Parent(o)) /\ Cardinality(S) >= MaxBreadth
        BY <1>1, OverflowFacts, TreeFacts, ChildrenByParent
      <4>2. Children(t, Parent(o)) = DOMAIN t /\ IsFiniteSet(DOMAIN t)
        BY <1>1, <3>1, <3>2, TopOnly, TreeFacts
      <4>3. S \in SUBSET DOMAIN t /\ o \in DOMAIN t /\ o \notin S
        <5>1. o \in Paths
          BY <1>1, <4>1, <4>2, TreeFacts
        <5>2. Last(o) \in Int
          BY <5>1, PathParent
        <5> QED BY <4>1, <4>2, <5>2
      <4> HIDE DEF S
      <4>4. IsFiniteSet(S) /\ Cardinality(S \cup {o}) = Cardinality(S) + 1 /\ Cardinality(S) \in Nat
        BY <4>2, <4>3, FS_Subset, FS_AddElement, FS_CardinalityType
      <4>5. Cardinality(S \cup {o}) <= Cardinality(DOMAIN t) /\ Cardinality(DOMAIN t) \in Nat
        BY <4>2, <4>3, FS_Subset, FS_CardinalityType
      <4> QED BY <4>1, <4>4, <4>5, SanitizerAssumption
    <3> QED BY <2>1, <2>2, <2>3, <3>3, <3>4
  <2>4. CASE p \notin marks
    <3>1. p \in DOMAIN t
      BY <1>1, <2>1, <2>4, VisitTree
    <3>2. IsFinal(t[p])
      BY <3>1 DEF IsFlat
    <3>3. Normalized(t[p]) = t[p] /\ t[p].kind \in {"text", "scalar", "badnumber", "mark"}
      BY <3>2, FinalUnchanged DEF IsFinal
    <3>4. IsSecret(t, p) => t[p] = Redacted
      BY <3>1 DEF IsSecret, IsSanitized, IsPrivate
    <3> QED BY <2>1, <2>2, <2>4, <3>1, <3>3, <3>4
  <2> QED BY <2>3, <2>4
<1> QED BY <1>2, <1>3, <1>4 DEF IsFlat
-----------------------------------------------------------------------------
(***************************************************************************)
(* The order in which the strings of an event without depth are cut.       *)
(***************************************************************************)
\* A finite set in which before tells what precedes each element: any part of it has a
\* first element, and what precedes one has a last.
IsOrdered(L, before) ==
    /\ IsFiniteSet(L)
    /\ \A l \in L : before[l] \in SUBSET L /\ l \notin before[l]
    /\ \A l \in L : \A m \in before[l] : before[m] \subseteq before[l]

LEMMA FirstOf ==
    ASSUME NEW L, NEW before, IsOrdered(L, before), NEW B \in SUBSET L, B # {}
    PROVE  \E l \in B : \A m \in B : m \notin before[l]
<1> DEFINE counts == {Cardinality(before[l]) : l \in B}
<1>1. \A l \in L : IsFiniteSet(before[l]) /\ Cardinality(before[l]) \in Nat
  BY FS_Subset, FS_CardinalityType DEF IsOrdered
<1>2. counts \subseteq Nat /\ counts # {}
  BY <1>1
<1>3. PICK c \in counts : \A k \in counts : c <= k
  BY <1>2, Smallest
<1>4. PICK l \in B : c = Cardinality(before[l])
  BY <1>3
<1>5. ASSUME NEW m \in B, m \in before[l]  PROVE FALSE
  <2>1. before[m] \in SUBSET before[l] /\ m \notin before[m]
    BY <1>5 DEF IsOrdered
  <2>2. before[m] # before[l]
    BY <1>5, <2>1
  <2>3. /\ Cardinality(before[m]) <= Cardinality(before[l])
        /\ Cardinality(before[m]) # Cardinality(before[l])
    BY <1>1, <2>1, <2>2, FS_Subset
  <2>4. Cardinality(before[l]) <= Cardinality(before[m])
    BY <1>3, <1>4
  <2>5. Cardinality(before[l]) \in Nat /\ Cardinality(before[m]) \in Nat
    BY <1>1
  <2> QED BY <2>3, <2>4, <2>5
<1> QED BY <1>5

LEMMA LastOf ==
    ASSUME NEW L, NEW before, IsOrdered(L, before),
           \A l, m \in L : l = m \/ l \in before[m] \/ m \in before[l],
           NEW l \in L, before[l] # {}
    PROVE  \E m \in before[l] : before[l] = before[m] \cup {m}
<1> DEFINE after == [k \in L |-> {m \in L : k \in before[m]}]
           B == before[l]
<1>1. IsOrdered(L, after)
  BY DEF IsOrdered
<1>2. B \in SUBSET L /\ B # {}
  BY DEF IsOrdered
<1>3. PICK m \in B : \A k \in B : k \notin after[m]
  <2> HIDE DEF after, B
  <2> QED BY <1>1, <1>2, FirstOf
<1>4. \A k \in B : k = m \/ k \in before[m]
  BY <1>2, <1>3
<1>5. before[m] \subseteq B
  BY DEF IsOrdered
<1> QED BY <1>4, <1>5

\* The places of strings that may be cut, the name of the event under its key.
Spots(x)      == DOMAIN x.properties \cup {<<EventKey>>}
ValueAt(x, p) == IF p = <<EventKey>> THEN x.name ELSE x.properties[p]
PlaceAt(x, p) == [path |-> p, len |-> ValueAt(x, p).len, name |-> p = <<EventKey>>]

\* An event without depth, whose properties have no key "$event".
IsPlainEvent(x) ==
    /\ IsEvent(x)
    /\ IsFiniteSet(DOMAIN x.properties) /\ <<EventKey>> \notin DOMAIN x.properties
    /\ \A p \in DOMAIN x.properties :
          /\ p \in Seq(Int) /\ Len(p) = 1
          /\ IsLeaf(x.properties[p]) /\ x.properties[p].kind \in {"text", "scalar", "mark"}
    /\ IsLeaf(x.name) /\ x.name.kind \in {"text", "mark"}
    /\ IsLeaf(x.distinctID)
    /\ IsTree(x.groups) /\ ~Unmarshalable(x.groups)

LEMMA PlaceFacts ==
    ASSUME NEW x, IsPlainEvent(x)
    PROVE  /\ IsFiniteSet(Spots(x))
           /\ Cardinality(Spots(x)) = Cardinality(DOMAIN x.properties) + 1
           /\ Cardinality(DOMAIN x.properties) \in Nat
           /\ \A p \in Spots(x) :
                 /\ p \in Seq(Int) /\ Len(p) = 1 /\ p[1] \in Int /\ p = <<p[1]>>
                 /\ IsLeaf(ValueAt(x, p)) /\ ValueAt(x, p).len \in Nat
                 /\ ValueAt(x, p).kind \in {"text", "scalar", "mark"}
           /\ \A l : l \in Locations(x) <=>
                 \E p \in Spots(x) :
                    /\ l = PlaceAt(x, p)
                    /\ IsString(ValueAt(x, p)) /\ ValueAt(x, p).len > ShortestCut
           /\ \A l \in Locations(x) :
                 /\ l.path \in Spots(x) /\ l = PlaceAt(x, l.path)
                 /\ l.len = ValueAt(x, l.path).len /\ l.len \in Nat /\ l.len > 100
                 /\ IsString(ValueAt(x, l.path))
<1> DEFINE t == x.properties
           e == <<EventKey>>
<1>1. IsFiniteSet(DOMAIN t) /\ e \notin DOMAIN t
  BY DEF IsPlainEvent
<1>2. /\ IsFiniteSet(Spots(x)) /\ Cardinality(Spots(x)) = Cardinality(DOMAIN t) + 1
      /\ Cardinality(DOMAIN t) \in Nat
  <2>1. Spots(x) = DOMAIN t \cup {e}
    BY DEF Spots
  <2> HIDE DEF t, e
  <2> QED BY <1>1, <2>1, FS_AddElement, FS_CardinalityType
<1>3. e \in Seq(Int) /\ Len(e) = 1
  BY DEF EventKey
<1>4. ASSUME NEW p \in Spots(x)
      PROVE  /\ p \in Seq(Int) /\ Len(p) = 1 /\ p[1] \in Int /\ p = <<p[1]>>
             /\ IsLeaf(ValueAt(x, p)) /\ ValueAt(x, p).len \in Nat
             /\ ValueAt(x, p).kind \in {"text", "scalar", "mark"}
  <2>1. p \in Seq(Int) /\ Len(p) = 1
    BY <1>3 DEF Spots, IsPlainEvent
  <2>2. IsLeaf(ValueAt(x, p)) /\ ValueAt(x, p).kind \in {"text", "scalar", "mark"}
    BY DEF Spots, IsPlainEvent, ValueAt
  <2> QED BY <2>1, <2>2, LeafFields, SingleKey
<1>5. ASSUME NEW l
      PROVE  l \in Locations(x) <=>
                \E p \in Spots(x) :
                    /\ l = PlaceAt(x, p)
                    /\ IsString(ValueAt(x, p)) /\ ValueAt(x, p).len > ShortestCut
  <2>1. IsString(x.name)
    BY DEF IsPlainEvent, IsString
  <2>2. ASSUME NEW p \in DOMAIN t
        PROVE  /\ ValueAt(x, p) = t[p] /\ p \in Spots(x)
               /\ PlaceAt(x, p) = [path |-> p, len |-> t[p].len, name |-> FALSE]
    BY <1>1 DEF ValueAt, PlaceAt, Spots
  <2>3. /\ ValueAt(x, e) = x.name /\ e \in Spots(x)
        /\ PlaceAt(x, e) = [path |-> e, len |-> x.name.len, name |-> TRUE]
    BY DEF ValueAt, PlaceAt, Spots
  <2>4. l \in Locations(x) <=>
           \/ \E p \in DOMAIN t : /\ IsString(t[p]) /\ t[p].len > ShortestCut
                                  /\ l = [path |-> p, len |-> t[p].len, name |-> FALSE]
           \/ x.name.len > ShortestCut /\ l = [path |-> e, len |-> x.name.len, name |-> TRUE]
    BY DEF Locations, Cuttable
  <2>5. \A p \in Spots(x) : p \in DOMAIN t \/ p = e
    BY DEF Spots
  <2> HIDE DEF t, e
  <2> QED BY <2>1, <2>2, <2>3, <2>4, <2>5
<1>6. ASSUME NEW l \in Locations(x)
      PROVE  /\ l.path \in Spots(x) /\ l = PlaceAt(x, l.path)
             /\ l.len = ValueAt(x, l.path).len /\ l.len \in Nat /\ l.len > 100
             /\ IsString(ValueAt(x, l.path))
  <2>1. PICK p \in Spots(x) : /\ l = PlaceAt(x, p)
                              /\ IsString(ValueAt(x, p)) /\ ValueAt(x, p).len > ShortestCut
    BY <1>5
  <2>2. l.path = p /\ l.len = ValueAt(x, p).len
    BY <2>1 DEF PlaceAt
  <2> QED BY <1>4, <2>1, <2>2 DEF ShortestCut
<1> QED BY <1>2, <1>4, <1>5, <1>6

\* The locations, each with those that are cut before it.
Preceding(x) == [l \in Locations(x) |-> {m \in Locations(x) : CutBefore(m, l)}]

LEMMA CutOrder ==
    ASSUME NEW x, IsPlainEvent(x)
    PROVE  LET L == Locations(x)  before == Preceding(x)
           IN  /\ IsOrdered(L, before)
               /\ \A l, m \in L : l = m \/ l \in before[m] \/ m \in before[l]
               /\ Cardinality(L) <= Cardinality(DOMAIN x.properties) + 1
               /\ Cardinality(L) \in Nat
<1> DEFINE L == Locations(x)
           before == Preceding(x)
<1>1. /\ IsFiniteSet(L) /\ Cardinality(L) <= Cardinality(DOMAIN x.properties) + 1
      /\ Cardinality(L) \in Nat
  <2> DEFINE f == [l \in L |-> l.path]
  <2>1. f \in [L -> Spots(x)] /\ \A l, m \in L : f[l] = f[m] => l = m
    BY PlaceFacts
  <2>2. f \in Injection(L, Spots(x))
    BY <2>1 DEF Injection, IsInjective
  <2> HIDE DEF f
  <2> QED BY <2>2, PlaceFacts, FS_Injection, FS_CardinalityType
<1>2. \A l \in L : /\ l.len \in Int /\ l.path[1] \in Int /\ l.path = <<l.path[1]>>
                   /\ l.path \in Seq(Int) /\ Len(l.path) = 1
  BY PlaceFacts
<1>3. ASSUME NEW l \in L, NEW m \in L
      PROVE  CutBefore(l, m) <=>
                l.len > m.len \/ (l.len = m.len /\ l.path[1] < m.path[1])
  <2> DEFINE p == l.path
             q == m.path
  <2>1. /\ p \in Seq(Int) /\ Len(p) = 1 /\ DOMAIN p = 1..1
        /\ q \in Seq(Int) /\ Len(q) = 1 /\ DOMAIN q = 1..1
    BY <1>2
  <2>2. ~IsBelow(q, p)
    BY <2>1 DEF IsBelow
  <2>3. PathBefore(p, q) <=> p[1] < q[1]
    <3>1. \A i \in DOMAIN p \cap DOMAIN q : i = 1 /\ 1..(i - 1) = {}
      BY <2>1
    <3>2. 1 \in DOMAIN p \cap DOMAIN q
      BY <2>1
    <3> HIDE DEF p, q
    <3> QED BY <2>2, <3>1, <3>2 DEF PathBefore
  <2>4. p = q => l = m
    BY PlaceFacts
  <2>5. m.name /\ ~l.name => l # m
    OBVIOUS
  <2> QED BY <2>3, <2>4, <2>5 DEF CutBefore
<1>4. \A l \in L : before[l] = {m \in L : CutBefore(m, l)}
  BY DEF Preceding
<1>5. \A l, m \in L : m \in before[l] <=>
         m.len > l.len \/ (m.len = l.len /\ m.path[1] < l.path[1])
  BY <1>3, <1>4
<1> HIDE DEF before
<1>6. \A l \in L : before[l] \in SUBSET L
  BY <1>4
<1>7. \A l \in L : l \notin before[l]
  BY <1>2, <1>5
<1>8. ASSUME NEW l \in L, NEW m \in before[l], NEW k \in before[m]  PROVE k \in before[l]
  <2>1. m \in L /\ k \in L
    BY <1>6
  <2>2. m.len > l.len \/ (m.len = l.len /\ m.path[1] < l.path[1])
    BY <1>5, <2>1
  <2>3. k.len > m.len \/ (k.len = m.len /\ k.path[1] < m.path[1])
    BY <1>5, <2>1
  <2>4. k.len > l.len \/ (k.len = l.len /\ k.path[1] < l.path[1])
    BY <1>2, <2>1, <2>2, <2>3
  <2> QED BY <1>5, <2>1, <2>4
<1>9. ASSUME NEW l \in L, NEW m \in L, l \notin before[m], m \notin before[l]  PROVE l = m
  <2>1. l.len = m.len /\ l.path[1] = m.path[1]
    BY <1>2, <1>5, <1>9
  <2>2. l.path = m.path
    BY <1>2, <2>1
  <2>3. l = PlaceAt(x, l.path) /\ m = PlaceAt(x, m.path)
    BY PlaceFacts
  <2> QED BY <2>2, <2>3
<1> QED BY <1>1, <1>6, <1>7, <1>8, <1>9 DEF IsOrdered, before
-----------------------------------------------------------------------------
(***************************************************************************)
(* One round of truncateLargestEventStrings: what it does at each place, and *)
(* what it saves.                                                          *)
(***************************************************************************)
\* What a round saves at a location of an event.
SavedAt(x, l) == Saving(l, Locations(x), EventJSONSize(x) - MaxEventBytes + Slack)

\* A round cuts each place by what is saved there.
LEMMA RoundAt ==
    ASSUME NEW x, IsPlainEvent(x)
    PROVE  LET y == CutRound(x)
           IN  /\ IsEvent(y) /\ y.distinctID = x.distinctID /\ y.groups = x.groups
               /\ DOMAIN y.properties = DOMAIN x.properties
               /\ \A p \in Spots(x) :
                     LET v == ValueAt(x, p)  l == PlaceAt(x, p)
                     IN  ValueAt(y, p) =
                            IF l \in Locations(x) /\ SavedAt(x, l) > 0
                            THEN TruncateUTF8(v, v.len - SavedAt(x, l)) ELSE v
<1> DEFINE t      == x.properties
           e      == <<EventKey>>
           all    == Locations(x)
           excess == EventJSONSize(x) - MaxEventBytes + Slack
           saving == [l \in all |-> Saving(l, all, excess)]
           named  == {l \in all : l.path = e /\ saving[l] > 0}
           at(p)  == [path |-> p, len |-> t[p].len, name |-> FALSE]
           shorter(p) == IF at(p) \in all /\ p # <<EventKey>> /\ saving[at(p)] > 0
                         THEN TruncateUTF8(t[p], at(p).len - saving[at(p)])
                         ELSE t[p]
           s      == [p \in DOMAIN t |-> shorter(p)]
           shortest == CHOOSE l \in named :
                          \A m \in named : l.len - saving[l] <= m.len - saving[m]
           name   == IF named = {} THEN x.name
                     ELSE TruncateUTF8(x.name, shortest.len - saving[shortest])
           y      == CutRound(x)
<1>1. y = [x EXCEPT !.properties = s, !.name = name]
  BY DEF CutRound
<1>2. \A a, b : LET f == [x EXCEPT !.properties = a, !.name = b]
                IN  /\ IsEvent(f) /\ f.distinctID = x.distinctID /\ f.groups = x.groups
                    /\ f.properties = a /\ f.name = b
  BY DEF IsEvent, IsPlainEvent
<1>3. \A l \in all : saving[l] = SavedAt(x, l)
  BY DEF SavedAt
<1>4. ASSUME NEW p \in DOMAIN t
      PROVE  s[p] = IF PlaceAt(x, p) \in all /\ SavedAt(x, PlaceAt(x, p)) > 0
                    THEN TruncateUTF8(ValueAt(x, p), ValueAt(x, p).len - SavedAt(x, PlaceAt(x, p)))
                    ELSE ValueAt(x, p)
  <2>1. p # e
    BY DEF IsPlainEvent
  <2>2. at(p) = PlaceAt(x, p) /\ ValueAt(x, p) = t[p] /\ at(p).len = t[p].len
    BY <2>1 DEF PlaceAt, ValueAt
  <2>3. s[p] = shorter(p)
    OBVIOUS
  <2> HIDE DEF s, saving, all
  <2> QED BY <1>3, <2>1, <2>2, <2>3
<1>5. name = IF PlaceAt(x, e) \in all /\ SavedAt(x, PlaceAt(x, e)) > 0
             THEN TruncateUTF8(x.name, x.name.len - SavedAt(x, PlaceAt(x, e)))
             ELSE x.name
  <2> DEFINE l == PlaceAt(x, e)
  <2>1. l.len = x.name.len /\ l.path = e
    BY DEF PlaceAt, ValueAt
  <2>2. \A m \in all : m.path = e => m = l
    BY PlaceFacts
  <2> HIDE DEF all, saving, l, e
  <2>3. CASE l \in all /\ SavedAt(x, l) > 0
    <3>1. named = {l}
      BY <1>3, <2>1, <2>2, <2>3
    <3> HIDE DEF named
    <3>2. l.len - saving[l] \in Int
      <4>1. saving[l] \in Int
        <5>1. l.len \in Nat
          BY <2>3, PlaceFacts DEF all
        <5>2. SavedAt(x, l) \in {0} \cup SmallestSaving..(l.len \div 2)
          BY <5>1, SavingRange DEF SavedAt
        <5> QED BY <1>3, <2>3, <5>1, <5>2 DEF SmallestSaving
      <4>2. l.len \in Nat
        BY <2>3, PlaceFacts DEF all
      <4> QED BY <4>1, <4>2
    <3>3. shortest = l
      BY <3>1, <3>2
    <3> HIDE DEF shortest
    <3>4. name = TruncateUTF8(x.name, shortest.len - saving[shortest])
      BY <3>1
    <3>5. saving[l] = SavedAt(x, l)
      BY <1>3, <2>3
    <3> HIDE DEF name
    <3> QED BY <2>1, <2>3, <3>3, <3>4, <3>5 DEF l
  <2>4. CASE ~(l \in all /\ SavedAt(x, l) > 0)
    <3>1. named = {}
      BY <1>3, <2>2, <2>4
    <3> QED BY <2>4, <3>1 DEF l
  <2> QED BY <2>3, <2>4 DEF l
<1> HIDE DEF y, s, name
<1>6. /\ IsEvent(y) /\ y.distinctID = x.distinctID /\ y.groups = x.groups
      /\ y.properties = s /\ y.name = name
  BY <1>1, <1>2
<1>7. DOMAIN s = DOMAIN t
  BY DEF s
<1>8. ASSUME NEW p \in Spots(x)
      PROVE  ValueAt(y, p) = IF PlaceAt(x, p) \in all /\ SavedAt(x, PlaceAt(x, p)) > 0
                             THEN TruncateUTF8(ValueAt(x, p),
                                               ValueAt(x, p).len - SavedAt(x, PlaceAt(x, p)))
                             ELSE ValueAt(x, p)
  <2>1. CASE p = e
    BY <1>5, <1>6, <2>1 DEF ValueAt
  <2>2. CASE p \in DOMAIN t
    <3>1. ValueAt(y, p) = s[p]
      BY <1>6, <2>2 DEF ValueAt, IsPlainEvent
    <3> QED BY <1>4, <2>2, <3>1
  <2> QED BY <2>1, <2>2 DEF Spots
<1> QED BY <1>6, <1>7, <1>8 DEF y

\* Each value keeps its kind and gets no longer; strings that are cut lose what is saved
\* and get the mark.
LEMMA RoundTrims ==
    ASSUME NEW x, IsPlainEvent(x)
    PROVE  LET y == CutRound(x)
           IN  /\ IsPlainEvent(y) /\ Spots(y) = Spots(x)
               /\ \A p \in Spots(x) :
                     LET v == ValueAt(x, p)  u == ValueAt(y, p)
                     IN  /\ IsLeaf(u) /\ u.kind = v.kind /\ u.width = v.width
                         /\ u.len <= v.len
                         /\ ~(IsString(v) /\ v.len > ShortestCut) => u = v
               /\ \A l \in Locations(x) :
                     ValueAt(y, l.path).len =
                        IF SavedAt(x, l) > 0 THEN l.len - SavedAt(x, l) + 3 ELSE l.len
<1> DEFINE y == CutRound(x)
<1>1. /\ IsEvent(y) /\ y.distinctID = x.distinctID /\ y.groups = x.groups
      /\ DOMAIN y.properties = DOMAIN x.properties
      /\ \A p \in Spots(x) :
            LET v == ValueAt(x, p)  l == PlaceAt(x, p)
            IN  ValueAt(y, p) = IF l \in Locations(x) /\ SavedAt(x, l) > 0
                                THEN TruncateUTF8(v, v.len - SavedAt(x, l)) ELSE v
  BY RoundAt
<1> HIDE DEF y
<1>2. ASSUME NEW p \in Spots(x), PlaceAt(x, p) \in Locations(x)
      PROVE  LET v == ValueAt(x, p)  u == ValueAt(y, p)  k == SavedAt(x, PlaceAt(x, p))
             IN  /\ IsLeaf(u) /\ u.kind = v.kind /\ u.width = v.width
                 /\ u.len <= v.len
                 /\ u.len = IF k > 0 THEN v.len - k + 3 ELSE v.len
  <2> DEFINE v == ValueAt(x, p)
             u == ValueAt(y, p)
             l == PlaceAt(x, p)
             k == SavedAt(x, l)
             n == v.len
  <2>1. IsLeaf(v) /\ n \in Nat /\ l.len = n /\ n > 100
    <3>1. l.path = p
      BY DEF PlaceAt
    <3> QED BY <1>2, <3>1, PlaceFacts
  <2>2. k \in {0} \cup 10..(n \div 2)
    BY <2>1, SavingRange DEF SavedAt, SmallestSaving
  <2>3. u = IF k > 0 THEN TruncateUTF8(v, n - k) ELSE v
    BY <1>1, <1>2
  <2> HIDE DEF u, k, l
  <2>4. CASE k > 0
    <3>1. k \in 10..(n \div 2)
      BY <2>2, <2>4
    <3> DEFINE max == n - k
    <3>2. \A m \in Nat : \A j \in 10..(m \div 2) :
             m > 100 => m - j \in Nat /\ m - j >= 24 /\ m > m - j /\ m - j + 3 <= m
      OBVIOUS
    <3> HIDE DEF v, n
    <3>3. max \in Nat /\ max >= ShortestToken /\ n > max /\ max + 3 <= n
      BY <2>1, <3>1, <3>2 DEF ShortestToken
    <3>4. u = TruncateUTF8(v, max)
      BY <2>3, <2>4
    <3> HIDE DEF max
    <3>5. IsLeaf(u) /\ u.kind = v.kind /\ u.width = v.width /\ u.len = max + 3
      BY <2>1, <3>3, <3>4, Truncated, TruncatedFields DEF n
    <3>6. u.len <= n
      BY <3>3, <3>5
    <3> QED BY <2>4, <3>5, <3>6 DEF max, n, v, u, k, l
  <2>5. CASE ~(k > 0)
    BY <2>1, <2>3, <2>5 DEF u, k, l
  <2> QED BY <2>4, <2>5
<1>3. ASSUME NEW p \in Spots(x)
      PROVE  LET v == ValueAt(x, p)  u == ValueAt(y, p)
             IN  /\ IsLeaf(u) /\ u.kind = v.kind /\ u.width = v.width
                 /\ u.len <= v.len
                 /\ ~(IsString(v) /\ v.len > ShortestCut) => u = v
  <2>1. CASE PlaceAt(x, p) \in Locations(x)
    <3>1. PlaceAt(x, p).path = p
      BY DEF PlaceAt
    <3>2. IsString(ValueAt(x, p)) /\ ValueAt(x, p).len > ShortestCut
      BY <2>1, <3>1, PlaceFacts DEF ShortestCut
    <3> QED BY <1>2, <2>1, <3>2
  <2>2. CASE PlaceAt(x, p) \notin Locations(x)
    <3>1. ValueAt(y, p) = ValueAt(x, p)
      BY <1>1, <2>2
    <3> QED BY <3>1, PlaceFacts
  <2> QED BY <2>1, <2>2
<1>4. Spots(y) = Spots(x)
  BY <1>1 DEF Spots
<1>5. IsPlainEvent(y)
  <2>1. \A p \in DOMAIN x.properties :
           p # <<EventKey>> /\ p \in Spots(x)
           /\ ValueAt(y, p) = y.properties[p] /\ ValueAt(x, p) = x.properties[p]
    BY DEF IsPlainEvent, Spots, ValueAt
  <2>2. <<EventKey>> \in Spots(x)
        /\ ValueAt(y, <<EventKey>>) = y.name /\ ValueAt(x, <<EventKey>>) = x.name
    BY DEF Spots, ValueAt
  <2>3. \A p \in DOMAIN x.properties :
           IsLeaf(y.properties[p]) /\ y.properties[p].kind = x.properties[p].kind
    BY <1>3, <2>1
  <2>4. IsLeaf(y.name) /\ y.name.kind = x.name.kind
    BY <1>3, <2>2
  <2> QED BY <1>1, <2>3, <2>4 DEF IsPlainEvent
<1>6. \A l \in Locations(x) :
         ValueAt(y, l.path).len =
            IF SavedAt(x, l) > 0 THEN l.len - SavedAt(x, l) + 3 ELSE l.len
  <2> SUFFICES ASSUME NEW l \in Locations(x)
               PROVE  ValueAt(y, l.path).len =
                         IF SavedAt(x, l) > 0 THEN l.len - SavedAt(x, l) + 3 ELSE l.len
    OBVIOUS
  <2>1. l.path \in Spots(x) /\ PlaceAt(x, l.path) = l /\ l.len = ValueAt(x, l.path).len
    BY PlaceFacts
  <2> QED BY <1>2, <2>1
<1> QED BY <1>3, <1>4, <1>5, <1>6 DEF y

\* The size of an event, place by place.
Weight(x)  == [p \in Spots(x) |-> IF p = <<EventKey>> THEN LeafBytes(x.name)
                                  ELSE KeyBytes + LeafBytes(x.properties[p])]
Around(x)  == EnvelopeBytes + LeafBytes(x.distinctID) + TreeBytes(x.groups)

LEMMA LeafSize ==
    ASSUME NEW v, IsLeaf(v)
    PROVE  LeafBytes(v) \in Nat
<1>1. v.len \in Nat /\ v.width \in Nat /\ ScalarBytes \in Nat
  BY LeafFields, TruncationAssumption
<1>2. v.len * v.width \in Nat
  <2>1. \A a, b \in Nat : a * b \in Nat
    OBVIOUS
  <2> QED BY <1>1, <2>1
<1> DEFINE n == v.len * v.width
<1>3. n \in Nat /\ n + 2 \in Nat
  BY <1>2
<1> QED BY <1>1, <1>3 DEF LeafBytes

LEMMA TreeSize ==
    ASSUME NEW t, IsFiniteSet(DOMAIN t), \A p \in DOMAIN t : IsLeaf(t[p])
    PROVE  /\ TreeBytes(t) \in Nat
           /\ TreeBytes(t) = SumFunctionOnSet([p \in DOMAIN t |-> KeyBytes + LeafBytes(t[p])], DOMAIN t)
<1> DEFINE g == [p \in DOMAIN t |-> KeyBytes + LeafBytes(t[p])]
<1>1. \A p \in DOMAIN t : g[p] \in Nat
  <2>1. KeyBytes \in Nat
    BY TruncationAssumption
  <2> QED BY <2>1, LeafSize
<1>2. DOMAIN g = DOMAIN t
  OBVIOUS
<1>3. TreeBytes(t) = SumFunctionOnSet(g, DOMAIN t)
  BY DEF TreeBytes, SumFunction
<1> HIDE DEF g
<1>4. SumFunctionOnSet(g, DOMAIN t) \in Nat
  BY <1>1, SumNat
<1> QED BY <1>3, <1>4 DEF g

LEMMA EventSize ==
    ASSUME NEW x, IsPlainEvent(x)
    PROVE  /\ EventJSONSize(x) = Around(x) + SumFunctionOnSet(Weight(x), Spots(x))
           /\ Around(x) \in Nat /\ EventJSONSize(x) \in Nat
           /\ \A p \in Spots(x) : Weight(x)[p] \in Nat
<1> DEFINE t == x.properties
           e == <<EventKey>>
           g == [p \in DOMAIN t |-> KeyBytes + LeafBytes(t[p])]
           w == Weight(x)
<1>1. IsFiniteSet(DOMAIN t) /\ e \notin DOMAIN t /\ \A p \in DOMAIN t : IsLeaf(t[p])
  BY DEF IsPlainEvent
<1>2. TreeBytes(t) \in Nat /\ TreeBytes(t) = SumFunctionOnSet(g, DOMAIN t)
  BY <1>1, TreeSize
<1>3. TreeBytes(x.groups) \in Nat
  BY TreeSize, TreeFacts DEF IsPlainEvent
<1>4. LeafBytes(x.name) \in Nat /\ LeafBytes(x.distinctID) \in Nat
  BY LeafSize DEF IsPlainEvent
<1>5. Spots(x) = DOMAIN t \cup {e}
  BY DEF Spots
<1>6. w[e] = LeafBytes(x.name) /\ \A p \in DOMAIN t : w[p] = g[p] /\ g[p] \in Nat
  <2>1. KeyBytes \in Nat
    BY TruncationAssumption
  <2> QED BY <1>1, <1>5, <2>1, LeafSize DEF Weight
<1> HIDE DEF w, g
<1>7. SumFunctionOnSet(w, DOMAIN t) = SumFunctionOnSet(g, DOMAIN t)
  BY <1>1, <1>6, SumAgree
<1>8. SumFunctionOnSet(w, Spots(x)) = LeafBytes(x.name) + SumFunctionOnSet(w, DOMAIN t)
  <2>1. \A p \in DOMAIN t \cup {e} : w[p] \in Int
    BY <1>4, <1>6
  <2> HIDE DEF e, t
  <2> QED BY <1>1, <1>5, <1>6, <2>1, SumInsert
<1>9. ~Unmarshalable(t) /\ ~Unmarshalable(x.groups)
  BY DEF IsPlainEvent, Unmarshalable
<1>10. EventJSONSize(x) = EnvelopeBytes + LeafBytes(x.name) + LeafBytes(x.distinctID)
                             + TreeBytes(t) + TreeBytes(x.groups)
  BY <1>9 DEF EventJSONSize
<1>11. EnvelopeBytes \in Nat
  BY TruncationAssumption
<1>12. \A p \in Spots(x) : w[p] \in Nat
  BY <1>4, <1>5, <1>6
<1> QED BY <1>2, <1>3, <1>4, <1>7, <1>8, <1>10, <1>11, <1>12 DEF Around, w

\* A shorter string takes fewer bytes, by at least as many as it is shorter.
LEMMA ShorterIsSmaller ==
    ASSUME NEW v, IsLeaf(v), NEW u, IsLeaf(u), v.kind \in {"text", "scalar", "mark"},
           u.kind = v.kind, u.width = v.width, u.len <= v.len
    PROVE  /\ LeafBytes(v) - LeafBytes(u) \in Nat
           /\ IsString(v) => v.len - u.len <= LeafBytes(v) - LeafBytes(u)
<1>1. v.len \in Nat /\ u.len \in Nat /\ v.width \in Nat \ {0} /\ ScalarBytes \in Nat
  BY LeafFields, TruncationAssumption
<1>2. CASE v.kind = "scalar"
  <2>1. LeafBytes(v) = ScalarBytes /\ LeafBytes(u) = ScalarBytes /\ ~IsString(v)
    BY <1>2 DEF LeafBytes, IsContainer, IsString
  <2> QED BY <1>1, <2>1
<1>3. CASE v.kind # "scalar"
  <2>1. LeafBytes(v) = v.len * v.width + 2 /\ LeafBytes(u) = u.len * v.width + 2
    BY <1>3 DEF LeafBytes, IsContainer, IsString
  <2>2. \A b, d, k \in Nat :
           /\ (b + d) * (k + 1) = b * (k + 1) + d * k + d
           /\ d * k \in Nat /\ b * (k + 1) \in Nat
    OBVIOUS
  <2>3. PICK d \in Nat : v.len = u.len + d
    <3>1. v.len - u.len \in Nat /\ v.len = u.len + (v.len - u.len)
      BY <1>1
    <3> QED BY <3>1
  <2>4. PICK k \in Nat : v.width = k + 1
    <3>1. v.width - 1 \in Nat /\ v.width = (v.width - 1) + 1
      BY <1>1
    <3> QED BY <3>1
  <2> DEFINE b == u.len
             bk == b * (k + 1)
             dk == d * k
  <2>5. /\ v.len * v.width = bk + dk + d /\ u.len * v.width = bk
        /\ bk \in Nat /\ dk \in Nat
    BY <1>1, <2>2, <2>3, <2>4
  <2> HIDE DEF bk, dk
  <2>6. LeafBytes(v) - LeafBytes(u) = dk + d
    BY <2>1, <2>5
  <2> QED BY <1>1, <2>3, <2>5, <2>6
<1> QED BY <1>2, <1>3

\* A round makes an event smaller by all that it takes from its strings, wherever one
\* counts.
LEMMA RoundSize ==
    ASSUME NEW x, IsPlainEvent(x), NEW gain, NEW A \in SUBSET Locations(x),
           \A l \in A : gain[l] = l.len - ValueAt(CutRound(x), l.path).len
    PROVE  /\ SumFunctionOnSet(gain, A) <= EventJSONSize(x) - EventJSONSize(CutRound(x))
           /\ EventJSONSize(CutRound(x)) <= EventJSONSize(x)
           /\ EventJSONSize(x) \in Nat /\ EventJSONSize(CutRound(x)) \in Nat
<1> DEFINE y    == CutRound(x)
           S    == Spots(x)
           diff == [p \in S |-> Weight(x)[p] - Weight(y)[p]]
<1>1. /\ IsPlainEvent(y) /\ Spots(y) = S
      /\ \A p \in S :
            LET v == ValueAt(x, p)  u == ValueAt(y, p)
            IN  /\ IsLeaf(u) /\ u.kind = v.kind /\ u.width = v.width
                /\ u.len <= v.len
  BY RoundTrims
<1>2. Around(y) = Around(x)
  BY RoundAt DEF Around
<1>3. /\ IsFiniteSet(S)
      /\ \A p \in S : IsLeaf(ValueAt(x, p)) /\ ValueAt(x, p).kind \in {"text", "scalar", "mark"}
      /\ \A l \in A : /\ l.path \in S /\ l = PlaceAt(x, l.path) /\ l.len = ValueAt(x, l.path).len
                      /\ l.len \in Nat /\ IsString(ValueAt(x, l.path))
  BY PlaceFacts
<1>4. /\ EventJSONSize(x) = Around(x) + SumFunctionOnSet(Weight(x), S)
      /\ EventJSONSize(y) = Around(x) + SumFunctionOnSet(Weight(y), S)
      /\ Around(x) \in Nat /\ EventJSONSize(x) \in Nat /\ EventJSONSize(y) \in Nat
      /\ \A p \in S : Weight(x)[p] \in Nat /\ Weight(y)[p] \in Nat
  BY <1>1, <1>2, EventSize
<1>5. ASSUME NEW p \in S
      PROVE  /\ diff[p] = LeafBytes(ValueAt(x, p)) - LeafBytes(ValueAt(y, p))
             /\ diff[p] \in Nat
             /\ IsString(ValueAt(x, p)) => ValueAt(x, p).len - ValueAt(y, p).len <= diff[p]
  <2> DEFINE v == ValueAt(x, p)
             u == ValueAt(y, p)
  <2>1. /\ LeafBytes(v) - LeafBytes(u) \in Nat
        /\ IsString(v) => v.len - u.len <= LeafBytes(v) - LeafBytes(u)
    BY <1>1, <1>3, ShorterIsSmaller
  <2>2. diff[p] = LeafBytes(v) - LeafBytes(u)
    <3>1. CASE p = <<EventKey>>
      BY <1>1, <3>1 DEF Weight, ValueAt
    <3>2. CASE p # <<EventKey>>
      <4>1. Weight(x)[p] = KeyBytes + LeafBytes(v) /\ Weight(y)[p] = KeyBytes + LeafBytes(u)
        BY <1>1, <3>2 DEF Weight, ValueAt
      <4>2. KeyBytes \in Nat /\ LeafBytes(v) \in Nat /\ LeafBytes(u) \in Nat
        BY <1>1, <1>3, LeafSize, TruncationAssumption
      <4>3. diff[p] = Weight(x)[p] - Weight(y)[p]
        OBVIOUS
      <4> HIDE DEF diff, u, v
      <4> QED BY <4>1, <4>2, <4>3
    <3> QED BY <3>1, <3>2
  <2> HIDE DEF diff
  <2> QED BY <2>1, <2>2
<1>6. SumFunctionOnSet(Weight(x), S)
         = SumFunctionOnSet(Weight(y), S) + SumFunctionOnSet(diff, S)
  <2>1. \A p \in S : Weight(y)[p] \in Int /\ diff[p] \in Int
                     /\ Weight(x)[p] = Weight(y)[p] + diff[p]
    BY <1>4
  <2> HIDE DEF diff
  <2> QED BY <1>3, <2>1, SumPlus
<1> HIDE DEF diff, y
<1>7. SumFunctionOnSet(gain, A) <= SumFunctionOnSet(diff, S)
  <2> DEFINE i == [l \in A |-> l.path]
  <2>1. IsFiniteSet(A)
    BY CutOrder, FS_Subset DEF IsOrdered
  <2>2. \A l \in A : gain[l] \in Int /\ i[l] \in S /\ gain[l] <= diff[i[l]]
    <3> SUFFICES ASSUME NEW l \in A  PROVE gain[l] \in Int /\ i[l] \in S /\ gain[l] <= diff[i[l]]
      OBVIOUS
    <3>1. i[l] = l.path /\ l.path \in S /\ l.len = ValueAt(x, l.path).len /\ IsString(ValueAt(x, l.path))
          /\ l.len \in Nat
      BY <1>3
    <3>2. gain[l] = l.len - ValueAt(y, l.path).len
      BY DEF y
    <3>3. ValueAt(y, l.path).len \in Nat
      BY <1>1, <3>1, LeafFields
    <3>4. gain[l] <= diff[l.path]
      BY <1>5, <3>1, <3>2
    <3> QED BY <3>1, <3>2, <3>3, <3>4
  <2>3. \A l, m \in A : i[l] = i[m] => l = m
    BY <1>3
  <2>4. \A p \in S : diff[p] \in Nat
    BY <1>5
  <2> HIDE DEF i
  <2> QED BY <1>3, <2>1, <2>2, <2>3, <2>4, SumInject
<1>8. SumFunctionOnSet(diff, S) \in Nat
  BY <1>3, <1>5, SumNat
<1>9. SumFunctionOnSet(Weight(y), S) \in Nat /\ SumFunctionOnSet(gain, A) \in Int
  <2>1. SumFunctionOnSet(Weight(y), S) \in Nat
    BY <1>3, <1>4, SumNat
  <2>2. IsFiniteSet(A)
    BY CutOrder, FS_Subset DEF IsOrdered
  <2>3. \A l \in A : gain[l] \in Int
    <3> SUFFICES ASSUME NEW l \in A  PROVE gain[l] \in Int
      OBVIOUS
    <3>1. gain[l] = l.len - ValueAt(y, l.path).len /\ l.len \in Nat /\ l.path \in S
      BY <1>3 DEF y
    <3>2. ValueAt(y, l.path).len \in Nat
      BY <1>1, <3>1, LeafFields
    <3> QED BY <3>1, <3>2
  <2> QED BY <2>1, <2>2, <2>3, SumInt
<1> QED BY <1>4, <1>6, <1>7, <1>8, <1>9 DEF y

\* What a round is to save, what it would save at each location, and what is left to
\* save when it is the turn of one.
Excess(x)       == EventJSONSize(x) - MaxEventBytes + Slack
Halves(x)       == [m \in Locations(x) |-> m.len \div 2]
Remaining(x, l) == Excess(x) - SumFunctionOnSet(Halves(x), Preceding(x)[l])

LEMMA SavedFacts ==
    ASSUME NEW x, IsPlainEvent(x), NEW l \in Locations(x)
    PROVE  LET half == l.len \div 2
               rem  == Remaining(x, l)
           IN  /\ rem \in Int /\ half \in Nat /\ half >= 50
               /\ rem >= half => SavedAt(x, l) = half
               /\ rem \in 0..half => SavedAt(x, l) = IF rem >= 10 THEN rem ELSE 0
<1> DEFINE all    == Locations(x)
           h      == Halves(x)
           before == {m \in all : CutBefore(m, l)}
           g      == [m \in before |-> m.len \div 2]
           excess == Excess(x)
           rem    == Remaining(x, l)
           half   == l.len \div 2
           reduction == IF rem \in 0..half THEN rem ELSE IF rem > 0 THEN half ELSE 0
<1>1. before = Preceding(x)[l] /\ before \in SUBSET all /\ IsFiniteSet(before)
  <2>1. before = Preceding(x)[l] /\ before \in SUBSET all
    BY DEF Preceding
  <2>2. IsFiniteSet(all)
    BY CutOrder DEF IsOrdered
  <2> HIDE DEF before
  <2> QED BY <2>1, <2>2, FS_Subset
<1>2. \A m \in all : m.len \in Nat /\ m.len > 100 /\ h[m] = m.len \div 2 /\ h[m] \in Nat
  BY PlaceFacts DEF Halves
<1>3. SumFunction(g) = SumFunctionOnSet(h, before)
  <2>1. SumFunction(g) = SumFunctionOnSet(g, before)
    BY DEF SumFunction
  <2>2. \A m \in before : g[m] = h[m]
    BY <1>1, <1>2
  <2> HIDE DEF g, h, before
  <2> QED BY <1>1, <2>1, <2>2, SumAgree
<1>4. rem = excess - SumFunction(g)
  <2>1. rem = excess - SumFunctionOnSet(h, Preceding(x)[l])
    BY DEF Remaining
  <2> HIDE DEF rem, excess, h, g, before
  <2> QED BY <1>1, <1>3, <2>1
<1>5. rem \in Int
  <2>1. SumFunctionOnSet(h, before) \in Int
    <3> HIDE DEF h, before
    <3> QED BY <1>1, <1>2, SumInt
  <2>2. EventJSONSize(x) \in Int /\ MaxEventBytes \in Int
    BY EventSize, TruncationAssumption
  <2>3. excess \in Int
    BY <2>2 DEF Excess, Slack
  <2> HIDE DEF h, before, g, excess
  <2> QED BY <1>3, <1>4, <2>1, <2>3
<1>6. SavedAt(x, l) = IF reduction >= 10 THEN reduction ELSE 0
  <2> DEFINE r2 == excess - SumFunction(g)
  <2>1. SavedAt(x, l) =
           LET red == IF r2 \in 0..half THEN r2 ELSE IF r2 > 0 THEN half ELSE 0
           IN  IF red >= SmallestSaving THEN red ELSE 0
    BY DEF SavedAt, Saving, Excess
  <2>2. r2 = rem
    BY <1>4
  <2> HIDE DEF r2, rem, half
  <2> QED BY <2>1, <2>2 DEF SmallestSaving
<1>7. half \in Nat /\ half >= 50
  BY <1>2
<1> HIDE DEF rem, half
<1>8. rem >= half => reduction = half
  BY <1>5, <1>7
<1>9. rem \in 0..half => reduction = rem
  BY <1>5, <1>7
<1> HIDE DEF reduction
<1>10. rem >= half => SavedAt(x, l) = half
  BY <1>6, <1>7, <1>8
<1>11. rem \in 0..half => SavedAt(x, l) = IF rem >= 10 THEN rem ELSE 0
  BY <1>6, <1>9
<1> QED BY <1>5, <1>7, <1>10, <1>11 DEF rem, half

\* Either a round halves every string that can be cut, or it saves all that is to be
\* saved, but for what is too little and the marks of n cuts.
LEMMA RoundSaves ==
    ASSUME NEW x, IsPlainEvent(x), ~Fits(x)
    PROVE  \/ \A l \in Locations(x) : SavedAt(x, l) = l.len \div 2
           \/ \E n \in Nat :
                 /\ n <= Cardinality(Locations(x))
                 /\ 50 * n <= EventJSONSize(x) - MaxEventBytes + 200
                 /\ EventJSONSize(CutRound(x)) <= MaxEventBytes - 191 + 3 * n
<1> DEFINE y      == CutRound(x)
           L      == Locations(x)
           before == Preceding(x)
           half   == Halves(x)
           X      == Excess(x)
           B      == {l \in L : ~(Remaining(x, l) >= l.len \div 2)}
<1>1. X \in Nat /\ X > 0 /\ X = EventJSONSize(x) - MaxEventBytes + 200 /\ EventJSONSize(x) \in Nat /\ MaxEventBytes \in Nat
  <2>1. EventJSONSize(x) \in Nat /\ MaxEventBytes \in Nat
    BY EventSize, TruncationAssumption
  <2>2. EventJSONSize(x) > MaxEventBytes
    BY <2>1 DEF Fits
  <2> QED BY <2>1, <2>2 DEF Excess, Slack
<1>2. IsOrdered(L, before) /\ \A l, m \in L : l = m \/ l \in before[m] \/ m \in before[l]
  BY CutOrder
<1>3. ASSUME NEW l \in L
      PROVE  /\ Remaining(x, l) = X - SumFunctionOnSet(half, before[l])
             /\ Remaining(x, l) \in Int /\ half[l] \in Nat /\ half[l] >= 50
             /\ half[l] = l.len \div 2
             /\ Remaining(x, l) >= half[l] => SavedAt(x, l) = half[l]
             /\ Remaining(x, l) \in 0..half[l] =>
                   SavedAt(x, l) = IF Remaining(x, l) >= 10 THEN Remaining(x, l) ELSE 0
  <2>1. half[l] = l.len \div 2
    BY DEF Halves
  <2>2. Remaining(x, l) = X - SumFunctionOnSet(half, before[l])
    BY DEF Remaining
  <2> HIDE DEF half, X, before
  <2> QED BY <2>1, <2>2, SavedFacts
<1> HIDE DEF half, X, before
<1>4. CASE B = {}
  BY <1>3, <1>4
<1>5. CASE B # {}
  <2>1. PICK l \in B : \A m \in B : m \notin before[l]
    <3>1. B \in SUBSET L
      OBVIOUS
    <3> HIDE DEF B, L
    <3> QED BY <1>2, <1>5, <3>1, FirstOf
  <2> DEFINE P   == before[l]
             rem == Remaining(x, l)
             n   == Cardinality(P)
  <2>2. l \in L /\ ~(rem >= half[l]) /\ P \in SUBSET L /\ l \notin P /\ IsFiniteSet(P) /\ n \in Nat
        /\ IsFiniteSet(L)
    BY <1>2, <1>3, FS_Subset, FS_CardinalityType DEF IsOrdered
  <2>3. \A m \in P : Remaining(x, m) >= half[m] /\ SavedAt(x, m) = half[m]
    BY <1>3, <2>1, <2>2
  <2>4. \A m \in L : half[m] \in Nat /\ half[m] >= 50
    BY <1>3
  <2>5. SumFunctionOnSet(half, P) \in Int /\ rem = X - SumFunctionOnSet(half, P) /\ rem \in Int
    BY <1>3, <2>2, <2>4, SumInt
  <2>6. rem >= 0
    <3>1. CASE P = {}
      <4>1. SumFunctionOnSet(half, P) = 0
        BY <3>1, SumEmpty
      <4> HIDE DEF P, rem
      <4> QED BY <1>1, <2>5, <4>1
    <3>2. CASE P # {}
      <4>1. PICK m \in P : P = before[m] \cup {m}
        <5> HIDE DEF L
        <5> QED BY <1>2, <2>2, <3>2, LastOf
      <4> DEFINE Q == before[m]
      <4>2. m \in L /\ IsFiniteSet(Q) /\ m \notin Q /\ Q \in SUBSET L
        BY <1>2, <2>2, FS_Subset DEF IsOrdered
      <4>3. SumFunctionOnSet(half, P) = half[m] + SumFunctionOnSet(half, Q)
        <5>1. \A k \in Q \cup {m} : half[k] \in Int
          BY <2>4, <4>2
        <5>2. P = Q \cup {m}
          BY <4>1
        <5> HIDE DEF P, Q
        <5> QED BY <4>2, <5>1, <5>2, SumInsert
      <4>4. Remaining(x, m) = X - SumFunctionOnSet(half, Q) /\ Remaining(x, m) >= half[m]
        BY <1>3, <2>3, <4>2
      <4>5. SumFunctionOnSet(half, Q) \in Int /\ half[m] \in Nat
        BY <2>4, <4>2, SumInt
      <4> HIDE DEF P, rem, Q
      <4> QED BY <1>1, <2>5, <4>3, <4>4, <4>5
    <3> QED BY <3>1, <3>2
  <2>7. rem \in 0..half[l]
    BY <2>2, <2>4, <2>5, <2>6
  <2>8. SavedAt(x, l) = IF rem >= 10 THEN rem ELSE 0
    BY <1>3, <2>2, <2>7
  <2> DEFINE A    == P \cup {l}
             gain == [m \in L |-> m.len - ValueAt(y, m.path).len]
             loss == [m \in L |-> -3]
             net  == [m \in L |-> half[m] + loss[m]]
  <2>9. \A m \in L : /\ m.len \in Nat
                     /\ ValueAt(y, m.path).len =
                           IF SavedAt(x, m) > 0 THEN m.len - SavedAt(x, m) + 3 ELSE m.len
    BY PlaceFacts, RoundTrims
  <2>10. \A m \in P : gain[m] = net[m] /\ net[m] = half[m] + loss[m] /\ loss[m] = -3
    <3> SUFFICES ASSUME NEW m \in P
                 PROVE  gain[m] = net[m] /\ net[m] = half[m] + loss[m] /\ loss[m] = -3
      OBVIOUS
    <3>1. m \in L /\ SavedAt(x, m) = half[m] /\ half[m] \in Nat /\ half[m] >= 50
      BY <2>2, <2>3, <2>4
    <3>2. gain[m] = m.len - ValueAt(y, m.path).len /\ loss[m] = -3 /\ net[m] = half[m] + loss[m]
      BY <3>1
    <3>3. m.len \in Nat /\ ValueAt(y, m.path).len = m.len - half[m] + 3
      BY <2>9, <3>1
    <3> HIDE DEF gain, loss, net, y
    <3> QED BY <3>1, <3>2, <3>3
  <2>11. gain[l] >= rem - 9 /\ gain[l] \in Int
    <3>1. gain[l] = l.len - ValueAt(y, l.path).len
      BY <2>2
    <3>2. l.len \in Nat /\ ValueAt(y, l.path).len =
                              IF SavedAt(x, l) > 0 THEN l.len - SavedAt(x, l) + 3 ELSE l.len
      BY <2>2, <2>9
    <3> HIDE DEF gain, y, rem
    <3> QED BY <2>5, <2>6, <2>8, <3>1, <3>2
  <2> HIDE DEF gain, loss, net
  <2>12. SumFunctionOnSet(gain, A) = gain[l] + SumFunctionOnSet(net, P)
    <3>1. \A m \in A : gain[m] \in Int
      BY <2>2, <2>4, <2>10, <2>11
    <3>2. SumFunctionOnSet(gain, A) = gain[l] + SumFunctionOnSet(gain, P)
      BY <2>2, <3>1, SumInsert
    <3>3. SumFunctionOnSet(gain, P) = SumFunctionOnSet(net, P)
      BY <2>2, <2>10, SumAgree
    <3> QED BY <3>2, <3>3
  <2>13. SumFunctionOnSet(net, P) = SumFunctionOnSet(half, P) + SumFunctionOnSet(loss, P)
    <3>1. \A m \in P : half[m] \in Int /\ loss[m] \in Int /\ net[m] = half[m] + loss[m]
      BY <2>2, <2>4, <2>10
    <3> HIDE DEF P
    <3> QED BY <2>2, <3>1, SumPlus
  <2>14. SumFunctionOnSet(loss, P) >= -3 * n /\ SumFunctionOnSet(loss, P) \in Int
    <3>1. \A m \in P : loss[m] \in Int /\ loss[m] >= -3
      BY <2>10
    <3>2. SumFunctionOnSet(loss, P) >= -3 * Cardinality(P)
      <4> HIDE DEF P
      <4> QED BY <2>2, <3>1, SumAtLeast
    <3> QED BY <2>2, <3>1, <3>2, SumInt
  <2>15. SumFunctionOnSet(half, P) >= 50 * n
    <3>1. \A m \in P : half[m] \in Int /\ half[m] >= 50
      BY <2>2, <2>4
    <3> HIDE DEF P
    <3> QED BY <2>2, <3>1, SumAtLeast
  <2>16. /\ SumFunctionOnSet(gain, A) <= EventJSONSize(x) - EventJSONSize(y)
         /\ EventJSONSize(y) \in Nat
    <3>1. A \in SUBSET L
      BY <2>2
    <3>2. \A m \in A : gain[m] = m.len - ValueAt(y, m.path).len
      BY <3>1 DEF gain
    <3> HIDE DEF A
    <3> QED BY <3>1, <3>2, RoundSize
  <2>17. n <= Cardinality(L)
    BY <2>2, FS_Subset
  <2> HIDE DEF P, rem, n, A, y, L
  <2>18. EventJSONSize(y) <= MaxEventBytes - 191 + 3 * n
    <3>1. EventJSONSize(x) = X + MaxEventBytes - 200
      BY <1>1
    <3> QED BY <1>1, <2>2, <2>5, <2>11, <2>12, <2>13, <2>14, <2>16, <3>1
  <2>19. 50 * n <= X
    BY <1>1, <2>2, <2>5, <2>6, <2>15
  <2> QED BY <1>1, <2>2, <2>17, <2>18, <2>19 DEF L, y
<1> QED BY <1>4, <1>5
-----------------------------------------------------------------------------
(***************************************************************************)
(* Ten rounds are enough for whatever can be made to fit.                  *)
(***************************************************************************)
\* How far an event is from the budget: within it, or with no string much longer than c;
\* or close to the budget, so that one more round that does not halve them all is enough.
MostOver == 2815
Near(c, x) ==
    \/ Fits(x)
    \/ \A l \in Locations(x) : l.len <= 7 + c
    \/ /\ EventJSONSize(x) - MaxEventBytes <= MostOver
       /\ \A l \in Locations(x) : l.len <= 7 + 2 * c

\* What rounds have made of an event: all that has changed is strings that could be cut,
\* and those have become shorter.
Trimmed(b, x) ==
    /\ IsPlainEvent(x) /\ Spots(x) = Spots(b)
    /\ x.distinctID = b.distinctID /\ x.groups = b.groups
    /\ \A p \in Spots(b) :
          LET v == ValueAt(b, p)  u == ValueAt(x, p)
          IN  /\ IsLeaf(u) /\ u.kind = v.kind /\ u.width = v.width /\ u.len <= v.len
              /\ ~(IsString(v) /\ v.len > ShortestCut) => u = v

\* The limits under which ten rounds are enough: what a round leaves over the budget
\* grows with the number of places, and how many rounds it takes with the length of the
\* strings.
FewAndShort == MaxStringBytes <= 32768 /\ MaxBreadth <= 1000

LEMMA RoundTrimsAgain ==
    ASSUME NEW b, IsPlainEvent(b), NEW x, Trimmed(b, x)
    PROVE  Trimmed(b, CutRound(x))
<1> DEFINE y == CutRound(x)
<1>1. IsPlainEvent(x) /\ Spots(x) = Spots(b)
      /\ x.distinctID = b.distinctID /\ x.groups = b.groups
  BY DEF Trimmed
<1>2. y.distinctID = x.distinctID /\ y.groups = x.groups
  BY <1>1, RoundAt
<1>3. /\ IsPlainEvent(y) /\ Spots(y) = Spots(x)
      /\ \A p \in Spots(x) :
            LET v == ValueAt(x, p)  u == ValueAt(y, p)
            IN  /\ IsLeaf(u) /\ u.kind = v.kind /\ u.width = v.width
                /\ u.len <= v.len
                /\ ~(IsString(v) /\ v.len > ShortestCut) => u = v
  BY <1>1, RoundTrims
<1> HIDE DEF y
<1>4. ASSUME NEW p \in Spots(b)
      PROVE  LET v == ValueAt(b, p)  u == ValueAt(y, p)
             IN  /\ IsLeaf(u) /\ u.kind = v.kind /\ u.width = v.width /\ u.len <= v.len
                 /\ ~(IsString(v) /\ v.len > ShortestCut) => u = v
  <2> DEFINE v == ValueAt(b, p)
             w == ValueAt(x, p)
             u == ValueAt(y, p)
  <2>1. /\ IsLeaf(w) /\ w.kind = v.kind /\ w.width = v.width /\ w.len <= v.len
        /\ ~(IsString(v) /\ v.len > ShortestCut) => w = v
    BY DEF Trimmed
  <2>2. /\ IsLeaf(u) /\ u.kind = w.kind /\ u.width = w.width /\ u.len <= w.len
        /\ ~(IsString(w) /\ w.len > ShortestCut) => u = w
    BY <1>1, <1>3
  <2>3. u.len \in Nat /\ w.len \in Nat /\ v.len \in Nat
    BY <1>1, <2>1, <2>2, LeafFields, PlaceFacts
  <2> HIDE DEF u, v, w
  <2>4. u.len <= v.len
    BY <2>1, <2>2, <2>3
  <2>5. ~(IsString(v) /\ v.len > ShortestCut) => u = v
    BY <2>1, <2>2
  <2> QED BY <2>1, <2>2, <2>4, <2>5 DEF u, v
<1> QED BY <1>1, <1>2, <1>3, <1>4 DEF Trimmed, y

\* A round halves the distance.
LEMMA RoundNears ==
    ASSUME FewAndShort, NEW x, IsPlainEvent(x), ~Fits(x),
           Cardinality(DOMAIN x.properties) <= MaxBreadth + 1,
           NEW c \in Nat, Near(2 * c, x)
    PROVE  Near(c, CutRound(x))
<1> DEFINE y == CutRound(x)
           L == Locations(x)
           D == EventJSONSize(x) - MaxEventBytes
           E == EventJSONSize(y) - MaxEventBytes
<1>1. IsPlainEvent(y) /\ Spots(y) = Spots(x)
  BY RoundTrims
<1>2. ASSUME NEW m \in Locations(y)
      PROVE  \E l \in L : /\ m.len <= l.len /\ l.len \in Nat /\ m.len \in Nat
                          /\ m.len = IF SavedAt(x, l) > 0 THEN l.len - SavedAt(x, l) + 3
                                     ELSE l.len
  <2> DEFINE p == m.path
             u == ValueAt(y, p)
             v == ValueAt(x, p)
             l == PlaceAt(x, p)
  <2>1. p \in Spots(x) /\ m.len = u.len /\ m.len \in Nat /\ m.len > 100 /\ IsString(u)
    BY <1>1, PlaceFacts
  <2>2. u.kind = v.kind /\ u.len <= v.len
    BY <2>1, RoundTrims
  <2>3. v.len \in Nat
    BY <2>1, PlaceFacts
  <2>4. IsString(v) /\ v.len > ShortestCut
    <3> HIDE DEF u, v
    <3> QED BY <2>1, <2>2, <2>3 DEF IsString, ShortestCut
  <2>5. l \in L
    BY <2>1, <2>4, PlaceFacts
  <2>6. l.path = p /\ l.len = v.len
    BY DEF PlaceAt
  <2>7. u.len = IF SavedAt(x, l) > 0 THEN l.len - SavedAt(x, l) + 3 ELSE l.len
    BY <2>5, <2>6, RoundTrims
  <2> HIDE DEF u, v, l
  <2> QED BY <2>1, <2>2, <2>3, <2>5, <2>6, <2>7
<1>3. /\ EventJSONSize(y) <= EventJSONSize(x)
      /\ EventJSONSize(x) \in Nat /\ EventJSONSize(y) \in Nat /\ MaxEventBytes \in Nat
  <2>1. \A l \in {} : [m \in {} |-> 0][l] = l.len - ValueAt(CutRound(x), l.path).len
    OBVIOUS
  <2>2. {} \in SUBSET Locations(x)
    OBVIOUS
  <2>3. EventJSONSize(y) <= EventJSONSize(x)
    BY <2>1, <2>2, RoundSize
  <2> QED BY <1>1, <2>3, EventSize, TruncationAssumption
<1>4. D \in Int /\ E \in Int /\ E <= D /\ (Fits(y) <=> E <= 0)
  BY <1>3 DEF Fits
<1>5. \/ \A l \in L : l.len <= 7 + 2 * c
      \/ D <= 2815 /\ \A l \in L : l.len <= 7 + 2 * (2 * c)
  BY DEF Near, MostOver
<1>6. CASE \A l \in L : SavedAt(x, l) = l.len \div 2
  <2>1. ASSUME NEW m \in Locations(y), NEW k \in Nat, \A l \in L : l.len <= 7 + 2 * k
        PROVE  m.len <= 7 + k
    <3>1. PICK l \in L : /\ m.len <= l.len /\ l.len \in Nat /\ m.len \in Nat
                         /\ m.len = IF SavedAt(x, l) > 0 THEN l.len - SavedAt(x, l) + 3
                                    ELSE l.len
      BY <1>2
    <3>2. SavedAt(x, l) = l.len \div 2 /\ l.len <= 7 + 2 * k /\ l.len > 100
      BY <1>6, <2>1, PlaceFacts
    <3>3. \A n \in Nat : n > 100 => n \div 2 > 0
      OBVIOUS
    <3>4. m.len = l.len - (l.len \div 2) + 3
      BY <3>1, <3>2, <3>3
    <3>5. \A n \in Nat : n <= 7 + 2 * k => n - (n \div 2) + 3 <= 7 + k
      OBVIOUS
    <3> HIDE DEF L
    <3> QED BY <3>1, <3>2, <3>4, <3>5
  <2>2. CASE \A l \in L : l.len <= 7 + 2 * c
    BY <2>1, <2>2 DEF Near
  <2>3. CASE D <= 2815 /\ \A l \in L : l.len <= 7 + 2 * (2 * c)
    <3>1. 2 * c \in Nat
      OBVIOUS
    <3>2. \A m \in Locations(y) : m.len <= 7 + 2 * c
      BY <2>1, <2>3, <3>1
    <3>3. E <= 2815
      <4> HIDE DEF D, E
      <4> QED BY <1>4, <2>3
    <3> QED BY <3>2, <3>3 DEF Near, MostOver
  <2> QED BY <1>5, <2>2, <2>3
<1>7. CASE \E n \in Nat : /\ n <= Cardinality(Locations(x))
                          /\ 50 * n <= EventJSONSize(x) - MaxEventBytes + 200
                          /\ EventJSONSize(y) <= MaxEventBytes - 191 + 3 * n
  <2>1. PICK n \in Nat : /\ n <= Cardinality(Locations(x))
                         /\ 50 * n <= EventJSONSize(x) - MaxEventBytes + 200
                         /\ EventJSONSize(y) <= MaxEventBytes - 191 + 3 * n
    BY <1>7
  <2>2. n <= 1002
    <3>1. /\ Cardinality(L) <= Cardinality(DOMAIN x.properties) + 1
          /\ Cardinality(L) \in Nat /\ Cardinality(DOMAIN x.properties) \in Nat
      BY CutOrder, PlaceFacts
    <3>2. MaxBreadth \in Nat /\ MaxBreadth <= 1000
      BY SanitizerAssumption DEF FewAndShort
    <3> QED BY <2>1, <3>1, <3>2
  <2>3. 50 * n <= D + 200 /\ E <= 3 * n - 191
    BY <1>3, <2>1
  <2> HIDE DEF D, E
  <2>4. E <= 2815
    BY <1>4, <2>2, <2>3
  <2>5. ASSUME NEW m \in Locations(y), NEW k \in Nat, \A l \in L : l.len <= 7 + k
        PROVE  m.len <= 7 + k
    <3>1. PICK l \in L : m.len <= l.len /\ l.len \in Nat /\ m.len \in Nat
      BY <1>2
    <3>2. l.len <= 7 + k
      BY <2>5
    <3> HIDE DEF L
    <3> QED BY <3>1, <3>2
  <2>6. CASE \A l \in L : l.len <= 7 + 2 * c
    <3>1. 2 * c \in Nat
      OBVIOUS
    <3>2. \A m \in Locations(y) : m.len <= 7 + 2 * c
      BY <2>5, <2>6, <3>1
    <3> QED BY <2>4, <3>2 DEF Near, MostOver, E
  <2>7. CASE D <= 2815
    <3>1. E <= 0
      BY <1>4, <2>3, <2>7
    <3> QED BY <1>4, <3>1 DEF Near
  <2> QED BY <1>5, <2>6, <2>7
<1> QED BY <1>6, <1>7, RoundSaves

\* After ten rounds the event is within the budget, or nothing of it is left to be cut.
LEMMA RoundsSuffice ==
    ASSUME FewAndShort, NEW b, IsPlainEvent(b),
           Cardinality(DOMAIN b.properties) <= MaxBreadth + 1,
           \A l \in Locations(b) : l.len <= MaxStringBytes + 3,
           NEW round, round[0] = b,
           \A i \in 1..10 : round[i] = IF Fits(round[i - 1]) THEN round[i - 1]
                                       ELSE CutRound(round[i - 1])
    PROVE  Trimmed(b, round[10]) /\ (Fits(round[10]) \/ Locations(round[10]) = {})
<1> DEFINE Good(c, x) == Trimmed(b, x) /\ Near(c, x)
<1>1. ASSUME NEW c \in Nat, NEW i \in 1..10, Good(2 * c, round[i - 1])
      PROVE  Good(c, round[i])
  <2> DEFINE x == round[i - 1]
             y == round[i]
  <2>1. y = IF Fits(x) THEN x ELSE CutRound(x)
    OBVIOUS
  <2>2. Trimmed(b, x) /\ Near(2 * c, x)
    BY <1>1
  <2> HIDE DEF x, y
  <2>3. ASSUME Fits(x)  PROVE Trimmed(b, y) /\ Near(c, y)
    BY <2>1, <2>2, <2>3 DEF Near
  <2>4. ASSUME ~Fits(x)  PROVE Trimmed(b, y) /\ Near(c, y)
    <3>1. Trimmed(b, y)
      BY <2>1, <2>2, <2>4, RoundTrimsAgain
    <3>2. IsPlainEvent(x) /\ Spots(x) = Spots(b)
      BY <2>2 DEF Trimmed
    <3>3. DOMAIN x.properties = DOMAIN b.properties
      BY <3>2 DEF Spots, IsPlainEvent
    <3> QED BY <2>1, <2>2, <2>4, <3>1, <3>2, <3>3, RoundNears
  <2> QED BY <2>3, <2>4 DEF y
<1>2. Good(33792, round[0])
  <2>1. Trimmed(b, b)
    <3>1. \A p \in Spots(b) : IsLeaf(ValueAt(b, p)) /\ ValueAt(b, p).len \in Nat
      BY PlaceFacts
    <3> QED BY <3>1 DEF Trimmed
  <2>2. \A l \in Locations(b) : l.len <= 7 + 33792
    <3>1. \A l \in Locations(b) : l.len \in Nat
      BY PlaceFacts
    <3> QED BY <3>1, SanitizerAssumption DEF FewAndShort
  <2> QED BY <2>1, <2>2 DEF Near
<1> HIDE DEF Good
<1>3. Good(16896, round[1])
  BY <1>1, <1>2
<1>4. Good(8448, round[2])
  BY <1>1, <1>3
<1>5. Good(4224, round[3])
  BY <1>1, <1>4
<1>6. Good(2112, round[4])
  BY <1>1, <1>5
<1>7. Good(1056, round[5])
  BY <1>1, <1>6
<1>8. Good(528, round[6])
  BY <1>1, <1>7
<1>9. Good(264, round[7])
  BY <1>1, <1>8
<1>10. Good(132, round[8])
  BY <1>1, <1>9
<1>11. Good(66, round[9])
  BY <1>1, <1>10
<1>12. Good(33, round[10])
  BY <1>1, <1>11
<1>13. ASSUME Trimmed(b, round[10]), NEW l \in Locations(round[10])
       PROVE  l.len > 100 /\ l.len \in Nat
  BY <1>13, PlaceFacts DEF Trimmed
<1> QED BY <1>12, <1>13 DEF Good, Near

\* What sanitizing leaves of a text, and what a limit does then.
LEMMA TextBounded ==
    ASSUME NEW v, IsLeaf(v), v.kind = "text"
    PROVE  LET w == SanitizeString(v)  n == TruncateUTF8(w, MaxStringBytes)
               m == TruncateUTF8(w, ShortestCut)
           IN  /\ IsLeaf(n) /\ n.kind \in {"text", "mark"} /\ n.len <= MaxStringBytes + 3
               /\ IsLeaf(m) /\ m.kind = n.kind /\ m.width = n.width
               /\ n.len <= ShortestCut => m = n
               /\ n.len > ShortestCut => m.len = 103
<1> DEFINE w == SanitizeString(v)
           n == TruncateUTF8(w, MaxStringBytes)
           m == TruncateUTF8(w, ShortestCut)
<1>1. IsLeaf(w) /\ w.kind \in {"text", "mark"} /\ w.len \in Nat
  BY Sanitized, LeafFields
<1>2. MaxStringBytes \in Nat /\ MaxStringBytes >= 100
  BY SanitizerAssumption DEF ShortestLimit
<1> HIDE DEF w
<1>3. /\ IsLeaf(n) /\ n.kind = w.kind /\ n.len <= MaxStringBytes + 3 /\ n.len \in Nat
      /\ n.width = w.width
      /\ (w.len <= MaxStringBytes => n = w) /\ (w.len > MaxStringBytes => n.len = MaxStringBytes + 3)
  BY <1>1, <1>2, Truncated, TruncatedFields, LeafFields DEF ShortestToken
<1>4. /\ IsLeaf(m) /\ m.kind = w.kind /\ m.width = w.width
      /\ (w.len <= 100 => m = w) /\ (w.len > 100 => m.len = 103)
  <2>1. ShortestCut \in Nat /\ ShortestCut >= ShortestToken /\ ShortestCut = 100
    BY DEF ShortestToken, ShortestCut
  <2>2. IsLeaf(m) /\ m.kind = w.kind
    BY <1>1, <2>1, Truncated
  <2>3. /\ m.width = w.width
        /\ w.len <= ShortestCut => m = w
        /\ w.len > ShortestCut => m.len = ShortestCut + 3
    BY <1>1, <2>1, TruncatedFields
  <2> HIDE DEF m
  <2> QED BY <2>1, <2>2, <2>3
<1> HIDE DEF n, m
<1>5. n.len <= 100 => m = n
  BY <1>1, <1>2, <1>3, <1>4
<1>6. n.len > 100 => m.len = 103
  BY <1>1, <1>2, <1>3, <1>4
<1> QED BY <1>1, <1>3, <1>4, <1>5, <1>6 DEF n, m, w, ShortestCut

\* The bytes of an event without depth grow with each of its places.
LEMMA SmallerEvent ==
    ASSUME NEW x, IsPlainEvent(x), NEW z, IsPlainEvent(z),
           x.distinctID = z.distinctID, x.groups = z.groups, Spots(x) \subseteq Spots(z),
           \A p \in Spots(x) :
              LET u == ValueAt(x, p)  v == ValueAt(z, p)
              IN  u = v \/ (u.kind = v.kind /\ u.width = v.width /\ u.len <= v.len)
    PROVE  EventJSONSize(x) <= EventJSONSize(z)
<1> DEFINE f == Weight(x)
           g == Weight(z)
           S == Spots(x)
           T == Spots(z)
           i == [p \in S |-> p]
<1>1. IsFiniteSet(S) /\ IsFiniteSet(T)
  BY PlaceFacts
<1>2. /\ EventJSONSize(x) = Around(x) + SumFunctionOnSet(f, S)
      /\ EventJSONSize(z) = Around(z) + SumFunctionOnSet(g, T)
      /\ Around(x) \in Nat /\ \A p \in S : f[p] \in Nat
      /\ \A p \in T : g[p] \in Nat
  BY EventSize
<1>3. Around(x) = Around(z)
  BY DEF Around
<1>4. ASSUME NEW p \in S  PROVE f[p] <= g[p]
  <2> DEFINE u == ValueAt(x, p)
             v == ValueAt(z, p)
  <2>1. p \in T
    OBVIOUS
  <2>2. /\ IsLeaf(u) /\ IsLeaf(v) /\ v.kind \in {"text", "scalar", "mark"}
    BY <2>1, PlaceFacts
  <2>3. u = v \/ (u.kind = v.kind /\ u.width = v.width /\ u.len <= v.len)
    OBVIOUS
  <2>4. LeafBytes(u) \in Nat /\ LeafBytes(v) \in Nat
    BY <2>2, LeafSize
  <2>5. f[p] = (IF p = <<EventKey>> THEN LeafBytes(u) ELSE KeyBytes + LeafBytes(u))
        /\ g[p] = (IF p = <<EventKey>> THEN LeafBytes(v) ELSE KeyBytes + LeafBytes(v))
    BY <2>1 DEF Weight, ValueAt
  <2> HIDE DEF u, v, f, g
  <2>6. LeafBytes(u) <= LeafBytes(v)
    <3>1. CASE u = v
      BY <2>4, <3>1
    <3>2. CASE u.kind = v.kind /\ u.width = v.width /\ u.len <= v.len
      <4>1. LeafBytes(v) - LeafBytes(u) \in Nat
        BY <2>2, <3>2, ShorterIsSmaller
      <4> QED BY <2>4, <4>1
    <3> QED BY <2>3, <3>1, <3>2
  <2> QED BY <2>4, <2>5, <2>6, TruncationAssumption
<1> HIDE DEF f, g
<1>5. \A p \in S : f[p] \in Int /\ i[p] \in T /\ f[p] <= g[i[p]]
  BY <1>2, <1>4
<1>6. \A p, q \in S : i[p] = i[q] => p = q
  OBVIOUS
<1> HIDE DEF S, T, i
<1>7. SumFunctionOnSet(f, S) <= SumFunctionOnSet(g, T)
  BY <1>1, <1>2, <1>5, <1>6, SumInject
<1>8. SumFunctionOnSet(f, S) \in Int /\ SumFunctionOnSet(g, T) \in Int
  BY <1>1, <1>2, SumInt
<1> QED BY <1>2, <1>3, <1>7, <1>8

LEMMA FlatPaths ==
    ASSUME NEW t, IsFlat(t)
    PROVE  /\ Children(t, <<>>) = DOMAIN t
           /\ \A p \in DOMAIN t : Len(p) = 1 /\ ~(Len(p) > 1)
<1>1. \A p \in DOMAIN t : Len(p) = 1
  BY DEF IsFlat
<1>2. \A n : n = 1 => n <= 1 /\ ~(n > 1)
  OBVIOUS
<1>3. \A p \in DOMAIN t : Len(p) <= 1 /\ ~(Len(p) > 1)
  BY <1>1, <1>2, Zenon
<1>4. IsTree(t)
  BY DEF IsFlat
<1> QED BY <1>1, <1>3, <1>4, TopOnly, Zenon

\* An event made of a text, a leaf, a flat tree and groups that can be JSON is plain.
LEMMA FlatIsPlain ==
    ASSUME NEW x, IsEvent(x), IsTree(x.properties), <<EventKey>> \notin DOMAIN x.properties,
           \A p \in DOMAIN x.properties :
              Len(p) = 1 /\ IsLeaf(x.properties[p])
              /\ x.properties[p].kind \in {"text", "scalar", "mark"},
           IsLeaf(x.name), x.name.kind \in {"text", "mark"}, IsLeaf(x.distinctID),
           IsTree(x.groups), ~Unmarshalable(x.groups)
    PROVE  IsPlainEvent(x)
<1>1. IsFiniteSet(DOMAIN x.properties) /\ \A p \in DOMAIN x.properties : p \in Seq(Int)
  BY DEF IsTree
<1> QED BY <1>1 DEF IsPlainEvent

\* What rounds leave when nothing is left to be cut is no larger than what is left of
\* the flat tree when all its strings are short.
LEMMA NothingLeft ==
    ASSUME NEW b, IsPlainEvent(b), NEW x, Trimmed(b, x), Locations(x) = {},
           NEW z, IsPlainEvent(z), b.distinctID = z.distinctID, b.groups = z.groups,
           Spots(b) \subseteq Spots(z),
           \A p \in Spots(b) :
              LET v == ValueAt(b, p)  w == ValueAt(z, p)
              IN  /\ w.kind = v.kind /\ w.width = v.width
                  /\ v.len <= ShortestCut \/ ~IsString(v) => w = v
                  /\ v.len > ShortestCut /\ IsString(v) => w.len = 103
    PROVE  EventJSONSize(x) <= EventJSONSize(z)
<1>1. IsPlainEvent(x) /\ Spots(x) = Spots(b)
      /\ x.distinctID = b.distinctID /\ x.groups = b.groups
  BY DEF Trimmed
<1>2. ASSUME NEW p \in Spots(x)
      PROVE  LET u == ValueAt(x, p)  w == ValueAt(z, p)
             IN  u = w \/ (u.kind = w.kind /\ u.width = w.width /\ u.len <= w.len)
  <2> DEFINE v == ValueAt(b, p)
             u == ValueAt(x, p)
             w == ValueAt(z, p)
  <2>1. /\ u.kind = v.kind /\ u.width = v.width
        /\ ~(IsString(v) /\ v.len > ShortestCut) => u = v
    BY <1>1 DEF Trimmed
  <2>2. /\ w.kind = v.kind /\ w.width = v.width
        /\ v.len <= ShortestCut \/ ~IsString(v) => w = v
        /\ v.len > ShortestCut /\ IsString(v) => w.len = 103
    BY <1>1
  <2>3. u.len \in Nat /\ v.len \in Nat
    BY <1>1, PlaceFacts
  <2>4. ~(IsString(u) /\ u.len > ShortestCut)
    BY <1>1, PlaceFacts
  <2> HIDE DEF u, v, w
  <2>5. CASE IsString(v) /\ v.len > ShortestCut
    <3>1. IsString(u)
      BY <2>1, <2>5 DEF IsString
    <3>2. u.len <= 100
      BY <2>3, <2>4, <3>1 DEF ShortestCut
    <3> QED BY <2>1, <2>2, <2>3, <2>5, <3>2 DEF u, w
  <2>6. CASE ~(IsString(v) /\ v.len > ShortestCut)
    <3>1. v.len <= ShortestCut \/ ~IsString(v)
      BY <2>3, <2>6 DEF ShortestCut
    <3> QED BY <2>1, <2>2, <2>6, <3>1 DEF u, w
  <2> QED BY <2>5, <2>6 DEF u, w
<1> QED BY <1>1, <1>2, SmallerEvent

\* An event whose keys, groups and distinct id are within the budget, with what always
\* stays of its strings, is made to fit: the ten rounds never stop too early.
THEOREM ReducibleFits ==
    ASSUME FewAndShort, NEW e, IsEvent(e), IsTree(e.properties), IsTree(e.groups),
           IsLeaf(e.name), e.name.kind = "text", IsLeaf(e.distinctID),
           <<EventKey>> \notin DOMAIN e.properties,
           ~(Irreducible(e) > MaxEventBytes)
    PROVE  Fits(SanitizeAndBoundEvent(e))
<1> DEFINE name  == TruncateUTF8(SanitizeString(e.name), MaxStringBytes)
           id    == TruncateUTF8(SanitizeString(e.distinctID), MaxStringBytes)
           props == NormalizeProperties(e.properties, MaxDepth)
           grps  == SanitizeValue(e.groups, MaxDepth)
           f == [e EXCEPT !.name = name, !.distinctID = id, !.properties = props, !.groups = grps]
           reduced(depth) == [f EXCEPT !.properties = NormalizeProperties(@, depth)]
           fitting == {depth \in 1..(MaxDepth - 1) : Fits(reduced(depth))}
           greatest == CHOOSE d \in fitting : \A g \in fitting : g <= d
           r == SanitizeAndBoundEvent(e)
<1>1. r = IF Fits(f) THEN f
          ELSE IF fitting # {} THEN reduced(greatest)
          ELSE TruncateLargestEventStrings(reduced(1))
  BY DEF SanitizeAndBoundEvent, TruncateEventToSize
<1>2. CASE Fits(f)
  BY <1>1, <1>2
<1>3. CASE ~Fits(f) /\ fitting # {}
  <2>1. greatest \in fitting
    <3>1. fitting \subseteq 1..(MaxDepth - 1)
      OBVIOUS
    <3> HIDE DEF fitting
    <3>2. MaxDepth - 1 \in Nat
      BY SanitizerAssumption
    <3> QED BY <1>3, <3>1, <3>2, Greatest
  <2>2. Fits(reduced(greatest))
    BY <2>1
  <2> HIDE DEF r, f, reduced, fitting, greatest
  <2> QED BY <1>1, <1>3, <2>2 DEF r
<1>4. CASE ~Fits(f) /\ fitting = {}
  <2> DEFINE flat == NormalizeProperties(props, 1)
             keep == SanitizeValue(flat, MaxDepth)
             a    == reduced(1)
             b    == [a EXCEPT !.properties = SanitizeValue(@, MaxDepth)]
             least(p) == IF IsString(flat[p]) THEN TruncateUTF8(flat[p], ShortestCut) ELSE flat[p]
             z    == [name       |-> TruncateUTF8(SanitizeString(e.name), ShortestCut),
                      distinctID |-> id,
                      properties |-> [p \in DOMAIN flat |-> least(p)],
                      groups     |-> grps]
  <2>1. r = TruncateLargestEventStrings(a)
    BY <1>1, <1>4
  <2>2. PICK round :
           /\ round[0] = b
           /\ \A i \in 1..10 : round[i] = IF Fits(round[i - 1]) THEN round[i - 1]
                                          ELSE CutRound(round[i - 1])
           /\ TruncateLargestEventStrings(a) = round[10]
    BY TenRounds
  <2>3. ~(EventJSONSize(z) > MaxEventBytes)
    BY DEF Irreducible
  <2>4. /\ IsEvent(b) /\ b.name = name /\ b.distinctID = id
        /\ b.properties = keep /\ b.groups = grps
    <3>1. a = [f EXCEPT !.properties = flat]
      BY DEF IsEvent
    <3>2. b = [a EXCEPT !.properties = keep]
      BY <3>1 DEF IsEvent
    <3> HIDE DEF keep, flat, a, b, name, id, props, grps
    <3> QED BY <3>1, <3>2 DEF IsEvent
  <2>5. /\ IsEvent(z) /\ z.name = TruncateUTF8(SanitizeString(e.name), ShortestCut)
        /\ z.distinctID = id /\ z.groups = grps
        /\ DOMAIN z.properties = DOMAIN flat
        /\ \A p \in DOMAIN flat : z.properties[p] = IF IsString(flat[p])
                                     THEN TruncateUTF8(flat[p], ShortestCut) ELSE flat[p]
    BY DEF IsEvent
  <2>6. MaxDepth \in 1..MaxDepth /\ 1 \in 1..MaxDepth
    BY SanitizerAssumption
  <2>7. /\ IsLeaf(name) /\ name.kind \in {"text", "mark"} /\ name.len <= MaxStringBytes + 3
        /\ IsLeaf(z.name) /\ z.name.kind = name.kind /\ z.name.width = name.width
        /\ name.len <= ShortestCut => z.name = name
        /\ name.len > ShortestCut => z.name.len = 103
    BY <2>5, TextBounded
  <2>8. IsLeaf(id)
    <3>1. IsLeaf(SanitizeString(e.distinctID))
      BY Sanitized
    <3>2. MaxStringBytes \in Nat /\ MaxStringBytes >= ShortestToken
      BY SanitizerAssumption DEF ShortestToken, ShortestLimit
    <3> QED BY <3>1, <3>2, Truncated
  <2>9. IsSanitized(grps)
    BY <2>6, SanitizedTree
  <2>10. IsSanitized(props) /\ Keeps(e.properties, props)
    BY <2>6, NormalizingReduces DEF Reduces
  <2>11. Keeps(props, flat)
    BY <2>6, <2>10, NormalizingReduces DEF Reduces, IsSanitized
  <2>12. <<EventKey>> \notin DOMAIN flat
    <3>1. Keeps(e.properties, flat)
      BY <2>10, <2>11, KeepsAgain
    <3>2. EventKey \in Int /\ EventKey # EllipsisKey /\ EventKey \notin SensitiveKeys
      BY DEF EventKey, EllipsisKey, SensitiveKeys, PasswordKey
    <3> HIDE DEF flat
    <3> QED BY <3>1, <3>2 DEF Keeps
  <2>13. /\ IsFlat(flat) /\ IsSanitized(flat)
         /\ Cardinality(DOMAIN flat) > MaxBreadth =>
               <<EllipsisKey>> \in DOMAIN flat /\ flat[<<EllipsisKey>>] = Omission
    BY <2>10, NormalizedFlat
  <2> HIDE DEF z, flat, b, a, name, id, props, grps, r, f
  <2>14. IsFlat(keep) /\ DOMAIN keep \subseteq DOMAIN flat /\ \A p \in DOMAIN keep : keep[p] = flat[p]
    BY <2>13, SanitizedFlat
  <2>15. IsSanitized(keep)
    BY <2>6, <2>13, SanitizedTree DEF IsFlat
  <2> HIDE DEF keep
  <2>16. \A v : IsFinal(v) => /\ IsLeaf(v) /\ v.kind \in {"text", "scalar", "badnumber", "mark"}
                              /\ v.len \in Nat
                              /\ IsString(v) => v.len <= MaxStringBytes + 3
    <3> SUFFICES ASSUME NEW v, IsFinal(v)
                 PROVE  /\ IsLeaf(v) /\ v.kind \in {"text", "scalar", "badnumber", "mark"}
                        /\ v.len \in Nat
                        /\ IsString(v) => v.len <= MaxStringBytes + 3
      OBVIOUS
    <3>1. v.len \in Nat /\ MaxStringBytes \in Nat
      BY LeafFields, SanitizerAssumption DEF IsFinal
    <3> QED BY <3>1 DEF IsFinal, IsString
  <2>17. ASSUME NEW p \in DOMAIN flat
         PROVE  LET v == flat[p]  w == z.properties[p]
                IN  /\ IsLeaf(w) /\ w.kind = v.kind /\ w.width = v.width
                    /\ v.kind \in {"text", "scalar", "badnumber", "mark"}
                    /\ v.len <= ShortestCut \/ ~IsString(v) => w = v
                    /\ v.len > ShortestCut /\ IsString(v) => w.len = 103
    <3> DEFINE v == flat[p]
               w == z.properties[p]
    <3>1. IsFinal(v) /\ IsLeaf(v) /\ v.kind \in {"text", "scalar", "badnumber", "mark"}
      BY <2>13, <2>16 DEF IsFlat
    <3>2. w = IF IsString(v) THEN TruncateUTF8(v, ShortestCut) ELSE v
      BY <2>5
    <3>3. ShortestCut \in Nat /\ ShortestCut >= ShortestToken /\ ShortestCut = 100
      BY DEF ShortestCut, ShortestToken
    <3> HIDE DEF v, w
    <3>4. CASE ~IsString(v)
      BY <3>1, <3>2, <3>4 DEF v, w
    <3>5. CASE IsString(v)
      <4> DEFINE c == TruncateUTF8(v, ShortestCut)
      <4>1. IsLeaf(c) /\ c.kind = v.kind
        BY <3>1, <3>3, Truncated
      <4>2. c.width = v.width /\ (v.len <= ShortestCut => c = v)
            /\ (v.len > ShortestCut => c.len = ShortestCut + 3)
        BY <3>1, <3>3, TruncatedFields
      <4>3. w = c
        BY <3>2, <3>5
      <4> HIDE DEF c
      <4> QED BY <3>1, <3>3, <3>5, <4>1, <4>2, <4>3 DEF v, w
    <3> QED BY <3>4, <3>5
  <2>18. /\ \A p \in DOMAIN flat : flat[p].kind # "badnumber"
         /\ IsTree(grps) /\ ~Unmarshalable(grps)
    <3>1. ~Unmarshalable(z.properties) /\ ~Unmarshalable(grps)
      BY <2>3, <2>5, TruncationAssumption DEF EventJSONSize
    <3>2. \A p \in DOMAIN flat : z.properties[p].kind = flat[p].kind
      BY <2>17
    <3> QED BY <2>5, <2>9, <3>1, <3>2 DEF Unmarshalable, IsSanitized
  <2>19. IsPlainEvent(b)
    <3>1. IsTree(keep) /\ \A p \in DOMAIN keep : Len(p) = 1 /\ IsFinal(keep[p])
      BY <2>14 DEF IsFlat
    <3>2. <<EventKey>> \notin DOMAIN keep
      BY <2>12, <2>14
    <3> QED BY <2>4, <2>7, <2>8, <2>14, <2>16, <2>18, <3>1, <3>2, FlatIsPlain
  <2>20. IsPlainEvent(z)
    <3>1. IsTree(z.properties) /\ \A p \in DOMAIN flat : Len(p) = 1
      <4>1. IsTree(flat) /\ \A p \in DOMAIN flat : Len(p) = 1 /\ ~(Len(p) > 1)
        BY <2>13, FlatPaths DEF IsFlat
      <4> QED BY <2>5, <2>17, <4>1 DEF IsTree
    <3> QED BY <2>5, <2>7, <2>8, <2>12, <2>17, <2>18, <3>1, FlatIsPlain
  <2>21. Cardinality(DOMAIN b.properties) <= MaxBreadth + 1
    <3>1. Children(keep, <<>>) = DOMAIN keep
      BY <2>14, FlatPaths
    <3>2. <<>> \in Containers(keep)
      BY DEF Containers
    <3> QED BY <2>4, <2>15, <3>1, <3>2 DEF IsSanitized, IsLimited
  <2>22. \A l \in Locations(b) : l.len <= MaxStringBytes + 3
    <3> SUFFICES ASSUME NEW l \in Locations(b)  PROVE l.len <= MaxStringBytes + 3
      OBVIOUS
    <3>1. /\ l.path \in Spots(b) /\ l.len = ValueAt(b, l.path).len
          /\ IsString(ValueAt(b, l.path))
      BY <2>19, PlaceFacts
    <3>2. CASE l.path = <<EventKey>>
      BY <2>4, <2>7, <3>1, <3>2 DEF ValueAt
    <3>3. CASE l.path # <<EventKey>>
      <4>1. l.path \in DOMAIN keep /\ ValueAt(b, l.path) = keep[l.path]
        BY <2>4, <3>1, <3>3 DEF ValueAt, Spots
      <4> QED BY <2>14, <2>16, <3>1, <4>1 DEF IsFlat
    <3> QED BY <3>2, <3>3
  <2>23. Trimmed(b, round[10]) /\ (Fits(round[10]) \/ Locations(round[10]) = {})
    BY <2>2, <2>21, <2>22, <2>19, RoundsSuffice
  <2>24. ASSUME Locations(round[10]) = {}  PROVE Fits(round[10])
    <3>1. Spots(b) \subseteq Spots(z)
      BY <2>4, <2>5, <2>14 DEF Spots
    <3>2. ASSUME NEW p \in Spots(b)
          PROVE  LET v == ValueAt(b, p)  w == ValueAt(z, p)
                 IN  /\ w.kind = v.kind /\ w.width = v.width
                     /\ v.len <= ShortestCut \/ ~IsString(v) => w = v
                     /\ v.len > ShortestCut /\ IsString(v) => w.len = 103
      <4>1. CASE p = <<EventKey>>
        <5>1. ValueAt(b, p) = name /\ ValueAt(z, p) = z.name
          BY <2>4, <4>1 DEF ValueAt
        <5>2. IsString(name)
          BY <2>7 DEF IsString
        <5> QED BY <2>7, <5>1, <5>2
      <4>2. CASE p # <<EventKey>>
        <5>1. p \in DOMAIN keep /\ ValueAt(b, p) = keep[p] /\ ValueAt(z, p) = z.properties[p]
          BY <2>4, <4>2 DEF ValueAt, Spots
        <5>2. p \in DOMAIN flat /\ ValueAt(b, p) = flat[p]
          BY <2>14, <5>1
        <5> QED BY <2>17, <5>1, <5>2
      <4> QED BY <4>1, <4>2
    <3>3. EventJSONSize(round[10]) <= EventJSONSize(z)
      BY <2>4, <2>5, <2>20, <2>23, <2>24, <2>19, <3>1, <3>2, NothingLeft
    <3>4. EventJSONSize(round[10]) \in Nat /\ EventJSONSize(z) \in Nat /\ MaxEventBytes \in Nat
      BY <2>20, <2>23, EventSize, TruncationAssumption DEF Trimmed
    <3> QED BY <2>3, <3>3, <3>4 DEF Fits
  <2> QED BY <2>1, <2>2, <2>23, <2>24 DEF r
<1> QED BY <1>2, <1>3, <1>4
=============================================================================
