---------------------------- MODULE RangeProofs ----------------------------
(***************************************************************************)
(* The arithmetic of the prefilter never loses a value, for every width of *)
(* a field and every number of holes a range may have.  A step of the walk *)
(* over the filter may widen a constraint but says so, so the rules accept *)
(* whatever the filter accepts, and where they are called exact nothing    *)
(* else.                                                                   *)
(***************************************************************************)
EXTENDS PfRange, FiniteSetTheorems, WellFoundedInduction, TLAPS

\* What every range of a field with the values 0..max looks like.
IsRange(r, max) ==
    /\ r \in [lo : Nat, hi : Int, excl : SUBSET Nat]
    /\ r.hi <= max
    /\ IsFiniteSet(r.excl)

\* The six tests, one by one.
LEMMA HoldsCases ==
    ASSUME NEW a \in Int, NEW b \in Int
    PROVE  /\ Holds("=", a, b) <=> a = b
           /\ Holds("!=", a, b) <=> a # b
           /\ Holds("<", a, b) <=> a < b
           /\ Holds("<=", a, b) <=> a <= b
           /\ Holds(">", a, b) <=> a > b
           /\ Holds(">=", a, b) <=> a >= b
<1>1. Holds("=", a, b) <=> a = b
    BY DEF Holds
<1>2. Holds("!=", a, b) <=> a # b
    BY DEF Holds
<1>3. Holds("<", a, b) <=> a < b
    BY DEF Holds
<1>4. Holds("<=", a, b) <=> a <= b
    BY DEF Holds
<1>5. Holds(">", a, b) <=> a > b
    BY DEF Holds
<1>6. Holds(">=", a, b) <=> a >= b
    BY DEF Holds
<1> QED
    BY <1>1, <1>2, <1>3, <1>4, <1>5, <1>6

\* negate_test() is the complement: the branch a failed test takes is walked
\* with exactly the values the test rejects.
THEOREM NegateIsComplement ==
    ASSUME NEW test \in Tests, NEW a \in Int, NEW b \in Int
    PROVE  Holds(Negate_test(test), a, b) <=> ~Holds(test, a, b)
<1>1. CASE test \in {"=", "!="}
    BY <1>1, HoldsCases DEF Negate_test
<1>2. CASE test \in {"<", ">="}
    BY <1>2, HoldsCases DEF Negate_test
<1>3. CASE test \in {"<=", ">"}
    BY <1>3, HoldsCases DEF Negate_test
<1> QED
    BY <1>1, <1>2, <1>3 DEF Tests

\* A nonempty set of naturals has a least element.
LEMMA LeastElement ==
    ASSUME NEW S \in SUBSET Nat, S # {}
    PROVE  \E m \in S : \A n \in S : m <= n
<1>1. PICK m \in S : \A n \in S : ~(<<n, m>> \in OpToRel(<, Nat))
    BY NatLessThanWellFounded, WFMin
<1>2. \A n \in S : ~(n < m)
    BY <1>1 DEF OpToRel
<1> QED
    BY <1>2

\* A bounded nonempty set of naturals has a greatest element.
LEMMA GreatestElement ==
    ASSUME NEW S \in SUBSET Nat, S # {}, NEW b \in Int, \A n \in S : n <= b
    PROVE  \E m \in S : \A n \in S : m >= n
<1> DEFINE T == {b - n : n \in S}
<1>0. PICK s \in S : TRUE
    OBVIOUS
<1>1. T \in SUBSET Nat /\ b - s \in T
    BY <1>0
<1>2. PICK k \in T : \A t \in T : k <= t
    BY <1>1, LeastElement
<1>3. PICK m \in S : k = b - m
    BY <1>2
<1>4. \A n \in S : b - m <= b - n
    BY <1>2, <1>3
<1> QED
    BY <1>4

\* range_normalize() only moves edges over holes and forgets holes outside.
THEOREM NormalizeKeepsValues ==
    ASSUME NEW max \in Nat, NEW r, IsRange(r, max)
    PROVE  /\ \A v \in Nat : Range_contains(Range_normalize(r), v) <=> Range_contains(r, v)
           /\ IsRange(Range_normalize(r), max)
           /\ Range_normalize(r).excl \subseteq r.excl
<1> DEFINE left == (r.lo .. r.hi) \ r.excl
<1>0. r.lo \in Nat /\ r.hi \in Int /\ r.hi <= max /\ r.excl \in SUBSET Nat /\ IsFiniteSet(r.excl)
    BY DEF IsRange
<1>1. CASE left = {}
    <2>1. Range_normalize(r) = EMPTY
        BY <1>1 DEF Range_normalize
    <2>2. \A v \in Nat : ~Range_contains(r, v)
        BY <1>1 DEF Range_contains
    <2>3. \A v \in Nat : ~Range_contains(EMPTY, v)
        BY DEF Range_contains, EMPTY
    <2>4. IsRange(EMPTY, max) /\ EMPTY.excl = {}
        BY FS_EmptySet DEF IsRange, EMPTY
    <2> QED
        BY <2>1, <2>2, <2>3, <2>4
<1>2. CASE left # {}
    <2>1. left \in SUBSET Nat /\ \A n \in left : n <= r.hi
        BY <1>0
    <2> DEFINE lo == Min(left)
               hi == Max(left)
    <2>2. lo \in left /\ \A n \in left : lo <= n
        BY <1>2, <2>1, LeastElement DEF Min
    <2>3. hi \in left /\ \A n \in left : hi >= n
        BY <1>0, <1>2, <2>1, GreatestElement DEF Max
    <2>4. Range_normalize(r) = [lo |-> lo, hi |-> hi, excl |-> r.excl \cap (lo .. hi)]
        BY <1>2 DEF Range_normalize
    <2> HIDE DEF lo, hi
    <2>5. lo \in Nat /\ hi \in Nat /\ hi <= max /\ lo >= r.lo /\ hi <= r.hi
        BY <1>0, <2>1, <2>2, <2>3
    <2>6. IsFiniteSet(r.excl \cap (lo .. hi))
        BY <1>0, FS_Intersection
    <2>7. IsRange(Range_normalize(r), max)
        BY <1>0, <2>4, <2>5, <2>6 DEF IsRange
    <2>8. \A v \in Nat : Range_contains(Range_normalize(r), v) <=> v \in left
        <3> TAKE v \in Nat
        <3>1. Range_contains(Range_normalize(r), v) <=> v \in (lo .. hi) /\ v \notin r.excl
            BY <2>4 DEF Range_contains
        <3>2. v \in left => v \in lo .. hi /\ v \notin r.excl
            BY <2>2, <2>3, <2>5
        <3>3. v \in lo .. hi /\ v \notin r.excl => v \in left
            BY <2>5, <1>0
        <3> QED
            BY <3>1, <3>2, <3>3
    <2>9. \A v \in Nat : Range_contains(r, v) <=> v \in left
        BY DEF Range_contains
    <2>10. Range_normalize(r).excl \subseteq r.excl
        BY <2>4
    <2> QED
        BY <2>7, <2>8, <2>9, <2>10
<1> QED
    BY <1>1, <1>2

\* Cutting an interval intersects it.
LEMMA CutIntersects ==
    ASSUME NEW max \in Nat, NEW r, IsRange(r, max), NEW lo \in Nat, NEW hi \in Int
    PROVE  /\ IsRange(Cut(r, lo, hi), max)
           /\ Cut(r, lo, hi).excl = r.excl
           /\ \A v \in Nat : Range_contains(Cut(r, lo, hi), v)
                             <=> (Range_contains(r, v) /\ lo <= v /\ v <= hi)
<1>0. r.lo \in Nat /\ r.hi \in Int /\ r.hi <= max /\ r.excl \in SUBSET Nat /\ IsFiniteSet(r.excl)
    BY DEF IsRange
<1>1. IsRange(Cut(r, lo, hi), max) /\ Cut(r, lo, hi).excl = r.excl
    BY <1>0 DEF IsRange, Cut
<1>2. ASSUME NEW v \in Nat
      PROVE  Range_contains(Cut(r, lo, hi), v)
             <=> (Range_contains(r, v) /\ lo <= v /\ v <= hi)
    BY <1>0 DEF Range_contains, Cut
<1> QED
    BY <1>1, <1>2

\* range_apply() never loses a value that passes the test; unless it cleared
\* *exact it keeps no other value either.
THEOREM RangeApplyWidensOnly ==
    ASSUME NEW max \in Nat, NEW r, IsRange(r, max), NEW test \in Tests, NEW arg \in Nat,
           NEW v \in 0 .. max
    PROVE  /\ (Range_contains(r, v) /\ Holds(test, v, arg))
                => Range_contains(Range_narrow(r, test, arg, max), v)
           /\ (Range_exact(r, test, arg, max) /\ Range_contains(Range_narrow(r, test, arg, max), v))
                => (Range_contains(r, v) /\ Holds(test, v, arg))
<1> DEFINE s == Range_narrow(r, test, arg, max)
           Both == Range_contains(s, v) <=> (Range_contains(r, v) /\ Holds(test, v, arg))
<1>0. r.lo \in Nat /\ r.hi \in Int /\ r.hi <= max /\ r.excl \in SUBSET Nat /\ IsFiniteSet(r.excl)
    BY DEF IsRange
<1>1. ASSUME NEW lo \in Nat, NEW hi \in Int, s = Range_normalize(Cut(r, lo, hi)),
             Holds(test, v, arg) <=> (lo <= v /\ v <= hi)
      PROVE  Both
    <2> DEFINE c == Cut(r, lo, hi)
    <2>0. v \in Nat /\ IsRange(c, max)
        BY CutIntersects
    <2>1. Range_contains(c, v) <=> (Range_contains(r, v) /\ lo <= v /\ v <= hi)
        BY <2>0, CutIntersects
    <2> HIDE DEF c
    <2>2. Range_contains(Range_normalize(c), v) <=> Range_contains(c, v)
        BY <2>0, NormalizeKeepsValues
    <2>3. s = Range_normalize(c)
        BY <1>1 DEF c
    <2> QED
        BY <1>1, <2>1, <2>2, <2>3
<1>2. ~Range_contains(EMPTY, v)
    BY DEF EMPTY, Range_contains
<1>3. CASE arg > max
    <2>1. s = IF test \in {"=", ">", ">="} THEN EMPTY ELSE r
        BY <1>3 DEF Range_narrow
    <2>2. v < arg
        BY <1>3
    <2>3. Holds(test, v, arg) <=> test \notin {"=", ">", ">="}
        BY <2>2, HoldsCases DEF Tests
    <2> QED
        BY <1>2, <2>1, <2>3
<1>4. CASE arg <= max /\ test = "!="
    <2>1. Holds(test, v, arg) <=> v # arg
        BY <1>4 DEF Holds
    <2>2. CASE ~Range_contains(r, arg)
        <3>1. s = r
            BY <1>4, <2>2 DEF Range_narrow
        <3> QED
            BY <2>1, <2>2, <3>1
    <2>3. CASE Range_contains(r, arg) /\ Cardinality(r.excl) = PF_MAX_EXCL
        <3>1. s = r /\ ~Range_exact(r, test, arg, max)
            BY <1>4, <2>3 DEF Range_narrow, Range_exact
        <3> QED
            BY <3>1
    <2>4. CASE Range_contains(r, arg) /\ Cardinality(r.excl) # PF_MAX_EXCL
        <3> DEFINE t == [r EXCEPT !.excl = @ \cup {arg}]
        <3>1. s = Range_normalize(t)
            BY <1>4, <2>4 DEF Range_narrow
        <3>2. IsRange(t, max)
            BY <1>0, FS_AddElement DEF IsRange
        <3>3. Range_contains(t, v) <=> Range_contains(r, v) /\ v # arg
            BY <1>0 DEF Range_contains, IsRange
        <3>4. Range_contains(Range_normalize(t), v) <=> Range_contains(t, v)
            BY <3>2, NormalizeKeepsValues
        <3> QED
            BY <2>1, <3>1, <3>3, <3>4
    <2> QED
        BY <2>2, <2>3, <2>4
<1>5. CASE arg <= max /\ test = "="
    <2>1. s = Range_normalize(Cut(r, arg, arg))
        BY <1>5 DEF Range_narrow
    <2>2. Holds(test, v, arg) <=> (arg <= v /\ v <= arg)
        BY <1>5 DEF Holds
    <2>3. Both
        BY <1>1, <2>1, <2>2
    <2> QED
        BY <2>3
<1>6. CASE arg <= max /\ test = "<"
    <2>1. s = Range_normalize(Cut(r, 0, arg - 1))
        BY <1>6 DEF Range_narrow
    <2>2. Holds(test, v, arg) <=> (0 <= v /\ v <= arg - 1)
        BY <1>6 DEF Holds
    <2>3. Both
        BY <1>1, <2>1, <2>2
    <2> QED
        BY <2>3
<1>7. CASE arg <= max /\ test = "<="
    <2>1. s = Range_normalize(Cut(r, 0, arg))
        BY <1>7 DEF Range_narrow
    <2>2. Holds(test, v, arg) <=> (0 <= v /\ v <= arg)
        BY <1>7 DEF Holds
    <2>3. Both
        BY <1>1, <2>1, <2>2
    <2> QED
        BY <2>3
<1>8. CASE arg <= max /\ test = ">"
    <2>1. s = Range_normalize(Cut(r, arg + 1, max))
        BY <1>8 DEF Range_narrow
    <2>2. Holds(test, v, arg) <=> (arg + 1 <= v /\ v <= max)
        BY <1>8 DEF Holds
    <2>3. Both
        BY <1>1, <2>1, <2>2
    <2> QED
        BY <2>3
<1>9. CASE arg <= max /\ test = ">="
    <2>1. s = Range_normalize(Cut(r, arg, max))
        BY <1>9 DEF Range_narrow
    <2>2. Holds(test, v, arg) <=> (arg <= v /\ v <= max)
        BY <1>9 DEF Holds
    <2>3. Both
        BY <1>1, <2>1, <2>2
    <2> QED
        BY <2>3
<1> QED
    BY <1>3, <1>4, <1>5, <1>6, <1>7, <1>8, <1>9 DEF Tests

\* A range never has more holes than the array excl[] of struct pf_range.
THEOREM HolesWithinArray ==
    ASSUME NEW max \in Nat, NEW r, IsRange(r, max), Cardinality(r.excl) <= PF_MAX_EXCL,
           NEW test \in Tests, NEW arg \in Nat
    PROVE  /\ IsRange(Range_narrow(r, test, arg, max), max)
           /\ Cardinality(Range_narrow(r, test, arg, max).excl) <= PF_MAX_EXCL
<1> DEFINE s == Range_narrow(r, test, arg, max)
           Fits(t) == IsRange(t, max) /\ Cardinality(t.excl) <= PF_MAX_EXCL
<1>0. /\ r \in [lo : Nat, hi : Int, excl : SUBSET Nat]
      /\ r.lo \in Nat /\ r.hi \in Int /\ r.hi <= max /\ r.excl \in SUBSET Nat /\ IsFiniteSet(r.excl)
      /\ Cardinality(r.excl) \in Nat
    BY FS_CardinalityType DEF IsRange
<1>1. ASSUME NEW t, IsRange(t, max), Cardinality(t.excl) <= PF_MAX_EXCL
      PROVE  Fits(Range_normalize(t))
    <2>1. IsRange(Range_normalize(t), max) /\ Range_normalize(t).excl \subseteq t.excl
        BY <1>1, NormalizeKeepsValues
    <2>2. IsFiniteSet(t.excl)
        BY <1>1 DEF IsRange
    <2>3. /\ Cardinality(Range_normalize(t).excl) \in Nat
          /\ Cardinality(t.excl) \in Nat
          /\ Cardinality(Range_normalize(t).excl) <= Cardinality(t.excl)
        BY <2>1, <2>2, FS_Subset, FS_CardinalityType
    <2> QED
        BY <1>1, <2>1, <2>3, ExclAssumption
<1>2. ASSUME NEW lo \in Nat, NEW hi \in Int
      PROVE  Fits(Range_normalize(Cut(r, lo, hi)))
    BY <1>1, CutIntersects
<1>3. Fits(EMPTY)
    BY FS_EmptySet, ExclAssumption DEF EMPTY, IsRange
<1> DEFINE t == [r EXCEPT !.excl = @ \cup {arg}]
<1>4. ASSUME Range_contains(r, arg), Cardinality(r.excl) # PF_MAX_EXCL
      PROVE  Fits(Range_normalize(t))
    <2>1. IsFiniteSet(r.excl \cup {arg})
          /\ Cardinality(r.excl \cup {arg}) <= Cardinality(r.excl) + 1
        BY <1>0, FS_AddElement, SMTT(40)
    <2>2. t.excl = r.excl \cup {arg}
        BY <1>0
    <2>3. Cardinality(t.excl) \in Nat
        BY <2>1, <2>2, FS_CardinalityType
    <2>4. IsRange(t, max)
        BY <1>0, <2>1 DEF IsRange
    <2>5. Cardinality(t.excl) <= PF_MAX_EXCL
        BY <1>0, <1>4, <2>1, <2>2, <2>3, ExclAssumption
    <2> QED
        BY <1>1, <2>4, <2>5
<1> HIDE DEF Fits, t
<1>5. Fits(r)
    BY DEF Fits
<1>6. CASE arg > max
    BY <1>3, <1>5, <1>6 DEF Range_narrow, Fits
<1>7. CASE arg <= max /\ test = "!="
    BY <1>4, <1>5, <1>7 DEF Range_narrow, Fits, t
<1>8. CASE arg <= max /\ test = "="
    <2>1. s = Range_normalize(Cut(r, arg, arg))
        BY <1>8 DEF Range_narrow
    <2> QED
        BY <1>2, <2>1 DEF Fits
<1>9. CASE arg <= max /\ test = "<"
    <2>1. s = Range_normalize(Cut(r, 0, arg - 1))
        BY <1>9 DEF Range_narrow
    <2> QED
        BY <1>2, <2>1 DEF Fits
<1>10. CASE arg <= max /\ test = "<="
    <2>1. s = Range_normalize(Cut(r, 0, arg))
        BY <1>10 DEF Range_narrow
    <2> QED
        BY <1>2, <2>1 DEF Fits
<1>11. CASE arg <= max /\ test = ">"
    <2>1. s = Range_normalize(Cut(r, arg + 1, max))
        BY <1>11 DEF Range_narrow
    <2> QED
        BY <1>2, <2>1 DEF Fits
<1>12. CASE arg <= max /\ test = ">="
    <2>1. s = Range_normalize(Cut(r, arg, max))
        BY <1>12 DEF Range_narrow
    <2> QED
        BY <1>2, <2>1 DEF Fits
<1> QED
    BY <1>6, <1>7, <1>8, <1>9, <1>10, <1>11, <1>12 DEF Tests

\* addr_apply() never loses an address that passes the test; unless it cleared
\* *exact it keeps no other address either, also when an edge moves onto the
\* hole.
THEOREM AddrApplyWidensOnly ==
    ASSUME NEW max \in Nat, NEW a, IsRange(a, max), NEW test \in Tests, NEW arg \in 0 .. max,
           NEW v \in 0 .. max
    PROVE  /\ (Range_contains(a, v) /\ Holds(test, v, arg))
                => Range_contains(Addr_narrow(a, test, arg, max), v)
           /\ (Addr_exact(a, test, arg) /\ Range_contains(Addr_narrow(a, test, arg, max), v))
                => (Range_contains(a, v) /\ Holds(test, v, arg))
<1> DEFINE s == Addr_narrow(a, test, arg, max)
           inside == arg \in a.lo .. a.hi
           Both == Range_contains(s, v) <=> (Range_contains(a, v) /\ Holds(test, v, arg))
           Within(b) == IF b.lo > b.hi THEN EMPTY ELSE [b EXCEPT !.excl = @ \cap (b.lo .. b.hi)]
<1>0. /\ a \in [lo : Nat, hi : Int, excl : SUBSET Nat]
      /\ a.lo \in Nat /\ a.hi \in Int /\ a.hi <= max /\ a.excl \in SUBSET Nat
    BY DEF IsRange
<1>1. ASSUME NEW lo \in Nat, NEW hi \in Int, s = Within(Cut(a, lo, hi)),
             Holds(test, v, arg) <=> (lo <= v /\ v <= hi)
      PROVE  Both
    <2> DEFINE c == Cut(a, lo, hi)
    <2>1. IsRange(c, max) /\ v \in Nat
        BY CutIntersects
    <2>2. Range_contains(c, v) <=> (Range_contains(a, v) /\ lo <= v /\ v <= hi)
        BY <2>1, CutIntersects
    <2> HIDE DEF c
    <2>3. c \in [lo : Nat, hi : Int, excl : SUBSET Nat]
        BY <2>1 DEF IsRange
    <2>4. Range_contains(Within(c), v) <=> Range_contains(c, v)
        BY <2>1, <2>3 DEF Range_contains, EMPTY
    <2>5. s = Within(c)
        BY <1>1 DEF c
    <2> QED
        BY <1>1, <2>2, <2>4, <2>5
<1>2. ~Range_contains(EMPTY, v)
    BY DEF EMPTY, Range_contains
<1>3. CASE test = "="
    <2>1. s = IF inside /\ arg \notin a.excl THEN [lo |-> arg, hi |-> arg, excl |-> {}] ELSE EMPTY
        BY <1>3 DEF Addr_narrow
    <2>2. Holds(test, v, arg) <=> v = arg
        BY <1>3, HoldsCases
    <2> QED
        BY <1>0, <1>2, <2>1, <2>2 DEF Range_contains
<1>4. CASE test = "!="
    <2>1. Holds(test, v, arg) <=> v # arg
        BY <1>4, HoldsCases
    <2>2. CASE ~inside
        <3>1. s = a
            BY <1>4, <2>2 DEF Addr_narrow
        <3> QED
            BY <1>0, <2>1, <2>2, <3>1 DEF Range_contains
    <2>3. CASE inside /\ a.lo = a.hi
        <3>1. s = EMPTY
            BY <1>4, <2>3 DEF Addr_narrow
        <3> QED
            BY <1>0, <1>2, <2>1, <2>3, <3>1 DEF Range_contains
    <2>4. CASE inside /\ a.lo # a.hi /\ arg = a.lo
        <3>1. s = [a EXCEPT !.lo = @ + 1]
            BY <1>4, <2>4 DEF Addr_narrow
        <3> QED
            BY <1>0, <2>1, <2>4, <3>1 DEF Range_contains
    <2>5. CASE inside /\ a.lo # a.hi /\ arg # a.lo /\ arg = a.hi
        <3>1. s = [a EXCEPT !.hi = @ - 1]
            BY <1>4, <2>5 DEF Addr_narrow
        <3> QED
            BY <1>0, <2>1, <2>5, <3>1 DEF Range_contains
    <2>6. CASE inside /\ a.lo # a.hi /\ arg # a.lo /\ arg # a.hi /\ a.excl # {}
        <3>1. s = a /\ ~Addr_exact(a, test, arg)
            BY <1>0, <1>4, <2>6 DEF Addr_narrow, Addr_exact
        <3> QED
            BY <3>1
    <2>7. CASE inside /\ a.lo # a.hi /\ arg # a.lo /\ arg # a.hi /\ a.excl = {}
        <3>1. s = [a EXCEPT !.excl = {arg}]
            BY <1>4, <2>7 DEF Addr_narrow
        <3> QED
            BY <1>0, <2>1, <2>7, <3>1 DEF Range_contains
    <2> QED
        BY <2>2, <2>3, <2>4, <2>5, <2>6, <2>7
<1>5. CASE test = "<"
    <2>1. s = Within(Cut(a, 0, arg - 1))
        BY <1>5 DEF Addr_narrow
    <2>2. Holds(test, v, arg) <=> (0 <= v /\ v <= arg - 1)
        BY <1>5, HoldsCases
    <2>3. Both
        BY <1>1, <2>1, <2>2
    <2> QED
        BY <2>3
<1>6. CASE test = "<="
    <2>1. s = Within(Cut(a, 0, arg))
        BY <1>6 DEF Addr_narrow
    <2>2. Holds(test, v, arg) <=> (0 <= v /\ v <= arg)
        BY <1>6, HoldsCases
    <2>3. Both
        BY <1>1, <2>1, <2>2
    <2> QED
        BY <2>3
<1>7. CASE test = ">"
    <2>1. s = Within(Cut(a, arg + 1, max))
        BY <1>7 DEF Addr_narrow
    <2>2. Holds(test, v, arg) <=> (arg + 1 <= v /\ v <= max)
        BY <1>7, HoldsCases
    <2>3. Both
        <3>1. arg + 1 \in Nat /\ max \in Int
            OBVIOUS
        <3> HIDE DEF s, Within, Both
        <3> QED
            BY <1>1, <2>1, <2>2, <3>1
    <2> QED
        BY <2>3
<1>8. CASE test = ">="
    <2>1. s = Within(Cut(a, arg, max))
        BY <1>8 DEF Addr_narrow
    <2>2. Holds(test, v, arg) <=> (arg <= v /\ v <= max)
        BY <1>8, HoldsCases
    <2>3. Both
        BY <1>1, <2>1, <2>2
    <2> QED
        BY <2>3
<1> QED
    BY <1>3, <1>4, <1>5, <1>6, <1>7, <1>8 DEF Tests

\* encode_range(): the rule's constraint accepts every value of the range, and
\* no other when it returned 1.
THEOREM EncodeWidensOnly ==
    ASSUME NEW max \in Nat, NEW r, IsRange(r, max), NEW v \in 0 .. max
    PROVE  /\ Range_contains(r, v) => Matches(Constraint(r, max), v)
           /\ (Encode_exact(r, max) /\ Matches(Constraint(r, max), v)) => Range_contains(r, v)
<1>0. r.lo \in Nat /\ r.hi \in Int /\ r.hi <= max /\ r.excl \in SUBSET Nat /\ IsFiniteSet(r.excl)
    BY DEF IsRange
<1>1. CASE r.lo = 0 /\ r.hi = max /\ Cardinality(r.excl) = 1
    <2>1. PICK x : r.excl = {x}
        BY <1>0, <1>1, FS_Singleton
    <2>2. (CHOOSE y \in r.excl : TRUE) = x
        BY <2>1
    <2>3. Constraint(r, max) = Match(TRUE, TRUE, x, x)
        BY <1>1, <2>2 DEF Constraint
    <2>4. Matches(Match(TRUE, TRUE, x, x), v) <=> v # x
        BY <1>0, <2>1 DEF Matches, Match
    <2> QED
        BY <1>0, <1>1, <2>1, <2>3, <2>4 DEF Range_contains
<1>2. CASE r.lo = 0 /\ r.hi = max /\ Cardinality(r.excl) # 1
    <2>1. Constraint(r, max) = Inactive
        BY <1>2 DEF Constraint
    <2>2. Matches(Inactive, v)
        BY DEF Matches, Inactive, Match
    <2>3. Encode_exact(r, max) => r.excl = {}
        BY <1>2 DEF Encode_exact
    <2> QED
        BY <1>2, <2>1, <2>2, <2>3 DEF Range_contains
<1>3. CASE ~(r.lo = 0 /\ r.hi = max)
    <2>1. Constraint(r, max) = Match(TRUE, FALSE, r.lo, r.hi)
        BY <1>3, Zenon DEF Constraint
    <2>2. Matches(Match(TRUE, FALSE, r.lo, r.hi), v) <=> v \in r.lo .. r.hi
        BY DEF Matches, Match
    <2>3. Encode_exact(r, max) => r.excl = {}
        BY <1>3 DEF Encode_exact
    <2> QED
        BY <2>1, <2>2, <2>3 DEF Range_contains
<1> QED
    BY <1>1, <1>2, <1>3
=============================================================================
