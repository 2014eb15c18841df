------------------------------ MODULE PfRange ------------------------------
(***************************************************************************)
(* The arithmetic of the prefilter (src/src/prefilter.c): intervals with   *)
(* holes, the tests that narrow them, and the constraints of a kernel rule *)
(* they are encoded to.                                                    *)
(*                                                                         *)
(* A range is the interval lo..hi without the points excl; lo > hi is no   *)
(* value at all.  An address is a range with one hole at most.             *)
(***************************************************************************)
EXTENDS Integers, FiniteSets, FiniteSetsExt

CONSTANT PF_MAX_EXCL        \* the holes a range can have

ASSUME ExclAssumption == PF_MAX_EXCL \in Nat

-----------------------------------------------------------------------------
(* Tests.                                                                  *)

Tests == {"=", "!=", "<", "<=", ">", ">="}

Holds(test, a, b) ==
    CASE test = "=" -> a = b
      [] test = "!=" -> a # b
      [] test = "<" -> a < b
      [] test = "<=" -> a <= b
      [] test = ">" -> a > b
      [] test = ">=" -> a >= b

Negate_test(test) ==
    CASE test = "=" -> "!="
      [] test = "!=" -> "="
      [] test = "<" -> ">="
      [] test = "<=" -> ">"
      [] test = ">" -> "<="
      [] test = ">=" -> "<"

-----------------------------------------------------------------------------
(* Ranges.  The apply operators return the new range and whether it is     *)
(* exactly the intersection asked for.                                     *)

EMPTY == [lo |-> 1, hi |-> 0, excl |-> {}]

Range_full(max) == [lo |-> 0, hi |-> max, excl |-> {}]
Range_contains(r, v) == v \in (r.lo .. r.hi) \ r.excl

\* The interval cut to [lo, hi].
Cut(r, lo, hi) ==
    [lo |-> IF lo > r.lo THEN lo ELSE r.lo, hi |-> IF hi < r.hi THEN hi ELSE r.hi,
     excl |-> r.excl]

\* Holes outside the interval are dropped, holes on an edge move the edge.
Range_normalize(r) ==
    LET left == (r.lo .. r.hi) \ r.excl
    IN  IF left = {} THEN EMPTY
        ELSE [lo |-> Min(left), hi |-> Max(left),
              excl |-> r.excl \cap (Min(left) .. Max(left))]

\* Narrowed by a test; a range that has all its holes stays as it is.
Range_narrow(r, test, arg, max) ==
    LET Within(lo, hi) == Range_normalize(Cut(r, lo, hi))
    IN  IF arg > max THEN (IF test \in {"=", ">", ">="} THEN EMPTY ELSE r)
        ELSE CASE test = "=" -> Within(arg, arg)
               [] test = "!=" ->
                      IF ~Range_contains(r, arg) \/ Cardinality(r.excl) = PF_MAX_EXCL THEN r
                      ELSE Range_normalize([r EXCEPT !.excl = @ \cup {arg}])
               [] test = "<" -> Within(0, arg - 1)
               [] test = "<=" -> Within(0, arg)
               [] test = ">" -> Within(arg + 1, max)
               [] test = ">=" -> Within(arg, max)

Range_exact(r, test, arg, max) ==
    (test = "!=" /\ arg <= max /\ Range_contains(r, arg)) => Cardinality(r.excl) # PF_MAX_EXCL

Range_apply(r, test, arg, max) ==
    <<Range_narrow(r, test, arg, max), Range_exact(r, test, arg, max)>>

\* An excluded edge of an address moves the edge and leaves the hole there was;
\* a narrowed interval forgets a hole outside it.
Addr_narrow(a, test, v, max) ==
    LET inside == v \in a.lo .. a.hi
        Within(lo, hi) ==
            LET b == Cut(a, lo, hi)
            IN  IF b.lo > b.hi THEN EMPTY ELSE [b EXCEPT !.excl = @ \cap (b.lo .. b.hi)]
    IN  CASE test = "=" -> IF inside /\ v \notin a.excl THEN [lo |-> v, hi |-> v, excl |-> {}]
                           ELSE EMPTY
          [] test = "!=" -> IF ~inside THEN a
                            ELSE IF a.lo = a.hi THEN EMPTY
                            ELSE IF v = a.lo THEN [a EXCEPT !.lo = @ + 1]
                            ELSE IF v = a.hi THEN [a EXCEPT !.hi = @ - 1]
                            ELSE IF a.excl # {} THEN a
                            ELSE [a EXCEPT !.excl = {v}]
          [] test = "<" -> Within(0, v - 1)
          [] test = "<=" -> Within(0, v)
          [] test = ">" -> Within(v + 1, max)
          [] test = ">=" -> Within(v, max)

Addr_exact(a, test, v) == (test = "!=" /\ a.lo < v /\ v < a.hi) => a.excl = {}

Addr_apply(a, test, v, max) == <<Addr_narrow(a, test, v, max), Addr_exact(a, test, v)>>

-----------------------------------------------------------------------------
(* Constraints of a rule: active or not, possibly inverted.                *)

Match(active, invert, lo, hi) == [active |-> active, invert |-> invert, lo |-> lo, hi |-> hi]
Inactive == Match(FALSE, FALSE, 0, 0)

\* A constraint that accepts the range: its interval, or all but its only hole.
Constraint(r, max) ==
    IF r.lo = 0 /\ r.hi = max
    THEN IF Cardinality(r.excl) = 1 THEN LET x == CHOOSE v \in r.excl : TRUE IN Match(TRUE, TRUE, x, x)
         ELSE Inactive
    ELSE Match(TRUE, FALSE, r.lo, r.hi)

Encode_exact(r, max) == r.excl = {} \/ (Cardinality(r.excl) = 1 /\ r.lo = 0 /\ r.hi = max)

Encode_range(r, max) == <<Constraint(r, max), Encode_exact(r, max)>>

\* A field the rules only compare with one value.
Encode_single(r, max) ==
    LET e == Encode_range(r, max)
    IN  IF e[1].active /\ e[1].lo # e[1].hi THEN <<Inactive, FALSE>> ELSE e

\* The kernel's side of a constraint.
Matches(m, v) == m.active => (v \in m.lo .. m.hi <=> ~m.invert)
=============================================================================
