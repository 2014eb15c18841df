----------------------------- MODULE HandLemmas -----------------------------
(***************************************************************************)
(* The packets a handle holds, in order: what Bytes and Kept compute for   *)
(* any list, and what each step of Receive does to InHand.                 *)
(***************************************************************************)
EXTENDS ReceiveProofs, SequenceTheorems, WellFoundedInduction

\* The provers a leaf is tried with when it names none.
USE SMT, Zenon, Z3T(40)

\* Induction up to n, on a set: its least counterexample.
LEMMA InductionUpTo ==
    ASSUME NEW n \in Nat, NEW S, 0 \in S,
           \A k \in 0 .. (n - 1) : k \in S => k + 1 \in S
    PROVE  \A k \in 0 .. n : k \in S
<1> SUFFICES ASSUME NEW m \in 0 .. n, m \notin S PROVE FALSE
  OBVIOUS
<1> DEFINE T == {k \in Nat : k \in 0 .. n /\ k \notin S}
<1>1. T \subseteq Nat /\ T # {}
  BY m \in T
<1>2. PICK k \in T : \A j \in T : ~(<<j, k>> \in OpToRel(<, Nat))
  <2> HIDE DEF T
  <2> QED
    BY <1>1, NatLessThanWellFounded, WFMin, Zenon
<1>3. \A j \in T : ~(j < k)
  BY <1>1, <1>2, Zenon DEF OpToRel
<1>4. k # 0 /\ k \in Nat /\ k <= n
  OBVIOUS
<1>5. k - 1 \in S
  BY <1>3, <1>4
<1> QED
  BY <1>4, <1>5

-----------------------------------------------------------------------------
(***************************************************************************)
(* Bytes, the length in bytes of a list of entries.                        *)
(***************************************************************************)
\* The sums over the first entries, one for every number of them.
IsSums(f, q, n) == f = [i \in 0 .. n |-> IF i = 0 THEN 0 ELSE f[i - 1] + PktLen[q[i].pkt]]
Sums(q) == CHOOSE f : IsSums(f, q, Len(q))

\* Every list has its sums.
LEMMA SumsExist ==
    ASSUME NEW q \in Seq(Entry)
    PROVE  /\ Bytes(q) = Sums(q)[Len(q)]
           /\ Sums(q)[0] = 0
           /\ \A i \in 1 .. Len(q) : Sums(q)[i] = Sums(q)[i - 1] + PktLen[q[i].pkt]
           /\ \A i \in 0 .. Len(q) : Sums(q)[i] \in Nat
<1>0. Len(q) \in Nat /\ \A i \in 1 .. Len(q) : PktLen[q[i].pkt] \in Nat
  <2>1. \A i \in 1 .. Len(q) : q[i] \in Entry
    OBVIOUS
  <2>2. \A e \in Entry : PktLen[e.pkt] \in Nat
    BY ReceiveAssumption DEF Entry
  <2> QED
    BY <2>1, <2>2
<1> DEFINE S == {n \in Nat : \E f : IsSums(f, q, n)}
<1>1. 0 \in S
  <2>1. [i \in 0 .. 0 |-> 0] =
          [i \in 0 .. 0 |-> IF i = 0 THEN 0 ELSE [j \in 0 .. 0 |-> 0][i - 1] + PktLen[q[i].pkt]]
    OBVIOUS
  <2>2. \E f : IsSums(f, q, 0)
    BY <2>1, Zenon DEF IsSums
  <2> QED
    BY <2>2
<1>2. ASSUME NEW k \in 0 .. (Len(q) - 1), k \in S PROVE k + 1 \in S
  <2>1. PICK f : IsSums(f, q, k)
    BY <1>2
  <2>2. PICK g : g = [i \in 0 .. (k + 1) |-> IF i = k + 1 THEN f[k] + PktLen[q[k + 1].pkt] ELSE f[i]]
    BY Zenon
  <2>3. k \in Nat /\ \A i \in 0 .. k : f[i] = IF i = 0 THEN 0 ELSE f[i - 1] + PktLen[q[i].pkt]
    BY <1>0, <2>1 DEF IsSums
  <2>4. \A i \in 0 .. (k + 1) : g[i] = IF i = 0 THEN 0 ELSE g[i - 1] + PktLen[q[i].pkt]
    BY <2>2, <2>3
  <2>5. g = [i \in 0 .. (k + 1) |-> IF i = 0 THEN 0 ELSE g[i - 1] + PktLen[q[i].pkt]]
    BY <2>2, <2>4
  <2> QED
    BY <2>3, <2>5 DEF IsSums
<1>3. Len(q) \in S
  <2> HIDE DEF S
  <2>1. \A k \in 0 .. Len(q) : k \in S
    BY <1>0, <1>1, <1>2, InductionUpTo, Zenon
  <2> QED
    BY <1>0, <2>1
<1>4. IsSums(Sums(q), q, Len(q))
  BY <1>3, Zenon DEF Sums
<1>5. Bytes(q) = Sums(q)[Len(q)]
  BY Zenon DEF Bytes, Sums, IsSums
<1>6. \A i \in 0 .. Len(q) : Sums(q)[i] = IF i = 0 THEN 0 ELSE Sums(q)[i - 1] + PktLen[q[i].pkt]
  BY <1>4 DEF IsSums
<1>7. Sums(q)[0] = 0 /\ \A i \in 1 .. Len(q) : Sums(q)[i] = Sums(q)[i - 1] + PktLen[q[i].pkt]
  BY <1>0, <1>6
<1> DEFINE T == {n \in Nat : Sums(q)[n] \in Nat}
<1>8. \A i \in 0 .. Len(q) : i \in T
  <2>1. 0 \in T
    BY <1>7
  <2>2. ASSUME NEW k \in 0 .. (Len(q) - 1), k \in T PROVE k + 1 \in T
    BY <1>0, <1>7, <2>2
  <2> HIDE DEF T
  <2> QED
    BY <1>0, <2>1, <2>2, InductionUpTo, Zenon
<1> QED
  BY <1>5, <1>7, <1>8

\* Lists that start with the same packets have the same sums that far.
LEMMA SumsAgree ==
    ASSUME NEW q \in Seq(Entry), NEW r \in Seq(Entry), NEW n \in Nat,
           n <= Len(q), n <= Len(r), \A i \in 1 .. n : q[i].pkt = r[i].pkt
    PROVE  Sums(q)[n] = Sums(r)[n]
<1> DEFINE S == {m \in Nat : Sums(q)[m] = Sums(r)[m]}
<1>1. 0 \in S
  BY SumsExist
<1>2. ASSUME NEW k \in 0 .. (n - 1), k \in S PROVE k + 1 \in S
  <2>1. k + 1 \in 1 .. Len(q) /\ k + 1 \in 1 .. Len(r) /\ k + 1 \in 1 .. n /\ (k + 1) - 1 = k
    OBVIOUS
  <2>2. /\ Sums(q)[k + 1] = Sums(q)[k] + PktLen[q[k + 1].pkt]
        /\ Sums(r)[k + 1] = Sums(r)[k] + PktLen[r[k + 1].pkt]
    BY <2>1, SumsExist
  <2> QED
    BY <1>2, <2>1, <2>2
<1>3. n \in S
  <2> HIDE DEF S
  <2>1. \A k \in 0 .. n : k \in S
    BY <1>1, <1>2, InductionUpTo, Zenon
  <2> QED
    BY <2>1
<1> QED
  BY <1>3

\* What Bytes is of the empty list, of a list and of a longer one.
LEMMA BytesIs ==
    /\ Bytes(<<>>) = 0
    /\ \A q \in Seq(Entry) : Bytes(q) \in Nat
    /\ \A q, r \in Seq(Entry) :
         Len(q) = Len(r) /\ (\A i \in 1 .. Len(q) : q[i].pkt = r[i].pkt) => Bytes(q) = Bytes(r)
    /\ \A q \in Seq(Entry), e \in Entry : Bytes(Append(q, e)) = Bytes(q) + PktLen[e.pkt]
<1>1. Bytes(<<>>) = 0
  <2>1. <<>> \in Seq(Entry) /\ Len(<<>>) = 0
    OBVIOUS
  <2> QED
    BY <2>1, SumsExist, Zenon
<1>2. ASSUME NEW q \in Seq(Entry) PROVE Bytes(q) \in Nat
  BY SumsExist
<1>3. ASSUME NEW q \in Seq(Entry), NEW r \in Seq(Entry), Len(q) = Len(r),
             \A i \in 1 .. Len(q) : q[i].pkt = r[i].pkt
      PROVE  Bytes(q) = Bytes(r)
  <2>1. PICK n \in Nat : n = Len(q)
    OBVIOUS
  <2>2. n <= Len(q) /\ n <= Len(r) /\ \A i \in 1 .. n : q[i].pkt = r[i].pkt
    BY <1>3, <2>1
  <2>3. Sums(q)[n] = Sums(r)[n]
    BY <2>2, SumsAgree
  <2>4. Bytes(q) = Sums(q)[Len(q)] /\ Bytes(r) = Sums(r)[Len(r)]
    BY SumsExist
  <2> QED
    BY ONLY <1>3, <2>1, <2>3, <2>4
<1>4. ASSUME NEW q \in Seq(Entry), NEW e \in Entry
      PROVE  Bytes(Append(q, e)) = Bytes(q) + PktLen[e.pkt]
  <2>0. Append(q, e) \in Seq(Entry)
    BY AppendProperties, Zenon
  <2>1. PICK r \in Seq(Entry) : r = Append(q, e)
    BY <2>0, Zenon
  <2>2. Len(r) = Len(q) + 1 /\ r[Len(q) + 1] = e /\ \A i \in 1 .. Len(q) : r[i] = q[i]
    BY <2>1
  <2>3. Len(q) \in Nat
    OBVIOUS
  <2>4. Sums(r)[Len(q)] = Sums(q)[Len(q)]
    BY <2>2, <2>3, SumsAgree
  <2>5. Bytes(r) = Sums(r)[Len(r)] /\ Bytes(q) = Sums(q)[Len(q)]
    BY SumsExist
  <2>6. Sums(r)[Len(q) + 1] = Sums(r)[(Len(q) + 1) - 1] + PktLen[r[Len(q) + 1].pkt]
    <3>1. Len(q) + 1 \in 1 .. Len(r)
      BY <2>2, <2>3
    <3> QED
      BY <3>1, SumsExist, Zenon
  <2> QED
    BY <2>1, <2>2, <2>3, <2>4, <2>5, <2>6
<1> QED
  BY <1>1, <1>2, <1>3, <1>4

-----------------------------------------------------------------------------
(***************************************************************************)
(* Kept, the members of a sequence at some of its indices.                 *)
(***************************************************************************)
IsKept(f, seq, keep, n) ==
    f = [i \in 0 .. n |->
           IF i = 0 THEN <<>>
           ELSE IF i \in keep THEN Append(f[i - 1], seq[i]) ELSE f[i - 1]]
KeptOf(seq, keep, n) == CHOOSE f : IsKept(f, seq, keep, n)

\* The recursion defines a function.
LEMMA KeptExists ==
    ASSUME NEW seq, NEW keep, NEW n \in Nat
    PROVE  /\ Kept(seq, keep, n) = KeptOf(seq, keep, n)[n]
           /\ \A i \in 0 .. n : KeptOf(seq, keep, n)[i] =
                IF i = 0 THEN <<>>
                ELSE IF i \in keep THEN Append(KeptOf(seq, keep, n)[i - 1], seq[i])
                                   ELSE KeptOf(seq, keep, n)[i - 1]
<1> DEFINE S == {m \in Nat : \E f : IsKept(f, seq, keep, m)}
<1>1. 0 \in S
  <2>1. PICK f : f = [i \in 0 .. 0 |-> <<>>]
    BY Zenon
  <2>2. IsKept(f, seq, keep, 0)
    BY <2>1 DEF IsKept
  <2> QED
    BY <2>2
<1>2. ASSUME NEW k \in 0 .. (n - 1), k \in S PROVE k + 1 \in S
  <2>1. PICK f : IsKept(f, seq, keep, k)
    BY <1>2
  <2>2. PICK g : g = [i \in 0 .. (k + 1) |->
                        IF i = k + 1 THEN IF k + 1 \in keep THEN Append(f[k], seq[k + 1]) ELSE f[k]
                        ELSE f[i]]
    BY Zenon
  <2>3. k \in Nat /\ \A i \in 0 .. k :
          f[i] = IF i = 0 THEN <<>>
                 ELSE IF i \in keep THEN Append(f[i - 1], seq[i]) ELSE f[i - 1]
    <3>1. k \in Nat
      OBVIOUS
    <3> QED
      BY ONLY <2>1, <3>1, Zenon DEF IsKept
  <2>4. \A i \in 0 .. (k + 1) :
          g[i] = IF i = 0 THEN <<>>
                 ELSE IF i \in keep THEN Append(g[i - 1], seq[i]) ELSE g[i - 1]
    BY <2>2, <2>3
  <2>5. IsKept(g, seq, keep, k + 1)
    BY <2>2, <2>4 DEF IsKept
  <2> QED
    BY <2>3, <2>5
<1>3. n \in S
  <2> HIDE DEF S
  <2>1. \A k \in 0 .. n : k \in S
    BY <1>1, <1>2, InductionUpTo
  <2> QED
    BY <2>1
<1>4. IsKept(KeptOf(seq, keep, n), seq, keep, n)
  BY <1>3, Zenon DEF KeptOf
<1>5. Kept(seq, keep, n) = KeptOf(seq, keep, n)[n]
  BY Zenon DEF Kept, KeptOf, IsKept
<1> QED
  BY <1>4, <1>5, Zenon DEF IsKept

\* Kept, index by index.
LEMMA KeptNone ==
    ASSUME NEW seq, NEW keep
    PROVE  Kept(seq, keep, 0) = <<>>
  BY KeptExists

LEMMA KeptNext ==
    ASSUME NEW seq, NEW keep, NEW n \in Nat
    PROVE  Kept(seq, keep, n + 1) =
             IF n + 1 \in keep THEN Append(Kept(seq, keep, n), seq[n + 1])
                               ELSE Kept(seq, keep, n)
<1>1. PICK f : f = KeptOf(seq, keep, n)
  OBVIOUS
<1>2. PICK g : g = KeptOf(seq, keep, n + 1)
  OBVIOUS
<1>3. /\ Kept(seq, keep, n) = f[n]
      /\ \A i \in 0 .. n : f[i] =
           IF i = 0 THEN <<>>
           ELSE IF i \in keep THEN Append(f[i - 1], seq[i]) ELSE f[i - 1]
  BY <1>1, KeptExists
<1>4. /\ Kept(seq, keep, n + 1) = g[n + 1]
      /\ \A i \in 0 .. (n + 1) : g[i] =
           IF i = 0 THEN <<>>
           ELSE IF i \in keep THEN Append(g[i - 1], seq[i]) ELSE g[i - 1]
  <2>1. n + 1 \in Nat
    OBVIOUS
  <2>2. /\ Kept(seq, keep, n + 1) = KeptOf(seq, keep, n + 1)[n + 1]
        /\ \A i \in 0 .. (n + 1) : KeptOf(seq, keep, n + 1)[i] =
             IF i = 0 THEN <<>>
             ELSE IF i \in keep THEN Append(KeptOf(seq, keep, n + 1)[i - 1], seq[i])
                                ELSE KeptOf(seq, keep, n + 1)[i - 1]
    BY ONLY <2>1, KeptExists
  <2> QED
    BY ONLY <1>2, <2>2
<1> DEFINE S == {i \in Nat : f[i] = g[i]}
<1>5. 0 \in S
  BY <1>3, <1>4
<1>6. ASSUME NEW k \in 0 .. (n - 1), k \in S PROVE k + 1 \in S
  BY <1>3, <1>4, <1>6
<1>7. f[n] = g[n]
  <2>1. \A k \in 0 .. n : k \in S
    <3> HIDE DEF S
    <3> QED
      BY <1>5, <1>6, InductionUpTo
  <2> QED
    BY <2>1
<1> QED
  BY <1>3, <1>4, <1>7

\* What is kept is kept from seq, at different places when seq repeats nothing.
LEMMA KeptFrom ==
    ASSUME NEW seq, NEW keep, NEW n \in Nat, NEW P, \A i \in 1 .. n : seq[i] \in P
    PROVE  /\ Kept(seq, keep, n) \in Seq(P)
           /\ \A a \in 1 .. Len(Kept(seq, keep, n)) :
                \E i \in 1 .. n : i \in keep /\ Kept(seq, keep, n)[a] = seq[i]
           /\ (\A i, j \in 1 .. n : seq[i] = seq[j] => i = j) =>
                \A a, b \in 1 .. Len(Kept(seq, keep, n)) :
                    Kept(seq, keep, n)[a] = Kept(seq, keep, n)[b] => a = b
<1> DEFINE F(m) == /\ Kept(seq, keep, m) \in Seq(P)
                   /\ \A a \in 1 .. Len(Kept(seq, keep, m)) :
                        \E i \in 1 .. m : i \in keep /\ Kept(seq, keep, m)[a] = seq[i]
                   /\ (\A i, j \in 1 .. n : seq[i] = seq[j] => i = j) =>
                        \A a, b \in 1 .. Len(Kept(seq, keep, m)) :
                            Kept(seq, keep, m)[a] = Kept(seq, keep, m)[b] => a = b
           S == {m \in Nat : F(m)}
<1>1. 0 \in S
  <2>1. Kept(seq, keep, 0) = <<>>
    BY KeptNone
  <2>2. F(0)
    <3>1. <<>> \in Seq(P) /\ 1 .. Len(<<>>) = {}
      OBVIOUS
    <3> QED
      BY <2>1, <3>1, Zenon
  <2> QED
    BY <2>2
<1>2. ASSUME NEW k \in 0 .. (n - 1), k \in S PROVE k + 1 \in S
  <2>0. k \in Nat /\ k + 1 \in Nat /\ F(k)
    BY <1>2
  <2> SUFFICES F(k + 1)
    BY <2>0
  <2>1. PICK K : K = Kept(seq, keep, k)
    OBVIOUS
  <2>2. PICK L : L = Kept(seq, keep, k + 1)
    OBVIOUS
  <2>3. L = IF k + 1 \in keep THEN Append(K, seq[k + 1]) ELSE K
    BY ONLY <2>0, <2>1, <2>2, KeptNext
  <2>4. /\ K \in Seq(P) /\ k \in Nat /\ k + 1 \in 1 .. n
        /\ \A a \in 1 .. Len(K) : \E i \in 1 .. k : i \in keep /\ K[a] = seq[i]
        /\ (\A i, j \in 1 .. n : seq[i] = seq[j] => i = j) =>
             \A a, b \in 1 .. Len(K) : K[a] = K[b] => a = b
    BY <2>0, <2>1
  <2>5. CASE k + 1 \notin keep
    <3>1. L = K
      BY <2>3, <2>5
    <3> QED
      BY <2>2, <2>4, <3>1
  <2>6. CASE k + 1 \in keep
    <3>1. /\ L \in Seq(P) /\ Len(L) = Len(K) + 1
          /\ \A a \in 1 .. Len(K) : L[a] = K[a]
          /\ L[Len(K) + 1] = seq[k + 1]
      <4>1. seq[k + 1] \in P
        BY <2>4
      <4> QED
        BY ONLY <2>3, <2>4, <2>6, <4>1, AppendProperties
    <3>2. \A a \in 1 .. Len(L) : \E i \in 1 .. (k + 1) : i \in keep /\ L[a] = seq[i]
      <4>1. ASSUME NEW a \in 1 .. Len(K) PROVE \E i \in 1 .. (k + 1) : i \in keep /\ L[a] = seq[i]
        <5>1. PICK i \in 1 .. k : i \in keep /\ K[a] = seq[i]
          BY <2>4
        <5>2. i \in 1 .. (k + 1)
          BY <2>4
        <5> QED
          BY <3>1, <5>1, <5>2
      <4>2. k + 1 \in 1 .. (k + 1) /\ Len(K) \in Nat
        BY <2>4
      <4>3. \A a \in 1 .. Len(L) : a \in 1 .. Len(K) \/ a = Len(K) + 1
        BY <3>1, <4>2
      <4> QED
        BY <2>6, <3>1, <4>1, <4>2, <4>3
    <3>3. ASSUME \A i, j \in 1 .. n : seq[i] = seq[j] => i = j,
                 NEW a \in 1 .. Len(L), NEW b \in 1 .. Len(L), L[a] = L[b]
          PROVE  a = b
      <4>1. ASSUME NEW c \in 1 .. Len(K) PROVE L[c] # seq[k + 1]
        <5>1. PICK i \in 1 .. k : K[c] = seq[i]
          BY <2>4
        <5> QED
          BY <2>4, <3>1, <3>3, <5>1
      <4>2. Len(K) \in Nat
        BY <2>4
      <4> QED
        BY <2>4, <3>1, <3>3, <4>1, <4>2
    <3> QED
      BY <2>2, <3>1, <3>2, <3>3
  <2> QED
    BY <2>5, <2>6
<1>3. n \in S
  <2> HIDE DEF S
  <2>1. \A k \in 0 .. n : k \in S
    BY <1>1, <1>2, InductionUpTo
  <2> QED
    BY <2>1
<1> QED
  BY <1>3

\* Kept depends on the kept members only.
LEMMA KeptSame ==
    ASSUME NEW seq, NEW keep, NEW seq2, NEW keep2, NEW n \in Nat,
           \A i \in 1 .. n : (i \in keep <=> i \in keep2) /\ (i \in keep => seq[i] = seq2[i])
    PROVE  Kept(seq, keep, n) = Kept(seq2, keep2, n)
<1> DEFINE S == {m \in Nat : Kept(seq, keep, m) = Kept(seq2, keep2, m)}
<1>1. 0 \in S
  BY KeptNone
<1>2. ASSUME NEW k \in 0 .. (n - 1), k \in S PROVE k + 1 \in S
  <2>1. k \in Nat /\ k + 1 \in 1 .. n
    OBVIOUS
  <2>2. Kept(seq, keep, k + 1) = IF k + 1 \in keep THEN Append(Kept(seq, keep, k), seq[k + 1])
                                                   ELSE Kept(seq, keep, k)
    BY <2>1, KeptNext
  <2>3. Kept(seq2, keep2, k + 1) = IF k + 1 \in keep2 THEN Append(Kept(seq2, keep2, k), seq2[k + 1])
                                                      ELSE Kept(seq2, keep2, k)
    BY <2>1, KeptNext
  <2> QED
    BY <1>2, <2>1, <2>2, <2>3
<1>3. \A k \in 0 .. n : k \in S
  <2> HIDE DEF S
  <2> QED
    BY <1>1, <1>2, InductionUpTo
<1> QED
  BY <1>3

\* Without its first member, when that one is not kept.
LEMMA KeptTail ==
    ASSUME NEW seq, NEW keep, NEW seq2, NEW keep2, NEW n \in Nat, 1 \notin keep,
           \A i \in 1 .. n : /\ i \in keep2 <=> i + 1 \in keep
                             /\ i \in keep2 => seq2[i] = seq[i + 1]
    PROVE  Kept(seq2, keep2, n) = Kept(seq, keep, n + 1)
<1> DEFINE S == {m \in Nat : Kept(seq2, keep2, m) = Kept(seq, keep, m + 1)}
<1>1. 0 \in S
  <2>1. Kept(seq, keep, 0 + 1) = Kept(seq, keep, 0)
    BY KeptNext
  <2> QED
    BY <2>1, KeptNone
<1>2. ASSUME NEW k \in 0 .. (n - 1), k \in S PROVE k + 1 \in S
  <2>1. k \in Nat /\ k + 1 \in 1 .. n /\ k + 1 \in Nat
    OBVIOUS
  <2>2. Kept(seq2, keep2, k + 1) = IF k + 1 \in keep2 THEN Append(Kept(seq2, keep2, k), seq2[k + 1])
                                                      ELSE Kept(seq2, keep2, k)
    BY <2>1, KeptNext
  <2>3. Kept(seq, keep, (k + 1) + 1) =
          IF (k + 1) + 1 \in keep THEN Append(Kept(seq, keep, k + 1), seq[(k + 1) + 1])
                                  ELSE Kept(seq, keep, k + 1)
    <3>1. PICK m \in Nat : m = k + 1
      BY <2>1
    <3>2. Kept(seq, keep, m + 1) =
            IF m + 1 \in keep THEN Append(Kept(seq, keep, m), seq[m + 1])
                              ELSE Kept(seq, keep, m)
      BY KeptNext
    <3> QED
      BY <3>1, <3>2
  <2> QED
    BY <1>2, <2>1, <2>2, <2>3
<1>3. \A k \in 0 .. n : k \in S
  <2> HIDE DEF S
  <2> QED
    BY <1>1, <1>2, InductionUpTo
<1> QED
  BY <1>3

\* t is s without its member at index a.
Without(s, t, a) ==
    /\ a \in 1 .. Len(s) /\ Len(t) = Len(s) - 1
    /\ \A i \in 1 .. (a - 1) : t[i] = s[i]
    /\ \A i \in a .. Len(t) : t[i] = s[i + 1]

LEMMA WithoutIs ==
    ASSUME NEW P, NEW s \in Seq(P), NEW t \in Seq(P), NEW a, Without(s, t, a)
    PROVE  t = SubSeq(s, 1, a - 1) \o SubSeq(s, a + 1, Len(s))
<1>1. Len(s) \in Nat /\ a \in Int /\ 1 <= a /\ a <= Len(s) /\ Len(t) = Len(s) - 1
  BY DEF Without
<1>2. PICK u : u = SubSeq(s, 1, a - 1)
  BY Zenon
<1>3. PICK v : v = SubSeq(s, a + 1, Len(s))
  BY Zenon
<1>4. u \in Seq(P) /\ Len(u) = a - 1 /\ \A i \in 1 .. (a - 1) : u[i] = s[i]
  <2>1. \A i \in 1 .. (a - 1) : s[i] \in P
    BY <1>1
  <2>2. /\ u \in Seq(P) /\ Len(u) = IF 1 <= a - 1 THEN (a - 1) - 1 + 1 ELSE 0
        /\ \A i \in 1 .. (a - 1) - 1 + 1 : u[i] = s[1 + i - 1]
    BY <1>1, <1>2, <2>1, SubSeqProperties
  <2> QED
    BY <1>1, <2>2
<1>5. v \in Seq(P) /\ Len(v) = Len(s) - a /\ \A i \in 1 .. (Len(s) - a) : v[i] = s[a + i]
  <2>1. \A i \in (a + 1) .. Len(s) : s[i] \in P
    BY <1>1
  <2>2. /\ v \in Seq(P) /\ Len(v) = IF a + 1 <= Len(s) THEN Len(s) - (a + 1) + 1 ELSE 0
        /\ \A i \in 1 .. Len(s) - (a + 1) + 1 : v[i] = s[(a + 1) + i - 1]
    BY <1>1, <1>3, <2>1, SubSeqProperties
  <2> QED
    BY <1>1, <2>2
<1>6. PICK w : w = u \o v
  BY Zenon
<1>7. /\ w \in Seq(P) /\ Len(w) = Len(u) + Len(v)
      /\ \A i \in 1 .. Len(u) + Len(v) : w[i] = IF i <= Len(u) THEN u[i] ELSE v[i - Len(u)]
  BY ONLY <1>4, <1>5, <1>6, ConcatProperties
<1>8. Len(w) = Len(t)
  BY <1>1, <1>4, <1>5, <1>7
<1>9. ASSUME NEW i \in 1 .. Len(t) PROVE t[i] = w[i]
  <2>1. CASE i <= a - 1
    <3>1. t[i] = s[i]
      BY <1>1, <2>1 DEF Without
    <3>2. /\ i \in 1 .. Len(u) + Len(v) /\ i <= Len(u)
          /\ i \in 1 .. (a - 1)
      BY ONLY <1>1, <1>4, <1>5, <2>1, i \in 1 .. Len(t)
    <3>3. w[i] = u[i]
      BY ONLY <1>7, <3>2
    <3>4. u[i] = s[i]
      BY ONLY <1>4, <3>2
    <3> QED
      BY ONLY <3>1, <3>3, <3>4
  <2>2. CASE ~(i <= a - 1)
    <3>1. t[i] = s[i + 1]
      BY <1>1, <2>2 DEF Without
    <3>2. w[i] = v[i - (a - 1)]
      <4>1. i \in 1 .. Len(u) + Len(v) /\ ~(i <= Len(u)) /\ Len(u) = a - 1
        BY <1>1, <1>4, <1>5, <2>2
      <4> QED
        BY ONLY <1>7, <4>1
    <3>3. v[i - (a - 1)] = s[a + (i - (a - 1))]
      BY <1>1, <1>5, <2>2
    <3>4. a + (i - (a - 1)) = i + 1
      BY <1>1
    <3> QED
      BY <3>1, <3>2, <3>3, <3>4
  <2> QED
    BY <2>1, <2>2
<1> QED
  BY <1>2, <1>3, <1>6, <1>7, <1>8, <1>9, SeqEqual, Zenon

\* Letting go of the member at index j takes it out of what is kept, wherever
\* that is, and leaves the rest in order.
LEMMA KeptWithout ==
    ASSUME NEW seq, NEW keep, NEW n \in Nat, NEW P, \A i \in 1 .. n : seq[i] \in P,
           NEW j \in 1 .. n, j \in keep
    PROVE  \E a \in 1 .. Len(Kept(seq, keep, n)) :
             /\ j = 1 => a = 1
             /\ Kept(seq, keep, n)[a] = seq[j]
             /\ Without(Kept(seq, keep, n), Kept(seq, keep \ {j}, n), a)
<1> DEFINE F(m, a) ==
             /\ Kept(seq, keep, m)[a] = seq[j]
             /\ Without(Kept(seq, keep, m), Kept(seq, keep \ {j}, m), a)
<1>0. PICK b : b = Len(Kept(seq, keep, j - 1)) + 1
  OBVIOUS
<1>1. j - 1 \in Nat /\ (j - 1) + 1 = j /\ j \in Nat
  OBVIOUS
<1>2. \A m \in 0 .. n : Kept(seq, keep, m) \in Seq(P) /\ Kept(seq, keep \ {j}, m) \in Seq(P)
  BY KeptFrom
<1>3. b \in Nat /\ b >= 1 /\ (j = 1 => b = 1)
  <2>1. Kept(seq, keep, j - 1) \in Seq(P)
    BY <1>1, <1>2
  <2>2. j = 1 => Kept(seq, keep, j - 1) = <<>>
    BY KeptNone
  <2> QED
    BY <1>0, <2>1, <2>2
<1> DEFINE S == {m \in Nat : F(m + j, b)}
<1>4. 0 \in S
  <2>1. PICK K : K = Kept(seq, keep, j - 1)
    OBVIOUS
  <2>2. PICK i \in Nat : i = j - 1
    BY <1>1
  <2>3. Kept(seq, keep, j) = Append(K, seq[j])
    <3>1. Kept(seq, keep, i + 1) = IF i + 1 \in keep THEN Append(Kept(seq, keep, i), seq[i + 1])
                                                     ELSE Kept(seq, keep, i)
      BY KeptNext
    <3> QED
      BY <1>1, <2>1, <2>2, <3>1
  <2>4. Kept(seq, keep \ {j}, j) = K
    <3>1. Kept(seq, keep \ {j}, i + 1) =
            IF i + 1 \in keep \ {j} THEN Append(Kept(seq, keep \ {j}, i), seq[i + 1])
                                    ELSE Kept(seq, keep \ {j}, i)
      <4>1. PICK keep2 : keep2 = keep \ {j}
        BY Zenon
      <4>2. Kept(seq, keep2, i + 1) = IF i + 1 \in keep2 THEN Append(Kept(seq, keep2, i), seq[i + 1])
                                                         ELSE Kept(seq, keep2, i)
        BY ONLY i \in Nat, KeptNext
      <4> QED
        BY ONLY <4>1, <4>2
    <3>2. Kept(seq, keep \ {j}, i) = Kept(seq, keep, i)
      <4>1. PICK keep2 : keep2 = keep \ {j}
        BY Zenon
      <4>2. \A h \in 1 .. i : (h \in keep2 <=> h \in keep) /\ (h \in keep2 => seq[h] = seq[h])
        BY <2>2, <4>1
      <4>3. Kept(seq, keep2, i) = Kept(seq, keep, i)
        BY ONLY i \in Nat, <4>2, KeptSame
      <4> QED
        BY <4>1, <4>3
    <3> QED
      BY <1>1, <2>1, <2>2, <3>1, <3>2
  <2>5. K \in Seq(P) /\ seq[j] \in P /\ b = Len(K) + 1
    BY <1>0, <1>1, <1>2, <2>1
  <2>6. PICK L : L = Append(K, seq[j])
    BY Zenon
  <2>7. /\ L \in Seq(P) /\ Len(L) = b /\ L[b] = seq[j] /\ Len(K) \in Nat
        /\ \A h \in 1 .. Len(K) : L[h] = K[h]
    BY ONLY <2>5, <2>6, AppendProperties
  <2>8. Without(L, K, b)
    BY ONLY <2>5, <2>7 DEF Without
  <2>9. F(j, b)
    BY <2>3, <2>4, <2>6, <2>7, <2>8
  <2>10. 0 + j = j
    BY <1>1
  <2> QED
    BY <2>9, <2>10
<1>5. ASSUME NEW k \in 0 .. (n - j - 1), k \in S PROVE k + 1 \in S
  <2>1. PICK m \in Nat : m = k + j
    BY <1>1
  <2>2. PICK K : K = Kept(seq, keep, m)
    OBVIOUS
  <2>3. PICK L : L = Kept(seq, keep \ {j}, m)
    OBVIOUS
  <2>4. K \in Seq(P) /\ L \in Seq(P) /\ K[b] = seq[j] /\ Without(K, L, b)
    <3>1. m \in 0 .. n
      BY <1>1, <2>1
    <3>2. F(m, b)
      <4> HIDE DEF F
      <4> QED
        BY <1>5, <2>1
    <3> QED
      BY <1>2, <2>2, <2>3, <3>1, <3>2, Zenon
  <2>5. m + 1 \in 1 .. n /\ m + 1 # j /\ seq[m + 1] \in P
    BY <1>1, <2>1
  <2>6. Kept(seq, keep, m + 1) = IF m + 1 \in keep THEN Append(K, seq[m + 1]) ELSE K
    BY ONLY <2>2, m \in Nat, KeptNext
  <2>7. Kept(seq, keep \ {j}, m + 1) = IF m + 1 \in keep THEN Append(L, seq[m + 1]) ELSE L
    <3>1. PICK kept : kept = keep \ {j}
      BY Zenon
    <3>2. Kept(seq, kept, m + 1) =
            IF m + 1 \in kept THEN Append(Kept(seq, kept, m), seq[m + 1]) ELSE Kept(seq, kept, m)
      BY ONLY m \in Nat, KeptNext
    <3>3. m + 1 \in kept <=> m + 1 \in keep
      BY <2>5, <3>1
    <3> QED
      BY ONLY <2>3, <3>1, <3>2, <3>3, Zenon
  <2> SUFFICES F(m + 1, b)
    <3>1. (k + 1) + j = m + 1 /\ k + 1 \in Nat
      BY <1>1, <2>1
    <3> HIDE DEF F
    <3> QED
      BY <3>1
  <2>8. CASE m + 1 \notin keep
    BY <2>4, <2>6, <2>7, <2>8
  <2>9. CASE m + 1 \in keep
    <3>1. PICK M : M = Append(K, seq[m + 1])
      BY Zenon
    <3>2. PICK N : N = Append(L, seq[m + 1])
      BY Zenon
    <3>3. /\ Len(M) = Len(K) + 1 /\ M[Len(K) + 1] = seq[m + 1]
          /\ \A i \in 1 .. Len(K) : M[i] = K[i]
      BY ONLY <2>4, <2>5, <3>1, AppendProperties
    <3>4. /\ Len(N) = Len(L) + 1 /\ N[Len(L) + 1] = seq[m + 1]
          /\ \A i \in 1 .. Len(L) : N[i] = L[i]
      BY ONLY <2>4, <2>5, <3>2, AppendProperties
    <3>5. Len(K) \in Nat /\ Len(L) \in Nat
      BY <2>4
    <3>6. Without(M, N, b)
      <4>1. /\ b \in 1 .. Len(K) /\ Len(L) = Len(K) - 1
            /\ \A i \in 1 .. (b - 1) : L[i] = K[i]
            /\ \A i \in b .. Len(L) : L[i] = K[i + 1]
        BY <2>4, Zenon DEF Without
      <4>2. b \in 1 .. Len(M) /\ Len(N) = Len(M) - 1
        BY ONLY <3>3, <3>4, <3>5, <4>1
      <4>3. ASSUME NEW i \in 1 .. (b - 1) PROVE N[i] = M[i]
        <5>1. i \in 1 .. Len(K) /\ i \in 1 .. Len(L)
          BY <3>5, <4>1
        <5> QED
          BY <3>3, <3>4, <4>1, <5>1
      <4>4. ASSUME NEW i \in b .. Len(N) PROVE N[i] = M[i + 1]
        <5>1. CASE i = Len(L) + 1
          BY <3>3, <3>4, <3>5, <4>1, <5>1
        <5>2. CASE i # Len(L) + 1
          <6>1. i \in b .. Len(L) /\ i \in 1 .. Len(L) /\ i + 1 \in 1 .. Len(K)
            BY <3>4, <3>5, <4>1, <5>2
          <6> QED
            BY ONLY <3>3, <3>4, <4>1, <6>1
        <5> QED
          BY <5>1, <5>2
      <4> QED
        BY <4>2, <4>3, <4>4 DEF Without
    <3>7. M[b] = seq[j]
      BY <2>4, <3>3 DEF Without
    <3> QED
      BY <2>6, <2>7, <2>9, <3>1, <3>2, <3>6, <3>7, Zenon
  <2> QED
    BY <2>8, <2>9
<1>6. F(n, b)
  <2>1. n - j \in Nat
    BY <1>1
  <2> HIDE DEF F
  <2>2. \A k \in 0 .. (n - j) : k \in S
    <3> HIDE DEF S
    <3> QED
      BY <1>4, <1>5, <2>1, InductionUpTo
  <2>3. n - j \in S
    BY <2>1, <2>2
  <2>4. (n - j) + j = n
    BY <1>1
  <2> QED
    BY <2>3, <2>4
<1> QED
  BY <1>3, <1>6, Zenon DEF Without

-----------------------------------------------------------------------------
(***************************************************************************)
(* What the handle holds, in order.                                        *)
(***************************************************************************)
\* InHand, piece by piece.
InQueue == PacketsOf(queue)
InRing  == Kept(PacketsOf(ring), Unread, Len(ring))

\* The packets in hand are typed, and no two places hold the same one.
LEMMA HandIs ==
    ASSUME ReceiveInv
    PROVE  /\ InHand = InQueue \o InRing
           /\ InQueue \in Seq(Packets) /\ Len(InQueue) = Len(queue)
           /\ \A i \in 1 .. Len(queue) : InQueue[i] = queue[i].pkt
           /\ InRing \in Seq(Packets)
           /\ \A a \in 1 .. Len(InRing) : \E i \in 1 .. Len(ring) : i \in Unread /\ InRing[a] = ring[i].pkt
           /\ InHand \in Seq(Packets) /\ Len(InHand) = Len(InQueue) + Len(InRing)
           /\ \A i \in 1 .. Len(InHand) :
                InHand[i] = IF i <= Len(InQueue) THEN InQueue[i] ELSE InRing[i - Len(InQueue)]
           /\ \A i, j \in 1 .. Len(InHand) : InHand[i] = InHand[j] => i = j
<1>1. queue \in Seq(Entry) /\ ring \in Seq(Record) /\ Len(queue) \in Nat /\ Len(ring) \in Nat
  BY DEF ReceiveInv, TypeOK
<1>2. /\ DOMAIN queue = 1 .. Len(queue) /\ DOMAIN ring = 1 .. Len(ring)
      /\ \A i \in 1 .. Len(queue) : queue[i].pkt \in Packets
      /\ \A i \in 1 .. Len(ring) : ring[i].pkt \in Packets
  <2>1. DOMAIN queue = 1 .. Len(queue) /\ DOMAIN ring = 1 .. Len(ring)
    BY <1>1
  <2>2. TypeOK
    BY DEF ReceiveInv
  <2> QED
    BY <2>1, <2>2, HeldPackets, Zenon
<1>3. InHand = InQueue \o InRing
  BY DEF InHand, InQueue, InRing
<1>4. InQueue \in [1 .. Len(queue) -> Packets] /\ \A i \in 1 .. Len(queue) : InQueue[i] = queue[i].pkt
  BY <1>2 DEF InQueue, PacketsOf
<1>5. InQueue \in Seq(Packets) /\ Len(InQueue) = Len(queue)
  <2>1. InQueue \in Seq(Packets)
    BY ONLY <1>1, <1>4, FunctionIsSeq
  <2> QED
    BY ONLY <1>1, <1>4, <2>1
<1>6. PICK P : P = PacketsOf(ring)
  OBVIOUS
<1>7. \A i \in 1 .. Len(ring) : P[i] = ring[i].pkt /\ P[i] \in Packets
  BY <1>2, <1>6 DEF PacketsOf
<1>8. /\ InRing \in Seq(Packets)
      /\ \A a \in 1 .. Len(InRing) : \E i \in 1 .. Len(ring) : i \in Unread /\ InRing[a] = P[i]
      /\ (\A i, j \in 1 .. Len(ring) : P[i] = P[j] => i = j) =>
             \A a, b \in 1 .. Len(InRing) : InRing[a] = InRing[b] => a = b
  <2>1. PICK U : U = Unread
    OBVIOUS
  <2>2. InRing = Kept(P, U, Len(ring))
    BY <1>6, <2>1 DEF InRing
  <2>3. PICK n \in Nat : n = Len(ring)
    BY <1>1
  <2>4. \A i \in 1 .. n : P[i] \in Packets
    BY <1>7, <2>3
  <2>5. /\ Kept(P, U, n) \in Seq(Packets)
        /\ \A a \in 1 .. Len(Kept(P, U, n)) : \E i \in 1 .. n : i \in U /\ Kept(P, U, n)[a] = P[i]
        /\ (\A i, j \in 1 .. n : P[i] = P[j] => i = j) =>
             \A a, b \in 1 .. Len(Kept(P, U, n)) : Kept(P, U, n)[a] = Kept(P, U, n)[b] => a = b
    BY ONLY <2>4, n \in Nat, KeptFrom
  <2> QED
    BY ONLY <2>1, <2>2, <2>3, <2>5
<1>9. \A a \in 1 .. Len(InRing) : \E i \in 1 .. Len(ring) : i \in Unread /\ InRing[a] = ring[i].pkt
  BY <1>7, <1>8
<1>10. \A a, b \in 1 .. Len(InRing) : InRing[a] = InRing[b] => a = b
  <2>1. \A i, j \in 1 .. Len(ring) : P[i] = P[j] => i = j
    BY <1>2, <1>7 DEF ReceiveInv, HeldOnce
  <2> QED
    BY <1>8, <2>1
<1>11. \A a \in 1 .. Len(queue), b \in 1 .. Len(InRing) : InQueue[a] # InRing[b]
  <2>1. SUFFICES ASSUME NEW a \in 1 .. Len(queue), NEW b \in 1 .. Len(InRing), InQueue[a] = InRing[b]
                 PROVE  FALSE
    OBVIOUS
  <2>2. PICK i \in 1 .. Len(ring) : i \in Unread /\ InRing[b] = ring[i].pkt
    BY <1>9
  <2>3. queue[a].pkt = ring[i].pkt
    BY <1>4, <2>1, <2>2
  <2>4. i = 1 /\ \E t \in Receivers : pc[t] = "advance"
    BY <1>2, <2>3 DEF ReceiveInv, HeldOnce
  <2> QED
    BY <2>2, <2>4 DEF Unread
<1>12. /\ InHand \in Seq(Packets) /\ Len(InHand) = Len(InQueue) + Len(InRing)
       /\ \A i \in 1 .. Len(InQueue) + Len(InRing) :
            InHand[i] = IF i <= Len(InQueue) THEN InQueue[i] ELSE InRing[i - Len(InQueue)]
  BY ONLY <1>3, <1>5, <1>8, ConcatProperties
<1>13. ASSUME NEW i \in 1 .. Len(InHand), NEW j \in 1 .. Len(InHand), InHand[i] = InHand[j]
       PROVE  i = j
  <2>1. Len(InRing) \in Nat /\ Len(InQueue) \in Nat
    BY <1>5, <1>8
  <2>2. \A a, b \in 1 .. Len(queue) : InQueue[a] = InQueue[b] => a = b
    BY <1>2, <1>4 DEF ReceiveInv, HeldOnce
  <2>3. CASE i <= Len(InQueue) /\ j <= Len(InQueue)
    BY ONLY <1>5, <1>12, <1>13, <2>1, <2>2, <2>3
  <2>4. CASE ~(i <= Len(InQueue)) /\ ~(j <= Len(InQueue))
    <3>1. i - Len(InQueue) \in 1 .. Len(InRing) /\ j - Len(InQueue) \in 1 .. Len(InRing)
      BY <1>12, <2>1, <2>4
    <3>2. i - Len(InQueue) = j - Len(InQueue)
      BY ONLY <1>10, <1>12, <1>13, <2>4, <3>1
    <3> QED
      BY <1>12, <2>1, <3>2
  <2>5. CASE i <= Len(InQueue) /\ ~(j <= Len(InQueue))
    <3>1. i \in 1 .. Len(queue) /\ j - Len(InQueue) \in 1 .. Len(InRing)
      BY <1>5, <1>12, <2>1, <2>5
    <3> QED
      BY ONLY <1>11, <1>12, <1>13, <2>5, <3>1
  <2>6. CASE ~(i <= Len(InQueue)) /\ j <= Len(InQueue)
    <3>1. j \in 1 .. Len(queue) /\ i - Len(InQueue) \in 1 .. Len(InRing)
      BY <1>5, <1>12, <2>1, <2>6
    <3> QED
      BY ONLY <1>11, <1>12, <1>13, <2>6, <3>1, Zenon
  <2> QED
    BY <2>3, <2>4, <2>5, <2>6
<1> QED
  BY <1>3, <1>4, <1>5, <1>8, <1>9, <1>12, <1>13

\* Held, as a set of places.
LEMMA HeldIs ==
    ASSUME ReceiveInv, NEW p
    PROVE  /\ p \in Held <=> \E i \in 1 .. Len(InHand) : InHand[i] = p
           /\ p \in Held => \/ \E i \in 1 .. Len(queue) : queue[i].pkt = p
                            \/ \E i \in 1 .. Len(ring) : ring[i].pkt = p
<1>1. InHand \in Seq(Packets)
  BY HandIs
<1>2. p \in Held <=> \E i \in 1 .. Len(InHand) : InHand[i] = p
  BY <1>1 DEF Held
<1>3. ASSUME NEW i \in 1 .. Len(InHand)
      PROVE  \/ \E j \in 1 .. Len(queue) : queue[j].pkt = InHand[i]
             \/ \E j \in 1 .. Len(ring) : ring[j].pkt = InHand[i]
  <2>1. Len(InQueue) \in Nat /\ Len(InRing) \in Nat
    BY HandIs
  <2>2. CASE i <= Len(InQueue)
    BY <2>1, <2>2, HandIs
  <2>3. CASE ~(i <= Len(InQueue))
    <3>1. i - Len(InQueue) \in 1 .. Len(InRing) /\ InHand[i] = InRing[i - Len(InQueue)]
      BY <2>1, <2>3, HandIs
    <3>2. PICK a \in 1 .. Len(InRing) : InHand[i] = InRing[a]
      BY <3>1
    <3>3. \E j \in 1 .. Len(ring) : j \in Unread /\ InRing[a] = ring[j].pkt
      BY HandIs, Zenon
    <3> QED
      BY <3>2, <3>3
  <2> QED
    BY <2>2, <2>3
<1> QED
  BY <1>2, <1>3

-----------------------------------------------------------------------------
(***************************************************************************)
(* What a step does to the packets in hand.                                *)
(***************************************************************************)
\* The same packets in the queue, the same packets unread: the same in hand.
LEMMA SameHand ==
    ASSUME ReceiveInv, ReceiveInv', Len(queue') = Len(queue), Len(ring') = Len(ring),
           \A i \in 1 .. Len(queue) : queue'[i].pkt = queue[i].pkt,
           \A i \in 1 .. Len(ring) : /\ i \in Unread' <=> i \in Unread
                                     /\ ring'[i].pkt = ring[i].pkt
    PROVE  InHand' = InHand
<1>1. Len(queue) \in Nat /\ Len(ring) \in Nat /\ ring \in Seq(Record) /\ ring' \in Seq(Record)
         /\ queue \in Seq(Entry) /\ queue' \in Seq(Entry)
  BY DEF ReceiveInv, TypeOK
<1>2. InQueue' = InQueue
  BY <1>1 DEF InQueue, PacketsOf
<1>3. InRing' = InRing
  <2>1. PICK P : P = PacketsOf(ring)
    OBVIOUS
  <2>2. PICK Q : Q = PacketsOf(ring')
    OBVIOUS
  <2>3. PICK U : U = Unread
    OBVIOUS
  <2>4. PICK V : V = Unread'
    OBVIOUS
  <2>5. PICK n \in Nat : n = Len(ring)
    BY <1>1
  <2>6. \A i \in 1 .. n : (i \in V <=> i \in U) /\ (i \in V => Q[i] = P[i])
    BY <1>1, <2>1, <2>2, <2>3, <2>4, <2>5 DEF PacketsOf
  <2>7. Kept(Q, V, n) = Kept(P, U, n)
    BY ONLY <2>6, n \in Nat, KeptSame
  <2> QED
    BY <2>1, <2>2, <2>3, <2>4, <2>5, <2>7 DEF InRing
<1> QED
  BY <1>2, <1>3 DEF InHand, InQueue, InRing

\* A packet behind the others in the ring is behind the others in hand.
LEMMA ConcatAppend ==
    ASSUME NEW P, NEW u \in Seq(P), NEW s \in Seq(P), NEW e \in P
    PROVE  u \o Append(s, e) = Append(u \o s, e)
<1>1. Append(s, e) = s \o <<e>> /\ <<e>> \in Seq(P)
  BY AppendIsConcat
<1>2. Append(u \o s, e) = (u \o s) \o <<e>>
  <2>1. u \o s \in Seq(P)
    BY ConcatProperties
  <2> QED
    BY <2>1, AppendIsConcat
<1> QED
  BY <1>1, <1>2, ConcatAssociative

\* A packet that leaves the ring leaves the hand.
LEMMA WithoutBehind ==
    ASSUME NEW P, NEW u \in Seq(P), NEW s \in Seq(P), NEW t \in Seq(P), NEW a \in Nat,
           Without(s, t, a)
    PROVE  /\ Without(u \o s, u \o t, Len(u) + a)
           /\ (u \o s)[Len(u) + a] = s[a]
<1>1. /\ a \in 1 .. Len(s) /\ Len(t) = Len(s) - 1
      /\ \A i \in 1 .. (a - 1) : t[i] = s[i]
      /\ \A i \in a .. Len(t) : t[i] = s[i + 1]
  BY DEF Without
<1>2. Len(u) \in Nat /\ Len(s) \in Nat /\ Len(t) \in Nat
  OBVIOUS
<1>3. PICK x : x = u \o s
  BY Zenon
<1>4. PICK y : y = u \o t
  BY Zenon
<1>5. /\ Len(x) = Len(u) + Len(s)
      /\ \A i \in 1 .. Len(u) + Len(s) : x[i] = IF i <= Len(u) THEN u[i] ELSE s[i - Len(u)]
  BY ONLY <1>3, u \in Seq(P), s \in Seq(P), ConcatProperties
<1>6. /\ Len(y) = Len(u) + Len(t)
      /\ \A i \in 1 .. Len(u) + Len(t) : y[i] = IF i <= Len(u) THEN u[i] ELSE t[i - Len(u)]
  BY ONLY <1>4, u \in Seq(P), t \in Seq(P), ConcatProperties
<1>7. x[Len(u) + a] = s[a] /\ Len(u) + a \in 1 .. Len(x) /\ Len(y) = Len(x) - 1
  <2>1. /\ Len(u) + a \in 1 .. Len(u) + Len(s) /\ ~(Len(u) + a <= Len(u))
        /\ (Len(u) + a) - Len(u) = a
    BY <1>1, <1>2
  <2>2. x[Len(u) + a] = s[(Len(u) + a) - Len(u)]
    BY ONLY <1>5, <2>1
  <2> QED
    BY <1>1, <1>2, <1>5, <1>6, <2>1, <2>2
<1>8. ASSUME NEW i \in 1 .. (Len(u) + a - 1) PROVE y[i] = x[i]
  <2>1. i \in 1 .. Len(u) + Len(s) /\ i \in 1 .. Len(u) + Len(t)
    BY <1>1, <1>2
  <2>2. CASE i <= Len(u)
    BY ONLY <1>5, <1>6, <2>1, <2>2
  <2>3. CASE ~(i <= Len(u))
    <3>1. i - Len(u) \in 1 .. (a - 1)
      BY <1>1, <1>2, <2>3
    <3> QED
      BY ONLY <1>1, <1>5, <1>6, <2>1, <2>3, <3>1, Zenon
  <2> QED
    BY <2>2, <2>3
<1>9. ASSUME NEW i \in (Len(u) + a) .. Len(y) PROVE y[i] = x[i + 1]
  <2>1. i + 1 \in 1 .. Len(u) + Len(s) /\ i \in 1 .. Len(u) + Len(t)
    BY <1>1, <1>2, <1>6
  <2>2. i - Len(u) \in a .. Len(t) /\ ~(i <= Len(u)) /\ ~(i + 1 <= Len(u))
    BY <1>1, <1>2, <1>6
  <2>3. y[i] = t[i - Len(u)] /\ x[i + 1] = s[i + 1 - Len(u)]
    BY ONLY <1>5, <1>6, <2>1, <2>2
  <2>4. t[i - Len(u)] = s[(i - Len(u)) + 1]
    BY ONLY <1>1, <2>2, Zenon
  <2>5. (i - Len(u)) + 1 = i + 1 - Len(u)
    BY <1>2, <1>6
  <2> QED
    BY <2>3, <2>4, <2>5
<1>10. Without(x, y, Len(u) + a)
  <2>1. (Len(u) + a) - 1 = Len(u) + a - 1
    BY <1>1, <1>2
  <2> QED
    BY ONLY <1>7, <1>8, <1>9, <2>1 DEF Without
<1> QED
  BY <1>3, <1>4, <1>7, <1>10

\* A packet that moves from the front of the ring to the end of the queue
\* stays where it is in hand.
LEMMA MoveKeeps ==
    ASSUME NEW P, NEW u \in Seq(P), NEW s \in Seq(P), NEW t \in Seq(P), Without(s, t, 1)
    PROVE  Append(u, s[1]) \o t = u \o s
<1>1. /\ 1 \in 1 .. Len(s) /\ Len(t) = Len(s) - 1
      /\ \A i \in 1 .. Len(t) : t[i] = s[i + 1]
  BY DEF Without
<1>2. s[1] \in P /\ s # <<>> /\ Len(s) \in Nat
  BY <1>1
<1>3. Tail(s) = t
  <2>1. /\ Tail(s) \in Seq(P) /\ Len(Tail(s)) = Len(s) - 1
        /\ \A i \in 1 .. Len(Tail(s)) : Tail(s)[i] = s[i + 1]
    BY <1>2, HeadTailProperties
  <2> QED
    BY <1>1, <2>1, SeqEqual
<1>4. s = <<s[1]>> \o t
  <2>1. SubSeq(s, 1, Len(s)) = <<s[1]>> \o SubSeq(s, 2, Len(s))
    BY <1>1, <1>2
  <2>2. SubSeq(s, 1, Len(s)) = s
    BY SubSeqFull
  <2>3. t = SubSeq(s, 2, Len(s))
    BY <1>2, <1>3, TailIsSubSeq
  <2> QED
    BY <2>1, <2>2, <2>3
<1>5. Append(u, s[1]) = u \o <<s[1]>> /\ <<s[1]>> \in Seq(P)
  BY <1>2, AppendIsConcat
<1>6. (u \o <<s[1]>>) \o t = u \o (<<s[1]>> \o t)
  BY <1>5, ConcatAssociative
<1> QED
  BY <1>4, <1>5, <1>6, Zenon

\* v is u behind its first m members.
Behind(u, v, m) ==
    m <= Len(u) /\ Len(v) = Len(u) - m /\ \A i \in 1 .. Len(v) : v[i] = u[i + m]

\* What leaves the front of the queue leaves the front of the hand.
LEMMA FrontGoes ==
    ASSUME NEW P, NEW u \in Seq(P), NEW v \in Seq(P), NEW s \in Seq(P),
           NEW m \in Nat, Behind(u, v, m)
    PROVE  v \o s = SubSeq(u \o s, m + 1, Len(u \o s))
<1>1. /\ Len(u) \in Nat /\ Len(v) \in Nat /\ Len(s) \in Nat /\ m \in Nat /\ m <= Len(u)
      /\ Len(v) = Len(u) - m /\ \A i \in 1 .. Len(v) : v[i] = u[i + m]
  BY DEF Behind
<1>2. PICK x : x = u \o s
  BY Zenon
<1>3. PICK y : y = v \o s
  BY Zenon
<1>4. /\ x \in Seq(P) /\ Len(x) = Len(u) + Len(s)
      /\ \A i \in 1 .. Len(u) + Len(s) : x[i] = IF i <= Len(u) THEN u[i] ELSE s[i - Len(u)]
  BY ONLY <1>2, u \in Seq(P), s \in Seq(P), ConcatProperties
<1>5. /\ y \in Seq(P) /\ Len(y) = Len(v) + Len(s)
      /\ \A i \in 1 .. Len(v) + Len(s) : y[i] = IF i <= Len(v) THEN v[i] ELSE s[i - Len(v)]
  BY ONLY <1>3, v \in Seq(P), s \in Seq(P), ConcatProperties
<1>6. PICK z : z = SubSeq(x, m + 1, Len(x))
  BY Zenon
<1>7. /\ z \in Seq(P) /\ Len(z) = Len(x) - m
      /\ \A i \in 1 .. (Len(x) - m) : z[i] = x[m + i]
  <2>1. \A i \in (m + 1) .. Len(x) : x[i] \in P
    BY <1>1, <1>4
  <2>2. /\ z \in Seq(P) /\ Len(z) = IF m + 1 <= Len(x) THEN Len(x) - (m + 1) + 1 ELSE 0
        /\ \A i \in 1 .. Len(x) - (m + 1) + 1 : z[i] = x[(m + 1) + i - 1]
    BY <1>1, <1>4, <1>6, <2>1, SubSeqProperties
  <2> QED
    BY <1>1, <1>4, <2>2
<1>8. Len(z) = Len(y)
  BY <1>1, <1>4, <1>5, <1>7
<1>9. ASSUME NEW i \in 1 .. Len(y) PROVE y[i] = z[i]
  <2>1. i \in 1 .. Len(v) + Len(s) /\ i \in 1 .. (Len(x) - m) /\ m + i \in 1 .. Len(u) + Len(s)
    BY <1>1, <1>4, <1>5
  <2>2. z[i] = x[m + i]
    BY <1>7, <2>1
  <2>3. CASE i <= Len(v)
    <3>1. m + i <= Len(u) /\ i + m = m + i /\ i \in 1 .. Len(v)
      BY <1>1, <2>3
    <3> QED
      BY ONLY <1>4, <1>5, <2>1, <2>2, <2>3, <3>1, <1>1
  <2>4. CASE ~(i <= Len(v))
    <3>1. ~(m + i <= Len(u)) /\ m + i - Len(u) = i - Len(v)
      BY <1>1, <2>4
    <3>2. x[m + i] = s[m + i - Len(u)]
      BY ONLY <1>4, <2>1, <3>1
    <3>3. y[i] = s[i - Len(v)]
      BY ONLY <1>5, <2>1, <2>4
    <3> QED
      BY ONLY <2>2, <3>1, <3>2, <3>3
  <2> QED
    BY <2>3, <2>4
<1> QED
  BY <1>2, <1>3, <1>5, <1>6, <1>7, <1>8, <1>9, SeqEqual, Zenon

\* A record reserved by a program is the newest packet in hand.
LEMMA ReserveTakes ==
    ASSUME ReceiveInv, ReceiveInv', NEW c \in CPUs, BpfReserve(c)
    PROVE  \E p \in Packets : Abstract!Capture(p) \/ (Abstract!Pass(p) /\ p \notin Held)
<1>0. TypeOK /\ PollInv /\ ring \in Seq(Record) /\ queue \in Seq(Entry)
  BY Zenon DEF ReceiveInv, TypeOK
<1>1. TypeOK /\ PollInv /\ ring \in Seq(Record) /\ queue \in Seq(Entry) /\ Len(ring) \in Nat
  BY <1>0
<1>2. PICK p \in Packets : p = bpf[c].pkt
  BY DEF ReceiveInv, TypeOK, ProgramInv, BpfReserve
<1>3. p \notin Held
  <2>a. \A i \in DOMAIN queue : bpf[c].pkt # queue[i].pkt
    BY Zenon DEF ReceiveInv, ProgramInv
  <2>b. DOMAIN queue = 1 .. Len(queue)
    BY <1>1, LenProperties, Zenon
  <2>1. \A i \in 1 .. Len(queue) : queue[i].pkt # p
    BY ONLY <1>2, <2>a, <2>b, Zenon
  <2>2. \A i \in 1 .. Len(ring) : ring[i].pkt # p
    BY <1>1, <1>2 DEF ReceiveInv, ProgramInv, BpfReserve
  <2> QED
    BY <2>1, <2>2, HeldIs, Zenon
<1>4. queue' = queue /\ pc' = pc
  BY DEF BpfReserve, queueVars
<1>5. InQueue' = InQueue
  BY <1>4 DEF InQueue
<1>6. CASE ring' = ring
  <2>1. out' = {<<p, "net">>}
    <3>1. ring # Append(ring, [pkt |-> bpf[c].pkt, age |-> 0, st |-> "busy"])
      BY <1>1
    <3> QED
      BY <1>2, <1>6, <3>1 DEF BpfReserve
  <2>2. InHand' = InHand
    BY <1>4, <1>6 DEF InHand, Unread
  <2> QED
    BY <1>3, <2>1, <2>2 DEF Abstract!Pass
<1>7. CASE ring' # ring
  <2>1. /\ ring' \in Seq(Record) /\ Len(ring') = Len(ring) + 1
        /\ \A i \in 1 .. Len(ring) : ring'[i] = ring[i]
        /\ ring'[Len(ring) + 1].pkt = p /\ ring'[Len(ring) + 1].st = "busy"
    BY <1>1, <1>2, <1>7, ReserveEffect
  <2>2. out' = {}
    BY <1>7 DEF BpfReserve
  <2>3. PICK P : P = PacketsOf(ring)
    OBVIOUS
  <2>4. PICK Q : Q = PacketsOf(ring')
    OBVIOUS
  <2>5. PICK U : U = Unread
    OBVIOUS
  <2>6. PICK V : V = Unread'
    OBVIOUS
  <2>7. PICK n \in Nat : n = Len(ring)
    BY <1>1
  <2>8. \A i \in 1 .. n : (i \in V <=> i \in U) /\ (i \in V => Q[i] = P[i])
    <3>1. \A i \in 1 .. n : i \in DOMAIN ring /\ i \in DOMAIN ring' /\ ring'[i] = ring[i]
      BY <1>1, <2>1, <2>7
    <3> QED
      BY <1>4, <2>3, <2>4, <2>5, <2>6, <3>1 DEF PacketsOf, Unread
  <2>9. n + 1 \in V /\ Q[n + 1] = p
    <3>1. n + 1 \in DOMAIN ring'
      BY <2>1, <2>7
    <3>2. n + 1 = 1 => \A t \in Receivers : pc[t] # "advance"
      BY <1>1, <2>7 DEF PollInv, HeadIs
    <3>3. ring'[n + 1].pkt = p /\ ring'[n + 1].st # "discarded"
      BY <2>1, <2>7
    <3> QED
      BY <1>4, <2>4, <2>6, <3>1, <3>2, <3>3 DEF PacketsOf, Unread
  <2>10. Kept(Q, V, n + 1) = Append(Kept(P, U, n), p)
    <3>1. Kept(Q, V, n) = Kept(P, U, n)
      BY ONLY <2>8, n \in Nat, KeptSame
    <3>2. Kept(Q, V, n + 1) = IF n + 1 \in V THEN Append(Kept(Q, V, n), Q[n + 1])
                                             ELSE Kept(Q, V, n)
      BY ONLY n \in Nat, KeptNext
    <3> QED
      BY ONLY <2>9, <3>1, <3>2
  <2>11. InRing' = Append(InRing, p)
    BY <2>1, <2>3, <2>4, <2>5, <2>6, <2>7, <2>10 DEF InRing
  <2>12. InHand' = Append(InHand, p)
    <3>1. InHand = InQueue \o InRing /\ InHand' = InQueue' \o InRing'
      BY DEF InHand, InQueue, InRing
    <3>2. InQueue \in Seq(Packets) /\ InRing \in Seq(Packets)
      BY HandIs
    <3>3. InQueue \o Append(InRing, p) = Append(InQueue \o InRing, p)
      BY <3>2, ConcatAppend
    <3> QED
      BY ONLY <1>5, <2>11, <3>1, <3>3
  <2>13. \A i \in DOMAIN InHand : InHand[i] # p
    BY <1>3 DEF Held
  <2> QED
    BY <2>2, <2>12, <2>13 DEF Abstract!Capture
<1> QED
  BY <1>6, <1>7

\* A record that stops being unread leaves the rest in hand as it was.
LEMMA RecordLeaves ==
    ASSUME ReceiveInv, Len(ring') = Len(ring), ring' \in Seq(Record),
           \A i \in 1 .. Len(ring) : ring'[i].pkt = ring[i].pkt,
           NEW j \in 1 .. Len(ring), j \in Unread, Unread' = Unread \ {j}
    PROVE  \E a \in 1 .. Len(InRing) :
             /\ j = 1 => a = 1
             /\ InRing[a] = ring[j].pkt
             /\ InRing' \in Seq(Packets)
             /\ Without(InRing, InRing', a)
<1>0. ring \in Seq(Record) /\ TypeOK
  BY Zenon DEF ReceiveInv, TypeOK
<1>1. ring \in Seq(Record) /\ Len(ring) \in Nat /\ TypeOK
  BY <1>0, LenProperties, Zenon
<1>2. PICK P : P = PacketsOf(ring)
  BY Zenon
<1>3. PacketsOf(ring') = P
  BY <1>1, <1>2 DEF PacketsOf
<1>4. PICK U : U = Unread
  OBVIOUS
<1>5. PICK n \in Nat : n = Len(ring)
  BY <1>1
<1>6. \A i \in 1 .. n : P[i] = ring[i].pkt /\ P[i] \in Packets
  BY <1>1, <1>2, <1>5, HeldPackets DEF PacketsOf
<1>7. InRing = Kept(P, U, n) /\ InRing' = Kept(P, U \ {j}, n)
  BY <1>2, <1>3, <1>4, <1>5 DEF InRing
<1>8. j \in 1 .. n /\ j \in U
  BY <1>4, <1>5
<1>9. \E a \in 1 .. Len(Kept(P, U, n)) :
        /\ j = 1 => a = 1
        /\ Kept(P, U, n)[a] = P[j]
        /\ Without(Kept(P, U, n), Kept(P, U \ {j}, n), a)
  BY ONLY <1>6, <1>8, n \in Nat, KeptWithout, Zenon
<1>10. Kept(P, U \ {j}, n) \in Seq(Packets)
  BY ONLY <1>6, n \in Nat, KeptFrom
<1> QED
  BY <1>6, <1>7, <1>8, <1>9, <1>10

\* A packet in hand that is let go of on its own.
LEMMA LetGo ==
    ASSUME ReceiveInv, InQueue' = InQueue, InRing' \in Seq(Packets),
           NEW a \in 1 .. Len(InRing), Without(InRing, InRing', a),
           NEW o \in {"net", "dropped", "overflow", "lost"}, out' = {<<InRing[a], o>>},
           o \in {"dropped", "overflow"} => Match[InRing[a]]
    PROVE  \E k \in 1 .. Len(InHand) : Abstract!Withdraw(k)
<1>1. PICK u : u = InQueue
  OBVIOUS
<1>2. PICK s : s = InRing
  OBVIOUS
<1>3. PICK t : t = InRing'
  OBVIOUS
<1>4. u \in Seq(Packets) /\ s \in Seq(Packets) /\ t \in Seq(Packets) /\ Without(s, t, a)
  BY <1>1, <1>2, <1>3, HandIs
<1>5. InHand = u \o s /\ InHand' = u \o t
  BY <1>1, <1>2, <1>3 DEF InHand, InQueue, InRing
<1>6. PICK x \in Seq(Packets) : x = u \o s
  BY <1>4, ConcatProperties, Zenon
<1>7. PICK y \in Seq(Packets) : y = u \o t
  BY <1>4, ConcatProperties, Zenon
<1>8. PICK k : k = Len(u) + a
  OBVIOUS
<1>9. Without(x, y, k) /\ x[k] = s[a]
  <2>1. Without(u \o s, u \o t, Len(u) + a) /\ (u \o s)[Len(u) + a] = s[a]
    <3>1. a \in Nat
      OBVIOUS
    <3> QED
      BY ONLY <1>4, <3>1, WithoutBehind, Zenon
  <2> QED
    BY ONLY <1>6, <1>7, <1>8, <2>1
<1>10. y = SubSeq(x, 1, k - 1) \o SubSeq(x, k + 1, Len(x)) /\ k \in 1 .. Len(x)
  <2>1. y = SubSeq(x, 1, k - 1) \o SubSeq(x, k + 1, Len(x))
    BY ONLY x \in Seq(Packets), y \in Seq(Packets), <1>9, WithoutIs, Zenon
  <2> QED
    BY <1>9, <2>1 DEF Without
<1>11. InHand = x /\ InHand' = y
  BY <1>5, <1>6, <1>7
<1>12. Abstract!Withdraw(k)
  BY <1>2, <1>9, <1>10, <1>11 DEF Abstract!Withdraw
<1> QED
  BY <1>10, <1>11, <1>12

\* A submitted record stays in hand, a discarded one leaves it.
LEMMA SubmitHand ==
    ASSUME ReceiveInv, ReceiveInv', NEW c \in CPUs, NEW ok \in BOOLEAN, BpfSubmit(c, ok)
    PROVE  \/ Abstract!Quiet
           \/ \E p \in Packets : Abstract!Pass(p) /\ p \notin Held
           \/ \E k \in 1 .. Len(InHand) : Abstract!Withdraw(k)
<1>0. TypeOK /\ PollInv /\ ring \in Seq(Record) /\ queue \in Seq(Entry)
  BY DEF ReceiveInv, TypeOK
<1>1. DOMAIN ring = 1 .. Len(ring) /\ DOMAIN queue = 1 .. Len(queue)
  BY <1>0
<1>2. PICK p \in Packets : p = bpf[c].pkt
  BY DEF ReceiveInv, TypeOK, ProgramInv, BpfSubmit
<1>3. queue' = queue /\ pc' = pc /\ out' = IF ok THEN {} ELSE {<<p, "net">>}
  BY <1>2 DEF BpfSubmit, queueVars
<1>4. /\ ring' \in Seq(Record) /\ Len(ring') = Len(ring)
      /\ \A i \in 1 .. Len(ring) :
           /\ ring'[i].pkt = ring[i].pkt
           /\ ring[i].pkt # p \/ ring[i].st # "busy" => ring'[i].st = ring[i].st
           /\ ring[i].pkt = p /\ ring[i].st = "busy" =>
                ring'[i].st = IF ok THEN "ready" ELSE "discarded"
  BY <1>0, <1>2, SubmitEffect, Zenon
<1>5. DOMAIN ring' = 1 .. Len(ring)
  BY <1>4, LenProperties, Zenon
<1>6. \A i \in 1 .. Len(ring) : ring[i].pkt = p => ring[i].st = "busy"
  <2>1. \A i \in DOMAIN ring : bpf[c].pkt = ring[i].pkt => ring[i].st = "busy"
    BY Zenon DEF ReceiveInv, ProgramInv
  <2> QED
    BY ONLY <1>1, <1>2, <2>1, Zenon
<1>7. CASE ok
  <2>1. \A i \in 1 .. Len(ring) : i \in Unread' <=> i \in Unread
    <3>1. \A i \in 1 .. Len(ring) : ring'[i].st = "discarded" <=> ring[i].st = "discarded"
      BY <1>4, <1>7
    <3> QED
      BY <1>1, <1>3, <1>5, <3>1 DEF Unread
  <2>2. InHand' = InHand
    BY <1>3, <1>4, <2>1, SameHand, Zenon
  <2> QED
    BY <1>3, <1>7, <2>2 DEF Abstract!Quiet
<1>8. CASE ~ok /\ \A i \in 1 .. Len(ring) : ring[i].pkt # p
  <2>1. \A i \in 1 .. Len(ring) : i \in Unread' <=> i \in Unread
    <3>1. \A i \in 1 .. Len(ring) : ring'[i].st = "discarded" <=> ring[i].st = "discarded"
      BY <1>4, <1>8
    <3> QED
      BY <1>1, <1>3, <1>5, <3>1 DEF Unread
  <2>2. InHand' = InHand
    BY <1>3, <1>4, <2>1, SameHand
  <2>3. \A i \in 1 .. Len(queue) : queue[i].pkt # p
    BY <1>1, <1>2 DEF ReceiveInv, ProgramInv
  <2>4. p \notin Held
    BY <1>8, <2>3, HeldIs, Zenon
  <2> QED
    BY <1>3, <1>8, <2>2, <2>4 DEF Abstract!Pass
<1>9. ASSUME ~ok, NEW j \in 1 .. Len(ring), ring[j].pkt = p
      PROVE  \E k \in 1 .. Len(InHand) : Abstract!Withdraw(k)
  <2>1. ring[j].st = "busy"
    BY <1>6, <1>9
  <2>2. j = 1 => \A t \in Receivers : pc[t] # "advance"
    <3>1. j = 1 => ~HeadIs("ready")
      BY <1>0, <2>1 DEF HeadIs
    <3> QED
      BY <1>0, <3>1 DEF PollInv
  <2>3. j \in Unread
    BY <1>1, <2>1, <2>2 DEF Unread
  <2>4. \A i \in 1 .. Len(ring) : ring[i].pkt = p => i = j
    BY <1>1, <1>9 DEF ReceiveInv, HeldOnce
  <2>5. \A i \in 1 .. Len(ring) :
          ring'[i].st = "discarded" <=> (ring[i].st = "discarded" \/ i = j)
    BY <1>4, <1>6, <1>9, <2>1, <2>4
  <2>6. Unread' = Unread \ {j}
    BY <1>1, <1>3, <1>5, <2>5 DEF Unread
  <2>7. PICK a \in 1 .. Len(InRing) :
          InRing[a] = ring[j].pkt /\ InRing' \in Seq(Packets) /\ Without(InRing, InRing', a)
    BY <1>4, <2>3, <2>6, RecordLeaves
  <2>8. InQueue' = InQueue
    BY <1>3 DEF InQueue
  <2>9. out' = {<<InRing[a], "net">>}
    BY <1>3, <1>9, <2>7
  <2> QED
    BY <2>7, <2>8, <2>9, LetGo
<1> QED
  BY <1>7, <1>8, <1>9

\* The callback moves the oldest record to the queue, where it keeps its place
\* in hand, or lets go of it.
LEMMA ConsumeHand ==
    ASSUME ReceiveInv, ReceiveInv', DivertInv, NEW t \in Receivers, ConsumeRecord(t)
    PROVE  Abstract!Quiet \/ \E k \in 1 .. Len(InHand) : Abstract!Withdraw(k)
<1>0. /\ TypeOK /\ PollInv /\ LengthInv /\ ring \in Seq(Record) /\ queue \in Seq(Entry)
      /\ pc \in [Receivers -> Positions]
  BY Zenon DEF ReceiveInv, TypeOK
<1>1. /\ pc[t] = "consume" /\ HeadIs("ready") /\ ring_callback(Head(ring)) /\ ring' = ring
      /\ pc' = [pc EXCEPT ![t] = "advance"] /\ flags' = flags
  BY DEF ConsumeRecord, kernelVars, paramVars
<1>2. DOMAIN ring = 1 .. Len(ring) /\ 1 \in 1 .. Len(ring) /\ Head(ring) = ring[1] /\ ring[1].st = "ready"
  BY <1>0, <1>1 DEF HeadIs
<1>3. \A u \in Receivers : pc[u] # "advance"
  BY <1>0, <1>1 DEF PollInv
<1>4. pc'[t] = "advance"
  BY <1>0, <1>1
<1>5. 1 \in Unread /\ Unread' = Unread \ {1}
  BY <1>1, <1>2, <1>3, <1>4 DEF Unread
<1>6. PICK a \in 1 .. Len(InRing) :
        a = 1 /\ InRing[a] = ring[1].pkt /\ InRing' \in Seq(Packets) /\ Without(InRing, InRing', a)
  BY <1>0, <1>1, <1>2, <1>5, RecordLeaves
<1>7. RulesDivert(ring[1].pkt)
  BY <1>2 DEF DivertInv
<1>8. CASE queue' = queue
  <2>1. InQueue' = InQueue
    BY <1>8 DEF InQueue
  <2>2. PICK e : e = [pkt |-> ring[1].pkt, age |-> ring[1].age]
    BY Zenon
  <2>3. e.pkt = ring[1].pkt /\ queue # Append(queue, e)
    BY <1>0, <2>2
  <2>4. \/ \E o \in {"net", "lost"} : out' = {<<ring[1].pkt, o>>}
        \/ Match[ring[1].pkt] /\ out' = {<<ring[1].pkt, "dropped">>}
        \/ ForUser(ring[1].pkt) /\ out' = {<<ring[1].pkt, "overflow">>}
    BY <1>1, <1>2, <1>8, <2>2, <2>3 DEF ring_callback, queue_push
  <2>5. ForUser(ring[1].pkt) => Match[ring[1].pkt]
    BY <1>7, ForUserMatches
  <2>6. \E o \in {"net", "dropped", "overflow", "lost"} :
          out' = {<<InRing[a], o>>} /\ (o \in {"dropped", "overflow"} => Match[InRing[a]])
    BY <1>6, <2>4, <2>5
  <2> QED
    BY <1>6, <2>1, <2>6, LetGo
<1>9. CASE queue' # queue
  <2>1. out' = {}
    BY <1>1, <1>9 DEF ring_callback, queue_push, queueVars
  <2>2. /\ queue' \in Seq(Entry) /\ Len(queue') = Len(queue) + 1
        /\ \A i \in 1 .. Len(queue) : queue'[i] = queue[i]
        /\ queue'[Len(queue) + 1].pkt = ring[1].pkt
    BY <1>0, <1>1, <1>9, PushEffect, Zenon
  <2>3. PICK u : u = InQueue
    OBVIOUS
  <2>4. PICK s : s = InRing
    OBVIOUS
  <2>5. PICK r : r = InRing'
    OBVIOUS
  <2>6. u \in Seq(Packets) /\ s \in Seq(Packets) /\ r \in Seq(Packets) /\ Without(s, r, 1)
    BY <1>6, <2>3, <2>4, <2>5, HandIs
  <2>7. PICK v : v = InQueue'
    OBVIOUS
  <2>8. PICK n \in Nat : n = Len(queue)
    BY <1>0
  <2>9. v \in Seq(Packets) /\ Len(v) = Len(queue') /\ \A i \in 1 .. Len(queue') : v[i] = queue'[i].pkt
    <3>1. \A i \in 1 .. Len(queue') : queue'[i].pkt \in Packets
      <4>1. \A e \in Entry : e.pkt \in Packets
        BY DEF Entry
      <4> QED
        BY <2>2, <4>1
    <3>2. v = [i \in 1 .. Len(queue') |-> queue'[i].pkt]
      BY <2>2, <2>7 DEF InQueue, PacketsOf
    <3>3. v \in [1 .. Len(queue') -> Packets] /\ Len(queue') \in Nat
      BY <2>2, <3>1, <3>2
    <3>4. v \in Seq(Packets)
      BY ONLY <3>3, FunctionIsSeq
    <3> QED
      BY ONLY <3>2, <3>3, <3>4
  <2>10. Len(u) = n /\ \A i \in 1 .. n : u[i] = queue[i].pkt
    BY <2>3, <2>8, HandIs
  <2>11. v = Append(u, s[1])
    <3>1. PICK w : w = Append(u, s[1])
      BY Zenon
    <3>2. s[1] \in Packets /\ s[1] = ring[1].pkt
      BY <1>6, <2>4, <2>6 DEF Without
    <3>3. /\ w \in Seq(Packets) /\ Len(w) = n + 1 /\ w[n + 1] = s[1]
          /\ \A i \in 1 .. n : w[i] = u[i]
      BY ONLY <2>6, <2>10, <3>1, <3>2, AppendProperties
    <3>4. Len(v) = n + 1 /\ v[n + 1] = s[1] /\ \A i \in 1 .. n : v[i] = u[i]
      BY <2>2, <2>8, <2>9, <2>10, <3>2
    <3>5. \A i \in 1 .. (n + 1) : v[i] = w[i]
      BY ONLY <3>3, <3>4, n \in Nat
    <3> QED
      BY ONLY <2>9, <3>1, <3>3, <3>4, <3>5, SeqEqual
  <2>12. Append(u, s[1]) \o r = u \o s
    BY ONLY <2>6, MoveKeeps
  <2>13. InHand = InQueue \o InRing /\ InHand' = InQueue' \o InRing'
    BY DEF InHand, InQueue, InRing
  <2>14. InHand' = InHand
    BY ONLY <2>3, <2>4, <2>5, <2>7, <2>11, <2>12, <2>13, Zenon
  <2> QED
    BY <2>1, <2>14 DEF Abstract!Quiet
<1> QED
  BY <1>8, <1>9

\* The consumer position passes a record that is not in hand.
LEMMA AdvanceHand ==
    ASSUME ReceiveInv, ReceiveInv', NEW t \in Receivers, ConsumeAdvance(t)
    PROVE  Abstract!Quiet
<1>0. TypeOK /\ PollInv /\ ring \in Seq(Record) /\ pc \in [Receivers -> Positions]
  BY Zenon DEF ReceiveInv, TypeOK
<1>1. /\ ring # <<>>
      /\ ring' \in Seq(Record) /\ Len(ring') = Len(ring) - 1
      /\ \A i \in 1 .. Len(ring') : i + 1 \in 1 .. Len(ring) /\ ring'[i] = ring[i + 1]
  BY <1>0, AdvanceEffect
<1>2. queue' = queue /\ out' = {} /\ pc' = [pc EXCEPT ![t] = "consume"]
  BY DEF ConsumeAdvance, queueVars
<1>3. PICK n \in Nat : n = Len(ring') /\ Len(ring) = n + 1
  BY <1>0, <1>1
<1>4. DOMAIN ring = 1 .. (n + 1) /\ DOMAIN ring' = 1 .. n
  BY <1>0, <1>1, <1>3
<1>5. 1 \notin Unread
  <2>1. CASE pc[t] = "advance"
    BY <2>1, Zenon DEF Unread
  <2>2. CASE HeadIs("discarded")
    BY <1>0, <2>2 DEF Unread, HeadIs
  <2> QED
    BY <2>1, <2>2 DEF ConsumeAdvance
<1>6. \A u \in Receivers : pc'[u] # "advance"
  <2>1. \A u \in Receivers : pc[u] = "advance" => u = t
    BY <1>0 DEF PollInv, ConsumeAdvance
  <2> QED
    BY <1>0, <1>2, <2>1
<1>7. \A i \in 1 .. n : i \in Unread' <=> i + 1 \in Unread
  <2>1. \A i \in 1 .. n : i + 1 \in DOMAIN ring /\ i + 1 # 1 /\ ring'[i] = ring[i + 1]
    BY <1>1, <1>3, <1>4
  <2> QED
    BY <1>4, <1>6, <2>1 DEF Unread
<1>8. InRing' = InRing
  <2>1. PICK P : P = PacketsOf(ring)
    OBVIOUS
  <2>2. PICK Q : Q = PacketsOf(ring')
    OBVIOUS
  <2>3. PICK U : U = Unread
    OBVIOUS
  <2>4. PICK V : V = Unread'
    OBVIOUS
  <2>5. \A i \in 1 .. n : Q[i] = P[i + 1]
    BY <1>1, <1>3, <1>4, <2>1, <2>2 DEF PacketsOf
  <2>6. Kept(Q, V, n) = Kept(P, U, n + 1)
    <3>1. 1 \notin U /\ \A i \in 1 .. n : (i \in V <=> i + 1 \in U) /\ (i \in V => Q[i] = P[i + 1])
      BY <1>5, <1>7, <2>3, <2>4, <2>5
    <3> QED
      BY ONLY <3>1, n \in Nat, KeptTail
  <2> QED
    BY <1>3, <2>1, <2>2, <2>3, <2>4, <2>6 DEF InRing
<1> QED
  BY <1>2, <1>8 DEF InHand, InRing, Abstract!Quiet

\* What a call takes, or finds expired, is the oldest in hand.
LEMMA PopHand ==
    ASSUME ReceiveInv, ReceiveInv', DivertInv, NEW t \in Receivers, Pop(t)
    PROVE  \/ Abstract!Quiet
           \/ \E k \in 1 .. Len(InHand) : Abstract!Receive(k) \/ Abstract!Expire(k + 1)
<1>0. queue \in Seq(Entry) /\ queue' \in Seq(Entry) /\ ring \in Seq(Record)
  BY DEF ReceiveInv, TypeOK
<1>1. PICK k \in 1 .. (Len(queue) + 1), o \in Outcomes \ {"lost"} :
        queue_pop(k, o) /\ (k <= Len(queue) => o \in {"delivered", "refused"})
  BY DEF Pop
<1>2. /\ queue' = SubSeq(queue, k + 1, Len(queue))
      /\ out' = {<<queue[i].pkt, "expired">> : i \in 1 .. (k - 1)}
                  \cup (IF k <= Len(queue) THEN {<<queue[k].pkt, o>>} ELSE {})
  BY <1>1, Zenon DEF queue_pop
<1>3. PICK n \in Nat : n = Len(queue)
  BY <1>0
<1>4. PICK m \in 0 .. n : m = IF k <= n THEN k ELSE n
  BY <1>3
<1>5. Len(queue') = n - m /\ \A i \in 1 .. (n - m) : queue'[i] = queue[i + m]
  <2>1. /\ Len(queue') = IF k <= Len(queue) THEN Len(queue) - k ELSE 0
        /\ \A i \in 1 .. Len(queue') : queue'[i] = queue[i + k]
    BY <1>0, <1>2, PopLeaves
  <2>2. CASE k <= n
    BY <1>3, <1>4, <2>1, <2>2
  <2>3. CASE ~(k <= n)
    BY <1>3, <1>4, <2>1, <2>3
  <2> QED
    BY <2>2, <2>3
<1>6. InRing' = InRing
  <2>1. ring' = ring /\ \A u \in Receivers : pc[u] = "advance" <=> pc'[u] = "advance"
    BY DEF Pop
  <2>2. Unread' = Unread
    BY <2>1 DEF Unread
  <2> QED
    BY <2>1, <2>2 DEF InRing
<1>7. PICK u : u = InQueue
  OBVIOUS
<1>8. PICK v : v = InQueue'
  OBVIOUS
<1>9. PICK s : s = InRing
  OBVIOUS
<1>10. u \in Seq(Packets) /\ s \in Seq(Packets) /\ Len(u) = n /\ \A i \in 1 .. n : u[i] = queue[i].pkt
  BY <1>3, <1>7, <1>9, HandIs, Zenon
<1>11. v \in Seq(Packets) /\ Len(v) = n - m /\ \A i \in 1 .. (n - m) : v[i] = u[i + m]
  <2>1. n - m \in Nat /\ \A i \in 1 .. (n - m) : i + m \in 1 .. n
    BY <1>4
  <2>2. DOMAIN queue' = 1 .. (n - m)
    BY <1>0, <1>5
  <2>3. v = [i \in 1 .. (n - m) |-> queue'[i].pkt]
    BY <1>8, <2>2 DEF InQueue, PacketsOf
  <2>4. \A i \in 1 .. (n - m) : v[i] = u[i + m] /\ v[i] \in Packets
    <3>1. SUFFICES ASSUME NEW i \in 1 .. (n - m) PROVE v[i] = u[i + m] /\ v[i] \in Packets
      OBVIOUS
    <3>2. v[i] = queue'[i].pkt
      BY <2>3
    <3>3. queue'[i] = queue[i + m]
      BY <1>5
    <3>4. u[i + m] = queue[i + m].pkt /\ u[i + m] \in Packets
      BY ONLY <1>10, <2>1, i \in 1 .. (n - m)
    <3> QED
      BY <3>2, <3>3, <3>4
  <2>5. v \in [1 .. (n - m) -> Packets]
    BY <2>3, <2>4
  <2>6. v \in Seq(Packets)
    BY ONLY <2>1, <2>5, FunctionIsSeq
  <2> QED
    BY ONLY <2>1, <2>3, <2>4, <2>6
<1>12. PICK x \in Seq(Packets) : x = u \o s
  BY <1>10, ConcatProperties, Zenon
<1>13. InHand = x /\ InHand' = v \o s
  BY <1>6, <1>7, <1>8, <1>9, <1>12 DEF InHand, InQueue, InRing
<1>14. InHand' = SubSeq(x, m + 1, Len(x))
  <2>1. m \in Nat /\ Behind(u, v, m)
    BY <1>10, <1>11 DEF Behind
  <2>2. v \o s = SubSeq(u \o s, m + 1, Len(u \o s))
    <3>1. u \in Seq(Packets) /\ v \in Seq(Packets) /\ s \in Seq(Packets)
      BY <1>10, <1>11
    <3> QED
      BY ONLY <2>1, <3>1, FrontGoes, Zenon
  <2> QED
    BY <1>12, <1>13, <2>2
<1>15. n <= Len(x) /\ \A i \in 1 .. n : x[i] = queue[i].pkt
  <2>1. /\ Len(u \o s) = Len(u) + Len(s)
        /\ \A i \in 1 .. Len(u) + Len(s) : (u \o s)[i] = IF i <= Len(u) THEN u[i] ELSE s[i - Len(u)]
    BY ONLY <1>10, ConcatProperties, Zenon
  <2>2. Len(s) \in Nat
    BY <1>10
  <2> QED
    BY ONLY <1>10, <1>12, <2>1, <2>2, n \in Nat
<1>16. CASE k <= n
  <2>1. k \in 1 .. Len(x) /\ m = k /\ k \in 1 .. n
    BY <1>4, <1>15, <1>16
  <2>2. {<<queue[i].pkt, "expired">> : i \in 1 .. (k - 1)} = {<<x[i], "expired">> : i \in 1 .. (k - 1)}
    <3>1. \A i \in 1 .. (k - 1) : x[i] = queue[i].pkt
      BY <1>15, <2>1
    <3> QED
      BY ONLY <3>1
  <2>3. out' = {<<x[i], "expired">> : i \in 1 .. (k - 1)} \cup {<<x[k], o>>} /\ o \in {"delivered", "refused"}
    BY <1>1, <1>2, <1>3, <1>15, <1>16, <2>1, <2>2
  <2>4. Match[x[k]]
    <3>1. k \in DOMAIN queue
      BY <1>0, <1>3, <2>1
    <3> QED
      BY <1>15, <2>1, <3>1 DEF DivertInv
  <2>5. Abstract!Receive(k)
    BY <1>13, <1>14, <2>1, <2>3, <2>4 DEF Abstract!Receive, Abstract!ExpiredBefore
  <2> QED
    BY <1>13, <2>1, <2>5
<1>17. CASE ~(k <= n) /\ n # 0
  <2>1. n \in 1 .. Len(x) /\ m = n /\ k = n + 1 /\ k - 1 = n
    BY <1>3, <1>4, <1>15, <1>17
  <2>2. {<<queue[i].pkt, "expired">> : i \in 1 .. n} = {<<x[i], "expired">> : i \in 1 .. n}
    BY ONLY <1>15
  <2>3. out' = {<<x[i], "expired">> : i \in 1 .. n}
    BY <1>2, <1>3, <1>17, <2>1, <2>2
  <2>4. Abstract!Expire(n + 1)
    <3>1. (n + 1) - 1 = n
      OBVIOUS
    <3> QED
      BY <1>13, <1>14, <2>1, <2>3, <3>1, Zenon DEF Abstract!Expire, Abstract!ExpiredBefore
  <2> QED
    BY <1>13, <2>1, <2>4
<1>18. CASE n = 0
  <2>1. k = 1 /\ m = 0 /\ ~(k <= Len(queue)) /\ 1 .. (k - 1) = {}
    BY <1>3, <1>4, <1>18
  <2>2. out' = {}
    BY <1>2, <2>1
  <2>3. InHand' = x
    <3>1. SubSeq(x, 1, Len(x)) = x
      BY SubSeqFull
    <3> QED
      BY <1>14, <2>1, <3>1
  <2> QED
    BY <1>13, <2>2, <2>3 DEF Abstract!Quiet
<1> QED
  BY <1>16, <1>17, <1>18

\* A step of the receive path is a step of DivertQueue.  It passes on a packet
\* it never held only when that packet is not in hand.
LEMMA HandStep ==
    ASSUME ReceiveInv, ReceiveInv', DivertInv, [Next]_vars
    PROVE  \/ UNCHANGED vars
           \/ Abstract!Quiet
           \/ \E p \in Packets : Abstract!Capture(p) \/ (Abstract!Pass(p) /\ p \notin Held)
           \/ \E k \in 1 .. Len(InHand) :
                Abstract!Receive(k) \/ Abstract!Expire(k + 1) \/ Abstract!Withdraw(k)
<1>0. TypeOK /\ ring \in Seq(Record) /\ queue \in Seq(Entry)
  BY Zenon DEF ReceiveInv, TypeOK
<1>1. CASE Quiet
  <2>1. InHand' = InHand
    <3>1. Unread' = Unread
      BY <1>1 DEF Unread, Quiet
    <3> QED
      BY <1>1, <3>1, Zenon DEF InHand, Quiet
  <2> QED
    BY <1>1, <2>1, Zenon DEF Quiet, Abstract!Quiet
<1>2. ASSUME NEW c \in CPUs, NEW p \in Packets, BpfMatch(c, p) PROVE Abstract!Quiet
  <2>1. ring' = ring /\ queue' = queue /\ pc' = pc /\ out' = {}
    BY <1>2 DEF BpfMatch, queueVars
  <2> QED
    BY <2>1 DEF InHand, Unread, Abstract!Quiet
<1>3. CASE Tick
  <2>1. /\ Len(queue') = Len(queue)
        /\ \A i \in 1 .. Len(queue) : queue'[i].pkt = queue[i].pkt
        /\ ring' \in Seq(Record) /\ Len(ring') = Len(ring)
        /\ \A i \in 1 .. Len(ring) : ring'[i].pkt = ring[i].pkt /\ ring'[i].st = ring[i].st
    BY <1>0, <1>3, TickEffect
  <2>2. pc' = pc /\ out' = {}
    BY <1>3 DEF Tick
  <2>3. \A i \in 1 .. Len(ring) : i \in Unread' <=> i \in Unread
    <3>1. DOMAIN ring = 1 .. Len(ring) /\ DOMAIN ring' = 1 .. Len(ring)
      BY <1>0, <2>1
    <3> QED
      BY <2>1, <2>2, <3>1 DEF Unread
  <2>4. InHand' = InHand
    BY <2>1, <2>3, SameHand
  <2> QED
    BY <2>2, <2>4 DEF Abstract!Quiet
<1> QED
  BY StepCases, <1>0, <1>1, <1>2, <1>3, ReserveTakes, SubmitHand, ConsumeHand, AdvanceHand, PopHand

-----------------------------------------------------------------------------
\* What is left when the first m leave, and when the k-th leaves.
InSeq(y, q) == \E i \in 1 .. Len(y) : y[i] = q
InRest(x, m, q) == \E i \in 1 .. Len(x) : i > m /\ x[i] = q
InOthers(x, k, q) == \E i \in 1 .. Len(x) : i # k /\ x[i] = q

LEMMA LeftBehind ==
    ASSUME NEW P, NEW x \in Seq(P), NEW m \in Nat, m <= Len(x), NEW q
    PROVE  /\ SubSeq(x, m + 1, Len(x)) \in Seq(P)
           /\ InSeq(SubSeq(x, m + 1, Len(x)), q) <=> InRest(x, m, q)
<1>1. Len(x) \in Nat
  OBVIOUS
<1> DEFINE y == SubSeq(x, m + 1, Len(x))
<1>2. y \in Seq(P) /\ Len(y) = Len(x) - m /\ \A i \in 1 .. (Len(x) - m) : y[i] = x[m + i]
  <2>1. \A i \in (m + 1) .. Len(x) : x[i] \in P
    BY <1>1
  <2>2. /\ y \in Seq(P) /\ Len(y) = IF m + 1 <= Len(x) THEN Len(x) - (m + 1) + 1 ELSE 0
        /\ \A i \in 1 .. Len(x) - (m + 1) + 1 : y[i] = x[(m + 1) + i - 1]
    BY <1>1, <2>1, SubSeqProperties
  <2> HIDE DEF y
  <2>3. Len(x) - (m + 1) + 1 = Len(x) - m /\ Len(y) = Len(x) - m
    BY ONLY <1>1, <2>2, m \in Nat, m <= Len(x)
  <2>4. ASSUME NEW i \in 1 .. (Len(x) - m) PROVE y[i] = x[m + i]
    <3>1. i \in 1 .. Len(x) - (m + 1) + 1
      BY ONLY <2>3, i \in 1 .. (Len(x) - m)
    <3>2. y[i] = x[(m + 1) + i - 1]
      BY <2>2, <3>1, Zenon
    <3>3. (m + 1) + i - 1 = m + i
      BY <1>1
    <3> QED
      BY ONLY <3>2, <3>3
  <2> QED
    BY <2>2, <2>3, <2>4, Zenon
<1> HIDE DEF y
<1>3. ASSUME NEW i \in 1 .. Len(y), y[i] = q PROVE InRest(x, m, q)
  <2>1. m + i \in 1 .. Len(x) /\ m + i > m /\ x[m + i] = q
    BY <1>1, <1>2, <1>3
  <2> QED
    BY <2>1 DEF InRest
<1>4. ASSUME NEW i \in 1 .. Len(x), i > m, x[i] = q PROVE InSeq(y, q)
  <2>1. i - m \in 1 .. Len(y) /\ m + (i - m) = i
    BY <1>1, <1>2, <1>4
  <2>2. y[i - m] = x[m + (i - m)]
    BY ONLY <1>2, <2>1
  <2> QED
    BY <1>4, <2>1, <2>2 DEF InSeq
<1>5. InSeq(y, q) <=> InRest(x, m, q)
  BY <1>3, <1>4 DEF InSeq, InRest
<1> QED
  BY <1>2, <1>5 DEF y

LEMMA LeftWithout ==
    ASSUME NEW P, NEW x \in Seq(P), NEW k \in Nat, 1 <= k, k <= Len(x), NEW q
    PROVE  /\ SubSeq(x, 1, k - 1) \o SubSeq(x, k + 1, Len(x)) \in Seq(P)
           /\ InSeq(SubSeq(x, 1, k - 1) \o SubSeq(x, k + 1, Len(x)), q) <=> InOthers(x, k, q)
<1>1. Len(x) \in Nat /\ k \in Nat /\ 1 <= k /\ k <= Len(x)
  OBVIOUS
<1>2. PICK u : u = SubSeq(x, 1, k - 1)
  BY Zenon
<1>3. PICK v : v = SubSeq(x, k + 1, Len(x))
  BY Zenon
<1>4. u \in Seq(P) /\ Len(u) = k - 1 /\ \A i \in 1 .. (k - 1) : u[i] = x[i]
  <2>1. \A i \in 1 .. (k - 1) : x[i] \in P
    BY <1>1
  <2>2. /\ u \in Seq(P) /\ Len(u) = IF 1 <= k - 1 THEN (k - 1) - 1 + 1 ELSE 0
        /\ \A i \in 1 .. (k - 1) - 1 + 1 : u[i] = x[1 + i - 1]
    BY <1>1, <1>2, <2>1, SubSeqProperties
  <2> QED
    BY <1>1, <2>2
<1>5. v \in Seq(P) /\ (InSeq(v, q) <=> InRest(x, k, q))
  <2>1. /\ SubSeq(x, k + 1, Len(x)) \in Seq(P)
        /\ InSeq(SubSeq(x, k + 1, Len(x)), q) <=> InRest(x, k, q)
    BY LeftBehind
  <2> QED
    BY <1>3, <2>1
<1>6. PICK y : y = u \o v
  BY Zenon
<1>7. /\ y \in Seq(P) /\ Len(y) = Len(u) + Len(v)
      /\ \A i \in 1 .. Len(u) + Len(v) : y[i] = IF i <= Len(u) THEN u[i] ELSE v[i - Len(u)]
  BY ONLY <1>4, <1>5, <1>6, ConcatProperties
<1>8. Len(u) \in Nat /\ Len(v) \in Nat
  BY <1>4, <1>5
<1>9. InSeq(y, q) <=> InSeq(u, q) \/ InSeq(v, q)
  <2>1. ASSUME NEW i \in 1 .. Len(y), y[i] = q PROVE InSeq(u, q) \/ InSeq(v, q)
    <3>1. CASE i <= Len(u)
      BY <1>7, <1>8, <2>1, <3>1 DEF InSeq
    <3>2. CASE ~(i <= Len(u))
      <4>1. i - Len(u) \in 1 .. Len(v) /\ i \in 1 .. Len(u) + Len(v)
        BY <1>7, <1>8, <3>2
      <4>2. y[i] = v[i - Len(u)]
        BY ONLY <1>7, <3>2, <4>1
      <4> QED
        BY <2>1, <4>1, <4>2 DEF InSeq
    <3> QED
      BY <3>1, <3>2
  <2>2. ASSUME NEW i \in 1 .. Len(u), u[i] = q PROVE InSeq(y, q)
    BY <1>7, <1>8, <2>2 DEF InSeq
  <2>3. ASSUME NEW i \in 1 .. Len(v), v[i] = q PROVE InSeq(y, q)
    <3>1. /\ Len(u) + i \in 1 .. Len(u) + Len(v) /\ ~(Len(u) + i <= Len(u))
          /\ (Len(u) + i) - Len(u) = i
      BY <1>8
    <3>2. y[Len(u) + i] = v[(Len(u) + i) - Len(u)]
      BY ONLY <1>7, <3>1
    <3> QED
      BY <1>7, <2>3, <3>1, <3>2 DEF InSeq
  <2> QED
    BY <2>1, <2>2, <2>3 DEF InSeq
<1>10. InSeq(u, q) <=> \E i \in 1 .. Len(x) : i < k /\ x[i] = q
  BY <1>1, <1>4 DEF InSeq
<1>11. \A i \in 1 .. Len(x) : i # k <=> (i < k \/ i > k)
  BY <1>1
<1>12. InSeq(y, q) <=> InOthers(x, k, q)
  BY <1>5, <1>9, <1>10, <1>11 DEF InOthers, InRest
<1> QED
  BY <1>2, <1>3, <1>6, <1>7, <1>12

\* The packets in hand at the indices in G leave in the step, and no other.
Stay(G) == \A q : q \in Held' <=> \E i \in 1 .. Len(InHand) : i \notin G /\ InHand[i] = q
Leave(G) == \A q : (\E o \in Outcomes : <<q, o>> \in out') <=>
                     \E i \in 1 .. Len(InHand) : i \in G /\ InHand[i] = q

\* The packets that leave are those the step names, each at one place in hand.
LEMMA Accounted ==
    ASSUME ReceiveInv, NEW G, Stay(G), Leave(G)
    PROVE  /\ \A p \in Held \ Held' : \E o \in Outcomes : <<p, o>> \in out'
           /\ \A p \in Held, o \in Outcomes : <<p, o>> \in out' => p \notin Held'
<1>1. \A q : q \in Held => \E i \in 1 .. Len(InHand) : InHand[i] = q
  BY HeldIs
<1>2. \A i, j \in 1 .. Len(InHand) : InHand[i] = InHand[j] => i = j
  BY HandIs
<1>3. ASSUME NEW p \in Held \ Held' PROVE \E o \in Outcomes : <<p, o>> \in out'
  <2>1. PICK i \in 1 .. Len(InHand) : InHand[i] = p
    BY <1>1
  <2>2. i \in G
    BY <2>1, Zenon DEF Stay
  <2> QED
    BY <2>1, <2>2, Zenon DEF Leave
<1>4. ASSUME NEW p \in Held, NEW o \in Outcomes, <<p, o>> \in out' PROVE p \notin Held'
  <2>1. PICK i \in 1 .. Len(InHand) : i \in G /\ InHand[i] = p
    BY <1>4, Zenon DEF Leave
  <2>2. ASSUME p \in Held' PROVE FALSE
    <3>1. PICK j \in 1 .. Len(InHand) : j \notin G /\ InHand[j] = p
      BY <2>2, Zenon DEF Stay
    <3>2. i = j
      BY <1>2, <2>1, <3>1
    <3> QED
      BY <2>1, <3>1, <3>2
  <2> QED
    BY <2>2
<1> QED
  BY <1>3, <1>4

\* A packet is held until a step names its outcome, and not after it.
LEMMA LeavesStep ==
    ASSUME ReceiveInv, ReceiveInv', DivertInv, [Next]_vars
    PROVE  \/ UNCHANGED vars
           \/ /\ \A p \in Held \ Held' : \E o \in Outcomes : <<p, o>> \in out'
              /\ \A p \in Held, o \in Outcomes : <<p, o>> \in out' => p \notin Held'
<1> DEFINE Leaves == /\ \A p \in Held \ Held' : \E o \in Outcomes : <<p, o>> \in out'
                     /\ \A p \in Held, o \in Outcomes : <<p, o>> \in out' => p \notin Held'
<1>1. PICK x : x = InHand
  OBVIOUS
<1>2. PICK y : y = InHand'
  OBVIOUS
<1>3. x \in Seq(Packets) /\ Len(x) \in Nat
  BY <1>1, HandIs
<1>4. \A q : q \in Held' <=> \E i \in DOMAIN y : y[i] = q
  BY <1>2 DEF Held
<1>4a. \A q : y \in Seq(Packets) => (q \in Held' <=> InSeq(y, q))
  <2>1. y \in Seq(Packets) => DOMAIN y = 1 .. Len(y)
    OBVIOUS
  <2> QED
    BY <1>4, <2>1, Zenon DEF InSeq
<1>5. ASSUME Abstract!Quiet PROVE Leaves
  <2>1. Held' = Held /\ out' = {}
    BY <1>5 DEF Abstract!Quiet, Held
  <2> QED
    BY <2>1
<1>6. ASSUME NEW p \in Packets, Abstract!Capture(p) PROVE Leaves
  <2>1. y = Append(x, p) /\ out' = {}
    BY <1>1, <1>2, <1>6 DEF Abstract!Capture
  <2>2. y \in Seq(Packets) /\ Len(y) = Len(x) + 1 /\ \A i \in 1 .. Len(x) : y[i] = x[i]
    BY <1>3, <2>1, AppendProperties
  <2>3. ASSUME NEW q \in Held PROVE q \in Held'
    <3>1. PICK i \in 1 .. Len(x) : x[i] = q
      BY <1>1, HeldIs
    <3>2. i \in DOMAIN y /\ y[i] = q
      BY <1>3, <2>2, <3>1
    <3> QED
      BY <1>4, <3>2
  <2> QED
    BY <2>1, <2>3
<1>7. ASSUME NEW p \in Packets, Abstract!Pass(p), p \notin Held PROVE Leaves
  <2>1. Held' = Held /\ out' = {<<p, "net">>}
    BY <1>7 DEF Abstract!Pass, Held
  <2> QED
    BY <1>7, <2>1
<1>8. ASSUME NEW k \in 1 .. Len(x), Abstract!Receive(k) \/ Abstract!Expire(k + 1) PROVE Leaves
  <2>1. /\ y = SubSeq(x, k + 1, Len(x)) /\ k \in Nat /\ k <= Len(x)
    BY <1>1, <1>2, <1>3, <1>8 DEF Abstract!Receive, Abstract!Expire
  <2>2. \A q : q \in Held' <=> \E i \in 1 .. Len(x) : i \notin 1 .. k /\ x[i] = q
    <3>1. TAKE q
    <3>2. y \in Seq(Packets) /\ (InSeq(y, q) <=> InRest(x, k, q))
      <4>1. /\ SubSeq(x, k + 1, Len(x)) \in Seq(Packets)
            /\ InSeq(SubSeq(x, k + 1, Len(x)), q) <=> InRest(x, k, q)
        BY ONLY <1>3, <2>1, LeftBehind
      <4> QED
        BY <2>1, <4>1
    <3>3. \A i \in 1 .. Len(x) : i > k <=> i \notin 1 .. k
      BY <2>1
    <3> QED
      BY <1>4a, <3>2, <3>3, Zenon DEF InRest
  <2>3. \A q : (\E o \in Outcomes : <<q, o>> \in out') <=> \E i \in 1 .. Len(x) : i \in 1 .. k /\ x[i] = q
    <3>1. CASE Abstract!Receive(k)
      <4>1. PICK o \in {"delivered", "refused"} :
              out' = {<<x[i], "expired">> : i \in 1 .. (k - 1)} \cup {<<x[k], o>>}
        BY <1>1, <3>1 DEF Abstract!Receive, Abstract!ExpiredBefore
      <4>2. \A i \in 1 .. k : i \in 1 .. Len(x) /\ (i \in 1 .. (k - 1) \/ i = k)
        BY <2>1
      <4>3. \A i \in 1 .. (k - 1) : i \in 1 .. Len(x) /\ i \in 1 .. k
        BY <2>1
      <4>4. k \in 1 .. k /\ o \in Outcomes /\ "expired" \in Outcomes
        BY DEF Outcomes
      <4> QED
        BY ONLY <4>1, <4>2, <4>3, <4>4, k \in 1 .. Len(x)
    <3>2. CASE Abstract!Expire(k + 1)
      <4>1. out' = {<<x[i], "expired">> : i \in 1 .. k}
        <5>1. out' = {<<x[i], "expired">> : i \in 1 .. ((k + 1) - 1)}
          BY <1>1, <3>2 DEF Abstract!Expire, Abstract!ExpiredBefore
        <5>2. (k + 1) - 1 = k
          BY <2>1
        <5> QED
          BY <5>1, <5>2
      <4>2. \A i \in 1 .. k : i \in 1 .. Len(x)
        BY <2>1
      <4>3. "expired" \in Outcomes
        BY DEF Outcomes
      <4> QED
        BY ONLY <4>1, <4>2, <4>3
    <3> QED
      BY <1>8, <3>1, <3>2, Zenon
  <2>4. PICK G : G = 1 .. k
    OBVIOUS
  <2>5. Stay(G) /\ Leave(G)
    BY <1>1, <2>2, <2>3, <2>4, Zenon DEF Stay, Leave
  <2> QED
    BY <2>5, Accounted, Zenon
<1>9. ASSUME NEW k \in 1 .. Len(x), Abstract!Withdraw(k) PROVE Leaves
  <2>1. y = SubSeq(x, 1, k - 1) \o SubSeq(x, k + 1, Len(x))
    BY <1>1, <1>2, <1>9 DEF Abstract!Withdraw
  <2>2. PICK o \in {"net", "dropped", "overflow", "lost"} : out' = {<<x[k], o>>}
    BY <1>1, <1>9 DEF Abstract!Withdraw
  <2>3. PICK G : G = {k}
    BY Zenon
  <2>4. \A q : q \in Held' <=> \E i \in 1 .. Len(x) : i \notin G /\ x[i] = q
    <3>1. TAKE q
    <3>2. y \in Seq(Packets) /\ (InSeq(y, q) <=> InOthers(x, k, q))
      <4>1. k \in Nat /\ 1 <= k /\ k <= Len(x)
        BY <1>3
      <4>2. /\ SubSeq(x, 1, k - 1) \o SubSeq(x, k + 1, Len(x)) \in Seq(Packets)
            /\ InSeq(SubSeq(x, 1, k - 1) \o SubSeq(x, k + 1, Len(x)), q) <=> InOthers(x, k, q)
        BY ONLY <1>3, <4>1, LeftWithout
      <4> QED
        BY <2>1, <4>2
    <3> QED
      BY <1>4a, <2>3, <3>2, Zenon DEF InOthers
  <2>5. \A q : (\E r \in Outcomes : <<q, r>> \in out') <=> \E i \in 1 .. Len(x) : i \in G /\ x[i] = q
    <3>1. o \in Outcomes
      BY DEF Outcomes
    <3> QED
      BY <2>2, <2>3, <3>1
  <2>6. Stay(G) /\ Leave(G)
    BY <1>1, <2>4, <2>5, Zenon DEF Stay, Leave
  <2> QED
    BY <2>6, Accounted
<1> QED
  BY <1>1, <1>5, <1>6, <1>7, <1>8, <1>9, HandStep, Zenon
=============================================================================
