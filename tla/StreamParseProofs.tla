------------------------- MODULE StreamParseProofs -------------------------
(***************************************************************************)
(* Proofs about StreamParse, for every set of messages.                    *)
(*                                                                         *)
(* The answer and what the events show are sequences that FlattenSeq joins *)
(* from pieces.  FlattenSeq is recursive; the first part proves of it, by  *)
(* the well-ordering of the naturals, what the steps of the parser need.   *)
(* The invariant then relates the answer the parser would give now to the  *)
(* events on the queue and those the harness has: each payload adds the    *)
(* same text to both, and the end of the stream adds the calls.            *)
(***************************************************************************)
EXTENDS StreamParse, SequenceTheorems, WellFoundedInduction, TLAPS

(* Sequences joined.                                                       *)

Less == {p \in Nat \X Nat : p[1] < p[2]}

\* The smaller numbers come first.
LEMMA LessWellFounded == IsWellFoundedOn(Less, Nat)
<1>1. Less = OpToRel(<, Nat)
  BY DEF OpToRel, Less
<1>2. QED
  BY <1>1, NatLessThanWellFounded

\* Every set of naturals that is not empty has a least element.
LEMMA Least ==
  ASSUME NEW T \in SUBSET Nat, T # {} PROVE \E n \in T : \A m \in T : n <= m
<1>1. PICK n \in T : \A m \in T : ~(<<m, n>> \in Less)
  BY LessWellFounded, WFMin
<1>2. ASSUME NEW m \in T, m < n PROVE FALSE
  <2>1. <<m, n>> \in Nat \X Nat
    OBVIOUS
  <2>2. <<m, n>> \in Less
    BY <1>2, <2>1 DEF Less
  <2>3. QED
    BY <1>1, <2>2
<1>3. QED
  BY <1>2

\* Induction up to N, for the numbers in a set.
LEMMA UpTo ==
  ASSUME NEW N \in Nat, NEW T, 0 \in T, \A n \in 0 .. N - 1 : n \in T => n + 1 \in T
  PROVE  \A n \in 0 .. N : n \in T
<1> SUFFICES ASSUME NEW k \in 0 .. N, k \notin T PROVE FALSE
  OBVIOUS
<1> DEFINE Bad == {n \in 0 .. N : n \notin T}
<1>1. Bad \in SUBSET Nat /\ Bad # {}
  OBVIOUS
<1>2. PICK n \in Bad : \A m \in Bad : n <= m
  BY <1>1, Least
<1>3. n \in 0 .. N /\ n # 0 /\ n \notin T
  OBVIOUS
<1>4. n - 1 \in 0 .. N - 1 /\ n - 1 \in T
  BY <1>2, <1>3
<1>5. QED
  BY <1>3, <1>4

\* F[n] is the first n sequences of ss joined.
Joins(ss, F) ==
    /\ F[0] = <<>>
    /\ \A i \in 1 .. Len(ss) : F[i] = F[i - 1] \o ss[i]

\* FlattenSeq is the last of its prefixes, by any F that joins.
LEMMA FlattenUnfold ==
  ASSUME NEW ss, Len(ss) # 0
  PROVE  FlattenSeq(ss) = (CHOOSE g : g = [i \in 1 .. Len(ss) |->
             IF i = 1 THEN ss[i] ELSE g[i - 1] \o ss[i]])[Len(ss)]
BY DEF FlattenSeq

LEMMA JoinStep ==
  ASSUME NEW S, NEW ss \in Seq(Seq(S)), NEW F, Joins(ss, F), NEW n \in 0 .. Len(ss) - 1
  PROVE  n + 1 \in 1 .. Len(ss) /\ F[n + 1] = F[n] \o ss[n + 1] /\ ss[n + 1] \in Seq(S)
<1>1. PICK i \in 1 .. Len(ss) : i = n + 1 /\ i - 1 = n
  OBVIOUS
<1>2. F[i] = F[i - 1] \o ss[i]
  BY DEF Joins
<1>3. ss[i] \in Seq(S)
  OBVIOUS
<1>4. QED
  BY <1>1, <1>2, <1>3

LEMMA JoinsType ==
  ASSUME NEW S, NEW ss \in Seq(Seq(S)), NEW F, Joins(ss, F)
  PROVE  \A i \in 0 .. Len(ss) : F[i] \in Seq(S)
<1>0. Len(ss) \in Nat
  OBVIOUS
<1> DEFINE T == {i \in 0 .. Len(ss) : F[i] \in Seq(S)}
<1>1. 0 \in T
  <2>1. F[0] = <<>>
    BY DEF Joins
  <2>2. F[0] \in Seq(S)
    BY <2>1
  <2>3. 0 \in 0 .. Len(ss)
    BY <1>0
  <2>4. QED
    BY <2>2, <2>3
<1>2. ASSUME NEW n \in 0 .. Len(ss) - 1, n \in T PROVE n + 1 \in T
  <2>1. F[n] \in Seq(S)
    BY <1>2
  <2>2. n + 1 \in 1 .. Len(ss) /\ F[n + 1] = F[n] \o ss[n + 1] /\ ss[n + 1] \in Seq(S)
    BY JoinStep
  <2>3. F[n + 1] \in Seq(S)
    BY <2>1, <2>2
  <2>4. n + 1 \in 0 .. Len(ss)
    BY <1>0
  <2>5. QED
    BY <2>3, <2>4
<1> HIDE DEF T
<1>3. \A n \in 0 .. Len(ss) : n \in T
  BY <1>0, <1>1, <1>2, UpTo
<1>4. QED
  BY <1>3 DEF T

LEMMA FlattenBy ==
  ASSUME NEW S, NEW ss \in Seq(Seq(S)), NEW F, Joins(ss, F)
  PROVE  FlattenSeq(ss) = F[Len(ss)]
<1>1. CASE Len(ss) = 0
  BY <1>1 DEF FlattenSeq, Joins
<1>2. CASE Len(ss) # 0
  <2>0. \A i \in 1 .. Len(ss) : F[i] = IF i = 1 THEN ss[i] ELSE F[i - 1] \o ss[i]
    <3> SUFFICES ASSUME NEW i \in 1 .. Len(ss)
                 PROVE  F[i] = IF i = 1 THEN ss[i] ELSE F[i - 1] \o ss[i]
      OBVIOUS
    <3>1. F[0] = <<>> /\ F[i] = F[i - 1] \o ss[i]
      BY DEF Joins
    <3>2. CASE i = 1
      <4>1. ss[i] \in Seq(S) /\ i - 1 = 0
        BY <3>2
      <4>2. F[i] = <<>> \o ss[i]
        BY <3>1, <4>1
      <4>3. <<>> \o ss[i] = ss[i]
        BY <4>1
      <4>4. QED
        BY <3>2, <4>2, <4>3
    <3>3. CASE i # 1
      BY <3>1, <3>3
    <3>4. QED
      BY <3>2, <3>3
  <2> DEFINE Step(g) == [i \in 1 .. Len(ss) |->
                            IF i = 1 THEN ss[i] ELSE g[i - 1] \o ss[i]]
             f == [i \in 1 .. Len(ss) |-> F[i]]
             g0 == CHOOSE g : g = Step(g)
  <2>1. f = Step(f)
    <3>1. ASSUME NEW i \in 1 .. Len(ss)
          PROVE  f[i] = IF i = 1 THEN ss[i] ELSE f[i - 1] \o ss[i]
      <4>1. f[i] = F[i]
        OBVIOUS
      <4>2. i # 1 => i - 1 \in 1 .. Len(ss)
        OBVIOUS
      <4>3. i # 1 => f[i - 1] = F[i - 1]
        BY <4>2
      <4> HIDE DEF f
      <4>4. QED
        BY <2>0, <4>1, <4>3
    <3>2. f = [i \in 1 .. Len(ss) |-> f[i]]
      OBVIOUS
    <3> HIDE DEF f
    <3>3. QED
      BY <3>1, <3>2
  <2>2. g0 = Step(g0)
    BY <2>1
  <2>3. FlattenSeq(ss) = g0[Len(ss)]
    BY <1>2, FlattenUnfold
  <2>4. \A i \in 1 .. Len(ss) : g0[i] = IF i = 1 THEN ss[i] ELSE g0[i - 1] \o ss[i]
    BY <2>2
  <2> HIDE DEF g0, f, Step
  <2> DEFINE T == {i \in 0 .. Len(ss) : i = 0 \/ g0[i] = F[i]}
  <2>5. 0 \in T
    OBVIOUS
  <2>6. ASSUME NEW n \in 0 .. Len(ss) - 1, n \in T PROVE n + 1 \in T
    <3>1. n + 1 \in 1 .. Len(ss)
      BY <2>6
    <3>2. F[n + 1] = F[n] \o ss[n + 1] /\ ss[n + 1] \in Seq(S)
      BY <2>6, JoinStep
    <3>3. g0[n + 1] = IF n = 0 THEN ss[n + 1] ELSE g0[n] \o ss[n + 1]
      <4>1. PICK i \in 1 .. Len(ss) : i = n + 1 /\ i - 1 = n /\ (i = 1 <=> n = 0)
        BY <3>1
      <4>2. g0[i] = IF i = 1 THEN ss[i] ELSE g0[i - 1] \o ss[i]
        BY <2>4
      <4>3. QED
        BY <4>1, <4>2
    <3>4. n = 0 => F[n] = <<>>
      BY DEF Joins
    <3>5. n = 0 \/ g0[n] = F[n]
      BY <2>6 DEF T
    <3>6. g0[n + 1] = F[n + 1]
      <4>1. CASE n = 0
        <5>1. F[n + 1] = <<>> \o ss[n + 1]
          BY <3>2, <3>4, <4>1
        <5>2. F[n + 1] = ss[n + 1]
          BY <3>2, <5>1
        <5>3. QED
          BY <3>3, <4>1, <5>2
      <4>2. CASE n # 0
        BY <3>2, <3>3, <3>5, <4>2
      <4>3. QED
        BY <4>1, <4>2
    <3>7. QED
      BY <3>1, <3>6
  <2> HIDE DEF T
  <2>7. \A n \in 0 .. Len(ss) : n \in T
    <3>1. Len(ss) \in Nat
      OBVIOUS
    <3>2. QED
      BY <3>1, <2>5, <2>6, UpTo
  <2>8. QED
    BY <1>2, <2>3, <2>7 DEF T
<1>3. QED
  BY <1>1, <1>2

\* Concatenation is associative.  Glue keeps the provers from rewriting it.
LEMMA Assoc == \A S : \A p, q, r \in Seq(S) : (p \o q) \o r = p \o (q \o r)
OBVIOUS

Glue(p, q) == p \o q

LEMMA GlueAssoc ==
  \A S : \A p, q, r \in Seq(S) : Glue(Glue(p, q), r) = Glue(p, Glue(q, r))
BY Assoc DEF Glue

\* F joins the first n sequences; there is such an F for every n.
Begins(ss, n, F) ==
    /\ F[0] = <<>>
    /\ \A i \in 1 .. n : F[i] = F[i - 1] \o ss[i]

LEMMA BeginsOn ==
  ASSUME NEW S, NEW ss \in Seq(Seq(S)), NEW n \in 0 .. Len(ss) - 1,
         NEW F \in [0 .. n -> Seq(S)], Begins(ss, n, F)
  PROVE  \E G \in [0 .. n + 1 -> Seq(S)] : Begins(ss, n + 1, G)
<1> DEFINE G == [i \in 0 .. n + 1 |-> IF i = n + 1 THEN F[n] \o ss[n + 1] ELSE F[i]]
<1>1. ss[n + 1] \in Seq(S) /\ F[n] \in Seq(S)
  OBVIOUS
<1>2. F[n] \o ss[n + 1] \in Seq(S)
  BY <1>1
<1>3. G \in [0 .. n + 1 -> Seq(S)]
  BY <1>2
<1>4. \A j \in 0 .. n + 1 : G[j] = IF j = n + 1 THEN F[n] \o ss[n + 1] ELSE F[j]
  OBVIOUS
<1> HIDE DEF G
<1>5. G[0] = <<>>
  BY <1>4 DEF Begins
<1>6. ASSUME NEW i \in 1 .. n + 1 PROVE G[i] = G[i - 1] \o ss[i]
  <2>1. i \in 0 .. n + 1 /\ i - 1 \in 0 .. n /\ i - 1 \in 0 .. n + 1 /\ i - 1 # n + 1
    OBVIOUS
  <2>2. G[i - 1] = F[i - 1]
    BY <1>4, <2>1
  <2>3. CASE i = n + 1
    <3>1. G[i] = F[n] \o ss[n + 1]
      BY <1>4, <2>1, <2>3, Zenon
    <3>2. i - 1 = n
      BY <2>3
    <3>3. QED
      BY <2>2, <2>3, <3>1, <3>2
  <2>4. CASE i # n + 1
    <3>1. i \in 1 .. n
      BY <2>4
    <3>2. F[i] = F[i - 1] \o ss[i]
      BY <3>1 DEF Begins
    <3>3. G[i] = F[i]
      BY <1>4, <2>1, <2>4
    <3>4. QED
      BY <2>2, <3>2, <3>3
  <2>5. QED
    BY <2>3, <2>4
<1>7. Begins(ss, n + 1, G)
  BY <1>5, <1>6 DEF Begins
<1>8. QED
  BY <1>3, <1>7

LEMMA JoinsExist ==
  ASSUME NEW S, NEW ss \in Seq(Seq(S))
  PROVE  \E F \in [0 .. Len(ss) -> Seq(S)] : Joins(ss, F)
<1> DEFINE T == {n \in 0 .. Len(ss) : \E F \in [0 .. n -> Seq(S)] : Begins(ss, n, F)}
<1>1. 0 \in T
  <2> DEFINE F == [i \in 0 .. 0 |-> <<>>]
  <2>1. F \in [0 .. 0 -> Seq(S)]
    OBVIOUS
  <2>2. Begins(ss, 0, F)
    BY DEF Begins
  <2> HIDE DEF F
  <2>3. QED
    BY <2>1, <2>2
<1>2. ASSUME NEW n \in 0 .. Len(ss) - 1, n \in T PROVE n + 1 \in T
  <2>1. PICK F \in [0 .. n -> Seq(S)] : Begins(ss, n, F)
    BY <1>2
  <2>2. \E G \in [0 .. n + 1 -> Seq(S)] : Begins(ss, n + 1, G)
    BY <2>1, BeginsOn
  <2>3. n + 1 \in 0 .. Len(ss)
    BY <1>2
  <2>4. QED
    BY <2>2, <2>3
<1> HIDE DEF T
<1>3. \A n \in 0 .. Len(ss) : n \in T
  <2>1. Len(ss) \in Nat
    OBVIOUS
  <2>2. QED
    BY <2>1, <1>1, <1>2, UpTo
<1>4. Len(ss) \in T
  BY <1>3
<1>5. QED
  BY <1>4 DEF T, Begins, Joins

LEMMA FlattenPrefixes ==
  ASSUME NEW S, NEW ss \in Seq(Seq(S))
  PROVE  \E F \in [0 .. Len(ss) -> Seq(S)] : Joins(ss, F) /\ FlattenSeq(ss) = F[Len(ss)]
<1>1. PICK F \in [0 .. Len(ss) -> Seq(S)] : Joins(ss, F)
  BY JoinsExist
<1>2. FlattenSeq(ss) = F[Len(ss)]
  BY <1>1, FlattenBy
<1>3. QED
  BY <1>1, <1>2

\* What FlattenSeq returns of sequences of elements of S, of empty sequences,
\* of two sequences joined, of one sequence, and of units.
LEMMA FlattenType ==
  ASSUME NEW S, NEW ss \in Seq(Seq(S)) PROVE FlattenSeq(ss) \in Seq(S)
<1>1. PICK F \in [0 .. Len(ss) -> Seq(S)] : FlattenSeq(ss) = F[Len(ss)]
  BY FlattenPrefixes
<1>2. Len(ss) \in 0 .. Len(ss)
  OBVIOUS
<1>3. QED
  BY <1>1, <1>2

LEMMA FlattenEmpties ==
  ASSUME NEW S, NEW ss \in Seq(Seq(S)), \A i \in 1 .. Len(ss) : ss[i] = <<>>
  PROVE  FlattenSeq(ss) = <<>>
<1> DEFINE F == [i \in 0 .. Len(ss) |-> <<>>]
<1>1. \A i \in 0 .. Len(ss) : F[i] = <<>>
  OBVIOUS
<1> HIDE DEF F
<1>2. Len(ss) \in Nat
  OBVIOUS
<1>3. Joins(ss, F)
  <2>1. F[0] = <<>>
    BY <1>1, <1>2
  <2>2. ASSUME NEW i \in 1 .. Len(ss) PROVE F[i] = F[i - 1] \o ss[i]
    <3>1. i \in 0 .. Len(ss) /\ i - 1 \in 0 .. Len(ss)
      BY <1>2
    <3>2. F[i] = <<>> /\ F[i - 1] = <<>> /\ ss[i] = <<>>
      BY <1>1, <3>1
    <3>3. <<>> \o <<>> = <<>>
      OBVIOUS
    <3>4. QED
      BY <3>2, <3>3
  <2>3. QED
    BY <2>1, <2>2 DEF Joins
<1>4. QED
  BY <1>1, <1>2, <1>3, FlattenBy

LEMMA FlattenConcat ==
  ASSUME NEW S, NEW a \in Seq(Seq(S)), NEW b \in Seq(Seq(S))
  PROVE  FlattenSeq(a \o b) = FlattenSeq(a) \o FlattenSeq(b)
<1>1. PICK F \in [0 .. Len(a) -> Seq(S)] : Joins(a, F) /\ FlattenSeq(a) = F[Len(a)]
  BY FlattenPrefixes
<1>2. PICK G \in [0 .. Len(b) -> Seq(S)] : Joins(b, G) /\ FlattenSeq(b) = G[Len(b)]
  BY FlattenPrefixes
<1>3. /\ Len(a) \in Nat /\ Len(b) \in Nat /\ a \o b \in Seq(Seq(S))
      /\ Len(a \o b) = Len(a) + Len(b)
  OBVIOUS
<1> DEFINE H == [i \in 0 .. Len(a) + Len(b) |->
                    IF i <= Len(a) THEN F[i] ELSE F[Len(a)] \o G[i - Len(a)]]
<1>4. \A i \in 0 .. Len(a) + Len(b) :
         H[i] = IF i <= Len(a) THEN F[i] ELSE F[Len(a)] \o G[i - Len(a)]
  OBVIOUS
<1> HIDE DEF H
<1>5. F[0] = <<>> /\ G[0] = <<>> /\ F[Len(a)] \in Seq(S)
  BY <1>1, <1>2, <1>3 DEF Joins
<1>6. \A i \in Len(a) .. Len(a) + Len(b) : H[i] = F[Len(a)] \o G[i - Len(a)]
  <2> SUFFICES ASSUME NEW i \in Len(a) .. Len(a) + Len(b)
               PROVE  H[i] = F[Len(a)] \o G[i - Len(a)]
    OBVIOUS
  <2>1. CASE i = Len(a)
    <3>1. H[i] = F[Len(a)] /\ i - Len(a) = 0
      BY <1>3, <1>4, <2>1
    <3>2. F[Len(a)] \o <<>> = F[Len(a)]
      BY <1>5
    <3>3. QED
      BY <1>5, <3>1, <3>2
  <2>2. CASE i # Len(a)
    <3>1. i \in 0 .. Len(a) + Len(b) /\ ~(i <= Len(a))
      BY <1>3, <2>2
    <3>2. QED
      BY <1>4, <3>1
  <2>3. QED
    BY <2>1, <2>2
<1>7. H[0] = <<>>
  BY <1>3, <1>4, <1>5
<1>8. ASSUME NEW i \in 1 .. Len(a) + Len(b) PROVE H[i] = H[i - 1] \o (a \o b)[i]
  <2>1. CASE i <= Len(a)
    <3>1. i \in 1 .. Len(a) /\ i - 1 \in 0 .. Len(a) + Len(b) /\ i - 1 <= Len(a)
          /\ i \in 0 .. Len(a) + Len(b)
      BY <1>3, <2>1
    <3>2. H[i] = F[i] /\ H[i - 1] = F[i - 1]
      BY <1>4, <2>1, <3>1
    <3>3. F[i] = F[i - 1] \o a[i]
      BY <1>1, <3>1 DEF Joins
    <3>4. (a \o b)[i] = a[i]
      BY <3>1
    <3>5. QED
      BY <3>2, <3>3, <3>4
  <2>2. CASE i > Len(a)
    <3>1. PICK j \in 1 .. Len(b) : j = i - Len(a)
      <4>1. i - Len(a) \in 1 .. Len(b)
        BY <1>3, <2>2
      <4>2. QED
        BY <4>1
    <3>2. /\ i \in Len(a) .. Len(a) + Len(b) /\ i - 1 \in Len(a) .. Len(a) + Len(b)
          /\ i - 1 - Len(a) = j - 1 /\ j - 1 \in 0 .. Len(b) /\ j \in 0 .. Len(b)
      BY <1>3, <2>2, <3>1
    <3>3. H[i] = F[Len(a)] \o G[j] /\ H[i - 1] = F[Len(a)] \o G[j - 1]
      BY <1>6, <3>1, <3>2
    <3>4. G[j] = G[j - 1] \o b[j]
      BY <1>2 DEF Joins
    <3>5. (a \o b)[i] = b[j]
      BY <1>3, <2>2, <3>1
    <3>6. G[j - 1] \in Seq(S) /\ b[j] \in Seq(S)
      <4>1. G[j - 1] \in Seq(S)
        BY <3>2
      <4>2. b[j] \in Seq(S)
        OBVIOUS
      <4>3. QED
        BY <4>1, <4>2
    <3>7. F[Len(a)] \o (G[j - 1] \o b[j]) = (F[Len(a)] \o G[j - 1]) \o b[j]
      <4>1. PICK p \in Seq(S) : p = F[Len(a)]
        BY <1>5
      <4>2. PICK q \in Seq(S) : q = G[j - 1]
        BY <3>6
      <4>3. PICK r \in Seq(S) : r = b[j]
        BY <3>6
      <4>4. Glue(Glue(p, q), r) = Glue(p, Glue(q, r))
        BY GlueAssoc
      <4>5. QED
        BY <4>1, <4>2, <4>3, <4>4 DEF Glue
    <3>8. QED
      BY <3>3, <3>4, <3>5, <3>7
  <2>3. i <= Len(a) \/ i > Len(a)
    BY <1>3
  <2>4. QED
    BY <2>1, <2>2, <2>3
<1>9. Joins(a \o b, H)
  BY <1>3, <1>7, <1>8 DEF Joins
<1>10. FlattenSeq(a \o b) = H[Len(a) + Len(b)]
  BY <1>3, <1>9, FlattenBy
<1>11. H[Len(a) + Len(b)] = F[Len(a)] \o G[Len(b)]
  <2>1. /\ Len(a) + Len(b) \in Len(a) .. Len(a) + Len(b)
        /\ Len(a) + Len(b) - Len(a) = Len(b)
    BY <1>3
  <2>2. PICK k \in Len(a) .. Len(a) + Len(b) :
          k = Len(a) + Len(b) /\ k - Len(a) = Len(b)
    BY <2>1
  <2>3. QED
    BY <1>6, <2>2
<1>12. QED
  BY <1>1, <1>2, <1>10, <1>11

LEMMA FlattenOne ==
  ASSUME NEW S, NEW s \in Seq(S) PROVE FlattenSeq(<<s>>) = s
<1>1. /\ <<s>> \in Seq(Seq(S)) /\ Len(<<s>>) = 1 /\ <<s>>[1] = s
  OBVIOUS
<1>2. PICK F \in [0 .. 1 -> Seq(S)] : Joins(<<s>>, F) /\ FlattenSeq(<<s>>) = F[1]
  BY <1>1, FlattenPrefixes
<1>3. F[0] = <<>> /\ F[1] = F[0] \o s
  <2>1. 1 \in 1 .. 1 /\ 1 - 1 = 0
    OBVIOUS
  <2>2. QED
    BY <1>1, <1>2, <2>1 DEF Joins
<1>4. <<>> \o s = s
  OBVIOUS
<1>5. QED
  BY <1>2, <1>3, <1>4

LEMMA FlattenUnits ==
  ASSUME NEW S, NEW t \in Seq(S), NEW ss \in Seq(Seq(S)), Len(ss) = Len(t),
         \A i \in 1 .. Len(t) : ss[i] = <<t[i]>>
  PROVE  FlattenSeq(ss) = t
<1>1. Len(t) \in Nat
  OBVIOUS
<1> DEFINE F == [i \in 0 .. Len(t) |-> SubSeq(t, 1, i)]
<1>2. \A i \in 0 .. Len(t) : F[i] = SubSeq(t, 1, i)
  OBVIOUS
<1> HIDE DEF F
<1>3. F[0] = <<>>
  BY <1>1, <1>2
<1>4. ASSUME NEW i \in 1 .. Len(t) PROVE F[i] = F[i - 1] \o ss[i]
  <2>1. i \in 0 .. Len(t) /\ i - 1 \in 0 .. Len(t) /\ 1 \in 1 .. Len(t) /\ i \in 1 .. Len(t)
    BY <1>1
  <2>2. SubSeq(t, 1, i) = SubSeq(t, 1, i - 1) \o <<t[i]>>
    BY <2>1, SubSeqRecursiveSecond
  <2>3. QED
    BY <1>2, <2>1, <2>2
<1>5. Joins(ss, F)
  BY <1>3, <1>4 DEF Joins
<1>6. FlattenSeq(ss) = F[Len(t)]
  BY <1>5, FlattenBy
<1>7. F[Len(t)] = t
  BY <1>1, <1>2, SubSeqFull
<1>8. QED
  BY <1>6, <1>7

\* tt is ss, but its m-th sequence grew by x, and those after it are empty:
\* joined, tt is ss with x at its end.
Grown(ss, tt, m, x) ==
    /\ Len(tt) = Len(ss)
    /\ \A i \in 1 .. Len(ss) :
         /\ i = m => tt[i] = ss[i] \o x
         /\ i # m => tt[i] = ss[i]
         /\ i > m => ss[i] = <<>>

LEMMA FlattenGrow ==
  ASSUME NEW S, NEW ss \in Seq(Seq(S)), NEW tt \in Seq(Seq(S)),
         NEW m \in 1 .. Len(ss), NEW x \in Seq(S), Grown(ss, tt, m, x)
  PROVE  FlattenSeq(tt) = FlattenSeq(ss) \o x
<1>1. PICK F \in [0 .. Len(ss) -> Seq(S)] : Joins(ss, F) /\ FlattenSeq(ss) = F[Len(ss)]
  BY FlattenPrefixes
<1>2. Len(ss) \in Nat
  OBVIOUS
<1> DEFINE G == [i \in 0 .. Len(ss) |-> IF i < m THEN F[i] ELSE F[i] \o x]
<1>3. \A i \in 0 .. Len(ss) : G[i] = IF i < m THEN F[i] ELSE F[i] \o x
  OBVIOUS
<1> HIDE DEF G
<1>4. G[0] = <<>>
  BY <1>1, <1>2, <1>3 DEF Joins
<1>5. ASSUME NEW i \in 1 .. Len(ss) PROVE G[i] = G[i - 1] \o tt[i]
  <2>1. i \in 0 .. Len(ss) /\ i - 1 \in 0 .. Len(ss)
    BY <1>2
  <2>2. F[i - 1] \in Seq(S) /\ F[i] \in Seq(S)
    BY <2>1
  <2>3. ss[i] \in Seq(S)
    OBVIOUS
  <2>4. F[i] = F[i - 1] \o ss[i]
    BY <1>1 DEF Joins
  <2>5. /\ i = m => tt[i] = ss[i] \o x
        /\ i # m => tt[i] = ss[i]
        /\ i > m => ss[i] = <<>>
    BY DEF Grown
  <2>6. /\ G[i] = IF i < m THEN F[i] ELSE F[i] \o x
        /\ G[i - 1] = IF i - 1 < m THEN F[i - 1] ELSE F[i - 1] \o x
    BY <1>3, <2>1
  <2>7. CASE i < m
    <3>1. i - 1 < m /\ i # m
      BY <1>2, <2>7
    <3>2. QED
      BY <2>4, <2>5, <2>6, <2>7, <3>1
  <2>8. CASE i = m
    <3>1. i - 1 < m /\ ~(i < m)
      BY <1>2, <2>8
    <3>2. (F[i - 1] \o ss[i]) \o x = F[i - 1] \o (ss[i] \o x)
      <4>1. PICK p \in Seq(S) : p = F[i - 1]
        BY <2>2
      <4>2. PICK q \in Seq(S) : q = ss[i]
        BY <2>3
      <4>3. Glue(Glue(p, q), x) = Glue(p, Glue(q, x))
        BY GlueAssoc
      <4>4. QED
        BY <4>1, <4>2, <4>3 DEF Glue
    <3>3. G[i] = F[i] \o x /\ G[i - 1] = F[i - 1] /\ tt[i] = ss[i] \o x
      BY <2>5, <2>6, <2>8, <3>1
    <3>4. QED
      BY <2>4, <3>2, <3>3
  <2>9. CASE i > m
    <3>1. ~(i - 1 < m) /\ ~(i < m) /\ i # m
      BY <1>2, <2>9
    <3>2. G[i] = F[i] \o x /\ G[i - 1] = F[i - 1] \o x
      BY <2>6, <3>1
    <3>3. ss[i] = <<>> /\ tt[i] = <<>>
      BY <2>5, <2>9, <3>1
    <3>4. F[i] = F[i - 1]
      BY <2>2, <2>4, <3>3
    <3>5. (F[i - 1] \o x) \o <<>> = F[i - 1] \o x
      BY <2>2
    <3>6. QED
      BY <3>2, <3>3, <3>4, <3>5
  <2>10. i < m \/ i = m \/ i > m
    BY <1>2
  <2>11. QED
    BY <2>7, <2>8, <2>9, <2>10
<1>6. Joins(tt, G)
  BY <1>4, <1>5 DEF Joins, Grown
<1>7. FlattenSeq(tt) = G[Len(ss)]
  BY <1>6, FlattenBy DEF Grown
<1>8. G[Len(ss)] = F[Len(ss)] \o x
  <2>1. Len(ss) \in 0 .. Len(ss) /\ ~(Len(ss) < m)
    BY <1>2
  <2>2. QED
    BY <1>3, <2>1
<1>9. QED
  BY <1>1, <1>7, <1>8
-----------------------------------------------------------------------------
(* The inductive invariant.                                                *)

\* The fragments a block has sent.
Count(i)    == IF i \in DOMAIN sent THEN sent[i] ELSE 0
Frags(i, n) == [k \in 1 .. n |-> <<i, k>>]

\* The parser meets the blocks in the order of the message, collects of each
\* what was sent of it, and no text follows a text that is not complete: what
\* a fragment adds to the answer is added at its end.
ParserInv ==
    /\ \A n \in DOMAIN order : order[n] = n
    /\ sent \in [DOMAIN order -> Nat]
    /\ \A i \in DOMAIN sent : sent[i] <= msg.blocks[i].parts
    /\ \A i \in Blocks : buffer[i] = Frags(i, Count(i))
    /\ \A i, j \in DOMAIN sent :
         i < j /\ Kind(i) = "text" /\ Kind(j) = "text" => Sent(i)

\* The parser came to an answer.
Yielded == thread = "ended" /\ ending # "failed" /\ ~Refused

Done    == [type |-> "done", answer |-> Answer]
Closing == IF Yielded THEN Done ELSE [type |-> "error"]
End     == [type |-> "end"]

Terminal(e) == e.type \in {"done", "error", "end"}

\* The last two events close the stream, the first of them is c.
Closes(es, c) ==
    /\ Len(es) >= 2
    /\ es[Len(es)] = End /\ es[Len(es) - 1] = c
    /\ \A n \in 1 .. Len(es) - 2 : ~Terminal(es[n])

Open(es) == \A n \in DOMAIN es : ~Terminal(es[n])

\* The events that close the stream come once, at its end, and say how the
\* parser ended.
QueueInv ==
    /\ thread = "reading" <=> ending = "open"
    /\ ending = "whole" => \A i \in Blocks : Sent(i)
    /\ consumer = "reading" =>
         /\ Open(got)
         /\ IF thread = "reading" THEN Open(queue) ELSE Closes(queue, Closing)
    /\ consumer = "answered" =>
         /\ Yielded
         /\ got # <<>> /\ got[Len(got)] = Done
         /\ queue = <<End>>
    /\ consumer = "raised" => thread = "ended" /\ ~Yielded
    /\ consumer # "silent"

Announces(es, id) == \E n \in DOMAIN es : es[n].type = "start" /\ es[n].id = id

\* The events on their way and those that arrived show the answer.
ShownInv ==
    consumer \in {"reading", "answered"} =>
        /\ Texts(got \o queue) = Answer.text
        /\ Ended(got \o queue) = IF Yielded THEN Answer.calls ELSE <<>>
        /\ \A i \in DOMAIN sent :
             Kind(i) = "tool" => Announces(got, Id(i)) \/ Announces(queue, Id(i))

Inv == TypeOK /\ ParserInv /\ QueueInv /\ ShownInv
-----------------------------------------------------------------------------
(* Types.                                                                  *)

\* A message is one the adapters can meet.
LEMMA MessageShape ==
  ASSUME msg \in Messages
  PROVE  /\ msg.proto \in Protocols /\ msg.blocks \in Seq(Block)
         /\ Len(msg.blocks) \in Nat /\ Blocks = 1 .. Len(msg.blocks)
BY MessagesAreWellFormed DEF Blocks

LEMMA BlockShape ==
  ASSUME msg \in Messages, NEW i \in Blocks
  PROVE  /\ Kind(i) \in {"text", "thinking", "redacted", "tool"}
         /\ msg.blocks[i].name \in STRING
         /\ msg.blocks[i].parts \in Nat
         /\ msg.blocks[i].valid \in BOOLEAN
<1>1. msg.blocks[i] \in Block
  BY MessageShape
<1>2. QED
  BY <1>1 DEF Block, Kind

\* What the protocols allow.
LEMMA ProtocolShape ==
  ASSUME msg \in Messages, NEW i \in Blocks
  PROVE  /\ Kind(i) = "redacted" => msg.blocks[i].parts = 0
         /\ msg.proto = "openai" =>
              \/ Kind(i) = "tool"
              \/ Kind(i) = "text" /\ i = 1 /\ msg.blocks[i].parts > 0
         /\ msg.proto = "google" => Kind(i) \in {"text", "tool"}
<1>1. i \in DOMAIN msg.blocks
  BY DEF Blocks
<1>2. \A m \in Messages : \A j \in DOMAIN m.blocks :
        /\ m.blocks[j].kind = "redacted" => m.blocks[j].parts = 0
        /\ m.proto = "openai" =>
             \/ m.blocks[j].kind = "tool"
             \/ m.blocks[j].kind = "text" /\ j = 1 /\ m.blocks[j].parts > 0
        /\ m.proto = "google" => m.blocks[j].kind \in {"text", "tool"}
  BY MessagesAreWellFormed
<1>3. /\ msg.blocks[i].kind = "redacted" => msg.blocks[i].parts = 0
      /\ msg.proto = "openai" =>
           \/ msg.blocks[i].kind = "tool"
           \/ msg.blocks[i].kind = "text" /\ i = 1 /\ msg.blocks[i].parts > 0
      /\ msg.proto = "google" => msg.blocks[i].kind \in {"text", "tool"}
  BY <1>1, <1>2, Zenon
<1>4. QED
  BY <1>3, Zenon DEF Kind

LEMMA FragsType ==
  ASSUME NEW i \in Blocks, NEW n \in Nat
  PROVE  Frags(i, n) \in Seq(Fragments) /\ Len(Frags(i, n)) = n
<1>1. \A k \in 1 .. n : <<i, k>> \in Fragments
  BY DEF Fragments
<1>2. QED
  BY <1>1 DEF Frags

LEMMA FragsNone == \A i : Frags(i, 0) = <<>>
BY DEF Frags

LEMMA FragsGrow ==
  ASSUME NEW i \in Blocks, NEW n \in Nat
  PROVE  Frags(i, n) \o <<<<i, n + 1>>>> = Frags(i, n + 1)
BY DEF Frags

LEMMA FragsOfFull ==
  ASSUME msg \in Messages, NEW i \in Blocks, NEW n \in 0 .. msg.blocks[i].parts
  PROVE  SubSeq(Full(i), 1, n) = Frags(i, n)
BY BlockShape DEF Full, Frags

LEMMA EventFields ==
  ASSUME NEW e \in Event
  PROVE  /\ e.type = "text" => e.part \in Fragments
         /\ e.type = "callend" => e.call \in CallType
BY DEF Event

LEMMA EventKinds ==
  /\ \A x \in Fragments : /\ [type |-> "text", part |-> x] \in Event
                          /\ [type |-> "thinking", part |-> x] \in Event
  /\ \A x \in Ids : [type |-> "start", id |-> x] \in Event
  /\ \A x \in Fragments, y \in Ids \cup {"index"} \X Blocks :
       [type |-> "delta", part |-> x, id |-> y] \in Event
  /\ \A x \in CallType : [type |-> "callend", call |-> x] \in Event
  /\ \A x \in AnswerType : [type |-> "done", answer |-> x] \in Event
  /\ [type |-> "error"] \in Event
  /\ [type |-> "end"] \in Event
BY DEF Event

\* The events of a stream before it is closed.
Streamed == {e \in Event : e.type \in {"text", "thinking", "start", "delta"}}
NoText   == {e \in Streamed : e.type # "text"}

LEMMA DeltaShape ==
  ASSUME msg \in Messages, NEW i \in Blocks, NEW k \in Nat, NEW first \in BOOLEAN
  PROVE  /\ Delta(i, k, first) \in Seq(Streamed)
         /\ Kind(i) = "text" => Delta(i, k, first) = <<[type |-> "text", part |-> <<i, k>>]>>
         /\ Kind(i) # "text" => Delta(i, k, first) \in Seq(NoText)
<1>1. <<i, k>> \in Fragments
  BY DEF Fragments
<1>2. Id(i) \in Ids /\ <<"index", i>> \in {"index"} \X Blocks
  BY DEF Ids
<1>3. CASE Kind(i) = "text"
  <2>1. [type |-> "text", part |-> <<i, k>>] \in Streamed
    BY <1>1, EventKinds DEF Streamed
  <2>2. QED
    BY <1>3, <2>1 DEF Delta
<1>4. CASE Kind(i) = "thinking"
  <2>1. [type |-> "thinking", part |-> <<i, k>>] \in NoText
    BY <1>1, EventKinds DEF Streamed, NoText
  <2>2. QED
    BY <1>4, <2>1 DEF Delta, NoText
<1>5. CASE Kind(i) \notin {"text", "thinking"}
  <2> DEFINE id == IF msg.proto = "openai" /\ ~first THEN <<"index", i>> ELSE Id(i)
  <2>1. id \in Ids \cup {"index"} \X Blocks
    BY <1>2
  <2>2. Delta(i, k, first) = IF msg.proto = "google" THEN <<>>
                             ELSE <<[type |-> "delta", part |-> <<i, k>>, id |-> id]>>
    BY <1>5 DEF Delta
  <2> HIDE DEF id
  <2> DEFINE e == [type |-> "delta", part |-> <<i, k>>, id |-> id]
  <2>3. e \in NoText /\ e \in Streamed
    BY <1>1, <2>1, EventKinds DEF Streamed, NoText
  <2>4. Delta(i, k, first) = <<>> \/ Delta(i, k, first) = <<e>>
    BY <2>2
  <2> HIDE DEF e
  <2>5. Delta(i, k, first) \in Seq(Streamed) /\ Delta(i, k, first) \in Seq(NoText)
    <3>1. /\ <<e>> \in Seq(Streamed) /\ <<>> \in Seq(Streamed)
          /\ <<e>> \in Seq(NoText) /\ <<>> \in Seq(NoText)
      BY <2>3
    <3>2. QED
      BY <2>4, <3>1, Zenon
  <2>6. QED
    BY <1>5, <2>5, Zenon
<1>6. QED
  BY <1>3, <1>4, <1>5
-----------------------------------------------------------------------------
(* What a sequence of events shows.                                        *)

TextUnits(es) == [n \in 1 .. Len(es) |->
                     IF es[n].type = "text" THEN <<es[n].part>> ELSE <<>>]
CallUnits(es) == [n \in 1 .. Len(es) |->
                     IF es[n].type = "callend" THEN <<es[n].call>> ELSE <<>>]

LEMMA UnitsType ==
  ASSUME NEW es \in Seq(Event)
  PROVE  /\ TextUnits(es) \in Seq(Seq(Fragments)) /\ Len(TextUnits(es)) = Len(es)
         /\ CallUnits(es) \in Seq(Seq(CallType)) /\ Len(CallUnits(es)) = Len(es)
         /\ \A n \in 1 .. Len(es) :
              /\ TextUnits(es)[n] = IF es[n].type = "text" THEN <<es[n].part>> ELSE <<>>
              /\ CallUnits(es)[n] = IF es[n].type = "callend" THEN <<es[n].call>> ELSE <<>>
<1>1. Len(es) \in Nat
  OBVIOUS
<1>2. ASSUME NEW n \in 1 .. Len(es)
      PROVE  /\ (IF es[n].type = "text" THEN <<es[n].part>> ELSE <<>>) \in Seq(Fragments)
             /\ (IF es[n].type = "callend" THEN <<es[n].call>> ELSE <<>>) \in Seq(CallType)
  <2>1. es[n] \in Event
    OBVIOUS
  <2>2. /\ es[n].type = "text" => es[n].part \in Fragments
        /\ es[n].type = "callend" => es[n].call \in CallType
    BY <2>1, EventFields
  <2>3. QED
    BY <2>2
<1>3. /\ TextUnits(es) \in Seq(Seq(Fragments)) /\ Len(TextUnits(es)) = Len(es)
      /\ \A n \in 1 .. Len(es) :
           TextUnits(es)[n] = IF es[n].type = "text" THEN <<es[n].part>> ELSE <<>>
  BY <1>1, <1>2 DEF TextUnits
<1>4. /\ CallUnits(es) \in Seq(Seq(CallType)) /\ Len(CallUnits(es)) = Len(es)
      /\ \A n \in 1 .. Len(es) :
           CallUnits(es)[n] = IF es[n].type = "callend" THEN <<es[n].call>> ELSE <<>>
  BY <1>1, <1>2 DEF CallUnits
<1>5. QED
  BY <1>3, <1>4

LEMMA ShownByUnits ==
  \A es : Texts(es) = FlattenSeq(TextUnits(es)) /\ Ended(es) = FlattenSeq(CallUnits(es))
BY DEF Texts, Ended, TextUnits, CallUnits

LEMMA ShownJoin ==
  ASSUME NEW a \in Seq(Event), NEW b \in Seq(Event)
  PROVE  /\ Texts(a \o b) = Texts(a) \o Texts(b)
         /\ Ended(a \o b) = Ended(a) \o Ended(b)
         /\ Texts(a) \in Seq(Fragments) /\ Ended(a) \in Seq(CallType)
<1>1. /\ a \o b \in Seq(Event) /\ Len(a \o b) = Len(a) + Len(b)
      /\ Len(a) \in Nat /\ Len(b) \in Nat
  OBVIOUS
<1>2. ASSUME NEW n \in 1 .. Len(a) + Len(b)
      PROVE  (a \o b)[n] = IF n <= Len(a) THEN a[n] ELSE b[n - Len(a)]
  OBVIOUS
<1>3. TextUnits(a \o b) = TextUnits(a) \o TextUnits(b)
  BY <1>1, <1>2 DEF TextUnits
<1>4. CallUnits(a \o b) = CallUnits(a) \o CallUnits(b)
  BY <1>1, <1>2 DEF CallUnits
<1>5. /\ TextUnits(a) \in Seq(Seq(Fragments)) /\ TextUnits(b) \in Seq(Seq(Fragments))
      /\ CallUnits(a) \in Seq(Seq(CallType)) /\ CallUnits(b) \in Seq(Seq(CallType))
  BY UnitsType
<1>6. FlattenSeq(TextUnits(a) \o TextUnits(b))
        = FlattenSeq(TextUnits(a)) \o FlattenSeq(TextUnits(b))
  BY <1>5, FlattenConcat
<1>7. FlattenSeq(CallUnits(a) \o CallUnits(b))
        = FlattenSeq(CallUnits(a)) \o FlattenSeq(CallUnits(b))
  BY <1>5, FlattenConcat
<1>8. FlattenSeq(TextUnits(a)) \in Seq(Fragments) /\ FlattenSeq(CallUnits(a)) \in Seq(CallType)
  BY <1>5, FlattenType
<1>9. QED
  BY <1>3, <1>4, <1>6, <1>7, <1>8, ShownByUnits

LEMMA NoTextShown ==
  ASSUME NEW es \in Seq(Event), \A n \in 1 .. Len(es) : es[n].type # "text"
  PROVE  Texts(es) = <<>>
<1>1. \A n \in 1 .. Len(es) : TextUnits(es)[n] = <<>>
  BY UnitsType
<1>2. QED
  BY <1>1, UnitsType, FlattenEmpties, ShownByUnits

LEMMA NoCallShown ==
  ASSUME NEW es \in Seq(Event), \A n \in 1 .. Len(es) : es[n].type # "callend"
  PROVE  Ended(es) = <<>>
<1>1. \A n \in 1 .. Len(es) : CallUnits(es)[n] = <<>>
  BY UnitsType
<1>2. QED
  BY <1>1, UnitsType, FlattenEmpties, ShownByUnits

\* Nothing is shown twice or lost when the harness takes an event.
LEMMA TakeJoin ==
  ASSUME NEW a \in Seq(Event), NEW q \in Seq(Event), q # <<>>
  PROVE  /\ Head(q) = q[1] /\ Head(q) \in Event /\ Tail(q) \in Seq(Event)
         /\ Append(a, Head(q)) \in Seq(Event)
         /\ Append(a, Head(q)) \o Tail(q) = a \o q
OBVIOUS
-----------------------------------------------------------------------------
(* What a payload changes.                                                 *)

LEMMA BegunIsUpTo ==
  ASSUME TypeOK, ParserInv
  PROVE  /\ Len(order) \in Nat /\ DOMAIN order = 1 .. Len(order)
         /\ DOMAIN sent = 1 .. Len(order)
         /\ \A i \in DOMAIN sent : i \in Blocks /\ sent[i] \in Nat
         /\ \A i \in Blocks : Count(i) \in Nat
BY DEF TypeOK, ParserInv, Count

StartEvent(i) == IF Kind(i) = "tool" THEN <<[type |-> "start", id |-> Id(i)]>> ELSE <<>>
BeginEvents(i, n) == StartEvent(i) \o FlattenSeq([k \in 1 .. n |-> Delta(i, k, TRUE)])

\* A block begins after all blocks before it, with the fragments its payload has.
LEMMA BeginEffect ==
  ASSUME TypeOK, ParserInv, NEW i \in Blocks, Begin(i)
  PROVE  \E n \in 0 .. msg.blocks[i].parts :
            /\ thread = "reading" /\ i = Len(order) + 1 /\ MayBegin(i)
            /\ sent' = [j \in 1 .. i |-> IF j = i THEN n ELSE sent[j]]
            /\ order' = Append(order, i)
            /\ buffer' = [buffer EXCEPT ![i] = Frags(i, n)]
            /\ queue' = queue \o BeginEvents(i, n)
            /\ UNCHANGED <<msg, thread, ending, consumer, got>>
<1>1. msg \in Messages /\ msg.blocks[i].parts \in Nat
  BY BlockShape DEF TypeOK
<1>2. PICK n \in First(i) :
         /\ sent' = [j \in DOMAIN sent \cup {i} |-> IF j = i THEN n ELSE sent[j]]
         /\ buffer' = [buffer EXCEPT ![Key(i)] = Collected(i, SubSeq(Full(i), 1, n))]
         /\ Put(StartEvent(i) \o FlattenSeq([k \in 1 .. n |-> Delta(i, k, TRUE)]))
  BY DEF Begin, StartEvent
<1>3. /\ thread = "reading" /\ i \notin DOMAIN sent /\ MayBegin(i)
      /\ order' = Append(order, i)
      /\ UNCHANGED <<msg, thread, ending, consumer, got>>
  BY DEF Begin
<1>4. n \in 0 .. msg.blocks[i].parts
  <2>1. CASE msg.proto \in {"google", "anthropic"}
    BY <1>1, <2>1 DEF First
  <2>2. CASE msg.proto \notin {"google", "anthropic"}
    <3>1. msg.proto = "openai"
      BY <1>1, <2>2, MessageShape DEF Protocols
    <3>2. Kind(i) = "text" => msg.blocks[i].parts > 0
      BY <1>1, <3>1, ProtocolShape
    <3>3. QED
      BY <1>1, <2>2, <3>2 DEF First
  <2>3. QED
    BY <2>1, <2>2
<1>5. i = Len(order) + 1
  <2>1. /\ Len(order) \in Nat /\ DOMAIN sent = 1 .. Len(order)
        /\ Len(msg.blocks) \in Nat /\ Blocks = 1 .. Len(msg.blocks)
    BY <1>1, BegunIsUpTo, MessageShape
  <2>2. \A j \in Blocks : j < i => j \in DOMAIN sent
    BY <1>3 DEF MayBegin, Sent
  <2>3. QED
    BY <1>3, <2>1, <2>2
<1>6. sent' = [j \in 1 .. i |-> IF j = i THEN n ELSE sent[j]]
  <2>1. DOMAIN sent \cup {i} = 1 .. i
    BY <1>5, BegunIsUpTo
  <2>2. QED
    BY <1>2, <2>1
<1>7. buffer' = [buffer EXCEPT ![i] = Frags(i, n)]
  <2>1. buffer[i] = <<>>
    BY <1>3, FragsNone DEF ParserInv, Count
  <2>2. SubSeq(Full(i), 1, n) = Frags(i, n) /\ Frags(i, n) \in Seq(Fragments)
    <3>1. n \in Nat
      BY <1>1, <1>4
    <3>2. QED
      BY <1>1, <1>4, <3>1, FragsOfFull, FragsType
  <2>3. <<>> \o Frags(i, n) = Frags(i, n)
    BY <2>2
  <2>4. QED
    BY <1>2, <2>1, <2>2, <2>3 DEF Key, Collected
<1>8. queue' = queue \o BeginEvents(i, n)
  BY <1>2 DEF Put, BeginEvents
<1>9. QED
  BY <1>3, <1>4, <1>5, <1>6, <1>7, <1>8

LEMMA BeginShows ==
  ASSUME msg \in Messages, NEW i \in Blocks, NEW n \in Nat
  PROVE  /\ BeginEvents(i, n) \in Seq(Event)
         /\ \A m \in DOMAIN BeginEvents(i, n) : BeginEvents(i, n)[m] \in Streamed
         /\ Texts(BeginEvents(i, n)) = IF Kind(i) = "text" THEN Frags(i, n) ELSE <<>>
         /\ Kind(i) = "tool" => Announces(BeginEvents(i, n), Id(i))
<1> DEFINE delta(k) == Delta(i, k, TRUE)
           deltas   == [k \in 1 .. n |-> delta(k)]
<1>1. /\ \A k \in 1 .. n : deltas[k] = Delta(i, k, TRUE)
      /\ deltas \in Seq(Seq(Streamed)) /\ Len(deltas) = n
      /\ Kind(i) # "text" => deltas \in Seq(Seq(NoText))
  <2>1. ASSUME NEW k \in 1 .. n
        PROVE  /\ delta(k) \in Seq(Streamed)
               /\ Kind(i) # "text" => delta(k) \in Seq(NoText)
    <3>1. k \in Nat /\ TRUE \in BOOLEAN
      OBVIOUS
    <3>2. QED
      BY <3>1, DeltaShape, Zenon
  <2>2. \A k \in 1 .. n : deltas[k] = Delta(i, k, TRUE)
    OBVIOUS
  <2> HIDE DEF delta
  <2>3. deltas \in Seq(Seq(Streamed)) /\ Len(deltas) = n
    BY <2>1
  <2>4. Kind(i) # "text" => deltas \in Seq(Seq(NoText))
    BY <2>1
  <2>5. QED
    BY <2>2, <2>3, <2>4, Zenon
<1>2. BeginEvents(i, n) = StartEvent(i) \o FlattenSeq(deltas)
  BY DEF BeginEvents
<1> HIDE DEF deltas
<1>3. CASE Kind(i) = "text"
  <2> DEFINE shown == [k \in 1 .. n |-> [type |-> "text", part |-> <<i, k>>]]
  <2>1. \A k \in 1 .. n : <<i, k>> \in Fragments
    BY DEF Fragments
  <2>2. \A k \in 1 .. n : [type |-> "text", part |-> <<i, k>>] \in Streamed
    BY <2>1, EventKinds DEF Streamed
  <2>3. /\ \A k \in 1 .. n : shown[k] = [type |-> "text", part |-> <<i, k>>]
        /\ shown \in Seq(Streamed) /\ Len(shown) = n
    BY <2>2
  <2>4. \A k \in 1 .. n : shown[k].type = "text" /\ shown[k].part = <<i, k>>
    BY <2>3
  <2>5. ASSUME NEW k \in 1 .. n PROVE deltas[k] = <<shown[k]>>
    <3>1. k \in Nat /\ TRUE \in BOOLEAN
      OBVIOUS
    <3>2. Delta(i, k, TRUE) = <<[type |-> "text", part |-> <<i, k>>]>>
      BY <1>3, <3>1, DeltaShape, Zenon
    <3> HIDE DEF shown
    <3>3. QED
      BY <1>1, <2>3, <3>2, Zenon
  <2> HIDE DEF shown
  <2>6. FlattenSeq(deltas) = shown
    BY <1>1, <2>3, <2>5, FlattenUnits
  <2>7. BeginEvents(i, n) = shown
    BY <1>2, <1>3, <2>3, <2>6 DEF StartEvent
  <2>8. shown \in Seq(Event) /\ \A m \in DOMAIN shown : shown[m] \in Streamed
    BY <2>3 DEF Streamed
  <2>9. Texts(shown) = Frags(i, n)
    <3>1. /\ TextUnits(shown) \in Seq(Seq(Fragments)) /\ Len(TextUnits(shown)) = n
          /\ \A k \in 1 .. n : TextUnits(shown)[k] = <<<<i, k>>>>
      BY <2>3, <2>4, <2>8, UnitsType
    <3>2. /\ Frags(i, n) \in Seq(Fragments) /\ Len(Frags(i, n)) = n
          /\ \A k \in 1 .. n : Frags(i, n)[k] = <<i, k>>
      BY FragsType DEF Frags
    <3>3. FlattenSeq(TextUnits(shown)) = Frags(i, n)
      BY <3>1, <3>2, FlattenUnits
    <3>4. QED
      BY <3>3, ShownByUnits
  <2>10. QED
    BY <1>3, <2>7, <2>8, <2>9
<1>4. CASE Kind(i) # "text"
  <2>1. FlattenSeq(deltas) \in Seq(NoText)
    BY <1>1, <1>4, FlattenType
  <2>2. StartEvent(i) \in Seq(NoText)
    <3>1. [type |-> "start", id |-> Id(i)] \in NoText
      BY EventKinds DEF Ids, Streamed, NoText
    <3>2. /\ <<[type |-> "start", id |-> Id(i)]>> \in Seq(NoText)
          /\ <<>> \in Seq(NoText)
      BY <3>1
    <3>3. QED
      BY <3>2, Zenon DEF StartEvent
  <2>3. BeginEvents(i, n) \in Seq(NoText)
    BY <1>2, <2>1, <2>2
  <2>4. \A m \in DOMAIN BeginEvents(i, n) : BeginEvents(i, n)[m] \in NoText
    BY <2>3
  <2>5. \A x \in NoText : x \in Streamed /\ x \in Event /\ x.type # "text"
    BY DEF NoText, Streamed
  <2>6. BeginEvents(i, n) \in Seq(Event)
    BY <2>3, <2>5
  <2>7. Texts(BeginEvents(i, n)) = <<>>
    BY <2>4, <2>5, <2>6, NoTextShown
  <2>8. Kind(i) = "tool" => Announces(BeginEvents(i, n), Id(i))
    <3> SUFFICES ASSUME Kind(i) = "tool" PROVE Announces(BeginEvents(i, n), Id(i))
      OBVIOUS
    <3> DEFINE e == [type |-> "start", id |-> Id(i)]
    <3>1. StartEvent(i) = <<e>>
      BY DEF StartEvent
    <3>2. e.type = "start" /\ e.id = Id(i)
      OBVIOUS
    <3> HIDE DEF e
    <3>3. 1 \in DOMAIN BeginEvents(i, n) /\ BeginEvents(i, n)[1] = e
      BY <1>2, <2>1, <3>1
    <3>4. QED
      BY <3>2, <3>3 DEF Announces
  <2>9. QED
    BY <1>4, <2>4, <2>5, <2>6, <2>7, <2>8
<1>5. QED
  BY <1>3, <1>4

\* A fragment continues a block that was begun.
LEMMA PartEffect ==
  ASSUME TypeOK, ParserInv, NEW i \in Blocks, Part(i)
  PROVE  /\ thread = "reading" /\ i \in DOMAIN sent /\ ~Sent(i)
         /\ sent[i] + 1 \in 1 .. msg.blocks[i].parts
         /\ sent' = [sent EXCEPT ![i] = sent[i] + 1]
         /\ buffer' = [buffer EXCEPT ![i] = Frags(i, sent[i] + 1)]
         /\ queue' = queue \o Delta(i, sent[i] + 1, FALSE)
         /\ UNCHANGED <<msg, order, thread, ending, consumer, got>>
<1>1. /\ thread = "reading" /\ i \in DOMAIN sent /\ ~Sent(i)
      /\ sent' = [sent EXCEPT ![i] = sent[i] + 1]
      /\ buffer' = [buffer EXCEPT ![i] = buffer[i] \o <<<<i, sent[i] + 1>>>>]
      /\ queue' = queue \o Delta(i, sent[i] + 1, FALSE)
      /\ UNCHANGED <<msg, order, thread, ending, consumer, got>>
  BY DEF Part, Key, Collected, Put
<1>2. sent[i] \in Nat /\ msg.blocks[i].parts \in Nat /\ sent[i] <= msg.blocks[i].parts
  BY <1>1, BlockShape DEF TypeOK, ParserInv
<1>3. sent[i] + 1 \in 1 .. msg.blocks[i].parts
  BY <1>1, <1>2 DEF Sent
<1>4. buffer[i] \o <<<<i, sent[i] + 1>>>> = Frags(i, sent[i] + 1)
  <2>1. buffer[i] = Frags(i, sent[i])
    BY <1>1 DEF ParserInv, Count
  <2>2. QED
    BY <1>2, <2>1, FragsGrow
<1>5. QED
  BY <1>1, <1>3, <1>4

LEMMA PartShows ==
  ASSUME msg \in Messages, NEW i \in Blocks, NEW k \in Nat
  PROVE  /\ Delta(i, k, FALSE) \in Seq(Event)
         /\ \A m \in DOMAIN Delta(i, k, FALSE) : Delta(i, k, FALSE)[m] \in Streamed
         /\ Texts(Delta(i, k, FALSE)) = IF Kind(i) = "text" THEN <<<<i, k>>>> ELSE <<>>
<1> DEFINE d == Delta(i, k, FALSE)
<1>1. /\ d \in Seq(Streamed)
      /\ Kind(i) = "text" => d = <<[type |-> "text", part |-> <<i, k>>]>>
      /\ Kind(i) # "text" => d \in Seq(NoText)
  BY DeltaShape
<1> HIDE DEF d
<1>2. d \in Seq(Event) /\ \A m \in DOMAIN d : d[m] \in Streamed
  BY <1>1 DEF Streamed
<1>3. CASE Kind(i) = "text"
  <2> DEFINE e == [type |-> "text", part |-> <<i, k>>]
  <2>1. d = <<e>> /\ e.type = "text" /\ e.part = <<i, k>> /\ <<i, k>> \in Fragments
    BY <1>1, <1>3 DEF Fragments
  <2> HIDE DEF e
  <2>2. /\ TextUnits(d) \in Seq(Seq(Fragments)) /\ Len(TextUnits(d)) = 1
        /\ TextUnits(d)[1] = <<<<i, k>>>>
    <3>1. Len(d) = 1 /\ 1 \in 1 .. Len(d) /\ d[1] = e
      BY <2>1
    <3>2. /\ TextUnits(d) \in Seq(Seq(Fragments)) /\ Len(TextUnits(d)) = Len(d)
          /\ TextUnits(d)[1] = IF d[1].type = "text" THEN <<d[1].part>> ELSE <<>>
      BY <1>2, <3>1, UnitsType
    <3>3. QED
      BY <2>1, <3>1, <3>2
  <2>3. <<<<i, k>>>> \in Seq(Fragments) /\ TextUnits(d) = <<<<<<i, k>>>>>>
    BY <2>1, <2>2
  <2>4. FlattenSeq(<<<<<<i, k>>>>>>) = <<<<i, k>>>>
    BY <2>3, FlattenOne
  <2>5. Texts(d) = <<<<i, k>>>>
    BY <2>3, <2>4, ShownByUnits
  <2>6. QED
    BY <1>2, <1>3, <2>5 DEF d
<1>4. CASE Kind(i) # "text"
  <2>1. \A m \in 1 .. Len(d) : d[m].type # "text"
    BY <1>1, <1>4 DEF NoText
  <2>2. Texts(d) = <<>>
    BY <1>2, <2>1, NoTextShown
  <2>3. QED
    BY <1>2, <1>4, <2>2 DEF d
<1>5. QED
  BY <1>3, <1>4
-----------------------------------------------------------------------------
(* The answer.                                                             *)

TextsMet == [n \in 1 .. Len(order) |-> TextOf(order[n])]
CallsMet == [n \in 1 .. Len(order) |-> CallsOf(order[n])]

LEMMA CallTyped ==
  ASSUME TypeOK, NEW i \in Blocks
  PROVE  /\ TextOf(i) \in Seq(Fragments)
         /\ Call(i) \in CallType /\ Call(i).id = Id(i)
         /\ Call(i).args = IF Parses(i) THEN buffer[i] ELSE <<>>
<1>1. buffer[i] \in Seq(Fragments) /\ msg.blocks[i].name \in STRING /\ Id(i) \in Ids
  BY BlockShape DEF TypeOK, Ids
<1> DEFINE args == IF Parses(i) THEN buffer[i] ELSE <<>>
<1>2. args \in Seq(Fragments)
  BY <1>1
<1>3. Call(i) = [id |-> Id(i), name |-> msg.blocks[i].name, args |-> args]
  BY DEF Call, Key
<1> HIDE DEF args
<1>4. Call(i) \in CallType /\ Call(i).id = Id(i) /\ Call(i).args = args
  BY <1>1, <1>2, <1>3 DEF CallType
<1>5. TextOf(i) \in Seq(Fragments)
  BY <1>1 DEF TextOf, Key
<1>6. QED
  BY <1>4, <1>5 DEF args

LEMMA MetTyped ==
  ASSUME TypeOK
  PROVE  /\ TextsMet \in Seq(Seq(Fragments)) /\ CallsMet \in Seq(Seq(CallType))
         /\ Len(TextsMet) = Len(order) /\ Len(CallsMet) = Len(order)
<1>1. Len(order) \in Nat /\ \A n \in 1 .. Len(order) : order[n] \in Blocks
  BY DEF TypeOK
<1>2. \A i \in Blocks : TextOf(i) \in Seq(Fragments)
  BY CallTyped
<1>3. ASSUME NEW i \in Blocks PROVE CallsOf(i) \in Seq(CallType)
  <2>1. <<Call(i)>> \in Seq(CallType) /\ <<>> \in Seq(CallType)
    BY CallTyped
  <2>2. QED
    BY <2>1, Zenon DEF CallsOf
<1>4. \A n \in 1 .. Len(order) : TextOf(order[n]) \in Seq(Fragments)
  BY <1>1, <1>2
<1>5. \A n \in 1 .. Len(order) : CallsOf(order[n]) \in Seq(CallType)
  BY <1>1, <1>3
<1>6. TextsMet \in Seq(Seq(Fragments)) /\ Len(TextsMet) = Len(order)
  BY <1>1, <1>4 DEF TextsMet
<1>7. CallsMet \in Seq(Seq(CallType)) /\ Len(CallsMet) = Len(order)
  BY <1>1, <1>5 DEF CallsMet
<1>8. QED
  BY <1>6, <1>7

LEMMA AnswerByUnits ==
  Answer = [text |-> FlattenSeq(TextsMet), calls |-> FlattenSeq(CallsMet)]
BY DEF Answer, TextsMet, CallsMet

LEMMA AnswerTyped ==
  ASSUME TypeOK
  PROVE  /\ Answer \in AnswerType
         /\ Answer.text = FlattenSeq(TextsMet) /\ Answer.calls = FlattenSeq(CallsMet)
         /\ Answer.text \in Seq(Fragments) /\ Answer.calls \in Seq(CallType)
<1>1. FlattenSeq(TextsMet) \in Seq(Fragments) /\ FlattenSeq(CallsMet) \in Seq(CallType)
  BY MetTyped, FlattenType
<1>2. QED
  BY <1>1, AnswerByUnits DEF AnswerType

\* The text of the answer, by what was sent of each block.
Pieces(m, s, l) ==
    [n \in 1 .. l |-> IF m.blocks[n].kind = "text" THEN Frags(n, s[n]) ELSE <<>>]

LEMMA AnswerText ==
  TypeOK /\ ParserInv => Answer.text = FlattenSeq(Pieces(msg, sent, Len(order)))
<1> SUFFICES ASSUME TypeOK, ParserInv
             PROVE  Answer.text = FlattenSeq(Pieces(msg, sent, Len(order)))
  OBVIOUS
<1>1. ASSUME NEW n \in 1 .. Len(order)
      PROVE  TextOf(order[n]) = IF msg.blocks[n].kind = "text" THEN Frags(n, sent[n]) ELSE <<>>
  <2>1. order[n] = n /\ n \in Blocks /\ n \in DOMAIN sent
    BY BegunIsUpTo DEF ParserInv
  <2>2. buffer[n] = Frags(n, sent[n])
    BY <2>1 DEF ParserInv, Count
  <2>3. QED
    BY <2>1, <2>2 DEF TextOf, Key, Kind
<1>2. TextsMet = Pieces(msg, sent, Len(order))
  BY <1>1 DEF TextsMet, Pieces
<1>3. QED
  BY <1>2, AnswerTyped

LEMMA PiecesType ==
  ASSUME msg \in Messages, NEW l \in Nat, 1 .. l \subseteq Blocks, NEW s \in [1 .. l -> Nat]
  PROVE  /\ Pieces(msg, s, l) \in Seq(Seq(Fragments)) /\ Len(Pieces(msg, s, l)) = l
         /\ \A n \in 1 .. l : Pieces(msg, s, l)[n] =
              IF Kind(n) = "text" THEN Frags(n, s[n]) ELSE <<>>
<1>1. ASSUME NEW n \in 1 .. l
      PROVE  (IF Kind(n) = "text" THEN Frags(n, s[n]) ELSE <<>>) \in Seq(Fragments)
  <2>1. n \in Blocks /\ s[n] \in Nat
    OBVIOUS
  <2>2. QED
    BY <2>1, FragsType
<1>2. Pieces(msg, s, l) = [n \in 1 .. l |-> IF Kind(n) = "text" THEN Frags(n, s[n]) ELSE <<>>]
  BY DEF Pieces, Kind
<1>3. QED
  BY <1>1, <1>2

LEMMA OneMore ==
  ASSUME NEW S, NEW p \in Seq(S), NEW q \in Seq(S), Len(q) = Len(p) + 1,
         \A j \in 1 .. Len(p) : q[j] = p[j]
  PROVE  q = p \o <<q[Len(q)]>>
OBVIOUS

\* A block that begins adds its text at the end of the answer.
LEMMA PiecesBegin ==
  ASSUME msg \in Messages, NEW l \in Nat, 1 .. l + 1 \subseteq Blocks,
         NEW s \in [1 .. l -> Nat], NEW n \in Nat, NEW t,
         t = [j \in 1 .. l + 1 |-> IF j = l + 1 THEN n ELSE s[j]]
  PROVE  FlattenSeq(Pieces(msg, t, l + 1)) =
           FlattenSeq(Pieces(msg, s, l))
             \o (IF Kind(l + 1) = "text" THEN Frags(l + 1, n) ELSE <<>>)
<1> DEFINE new == IF Kind(l + 1) = "text" THEN Frags(l + 1, n) ELSE <<>>
<1>1. t \in [1 .. l + 1 -> Nat] /\ t[l + 1] = n /\ \A j \in 1 .. l : t[j] = s[j]
  OBVIOUS
<1>2. l + 1 \in Nat /\ l + 1 \in Blocks /\ 1 .. l \subseteq Blocks
  OBVIOUS
<1>3. new \in Seq(Fragments)
  BY <1>2, FragsType
<1> DEFINE P == Pieces(msg, s, l)
           Q == Pieces(msg, t, l + 1)
<1>4. /\ P \in Seq(Seq(Fragments)) /\ Len(P) = l
      /\ \A j \in 1 .. l : P[j] = IF Kind(j) = "text" THEN Frags(j, s[j]) ELSE <<>>
  BY <1>2, PiecesType
<1>5. /\ Q \in Seq(Seq(Fragments)) /\ Len(Q) = l + 1
      /\ \A j \in 1 .. l + 1 : Q[j] = IF Kind(j) = "text" THEN Frags(j, t[j]) ELSE <<>>
  BY <1>1, <1>2, PiecesType
<1> HIDE DEF P, Q
<1>6. ASSUME NEW j \in 1 .. l PROVE Q[j] = P[j]
  <2>1. j \in 1 .. l + 1 /\ t[j] = s[j]
    BY <1>1
  <2>2. QED
    BY <1>4, <1>5, <2>1
<1>7. Q[l + 1] = new
  <2>1. PICK k \in 1 .. l + 1 : k = l + 1
    OBVIOUS
  <2>2. Q[k] = IF Kind(k) = "text" THEN Frags(k, t[k]) ELSE <<>>
    BY <1>5
  <2>3. QED
    BY <1>1, <2>1, <2>2, Zenon
<1> HIDE DEF new
<1>8. Q = P \o <<new>>
  <2>1. Len(Q) = Len(P) + 1 /\ \A j \in 1 .. Len(P) : Q[j] = P[j]
    BY <1>4, <1>5, <1>6
  <2>2. Q = P \o <<Q[Len(Q)]>>
    BY <1>4, <1>5, <2>1, OneMore
  <2>3. QED
    BY <1>5, <1>7, <2>2
<1>9. <<new>> \in Seq(Seq(Fragments)) /\ FlattenSeq(<<new>>) = new
  BY <1>3, FlattenOne
<1>10. FlattenSeq(P \o <<new>>) = FlattenSeq(P) \o new
  BY <1>4, <1>9, FlattenConcat
<1>11. QED
  BY <1>8, <1>10 DEF new, P, Q

\* So does a fragment of a text, when no later block is a text.
LEMMA PiecesGrow ==
  ASSUME msg \in Messages, NEW l \in Nat, 1 .. l \subseteq Blocks,
         NEW s \in [1 .. l -> Nat], NEW i \in 1 .. l, NEW t,
         t = [s EXCEPT ![i] = s[i] + 1],
         Kind(i) = "text", \A j \in 1 .. l : j > i => Kind(j) # "text"
  PROVE  FlattenSeq(Pieces(msg, t, l)) =
           FlattenSeq(Pieces(msg, s, l)) \o <<<<i, s[i] + 1>>>>
<1>1. t \in [1 .. l -> Nat] /\ t[i] = s[i] + 1 /\ \A j \in 1 .. l : j # i => t[j] = s[j]
  OBVIOUS
<1>2. i \in Blocks /\ s[i] \in Nat /\ <<i, s[i] + 1>> \in Fragments
  BY DEF Fragments
<1>3. /\ Pieces(msg, s, l) \in Seq(Seq(Fragments)) /\ Len(Pieces(msg, s, l)) = l
      /\ \A j \in 1 .. l : Pieces(msg, s, l)[j] =
           IF Kind(j) = "text" THEN Frags(j, s[j]) ELSE <<>>
  BY PiecesType
<1>4. /\ Pieces(msg, t, l) \in Seq(Seq(Fragments)) /\ Len(Pieces(msg, t, l)) = l
      /\ \A j \in 1 .. l : Pieces(msg, t, l)[j] =
           IF Kind(j) = "text" THEN Frags(j, t[j]) ELSE <<>>
  BY <1>1, PiecesType
<1>5. Frags(i, t[i]) = Frags(i, s[i]) \o <<<<i, s[i] + 1>>>>
  BY <1>1, <1>2, FragsGrow
<1>6. Grown(Pieces(msg, s, l), Pieces(msg, t, l), i, <<<<i, s[i] + 1>>>>)
  <2> SUFFICES ASSUME NEW j \in 1 .. l
               PROVE  /\ j = i => Pieces(msg, t, l)[j] =
                                     Pieces(msg, s, l)[j] \o <<<<i, s[i] + 1>>>>
                      /\ j # i => Pieces(msg, t, l)[j] = Pieces(msg, s, l)[j]
                      /\ j > i => Pieces(msg, s, l)[j] = <<>>
    BY <1>3, <1>4, Zenon DEF Grown
  <2>1. CASE j = i
    BY <1>3, <1>4, <1>5, <2>1
  <2>2. CASE j # i
    <3>1. t[j] = s[j]
      BY <1>1, <2>2
    <3>2. j > i => Kind(j) # "text"
      OBVIOUS
    <3>3. QED
      BY <1>3, <1>4, <2>2, <3>1, <3>2
  <2>3. QED
    BY <2>1, <2>2
<1>7. <<<<i, s[i] + 1>>>> \in Seq(Fragments)
  BY <1>2
<1>8. QED
  BY <1>3, <1>4, <1>6, <1>7, FlattenGrow

LEMMA AnswerSame ==
  ASSUME UNCHANGED <<msg, order, buffer>>
  PROVE  Answer' = Answer /\ Refused' = Refused
BY DEF Answer, TextOf, CallsOf, Call, Refused, Parses, Tools, Blocks, Kind, Key, Id, Full
-----------------------------------------------------------------------------
(* How the stream is closed, and what the harness takes.                   *)

CallEvents == [n \in 1 .. Len(Answer.calls) |->
                  [type |-> "callend", call |-> Answer.calls[n]]]

LEMMA YieldedSame ==
  ASSUME UNCHANGED <<msg, order, buffer, thread, ending>>
  PROVE  /\ Yielded' = Yielded /\ Done' = Done /\ Closing' = Closing
         /\ Yielded \in BOOLEAN /\ Yielded' \in BOOLEAN
<1>1. Answer' = Answer /\ Refused' = Refused
  BY AnswerSame
<1>2. Yielded' = Yielded
  BY <1>1 DEF Yielded
<1>3. Done' = Done
  BY <1>1 DEF Done
<1>4. Yielded \in BOOLEAN
  BY DEF Yielded
<1>5. QED
  BY <1>2, <1>3, <1>4 DEF Closing

LEMMA CloseEffect ==
  ASSUME Finish \/ Cut \/ Fail
  PROVE  /\ thread = "reading" /\ thread' = "ended"
         /\ ending' \in {"whole", "cut", "failed"}
         /\ ending' = "whole" => \A i \in Blocks : Sent(i)
         /\ UNCHANGED <<msg, parser, consumer, got>>
         /\ queue' = queue \o (IF Yielded' THEN CallEvents \o <<Done, End>> ELSE Failure)
<1>1. UNCHANGED <<msg, order, buffer>> => Refused' = Refused
  BY AnswerSame
<1>2. CASE Fail
  <2>1. /\ thread = "reading" /\ thread' = "ended" /\ ending' = "failed"
        /\ UNCHANGED <<msg, parser, consumer, got>> /\ queue' = queue \o Failure
    BY <1>2 DEF Fail, Put
  <2>2. ~Yielded'
    BY <2>1 DEF Yielded
  <2>3. QED
    BY <2>1, <2>2
<1>3. CASE Finish \/ Cut
  <2>1. /\ thread = "reading" /\ ending' \in {"whole", "cut"}
        /\ ending' = "whole" => \A i \in Blocks : Sent(i)
        /\ Assemble /\ UNCHANGED <<msg, parser, consumer, got>>
    BY <1>3 DEF Finish, Cut
  <2>2. thread' = "ended" /\ queue' = queue \o (IF Refused THEN Failure
                                                 ELSE CallEvents \o <<Done, End>>)
    BY <2>1 DEF Assemble, Put, CallEvents, Done, End
  <2>3. Yielded' <=> ~Refused
    BY <1>1, <2>1, <2>2 DEF Yielded, parser
  <2>4. QED
    BY <2>1, <2>2, <2>3
<1>4. QED
  BY <1>2, <1>3

LEMMA FailureShape ==
  /\ Failure = <<>> \o <<[type |-> "error"], End>> /\ Failure \in Seq(Event)
  /\ Len(Failure) = 2 /\ Failure[1].type = "error" /\ Failure[2].type = "end"
<1>1. Failure = <<[type |-> "error"], End>>
  BY DEF Failure, End
<1>2. [type |-> "error"] \in Event /\ End \in Event
  BY EventKinds DEF End
<1>3. End.type = "end"
  BY DEF End
<1>4. Failure \in Seq(Event) /\ Failure = <<>> \o <<[type |-> "error"], End>>
  BY <1>1, <1>2
<1>5. QED
  BY <1>1, <1>3, <1>4

LEMMA AnswerEvents ==
  ASSUME TypeOK
  PROVE  /\ CallEvents \in Seq(Event) /\ Open(CallEvents)
         /\ Done \in Event /\ End \in Event
         /\ Texts(CallEvents \o <<Done, End>>) = <<>>
         /\ Ended(CallEvents \o <<Done, End>>) = Answer.calls
<1> DEFINE calls == Answer.calls
<1>1. calls \in Seq(CallType) /\ Answer \in AnswerType
  BY AnswerTyped
<1>2. Done \in Event /\ End \in Event /\ Done.type = "done" /\ End.type = "end"
  BY <1>1, EventKinds DEF Done, End
<1>3. CallEvents = [n \in 1 .. Len(calls) |-> [type |-> "callend", call |-> calls[n]]]
  BY DEF CallEvents
<1> HIDE DEF calls
<1>4. \A n \in 1 .. Len(calls) : [type |-> "callend", call |-> calls[n]] \in Event
  <2> SUFFICES ASSUME NEW n \in 1 .. Len(calls)
               PROVE  [type |-> "callend", call |-> calls[n]] \in Event
    OBVIOUS
  <2>1. calls[n] \in CallType
    BY <1>1
  <2>2. QED
    BY <2>1, EventKinds
<1>5. /\ CallEvents \in Seq(Event) /\ Len(CallEvents) = Len(calls)
      /\ \A n \in 1 .. Len(calls) :
           CallEvents[n].type = "callend" /\ CallEvents[n].call = calls[n]
  <2>1. Len(calls) \in Nat
    BY <1>1
  <2>2. CallEvents \in Seq(Event) /\ Len(CallEvents) = Len(calls)
    BY <1>3, <1>4, <2>1
  <2>3. ASSUME NEW n \in 1 .. Len(calls)
        PROVE  CallEvents[n].type = "callend" /\ CallEvents[n].call = calls[n]
    <3>1. CallEvents[n] = [type |-> "callend", call |-> calls[n]]
      BY <1>3
    <3>2. QED
      BY <3>1
  <2>4. QED
    BY <2>2, <2>3, Zenon
<1>6. Open(CallEvents)
  BY <1>5 DEF Open, Terminal
<1>7. <<Done, End>> \in Seq(Event) /\ Len(<<Done, End>>) = 2
      /\ \A n \in 1 .. 2 : <<Done, End>>[n].type \in {"done", "end"}
  BY <1>2
<1>8. Texts(CallEvents) = <<>> /\ Texts(<<Done, End>>) = <<>> /\ Ended(<<Done, End>>) = <<>>
  BY <1>5, <1>7, NoTextShown, NoCallShown
<1>9. Ended(CallEvents) = calls
  <2>1. /\ CallUnits(CallEvents) \in Seq(Seq(CallType))
        /\ Len(CallUnits(CallEvents)) = Len(calls)
        /\ \A n \in 1 .. Len(calls) : CallUnits(CallEvents)[n] = <<calls[n]>>
    BY <1>5, UnitsType
  <2>2. QED
    BY <1>1, <2>1, FlattenUnits, ShownByUnits
<1>10. /\ Texts(CallEvents \o <<Done, End>>) = <<>> \o <<>>
       /\ Ended(CallEvents \o <<Done, End>>) = calls \o <<>>
  BY <1>5, <1>7, <1>8, <1>9, ShownJoin
<1>11. <<>> \o <<>> = <<>> /\ calls \o <<>> = calls
  BY <1>1
<1>12. QED
  BY <1>2, <1>5, <1>6, <1>10, <1>11 DEF calls

LEMMA ClosesOn ==
  ASSUME NEW q \in Seq(Event), Open(q), NEW b \in Seq(Event), Open(b), NEW c \in Event
  PROVE  Closes(q \o (b \o <<c, End>>), c)
<1> DEFINE r == q \o (b \o <<c, End>>)
<1>1. Len(q) \in Nat /\ Len(b) \in Nat /\ End \in Event
  BY EventKinds DEF End
<1>2. /\ Len(r) = Len(q) + Len(b) + 2
      /\ r[Len(q) + Len(b) + 2] = End /\ r[Len(q) + Len(b) + 1] = c
  BY <1>1
<1>3. ASSUME NEW n \in 1 .. Len(q) + Len(b) PROVE ~Terminal(r[n])
  <2>1. CASE n <= Len(q)
    <3>1. r[n] = q[n] /\ n \in DOMAIN q
      BY <1>1, <2>1
    <3>2. QED
      BY <3>1 DEF Open
  <2>2. CASE n > Len(q)
    <3>1. r[n] = b[n - Len(q)] /\ n - Len(q) \in DOMAIN b
      BY <1>1, <2>2
    <3>2. QED
      BY <3>1 DEF Open
  <2>3. QED
    BY <1>1, <2>1, <2>2
<1> HIDE DEF r
<1>4. Closes(r, c)
  BY <1>1, <1>2, <1>3 DEF Closes
<1>5. QED
  BY <1>4 DEF r

LEMMA UnitSeq ==
  ASSUME NEW S, NEW s \in Seq(S), Len(s) = 1 PROVE s = <<s[1]>>
OBVIOUS

\* What the harness takes, and what is left.
LEMMA TakeEffect ==
  ASSUME TypeOK, QueueInv, Take
  PROVE  /\ consumer = "reading" /\ queue # <<>> /\ queue' = Tail(queue)
         /\ UNCHANGED <<msg, parser, thread, ending>>
         /\ \/ /\ consumer' = "reading" /\ got' = Append(got, Head(queue))
               /\ ~Terminal(Head(queue))
               /\ IF thread = "reading" THEN Open(Tail(queue)) ELSE Closes(Tail(queue), Closing)
            \/ /\ consumer' = "answered" /\ got' = Append(got, Head(queue))
               /\ Yielded /\ Head(queue) = Done /\ Tail(queue) = <<End>>
            \/ consumer' = "raised" /\ got' = got /\ thread = "ended" /\ ~Yielded
<1>1. /\ consumer = "reading" /\ queue # <<>> /\ queue' = Tail(queue)
      /\ UNCHANGED <<msg, parser, thread, ending>>
      /\ consumer' = CASE Head(queue).type = "done"  -> "answered"
                       [] Head(queue).type = "error" -> "raised"
                       [] Head(queue).type = "end"   -> "silent"
                       [] OTHER                      -> "reading"
      /\ got' = IF Head(queue).type \in {"error", "end"} THEN got
                ELSE Append(got, Head(queue))
  BY DEF Take
<1>2. /\ queue \in Seq(Event) /\ thread \in {"reading", "ended"}
      /\ Len(queue) \in Nat /\ Len(queue) >= 1 /\ Head(queue) = queue[1]
      /\ Tail(queue) \in Seq(Event) /\ Len(Tail(queue)) = Len(queue) - 1
      /\ \A n \in 1 .. Len(queue) - 1 : Tail(queue)[n] = queue[n + 1]
  BY <1>1 DEF TypeOK
<1>3. IF thread = "reading" THEN Open(queue) ELSE Closes(queue, Closing)
  BY <1>1, Zenon DEF QueueInv
<1>4. ASSUME ~Terminal(Head(queue))
      PROVE  consumer' = "reading" /\ got' = Append(got, Head(queue))
  BY <1>1, <1>4 DEF Terminal
<1>5. CASE thread = "reading"
  <2>1. \A n \in 1 .. Len(queue) : ~Terminal(queue[n])
    BY <1>2, <1>3, <1>5 DEF Open
  <2>2. ~Terminal(Head(queue))
    BY <1>2, <2>1
  <2>3. Open(Tail(queue))
    <3>1. ASSUME NEW n \in DOMAIN Tail(queue) PROVE ~Terminal(Tail(queue)[n])
      <4>1. n \in 1 .. Len(queue) - 1
        BY <1>2
      <4>2. n + 1 \in 1 .. Len(queue)
        BY <1>2, <4>1
      <4>3. QED
        BY <1>2, <2>1, <4>1, <4>2
    <3>2. QED
      BY <3>1 DEF Open
  <2>4. QED
    BY <1>1, <1>4, <1>5, <2>2, <2>3
<1>6. CASE thread = "ended"
  <2>1. /\ Len(queue) >= 2
        /\ queue[Len(queue)] = End /\ queue[Len(queue) - 1] = Closing
        /\ \A n \in 1 .. Len(queue) - 2 : ~Terminal(queue[n])
    BY <1>3, <1>6 DEF Closes
  <2>2. CASE Len(queue) > 2
    <3>1. ~Terminal(Head(queue))
      BY <1>2, <2>1, <2>2
    <3>2. Closes(Tail(queue), Closing)
      <4>1. ASSUME NEW n \in 1 .. Len(Tail(queue)) - 2 PROVE ~Terminal(Tail(queue)[n])
        <5>1. n \in 1 .. Len(queue) - 1 /\ n + 1 \in 1 .. Len(queue) - 2
          BY <1>2
        <5>2. QED
          BY <1>2, <2>1, <5>1
      <4>2. Tail(queue)[Len(queue) - 1] = End /\ Tail(queue)[Len(queue) - 2] = Closing
        <5>1. /\ Len(queue) - 1 \in 1 .. Len(queue) - 1 /\ Len(queue) - 1 + 1 = Len(queue)
              /\ Len(queue) - 2 \in 1 .. Len(queue) - 1
              /\ Len(queue) - 2 + 1 = Len(queue) - 1
          BY <1>2, <2>2
        <5>2. /\ Tail(queue)[Len(queue) - 1] = queue[Len(queue) - 1 + 1]
              /\ Tail(queue)[Len(queue) - 2] = queue[Len(queue) - 2 + 1]
          BY <1>2, <5>1, Zenon
        <5>3. QED
          BY <2>1, <5>1, <5>2, Zenon
      <4>3. /\ Len(Tail(queue)) >= 2 /\ Len(Tail(queue)) = Len(queue) - 1
            /\ Len(Tail(queue)) - 1 = Len(queue) - 2
        BY <1>2, <2>2
      <4>4. QED
        BY <4>1, <4>2, <4>3 DEF Closes
    <3>3. thread # "reading"
      BY <1>6
    <3>4. QED
      BY <1>1, <1>4, <3>1, <3>2, <3>3
  <2>3. CASE Len(queue) = 2
    <3>1. Head(queue) = Closing /\ Tail(queue) = <<End>>
      <4>1. Head(queue) = Closing /\ queue[2] = End
        BY <1>2, <2>1, <2>3
      <4>2. Len(Tail(queue)) = 1 /\ Tail(queue)[1] = End
        BY <1>2, <2>3, <4>1
      <4>3. Tail(queue) = <<Tail(queue)[1]>>
        BY <1>2, <4>2, UnitSeq
      <4>4. QED
        BY <4>1, <4>2, <4>3, Zenon
    <3>2. CASE Yielded
      <4>1. Head(queue) = Done /\ Head(queue).type = "done"
        BY <3>1, <3>2 DEF Closing, Done
      <4>2. consumer' = "answered" /\ got' = Append(got, Head(queue))
        BY <1>1, <4>1
      <4>3. QED
        BY <1>1, <3>1, <3>2, <4>1, <4>2
    <3>3. CASE ~Yielded
      <4>1. Head(queue).type = "error"
        BY <3>1, <3>3 DEF Closing
      <4>2. consumer' = "raised" /\ got' = got
        BY <1>1, <4>1
      <4>3. QED
        BY <1>1, <1>6, <3>3, <4>2
    <3>4. QED
      BY <3>2, <3>3
  <2>4. QED
    BY <1>2, <2>1, <2>2, <2>3
<1>7. QED
  BY <1>2, <1>5, <1>6
-----------------------------------------------------------------------------
(* The invariant is inductive.                                             *)

LEMMA SameTypes ==
  ASSUME msg' = msg
  PROVE  /\ Blocks' = Blocks /\ Fragments' = Fragments /\ Event' = Event
         /\ \A i : Kind(i)' = Kind(i) /\ Id(i)' = Id(i)
<1>1. Blocks' = Blocks /\ Fragments' = Fragments
  BY DEF Blocks, Fragments
<1>2. \A i : Kind(i)' = Kind(i) /\ Id(i)' = Id(i)
  BY DEF Kind, Id
<1>3. Ids' = Ids
  BY <1>1, <1>2 DEF Ids
<1>4. CallType' = CallType
  BY <1>1, <1>3 DEF CallType
<1>5. AnswerType' = AnswerType
  BY <1>1, <1>4 DEF AnswerType
<1>6. Event' = Event
  BY <1>1, <1>3, <1>4, <1>5 DEF Event
<1>7. QED
  BY <1>1, <1>2, <1>6

LEMMA InitInv == Init => Inv
<1> SUFFICES ASSUME Init PROVE Inv
  OBVIOUS
<1>1. /\ msg \in Messages /\ sent = <<>> /\ order = <<>> /\ buffer = [i \in Blocks |-> <<>>]
      /\ thread = "reading" /\ ending = "open" /\ queue = <<>>
      /\ consumer = "reading" /\ got = <<>>
  BY DEF Init
<1>2. DOMAIN sent = {} /\ DOMAIN order = {} /\ Len(order) = 0 /\ <<>> \in Seq(Event)
  BY <1>1
<1>3. TypeOK
  BY <1>1, <1>2 DEF TypeOK
<1>4. ParserInv
  <2>1. \A i \in Blocks : Count(i) = 0 /\ buffer[i] = <<>>
    BY <1>1, <1>2 DEF Count
  <2>2. \A i \in Blocks : buffer[i] = Frags(i, Count(i))
    BY <2>1, FragsNone
  <2>3. sent \in [DOMAIN order -> Nat]
    BY <1>1, <1>2
  <2>4. QED
    BY <1>2, <2>2, <2>3 DEF ParserInv
<1>5. QueueInv
  BY <1>1 DEF QueueInv, Open
<1>6. ShownInv
  <2>1. got \o queue = <<>>
    BY <1>1
  <2>2. Texts(<<>>) = <<>> /\ Ended(<<>>) = <<>>
    <3>1. PICK es \in Seq(Event) : es = <<>>
      BY <1>2
    <3>2. \A n \in 1 .. Len(es) : FALSE
      BY <3>1
    <3>3. Texts(es) = <<>> /\ Ended(es) = <<>>
      BY <3>2, NoTextShown, NoCallShown
    <3>4. QED
      BY <3>1, <3>3
  <2>3. Answer.text = <<>>
    <3>1. TextsMet \in Seq(Seq(Fragments)) /\ Len(TextsMet) = 0
      BY <1>2, <1>3, MetTyped
    <3>2. \A n \in 1 .. Len(TextsMet) : TextsMet[n] = <<>>
      BY <3>1
    <3>3. FlattenSeq(TextsMet) = <<>>
      BY <3>1, <3>2, FlattenEmpties
    <3>4. QED
      BY <1>3, <3>3, AnswerTyped
  <2>4. ~Yielded
    BY <1>1 DEF Yielded
  <2>5. QED
    BY <1>2, <2>1, <2>2, <2>3, <2>4 DEF ShownInv
<1>7. QED
  BY <1>3, <1>4, <1>5, <1>6 DEF Inv

LEMMA TypeOfBegin ==
  ASSUME TypeOK, ParserInv, NEW i \in Blocks, Begin(i) PROVE TypeOK'
<1>1. PICK n \in 0 .. msg.blocks[i].parts :
        /\ thread = "reading" /\ i = Len(order) + 1
        /\ sent' = [j \in 1 .. i |-> IF j = i THEN n ELSE sent[j]]
        /\ order' = Append(order, i)
        /\ buffer' = [buffer EXCEPT ![i] = Frags(i, n)]
        /\ queue' = queue \o BeginEvents(i, n)
        /\ UNCHANGED <<msg, thread, ending, consumer, got>>
  BY BeginEffect
<1>2. Blocks' = Blocks /\ Fragments' = Fragments /\ Event' = Event
  BY <1>1, SameTypes
<1>3. n \in Nat
  BY BlockShape DEF TypeOK
<1>4. DOMAIN sent' \subseteq Blocks /\ \A j \in DOMAIN sent' : sent'[j] \in Nat
  <2>1. DOMAIN sent' = 1 .. i /\ \A j \in 1 .. i : sent'[j] = IF j = i THEN n ELSE sent[j]
    BY <1>1
  <2>2. \A j \in 1 .. i : j = i \/ j \in DOMAIN sent
    BY <1>1, BegunIsUpTo
  <2>3. QED
    BY <1>3, <2>1, <2>2, BegunIsUpTo
<1>5. order' \in Seq(Blocks)
  BY <1>1 DEF TypeOK
<1>6. buffer' \in [Blocks -> Seq(Fragments)]
  <2>1. Frags(i, n) \in Seq(Fragments)
    BY <1>3, FragsType
  <2>2. QED
    BY <1>1, <2>1 DEF TypeOK
<1>7. queue' \in Seq(Event)
  <2>1. BeginEvents(i, n) \in Seq(Event)
    BY <1>3, BeginShows DEF TypeOK
  <2>2. QED
    BY <1>1, <2>1 DEF TypeOK
<1>8. QED
  BY <1>1, <1>2, <1>4, <1>5, <1>6, <1>7 DEF TypeOK

LEMMA TypeOfPart ==
  ASSUME TypeOK, ParserInv, NEW i \in Blocks, Part(i) PROVE TypeOK'
<1>1. /\ i \in DOMAIN sent /\ sent[i] + 1 \in 1 .. msg.blocks[i].parts
      /\ sent' = [sent EXCEPT ![i] = sent[i] + 1]
      /\ buffer' = [buffer EXCEPT ![i] = Frags(i, sent[i] + 1)]
      /\ queue' = queue \o Delta(i, sent[i] + 1, FALSE)
      /\ UNCHANGED <<msg, order, thread, ending, consumer, got>>
  BY PartEffect
<1>2. Blocks' = Blocks /\ Fragments' = Fragments /\ Event' = Event
  BY <1>1, SameTypes
<1>3. sent[i] + 1 \in Nat
  BY <1>1, BlockShape DEF TypeOK
<1>4. DOMAIN sent' \subseteq Blocks /\ \A j \in DOMAIN sent' : sent'[j] \in Nat
  BY <1>1, <1>3 DEF TypeOK
<1>5. buffer' \in [Blocks -> Seq(Fragments)]
  <2>1. Frags(i, sent[i] + 1) \in Seq(Fragments)
    BY <1>3, FragsType
  <2>2. QED
    BY <1>1, <2>1 DEF TypeOK
<1>6. queue' \in Seq(Event)
  <2> DEFINE d == Delta(i, sent[i] + 1, FALSE)
  <2>1. d \in Seq(Event) /\ queue \in Seq(Event) /\ queue' = queue \o d
    BY <1>1, <1>3, PartShows DEF TypeOK
  <2> HIDE DEF d
  <2>2. QED
    BY <2>1
<1>7. QED
  BY <1>1, <1>2, <1>4, <1>5, <1>6 DEF TypeOK

LEMMA TypeOfClose ==
  ASSUME TypeOK, Finish \/ Cut \/ Fail PROVE TypeOK'
<1>1. /\ thread' = "ended" /\ ending' \in {"whole", "cut", "failed"}
      /\ UNCHANGED <<msg, parser, consumer, got>>
      /\ queue' = queue \o (IF Yielded' THEN CallEvents \o <<Done, End>> ELSE Failure)
  BY CloseEffect
<1>2. Blocks' = Blocks /\ Fragments' = Fragments /\ Event' = Event
  BY <1>1, SameTypes
<1>3. CallEvents \o <<Done, End>> \in Seq(Event) /\ Failure \in Seq(Event)
  BY AnswerEvents, FailureShape
<1>4. queue' \in Seq(Event)
  <2>1. queue \in Seq(Event)
    BY DEF TypeOK
  <2>2. CASE Yielded'
    BY <1>1, <1>3, <2>1, <2>2
  <2>3. CASE ~Yielded'
    BY <1>1, <1>3, <2>1, <2>3
  <2>4. QED
    BY <2>2, <2>3
<1>5. QED
  BY <1>1, <1>2, <1>4 DEF TypeOK, parser

LEMMA TypeOfTake ==
  ASSUME TypeOK, QueueInv, Take PROVE TypeOK'
<1>1. /\ queue # <<>> /\ queue' = Tail(queue) /\ UNCHANGED <<msg, parser, thread, ending>>
      /\ consumer' \in {"reading", "answered", "raised"}
      /\ got' = got \/ got' = Append(got, Head(queue))
  BY TakeEffect
<1>2. Blocks' = Blocks /\ Fragments' = Fragments /\ Event' = Event
  BY <1>1, SameTypes
<1>3. queue' \in Seq(Event) /\ got' \in Seq(Event)
  <2>1. queue \in Seq(Event) /\ got \in Seq(Event)
    BY DEF TypeOK
  <2>2. Tail(queue) \in Seq(Event) /\ Append(got, Head(queue)) \in Seq(Event)
    BY <1>1, <2>1, TakeJoin
  <2>3. QED
    BY <1>1, <2>1, <2>2
<1>4. QED
  BY <1>1, <1>2, <1>3 DEF TypeOK, parser

LEMMA ParserOfBegin ==
  ASSUME TypeOK, ParserInv, NEW i \in Blocks, Begin(i) PROVE ParserInv'
<1>1. PICK n \in 0 .. msg.blocks[i].parts :
        /\ i = Len(order) + 1 /\ MayBegin(i)
        /\ sent' = [j \in 1 .. i |-> IF j = i THEN n ELSE sent[j]]
        /\ order' = Append(order, i)
        /\ buffer' = [buffer EXCEPT ![i] = Frags(i, n)]
        /\ msg' = msg
  BY BeginEffect
<1>2. Blocks' = Blocks /\ \A j : Kind(j)' = Kind(j)
  BY <1>1, SameTypes
<1>3. n \in Nat /\ n <= msg.blocks[i].parts /\ msg \in Messages
  BY BlockShape DEF TypeOK
<1>4. /\ Len(order) \in Nat /\ DOMAIN order = 1 .. Len(order) /\ DOMAIN sent = 1 .. Len(order)
      /\ \A j \in DOMAIN sent : j \in Blocks /\ sent[j] \in Nat
  BY BegunIsUpTo
<1>5. /\ DOMAIN sent' = 1 .. i /\ i \in DOMAIN sent' /\ sent'[i] = n
      /\ \A j \in DOMAIN sent : j \in DOMAIN sent' /\ sent'[j] = sent[j] /\ j # i /\ j < i
      /\ \A j \in DOMAIN sent' : j = i \/ j \in DOMAIN sent
  BY <1>1, <1>4
<1>6. DOMAIN order' = 1 .. i /\ \A m \in DOMAIN order' : order'[m] = m
  BY <1>1, <1>4 DEF TypeOK, ParserInv
<1>7. sent' \in [DOMAIN order' -> Nat]
  BY <1>1, <1>3, <1>4, <1>5, <1>6
<1>8. \A j \in DOMAIN sent' : sent'[j] <= msg'.blocks[j].parts
  BY <1>1, <1>3, <1>5 DEF ParserInv
<1>9. \A j \in Blocks' : buffer'[j] = Frags(j, Count(j)')
  <2> SUFFICES ASSUME NEW j \in Blocks PROVE buffer'[j] = Frags(j, Count(j)')
    BY <1>2
  <2>1. CASE j = i
    BY <1>1, <1>5, <2>1 DEF TypeOK, Count
  <2>2. CASE j # i
    <3>1. buffer'[j] = buffer[j]
      BY <1>1, <2>2 DEF TypeOK
    <3>2. Count(j)' = Count(j)
      BY <1>5, <2>2 DEF Count
    <3>3. QED
      BY <3>1, <3>2 DEF ParserInv
  <2>3. QED
    BY <2>1, <2>2
<1>10. ASSUME NEW j \in DOMAIN sent', NEW k \in DOMAIN sent',
              j < k, Kind(j) = "text", Kind(k) = "text"
       PROVE  Sent(j)'
  <2>1. j # i /\ j \in DOMAIN sent /\ j \in Blocks
    BY <1>4, <1>5, <1>10
  <2>2. Sent(j)
    <3>1. CASE k = i
      <4>1. msg.proto # "openai"
        <5> SUFFICES ASSUME msg.proto = "openai" PROVE FALSE
          OBVIOUS
        <5>1. i = 1
          BY <1>3, <1>10, <3>1, ProtocolShape
        <5>2. QED
          BY <1>4, <2>1, <1>10, <3>1, <5>1
      <4>2. QED
        BY <1>1, <1>10, <2>1, <3>1, <4>1 DEF MayBegin
    <3>2. CASE k # i
      BY <1>5, <1>10, <2>1, <3>2 DEF ParserInv
    <3>3. QED
      BY <3>1, <3>2
  <2>3. QED
    BY <1>1, <1>5, <2>1, <2>2 DEF Sent
<1>11. QED
  BY <1>2, <1>6, <1>7, <1>8, <1>9, <1>10 DEF ParserInv

LEMMA ParserOfPart ==
  ASSUME TypeOK, ParserInv, NEW i \in Blocks, Part(i) PROVE ParserInv'
<1>1. /\ i \in DOMAIN sent /\ ~Sent(i)
      /\ sent[i] + 1 \in 1 .. msg.blocks[i].parts
      /\ sent' = [sent EXCEPT ![i] = sent[i] + 1]
      /\ buffer' = [buffer EXCEPT ![i] = Frags(i, sent[i] + 1)]
      /\ msg' = msg /\ order' = order
  BY PartEffect
<1>2. Blocks' = Blocks /\ \A j : Kind(j)' = Kind(j)
  BY <1>1, SameTypes
<1>3. msg.blocks[i].parts \in Nat /\ sent[i] \in Nat
  BY <1>1, BlockShape DEF TypeOK
<1>4. /\ DOMAIN sent' = DOMAIN sent /\ sent'[i] = sent[i] + 1
      /\ \A j \in DOMAIN sent : j # i => sent'[j] = sent[j]
  BY <1>1
<1>5. sent' \in [DOMAIN order' -> Nat]
  BY <1>1, <1>3 DEF ParserInv
<1>6. \A j \in DOMAIN sent' : sent'[j] <= msg'.blocks[j].parts
  BY <1>1, <1>3, <1>4 DEF ParserInv
<1>7. \A j \in Blocks' : buffer'[j] = Frags(j, Count(j)')
  <2> SUFFICES ASSUME NEW j \in Blocks PROVE buffer'[j] = Frags(j, Count(j)')
    BY <1>2
  <2>1. CASE j = i
    BY <1>1, <1>4, <2>1 DEF TypeOK, Count
  <2>2. CASE j # i
    <3>1. buffer'[j] = buffer[j]
      BY <1>1, <2>2 DEF TypeOK
    <3>2. Count(j)' = Count(j)
      BY <1>4, <2>2 DEF Count
    <3>3. QED
      BY <3>1, <3>2 DEF ParserInv
  <2>3. QED
    BY <2>1, <2>2
<1>8. ASSUME NEW j \in DOMAIN sent', NEW k \in DOMAIN sent',
             j < k, Kind(j) = "text", Kind(k) = "text"
      PROVE  Sent(j)'
  <2>1. Sent(j) /\ j \in DOMAIN sent
    BY <1>4, <1>8 DEF ParserInv
  <2>2. j # i
    BY <1>1, <2>1
  <2>3. QED
    BY <1>1, <1>4, <2>1, <2>2 DEF Sent
<1>9. QED
  BY <1>1, <1>2, <1>5, <1>6, <1>7, <1>8 DEF ParserInv

LEMMA ParserSame ==
  ASSUME ParserInv, UNCHANGED <<msg, parser>> PROVE ParserInv'
<1>1. msg' = msg /\ sent' = sent /\ order' = order /\ buffer' = buffer
  BY DEF parser
<1>2. Blocks' = Blocks /\ \A j : Kind(j)' = Kind(j)
  BY <1>1, SameTypes
<1>3. \A i : Count(i)' = Count(i) /\ Sent(i)' = Sent(i)
  BY <1>1 DEF Count, Sent
<1>4. QED
  BY <1>1, <1>2, <1>3 DEF ParserInv

LEMMA QueueOfReads ==
  ASSUME TypeOK, QueueInv, thread = "reading", NEW es \in Seq(Event),
         \A m \in DOMAIN es : es[m] \in Streamed,
         queue' = queue \o es, UNCHANGED <<thread, ending, consumer, got>>
  PROVE  QueueInv'
<1>1. ending = "open" /\ consumer # "answered" /\ consumer # "raised" /\ consumer # "silent"
  BY Zenon DEF QueueInv, Yielded
<1>2. consumer = "reading" => Open(got) /\ Open(queue)
  BY Zenon DEF QueueInv
<1>3. ASSUME Open(queue) PROVE Open(queue')
  <2>1. \A m \in DOMAIN es : ~Terminal(es[m])
    BY DEF Streamed, Terminal
  <2>2. queue \in Seq(Event)
    BY DEF TypeOK
  <2>3. ASSUME NEW n \in DOMAIN queue' PROVE ~Terminal(queue'[n])
    <3>1. CASE n \in DOMAIN queue
      <4>1. queue'[n] = queue[n]
        BY <2>2, <3>1
      <4>2. QED
        BY <1>3, <3>1, <4>1 DEF Open
    <3>2. CASE n \notin DOMAIN queue
      <4>1. n - Len(queue) \in DOMAIN es /\ queue'[n] = es[n - Len(queue)]
        BY <2>2, <3>2
      <4>2. QED
        BY <2>1, <4>1
    <3>3. QED
      BY <3>1, <3>2
  <2>4. QED
    BY <2>3 DEF Open
<1>4. thread' = "reading" /\ ending' = "open" /\ consumer' = consumer /\ got' = got
  BY <1>1
<1>5. consumer' = "reading" => Open(got') /\ Open(queue')
  BY <1>2, <1>3, <1>4
<1>6. QED
  BY <1>1, <1>4, <1>5, Zenon DEF QueueInv

LEMMA QueueOfClose ==
  ASSUME TypeOK, ParserInv, QueueInv, Finish \/ Cut \/ Fail PROVE QueueInv'
<1>1. /\ thread = "reading" /\ thread' = "ended"
      /\ ending' \in {"whole", "cut", "failed"}
      /\ ending' = "whole" => \A i \in Blocks : Sent(i)
      /\ UNCHANGED <<msg, parser, consumer, got>>
      /\ queue' = queue \o (IF Yielded' THEN CallEvents \o <<Done, End>> ELSE Failure)
  BY CloseEffect
<1>2. consumer # "answered" /\ consumer # "raised" /\ consumer # "silent"
  BY <1>1, Zenon DEF QueueInv, Yielded
<1>3. consumer = "reading" => Open(got) /\ Open(queue)
  BY <1>1, Zenon DEF QueueInv
<1>4. Done' = Done
  BY <1>1, AnswerSame DEF Done, parser
<1>5. ASSUME Open(queue) PROVE Closes(queue', Closing')
  <2>1. queue \in Seq(Event)
    BY DEF TypeOK
  <2>2. CASE Yielded'
    <3>1. Closing' = Done
      BY <1>4, <2>2 DEF Closing
    <3>2. CallEvents \in Seq(Event) /\ Open(CallEvents) /\ Done \in Event
      BY AnswerEvents
    <3>3. Closes(queue \o (CallEvents \o <<Done, End>>), Done)
      BY <1>5, <2>1, <3>2, ClosesOn
    <3>4. QED
      BY <1>1, <2>2, <3>1, <3>3
  <2>3. CASE ~Yielded'
    <3> DEFINE err == [type |-> "error"]
    <3>1. Closing' = err
      BY <2>3 DEF Closing
    <3>2. <<>> \in Seq(Event) /\ Open(<<>>) /\ err \in Event /\ Failure = <<>> \o <<err, End>>
      BY EventKinds, FailureShape DEF Open
    <3> HIDE DEF err
    <3>3. Closes(queue \o (<<>> \o <<err, End>>), err)
      BY <1>5, <2>1, <3>2, ClosesOn
    <3>4. QED
      BY <1>1, <2>3, <3>1, <3>2, <3>3
  <2>4. QED
    BY <2>2, <2>3
<1>6. Blocks' = Blocks /\ \A i : Sent(i)' = Sent(i)
  BY <1>1 DEF Blocks, Sent, parser
<1>7. consumer' = "reading" => Open(got') /\ Closes(queue', Closing')
  BY <1>1, <1>3, <1>5
<1>8. /\ consumer' = consumer /\ thread' # "reading" /\ ending' # "open"
      /\ ending' = "whole" => \A i \in Blocks' : Sent(i)'
  BY <1>1, <1>6
<1>9. QED
  BY <1>2, <1>7, <1>8, Zenon DEF QueueInv

LEMMA OpenAppend ==
  ASSUME NEW es \in Seq(Event), Open(es), NEW e, ~Terminal(e) PROVE Open(Append(es, e))
<1>1. ASSUME NEW n \in DOMAIN Append(es, e) PROVE ~Terminal(Append(es, e)[n])
  <2>1. CASE n \in DOMAIN es
    <3>1. Append(es, e)[n] = es[n]
      BY <2>1
    <3>2. QED
      BY <2>1, <3>1 DEF Open
  <2>2. CASE n \notin DOMAIN es
    <3>1. Append(es, e)[n] = e
      BY <2>2
    <3>2. QED
      BY <3>1
  <2>3. QED
    BY <2>1, <2>2
<1>2. QED
  BY <1>1 DEF Open

LEMMA QueueOfTake ==
  ASSUME TypeOK, QueueInv, Take PROVE QueueInv'
<1>1. /\ consumer = "reading" /\ queue # <<>> /\ queue' = Tail(queue)
      /\ UNCHANGED <<msg, parser, thread, ending>>
      /\ \/ /\ consumer' = "reading" /\ got' = Append(got, Head(queue))
            /\ ~Terminal(Head(queue))
            /\ IF thread = "reading" THEN Open(Tail(queue)) ELSE Closes(Tail(queue), Closing)
         \/ /\ consumer' = "answered" /\ got' = Append(got, Head(queue))
            /\ Yielded /\ Head(queue) = Done /\ Tail(queue) = <<End>>
         \/ consumer' = "raised" /\ got' = got /\ thread = "ended" /\ ~Yielded
  BY TakeEffect
<1>2. UNCHANGED <<msg, order, buffer, thread, ending>>
  BY <1>1 DEF parser
<1>3. Yielded' = Yielded /\ Done' = Done /\ Closing' = Closing
  BY <1>2, YieldedSame
<1>4. Blocks' = Blocks /\ \A i : Sent(i)' = Sent(i)
  BY <1>1 DEF Blocks, Sent, parser
<1>5. /\ Open(got) /\ got \in Seq(Event)
      /\ thread = "reading" <=> ending = "open"
      /\ ending = "whole" => \A i \in Blocks : Sent(i)
  BY <1>1, Zenon DEF QueueInv, TypeOK
<1>6. /\ thread' = "reading" <=> ending' = "open"
      /\ ending' = "whole" => \A i \in Blocks' : Sent(i)'
  BY <1>2, <1>4, <1>5
<1>7. CASE /\ consumer' = "reading" /\ got' = Append(got, Head(queue))
           /\ ~Terminal(Head(queue))
           /\ IF thread = "reading" THEN Open(Tail(queue)) ELSE Closes(Tail(queue), Closing)
  <2>1. Open(got')
    BY <1>5, <1>7, OpenAppend
  <2>2. IF thread' = "reading" THEN Open(queue') ELSE Closes(queue', Closing')
    BY <1>1, <1>2, <1>3, <1>7
  <2>3. consumer' = "reading" /\ consumer' # "answered" /\ consumer' # "raised"
        /\ consumer' # "silent"
    BY <1>7
  <2>4. QED
    BY <1>6, <2>1, <2>2, <2>3, Zenon DEF QueueInv
<1>8. CASE /\ consumer' = "answered" /\ got' = Append(got, Head(queue))
           /\ Yielded /\ Head(queue) = Done /\ Tail(queue) = <<End>>
  <2>1. got' # <<>> /\ got'[Len(got')] = Done'
    BY <1>3, <1>5, <1>8
  <2>2. Yielded' /\ queue' = <<End>> /\ End' = End
    BY <1>1, <1>3, <1>8 DEF End
  <2>3. consumer' # "reading" /\ consumer' # "raised" /\ consumer' # "silent"
    BY <1>8
  <2>4. QED
    BY <1>6, <2>1, <2>2, <2>3, Zenon DEF QueueInv
<1>9. CASE consumer' = "raised" /\ got' = got /\ thread = "ended" /\ ~Yielded
  <2>1. thread' = "ended" /\ ~Yielded'
    BY <1>2, <1>3, <1>9
  <2>2. consumer' # "reading" /\ consumer' # "answered" /\ consumer' # "silent"
    BY <1>9
  <2>3. QED
    BY <1>6, <2>1, <2>2, Zenon DEF QueueInv
<1>10. QED
  BY <1>1, <1>7, <1>8, <1>9

LEMMA QueueOfAbandon ==
  ASSUME QueueInv, Abandon PROVE QueueInv'
<1>1. /\ consumer' = "abandoned"
      /\ UNCHANGED <<msg, order, buffer, sent, thread, ending, queue, got>>
  BY DEF Abandon, parser
<1>2. Blocks' = Blocks /\ \A i : Sent(i)' = Sent(i)
  BY <1>1 DEF Blocks, Sent
<1>3. /\ thread' = "reading" <=> ending' = "open"
      /\ ending' = "whole" => \A i \in Blocks' : Sent(i)'
  BY <1>1, <1>2 DEF QueueInv
<1>4. /\ consumer' # "reading" /\ consumer' # "answered" /\ consumer' # "raised"
      /\ consumer' # "silent"
  BY <1>1
<1>5. QED
  BY <1>3, <1>4, Zenon DEF QueueInv

LEMMA QueueSame ==
  ASSUME QueueInv, UNCHANGED vars PROVE QueueInv'
<1>1. UNCHANGED <<msg, order, buffer, sent, thread, ending, queue, consumer, got>>
  BY DEF vars, parser
<1>2. Yielded' = Yielded /\ Done' = Done /\ Closing' = Closing
  BY <1>1, YieldedSame
<1>3. Blocks' = Blocks /\ \A i : Sent(i)' = Sent(i)
  BY <1>1 DEF Blocks, Sent
<1>4. End' = End
  BY DEF End
<1>5. QED
  BY <1>1, <1>2, <1>3, <1>4 DEF QueueInv
-----------------------------------------------------------------------------
LEMMA AnnouncesMore ==
  ASSUME NEW q \in Seq(Event), NEW es \in Seq(Event), NEW id
  PROVE  Announces(q, id) \/ Announces(es, id) => Announces(q \o es, id)
<1>1. ASSUME NEW n \in DOMAIN q, q[n].type = "start", q[n].id = id
      PROVE  Announces(q \o es, id)
  <2>1. n \in DOMAIN (q \o es) /\ (q \o es)[n] = q[n]
    OBVIOUS
  <2>2. QED
    BY <1>1, <2>1 DEF Announces
<1>2. ASSUME NEW n \in DOMAIN es, es[n].type = "start", es[n].id = id
      PROVE  Announces(q \o es, id)
  <2>1. Len(q) + n \in DOMAIN (q \o es) /\ (q \o es)[Len(q) + n] = es[n]
    OBVIOUS
  <2>2. QED
    BY <1>2, <2>1 DEF Announces
<1>3. QED
  BY <1>1, <1>2 DEF Announces


\* The events on their way, when more are put on the queue.
LEMMA ShownGrows ==
  ASSUME TypeOK, NEW es \in Seq(Event), queue' = queue \o es, got' = got
  PROVE  /\ Texts(got' \o queue') = Texts(got \o queue) \o Texts(es)
         /\ Ended(got' \o queue') = Ended(got \o queue) \o Ended(es)
<1>1. got \in Seq(Event) /\ queue \in Seq(Event) /\ got \o queue \in Seq(Event)
  BY DEF TypeOK
<1>2. got' \o queue' = (got \o queue) \o es
  BY <1>1, Assoc
<1>3. QED
  BY <1>1, <1>2, ShownJoin

LEMMA ShownOfBegin ==
  ASSUME TypeOK, ParserInv, QueueInv, ShownInv, TypeOK', ParserInv',
         NEW i \in Blocks, Begin(i)
  PROVE  ShownInv'
<1>1. PICK n \in 0 .. msg.blocks[i].parts :
        /\ thread = "reading" /\ i = Len(order) + 1
        /\ sent' = [j \in 1 .. i |-> IF j = i THEN n ELSE sent[j]]
        /\ order' = Append(order, i)
        /\ queue' = queue \o BeginEvents(i, n)
        /\ UNCHANGED <<msg, thread, ending, consumer, got>>
  BY BeginEffect
<1>2. n \in Nat /\ msg \in Messages
  BY BlockShape DEF TypeOK
<1> DEFINE es == BeginEvents(i, n)
<1>3. /\ es \in Seq(Event) /\ \A m \in DOMAIN es : es[m] \in Streamed
      /\ Texts(es) = IF Kind(i) = "text" THEN Frags(i, n) ELSE <<>>
      /\ Kind(i) = "tool" => Announces(es, Id(i))
  BY <1>2, BeginShows
<1>4. queue' = queue \o es /\ got' = got
  BY <1>1
<1> HIDE DEF es
<1>5. Ended(es) = <<>>
  <2>1. \A m \in 1 .. Len(es) : es[m].type # "callend"
    BY <1>3 DEF Streamed
  <2>2. QED
    BY <1>3, <2>1, NoCallShown
<1>6. Answer'.text = Answer.text \o Texts(es)
  <2>1. Answer.text = FlattenSeq(Pieces(msg, sent, Len(order)))
    BY AnswerText
  <2>2. (TypeOK /\ ParserInv => Answer.text = FlattenSeq(Pieces(msg, sent, Len(order))))'
    BY AnswerText, PTL
  <2>3. Answer'.text = FlattenSeq(Pieces(msg', sent', Len(order')))
    BY <2>2
  <2> DEFINE l == Len(order)
  <2>4. /\ l \in Nat /\ i = l + 1 /\ Len(order') = l + 1 /\ msg' = msg
        /\ sent \in [1 .. l -> Nat]
        /\ sent' = [j \in 1 .. l + 1 |-> IF j = l + 1 THEN n ELSE sent[j]]
    BY <1>1, BegunIsUpTo DEF TypeOK, ParserInv
  <2>5. 1 .. l + 1 \subseteq Blocks
    BY <1>1, <1>2, <2>4, MessageShape
  <2> HIDE DEF l
  <2>6. FlattenSeq(Pieces(msg, sent', l + 1)) =
          FlattenSeq(Pieces(msg, sent, l))
            \o (IF Kind(l + 1) = "text" THEN Frags(l + 1, n) ELSE <<>>)
    BY <1>2, <2>4, <2>5, PiecesBegin
  <2>7. FlattenSeq(Pieces(msg, sent', l + 1)) = FlattenSeq(Pieces(msg, sent, l)) \o Texts(es)
    BY <1>3, <2>4, <2>6
  <2>8. Answer.text = FlattenSeq(Pieces(msg, sent, l))
    BY <2>1 DEF l
  <2>9. Answer'.text = FlattenSeq(Pieces(msg, sent', l + 1))
    BY <2>3, <2>4
  <2>10. QED
    BY <2>7, <2>8, <2>9
<1>7. consumer # "answered"
  BY <1>1, Zenon DEF QueueInv, Yielded
<1>8. ASSUME consumer = "reading"
      PROVE  /\ Texts(got' \o queue') = Answer'.text
             /\ Ended(got' \o queue') = <<>>
             /\ \A j \in DOMAIN sent' : Kind(j) = "tool" =>
                  Announces(got', Id(j)) \/ Announces(queue', Id(j))
  <2>1. /\ Texts(got \o queue) = Answer.text
        /\ Ended(got \o queue) = IF Yielded THEN Answer.calls ELSE <<>>
        /\ \A j \in DOMAIN sent : Kind(j) = "tool" =>
             Announces(got, Id(j)) \/ Announces(queue, Id(j))
    BY <1>8 DEF ShownInv
  <2>2. ~Yielded
    BY <1>1 DEF Yielded
  <2>3. /\ Texts(got' \o queue') = Texts(got \o queue) \o Texts(es)
        /\ Ended(got' \o queue') = Ended(got \o queue) \o Ended(es)
    BY <1>3, <1>4, ShownGrows
  <2>4. Ended(got' \o queue') = <<>>
    <3>1. Ended(got' \o queue') = <<>> \o <<>>
      BY <1>5, <2>1, <2>2, <2>3
    <3>2. QED
      BY <3>1
  <2>5. ASSUME NEW j \in DOMAIN sent', Kind(j) = "tool"
        PROVE  Announces(got', Id(j)) \/ Announces(queue', Id(j))
    <3>1. j = i \/ j \in DOMAIN sent
      BY <1>1, BegunIsUpTo
    <3>2. queue \in Seq(Event)
      BY DEF TypeOK
    <3>3. Announces(queue, Id(j)) \/ Announces(es, Id(j)) => Announces(queue', Id(j))
      BY <1>3, <1>4, <3>2, AnnouncesMore
    <3>4. QED
      BY <1>3, <1>4, <2>1, <2>5, <3>1, <3>3
  <2>6. QED
    BY <1>6, <2>1, <2>3, <2>4, <2>5
<1>9. ~Yielded' /\ \A j : Kind(j)' = Kind(j) /\ Id(j)' = Id(j)
  BY <1>1, SameTypes DEF Yielded
<1>10. consumer' = consumer
  BY <1>1
<1>11. QED
  BY <1>7, <1>8, <1>9, <1>10 DEF ShownInv

LEMMA ShownOfPart ==
  ASSUME TypeOK, ParserInv, QueueInv, ShownInv, TypeOK', ParserInv',
         NEW i \in Blocks, Part(i)
  PROVE  ShownInv'
<1>1. /\ thread = "reading" /\ i \in DOMAIN sent /\ ~Sent(i)
      /\ sent[i] + 1 \in 1 .. msg.blocks[i].parts
      /\ sent' = [sent EXCEPT ![i] = sent[i] + 1]
      /\ queue' = queue \o Delta(i, sent[i] + 1, FALSE)
      /\ UNCHANGED <<msg, order, thread, ending, consumer, got>>
  BY PartEffect
<1> DEFINE k == sent[i] + 1
           es == Delta(i, k, FALSE)
<1>2. k \in Nat /\ msg \in Messages
  BY <1>1, BlockShape DEF TypeOK
<1>3. /\ es \in Seq(Event) /\ \A m \in DOMAIN es : es[m] \in Streamed
      /\ Texts(es) = IF Kind(i) = "text" THEN <<<<i, k>>>> ELSE <<>>
  BY <1>2, PartShows
<1>4. queue' = queue \o es /\ got' = got
  BY <1>1
<1> HIDE DEF es
<1>5. Ended(es) = <<>>
  <2>1. \A m \in 1 .. Len(es) : es[m].type # "callend"
    BY <1>3 DEF Streamed
  <2>2. QED
    BY <1>3, <2>1, NoCallShown
<1>6. Answer'.text = Answer.text \o Texts(es)
  <2>1. Answer.text = FlattenSeq(Pieces(msg, sent, Len(order)))
    BY AnswerText
  <2>2. (TypeOK /\ ParserInv => Answer.text = FlattenSeq(Pieces(msg, sent, Len(order))))'
    BY AnswerText, PTL
  <2> DEFINE l == Len(order)
  <2>3. Answer'.text = FlattenSeq(Pieces(msg, sent', l))
    BY <1>1, <2>2
  <2>4. /\ l \in Nat /\ i \in 1 .. l /\ sent \in [1 .. l -> Nat] /\ DOMAIN sent = 1 .. l
        /\ 1 .. l \subseteq Blocks
    BY <1>1, BegunIsUpTo DEF TypeOK, ParserInv
  <2> HIDE DEF l
  <2>5. CASE Kind(i) = "text"
    <3>1. \A j \in 1 .. l : j > i => Kind(j) # "text"
      BY <1>1, <2>4, <2>5 DEF ParserInv
    <3>2. FlattenSeq(Pieces(msg, sent', l)) =
            FlattenSeq(Pieces(msg, sent, l)) \o <<<<i, sent[i] + 1>>>>
      BY <1>1, <1>2, <2>4, <2>5, <3>1, PiecesGrow
    <3>3. QED
      BY <1>3, <2>1, <2>3, <2>5, <3>2 DEF l
  <2>6. CASE Kind(i) # "text"
    <3>1. Pieces(msg, sent', l) = Pieces(msg, sent, l)
      <4>1. \A j \in 1 .. l : j # i => sent'[j] = sent[j]
        BY <1>1, <2>4
      <4>2. msg.blocks[i].kind # "text"
        BY <2>6 DEF Kind
      <4>3. ASSUME NEW j \in 1 .. l
            PROVE  (IF msg.blocks[j].kind = "text" THEN Frags(j, sent'[j]) ELSE <<>>)
                     = (IF msg.blocks[j].kind = "text" THEN Frags(j, sent[j]) ELSE <<>>)
        BY <4>1, <4>2
      <4>4. QED
        BY <4>3, Zenon DEF Pieces
    <3>2. Answer.text \in Seq(Fragments)
      BY AnswerTyped
    <3>3. Answer.text \o <<>> = Answer.text
      BY <3>2
    <3>4. QED
      BY <1>3, <2>1, <2>3, <2>6, <3>1, <3>3 DEF l
  <2>7. QED
    BY <2>5, <2>6
<1>7. consumer # "answered"
  BY <1>1, Zenon DEF QueueInv, Yielded
<1>8. ASSUME consumer = "reading"
      PROVE  /\ Texts(got' \o queue') = Answer'.text
             /\ Ended(got' \o queue') = <<>>
             /\ \A j \in DOMAIN sent' : Kind(j) = "tool" =>
                  Announces(got', Id(j)) \/ Announces(queue', Id(j))
  <2>1. /\ Texts(got \o queue) = Answer.text
        /\ Ended(got \o queue) = IF Yielded THEN Answer.calls ELSE <<>>
        /\ \A j \in DOMAIN sent : Kind(j) = "tool" =>
             Announces(got, Id(j)) \/ Announces(queue, Id(j))
    BY <1>8 DEF ShownInv
  <2>2. ~Yielded
    BY <1>1 DEF Yielded
  <2>3. /\ Texts(got' \o queue') = Texts(got \o queue) \o Texts(es)
        /\ Ended(got' \o queue') = Ended(got \o queue) \o Ended(es)
    BY <1>3, <1>4, ShownGrows
  <2>4. Ended(got' \o queue') = <<>>
    <3>1. Ended(got' \o queue') = <<>> \o <<>>
      BY <1>5, <2>1, <2>2, <2>3
    <3>2. QED
      BY <3>1
  <2>5. ASSUME NEW j \in DOMAIN sent', Kind(j) = "tool"
        PROVE  Announces(got', Id(j)) \/ Announces(queue', Id(j))
    <3>1. j \in DOMAIN sent /\ queue \in Seq(Event)
      BY <1>1 DEF TypeOK
    <3>2. Announces(queue, Id(j)) => Announces(queue', Id(j))
      BY <1>3, <1>4, <3>1, AnnouncesMore
    <3>3. QED
      BY <1>4, <2>1, <2>5, <3>1, <3>2
  <2>6. QED
    BY <1>6, <2>1, <2>3, <2>4, <2>5
<1>9. ~Yielded' /\ \A j : Kind(j)' = Kind(j) /\ Id(j)' = Id(j)
  BY <1>1, SameTypes DEF Yielded
<1>10. consumer' = consumer
  BY <1>1
<1>11. QED
  BY <1>7, <1>8, <1>9, <1>10 DEF ShownInv

LEMMA ShownOfClose ==
  ASSUME TypeOK, QueueInv, ShownInv, Finish \/ Cut \/ Fail PROVE ShownInv'
<1>1. /\ thread = "reading" /\ thread' = "ended"
      /\ UNCHANGED <<msg, parser, consumer, got>>
      /\ queue' = queue \o (IF Yielded' THEN CallEvents \o <<Done, End>> ELSE Failure)
  BY CloseEffect
<1>2. Answer' = Answer /\ sent' = sent /\ consumer' = consumer /\ got' = got
      /\ \A j : Kind(j)' = Kind(j) /\ Id(j)' = Id(j)
  BY <1>1, AnswerSame, SameTypes DEF parser
<1>3. consumer # "answered" /\ ~Yielded
  BY <1>1, Zenon DEF QueueInv, Yielded
<1> DEFINE es == IF Yielded' THEN CallEvents \o <<Done, End>> ELSE Failure
<1>4. /\ es \in Seq(Event) /\ Texts(es) = <<>>
      /\ Ended(es) = IF Yielded' THEN Answer.calls ELSE <<>>
  <2>1. CASE Yielded'
    <3>1. CallEvents \o <<Done, End>> \in Seq(Event)
      BY AnswerEvents
    <3>2. QED
      BY <2>1, <3>1, AnswerEvents
  <2>2. CASE ~Yielded'
    <3>1. \A n \in 1 .. Len(Failure) : Failure[n].type \in {"error", "end"}
      BY FailureShape
    <3>2. Texts(Failure) = <<>> /\ Ended(Failure) = <<>>
      BY <3>1, FailureShape, NoTextShown, NoCallShown
    <3>3. QED
      BY <2>2, <3>2, FailureShape
  <2>3. QED
    BY <2>1, <2>2
<1>5. queue' = queue \o es
  BY <1>1
<1> HIDE DEF es
<1>6. ASSUME consumer = "reading"
      PROVE  /\ Texts(got' \o queue') = Answer'.text
             /\ Ended(got' \o queue') = IF Yielded' THEN Answer'.calls ELSE <<>>
             /\ \A j \in DOMAIN sent' : Kind(j) = "tool" =>
                  Announces(got', Id(j)) \/ Announces(queue', Id(j))
  <2>1. /\ Texts(got \o queue) = Answer.text /\ Ended(got \o queue) = <<>>
        /\ \A j \in DOMAIN sent : Kind(j) = "tool" =>
             Announces(got, Id(j)) \/ Announces(queue, Id(j))
    BY <1>3, <1>6 DEF ShownInv
  <2>2. /\ Texts(got' \o queue') = Texts(got \o queue) \o Texts(es)
        /\ Ended(got' \o queue') = Ended(got \o queue) \o Ended(es)
    BY <1>2, <1>4, <1>5, ShownGrows
  <2>3. Answer.text \in Seq(Fragments) /\ Answer.calls \in Seq(CallType)
    BY AnswerTyped
  <2>4. /\ Answer.text \o <<>> = Answer.text /\ <<>> \o Answer.calls = Answer.calls
        /\ <<>> \o <<>> = <<>>
    BY <2>3
  <2>5. Texts(got' \o queue') = Answer'.text
    BY <1>2, <1>4, <2>1, <2>2, <2>4
  <2>6. Ended(got' \o queue') = IF Yielded' THEN Answer'.calls ELSE <<>>
    <3>1. CASE Yielded'
      BY <1>2, <1>4, <2>1, <2>2, <2>4, <3>1
    <3>2. CASE ~Yielded'
      BY <1>4, <2>1, <2>2, <2>4, <3>2
    <3>3. QED
      BY <3>1, <3>2
  <2>7. ASSUME NEW j \in DOMAIN sent', Kind(j) = "tool"
        PROVE  Announces(got', Id(j)) \/ Announces(queue', Id(j))
    <3>1. j \in DOMAIN sent /\ queue \in Seq(Event)
      BY <1>2 DEF TypeOK
    <3>2. Announces(queue, Id(j)) => Announces(queue', Id(j))
      BY <1>4, <1>5, <3>1, AnnouncesMore
    <3>3. QED
      BY <1>2, <2>1, <2>7, <3>1, <3>2
  <2>8. QED
    BY <2>5, <2>6, <2>7
<1>7. QED
  BY <1>2, <1>3, <1>6 DEF ShownInv

LEMMA ShownOfTake ==
  ASSUME TypeOK, QueueInv, ShownInv, Take PROVE ShownInv'
<1>1. /\ consumer = "reading" /\ queue # <<>> /\ queue' = Tail(queue)
      /\ UNCHANGED <<msg, parser, thread, ending>>
      /\ consumer' = "raised" \/ got' = Append(got, Head(queue))
  BY TakeEffect
<1>2. UNCHANGED <<msg, order, buffer, sent, thread, ending>>
  BY <1>1 DEF parser
<1>3. /\ Answer' = Answer /\ Yielded' = Yielded /\ sent' = sent
      /\ \A j : Kind(j)' = Kind(j) /\ Id(j)' = Id(j)
  BY <1>2, AnswerSame, YieldedSame, SameTypes
<1>4. /\ Texts(got \o queue) = Answer.text
      /\ Ended(got \o queue) = IF Yielded THEN Answer.calls ELSE <<>>
      /\ \A j \in DOMAIN sent : Kind(j) = "tool" =>
           Announces(got, Id(j)) \/ Announces(queue, Id(j))
  BY <1>1 DEF ShownInv
<1>5. CASE got' = Append(got, Head(queue))
  <2>1. got \in Seq(Event) /\ queue \in Seq(Event)
    BY DEF TypeOK
  <2>2. got' \o queue' = got \o queue
    BY <1>1, <1>5, <2>1, TakeJoin
  <2>3. ASSUME NEW id, Announces(got, id) \/ Announces(queue, id)
        PROVE  Announces(got', id) \/ Announces(queue', id)
    <3>1. CASE Announces(got, id)
      <4>1. PICK n \in DOMAIN got : got[n].type = "start" /\ got[n].id = id
        BY <3>1 DEF Announces
      <4>2. n \in DOMAIN got' /\ got'[n] = got[n]
        BY <1>5, <2>1
      <4>3. QED
        BY <4>1, <4>2 DEF Announces
    <3>2. CASE Announces(queue, id)
      <4>1. PICK n \in DOMAIN queue : queue[n].type = "start" /\ queue[n].id = id
        BY <3>2 DEF Announces
      <4>2. CASE n = 1
        <5>1. Len(got) + 1 \in DOMAIN got' /\ got'[Len(got) + 1] = queue[n]
          BY <1>1, <1>5, <2>1, <4>2
        <5>2. QED
          BY <4>1, <5>1 DEF Announces
      <4>3. CASE n # 1
        <5>1. n - 1 \in DOMAIN queue' /\ queue'[n - 1] = queue[n]
          BY <1>1, <2>1, <4>3
        <5>2. QED
          BY <4>1, <5>1 DEF Announces
      <4>4. QED
        BY <4>2, <4>3
    <3>3. QED
      BY <2>3, <3>1, <3>2
  <2>4. QED
    BY <1>3, <1>4, <2>2, <2>3 DEF ShownInv
<1>6. CASE consumer' = "raised"
  BY <1>6 DEF ShownInv
<1>7. QED
  BY <1>1, <1>5, <1>6

LEMMA ShownSame ==
  ASSUME ShownInv, UNCHANGED vars PROVE ShownInv'
<1>1. UNCHANGED <<msg, order, buffer, sent, thread, ending, queue, consumer, got>>
  BY DEF vars, parser
<1>2. /\ Answer' = Answer /\ Yielded' = Yielded
      /\ \A j : Kind(j)' = Kind(j) /\ Id(j)' = Id(j)
  BY <1>1, AnswerSame, YieldedSame, SameTypes
<1>3. QED
  BY <1>1, <1>2 DEF ShownInv

LEMMA InvStep == Inv /\ [Next]_vars => Inv'
<1> SUFFICES ASSUME Inv, [Next]_vars PROVE Inv'
  OBVIOUS
<1>0. TypeOK /\ ParserInv /\ QueueInv /\ ShownInv
  BY DEF Inv
<1>1. ASSUME NEW i \in Blocks, Begin(i) PROVE Inv'
  <2>1. TypeOK'
    BY <1>0, <1>1, TypeOfBegin
  <2>2. ParserInv'
    BY <1>0, <1>1, ParserOfBegin
  <2>3. QueueInv'
    <3>1. PICK n \in 0 .. msg.blocks[i].parts :
            /\ thread = "reading" /\ queue' = queue \o BeginEvents(i, n)
            /\ UNCHANGED <<thread, ending, consumer, got>>
      BY <1>0, <1>1, BeginEffect
    <3>2. n \in Nat /\ msg \in Messages
      BY <1>0, BlockShape DEF TypeOK
    <3>3. /\ BeginEvents(i, n) \in Seq(Event)
          /\ \A m \in DOMAIN BeginEvents(i, n) : BeginEvents(i, n)[m] \in Streamed
      BY <3>2, BeginShows
    <3>4. QED
      BY <1>0, <3>1, <3>3, QueueOfReads
  <2>4. ShownInv'
    BY <1>0, <1>1, <2>1, <2>2, ShownOfBegin
  <2>5. QED
    BY <2>1, <2>2, <2>3, <2>4 DEF Inv
<1>2. ASSUME NEW i \in Blocks, Part(i) PROVE Inv'
  <2>1. TypeOK'
    BY <1>0, <1>2, TypeOfPart
  <2>2. ParserInv'
    BY <1>0, <1>2, ParserOfPart
  <2>3. QueueInv'
    <3>1. /\ thread = "reading" /\ queue' = queue \o Delta(i, sent[i] + 1, FALSE)
          /\ sent[i] + 1 \in 1 .. msg.blocks[i].parts
          /\ UNCHANGED <<thread, ending, consumer, got>>
      BY <1>0, <1>2, PartEffect
    <3> DEFINE d == Delta(i, sent[i] + 1, FALSE)
    <3>2. sent[i] + 1 \in Nat /\ msg \in Messages
      BY <1>0, <3>1, BlockShape DEF TypeOK
    <3>3. d \in Seq(Event) /\ \A m \in DOMAIN d : d[m] \in Streamed
      BY <3>2, PartShows
    <3>4. queue' = queue \o d
      BY <3>1
    <3> HIDE DEF d
    <3>5. QED
      BY <1>0, <3>1, <3>3, <3>4, QueueOfReads
  <2>4. ShownInv'
    BY <1>0, <1>2, <2>1, <2>2, ShownOfPart
  <2>5. QED
    BY <2>1, <2>2, <2>3, <2>4 DEF Inv
<1>3. CASE Finish \/ Cut \/ Fail
  <2>1. UNCHANGED <<msg, parser>>
    BY <1>3, CloseEffect
  <2>2. TypeOK' /\ ParserInv' /\ QueueInv' /\ ShownInv'
    BY <1>0, <1>3, <2>1, TypeOfClose, ParserSame, QueueOfClose, ShownOfClose
  <2>3. QED
    BY <2>2 DEF Inv
<1>4. CASE Take
  <2>1. UNCHANGED <<msg, parser>>
    BY <1>4 DEF Take
  <2>2. TypeOK' /\ ParserInv' /\ QueueInv' /\ ShownInv'
    BY <1>0, <1>4, <2>1, TypeOfTake, ParserSame, QueueOfTake, ShownOfTake
  <2>3. QED
    BY <2>2 DEF Inv
<1>5. CASE Abandon
  <2>1. consumer' = "abandoned" /\ UNCHANGED <<msg, parser, thread, ending, queue, got>>
    BY <1>5 DEF Abandon
  <2>2. Blocks' = Blocks /\ Fragments' = Fragments /\ Event' = Event
    BY <2>1, SameTypes
  <2>3. TypeOK'
    BY <1>0, <2>1, <2>2 DEF TypeOK, parser
  <2>4. ParserInv' /\ QueueInv'
    BY <1>0, <1>5, <2>1, ParserSame, QueueOfAbandon
  <2>5. ShownInv'
    BY <2>1 DEF ShownInv
  <2>6. QED
    BY <2>3, <2>4, <2>5 DEF Inv
<1>6. CASE UNCHANGED vars
  <2>1. UNCHANGED <<msg, parser, thread, ending, queue, consumer, got>>
    BY <1>6 DEF vars
  <2>2. Blocks' = Blocks /\ Fragments' = Fragments /\ Event' = Event
    BY <2>1, SameTypes
  <2>3. TypeOK'
    BY <1>0, <2>1, <2>2 DEF TypeOK, parser
  <2>4. ParserInv' /\ QueueInv' /\ ShownInv'
    BY <1>0, <1>6, <2>1, ParserSame, QueueSame, ShownSame
  <2>5. QED
    BY <2>3, <2>4 DEF Inv
<1>7. QED
  BY <1>1, <1>2, <1>3, <1>4, <1>5, <1>6 DEF Next, Thread, Over

LEMMA InvHolds == Spec => []Inv
BY InitInv, InvStep, PTL DEF Spec
-----------------------------------------------------------------------------
(* The theorems.                                                           *)

\* Every variable of a stream keeps its type, whatever its messages are: every
\* event that is put on the queue has the fields of its kind, and the arguments
\* of every call are an object.
THEOREM TypeCorrect == Spec => []TypeOK
<1>1. Inv => TypeOK
  BY DEF Inv
<1>2. QED
  BY <1>1, InvHolds, PTL

\* The harness is never told that the iteration is over without an answer or
\* an exception.
THEOREM NeverSilent == Spec => [](consumer # "silent")
<1>1. Inv => consumer # "silent"
  BY DEF Inv, QueueInv
<1>2. QED
  BY <1>1, InvHolds, PTL

LEMMA AnsweredFacts ==
  ASSUME Inv, consumer = "answered"
  PROVE  Final = Answer /\ Yielded /\ ~Refused /\ queue = <<End>>
<1>1. Yielded /\ got[Len(got)] = Done /\ queue = <<End>>
  BY DEF Inv, QueueInv
<1>2. Final = Answer
  BY <1>1 DEF Final, Last, Done
<1>3. QED
  BY <1>1, <1>2 DEF Yielded

\* The calls of the answer are those of the tools the parser met.
LEMMA CallsAreMet ==
  ASSUME TypeOK, ParserInv, NEW n \in DOMAIN Answer.calls
  PROVE  \E i \in DOMAIN sent : i \in Tools /\ Answer.calls[n] = Call(i)
<1> DEFINE Met == {Call(i) : i \in {j \in DOMAIN sent : j \in Tools}}
<1>1. /\ Len(order) \in Nat /\ DOMAIN sent = 1 .. Len(order)
      /\ \A m \in 1 .. Len(order) : order[m] \in Blocks /\ order[m] = m
  BY BegunIsUpTo DEF TypeOK, ParserInv
<1>2. ASSUME NEW m \in 1 .. Len(order) PROVE CallsOf(order[m]) \in Seq(Met)
  <2>1. order[m] = m /\ m \in DOMAIN sent /\ m \in Blocks
    BY <1>1
  <2>2. CASE Kind(m) = "tool"
    <3>1. Call(m) \in Met
      BY <2>1, <2>2 DEF Tools
    <3> HIDE DEF Met
    <3>2. <<Call(m)>> \in Seq(Met)
      BY <3>1
    <3>3. QED
      BY <2>1, <2>2, <3>2, Zenon DEF CallsOf
  <2>3. CASE Kind(m) # "tool"
    <3> HIDE DEF Met
    <3>1. <<>> \in Seq(Met)
      OBVIOUS
    <3>2. QED
      BY <2>1, <2>3, <3>1, Zenon DEF CallsOf
  <2>4. QED
    BY <2>2, <2>3
<1> HIDE DEF Met
<1>3. CallsMet \in Seq(Seq(Met))
  BY <1>1, <1>2 DEF CallsMet
<1>4. FlattenSeq(CallsMet) \in Seq(Met)
  BY <1>3, FlattenType
<1>5. Answer.calls \in Seq(Met)
  BY <1>4, AnswerTyped
<1>6. Answer.calls[n] \in Met
  BY <1>5
<1>7. QED
  BY <1>6 DEF Met

LEMMA WholeIsGenerated ==
  ASSUME TypeOK, ParserInv, \A i \in Blocks : Sent(i), \A i \in Tools : msg.blocks[i].valid
  PROVE  ~Refused /\ Answer = Generated
<1>1. /\ Len(order) \in Nat /\ DOMAIN sent = 1 .. Len(order)
      /\ \A m \in 1 .. Len(order) : order[m] = m
      /\ Blocks = 1 .. Len(order)
  <2>1. Blocks = DOMAIN sent
    BY BegunIsUpTo DEF Sent
  <2>2. QED
    BY <2>1, BegunIsUpTo DEF ParserInv
<1>2. \A i \in Blocks : buffer[i] = Full(i)
  BY DEF Sent, ParserInv, Count, Full, Frags
<1>3. \A i \in Tools : Parses(i)
  BY <1>2 DEF Tools, Parses, Key
<1>4. ~Refused
  BY <1>3 DEF Refused
<1>5. ASSUME NEW i \in Blocks
      PROVE  TextOf(i) = IF Kind(i) = "text" THEN Full(i) ELSE <<>>
  BY <1>2 DEF TextOf, Key
<1>6. ASSUME NEW i \in Blocks
      PROVE  CallsOf(i) = IF Kind(i) = "tool"
                          THEN <<[id |-> Id(i), name |-> msg.blocks[i].name,
                                  args |-> IF msg.blocks[i].valid THEN Full(i) ELSE <<>>]>>
                          ELSE <<>>
  <2>1. CASE i \in Tools
    <3>1. Call(i) = [id |-> Id(i), name |-> msg.blocks[i].name, args |-> Full(i)]
      BY <1>2, <1>3, <2>1 DEF Call, Key
    <3>2. msg.blocks[i].valid /\ Kind(i) = "tool"
      BY <2>1 DEF Tools
    <3>3. QED
      BY <3>1, <3>2 DEF CallsOf
  <2>2. CASE i \notin Tools
    BY <2>2 DEF Tools, CallsOf
  <2>3. QED
    BY <2>1, <2>2
<1>7. TextsMet = [i \in Blocks |-> IF Kind(i) = "text" THEN Full(i) ELSE <<>>]
  BY <1>1, <1>5 DEF TextsMet
<1>8. CallsMet = [i \in Blocks |->
                    IF Kind(i) = "tool"
                    THEN <<[id |-> Id(i), name |-> msg.blocks[i].name,
                            args |-> IF msg.blocks[i].valid THEN Full(i) ELSE <<>>]>>
                    ELSE <<>>]
  <2>1. CallsMet = [i \in Blocks |-> CallsOf(i)]
    BY <1>1 DEF CallsMet
  <2>2. QED
    BY <1>6, <2>1
<1>9. Answer = Generated
  BY <1>7, <1>8, AnswerByUnits DEF Generated
<1>10. QED
  BY <1>4, <1>9

\* "The terminal StreamDone carries the same GenerateResult that a
\* non-streaming generate() would return": of every message, in whatever order
\* the fragments of its calls come, that is streamed to its end.
THEOREM StreamMatchesGenerateHolds == Spec => []StreamMatchesGenerate
<1>1. Inv => StreamMatchesGenerate
  <2> SUFFICES ASSUME Inv, ending = "whole", \A i \in Tools : msg.blocks[i].valid
               PROVE  consumer # "raised" /\ (consumer = "answered" => Final = Generated)
    BY DEF StreamMatchesGenerate
  <2>1. TypeOK /\ ParserInv /\ (\A i \in Blocks : Sent(i)) /\ thread = "ended"
    BY DEF Inv, QueueInv, TypeOK
  <2>2. ~Refused /\ Answer = Generated
    BY <2>1, WholeIsGenerated
  <2>3. Yielded
    BY <2>1, <2>2 DEF Yielded
  <2>4. consumer # "raised"
    BY <2>3 DEF Inv, QueueInv
  <2>5. QED
    BY <2>2, <2>4, AnsweredFacts
<1>2. QED
  BY <1>1, InvHolds, PTL

\* The answer is what was streamed, for every message and every point at which
\* its stream ends.
THEOREM AnswerIsWhatWasShownHolds == Spec => []AnswerIsWhatWasShown
<1>1. Inv => AnswerIsWhatWasShown
  <2> SUFFICES ASSUME Inv, consumer = "answered"
               PROVE  /\ Final.text = Texts(got) /\ Final.calls = Ended(got)
                      /\ \A c \in ToSet(Final.calls) :
                           \E e \in ToSet(got) : e.type = "start" /\ e.id = c.id
    BY DEF AnswerIsWhatWasShown
  <2>1. TypeOK /\ ParserInv /\ ShownInv
    BY DEF Inv
  <2>2. Final = Answer /\ Yielded /\ queue = <<End>>
    BY AnsweredFacts
  <2>3. got \in Seq(Event) /\ End \in Event /\ End.type = "end" /\ <<End>> \in Seq(Event)
    BY <2>1, EventKinds DEF TypeOK, End
  <2>4. Texts(<<End>>) = <<>> /\ Ended(<<End>>) = <<>>
    <3>1. \A n \in 1 .. Len(<<End>>) : <<End>>[n].type = "end"
      BY <2>3
    <3>2. QED
      BY <2>3, <3>1, NoTextShown, NoCallShown
  <2>5. /\ Texts(got \o <<End>>) = Texts(got) \o <<>> /\ Ended(got \o <<End>>) = Ended(got) \o <<>>
        /\ Texts(got) \in Seq(Fragments) /\ Ended(got) \in Seq(CallType)
    BY <2>3, <2>4, ShownJoin
  <2>6. Texts(got) \o <<>> = Texts(got) /\ Ended(got) \o <<>> = Ended(got)
    BY <2>5
  <2>7. Texts(got \o queue) = Answer.text /\ Ended(got \o queue) = Answer.calls
    BY <2>1, <2>2 DEF ShownInv
  <2>8. Final.text = Texts(got) /\ Final.calls = Ended(got)
    BY <2>2, <2>5, <2>6, <2>7
  <2>9. ASSUME NEW c \in ToSet(Final.calls)
        PROVE  \E e \in ToSet(got) : e.type = "start" /\ e.id = c.id
    <3>1. PICK n \in DOMAIN Answer.calls : c = Answer.calls[n]
      BY <2>2, <2>9 DEF ToSet
    <3>2. PICK i \in DOMAIN sent : i \in Tools /\ c = Call(i)
      BY <2>1, <3>1, CallsAreMet
    <3>3. c.id = Id(i) /\ Kind(i) = "tool"
      BY <2>1, <3>2, CallTyped DEF Tools
    <3>4. Announces(got, Id(i)) \/ Announces(queue, Id(i))
      BY <2>1, <3>2, <3>3 DEF ShownInv
    <3>5. ~Announces(queue, Id(i))
      BY <2>2, <2>3 DEF Announces
    <3>6. PICK m \in DOMAIN got : got[m].type = "start" /\ got[m].id = Id(i)
      BY <3>4, <3>5 DEF Announces
    <3>7. QED
      BY <3>3, <3>6 DEF ToSet
  <2>10. QED
    BY <2>8, <2>9
<1>2. QED
  BY <1>1, InvHolds, PTL

\* No tool of an OpenAI-compatible provider runs on half of its arguments,
\* however many calls interleave and wherever the stream was cut.
THEOREM HalfCallsAreRefusedHolds == Spec => []HalfCallsAreRefused
<1>1. Inv => HalfCallsAreRefused
  <2> SUFFICES ASSUME Inv, consumer = "answered", msg.proto = "openai",
                      NEW n \in 1 .. Len(Final.calls)
               PROVE  LET i == CHOOSE j \in Tools : Id(j) = Final.calls[n].id
                      IN  Final.calls[n].args = Full(i) \/ sent[i] = 0
    BY DEF HalfCallsAreRefused
  <2>1. TypeOK /\ ParserInv
    BY DEF Inv
  <2>2. Final = Answer /\ ~Refused
    BY AnsweredFacts
  <2>3. n \in DOMAIN Answer.calls
    <3>1. Answer.calls \in Seq(CallType)
      BY <2>1, AnswerTyped
    <3>2. QED
      BY <2>2, <3>1
  <2>4. PICK i \in DOMAIN sent : i \in Tools /\ Answer.calls[n] = Call(i)
    BY <2>1, <2>3, CallsAreMet
  <2>5. \A j \in Tools : Id(j) = <<"call", j>>
    BY DEF Id
  <2>6. Final.calls[n].id = Id(i) /\ Final.calls[n].args = IF Parses(i) THEN buffer[i] ELSE <<>>
    BY <2>1, <2>2, <2>4, CallTyped DEF Tools
  <2>7. (CHOOSE j \in Tools : Id(j) = Final.calls[n].id) = i
    BY <2>4, <2>5, <2>6
  <2>8. Parses(i)
    BY <2>2, <2>4 DEF Refused
  <2>9. buffer[i] = Full(i) \/ sent[i] = 0
    <3>1. CASE buffer[i] = <<>>
      <4>1. buffer[i] = Frags(i, sent[i]) /\ sent[i] \in Nat /\ i \in Blocks
        BY <2>1, <2>4, BegunIsUpTo DEF ParserInv, Count, Tools
      <4>2. Len(Frags(i, sent[i])) = sent[i]
        BY <4>1, FragsType
      <4>3. QED
        BY <3>1, <4>1, <4>2
    <3>2. QED
      BY <2>8, <3>1 DEF Parses, Key
  <2>10. Final.calls[n].args = Full(i) \/ sent[i] = 0
    BY <2>6, <2>8, <2>9
  <2>11. QED
    BY <2>7, <2>10
<1>2. QED
  BY <1>1, InvHolds, PTL
=============================================================================
