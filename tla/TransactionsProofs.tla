-------------------------- MODULE TransactionsProofs --------------------------
(***************************************************************************)
(* Proofs about what the subscriber makes of single transactions, their    *)
(* trees and their logs, for every transaction that a chain can hold:      *)
(* the conversion of the shape of algod gives that of the indexer, the     *)
(* inner transactions of a root are one list in which each is followed by  *)
(* those below it, the search of the indexer leaves out nothing that the   *)
(* filter itself accepts, and each attempt to decode a log is made once.   *)
(* The facts about lists, their order and their selections that these and  *)
(* the proofs about a poll rest on come first.                             *)
(***************************************************************************)
EXTENDS Filters, TxnTree, WellFoundedInduction, SequenceTheorems, FunctionTheorems,
        FiniteSetTheorems, TLAPS

-------------------------------------------------------------------------------
(* Lists of lists and selections. *)

\* Induction over the natural numbers, for a set of them.
LEMMA NatInductionSet ==
    ASSUME NEW P, 0 \in P, \A n \in Nat : n \in P => n + 1 \in P
    PROVE  Nat \subseteq P
<1> SUFFICES ASSUME Nat \ P # {} PROVE FALSE
  OBVIOUS
<1>1. PICK n \in Nat \ P : \A m \in Nat \ P : ~(m < n)
  <2>1. IsWellFoundedOn(OpToRel(<, Nat), Nat)
    BY NatLessThanWellFounded
  <2>2. PICK n \in Nat \ P : \A m \in Nat \ P : <<m, n>> \notin OpToRel(<, Nat)
    BY <2>1, WFMin
  <2> QED
    BY <2>2 DEF OpToRel
<1>2. n # 0 /\ n - 1 \in Nat /\ (n - 1) + 1 = n
  BY <1>1
<1>3. n - 1 \in P
  BY <1>1, <1>2
<1> QED
  BY <1>1, <1>2, <1>3

\* The greatest of some places of a list is one of them.
LEMMA MaxOfPlaces ==
    ASSUME NEW n \in Nat, NEW S, S \subseteq 1..n, S # {}
    PROVE  Max(S) \in S
<1> DEFINE P == {k \in Nat : \A T \in SUBSET (1..k) : T # {} => \E x \in T : \A y \in T : x >= y}
<1>1. 0 \in P
  <2>1. \A T \in SUBSET (1..0) : T = {}
    OBVIOUS
  <2> QED
    BY <2>1
<1>2. ASSUME NEW k \in Nat, k \in P PROVE k + 1 \in P
  <2> SUFFICES ASSUME NEW T \in SUBSET (1..(k + 1)), T # {}
               PROVE  \E x \in T : \A y \in T : x >= y
    OBVIOUS
  <2>1. CASE k + 1 \in T
    BY <2>1
  <2>2. CASE k + 1 \notin T
    BY <1>2, <2>2
  <2> QED
    BY <2>1, <2>2
<1> HIDE DEF P
<1>3. n \in P
  BY <1>1, <1>2, NatInductionSet
<1>4. \E x \in S : \A y \in S : x >= y
  BY <1>3 DEF P
<1> QED
  BY <1>4 DEF Max

\* The function that FlattenSeq recurses on.
FlattenBody(g, seqs, i) == IF i = 1 THEN seqs[i] ELSE g[i - 1] \o seqs[i]

Flattens(g, seqs, n) == \A i \in 1..n : g[i] = FlattenBody(g, seqs, i)

\* The recursion of FlattenSeq has a solution.
LEMMA FlattenExists ==
    ASSUME NEW seqs, NEW N \in Nat
    PROVE  \E g : g = [i \in 1..N |-> FlattenBody(g, seqs, i)]
<1> DEFINE P == {n \in Nat : \E g : g = [i \in 1..n |-> FlattenBody(g, seqs, i)]}
<1>1. 0 \in P
  <2>1. [i \in 1..0 |-> seqs[i]] = [i \in 1..0 |-> FlattenBody([j \in 1..0 |-> seqs[j]], seqs, i)]
    OBVIOUS
  <2> QED
    BY <2>1
<1>2. \A n \in Nat : n \in P => n + 1 \in P
  <2> SUFFICES ASSUME NEW n \in Nat, n \in P PROVE n + 1 \in P
    OBVIOUS
  <2>1. PICK g : g = [i \in 1..n |-> FlattenBody(g, seqs, i)]
    OBVIOUS
  <2> DEFINE h == [i \in 1..(n + 1) |-> FlattenBody(g, seqs, i)]
  <2>2. \A i \in 1..n : g[i] = h[i]
    BY <2>1
  <2>3. \A i \in 1..(n + 1) : FlattenBody(g, seqs, i) = FlattenBody(h, seqs, i)
    <3> SUFFICES ASSUME NEW i \in 1..(n + 1), i # 1 PROVE g[i - 1] = h[i - 1]
      BY DEF FlattenBody
    <3>1. i - 1 \in 1..n
      OBVIOUS
    <3> HIDE DEF h
    <3> QED
      BY <2>2, <3>1
  <2>4. h = [i \in 1..(n + 1) |-> FlattenBody(h, seqs, i)]
    BY <2>3
  <2> HIDE DEF h
  <2> QED
    BY <2>4
<1> HIDE DEF P
<1>3. Nat \subseteq P
  BY <1>1, <1>2, NatInductionSet
<1> QED
  BY <1>3 DEF P

\* Two sequences that begin alike are flattened alike so far.
LEMMA FlattensAlike ==
    ASSUME NEW g, NEW h, NEW s, NEW t, NEW m \in Nat,
           Flattens(g, s, m), Flattens(h, t, m), \A i \in 1..m : s[i] = t[i]
    PROVE  \A i \in 1..m : g[i] = h[i]
<1> DEFINE P == {k \in Nat : k \in 1..m => g[k] = h[k]}
<1>1. 0 \in P
  OBVIOUS
<1>2. \A k \in Nat : k \in P => k + 1 \in P
  <2> SUFFICES ASSUME NEW k \in Nat, k \in P, k + 1 \in 1..m PROVE g[k + 1] = h[k + 1]
    OBVIOUS
  <2>1. g[k + 1] = FlattenBody(g, s, k + 1) /\ h[k + 1] = FlattenBody(h, t, k + 1)
    BY DEF Flattens
  <2>2. k + 1 # 1 => k \in 1..m /\ (k + 1) - 1 = k
    OBVIOUS
  <2> QED
    BY <2>1, <2>2 DEF FlattenBody
<1> HIDE DEF P
<1>3. Nat \subseteq P
  BY <1>1, <1>2, NatInductionSet
<1> QED
  BY <1>3 DEF P

\* FlattenSeq is the last value of its recursion.
LEMMA FlattenIs ==
    ASSUME NEW seqs, Len(seqs) \in Nat, Len(seqs) # 0
    PROVE  \E g : Flattens(g, seqs, Len(seqs)) /\ FlattenSeq(seqs) = g[Len(seqs)]
<1> DEFINE c == CHOOSE g : g = [i \in 1..Len(seqs) |-> FlattenBody(g, seqs, i)]
<1>1. FlattenSeq(seqs) = c[Len(seqs)]
  BY DEF FlattenSeq, FlattenBody
<1>2. c = [i \in 1..Len(seqs) |-> FlattenBody(c, seqs, i)]
  BY FlattenExists
<1> HIDE DEF c
<1>3. \A i \in 1..Len(seqs) : c[i] = FlattenBody(c, seqs, i)
  BY <1>2
<1> QED
  BY <1>1, <1>3 DEF Flattens

\* No lists give no list members.
LEMMA FlattenEmpty == FlattenSeq(<<>>) = <<>>
  BY DEF FlattenSeq

\* One more sequence goes to the end.
LEMMA FlattenAppend ==
    ASSUME NEW S, NEW seqs \in Seq(Seq(S)), NEW s \in Seq(S)
    PROVE  FlattenSeq(Append(seqs, s)) = FlattenSeq(seqs) \o s
<1> DEFINE more == Append(seqs, s)
           n == Len(seqs)
<1>1. /\ more \in Seq(Seq(S)) /\ Len(more) = n + 1 /\ n \in Nat /\ more[n + 1] = s
      /\ \A i \in 1..n : seqs[i] = more[i]
      /\ n + 1 \in 1..(n + 1) /\ (n + 1) - 1 = n /\ n + 1 # 0
  OBVIOUS
<1> HIDE DEF more
<1>2. PICK h : Flattens(h, more, n + 1) /\ FlattenSeq(more) = h[n + 1]
  <2>1. Len(more) \in Nat /\ Len(more) # 0
    BY <1>1
  <2>2. \E h : Flattens(h, more, Len(more)) /\ FlattenSeq(more) = h[Len(more)]
    BY <2>1, FlattenIs
  <2> QED
    BY <1>1, <2>2
<1>3. FlattenSeq(more) = IF n + 1 = 1 THEN s ELSE h[n] \o s
  BY <1>1, <1>2 DEF Flattens, FlattenBody
<1>4. CASE n = 0
  <2>2. seqs = <<>>
    BY <1>4
  <2>3. FlattenSeq(seqs) = <<>>
    BY <2>2, FlattenEmpty
  <2> QED
    BY <1>3, <1>4, <2>3 DEF more
<1>5. CASE n # 0
  <2>1. PICK g : Flattens(g, seqs, n) /\ FlattenSeq(seqs) = g[n]
    BY <1>1, <1>5, FlattenIs
  <2>2. n \in Nat /\ n \in 1..n /\ n + 1 # 1
    BY <1>1, <1>5
  <2>3. Flattens(h, more, n)
    BY <1>1, <1>2 DEF Flattens
  <2>4. g[n] = h[n]
    <3>1. \A i \in 1..n : seqs[i] = more[i]
      BY <1>1
    <3> HIDE DEF n
    <3>2. \A i \in 1..n : g[i] = h[i]
      BY <2>1, <2>2, <2>3, <3>1, FlattensAlike
    <3> QED
      BY <2>2, <3>2
  <2> QED
    BY <1>3, <2>1, <2>2, <2>4 DEF more
<1> QED
  BY <1>4, <1>5

\* On lists of lists Joined is FlattenSeq.
LEMMA JoinedIsFlattened ==
    ASSUME NEW S, NEW seqs \in Seq(Seq(S))
    PROVE  Joined(seqs) = FlattenSeq(seqs)
BY ConcatEmptySeq DEF Joined

\* Joining nothing.
LEMMA JoinedEmpty == Joined(<<>>) = <<>>
<1>1. <<>> \in Seq(Seq({}))
  OBVIOUS
<1> QED
  BY <1>1, JoinedIsFlattened, FlattenEmpty

\* A list joined at the end is concatenated.
LEMMA JoinedAppend ==
    ASSUME NEW S, NEW seqs \in Seq(Seq(S)), NEW s \in Seq(S)
    PROVE  Joined(Append(seqs, s)) = Joined(seqs) \o s
<1>1. Append(seqs, s) \in Seq(Seq(S))
  OBVIOUS
<1> QED
  BY <1>1, JoinedIsFlattened, FlattenAppend

\* Induction over sequences, for a set of them.
LEMMA SeqInductionSet ==
    ASSUME NEW S, NEW P, <<>> \in P,
           \A s \in Seq(S) : \A e \in S : s \in P => Append(s, e) \in P
    PROVE  Seq(S) \subseteq P
<1> DEFINE Q == {n \in Nat : \A s \in Seq(S) : Len(s) = n => s \in P}
<1>1. 0 \in Q
  <2>1. \A s \in Seq(S) : Len(s) = 0 => s = <<>>
    OBVIOUS
  <2> QED
    BY <2>1
<1>2. \A n \in Nat : n \in Q => n + 1 \in Q
  <2> SUFFICES ASSUME NEW n \in Nat, n \in Q, NEW s \in Seq(S), Len(s) = n + 1
               PROVE  s \in P
    OBVIOUS
  <2> DEFINE front == SubSeq(s, 1, n)
  <2>1. front \in Seq(S) /\ Len(front) = n /\ s[n + 1] \in S /\ s = Append(front, s[n + 1])
    OBVIOUS
  <2> HIDE DEF front
  <2>2. front \in P
    BY <2>1
  <2> QED
    BY <2>1, <2>2
<1> HIDE DEF Q
<1>3. Nat \subseteq Q
  BY <1>1, <1>2, NatInductionSet
<1> QED
  BY <1>3 DEF Q

\* The places of the lists of a sequence of them, from left to right.
Places(seqs) == {p \in (DOMAIN seqs) \X Nat : p[2] \in DOMAIN seqs[p[1]]}

Prior(p, q) == p[1] < q[1] \/ (p[1] = q[1] /\ p[2] < q[2])

\* at gives the places of lists theirs in one list, which has the same members
\* in the same order.
Joins(at, seqs, joined) ==
    /\ at \in [Places(seqs) -> 1..Len(joined)]
    /\ \A k \in 1..Len(joined) : \E p \in Places(seqs) : at[p] = k
    /\ \A p \in Places(seqs) : joined[at[p]] = seqs[p[1]][p[2]]
    /\ \A p, q \in Places(seqs) : Prior(p, q) => at[p] < at[q]

\* What Joined returns: the members of the lists, each once and in order.
LEMMA JoinedPlaces ==
    ASSUME NEW S, NEW seqs \in Seq(Seq(S))
    PROVE  Joined(seqs) \in Seq(S) /\ \E at : Joins(at, seqs, Joined(seqs))
<1> DEFINE P == {s \in Seq(Seq(S)) :
                    Joined(s) \in Seq(S) /\ \E at : Joins(at, s, Joined(s))}
<1>1. <<>> \in P
  <2>1. Places(<<>>) = {}
    <3>1. DOMAIN <<>> = {}
      OBVIOUS
    <3> QED
      BY <3>1 DEF Places
  <2>2. Joins([p \in {} |-> 0], <<>>, <<>>)
    BY <2>1 DEF Joins
  <2> QED
    BY <2>2, JoinedEmpty, EmptySeq
<1>2. \A s \in Seq(Seq(S)) : \A e \in Seq(S) : s \in P => Append(s, e) \in P
  <2> SUFFICES ASSUME NEW s \in Seq(Seq(S)), NEW e \in Seq(S), s \in P
               PROVE  Append(s, e) \in P
    OBVIOUS
  <2> DEFINE more == Append(s, e)
             n == Len(s)
             m == Len(Joined(s))
             joined == Joined(s) \o e
  <2>1. PICK at : Joins(at, s, Joined(s))
    OBVIOUS
  <2>2. Joined(s) \in Seq(S)
    OBVIOUS
  <2>3. Joined(more) = joined
    BY JoinedAppend
  <2>4. /\ more \in Seq(Seq(S)) /\ n \in Nat /\ DOMAIN more = 1..(n + 1)
        /\ DOMAIN s = 1..n /\ more[n + 1] = e /\ \A i \in 1..n : more[i] = s[i]
        /\ DOMAIN e = 1..Len(e) /\ Len(e) \in Nat
    OBVIOUS
  <2>5. /\ joined \in Seq(S) /\ m \in Nat /\ Len(joined) = m + Len(e)
        /\ \A k \in 1..m : joined[k] = Joined(s)[k]
        /\ \A k \in 1..Len(e) : joined[m + k] = e[k]
    BY <2>2
  <2> HIDE DEF more, joined, n, m
  <2>6. \A p : p \in Places(more) <=>
                   p \in Places(s) \/ p \in {n + 1} \X (1..Len(e))
    <3> SUFFICES ASSUME NEW p
                 PROVE  p \in Places(more)
                            <=> p \in Places(s) \/ p \in {n + 1} \X (1..Len(e))
      OBVIOUS
    <3>1. p \in Places(more) <=> p \in (1..(n + 1)) \X Nat /\ p[2] \in DOMAIN more[p[1]]
      BY <2>4 DEF Places
    <3>2. p \in Places(s) <=> p \in (1..n) \X Nat /\ p[2] \in DOMAIN s[p[1]]
      BY <2>4 DEF Places
    <3>3. CASE p \in (1..n) \X Nat
      BY <2>4, <3>1, <3>2, <3>3
    <3>4. CASE p \in {n + 1} \X Nat
      BY <2>4, <3>1, <3>2, <3>4
    <3> QED
      BY <2>4, <3>1, <3>2, <3>3, <3>4
  <2>7. \A p \in Places(s) : p[1] \in 1..n /\ p[2] \in Nat /\ at[p] \in 1..m
    <3>1. \A p \in Places(s) : p \in (1..n) \X Nat
      BY <2>4 DEF Places
    <3>2. at \in [Places(s) -> 1..m]
      BY <2>1 DEF Joins, m
    <3> QED
      BY <3>1, <3>2
  <2> DEFINE next == [p \in Places(more) |-> IF p[1] = n + 1 THEN m + p[2] ELSE at[p]]
  <2>8. /\ \A p \in Places(s) : p \in Places(more) /\ next[p] = at[p]
        /\ \A k \in 1..Len(e) : <<n + 1, k>> \in Places(more) /\ next[<<n + 1, k>>] = m + k
    <3>1. \A p \in Places(s) : p \in Places(more) /\ p[1] # n + 1
      BY <2>4, <2>6, <2>7
    <3>2. \A k \in 1..Len(e) : <<n + 1, k>> \in Places(more)
      BY <2>6
    <3> QED
      BY <3>1, <3>2
  <2>9. Joins(next, more, joined)
    <3>1. next \in [Places(more) -> 1..Len(joined)]
      <4> SUFFICES ASSUME NEW p \in Places(more) PROVE next[p] \in 1..Len(joined)
        OBVIOUS
      <4>1. CASE p \in Places(s)
        <5>1. next[p] \in 1..m
          BY <2>7, <2>8, <4>1
        <5> HIDE DEF next
        <5> QED
          BY <2>4, <2>5, <5>1
      <4>2. CASE p \in {n + 1} \X (1..Len(e))
        BY <2>4, <2>5, <2>8, <4>2
      <4> QED
        BY <2>6, <4>1, <4>2
    <3> HIDE DEF next
    <3>2. ASSUME NEW k \in 1..Len(joined) PROVE \E p \in Places(more) : next[p] = k
      <4>1. CASE k <= m
        <5>1. PICK p \in Places(s) : at[p] = k
          BY <2>1, <2>5, <4>1 DEF Joins, m
        <5> QED
          BY <2>8, <5>1
      <4>2. CASE ~(k <= m)
        <5>1. k - m \in 1..Len(e) /\ m + (k - m) = k
          BY <2>4, <2>5, <4>2
        <5> QED
          BY <2>8, <5>1
      <4> QED
        BY <4>1, <4>2
    <3>3. ASSUME NEW p \in Places(more) PROVE joined[next[p]] = more[p[1]][p[2]]
      <4>1. CASE p \in Places(s)
        <5>1. Joined(s)[at[p]] = s[p[1]][p[2]]
          BY <2>1, <4>1 DEF Joins
        <5> QED
          <6>1. p[1] \in 1..n /\ at[p] \in 1..m /\ next[p] = at[p]
            BY <2>7, <2>8, <4>1
          <6>2. joined[at[p]] = Joined(s)[at[p]]
            BY <2>5, <6>1
          <6>3. more[p[1]] = s[p[1]]
            BY <2>4, <6>1
          <6> QED
            BY <5>1, <6>1, <6>2, <6>3
      <4>2. CASE p \in {n + 1} \X (1..Len(e))
        <5>1. p = <<n + 1, p[2]>> /\ p[2] \in 1..Len(e)
          BY <4>2
        <5>2. next[p] = m + p[2]
          BY <2>8, <5>1
        <5> QED
          BY <2>4, <2>5, <5>1, <5>2, SMTT(20)
      <4> QED
        BY <2>6, <4>1, <4>2
    <3>4. ASSUME NEW p \in Places(more), NEW q \in Places(more), Prior(p, q)
          PROVE  next[p] < next[q]
      <4>1. CASE p \in Places(s) /\ q \in Places(s)
        <5>1. at[p] < at[q]
          BY <2>1, <3>4, <4>1 DEF Joins
        <5> QED
          BY <2>8, <4>1, <5>1
      <4>2. CASE p \in Places(s) /\ q \in {n + 1} \X (1..Len(e))
        <5>1. q = <<n + 1, q[2]>> /\ q[2] \in 1..Len(e)
          BY <4>2
        <5>2. next[q] = m + q[2]
          BY <2>8, <5>1
        <5>3. next[p] = at[p] /\ at[p] \in 1..m
          BY <2>7, <2>8, <4>2
        <5> QED
          BY <2>4, <2>5, <5>1, <5>2, <5>3
      <4>3. CASE p \in {n + 1} \X (1..Len(e)) /\ q \in Places(s)
        BY <2>4, <2>7, <3>4, <4>3 DEF Prior
      <4>4. CASE p \in {n + 1} \X (1..Len(e)) /\ q \in {n + 1} \X (1..Len(e))
        <5>1. /\ p = <<n + 1, p[2]>> /\ p[2] \in 1..Len(e)
              /\ q = <<n + 1, q[2]>> /\ q[2] \in 1..Len(e)
          BY <4>4
        <5>2. next[p] = m + p[2] /\ next[q] = m + q[2]
          BY <2>8, <5>1
        <5>3. p[2] < q[2]
          BY <2>4, <3>4, <5>1 DEF Prior
        <5> QED
          BY <2>4, <2>5, <5>1, <5>2, <5>3
      <4> QED
        BY <2>6, <4>1, <4>2, <4>3, <4>4
    <3> QED
      BY <3>1, <3>2, <3>3, <3>4 DEF Joins
  <2> QED
    BY <2>3, <2>4, <2>5, <2>9 DEF more
<1> HIDE DEF P
<1>3. Seq(Seq(S)) \subseteq P
  BY <1>1, <1>2, SeqInductionSet
<1> QED
  BY <1>3 DEF P

\* A joined list has the members of its lists and no others.
LEMMA JoinedRange ==
    ASSUME NEW S, NEW seqs \in Seq(Seq(S)), NEW x
    PROVE  x \in Range(Joined(seqs)) <=> \E i \in DOMAIN seqs : x \in Range(seqs[i])
<1>1. PICK at : Joins(at, seqs, Joined(seqs))
  BY JoinedPlaces
<1>2. Joined(seqs) \in Seq(S)
  BY JoinedPlaces
<1>3. ASSUME NEW i \in DOMAIN seqs, x \in Range(seqs[i]) PROVE x \in Range(Joined(seqs))
  <2>1. seqs[i] \in Seq(S)
    OBVIOUS
  <2>2. PICK k \in DOMAIN seqs[i] : seqs[i][k] = x
    BY <1>3 DEF Range
  <2>3. k \in Nat
    BY <2>1
  <2>4. <<i, k>> \in Places(seqs)
    BY <2>2, <2>3 DEF Places
  <2>5. at[<<i, k>>] \in DOMAIN Joined(seqs) /\ Joined(seqs)[at[<<i, k>>]] = x
    BY <1>1, <1>2, <2>2, <2>4 DEF Joins
  <2> QED
    BY <2>5 DEF Range
<1>4. ASSUME x \in Range(Joined(seqs)) PROVE \E i \in DOMAIN seqs : x \in Range(seqs[i])
  <2>1. PICK k \in 1..Len(Joined(seqs)) : Joined(seqs)[k] = x
    BY <1>2, <1>4 DEF Range
  <2>2. PICK p \in Places(seqs) : at[p] = k
    BY <1>1 DEF Joins
  <2>3. seqs[p[1]][p[2]] = x
    BY <1>1, <2>1, <2>2 DEF Joins
  <2>4. p[1] \in DOMAIN seqs /\ p[2] \in DOMAIN seqs[p[1]]
    BY DEF Places
  <2> QED
    BY <2>3, <2>4 DEF Range
<1> QED
  BY <1>3, <1>4

\* The members of a list have ids of their own.
IdsDiffer(s) == \A i, j \in DOMAIN s : s[i].id = s[j].id => i = j

\* Lists without a common id, each without a double one, have none joined.
LEMMA JoinedIdsDiffer ==
    ASSUME NEW S, NEW seqs \in Seq(Seq(S)), \A i \in DOMAIN seqs : IdsDiffer(seqs[i]),
           \A i, j \in DOMAIN seqs : \A k \in DOMAIN seqs[i], l \in DOMAIN seqs[j] :
               seqs[i][k].id = seqs[j][l].id => i = j
    PROVE  IdsDiffer(Joined(seqs))
<1>1. PICK at : Joins(at, seqs, Joined(seqs))
  BY JoinedPlaces
<1>2. DOMAIN Joined(seqs) = 1..Len(Joined(seqs))
  BY JoinedPlaces
<1> SUFFICES ASSUME NEW k \in 1..Len(Joined(seqs)), NEW l \in 1..Len(Joined(seqs)),
                    Joined(seqs)[k].id = Joined(seqs)[l].id
             PROVE  k = l
  BY <1>2 DEF IdsDiffer
<1>3. PICK p \in Places(seqs) : at[p] = k
  BY <1>1 DEF Joins
<1>4. PICK q \in Places(seqs) : at[q] = l
  BY <1>1 DEF Joins
<1>5. seqs[p[1]][p[2]].id = seqs[q[1]][q[2]].id
  BY <1>1, <1>3, <1>4 DEF Joins
<1>6. /\ p[1] \in DOMAIN seqs /\ p[2] \in DOMAIN seqs[p[1]] /\ p = <<p[1], p[2]>>
      /\ q[1] \in DOMAIN seqs /\ q[2] \in DOMAIN seqs[q[1]] /\ q = <<q[1], q[2]>>
  BY DEF Places
<1>7. p[1] = q[1]
  BY <1>5, <1>6
<1>8. p[2] = q[2]
  BY <1>5, <1>6, <1>7 DEF IdsDiffer
<1> QED
  BY <1>3, <1>4, <1>6, <1>7, <1>8

\* at gives the selected places of a list theirs in the list of what is
\* selected, which has the members at these places in the same order.
Selects(at, seq, places, selected) ==
    /\ at \in [places -> 1..Len(selected)]
    /\ \A k \in 1..Len(selected) : \E i \in places : at[i] = k
    /\ \A i \in places : selected[at[i]] = seq[i]
    /\ \A i, j \in places : i < j => at[i] < at[j]

\* A selection has the members at the selected places, in their order.
LEMMA SelectedPlaces ==
    ASSUME NEW S, NEW seq \in Seq(S), NEW places \in SUBSET (DOMAIN seq)
    PROVE  /\ Selected(seq, places) \in Seq(S)
           /\ \E at : Selects(at, seq, places, Selected(seq, places))
<1> DEFINE seqs == [i \in DOMAIN seq |-> IF i \in places THEN <<seq[i]>> ELSE <<>>]
<1>1. seqs \in Seq(Seq(S)) /\ DOMAIN seqs = DOMAIN seq /\ DOMAIN seq = 1..Len(seq)
  <2>1. Len(seq) \in Nat /\ DOMAIN seq = 1..Len(seq)
    OBVIOUS
  <2>2. seqs \in [1..Len(seq) -> Seq(S)]
    OBVIOUS
  <2> HIDE DEF seqs
  <2> QED
    BY <2>1, <2>2
<1>2. \A i \in places : i \in DOMAIN seqs /\ i \in Nat /\ seqs[i] = <<seq[i]>>
  OBVIOUS
<1>3. \A i \in DOMAIN seqs : i \notin places => seqs[i] = <<>>
  OBVIOUS
<1>4. Selected(seq, places) = Joined(seqs)
  BY DEF Selected
<1> HIDE DEF seqs
<1>5. PICK to : Joins(to, seqs, Joined(seqs))
  BY <1>1, JoinedPlaces
<1>6. \A i \in places : <<i, 1>> \in Places(seqs)
  BY <1>2 DEF Places
<1>7. \A p \in Places(seqs) : p[1] \in places /\ p = <<p[1], 1>>
  <2> SUFFICES ASSUME NEW p \in Places(seqs) PROVE p[1] \in places /\ p = <<p[1], 1>>
    OBVIOUS
  <2>1. p = <<p[1], p[2]>> /\ p[1] \in DOMAIN seqs /\ p[2] \in DOMAIN seqs[p[1]]
    BY DEF Places
  <2>2. p[1] \in places
    BY <1>3, <2>1
  <2>3. DOMAIN seqs[p[1]] = {1}
    BY <1>2, <2>2
  <2> QED
    BY <2>1, <2>2, <2>3
<1> DEFINE at == [i \in places |-> to[<<i, 1>>]]
<1>8. at \in [places -> 1..Len(Joined(seqs))]
  BY <1>5, <1>6 DEF Joins
<1>9. ASSUME NEW k \in 1..Len(Joined(seqs)) PROVE \E i \in places : at[i] = k
  <2>1. PICK p \in Places(seqs) : to[p] = k
    BY <1>5 DEF Joins
  <2> QED
    BY <1>7, <2>1
<1>10. ASSUME NEW i \in places PROVE Joined(seqs)[at[i]] = seq[i]
  <2>1. Joined(seqs)[to[<<i, 1>>]] = seqs[i][1]
    BY <1>5, <1>6 DEF Joins
  <2> QED
    BY <1>2, <2>1
<1>11. ASSUME NEW i \in places, NEW j \in places, i < j PROVE at[i] < at[j]
  <2>1. Prior(<<i, 1>>, <<j, 1>>)
    BY <1>11 DEF Prior
  <2> QED
    BY <1>5, <1>6, <2>1 DEF Joins
<1> HIDE DEF at
<1>12. Selects(at, seq, places, Joined(seqs))
  BY <1>8, <1>9, <1>10, <1>11 DEF Selects
<1> QED
  BY <1>1, <1>4, <1>12, JoinedPlaces

\* The members of a selection.
LEMMA SelectedRange ==
    ASSUME NEW S, NEW seq \in Seq(S), NEW places \in SUBSET (DOMAIN seq)
    PROVE  Range(Selected(seq, places)) = {seq[i] : i \in places}
<1> DEFINE selected == Selected(seq, places)
<1>1. PICK at : Selects(at, seq, places, selected)
  BY SelectedPlaces
<1>2. DOMAIN selected = 1..Len(selected)
  BY SelectedPlaces
<1> HIDE DEF selected
<1>3. ASSUME NEW x \in Range(selected) PROVE x \in {seq[i] : i \in places}
  <2>1. PICK k \in 1..Len(selected) : selected[k] = x
    BY <1>2 DEF Range
  <2>2. PICK i \in places : at[i] = k
    BY <1>1 DEF Selects
  <2> QED
    BY <1>1, <2>1, <2>2 DEF Selects
<1>4. ASSUME NEW i \in places PROVE seq[i] \in Range(selected)
  <2>1. at[i] \in 1..Len(selected) /\ selected[at[i]] = seq[i]
    BY <1>1 DEF Selects
  <2> QED
    BY <1>2, <2>1 DEF Range
<1> QED
  BY <1>3, <1>4 DEF selected

\* A selection has no id twice when the selected places have not.
LEMMA SelectedIdsDiffer ==
    ASSUME NEW S, NEW seq \in Seq(S), NEW places \in SUBSET (DOMAIN seq),
           \A i, j \in places : seq[i].id = seq[j].id => i = j
    PROVE  IdsDiffer(Selected(seq, places))
<1> DEFINE selected == Selected(seq, places)
<1>1. PICK at : Selects(at, seq, places, selected)
  BY SelectedPlaces
<1>2. DOMAIN selected = 1..Len(selected)
  BY SelectedPlaces
<1> HIDE DEF selected
<1>3. ASSUME NEW k \in 1..Len(selected), NEW l \in 1..Len(selected),
             selected[k].id = selected[l].id
      PROVE  k = l
  <2>1. PICK i \in places : at[i] = k
    BY <1>1 DEF Selects
  <2>2. PICK j \in places : at[j] = l
    BY <1>1 DEF Selects
  <2> QED
    BY <1>1, <1>3, <2>1, <2>2 DEF Selects
<1> QED
  BY <1>2, <1>3 DEF IdsDiffer, selected

\* A selection has a member for each selected place.
LEMMA SelectedCount ==
    ASSUME NEW S, NEW seq \in Seq(S), NEW places \in SUBSET (DOMAIN seq)
    PROVE  IsFiniteSet(places) /\ Len(Selected(seq, places)) = Cardinality(places)
<1> DEFINE n == Len(Selected(seq, places))
<1>1. PICK at : Selects(at, seq, places, Selected(seq, places))
  BY SelectedPlaces
<1>2. n \in Nat /\ places \subseteq 1..Len(seq) /\ Len(seq) \in Nat
  BY SelectedPlaces
<1>3. \A i, j \in places : i # j => at[i] # at[j]
  <2> SUFFICES ASSUME NEW i \in places, NEW j \in places, i # j PROVE at[i] # at[j]
    OBVIOUS
  <2>1. i \in Int /\ j \in Int
    BY <1>2
  <2>2. i < j \/ j < i
    BY <2>1
  <2>3. at[i] \in Int /\ at[j] \in Int
    BY <1>1 DEF Selects
  <2> QED
    BY <1>1, <2>2, <2>3 DEF Selects
<1>4. IsFiniteSet(places)
  BY <1>2, FS_Interval, FS_Subset
<1>5. at \in Bijection(places, 1..n)
  BY <1>1, <1>3, Fun_IsBij DEF Selects
<1> HIDE DEF n
<1>6. Cardinality(1..n) = n
  BY <1>2, FS_Interval
<1> USE DEF n
<1> QED
  BY <1>4, <1>5, <1>6, FS_Bijection, Fun_ExistsBij

\* A function from the numbers up to n is a sequence.
LEMMA FunctionIsSeq ==
    ASSUME NEW S, NEW n \in Nat, NEW f \in [1..n -> S]
    PROVE  f \in Seq(S) /\ Len(f) = n /\ DOMAIN f = 1..n
OBVIOUS

\* A sequence is one over its own members.
LEMMA SeqOfItsRange ==
    ASSUME NEW S, NEW s \in Seq(S)
    PROVE  s \in Seq(Range(s))
BY DEF Range

\* A function on 1..n with lists as its values is a sequence of lists.
LEMMA SeqOfLists ==
    ASSUME NEW n \in Nat, NEW f, f = [i \in 1..n |-> f[i]],
           \A i \in 1..n : f[i] \in Seq(Range(f[i]))
    PROVE  DOMAIN f = 1..n /\ \E S : f \in Seq(Seq(S))
<1> DEFINE S == UNION {Range(f[i]) : i \in 1..n}
<1>1. ASSUME NEW i \in 1..n PROVE f[i] \in Seq(S)
  <2>1. Range(f[i]) \subseteq S
    OBVIOUS
  <2> QED
    BY <2>1, SeqMonotonic
<1> HIDE DEF S
<1>2. f \in [1..n -> Seq(S)]
  BY <1>1
<1> QED
  BY <1>2, FunctionIsSeq

-------------------------------------------------------------------------------
(* The order of a list. *)

\* Sequences of the same length and members are the same.
LEMMA SameMembers ==
    ASSUME NEW S, NEW s \in Seq(S), NEW T, NEW t \in Seq(T), Len(s) = Len(t),
           \A k \in 1..Len(s) : s[k] = t[k]
    PROVE  s = t
<1>1. s = [k \in 1..Len(s) |-> s[k]] /\ t = [k \in 1..Len(t) |-> t[k]]
  OBVIOUS
<1> QED
  BY <1>1

\* A numbering of the members of a set without gaps, and two of them in the same
\* order.
Numbers(f, A, n) ==
    n \in Nat /\ f \in [A -> 1..n] /\ \A k \in 1..n : \E a \in A : f[a] = k

OrderAlike(f, g, A) == \A a, b \in A : f[a] < f[b] <=> g[a] < g[b]

\* Two numberings of a set that agree on what comes first are the same.
LEMMA SameOrder ==
    ASSUME NEW A, NEW n, NEW m, NEW f, NEW g,
           Numbers(f, A, n), Numbers(g, A, m), OrderAlike(f, g, A)
    PROVE  n = m /\ f = g
<1>0. /\ n \in Nat /\ m \in Nat /\ f \in [A -> 1..n] /\ g \in [A -> 1..m]
      /\ \A k \in 1..n : \E a \in A : f[a] = k
      /\ \A k \in 1..m : \E a \in A : g[a] = k
      /\ \A a, b \in A : f[a] < f[b] <=> g[a] < g[b]
  BY DEF Numbers, OrderAlike
<1> DEFINE P == {k \in Nat : \A a \in A : f[a] <= k \/ g[a] <= k => f[a] = g[a]}
<1>1. 0 \in P
  BY <1>0
<1>2. ASSUME NEW k \in Nat, k \in P PROVE k + 1 \in P
  <2> SUFFICES ASSUME NEW a \in A, f[a] <= k + 1 \/ g[a] <= k + 1
               PROVE  f[a] = g[a]
    BY <1>0
  <2>1. f[a] \in 1..n /\ g[a] \in 1..m
    BY <1>0
  <2>2. \A b \in A : f[b] <= k \/ g[b] <= k => f[b] = g[b]
    BY <1>0, <1>2
  <2>3. CASE f[a] = k + 1 /\ g[a] > k + 1
    <3>1. PICK b \in A : g[b] = k + 1
      BY <1>0, <2>1, <2>3
    <3>2. f[b] < f[a] /\ f[b] \in 1..n
      BY <1>0, <2>3, <3>1
    <3> QED
      BY <1>0, <2>2, <2>3, <3>1, <3>2
  <2>4. CASE g[a] = k + 1 /\ f[a] > k + 1
    <3>1. PICK b \in A : f[b] = k + 1
      BY <1>0, <2>1, <2>4
    <3>2. g[b] < g[a] /\ g[b] \in 1..m
      BY <1>0, <2>4, <3>1
    <3> QED
      BY <1>0, <2>2, <2>4, <3>1, <3>2
  <2> QED
    BY <1>0, <2>1, <2>2, <2>3, <2>4
<1> HIDE DEF P
<1>3. Nat \subseteq P
  BY <1>1, <1>2, NatInductionSet
<1>4. \A a \in A : f[a] = g[a]
  <2> SUFFICES ASSUME NEW a \in A PROVE f[a] = g[a]
    BY <1>0
  <2>1. f[a] \in P /\ f[a] <= f[a]
    BY <1>0, <1>3
  <2> QED
    BY <1>0, <2>1 DEF P
<1>5. n <= m
  <2>1. CASE n = 0
    BY <1>0, <2>1
  <2>2. CASE n # 0
    <3>1. PICK a \in A : f[a] = n
      BY <1>0, <2>2
    <3> QED
      BY <1>0, <1>4, <3>1
  <2> QED
    BY <1>0, <2>1, <2>2
<1>6. m <= n
  <2>1. CASE m = 0
    BY <1>0, <2>1
  <2>2. CASE m # 0
    <3>1. PICK a \in A : g[a] = m
      BY <1>0, <2>2
    <3> QED
      BY <1>0, <1>4, <3>1
  <2> QED
    BY <1>0, <2>1, <2>2
<1> QED
  BY <1>0, <1>4, <1>5, <1>6

\* h maps places of a list to places of another, in their order, and the
\* members there are the same.
MapsPlaces(h, seq, places, other, others) ==
    /\ h \in [places -> others]
    /\ \A j \in others : \E i \in places : h[i] = j
    /\ \A i, j \in places : i < j => h[i] < h[j]
    /\ \A i \in places : seq[i] = other[h[i]]

\* Selections from two lists are the same when their places correspond in
\* order.
LEMMA SelectedAlike ==
    ASSUME NEW S, NEW seq \in Seq(S), NEW places \in SUBSET (DOMAIN seq),
           NEW T, NEW other \in Seq(T), NEW others \in SUBSET (DOMAIN other),
           NEW h, MapsPlaces(h, seq, places, other, others)
    PROVE  Selected(seq, places) = Selected(other, others)
<1>0. /\ h \in [places -> others]
      /\ \A j \in others : \E i \in places : h[i] = j
      /\ \A i, j \in places : i < j => h[i] < h[j]
      /\ \A i \in places : seq[i] = other[h[i]]
  BY DEF MapsPlaces
<1> DEFINE s == Selected(seq, places)
           t == Selected(other, others)
           n == Len(s)
           m == Len(t)
<1>1. PICK f : Selects(f, seq, places, s)
  BY SelectedPlaces
<1>2. PICK e : Selects(e, other, others, t)
  BY SelectedPlaces
<1>3. /\ s \in Seq(S) /\ t \in Seq(T) /\ n \in Nat /\ m \in Nat
      /\ DOMAIN s = 1..n /\ DOMAIN t = 1..m
  BY SelectedPlaces
<1>4. /\ \A i \in places : i \in Int
      /\ \A j \in others : j \in Int
  OBVIOUS
<1> HIDE DEF s, t
<1> DEFINE g == [i \in places |-> e[h[i]]]
<1>5. f \in [places -> 1..n] /\ g \in [places -> 1..m]
  BY <1>0, <1>1, <1>2 DEF Selects
<1>6. /\ \A k \in 1..n : \E i \in places : f[i] = k
      /\ \A i, j \in places : i < j => f[i] < f[j]
      /\ \A i \in places : s[f[i]] = seq[i]
  BY <1>1 DEF Selects
<1>7. /\ \A k \in 1..m : \E i \in others : e[i] = k
      /\ \A i, j \in others : i < j => e[i] < e[j]
      /\ \A i \in others : t[e[i]] = other[i]
  BY <1>2 DEF Selects
<1>8. \A i \in places : g[i] = e[h[i]] /\ h[i] \in others
  BY <1>0
<1> HIDE DEF g, n, m
<1>9. \A k \in 1..m : \E i \in places : g[i] = k
  BY <1>0, <1>7, <1>8
<1>10. \A i, j \in places : i < j => g[i] < g[j]
  BY <1>0, <1>7, <1>8
<1>11. \A i, j \in places : f[i] < f[j] <=> g[i] < g[j]
  <2> SUFFICES ASSUME NEW i \in places, NEW j \in places
               PROVE  f[i] < f[j] <=> g[i] < g[j]
    OBVIOUS
  <2>1. f[i] \in Int /\ f[j] \in Int /\ g[i] \in Int /\ g[j] \in Int
    BY <1>3, <1>5
  <2>2. i < j \/ i = j \/ j < i
    BY <1>4
  <2> QED
    BY <1>6, <1>10, <2>1, <2>2
<1>12. n = m /\ f = g
  <2>1. Numbers(f, places, n) /\ Numbers(g, places, m) /\ OrderAlike(f, g, places)
    BY <1>3, <1>5, <1>6, <1>9, <1>11 DEF Numbers, OrderAlike
  <2> QED
    BY ONLY <2>1, SameOrder
<1>13. ASSUME NEW k \in 1..n PROVE s[k] = t[k]
  <2>1. PICK i \in places : f[i] = k
    BY <1>6
  <2>2. s[k] = seq[i] /\ t[e[h[i]]] = other[h[i]] /\ e[h[i]] = k
    BY <1>0, <1>6, <1>7, <1>8, <1>12, <2>1
  <2> QED
    BY <1>0, <2>1, <2>2
<1>14. Len(s) = Len(t) /\ \A k \in 1..Len(s) : s[k] = t[k]
  BY <1>12, <1>13 DEF n, m
<1> QED
  BY <1>3, <1>14, SameMembers DEF s, t

-------------------------------------------------------------------------------
(* The order of the chain. *)

Earlier(x, y) == x.round < y.round \/ (x.round = y.round /\ x.offset < y.offset)

Sorted(s) == \A i, j \in DOMAIN s : i < j => Earlier(s[i], s[j])

Keyed(s) == \A i \in DOMAIN s : s[i].round \in Nat /\ s[i].offset \in Nat

\* There is one list of given members in the order of the chain.
LEMMA SortedUnique ==
    ASSUME NEW s, NEW t, s \in Seq(Range(s)), t \in Seq(Range(t)), Range(s) = Range(t),
           Keyed(s), Sorted(s), Sorted(t)
    PROVE  s = t
<1> DEFINE A == Range(s)
           n == Len(s)
           m == Len(t)
           f == [x \in A |-> CHOOSE i \in 1..n : s[i] = x]
           g == [x \in A |-> CHOOSE i \in 1..m : t[i] = x]
<1>1. n \in Nat /\ m \in Nat /\ DOMAIN s = 1..n /\ DOMAIN t = 1..m
  OBVIOUS
<1>2. /\ \A x \in A : \E i \in 1..n : s[i] = x
      /\ \A x \in A : \E i \in 1..m : t[i] = x
      /\ \A i \in 1..n : s[i] \in A
      /\ \A i \in 1..m : t[i] \in A
  BY <1>1 DEF Range
<1>3. \A x \in A : x.round \in Nat /\ x.offset \in Nat
  BY <1>1, <1>2 DEF Keyed
<1> HIDE DEF A, n, m
<1>4. f \in [A -> 1..n] /\ g \in [A -> 1..m] /\ \A x \in A : s[f[x]] = x /\ t[g[x]] = x
  BY <1>2
<1> HIDE DEF f, g
<1>5. \A x, y \in A : Earlier(x, y) => x # y /\ ~Earlier(y, x)
  BY <1>3 DEF Earlier
<1>6. \A i, j \in 1..n : i # j => s[i] # s[j]
  <2>1. \A i, j \in 1..n : i < j => s[i] # s[j]
    BY <1>1, <1>2, <1>5 DEF Sorted
  <2> QED
    BY <1>1, <2>1
<1>7. \A i, j \in 1..m : i # j => t[i] # t[j]
  <2>1. \A i, j \in 1..m : i < j => t[i] # t[j]
    BY <1>1, <1>2, <1>5 DEF Sorted
  <2> QED
    BY <1>1, <2>1
<1>8. ASSUME NEW x \in A, NEW y \in A
      PROVE  /\ f[x] < f[y] <=> Earlier(x, y)
             /\ g[x] < g[y] <=> Earlier(x, y)
  <2>1. /\ f[x] \in 1..n /\ f[y] \in 1..n /\ s[f[x]] = x /\ s[f[y]] = y
        /\ g[x] \in 1..m /\ g[y] \in 1..m /\ t[g[x]] = x /\ t[g[y]] = y
    BY <1>4
  <2>2. f[x] < f[y] => Earlier(x, y)
    BY <1>1, <2>1 DEF Sorted
  <2>3. f[y] < f[x] => Earlier(y, x)
    BY <1>1, <2>1 DEF Sorted
  <2>4. g[x] < g[y] => Earlier(x, y)
    BY <1>1, <2>1 DEF Sorted
  <2>5. g[y] < g[x] => Earlier(y, x)
    BY <1>1, <2>1 DEF Sorted
  <2>6. (f[x] = f[y] => x = y) /\ (g[x] = g[y] => x = y)
    BY <2>1
  <2>7. (f[x] < f[y] \/ f[y] < f[x] \/ f[x] = f[y]) /\ (g[x] < g[y] \/ g[y] < g[x] \/ g[x] = g[y])
    BY <1>1, <2>1
  <2> QED
    BY <1>5, <2>2, <2>3, <2>4, <2>5, <2>6, <2>7
<1>9. /\ \A k \in 1..n : \E x \in A : f[x] = k
      /\ \A k \in 1..m : \E x \in A : g[x] = k
  <2>1. \A k \in 1..n : f[s[k]] = k
    <3> SUFFICES ASSUME NEW k \in 1..n PROVE f[s[k]] = k
      OBVIOUS
    <3>1. s[k] \in A
      BY <1>2
    <3>2. f[s[k]] \in 1..n /\ s[f[s[k]]] = s[k]
      BY <1>4, <3>1
    <3> QED
      BY <1>6, <3>2
  <2>2. \A k \in 1..m : g[t[k]] = k
    <3> SUFFICES ASSUME NEW k \in 1..m PROVE g[t[k]] = k
      OBVIOUS
    <3>1. t[k] \in A
      BY <1>2
    <3>2. g[t[k]] \in 1..m /\ t[g[t[k]]] = t[k]
      BY <1>4, <3>1
    <3> QED
      BY <1>7, <3>2
  <2> QED
    BY <1>2, <2>1, <2>2
<1>10. \A x, y \in A : f[x] < f[y] <=> g[x] < g[y]
  BY <1>8
<1>11. n = m /\ f = g
  <2>1. Numbers(f, A, n) /\ Numbers(g, A, m) /\ OrderAlike(f, g, A)
    BY <1>1, <1>4, <1>9, <1>10 DEF Numbers, OrderAlike
  <2> QED
    BY ONLY <2>1, SameOrder
<1>12. ASSUME NEW k \in 1..n PROVE s[k] = t[k]
  <2>1. PICK x \in A : f[x] = k
    BY <1>9
  <2> QED
    BY <1>4, <1>11, <2>1
<1> QED
  BY <1>11, <1>12, SameMembers DEF n, m

\* Of two members of a list of lists the earlier one is in an earlier list, or at
\* an earlier place of the same one.
LEMMA JoinedOrder ==
    ASSUME NEW S, NEW seqs \in Seq(Seq(S)),
           NEW k \in DOMAIN Joined(seqs), NEW l \in DOMAIN Joined(seqs), k < l
    PROVE  \E p, q \in Places(seqs) :
               /\ Joined(seqs)[k] = seqs[p[1]][p[2]] /\ Joined(seqs)[l] = seqs[q[1]][q[2]]
               /\ Prior(p, q)
<1>1. PICK at : Joins(at, seqs, Joined(seqs))
  BY JoinedPlaces
<1>2. Joined(seqs) \in Seq(S) /\ DOMAIN Joined(seqs) = 1..Len(Joined(seqs))
  BY JoinedPlaces
<1>3. PICK p \in Places(seqs) : at[p] = k
  BY <1>1, <1>2 DEF Joins
<1>4. PICK q \in Places(seqs) : at[q] = l
  BY <1>1, <1>2 DEF Joins
<1>5. /\ Joined(seqs)[k] = seqs[p[1]][p[2]] /\ Joined(seqs)[l] = seqs[q[1]][q[2]]
      /\ (Prior(q, p) => at[q] < at[p])
  BY <1>1, <1>3, <1>4 DEF Joins
<1>6. /\ p[1] \in DOMAIN seqs /\ p = <<p[1], p[2]>> /\ q[1] \in DOMAIN seqs /\ q = <<q[1], q[2]>>
      /\ p[2] \in Nat /\ q[2] \in Nat
  BY DEF Places
<1>7. p[1] \in Int /\ q[1] \in Int /\ k \in Int /\ l \in Int
  BY <1>2, <1>6
<1>8. Prior(p, q)
  <2>1. CASE Prior(q, p)
    BY <1>3, <1>4, <1>5, <1>7, <2>1
  <2>2. CASE p[1] = q[1] /\ p[2] = q[2]
    <3>1. p = q
      BY <1>6, <2>2
    <3> QED
      BY <1>3, <1>4, <1>7, <3>1
  <2>3. p[1] \in Int /\ q[1] \in Int /\ p[2] \in Int /\ q[2] \in Int
    BY <1>6, <1>7
  <2> QED
    BY <2>1, <2>2, <2>3 DEF Prior
<1> QED
  BY <1>5, <1>8

\* What comes earlier in a selection comes earlier in the list.
LEMMA SelectedOrder ==
    ASSUME NEW S, NEW seq \in Seq(S), NEW places \in SUBSET (DOMAIN seq),
           NEW k \in DOMAIN Selected(seq, places), NEW l \in DOMAIN Selected(seq, places), k < l
    PROVE  \E i, j \in places :
               i < j /\ Selected(seq, places)[k] = seq[i] /\ Selected(seq, places)[l] = seq[j]
<1> DEFINE s == Selected(seq, places)
<1>1. PICK at : Selects(at, seq, places, s)
  BY SelectedPlaces
<1>2. s \in Seq(S) /\ DOMAIN s = 1..Len(s) /\ Len(s) \in Nat /\ k \in DOMAIN s /\ l \in DOMAIN s
  BY SelectedPlaces
<1>3. \A i \in places : i \in Int
  OBVIOUS
<1> HIDE DEF s
<1>4. PICK i \in places : at[i] = k
  BY <1>1, <1>2 DEF Selects
<1>5. PICK j \in places : at[j] = l
  BY <1>1, <1>2 DEF Selects
<1>6. s[k] = seq[i] /\ s[l] = seq[j] /\ (j < i => at[j] < at[i])
  BY <1>1, <1>4, <1>5 DEF Selects
<1>7. i < j
  BY <1>2, <1>3, <1>4, <1>5, <1>6
<1> QED
  BY <1>6, <1>7 DEF s

\* Sorted lists, each wholly earlier than the next, are sorted when joined.
LEMMA JoinedSorted ==
    ASSUME NEW S, NEW seqs \in Seq(Seq(S)), \A i \in DOMAIN seqs : Sorted(seqs[i]),
           \A i, j \in DOMAIN seqs : i < j =>
               \A k \in DOMAIN seqs[i], l \in DOMAIN seqs[j] : Earlier(seqs[i][k], seqs[j][l])
    PROVE  Sorted(Joined(seqs))
<1> SUFFICES ASSUME NEW k \in DOMAIN Joined(seqs), NEW l \in DOMAIN Joined(seqs), k < l
             PROVE  Earlier(Joined(seqs)[k], Joined(seqs)[l])
  BY DEF Sorted
<1>1. PICK p \in Places(seqs), q \in Places(seqs) :
          /\ Joined(seqs)[k] = seqs[p[1]][p[2]] /\ Joined(seqs)[l] = seqs[q[1]][q[2]]
          /\ Prior(p, q)
  BY JoinedOrder
<1>2. /\ p[1] \in DOMAIN seqs /\ p[2] \in DOMAIN seqs[p[1]]
      /\ q[1] \in DOMAIN seqs /\ q[2] \in DOMAIN seqs[q[1]]
  BY DEF Places
<1> QED
  BY <1>1, <1>2 DEF Prior, Sorted

\* A selection of places in order is sorted.
LEMMA SelectedSorted ==
    ASSUME NEW S, NEW seq \in Seq(S), NEW places \in SUBSET (DOMAIN seq),
           \A i, j \in places : i < j => Earlier(seq[i], seq[j])
    PROVE  Sorted(Selected(seq, places))
BY SelectedOrder DEF Sorted

-------------------------------------------------------------------------------
(* A total order numbers a list. *)

IsOrder(R, n) ==
    /\ \A i \in 1..n : <<i, i>> \notin R
    /\ \A i, j \in 1..n : i # j => <<i, j>> \in R \/ <<j, i>> \in R
    /\ \A i, j, k \in 1..n : <<i, j>> \in R /\ <<j, k>> \in R => <<i, k>> \in R

Preceding(R, n, i) == {j \in 1..n : <<j, i>> \in R}

Rank(R, n, i) == 1 + Cardinality(Preceding(R, n, i))

\* The rank in a strict total order of 1..n is a permutation of 1..n that keeps
\* the order.
LEMMA RankIsPlace ==
    ASSUME NEW R, NEW n \in Nat, IsOrder(R, n)
    PROVE  /\ \A i \in 1..n : Rank(R, n, i) \in 1..n
           /\ \A i, j \in 1..n : <<i, j>> \in R => Rank(R, n, i) < Rank(R, n, j)
           /\ \A i, j \in 1..n : Rank(R, n, i) = Rank(R, n, j) => i = j
           /\ \A k \in 1..n : \E i \in 1..n : Rank(R, n, i) = k
<1>1. IsFiniteSet(1..n) /\ Cardinality(1..n) = n
  BY FS_Interval
<1>2. \A i \in 1..n : IsFiniteSet(Preceding(R, n, i)) /\ Preceding(R, n, i) \in SUBSET (1..n)
                      /\ Cardinality(Preceding(R, n, i)) \in Nat
  <2> SUFFICES ASSUME NEW i \in 1..n
               PROVE  IsFiniteSet(Preceding(R, n, i)) /\ Preceding(R, n, i) \in SUBSET (1..n)
                      /\ Cardinality(Preceding(R, n, i)) \in Nat
    OBVIOUS
  <2>1. Preceding(R, n, i) \in SUBSET (1..n)
    BY DEF Preceding
  <2> QED
    BY <1>1, <2>1, FS_Subset, FS_CardinalityType
<1>3. \A i \in 1..n : Rank(R, n, i) \in 1..n
  <2> SUFFICES ASSUME NEW i \in 1..n PROVE Rank(R, n, i) \in 1..n
    OBVIOUS
  <2> DEFINE B == Preceding(R, n, i)
  <2>1. i \notin B
    BY DEF Preceding, IsOrder
  <2>2. IsFiniteSet(B) /\ Cardinality(B) \in Nat /\ B \in SUBSET (1..n)
    BY <1>2
  <2> HIDE DEF B
  <2>3. Cardinality(B) <= n /\ (Cardinality(B) = n => B = 1..n)
    BY <1>1, <2>2, FS_Subset
  <2>4. Cardinality(B) # n
    BY <2>1, <2>3
  <2>5. Rank(R, n, i) = 1 + Cardinality(B)
    BY DEF Rank, B
  <2> QED
    BY <2>2, <2>3, <2>4, <2>5
<1>4. \A i, j \in 1..n : <<i, j>> \in R => Rank(R, n, i) < Rank(R, n, j)
  <2> SUFFICES ASSUME NEW i \in 1..n, NEW j \in 1..n, <<i, j>> \in R
               PROVE  Rank(R, n, i) < Rank(R, n, j)
    OBVIOUS
  <2> DEFINE B == Preceding(R, n, i)
             C == Preceding(R, n, j)
  <2>1. B \subseteq C /\ i \in C /\ i \notin B
    BY DEF Preceding, IsOrder
  <2>2. /\ IsFiniteSet(B) /\ Cardinality(B) \in Nat
        /\ IsFiniteSet(C) /\ Cardinality(C) \in Nat
    BY <1>2
  <2>5. Rank(R, n, i) = 1 + Cardinality(B) /\ Rank(R, n, j) = 1 + Cardinality(C)
    BY DEF Rank
  <2> HIDE DEF B, C
  <2>3. Cardinality(B) <= Cardinality(C) /\ (Cardinality(C) = Cardinality(B) => C = B)
    BY <2>1, <2>2, FS_Subset
  <2>4. Cardinality(B) # Cardinality(C)
    BY <2>1, <2>3
  <2> QED
    BY <2>2, <2>3, <2>4, <2>5
<1>5. \A i, j \in 1..n : Rank(R, n, i) = Rank(R, n, j) => i = j
  <2> SUFFICES ASSUME NEW i \in 1..n, NEW j \in 1..n, Rank(R, n, i) = Rank(R, n, j), i # j
               PROVE  FALSE
    OBVIOUS
  <2>1. <<i, j>> \in R \/ <<j, i>> \in R
    BY DEF IsOrder
  <2>2. Rank(R, n, i) \in Int
    BY <1>3
  <2> QED
    BY <1>4, <2>1, <2>2
<1>6. \A k \in 1..n : \E i \in 1..n : Rank(R, n, i) = k
  <2> DEFINE f == [i \in 1..n |-> Rank(R, n, i)]
  <2>1. f \in [1..n -> 1..n]
    BY <1>3
  <2>2. \A i, j \in 1..n : f[i] = f[j] => i = j
    BY <1>5
  <2>5. \A i \in 1..n : f[i] = Rank(R, n, i)
    OBVIOUS
  <2> HIDE DEF f
  <2>3. f \in Injection(1..n, 1..n)
    BY <2>1, <2>2 DEF Injection, IsInjective
  <2>4. f \in Surjection(1..n, 1..n)
    BY <1>1, <2>3, FS_Injection
  <2> QED
    BY <2>4, <2>5 DEF Surjection
<1> QED
  BY <1>3, <1>4, <1>5, <1>6

\* Where the members of a list of lists come from.
JoinsFrom(place, seqs, joined) ==
    /\ place \in [1..Len(joined) -> Places(seqs)]
    /\ \A k \in 1..Len(joined) : joined[k] = seqs[place[k][1]][place[k][2]]
    /\ \A k, l \in 1..Len(joined) : k < l => Prior(place[k], place[l])
    /\ \A p \in Places(seqs) : \E k \in 1..Len(joined) : place[k] = p

\* Each place of a joined list comes from one place of one of its lists.
LEMMA JoinedFrom ==
    ASSUME NEW S, NEW seqs \in Seq(Seq(S))
    PROVE  \E place : JoinsFrom(place, seqs, Joined(seqs))
<1> DEFINE joined == Joined(seqs)
           n == Len(joined)
<1>1. PICK at : Joins(at, seqs, joined)
  BY JoinedPlaces
<1>2. joined \in Seq(S) /\ n \in Nat
  BY JoinedPlaces
<1> HIDE DEF joined
<1>3. \A p \in Places(seqs) : p = <<p[1], p[2]>> /\ p[1] \in Int /\ p[2] \in Int
  BY DEF Places
<1>4. \A p \in Places(seqs) : at[p] \in 1..n
  BY <1>1 DEF Joins
<1>5. \A p, q \in Places(seqs) : at[p] < at[q] => Prior(p, q)
  <2> SUFFICES ASSUME NEW p \in Places(seqs), NEW q \in Places(seqs), at[p] < at[q]
               PROVE  Prior(p, q)
    OBVIOUS
  <2>1. at[p] \in Int /\ at[q] \in Int
    BY <1>4
  <2>2. ~Prior(q, p)
    BY <1>1, <2>1 DEF Joins
  <2>3. p # q
    BY <2>1
  <2>4. p[1] # q[1] \/ p[2] # q[2]
    <3> SUFFICES ASSUME p[1] = q[1], p[2] = q[2] PROVE FALSE
      OBVIOUS
    <3>1. p = <<p[1], p[2]>> /\ q = <<q[1], q[2]>>
      BY <1>3
    <3> QED
      BY <2>3, <3>1
  <2>5. p[1] \in Int /\ p[2] \in Int /\ q[1] \in Int /\ q[2] \in Int
    BY <1>3
  <2> QED
    BY <2>2, <2>4, <2>5 DEF Prior
<1>6. \A p, q \in Places(seqs) : at[p] = at[q] => p = q
  <2> SUFFICES ASSUME NEW p \in Places(seqs), NEW q \in Places(seqs), p # q
               PROVE  at[p] # at[q]
    OBVIOUS
  <2>1. at[p] \in Int /\ at[q] \in Int
    BY <1>4
  <2>2. p[1] # q[1] \/ p[2] # q[2]
    <3> SUFFICES ASSUME p[1] = q[1], p[2] = q[2] PROVE FALSE
      OBVIOUS
    <3>1. p = <<p[1], p[2]>> /\ q = <<q[1], q[2]>>
      BY <1>3
    <3> QED
      BY <3>1
  <2>3. p[1] \in Int /\ p[2] \in Int /\ q[1] \in Int /\ q[2] \in Int
    BY <1>3
  <2>4. Prior(p, q) \/ Prior(q, p)
    BY <2>2, <2>3 DEF Prior
  <2> QED
    BY <1>1, <2>1, <2>4 DEF Joins
<1> DEFINE place == [k \in 1..n |-> CHOOSE p \in Places(seqs) : at[p] = k]
<1>7. \A k \in 1..n : \E p \in Places(seqs) : at[p] = k
  BY <1>1 DEF Joins
<1>8. \A k \in 1..n : place[k] \in Places(seqs) /\ at[place[k]] = k
  BY <1>7
<1>9. place \in [1..n -> Places(seqs)]
  BY <1>8
<1> HIDE DEF place
<1>10. \A k \in 1..n : joined[k] = seqs[place[k][1]][place[k][2]]
  BY <1>1, <1>8 DEF Joins
<1>11. \A k, l \in 1..n : k < l => Prior(place[k], place[l])
  BY <1>5, <1>8
<1>12. \A p \in Places(seqs) : place[at[p]] = p
  BY <1>4, <1>6, <1>8
<1>13. \A p \in Places(seqs) : \E k \in 1..n : place[k] = p
  BY <1>4, <1>12
<1> QED
  BY <1>9, <1>10, <1>11, <1>13 DEF JoinsFrom, joined

-------------------------------------------------------------------------------
(* Sums. *)

SumBody(g, f, s) ==
    IF s = {} THEN 0 ELSE LET x == CHOOSE x \in s : TRUE IN f[x] + g[s \ {x}]

\* g sums f over the subsets of S.
SumsUp(g, f, S) == g = [s \in SUBSET S |-> SumBody(g, f, s)]

UpToSize(S, n) == {s \in SUBSET S : Cardinality(s) <= n}

\* The recursion of the sum has a solution over the subsets of a finite set.
LEMMA SumExists ==
    ASSUME NEW f, NEW S, IsFiniteSet(S)
    PROVE  \E g : SumsUp(g, f, S)
<1> DEFINE P == {n \in Nat : \E g : g = [s \in UpToSize(S, n) |-> SumBody(g, f, s)]}
<1>0. ASSUME NEW s \in SUBSET S
      PROVE  /\ IsFiniteSet(s) /\ Cardinality(s) \in Nat /\ (Cardinality(s) = 0 <=> s = {})
             /\ \A x \in s : s \ {x} \in SUBSET S /\ Cardinality(s \ {x}) = Cardinality(s) - 1
  <2>1. IsFiniteSet(s)
    BY FS_Subset
  <2>2. Cardinality(s) \in Nat /\ (Cardinality(s) = 0 <=> s = {})
    BY <2>1, FS_CardinalityType, FS_EmptySet
  <2>3. \A x \in s : Cardinality(s \ {x}) = Cardinality(s) - 1
    BY <2>1, FS_RemoveElement
  <2> QED
    BY <2>1, <2>2, <2>3
<1>1. 0 \in P
  <2> DEFINE g == [s \in UpToSize(S, 0) |-> 0]
  <2>1. \A s \in UpToSize(S, 0) : s = {}
    BY <1>0 DEF UpToSize
  <2>2. \A s \in UpToSize(S, 0) : SumBody(g, f, s) = 0
    BY <2>1 DEF SumBody
  <2>3. g = [s \in UpToSize(S, 0) |-> SumBody(g, f, s)]
    BY <2>2
  <2> HIDE DEF g
  <2> QED
    BY <2>3
<1>2. \A n \in Nat : n \in P => n + 1 \in P
  <2> SUFFICES ASSUME NEW n \in Nat, n \in P PROVE n + 1 \in P
    OBVIOUS
  <2>1. PICK g : g = [s \in UpToSize(S, n) |-> SumBody(g, f, s)]
    OBVIOUS
  <2> DEFINE h == [s \in UpToSize(S, n + 1) |-> SumBody(g, f, s)]
  <2>2. \A s \in UpToSize(S, n) : s \in UpToSize(S, n + 1) /\ h[s] = g[s]
    <3>1. \A s \in UpToSize(S, n) : s \in UpToSize(S, n + 1)
      BY <1>0 DEF UpToSize
    <3>2. \A s \in UpToSize(S, n) : g[s] = SumBody(g, f, s)
      BY <2>1
    <3> QED
      BY <3>1, <3>2
  <2>3. ASSUME NEW s \in UpToSize(S, n + 1) PROVE SumBody(g, f, s) = SumBody(h, f, s)
    <3>1. CASE s = {}
      BY <3>1 DEF SumBody
    <3>2. CASE s # {}
      <4>1. PICK x \in s : x = CHOOSE y \in s : TRUE
        BY <3>2
      <4>2. s \ {x} \in UpToSize(S, n)
        BY <1>0 DEF UpToSize
      <4>3. h[s \ {x}] = g[s \ {x}]
        BY <2>2, <4>2
      <4> HIDE DEF h
      <4> QED
        BY <3>2, <4>1, <4>3 DEF SumBody
    <3> QED
      BY <3>1, <3>2
  <2>4. h = [s \in UpToSize(S, n + 1) |-> SumBody(h, f, s)]
    BY <2>3
  <2> HIDE DEF h
  <2> QED
    BY <2>4
<1> HIDE DEF P
<1>3. Nat \subseteq P
  BY <1>1, <1>2, NatInductionSet
<1>4. Cardinality(S) \in Nat
  BY FS_CardinalityType
<1>5. UpToSize(S, Cardinality(S)) = SUBSET S
  BY FS_Subset DEF UpToSize
<1>6. \E g : g = [s \in UpToSize(S, Cardinality(S)) |-> SumBody(g, f, s)]
  BY <1>3, <1>4 DEF P
<1> QED
  BY <1>5, <1>6 DEF SumsUp

Alike(f, e, U) == \A x \in U : f[x] = e[x]

\* Functions that agree on a set have the same sum over it, whatever sets their
\* recursions are solved on.
LEMMA SumsAlike ==
    ASSUME NEW f, NEW S, IsFiniteSet(S), NEW g, SumsUp(g, f, S),
           NEW e, NEW T, NEW h, SumsUp(h, e, T),
           NEW U, U \subseteq S, U \subseteq T, Alike(f, e, U)
    PROVE  g[U] = h[U]
<1> DEFINE P == {n \in Nat : \A s \in SUBSET U : Cardinality(s) = n => g[s] = h[s]}
<1>0. ASSUME NEW s \in SUBSET U
      PROVE  /\ Cardinality(s) \in Nat /\ (Cardinality(s) = 0 <=> s = {})
             /\ \A x \in s : s \ {x} \in SUBSET U /\ Cardinality(s \ {x}) = Cardinality(s) - 1
             /\ g[s] = SumBody(g, f, s) /\ h[s] = SumBody(h, e, s)
  <2>0. s \in SUBSET S /\ s \in SUBSET T
    OBVIOUS
  <2>1. IsFiniteSet(s)
    BY <2>0, FS_Subset
  <2>2. Cardinality(s) \in Nat /\ (Cardinality(s) = 0 <=> s = {})
    BY <2>1, FS_CardinalityType, FS_EmptySet
  <2>3. \A x \in s : Cardinality(s \ {x}) = Cardinality(s) - 1
    BY <2>1, FS_RemoveElement
  <2>4. g[s] = SumBody(g, f, s)
    BY <2>0 DEF SumsUp
  <2>5. h[s] = SumBody(h, e, s)
    BY <2>0 DEF SumsUp
  <2> QED
    BY <2>2, <2>3, <2>4, <2>5
<1>1. 0 \in P
  BY <1>0 DEF SumBody
<1>2. \A n \in Nat : n \in P => n + 1 \in P
  <2> SUFFICES ASSUME NEW n \in Nat, n \in P, NEW s \in SUBSET U, Cardinality(s) = n + 1
               PROVE  g[s] = h[s]
    OBVIOUS
  <2>1. s # {}
    BY <1>0
  <2>2. PICK x \in s : x = CHOOSE y \in s : TRUE
    BY <2>1
  <2>3. g[s \ {x}] = h[s \ {x}]
    BY <1>0
  <2>4. f[x] = e[x]
    BY DEF Alike
  <2>5. SumBody(g, f, s) = SumBody(h, e, s)
    BY <2>1, <2>2, <2>3, <2>4 DEF SumBody
  <2> QED
    BY <1>0, <2>5
<1> HIDE DEF P
<1>3. Nat \subseteq P
  BY <1>1, <1>2, NatInductionSet
<1>4. Cardinality(U) \in P
  BY <1>0, <1>3
<1> QED
  BY <1>4 DEF P

\* What the sum of a function over a set is.
LEMMA SumIs ==
    ASSUME NEW f, NEW S, IsFiniteSet(S)
    PROVE  \E g : SumsUp(g, f, S) /\ SumFunctionOnSet(f, S) = g[S]
<1> DEFINE c == CHOOSE g : SumsUp(g, f, S)
<1>1. SumsUp(c, f, S)
  BY SumExists
<1>2. SumFunctionOnSet(f, S) = c[S]
  BY DEF SumFunctionOnSet, FoldFunctionOnSet, MapThenFoldSet, SumsUp, SumBody
<1> HIDE DEF c
<1> QED
  BY <1>1, <1>2

\* The sum depends only on the values that are summed.
LEMMA SumAlike ==
    ASSUME NEW f, NEW S, IsFiniteSet(S), NEW e, \A x \in S : f[x] = e[x]
    PROVE  SumFunctionOnSet(f, S) = SumFunctionOnSet(e, S)
<1>1. PICK g : SumsUp(g, f, S) /\ SumFunctionOnSet(f, S) = g[S]
  BY SumIs
<1>2. PICK h : SumsUp(h, e, S) /\ SumFunctionOnSet(e, S) = h[S]
  BY SumIs
<1>3. g[S] = h[S]
  BY <1>1, <1>2, SumsAlike DEF Alike
<1> QED
  BY <1>1, <1>2, <1>3

\* The sum of nothing.
LEMMA SumEmpty == ASSUME NEW f PROVE SumFunctionOnSet(f, {}) = 0
<1>1. PICK g : SumsUp(g, f, {}) /\ SumFunctionOnSet(f, {}) = g[{}]
  BY SumIs, FS_EmptySet
<1>2. g[{}] = SumBody(g, f, {})
  BY <1>1 DEF SumsUp
<1> QED
  BY <1>1, <1>2 DEF SumBody

\* The sum over a set is that of the member it takes first and of the others.
LEMMA SumFirst ==
    ASSUME NEW f, NEW S, IsFiniteSet(S), S # {}
    PROVE  LET x == CHOOSE x \in S : TRUE
           IN  SumFunctionOnSet(f, S) = f[x] + SumFunctionOnSet(f, S \ {x})
<1>0. PICK x \in S : x = CHOOSE y \in S : TRUE
  OBVIOUS
<1>1. PICK g : SumsUp(g, f, S) /\ SumFunctionOnSet(f, S) = g[S]
  BY SumIs
<1>2. S \ {x} \in SUBSET S /\ S \ {x} \subseteq S
  OBVIOUS
<1>3. PICK T : T = S \ {x}
  OBVIOUS
<1>4. IsFiniteSet(T)
  BY <1>2, <1>3, FS_Subset
<1>5. PICK h : SumsUp(h, f, T) /\ SumFunctionOnSet(f, T) = h[T]
  BY <1>4, SumIs
<1>6. g[T] = h[T]
  <2>1. SumsUp(g, f, S) /\ SumsUp(h, f, T) /\ T \subseteq S /\ T \subseteq T
        /\ Alike(f, f, T) /\ IsFiniteSet(S)
    BY <1>1, <1>2, <1>3, <1>5 DEF Alike
  <2> QED
    BY ONLY <2>1, SumsAlike
<1>7. g[S] = SumBody(g, f, S)
  BY <1>1 DEF SumsUp
<1>8. g[S] = f[x] + g[T]
  BY <1>0, <1>3, <1>7 DEF SumBody
<1> QED
  BY <1>0, <1>1, <1>3, <1>5, <1>6, <1>8

\* Sums are numbers of the kind that is summed up.
LEMMA SumTyped ==
    ASSUME NEW f, NEW S, IsFiniteSet(S), NEW N, 0 \in N, \A a, b \in N : a + b \in N,
           \A x \in S : f[x] \in N
    PROVE  SumFunctionOnSet(f, S) \in N
<1> DEFINE P == {n \in Nat : \A s \in SUBSET S :
                    Cardinality(s) = n => SumFunctionOnSet(f, s) \in N}
<1>0. ASSUME NEW s \in SUBSET S
      PROVE  /\ IsFiniteSet(s) /\ Cardinality(s) \in Nat /\ (Cardinality(s) = 0 <=> s = {})
             /\ \A x \in s : s \ {x} \in SUBSET S /\ Cardinality(s \ {x}) = Cardinality(s) - 1
  <2>1. IsFiniteSet(s)
    BY FS_Subset
  <2>2. Cardinality(s) \in Nat /\ (Cardinality(s) = 0 <=> s = {})
    BY <2>1, FS_CardinalityType, FS_EmptySet
  <2>3. \A x \in s : Cardinality(s \ {x}) = Cardinality(s) - 1
    BY <2>1, FS_RemoveElement
  <2> QED
    BY <2>1, <2>2, <2>3
<1>1. 0 \in P
  BY <1>0, SumEmpty
<1>2. \A n \in Nat : n \in P => n + 1 \in P
  <2> SUFFICES ASSUME NEW n \in Nat, n \in P, NEW s \in SUBSET S, Cardinality(s) = n + 1
               PROVE  SumFunctionOnSet(f, s) \in N
    OBVIOUS
  <2>1. s # {} /\ IsFiniteSet(s)
    BY <1>0
  <2>2. PICK x \in s : x = CHOOSE y \in s : TRUE
    BY <2>1
  <2>3. SumFunctionOnSet(f, s) = f[x] + SumFunctionOnSet(f, s \ {x})
    BY <2>1, <2>2, SumFirst
  <2>4. SumFunctionOnSet(f, s \ {x}) \in N
    BY <1>0
  <2>5. f[x] \in N
    OBVIOUS
  <2> QED
    BY <2>3, <2>4, <2>5
<1> HIDE DEF P
<1>3. Nat \subseteq P
  BY <1>1, <1>2, NatInductionSet
<1>4. Cardinality(S) \in P
  BY <1>0, <1>3
<1> QED
  BY <1>4 DEF P

\* The order in which a sum is made does not matter.
LEMMA SumRemove ==
    ASSUME NEW f, NEW S, IsFiniteSet(S), \A x \in S : f[x] \in Int, NEW y \in S
    PROVE  /\ SumFunctionOnSet(f, S \ {y}) \in Int
           /\ SumFunctionOnSet(f, S) = f[y] + SumFunctionOnSet(f, S \ {y})
<1> DEFINE sum(s) == SumFunctionOnSet(f, s)
           P == {n \in Nat : \A s \in SUBSET S : Cardinality(s) = n =>
                    \A z \in s : sum(s) = f[z] + sum(s \ {z})}
<1>0. ASSUME NEW s \in SUBSET S
      PROVE  /\ IsFiniteSet(s) /\ Cardinality(s) \in Nat /\ (Cardinality(s) = 0 <=> s = {})
             /\ \A x \in s : s \ {x} \in SUBSET S /\ Cardinality(s \ {x}) = Cardinality(s) - 1
             /\ sum(s) \in Int
  <2>1. IsFiniteSet(s)
    BY FS_Subset
  <2>2. Cardinality(s) \in Nat /\ (Cardinality(s) = 0 <=> s = {})
    BY <2>1, FS_CardinalityType, FS_EmptySet
  <2>3. \A x \in s : Cardinality(s \ {x}) = Cardinality(s) - 1
    BY <2>1, FS_RemoveElement
  <2>4. sum(s) \in Int
    <3>1. 0 \in Int /\ \A a, b \in Int : a + b \in Int
      OBVIOUS
    <3>2. \A x \in s : f[x] \in Int
      OBVIOUS
    <3> QED
      BY ONLY <2>1, <3>1, <3>2, SumTyped
  <2> QED
    BY <2>1, <2>2, <2>3, <2>4
<1>1. 0 \in P
  BY <1>0
<1> HIDE DEF sum
<1>2. \A n \in Nat : n \in P => n + 1 \in P
  <2> SUFFICES ASSUME NEW n \in Nat, n \in P, NEW s \in SUBSET S, Cardinality(s) = n + 1,
                      NEW z \in s
               PROVE  sum(s) = f[z] + sum(s \ {z})
    BY SMTT(20)
  <2>1. s # {} /\ IsFiniteSet(s)
    BY <1>0
  <2>2. PICK x \in s : x = CHOOSE y1 \in s : TRUE
    BY <2>1
  <2>3. sum(s) = f[x] + sum(s \ {x})
    <3> DEFINE c == CHOOSE y1 \in s : TRUE
    <3>1. SumFunctionOnSet(f, s) = f[c] + SumFunctionOnSet(f, s \ {c})
      BY <2>1, SumFirst
    <3> QED
      BY <2>2, <3>1 DEF sum
  <2>4. CASE x = z
    BY <2>3, <2>4
  <2>5. CASE x # z
    <3>1. PICK u, v, w : u = s \ {x} /\ v = s \ {z} /\ w = (s \ {x}) \ {z}
      OBVIOUS
    <3>2. w = u \ {z} /\ w = v \ {x} /\ z \in u /\ x \in v
      BY <2>5, <3>1
    <3>3. u \in SUBSET S /\ v \in SUBSET S /\ w \in SUBSET S
          /\ Cardinality(u) = n /\ Cardinality(v) = n
      BY <1>0, <3>1
    <3>4. sum(u) = f[z] + sum(w) /\ sum(v) = f[x] + sum(w)
      BY <3>2, <3>3
    <3>5. f[x] \in Int /\ f[z] \in Int /\ sum(u) \in Int /\ sum(v) \in Int /\ sum(w) \in Int
          /\ sum(s) \in Int
      BY <1>0, <3>3
    <3>6. sum(s) = f[x] + sum(u)
      BY <2>3, <3>1
    <3>7. sum(s) = f[z] + sum(v)
      BY <3>4, <3>5, <3>6
    <3> QED
      BY <3>1, <3>7
  <2> QED
    BY <2>4, <2>5
<1> HIDE DEF P
<1>3. Nat \subseteq P
  BY <1>1, <1>2, NatInductionSet
<1>4. Cardinality(S) \in P
  BY <1>0, <1>3
<1>5. S \ {y} \in SUBSET S
  OBVIOUS
<1> QED
  BY <1>0, <1>4, <1>5 DEF P, sum

Matches(h, f, S, e, T) ==
    /\ h \in [S -> T]
    /\ \A x, y \in S : h[x] = h[y] => x = y
    /\ \A y \in T : \E x \in S : h[x] = y
    /\ \A x \in S : f[x] = e[h[x]]

\* Functions that have the same values, each as often, have the same sum.
LEMMA SumMatched ==
    ASSUME NEW f, NEW S, IsFiniteSet(S), \A x \in S : f[x] \in Int,
           NEW e, NEW T, NEW h, Matches(h, f, S, e, T)
    PROVE  SumFunctionOnSet(f, S) = SumFunctionOnSet(e, T)
<1> DEFINE image(s) == {h[x] : x \in s}
           P == {n \in Nat : \A s \in SUBSET S : Cardinality(s) = n =>
                    SumFunctionOnSet(f, s) = SumFunctionOnSet(e, image(s))}
<1>m. /\ h \in [S -> T]
      /\ \A x, y \in S : h[x] = h[y] => x = y
      /\ \A y \in T : \E x \in S : h[x] = y
      /\ \A x \in S : f[x] = e[h[x]]
  BY DEF Matches
<1>0. ASSUME NEW s \in SUBSET S
      PROVE  /\ IsFiniteSet(s) /\ Cardinality(s) \in Nat /\ (Cardinality(s) = 0 <=> s = {})
             /\ \A x \in s : s \ {x} \in SUBSET S /\ Cardinality(s \ {x}) = Cardinality(s) - 1
             /\ IsFiniteSet(image(s))
  <2>1. IsFiniteSet(s)
    BY FS_Subset
  <2>2. Cardinality(s) \in Nat /\ (Cardinality(s) = 0 <=> s = {})
    BY <2>1, FS_CardinalityType, FS_EmptySet
  <2>3. \A x \in s : Cardinality(s \ {x}) = Cardinality(s) - 1
    BY <2>1, FS_RemoveElement
  <2>4. IsFiniteSet(image(s))
    <3> DEFINE g == [x \in s |-> h[x]]
    <3>1. g \in [s -> image(s)] /\ \A y \in image(s) : \E x \in s : g[x] = y
      OBVIOUS
    <3> HIDE DEF g, image
    <3>2. g \in Surjection(s, image(s))
      BY <3>1, Fun_IsSurj
    <3> QED
      BY <2>1, <3>2, FS_Surjection
  <2> QED
    BY <2>1, <2>2, <2>3, <2>4
<1>1. 0 \in P
  <2>1. image({}) = {}
    OBVIOUS
  <2> HIDE DEF image
  <2> QED
    BY <1>0, <2>1, SumEmpty
<1>2. \A n \in Nat : n \in P => n + 1 \in P
  <2> SUFFICES ASSUME NEW n \in Nat, n \in P, NEW s \in SUBSET S, Cardinality(s) = n + 1
               PROVE  SumFunctionOnSet(f, s) = SumFunctionOnSet(e, image(s))
    OBVIOUS
  <2> HIDE DEF image
  <2>1. s # {} /\ IsFiniteSet(s) /\ IsFiniteSet(image(s))
    BY <1>0
  <2>2. PICK x \in s : TRUE
    BY <2>1
  <2>3. SumFunctionOnSet(f, s) = f[x] + SumFunctionOnSet(f, s \ {x})
    <3>1. \A y \in s : f[y] \in Int
      OBVIOUS
    <3> QED
      BY ONLY <2>1, <3>1, x \in s, SumRemove
  <2>4. SumFunctionOnSet(f, s \ {x}) = SumFunctionOnSet(e, image(s \ {x}))
    BY <1>0
  <2>5. image(s \ {x}) = image(s) \ {h[x]} /\ h[x] \in image(s)
    BY <1>m DEF image
  <2>6. \A y \in image(s) : e[y] \in Int
    BY <1>m DEF image
  <2>7. SumFunctionOnSet(e, image(s)) = e[h[x]] + SumFunctionOnSet(e, image(s) \ {h[x]})
    BY <2>1, <2>5, <2>6, SumRemove
  <2>8. f[x] = e[h[x]]
    BY <1>m
  <2> QED
    BY <2>3, <2>4, <2>5, <2>7, <2>8
<1> HIDE DEF P
<1>3. Nat \subseteq P
  BY <1>1, <1>2, NatInductionSet
<1>4. Cardinality(S) \in P
  BY <1>0, <1>3
<1>5. image(S) = T
  BY <1>m
<1> QED
  BY <1>4, <1>5 DEF P

\* The sum of the first numbers and one more.
LEMMA SumNext ==
    ASSUME NEW f, NEW n \in Nat, \A k \in 1..(n + 1) : f[k] \in Int
    PROVE  /\ SumFunctionOnSet(f, 1..n) \in Int
           /\ SumFunctionOnSet(f, 1..(n + 1)) = SumFunctionOnSet(f, 1..n) + f[n + 1]
<1>1. PICK S : S = 1..(n + 1)
  OBVIOUS
<1>2. IsFiniteSet(S) /\ n + 1 \in S /\ S \ {n + 1} = 1..n
  <2>1. IsFiniteSet(1..(n + 1))
    <3>1. 1 \in Int /\ n + 1 \in Int
      OBVIOUS
    <3> QED
      BY <3>1, FS_Interval
  <2>2. n + 1 \in 1..(n + 1) /\ (1..(n + 1)) \ {n + 1} = 1..n
    OBVIOUS
  <2> QED
    BY <1>1, <2>1, <2>2
<1>3. PICK y : y = n + 1
  OBVIOUS
<1>4. SumFunctionOnSet(f, S \ {y}) \in Int
      /\ SumFunctionOnSet(f, S) = f[y] + SumFunctionOnSet(f, S \ {y})
  <2>1. y \in S /\ \A k \in S : f[k] \in Int
    BY <1>1, <1>2, <1>3
  <2> QED
    BY ONLY <1>2, <2>1, SumRemove
<1>5. f[y] \in Int
  BY <1>1, <1>2, <1>3
<1>6. PICK u, v : u = SumFunctionOnSet(f, S) /\ v = SumFunctionOnSet(f, S \ {y})
  OBVIOUS
<1>7. v = SumFunctionOnSet(f, 1..n) /\ f[y] = f[n + 1] /\ u = SumFunctionOnSet(f, 1..(n + 1))
  BY <1>1, <1>2, <1>3, <1>6
<1>8. v \in Int /\ u = v + f[y]
  BY <1>4, <1>5, <1>6
<1> QED
  BY <1>7, <1>8

\* Lists one after the other are as long as all of them together.
LEMMA JoinedLength ==
    ASSUME NEW S, NEW seqs \in Seq(Seq(S))
    PROVE  Len(Joined(seqs)) = SumFunction([i \in DOMAIN seqs |-> Len(seqs[i])])
<1> DEFINE sum(s) == SumFunction([i \in DOMAIN s |-> Len(s[i])])
           P == {s \in Seq(Seq(S)) : Len(Joined(s)) = sum(s)}
<1>1. <<>> \in P
  <2>1. sum(<<>>) = 0
    <3>1. PICK f : f = [i \in DOMAIN <<>> |-> Len(<<>>[i])]
      OBVIOUS
    <3>2. DOMAIN f = {}
      BY <3>1
    <3> QED
      BY <3>1, <3>2, SumEmpty DEF SumFunction
  <2> QED
    BY <2>1, JoinedEmpty
<1>2. ASSUME NEW s \in Seq(Seq(S)), s \in P, NEW x \in Seq(S) PROVE Append(s, x) \in P
  <2>1. PICK t : t = Append(s, x)
    OBVIOUS
  <2>2. PICK n : n = Len(s)
    OBVIOUS
  <2>3. /\ t \in Seq(Seq(S)) /\ n \in Nat /\ DOMAIN s = 1..n /\ DOMAIN t = 1..(n + 1)
        /\ t[n + 1] = x /\ \A k \in 1..n : t[k] = s[k]
    BY <2>1, <2>2
  <2>4. Joined(t) = Joined(s) \o x
    BY <2>1, JoinedAppend
  <2>5. Joined(s) \in Seq(S)
    BY JoinedPlaces
  <2>6. Len(Joined(t)) = Len(Joined(s)) + Len(x)
    <3>1. PICK j : j = Joined(s)
      OBVIOUS
    <3>2. j \in Seq(S) /\ Joined(t) = j \o x
      BY <2>4, <2>5, <3>1
    <3> QED
      BY <3>1, <3>2
  <2>7. PICK f, e : f = [i \in DOMAIN t |-> Len(t[i])] /\ e = [i \in DOMAIN s |-> Len(s[i])]
    OBVIOUS
  <2>8. DOMAIN f = 1..(n + 1) /\ DOMAIN e = 1..n /\ f[n + 1] = Len(x)
        /\ (\A k \in 1..n : f[k] = e[k]) /\ \A k \in 1..(n + 1) : f[k] \in Int
    <3>1. \A k \in 1..(n + 1) : f[k] = Len(t[k]) /\ t[k] \in Seq(S)
      BY <2>3, <2>7
    <3>2. DOMAIN f = 1..(n + 1) /\ DOMAIN e = 1..n /\ \A k \in 1..n : e[k] = Len(s[k])
      BY <2>3, <2>7
    <3>3. n + 1 \in 1..(n + 1) /\ \A k \in 1..n : k \in 1..(n + 1)
      BY <2>3
    <3>4. \A k \in 1..(n + 1) : f[k] \in Int
      BY <3>1
    <3> QED
      BY <2>3, <3>1, <3>2, <3>3, <3>4
  <2>9. SumFunctionOnSet(f, 1..(n + 1)) = SumFunctionOnSet(f, 1..n) + f[n + 1]
    BY <2>3, <2>8, SumNext
  <2>10. SumFunctionOnSet(f, 1..n) = SumFunctionOnSet(e, 1..n)
    <3>1. IsFiniteSet(1..n)
      BY <2>3, FS_Interval
    <3> QED
      BY <2>8, <3>1, SumAlike
  <2>11. sum(t) = sum(s) + Len(x)
    BY <2>7, <2>8, <2>9, <2>10 DEF SumFunction
  <2> QED
    BY <1>2, <2>1, <2>3, <2>6, <2>11
<1> HIDE DEF P
<1>3. Seq(Seq(S)) \subseteq P
  BY <1>1, <1>2, SeqInductionSet DEF P
<1> QED
  BY <1>3 DEF P

-------------------------------------------------------------------------------
(* The conversion of a transaction. *)

\* What is left out of a block when it is the default is read as the default.
LEMMA OmittedIsDefault ==
    ASSUME NEW value, NEW zero
    PROVE  /\ OrElse(Omit(value, zero), zero) = value
           /\ Given(Omit(value, zero)) <=> value # zero
BY DEF OrElse, Omit, Given

\* What it is to be a sequence, as a function.
LEMMA SeqIs ==
    ASSUME NEW S, NEW s \in Seq(S)
    PROVE  /\ Len(s) \in Nat /\ DOMAIN s = 1..Len(s) /\ s = [i \in DOMAIN s |-> s[i]]
           /\ \A i \in DOMAIN s : s[i] \in S /\ s[i] \in Range(s)
BY DEF Range

\* A value that may be missing is missing or given.
LEMMA OptionalIs ==
    ASSUME NEW S, NEW s \in Optional(S)
    PROVE  s = <<>> \/ (Given(s) /\ s[1] \in S /\ s = <<s[1]>> /\ s[1] \in Range(s))
<1>1. s \in Seq(S) /\ Len(s) \in Nat /\ Len(s) <= 1
  BY DEF Optional
<1>2. CASE Len(s) = 0
  BY <1>1, <1>2
<1>3. CASE Len(s) = 1
  BY <1>1, <1>3 DEF Given, Range
<1>4. \A n \in Nat : n <= 1 => n = 0 \/ n = 1
  OBVIOUS
<1> QED
  BY <1>1, <1>2, <1>3, <1>4

\* The entries of the raw transaction that the conversion of the body is about.
IsRawOf(raw, t) ==
    /\ raw.type = t.type /\ raw.sender = t.sender
    /\ raw.body = EncodedBody(t) /\ raw.applied = ApplyData(t)

\* A payment is converted to what it was.
LEMMA PayRoundTrip ==
    ASSUME NEW t, IsTransaction(t), NEW raw, IsRawOf(raw, t), t.type = "pay"
    PROVE  ConvertedBody(raw) = t.body
<1>1. t.body \in [receiver : Texts, amount : Nat, closeTo : Texts, closeAmount : Nat]
  BY DEF IsTransaction, IsBody, Body
<1>2. raw.body = [receiver |-> t.body.receiver, amount |-> t.body.amount,
                  closeTo |-> t.body.closeTo]
  BY DEF IsRawOf, EncodedBody
<1>3. raw.applied.closing = Omit(t.body.closeAmount, 0)
  BY DEF IsRawOf, ApplyData
<1>4. ConvertedBody(raw) = [receiver |-> t.body.receiver, amount |-> t.body.amount,
                            closeTo |-> t.body.closeTo, closeAmount |-> t.body.closeAmount]
  BY <1>2, <1>3, OmittedIsDefault DEF IsRawOf, ConvertedBody, ConvertedPay
<1> QED
  BY <1>1, <1>4

\* An asset transfer is converted to what it was.
LEMMA TransferRoundTrip ==
    ASSUME NEW t, IsTransaction(t), NEW raw, IsRawOf(raw, t), t.type = "axfer"
    PROVE  ConvertedBody(raw) = t.body
<1>1. t.body \in [asset : Nat, amount : Nat, receiver : Texts, closeTo : Texts,
                  closeAmount : Nat, from : Texts]
  BY DEF IsTransaction, IsBody, Body
<1>2. raw.body = [asset |-> t.body.asset, receiver |-> t.body.receiver, amount |-> t.body.amount,
                  closeTo |-> t.body.closeTo, from |-> t.body.from]
  BY DEF IsRawOf, EncodedBody
<1>3. raw.applied.assetClosing = Omit(t.body.closeAmount, 0)
  BY DEF IsRawOf, ApplyData
<1>4. ConvertedBody(raw) = [asset |-> t.body.asset, receiver |-> t.body.receiver,
                            amount |-> t.body.amount, closeTo |-> t.body.closeTo,
                            closeAmount |-> t.body.closeAmount, from |-> t.body.from]
  BY <1>2, <1>3, OmittedIsDefault DEF IsRawOf, ConvertedBody, ConvertedTransfer
<1> QED
  BY <1>1, <1>4

\* An asset configuration is converted to what it was, the omitted total and
\* asset included.
LEMMA ConfigRoundTrip ==
    ASSUME NEW t, IsTransaction(t), NEW raw, IsRawOf(raw, t), t.type = "acfg"
    PROVE  ConvertedBody(raw) = t.body
<1> DEFINE Params == [total : Nat, manager : Texts]
<1>1. /\ t.body \in [asset : Nat, params : Optional(Params)]
      /\ t.createdAsset # 0 <=> t.body.asset = 0
      /\ \A p \in Range(t.body.params) : p.total # 0 \/ p.manager # None
  BY DEF IsTransaction, IsBody, Body
<1>2. /\ raw.body.asset = Omit(t.body.asset, 0)
      /\ raw.body.total = IF Given(t.body.params) THEN Omit(t.body.params[1].total, 0) ELSE <<>>
      /\ raw.body.manager = IF Given(t.body.params) THEN t.body.params[1].manager ELSE None
      /\ raw.applied.configAsset = Omit(t.createdAsset, 0)
  BY DEF IsRawOf, EncodedBody, ApplyData
<1> DEFINE asset == IF Given(raw.applied.configAsset) THEN 0 ELSE OrElse(raw.body.asset, NoId)
           params == IF Given(raw.body.total) \/ raw.body.manager # None
                     THEN <<[total |-> OrElse(raw.body.total, 0), manager |-> raw.body.manager]>>
                     ELSE <<>>
<1>3. asset = t.body.asset
  <2>1. CASE t.createdAsset = 0
    BY <1>1, <1>2, <2>1 DEF Given, Omit, OrElse
  <2>2. CASE t.createdAsset # 0
    BY <1>1, <1>2, <2>2 DEF Given, Omit
  <2> QED
    BY <2>1, <2>2
<1>4. params = t.body.params
  <2>1. CASE t.body.params = <<>>
    BY <1>2, <2>1 DEF Given
  <2>2. CASE t.body.params # <<>>
    <3> DEFINE p == t.body.params[1]
    <3>1. Given(t.body.params) /\ p \in Params /\ t.body.params = <<p>> /\ p \in Range(t.body.params)
      BY <1>1, <2>2, OptionalIs
    <3>2. raw.body.total = Omit(p.total, 0) /\ raw.body.manager = p.manager
          /\ (p.total # 0 \/ p.manager # None)
      BY <1>1, <1>2, <3>1
    <3> HIDE DEF p
    <3>3. params = <<[total |-> p.total, manager |-> p.manager]>>
      BY <3>2, OmittedIsDefault
    <3>4. p = [total |-> p.total, manager |-> p.manager]
      BY <3>1
    <3> QED
      BY <3>1, <3>3, <3>4
  <2> QED
    BY <2>1, <2>2
<1>5. ConvertedBody(raw) = [asset |-> asset, params |-> params]
  BY DEF IsRawOf, ConvertedBody, ConvertedConfig
<1>6. t.body = [asset |-> t.body.asset, params |-> t.body.params]
  BY <1>1
<1> HIDE DEF asset, params
<1> QED
  BY <1>3, <1>4, <1>5, <1>6

\* A box is read as it was, for the app of the call.
LEMMA BoxRoundTrip ==
    ASSUME NEW app \in Nat, NEW box \in Boxes, IsBox(app, box)
    PROVE  ConvertedBox(app, EncodedBox(app, box)) = box
BY DEF EncodedBox, Boxes, IsBox, ConvertedBox

\* An application call is converted to what it was, with its boxes and access
\* list.
LEMMA CallRoundTrip ==
    ASSUME NEW t, IsTransaction(t), NEW raw, IsRawOf(raw, t), t.type = "appl"
    PROVE  ConvertedBody(raw) = t.body
<1> DEFINE Listed == [account : Texts, box : Optional(Boxes)]
           body == t.body
           id == TxnAppId(t)
           app == IF raw.body.app = 0 THEN OrElse(raw.applied.applicationId, 0) ELSE raw.body.app
<1>1. /\ body \in [app : Nat, onComplete : Texts, args : Seq(Texts), accounts : Seq(Texts),
                   boxes : Seq(Boxes), access : Seq(Listed)]
      /\ t.createdApp \in Nat
      /\ t.createdApp # 0 => body.app = 0
      /\ \A box \in Range(body.boxes) : IsBox(id, box)
      /\ \A entry \in Range(body.access) : \A box \in Range(entry.box) : IsBox(id, box)
  BY DEF IsTransaction, IsBody, Body
<1>2. raw.applied.applicationId = Omit(t.createdApp, 0)
  BY DEF IsRawOf, ApplyData
<1>3. raw.body = [body EXCEPT !.boxes = [i \in DOMAIN @ |-> EncodedBox(id, @[i])],
                              !.access = [i \in DOMAIN @ |-> EncodedAccess(id, @[i])]]
  BY DEF IsRawOf, EncodedBody
<1>4. id = (IF t.createdApp # 0 THEN t.createdApp ELSE body.app) /\ id \in Nat
  BY <1>1 DEF TxnAppId
<1>5. app = id
  BY <1>1, <1>2, <1>3, <1>4, OmittedIsDefault
<1>6. ConvertedBody(raw) =
          [raw.body EXCEPT !.boxes = [i \in DOMAIN @ |-> ConvertedBox(app, @[i])],
                           !.access = [i \in DOMAIN @ |-> ConvertedAccess(app, @[i])]]
  BY DEF IsRawOf, ConvertedBody, ConvertedCall
<1> HIDE DEF app, body, id
<1>7. ASSUME NEW box \in Boxes, IsBox(id, box) PROVE ConvertedBox(id, EncodedBox(id, box)) = box
  BY <1>4, <1>7, BoxRoundTrip
<1>13. body.boxes \in Seq(Boxes) /\ body.access \in Seq(Listed)
  BY <1>1
<1>8. \A i \in DOMAIN body.boxes : ConvertedBox(id, EncodedBox(id, body.boxes[i])) = body.boxes[i]
  <2>1. \A i \in DOMAIN body.boxes : body.boxes[i] \in Boxes /\ body.boxes[i] \in Range(body.boxes)
    BY <1>13, SeqIs
  <2> QED
    BY <1>1, <1>7, <2>1
<1>9. ASSUME NEW i \in DOMAIN body.access
      PROVE  ConvertedAccess(id, EncodedAccess(id, body.access[i])) = body.access[i]
  <2> DEFINE entry == body.access[i]
  <2>1. entry \in Listed /\ entry \in Range(body.access)
    BY <1>13, SeqIs
  <2> HIDE DEF entry
  <2>2. entry.box \in Seq(Boxes) /\ Len(entry.box) \in Nat /\ DOMAIN entry.box = 1..Len(entry.box)
    BY <2>1 DEF Optional
  <2>5. \A k \in DOMAIN entry.box : entry.box[k] \in Boxes /\ entry.box[k] \in Range(entry.box)
    BY <2>2 DEF Range
  <2>3. \A k \in DOMAIN entry.box : entry.box[k] \in Boxes /\ IsBox(id, entry.box[k])
    BY <1>1, <2>1, <2>5
  <2>4. \A k \in DOMAIN entry.box : ConvertedBox(id, EncodedBox(id, entry.box[k])) = entry.box[k]
    <3> QED
      BY <1>7, <2>3
  <2>7. ConvertedAccess(id, EncodedAccess(id, entry)) =
            [entry EXCEPT !.box = [k \in DOMAIN entry.box |-> ConvertedBox(id, EncodedBox(id, entry.box[k]))]]
    <3> QED
      BY <2>1 DEF ConvertedAccess, EncodedAccess
  <2>6. [k \in DOMAIN entry.box |-> ConvertedBox(id, EncodedBox(id, entry.box[k]))] = entry.box
    <3> QED
      BY <2>2, <2>4
  <2> QED
    BY <2>1, <2>6, <2>7 DEF entry
<1> DEFINE boxes == [i \in DOMAIN body.boxes |-> ConvertedBox(id, EncodedBox(id, body.boxes[i]))]
           access == [i \in DOMAIN body.access |->
                          ConvertedAccess(id, EncodedAccess(id, body.access[i]))]
<1>10. boxes = body.boxes
  BY <1>8, <1>13
<1>11. access = body.access
  BY <1>9, <1>13
<1>12. ConvertedBody(raw) = [body EXCEPT !.boxes = boxes, !.access = access]
  <2>1. /\ raw.body.boxes = [i \in DOMAIN body.boxes |-> EncodedBox(id, body.boxes[i])]
        /\ raw.body.access = [i \in DOMAIN body.access |-> EncodedAccess(id, body.access[i])]
    BY <1>1, <1>3
  <2>2. [i \in DOMAIN raw.body.boxes |-> ConvertedBox(app, raw.body.boxes[i])] = boxes
    BY <1>5, <2>1
  <2>3. [i \in DOMAIN raw.body.access |-> ConvertedAccess(app, raw.body.access[i])] = access
    BY <1>5, <2>1
  <2> HIDE DEF boxes, access
  <2>4. ConvertedBody(raw) = [raw.body EXCEPT !.boxes = boxes, !.access = access]
    BY <1>6, <2>2, <2>3
  <2> QED
    BY <1>1, <1>3, <2>4
<1>14. body = [body EXCEPT !.boxes = body.boxes, !.access = body.access]
  BY <1>1
<1> HIDE DEF boxes, access
<1> QED
  BY <1>10, <1>11, <1>12, <1>14 DEF body

\* A state proof is converted to what it was, with its reveals.
LEMMA ProofRoundTrip ==
    ASSUME NEW t, IsTransaction(t), NEW raw, IsRawOf(raw, t), t.type = "stpf"
    PROVE  ConvertedBody(raw) = t.body
<1> DEFINE Reveals == [position : Nat, weight : Nat]
           body == t.body
<1>1. /\ body \in [type : Nat, reveals : Optional(Seq(Reveals))]
      /\ \A reveals \in Range(body.reveals) : reveals # <<>>
  BY DEF IsTransaction, IsBody, Body
<1>2. /\ raw.body.type = Omit(body.type, 0)
      /\ raw.body.reveals =
             IF Given(body.reveals)
             THEN [i \in DOMAIN body.reveals[1] |-> EncodedReveal(body.reveals[1][i])]
             ELSE <<>>
  BY DEF IsRawOf, EncodedBody
<1>3. ConvertedBody(raw) = [type |-> OrElse(raw.body.type, 0), reveals |-> ConvertedReveals(raw)]
  BY DEF IsRawOf, ConvertedBody, ConvertedProof
<1> HIDE DEF body
<1>4. OrElse(raw.body.type, 0) = body.type
  BY <1>2, OmittedIsDefault
<1>5. \A reveal \in Reveals : ConvertedReveal(EncodedReveal(reveal)) = reveal
  <2> SUFFICES ASSUME NEW reveal \in Reveals PROVE ConvertedReveal(EncodedReveal(reveal)) = reveal
    OBVIOUS
  <2>1. EncodedReveal(reveal) = [position |-> reveal.position, weight |-> Omit(reveal.weight, 0)]
    BY DEF EncodedReveal
  <2>2. ConvertedReveal(EncodedReveal(reveal)) =
            [position |-> reveal.position, weight |-> OrElse(Omit(reveal.weight, 0), 0)]
    BY <2>1 DEF ConvertedReveal
  <2>3. OrElse(Omit(reveal.weight, 0), 0) = reveal.weight
    BY OmittedIsDefault
  <2>4. reveal = [position |-> reveal.position, weight |-> reveal.weight]
    OBVIOUS
  <2> QED
    BY <2>2, <2>3, <2>4
<1>6. ConvertedReveals(raw) = body.reveals
  <2>1. CASE body.reveals = <<>>
    <3>1. raw.body.reveals = <<>>
      BY <1>2, <2>1 DEF Given
    <3>2. [i \in DOMAIN raw.body.reveals |-> ConvertedReveal(raw.body.reveals[i])] = <<>>
      BY <3>1
    <3> QED
      BY <2>1, <3>2 DEF ConvertedReveals, Omit
  <2>2. CASE body.reveals # <<>>
    <3> DEFINE reveals == body.reveals[1]
    <3>1. /\ Given(body.reveals) /\ reveals \in Seq(Reveals) /\ body.reveals = <<reveals>>
          /\ reveals # <<>>
      BY <1>1, <2>2, OptionalIs
    <3>4. reveals \in Seq(Reveals)
      BY <3>1
    <3>2. raw.body.reveals = [i \in DOMAIN reveals |-> EncodedReveal(reveals[i])]
      BY <1>2, <3>1
    <3> HIDE DEF reveals
    <3>3. [i \in DOMAIN raw.body.reveals |-> ConvertedReveal(raw.body.reveals[i])] = reveals
      <4>1. /\ DOMAIN raw.body.reveals = DOMAIN reveals
            /\ \A i \in DOMAIN reveals : raw.body.reveals[i] = EncodedReveal(reveals[i])
        BY <3>2
      <4>2. reveals = [i \in DOMAIN reveals |-> reveals[i]]
            /\ \A i \in DOMAIN reveals : reveals[i] \in Reveals
        <5>1. reveals = [i \in DOMAIN reveals |-> reveals[i]]
          BY <3>4, SeqIs
        <5> QED
          BY <3>4, <5>1, SeqIs
      <4>3. \A i \in DOMAIN reveals : ConvertedReveal(raw.body.reveals[i]) = reveals[i]
        BY <1>5, <4>1, <4>2
      <4> QED
        BY <4>1, <4>2, <4>3
    <3> QED
      BY <3>1, <3>3 DEF ConvertedReveals, Omit
  <2> QED
    BY <2>1, <2>2
<1>7. body = [type |-> body.type, reveals |-> body.reveals]
  BY <1>1
<1> QED
  BY <1>3, <1>4, <1>6, <1>7 DEF body

\* A key registration is converted to what it was.
LEMMA KeyregRoundTrip ==
    ASSUME NEW body \in [nonParticipation : BOOLEAN], NEW raw, raw.body = EncodedKeyreg(body)
    PROVE  ConvertedKeyreg(raw) = body
<1>1. \A zero, value : OrElse(Omit(value, zero), zero) = value
  BY OmittedIsDefault
<1>2. raw.body.nonParticipation = Omit(body.nonParticipation, FALSE)
  <2>1. \A x : [nonParticipation |-> x].nonParticipation = x
    OBVIOUS
  <2> QED
    BY <2>1, Zenon DEF EncodedKeyreg
<1>3. OrElse(raw.body.nonParticipation, FALSE) = body.nonParticipation
  BY <1>1, <1>2, Zenon
<1>4. ConvertedKeyreg(raw) = [nonParticipation |-> body.nonParticipation]
  BY <1>3, Zenon DEF ConvertedKeyreg
<1> QED
  BY <1>4

\* The body of each type of transaction is converted to what it was.
LEMMA BodyRoundTrip ==
    ASSUME NEW t, IsTransaction(t), NEW raw, IsRawOf(raw, t)
    PROVE  ConvertedBody(raw) = t.body
<1>1. t.type \in TxnTypes /\ t.body \in Body(t.type)
  BY DEF IsTransaction, IsBody
<1>2. CASE t.type \in {"pay", "axfer", "acfg", "appl", "stpf"}
  BY <1>2, PayRoundTrip, TransferRoundTrip, ConfigRoundTrip, CallRoundTrip, ProofRoundTrip
<1>3. CASE t.type = "afrz"
  <2>1. raw.body = t.body
    BY <1>3 DEF IsRawOf, EncodedBody
  <2> QED
    BY <1>3, <2>1 DEF IsRawOf, ConvertedBody, ConvertedFreeze
<1>4. CASE t.type = "keyreg"
  <2>1. t.body \in [nonParticipation : BOOLEAN]
    BY <1>1, <1>4 DEF Body
  <2>2. raw.body = EncodedKeyreg(t.body)
    BY <1>4 DEF IsRawOf, EncodedBody
  <2>3. ConvertedBody(raw) = ConvertedKeyreg(raw)
    BY <1>4 DEF IsRawOf, ConvertedBody
  <2> QED
    BY <2>1, <2>2, <2>3, KeyregRoundTrip
<1>5. CASE t.type = "hb"
  <2>1. t.body \in [address : Texts]
    BY <1>1, <1>5 DEF Body
  <2>2. raw.body.address = Omit(t.body.address, ZeroAddress)
    BY <1>5 DEF IsRawOf, EncodedBody
  <2>3. ConvertedBody(raw) = [address |-> t.body.address]
    BY <1>5, <2>2, OmittedIsDefault DEF IsRawOf, ConvertedBody, ConvertedHeartbeat
  <2> QED
    BY <2>1, <2>3
<1> QED
  BY <1>1, <1>2, <1>3, <1>4, <1>5 DEF TxnTypes

\* Where the members of two sequences are in the two together.
LEMMA ConcatAt ==
    ASSUME NEW S, NEW a \in Seq(S), NEW b \in Seq(S)
    PROVE  /\ a \o b \in Seq(S) /\ Len(a \o b) = Len(a) + Len(b)
           /\ \A k \in 1..Len(a) : (a \o b)[k] = a[k]
           /\ \A k \in 1..Len(b) : (a \o b)[Len(a) + k] = b[k]
OBVIOUS
\* An account is found again by its number among those that a call refers to.
LEMMA ReferenceIsFound ==
    ASSUME NEW S, NEW x \in S, NEW a \in Seq(S), NEW b \in Seq(S),
           NEW refs, refs = AccountReferences(x, a, b),
           NEW y, y = x \/ y \in Range(a) \/ y \in Range(b)
    PROVE  refs[((CHOOSE k \in DOMAIN refs : refs[k] = y) - 1) + 1] = y
<1>1. /\ refs \in Seq(S) /\ Len(refs) = 1 + Len(a) + Len(b) /\ refs[1] = x
      /\ \A k \in 1..Len(a) : refs[1 + k] = a[k]
      /\ \A k \in 1..Len(b) : refs[1 + Len(a) + k] = b[k]
  <2> DEFINE named == <<x>> \o a
  <2>1. /\ named \in Seq(S) /\ Len(named) = 1 + Len(a) /\ named[1] = x
        /\ \A k \in 1..Len(a) : named[1 + k] = a[k]
    OBVIOUS
  <2>2. AccountReferences(x, a, b) = named \o b
    BY DEF AccountReferences
  <2> HIDE DEF named
  <2>3. named \in Seq(S)
    BY <2>1
  <2>4. /\ named \o b \in Seq(S) /\ Len(named \o b) = Len(named) + Len(b)
        /\ \A k \in 1..Len(named) : (named \o b)[k] = named[k]
        /\ \A k \in 1..Len(b) : (named \o b)[Len(named) + k] = b[k]
    BY <2>3, ConcatAt
  <2>5. /\ refs \in Seq(S) /\ Len(refs) = 1 + Len(a) + Len(b)
        /\ \A k \in 1..(1 + Len(a)) : refs[k] = named[k]
        /\ \A k \in 1..Len(b) : refs[1 + Len(a) + k] = b[k]
    BY <2>1, <2>2, <2>4
  <2>6. Len(a) \in Nat
    OBVIOUS
  <2> QED
    BY <2>1, <2>5, <2>6
<1>2. DOMAIN refs = 1..(1 + Len(a) + Len(b)) /\ Len(a) \in Nat /\ Len(b) \in Nat
  BY <1>1
<1>3. \E k \in DOMAIN refs : refs[k] = y
  <2>1. CASE y = x
    BY <1>1, <1>2, <2>1, SMTT(20)
  <2>2. CASE y \in Range(a)
    <3>1. PICK k \in 1..Len(a) : a[k] = y
      BY <2>2 DEF Range
    <3>2. 1 + k \in DOMAIN refs
      BY <1>2
    <3> QED
      BY <1>1, <3>1, <3>2
  <2>3. CASE y \in Range(b)
    <3>1. PICK k \in 1..Len(b) : b[k] = y
      BY <2>3 DEF Range
    <3>2. 1 + Len(a) + k \in DOMAIN refs
      BY <1>2
    <3> QED
      BY <1>1, <3>1, <3>2
  <2> QED
    BY <2>1, <2>2, <2>3
<1> DEFINE k == CHOOSE k \in DOMAIN refs : refs[k] = y
<1>4. k \in DOMAIN refs /\ refs[k] = y
  BY <1>3
<1>5. k = (CHOOSE m \in DOMAIN refs : refs[m] = y)
  OBVIOUS
<1> HIDE DEF k
<1>6. (k - 1) + 1 = k
  BY <1>2, <1>4
<1> QED
  BY <1>4, <1>5, <1>6

\* The delta of global state is converted to what it was, an omitted 0
\* included.
LEMMA GlobalsRoundTrip ==
    ASSUME NEW t, IsTransaction(t), NEW raw, IsRawOf(raw, t)
    PROVE  ConvertedGlobals(raw) = t.globals
<1> DEFINE Deltas == [key : Texts, uint : Nat]
           omitted == [i \in DOMAIN t.globals |-> [t.globals[i] EXCEPT !.uint = Omit(@, 0)]]
<1>1. t.globals \in Seq(Deltas)
  BY DEF IsTransaction
<1>2. \A i \in DOMAIN t.globals : t.globals[i] \in Deltas
  BY <1>1, SeqIs
<1>3. raw.applied.globals = omitted
  BY DEF IsRawOf, ApplyData
<1>4. \A i \in DOMAIN t.globals : ConvertedDelta(omitted[i]) = t.globals[i]
  <2> SUFFICES ASSUME NEW i \in DOMAIN t.globals PROVE ConvertedDelta(omitted[i]) = t.globals[i]
    OBVIOUS
  <2>1. t.globals[i] = [key |-> t.globals[i].key, uint |-> t.globals[i].uint]
    BY <1>2
  <2>2. omitted[i] = [key |-> t.globals[i].key, uint |-> Omit(t.globals[i].uint, 0)]
    BY <1>2
  <2>3. ConvertedDelta(omitted[i]) =
            [key |-> t.globals[i].key, uint |-> OrElse(Omit(t.globals[i].uint, 0), 0)]
    <3> HIDE DEF omitted
    <3> QED
      BY <2>2 DEF ConvertedDelta
  <2> QED
    BY <2>1, <2>3, OmittedIsDefault
<1>5. DOMAIN omitted = DOMAIN t.globals
  OBVIOUS
<1> HIDE DEF omitted
<1>6. ConvertedGlobals(raw) = [i \in DOMAIN t.globals |-> ConvertedDelta(omitted[i])]
  BY <1>3, <1>5 DEF ConvertedGlobals
<1>7. t.globals = [i \in DOMAIN t.globals |-> t.globals[i]]
  BY <1>1, SeqIs
<1> QED
  BY <1>4, <1>6, <1>7

\* The account that a change of local state counts to is the one it was counted
\* from.
LEMMA LocalsRoundTrip ==
    ASSUME NEW t, IsTransaction(t), NEW raw, IsRawOf(raw, t)
    PROVE  ConvertedLocals(raw) = t.locals
<1>1. CASE t.type # "appl"
  BY <1>1 DEF IsRawOf, ConvertedLocals, IsTransaction
<1>2. CASE t.type = "appl"
  <2> DEFINE accounts == t.body.accounts
             others == {i \in DOMAIN t.locals :
                           t.locals[i] # t.sender /\ ~Contains(accounts, t.locals[i])}
             shared == SharedAccounts(t)
             refs == AccountReferences(t.sender, accounts, shared)
             numbers == [i \in DOMAIN t.locals |->
                            (CHOOSE k \in DOMAIN refs : refs[k] = t.locals[i]) - 1]
  <2>1. /\ t.locals \in Seq(Texts) /\ t.sender \in Texts
        /\ accounts \in Seq(Texts)
    BY <1>2 DEF IsTransaction, IsBody, Body
  <2>2. raw.body.accounts = accounts
    <3>1. \A x, y : [t.body EXCEPT !.boxes = x, !.access = y].accounts = accounts
      BY <1>2 DEF IsTransaction, IsBody, Body
    <3>2. \E x, y : raw.body = [t.body EXCEPT !.boxes = x, !.access = y]
      BY <1>2 DEF IsRawOf, EncodedBody
    <3> QED
      BY <3>1, <3>2
  <2>3. raw.sender = t.sender /\ raw.applied.shared = shared /\ raw.applied.locals = numbers
    BY <1>2 DEF IsRawOf, ApplyData
  <2>4. shared \in Seq(Texts) /\ Range(shared) = {t.locals[i] : i \in others}
    BY <2>1, SelectedPlaces, SelectedRange DEF SharedAccounts
  <2>5. ConvertedLocals(raw) = [i \in DOMAIN numbers |-> refs[numbers[i] + 1]]
    BY <1>2, <2>2, <2>3 DEF IsRawOf, ConvertedLocals
  <2> HIDE DEF shared
  <2>6. ASSUME NEW i \in DOMAIN t.locals
        PROVE  t.locals[i] = t.sender \/ t.locals[i] \in Range(accounts)
                   \/ t.locals[i] \in Range(shared)
    <3>1. CASE Contains(accounts, t.locals[i])
      BY <2>1, <3>1 DEF Contains, Range
    <3>2. CASE t.locals[i] # t.sender /\ ~Contains(accounts, t.locals[i])
      BY <2>4, <3>2
    <3> QED
      BY <3>1, <3>2
  <2>7. PICK S : /\ t.sender \in S /\ accounts \in Seq(S) /\ shared \in Seq(S)
                 /\ t.locals \in Seq(S)
    BY <2>1, <2>4
  <2>11. refs = AccountReferences(t.sender, accounts, shared)
    OBVIOUS
  <2> HIDE DEF accounts, refs
  <2>8. ASSUME NEW i \in DOMAIN t.locals PROVE refs[numbers[i] + 1] = t.locals[i]
    <3>1. refs[((CHOOSE k \in DOMAIN refs : refs[k] = t.locals[i]) - 1) + 1] = t.locals[i]
      BY <2>6, <2>7, <2>11, ReferenceIsFound
    <3> QED
      BY <3>1
  <2>9. DOMAIN numbers = DOMAIN t.locals
    OBVIOUS
  <2>10. t.locals = [i \in DOMAIN t.locals |-> t.locals[i]]
    BY <2>7, SeqIs
  <2> HIDE DEF numbers
  <2> QED
    BY <2>5, <2>8, <2>9, <2>10
<1> QED
  BY <1>1, <1>2

\* _get_indexer_transaction_from_algod_transaction gives back what the indexer
\* says of a transaction, whatever of it the block leaves out or says in
\* another way: what is zero, the boxes of the app itself, the accounts of local
\* changes, the signature of a state proof.
THEOREM ConversionIsExact ==
    ASSUME NEW t, IsTransaction(t), IsSigned(t), NEW genesis
    PROVE  Converted([Encoded(t) EXCEPT !.genesis = genesis]) = [t EXCEPT !.genesis = genesis]
<1> DEFINE raw == [Encoded(t) EXCEPT !.genesis = genesis]
<1>1. /\ raw.type = t.type /\ raw.sender = t.sender /\ raw.note = t.note
      /\ raw.fee = Omit(t.fee, 0) /\ raw.genesis = genesis
      /\ raw.sig = IF t.sig = "empty" THEN None ELSE t.sig
      /\ raw.body = EncodedBody(t) /\ raw.applied = ApplyData(t)
  BY DEF Encoded
<1> HIDE DEF raw
<1>2. IsRawOf(raw, t)
  BY <1>1 DEF IsRawOf
<1>3. /\ raw.applied.configAsset = Omit(t.createdAsset, 0)
      /\ raw.applied.applicationId = Omit(t.createdApp, 0)
      /\ raw.applied.logs = t.logs
  BY <1>1 DEF ApplyData
<1>4. ConvertedSignature(raw) = t.sig
  BY <1>1 DEF ConvertedSignature, IsSigned
<1>5. Converted(raw) =
          [type |-> t.type, sender |-> t.sender, fee |-> t.fee, note |-> t.note,
           genesis |-> genesis, sig |-> t.sig, createdAsset |-> t.createdAsset,
           createdApp |-> t.createdApp, logs |-> t.logs, globals |-> t.globals,
           locals |-> t.locals, body |-> t.body]
  BY <1>1, <1>2, <1>3, <1>4, OmittedIsDefault, GlobalsRoundTrip, LocalsRoundTrip, BodyRoundTrip
     DEF Converted
<1>6. t \in [type : {t.type}, sender : {t.sender}, fee : {t.fee}, note : {t.note},
             genesis : {t.genesis}, sig : {t.sig}, createdAsset : {t.createdAsset},
             createdApp : {t.createdApp}, logs : {t.logs}, globals : {t.globals},
             locals : {t.locals}, body : {t.body}]
  BY DEF IsTransaction
<1>7. [t EXCEPT !.genesis = genesis] =
          [type |-> t.type, sender |-> t.sender, fee |-> t.fee, note |-> t.note,
           genesis |-> genesis, sig |-> t.sig, createdAsset |-> t.createdAsset,
           createdApp |-> t.createdApp, logs |-> t.logs, globals |-> t.globals,
           locals |-> t.locals, body |-> t.body]
  BY <1>6
<1> QED
  BY <1>5, <1>7 DEF raw

\* What the conversion makes of the transactions of a block and of their inner
\* transactions, which have no genesis.
LEMMA RootConversion ==
    ASSUME NEW t, IsTransaction(t), IsSigned(t), t.genesis # <<>>
    PROVE  Converted(Normalized(Encoded(t))) = t
<1> DEFINE raw == Encoded(t)
<1>1. Normalized(raw) = [raw EXCEPT !.genesis = t.genesis]
  <2>1. t.genesis = <<"id", "hash">> \/ t.genesis = <<None, "hash">>
    BY DEF IsTransaction
  <2>2. raw.hasGenesisId <=> t.genesis[1] # None
    <3>1. raw.hasGenesisId <=> t.genesis # <<>> /\ t.genesis[1] # None
      BY DEF Encoded
    <3> QED
      BY <3>1
  <2> HIDE DEF raw
  <2>3. CASE t.genesis = <<"id", "hash">>
    <3>1. raw.hasGenesisId
      BY <2>2, <2>3 DEF None
    <3> QED
      BY <2>3, <3>1 DEF Normalized
  <2>4. CASE t.genesis = <<None, "hash">>
    <3>1. ~raw.hasGenesisId
      BY <2>2, <2>4
    <3> QED
      BY <2>4, <3>1 DEF Normalized
  <2> QED
    BY <2>1, <2>3, <2>4
<1>2. [t EXCEPT !.genesis = t.genesis] = t
  BY DEF IsTransaction
<1> QED
  BY <1>1, <1>2, ConversionIsExact

\* The conversion of an inner transaction gives the indexer's, without a
\* genesis.
LEMMA InnerConversion ==
    ASSUME NEW t, IsTransaction(t), IsSigned(t), t.genesis = <<>>
    PROVE  Converted(Encoded(t)) = t
<1>1. Encoded(t) = [Encoded(t) EXCEPT !.genesis = <<>>]
  BY DEF Encoded
<1>2. [t EXCEPT !.genesis = <<>>] = t
  BY DEF IsTransaction
<1> QED
  BY <1>1, <1>2, ConversionIsExact

-------------------------------------------------------------------------------
(* Trees. *)

\* The trees with less than d levels.
UpToLevel(d) == UNION {Levels[e] : e \in (1..d) \cap DOMAIN Levels}

\* What a tree of one level nests is of the level below.
LEMMA InnerIsLower ==
    ASSUME NEW d \in Nat, NEW t \in UpToLevel(d + 1)
    PROVE  t.inner \in Seq(UpToLevel(d))
<1>1. PICK e \in (1..(d + 1)) \cap DOMAIN Levels : t \in Levels[e]
  BY DEF UpToLevel
<1>2. t.inner \in Seq(UNION {Levels[c] : c \in 1..(e - 1)})
  BY <1>1, LevelsAssumption
<1>3. UNION {Levels[c] : c \in 1..(e - 1)} \subseteq UpToLevel(d)
  <2>1. DOMAIN Levels = 1..Len(Levels) /\ Len(Levels) \in Nat
    BY LevelsAssumption
  <2>2. \A c \in 1..(e - 1) : c \in (1..d) \cap DOMAIN Levels
    BY <2>1
  <2> QED
    BY <2>2 DEF UpToLevel
<1> QED
  BY <1>2, <1>3, SeqMonotonic

\* Trees are those of some level, and the levels grow.
LEMMA LevelsAreTrees ==
    /\ UpToLevel(0) = {}
    /\ \A d \in Nat : UpToLevel(d) \subseteq UpToLevel(d + 1) /\ UpToLevel(d) \subseteq Trees
    /\ \E d \in Nat : Trees = UpToLevel(d)
<1>1. DOMAIN Levels = 1..Len(Levels) /\ Len(Levels) \in Nat
  BY LevelsAssumption
<1>2. Trees = UNION {Levels[e] : e \in DOMAIN Levels}
  BY DEF Trees, Range
<1>3. UpToLevel(Len(Levels)) = Trees
  BY <1>1, <1>2 DEF UpToLevel
<1>4. UpToLevel(0) = {}
  BY DEF UpToLevel
<1>5. ASSUME NEW d \in Nat PROVE UpToLevel(d) \subseteq UpToLevel(d + 1) /\ UpToLevel(d) \subseteq Trees
  <2>1. (1..d) \subseteq 1..(d + 1)
    OBVIOUS
  <2> QED
    BY <1>2, <2>1 DEF UpToLevel
<1> QED
  BY <1>1, <1>3, <1>4, <1>5

\* The nodes of a forest are what is said of its roots and of them alone.
LEMMA ExpandedAlike ==
    ASSUME NEW forest, NEW g, NEW h, \A i \in DOMAIN forest : g[forest[i]] = h[forest[i]]
    PROVE  Expanded(forest, g) = Expanded(forest, h)
<1>1. [i \in DOMAIN forest |-> <<forest[i]>> \o g[forest[i]]] =
          [i \in DOMAIN forest |-> <<forest[i]>> \o h[forest[i]]]
  OBVIOUS
<1> QED
  BY <1>1 DEF Expanded

\* The recursion of what is below a tree has a solution.
LEMMA BelowExists == \E g : g = [t \in Trees |-> Expanded(t.inner, g)]
<1> DEFINE P == {d \in Nat : \E g : g = [t \in UpToLevel(d) |-> Expanded(t.inner, g)]}
<1>1. 0 \in P
  <2> DEFINE g == [t \in {} |-> t]
  <2>1. g = [t \in {} |-> Expanded(t.inner, g)]
    OBVIOUS
  <2> HIDE DEF g
  <2> QED
    BY <2>1, LevelsAreTrees
<1>2. \A d \in Nat : d \in P => d + 1 \in P
  <2> SUFFICES ASSUME NEW d \in Nat, d \in P PROVE d + 1 \in P
    OBVIOUS
  <2>1. PICK g : g = [t \in UpToLevel(d) |-> Expanded(t.inner, g)]
    OBVIOUS
  <2> DEFINE h == [t \in UpToLevel(d + 1) |-> Expanded(t.inner, g)]
  <2>2. \A t \in UpToLevel(d) : h[t] = g[t]
    BY <2>1, LevelsAreTrees
  <2>3. ASSUME NEW t \in UpToLevel(d + 1) PROVE Expanded(t.inner, g) = Expanded(t.inner, h)
    <3>1. \A i \in DOMAIN t.inner : t.inner[i] \in UpToLevel(d)
      BY InnerIsLower, SeqIs
    <3> HIDE DEF h
    <3> QED
      BY <2>2, <3>1, ExpandedAlike
  <2>4. h = [t \in UpToLevel(d + 1) |-> Expanded(t.inner, h)]
    BY <2>3
  <2> HIDE DEF h
  <2> QED
    BY <2>4
<1> HIDE DEF P
<1>3. Nat \subseteq P
  BY <1>1, <1>2, NatInductionSet
<1> QED
  BY <1>3, LevelsAreTrees DEF P

\* What is below a tree: its inner trees, each before what is below it.
LEMMA BelowIs ==
    ASSUME NEW t \in Trees
    PROVE  Below[t] = Expanded(t.inner, Below)
<1> DEFINE c == CHOOSE g : g = [u \in Trees |-> Expanded(u.inner, g)]
<1>1. c = [u \in Trees |-> Expanded(u.inner, c)]
  BY BelowExists
<1>2. Below = c
  BY DEF Below
<1> HIDE DEF c
<1> QED
  BY <1>1, <1>2

\* Induction over the levels of trees, for a set of trees.
LEMMA TreeInduction ==
    ASSUME NEW P, \A t \in Trees : t.inner \in Seq(Trees) /\ Range(t.inner) \subseteq P => t \in P
    PROVE  Trees \subseteq P
<1> DEFINE Q == {d \in Nat : UpToLevel(d) \subseteq P}
<1>1. 0 \in Q
  BY LevelsAreTrees
<1>2. \A d \in Nat : d \in Q => d + 1 \in Q
  <2> SUFFICES ASSUME NEW d \in Nat, d \in Q, NEW t \in UpToLevel(d + 1) PROVE t \in P
    OBVIOUS
  <2>1. t \in Trees /\ t.inner \in Seq(UpToLevel(d)) /\ UpToLevel(d) \subseteq Trees
        /\ UpToLevel(d) \subseteq P
    BY LevelsAreTrees, InnerIsLower
  <2>2. t.inner \in Seq(Trees)
    BY <2>1, SeqMonotonic
  <2>3. Range(t.inner) \subseteq P
    BY <2>1 DEF Range
  <2> QED
    BY <2>1, <2>2, <2>3
<1> HIDE DEF Q
<1>3. Nat \subseteq Q
  BY <1>1, <1>2, NatInductionSet
<1> QED
  BY <1>3, LevelsAreTrees DEF Q

\* What a tree nests are trees.
LEMMA InnerTyped ==
    ASSUME NEW t \in Trees
    PROVE  t.inner \in Seq(Trees)
<1>1. PICK d \in Nat : Trees = UpToLevel(d)
  BY LevelsAreTrees
<1>2. t \in UpToLevel(d + 1) /\ UpToLevel(d) = Trees
  BY <1>1, LevelsAreTrees
<1> QED
  BY <1>2, InnerIsLower

\* The lists that are joined for a forest.
Nodes(forest) == [i \in DOMAIN forest |-> <<forest[i]>> \o Below[forest[i]]]

\* The nodes of a forest, root by root: a root, then what is below it.
LEMMA NodesTyped ==
    ASSUME NEW forest \in Seq(Trees), \A i \in DOMAIN forest : Below[forest[i]] \in Seq(Trees)
    PROVE  /\ Nodes(forest) \in Seq(Seq(Trees)) /\ DOMAIN Nodes(forest) = DOMAIN forest
           /\ \A i \in DOMAIN forest :
                 /\ Nodes(forest)[i] \in Seq(Trees)
                 /\ Len(Nodes(forest)[i]) = 1 + Len(Below[forest[i]])
                 /\ Nodes(forest)[i][1] = forest[i]
                 /\ \A m \in 1..Len(Below[forest[i]]) : Nodes(forest)[i][1 + m] = Below[forest[i]][m]
<1> DEFINE list(i) == <<forest[i]>> \o Below[forest[i]]
<1>1. ASSUME NEW i \in DOMAIN forest
      PROVE  /\ list(i) \in Seq(Trees)
             /\ Len(list(i)) = 1 + Len(Below[forest[i]])
             /\ list(i)[1] = forest[i]
             /\ \A m \in 1..Len(Below[forest[i]]) : list(i)[1 + m] = Below[forest[i]][m]
  <2> DEFINE b == Below[forest[i]]
  <2>1. forest[i] \in Trees /\ b \in Seq(Trees)
    BY SeqIs
  <2> HIDE DEF b
  <2>2. <<forest[i]>> \in Seq(Trees) /\ Len(<<forest[i]>>) = 1 /\ <<forest[i]>>[1] = forest[i]
    BY <2>1
  <2>3. /\ <<forest[i]>> \o b \in Seq(Trees) /\ Len(<<forest[i]>> \o b) = 1 + Len(b)
        /\ (<<forest[i]>> \o b)[1] = forest[i]
        /\ \A m \in 1..Len(b) : (<<forest[i]>> \o b)[1 + m] = b[m]
    BY <2>1, <2>2
  <2> QED
    BY <2>3 DEF b
<1>2. DOMAIN forest = 1..Len(forest) /\ Len(forest) \in Nat
  BY SeqIs
<1>3. DOMAIN Nodes(forest) = DOMAIN forest /\ \A i \in DOMAIN forest : Nodes(forest)[i] = list(i)
  BY DEF Nodes
<1>4. Nodes(forest) \in [1..Len(forest) -> Seq(Trees)]
  <2>1. \A i \in DOMAIN forest : list(i) \in Seq(Trees)
    BY <1>1
  <2> HIDE DEF list
  <2>2. Nodes(forest) = [i \in 1..Len(forest) |-> Nodes(forest)[i]]
    BY <1>2 DEF Nodes
  <2> QED
    BY <1>2, <1>3, <2>1, <2>2
<1>5. Nodes(forest) \in Seq(Seq(Trees))
  BY <1>2, <1>4
<1> HIDE DEF list
<1> QED
  BY <1>1, <1>3, <1>5

\* A place strictly before another is followed by one of the same list.
LEMMA Between ==
    ASSUME NEW a \in Nat, NEW b \in 1..a, NEW c \in 1..a, b + 1 < c
    PROVE  b + 1 \in 1..a
OBVIOUS

\* What follows a place in its list follows it in the joined list.
LEMMA JoinsNext ==
    ASSUME NEW S, NEW seqs \in Seq(Seq(S)), NEW joined \in Seq(S), NEW at, Joins(at, seqs, joined),
           NEW p \in Places(seqs), NEW m \in Nat, p[2] + m \in DOMAIN seqs[p[1]]
    PROVE  /\ <<p[1], p[2] + m>> \in Places(seqs)
           /\ at[<<p[1], p[2] + m>>] = at[p] + m
<1> DEFINE i == p[1]
           k == p[2]
           q(l) == <<i, k + l>>
           P == {l \in Nat : k + l \in DOMAIN seqs[i] => at[q(l)] = at[p] + l}
<1>1. /\ i \in DOMAIN seqs /\ DOMAIN seqs = 1..Len(seqs) /\ Len(seqs) \in Nat
      /\ k \in Nat /\ p = <<i, k>> /\ k \in DOMAIN seqs[i]
      /\ DOMAIN seqs[i] = 1..Len(seqs[i]) /\ Len(seqs[i]) \in Nat
  <2>1. i \in DOMAIN seqs /\ k \in Nat /\ p = <<i, k>> /\ k \in DOMAIN seqs[i]
    BY DEF Places
  <2>2. DOMAIN seqs = 1..Len(seqs) /\ Len(seqs) \in Nat /\ seqs[i] \in Seq(S)
    BY <2>1, SeqIs
  <2> QED
    BY <2>1, <2>2, SeqIs
<1> HIDE DEF i, k
<1>2. \A l \in Nat : k + l \in DOMAIN seqs[i] => q(l) \in Places(seqs)
  BY <1>1, SMTT(20) DEF Places
<1>3. /\ \A x \in Places(seqs) : at[x] \in Int
      /\ \A n \in 1..Len(joined) : \E x \in Places(seqs) : at[x] = n
      /\ \A x \in Places(seqs) : at[x] \in 1..Len(joined)
      /\ \A x, y \in Places(seqs) : Prior(x, y) => at[x] < at[y]
  <2>1. at \in [Places(seqs) -> 1..Len(joined)]
    BY DEF Joins
  <2> QED
    BY <2>1 DEF Joins
<1>4. 0 \in P
  <2>1. k + 0 = k
    BY <1>1
  <2>2. at[q(0)] = at[p]
    BY <1>1, <2>1
  <2>3. at[p] + 0 = at[p]
    BY <1>3
  <2> QED
    BY <2>2, <2>3
<1>5. \A l \in Nat : l \in P => l + 1 \in P
  <2> SUFFICES ASSUME NEW l \in Nat, l \in P, k + (l + 1) \in DOMAIN seqs[i]
               PROVE  at[q(l + 1)] = at[p] + (l + 1)
    OBVIOUS
  <2>1. k + l \in DOMAIN seqs[i] /\ k + (l + 1) = (k + l) + 1
    BY <1>1, SMTT(20)
  <2>2. q(l) \in Places(seqs) /\ q(l + 1) \in Places(seqs) /\ at[q(l)] = at[p] + l
    BY <1>2, <2>1
  <2>3. at[q(l)] < at[q(l + 1)]
    <3>1. Prior(q(l), q(l + 1))
      BY <1>1, <2>1 DEF Prior
    <3> QED
      BY <1>3, <2>2, <3>1
  <2> DEFINE u == at[q(l)]
             v == at[q(l + 1)]
             w == at[p]
             n == Len(joined)
  <2>7. u \in 1..n /\ v \in 1..n /\ w \in 1..n
    BY <1>3, <2>2
  <2>8. n \in Nat /\ u < v /\ u = w + l
    BY <2>2, <2>3
  <2>9. k + l \in Nat /\ k + (l + 1) = (k + l) + 1 /\ i \in Nat
    BY <1>1, SMTT(20)
  <2> HIDE DEF u, v, w, n
  <2>4. /\ u \in 1..n /\ v \in 1..n /\ n \in Nat /\ w \in Int /\ u < v /\ u = w + l
        /\ k + l \in Nat /\ k + (l + 1) = (k + l) + 1 /\ i \in Nat
    BY <2>7, <2>8, <2>9
  <2>5. ASSUME u + 1 < v PROVE FALSE
    <3>1. u + 1 \in 1..n
      BY <2>4, <2>5, Between
    <3>2. PICK x \in Places(seqs) : at[x] = u + 1
      BY <1>3, <3>1 DEF n
    <3>3. x = <<x[1], x[2]>> /\ x[1] \in Nat /\ x[2] \in Nat
      BY <1>1 DEF Places
    <3> DEFINE g == x[1]
               h == x[2]
               o == k + l
    <3>4. Prior(x, q(l)) \/ x = q(l) \/ Prior(q(l + 1), x) \/ x = q(l + 1)
      <4>1. g \in Nat /\ h \in Nat /\ o \in Nat /\ x = <<g, h>>
            /\ q(l) = <<i, o>> /\ q(l + 1) = <<i, o + 1>>
        BY <2>4, <3>3
      <4> HIDE DEF g, h, o, q
      <4>2. g < i \/ (g = i /\ h < o) \/ (g = i /\ h = o) \/ (g = i /\ h = o + 1)
            \/ i < g \/ (g = i /\ o + 1 < h)
        BY <2>4, <4>1
      <4> QED
        BY <4>1, <4>2 DEF Prior
    <3>5. Prior(x, q(l)) => u + 1 < u
      BY <1>3, <2>2, <3>2 DEF u
    <3>6. x = q(l) => u + 1 = u
      BY <3>2 DEF u
    <3>7. Prior(q(l + 1), x) => v < u + 1
      BY <1>3, <2>2, <3>2 DEF v
    <3>8. x = q(l + 1) => v = u + 1
      BY <3>2 DEF v
    <3> HIDE DEF q
    <3> QED
      BY <2>4, <2>5, <3>4, <3>5, <3>6, <3>7, <3>8
  <2>6. v = w + (l + 1)
    BY <2>4, <2>5
  <2> QED
    BY <2>6 DEF v, w
<1> HIDE DEF P
<1>6. Nat \subseteq P
  BY <1>4, <1>5, NatInductionSet
<1>7. m \in P
  BY <1>6
<1> QED
  BY <1>2, <1>7 DEF P, i, k

\* The nodes of a forest are trees, and come from the nodes of its roots in
\* order.
LEMMA ExpandedTyped ==
    ASSUME NEW forest \in Seq(Trees), \A i \in DOMAIN forest : Below[forest[i]] \in Seq(Trees)
    PROVE  /\ Expanded(forest, Below) \in Seq(Trees)
           /\ \E at : Joins(at, Nodes(forest), Expanded(forest, Below))
<1>1. Expanded(forest, Below) = Joined(Nodes(forest))
  BY DEF Expanded, Nodes
<1> QED
  BY <1>1, NodesTyped, JoinedPlaces

\* What is below a tree is a list of trees.
LEMMA BelowTyped ==
    ASSUME NEW t \in Trees
    PROVE  Below[t] \in Seq(Trees) /\ Len(Below[t]) \in Nat /\ DOMAIN Below[t] = 1..Len(Below[t])
<1> DEFINE P == {u \in Trees : Below[u] \in Seq(Trees)}
<1>1. ASSUME NEW u \in Trees, u.inner \in Seq(Trees), Range(u.inner) \subseteq P
      PROVE  u \in P
  <2>1. \A i \in DOMAIN u.inner : Below[u.inner[i]] \in Seq(Trees)
    BY <1>1, SeqIs
  <2> QED
    BY <1>1, <2>1, ExpandedTyped, BelowIs
<1> HIDE DEF P
<1>2. Trees \subseteq P
  BY <1>1, TreeInduction
<1>3. Below[t] \in Seq(Trees)
  BY <1>2 DEF P
<1> QED
  BY <1>3, SeqIs

\* What a node of a tree has below it follows it in the list of the tree, as in a
\* list of its own; this is what a number of transactions can stand for.
LEMMA BelowIsNested ==
    ASSUME NEW t \in Trees, NEW k \in DOMAIN Below[t]
    PROVE  /\ Below[t][k] \in Trees
           /\ k + Len(Below[Below[t][k]]) <= Len(Below[t])
           /\ \A m \in 1..Len(Below[Below[t][k]]) : Below[t][k + m] = Below[Below[t][k]][m]
<1> DEFINE Nested(u, j) ==
               /\ j + Len(Below[Below[u][j]]) <= Len(Below[u])
               /\ \A m \in 1..Len(Below[Below[u][j]]) : Below[u][j + m] = Below[Below[u][j]][m]
           P == {u \in Trees : \A j \in DOMAIN Below[u] : Nested(u, j)}
<1>1. ASSUME NEW u \in Trees, u.inner \in Seq(Trees), Range(u.inner) \subseteq P,
             NEW j \in DOMAIN Below[u]
      PROVE  Nested(u, j)
  <2> DEFINE forest == u.inner
             all == Below[u]
             lists == Nodes(forest)
  <2>1. \A i \in DOMAIN forest : /\ forest[i] \in Trees /\ Below[forest[i]] \in Seq(Trees)
                                 /\ \A l \in DOMAIN Below[forest[i]] : Nested(forest[i], l)
    BY <1>1, SeqIs, BelowTyped
  <2>2. all = Expanded(forest, Below) /\ all \in Seq(Trees)
        /\ DOMAIN all = 1..Len(all) /\ Len(all) \in Nat
    BY <1>1, BelowIs, BelowTyped
  <2>3. /\ lists \in Seq(Seq(Trees)) /\ DOMAIN lists = DOMAIN forest
        /\ \A i \in DOMAIN forest :
              /\ lists[i] \in Seq(Trees)
              /\ Len(lists[i]) = 1 + Len(Below[forest[i]])
              /\ lists[i][1] = forest[i]
              /\ \A m \in 1..Len(Below[forest[i]]) : lists[i][1 + m] = Below[forest[i]][m]
    BY <1>1, <2>1, NodesTyped
  <2>4. PICK at : Joins(at, lists, all)
    BY <1>1, <2>1, <2>2, ExpandedTyped
  <2> HIDE DEF all, lists, forest
  <2>5. PICK p \in Places(lists) : at[p] = j
    BY <2>2, <2>4 DEF Joins, all
  <2> DEFINE i == p[1]
             l == p[2]
             node == all[j]
             n == Len(Below[node])
  <2>6. i \in DOMAIN forest /\ l \in DOMAIN lists[i] /\ node = lists[i][l]
    <3>1. i \in DOMAIN lists /\ l \in DOMAIN lists[i]
      BY DEF Places
    <3>2. all[at[p]] = lists[p[1]][p[2]]
      BY <2>4 DEF Joins
    <3> QED
      BY <2>3, <2>5, <3>1, <3>2
  <2>7. node \in Trees /\ n \in Nat
    <3>1. node \in Trees
      BY <2>2 DEF all
    <3> QED
      BY <3>1, BelowTyped
  <2>8. DOMAIN lists[i] = 1..Len(lists[i]) /\ Len(Below[forest[i]]) \in Nat /\ forest[i] \in Trees
    BY <2>1, <2>3, <2>6, SeqIs
  <2> HIDE DEF i, l, node, n
  <2>9. /\ l + n <= Len(lists[i])
        /\ \A m \in 1..n : lists[i][l + m] = Below[node][m]
    <3>1. CASE l = 1
      <4>1. node = forest[i]
        BY <2>3, <2>6, <3>1
      <4>2. n = Len(Below[forest[i]])
        BY <4>1 DEF n
      <4> QED
        BY <2>3, <2>6, <2>8, <3>1, <4>1, <4>2
    <3>2. CASE l # 1
      <4> DEFINE b == Below[forest[i]]
                 o == l - 1
      <4>1. o \in 1..Len(b) /\ l = 1 + o /\ o \in Nat
        BY <2>3, <2>6, <2>8, <3>2
      <4>2. node = b[o]
        BY <2>3, <2>6, <4>1
      <4>3. DOMAIN b = 1..Len(b)
        BY <2>8, BelowTyped
      <4>4. o + Len(Below[b[o]]) <= Len(b) /\ \A m \in 1..Len(Below[b[o]]) : b[o + m] = Below[b[o]][m]
        BY <2>1, <2>6, <4>1, <4>3
      <4>5. o + n <= Len(b) /\ \A m \in 1..n : b[o + m] = Below[node][m]
        BY <4>2, <4>4 DEF n
      <4>6. Len(lists[i]) = 1 + Len(b) /\ \A m \in 1..Len(b) : lists[i][1 + m] = b[m]
        BY <2>3, <2>6
      <4> HIDE DEF b, o
      <4>7. Len(b) \in Nat
        BY <2>8 DEF b
      <4>8. l + n <= Len(lists[i])
        BY <2>7, <4>1, <4>5, <4>6, <4>7
      <4>9. ASSUME NEW m \in 1..n PROVE lists[i][l + m] = Below[node][m]
        <5>1. o + m \in 1..Len(b) /\ l + m = 1 + (o + m)
          BY <2>7, <4>1, <4>5, <4>7, SMTT(20)
        <5> QED
          BY <4>5, <4>6, <5>1
      <4> QED
        BY <4>8, <4>9
    <3> QED
      BY <3>1, <3>2
  <2>10. ASSUME NEW m \in 0..n
         PROVE  <<i, l + m>> \in Places(lists) /\ at[<<i, l + m>>] = j + m
    <3>1. l \in Nat /\ m \in Nat /\ l + m \in DOMAIN lists[i]
      BY <2>6, <2>7, <2>8, <2>9
    <3> QED
      BY <2>2, <2>3, <2>4, <2>5, <3>1, JoinsNext DEF i, l
  <2>11. j + n <= Len(all)
    <3>1. at[<<i, l + n>>] \in 1..Len(all)
      BY <2>4, <2>7, <2>10 DEF Joins
    <3> QED
      BY <2>2, <2>7, <2>10, <3>1
  <2>12. ASSUME NEW m \in 1..n PROVE all[j + m] = Below[node][m]
    <3>1. all[at[<<i, l + m>>]] = lists[i][l + m]
      BY <2>4, <2>7, <2>10 DEF Joins
    <3>2. at[<<i, l + m>>] = j + m
      BY <2>7, <2>10
    <3> QED
      BY <2>9, <3>1, <3>2
  <2> QED
    BY <2>11, <2>12 DEF all, node, n
<1>2. \A u \in Trees : u.inner \in Seq(Trees) /\ Range(u.inner) \subseteq P => u \in P
  BY <1>1
<1> HIDE DEF P
<1>3. t \in P
  BY <1>2, TreeInduction
<1>4. Nested(t, k)
  BY <1>3 DEF P
<1>5. Below[t][k] \in Trees
  BY BelowTyped, SeqIs
<1> QED
  BY <1>4, <1>5

-------------------------------------------------------------------------------
(* A root and its inner transactions. *)

\* The inner transactions have no genesis at any level.
LEMMA BelowHasNoGenesis ==
    ASSUME NEW t \in Trees, NEW k \in DOMAIN Below[t]
    PROVE  Below[t][k].facts.genesis = <<>>
<1> DEFINE P == {u \in Trees : \A j \in DOMAIN Below[u] : Below[u][j].facts.genesis = <<>>}
<1>1. ASSUME NEW u \in Trees, u.inner \in Seq(Trees), Range(u.inner) \subseteq P,
             NEW j \in DOMAIN Below[u]
      PROVE  Below[u][j].facts.genesis = <<>>
  <2> DEFINE forest == u.inner
             lists == Nodes(forest)
  <2>1. \A i \in DOMAIN forest : /\ Below[forest[i]] \in Seq(Trees)
                                 /\ forest[i].facts.genesis = <<>>
                                 /\ \A l \in DOMAIN Below[forest[i]] :
                                        Below[forest[i]][l].facts.genesis = <<>>
    <3>1. \A i \in DOMAIN forest : forest[i] \in Range(forest) /\ forest[i] \in Trees
      BY <1>1, SeqIs
    <3> QED
      BY <1>1, <3>1, BelowTyped, TreesAssumption
  <2>2. /\ lists \in Seq(Seq(Trees)) /\ DOMAIN lists = DOMAIN forest
        /\ \A i \in DOMAIN forest :
              /\ lists[i] \in Seq(Trees)
              /\ Len(lists[i]) = 1 + Len(Below[forest[i]])
              /\ lists[i][1] = forest[i]
              /\ \A m \in 1..Len(Below[forest[i]]) : lists[i][1 + m] = Below[forest[i]][m]
    BY <1>1, <2>1, NodesTyped
  <2>3. Below[u] = Expanded(forest, Below)
    BY BelowIs
  <2>4. PICK at : Joins(at, lists, Below[u])
    BY <1>1, <2>1, <2>3, ExpandedTyped
  <2> HIDE DEF lists, forest
  <2>5. PICK p \in Places(lists) : at[p] = j
    BY <1>1, <2>4, BelowTyped DEF Joins
  <2> DEFINE i == p[1]
             l == p[2]
  <2>6. i \in DOMAIN forest /\ l \in DOMAIN lists[i] /\ Below[u][j] = lists[i][l]
    <3>1. i \in DOMAIN lists /\ l \in DOMAIN lists[i]
      BY DEF Places
    <3>2. Below[u][at[p]] = lists[p[1]][p[2]]
      BY <2>4 DEF Joins
    <3> QED
      BY <2>2, <2>5, <3>1, <3>2
  <2> HIDE DEF i, l
  <2>7. DOMAIN lists[i] = 1..Len(lists[i]) /\ DOMAIN Below[forest[i]] = 1..Len(Below[forest[i]])
        /\ Len(Below[forest[i]]) \in Nat
    BY <2>1, <2>2, <2>6, SeqIs
  <2>8. CASE l = 1
    BY <2>1, <2>2, <2>6, <2>8
  <2>9. CASE l # 1
    <3>1. l - 1 \in 1..Len(Below[forest[i]]) /\ l = 1 + (l - 1)
      BY <2>2, <2>6, <2>7, <2>9
    <3>2. lists[i][l] = Below[forest[i]][l - 1]
      BY <2>2, <2>6, <3>1
    <3> QED
      BY <2>1, <2>6, <2>7, <3>1, <3>2
  <2> QED
    BY <2>8, <2>9
<1>2. \A u \in Trees : u.inner \in Seq(Trees) /\ Range(u.inner) \subseteq P => u \in P
  BY <1>1
<1> HIDE DEF P
<1>3. t \in P
  BY <1>2, TreeInduction
<1> QED
  BY <1>3 DEF P

\* A root with its inner transactions in one list.
IsRoot(root) ==
    /\ root = [id |-> root.id, round |-> root.round, offset |-> root.offset,
               facts |-> root.facts, inner |-> root.inner]
    /\ root.round \in Nat /\ root.offset \in Nat
    /\ IsTransaction(root.facts)
    /\ Len(root.inner) \in Nat /\ DOMAIN root.inner = 1..Len(root.inner)
    /\ \A k \in DOMAIN root.inner :
          /\ IsTransaction(root.inner[k].facts)
          /\ root.inner[k].size \in Nat /\ k + root.inner[k].size <= Len(root.inner)

NodeFacts(root, i) == IF i = 0 THEN root.facts ELSE root.inner[i].facts
NodeSize(root, i) == IF i = 0 THEN Len(root.inner) ELSE root.inner[i].size

\* The subscribed transaction of the root, or of an inner one, without and with
\* those below it.
Leaf(root, i) ==
    [id |-> <<root.id, i>>, round |-> root.round, offset |-> root.offset + i,
     facts |-> NodeFacts(root, i), matched |-> <<>>, inner |-> <<>>]

Whole(root, i) ==
    [id |-> <<root.id, i>>, round |-> root.round, offset |-> root.offset + i,
     facts |-> NodeFacts(root, i), matched |-> <<>>,
     inner |-> [k \in 1..NodeSize(root, i) |-> Leaf(root, i + k)]]

\* A node of a root ends within the root and is a transaction.
LEMMA NodeOfRoot ==
    ASSUME NEW root, IsRoot(root), NEW i \in 0..Len(root.inner)
    PROVE  /\ NodeSize(root, i) \in Nat /\ i + NodeSize(root, i) <= Len(root.inner)
           /\ IsTransaction(NodeFacts(root, i))
<1>1. CASE i = 0
  BY <1>1 DEF IsRoot, NodeSize, NodeFacts
<1>2. CASE i # 0
  <2>1. i \in DOMAIN root.inner
    BY <1>2 DEF IsRoot
  <2> QED
    BY <1>2, <2>1 DEF IsRoot, NodeSize, NodeFacts
<1> QED
  BY <1>1, <1>2

\* _map_txn_and_inner_txns_to_subscribed_txn, for one root.
LEMMA WithInnerIs ==
    ASSUME NEW root, IsRoot(root)
    PROVE  /\ DOMAIN WithInner(root) = 1..(1 + Len(root.inner))
           /\ Len(WithInner(root)) = 1 + Len(root.inner)
           /\ WithInner(root) \in Seq(Range(WithInner(root)))
           /\ \A i \in 0..Len(root.inner) : WithInner(root)[1 + i] = Whole(root, i)
<1> DEFINE n == Len(root.inner)
           first == [id |-> <<root.id, 0>>, round |-> root.round, offset |-> root.offset,
                     facts |-> root.facts, size |-> n]
           mapped == MapInner(root)
           all == <<first>> \o mapped
           below(i) == [k \in 1..all[i].size |-> SubscribedTransaction(all[i + k], <<>>)]
           txns == [i \in DOMAIN all |-> SubscribedTransaction(all[i], below(i))]
<1>1. n \in Nat /\ DOMAIN root.inner = 1..n /\ root.offset \in Nat
  BY DEF IsRoot
<1>2. WithInner(root) = txns
  BY DEF WithInner
<1>3. /\ DOMAIN mapped = 1..n
      /\ \A k \in 1..n :
            mapped[k] = [id |-> <<root.id, k>>, round |-> root.round, offset |-> root.offset + k,
                         facts |-> root.inner[k].facts, size |-> root.inner[k].size]
  BY <1>1 DEF MapInner
<1>4. \E S : first \in S /\ mapped \in Seq(S)
  <2> DEFINE S == {first} \cup Range(mapped)
  <2>1. mapped = [k \in 1..n |-> mapped[k]]
    BY <1>1 DEF MapInner
  <2>2. mapped \in [1..n -> S]
    <3> HIDE DEF mapped
    <3> QED
      BY <1>3, <2>1 DEF Range
  <2> HIDE DEF S, n, mapped
  <2>3. mapped \in Seq(S)
    BY <1>1, <2>2
  <2> USE DEF S
  <2> QED
    BY <2>3
<1> HIDE DEF mapped
<1>5. Len(mapped) = n
  BY <1>1, <1>3, <1>4
<1> HIDE DEF first, n
<1>6. DOMAIN all = 1..(1 + n) /\ all[1] = first /\ \A k \in 1..n : all[1 + k] = mapped[k]
  <2>1. PICK S : first \in S /\ mapped \in Seq(S)
    BY <1>4
  <2>2. Len(mapped) \in Nat
    BY <2>1
  <2>3. /\ <<first>> \o mapped \in Seq(S)
        /\ Len(<<first>> \o mapped) = 1 + Len(mapped)
        /\ (<<first>> \o mapped)[1] = first
        /\ \A k \in 1..Len(mapped) : (<<first>> \o mapped)[1 + k] = mapped[k]
    BY <2>1
  <2> HIDE DEF all
  <2>4. all = <<first>> \o mapped
    BY DEF all
  <2>5. DOMAIN all = 1..Len(all)
    BY <2>3, <2>4
  <2> QED
    BY <1>5, <2>3, <2>4, <2>5
<1> HIDE DEF all
<1>7. \A i \in 0..n :
          all[1 + i] = [id |-> <<root.id, i>>, round |-> root.round, offset |-> root.offset + i,
                        facts |-> NodeFacts(root, i), size |-> NodeSize(root, i)]
  <2> SUFFICES ASSUME NEW i \in 0..n
               PROVE  all[1 + i] = [id |-> <<root.id, i>>, round |-> root.round,
                                    offset |-> root.offset + i, facts |-> NodeFacts(root, i),
                                    size |-> NodeSize(root, i)]
    OBVIOUS
  <2>1. CASE i = 0
    BY <1>1, <1>6, <2>1 DEF first, n, NodeFacts, NodeSize
  <2>2. CASE i # 0
    <3>1. i \in 1..n
      BY <1>1, <2>2
    <3>2. all[1 + i] = mapped[i]
      BY <1>6, <3>1
    <3> QED
      BY <1>3, <2>2, <3>1, <3>2 DEF NodeFacts, NodeSize
  <2> QED
    BY <2>1, <2>2
<1>8. ASSUME NEW i \in 0..n PROVE txns[1 + i] = Whole(root, i)
  <2>1. /\ NodeSize(root, i) \in Nat /\ i + NodeSize(root, i) <= n
    BY <1>1, NodeOfRoot DEF n
  <2>2. 1 + i \in DOMAIN all
    BY <1>1, <1>6
  <2>7. all[1 + i] = [id |-> <<root.id, i>>, round |-> root.round, offset |-> root.offset + i,
                      facts |-> NodeFacts(root, i), size |-> NodeSize(root, i)]
    BY <1>7, Zenon
  <2>3. txns[1 + i] = SubscribedTransaction(all[1 + i], below(1 + i))
    BY <2>2
  <2>4. below(1 + i) = [k \in 1..NodeSize(root, i) |-> Leaf(root, i + k)]
    <3>1. all[1 + i].size = NodeSize(root, i)
      BY <2>7
    <3>2. ASSUME NEW k \in 1..NodeSize(root, i)
          PROVE  SubscribedTransaction(all[(1 + i) + k], <<>>) = Leaf(root, i + k)
      <4>1. i + k \in 0..n /\ (1 + i) + k = 1 + (i + k)
        BY <1>1, <2>1
      <4>2. all[(1 + i) + k] = [id |-> <<root.id, i + k>>, round |-> root.round,
                                offset |-> root.offset + (i + k), facts |-> NodeFacts(root, i + k),
                                size |-> NodeSize(root, i + k)]
        BY <1>7, <4>1
      <4> QED
        BY <4>2 DEF SubscribedTransaction, Leaf
    <3> QED
      BY <3>1, <3>2
  <2> HIDE DEF below
  <2>5. SubscribedTransaction(all[1 + i], below(1 + i)) =
            [id |-> <<root.id, i>>, round |-> root.round, offset |-> root.offset + i,
             facts |-> NodeFacts(root, i), matched |-> <<>>, inner |-> below(1 + i)]
    BY <2>7 DEF SubscribedTransaction
  <2>6. Whole(root, i) =
            [id |-> <<root.id, i>>, round |-> root.round, offset |-> root.offset + i,
             facts |-> NodeFacts(root, i), matched |-> <<>>,
             inner |-> [k \in 1..NodeSize(root, i) |-> Leaf(root, i + k)]]
    BY DEF Whole
  <2> QED
    BY <2>3, <2>4, <2>5, <2>6
<1>9. DOMAIN txns = 1..(1 + n)
  BY <1>6
<1>10. txns \in Seq(Range(txns)) /\ Len(txns) = 1 + n
  <2>1. txns = [i \in 1..(1 + n) |-> txns[i]]
    BY <1>6
  <2> HIDE DEF txns
  <2>2. txns \in [1..(1 + n) -> Range(txns)]
    BY <1>9, <2>1 DEF Range
  <2>3. 1 + n \in Nat
    BY <1>1
  <2> QED
    BY <2>2, <2>3
<1> HIDE DEF txns
<1> QED
  BY <1>2, <1>8, <1>9, <1>10 DEF n

\* The list of the inner transactions of a tree.
LEMMA InnerIs ==
    ASSUME NEW t \in Trees
    PROVE  /\ Len(Below[t]) \in Nat
           /\ Inner(t) = [k \in 1..Len(Below[t]) |-> Inner(t)[k]]
           /\ DOMAIN Inner(t) = 1..Len(Below[t]) /\ Len(Inner(t)) = Len(Below[t])
           /\ \A k \in 1..Len(Below[t]) :
                 /\ Inner(t)[k] = [facts |-> Below[t][k].facts, size |-> Len(Below[Below[t][k]])]
                 /\ Below[t][k] \in Trees
                 /\ Inner(t)[k].size \in Nat /\ k + Inner(t)[k].size <= Len(Below[t])
                 /\ IsTransaction(Inner(t)[k].facts) /\ IsSigned(Inner(t)[k].facts)
                 /\ Inner(t)[k].facts.genesis = <<>>
<1> DEFINE n == Len(Below[t])
<1>1. n \in Nat /\ DOMAIN Below[t] = 1..n
  BY BelowTyped
<1>2. Inner(t) = [k \in 1..n |-> [facts |-> Below[t][k].facts, size |-> Len(Below[Below[t][k]])]]
  BY <1>1 DEF Inner, Sized
<1>3. ASSUME NEW k \in 1..n
      PROVE  /\ Inner(t)[k] = [facts |-> Below[t][k].facts, size |-> Len(Below[Below[t][k]])]
             /\ Below[t][k] \in Trees
             /\ Inner(t)[k].size \in Nat /\ k + Inner(t)[k].size <= n
             /\ IsTransaction(Inner(t)[k].facts) /\ IsSigned(Inner(t)[k].facts)
             /\ Inner(t)[k].facts.genesis = <<>>
  <2>1. Inner(t)[k] = [facts |-> Below[t][k].facts, size |-> Len(Below[Below[t][k]])]
    BY <1>2
  <2>2. k \in DOMAIN Below[t]
    BY <1>1
  <2>3. Below[t][k] \in Trees /\ k + Len(Below[Below[t][k]]) <= n
    BY <2>2, BelowIsNested
  <2>4. Len(Below[Below[t][k]]) \in Nat
    BY <2>3, BelowTyped
  <2>5. Below[t][k].facts.genesis = <<>>
    BY <2>2, BelowHasNoGenesis
  <2>6. IsTransaction(Below[t][k].facts) /\ IsSigned(Below[t][k].facts)
    BY <2>3, TreesAssumption
  <2> QED
    BY <2>1, <2>3, <2>4, <2>5, <2>6
<1> HIDE DEF n
<1>4. DOMAIN Inner(t) = 1..n /\ Inner(t) = [k \in 1..n |-> Inner(t)[k]]
  BY <1>2
<1>5. Len(Inner(t)) = n
  BY <1>1, <1>4
<1> QED
  BY <1>1, <1>3, <1>4, <1>5 DEF n

\* The nodes of a tree in the order of the list: the tree, then those below it.
NodeAt(t, i) == IF i = 1 THEN t ELSE Below[t][i - 1]

\* _expand_inner_txns and _map_txn_and_inner_txns_to_subscribed_txn: of a
\* transaction with inner transactions of any depth, and of each of these, one
\* transaction is reported, with an id of its own.  Each has, in one list, what
\* the tree has below it, and these are the transactions that follow it in the
\* list of all: the same facts under the same ids and numbers.
THEOREM ListIsNested ==
    ASSUME NEW t \in Trees, NEW id, NEW round \in Nat, NEW offset \in Nat
    PROVE  LET list == WithInner([id |-> id, round |-> round, offset |-> offset,
                                  facts |-> t.facts, inner |-> Inner(t)])
           IN  /\ Len(list) = 1 + Len(Below[t]) /\ DOMAIN list = 1..Len(list)
               /\ \A i, j \in DOMAIN list : list[i].id = list[j].id => i = j
               /\ \A i \in DOMAIN list :
                     LET below == Below[NodeAt(t, i)]
                     IN  /\ list[i].facts = NodeAt(t, i).facts
                         /\ i + Len(below) <= Len(list) /\ Len(list[i].inner) = Len(below)
                         /\ \A m \in 1..Len(below) :
                               /\ list[i].inner[m].facts = below[m].facts
                               /\ list[i + m].facts = below[m].facts
                               /\ list[i].inner[m].id = list[i + m].id
                               /\ list[i].inner[m].offset = list[i + m].offset
<1> DEFINE n == Len(Below[t])
           node(i) == NodeAt(t, i)
<1>1. PICK root : root = [id |-> id, round |-> round, offset |-> offset, facts |-> t.facts,
                          inner |-> Inner(t)]
  OBVIOUS
<1>2. PICK list : list = WithInner(root)
  OBVIOUS
<1>3. /\ n \in Nat /\ DOMAIN Inner(t) = 1..n /\ Len(Inner(t)) = n
      /\ \A k \in 1..n :
            /\ Inner(t)[k] = [facts |-> Below[t][k].facts, size |-> Len(Below[Below[t][k]])]
            /\ Below[t][k] \in Trees
            /\ Inner(t)[k].size \in Nat /\ k + Inner(t)[k].size <= n
            /\ IsTransaction(Inner(t)[k].facts)
  BY InnerIs
<1>4. /\ root.id = id /\ root.round = round /\ root.offset = offset /\ root.facts = t.facts
      /\ root.inner = Inner(t)
  BY <1>1
<1>5. IsRoot(root)
  <2>1. IsTransaction(t.facts)
    BY TreesAssumption
  <2> HIDE DEF n
  <2> QED
    BY <1>1, <1>3, <1>4, <2>1 DEF IsRoot
<1>6. /\ DOMAIN list = 1..(1 + n) /\ Len(list) = 1 + n
      /\ \A i \in 0..n : list[1 + i] = Whole(root, i)
  BY <1>2, <1>3, <1>4, <1>5, WithInnerIs
<1>7. ASSUME NEW i \in 0..n
      PROVE  /\ node(1 + i) \in Trees /\ NodeFacts(root, i) = node(1 + i).facts
             /\ NodeSize(root, i) = Len(Below[node(1 + i)])
             /\ NodeSize(root, i) \in Nat /\ i + NodeSize(root, i) <= n
  <2>1. NodeSize(root, i) \in Nat /\ i + NodeSize(root, i) <= n
    BY <1>3, <1>4, <1>5, NodeOfRoot
  <2>2. CASE i = 0
    BY <1>3, <1>4, <2>1, <2>2 DEF NodeFacts, NodeSize, NodeAt
  <2>3. CASE i # 0
    <3>1. i \in 1..n /\ 1 + i # 1 /\ (1 + i) - 1 = i
      BY <1>3, <2>3
    <3>2. node(1 + i) = Below[t][i]
      BY <3>1 DEF NodeAt
    <3>3. /\ NodeFacts(root, i) = Inner(t)[i].facts /\ NodeSize(root, i) = Inner(t)[i].size
      BY <1>4, <2>3 DEF NodeFacts, NodeSize
    <3>4. /\ Inner(t)[i].facts = Below[t][i].facts /\ Inner(t)[i].size = Len(Below[Below[t][i]])
          /\ Below[t][i] \in Trees
      <4>1. /\ Inner(t)[i] = [facts |-> Below[t][i].facts, size |-> Len(Below[Below[t][i]])]
            /\ Below[t][i] \in Trees
        BY <1>3, <3>1
      <4> QED
        BY <4>1
    <3> HIDE DEF node
    <3> QED
      BY <2>1, <3>2, <3>3, <3>4
  <2> QED
    BY <2>2, <2>3
<1>8. \A i \in 0..n : /\ list[1 + i].id = <<id, i>> /\ list[1 + i].offset = offset + i
                      /\ list[1 + i].facts = NodeFacts(root, i)
                      /\ list[1 + i].inner = [k \in 1..NodeSize(root, i) |-> Leaf(root, i + k)]
  <2> SUFFICES ASSUME NEW i \in 0..n
               PROVE  /\ list[1 + i].id = <<id, i>> /\ list[1 + i].offset = offset + i
                      /\ list[1 + i].facts = NodeFacts(root, i)
                      /\ list[1 + i].inner = [k \in 1..NodeSize(root, i) |-> Leaf(root, i + k)]
    OBVIOUS
  <2>1. list[1 + i] = Whole(root, i)
    BY <1>6
  <2> QED
    BY <1>4, <2>1 DEF Whole
<1>9. ASSUME NEW i \in 0..n, NEW m \in 1..Len(Below[node(1 + i)])
      PROVE  Below[node(1 + i)][m] = node((1 + i) + m)
  <2>1. CASE i = 0
    <3>1. (1 + i) + m # 1 /\ ((1 + i) + m) - 1 = m
      BY <2>1
    <3> QED
      BY <2>1, <3>1 DEF NodeAt
  <2>2. CASE i # 0
    <3>1. i \in 1..n /\ DOMAIN Below[t] = 1..n
      BY <1>3, <2>2, BelowTyped
    <3>2. node(1 + i) = Below[t][i] /\ node((1 + i) + m) = Below[t][i + m]
      <4>1. 1 + i # 1 /\ (1 + i) - 1 = i /\ (1 + i) + m # 1 /\ ((1 + i) + m) - 1 = i + m
        BY <3>1
      <4> QED
        BY <4>1 DEF NodeAt
    <3> HIDE DEF node
    <3> QED
      BY <3>1, <3>2, BelowIsNested
  <2> QED
    BY <2>1, <2>2
<1> HIDE DEF node
<1>10. \A i, j \in DOMAIN list : list[i].id = list[j].id => i = j
  <2> SUFFICES ASSUME NEW i \in DOMAIN list, NEW j \in DOMAIN list, list[i].id = list[j].id
               PROVE  i = j
    OBVIOUS
  <2>1. i - 1 \in 0..n /\ j - 1 \in 0..n /\ i = 1 + (i - 1) /\ j = 1 + (j - 1)
    BY <1>3, <1>6
  <2>2. list[i].id = <<id, i - 1>> /\ list[j].id = <<id, j - 1>>
    BY <1>8, <2>1
  <2>3. i - 1 = j - 1
    <3>1. PICK a, b : a = i - 1 /\ b = j - 1
      OBVIOUS
    <3>2. <<id, a>> = <<id, b>>
      BY <2>2, <3>1
    <3>3. a = b
      BY ONLY <3>2
    <3> QED
      BY <3>1, <3>3
  <2> QED
    BY <2>1, <2>3
<1>11. ASSUME NEW i \in DOMAIN list
       PROVE  LET below == Below[node(i)]
              IN  /\ list[i].facts = node(i).facts
                  /\ i + Len(below) <= Len(list) /\ Len(list[i].inner) = Len(below)
                  /\ \A m \in 1..Len(below) :
                        /\ list[i].inner[m].facts = below[m].facts
                        /\ list[i + m].facts = below[m].facts
                        /\ list[i].inner[m].id = list[i + m].id
                        /\ list[i].inner[m].offset = list[i + m].offset
  <2>1. PICK k \in 0..n : i = 1 + k
    <3>1. i - 1 \in 0..n /\ i = 1 + (i - 1)
      BY <1>3, <1>6
    <3> QED
      BY <3>1
  <2>2. PICK below, size : below = Below[node(i)] /\ size = Len(below)
    OBVIOUS
  <2>3. size = NodeSize(root, k) /\ size \in Nat /\ k + size <= n /\ NodeFacts(root, k) = node(i).facts
    BY <1>7, <2>1, <2>2
  <2>4. list[i].facts = node(i).facts /\ list[i].inner = [m \in 1..size |-> Leaf(root, k + m)]
    BY <1>8, <2>1, <2>3
  <2>5. ASSUME NEW m \in 1..size
        PROVE  /\ list[i].inner[m].facts = below[m].facts
               /\ list[i + m].facts = below[m].facts
               /\ list[i].inner[m].id = list[i + m].id
               /\ list[i].inner[m].offset = list[i + m].offset
    <3>1. k + m \in 0..n /\ i + m = 1 + (k + m)
      <4>1. PICK all : all = n
        OBVIOUS
      <4>2. all \in Nat /\ k \in 0..all /\ size \in Nat /\ k + size <= all /\ m \in 1..size /\ i = 1 + k
        BY <1>3, <2>1, <2>3, <4>1
      <4>3. k + m \in 0..all /\ i + m = 1 + (k + m)
        BY ONLY <4>2
      <4> QED
        BY <4>1, <4>3
    <3>2. /\ list[i + m].id = <<id, k + m>> /\ list[i + m].offset = offset + (k + m)
          /\ list[i + m].facts = NodeFacts(root, k + m)
      BY <1>8, <3>1
    <3>3. below[m] = node(i + m)
      BY <1>9, <2>1, <2>2
    <3>4. NodeFacts(root, k + m) = node(i + m).facts
      BY <1>7, <3>1
    <3>5. list[i].inner[m] = Leaf(root, k + m)
      BY <2>4
    <3> QED
      BY <1>4, <3>2, <3>3, <3>4, <3>5 DEF Leaf
  <2>6. Len(list[i].inner) = size
    BY <2>3, <2>4
  <2>7. i + size <= Len(list)
    BY <1>3, <1>6, <2>1, <2>3
  <2> QED
    BY <2>2, <2>4, <2>5, <2>6, <2>7
<1>12. Len(list) = 1 + Len(Below[t]) /\ DOMAIN list = 1..Len(list)
  BY <1>6
<1>13. list = WithInner([id |-> id, round |-> round, offset |-> offset, facts |-> t.facts,
                          inner |-> Inner(t)])
  BY <1>1, <1>2
<1> HIDE DEF n
<1> QED
  BY <1>10, <1>11, <1>12, <1>13 DEF node

-------------------------------------------------------------------------------
(* The filters. *)

\* The single value of a criterion is the only one that it accepts.
LEMMA SingleIsOnly ==
    ASSUME NEW c, IsCriterion(c), Single(c), NEW v \in c.values
    PROVE  v = Only(c)
<1>1. \A u, w \in c.values : u = w
  BY DEF IsCriterion, Single
<1>2. Only(c) \in c.values
  BY DEF Only
<1> QED
  BY <1>1, <1>2

\* _create_indexer_pre_filter asks the indexer for nothing that
\* _create_transaction_filter does not ask for: the search returns every
\* transaction that the filter accepts.
THEOREM PreFilterIsSound ==
    ASSUME NEW f, IsFilter(f), NEW groups, NEW t, PostFilter(f, groups, t)
    PROVE  IndexerMatches(PreFilter(f), t)
<1> DEFINE q == PreFilter(f)
<1>1. FieldsMatch(f, t)
  BY DEF PostFilter
<1>2. ASSUME q.role = "sender" PROVE t.sender = q.address
  <2>1. ~Single(f.receiver) /\ Single(f.sender) /\ q.address = Only(f.sender)
    BY <1>2 DEF PreFilter, IndexerTransactionFilter, None
  <2>2. t.sender \in f.sender.values
    BY <1>1, <2>1 DEF FieldsMatch, Single
  <2> QED
    BY <2>1, <2>2, SingleIsOnly DEF IsFilter
<1>3. ASSUME q.role = "receiver" PROVE TxnReceiver(t) = q.address
  <2>1. Single(f.receiver) /\ q.address = Only(f.receiver)
    BY <1>3 DEF PreFilter, IndexerTransactionFilter, None
  <2>2. TxnReceiver(t) \in f.receiver.values
    BY <1>1, <2>1 DEF FieldsMatch, Single
  <2> QED
    BY <2>1, <2>2, SingleIsOnly DEF IsFilter
<1>4. ASSUME q.type # None PROVE t.type = q.type
  <2>1. Single(f.type) /\ q.type = Only(f.type)
    BY <1>4 DEF PreFilter, IndexerTransactionFilter
  <2>2. t.type \in f.type.values
    BY <1>1, <2>1 DEF FieldsMatch, Single
  <2> QED
    BY <2>1, <2>2, SingleIsOnly DEF IsFilter
<1>5. IsPrefix(q.notePrefix, t.note)
  BY <1>1 DEF FieldsMatch, PreFilter, IndexerTransactionFilter
<1>6. ASSUME q.app # NoId PROVE TxnAppId(t) = q.app
  <2>1. Single(f.app) /\ q.app = Only(f.app)
    BY <1>6 DEF PreFilter, IndexerTransactionFilter
  <2>2. TxnAppId(t) \in f.app.values
    BY <1>1, <2>1 DEF FieldsMatch, Single
  <2> QED
    BY <2>1, <2>2, SingleIsOnly DEF IsFilter
<1>7. ASSUME q.asset # NoId PROVE TxnAssetId(t) = q.asset
  <2>1. Single(f.asset) /\ q.asset = Only(f.asset)
    BY <1>7 DEF PreFilter, IndexerTransactionFilter
  <2>2. TxnAssetId(t) \in f.asset.values
    BY <1>1, <2>1 DEF FieldsMatch, Single
  <2> QED
    BY <2>1, <2>2, SingleIsOnly DEF IsFilter
<1> QED
  BY <1>2, <1>3, <1>4, <1>5, <1>6, <1>7 DEF IndexerMatches

\* _create_arc28_filter, which asks the last group of a name about all groups
\* of it, accepts exactly the transactions for which _extract_arc28_events
\* tries to decode a log with an event that is wanted, as soon as the groups of
\* one name have the same conditions.
THEOREM MatchHasCandidate ==
    ASSUME NEW groups, groups \in Seq(Range(groups)), SameConditions(groups), NEW wanted, NEW t
    PROVE  EventsMatch(groups, wanted, t) <=>
               \E group \in Range(groups) : \E event \in Range(group.events) :
                   \E log \in Range(t.logs) :
                       /\ GroupApplies(group, t)
                       /\ <<group.name, event.name>> \in wanted
                       /\ log.prefix = event.signature
<1>1. ASSUME NEW group \in Range(groups)
      PROVE  GroupApplies(GroupNamed(groups, group.name), t) <=> GroupApplies(group, t)
  <2> DEFINE places == {i \in DOMAIN groups : groups[i].name = group.name}
  <2>1. PICK g \in DOMAIN groups : groups[g] = group
    BY DEF Range
  <2>2. Len(groups) \in Nat /\ DOMAIN groups = 1..Len(groups)
    OBVIOUS
  <2>3. g \in places /\ places \subseteq 1..Len(groups)
    BY <2>1, <2>2
  <2> HIDE DEF places
  <2>4. Max(places) \in places
    BY <2>2, <2>3, MaxOfPlaces
  <2>5. groups[Max(places)] \in Range(groups) /\ groups[Max(places)].name = group.name
    BY <2>4 DEF places, Range
  <2>6. GroupNamed(groups, group.name) = groups[Max(places)]
    BY DEF GroupNamed, places
  <2>7. PICK h : h = GroupNamed(groups, group.name)
    OBVIOUS
  <2>8. h.apps = group.apps /\ h.senders = group.senders
    BY <2>5, <2>6, <2>7 DEF SameConditions
  <2> QED
    BY <2>7, <2>8 DEF GroupApplies
<1> QED
  BY <1>1 DEF EventsMatch

-------------------------------------------------------------------------------
(* The events. *)

\* from gives the members of a list the items that they are made of, of each one.
Enumerates(from, seq, items, made) ==
    /\ from \in [DOMAIN seq -> items]
    /\ \A k, l \in DOMAIN seq : from[k] = from[l] => k = l
    /\ \A x \in items : \E k \in DOMAIN seq : from[k] = x
    /\ \A k \in DOMAIN seq : seq[k] = made[from[k]]

IsItem(p, seqs, items) == p = <<p[1], p[2]>> /\ p[1] \in DOMAIN seqs /\ p[2] \in items[p[1]]

MakesAll(make, all, seqs, items, made) ==
    /\ \A p : p \in all <=> IsItem(p, seqs, items)
    /\ \A p \in all : make[p] = made[p[1]][p[2]]

\* Of lists that are made of items, all of them together are made of the items
\* of each.
LEMMA JoinedEnumerates ==
    ASSUME NEW S, NEW seqs \in Seq(Seq(S)), NEW items, NEW made,
           \A i \in DOMAIN seqs : \E from : Enumerates(from, seqs[i], items[i], made[i]),
           NEW all, NEW make, MakesAll(make, all, seqs, items, made)
    PROVE  \E from : Enumerates(from, Joined(seqs), all, make)
<1> DEFINE joined == Joined(seqs)
           n == Len(joined)
           f == [i \in DOMAIN seqs |-> CHOOSE from : Enumerates(from, seqs[i], items[i], made[i])]
<1>1. \A i \in DOMAIN seqs : Enumerates(f[i], seqs[i], items[i], made[i])
  OBVIOUS
<1>2. PICK place : JoinsFrom(place, seqs, joined)
  BY JoinedFrom
<1>3. joined \in Seq(S) /\ DOMAIN joined = 1..n
  BY JoinedPlaces
<1> HIDE DEF f, joined, n
<1>4. \A p \in Places(seqs) : p[1] \in DOMAIN seqs /\ p[2] \in DOMAIN seqs[p[1]] /\ p = <<p[1], p[2]>>
                              /\ p[1] \in Int /\ p[2] \in Int
  BY DEF Places
<1>5. \A p : p \in all <=> /\ p = <<p[1], p[2]>> /\ p[1] \in DOMAIN seqs /\ p[2] \in items[p[1]]
  BY DEF MakesAll, IsItem
<1> DEFINE g == [k \in 1..n |-> <<place[k][1], f[place[k][1]][place[k][2]]>>]
<1>6. \A k \in 1..n : /\ g[k][1] = place[k][1] /\ g[k][2] = f[place[k][1]][place[k][2]]
                      /\ g[k] = <<g[k][1], g[k][2]>>
  OBVIOUS
<1>7. \A k \in 1..n : place[k] \in Places(seqs) /\ joined[k] = seqs[place[k][1]][place[k][2]]
  BY <1>3, <1>2 DEF JoinsFrom, n
<1>8. ASSUME NEW k \in 1..n PROVE g[k] \in all
  <2>1. place[k][1] \in DOMAIN seqs /\ place[k][2] \in DOMAIN seqs[place[k][1]]
    BY <1>4, <1>7
  <2>2. f[place[k][1]][place[k][2]] \in items[place[k][1]]
    <3>1. PICK i : i = place[k][1]
      OBVIOUS
    <3>2. Enumerates(f[i], seqs[i], items[i], made[i])
      BY <1>1, <2>1, <3>1
    <3>3. f[i] \in [DOMAIN seqs[i] -> items[i]]
      BY <3>2 DEF Enumerates
    <3> QED
      BY <2>1, <3>1, <3>3
  <2> HIDE DEF g
  <2> QED
    BY <1>5, <1>6, <2>1, <2>2
<1>9. g \in [1..n -> all]
  BY <1>8
<1> HIDE DEF g
<1>10. ASSUME NEW k \in 1..n, NEW l \in 1..n, g[k] = g[l] PROVE k = l
  <2> DEFINE i == place[k][1]
             a == place[k][2]
             b == place[l][2]
  <2>1. /\ i \in DOMAIN seqs /\ a \in DOMAIN seqs[i] /\ b \in DOMAIN seqs[i] /\ place[l][1] = i
        /\ f[i][a] = f[i][b] /\ i \in Int /\ a \in Int /\ b \in Int
    BY <1>4, <1>6, <1>7, <1>10
  <2>2. a = b
    <3>1. Enumerates(f[i], seqs[i], items[i], made[i])
      BY <1>1, <2>1
    <3> HIDE DEF i, a, b
    <3>2. \A c, d \in DOMAIN seqs[i] : f[i][c] = f[i][d] => c = d
      BY <3>1 DEF Enumerates
    <3> QED
      BY <2>1, <3>2
  <2>3. ~Prior(place[k], place[l]) /\ ~Prior(place[l], place[k])
    BY <2>1, <2>2 DEF Prior
  <2>4. ~(k < l) /\ ~(l < k)
    BY <1>2, <2>3 DEF JoinsFrom, n
  <2> QED
    BY <1>3, <2>4
<1>11. ASSUME NEW x \in all PROVE \E k \in 1..n : g[k] = x
  <2>1. x = <<x[1], x[2]>> /\ x[1] \in DOMAIN seqs /\ x[2] \in items[x[1]]
    BY <1>5
  <2>2. PICK m \in DOMAIN seqs[x[1]] : f[x[1]][m] = x[2]
    BY <1>1, <2>1 DEF Enumerates
  <2>3. <<x[1], m>> \in Places(seqs)
    <3>1. seqs[x[1]] \in Seq(S)
      BY <2>1
    <3>2. m \in Nat
      BY <3>1
    <3> QED
      BY <2>1, <3>2 DEF Places
  <2>4. PICK k \in 1..n : place[k] = <<x[1], m>>
    BY <1>2, <2>3 DEF JoinsFrom, n
  <2>5. g[k][1] = x[1] /\ g[k][2] = x[2] /\ g[k] = <<g[k][1], g[k][2]>>
    BY <1>6, <2>2, <2>4
  <2> QED
    BY <2>1, <2>5
<1>12. ASSUME NEW k \in 1..n PROVE joined[k] = make[g[k]]
  <2>1. place[k][1] \in DOMAIN seqs /\ place[k][2] \in DOMAIN seqs[place[k][1]]
    BY <1>4, <1>7
  <2>2. seqs[place[k][1]][place[k][2]] = made[place[k][1]][f[place[k][1]][place[k][2]]]
    BY <1>1, <2>1 DEF Enumerates
  <2>3. make[g[k]] = made[g[k][1]][g[k][2]]
    BY <1>8 DEF MakesAll
  <2> QED
    BY <1>6, <1>7, <2>2, <2>3
<1>13. Enumerates(g, joined, all, make)
  BY <1>3, <1>8, <1>9, <1>10, <1>11, <1>12 DEF Enumerates
<1> QED
  BY <1>13 DEF joined

\* A selection is made of the places it selects.
LEMMA SelectedEnumerates ==
    ASSUME NEW S, NEW seq \in Seq(S), NEW places \in SUBSET (DOMAIN seq)
    PROVE  \E from : Enumerates(from, Selected(seq, places), places, seq)
<1> DEFINE s == Selected(seq, places)
           n == Len(s)
<1>1. PICK at : Selects(at, seq, places, s)
  BY SelectedPlaces
<1>2. s \in Seq(S) /\ DOMAIN s = 1..n
  BY SelectedPlaces
<1> HIDE DEF s, n
<1>3. /\ at \in [places -> 1..n]
      /\ \A k \in 1..n : \E i \in places : at[i] = k
      /\ \A i \in places : s[at[i]] = seq[i]
      /\ \A i, j \in places : i < j => at[i] < at[j]
  BY <1>1 DEF Selects, n
<1> DEFINE from == [k \in 1..n |-> CHOOSE i \in places : at[i] = k]
<1>4. \A k \in 1..n : from[k] \in places /\ at[from[k]] = k
  BY <1>3
<1>5. from \in [1..n -> places]
  BY <1>4
<1> HIDE DEF from
<1>6. \A i \in places : from[at[i]] = i
  <2> SUFFICES ASSUME NEW i \in places, from[at[i]] # i PROVE FALSE
    OBVIOUS
  <2>1. at[i] \in 1..n /\ from[at[i]] \in places /\ at[from[at[i]]] = at[i]
    BY <1>3, <1>4
  <2>2. i \in Int /\ from[at[i]] \in Int
    BY <2>1
  <2>3. at[i] \in Int
    BY <2>1
  <2> QED
    BY <1>3, <2>1, <2>2, <2>3
<1>7. \A x \in places : \E k \in 1..n : from[k] = x
  BY <1>3, <1>6
<1>8. \A k, l \in 1..n : from[k] = from[l] => k = l
  BY <1>4
<1>9. \A k \in 1..n : s[k] = seq[from[k]]
  BY <1>3, <1>4
<1>10. Enumerates(from, s, places, seq)
  BY <1>2, <1>5, <1>7, <1>8, <1>9 DEF Enumerates
<1> QED
  BY <1>10 DEF s

\* The list has as many members as there are items that its members are made of.
LEMMA CountOfEnumerated ==
    ASSUME NEW S, NEW seq \in Seq(S), NEW items, NEW made, NEW from, Enumerates(from, seq, items, made),
           NEW some, some \subseteq DOMAIN seq
    PROVE  /\ IsFiniteSet(some)
           /\ Cardinality({from[k] : k \in some}) = Cardinality(some)
<1>1. IsFiniteSet(some)
  <2>1. DOMAIN seq = 1..Len(seq) /\ Len(seq) \in Nat
    OBVIOUS
  <2> QED
    <3>1. IsFiniteSet(DOMAIN seq)
      BY <2>1, FS_Interval
    <3>2. some \in SUBSET (DOMAIN seq)
      OBVIOUS
    <3> QED
      BY <3>1, <3>2, FS_Subset
<1> DEFINE g == [k \in some |-> from[k]]
           images == {from[k] : k \in some}
<1>2. g \in [some -> images]
  OBVIOUS
<1>3. \A k, l \in some : g[k] = g[l] => k = l
  BY DEF Enumerates
<1>4. \A x \in images : \E k \in some : g[k] = x
  OBVIOUS
<1> HIDE DEF g, images
<1>5. g \in Bijection(some, images)
  BY <1>2, <1>3, <1>4, Fun_IsBij
<1>6. Cardinality(images) = Cardinality(some)
  BY <1>1, <1>5, FS_Bijection, Fun_ExistsBij
<1> QED
  BY <1>1, <1>6 DEF images

AreGroups(gs) ==
    /\ gs \in Seq(Range(gs))
    /\ \A g \in DOMAIN gs :
          gs[g].events \in Seq(Range(gs[g].events)) /\ gs[g].continueOnError \in BOOLEAN

Try(gs, g, e, log) ==
    [group |-> gs[g].name, event |-> gs[g].events[e].name, log |-> log,
     strict |-> ~gs[g].continueOnError]

\* The logs of a transaction with the events that they are tried with, as numbers
\* of a log, a group and an event of it.
Tries(gs, t) ==
    {x \in (DOMAIN t.logs) \X (DOMAIN gs) \X UNION {DOMAIN group.events : group \in Range(gs)} :
        /\ GroupApplies(gs[x[2]], t)
        /\ x[3] \in DOMAIN gs[x[2]].events
        /\ t.logs[x[1]].prefix = gs[x[2]].events[x[3]].signature}

TriesOf(gs, t) == [x \in Tries(gs, t) |-> Try(gs, x[2], x[3], t.logs[x[1]])]

\* The events of group g that a log is to be decoded with.
Places1(gs, t, log, g) ==
    IF GroupApplies(gs[g], t)
    THEN {e \in DOMAIN gs[g].events : log.prefix = gs[g].events[e].signature} ELSE {}

CandidatePlaces(gs, t, log) ==
    {p \in (DOMAIN gs) \X UNION {Places1(gs, t, log, g) : g \in DOMAIN gs} :
        p[2] \in Places1(gs, t, log, p[1])}

TriesOfLog(gs, t, log) == [p \in CandidatePlaces(gs, t, log) |-> Try(gs, p[1], p[2], log)]

\* A log is tried with each event that has its prefix, of each group that applies.
LEMMA CandidatesAre ==
    ASSUME NEW gs, AreGroups(gs), NEW t, NEW log
    PROVE  /\ Candidates(gs, t, log) \in Seq(Range(Candidates(gs, t, log)))
           /\ \E from : Enumerates(from, Candidates(gs, t, log), CandidatePlaces(gs, t, log),
                                   TriesOfLog(gs, t, log))
<1> DEFINE n == Len(gs)
           places(g) == Places1(gs, t, log, g)
           some(g) == Selected(gs[g].events,
                               {e \in DOMAIN gs[g].events : log.prefix = gs[g].events[e].signature})
           list(g) == IF ~GroupApplies(gs[g], t) THEN <<>>
                      ELSE [e \in DOMAIN some(g) |->
                               [group |-> gs[g].name, event |-> some(g)[e].name, log |-> log,
                                strict |-> ~gs[g].continueOnError]]
           lists == [g \in DOMAIN gs |-> list(g)]
           items == [g \in DOMAIN gs |-> places(g)]
           made == [g \in DOMAIN gs |-> [e \in places(g) |-> Try(gs, g, e, log)]]
           all == {p \in (DOMAIN gs) \X UNION {places(g) : g \in DOMAIN gs} : p[2] \in places(p[1])}
<1>1. n \in Nat /\ DOMAIN gs = 1..n
  BY DEF AreGroups
<1>2. Candidates(gs, t, log) = Joined(lists)
  BY DEF Candidates
<1>3. ASSUME NEW g \in DOMAIN gs
      PROVE  /\ list(g) \in Seq(Range(list(g)))
             /\ \E from : Enumerates(from, list(g), places(g), made[g])
  <2>1. CASE ~GroupApplies(gs[g], t)
    <3>1. list(g) = <<>> /\ places(g) = {}
      BY <2>1 DEF Places1
    <3> HIDE DEF list, places, made
    <3>2. Enumerates(<<>>, list(g), places(g), made[g])
      BY <3>1 DEF Enumerates
    <3>3. list(g) \in Seq(Range(list(g)))
      <4>1. <<>> \in Seq(Range(<<>>))
        OBVIOUS
      <4> QED
        BY <3>1, <4>1
    <3> QED
      BY <3>2, <3>3
  <2>2. CASE GroupApplies(gs[g], t)
    <3> DEFINE events == gs[g].events
               places2 == {e \in DOMAIN events : log.prefix = events[e].signature}
               s == Selected(events, places2)
               m == Len(s)
               l == list(g)
    <3>1. places(g) = places2
      BY <2>2 DEF Places1
    <3>2. events \in Seq(Range(events)) /\ places2 \in SUBSET (DOMAIN events)
      BY DEF AreGroups
    <3>3. l = [e \in DOMAIN s |->
                 [group |-> gs[g].name, event |-> s[e].name, log |-> log,
                  strict |-> ~gs[g].continueOnError]]
      BY <2>2
    <3> HIDE DEF places2, events
    <3>4. s \in Seq(Range(events)) /\ m \in Nat /\ DOMAIN s = 1..m
      <4>1. s \in Seq(Range(events))
        BY <3>2, SelectedPlaces
      <4> HIDE DEF s
      <4> QED
        BY <4>1
    <3>5. PICK from : Enumerates(from, s, places2, events)
      BY <3>2, SelectedEnumerates
    <3> HIDE DEF s, m, l
    <3>6. DOMAIN l = 1..m /\ l \in [1..m -> Range(l)]
      BY <3>3, <3>4 DEF Range
    <3>7. l \in Seq(Range(l))
      BY <3>4, <3>6, FunctionIsSeq
    <3>8. \A e \in places2 : made[g][e] = Try(gs, g, e, log)
      BY <3>1
    <3>9. ASSUME NEW k \in 1..m PROVE l[k] = made[g][from[k]]
      <4>1. s[k] = events[from[k]] /\ from[k] \in places2
        BY <3>4, <3>5 DEF Enumerates
      <4>2. l[k] = [group |-> gs[g].name, event |-> s[k].name, log |-> log,
                    strict |-> ~gs[g].continueOnError]
        BY <3>3, <3>4
      <4>3. Try(gs, g, from[k], log) = [group |-> gs[g].name, event |-> events[from[k]].name,
                                        log |-> log, strict |-> ~gs[g].continueOnError]
        BY DEF Try, events
      <4> QED
        BY <3>8, <4>1, <4>2, <4>3
    <3> HIDE DEF made, places
    <3>10. Enumerates(from, l, places(g), made[g])
      BY <3>1, <3>4, <3>5, <3>6, <3>9 DEF Enumerates
    <3> QED
      BY <3>7, <3>10 DEF l
  <2> QED
    BY <2>1, <2>2
<1>4. \A g \in DOMAIN gs : lists[g] = list(g) /\ items[g] = places(g)
  OBVIOUS
<1>5. DOMAIN lists = 1..n /\ lists = [g \in 1..n |-> lists[g]]
  BY <1>1
<1> DEFINE make == [p \in all |-> Try(gs, p[1], p[2], log)]
<1>6. \A p : p \in all <=> p = <<p[1], p[2]>> /\ p[1] \in DOMAIN gs /\ p[2] \in places(p[1])
  <2> HIDE DEF places
  <2> QED
    OBVIOUS
<1>7. \A p \in all : make[p] = made[p[1]][p[2]]
  <2> HIDE DEF places
  <2> QED
    OBVIOUS
<1>14. MakesAll(make, all, lists, items, made)
  <2> HIDE DEF make, all, made, places
  <2> QED
    BY <1>1, <1>4, <1>5, <1>6, <1>7 DEF MakesAll, IsItem
<1>15. make = [p \in all |-> Try(gs, p[1], p[2], log)]
  OBVIOUS
<1> HIDE DEF list, lists, items, made, places, n, make, all
<1>8. PICK S : lists \in Seq(Seq(S))
  <2>1. \A g \in 1..n : lists[g] \in Seq(Range(lists[g]))
    BY <1>1, <1>3, <1>4
  <2> QED
    BY <1>1, <1>5, <2>1, SeqOfLists
<1>9. \A g \in DOMAIN lists : \E from : Enumerates(from, lists[g], items[g], made[g])
  BY <1>1, <1>3, <1>4, <1>5
<1>10. PICK from : Enumerates(from, Joined(lists), all, make)
  BY <1>8, <1>9, <1>14, JoinedEnumerates
<1>12. Joined(lists) \in Seq(Range(Joined(lists)))
  <2>1. Joined(lists) \in Seq(S)
    BY <1>8, JoinedPlaces
  <2> QED
    BY <2>1, SeqOfItsRange
<1>13. Enumerates(from, Candidates(gs, t, log), all, [p \in all |-> Try(gs, p[1], p[2], log)])
  BY <1>2, <1>10, <1>15
<1> QED
  BY <1>2, <1>12, <1>13 DEF places, all, CandidatePlaces, TriesOfLog

\* The events whose prefix a log carries.
LEMMA CandidatePlacesAre ==
    ASSUME NEW gs, NEW t, NEW log, NEW p
    PROVE  p \in CandidatePlaces(gs, t, log) <=>
               /\ p = <<p[1], p[2]>> /\ p[1] \in DOMAIN gs /\ GroupApplies(gs[p[1]], t)
               /\ p[2] \in DOMAIN gs[p[1]].events
               /\ log.prefix = gs[p[1]].events[p[2]].signature
<1>1. p \in CandidatePlaces(gs, t, log) <=>
          p = <<p[1], p[2]>> /\ p[1] \in DOMAIN gs /\ p[2] \in Places1(gs, t, log, p[1])
  BY DEF CandidatePlaces
<1> QED
  BY <1>1 DEF Places1

\* The attempts to decode: a log and an event of its prefix.
LEMMA TriesAre ==
    ASSUME NEW gs, NEW t, NEW x
    PROVE  x \in Tries(gs, t) <=>
               /\ x = <<x[1], x[2], x[3]>> /\ x[1] \in DOMAIN t.logs /\ x[2] \in DOMAIN gs
               /\ GroupApplies(gs[x[2]], t) /\ x[3] \in DOMAIN gs[x[2]].events
               /\ t.logs[x[1]].prefix = gs[x[2]].events[x[3]].signature
<1> DEFINE places == UNION {DOMAIN group.events : group \in Range(gs)}
<1>1. x \in Tries(gs, t) <=>
          /\ x \in (DOMAIN t.logs) \X (DOMAIN gs) \X places
          /\ GroupApplies(gs[x[2]], t)
          /\ x[3] \in DOMAIN gs[x[2]].events
          /\ t.logs[x[1]].prefix = gs[x[2]].events[x[3]].signature
  BY DEF Tries
<1>2. ASSUME NEW g \in DOMAIN gs PROVE DOMAIN gs[g].events \subseteq places
  <2>1. gs[g] \in Range(gs)
    BY DEF Range
  <2> QED
    BY <2>1
<1> HIDE DEF places
<1>3. x \in (DOMAIN t.logs) \X (DOMAIN gs) \X places <=>
          /\ x = <<x[1], x[2], x[3]>> /\ x[1] \in DOMAIN t.logs /\ x[2] \in DOMAIN gs
          /\ x[3] \in places
  OBVIOUS
<1>4. x[2] \in DOMAIN gs /\ x[3] \in DOMAIN gs[x[2]].events => x[3] \in places
  BY <1>2
<1> QED
  BY <1>1, <1>3, <1>4

\* The attempts at a transaction are one for each log and each event that has its
\* prefix, of a group that applies.
LEMMA AttemptsAre ==
    ASSUME NEW gs, AreGroups(gs), NEW t, t.logs \in Seq(Range(t.logs))
    PROVE  /\ Attempts(gs, t) \in Seq(Range(Attempts(gs, t)))
           /\ \E from : Enumerates(from, Attempts(gs, t), Tries(gs, t), TriesOf(gs, t))
<1> DEFINE logs == t.logs
           n == Len(logs)
           lists == [l \in DOMAIN logs |-> Candidates(gs, t, logs[l])]
           items == [l \in DOMAIN logs |-> CandidatePlaces(gs, t, logs[l])]
           made == [l \in DOMAIN logs |-> TriesOfLog(gs, t, logs[l])]
           all == {<<l, p>> : l \in DOMAIN logs, p \in UNION {items[k] : k \in DOMAIN logs}}
           some == {x \in all : x[2] \in items[x[1]]}
           make == [x \in some |-> made[x[1]][x[2]]]
           joined == Joined(lists)
<1>1. n \in Nat /\ DOMAIN logs = 1..n
  OBVIOUS
<1>2. Attempts(gs, t) = joined
  BY DEF Attempts
<1>3. /\ DOMAIN lists = 1..n /\ lists = [l \in 1..n |-> lists[l]]
      /\ \A l \in 1..n : /\ lists[l] = Candidates(gs, t, logs[l])
                         /\ items[l] = CandidatePlaces(gs, t, logs[l])
                         /\ made[l] = TriesOfLog(gs, t, logs[l])
  BY <1>1
<1>4. MakesAll(make, some, lists, items, made)
  <2>1. \A x : x \in some <=> IsItem(x, lists, items)
    <3> HIDE DEF items
    <3> QED
      BY <1>1, <1>3 DEF IsItem
  <2> HIDE DEF some, made
  <2> QED
    BY <2>1 DEF MakesAll
<1>5. \A x \in some : x = <<x[1], x[2]>> /\ x[1] \in 1..n /\ x[2] \in items[x[1]]
                     /\ make[x] = made[x[1]][x[2]]
  BY <1>3, <1>4 DEF MakesAll, IsItem
<1>6. \A x : x = <<x[1], x[2]>> /\ x[1] \in 1..n /\ x[2] \in items[x[1]] => x \in some
  BY <1>3, <1>4 DEF MakesAll, IsItem
<1> HIDE DEF lists, items, made, n, all, some, make, logs
<1>7. PICK S : lists \in Seq(Seq(S))
  <2>1. \A l \in 1..n : lists[l] \in Seq(Range(lists[l]))
    BY <1>3, CandidatesAre
  <2> QED
    BY <1>1, <1>3, <2>1, SeqOfLists
<1>8. \A l \in DOMAIN lists : \E from : Enumerates(from, lists[l], items[l], made[l])
  BY <1>3, CandidatesAre
<1>9. PICK f : Enumerates(f, joined, some, make)
  BY <1>4, <1>7, <1>8, JoinedEnumerates
<1>10. joined \in Seq(Range(joined))
  <2>1. joined \in Seq(S)
    BY <1>7, JoinedPlaces
  <2> HIDE DEF joined
  <2> QED
    BY <2>1, SeqOfItsRange
<1> HIDE DEF joined
<1> DEFINE from == [k \in DOMAIN joined |-> <<f[k][1], f[k][2][1], f[k][2][2]>>]
<1>11. \A k \in DOMAIN joined : /\ f[k] \in some /\ joined[k] = make[f[k]]
  BY <1>9 DEF Enumerates
<1>12. \A x \in some : /\ x[2] = <<x[2][1], x[2][2]>> /\ x[2][1] \in DOMAIN gs
                       /\ GroupApplies(gs[x[2][1]], t) /\ x[2][2] \in DOMAIN gs[x[2][1]].events
                       /\ logs[x[1]].prefix = gs[x[2][1]].events[x[2][2]].signature
                       /\ make[x] = Try(gs, x[2][1], x[2][2], logs[x[1]])
  <2> SUFFICES ASSUME NEW x \in some
               PROVE  /\ x[2] = <<x[2][1], x[2][2]>> /\ x[2][1] \in DOMAIN gs
                      /\ GroupApplies(gs[x[2][1]], t) /\ x[2][2] \in DOMAIN gs[x[2][1]].events
                      /\ logs[x[1]].prefix = gs[x[2][1]].events[x[2][2]].signature
                      /\ make[x] = Try(gs, x[2][1], x[2][2], logs[x[1]])
    OBVIOUS
  <2>1. PICK p, l : p = x[2] /\ l = logs[x[1]]
    OBVIOUS
  <2>2. p \in CandidatePlaces(gs, t, l) /\ make[x] = TriesOfLog(gs, t, l)[p]
    BY <1>3, <1>5, <2>1
  <2>3. make[x] = Try(gs, p[1], p[2], l)
    BY <2>2 DEF TriesOfLog
  <2> QED
    BY <2>1, <2>2, <2>3, CandidatePlacesAre
<1>13. \A k \in DOMAIN joined : /\ from[k] = <<from[k][1], from[k][2], from[k][3]>>
                               /\ from[k][1] = f[k][1] /\ from[k][2] = f[k][2][1]
                               /\ from[k][3] = f[k][2][2]
  OBVIOUS
<1>14. DOMAIN from = DOMAIN joined /\ from = [k \in DOMAIN joined |-> from[k]]
  OBVIOUS
<1> HIDE DEF from
<1>15. ASSUME NEW k \in DOMAIN joined PROVE from[k] \in Tries(gs, t)
  <2>1. PICK x, y : x = f[k] /\ y = from[k]
    OBVIOUS
  <2>2. x \in some /\ y = <<y[1], y[2], y[3]>> /\ y[1] = x[1] /\ y[2] = x[2][1] /\ y[3] = x[2][2]
    BY <1>11, <1>13, <2>1
  <2>3. x[1] \in DOMAIN logs /\ x[2][1] \in DOMAIN gs /\ GroupApplies(gs[x[2][1]], t)
        /\ x[2][2] \in DOMAIN gs[x[2][1]].events
        /\ logs[x[1]].prefix = gs[x[2][1]].events[x[2][2]].signature
    BY <1>1, <1>5, <1>12, <2>2
  <2>4. /\ y[1] \in DOMAIN t.logs /\ y[2] \in DOMAIN gs /\ GroupApplies(gs[y[2]], t)
        /\ y[3] \in DOMAIN gs[y[2]].events
        /\ t.logs[y[1]].prefix = gs[y[2]].events[y[3]].signature
    BY <2>2, <2>3 DEF logs
  <2>5. y \in Tries(gs, t)
    BY <2>2, <2>4, TriesAre
  <2> QED
    BY <2>1, <2>5
<1>16. from \in [DOMAIN joined -> Tries(gs, t)]
  BY <1>14, <1>15
<1>17. ASSUME NEW k \in DOMAIN joined, NEW l \in DOMAIN joined, from[k] = from[l] PROVE k = l
  <2>1. f[k][1] = f[l][1] /\ f[k][2] = f[l][2]
    <3>1. f[k][2][1] = f[l][2][1] /\ f[k][2][2] = f[l][2][2] /\ f[k][1] = f[l][1]
      BY <1>13, <1>17
    <3>2. f[k][2] = <<f[k][2][1], f[k][2][2]>> /\ f[l][2] = <<f[l][2][1], f[l][2][2]>>
      BY <1>11, <1>12
    <3> QED
      BY <3>1, <3>2
  <2>2. f[k] = <<f[k][1], f[k][2]>> /\ f[l] = <<f[l][1], f[l][2]>>
    BY <1>5, <1>11
  <2>3. f[k] = f[l]
    BY <2>1, <2>2
  <2> QED
    BY <1>9, <2>3 DEF Enumerates
<1>18. ASSUME NEW x \in Tries(gs, t) PROVE \E k \in DOMAIN joined : from[k] = x
  <2>1. /\ x = <<x[1], x[2], x[3]>> /\ x[1] \in DOMAIN t.logs /\ x[2] \in DOMAIN gs
        /\ GroupApplies(gs[x[2]], t) /\ x[3] \in DOMAIN gs[x[2]].events
        /\ t.logs[x[1]].prefix = gs[x[2]].events[x[3]].signature
    BY TriesAre
  <2>2. PICK p : p = <<x[2], x[3]>>
    OBVIOUS
  <2>3. p \in CandidatePlaces(gs, t, logs[x[1]])
    BY <2>1, <2>2, CandidatePlacesAre DEF logs
  <2>4. PICK y : y = <<x[1], p>>
    OBVIOUS
  <2>5. y \in some
    BY <1>1, <1>3, <1>6, <2>1, <2>3, <2>4 DEF logs
  <2>6. PICK k \in DOMAIN joined : f[k] = y
    BY <1>9, <2>5 DEF Enumerates
  <2>7. from[k] = <<from[k][1], from[k][2], from[k][3]>> /\ from[k][1] = x[1]
        /\ from[k][2] = x[2] /\ from[k][3] = x[3]
    BY <1>13, <2>2, <2>4, <2>6
  <2> QED
    BY <2>1, <2>7
<1>19. ASSUME NEW k \in DOMAIN joined PROVE joined[k] = TriesOf(gs, t)[from[k]]
  <2>1. TriesOf(gs, t)[from[k]] = Try(gs, from[k][2], from[k][3], t.logs[from[k][1]])
    BY <1>15 DEF TriesOf
  <2> QED
    BY <1>11, <1>12, <1>13, <2>1 DEF logs
<1>20. Enumerates(from, joined, Tries(gs, t), TriesOf(gs, t))
  BY <1>16, <1>17, <1>18, <1>19 DEF Enumerates
<1> QED
  BY <1>2, <1>10, <1>20
===============================================================================
