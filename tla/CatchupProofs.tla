---------------------------- MODULE CatchupProofs -----------------------------
(***************************************************************************)
(* Proofs about one poll, for every chain, list of filters, list of event  *)
(* groups, window and limit of a page.  The invariant says how far the     *)
(* search, the conversion and the reading of blocks have come; what a poll *)
(* returns follows from it.                                                *)
(***************************************************************************)
EXTENDS Catchup, TransactionsProofs, SyncWindowProofs

-------------------------------------------------------------------------------
(* The search of the indexer. *)

\* What the poll is given does not change.
LEMMA AnswerUnchanged ==
    ASSUME UNCHANGED given, NEW f
    PROVE  Answer(f)' = Answer(f)
BY DEF given, Answer, OfRounds, IndexedTxns, Roots, Searched

IsGiven ==
    /\ chain \in Chains
    /\ filters \in FilterSets
    /\ groups \in GroupSets
    /\ window \in Windows

\* The size of 1..n.
LEMMA UpTo ==
    ASSUME NEW n \in Nat
    PROVE  IsFiniteSet(1..n) /\ Cardinality(1..n) = n
BY FS_Interval

\* The least number of an interval.
LEMMA MinOfInterval ==
    ASSUME NEW a \in Int, NEW b \in Int, a <= b
    PROVE  Min(a..b) = a
BY DEF Min

\* A search is for one round at least, and for none beyond the reported one.
LEMMA SearchedRounds ==
    ASSUME IsGiven, CatchesUp(window[1], window[2], window[3])
    PROVE  \E a, b \in Nat : 1 <= a /\ a <= b /\ b <= window[3] /\ Searched = a..b
<1>1. window[1] \in SyncConfig /\ window[2] \in Nat /\ window[3] \in Nat
  BY WindowsAssumption DEF IsGiven
<1> DEFINE to == IndexerTo(window[1], window[2], window[3])
<1>2. to \in Nat /\ window[2] + 1 <= to /\ to <= window[3]
  BY <1>1 DEF SyncConfig, CatchesUp, TooFarBehind, IndexerTo, IndexerCapped
<1>3. Searched = (window[2] + 1)..to
  BY DEF Searched, IndexerRounds
<1> HIDE DEF to
<1> QED
  BY <1>1, <1>2, <1>3

\* The search stays within the rounds that the node reported.
LEMMA SearchedAreReported ==
    ASSUME IsGiven, NEW r \in Searched
    PROVE  r \in 1..window[3]
<1>1. CASE CatchesUp(window[1], window[2], window[3])
  <2>1. window[3] \in Nat
    BY WindowsAssumption DEF IsGiven
  <2> QED
    BY <1>1, <2>1, SearchedRounds
<1>2. CASE ~CatchesUp(window[1], window[2], window[3])
  BY <1>2 DEF Searched, IndexerRounds
<1> QED
  BY <1>1, <1>2

\* Each round up to the reported one has a block.
LEMMA GivenBlock ==
    ASSUME IsGiven, NEW r \in 1..window[3]
    PROVE  r \in DOMAIN chain /\ chain[r] \in Blocks(r)
BY ChainsAssumption DEF IsGiven

\* The roots of a round: those of its block and the payout.
LEMMA RootsOfRound ==
    ASSUME IsGiven, NEW r \in 1..window[3]
    PROVE  Roots(r) \in Seq(Range(Roots(r)))
<1> DEFINE payset == chain[r].payset
           own == [j \in DOMAIN payset |-> [facts |-> payset[j].facts, inner |-> Inner(payset[j])]]
           payout == IndexedPayout(chain[r].header)
<1>1. payset \in Seq({t \in Trees : t.facts.genesis # <<>>})
  BY GivenBlock DEF Blocks
<1>2. own \in Seq(Range(own))
  <2>1. Len(payset) \in Nat /\ DOMAIN payset = 1..Len(payset)
    BY <1>1
  <2>2. own \in [1..Len(payset) -> Range(own)]
    BY <2>1 DEF Range
  <2> HIDE DEF own
  <2> QED
    BY <2>1, <2>2
<1>3. payout \in Seq(Range(payout))
  <2>1. \A x : <<x>> \in Seq(Range(<<x>>))
    BY DEF Range
  <2>2. <<>> \in Seq(Range(<<>>))
    OBVIOUS
  <2>3. payout = <<>> \/ \E x : payout = <<x>>
    BY DEF IndexedPayout
  <2> HIDE DEF payout
  <2> QED
    BY <2>1, <2>2, <2>3
<1>4. Roots(r) = own \o payout
  BY DEF Roots
<1> HIDE DEF own, payout
<1>5. own \o payout \in Seq(Range(own) \cup Range(payout))
  BY <1>2, <1>3, SeqMonotonic
<1> QED
  BY <1>4, <1>5, SeqOfItsRange

\* The indexer's transactions of a round are its roots, in their order.
LEMMA IndexedTxnsOfRound ==
    ASSUME IsGiven, NEW r \in 1..window[3]
    PROVE  /\ IndexedTxns(r) \in Seq(Range(IndexedTxns(r)))
           /\ DOMAIN IndexedTxns(r) = DOMAIN Roots(r)
           /\ \A j \in DOMAIN Roots(r) :
                  /\ IndexedTxns(r)[j].id = <<r, j>>
                  /\ IndexedTxns(r)[j].round = r
                  /\ IndexedTxns(r)[j].facts = Roots(r)[j].facts
                  /\ IndexedTxns(r)[j].inner = Roots(r)[j].inner
<1> DEFINE txns == IndexedTxns(r)
<1>1. Len(Roots(r)) \in Nat /\ DOMAIN Roots(r) = 1..Len(Roots(r))
  BY RootsOfRound
<1>2. /\ txns \in [1..Len(Roots(r)) -> Range(txns)]
      /\ \A j \in DOMAIN Roots(r) :
             /\ txns[j].id = <<r, j>>
             /\ txns[j].round = r
             /\ txns[j].facts = Roots(r)[j].facts
             /\ txns[j].inner = Roots(r)[j].inner
  BY <1>1 DEF IndexedTxns, Range
<1> HIDE DEF txns
<1>3. txns \in Seq(Range(txns)) /\ DOMAIN txns = DOMAIN Roots(r)
  BY <1>1, <1>2
<1> QED
  BY <1>2, <1>3 DEF txns

\* The transactions of all rounds that are searched, round by round.
LEMMA SearchedTxns ==
    ASSUME IsGiven, CatchesUp(window[1], window[2], window[3])
    PROVE  LET all == OfRounds(IndexedTxns, Searched)
           IN  /\ all \in Seq(Range(all))
               /\ IdsDiffer(all)
               /\ \A r \in Searched : Range(IndexedTxns(r)) \subseteq Range(all)
               /\ \A x \in Range(all) : \E r \in Searched : x \in Range(IndexedTxns(r))
<1>1. PICK a \in Nat, b \in Nat : 1 <= a /\ a <= b /\ b <= window[3] /\ Searched = a..b
  BY SearchedRounds
<1>2. Cardinality(Searched) = b - a + 1 /\ Min(Searched) = a
  BY <1>1, FS_Interval, MinOfInterval
<1> DEFINE n == b - a + 1
           lists == [i \in 1..n |-> IndexedTxns(a + i - 1)]
           all == Joined(lists)
<1>3. OfRounds(IndexedTxns, Searched) = all
  BY <1>2 DEF OfRounds
<1>4. window[3] \in Nat
  BY WindowsAssumption DEF IsGiven
<1>5. /\ n \in Nat
      /\ \A i \in 1..n : a + i - 1 \in Searched
      /\ \A r \in Searched : r - a + 1 \in 1..n /\ a + (r - a + 1) - 1 = r
      /\ Searched \subseteq 1..window[3]
  BY <1>1, <1>4
<1>6. \A r \in Searched :
          /\ IndexedTxns(r) \in Seq(Range(IndexedTxns(r)))
          /\ \A j \in DOMAIN (IndexedTxns(r)) : IndexedTxns(r)[j].id = <<r, j>>
  BY <1>5, IndexedTxnsOfRound
<1>7. /\ lists = [i \in 1..n |-> lists[i]]
      /\ \A i \in 1..n : lists[i] = IndexedTxns(a + i - 1)
  OBVIOUS
<1> HIDE DEF lists, n
<1>8. PICK S : lists \in Seq(Seq(S)) /\ DOMAIN lists = 1..n
  <2>1. \A i \in 1..n : lists[i] \in Seq(Range(lists[i]))
    BY <1>5, <1>6, <1>7
  <2> QED
    BY <1>5, <1>7, <2>1, SeqOfLists
<1>9. \A x : x \in Range(all) <=> \E i \in 1..n : x \in Range(lists[i])
  BY <1>8, JoinedRange
<1>10. all \in Seq(Range(all))
  <2>1. all \in Seq(S)
    BY <1>8, JoinedPlaces
  <2> HIDE DEF all
  <2> QED
    BY <2>1 DEF Range
<1>11. IdsDiffer(all)
  <2>1. ASSUME NEW i \in 1..n, NEW j \in 1..n, NEW k \in DOMAIN lists[i], NEW l \in DOMAIN lists[j],
               lists[i][k].id = lists[j][l].id
        PROVE  i = j /\ k = l
    <3>1. lists[i][k].id = <<a + i - 1, k>> /\ lists[j][l].id = <<a + j - 1, l>>
      BY <1>5, <1>6, <1>7
    <3>2. a + i - 1 = a + j - 1 /\ k = l
      <4>1. <<a + i - 1, k>> = <<a + j - 1, l>>
        BY <2>1, <3>1
      <4> QED
        BY <4>1
    <3>3. i \in Int /\ j \in Int
      OBVIOUS
    <3> QED
      BY <3>2, <3>3
  <2>2. \A i \in DOMAIN lists : IdsDiffer(lists[i])
    BY <1>8, <2>1 DEF IdsDiffer
  <2>3. \A i, j \in DOMAIN lists : \A k \in DOMAIN lists[i], l \in DOMAIN lists[j] :
            lists[i][k].id = lists[j][l].id => i = j
    BY <1>8, <2>1
  <2> QED
    BY <1>8, <2>2, <2>3, JoinedIdsDiffer
<1>12. ASSUME NEW r \in Searched, NEW x \in Range(IndexedTxns(r)) PROVE x \in Range(all)
  <2>1. lists[r - a + 1] = IndexedTxns(r)
    BY <1>5, <1>7
  <2> QED
    BY <1>5, <1>9, <2>1
<1>13. ASSUME NEW x \in Range(all) PROVE \E r \in Searched : x \in Range(IndexedTxns(r))
  BY <1>5, <1>7, <1>9
<1> HIDE DEF all
<1> QED
  BY <1>3, <1>10, <1>11, <1>12, <1>13

\* A step does not change what the indexer answers to a search.
LEMMA NextAnswer ==
    ASSUME UNCHANGED given
    PROVE  (Answer(filters[current]))' = Answer(filters[current'])
BY DEF given, Answer, OfRounds, IndexedTxns, Roots, Searched

\* The answer of the indexer to a search.
LEMMA AnswerOfSearch ==
    ASSUME IsGiven, CatchesUp(window[1], window[2], window[3]), NEW f
    PROVE  /\ Answer(f) \in Seq(Range(Answer(f)))
           /\ Len(Answer(f)) <= Len(OfRounds(IndexedTxns, Searched))
           /\ IdsDiffer(Answer(f))
           /\ \A r \in Searched : \A j \in DOMAIN Roots(r) :
                  (\E txn \in {Roots(r)[j]} \cup Range(Roots(r)[j].inner) :
                      IndexerMatches(PreFilter(f.filter), txn.facts))
                  => \E k \in DOMAIN Answer(f) : Answer(f)[k].id = <<r, j>>
           /\ \A x \in Range(Answer(f)) : \E r \in Searched : x \in Range(IndexedTxns(r))
<1> DEFINE all == OfRounds(IndexedTxns, Searched)
           hit(x) == \E txn \in {x} \cup Range(x.inner) :
                         IndexerMatches(PreFilter(f.filter), txn.facts)
           hits == {i \in DOMAIN all : hit(all[i])}
<1>1. /\ all \in Seq(Range(all))
      /\ IdsDiffer(all)
      /\ \A r \in Searched : Range(IndexedTxns(r)) \subseteq Range(all)
      /\ \A x \in Range(all) : \E r \in Searched : x \in Range(IndexedTxns(r))
  BY SearchedTxns
<1>2. Answer(f) = Selected(all, hits)
  BY DEF Answer
<1> HIDE DEF all
<1>3. hits \in SUBSET (DOMAIN all)
  OBVIOUS
<1>4. /\ Answer(f) \in Seq(Range(all))
      /\ Range(Answer(f)) = {all[i] : i \in hits}
      /\ IsFiniteSet(hits) /\ Len(Answer(f)) = Cardinality(hits)
  BY <1>1, <1>2, <1>3, SelectedPlaces, SelectedRange, SelectedCount
<1>5. Answer(f) \in Seq(Range(Answer(f)))
  BY <1>4, SeqOfItsRange
<1>6. IdsDiffer(Answer(f))
  <2>1. \A i, j \in hits : all[i].id = all[j].id => i = j
    BY <1>1 DEF IdsDiffer
  <2> HIDE DEF hits
  <2> QED
    BY <1>1, <1>2, <1>3, <2>1, SelectedIdsDiffer
<1>7. Cardinality(hits) <= Len(all)
  <2>1. DOMAIN all = 1..Len(all) /\ Len(all) \in Nat
    BY <1>1
  <2> HIDE DEF hits
  <2>2. IsFiniteSet(1..Len(all)) /\ Cardinality(1..Len(all)) = Len(all)
    BY <2>1, UpTo
  <2> QED
    BY <1>3, <2>1, <2>2, FS_Subset
<1>8. ASSUME NEW r \in Searched, NEW j \in DOMAIN Roots(r),
             \E txn \in {Roots(r)[j]} \cup Range(Roots(r)[j].inner) :
                 IndexerMatches(PreFilter(f.filter), txn.facts)
      PROVE  \E k \in DOMAIN Answer(f) : Answer(f)[k].id = <<r, j>>
  <2>1. r \in 1..window[3]
    BY SearchedAreReported
  <2> DEFINE x == IndexedTxns(r)[j]
  <2>2. /\ x \in Range(IndexedTxns(r)) /\ x.id = <<r, j>> /\ x.facts = Roots(r)[j].facts
        /\ x.inner = Roots(r)[j].inner
    BY <2>1, IndexedTxnsOfRound DEF Range
  <2> HIDE DEF x
  <2>3. hit(x)
    BY <1>8, <2>2
  <2>4. x \in Range(all)
    BY <1>1, <2>2
  <2>5. PICK i \in DOMAIN all : all[i] = x
    BY <2>4 DEF Range
  <2>6. x \in Range(Answer(f))
    <3>1. i \in hits
      BY <2>3, <2>5
    <3> HIDE DEF hits
    <3> QED
      BY <1>4, <2>5, <3>1
  <2> QED
    BY <2>2, <2>6 DEF Range
<1>9. ASSUME NEW x \in Range(Answer(f)) PROVE \E r \in Searched : x \in Range(IndexedTxns(r))
  <2>1. PICK i \in hits : all[i] = x
    BY <1>4
  <2>2. x \in Range(all)
    BY <2>1 DEF Range
  <2> QED
    BY <1>1, <2>2
<1> QED
  BY <1>4, <1>5, <1>6, <1>7, <1>8, <1>9 DEF all

\* What has been paged through is the beginning of the answer to the search,
\* and all of it when the loop ends.
SearchInv ==
    /\ IsGiven
    /\ current \in 1..(Len(filters) + 1)
    /\ pc = "begin" => current = 1
    /\ pc \notin {"request", "map"} => token = -1 /\ rows = <<>>
    /\ pc \in {"request", "map"} =>
          /\ CatchesUp(window[1], window[2], window[3])
          /\ current \in 1..Len(filters)
          /\ token \in -1..Len(Answer(filters[current]))
          /\ rows = SubSeq(Answer(filters[current]), 1, Returned)
    /\ pc = "map" => rows = Answer(filters[current])

\* There is a filter, and each is one.
LEMMA GivenFilters ==
    ASSUME IsGiven
    PROVE  /\ filters \in Seq(Range(filters)) /\ Len(filters) \in Nat /\ 1 <= Len(filters)
           /\ DOMAIN filters = 1..Len(filters)
           /\ \A i \in 1..Len(filters) : IsFilter(filters[i].filter)
<1>1. filters \in Seq(Range(filters)) /\ filters # <<>>
      /\ \A f \in Range(filters) : IsFilter(f.filter)
  BY FilterSetsAssumption DEF IsGiven
<1>2. Len(filters) \in Nat /\ 1 <= Len(filters) /\ DOMAIN filters = 1..Len(filters)
  BY <1>1
<1> QED
  BY <1>1, <1>2 DEF Range

\* A page goes on where the last one ended, and only the last one is empty or
\* comes without a token.
LEMMA PageOfAnswer ==
    ASSUME SearchInv, pc = "request", NEW page \in Pages
    PROVE  LET answer == Answer(filters[current])
           IN  /\ Returned \in Nat /\ Len(page.items) \in Nat
               /\ Returned + Len(page.items) <= Len(answer)
               /\ rows \o page.items = SubSeq(answer, 1, Returned + Len(page.items))
               /\ Len(rows) = Returned
               /\ page.items = <<>> \/ ~page.more => rows \o page.items = answer
<1> DEFINE answer == Answer(filters[current])
           n == Len(answer)
           rest == SubSeq(answer, Returned + 1, n)
           sizes == IF rest = <<>> THEN {0} ELSE 1..Min({PageLimit, Len(rest)})
<1>1. page \in [items : {SubSeq(rest, 1, k) : k \in sizes}, more : BOOLEAN]
      /\ (~page.more => page.items = rest)
  BY DEF Pages, FirstPages, Remaining
<1>2. answer \in Seq(Range(answer)) /\ n \in Nat /\ Returned \in 0..n
      /\ rows = SubSeq(answer, 1, Returned)
  <2>1. answer \in Seq(Range(answer))
    BY AnswerOfSearch DEF SearchInv
  <2> QED
    BY <2>1 DEF SearchInv, Returned
<1> HIDE DEF answer
<1>3. rest \in Seq(Range(answer)) /\ Len(rest) = n - Returned
  BY <1>2
<1>4. PICK k \in sizes : page.items = SubSeq(rest, 1, k)
  BY <1>1
<1>5. k \in 0..Len(rest) /\ (k = 0 => rest = <<>>)
  <2>1. CASE rest = <<>>
    <3>1. Len(rest) = 0 /\ k = 0
      BY <2>1
    <3> HIDE DEF rest, sizes
    <3> QED
      BY <2>1, <3>1
  <2>2. CASE rest # <<>>
    <3>1. Len(rest) \in Nat /\ 1 <= Len(rest)
      BY <1>2, <1>3, <2>2
    <3> HIDE DEF rest
    <3>2. Min({PageLimit, Len(rest)}) \in Nat /\ Min({PageLimit, Len(rest)}) <= Len(rest)
      BY <3>1, PageLimitAssumption DEF Min
    <3> QED
      BY <2>2, <3>1, <3>2
  <2> QED
    BY <2>1, <2>2
<1>6. page.items \in Seq(Range(answer)) /\ Len(page.items) = k
  <2> HIDE DEF rest, sizes
  <2> QED
    BY <1>3, <1>4, <1>5
<1>7. rows \o page.items = SubSeq(answer, 1, Returned + k)
  <2>1. CASE k = 0
    <3>1. page.items = <<>>
      BY <1>6, <2>1
    <3>2. rows \in Seq(Range(answer))
      BY <1>2
    <3> HIDE DEF rest, sizes, n
    <3> QED
      BY <1>2, <2>1, <3>1, <3>2, ConcatEmptySeq
  <2>2. CASE k # 0
    <3>1. /\ Returned + 1 \in 1..n /\ n \in 1..n /\ 1 \in 1..(n - (Returned + 1) + 1)
          /\ k \in 1..(n - (Returned + 1) + 1)
          /\ 1 \in 1..(n + 1) /\ Returned \in 0..n /\ Returned + k \in Returned..n
          /\ (Returned + 1) + 1 - 1 = Returned + 1 /\ (Returned + 1) + k - 1 = Returned + k
      <4> HIDE DEF rest, n, sizes
      <4> QED
        BY <1>2, <1>3, <1>5, <2>2
    <3>2. page.items = SubSeq(answer, Returned + 1, Returned + k)
      BY <1>2, <1>4, <3>1, SubSeqOfSubSeq
    <3> QED
      BY <1>2, <3>1, <3>2, ConcatAdjacentSubSeq
  <2> QED
    BY <2>1, <2>2
<1>8. ASSUME page.items = <<>> \/ ~page.more PROVE Returned + k = n
  <2> HIDE DEF rest, sizes, n
  <2>1. CASE page.items = <<>>
    BY <1>2, <1>3, <1>5, <1>6, <2>1
  <2>2. CASE ~page.more
    <3>1. page.items = rest
      BY <1>1, <2>2
    <3>2. k = n - Returned
      BY <1>3, <1>6, <3>1
    <3> QED
      BY <1>2, <3>2
  <2> QED
    BY <1>8, <2>1, <2>2
<1>9. Len(rows) = Returned
  BY <1>2
<1>10. SubSeq(answer, 1, n) = answer
  BY <1>2
<1> HIDE DEF n, rest, sizes
<1>11. Returned + k <= n
  BY <1>2, <1>3, <1>5
<1>12. Returned \in Nat /\ Len(page.items) \in Nat
  BY <1>2, <1>3, <1>5, <1>6
<1>13. page.items = <<>> \/ ~page.more => rows \o page.items = answer
  BY <1>7, <1>8, <1>10
<1> QED
  BY <1>6, <1>7, <1>9, <1>11, <1>12, <1>13 DEF answer, n

\* Nothing is searched for at the start.
LEMMA SearchInvInit == Init => SearchInv
<1> SUFFICES ASSUME Init PROVE SearchInv
  OBVIOUS
<1>1. IsGiven /\ pc = "begin" /\ current = 1 /\ token = -1 /\ rows = <<>>
  BY DEF Init, IsGiven
<1>2. Len(filters) \in Nat
  BY <1>1, GivenFilters
<1> QED
  BY <1>1, <1>2 DEF SearchInv

\* No step loses or repeats a page.
LEMMA SearchInvNext == SearchInv /\ [Next]_vars => SearchInv'
<1> SUFFICES ASSUME SearchInv, [Next]_vars PROVE SearchInv'
  OBVIOUS
<1>1. UNCHANGED given
  BY DEF Next, vars, given, ReturnAtTip, Begin, RequestPage, MapAndFilter, Merge, ReadBlock,
         Finish, Done
<1>2. IsGiven /\ IsGiven' /\ window' = window /\ filters' = filters
  BY <1>1 DEF SearchInv, IsGiven, given
<1>3. (Answer(filters[current]))' = Answer(filters[current'])
  BY <1>1, NextAnswer
<1>4. Len(filters) \in Nat /\ 1 <= Len(filters)
  BY <1>2, GivenFilters
<1>5. ASSUME pc \notin {"request", "map"}, pc' \notin {"begin", "request", "map"},
             UNCHANGED <<current, token, rows>>
      PROVE  SearchInv'
  BY <1>2, <1>5 DEF SearchInv
<1>6. CASE Begin
  <2>1. CASE pc' # "request"
    <3>1. pc' \notin {"begin", "request", "map"}
      BY <1>6, <2>1 DEF Begin
    <3> QED
      BY <1>5, <1>6, <3>1 DEF Begin
  <2>2. CASE pc' = "request"
    <3>1. /\ pc = "begin" /\ current' = current /\ token' = token /\ rows' = rows
          /\ CatchesUp(window[1], window[2], window[3])
      BY <1>6, <2>2 DEF Begin
    <3>2. current = 1 /\ token = -1 /\ rows = <<>>
      BY <3>1 DEF SearchInv
    <3>3. Len(Answer(filters[current'])) \in Nat
      BY <1>2, <3>1, AnswerOfSearch
    <3>4. rows' = SubSeq(Answer(filters[current']), 1, 0)
      BY <3>1, <3>2, SubSeqEmpty
    <3>5. Returned' = 0
      BY <3>1, <3>2 DEF Returned
    <3> QED
      BY <1>2, <1>3, <1>4, <2>2, <3>1, <3>2, <3>3, <3>4, <3>5 DEF SearchInv
  <2> QED
    BY <2>1, <2>2
<1>7. CASE RequestPage
  <2>1. PICK page \in Pages :
            /\ rows' = rows \o page.items
            /\ token' = Returned + Len(page.items)
            /\ pc' = IF page.items = <<>> \/ ~page.more THEN "map" ELSE "request"
    BY <1>7 DEF RequestPage
  <2>2. pc = "request" /\ current' = current
    BY <1>7 DEF RequestPage
  <2> DEFINE answer == Answer(filters[current])
             n == Returned + Len(page.items)
  <2>3. /\ n \in Nat /\ n <= Len(answer)
        /\ rows' = SubSeq(answer, 1, n)
        /\ pc' = "map" => rows' = answer
    BY <2>1, <2>2, PageOfAnswer
  <2>4. (Answer(filters[current]))' = answer
    BY <1>3, <2>2
  <2>5. token' = n /\ Returned' = n
    BY <2>1, <2>3 DEF Returned
  <2>6. pc' \in {"request", "map"}
    BY <2>1
  <2>7. CatchesUp(window[1], window[2], window[3]) /\ current \in 1..Len(filters)
    BY <2>2 DEF SearchInv
  <2>8. Len(answer) \in Nat
    BY <1>2, <2>7, AnswerOfSearch
  <2> HIDE DEF answer, n
  <2> QED
    BY <1>2, <1>4, <2>2, <2>3, <2>4, <2>5, <2>6, <2>7, <2>8 DEF SearchInv
<1>8. CASE MapAndFilter
  <2>1. /\ pc = "map" /\ rows' = <<>> /\ token' = -1 /\ current' = current + 1
        /\ pc' = IF current = Len(filters) THEN "merge" ELSE "request"
    BY <1>8 DEF MapAndFilter
  <2>2. CatchesUp(window[1], window[2], window[3]) /\ current \in 1..Len(filters)
    BY <2>1 DEF SearchInv
  <2>3. Len(Answer(filters[current'])) \in Nat
    BY <1>2, <2>2, AnswerOfSearch
  <2>4. rows' = SubSeq(Answer(filters[current']), 1, 0)
    BY <2>1, SubSeqEmpty
  <2>5. Returned' = 0
    BY <2>1 DEF Returned
  <2>6. current' \in 1..(Len(filters) + 1) /\ (pc' = "request" => current' \in 1..Len(filters))
    BY <1>4, <2>1, <2>2
  <2> QED
    BY <1>2, <1>3, <2>1, <2>2, <2>3, <2>4, <2>5, <2>6 DEF SearchInv
<1>9. CASE ReturnAtTip \/ Merge \/ ReadBlock \/ Finish
  BY <1>5, <1>9 DEF ReturnAtTip, Merge, ReadBlock, Finish
<1>10. CASE UNCHANGED vars
  <2>1. UNCHANGED <<pc, current, token, rows>>
    BY <1>10 DEF vars
  <2>2. (Answer(filters[current]))' = Answer(filters[current]) /\ Returned' = Returned
    BY <1>3, <2>1 DEF Returned
  <2> QED
    BY <1>2, <2>1, <2>2 DEF SearchInv
<1> QED
  BY <1>6, <1>7, <1>8, <1>9, <1>10 DEF Next, Done

\* However the indexer cuts its pages, the rows are at any time the part of the
\* answer before the token (execute_paginated_request).
THEOREM SearchInvariant == Spec => []SearchInv
BY SearchInvInit, SearchInvNext, PTL DEF Spec

\* The search of execute_paginated_request, however the indexer cuts its answer
\* into pages, leaves out no root that the filter would accept itself or for an
\* inner transaction.
THEOREM SearchIsComplete == Spec => []SearchFindsAll
<1>1. ASSUME SearchInv PROVE SearchFindsAll
  <2> SUFFICES ASSUME pc = "map", NEW r \in Searched, NEW j \in DOMAIN Roots(r),
                      NEW txn \in {Roots(r)[j]} \cup Range(Roots(r)[j].inner),
                      PostFilter(filters[current].filter, groups, txn.facts)
               PROVE  \E k \in DOMAIN rows : rows[k].id = <<r, j>>
    BY DEF SearchFindsAll
  <2> DEFINE f == filters[current]
  <2>1. /\ IsGiven /\ CatchesUp(window[1], window[2], window[3]) /\ rows = Answer(f)
        /\ current \in 1..Len(filters)
    BY <1>1 DEF SearchInv
  <2>2. IndexerMatches(PreFilter(f.filter), txn.facts)
    BY <2>1, GivenFilters, PreFilterIsSound
  <2> HIDE DEF f
  <2> QED
    BY <2>1, <2>2, AnswerOfSearch
<1> QED
  BY <1>1, SearchInvariant, PTL

\* execute_paginated_request comes to an end: a request that another one of the
\* same search follows brought something, nothing comes twice, and the next one
\* asks for what comes after it.
THEOREM SearchGoesOn == Spec => SearchAdvances
<1> DEFINE step == pc = "request" /\ pc' = "request" /\ current' = current =>
                       /\ Len(rows') > Len(rows) /\ token' = Len(rows')
                       /\ \A k, l \in DOMAIN rows' : rows'[k].id = rows'[l].id => k = l
<1>1. ASSUME SearchInv, Next PROVE step
  <2> SUFFICES ASSUME pc = "request", pc' = "request", current' = current
               PROVE  /\ Len(rows') > Len(rows) /\ token' = Len(rows')
                      /\ \A k, l \in DOMAIN rows' : rows'[k].id = rows'[l].id => k = l
    OBVIOUS
  <2>1. RequestPage
    BY <1>1 DEF Next, ReturnAtTip, Begin, MapAndFilter, Merge, ReadBlock, Finish, Done
  <2>2. PICK page \in Pages :
            /\ rows' = rows \o page.items
            /\ token' = Returned + Len(page.items)
            /\ page.items # <<>>
    BY <2>1 DEF RequestPage
  <2> DEFINE answer == Answer(filters[current])
             n == Returned + Len(page.items)
  <2>3. /\ Returned \in Nat /\ Len(page.items) \in Nat /\ n <= Len(answer)
        /\ rows' = SubSeq(answer, 1, n) /\ Len(rows) = Returned
    BY <1>1, <2>2, PageOfAnswer
  <2>4. answer \in Seq(Range(answer)) /\ IdsDiffer(answer)
    BY <1>1, AnswerOfSearch DEF SearchInv
  <2>5. Len(page.items) # 0
    BY <2>2, <2>3, <2>4
  <2> HIDE DEF answer
  <2>6. Len(rows') = n /\ DOMAIN rows' = 1..n /\ \A k \in 1..n : rows'[k] = answer[k]
    BY <2>3, <2>4
  <2>7. DOMAIN answer = 1..Len(answer) /\ Len(answer) \in Nat
    BY <2>4
  <2> QED
    BY <2>2, <2>3, <2>4, <2>5, <2>6, <2>7 DEF IdsDiffer
<1>2. ASSUME SearchInv, [Next]_vars PROVE [step]_vars
  BY <1>1, <1>2
<1> HIDE DEF step
<1>3. Spec => [][step]_vars
  BY <1>2, SearchInvariant, PTL DEF Spec
<1> QED
  BY <1>3 DEF SearchAdvances, step

-------------------------------------------------------------------------------
(* The blocks of algod. *)

\* A forest has a number of nodes.
LEMMA SizeTyped ==
    ASSUME NEW forest \in Seq(Trees)
    PROVE  Size(forest) \in Nat
<1>1. \A i \in DOMAIN forest : Below[forest[i]] \in Seq(Trees)
  BY SeqIs, BelowTyped
<1>2. Expanded(forest, Below) \in Seq(Trees)
  BY <1>1, ExpandedTyped
<1> QED
  BY <1>2, SeqIs DEF Size

\* An appended member comes last.
LEMMA AppendIs ==
    ASSUME NEW S, NEW s \in Seq(S), NEW e \in S, NEW n, Len(s) = n
    PROVE  Append(s, e) = [i \in 1..(n + 1) |-> IF i = n + 1 THEN e ELSE s[i]]
<1> DEFINE more == Append(s, e)
<1>1. /\ n \in Nat /\ more \in Seq(S) /\ Len(more) = n + 1
      /\ \A i \in 1..(n + 1) : more[i] = IF i = n + 1 THEN e ELSE s[i]
  OBVIOUS
<1>2. more = [i \in 1..Len(more) |-> more[i]]
  <2>1. more \in Seq(S)
    OBVIOUS
  <2> HIDE DEF more
  <2> QED
    BY <2>1
<1> HIDE DEF more
<1>3. more = [i \in 1..(n + 1) |-> IF i = n + 1 THEN e ELSE s[i]]
  BY <1>1, <1>2
<1> QED
  BY <1>3 DEF more

\* A tree more adds its root and what is below it.
LEMMA SizeOfMore ==
    ASSUME NEW forest \in Seq(Trees), NEW t \in Trees
    PROVE  Size(Append(forest, t)) = Size(forest) + 1 + Len(Below[t])
<1> DEFINE more == Append(forest, t)
           n == Len(forest)
           list == <<t>> \o Below[t]
<1>1. /\ more \in Seq(Trees) /\ n \in Nat /\ DOMAIN more = 1..(n + 1) /\ DOMAIN forest = 1..n
      /\ more[n + 1] = t /\ \A i \in 1..n : more[i] = forest[i]
  OBVIOUS
<1> HIDE DEF more, n
<1>2. \A i \in DOMAIN forest : Below[forest[i]] \in Seq(Trees)
  BY SeqIs, BelowTyped
<1>3. list \in Seq(Trees) /\ Len(list) = 1 + Len(Below[t])
  <2>1. Below[t] \in Seq(Trees)
    BY BelowTyped
  <2> QED
    BY <2>1
<1>4. Nodes(forest) \in Seq(Seq(Trees)) /\ Len(Nodes(forest)) = n
  BY <1>1, <1>2, NodesTyped, SeqIs
<1>5. Nodes(more) = Append(Nodes(forest), list)
  <2>1. Nodes(more) = [i \in 1..(n + 1) |-> <<more[i]>> \o Below[more[i]]]
    BY <1>1 DEF Nodes
  <2>2. Append(Nodes(forest), list) =
            [i \in 1..(n + 1) |-> IF i = n + 1 THEN list ELSE Nodes(forest)[i]]
    <3>1. Nodes(forest) \in Seq(Seq(Trees)) /\ Len(Nodes(forest)) = n /\ n \in Nat
          /\ list \in Seq(Trees)
      BY <1>1, <1>3, <1>4
    <3>2. PICK N : N = Nodes(forest)
      OBVIOUS
    <3>3. PICK m : m = n
      OBVIOUS
    <3>4. N \in Seq(Seq(Trees)) /\ Len(N) = m /\ list \in Seq(Trees)
      BY <3>1, <3>2, <3>3
    <3> HIDE DEF list
    <3>5. Append(N, list) = [i \in 1..(m + 1) |-> IF i = m + 1 THEN list ELSE N[i]]
      BY ONLY <3>4, AppendIs
    <3> QED
      BY <3>2, <3>3, <3>5
  <2>3. \A i \in 1..n : Nodes(forest)[i] = <<more[i]>> \o Below[more[i]]
    BY <1>1 DEF Nodes
  <2>4. list = <<more[n + 1]>> \o Below[more[n + 1]]
    BY <1>1
  <2> HIDE DEF list
  <2>5. \A i \in 1..(n + 1) : (IF i = n + 1 THEN list ELSE Nodes(forest)[i]) =
                                 <<more[i]>> \o Below[more[i]]
    <3> SUFFICES ASSUME NEW i \in 1..(n + 1)
                 PROVE  (IF i = n + 1 THEN list ELSE Nodes(forest)[i]) =
                            <<more[i]>> \o Below[more[i]]
      OBVIOUS
    <3>1. CASE i = n + 1
      BY <2>4, <3>1
    <3>2. CASE i # n + 1
      <4>1. i \in 1..n
        BY <1>1, <3>2
      <4> QED
        BY <2>3, <3>2, <4>1
    <3> QED
      BY <3>1, <3>2
  <2> QED
    BY <2>1, <2>2, <2>5
<1> HIDE DEF list
<1>6. Joined(Nodes(more)) = Joined(Nodes(forest)) \o list
  BY <1>3, <1>4, <1>5, JoinedAppend
<1>7. Joined(Nodes(forest)) \in Seq(Trees)
  BY <1>4, JoinedPlaces
<1>8. Len(Joined(Nodes(forest)) \o list) = Len(Joined(Nodes(forest))) + Len(list)
  BY <1>3, <1>7, SMTT(20)
<1>9. Size(more) = Len(Joined(Nodes(more))) /\ Size(forest) = Len(Joined(Nodes(forest)))
  BY DEF Size, Expanded, Nodes
<1>10. Len(Joined(Nodes(forest))) \in Nat /\ Len(Below[t]) \in Nat
  BY <1>7, BelowTyped, SeqIs
<1>11. /\ Size(more) = Len(Joined(Nodes(forest))) + Len(list)
       /\ Len(Joined(Nodes(forest))) = Size(forest)
  BY <1>6, <1>8, <1>9
<1> HIDE DEF Size
<1>12. Size(more) = Size(forest) + 1 + Len(Below[t])
  <2>1. Len(Joined(Nodes(forest))) \in Nat /\ Len(Below[t]) \in Nat /\ Len(list) = 1 + Len(Below[t])
    BY <1>3, <1>10
  <2> DEFINE a == Len(Joined(Nodes(forest)))
             b == Len(Below[t])
             c == Len(list)
  <2> HIDE DEF a, b, c
  <2>2. a \in Nat /\ b \in Nat /\ c = 1 + b /\ Size(more) = a + c /\ Size(forest) = a
    BY <1>11, <2>1 DEF a, b, c
  <2>3. Size(more) = Size(forest) + 1 + b
    BY <2>2
  <2> QED
    BY <2>3 DEF b
<1> QED
  BY <1>12 DEF more

\* The nodes of a forest up to one root more.
LEMMA SizeUpTo ==
    ASSUME NEW forest \in Seq(Trees), NEW j \in 1..Len(forest)
    PROVE  /\ Size(SubSeq(forest, 1, j - 1)) \in Nat
           /\ Size(SubSeq(forest, 1, j)) =
                  Size(SubSeq(forest, 1, j - 1)) + 1 + Len(Below[forest[j]])
<1>1. /\ SubSeq(forest, 1, j - 1) \in Seq(Trees) /\ forest[j] \in Trees
      /\ SubSeq(forest, 1, j) = Append(SubSeq(forest, 1, j - 1), forest[j])
  OBVIOUS
<1> QED
  BY <1>1, SizeTyped, SizeOfMore

\* What a poll is given of a round.
LEMMA BlockOfRound ==
    ASSUME IsGiven, NEW r \in 1..window[3]
    PROVE  LET payset == chain[r].payset
               header == chain[r].header
           IN  /\ r \in Nat
               /\ payset \in Seq(Trees) /\ Len(payset) \in Nat /\ DOMAIN payset = 1..Len(payset)
               /\ \A j \in DOMAIN payset :
                     payset[j] \in Trees /\ payset[j].facts.genesis # <<>>
               /\ header \in BlockHeaders(r) /\ header.round = r
               /\ HasPayout(header) => header.feeSink # None
               /\ chain[r].cert \in Seq([digest : Seq(Texts)])
<1>1. chain[r] \in Blocks(r)
  BY GivenBlock
<1>2. chain[r].payset \in Seq({t \in Trees : t.facts.genesis # <<>>})
  BY <1>1 DEF Blocks
<1>3. \A j \in DOMAIN chain[r].payset :
          chain[r].payset[j] \in Trees /\ chain[r].payset[j].facts.genesis # <<>>
  BY <1>2, SeqIs
<1>4. {t \in Trees : t.facts.genesis # <<>>} \subseteq Trees
  OBVIOUS
<1>5. chain[r].payset \in Seq(Trees)
  BY <1>2, <1>4, SeqMonotonic
<1>6. chain[r].header \in BlockHeaders(r)
      /\ (HasPayout(chain[r].header) => chain[r].header.feeSink # None)
      /\ chain[r].cert \in Seq([digest : Seq(Texts)])
  BY <1>1 DEF Blocks
<1>7. chain[r].header.round = r
  BY <1>6 DEF BlockHeaders
<1>8. r \in Nat
  BY WindowsAssumption DEF IsGiven
<1> QED
  BY <1>3, <1>5, <1>6, <1>7, <1>8, SeqIs

\* A list with at most one member behind it.
LEMMA WithTail ==
    ASSUME NEW n \in Nat, NEW s, s = [j \in 1..n |-> s[j]],
           NEW tail, tail = <<>> \/ (\E x : tail = <<x>>), NEW both, both = s \o tail
    PROVE  /\ Len(tail) \in 0..1 /\ (tail = <<>> <=> Len(tail) = 0)
           /\ Len(both) = n + Len(tail) /\ DOMAIN both = 1..(n + Len(tail))
           /\ both = [j \in 1..(n + Len(tail)) |-> IF j <= n THEN s[j] ELSE tail[1]]
<1> DEFINE S == Range(s) \cup Range(tail)
           m == Len(tail)
<1>1. s \in Seq(S) /\ Len(s) = n
  <2>1. s \in [1..n -> S]
    BY DEF Range
  <2> HIDE DEF S
  <2> QED
    BY <2>1, FunctionIsSeq
<1>2. /\ tail \in Seq(S) /\ m \in 0..1 /\ (tail = <<>> <=> m = 0)
      /\ DOMAIN tail = 1..m
  <2>1. CASE tail = <<>>
    BY <2>1
  <2>2. CASE \E x : tail = <<x>>
    <3>1. PICK x : tail = <<x>>
      BY <2>2
    <3>2. x \in S
      BY <3>1 DEF Range
    <3> HIDE DEF S
    <3> QED
      BY <3>1, <3>2
  <2> QED
    BY <2>1, <2>2
<1> HIDE DEF S, m
<1>3. /\ s \o tail \in Seq(S) /\ Len(s \o tail) = n + m
      /\ \A j \in 1..(n + m) : (s \o tail)[j] = IF j <= n THEN s[j] ELSE tail[j - n]
  BY <1>1, <1>2 DEF m
<1>4. /\ both \in Seq(S) /\ Len(both) = n + m
      /\ \A j \in 1..(n + m) : both[j] = IF j <= n THEN s[j] ELSE tail[j - n]
  BY <1>3
<1>5. both = [j \in 1..Len(both) |-> both[j]] /\ DOMAIN both = 1..Len(both)
  BY <1>4, SeqIs
<1>6. \A j \in 1..(n + m) : both[j] = IF j <= n THEN s[j] ELSE tail[1]
  <2>1. \A j \in 1..(n + m) : ~(j <= n) => j - n = 1
    BY <1>2
  <2> QED
    BY <1>4, <2>1
<1>7. both = [j \in 1..(n + m) |-> both[j]]
  BY <1>4, <1>5
<1>8. both = [j \in 1..(n + m) |-> IF j <= n THEN s[j] ELSE tail[1]]
  BY <1>6, <1>7
<1> QED
  BY <1>2, <1>4, <1>5, <1>8 DEF m

\* What both sources say of the payout to a proposer.
PayoutFacts(header) ==
    [type |-> "pay", sender |-> header.feeSink, fee |-> 0, note |-> <<"payout">>,
     genesis |-> <<"id", "hash">>, sig |-> "empty", createdAsset |-> 0,
     createdApp |-> 0, logs |-> <<>>, globals |-> <<>>, locals |-> <<>>,
     body |-> [receiver |-> header.proposer, amount |-> header.payout,
               closeTo |-> None, closeAmount |-> 0]]

\* The payout that the subscriber makes up from a header is the one that the
\* indexer reports.
LEMMA PayoutsAgree ==
    ASSUME NEW r, NEW header \in BlockHeaders(r), HasPayout(header), header.feeSink # None
    PROVE  /\ Payout(header) = PayoutFacts(header)
           /\ IndexedPayout(header) = <<[inner |-> <<>>, facts |-> PayoutFacts(header)]>>
           /\ IsTransaction(PayoutFacts(header))
<1>1. IndexedPayout(header) = <<[inner |-> <<>>, facts |-> PayoutFacts(header)]>>
  BY DEF IndexedPayout, PayoutFacts
<1>2. Payout(header) = PayoutFacts(header)
  <2> DEFINE body == [receiver |-> header.proposer, amount |-> header.payout, closeTo |-> None]
             applied == [closing |-> <<>>, assetClosing |-> <<>>, configAsset |-> <<>>,
                             applicationId |-> <<>>, logs |-> <<>>, globals |-> <<>>,
                             shared |-> <<>>, locals |-> <<>>]
             raw == [type |-> "pay", sender |-> FeeSink(header), fee |-> <<>>,
                note |-> <<"payout">>, genesis |-> <<"id", "hash">>, hasGenesisId |-> FALSE,
                sig |-> None,
                body |-> body,
                applied |-> applied]
  <2>1. Payout(header) = [Converted(raw) EXCEPT !.sig = "empty"]
    BY DEF Payout
  <2>2. /\ raw.type = "pay" /\ raw.sender = header.feeSink /\ raw.fee = <<>>
        /\ raw.note = <<"payout">> /\ raw.genesis = <<"id", "hash">> /\ raw.body = body
        /\ raw.applied = applied
    BY DEF FeeSink
  <2>3. /\ applied.closing = <<>> /\ applied.configAsset = <<>> /\ applied.applicationId = <<>>
        /\ applied.logs = <<>> /\ applied.globals = <<>>
    OBVIOUS
  <2>4. /\ body.receiver = header.proposer /\ body.amount = header.payout /\ body.closeTo = None
    OBVIOUS
  <2> HIDE DEF raw, applied, body
  <2>5. ConvertedGlobals(raw) = <<>>
    BY <2>2, <2>3 DEF ConvertedGlobals
  <2>6. ConvertedLocals(raw) = <<>>
    BY <2>2 DEF ConvertedLocals
  <2>7. ConvertedBody(raw) = [receiver |-> header.proposer, amount |-> header.payout,
                              closeTo |-> None, closeAmount |-> 0]
    BY <2>2, <2>3, <2>4 DEF ConvertedBody, ConvertedPay, OrElse, Given
  <2>8. Converted(raw) = [type |-> "pay", sender |-> header.feeSink, fee |-> 0,
                          note |-> <<"payout">>, genesis |-> <<"id", "hash">>,
                          sig |-> ConvertedSignature(raw), createdAsset |-> 0, createdApp |-> 0,
                          logs |-> <<>>, globals |-> <<>>, locals |-> <<>>,
                          body |-> [receiver |-> header.proposer, amount |-> header.payout,
                                    closeTo |-> None, closeAmount |-> 0]]
    BY <2>2, <2>3, <2>5, <2>6, <2>7 DEF Converted, OrElse, Given
  <2> QED
    BY <2>1, <2>8 DEF PayoutFacts
<1>3. IsTransaction(PayoutFacts(header))
  <2> DEFINE t == PayoutFacts(header)
  <2>1. /\ header.feeSink \in Texts /\ header.proposer \in Texts /\ header.payout \in Nat
    BY DEF BlockHeaders
  <2>2. t.body \in Body(t.type)
    <3>1. t.type = "pay" /\ t.body = [receiver |-> header.proposer, amount |-> header.payout,
                                    closeTo |-> None, closeAmount |-> 0]
      BY DEF PayoutFacts
    <3>2. Body("pay") = [receiver : Texts, amount : Nat, closeTo : Texts, closeAmount : Nat]
      BY DEF Body
    <3> HIDE DEF t
    <3>3. t.body \in [receiver : Texts, amount : Nat, closeTo : Texts, closeAmount : Nat]
      <4>1. None \in Texts /\ 0 \in Nat
        BY TextsAssumption
      <4> QED
        BY <2>1, <3>1, <4>1
    <3> QED
      BY <3>1, <3>2, <3>3
  <2>3. IsBody(t)
    <3>1. t.type = "pay" /\ t.body.receiver # None
      BY DEF PayoutFacts, HasPayout
    <3> HIDE DEF t
    <3>2. t.type # "acfg" /\ t.type # "appl" /\ t.type # "stpf"
      BY <3>1
    <3> QED
      BY <2>2, <3>1, <3>2 DEF IsBody
  <2>4. /\ \A S : <<>> \in Seq(S)
        /\ \A S : \A x \in S : <<x>> \in Seq(S)
    OBVIOUS
  <2>5. "payout" \in Texts /\ "empty" \in Texts /\ "pay" \in TxnTypes
    <3>1. "payout" \in Texts /\ "empty" \in Texts
      BY TextsAssumption
    <3>2. "pay" \in TxnTypes
      BY Zenon DEF TxnTypes
    <3> QED
      BY <3>1, <3>2
  <2>6. t \in [type : TxnTypes, sender : Texts, fee : Nat, note : Seq(Texts),
              genesis : {<<>>, <<"id", "hash">>, <<None, "hash">>}, sig : Texts,
              createdAsset : Nat, createdApp : Nat, logs : Seq([prefix : Texts, decodable : BOOLEAN]),
              globals : Seq([key : Texts, uint : Nat]), locals : Seq(Texts), body : {t.body}]
    <3>1. /\ <<"payout">> \in Seq(Texts) /\ <<>> \in Seq([prefix : Texts, decodable : BOOLEAN])
          /\ <<>> \in Seq([key : Texts, uint : Nat]) /\ <<>> \in Seq(Texts)
      BY <2>4, <2>5
    <3> DEFINE note == <<"payout">>
               none == <<>>
               genesis == <<"id", "hash">>
    <3>2. /\ t = [type |-> "pay", sender |-> header.feeSink, fee |-> 0, note |-> note,
                  genesis |-> genesis, sig |-> "empty", createdAsset |-> 0, createdApp |-> 0,
                  logs |-> none, globals |-> none, locals |-> none, body |-> t.body]
          /\ note \in Seq(Texts) /\ none \in Seq([prefix : Texts, decodable : BOOLEAN])
          /\ none \in Seq([key : Texts, uint : Nat]) /\ none \in Seq(Texts)
          /\ genesis \in {<<>>, <<"id", "hash">>, <<None, "hash">>}
      BY <3>1 DEF PayoutFacts
    <3> HIDE DEF t, note, none, genesis
    <3>3. PICK A, B, C, D : /\ A = Seq([prefix : Texts, decodable : BOOLEAN])
                            /\ B = Seq([key : Texts, uint : Nat]) /\ C = Seq(Texts)
                            /\ D = {<<>>, <<"id", "hash">>, <<None, "hash">>}
      OBVIOUS
    <3>4. t \in [type : TxnTypes, sender : Texts, fee : Nat, note : C, genesis : D, sig : Texts,
              createdAsset : Nat, createdApp : Nat, logs : A, globals : B, locals : C,
              body : {t.body}]
      BY <2>1, <2>5, <3>2, <3>3
    <3> QED
      BY <3>3, <3>4
  <2> QED
    BY <2>3, <2>6 DEF IsTransaction, PayoutFacts
<1> QED
  BY <1>1, <1>2, <1>3

\* Transaction j of a block is what it was before it was encoded.
LEMMA NumberedIs ==
    ASSUME NEW payset, NEW j, payset[j] \in Trees, payset[j].facts.genesis # <<>>
    PROVE  Numbered(payset, j) = [facts |-> payset[j].facts,
                                  offset |-> Size(SubSeq(payset, 1, j - 1)),
                                  inner |-> Inner(payset[j])]
<1> DEFINE t == payset[j]
           n == Len(Below[t])
<1>1. Converted(Normalized(Encoded(t.facts))) = t.facts
  BY RootConversion, TreesAssumption
<1>2. \A k \in 1..n : [Inner(t)[k] EXCEPT !.facts = Converted(Encoded(@))] = Inner(t)[k]
  <2> SUFFICES ASSUME NEW k \in 1..n
               PROVE  [Inner(t)[k] EXCEPT !.facts = Converted(Encoded(@))] = Inner(t)[k]
    OBVIOUS
  <2>1. /\ Inner(t)[k] = [facts |-> Below[t][k].facts, size |-> Len(Below[Below[t][k]])]
        /\ IsTransaction(Inner(t)[k].facts) /\ IsSigned(Inner(t)[k].facts)
        /\ Inner(t)[k].facts.genesis = <<>>
    BY InnerIs
  <2>2. Converted(Encoded(Inner(t)[k].facts)) = Inner(t)[k].facts
    BY <2>1, InnerConversion
  <2> QED
    BY <2>1, <2>2
<1>3. DOMAIN Inner(t) = 1..n /\ Inner(t) = [k \in 1..n |-> Inner(t)[k]]
  BY InnerIs
<1> HIDE DEF n
<1>4. [k \in DOMAIN Inner(t) |-> [Inner(t)[k] EXCEPT !.facts = Converted(Encoded(@))]] = Inner(t)
  BY <1>2, <1>3
<1> QED
  BY <1>1, <1>4 DEF Numbered

\* The number of roots of a round.
Count(r) == Len(chain[r].payset) + (IF HasPayout(chain[r].header) THEN 1 ELSE 0)

\* Root j of round r.
RootAt(r, j) ==
    [id |-> <<r, j>>, round |-> r, offset |-> Size(SubSeq(chain[r].payset, 1, j - 1)),
     facts |-> IF j <= Len(chain[r].payset) THEN chain[r].payset[j].facts
               ELSE PayoutFacts(chain[r].header),
     inner |-> IF j <= Len(chain[r].payset) THEN Inner(chain[r].payset[j]) ELSE <<>>]

\* The roots of a round: those of its payset, and the payout if there is one.
LEMMA RootsAre ==
    ASSUME IsGiven, NEW r \in 1..window[3]
    PROVE  /\ Count(r) \in Nat /\ Len(Roots(r)) = Count(r) /\ DOMAIN Roots(r) = 1..Count(r)
           /\ \A j \in 1..Count(r) : Roots(r)[j].facts = RootAt(r, j).facts
                                     /\ Roots(r)[j].inner = RootAt(r, j).inner
<1> DEFINE payset == chain[r].payset
           header == chain[r].header
           n == Len(payset)
           own == [j \in DOMAIN payset |-> [facts |-> payset[j].facts, inner |-> Inner(payset[j])]]
           tail == IndexedPayout(header)
           payout == [inner |-> <<>>, facts |-> PayoutFacts(header)]
<1>1. n \in Nat /\ DOMAIN payset = 1..n /\ header \in BlockHeaders(r)
      /\ (HasPayout(header) => header.feeSink # None)
  BY BlockOfRound
<1>2. own = [j \in 1..n |-> own[j]]
      /\ \A j \in 1..n : own[j] = [facts |-> payset[j].facts, inner |-> Inner(payset[j])]
  BY <1>1
<1>3. /\ HasPayout(header) => tail = <<payout>>
      /\ ~HasPayout(header) => tail = <<>>
  <2>1. HasPayout(header) => tail = <<payout>>
    BY <1>1, PayoutsAgree
  <2>2. ~HasPayout(header) => tail = <<>>
    BY DEF IndexedPayout
  <2> QED
    BY <2>1, <2>2
<1>4. Roots(r) = own \o tail
  BY DEF Roots
<1>5. Count(r) = n + (IF HasPayout(header) THEN 1 ELSE 0)
  BY DEF Count
<1> HIDE DEF own, tail, payout, n
<1>6. tail = <<>> \/ \E x : tail = <<x>>
  BY <1>3
<1>7. /\ Len(Roots(r)) = n + Len(tail) /\ DOMAIN Roots(r) = 1..(n + Len(tail))
      /\ Roots(r) = [j \in 1..(n + Len(tail)) |-> IF j <= n THEN own[j] ELSE tail[1]]
  BY <1>1, <1>2, <1>4, <1>6, WithTail
<1>8. Len(tail) = IF HasPayout(header) THEN 1 ELSE 0
  BY <1>3
<1>9. ASSUME NEW j \in 1..Count(r)
      PROVE  Roots(r)[j].facts = RootAt(r, j).facts /\ Roots(r)[j].inner = RootAt(r, j).inner
  <2>1. j \in 1..(n + Len(tail))
    BY <1>5, <1>8
  <2>2. Roots(r)[j] = IF j <= n THEN own[j] ELSE tail[1]
    BY <1>7, <2>1
  <2>3. CASE j <= n
    <3>1. j \in 1..n
      BY <1>1, <2>3
    <3>2. Roots(r)[j] = [facts |-> payset[j].facts, inner |-> Inner(payset[j])]
      BY <1>2, <2>2, <2>3, <3>1
    <3> QED
      BY <2>3, <3>2 DEF RootAt, n
  <2>4. CASE ~(j <= n)
    <3>1. HasPayout(header)
      BY <1>1, <1>8, <2>1, <2>4
    <3>2. Roots(r)[j] = payout
      BY <1>3, <2>2, <2>4, <3>1
    <3> QED
      BY <2>4, <3>2 DEF RootAt, n, payout
  <2> QED
    BY <2>3, <2>4
<1>10. n \in Nat /\ Len(tail) \in Nat /\ Count(r) = n + Len(tail)
  BY <1>1, <1>5, <1>8
<1>11. Count(r) \in Nat
  BY <1>10
<1> QED
  BY <1>7, <1>9, <1>10, <1>11

\* The indexer's transactions of a round are its roots.
LEMMA IndexedTxnsAre ==
    ASSUME IsGiven, NEW r \in 1..window[3]
    PROVE  IndexedTxns(r) = [j \in 1..Count(r) |-> RootAt(r, j)]
<1> DEFINE entry(j) == [id |-> <<r, j>>, round |-> r,
                        offset |-> Size(SubSeq(chain[r].payset, 1, j - 1)),
                        facts |-> Roots(r)[j].facts, inner |-> Roots(r)[j].inner]
<1>1. IndexedTxns(r) = [j \in DOMAIN Roots(r) |-> entry(j)]
  BY DEF IndexedTxns
<1>2. \A j \in 1..Count(r) : entry(j) = RootAt(r, j)
  BY RootsAre DEF RootAt
<1>3. DOMAIN Roots(r) = 1..Count(r)
  BY RootsAre
<1> HIDE DEF entry
<1> QED
  BY <1>1, <1>2, <1>3

\* The transactions that the subscriber makes of a block of algod are those
\* that the indexer has of its round, field by field: their ids, numbers, facts
\* and inner transactions.
THEOREM BlockIsAsIndexed ==
    ASSUME IsGiven, NEW r \in 1..window[3]
    PROVE  AlgodTxns(chain[r]) = IndexedTxns(r)
<1> DEFINE payset == chain[r].payset
           header == chain[r].header
           n == Len(payset)
           own == [j \in DOMAIN payset |-> Numbered(payset, j)]
           payout == [facts |-> Payout(header), offset |-> Size(payset), inner |-> <<>>]
           tail == IF HasPayout(header) THEN <<payout>> ELSE <<>>
           txns == BlockTransactions(chain[r])
           entry(j) == [id |-> <<header.round, j>>, round |-> header.round,
                        offset |-> txns[j].offset, facts |-> txns[j].facts,
                        inner |-> txns[j].inner]
<1>1. /\ n \in Nat /\ DOMAIN payset = 1..n /\ header \in BlockHeaders(r) /\ header.round = r
      /\ (HasPayout(header) => header.feeSink # None) /\ payset \in Seq(Trees)
      /\ \A j \in 1..n : payset[j] \in Trees /\ payset[j].facts.genesis # <<>>
  BY BlockOfRound
<1>2. own = [j \in 1..n |-> own[j]]
      /\ \A j \in 1..n : own[j] = [facts |-> payset[j].facts,
                                   offset |-> Size(SubSeq(payset, 1, j - 1)),
                                   inner |-> Inner(payset[j])]
  <2>1. own = [j \in 1..n |-> own[j]] /\ \A j \in 1..n : own[j] = Numbered(payset, j)
    BY <1>1
  <2> HIDE DEF own
  <2> QED
    BY <1>1, <2>1, NumberedIs
<1>3. HasPayout(header) => payout = [facts |-> PayoutFacts(header), offset |-> Size(payset),
                                     inner |-> <<>>]
  BY <1>1, PayoutsAgree
<1>4. txns = own \o tail
  BY DEF BlockTransactions
<1>5. AlgodTxns(chain[r]) = [j \in DOMAIN txns |-> entry(j)]
  BY DEF AlgodTxns, Identified
<1>6. Count(r) = n + (IF HasPayout(header) THEN 1 ELSE 0)
  BY DEF Count
<1>7. Len(tail) = (IF HasPayout(header) THEN 1 ELSE 0) /\ (tail = <<>> \/ \E x : tail = <<x>>)
      /\ (HasPayout(header) => tail[1] = payout)
  <2> HIDE DEF payout
  <2> QED
    OBVIOUS
<1>8. SubSeq(payset, 1, n) = payset
  <2> HIDE DEF payset
  <2> QED
    BY <1>1 DEF n
<1> HIDE DEF own, tail, payout, n, txns
<1>9. /\ DOMAIN txns = 1..(n + Len(tail))
      /\ txns = [j \in 1..(n + Len(tail)) |-> IF j <= n THEN own[j] ELSE tail[1]]
  <2>1. /\ n \in Nat /\ own = [j \in 1..n |-> own[j]] /\ txns = own \o tail
        /\ tail = <<>> \/ \E x : tail = <<x>>
    BY <1>1, <1>2, <1>4, <1>7
  <2> QED
    BY <2>1, WithTail
<1>10. DOMAIN txns = 1..Count(r)
  BY <1>6, <1>7, <1>9
<1>11. ASSUME NEW j \in 1..Count(r)
       PROVE  entry(j) = RootAt(r, j)
  <2>1. txns[j] = IF j <= n THEN own[j] ELSE tail[1]
    BY <1>9, <1>10
  <2>2. CASE j <= n
    <3>1. j \in 1..n
      BY <1>1, <2>2
    <3>2. txns[j] = [facts |-> payset[j].facts, offset |-> Size(SubSeq(payset, 1, j - 1)),
                     inner |-> Inner(payset[j])]
      BY <1>2, <2>1, <2>2, <3>1
    <3> QED
      BY <1>1, <2>2, <3>2 DEF RootAt, n
  <2>3. CASE ~(j <= n)
    <3>1. HasPayout(header) /\ j - 1 = n
      BY <1>1, <1>6, <2>3
    <3>2. txns[j] = [facts |-> PayoutFacts(header), offset |-> Size(payset), inner |-> <<>>]
      BY <1>3, <1>7, <2>1, <2>3, <3>1
    <3>3. Size(SubSeq(payset, 1, j - 1)) = Size(payset)
      BY <1>8, <3>1
    <3> QED
      BY <1>1, <2>3, <3>2, <3>3 DEF RootAt, n
  <2> QED
    BY <2>2, <2>3
<1> HIDE DEF entry
<1>12. AlgodTxns(chain[r]) = [j \in 1..Count(r) |-> RootAt(r, j)]
  BY <1>5, <1>10, <1>11
<1> QED
  BY <1>12, IndexedTxnsAre

\* Each root of a round is one with its inner transactions in place.
LEMMA RootAtIsRoot ==
    ASSUME IsGiven, NEW r \in 1..window[3], NEW j \in 1..Count(r)
    PROVE  IsRoot(RootAt(r, j))
<1> DEFINE payset == chain[r].payset
           header == chain[r].header
           n == Len(payset)
           root == RootAt(r, j)
<1>1. /\ r \in Nat /\ n \in Nat /\ DOMAIN payset = 1..n /\ header \in BlockHeaders(r)
      /\ (HasPayout(header) => header.feeSink # None) /\ payset \in Seq(Trees)
      /\ \A k \in 1..n : payset[k] \in Trees
  BY BlockOfRound
<1>2. Size(SubSeq(payset, 1, j - 1)) \in Nat
  <2>1. j - 1 \in 0..n
    <3>1. n \in Nat /\ j \in 1..Count(r) /\ Count(r) = n + (IF HasPayout(header) THEN 1 ELSE 0)
      BY <1>1 DEF Count
    <3> HIDE DEF n
    <3> QED
      BY <3>1
  <2>2. SubSeq(payset, 1, j - 1) \in Seq(Trees)
    <3> HIDE DEF payset
    <3> QED
      BY <1>1, <2>1
  <2> QED
    BY <2>2, SizeTyped
<1>3. /\ root = [id |-> root.id, round |-> root.round, offset |-> root.offset,
               facts |-> root.facts, inner |-> root.inner]
      /\ root.round = r /\ root.offset \in Nat
  BY <1>2 DEF RootAt
<1>4. CASE j <= n
  <2>1. payset[j] \in Trees /\ root.facts = payset[j].facts /\ root.inner = Inner(payset[j])
    BY <1>1, <1>4 DEF RootAt
  <2>2. IsTransaction(payset[j].facts)
    BY <2>1, TreesAssumption
  <2>3. PICK t \in Trees : t = payset[j]
    BY <2>1
  <2>4. /\ Len(Inner(t)) \in Nat /\ DOMAIN Inner(t) = 1..Len(Inner(t))
        /\ \A k \in DOMAIN Inner(t) : 
             /\ IsTransaction(Inner(t)[k].facts)
             /\ Inner(t)[k].size \in Nat /\ k + Inner(t)[k].size <= Len(Inner(t))
    BY InnerIs
  <2>5. /\ Len(root.inner) \in Nat /\ DOMAIN root.inner = 1..Len(root.inner)
        /\ \A k \in DOMAIN root.inner :
             /\ IsTransaction(root.inner[k].facts)
             /\ root.inner[k].size \in Nat /\ k + root.inner[k].size <= Len(root.inner)
    BY <2>1, <2>3, <2>4
  <2>6. IsTransaction(root.facts) /\ root.round \in Nat /\ root.offset \in Nat
    BY <1>1, <1>3, <2>1, <2>2
  <2> HIDE DEF root
  <2>7. IsRoot(root)
    BY <1>3, <2>5, <2>6 DEF IsRoot
  <2> QED
    BY <2>7 DEF root
<1>5. CASE ~(j <= n)
  <2>1. HasPayout(header)
    <3>1. n \in Nat /\ j \in 1..Count(r) /\ Count(r) = n + (IF HasPayout(header) THEN 1 ELSE 0)
      BY <1>1 DEF Count
    <3> HIDE DEF n
    <3> QED
      BY <1>5, <3>1
  <2>2. IsTransaction(PayoutFacts(header))
    BY <1>1, <2>1, PayoutsAgree
  <2>3. root.facts = PayoutFacts(header) /\ root.inner = <<>>
    BY <1>5 DEF RootAt
  <2>4. Len(<<>>) = 0 /\ DOMAIN <<>> = 1..0
    OBVIOUS
  <2>5. /\ Len(root.inner) \in Nat /\ DOMAIN root.inner = 1..Len(root.inner)
        /\ DOMAIN root.inner = {}
    BY <2>3
  <2>6. IsTransaction(root.facts) /\ root.round \in Nat /\ root.offset \in Nat
    BY <1>1, <1>3, <2>2, <2>3
  <2> HIDE DEF root
  <2>7. IsRoot(root)
    BY <1>3, <2>5, <2>6 DEF IsRoot
  <2> QED
    BY <2>7 DEF root
<1> QED
  BY <1>4, <1>5

-------------------------------------------------------------------------------
(* The roots of rounds and the transactions made of them. *)

-------------------------------------------------------------------------------
(* SortedTxns. *)

Before(txns, i, j) ==
    \/ txns[i].round < txns[j].round
    \/ txns[i].round = txns[j].round /\ txns[i].offset < txns[j].offset
    \/ txns[i].round = txns[j].round /\ txns[i].offset = txns[j].offset /\ i < j

\* Where the transactions of a sorted list stood before.
Sorts(from, txns) ==
    /\ from \in [1..Len(txns) -> 1..Len(txns)]
    /\ SortedTxns(txns) = [k \in 1..Len(txns) |-> txns[from[k]]]
    /\ \A i \in 1..Len(txns) : \E k \in 1..Len(txns) : from[k] = i
    /\ \A k, l \in 1..Len(txns) : k < l => Before(txns, from[k], from[l])

\* Sorting permutes, puts earlier rounds and offsets first and keeps the order
\* of equals.
LEMMA SortedTxnsAre ==
    ASSUME NEW txns, txns \in Seq(Range(txns)), Keyed(txns)
    PROVE  \E from : Sorts(from, txns)
<1> DEFINE n == Len(txns)
           R == {p \in (1..n) \X (1..n) : Before(txns, p[1], p[2])}
           place(i) == 1 + Cardinality({j \in DOMAIN txns : Before(txns, j, i)})
           from == [k \in 1..n |-> CHOOSE i \in 1..n : Rank(R, n, i) = k]
<1>1. n \in Nat /\ DOMAIN txns = 1..n
  OBVIOUS
<1>2. \A i \in 1..n : txns[i].round \in Int /\ txns[i].offset \in Int /\ i \in Int
  BY <1>1 DEF Keyed
<1>3. \A i, j \in 1..n : <<i, j>> \in R <=> Before(txns, i, j)
  OBVIOUS
<1> HIDE DEF n, R
<1>4. IsOrder(R, n)
  <2>1. \A i \in 1..n : <<i, i>> \notin R
    BY <1>2, <1>3 DEF Before
  <2>2. \A i, j \in 1..n : i # j => <<i, j>> \in R \/ <<j, i>> \in R
    BY <1>2, <1>3 DEF Before
  <2>3. \A i, j, k \in 1..n : <<i, j>> \in R /\ <<j, k>> \in R => <<i, k>> \in R
    BY <1>2, <1>3, SMTT(20) DEF Before
  <2> QED
    BY <2>1, <2>2, <2>3 DEF IsOrder
<1>5. /\ \A i \in 1..n : Rank(R, n, i) \in 1..n
      /\ \A i, j \in 1..n : <<i, j>> \in R => Rank(R, n, i) < Rank(R, n, j)
      /\ \A i, j \in 1..n : Rank(R, n, i) = Rank(R, n, j) => i = j
      /\ \A k \in 1..n : \E i \in 1..n : Rank(R, n, i) = k
  BY <1>1, <1>4, RankIsPlace
<1>6. \A i \in 1..n : place(i) = Rank(R, n, i)
  <2> SUFFICES ASSUME NEW i \in 1..n PROVE place(i) = Rank(R, n, i)
    OBVIOUS
  <2>1. {j \in DOMAIN txns : Before(txns, j, i)} = Preceding(R, n, i)
    BY <1>1, <1>3 DEF Preceding
  <2> QED
    BY <2>1 DEF Rank
<1>7. SortedTxns(txns) = [k \in 1..n |-> txns[CHOOSE i \in 1..n : place(i) = k]]
  BY <1>1 DEF SortedTxns, Before
<1> HIDE DEF place
<1>8. \A k \in 1..n : from[k] \in 1..n /\ Rank(R, n, from[k]) = k
  BY <1>5
<1>9. from \in [1..n -> 1..n]
  BY <1>8
<1>10. SortedTxns(txns) = [k \in 1..n |-> txns[from[k]]]
  <2> SUFFICES ASSUME NEW k \in 1..n
               PROVE  (CHOOSE i \in 1..n : place(i) = k) = from[k]
    BY <1>7
  <2>1. \A i \in 1..n : place(i) = k <=> Rank(R, n, i) = k
    BY <1>6
  <2> QED
    BY <2>1
<1> HIDE DEF from
<1>11. \A i \in 1..n : \E k \in 1..n : from[k] = i
  <2> SUFFICES ASSUME NEW i \in 1..n PROVE \E k \in 1..n : from[k] = i
    OBVIOUS
  <2>1. Rank(R, n, i) \in 1..n
    BY <1>5
  <2> QED
    BY <1>5, <1>8, <2>1
<1>12. ASSUME NEW k \in 1..n, NEW l \in 1..n, k < l
       PROVE  Before(txns, from[k], from[l])
  <2>1. from[k] \in 1..n /\ from[l] \in 1..n /\ Rank(R, n, from[k]) = k /\ Rank(R, n, from[l]) = l
    BY <1>8
  <2>2. k \in Int /\ l \in Int
    BY <1>1
  <2>3. ~(<<from[l], from[k]>> \in R)
    <3> SUFFICES ASSUME <<from[l], from[k]>> \in R PROVE FALSE
      OBVIOUS
    <3>1. Rank(R, n, from[l]) < Rank(R, n, from[k])
      BY <1>5, <2>1, Zenon
    <3> QED
      BY <1>12, <2>1, <2>2, <3>1
  <2>4. from[k] # from[l]
    BY <1>12, <2>1, <2>2
  <2>5. <<from[k], from[l]>> \in R
    BY <1>4, <2>1, <2>3, <2>4 DEF IsOrder
  <2> QED
    BY <1>3, <2>1, <2>5
<1> QED
  BY <1>9, <1>10, <1>11, <1>12 DEF Sorts, n

-------------------------------------------------------------------------------
(* The roots of rounds in the order of the chain. *)

\* The last inner transaction of a root comes before the next root.
Precedes(x, y) ==
    x.round < y.round \/ (x.round = y.round /\ x.offset + Len(x.inner) < y.offset)

InOrder(roots) == \A j, k \in DOMAIN roots : j < k => Precedes(roots[j], roots[k])

AreRoots(roots) == roots \in Seq(Range(roots)) /\ \A j \in DOMAIN roots : IsRoot(roots[j])

\* A later root of a round is numbered after all nodes of an earlier one.
LEMMA NextRootFollows ==
    ASSUME IsGiven, NEW r \in 1..window[3], NEW j \in 1..Count(r), NEW k \in 1..Count(r), j < k
    PROVE  Precedes(RootAt(r, j), RootAt(r, k))
<1> DEFINE payset == chain[r].payset
           n == Len(payset)
           before(m) == Size(SubSeq(payset, 1, m - 1))
           P == {m \in Nat : j + m <= n =>
                    /\ before(j + 1) <= before(j + 1 + m) /\ before(j + 1 + m) \in Nat}
<1>1. n \in Nat /\ payset \in Seq(Trees) /\ Count(r) \in n..(n + 1) /\ j \in Nat /\ k \in Nat
  <2>1. n \in Nat /\ payset \in Seq(Trees)
    BY BlockOfRound
  <2>2. Count(r) = n + (IF HasPayout(chain[r].header) THEN 1 ELSE 0)
    BY DEF Count
  <2> HIDE DEF n
  <2>3. Count(r) \in n..(n + 1)
    BY <2>1, <2>2
  <2> QED
    BY <2>1, <2>3
<1>2. \A m \in 1..n : /\ before(m) \in Nat /\ Len(Below[payset[m]]) \in Nat
                      /\ payset[m] \in Trees
                      /\ before(m + 1) = before(m) + 1 + Len(Below[payset[m]])
  <2> SUFFICES ASSUME NEW m \in 1..n
               PROVE  /\ before(m) \in Nat /\ Len(Below[payset[m]]) \in Nat
                      /\ payset[m] \in Trees
                      /\ before(m + 1) = before(m) + 1 + Len(Below[payset[m]])
    OBVIOUS
  <2>1. (m + 1) - 1 = m /\ payset[m] \in Trees
    <3>1. payset[m] \in Trees
      BY <1>1, SeqIs
    <3> QED
      BY <1>1, <3>1
  <2>2. Len(Below[payset[m]]) \in Nat
    BY <2>1, BelowTyped
  <2>3. PICK p \in Seq(Trees) : p = payset
    BY <1>1
  <2>4. /\ Size(SubSeq(p, 1, m - 1)) \in Nat
        /\ Size(SubSeq(p, 1, m)) = Size(SubSeq(p, 1, m - 1)) + 1 + Len(Below[p[m]])
    BY <2>3, SizeUpTo
  <2> QED
    BY <2>1, <2>2, <2>3, <2>4
<1> HIDE DEF before, n, payset
<1>3. j \in 1..n /\ k - (j + 1) \in Nat /\ j + (k - (j + 1)) <= n /\ j + 1 + (k - (j + 1)) = k
  BY <1>1
<1>4. 0 \in P
  <2>1. before(j) \in Nat /\ before(j + 1) = before(j) + 1 + Len(Below[payset[j]])
        /\ Len(Below[payset[j]]) \in Nat
    <3>1. j \in 1..n
      BY <1>3
    <3> QED
      BY <1>2, <3>1, Zenon
  <2>2. before(j + 1) \in Nat
    BY <2>1
  <2>3. j + 1 + 0 = j + 1
    BY <1>1
  <2> QED
    BY <2>2, <2>3
<1>5. ASSUME NEW m \in Nat, m \in P PROVE m + 1 \in P
  <2> SUFFICES ASSUME j + (m + 1) <= n
               PROVE  before(j + 1) <= before(j + 1 + (m + 1)) /\ before(j + 1 + (m + 1)) \in Nat
    BY <1>5
  <2>1. j + 1 + m \in 1..n /\ j + m <= n /\ j + 1 + (m + 1) = (j + 1 + m) + 1
    BY <1>1
  <2>2. before(j + 1) <= before(j + 1 + m) /\ before(j + 1 + m) \in Nat
    BY <1>5, <2>1
  <2>3. before((j + 1 + m) + 1) = before(j + 1 + m) + 1 + Len(Below[payset[j + 1 + m]])
        /\ Len(Below[payset[j + 1 + m]]) \in Nat
    BY <1>2, <2>1
  <2>4. before(j + 1) \in Nat
    <3>1. j \in 1..n
      BY <1>3
    <3>2. before(j) \in Nat /\ before(j + 1) = before(j) + 1 + Len(Below[payset[j]])
          /\ Len(Below[payset[j]]) \in Nat
      BY <1>2, <3>1, Zenon
    <3> QED
      BY <3>2
  <2> QED
    BY <2>1, <2>2, <2>3, <2>4, SMTT(20)
<1> HIDE DEF P
<1>6. k - (j + 1) \in P
  BY <1>3, <1>4, <1>5, NatInductionSet
<1>7. before(j + 1) <= before(k) /\ before(k) \in Nat
  BY <1>3, <1>6 DEF P
<1>8. before(j) \in Nat /\ before(j + 1) = before(j) + 1 + Len(Below[payset[j]])
      /\ Len(Below[payset[j]]) \in Nat /\ payset[j] \in Trees
  BY <1>2, <1>3
<1>9. before(j) + Len(Below[payset[j]]) < before(k)
  BY <1>7, <1>8
<1>10. j <= n /\ Len(Inner(payset[j])) = Len(Below[payset[j]])
  <2>1. PICK t \in Trees : t = payset[j]
    BY <1>8
  <2>2. Len(Inner(t)) = Len(Below[t])
    BY InnerIs
  <2> QED
    BY <1>1, <1>3, <2>1, <2>2
<1>11. /\ RootAt(r, j).round = r /\ RootAt(r, k).round = r
       /\ RootAt(r, j).offset = before(j) /\ RootAt(r, k).offset = before(k)
       /\ RootAt(r, j).inner = Inner(payset[j])
  BY <1>10 DEF RootAt, before, payset, n
<1> QED
  BY <1>9, <1>10, <1>11 DEF Precedes

\* The roots of an interval of rounds, in the order of the chain.
LEMMA RootsOfRounds ==
    ASSUME IsGiven, NEW a \in Int, NEW b \in Int, NEW rounds, rounds = a..b,
           rounds \subseteq 1..window[3]
    PROVE  LET all == OfRounds(IndexedTxns, rounds)
           IN  /\ AreRoots(all) /\ InOrder(all)
               /\ \A x : x \in Range(all) <=> \E r \in rounds : \E j \in 1..Count(r) : x = RootAt(r, j)
<1> DEFINE n == Cardinality(rounds)
           lists == [i \in 1..n |-> IndexedTxns(Min(rounds) + i - 1)]
           all == Joined(lists)
<1>1. n = IF a > b THEN 0 ELSE b - a + 1
  BY FS_Interval
<1>2. n \in Nat
  BY <1>1
<1>3. \A i \in 1..n : Min(rounds) + i - 1 = a + i - 1 /\ a + i - 1 \in rounds
  <2> SUFFICES ASSUME NEW i \in 1..n
               PROVE  Min(rounds) + i - 1 = a + i - 1 /\ a + i - 1 \in rounds
    OBVIOUS
  <2>1. a <= b
    BY <1>1
  <2>2. Min(rounds) = a
    BY <2>1, MinOfInterval
  <2> HIDE DEF n
  <2> QED
    BY <1>1, <2>1, <2>2
<1>4. \A r \in rounds : r \in 1..window[3] /\ r \in Nat
  <2>1. window[3] \in Nat
    BY WindowsAssumption DEF IsGiven
  <2> QED
    BY <2>1
<1>5. \A r \in rounds : /\ Count(r) \in Nat
                        /\ IndexedTxns(r) = [j \in 1..Count(r) |-> RootAt(r, j)]
                        /\ \A j \in 1..Count(r) : IsRoot(RootAt(r, j)) /\ RootAt(r, j).round = r
                        /\ \A j, k \in 1..Count(r) : j < k => Precedes(RootAt(r, j), RootAt(r, k))
  BY <1>4, RootsAre, IndexedTxnsAre, RootAtIsRoot, NextRootFollows DEF RootAt
<1>6. \A i \in 1..n : lists[i] = IndexedTxns(a + i - 1)
  BY <1>3
<1>7. lists = [i \in 1..n |-> lists[i]] /\ DOMAIN lists = 1..n
  OBVIOUS
<1>8. OfRounds(IndexedTxns, rounds) = all
  BY DEF OfRounds
<1> HIDE DEF lists, n
<1>9. \A i \in 1..n : /\ DOMAIN lists[i] = 1..Count(a + i - 1)
                      /\ \A j \in 1..Count(a + i - 1) : lists[i][j] = RootAt(a + i - 1, j)
                      /\ lists[i] \in Seq(Range(lists[i]))
  <2> SUFFICES ASSUME NEW i \in 1..n
               PROVE  /\ DOMAIN lists[i] = 1..Count(a + i - 1)
                      /\ \A j \in 1..Count(a + i - 1) : lists[i][j] = RootAt(a + i - 1, j)
                      /\ lists[i] \in Seq(Range(lists[i]))
    OBVIOUS
  <2>1. PICK r \in rounds : r = a + i - 1
    BY <1>3
  <2>2. lists[i] = [j \in 1..Count(r) |-> RootAt(r, j)] /\ Count(r) \in Nat
    BY <1>5, <1>6, <2>1
  <2>3. lists[i] \in [1..Count(r) -> Range(lists[i])] /\ DOMAIN lists[i] = 1..Count(r)
    BY <2>2 DEF Range
  <2>4. lists[i] \in Seq(Range(lists[i]))
    BY <2>2, <2>3, FunctionIsSeq
  <2> QED
    BY <2>1, <2>2, <2>3, <2>4
<1>10. PICK S : lists \in Seq(Seq(S))
  BY <1>2, <1>7, <1>9, SeqOfLists
<1>11. all \in Seq(S) /\ all \in Seq(Range(all)) /\ DOMAIN all = 1..Len(all)
  <2>1. all \in Seq(S)
    BY <1>10, JoinedPlaces
  <2> HIDE DEF all
  <2> QED
    BY <2>1, SeqOfItsRange
<1>12. \A x : x \in Range(all) <=> \E r \in rounds : \E j \in 1..Count(r) : x = RootAt(r, j)
  <2> TAKE x
  <2>1. x \in Range(all) <=> \E i \in 1..n : x \in Range(lists[i])
    BY <1>7, <1>10, JoinedRange
  <2>2. ASSUME NEW i \in 1..n, x \in Range(lists[i])
        PROVE  \E r \in rounds : \E j \in 1..Count(r) : x = RootAt(r, j)
    <3>1. PICK j \in DOMAIN lists[i] : x = lists[i][j]
      BY <2>2 DEF Range
    <3>2. x = RootAt(a + i - 1, j) /\ j \in 1..Count(a + i - 1) /\ a + i - 1 \in rounds
      BY <1>3, <1>9, <3>1
    <3> QED
      BY <3>2
  <2>3. ASSUME NEW r \in rounds, NEW j \in 1..Count(r), x = RootAt(r, j)
        PROVE  \E i \in 1..n : x \in Range(lists[i])
    <3> DEFINE i == r - a + 1
    <3>1. i \in 1..n /\ a + i - 1 = r
      BY <1>1, <2>3
    <3> HIDE DEF i
    <3>2. x = lists[i][j] /\ j \in DOMAIN lists[i]
      BY <1>9, <2>3, <3>1
    <3> QED
      BY <3>1, <3>2 DEF Range
  <2> QED
    BY <2>1, <2>2, <2>3
<1>13. AreRoots(all)
  <2>1. \A j \in DOMAIN all : all[j] \in Range(all)
    BY DEF Range
  <2>2. \A x \in Range(all) : IsRoot(x)
    BY <1>5, <1>12
  <2> QED
    BY <1>11, <2>1, <2>2 DEF AreRoots
<1>14. InOrder(all)
  <2> SUFFICES ASSUME NEW k \in DOMAIN all, NEW l \in DOMAIN all, k < l
               PROVE  Precedes(all[k], all[l])
    BY DEF InOrder
  <2>1. PICK p \in Places(lists), q \in Places(lists) :
            /\ all[k] = lists[p[1]][p[2]] /\ all[l] = lists[q[1]][q[2]]
            /\ Prior(p, q)
    BY <1>10, JoinedOrder
  <2>2. /\ p[1] \in 1..n /\ p[2] \in DOMAIN lists[p[1]]
        /\ q[1] \in 1..n /\ q[2] \in DOMAIN lists[q[1]]
    BY <1>7 DEF Places
  <2>3. PICK r \in rounds : r = a + p[1] - 1
    BY <1>3, <2>2
  <2>4. PICK s \in rounds : s = a + q[1] - 1
    BY <1>3, <2>2
  <2>5. /\ all[k] = RootAt(r, p[2]) /\ p[2] \in 1..Count(r)
        /\ all[l] = RootAt(s, q[2]) /\ q[2] \in 1..Count(s)
    BY <1>9, <2>1, <2>2, <2>3, <2>4
  <2>6. CASE p[1] < q[1]
    <3>1. r < s
      BY <2>2, <2>3, <2>4, <2>6
    <3> QED
      BY <1>5, <2>5, <3>1 DEF Precedes
  <2>7. CASE p[1] = q[1] /\ p[2] < q[2]
    <3>1. r = s
      BY <2>3, <2>4, <2>7
    <3> QED
      BY <1>5, <2>5, <2>7, <3>1
  <2> QED
    BY <2>1, <2>6, <2>7 DEF Prior
<1> QED
  BY <1>8, <1>12, <1>13, <1>14

-------------------------------------------------------------------------------
(* The subscribed transactions of roots. *)

\* The subscriber makes one transaction of each node of the roots, in the order
\* of the chain.
LEMMA SubscribedOf ==
    ASSUME NEW roots, AreRoots(roots), InOrder(roots)
    PROVE  LET s == SubscribedTxns(roots)
           IN  /\ s \in Seq(Range(s)) /\ Keyed(s) /\ Sorted(s)
               /\ \A x : x \in Range(s) <=>
                     \E j \in DOMAIN roots : \E i \in 0..Len(roots[j].inner) : x = Whole(roots[j], i)
<1> DEFINE n == Len(roots)
           lists == [j \in DOMAIN roots |-> WithInner(roots[j])]
           s == Joined(lists)
<1>1. n \in Nat /\ DOMAIN roots = 1..n /\ \A j \in 1..n : IsRoot(roots[j])
  <2>1. PICK S : roots \in Seq(S)
    BY DEF AreRoots
  <2>2. Len(roots) \in Nat /\ DOMAIN roots = 1..Len(roots)
    BY <2>1
  <2> QED
    BY <2>2 DEF AreRoots
<1>2. SubscribedTxns(roots) = s
  BY DEF SubscribedTxns
<1>3. lists = [j \in 1..n |-> lists[j]] /\ DOMAIN lists = 1..n
      /\ \A j \in 1..n : lists[j] = WithInner(roots[j])
  BY <1>1
<1> HIDE DEF lists, n
<1>4. \A j \in 1..n : /\ DOMAIN lists[j] = 1..(1 + Len(roots[j].inner))
                      /\ lists[j] \in Seq(Range(lists[j]))
                      /\ \A i \in 0..Len(roots[j].inner) : lists[j][1 + i] = Whole(roots[j], i)
                      /\ Len(roots[j].inner) \in Nat /\ roots[j].round \in Nat
                      /\ roots[j].offset \in Nat
  <2> SUFFICES ASSUME NEW j \in 1..n
               PROVE  /\ DOMAIN lists[j] = 1..(1 + Len(roots[j].inner))
                      /\ lists[j] \in Seq(Range(lists[j]))
                      /\ \A i \in 0..Len(roots[j].inner) : lists[j][1 + i] = Whole(roots[j], i)
                      /\ Len(roots[j].inner) \in Nat /\ roots[j].round \in Nat
                      /\ roots[j].offset \in Nat
    OBVIOUS
  <2>1. PICK root : root = roots[j]
    OBVIOUS
  <2>2. IsRoot(root) /\ lists[j] = WithInner(root)
    BY <1>1, <1>3, <2>1
  <2>3. Len(root.inner) \in Nat /\ root.round \in Nat /\ root.offset \in Nat
    BY <2>2 DEF IsRoot
  <2> QED
    BY <2>1, <2>2, <2>3, WithInnerIs
<1>5. PICK S : lists \in Seq(Seq(S))
  BY <1>1, <1>3, <1>4, SeqOfLists
<1>6. s \in Seq(Range(s)) /\ DOMAIN s = 1..Len(s)
  <2>1. s \in Seq(S)
    BY <1>5, JoinedPlaces
  <2> HIDE DEF s
  <2> QED
    BY <2>1, SeqOfItsRange
<1>7. ASSUME NEW j \in 1..n, NEW k \in DOMAIN lists[j]
      PROVE  /\ k - 1 \in 0..Len(roots[j].inner) /\ lists[j][k] = Whole(roots[j], k - 1)
             /\ lists[j][k].round = roots[j].round /\ lists[j][k].offset = roots[j].offset + (k - 1)
             /\ lists[j][k].round \in Nat /\ lists[j][k].offset \in Nat
  <2>1. k \in 1..(1 + Len(roots[j].inner)) /\ Len(roots[j].inner) \in Nat
    BY <1>4, <1>7
  <2>2. k - 1 \in 0..Len(roots[j].inner) /\ 1 + (k - 1) = k
    BY <2>1
  <2>3. lists[j][1 + (k - 1)] = Whole(roots[j], k - 1)
    BY <1>4, <2>2
  <2>4. lists[j][k] = Whole(roots[j], k - 1)
    BY <2>2, <2>3
  <2>5. Whole(roots[j], k - 1).round = roots[j].round
        /\ Whole(roots[j], k - 1).offset = roots[j].offset + (k - 1)
    BY DEF Whole
  <2> QED
    BY <1>4, <2>2, <2>4, <2>5
<1>8. \A x : x \in Range(s) <=>
          \E j \in 1..n : \E i \in 0..Len(roots[j].inner) : x = Whole(roots[j], i)
  <2> TAKE x
  <2>1. x \in Range(s) <=> \E j \in 1..n : x \in Range(lists[j])
    BY <1>3, <1>5, JoinedRange
  <2>2. ASSUME NEW j \in 1..n
        PROVE  x \in Range(lists[j]) <=> \E i \in 0..Len(roots[j].inner) : x = Whole(roots[j], i)
    <3>1. ASSUME x \in Range(lists[j])
          PROVE  \E i \in 0..Len(roots[j].inner) : x = Whole(roots[j], i)
      <4>1. PICK k \in DOMAIN lists[j] : x = lists[j][k]
        BY <3>1 DEF Range
      <4> QED
        BY <1>7, <4>1
    <3>2. ASSUME NEW i \in 0..Len(roots[j].inner), x = Whole(roots[j], i)
          PROVE  x \in Range(lists[j])
      <4>1. 1 + i \in DOMAIN lists[j] /\ lists[j][1 + i] = x
        BY <1>4, <3>2
      <4> QED
        BY <4>1 DEF Range
    <3> QED
      BY <3>1, <3>2
  <2> QED
    BY <2>1, <2>2
<1>9. \A x \in Range(s) : x.round \in Nat /\ x.offset \in Nat
  <2> SUFFICES ASSUME NEW x \in Range(s) PROVE x.round \in Nat /\ x.offset \in Nat
    OBVIOUS
  <2>4. PICK j \in 1..n : \E i \in 0..Len(roots[j].inner) : x = Whole(roots[j], i)
    BY <1>8
  <2>1. PICK i \in 0..Len(roots[j].inner) : x = Whole(roots[j], i)
    BY <2>4
  <2>2. x.round = roots[j].round /\ x.offset = roots[j].offset + i
    BY <2>1 DEF Whole
  <2>3. i \in Nat
    BY <1>4
  <2> QED
    BY <1>4, <2>2, <2>3
<1>10. Keyed(s)
  BY <1>9 DEF Keyed, Range
<1>11. Sorted(s)
  <2> SUFFICES ASSUME NEW k \in DOMAIN s, NEW l \in DOMAIN s, k < l
               PROVE  Earlier(s[k], s[l])
    BY DEF Sorted
  <2>1. PICK p \in Places(lists), q \in Places(lists) :
            /\ s[k] = lists[p[1]][p[2]] /\ s[l] = lists[q[1]][q[2]]
            /\ Prior(p, q)
    BY <1>5, JoinedOrder
  <2>2. /\ p[1] \in 1..n /\ p[2] \in DOMAIN lists[p[1]]
        /\ q[1] \in 1..n /\ q[2] \in DOMAIN lists[q[1]]
    BY <1>3 DEF Places
  <2> DEFINE x == roots[p[1]]
             y == roots[q[1]]
             u == p[2]
             v == q[2]
  <2>3. /\ u - 1 \in 0..Len(x.inner) /\ s[k].round = x.round /\ s[k].offset = x.offset + (u - 1)
        /\ v - 1 \in 0..Len(y.inner) /\ s[l].round = y.round /\ s[l].offset = y.offset + (v - 1)
    BY <1>7, <2>1, <2>2
  <2>4. /\ Len(x.inner) \in Nat /\ x.round \in Nat /\ x.offset \in Nat
        /\ Len(y.inner) \in Nat /\ y.round \in Nat /\ y.offset \in Nat
    BY <1>4, <2>2
  <2>5. CASE p[1] < q[1]
    <3>1. Precedes(x, y)
      BY <1>1, <2>2, <2>5 DEF InOrder
    <3> HIDE DEF x, y, u, v
    <3>2. u - 1 <= Len(x.inner) /\ 0 <= v - 1 /\ u - 1 \in Int /\ v - 1 \in Int
      BY <2>3, <2>4
    <3> QED
      BY <2>3, <2>4, <3>1, <3>2 DEF Earlier, Precedes
  <2>6. CASE p[1] = q[1] /\ p[2] < q[2]
    <3>1. x = y /\ u < v
      BY <2>6
    <3>2. u \in Int /\ v \in Int
      BY <1>4, <2>2
    <3> HIDE DEF x, y, u, v
    <3> QED
      BY <2>3, <2>4, <3>1, <3>2 DEF Earlier
  <2> QED
    BY <2>1, <2>5, <2>6 DEF Prior
<1> QED
  BY <1>1, <1>2, <1>6, <1>8, <1>10, <1>11

\* A subscribed transaction with the names of the filters fs.
AcceptedLeaf(fs, root, i) ==
    [id |-> <<root.id, i>>, round |-> root.round, offset |-> root.offset + i,
     facts |-> NodeFacts(root, i), matched |-> NamesMatched(fs, NodeFacts(root, i)),
     inner |-> <<>>]

Accepted(fs, root, i) ==
    [id |-> <<root.id, i>>, round |-> root.round, offset |-> root.offset + i,
     facts |-> NodeFacts(root, i), matched |-> NamesMatched(fs, NodeFacts(root, i)),
     inner |-> [k \in 1..NodeSize(root, i) |-> AcceptedLeaf(fs, root, i + k)]]

\* A list of one member.
LEMMA OneOf ==
    ASSUME NEW e
    PROVE  [i \in 1..1 |-> e] = <<e>>
OBVIOUS

\* A node with the names of the filters that accept it and those below it.
LEMMA WithNamesIs ==
    ASSUME NEW root, NEW i, NEW fs
    PROVE  WithNames(Whole(root, i), fs) = Accepted(fs, root, i)
<1> DEFINE x == Whole(root, i)
           n == NodeSize(root, i)
<1>1. /\ x = [id |-> <<root.id, i>>, round |-> root.round, offset |-> root.offset + i,
              facts |-> NodeFacts(root, i), matched |-> <<>>, inner |-> x.inner]
      /\ DOMAIN x.inner = 1..n /\ \A k \in 1..n : x.inner[k] = Leaf(root, i + k)
  BY DEF Whole
<1> DEFINE names == NamesMatched(fs, x.facts)
           inner == [k \in DOMAIN x.inner |->
                        [x.inner[k] EXCEPT !.matched = NamesMatched(fs, x.inner[k].facts)]]
<1>2. WithNames(x, fs) = [x EXCEPT !.matched = names, !.inner = inner]
  BY DEF WithNames
<1>3. \A k \in 1..n : [x.inner[k] EXCEPT !.matched = NamesMatched(fs, x.inner[k].facts)]
                          = AcceptedLeaf(fs, root, i + k)
  <2> SUFFICES ASSUME NEW k \in 1..n
               PROVE  [x.inner[k] EXCEPT !.matched = NamesMatched(fs, x.inner[k].facts)]
                          = AcceptedLeaf(fs, root, i + k)
    OBVIOUS
  <2> DEFINE m == i + k
             found == NamesMatched(fs, x.inner[k].facts)
  <2>1. x.inner[k] = Leaf(root, m)
    BY <1>1
  <2>2. found = NamesMatched(fs, NodeFacts(root, m))
    BY <2>1 DEF Leaf
  <2> HIDE DEF x, m, found
  <2>3. [Leaf(root, m) EXCEPT !.matched = found] =
            [id |-> <<root.id, m>>, round |-> root.round, offset |-> root.offset + m,
             facts |-> NodeFacts(root, m), matched |-> found, inner |-> <<>>]
    BY DEF Leaf
  <2> QED
    BY <2>1, <2>2, <2>3 DEF AcceptedLeaf, m, found
<1>4. inner = [k \in 1..n |-> AcceptedLeaf(fs, root, i + k)]
  BY <1>1, <1>3
<1>5. names = NamesMatched(fs, NodeFacts(root, i))
  BY <1>1
<1> HIDE DEF x, inner, names
<1>6. [x EXCEPT !.matched = names, !.inner = inner] =
          [id |-> <<root.id, i>>, round |-> root.round, offset |-> root.offset + i,
           facts |-> NodeFacts(root, i), matched |-> names, inner |-> inner]
  <2>1. PICK y : x = [id |-> <<root.id, i>>, round |-> root.round, offset |-> root.offset + i,
                      facts |-> NodeFacts(root, i), matched |-> <<>>, inner |-> y]
    BY <1>1
  <2>2. PICK a : a = <<root.id, i>>
    OBVIOUS
  <2>3. PICK c : c = root.offset + i
    OBVIOUS
  <2>4. PICK d : d = NodeFacts(root, i)
    OBVIOUS
  <2>5. PICK b : b = root.round
    OBVIOUS
  <2>6. PICK m : m = <<>>
    OBVIOUS
  <2>7. x = [id |-> a, round |-> b, offset |-> c, facts |-> d, matched |-> m, inner |-> y]
    BY <2>1, <2>2, <2>3, <2>4, <2>5, <2>6
  <2>8. PICK w : w = [x EXCEPT !.matched = names]
    OBVIOUS
  <2>9. w = [id |-> a, round |-> b, offset |-> c, facts |-> d, matched |-> names, inner |-> y]
    BY ONLY <2>7, <2>8
  <2>10. [w EXCEPT !.inner = inner] =
            [id |-> a, round |-> b, offset |-> c, facts |-> d, matched |-> names,
             inner |-> inner]
    BY ONLY <2>9
  <2>11. [x EXCEPT !.matched = names, !.inner = inner] =
            [[x EXCEPT !.matched = names] EXCEPT !.inner = inner]
    OBVIOUS
  <2> QED
    BY <2>2, <2>3, <2>4, <2>5, <2>8, <2>10, <2>11
<1> QED
  BY <1>2, <1>4, <1>5, <1>6 DEF Accepted, x

\* The filters keep the nodes that one of them accepts, with their names, in
\* the order of the chain.
LEMMA FilteredOf ==
    ASSUME NEW roots, AreRoots(roots), InOrder(roots), NEW fs
    PROVE  LET s == Filtered(SubscribedTxns(roots), fs)
           IN  /\ s \in Seq(Range(s)) /\ Keyed(s) /\ Sorted(s)
               /\ \A x : x \in Range(s) <=>
                     \E j \in DOMAIN roots : \E i \in 0..Len(roots[j].inner) :
                         /\ NamesMatched(fs, NodeFacts(roots[j], i)) # <<>>
                         /\ x = Accepted(fs, roots[j], i)
<1> DEFINE txns == SubscribedTxns(roots)
           n == Len(txns)
           seq == [i \in DOMAIN txns |-> WithNames(txns[i], fs)]
           places == {i \in DOMAIN txns : NamesMatched(fs, txns[i].facts) # <<>>}
           s == Selected(seq, places)
<1>1. /\ txns \in Seq(Range(txns)) /\ Keyed(txns) /\ Sorted(txns)
      /\ \A x : x \in Range(txns) <=>
            \E j \in DOMAIN roots : \E i \in 0..Len(roots[j].inner) : x = Whole(roots[j], i)
  BY SubscribedOf
<1> HIDE DEF txns
<1>2. n \in Nat /\ DOMAIN txns = 1..n
  BY <1>1
<1>3. seq = [i \in 1..n |-> seq[i]] /\ DOMAIN seq = 1..n
      /\ \A i \in 1..n : seq[i] = WithNames(txns[i], fs)
  BY <1>2
<1>4. places \in SUBSET (1..n)
      /\ \A i \in 1..n : i \in places <=> NamesMatched(fs, txns[i].facts) # <<>>
  BY <1>2
<1>5. Filtered(SubscribedTxns(roots), fs) = s
  BY DEF Filtered, txns
<1> HIDE DEF seq, places, n
<1>6. seq \in Seq(Range(seq))
  <2>1. seq \in [1..n -> Range(seq)]
    BY <1>3 DEF Range
  <2> QED
    BY <1>2, <2>1, FunctionIsSeq
<1>7. \A i \in 1..n : /\ seq[i].round = txns[i].round /\ seq[i].offset = txns[i].offset
                      /\ \E j \in DOMAIN roots : \E k \in 0..Len(roots[j].inner) :
                             txns[i] = Whole(roots[j], k) /\ seq[i] = Accepted(fs, roots[j], k)
  <2> SUFFICES ASSUME NEW i \in 1..n
               PROVE  /\ seq[i].round = txns[i].round /\ seq[i].offset = txns[i].offset
                      /\ \E j \in DOMAIN roots : \E k \in 0..Len(roots[j].inner) :
                             txns[i] = Whole(roots[j], k) /\ seq[i] = Accepted(fs, roots[j], k)
    OBVIOUS
  <2>1. txns[i] \in Range(txns)
    BY <1>2 DEF Range
  <2>2. PICK j \in DOMAIN roots : \E k \in 0..Len(roots[j].inner) : txns[i] = Whole(roots[j], k)
    BY <1>1, <2>1
  <2>3. PICK k \in 0..Len(roots[j].inner) : txns[i] = Whole(roots[j], k)
    BY <2>2
  <2>4. seq[i] = Accepted(fs, roots[j], k)
    BY <1>3, <2>3, WithNamesIs
  <2>5. /\ Accepted(fs, roots[j], k).round = Whole(roots[j], k).round
        /\ Accepted(fs, roots[j], k).offset = Whole(roots[j], k).offset
    BY DEF Accepted, Whole
  <2> QED
    BY <2>3, <2>4, <2>5
<1>8. s \in Seq(Range(s)) /\ DOMAIN s = 1..Len(s)
  <2>1. s \in Seq(Range(seq))
    BY <1>3, <1>4, <1>6, SelectedPlaces
  <2> HIDE DEF s
  <2> QED
    BY <2>1, SeqOfItsRange
<1>9. Sorted(s)
  <2>1. \A i, j \in places : i < j => Earlier(seq[i], seq[j])
    <3>1. \A i, j \in 1..n : i < j => Earlier(txns[i], txns[j])
      BY <1>1, <1>2 DEF Sorted
    <3> QED
      BY <1>4, <1>7, <3>1 DEF Earlier
  <2> QED
    BY <1>3, <1>4, <1>6, <2>1, SelectedSorted
<1>10. Range(s) = {seq[i] : i \in places}
  BY <1>3, <1>4, <1>6, SelectedRange
<1> HIDE DEF s
<1>11. Keyed(s)
  <2>1. \A x \in Range(s) : x.round \in Nat /\ x.offset \in Nat
    BY <1>1, <1>2, <1>4, <1>7, <1>10 DEF Keyed
  <2> QED
    BY <2>1 DEF Keyed, Range
<1>12. ASSUME NEW x, x \in Range(s)
       PROVE  \E j \in DOMAIN roots : \E i \in 0..Len(roots[j].inner) :
                  /\ NamesMatched(fs, NodeFacts(roots[j], i)) # <<>>
                  /\ x = Accepted(fs, roots[j], i)
  <2>1. PICK i \in places : x = seq[i]
    BY <1>10, <1>12
  <2>2. PICK j \in DOMAIN roots : \E k \in 0..Len(roots[j].inner) :
                             txns[i] = Whole(roots[j], k) /\ seq[i] = Accepted(fs, roots[j], k)
    BY <1>4, <1>7
  <2>3. PICK k \in 0..Len(roots[j].inner) :
                             txns[i] = Whole(roots[j], k) /\ seq[i] = Accepted(fs, roots[j], k)
    BY <2>2
  <2>4. NamesMatched(fs, NodeFacts(roots[j], k)) # <<>>
    <3>1. Whole(roots[j], k).facts = NodeFacts(roots[j], k)
      BY DEF Whole
    <3> QED
      BY <1>4, <2>3, <3>1
  <2> QED
    BY <2>1, <2>3, <2>4
<1>13. ASSUME NEW j \in DOMAIN roots, NEW i \in 0..Len(roots[j].inner),
              NamesMatched(fs, NodeFacts(roots[j], i)) # <<>>
       PROVE  Accepted(fs, roots[j], i) \in Range(s)
  <2>1. Whole(roots[j], i) \in Range(txns)
    BY <1>1
  <2>2. PICK k \in 1..n : txns[k] = Whole(roots[j], i)
    BY <1>2, <2>1 DEF Range
  <2>3. seq[k] = Accepted(fs, roots[j], i)
    BY <1>3, <2>2, WithNamesIs
  <2>4. Whole(roots[j], i).facts = NodeFacts(roots[j], i)
    BY DEF Whole
  <2>5. k \in places
    BY <1>4, <1>13, <2>2, <2>4
  <2> QED
    BY <1>10, <2>3, <2>5
<1> QED
  BY <1>5, <1>8, <1>9, <1>11, <1>12, <1>13

-------------------------------------------------------------------------------
(* What the search for a filter finds. *)

\* The nodes of rounds: round, number of the root, and number in it.
IsNode(rounds, r, j, i) ==
    r \in rounds /\ j \in 1..Count(r) /\ i \in 0..Len(RootAt(r, j).inner)

Facts(r, j, i) == NodeFacts(RootAt(r, j), i)

\* The names that a list of one filter gives.
LEMMA OneFilter ==
    ASSUME NEW f, NEW facts
    PROVE  NamesMatched(<<f>>, facts) =
               IF PostFilter(f.filter, groups, facts) THEN <<f.name>> ELSE <<>>
<1> DEFINE names == [i \in DOMAIN <<f>> |-> <<f>>[i].name]
           places == {i \in DOMAIN <<f>> : PostFilter(<<f>>[i].filter, groups, facts)}
           P == PostFilter(f.filter, groups, facts)
           one == [i \in DOMAIN names |-> IF i \in places THEN <<names[i]>> ELSE <<>>]
<1>1. NamesMatched(<<f>>, facts) = Joined(one)
  BY DEF NamesMatched, Selected
<1>2. one = << IF P THEN <<f.name>> ELSE <<>> >>
  <2>1. <<f>>[1] = f /\ DOMAIN <<f>> = 1..1
    OBVIOUS
  <2>2. DOMAIN names = 1..1 /\ \A i \in 1..1 : names[i] = f.name
    BY <2>1
  <2>3. \A i \in 1..1 : i \in places <=> P
    BY <2>1
  <2> HIDE DEF names, places, P
  <2>4. one = [i \in 1..1 |-> IF i \in places THEN <<names[i]>> ELSE <<>>]
    BY <2>2
  <2>5. one = [i \in 1..1 |-> IF P THEN <<f.name>> ELSE <<>>]
    BY <2>2, <2>3, <2>4
  <2> DEFINE e == IF P THEN <<f.name>> ELSE <<>>
  <2>6. one = [i \in 1..1 |-> e]
    BY <2>5
  <2> HIDE DEF e
  <2>7. one = <<e>>
    BY <2>6, OneOf
  <2> QED
    BY <2>7 DEF e
<1>3. \A e : Joined(<<<<e>>>>) = <<e>>
  <2> TAKE e
  <2>1. <<>> \in Seq(Seq({e})) /\ <<e>> \in Seq({e}) /\ <<<<e>>>> = Append(<<>>, <<e>>)
    OBVIOUS
  <2>2. Joined(<<<<e>>>>) = <<>> \o <<e>>
    BY <2>1, JoinedAppend, JoinedEmpty
  <2> QED
    BY <2>2
<1>4. Joined(<<<<>>>>) = <<>>
  <2>1. <<>> \in Seq(Seq({})) /\ <<>> \in Seq({}) /\ <<<<>>>> = Append(<<>>, <<>>)
    OBVIOUS
  <2>2. Joined(<<<<>>>>) = <<>> \o <<>>
    BY <2>1, JoinedAppend, JoinedEmpty
  <2> QED
    BY <2>2
<1> HIDE DEF P, one
<1>5. CASE P
  <2>1. one = <<<<f.name>>>>
    BY <1>2, <1>5
  <2> QED
    BY <1>1, <1>3, <1>5, <2>1 DEF P
<1>6. CASE ~P
  <2>1. one = <<<<>>>>
    BY <1>2, <1>6
  <2> QED
    BY <1>1, <1>4, <1>6, <2>1 DEF P
<1> QED
  BY <1>5, <1>6

FoundBy(f) == Filtered(SubscribedTxns(Answer(f)), <<f>>)

\* The answer of the indexer: the roots that match, or nest a match, in the
\* order of the chain.
LEMMA AnswerIs ==
    ASSUME IsGiven, CatchesUp(window[1], window[2], window[3]), NEW f
    PROVE  /\ AreRoots(Answer(f)) /\ InOrder(Answer(f))
           /\ \A x : x \in Range(Answer(f)) <=>
                 \E r \in Searched : \E j \in 1..Count(r) :
                     /\ x = RootAt(r, j)
                     /\ \E txn \in {x} \cup Range(x.inner) :
                            IndexerMatches(PreFilter(f.filter), txn.facts)
<1> DEFINE all == OfRounds(IndexedTxns, Searched)
           hit(x) == \E txn \in {x} \cup Range(x.inner) :
                         IndexerMatches(PreFilter(f.filter), txn.facts)
           hits == {i \in DOMAIN all : hit(all[i])}
           answer == Selected(all, hits)
<1>1. PICK a \in Nat, b \in Nat : 1 <= a /\ a <= b /\ b <= window[3] /\ Searched = a..b
  BY SearchedRounds
<1>2. Searched \subseteq 1..window[3]
  <2>1. window[3] \in Nat
    BY WindowsAssumption DEF IsGiven
  <2> QED
    BY <1>1, <2>1
<1>3. a \in Int /\ b \in Int
  OBVIOUS
<1>4. /\ AreRoots(all) /\ InOrder(all)
      /\ \A x : x \in Range(all) <=> \E r \in Searched : \E j \in 1..Count(r) : x = RootAt(r, j)
  BY <1>1, <1>2, <1>3, RootsOfRounds
<1>5. Answer(f) = answer
  BY DEF Answer
<1> HIDE DEF all
<1>6. hits \in SUBSET (DOMAIN all) /\ \A i \in DOMAIN all : i \in hits <=> hit(all[i])
  OBVIOUS
<1> HIDE DEF hits, hit
<1>7. all \in Seq(Range(all)) /\ \A i \in DOMAIN all : IsRoot(all[i])
  BY <1>4 DEF AreRoots
<1>8. /\ answer \in Seq(Range(all))
      /\ Range(answer) = {all[i] : i \in hits}
  BY <1>6, <1>7, SelectedPlaces, SelectedRange
<1>9. InOrder(answer)
  BY <1>4, <1>6, <1>7, SelectedOrder DEF InOrder
<1> HIDE DEF answer
<1>10. AreRoots(answer)
  <2>1. answer \in Seq(Range(answer))
    BY <1>8, SeqOfItsRange
  <2>2. \A i \in DOMAIN answer : answer[i] \in Range(answer)
    BY DEF Range
  <2> QED
    BY <1>6, <1>7, <1>8, <2>1, <2>2 DEF AreRoots
<1>11. \A x : x \in Range(answer) <=> x \in Range(all) /\ hit(x)
  BY <1>6, <1>8 DEF Range
<1>12. \A x : x \in Range(answer) <=>
          \E r \in Searched : \E j \in 1..Count(r) : x = RootAt(r, j) /\ hit(x)
  BY <1>4, <1>11
<1> QED
  BY <1>5, <1>9, <1>10, <1>12 DEF hit

IsFound(f, x) ==
    \E r, j, i : /\ IsNode(Searched, r, j, i)
                /\ PostFilter(f.filter, groups, Facts(r, j, i))
                /\ x = Accepted(<<f>>, RootAt(r, j), i)

\* What the search for a filter finds: the nodes of the searched rounds that it
\* accepts.
LEMMA FoundByIs ==
    ASSUME IsGiven, CatchesUp(window[1], window[2], window[3]), NEW f, IsFilter(f.filter)
    PROVE  LET s == FoundBy(f)
           IN  /\ s \in Seq(Range(s)) /\ Keyed(s) /\ Sorted(s)
               /\ \A x : x \in Range(s) <=> IsFound(f, x)
<1> DEFINE roots == Answer(f)
           s == FoundBy(f)
<1>1. /\ AreRoots(roots) /\ InOrder(roots)
      /\ \A x : x \in Range(roots) <=>
            \E r \in Searched : \E j \in 1..Count(r) :
                /\ x = RootAt(r, j)
                /\ \E txn \in {x} \cup Range(x.inner) :
                       IndexerMatches(PreFilter(f.filter), txn.facts)
  BY AnswerIs
<1> HIDE DEF roots
<1>2. PICK fs : fs = <<f>>
  OBVIOUS
<1>3. s = Filtered(SubscribedTxns(roots), fs)
  BY <1>2 DEF FoundBy, roots
<1> HIDE DEF s
<1>4. /\ s \in Seq(Range(s)) /\ Keyed(s) /\ Sorted(s)
      /\ \A x : x \in Range(s) <=>
            \E j \in DOMAIN roots : \E i \in 0..Len(roots[j].inner) :
                /\ NamesMatched(fs, NodeFacts(roots[j], i)) # <<>>
                /\ x = Accepted(fs, roots[j], i)
  BY <1>1, <1>3, FilteredOf
<1>5. \A facts : NamesMatched(fs, facts) # <<>> <=> PostFilter(f.filter, groups, facts)
  <2> TAKE facts
  <2>1. PICK P : P = PostFilter(f.filter, groups, facts)
    OBVIOUS
  <2>2. NamesMatched(fs, facts) = IF PostFilter(f.filter, groups, facts) THEN <<f.name>> ELSE <<>>
    BY <1>2, OneFilter
  <2>3. <<f.name>> # <<>>
    OBVIOUS
  <2> QED
    BY <2>2, <2>3
<1>6. ASSUME NEW x, x \in Range(s)
      PROVE  \E r, j, i : /\ IsNode(Searched, r, j, i)
                          /\ PostFilter(f.filter, groups, Facts(r, j, i))
                          /\ x = Accepted(fs, RootAt(r, j), i)
  <2>1. PICK l \in DOMAIN roots : \E i \in 0..Len(roots[l].inner) :
                /\ NamesMatched(fs, NodeFacts(roots[l], i)) # <<>>
                /\ x = Accepted(fs, roots[l], i)
    BY <1>4, <1>6
  <2>2. PICK i \in 0..Len(roots[l].inner) :
                /\ NamesMatched(fs, NodeFacts(roots[l], i)) # <<>>
                /\ x = Accepted(fs, roots[l], i)
    BY <2>1
  <2>3. roots[l] \in Range(roots)
    BY DEF Range
  <2>4. PICK r \in Searched : \E j \in 1..Count(r) : roots[l] = RootAt(r, j)
    BY <1>1, <2>3
  <2>5. PICK j \in 1..Count(r) : roots[l] = RootAt(r, j)
    BY <2>4
  <2> QED
    BY <1>5, <2>2, <2>5 DEF IsNode, Facts
<1>7. ASSUME NEW r, NEW j, NEW i, IsNode(Searched, r, j, i),
             PostFilter(f.filter, groups, Facts(r, j, i))
      PROVE  Accepted(fs, RootAt(r, j), i) \in Range(s)
  <2> DEFINE x == RootAt(r, j)
  <2>1. r \in Searched /\ j \in 1..Count(r) /\ i \in 0..Len(x.inner)
    BY <1>7 DEF IsNode
  <2>2. IsRoot(x)
    BY <2>1, SearchedAreReported, RootAtIsRoot
  <2> HIDE DEF x
  <2>3. \E txn \in {x} \cup Range(x.inner) : txn.facts = NodeFacts(x, i)
    <3>1. CASE i = 0
      BY <3>1 DEF NodeFacts
    <3>2. CASE i # 0
      <4>1. i \in DOMAIN x.inner
        BY <2>1, <2>2, <3>2 DEF IsRoot
      <4>2. x.inner[i] \in Range(x.inner)
        BY <4>1 DEF Range
      <4> QED
        BY <3>2, <4>2 DEF NodeFacts
    <3> QED
      BY <3>1, <3>2
  <2>4. PostFilter(f.filter, groups, NodeFacts(x, i))
    BY <1>7 DEF Facts, x
  <2>5. x \in Range(roots)
    <3>1. IndexerMatches(PreFilter(f.filter), NodeFacts(x, i))
      BY <2>4, PreFilterIsSound
    <3>2. x = RootAt(r, j)
      BY DEF x
    <3> QED
      BY <1>1, <2>1, <2>3, <3>1, <3>2
  <2>6. PICK l \in DOMAIN roots : roots[l] = x
    BY <2>5 DEF Range
  <2>7. Accepted(fs, x, i) \in Range(s)
    BY <1>4, <1>5, <2>1, <2>4, <2>6
  <2> QED
    BY <2>7 DEF x
<1>8. ASSUME NEW x PROVE x \in Range(s) <=> IsFound(f, x)
  <2>1. ASSUME x \in Range(s) PROVE IsFound(f, x)
    BY <1>2, <1>6, <2>1 DEF IsFound
  <2>2. ASSUME IsFound(f, x) PROVE x \in Range(s)
    <3>1. PICK r, j, i : /\ IsNode(Searched, r, j, i)
                         /\ PostFilter(f.filter, groups, Facts(r, j, i))
                         /\ x = Accepted(<<f>>, RootAt(r, j), i)
      BY <2>2 DEF IsFound
    <3> QED
      BY <1>2, <1>7, <3>1
  <2> QED
    BY <2>1, <2>2
<1> USE DEF s
<1> QED
  BY <1>4, <1>8

-------------------------------------------------------------------------------
(* The merge. *)

-------------------------------------------------------------------------------
(* Lists of transactions of which each has the name of its list. *)

IsTxn(x) ==
    x = [id |-> x.id, round |-> x.round, offset |-> x.offset, facts |-> x.facts,
         matched |-> x.matched, inner |-> x.inner]

Renamed(x, names) ==
    [id |-> x.id, round |-> x.round, offset |-> x.offset, facts |-> x.facts,
     matched |-> names, inner |-> x.inner]

SameKey(x, y) == x.round = y.round /\ x.offset = y.offset

AreLists(lists, names) ==
    /\ names \in Seq(Range(names)) /\ Len(lists) = Len(names)
    /\ \E S : lists \in Seq(Seq(S))
    /\ \A q \in DOMAIN lists :
          /\ Keyed(lists[q]) /\ Sorted(lists[q])
          /\ \A k \in DOMAIN lists[q] : IsTxn(lists[q][k]) /\ lists[q][k].matched = <<names[q]>>
    /\ \A q, p \in DOMAIN lists : \A k \in DOMAIN lists[q], l \in DOMAIN lists[p] :
          lists[q][k].id = lists[p][l].id <=> SameKey(lists[q][k], lists[p][l])

\* The lists that have a transaction of an id.
Holding(lists, id) == {q \in DOMAIN lists : \E k \in DOMAIN lists[q] : lists[q][k].id = id}

\* list gives the transactions of a sorted list the lists they come from.
Origin(list, pos, lists, txns) ==
    /\ list \in [1..Len(txns) -> DOMAIN lists]
    /\ \A k \in 1..Len(txns) : pos[k] \in DOMAIN lists[list[k]] /\ txns[k] = lists[list[k]][pos[k]]
    /\ \A k, l \in 1..Len(txns) : k < l =>
          Earlier(txns[k], txns[l]) \/ (SameKey(txns[k], txns[l]) /\ list[k] < list[l])
    /\ \A q \in DOMAIN lists : \A i \in DOMAIN lists[q] :
          \E k \in 1..Len(txns) : list[k] = q /\ pos[k] = i

\* Each place of the sorted list comes from one place of one of the lists.
LEMMA OriginOf ==
    ASSUME NEW lists, NEW names, AreLists(lists, names)
    PROVE  LET txns == SortedTxns(Joined(lists))
           IN  /\ txns = [k \in 1..Len(txns) |-> txns[k]] /\ Len(txns) \in Nat
               /\ \E list, pos : Origin(list, pos, lists, txns)
<1> DEFINE all == Joined(lists)
           m == Len(all)
           txns == SortedTxns(all)
<1>1. PICK S : lists \in Seq(Seq(S))
  BY DEF AreLists
<1>2. all \in Seq(S) /\ m \in Nat /\ DOMAIN all = 1..m
  BY <1>1, JoinedPlaces
<1>3. PICK place : JoinsFrom(place, lists, all)
  BY <1>1, JoinedFrom
<1> HIDE DEF all
<1>4. all \in Seq(Range(all))
  BY <1>2, SeqOfItsRange
<1>5. \A k \in 1..m : /\ place[k][1] \in DOMAIN lists /\ place[k][2] \in DOMAIN lists[place[k][1]]
                      /\ all[k] = lists[place[k][1]][place[k][2]]
  <2> SUFFICES ASSUME NEW k \in 1..m
               PROVE  /\ place[k][1] \in DOMAIN lists /\ place[k][2] \in DOMAIN lists[place[k][1]]
                      /\ all[k] = lists[place[k][1]][place[k][2]]
    OBVIOUS
  <2>1. place[k] \in Places(lists) /\ all[k] = lists[place[k][1]][place[k][2]]
    BY <1>3 DEF JoinsFrom
  <2> QED
    BY <2>1 DEF Places
<1>6. Keyed(all)
  <2>1. ASSUME NEW k \in 1..m PROVE all[k].round \in Nat /\ all[k].offset \in Nat
    <3>1. Keyed(lists[place[k][1]])
      BY <1>5 DEF AreLists
    <3> QED
      BY <1>5, <3>1 DEF Keyed
  <2> QED
    BY <1>2, <2>1 DEF Keyed
<1>7. PICK from : Sorts(from, all)
  BY <1>4, <1>6, SortedTxnsAre
<1>8. txns = [k \in 1..m |-> all[from[k]]] /\ from \in [1..m -> 1..m]
  BY <1>7 DEF Sorts
<1> HIDE DEF txns
<1>9. Len(txns) = m /\ \A k \in 1..m : txns[k] = all[from[k]] /\ from[k] \in 1..m
  BY <1>2, <1>8
<1> DEFINE list == [k \in 1..m |-> place[from[k]][1]]
           pos == [k \in 1..m |-> place[from[k]][2]]
<1>10. \A k \in 1..m : list[k] = place[from[k]][1] /\ pos[k] = place[from[k]][2]
  OBVIOUS
<1>11. list \in [1..m -> DOMAIN lists]
  BY <1>5, <1>9
<1> HIDE DEF list, pos
<1>12. \A k \in 1..m : /\ list[k] \in DOMAIN lists
                       /\ pos[k] \in DOMAIN lists[list[k]] /\ txns[k] = lists[list[k]][pos[k]]
  BY <1>5, <1>9, <1>10
<1>13. ASSUME NEW k \in 1..m, NEW l \in 1..m, k < l
       PROVE  Earlier(txns[k], txns[l]) \/ (SameKey(txns[k], txns[l]) /\ list[k] < list[l])
  <2>1. Before(all, from[k], from[l])
    BY <1>7, <1>13 DEF Sorts
  <2>2. Earlier(txns[k], txns[l]) \/ (SameKey(txns[k], txns[l]) /\ from[k] < from[l])
    BY <1>9, <2>1 DEF Before, Earlier, SameKey
  <2>3. ASSUME SameKey(txns[k], txns[l]), from[k] < from[l]
        PROVE  list[k] < list[l]
    <3>1. Prior(place[from[k]], place[from[l]])
      BY <1>3, <1>9, <2>3 DEF JoinsFrom
    <3>2. list[k] < list[l] \/ (list[k] = list[l] /\ pos[k] < pos[l])
      BY <1>10, <3>1 DEF Prior
    <3>3. ~(list[k] = list[l] /\ pos[k] < pos[l])
      <4> SUFFICES ASSUME list[k] = list[l], pos[k] < pos[l] PROVE FALSE
        OBVIOUS
      <4>1. Earlier(lists[list[k]][pos[k]], lists[list[k]][pos[l]])
        BY <1>12 DEF AreLists, Sorted
      <4>2. Earlier(txns[k], txns[l])
        BY <1>12, <4>1
      <4>3. txns[k].round \in Nat /\ txns[k].offset \in Nat
        BY <1>12 DEF AreLists, Keyed
      <4> QED
        BY <2>3, <4>2, <4>3 DEF Earlier, SameKey
    <3> QED
      BY <3>2, <3>3
  <2> QED
    BY <2>2, <2>3
<1>14. ASSUME NEW q \in DOMAIN lists, NEW i \in DOMAIN lists[q]
       PROVE  \E k \in 1..m : list[k] = q /\ pos[k] = i
  <2>1. i \in Nat
    <3>1. lists[q] \in Seq(S)
      BY <1>1
    <3> QED
      BY <3>1
  <2>2. <<q, i>> \in Places(lists)
    BY <2>1 DEF Places
  <2>3. PICK l \in 1..m : place[l] = <<q, i>>
    BY <1>3, <2>2 DEF JoinsFrom
  <2>4. PICK k \in 1..m : from[k] = l
    BY <1>7 DEF Sorts
  <2> QED
    BY <1>10, <2>3, <2>4
<1>15. Origin(list, pos, lists, txns)
  BY <1>9, <1>11, <1>12, <1>13, <1>14 DEF Origin
<1>16. txns = [k \in 1..Len(txns) |-> txns[k]]
  BY <1>8, <1>9
<1> USE DEF txns, all
<1> QED
  BY <1>2, <1>9, <1>15, <1>16

\* The names of an id, put together by _deduplicate_subscribed_transactions, are
\* those of the lists that have it, in the order of the lists.
LEMMA NamesAre ==
    ASSUME NEW lists, NEW names, AreLists(lists, names), NEW txns, Len(txns) \in Nat,
           txns = [k \in 1..Len(txns) |-> txns[k]],
           NEW list, NEW pos, Origin(list, pos, lists, txns), NEW id
    PROVE  Joined([i \in DOMAIN txns |-> IF txns[i].id = id THEN txns[i].matched ELSE <<>>])
               = Selected(names, Holding(lists, id))
<1> DEFINE m == Len(txns)
           n == Len(names)
           own == [i \in 1..m |-> names[list[i]]]
           places == {i \in 1..m : txns[i].id = id}
           others == Holding(lists, id)
           h == [i \in places |-> list[i]]
<1>1. /\ m \in Nat /\ DOMAIN txns = 1..m
      /\ names \in Seq(Range(names)) /\ n \in Nat /\ DOMAIN names = 1..n
  BY DEF AreLists
<1>2. DOMAIN lists = 1..n
  BY DEF AreLists
<1>3. \A i \in 1..m : /\ list[i] \in 1..n /\ pos[i] \in DOMAIN lists[list[i]]
                      /\ txns[i] = lists[list[i]][pos[i]]
  BY <1>2 DEF Origin
<1>4. \A i \in 1..m : txns[i].matched = <<names[list[i]]>>
  BY <1>2, <1>3 DEF AreLists
<1>5. \A i \in 1..m : own[i] = names[list[i]] /\ own[i] \in Range(names)
  BY <1>1, <1>3 DEF Range
<1>6. own \in [1..m -> Range(names)] /\ DOMAIN own = 1..m
  BY <1>5
<1>7. /\ places \in SUBSET (1..m)
      /\ \A i \in 1..m : i \in places <=> txns[i].id = id
  OBVIOUS
<1>8. h \in [places -> others] /\ \A i \in places : h[i] = list[i]
  BY <1>2, <1>3, <1>7 DEF Holding
<1>9. others \in SUBSET (1..n)
  BY <1>2 DEF Holding
<1>10. \A j \in others : \E i \in places : list[i] = j
  <2> SUFFICES ASSUME NEW j \in others PROVE \E i \in places : list[i] = j
    OBVIOUS
  <2>1. PICK k \in DOMAIN lists[j] : lists[j][k].id = id
    BY DEF Holding
  <2>2. j \in DOMAIN lists
    BY DEF Holding
  <2>3. PICK i \in 1..m : list[i] = j /\ pos[i] = k
    BY <2>2 DEF Origin
  <2> QED
    BY <1>3, <1>7, <2>1, <2>3
<1>11. ASSUME NEW i \in places, NEW j \in places, i < j PROVE list[i] < list[j]
  <2>1. i \in 1..m /\ j \in 1..m
    BY <1>7
  <2>2. Earlier(txns[i], txns[j]) \/ (SameKey(txns[i], txns[j]) /\ list[i] < list[j])
    BY <1>11, <2>1 DEF Origin
  <2>3. SameKey(txns[i], txns[j]) /\ txns[i].round \in Nat /\ txns[i].offset \in Nat
    <3>1. txns[i].id = txns[j].id
      BY <1>7, <2>1
    <3>2. /\ list[i] \in DOMAIN lists /\ pos[i] \in DOMAIN lists[list[i]]
          /\ list[j] \in DOMAIN lists /\ pos[j] \in DOMAIN lists[list[j]]
          /\ txns[i] = lists[list[i]][pos[i]] /\ txns[j] = lists[list[j]][pos[j]]
      BY <1>2, <1>3, <2>1
    <3>3. lists[list[i]][pos[i]].id = lists[list[j]][pos[j]].id
                <=> SameKey(lists[list[i]][pos[i]], lists[list[j]][pos[j]])
      BY <3>2 DEF AreLists
    <3>4. Keyed(lists[list[i]])
      BY <3>2 DEF AreLists
    <3>5. txns[i].round \in Nat /\ txns[i].offset \in Nat
      BY <3>2, <3>4 DEF Keyed
    <3> QED
      BY <3>1, <3>2, <3>3, <3>5
  <2> QED
    BY <2>2, <2>3 DEF Earlier, SameKey
<1>12. [i \in DOMAIN txns |-> IF txns[i].id = id THEN txns[i].matched ELSE <<>>]
           = [i \in DOMAIN own |-> IF i \in places THEN <<own[i]>> ELSE <<>>]
  <2>1. \A i \in 1..m : (IF txns[i].id = id THEN txns[i].matched ELSE <<>>)
                            = IF i \in places THEN <<own[i]>> ELSE <<>>
    BY <1>4, <1>5, <1>7
  <2> HIDE DEF own, places, m
  <2> QED
    BY <1>1, <1>6, <2>1
<1> HIDE DEF own, places, others, h, m, n
<1>13. own \in Seq(Range(names))
  BY <1>1, <1>6, FunctionIsSeq
<1>14. Selected(own, places) = Selected(names, others)
  <2>1. places \in SUBSET (DOMAIN own) /\ others \in SUBSET (DOMAIN names)
    BY <1>1, <1>6, <1>7, <1>9
  <2>2. \A j \in others : \E i \in places : h[i] = j
    BY <1>8, <1>10
  <2>3. \A i, j \in places : i < j => h[i] < h[j]
    BY <1>8, <1>11
  <2>4. \A i \in places : own[i] = names[h[i]]
    BY <1>5, <1>7, <1>8
  <2> QED
    <3>1. MapsPlaces(h, own, places, names, others)
      BY <1>8, <2>2, <2>3, <2>4 DEF MapsPlaces
    <3> QED
      BY <1>1, <1>13, <2>1, <3>1, SelectedAlike
<1>15. Selected(own, places) =
           Joined([i \in DOMAIN own |-> IF i \in places THEN <<own[i]>> ELSE <<>>])
  BY DEF Selected
<1> QED
  BY <1>12, <1>14, <1>15 DEF others

IsMerged(d, lists, names) ==
    /\ d \in Seq(Range(d)) /\ Keyed(d) /\ Sorted(d)
    /\ \A x \in Range(d) : \E q \in DOMAIN lists : \E k \in DOMAIN lists[q] :
          x = Renamed(lists[q][k], Selected(names, Holding(lists, lists[q][k].id)))
    /\ \A q \in DOMAIN lists : \A k \in DOMAIN lists[q] :
          \E x \in Range(d) : x.id = lists[q][k].id

\* The merge keeps each id once, in order, with the names of all lists that
\* hold it, in the order of the lists.
LEMMA MergeIs ==
    ASSUME NEW lists, NEW names, AreLists(lists, names)
    PROVE  IsMerged(Deduplicated(SortedTxns(Joined(lists))), lists, names)
<1> DEFINE txns == SortedTxns(Joined(lists))
           m == Len(txns)
           joint(id) == Joined([i \in DOMAIN txns |-> IF txns[i].id = id THEN txns[i].matched ELSE <<>>])
           seq == [i \in DOMAIN txns |-> [txns[i] EXCEPT !.matched = joint(txns[i].id)]]
           places == Firsts(txns)
           d == Selected(seq, places)
           new(x) == Renamed(x, Selected(names, Holding(lists, x.id)))
<1>1. txns = [k \in 1..m |-> txns[k]] /\ m \in Nat /\ \E list, pos : Origin(list, pos, lists, txns)
  BY OriginOf
<1>2. Deduplicated(txns) = d
  BY DEF Deduplicated
<1> HIDE DEF txns
<1>3. PICK list, pos : Origin(list, pos, lists, txns)
  BY <1>1
<1>4. \A id : joint(id) = Selected(names, Holding(lists, id))
  BY <1>1, <1>3, NamesAre
<1>5. DOMAIN txns = 1..m
  BY <1>1
<1>6. \A i \in 1..m : /\ list[i] \in DOMAIN lists /\ pos[i] \in DOMAIN lists[list[i]]
                      /\ txns[i] = lists[list[i]][pos[i]] /\ IsTxn(txns[i])
                      /\ txns[i].round \in Nat /\ txns[i].offset \in Nat
  <2> SUFFICES ASSUME NEW i \in 1..m
               PROVE  /\ list[i] \in DOMAIN lists /\ pos[i] \in DOMAIN lists[list[i]]
                      /\ txns[i] = lists[list[i]][pos[i]] /\ IsTxn(txns[i])
                      /\ txns[i].round \in Nat /\ txns[i].offset \in Nat
    OBVIOUS
  <2>1. /\ list[i] \in DOMAIN lists /\ pos[i] \in DOMAIN lists[list[i]]
        /\ txns[i] = lists[list[i]][pos[i]]
    BY <1>3 DEF Origin
  <2>2. IsTxn(lists[list[i]][pos[i]]) /\ Keyed(lists[list[i]])
    BY <2>1 DEF AreLists
  <2>3. lists[list[i]][pos[i]].round \in Nat /\ lists[list[i]][pos[i]].offset \in Nat
    BY <2>1, <2>2 DEF Keyed
  <2> QED
    BY <2>1, <2>2, <2>3
<1> HIDE DEF joint
<1>7. \A i \in 1..m : [txns[i] EXCEPT !.matched = joint(txns[i].id)] = new(txns[i])
  <2> SUFFICES ASSUME NEW i \in 1..m
               PROVE  [txns[i] EXCEPT !.matched = joint(txns[i].id)] = new(txns[i])
    OBVIOUS
  <2>1. joint(txns[i].id) = Selected(names, Holding(lists, txns[i].id))
    BY <1>4
  <2>2. PICK x : x = txns[i]
    OBVIOUS
  <2>3. PICK y : y = joint(txns[i].id)
    OBVIOUS
  <2>4. x = [id |-> x.id, round |-> x.round, offset |-> x.offset, facts |-> x.facts,
             matched |-> x.matched, inner |-> x.inner]
    BY <1>6, <2>2 DEF IsTxn
  <2>5. [x EXCEPT !.matched = y] =
            [id |-> x.id, round |-> x.round, offset |-> x.offset, facts |-> x.facts,
             matched |-> y, inner |-> x.inner]
    BY ONLY <2>4
  <2> QED
    BY <2>1, <2>2, <2>3, <2>5 DEF Renamed
<1>8. seq = [i \in 1..m |-> seq[i]] /\ DOMAIN seq = 1..m /\ \A i \in 1..m : seq[i] = new(txns[i])
  BY <1>5, <1>7
<1> HIDE DEF seq
<1>9. seq \in Seq(Range(seq))
  <2>1. seq \in [1..m -> Range(seq)]
    BY <1>8 DEF Range
  <2> QED
    BY <1>1, <2>1, FunctionIsSeq
<1>10. /\ places \in SUBSET (1..m)
       /\ \A i \in 1..m : i \in places <=> \A j \in 1..(i - 1) : txns[j].id # txns[i].id
  BY <1>5 DEF Firsts
<1> HIDE DEF places, m
<1>11. \A i \in 1..m : /\ seq[i].id = txns[i].id /\ seq[i].round = txns[i].round
                       /\ seq[i].offset = txns[i].offset
  BY <1>8 DEF Renamed
<1>12. d \in Seq(Range(seq)) /\ Range(d) = {seq[i] : i \in places}
  <2>1. places \in SUBSET (DOMAIN seq)
    BY <1>8, <1>10
  <2>2. d \in Seq(Range(seq))
    BY <1>9, <2>1, SelectedPlaces
  <2> QED
    BY <1>9, <2>1, <2>2, SelectedRange
<1>13. ASSUME NEW i \in places, NEW j \in places, i < j PROVE Earlier(seq[i], seq[j])
  <2>1. i \in 1..m /\ j \in 1..m /\ i \in 1..(j - 1)
    BY <1>1, <1>10, <1>13
  <2>2. Earlier(txns[i], txns[j]) \/ SameKey(txns[i], txns[j])
    BY <1>3, <1>13, <2>1 DEF Origin, m
  <2>3. ~SameKey(txns[i], txns[j])
    <3>1. txns[i].id # txns[j].id
      BY <1>10, <2>1
    <3>2. /\ list[i] \in DOMAIN lists /\ pos[i] \in DOMAIN lists[list[i]]
          /\ list[j] \in DOMAIN lists /\ pos[j] \in DOMAIN lists[list[j]]
          /\ txns[i] = lists[list[i]][pos[i]] /\ txns[j] = lists[list[j]][pos[j]]
      BY <1>6, <2>1
    <3>3. lists[list[i]][pos[i]].id = lists[list[j]][pos[j]].id
                <=> SameKey(lists[list[i]][pos[i]], lists[list[j]][pos[j]])
      BY <3>2 DEF AreLists
    <3> QED
      BY <3>1, <3>2, <3>3
  <2> QED
    BY <1>11, <2>1, <2>2, <2>3 DEF Earlier
<1>14. Sorted(d)
  BY <1>8, <1>9, <1>10, <1>13, SelectedSorted
<1> HIDE DEF d
<1>15. d \in Seq(Range(d))
  BY <1>12, SeqOfItsRange
<1>16. Keyed(d)
  <2>1. \A i \in DOMAIN d : d[i] \in Range(d)
    BY DEF Range
  <2> QED
    BY <1>6, <1>10, <1>11, <1>12, <2>1 DEF Keyed
<1>17. ASSUME NEW x \in Range(d)
       PROVE  \E q \in DOMAIN lists : \E k \in DOMAIN lists[q] : x = new(lists[q][k])
  <2>1. PICK i \in places : x = seq[i]
    BY <1>12
  <2>2. i \in 1..m
    BY <1>10
  <2>3. x = new(lists[list[i]][pos[i]]) /\ list[i] \in DOMAIN lists /\ pos[i] \in DOMAIN lists[list[i]]
    BY <1>6, <1>8, <2>1, <2>2
  <2> QED
    BY <2>3
<1>18. ASSUME NEW q \in DOMAIN lists, NEW k \in DOMAIN lists[q]
       PROVE  \E x \in Range(d) : x.id = lists[q][k].id
  <2> DEFINE same == {i \in Nat : i \in 1..m /\ txns[i].id = lists[q][k].id}
  <2>1. PICK i \in 1..m : list[i] = q /\ pos[i] = k
    BY <1>3 DEF Origin, m
  <2>2. same # {} /\ same \subseteq Nat
    BY <1>6, <2>1
  <2>3. PICK f \in same : \A j \in same : ~(j < f)
    <3>1. IsWellFoundedOn(OpToRel(<, Nat), Nat)
      BY NatLessThanWellFounded
    <3> HIDE DEF same
    <3>2. PICK f \in same : \A j \in same : <<j, f>> \notin OpToRel(<, Nat)
      BY <2>2, <3>1, WFMin
    <3> QED
      BY <2>2, <3>2 DEF OpToRel
  <2>4. f \in 1..m /\ txns[f].id = lists[q][k].id
    OBVIOUS
  <2>5. f \in places
    <3> SUFFICES ASSUME NEW j \in 1..(f - 1) PROVE txns[j].id # txns[f].id
      BY <1>10, <2>4
    <3>1. j \in 1..m /\ j \in Nat /\ j < f
      BY <1>1, <2>4
    <3> QED
      BY <2>3, <2>4, <3>1
  <2>6. seq[f] \in Range(d) /\ seq[f].id = lists[q][k].id
    BY <1>11, <1>12, <2>4, <2>5
  <2> QED
    BY <2>6
<1> USE DEF txns
<1> QED
  BY <1>2, <1>14, <1>15, <1>16, <1>17, <1>18 DEF IsMerged

\* A node has a number in its round of its own.
LEMMA KeysDiffer ==
    ASSUME IsGiven, NEW r, NEW j, NEW i, IsNode(1..window[3], r, j, i),
           NEW s, NEW k, NEW l, IsNode(1..window[3], s, k, l)
    PROVE  <<RootAt(r, j).id, i>> = <<RootAt(s, k).id, l>> <=>
               /\ RootAt(r, j).round = RootAt(s, k).round
               /\ RootAt(r, j).offset + i = RootAt(s, k).offset + l
<1> DEFINE x == RootAt(r, j)
           y == RootAt(s, k)
<1>1. /\ r \in 1..window[3] /\ j \in 1..Count(r) /\ i \in 0..Len(x.inner)
      /\ s \in 1..window[3] /\ k \in 1..Count(s) /\ l \in 0..Len(y.inner)
  BY DEF IsNode
<1>2. IsRoot(x) /\ IsRoot(y)
  BY <1>1, RootAtIsRoot
<1>3. x.id = <<r, j>> /\ y.id = <<s, k>> /\ x.round = r /\ y.round = s
  BY DEF RootAt
<1>4. ASSUME <<x.id, i>> = <<y.id, l>> PROVE r = s /\ j = k /\ i = l
  <2>1. x.id = y.id /\ i = l
    BY <1>4
  <2> QED
    BY <1>3, <2>1
<1>5. ASSUME r = s, x.offset + i = y.offset + l PROVE j = k /\ i = l
  <2>1. /\ x.offset \in Nat /\ y.offset \in Nat /\ Len(x.inner) \in Nat /\ Len(y.inner) \in Nat
    BY <1>2 DEF IsRoot
  <2>2. i \in Nat /\ l \in Nat /\ i <= Len(x.inner) /\ l <= Len(y.inner)
    BY <1>1, <2>1
  <2>3. j \in Int /\ k \in Int
    <3>1. Count(r) \in Nat /\ Count(s) \in Nat
      BY <1>1, RootsAre
    <3> QED
      BY <1>1, <3>1
  <2>4. ~(j < k)
    <3> SUFFICES ASSUME j < k PROVE FALSE
      OBVIOUS
    <3>1. Precedes(x, y)
      BY <1>1, <1>5, NextRootFollows
    <3> HIDE DEF x, y
    <3> QED
      BY <1>2, <1>3, <1>5, <2>1, <2>2, <3>1 DEF Precedes, IsRoot
  <2>5. ~(k < j)
    <3> SUFFICES ASSUME k < j PROVE FALSE
      OBVIOUS
    <3>1. Precedes(y, x)
      BY <1>1, <1>5, NextRootFollows
    <3> HIDE DEF x, y
    <3> QED
      BY <1>2, <1>3, <1>5, <2>1, <2>2, <3>1 DEF Precedes, IsRoot
  <2>6. j = k
    BY <2>3, <2>4, <2>5
  <2>7. x.offset = y.offset
    BY <1>5, <2>6
  <2> HIDE DEF x, y
  <2> QED
    BY <1>5, <2>1, <2>2, <2>6, <2>7
<1> HIDE DEF x, y
<1>6. ASSUME r = s, j = k, i = l PROVE x = y
  BY <1>6 DEF x, y
<1>7. <<x.id, i>> = <<y.id, l>> <=> x.round = y.round /\ x.offset + i = y.offset + l
  BY <1>3, <1>4, <1>5, <1>6
<1> QED
  BY <1>7 DEF x, y

-------------------------------------------------------------------------------
(* The merge of what the searches for the filters find. *)

Names == [q \in DOMAIN filters |-> filters[q].name]

FoundLists == [q \in DOMAIN filters |-> FoundBy(filters[q])]

\* A node of the searched rounds is one of the reported rounds.
LEMMA SearchedNode ==
    ASSUME IsGiven, NEW r, NEW j, NEW i, IsNode(Searched, r, j, i)
    PROVE  IsNode(1..window[3], r, j, i)
BY SearchedAreReported DEF IsNode

\* What a member of a list of a search is.
LEMMA FoundNode ==
    ASSUME IsGiven, CatchesUp(window[1], window[2], window[3]),
           NEW q \in DOMAIN filters, NEW k \in DOMAIN FoundLists[q]
    PROVE  \E r, j, i :
               /\ IsNode(Searched, r, j, i)
               /\ PostFilter(filters[q].filter, groups, Facts(r, j, i))
               /\ FoundLists[q][k] = Accepted(<<filters[q]>>, RootAt(r, j), i)
<1> DEFINE f == filters[q]
           s == FoundBy(f)
<1>1. FoundLists[q] = s
  BY DEF FoundLists
<1>2. IsFilter(f.filter)
  BY GivenFilters
<1> HIDE DEF f
<1>3. \A x : x \in Range(s) <=> IsFound(f, x)
  BY <1>2, FoundByIs
<1>4. s[k] \in Range(s)
  BY <1>1 DEF Range
<1>5. IsFound(f, s[k])
  BY <1>3, <1>4
<1> QED
  BY <1>1, <1>5 DEF IsFound, f

\* What the searches find are lists that the merge is made for.
LEMMA FoundListsAre ==
    ASSUME IsGiven, CatchesUp(window[1], window[2], window[3])
    PROVE  AreLists(FoundLists, Names)
<1> DEFINE n == Len(filters)
<1>1. n \in Nat /\ DOMAIN filters = 1..n /\ \A q \in 1..n : IsFilter(filters[q].filter)
  BY GivenFilters
<1>2. Names \in Seq(Range(Names)) /\ Len(Names) = n
  <2>1. Names \in [1..n -> Range(Names)]
    BY <1>1 DEF Names, Range
  <2> QED
    BY <1>1, <2>1, FunctionIsSeq
<1>3. \A q \in 1..n : FoundLists[q] = FoundBy(filters[q])
  BY <1>1 DEF FoundLists
<1>4. \A q \in 1..n : /\ FoundLists[q] \in Seq(Range(FoundLists[q]))
                      /\ Keyed(FoundLists[q]) /\ Sorted(FoundLists[q])
  <2> SUFFICES ASSUME NEW q \in 1..n
               PROVE  /\ FoundLists[q] \in Seq(Range(FoundLists[q]))
                      /\ Keyed(FoundLists[q]) /\ Sorted(FoundLists[q])
    OBVIOUS
  <2>1. IsFilter(filters[q].filter)
    BY <1>1
  <2>2. PICK f : f = filters[q]
    OBVIOUS
  <2>3. LET s == FoundBy(f) IN s \in Seq(Range(s)) /\ Keyed(s) /\ Sorted(s)
    BY <2>1, <2>2, FoundByIs
  <2> QED
    BY <1>3, <2>2, <2>3
<1>5. FoundLists = [q \in 1..n |-> FoundLists[q]]
  BY <1>1 DEF FoundLists
<1>6. DOMAIN FoundLists = 1..n /\ \E S : FoundLists \in Seq(Seq(S))
  BY <1>1, <1>4, <1>5, SeqOfLists
<1>7. Len(FoundLists) = n
  BY <1>1, <1>6
<1>8. ASSUME NEW q \in 1..n, NEW k \in DOMAIN FoundLists[q]
      PROVE  IsTxn(FoundLists[q][k]) /\ FoundLists[q][k].matched = <<Names[q]>>
  <2>1. PICK r, j, i : /\ PostFilter(filters[q].filter, groups, Facts(r, j, i))
                       /\ FoundLists[q][k] = Accepted(<<filters[q]>>, RootAt(r, j), i)
    BY <1>1, <1>8, FoundNode
  <2>2. PICK f : f = filters[q]
    OBVIOUS
  <2>3. NamesMatched(<<f>>, Facts(r, j, i)) = <<f.name>>
    BY <2>1, <2>2, OneFilter
  <2>4. Names[q] = f.name
    BY <1>1, <2>2 DEF Names
  <2>5. IsTxn(Accepted(<<f>>, RootAt(r, j), i))
    BY DEF IsTxn, Accepted
  <2>6. Accepted(<<f>>, RootAt(r, j), i).matched = NamesMatched(<<f>>, Facts(r, j, i))
    BY DEF Accepted, Facts
  <2> QED
    BY <2>1, <2>2, <2>3, <2>4, <2>5, <2>6
<1>9. ASSUME NEW q \in 1..n, NEW p \in 1..n, NEW k \in DOMAIN FoundLists[q],
             NEW l \in DOMAIN FoundLists[p]
      PROVE  FoundLists[q][k].id = FoundLists[p][l].id
                 <=> SameKey(FoundLists[q][k], FoundLists[p][l])
  <2>1. PICK r, j, i : /\ IsNode(Searched, r, j, i)
                       /\ FoundLists[q][k] = Accepted(<<filters[q]>>, RootAt(r, j), i)
    BY <1>1, <1>9, FoundNode
  <2>2. PICK s, t, u : /\ IsNode(Searched, s, t, u)
                       /\ FoundLists[p][l] = Accepted(<<filters[p]>>, RootAt(s, t), u)
    BY <1>1, <1>9, FoundNode
  <2>3. IsNode(1..window[3], r, j, i) /\ IsNode(1..window[3], s, t, u)
    BY <2>1, <2>2, SearchedNode
  <2>4. <<RootAt(r, j).id, i>> = <<RootAt(s, t).id, u>> <=>
               /\ RootAt(r, j).round = RootAt(s, t).round
               /\ RootAt(r, j).offset + i = RootAt(s, t).offset + u
    BY <2>3, KeysDiffer
  <2>5. \A fs, x, m : /\ Accepted(fs, x, m).id = <<x.id, m>>
                      /\ Accepted(fs, x, m).round = x.round
                      /\ Accepted(fs, x, m).offset = x.offset + m
    BY DEF Accepted
  <2> QED
    BY <2>1, <2>2, <2>4, <2>5 DEF SameKey
<1> HIDE DEF n
<1> QED
  BY <1>2, <1>4, <1>6, <1>7, <1>8, <1>9 DEF AreLists

\* An id is that of one node.
LEMMA SameNode ==
    ASSUME NEW r, NEW j, NEW i, NEW s, NEW t, NEW u,
           <<RootAt(s, t).id, u>> = <<RootAt(r, j).id, i>>
    PROVE  s = r /\ t = j /\ u = i
<1>1. RootAt(s, t).id = RootAt(r, j).id /\ u = i
  OBVIOUS
<1>2. RootAt(s, t).id = <<s, t>> /\ RootAt(r, j).id = <<r, j>>
  BY DEF RootAt
<1>3. <<s, t>> = <<r, j>>
  BY <1>1, <1>2
<1> QED
  BY <1>1, <1>3

\* The numbers of the filters that accept a transaction.
Accepting(facts) == {q \in DOMAIN filters : PostFilter(filters[q].filter, groups, facts)}

\* The names of a transaction are those of the filters that accept it.
LEMMA NamesOfAccepting ==
    ASSUME NEW facts
    PROVE  NamesMatched(filters, facts) = Selected(Names, Accepting(facts))
BY DEF NamesMatched, Names, Accepting

\* The searches that find a node are those for the filters that accept it.
LEMMA HoldingIs ==
    ASSUME IsGiven, CatchesUp(window[1], window[2], window[3]),
           NEW r, NEW j, NEW i, IsNode(Searched, r, j, i)
    PROVE  Holding(FoundLists, <<RootAt(r, j).id, i>>) = Accepting(Facts(r, j, i))
<1> DEFINE id == <<RootAt(r, j).id, i>>
<1>1. DOMAIN FoundLists = DOMAIN filters
  BY DEF FoundLists
<1>2. ASSUME NEW q \in DOMAIN filters, NEW k \in DOMAIN FoundLists[q], FoundLists[q][k].id = id
      PROVE  q \in Accepting(Facts(r, j, i))
  <2>1. PICK s, t, u :
               /\ IsNode(Searched, s, t, u)
               /\ PostFilter(filters[q].filter, groups, Facts(s, t, u))
               /\ FoundLists[q][k] = Accepted(<<filters[q]>>, RootAt(s, t), u)
    BY <1>2, FoundNode
  <2>2. <<RootAt(s, t).id, u>> = <<RootAt(r, j).id, i>>
    BY <1>2, <2>1 DEF Accepted
  <2>4. s = r /\ t = j /\ u = i
    BY <2>2, SameNode
  <2> QED
    BY <2>1, <2>4 DEF Accepting
<1>3. ASSUME NEW q \in Accepting(Facts(r, j, i))
      PROVE  \E k \in DOMAIN FoundLists[q] : FoundLists[q][k].id = id
  <2>1. q \in DOMAIN filters /\ PostFilter(filters[q].filter, groups, Facts(r, j, i))
    BY DEF Accepting
  <2>2. PICK f : f = filters[q]
    OBVIOUS
  <2>3. IsFilter(f.filter)
    BY <2>1, <2>2, GivenFilters
  <2>4. \A x : x \in Range(FoundBy(f)) <=> IsFound(f, x)
    BY <2>3, FoundByIs
  <2>5. IsFound(f, Accepted(<<f>>, RootAt(r, j), i))
    BY <2>1, <2>2 DEF IsFound
  <2>6. Accepted(<<f>>, RootAt(r, j), i) \in Range(FoundBy(f))
    BY <2>4, <2>5
  <2>7. FoundLists[q] = FoundBy(f)
    BY <2>1, <2>2 DEF FoundLists
  <2>8. PICK k \in DOMAIN FoundLists[q] : FoundLists[q][k] = Accepted(<<f>>, RootAt(r, j), i)
    BY <2>6, <2>7 DEF Range
  <2> QED
    BY <2>8 DEF Accepted
<1>4. \A q : q \in Accepting(Facts(r, j, i)) => q \in DOMAIN filters
  BY DEF Accepting
<1> HIDE DEF id
<1>5. \A q : q \in Holding(FoundLists, id) <=>
          q \in DOMAIN filters /\ \E k \in DOMAIN FoundLists[q] : FoundLists[q][k].id = id
  BY <1>1 DEF Holding
<1>6. \A q : q \in Holding(FoundLists, id) <=> q \in Accepting(Facts(r, j, i))
  BY <1>2, <1>3, <1>4, <1>5
<1> QED
  BY <1>6 DEF id

-------------------------------------------------------------------------------
(* What a poll keeps of the nodes of some rounds. *)

RowOf(x) ==
    [id |-> x.id, round |-> x.round, offset |-> x.offset, facts |-> x.facts,
     matched |-> x.matched, inner |-> [k \in DOMAIN x.inner |-> x.inner[k].id]]

NodeRow(r, j, i) ==
    [id |-> <<RootAt(r, j).id, i>>, round |-> r, offset |-> RootAt(r, j).offset + i,
     facts |-> Facts(r, j, i), matched |-> NamesMatched(filters, Facts(r, j, i)),
     inner |-> [k \in 1..NodeSize(RootAt(r, j), i) |-> <<RootAt(r, j).id, i + k>>]]

\* A subscribed transaction shows a node.
Shows(x, r, j, i) ==
    /\ IsTxn(x)
    /\ x.id = <<RootAt(r, j).id, i>> /\ x.round = r /\ x.offset = RootAt(r, j).offset + i
    /\ x.facts = Facts(r, j, i) /\ x.matched = NamesMatched(filters, Facts(r, j, i))
    /\ x.inner = [k \in 1..NodeSize(RootAt(r, j), i) |-> x.inner[k]]
    /\ \A k \in 1..NodeSize(RootAt(r, j), i) :
          x.inner[k].id = <<RootAt(r, j).id, i + k>> /\ x.inner[k].facts = Facts(r, j, i + k)

IsKept(s, rounds) ==
    /\ s \in Seq(Range(s)) /\ Keyed(s) /\ Sorted(s)
    /\ \A x \in Range(s) : \E r, j, i :
          /\ IsNode(rounds, r, j, i) /\ NamesMatched(filters, Facts(r, j, i)) # <<>>
          /\ Shows(x, r, j, i)
    /\ \A r, j, i : IsNode(rounds, r, j, i) /\ NamesMatched(filters, Facts(r, j, i)) # <<>> =>
          \E x \in Range(s) : Shows(x, r, j, i)

\* What shows a node has the row of the node.
LEMMA RowIs ==
    ASSUME NEW x, NEW r, NEW j, NEW i, Shows(x, r, j, i)
    PROVE  RowOf(x) = NodeRow(r, j, i)
<1> DEFINE n == NodeSize(RootAt(r, j), i)
<1>1. DOMAIN x.inner = 1..n
  BY DEF Shows
<1>2. [k \in DOMAIN x.inner |-> x.inner[k].id] = [k \in 1..n |-> <<RootAt(r, j).id, i + k>>]
  BY <1>1 DEF Shows
<1> HIDE DEF n
<1> QED
  BY <1>2 DEF Shows, RowOf, NodeRow, n

\* A node that some filter accepts has a name.
LEMMA NamedIsAccepted ==
    ASSUME IsGiven, NEW facts
    PROVE  NamesMatched(filters, facts) # <<>> <=> Accepting(facts) # {}
<1> DEFINE names == NamesMatched(filters, facts)
           places == Accepting(facts)
<1>1. Names \in Seq(Range(Names)) /\ DOMAIN Names = DOMAIN filters
  <2>1. Len(filters) \in Nat /\ DOMAIN filters = 1..Len(filters)
    BY GivenFilters
  <2>2. Names \in [1..Len(filters) -> Range(Names)]
    BY <2>1 DEF Names, Range
  <2> QED
    BY <2>1, <2>2, FunctionIsSeq
<1>2. places \in SUBSET (DOMAIN Names)
  BY <1>1 DEF Accepting
<1>3. names = Selected(Names, places)
  BY NamesOfAccepting
<1> HIDE DEF names, places
<1>4. names \in Seq(Range(Names)) /\ IsFiniteSet(places) /\ Len(names) = Cardinality(places)
  BY <1>1, <1>2, <1>3, SelectedPlaces, SelectedCount
<1>5. names = <<>> <=> Len(names) = 0
  BY <1>4
<1>6. Cardinality(places) = 0 <=> places = {}
  BY <1>4, FS_EmptySet
<1> QED
  BY <1>4, <1>5, <1>6 DEF names, places

\* The transactions from the indexer, once the lists of the filters are merged.
LEMMA MergedIsKept ==
    ASSUME IsGiven, CatchesUp(window[1], window[2], window[3])
    PROVE  IsKept(Deduplicated(SortedTxns(Joined(FoundLists))), Searched)
<1> DEFINE d == Deduplicated(SortedTxns(Joined(FoundLists)))
<1>1. IsMerged(d, FoundLists, Names)
  BY FoundListsAre, MergeIs
<1> HIDE DEF d
<1>2. d \in Seq(Range(d)) /\ Keyed(d) /\ Sorted(d)
  BY <1>1 DEF IsMerged
<1>3. DOMAIN FoundLists = DOMAIN filters
  BY DEF FoundLists
<1>4. ASSUME NEW x \in Range(d)
      PROVE  \E r, j, i :
                /\ IsNode(Searched, r, j, i) /\ NamesMatched(filters, Facts(r, j, i)) # <<>>
                /\ Shows(x, r, j, i)
  <2>1. PICK q \in DOMAIN filters : \E k \in DOMAIN FoundLists[q] :
          x = Renamed(FoundLists[q][k], Selected(Names, Holding(FoundLists, FoundLists[q][k].id)))
    BY <1>1, <1>3 DEF IsMerged
  <2>2. PICK k \in DOMAIN FoundLists[q] :
          x = Renamed(FoundLists[q][k], Selected(Names, Holding(FoundLists, FoundLists[q][k].id)))
    BY <2>1
  <2>3. PICK r, j, i :
               /\ IsNode(Searched, r, j, i)
               /\ PostFilter(filters[q].filter, groups, Facts(r, j, i))
               /\ FoundLists[q][k] = Accepted(<<filters[q]>>, RootAt(r, j), i)
    BY FoundNode
  <2>4. q \in Accepting(Facts(r, j, i))
    BY <2>3 DEF Accepting
  <2>5. NamesMatched(filters, Facts(r, j, i)) # <<>>
    BY <2>4, NamedIsAccepted
  <2> DEFINE y == Accepted(<<filters[q]>>, RootAt(r, j), i)
             names == Selected(Names, Holding(FoundLists, y.id))
  <2>6. y.id = <<RootAt(r, j).id, i>>
    BY DEF Accepted
  <2>7. names = NamesMatched(filters, Facts(r, j, i))
    BY <2>3, <2>6, HoldingIs, NamesOfAccepting
  <2>8. x = Renamed(y, names)
    BY <2>2, <2>3
  <2> HIDE DEF names
  <2>9. /\ y.id = <<RootAt(r, j).id, i>> /\ y.round = r /\ y.offset = RootAt(r, j).offset + i
        /\ y.facts = Facts(r, j, i)
        /\ y.inner = [m \in 1..NodeSize(RootAt(r, j), i) |-> AcceptedLeaf(<<filters[q]>>, RootAt(r, j), i + m)]
    BY DEF Accepted, RootAt, Facts
  <2>10. \A m : /\ AcceptedLeaf(<<filters[q]>>, RootAt(r, j), i + m).id = <<RootAt(r, j).id, i + m>>
                /\ AcceptedLeaf(<<filters[q]>>, RootAt(r, j), i + m).facts = Facts(r, j, i + m)
    BY DEF AcceptedLeaf, Facts
  <2> HIDE DEF y
  <2>11. /\ x.id = y.id /\ x.round = y.round /\ x.offset = y.offset /\ x.facts = y.facts
         /\ x.matched = names /\ x.inner = y.inner /\ IsTxn(x)
    BY <2>8 DEF Renamed, IsTxn
  <2>12. Shows(x, r, j, i)
    BY <2>7, <2>9, <2>10, <2>11 DEF Shows
  <2> QED
    BY <2>3, <2>5, <2>12
<1>5. ASSUME NEW r, NEW j, NEW i, IsNode(Searched, r, j, i),
             NamesMatched(filters, Facts(r, j, i)) # <<>>
      PROVE  \E x \in Range(d) : Shows(x, r, j, i)
  <2>1. PICK q \in Accepting(Facts(r, j, i)) : TRUE
    BY <1>5, NamedIsAccepted
  <2>2. q \in Holding(FoundLists, <<RootAt(r, j).id, i>>)
    BY <1>5, HoldingIs
  <2>3. q \in DOMAIN FoundLists /\
        \E k \in DOMAIN FoundLists[q] : FoundLists[q][k].id = <<RootAt(r, j).id, i>>
    BY <2>2 DEF Holding
  <2>4. PICK k \in DOMAIN FoundLists[q] : FoundLists[q][k].id = <<RootAt(r, j).id, i>>
    BY <2>3
  <2>5. PICK x \in Range(d) : x.id = <<RootAt(r, j).id, i>>
    BY <1>1, <2>3, <2>4 DEF IsMerged
  <2>6. PICK s, t, u : IsNode(Searched, s, t, u) /\ Shows(x, s, t, u)
    BY <1>4
  <2>7. <<RootAt(s, t).id, u>> = <<RootAt(r, j).id, i>>
    BY <2>5, <2>6 DEF Shows
  <2>9. s = r /\ t = j /\ u = i
    BY <2>7, SameNode
  <2> QED
    BY <2>6, <2>9
<1>6. IsKept(d, Searched)
  BY <1>2, <1>4, <1>5 DEF IsKept
<1> QED
  BY <1>6 DEF d

-------------------------------------------------------------------------------
(* The invariant of a poll. *)

Syncs == ~AtTip(window[2], window[3]) /\ ~Refuses(window[1], window[2], window[3])

\* The rounds read from algod come after those searched for, and both are the
\* rounds that the result names.
LEMMA RoundsOfPoll ==
    ASSUME IsGiven, Syncs
    PROVE  /\ \E a, b \in Int : Read = a..b
           /\ Read \subseteq 1..window[3] /\ Searched \subseteq 1..window[3]
           /\ Searched \cup Read = StartRound(window[1], window[2], window[3])
                                       ..EndRound(window[1], window[2], window[3])
           /\ \A r \in Searched, s \in Read : r < s
           /\ \A r \in Searched \cup Read : r > window[2]
<1> DEFINE cfg == window[1]
           w == window[2]
           c == window[3]
<1>1. cfg \in SyncConfig /\ w \in Nat /\ c \in Nat
  BY WindowsAssumption DEF IsGiven
<1>2. ~AtTip(w, c) /\ ~Refuses(cfg, w, c)
  BY DEF Syncs
<1>3. IndexerRounds(cfg, w, c) \cup AlgodRounds(cfg, w, c)
                  = StartRound(cfg, w, c)..EndRound(cfg, w, c)
  BY <1>1, <1>2, WindowIsCovered
<1>4. /\ EndRound(cfg, w, c) \in w..c
      /\ StartRound(cfg, w, c) \in (w + 1)..(c + 1)
  BY <1>1, <1>2, WindowBounds
<1>5. Searched = IndexerRounds(cfg, w, c) /\ Read = AlgodRounds(cfg, w, c)
  BY DEF Searched, Read
<1> HIDE DEF cfg, w, c
<1>6. \A r \in Searched \cup Read : r \in Int /\ r > w /\ r \in 1..c
  BY <1>1, <1>3, <1>4, <1>5
<1>7. \E a, b \in Int : AlgodRounds(cfg, w, c) = a..b
  <2>1. CASE IndexerCapped(cfg, w, c)
    <3>1. AlgodRounds(cfg, w, c) = 1..0
      BY <2>1 DEF AlgodRounds
    <3> QED
      BY <3>1
  <2>2. CASE ~IndexerCapped(cfg, w, c)
    <3>1. AlgodRounds(cfg, w, c) = AlgodFrom(cfg, w, c)..EndRound(cfg, w, c)
      BY <2>2 DEF AlgodRounds
    <3>2. AlgodFrom(cfg, w, c) \in Int /\ EndRound(cfg, w, c) \in Int
      BY <1>1, <1>4 DEF AlgodFrom, IndexerTo, SyncConfig
    <3> QED
      BY <3>1, <3>2
  <2> QED
    BY <2>1, <2>2
<1>8. \A r \in IndexerRounds(cfg, w, c), s \in AlgodRounds(cfg, w, c) : r < s
  BY <1>1, <1>2 DEF SyncConfig, IndexerRounds, AlgodRounds, AlgodFrom, IndexerTo
<1> QED
  BY <1>3, <1>5, <1>6, <1>7, <1>8 DEF cfg, w, c

\* The transactions from the blocks.
LEMMA ReadIsKept ==
    ASSUME IsGiven, Syncs
    PROVE  IsKept(Filtered(SubscribedTxns(OfRounds(IndexedTxns, Read)), filters), Read)
<1> DEFINE roots == OfRounds(IndexedTxns, Read)
           s == Filtered(SubscribedTxns(roots), filters)
<1>1. PICK a \in Int, b \in Int : Read = a..b
  BY RoundsOfPoll
<1>2. Read \subseteq 1..window[3]
  BY RoundsOfPoll
<1>3. /\ AreRoots(roots) /\ InOrder(roots)
      /\ \A x : x \in Range(roots) <=> \E r \in Read : \E j \in 1..Count(r) : x = RootAt(r, j)
  BY <1>1, <1>2, RootsOfRounds
<1> HIDE DEF roots
<1>4. PICK fs : fs = filters
  OBVIOUS
<1>5. /\ s \in Seq(Range(s)) /\ Keyed(s) /\ Sorted(s)
      /\ \A x : x \in Range(s) <=>
            \E j \in DOMAIN roots : \E i \in 0..Len(roots[j].inner) :
                /\ NamesMatched(fs, NodeFacts(roots[j], i)) # <<>>
                /\ x = Accepted(fs, roots[j], i)
  BY <1>3, <1>4, FilteredOf
<1> HIDE DEF s
<1>6. \A r, j, i : Shows(Accepted(fs, RootAt(r, j), i), r, j, i)
  <2> TAKE r, j, i
  <2> DEFINE x == Accepted(fs, RootAt(r, j), i)
  <2>1. /\ IsTxn(x)
        /\ x.id = <<RootAt(r, j).id, i>> /\ x.round = RootAt(r, j).round
        /\ x.offset = RootAt(r, j).offset + i
        /\ x.facts = Facts(r, j, i) /\ x.matched = NamesMatched(fs, Facts(r, j, i))
        /\ x.inner = [m \in 1..NodeSize(RootAt(r, j), i) |-> AcceptedLeaf(fs, RootAt(r, j), i + m)]
    BY DEF IsTxn, Accepted, Facts
  <2>2. RootAt(r, j).round = r
    BY DEF RootAt
  <2>3. \A m : /\ AcceptedLeaf(fs, RootAt(r, j), i + m).id = <<RootAt(r, j).id, i + m>>
               /\ AcceptedLeaf(fs, RootAt(r, j), i + m).facts = Facts(r, j, i + m)
    BY DEF AcceptedLeaf, Facts
  <2> HIDE DEF x
  <2>4. Shows(x, r, j, i)
    BY <1>4, <2>1, <2>2, <2>3 DEF Shows
  <2> QED
    BY <2>4 DEF x
<1>7. ASSUME NEW x \in Range(s)
      PROVE  \E r, j, i :
                /\ IsNode(Read, r, j, i) /\ NamesMatched(filters, Facts(r, j, i)) # <<>>
                /\ Shows(x, r, j, i)
  <2>1. PICK l \in DOMAIN roots : \E i \in 0..Len(roots[l].inner) :
                /\ NamesMatched(fs, NodeFacts(roots[l], i)) # <<>>
                /\ x = Accepted(fs, roots[l], i)
    BY <1>5
  <2>2. PICK i \in 0..Len(roots[l].inner) :
                /\ NamesMatched(fs, NodeFacts(roots[l], i)) # <<>>
                /\ x = Accepted(fs, roots[l], i)
    BY <2>1
  <2>3. roots[l] \in Range(roots)
    BY DEF Range
  <2>4. PICK r \in Read : \E j \in 1..Count(r) : roots[l] = RootAt(r, j)
    BY <1>3, <2>3
  <2>5. PICK j \in 1..Count(r) : roots[l] = RootAt(r, j)
    BY <2>4
  <2>6. IsNode(Read, r, j, i) /\ NamesMatched(filters, Facts(r, j, i)) # <<>>
    BY <1>4, <2>2, <2>5 DEF IsNode, Facts
  <2>7. Shows(x, r, j, i)
    BY <1>6, <2>2, <2>5
  <2> QED
    BY <2>6, <2>7
<1>8. ASSUME NEW r, NEW j, NEW i, IsNode(Read, r, j, i),
             NamesMatched(filters, Facts(r, j, i)) # <<>>
      PROVE  \E x \in Range(s) : Shows(x, r, j, i)
  <2>1. r \in Read /\ j \in 1..Count(r) /\ i \in 0..Len(RootAt(r, j).inner)
    BY <1>8 DEF IsNode
  <2>2. RootAt(r, j) \in Range(roots)
    BY <1>3, <2>1
  <2>3. PICK l \in DOMAIN roots : roots[l] = RootAt(r, j)
    BY <2>2 DEF Range
  <2>4. NamesMatched(fs, NodeFacts(roots[l], i)) # <<>>
    BY <1>4, <1>8, <2>3 DEF Facts
  <2>5. Accepted(fs, roots[l], i) \in Range(s)
    BY <1>5, <2>1, <2>3, <2>4
  <2> QED
    BY <1>6, <2>3, <2>5
<1>9. IsKept(s, Read)
  BY <1>5, <1>7, <1>8 DEF IsKept
<1> QED
  BY <1>9 DEF s, roots

\* What is kept of earlier rounds, then of later ones, is what is kept of both.
LEMMA KeptTogether ==
    ASSUME NEW s, NEW A, IsKept(s, A), NEW t, NEW B, IsKept(t, B), NEW both, both = s \o t,
           \A r \in A, u \in B : r < u
    PROVE  IsKept(both, A \cup B)
<1> DEFINE m == Len(s)
           n == Len(t)
<1>1. /\ s \in Seq(Range(s)) /\ t \in Seq(Range(t)) /\ Keyed(s) /\ Keyed(t)
      /\ Sorted(s) /\ Sorted(t)
  BY DEF IsKept
<1>2. /\ m \in Nat /\ n \in Nat /\ DOMAIN s = 1..m /\ DOMAIN t = 1..n
      /\ both \in Seq(Range(s) \cup Range(t)) /\ Len(both) = m + n /\ DOMAIN both = 1..(m + n)
      /\ \A k \in 1..m : both[k] = s[k]
      /\ \A k \in (m + 1)..(m + n) : both[k] = t[k - m]
  BY <1>1
<1> HIDE DEF m, n
<1>3. Range(both) = Range(s) \cup Range(t)
  <2>1. \A k \in 1..m : both[k] = s[k] /\ k \in 1..(m + n)
    BY <1>2
  <2>2. \A k \in 1..n : k + m \in 1..(m + n) /\ both[k + m] = t[k]
    <3> SUFFICES ASSUME NEW k \in 1..n PROVE k + m \in 1..(m + n) /\ both[k + m] = t[k]
      OBVIOUS
    <3>1. k + m \in (m + 1)..(m + n) /\ (k + m) - m = k /\ k + m \in 1..(m + n)
      BY <1>2
    <3> QED
      BY <1>2, <3>1
  <2>3. Range(s) \subseteq Range(both)
    BY <1>2, <2>1 DEF Range
  <2>4. Range(t) \subseteq Range(both)
    <3> SUFFICES ASSUME NEW k \in 1..n PROVE t[k] \in Range(both)
      BY <1>2 DEF Range
    <3>1. k + m \in DOMAIN both /\ both[k + m] = t[k]
      BY <1>2, <2>2
    <3> QED
      BY <3>1 DEF Range
  <2>5. ASSUME NEW k \in 1..(m + n) PROVE both[k] \in Range(s) \cup Range(t)
    <3>1. CASE k \in 1..m
      BY <1>2, <3>1 DEF Range
    <3>2. CASE k \notin 1..m
      <4>1. k \in (m + 1)..(m + n) /\ k - m \in 1..n
        BY <1>2, <3>2
      <4> QED
        BY <1>2, <4>1 DEF Range
    <3> QED
      BY <3>1, <3>2
  <2>6. Range(both) \subseteq Range(s) \cup Range(t)
    BY <1>2, <2>5 DEF Range
  <2> QED
    BY <2>3, <2>4, <2>6
<1>4. both \in Seq(Range(both))
  BY <1>2, <1>3
<1>5. Keyed(both)
  <2>1. ASSUME NEW k \in 1..(m + n) PROVE both[k].round \in Nat /\ both[k].offset \in Nat
    <3>1. CASE k \in 1..m
      BY <1>1, <1>2, <3>1 DEF Keyed
    <3>2. CASE k \notin 1..m
      <4>1. k \in (m + 1)..(m + n) /\ k - m \in 1..n
        BY <1>2, <3>2
      <4> QED
        BY <1>1, <1>2, <4>1 DEF Keyed
    <3> QED
      BY <3>1, <3>2
  <2> QED
    BY <1>2, <2>1 DEF Keyed
<1>6. \A x \in Range(s), y \in Range(t) : Earlier(x, y)
  <2> SUFFICES ASSUME NEW x \in Range(s), NEW y \in Range(t) PROVE Earlier(x, y)
    OBVIOUS
  <2>1. PICK r, j, i : IsNode(A, r, j, i) /\ Shows(x, r, j, i)
    BY DEF IsKept
  <2>2. PICK u, k, l : IsNode(B, u, k, l) /\ Shows(y, u, k, l)
    BY DEF IsKept
  <2>3. r < u /\ x.round = r /\ y.round = u
    BY <2>1, <2>2 DEF IsNode, Shows
  <2> QED
    BY <2>3 DEF Earlier
<1>7. Sorted(both)
  <2> SUFFICES ASSUME NEW k \in 1..(m + n), NEW l \in 1..(m + n), k < l
               PROVE  Earlier(both[k], both[l])
    BY <1>2 DEF Sorted
  <2>1. CASE l \in 1..m
    <3>1. k \in 1..m
      BY <1>2, <2>1
    <3> QED
      BY <1>1, <1>2, <2>1, <3>1 DEF Sorted
  <2>2. CASE k \notin 1..m
    <3>1. /\ k \in (m + 1)..(m + n) /\ l \in (m + 1)..(m + n)
          /\ k - m \in 1..n /\ l - m \in 1..n /\ k - m < l - m
      BY <1>2, <2>2
    <3>2. Earlier(t[k - m], t[l - m])
      BY <1>1, <1>2, <3>1 DEF Sorted
    <3> QED
      BY <1>2, <3>1, <3>2
  <2>3. CASE k \in 1..m /\ l \notin 1..m
    <3>1. l \in (m + 1)..(m + n) /\ l - m \in 1..n
      BY <1>2, <2>3
    <3>2. both[k] \in Range(s) /\ both[l] \in Range(t)
      BY <1>2, <2>3, <3>1 DEF Range
    <3> QED
      BY <1>6, <3>2
  <2> QED
    BY <2>1, <2>2, <2>3
<1>8. \A r, j, i : IsNode(A \cup B, r, j, i) <=> IsNode(A, r, j, i) \/ IsNode(B, r, j, i)
  BY DEF IsNode
<1>9. ASSUME NEW x \in Range(both)
      PROVE  \E r, j, i :
                /\ IsNode(A \cup B, r, j, i) /\ NamesMatched(filters, Facts(r, j, i)) # <<>>
                /\ Shows(x, r, j, i)
  <2>1. CASE x \in Range(s)
    BY <1>8, <2>1 DEF IsKept
  <2>2. CASE x \in Range(t)
    BY <1>8, <2>2 DEF IsKept
  <2> QED
    BY <1>3, <2>1, <2>2
<1>10. ASSUME NEW r, NEW j, NEW i, IsNode(A \cup B, r, j, i),
             NamesMatched(filters, Facts(r, j, i)) # <<>>
      PROVE  \E x \in Range(both) : Shows(x, r, j, i)
  <2>1. CASE IsNode(A, r, j, i)
    <3>1. PICK x \in Range(s) : Shows(x, r, j, i)
      BY <1>10, <2>1 DEF IsKept
    <3> QED
      BY <1>3, <3>1
  <2>2. CASE IsNode(B, r, j, i)
    <3>1. PICK x \in Range(t) : Shows(x, r, j, i)
      BY <1>10, <2>2 DEF IsKept
    <3> QED
      BY <1>3, <3>1
  <2> QED
    BY <1>8, <1>10, <2>1, <2>2
<1> QED
  BY <1>4, <1>5, <1>7, <1>9, <1>10 DEF IsKept

\* What the searches for the first n filters found.
Found(n) == Joined([q \in 1..n |-> FoundBy(filters[q])])

\* catchup_transactions once it is merged.
Merged ==
    IF CatchesUp(window[1], window[2], window[3])
    THEN Deduplicated(SortedTxns(Joined(FoundLists))) ELSE <<>>

BlocksRead ==
    /\ Len(blocks) \in Nat /\ Len(blocks) <= Cardinality(Read)
    /\ blocks = [i \in 1..Len(blocks) |-> chain[Min(Read) + i - 1]]

\* What the poll keeps of both sources.
Kept == Merged \o Filtered(SubscribedTxns(OfRounds(IndexedTxns, Read)), filters)

Reported == [i \in DOMAIN Kept |-> WithExtraFields(Kept[i])]

Clean == \A txn \in Range(Kept) : ~Raises(txn)

ResultAtTip ==
    /\ AtTip(window[2], window[3])
    /\ result = TransactionSubscriptionResult(<<window[3], window[3]>>, window[2], <<>>, <<>>)

ResultOfSync ==
    /\ Syncs /\ BlocksRead /\ Len(blocks) = Cardinality(Read)
    /\ Clean
    /\ result = TransactionSubscriptionResult(
                    <<StartRound(window[1], window[2], window[3]),
                      EndRound(window[1], window[2], window[3])>>,
                    EndRound(window[1], window[2], window[3]),
                    Reported, [i \in DOMAIN blocks |-> Metadata(blocks[i])])

PollInv ==
    /\ SearchInv
    /\ pc = "begin" => catchup = <<>> /\ blocks = <<>>
    /\ pc \in {"request", "map", "merge", "blocks"} => Syncs
    /\ pc \in {"request", "map", "merge"} =>
          /\ CatchesUp(window[1], window[2], window[3])
          /\ blocks = <<>> /\ catchup = Found(current - 1)
    /\ pc = "merge" => current = Len(filters) + 1
    /\ pc = "blocks" => catchup = Merged /\ BlocksRead
    /\ pc = "done" => ResultAtTip \/ ResultOfSync

\* What a filter keeps of its answer depends only on what the poll is given.
LEMMA FoundByUnchanged ==
    ASSUME UNCHANGED given, NEW f
    PROVE  FoundBy(f)' = FoundBy(f)
<1>1. groups' = groups
  BY DEF given
<1>2. Answer(f)' = Answer(f)
  BY AnswerUnchanged
<1> QED
  BY <1>1, <1>2 DEF FoundBy, Filtered, WithNames, NamesMatched

\* So does what the searches find.
LEMMA FoundUnchanged ==
    ASSUME UNCHANGED given
    PROVE  \A n : Found(n)' = Found(n)
<1>1. filters' = filters
  BY DEF given
<1> QED
  BY <1>1, FoundByUnchanged DEF Found

\* So does the merge.
LEMMA MergedUnchanged ==
    ASSUME UNCHANGED given
    PROVE  Merged' = Merged
<1>1. filters' = filters /\ window' = window
  BY DEF given
<1> QED
  BY <1>1, FoundByUnchanged DEF Merged, FoundLists

\* So does what the poll keeps, and whether and what it reads.
LEMMA KeptUnchanged ==
    ASSUME UNCHANGED given
    PROVE  Kept' = Kept /\ Syncs' = Syncs /\ Read' = Read
<1>1. Merged' = Merged
  BY MergedUnchanged
<1>2. Filtered(SubscribedTxns(OfRounds(IndexedTxns, Read)), filters)'
          = Filtered(SubscribedTxns(OfRounds(IndexedTxns, Read)), filters)
  BY DEF given, Filtered, WithNames, NamesMatched, OfRounds, IndexedTxns, Roots, Read
<1>3. Syncs' = Syncs /\ Read' = Read
  BY DEF given, Syncs, Read
<1> QED
  BY <1>1, <1>2, <1>3 DEF Kept

\* The search for the next filter adds what that filter finds.
LEMMA FoundMore ==
    ASSUME IsGiven, CatchesUp(window[1], window[2], window[3]), NEW n \in 1..Len(filters)
    PROVE  Found(n) = Found(n - 1) \o FoundBy(filters[n])
<1> DEFINE lists == [q \in 1..(n - 1) |-> FoundBy(filters[q])]
           more == [q \in 1..n |-> FoundBy(filters[q])]
           last == FoundBy(filters[n])
<1>1. Len(filters) \in Nat /\ DOMAIN filters = 1..Len(filters) /\ n \in Nat /\ n - 1 \in Nat
  BY GivenFilters
<1>2. ASSUME NEW q \in 1..n PROVE FoundBy(filters[q]) \in Seq(Range(FoundBy(filters[q])))
  <2>1. q \in 1..Len(filters)
    BY <1>1
  <2>2. IsFilter(filters[q].filter)
    BY <2>1, GivenFilters
  <2>3. PICK f : f = filters[q]
    OBVIOUS
  <2>4. LET s == FoundBy(f) IN s \in Seq(Range(s))
    BY <2>2, <2>3, FoundByIs
  <2> QED
    BY <2>3, <2>4
<1>3. more = [q \in 1..n |-> more[q]] /\ \A q \in 1..n : more[q] = FoundBy(filters[q])
  OBVIOUS
<1>4. lists = [q \in 1..(n - 1) |-> lists[q]] /\ \A q \in 1..(n - 1) : lists[q] = FoundBy(filters[q])
  OBVIOUS
<1> HIDE DEF more, lists
<1>5. PICK S : more \in Seq(Seq(S)) /\ DOMAIN more = 1..n
  <2>1. \A q \in 1..n : more[q] \in Seq(Range(more[q]))
    BY <1>2, <1>3
  <2> QED
    BY <1>1, <1>3, <2>1, SeqOfLists
<1>6. last = more[n] /\ last \in Seq(S)
  BY <1>1, <1>3, <1>5
<1>7. lists \in Seq(Seq(S)) /\ Len(lists) = n - 1
  <2>1. \A q \in 1..(n - 1) : lists[q] = more[q] /\ q \in 1..n
    BY <1>1, <1>3, <1>4
  <2>2. lists \in [1..(n - 1) -> Seq(S)]
    BY <1>4, <1>5, <2>1
  <2> QED
    BY <1>1, <2>2, FunctionIsSeq
<1> HIDE DEF last
<1>8. more = Append(lists, last)
  <2>1. Append(lists, last) \in Seq(Seq(S)) /\ Len(Append(lists, last)) = n
        /\ \A q \in 1..(n - 1) : Append(lists, last)[q] = lists[q]
        /\ Append(lists, last)[n] = last
    BY <1>1, <1>6, <1>7
  <2>2. \A q \in 1..n : q = n \/ q \in 1..(n - 1)
    BY <1>1
  <2>3. \A q \in 1..n : Append(lists, last)[q] = more[q]
    BY <1>3, <1>4, <1>6, <2>1, <2>2
  <2>4. Len(more) = n
    BY <1>1, <1>5
  <2> QED
    BY <1>5, <2>1, <2>3, <2>4, SameMembers
<1>9. Joined(Append(lists, last)) = Joined(lists) \o last
  BY <1>6, <1>7, JoinedAppend
<1>10. Found(n) = Joined(more) /\ Found(n - 1) = Joined(lists)
  BY DEF Found, more, lists
<1> QED
  BY <1>8, <1>9, <1>10 DEF last

\* Nothing is found before the first search.
LEMMA FoundNone == Found(0) = <<>>
<1>1. [q \in 1..0 |-> FoundBy(filters[q])] = <<>>
  OBVIOUS
<1> QED
  BY <1>1, JoinedEmpty DEF Found

\* After the last search all lists are there.
LEMMA FoundAll ==
    ASSUME IsGiven
    PROVE  Found(Len(filters)) = Joined(FoundLists)
<1>1. DOMAIN filters = 1..Len(filters)
  BY GivenFilters
<1> QED
  BY <1>1 DEF Found, FoundLists

\* What the poll reports depends only on what it is given.
LEMMA ReportedUnchanged ==
    ASSUME UNCHANGED given
    PROVE  Reported' = Reported /\ Clean' = Clean
<1>1. Kept' = Kept /\ groups' = groups
  BY KeptUnchanged DEF given
<1> QED
  BY <1>1 DEF Reported, Clean, WithExtraFields, Raises

\* There is a number of rounds to read.
LEMMA CountOfRead ==
    ASSUME IsGiven, Syncs
    PROVE  Cardinality(Read) \in Nat
<1>1. PICK a \in Int, b \in Int : Read = a..b
  BY RoundsOfPoll
<1> QED
  BY <1>1, FS_Interval, FS_CardinalityType

\* The next block that is read is that of the next round.
LEMMA NextBlock ==
    ASSUME IsGiven, Syncs, BlocksRead, Len(blocks) < Cardinality(Read), chain' = chain, Read' = Read,
           blocks' = Append(blocks, chain[Min(Read) + Len(blocks)])
    PROVE  BlocksRead'
<1> DEFINE n == Len(blocks)
           m == Min(Read)
<1>1. PICK a \in Int, b \in Int : Read = a..b
  BY RoundsOfPoll
<1>2. Cardinality(Read) = IF a > b THEN 0 ELSE b - a + 1
  BY <1>1, FS_Interval
<1>3. n \in Nat /\ blocks = [i \in 1..n |-> chain[m + i - 1]]
  BY DEF BlocksRead
<1>4. a <= b
  BY <1>2, <1>3
<1>5. m = a
  BY <1>1, <1>4, MinOfInterval
<1>6. Cardinality(Read) \in Nat /\ n + 1 <= Cardinality(Read)
  BY <1>2, <1>3, <1>4
<1>7. blocks' = [i \in 1..(n + 1) |-> chain[m + i - 1]]
  <2> DEFINE next == [i \in 1..(n + 1) |-> chain[m + i - 1]]
             x == chain[m + n]
             S == {chain[m + i - 1] : i \in 1..(n + 1)}
  <2>1. m + (n + 1) - 1 = m + n
    BY <1>3, <1>5
  <2>2. next \in [1..(n + 1) -> S] /\ next[n + 1] = x
        /\ \A i \in 1..n : next[i] = chain[m + i - 1] /\ i \in 1..(n + 1)
    BY <1>3, <2>1
  <2>3. next \in Seq(S) /\ Len(next) = n + 1
    <3>1. n + 1 \in Nat
      BY <1>3
    <3>2. next \in [1..(n + 1) -> S]
      BY <2>2
    <3> HIDE DEF next, S, n
    <3> QED
      BY <3>1, <3>2, FunctionIsSeq
  <2>4. x \in S /\ \A i \in 1..n : blocks[i] = next[i] /\ blocks[i] \in S
    BY <1>3, <2>2
  <2>5. blocks \in [1..n -> S]
    BY <1>3, <2>4
  <2>6. blocks \in Seq(S)
    BY <1>3, <2>5, FunctionIsSeq
  <2> HIDE DEF next, x, S, n, m
  <2>7. /\ Append(blocks, x) \in Seq(S) /\ Len(Append(blocks, x)) = n + 1
        /\ Append(blocks, x)[n + 1] = x
        /\ \A i \in 1..n : Append(blocks, x)[i] = blocks[i]
    BY <1>3, <2>4, <2>6 DEF n
  <2>8. \A i \in 1..(n + 1) : i = n + 1 \/ i \in 1..n
    BY <1>3
  <2>9. \A i \in 1..(n + 1) : Append(blocks, x)[i] = next[i]
    BY <2>2, <2>4, <2>7, <2>8
  <2>10. Append(blocks, x) = next
    BY <2>3, <2>7, <2>9, SameMembers
  <2> QED
    BY <2>10 DEF next, x, n, m
<1> HIDE DEF n, m
<1>8. Len(blocks') = n + 1
  BY <1>3, <1>7
<1>9. blocks' = [i \in 1..Len(blocks') |-> chain'[Min(Read') + i - 1]]
  BY <1>7, <1>8 DEF m
<1> QED
  BY <1>3, <1>6, <1>8, <1>9 DEF BlocksRead

\* The transactions that the poll makes of the blocks it has read.
LEMMA BlocksAsIndexed ==
    ASSUME IsGiven, Syncs, BlocksRead, Len(blocks) = Cardinality(Read)
    PROVE  [i \in DOMAIN blocks |-> AlgodTxns(blocks[i])]
               = [i \in 1..Cardinality(Read) |-> IndexedTxns(Min(Read) + i - 1)]
<1> DEFINE n == Cardinality(Read)
           m == Min(Read)
<1>1. PICK a \in Int, b \in Int : Read = a..b
  BY RoundsOfPoll
<1>2. n = IF a > b THEN 0 ELSE b - a + 1
  BY <1>1, FS_Interval
<1>3. blocks = [i \in 1..n |-> chain[m + i - 1]]
  BY DEF BlocksRead
<1>4. Read \subseteq 1..window[3]
  BY RoundsOfPoll
<1>5. ASSUME NEW i \in 1..n PROVE AlgodTxns(blocks[i]) = IndexedTxns(m + i - 1)
  <2>1. a <= b
    BY <1>2
  <2>2. m = a
    BY <1>1, <2>1, MinOfInterval
  <2>3. PICK r : r = m + i - 1
    OBVIOUS
  <2>4. r \in Read
    BY <1>1, <1>2, <2>1, <2>2, <2>3
  <2>5. AlgodTxns(chain[r]) = IndexedTxns(r)
    BY <1>4, <2>4, BlockIsAsIndexed
  <2>6. blocks[i] = chain[r]
    BY <1>3, <2>3
  <2> QED
    BY <2>3, <2>5, <2>6
<1>6. DOMAIN blocks = 1..n
  BY <1>3
<1> HIDE DEF n, m
<1>7. [i \in DOMAIN blocks |-> AlgodTxns(blocks[i])] = [i \in 1..n |-> IndexedTxns(m + i - 1)]
  BY <1>5, <1>6
<1> QED
  BY <1>7 DEF n, m

\* The invariant holds at the start.
LEMMA PollInvInit == Init => PollInv
<1> SUFFICES ASSUME Init PROVE PollInv
  OBVIOUS
<1>1. SearchInv /\ pc = "begin" /\ catchup = <<>> /\ blocks = <<>>
  BY SearchInvInit DEF Init
<1> QED
  BY <1>1 DEF PollInv

\* Each step keeps the invariant.
LEMMA PollInvNext == PollInv /\ [Next]_vars => PollInv'
<1> SUFFICES ASSUME PollInv, [Next]_vars PROVE PollInv'
  OBVIOUS
<1>1. UNCHANGED given
  BY DEF Next, vars, given, ReturnAtTip, Begin, RequestPage, MapAndFilter, Merge, ReadBlock,
         Finish, Done
<1>2. SearchInv /\ SearchInv' /\ IsGiven
  BY SearchInvNext DEF PollInv, SearchInv
<1>3. window' = window /\ filters' = filters /\ chain' = chain
  BY <1>1 DEF given
<1>4. /\ \A n : Found(n)' = Found(n)
      /\ Merged' = Merged /\ Kept' = Kept /\ Syncs' = Syncs /\ Read' = Read
      /\ Reported' = Reported /\ Clean' = Clean
  BY <1>1, FoundUnchanged, MergedUnchanged, KeptUnchanged, ReportedUnchanged
<1>5. Len(filters) \in Nat /\ 1 <= Len(filters) /\ current \in 1..(Len(filters) + 1)
  BY <1>2, GivenFilters DEF SearchInv
<1>6. /\ (blocks' = blocks => BlocksRead' = BlocksRead)
  BY <1>3, <1>4 DEF BlocksRead
<1>7. ASSUME Begin PROVE PollInv'
  <2>1. /\ pc = "begin" /\ catchup = <<>> /\ blocks = <<>> /\ current = 1
        /\ UNCHANGED <<current, catchup, blocks>>
        /\ ~AtTip(window[2], window[3])
        /\ pc' = IF Refuses(window[1], window[2], window[3]) THEN "raised"
             ELSE IF CatchesUp(window[1], window[2], window[3]) THEN "request" ELSE "blocks"
    BY <1>2, <1>7 DEF Begin, PollInv, SearchInv
  <2>2. CASE pc' = "raised"
    BY <1>2, <2>2 DEF PollInv
  <2>3. CASE pc' = "request"
    <3>1. Syncs /\ CatchesUp(window[1], window[2], window[3])
      BY <2>1, <2>3 DEF Syncs
    <3>2. catchup' = Found(0) /\ current' - 1 = 0
      BY <2>1, FoundNone
    <3> QED
      BY <1>2, <1>3, <1>4, <2>1, <2>3, <3>1, <3>2 DEF PollInv
  <2>4. CASE pc' = "blocks"
    <3>1. Syncs /\ ~CatchesUp(window[1], window[2], window[3])
      BY <2>1, <2>4 DEF Syncs
    <3>2. catchup' = Merged
      BY <2>1, <3>1 DEF Merged
    <3>3. BlocksRead
      <4>1. Cardinality(Read) \in Nat
        BY <1>2, <3>1, CountOfRead
      <4> QED
        BY <2>1, <4>1 DEF BlocksRead
    <3> QED
      BY <1>2, <1>4, <1>6, <2>1, <2>4, <3>1, <3>2, <3>3 DEF PollInv
  <2> QED
    BY <2>1, <2>2, <2>3, <2>4
<1>8. ASSUME RequestPage PROVE PollInv'
  <2>1. /\ pc = "request" /\ pc' \in {"request", "map"}
        /\ UNCHANGED <<current, catchup, blocks>>
    BY <1>8 DEF RequestPage
  <2> QED
    BY <1>2, <1>3, <1>4, <2>1 DEF PollInv
<1>9. ASSUME MapAndFilter PROVE PollInv'
  <2>1. /\ pc = "map" /\ current' = current + 1 /\ blocks' = blocks
        /\ catchup' = catchup \o Filtered(SubscribedTxns(rows), <<filters[current]>>)
        /\ pc' = IF current = Len(filters) THEN "merge" ELSE "request"
    BY <1>9 DEF MapAndFilter
  <2>2. /\ CatchesUp(window[1], window[2], window[3]) /\ current \in 1..Len(filters)
        /\ rows = Answer(filters[current]) /\ catchup = Found(current - 1) /\ blocks = <<>> /\ Syncs
    BY <2>1 DEF PollInv, SearchInv
  <2>3. catchup' = Found(current)
    <3>1. PICK k : k = current
      OBVIOUS
    <3>2. Found(k) = Found(k - 1) \o FoundBy(filters[k])
      BY <1>2, <2>2, <3>1, FoundMore
    <3> QED
      BY <2>1, <2>2, <3>1, <3>2 DEF FoundBy
  <2>4. current' - 1 = current
    BY <2>1, <2>2
  <2>5. Found(current - 1)' = Found(current)
    <3>1. PICK k : k = current
      OBVIOUS
    <3>2. Found(k)' = Found(k)
      BY <1>4
    <3> QED
      BY <2>4, <3>1, <3>2 DEF Found
  <2> QED
    BY <1>2, <1>3, <1>4, <2>1, <2>2, <2>3, <2>4, <2>5 DEF PollInv
<1>10. ASSUME Merge PROVE PollInv'
  <2>1. /\ pc = "merge" /\ pc' = "blocks" /\ catchup' = Deduplicated(SortedTxns(catchup))
        /\ blocks' = blocks
    BY <1>10 DEF Merge
  <2>2. /\ CatchesUp(window[1], window[2], window[3]) /\ Syncs
        /\ catchup = Found(current - 1) /\ current - 1 = Len(filters) /\ blocks = <<>>
    BY <1>5, <2>1 DEF PollInv
  <2>3. catchup = Joined(FoundLists)
    BY <1>2, <2>2, FoundAll
  <2>4. catchup' = Merged
    BY <2>1, <2>2, <2>3 DEF Merged
  <2>5. BlocksRead
    <3>1. Cardinality(Read) \in Nat
      BY <1>2, <2>2, CountOfRead
    <3> QED
      BY <2>2, <3>1 DEF BlocksRead
  <2> QED
    BY <1>2, <1>4, <1>6, <2>1, <2>2, <2>4, <2>5 DEF PollInv
<1>11. ASSUME ReadBlock PROVE PollInv'
  <2>1. /\ pc = "blocks" /\ pc' = pc /\ catchup' = catchup
        /\ Len(blocks) < Cardinality(Read)
        /\ blocks' = Append(blocks, chain[Min(Read) + Len(blocks)])
    BY <1>11 DEF ReadBlock
  <2>2. Syncs /\ catchup = Merged /\ BlocksRead
    BY <2>1 DEF PollInv
  <2>3. BlocksRead'
    BY <1>2, <1>3, <1>4, <2>1, <2>2, NextBlock
  <2> QED
    BY <1>2, <1>4, <2>1, <2>2, <2>3 DEF PollInv
<1>12. ASSUME Finish PROVE PollInv'
  <2>1. pc = "blocks" /\ Len(blocks) = Cardinality(Read) /\ blocks' = blocks
    BY <1>12 DEF Finish
  <2>2. Syncs /\ catchup = Merged /\ BlocksRead
    BY <2>1 DEF PollInv
  <2>3. [i \in DOMAIN blocks |-> AlgodTxns(blocks[i])]
            = [i \in 1..Cardinality(Read) |-> IndexedTxns(Min(Read) + i - 1)]
    BY <1>2, <2>1, <2>2, BlocksAsIndexed
  <2>4. catchup \o Filtered(SubscribedTxns(Joined([i \in DOMAIN blocks |-> AlgodTxns(blocks[i])])), filters)
            = Kept
    BY <2>2, <2>3 DEF Kept, OfRounds
  <2>5. CASE pc' = "raised"
    BY <1>2, <2>5 DEF PollInv
  <2>6. CASE pc' = "done"
    <3>1. /\ Clean
          /\ result' = TransactionSubscriptionResult(
                     <<StartRound(window[1], window[2], window[3]),
                       EndRound(window[1], window[2], window[3])>>,
                     EndRound(window[1], window[2], window[3]),
                     Reported, [i \in DOMAIN blocks |-> Metadata(blocks[i])])
      BY <1>12, <2>4, <2>6 DEF Finish, Clean, Reported
    <3>2. ResultOfSync'
      BY <1>3, <1>4, <1>6, <2>1, <2>2, <3>1 DEF ResultOfSync, TransactionSubscriptionResult
    <3> QED
      BY <1>2, <2>6, <3>2 DEF PollInv
  <2> QED
    BY <1>12, <2>5, <2>6 DEF Finish
<1>13. ASSUME ReturnAtTip PROVE PollInv'
  <2>1. /\ AtTip(window[2], window[3]) /\ pc' = "done"
        /\ result' = TransactionSubscriptionResult(<<window[3], window[3]>>, window[2], <<>>, <<>>)
    BY <1>13 DEF ReturnAtTip
  <2>2. ResultAtTip'
    BY <1>3, <2>1 DEF ResultAtTip, TransactionSubscriptionResult
  <2> QED
    BY <1>2, <2>1, <2>2 DEF PollInv
<1>14. ASSUME UNCHANGED vars PROVE PollInv'
  <2>1. UNCHANGED <<pc, current, token, rows, catchup, blocks, result>>
    BY <1>14 DEF vars
  <2>2. (ResultAtTip \/ ResultOfSync) => (ResultAtTip' \/ ResultOfSync')
    BY <1>3, <1>4, <1>6, <2>1 DEF ResultAtTip, ResultOfSync, TransactionSubscriptionResult
  <2>3. \A n : Found(n)' = Found(n)
    BY <1>4
  <2>4. Found(current - 1)' = Found(current - 1)
    <3>1. PICK k : k = current - 1
      OBVIOUS
    <3>2. Found(k)' = Found(k)
      BY <2>3
    <3> QED
      BY <2>1, <3>1, <3>2 DEF Found
  <2> QED
    BY <1>2, <1>3, <1>4, <1>6, <2>1, <2>2, <2>4 DEF PollInv
<1> QED
  BY <1>7, <1>8, <1>9, <1>10, <1>11, <1>12, <1>13, <1>14 DEF Next, Done

-------------------------------------------------------------------------------
(* The result of a poll. *)

\* Of no rounds nothing is kept.
LEMMA NothingIsKept ==
    ASSUME NEW rounds, rounds = {}
    PROVE  IsKept(<<>>, rounds)
<1>1. <<>> \in Seq(Range(<<>>)) /\ DOMAIN <<>> = {} /\ Range(<<>>) = {}
  BY DEF Range
<1>2. \A r, j, i : ~IsNode(rounds, r, j, i)
  BY DEF IsNode
<1> QED
  BY <1>1, <1>2 DEF IsKept, Keyed, Sorted

\* What a poll keeps: each node of its rounds that some filter accepts, once.
LEMMA KeptIs ==
    ASSUME IsGiven, Syncs
    PROVE  IsKept(Kept, StartRound(window[1], window[2], window[3])
                            ..EndRound(window[1], window[2], window[3]))
<1> DEFINE t == Filtered(SubscribedTxns(OfRounds(IndexedTxns, Read)), filters)
<1>1. IsKept(Merged, Searched)
  <2>1. CASE CatchesUp(window[1], window[2], window[3])
    BY <2>1, MergedIsKept DEF Merged
  <2>2. CASE ~CatchesUp(window[1], window[2], window[3])
    <3>1. Merged = <<>> /\ Searched = {}
      BY <2>2 DEF Merged, Searched, IndexerRounds
    <3> QED
      BY <3>1, NothingIsKept
  <2> QED
    BY <2>1, <2>2
<1>2. IsKept(t, Read)
  BY ReadIsKept
<1>3. Kept = Merged \o t
  BY DEF Kept
<1>4. \A r \in Searched, s \in Read : r < s
  BY RoundsOfPoll
<1> HIDE DEF t
<1>5. IsKept(Kept, Searched \cup Read)
  BY <1>1, <1>2, <1>3, <1>4, KeptTogether
<1> QED
  BY <1>5, RoundsOfPoll

-------------------------------------------------------------------------------
(* What the poll should keep, in rows. *)

WantedOfRoot(r, j) ==
    LET root == Roots(r)[j]
        nodes == <<[facts |-> root.facts, size |-> Len(root.inner)]>> \o root.inner
        id(i) == << <<r, j>>, i - 1>>
    IN  [i \in DOMAIN nodes |->
            [id |-> id(i), round |-> r,
             offset |-> Size(SubSeq(chain[r].payset, 1, j - 1)) + i - 1,
             facts |-> nodes[i].facts, matched |-> NamesMatched(filters, nodes[i].facts),
             inner |-> [k \in 1..nodes[i].size |-> id(i + k)]]]

WantedOfRound(r) == Joined([j \in DOMAIN Roots(r) |-> WantedOfRoot(r, j)])

\* What a poll should return, as a selection from the rows of the rounds it
\* names.
LEMMA WantedIs ==
    ASSUME NEW rounds,
           rounds = {r \in result.syncedRoundRange[1]..result.newWatermark :
                        r > result.startingWatermark}
    PROVE  LET all == OfRounds(WantedOfRound, rounds)
           IN  Wanted = Selected(all, {i \in DOMAIN all : all[i].matched # <<>>})
BY DEF Wanted, WantedOfRound, WantedOfRoot

\* The inner transactions of a root are a list.
LEMMA RootInner ==
    ASSUME IsGiven, NEW r \in 1..window[3], NEW j \in 1..Count(r)
    PROVE  LET inner == RootAt(r, j).inner IN inner = [k \in 1..Len(inner) |-> inner[k]]
<1> DEFINE payset == chain[r].payset
           n == Len(payset)
           inner == RootAt(r, j).inner
<1>1. n \in Nat /\ DOMAIN payset = 1..n /\ \A k \in 1..n : payset[k] \in Trees
  BY BlockOfRound
<1>2. CASE j <= n
  <2>1. j \in 1..n
    <3>1. Count(r) \in Nat
      BY RootsAre
    <3> HIDE DEF n
    <3> QED
      BY <1>1, <1>2, <3>1
  <2>2. payset[j] \in Trees /\ inner = Inner(payset[j])
    BY <1>1, <1>2, <2>1 DEF RootAt
  <2>3. PICK t \in Trees : t = payset[j]
    BY <2>2
  <2>4. Inner(t) = [k \in 1..Len(Below[t]) |-> Inner(t)[k]] /\ Len(Inner(t)) = Len(Below[t])
    BY InnerIs
  <2> HIDE DEF inner
  <2> QED
    BY <2>2, <2>3, <2>4 DEF inner
<1>3. CASE ~(j <= n)
  <2>1. inner = <<>>
    BY <1>3 DEF RootAt
  <2>2. <<>> = [k \in 1..Len(<<>>) |-> <<>>[k]]
    OBVIOUS
  <2> HIDE DEF inner
  <2> QED
    BY <2>1, <2>2 DEF inner
<1> QED
  BY <1>2, <1>3

\* The rows of a root are those of its nodes.
LEMMA WantedOfRootIs ==
    ASSUME IsGiven, NEW r \in 1..window[3], NEW j \in 1..Count(r)
    PROVE  WantedOfRoot(r, j) =
               [i \in 1..(1 + Len(RootAt(r, j).inner)) |-> NodeRow(r, j, i - 1)]
<1> DEFINE x == RootAt(r, j)
           n == Len(x.inner)
           root == Roots(r)[j]
           nodes == <<[facts |-> root.facts, size |-> Len(root.inner)]>> \o root.inner
           before == Size(SubSeq(chain[r].payset, 1, j - 1))
           id(i) == << <<r, j>>, i - 1>>
           row(i) == [id |-> id(i), round |-> r, offset |-> before + i - 1,
                      facts |-> nodes[i].facts, matched |-> NamesMatched(filters, nodes[i].facts),
                      inner |-> [k \in 1..nodes[i].size |-> id(i + k)]]
<1>1. root.facts = x.facts /\ root.inner = x.inner
  BY RootsAre
<1>2. IsRoot(x) /\ x.id = <<r, j>> /\ x.offset = before /\ x.round = r
  BY RootAtIsRoot DEF RootAt
<1>3. WantedOfRoot(r, j) = [i \in DOMAIN nodes |-> row(i)]
  BY DEF WantedOfRoot
<1>4. before \in Int /\ n \in Nat /\ DOMAIN x.inner = 1..n
  BY <1>2 DEF IsRoot
<1> HIDE DEF x, root, before
<1>5. /\ DOMAIN nodes = 1..(1 + n)
      /\ \A i \in 0..n : nodes[1 + i].facts = NodeFacts(x, i) /\ nodes[1 + i].size = NodeSize(x, i)
  <2>1. x.inner \in Seq(Range(x.inner))
    <3>1. x.inner = [k \in 1..n |-> x.inner[k]]
      BY RootInner DEF x
    <3>2. x.inner \in [1..n -> Range(x.inner)]
      BY <1>4, <3>1 DEF Range
    <3> QED
      BY <1>4, <3>2, FunctionIsSeq
  <2> DEFINE head == [facts |-> root.facts, size |-> Len(root.inner)]
  <2>2. head.facts = NodeFacts(x, 0) /\ head.size = NodeSize(x, 0)
    BY <1>1 DEF NodeFacts, NodeSize
  <2>3. nodes = <<head>> \o x.inner
    BY <1>1
  <2> HIDE DEF head
  <2>4. /\ DOMAIN nodes = 1..(1 + n) /\ nodes[1] = head
        /\ \A i \in 1..n : nodes[1 + i] = x.inner[i]
    BY <1>4, <2>1, <2>3
  <2>5. ASSUME NEW i \in 0..n
        PROVE  nodes[1 + i].facts = NodeFacts(x, i) /\ nodes[1 + i].size = NodeSize(x, i)
    <3>1. CASE i = 0
      BY <2>2, <2>4, <3>1
    <3>2. CASE i # 0
      <4>1. i \in 1..n
        BY <1>4, <3>2
      <4> QED
        BY <2>4, <3>2, <4>1 DEF NodeFacts, NodeSize
    <3> QED
      BY <3>1, <3>2
  <2> QED
    BY <2>4, <2>5
<1> HIDE DEF nodes
<1>6. ASSUME NEW i \in 1..(1 + n) PROVE row(i) = NodeRow(r, j, i - 1)
  <2> DEFINE m == i - 1
  <2>1. m \in 0..n /\ 1 + m = i /\ i \in Int
    BY <1>4
  <2>2. nodes[i].facts = NodeFacts(x, m) /\ nodes[i].size = NodeSize(x, m)
    BY <1>5, <2>1
  <2>3. id(i) = <<x.id, m>>
    BY <1>2
  <2>4. \A k \in 1..NodeSize(x, m) : id(i + k) = <<x.id, m + k>>
    <3>1. NodeSize(x, m) \in Nat
      BY <1>2, <2>1, NodeOfRoot DEF n
    <3>2. \A k \in 1..NodeSize(x, m) : (i + k) - 1 = m + k
      BY <2>1, <3>1
    <3> QED
      BY <1>2, <3>2
  <2>5. before + i - 1 = x.offset + m
    BY <1>2, <1>4, <2>1
  <2>6. [k \in 1..nodes[i].size |-> id(i + k)] = [k \in 1..NodeSize(x, m) |-> <<x.id, m + k>>]
    BY <2>2, <2>4
  <2> HIDE DEF m, id
  <2>7. row(i) = [id |-> <<x.id, m>>, round |-> r, offset |-> x.offset + m,
                  facts |-> NodeFacts(x, m), matched |-> NamesMatched(filters, NodeFacts(x, m)),
                  inner |-> [k \in 1..NodeSize(x, m) |-> <<x.id, m + k>>]]
    BY <2>2, <2>3, <2>5, <2>6
  <2> HIDE DEF row
  <2> QED
    BY <2>7 DEF NodeRow, Facts, x, m
<1> HIDE DEF row
<1>7. WantedOfRoot(r, j) = [i \in 1..(1 + n) |-> NodeRow(r, j, i - 1)]
  BY <1>3, <1>5, <1>6
<1> QED
  BY <1>7 DEF n, x

\* A list of the nodes of rounds, in the order of the chain.
AreRows(s, rounds) ==
    /\ s \in Seq(Range(s)) /\ Keyed(s) /\ Sorted(s)
    /\ \A x \in Range(s) : \E r, j, i : IsNode(rounds, r, j, i) /\ x = NodeRow(r, j, i)
    /\ \A r, j, i : IsNode(rounds, r, j, i) => NodeRow(r, j, i) \in Range(s)

\* Where a row says it comes from, and its names.
LEMMA RowKey ==
    ASSUME NEW r, NEW j, NEW i
    PROVE  NodeRow(r, j, i).round = r /\ NodeRow(r, j, i).offset = RootAt(r, j).offset + i
           /\ NodeRow(r, j, i).matched = NamesMatched(filters, Facts(r, j, i))
BY DEF NodeRow

\* The round and the number of a node.
LEMMA NodeKey ==
    ASSUME IsGiven, NEW r, NEW j, NEW i, IsNode(1..window[3], r, j, i)
    PROVE  r \in Nat /\ RootAt(r, j).offset + i \in Nat
<1>1. r \in 1..window[3] /\ j \in 1..Count(r) /\ i \in 0..Len(RootAt(r, j).inner)
  BY DEF IsNode
<1>2. IsRoot(RootAt(r, j)) /\ RootAt(r, j).round = r
  BY <1>1, RootAtIsRoot DEF RootAt
<1>3. RootAt(r, j).offset \in Nat /\ r \in Nat /\ Len(RootAt(r, j).inner) \in Nat
  BY <1>2 DEF IsRoot
<1> QED
  BY <1>1, <1>3

\* The rows of a round are those of its nodes, in order.
LEMMA RowsOfRound ==
    ASSUME IsGiven, NEW r \in 1..window[3]
    PROVE  AreRows(WantedOfRound(r), {r})
<1> DEFINE n == Count(r)
           lists == [j \in DOMAIN Roots(r) |-> WantedOfRoot(r, j)]
           size(j) == Len(RootAt(r, j).inner)
           s == Joined(lists)
<1>1. n \in Nat /\ DOMAIN Roots(r) = 1..n
  BY RootsAre
<1>2. \A j \in 1..n : lists[j] = [i \in 1..(1 + size(j)) |-> NodeRow(r, j, i - 1)]
  BY <1>1, WantedOfRootIs
<1>3. lists = [j \in 1..n |-> lists[j]]
  BY <1>1
<1> HIDE DEF lists, n
<1>4. \A j \in 1..n : size(j) \in Nat /\ RootAt(r, j).offset \in Nat /\ IsRoot(RootAt(r, j))
  BY RootAtIsRoot DEF IsRoot, n
<1> HIDE DEF size
<1>5. \A j \in 1..n : /\ DOMAIN lists[j] = 1..(1 + size(j))
                      /\ \A i \in 0..size(j) : lists[j][1 + i] = NodeRow(r, j, i)
                      /\ \A k \in 1..(1 + size(j)) :
                            k - 1 \in 0..size(j) /\ lists[j][k] = NodeRow(r, j, k - 1)
                      /\ lists[j] \in Seq(Range(lists[j]))
  <2> SUFFICES ASSUME NEW j \in 1..n
               PROVE  /\ DOMAIN lists[j] = 1..(1 + size(j))
                      /\ \A i \in 0..size(j) : lists[j][1 + i] = NodeRow(r, j, i)
                      /\ \A k \in 1..(1 + size(j)) :
                            k - 1 \in 0..size(j) /\ lists[j][k] = NodeRow(r, j, k - 1)
                      /\ lists[j] \in Seq(Range(lists[j]))
    OBVIOUS
  <2>1. lists[j] = [i \in 1..(1 + size(j)) |-> NodeRow(r, j, i - 1)] /\ size(j) \in Nat
    BY <1>2, <1>4
  <2>2. \A i \in 0..size(j) : 1 + i \in 1..(1 + size(j)) /\ (1 + i) - 1 = i
    BY <2>1
  <2>3. \A k \in 1..(1 + size(j)) : k - 1 \in 0..size(j) /\ lists[j][k] = NodeRow(r, j, k - 1)
    BY <2>1
  <2>4. \A i \in 0..size(j) : lists[j][1 + i] = NodeRow(r, j, i)
    BY <2>2, <2>3, Zenon
  <2>5. lists[j] \in [1..(1 + size(j)) -> Range(lists[j])]
    BY <2>1 DEF Range
  <2>6. lists[j] \in Seq(Range(lists[j]))
    <3>1. 1 + size(j) \in Nat
      BY <2>1
    <3> QED
      BY <2>5, <3>1, FunctionIsSeq
  <2> QED
    BY <2>1, <2>3, <2>4, <2>6
<1>6. PICK S : lists \in Seq(Seq(S)) /\ DOMAIN lists = 1..n
  BY <1>1, <1>3, <1>5, SeqOfLists
<1>7. s \in Seq(Range(s))
  <2>1. s \in Seq(S)
    BY <1>6, JoinedPlaces
  <2> HIDE DEF s
  <2> QED
    BY <2>1, SeqOfItsRange
<1>8. \A x : x \in Range(s) <=> \E j \in 1..n : x \in Range(lists[j])
  BY <1>6, JoinedRange
<1>9. ASSUME NEW x \in Range(s)
      PROVE  \E j, i : IsNode({r}, r, j, i) /\ x = NodeRow(r, j, i)
  <2>1. PICK j \in 1..n : x \in Range(lists[j])
    BY <1>8
  <2>2. PICK k \in 1..(1 + size(j)) : x = lists[j][k]
    BY <1>5, <2>1 DEF Range
  <2>3. k - 1 \in 0..size(j) /\ x = NodeRow(r, j, k - 1)
    BY <1>5, <2>2
  <2>4. IsNode({r}, r, j, k - 1)
    BY <2>3 DEF IsNode, n, size
  <2> QED
    BY <2>3, <2>4
<1>10. ASSUME NEW j, NEW i, IsNode({r}, r, j, i) PROVE NodeRow(r, j, i) \in Range(s)
  <2>1. j \in 1..n /\ i \in 0..size(j)
    BY <1>10 DEF IsNode, n, size
  <2>2. lists[j][1 + i] = NodeRow(r, j, i) /\ 1 + i \in DOMAIN lists[j]
    BY <1>4, <1>5, <2>1
  <2>3. NodeRow(r, j, i) \in Range(lists[j])
    BY <2>2 DEF Range
  <2> QED
    BY <1>8, <2>1, <2>3
<1>11. r \in Nat
  BY WindowsAssumption DEF IsGiven
<1>12. \A j \in 1..n : Sorted(lists[j])
  <2> SUFFICES ASSUME NEW j \in 1..n, NEW k \in 1..(1 + size(j)), NEW l \in 1..(1 + size(j)), k < l
               PROVE  Earlier(lists[j][k], lists[j][l])
    BY <1>5 DEF Sorted
  <2>1. lists[j][k] = NodeRow(r, j, k - 1) /\ lists[j][l] = NodeRow(r, j, l - 1)
    BY <1>5
  <2>2. RootAt(r, j).offset + (k - 1) < RootAt(r, j).offset + (l - 1)
    BY <1>4
  <2> QED
    BY <2>1, <2>2, RowKey DEF Earlier
<1>13. ASSUME NEW j \in 1..n, NEW m \in 1..n, j < m, NEW k \in DOMAIN lists[j], NEW l \in DOMAIN lists[m]
       PROVE  Earlier(lists[j][k], lists[m][l])
  <2>1. /\ k - 1 \in 0..size(j) /\ lists[j][k] = NodeRow(r, j, k - 1)
        /\ l - 1 \in 0..size(m) /\ lists[m][l] = NodeRow(r, m, l - 1)
    BY <1>5
  <2>2. Precedes(RootAt(r, j), RootAt(r, m))
    BY <1>13, NextRootFollows DEF n
  <2>3. RootAt(r, j).offset + size(j) < RootAt(r, m).offset
    BY <1>11, <2>2 DEF Precedes, RootAt, size
  <2>4. RootAt(r, j).offset + (k - 1) < RootAt(r, m).offset + (l - 1)
    BY <1>4, <2>1, <2>3
  <2> QED
    BY <2>1, <2>4, RowKey DEF Earlier
<1>14. Sorted(s)
  BY <1>6, <1>12, <1>13, JoinedSorted
<1> HIDE DEF s
<1>15. Keyed(s)
  <2>1. \A k \in DOMAIN s : s[k] \in Range(s)
    BY DEF Range
  <2>2. ASSUME NEW k \in DOMAIN s PROVE s[k].round \in Nat /\ s[k].offset \in Nat
    <3>1. PICK j, i : IsNode({r}, r, j, i) /\ s[k] = NodeRow(r, j, i)
      BY <1>9, <2>1
    <3>2. IsNode(1..window[3], r, j, i)
      BY <3>1 DEF IsNode
    <3> QED
      BY <3>1, <3>2, NodeKey, RowKey
  <2> QED
    BY <2>2 DEF Keyed
<1>16. \A q, j, i : IsNode({r}, q, j, i) => q = r
  BY DEF IsNode
<1>17. AreRows(s, {r})
  BY <1>7, <1>9, <1>10, <1>14, <1>15, <1>16 DEF AreRows
<1> QED
  BY <1>17 DEF s, lists, WantedOfRound

\* The rows of an interval of rounds are those of its rounds, one after the other.
LEMMA AllRows ==
    ASSUME IsGiven, NEW a \in Int, NEW b \in Int, NEW rounds, rounds = a..b,
           rounds \subseteq 1..window[3]
    PROVE  AreRows(OfRounds(WantedOfRound, rounds), rounds)
<1> DEFINE n == Cardinality(rounds)
           lists == [i \in 1..n |-> WantedOfRound(Min(rounds) + i - 1)]
           s == Joined(lists)
<1>1. n = IF a > b THEN 0 ELSE b - a + 1
  BY FS_Interval
<1>2. n \in Nat
  BY <1>1
<1>3. \A i \in 1..n : Min(rounds) + i - 1 = a + i - 1 /\ a + i - 1 \in rounds
  <2> SUFFICES ASSUME NEW i \in 1..n
               PROVE  Min(rounds) + i - 1 = a + i - 1 /\ a + i - 1 \in rounds
    OBVIOUS
  <2>1. a <= b
    BY <1>1
  <2>2. Min(rounds) = a
    BY <2>1, MinOfInterval
  <2> HIDE DEF n
  <2> QED
    BY <1>1, <2>1, <2>2
<1>4. \A r \in rounds : AreRows(WantedOfRound(r), {r})
  BY RowsOfRound
<1>5. \A i \in 1..n : lists[i] = WantedOfRound(a + i - 1)
  BY <1>3
<1>6. lists = [i \in 1..n |-> lists[i]] /\ DOMAIN lists = 1..n
  OBVIOUS
<1>7. OfRounds(WantedOfRound, rounds) = s
  BY DEF OfRounds
<1> HIDE DEF lists, n
<1>8. \A i \in 1..n : AreRows(lists[i], {a + i - 1})
  BY <1>3, <1>4, <1>5
<1>9. \A i \in 1..n : lists[i] \in Seq(Range(lists[i])) /\ Sorted(lists[i])
  BY <1>8 DEF AreRows
<1>10. PICK S : lists \in Seq(Seq(S))
  BY <1>2, <1>6, <1>9, SeqOfLists
<1>11. s \in Seq(Range(s))
  <2>1. s \in Seq(S)
    BY <1>10, JoinedPlaces
  <2> HIDE DEF s
  <2> QED
    BY <2>1, SeqOfItsRange
<1>12. \A x : x \in Range(s) <=> \E i \in 1..n : x \in Range(lists[i])
  BY <1>6, <1>10, JoinedRange
<1>13. ASSUME NEW q \in 1..n, NEW r, AreRows(lists[q], {r}), NEW x \in Range(lists[q])
       PROVE  (\E j, i : IsNode({r}, r, j, i) /\ x = NodeRow(r, j, i)) /\ x.round = r
  <2>2. PICK u, j, i : IsNode({r}, u, j, i) /\ x = NodeRow(u, j, i)
    BY <1>13 DEF AreRows
  <2>3. u = r
    BY <2>2 DEF IsNode
  <2> QED
    BY <2>2, <2>3, RowKey
<1>14. ASSUME NEW x \in Range(s)
       PROVE  \E r, j, i : IsNode(rounds, r, j, i) /\ x = NodeRow(r, j, i)
  <2>1. PICK q \in 1..n : x \in Range(lists[q])
    BY <1>12
  <2>2. PICK r : r = a + q - 1
    OBVIOUS
  <2>6. AreRows(lists[q], {r})
    BY <1>8, <2>2
  <2>3. PICK j, i : IsNode({r}, r, j, i) /\ x = NodeRow(r, j, i)
    BY <1>13, <2>1, <2>6
  <2>4. r \in rounds
    BY <1>3, <2>2
  <2>5. IsNode(rounds, r, j, i)
    BY <2>3, <2>4 DEF IsNode
  <2> QED
    BY <2>3, <2>5
<1>15. ASSUME NEW r, NEW j, NEW i, IsNode(rounds, r, j, i) PROVE NodeRow(r, j, i) \in Range(s)
  <2>1. r \in rounds /\ IsNode({r}, r, j, i)
    BY <1>15 DEF IsNode
  <2> DEFINE q == r - a + 1
  <2>2. q \in 1..n /\ a + q - 1 = r
    BY <1>1, <2>1
  <2> HIDE DEF q
  <2>3. AreRows(lists[q], {r})
    BY <1>8, <2>2
  <2>4. NodeRow(r, j, i) \in Range(lists[q])
    BY <2>1, <2>3 DEF AreRows
  <2> QED
    BY <1>12, <2>2, <2>4
<1>16. ASSUME NEW p \in 1..n, NEW q \in 1..n, p < q, NEW k \in DOMAIN lists[p], NEW l \in DOMAIN lists[q]
       PROVE  Earlier(lists[p][k], lists[q][l])
  <2>1. lists[p][k] \in Range(lists[p]) /\ lists[q][l] \in Range(lists[q])
    BY <1>16 DEF Range
  <2>2. PICK u : u = a + p - 1
    OBVIOUS
  <2>3. PICK v : v = a + q - 1
    OBVIOUS
  <2>6. AreRows(lists[p], {u}) /\ AreRows(lists[q], {v})
    BY <1>8, <2>2, <2>3
  <2>4. lists[p][k].round = u /\ lists[q][l].round = v
    BY <1>13, <2>1, <2>6
  <2>5. u < v
    BY <1>16, <2>2, <2>3
  <2> QED
    BY <2>4, <2>5 DEF Earlier
<1>17. Sorted(s)
  BY <1>6, <1>9, <1>10, <1>16, JoinedSorted
<1> HIDE DEF s
<1>18. Keyed(s)
  <2>1. \A k \in DOMAIN s : s[k] \in Range(s)
    BY DEF Range
  <2>2. ASSUME NEW k \in DOMAIN s PROVE s[k].round \in Nat /\ s[k].offset \in Nat
    <3>1. PICK r, j, i : IsNode(rounds, r, j, i) /\ s[k] = NodeRow(r, j, i)
      BY <1>14, <2>1
    <3>2. IsNode(1..window[3], r, j, i)
      BY <3>1 DEF IsNode
    <3> QED
      BY <3>1, <3>2, NodeKey, RowKey
  <2> QED
    BY <2>2 DEF Keyed
<1> QED
  BY <1>7, <1>11, <1>14, <1>15, <1>17, <1>18 DEF AreRows

-------------------------------------------------------------------------------
(* The result of a poll, in rows. *)

\* _process_extra_fields keeps what was there.
LEMMA ExtraFieldsKeep ==
    ASSUME NEW x
    PROVE  LET y == WithExtraFields(x)
           IN  /\ y.id = x.id /\ y.round = x.round /\ y.offset = x.offset
               /\ y.facts = x.facts /\ y.matched = x.matched
               /\ DOMAIN y.inner = DOMAIN x.inner
               /\ \A k \in DOMAIN x.inner : y.inner[k].id = x.inner[k].id
BY DEF WithExtraFields

\* Events and balance changes do not change the row of a transaction.
LEMMA ReportedRow ==
    ASSUME NEW x
    PROVE  RowOf(WithExtraFields(x)) = RowOf(x)
BY ExtraFieldsKeep DEF RowOf

\* The rows of what is reported.
LEMMA RowsReported ==
    ASSUME NEW rounds, IsKept(Kept, rounds)
    PROVE  LET list == [i \in DOMAIN Reported |-> RowOf(Reported[i])]
           IN  /\ list \in Seq(Range(list)) /\ Keyed(list) /\ Sorted(list)
               /\ \A x : x \in Range(list) <=> \E r, j, i :
                     /\ IsNode(rounds, r, j, i) /\ NamesMatched(filters, Facts(r, j, i)) # <<>>
                     /\ x = NodeRow(r, j, i)
<1> DEFINE n == Len(Kept)
           shown == [i \in DOMAIN Reported |-> RowOf(Reported[i])]
<1>1. n \in Nat /\ DOMAIN Kept = 1..n
  <2>1. PICK S : Kept \in Seq(S)
    BY DEF IsKept
  <2> QED
    BY <2>1
<1>2. shown = [i \in 1..n |-> shown[i]] /\ DOMAIN shown = 1..n
      /\ \A i \in 1..n : shown[i] = RowOf(Kept[i])
  <2>1. DOMAIN Reported = 1..n /\ \A i \in 1..n : Reported[i] = WithExtraFields(Kept[i])
    BY <1>1 DEF Reported
  <2> QED
    BY <2>1, ReportedRow
<1> HIDE DEF shown, n
<1>3. shown \in Seq(Range(shown))
  <2>1. shown \in [1..n -> Range(shown)]
    BY <1>2 DEF Range
  <2> QED
    BY <1>1, <2>1, FunctionIsSeq
<1>4. \A i \in 1..n : shown[i].round = Kept[i].round /\ shown[i].offset = Kept[i].offset
  BY <1>2 DEF RowOf
<1>5. Keyed(shown) /\ Sorted(shown)
  BY <1>1, <1>2, <1>4 DEF IsKept, Keyed, Sorted, Earlier
<1>6. ASSUME NEW x \in Range(shown)
      PROVE  \E r, j, i : /\ IsNode(rounds, r, j, i) /\ NamesMatched(filters, Facts(r, j, i)) # <<>>
                          /\ x = NodeRow(r, j, i)
  <2>1. PICK k \in 1..n : x = RowOf(Kept[k])
    BY <1>2 DEF Range
  <2>2. Kept[k] \in Range(Kept)
    BY <1>1 DEF Range
  <2>3. PICK r, j, i : /\ IsNode(rounds, r, j, i) /\ NamesMatched(filters, Facts(r, j, i)) # <<>>
                       /\ Shows(Kept[k], r, j, i)
    BY <2>2 DEF IsKept
  <2> QED
    BY <2>1, <2>3, RowIs
<1>7. ASSUME NEW r, NEW j, NEW i, IsNode(rounds, r, j, i),
             NamesMatched(filters, Facts(r, j, i)) # <<>>
      PROVE  NodeRow(r, j, i) \in Range(shown)
  <2>1. PICK x \in Range(Kept) : Shows(x, r, j, i)
    BY <1>7 DEF IsKept
  <2>2. PICK k \in 1..n : Kept[k] = x
    BY <1>1 DEF Range
  <2>3. shown[k] = NodeRow(r, j, i)
    BY <1>2, <2>1, <2>2, RowIs
  <2> QED
    BY <1>2, <2>3 DEF Range
<1>8. \A x : x \in Range(shown) <=> \E r, j, i :
          /\ IsNode(rounds, r, j, i) /\ NamesMatched(filters, Facts(r, j, i)) # <<>>
          /\ x = NodeRow(r, j, i)
  BY <1>6, <1>7
<1> QED
  BY <1>3, <1>5, <1>8 DEF shown

\* The rows of the nodes that some filter accepts.
LEMMA RowsMatched ==
    ASSUME NEW rounds, NEW all, AreRows(all, rounds)
    PROVE  LET list == Selected(all, {i \in DOMAIN all : all[i].matched # <<>>})
           IN  /\ list \in Seq(Range(list)) /\ Keyed(list) /\ Sorted(list)
               /\ \A x : x \in Range(list) <=> \E r, j, i :
                     /\ IsNode(rounds, r, j, i) /\ NamesMatched(filters, Facts(r, j, i)) # <<>>
                     /\ x = NodeRow(r, j, i)
<1> DEFINE places == {i \in DOMAIN all : all[i].matched # <<>>}
           some == Selected(all, places)
<1>1. all \in Seq(Range(all)) /\ Keyed(all) /\ Sorted(all)
  BY DEF AreRows
<1>2. places \in SUBSET (DOMAIN all)
  OBVIOUS
<1>3. \A i : i \in places <=> i \in DOMAIN all /\ all[i].matched # <<>>
  OBVIOUS
<1> HIDE DEF places
<1>4. some \in Seq(Range(all)) /\ Range(some) = {all[i] : i \in places}
  BY <1>1, <1>2, SelectedPlaces, SelectedRange
<1>5. Sorted(some)
  <2>1. \A i, j \in places : i < j => Earlier(all[i], all[j])
    BY <1>1, <1>2 DEF Sorted
  <2> QED
    BY <1>1, <1>2, <2>1, SelectedSorted
<1> HIDE DEF some
<1>6. some \in Seq(Range(some))
  BY <1>4, SeqOfItsRange
<1>7. Keyed(some)
  <2>1. \A i \in DOMAIN some : some[i] \in Range(some)
    BY DEF Range
  <2> QED
    BY <1>1, <1>2, <1>4, <2>1 DEF Keyed
<1>8. \A x : x \in Range(some) <=> x \in Range(all) /\ x.matched # <<>>
  BY <1>3, <1>4 DEF Range
<1>9. \A x : x \in Range(all) <=> \E r, j, i : IsNode(rounds, r, j, i) /\ x = NodeRow(r, j, i)
  BY DEF AreRows
<1>10. \A r, j, i : NodeRow(r, j, i).matched = NamesMatched(filters, Facts(r, j, i))
  BY RowKey
<1>11. \A x : x \in Range(some) <=> \E r, j, i :
          /\ IsNode(rounds, r, j, i) /\ NamesMatched(filters, Facts(r, j, i)) # <<>>
          /\ x = NodeRow(r, j, i)
  BY <1>8, <1>9, <1>10
<1> QED
  BY <1>5, <1>6, <1>7, <1>11 DEF some, places

\* Of no rounds nothing is wanted.
LEMMA NothingWanted ==
    ASSUME NEW rounds, rounds = {}
    PROVE  LET all == OfRounds(WantedOfRound, rounds)
           IN  Selected(all, {i \in DOMAIN all : all[i].matched # <<>>}) = <<>>
<1> DEFINE lists == [i \in 1..Cardinality(rounds) |-> WantedOfRound(Min(rounds) + i - 1)]
           all == OfRounds(WantedOfRound, rounds)
<1>1. Cardinality(rounds) = 0
  BY FS_EmptySet
<1>2. lists = <<>>
  BY <1>1
<1>3. all = Joined(lists)
  BY DEF OfRounds
<1>4. all = <<>>
  BY <1>2, <1>3, JoinedEmpty
<1> HIDE DEF all
<1>5. [i \in DOMAIN all |-> IF i \in {k \in DOMAIN all : all[k].matched # <<>>}
                            THEN <<all[i]>> ELSE <<>>] = <<>>
  BY <1>4
<1> QED
  BY <1>5, JoinedEmpty DEF Selected, all

\* A poll at the tip returns nothing, as it should.
LEMMA AgreesAtTip ==
    ASSUME IsGiven, pc = "done", ResultAtTip
    PROVE  SourcesAgree
<1> DEFINE rounds == {r \in result.syncedRoundRange[1]..result.newWatermark :
                         r > result.startingWatermark}
<1>1. /\ result.syncedRoundRange[1] = window[3] /\ result.newWatermark = window[2]
      /\ result.startingWatermark = window[2] /\ result.subscribedTransactions = <<>>
  BY DEF ResultAtTip, TransactionSubscriptionResult
<1>2. window[2] \in Nat /\ window[3] \in Nat
  BY WindowsAssumption DEF IsGiven
<1>3. rounds = {}
  BY <1>1, <1>2
<1>4. PICK none : none = rounds
  OBVIOUS
<1>5. LET all == OfRounds(WantedOfRound, none)
      IN  Wanted = Selected(all, {i \in DOMAIN all : all[i].matched # <<>>})
  BY <1>4, WantedIs
<1>6. LET all == OfRounds(WantedOfRound, none)
      IN  Selected(all, {i \in DOMAIN all : all[i].matched # <<>>}) = <<>>
  BY <1>3, <1>4, NothingWanted
<1>7. Wanted = <<>>
  BY <1>5, <1>6
<1>8. Subscribed = <<>>
  BY <1>1 DEF Subscribed
<1>9. [i \in DOMAIN Subscribed |-> RowOf(Subscribed[i])] = <<>>
  BY <1>8
<1> QED
  BY <1>7, <1>9 DEF SourcesAgree, RowOf

\* A poll that syncs returns what is wanted of the rounds it names.
LEMMA AgreesAfterSync ==
    ASSUME IsGiven, pc = "done", ResultOfSync
    PROVE  SourcesAgree
<1> DEFINE first == StartRound(window[1], window[2], window[3])
           last == EndRound(window[1], window[2], window[3])
           synced == first..last
           rows1 == [i \in DOMAIN Reported |-> RowOf(Reported[i])]
<1>1. /\ result.syncedRoundRange[1] = first /\ result.newWatermark = last
      /\ result.startingWatermark = window[2] /\ result.subscribedTransactions = Reported
  BY DEF ResultOfSync, TransactionSubscriptionResult
<1>2. Syncs
  BY DEF ResultOfSync
<1>3. /\ Searched \cup Read = synced
      /\ \A r \in synced : r > window[2]
      /\ synced \subseteq 1..window[3]
  BY <1>2, RoundsOfPoll
<1>4. first \in Int /\ last \in Int
  <2>1. window[1] \in SyncConfig /\ window[2] \in Nat /\ window[3] \in Nat
    BY WindowsAssumption DEF IsGiven
  <2>2. last \in window[2]..window[3] /\ first \in (window[2] + 1)..(window[3] + 1)
    BY <1>2, <2>1, WindowBounds DEF Syncs
  <2> HIDE DEF first, last
  <2> QED
    BY <2>1, <2>2
<1>5. synced = {r \in result.syncedRoundRange[1]..result.newWatermark : r > result.startingWatermark}
  BY <1>1, <1>3
<1>6. PICK rounds : rounds = synced
  OBVIOUS
<1>7. PICK all : all = OfRounds(WantedOfRound, rounds)
  OBVIOUS
<1> DEFINE rows2 == Selected(all, {i \in DOMAIN all : all[i].matched # <<>>})
<1>8. Wanted = rows2
  BY <1>5, <1>6, <1>7, WantedIs
<1>9. AreRows(all, rounds)
  <2>1. PICK a \in Int, b \in Int : a = first /\ b = last
    BY <1>4
  <2>2. rounds = a..b /\ rounds \subseteq 1..window[3]
    BY <1>3, <1>6, <2>1
  <2> QED
    BY <1>7, <2>2, AllRows
<1>10. IsKept(Kept, rounds)
  BY <1>2, <1>6, KeptIs
<1>11. /\ rows1 \in Seq(Range(rows1)) /\ Keyed(rows1) /\ Sorted(rows1)
       /\ \A x : x \in Range(rows1) <=> \E r, j, i :
             /\ IsNode(rounds, r, j, i) /\ NamesMatched(filters, Facts(r, j, i)) # <<>>
             /\ x = NodeRow(r, j, i)
  BY <1>10, RowsReported
<1>12. /\ rows2 \in Seq(Range(rows2)) /\ Keyed(rows2) /\ Sorted(rows2)
       /\ \A x : x \in Range(rows2) <=> \E r, j, i :
             /\ IsNode(rounds, r, j, i) /\ NamesMatched(filters, Facts(r, j, i)) # <<>>
             /\ x = NodeRow(r, j, i)
  BY <1>9, RowsMatched
<1>13. Subscribed = Reported
  BY <1>1 DEF Subscribed
<1> HIDE DEF rows1, rows2
<1>14. \A x : x \in Range(rows1) <=> x \in Range(rows2)
  BY <1>11, <1>12
<1>15. rows1 = rows2
  <2>1. Range(rows1) = Range(rows2)
    BY <1>14
  <2> QED
    BY <1>11, <1>12, <2>1, SortedUnique
<1>16. Wanted = [i \in DOMAIN Subscribed |-> RowOf(Subscribed[i])]
  BY <1>8, <1>13, <1>15 DEF rows1
<1> QED
  BY <1>16 DEF SourcesAgree, RowOf

\* The invariant of a poll: after each search the poll has what the searches so
\* far find; after the merge it has each of these once; it has read the blocks
\* up to some round; and its result is made of the merge and of all blocks.
THEOREM PollInvariant == Spec => []PollInv
<1>1. Init => PollInv
  BY PollInvInit
<1>2. PollInv /\ [Next]_vars => PollInv'
  BY PollInvNext
<1> QED
  BY <1>1, <1>2, PTL DEF Spec

\* A poll returns exactly what its filters accept of the rounds it says it
\* synced, once and in the order of the chain, whichever rounds it took from
\* the indexer and whichever from algod.
THEOREM ResultIsExact == Spec => []SourcesAgree
<1>1. PollInv => SourcesAgree
  <2> SUFFICES ASSUME PollInv PROVE SourcesAgree
    OBVIOUS
  <2>1. IsGiven
    BY DEF PollInv, SearchInv
  <2>2. CASE pc # "done"
    BY <2>2 DEF SourcesAgree
  <2>3. CASE pc = "done"
    BY <2>1, <2>3, AgreesAtTip, AgreesAfterSync DEF PollInv
  <2> QED
    BY <2>2, <2>3
<1> QED
  BY <1>1, PollInvariant, PTL

-------------------------------------------------------------------------------
(* The events of a poll. *)

\* What a transaction reports for its logs: one event for each attempt at a log
\* that can be decoded, and, unless the extraction raises, no other attempt but
\* of groups that go on after errors.
LEMMA EventsAre ==
    ASSUME NEW gs, AreGroups(gs), NEW t, IsTransaction(t)
    PROVE  /\ Len(EventsOf(gs, t)) = Cardinality({x \in Tries(gs, t) : t.logs[x[1]].decodable})
           /\ \A x \in Tries(gs, t) : t.logs[x[1]].decodable =>
                 [group |-> gs[x[2]].name, event |-> gs[x[2]].events[x[3]].name]
                     \in Range(EventsOf(gs, t))
           /\ ~Undecodable(gs, t) =>
                 \A x \in Tries(gs, t) : ~t.logs[x[1]].decodable => gs[x[2]].continueOnError
<1> DEFINE attempts == Attempts(gs, t)
           places == {k \in DOMAIN attempts : attempts[k].log.decodable}
           decoded == Selected(attempts, places)
           events == EventsOf(gs, t)
<1>1. t.logs \in Seq(Range(t.logs)) /\ \A l \in DOMAIN t.logs : t.logs[l].decodable \in BOOLEAN
  <2>1. PICK S : t.logs \in Seq(S) /\ S = [prefix : Texts, decodable : BOOLEAN]
    BY DEF IsTransaction
  <2>2. t.logs \in Seq(Range(t.logs))
    BY <2>1, SeqOfItsRange
  <2>3. \A l \in DOMAIN t.logs : t.logs[l] \in S
    BY <2>1, SeqIs
  <2> QED
    BY <2>1, <2>2, <2>3
<1>2. PICK from : Enumerates(from, attempts, Tries(gs, t), TriesOf(gs, t))
  BY <1>1, AttemptsAre
<1>3. attempts \in Seq(Range(attempts))
  BY <1>1, AttemptsAre
<1> HIDE DEF attempts
<1>4. ASSUME NEW k \in DOMAIN attempts
      PROVE  /\ from[k] \in Tries(gs, t)
             /\ attempts[k] = Try(gs, from[k][2], from[k][3], t.logs[from[k][1]])
  <2>1. from[k] \in Tries(gs, t) /\ attempts[k] = TriesOf(gs, t)[from[k]]
    BY <1>2 DEF Enumerates
  <2> QED
    BY <2>1 DEF TriesOf
<1>5. ASSUME NEW x \in Tries(gs, t) PROVE \E k \in DOMAIN attempts : from[k] = x
  BY <1>2 DEF Enumerates
<1>6. \A k \in DOMAIN attempts :
          /\ attempts[k].log = t.logs[from[k][1]]
          /\ attempts[k].strict = ~gs[from[k][2]].continueOnError
          /\ attempts[k].group = gs[from[k][2]].name
          /\ attempts[k].event = gs[from[k][2]].events[from[k][3]].name
  BY <1>4 DEF Try
<1>7. places \subseteq DOMAIN attempts /\ places \in SUBSET (DOMAIN attempts)
  OBVIOUS
<1>8. \A k : k \in places <=> k \in DOMAIN attempts /\ t.logs[from[k][1]].decodable
  BY <1>6
<1> HIDE DEF places
<1>9. {from[k] : k \in places} = {x \in Tries(gs, t) : t.logs[x[1]].decodable}
  <2>1. ASSUME NEW k \in places PROVE from[k] \in {x \in Tries(gs, t) : t.logs[x[1]].decodable}
    BY <1>4, <1>8
  <2>2. ASSUME NEW x \in Tries(gs, t), t.logs[x[1]].decodable PROVE \E k \in places : from[k] = x
    BY <1>5, <1>8, <2>2
  <2> QED
    BY <2>1, <2>2
<1>10. Len(decoded) = Cardinality(places)
  BY <1>3, <1>7, SelectedCount
<1>11. decoded \in Seq(Range(attempts)) /\ Range(decoded) = {attempts[k] : k \in places}
  BY <1>3, <1>7, SelectedPlaces, SelectedRange
<1>12. events = [k \in DOMAIN decoded |-> EmittedArc28Event(decoded[k])]
  BY DEF EventsOf, attempts, places
<1> HIDE DEF decoded, events
<1>13. Len(events) = Len(decoded)
  <2>1. DOMAIN decoded = 1..Len(decoded) /\ Len(decoded) \in Nat
    BY <1>11
  <2>2. DOMAIN events = 1..Len(decoded)
    BY <1>12, <2>1
  <2>3. events = [k \in 1..Len(decoded) |-> events[k]]
    BY <1>12, <2>1
  <2>4. events \in [1..Len(decoded) -> Range(events)]
    BY <2>2, <2>3 DEF Range
  <2>5. events \in Seq(Range(events))
    BY <2>1, <2>4, FunctionIsSeq
  <2> QED
    BY <2>1, <2>2, <2>5
<1>14. Cardinality({from[k] : k \in places}) = Cardinality(places)
  BY <1>2, <1>3, <1>7, CountOfEnumerated
<1>15. ASSUME NEW x \in Tries(gs, t), t.logs[x[1]].decodable
       PROVE  [group |-> gs[x[2]].name, event |-> gs[x[2]].events[x[3]].name] \in Range(events)
  <2>1. PICK k \in DOMAIN attempts : from[k] = x
    BY <1>5
  <2>2. attempts[k] \in Range(decoded)
    BY <1>8, <1>11, <1>15, <2>1
  <2>3. PICK d \in DOMAIN decoded : decoded[d] = attempts[k]
    BY <2>2 DEF Range
  <2>4. events[d] = [group |-> gs[x[2]].name, event |-> gs[x[2]].events[x[3]].name]
    BY <1>6, <1>12, <2>1, <2>3 DEF EmittedArc28Event
  <2>5. d \in DOMAIN events
    BY <1>12
  <2> QED
    BY <2>4, <2>5 DEF Range
<1>16. ASSUME ~Undecodable(gs, t), NEW x \in Tries(gs, t), ~t.logs[x[1]].decodable
       PROVE  gs[x[2]].continueOnError
  <2>1. PICK k \in DOMAIN attempts : from[k] = x
    BY <1>5
  <2>2. attempts[k] \in Range(attempts)
    BY DEF Range
  <2>3. attempts[k].log = t.logs[x[1]] /\ attempts[k].strict = ~gs[x[2]].continueOnError
    BY <1>6, <2>1
  <2>4. ~(attempts[k].strict /\ ~attempts[k].log.decodable)
    BY <1>16, <2>2 DEF Undecodable, attempts
  <2> QED
    BY <1>16, <2>3, <2>4, Zenon
<1> QED
  BY <1>9, <1>10, <1>13, <1>14, <1>15, <1>16 DEF events

\* The groups of events are given, and the properties count the same attempts.
LEMMA GivenGroups ==
    ASSUME IsGiven
    PROVE  AreGroups(groups) /\ \A t : EventLogs(t) = Tries(groups, t)
<1>1. groups \in Seq(Range(groups))
      /\ \A g \in Range(groups) : g.events \in Seq(Range(g.events)) /\ g.continueOnError \in BOOLEAN
  BY GroupSetsAssumption DEF IsGiven
<1>2. \A i \in DOMAIN groups : groups[i] \in Range(groups)
  BY DEF Range
<1> QED
  BY <1>1, <1>2 DEF AreGroups, EventLogs, Tries

\* What the poll keeps, and what is nested in it, are transactions that the
\* extraction has gone through.
LEMMA KeptIsExtracted ==
    ASSUME IsGiven, Syncs, Clean, NEW k \in DOMAIN Kept,
           NEW t \in {Kept[k]} \cup Range(Kept[k].inner)
    PROVE  IsTransaction(t.facts) /\ ~Undecodable(groups, t.facts)
<1> DEFINE rounds == StartRound(window[1], window[2], window[3])
                         ..EndRound(window[1], window[2], window[3])
<1>1. IsKept(Kept, rounds) /\ rounds \subseteq 1..window[3]
  BY KeptIs, RoundsOfPoll
<1> HIDE DEF rounds
<1>2. Kept[k] \in Range(Kept)
  BY DEF Range
<1>3. PICK r, j, i : IsNode(rounds, r, j, i) /\ Shows(Kept[k], r, j, i)
  BY <1>1, <1>2 DEF IsKept
<1>4. /\ r \in 1..window[3] /\ j \in 1..Count(r) /\ i \in 0..Len(RootAt(r, j).inner)
  BY <1>1, <1>3 DEF IsNode
<1>5. IsRoot(RootAt(r, j))
  BY <1>4, RootAtIsRoot
<1>6. PICK root : root = RootAt(r, j)
  OBVIOUS
<1>7. IsRoot(root) /\ i \in 0..Len(root.inner) /\ Len(root.inner) \in Nat
  BY <1>4, <1>5, <1>6 DEF IsRoot
<1>8. NodeSize(root, i) \in Nat /\ i + NodeSize(root, i) <= Len(root.inner)
      /\ IsTransaction(NodeFacts(root, i))
  BY <1>7, NodeOfRoot
<1>9. IsTransaction(t.facts)
  <2>1. CASE t = Kept[k]
    BY <1>3, <1>6, <1>8, <2>1 DEF Shows, Facts
  <2>2. CASE t \in Range(Kept[k].inner)
    <3>1. PICK l \in DOMAIN Kept[k].inner : t = Kept[k].inner[l]
      BY <2>2 DEF Range
    <3>2. l \in 1..NodeSize(root, i) /\ t.facts = NodeFacts(root, i + l)
      BY <1>3, <1>6, <3>1 DEF Shows, Facts
    <3>3. PICK m : m = i + l
      OBVIOUS
    <3>4. m \in 0..Len(root.inner)
      BY <1>7, <1>8, <3>2, <3>3
    <3>5. IsTransaction(NodeFacts(root, m))
      BY <1>7, <3>4, NodeOfRoot
    <3> QED
      BY <3>2, <3>3, <3>5
  <2> QED
    BY <2>1, <2>2
<1>10. ~Undecodable(groups, t.facts)
  BY <1>2 DEF Clean, Raises
<1> QED
  BY <1>9, <1>10

\* A poll that returns has read none, or reports what it kept.
LEMMA ReportedAre ==
    ASSUME PollInv, pc = "done", NEW i \in DOMAIN Subscribed
    PROVE  /\ IsGiven /\ Syncs /\ Clean /\ i \in DOMAIN Kept
           /\ Subscribed[i] = WithExtraFields(Kept[i])
<1>1. IsGiven
  BY DEF PollInv, SearchInv
<1>2. CASE ResultAtTip
  <2>1. Subscribed = <<>>
    BY <1>2 DEF ResultAtTip, Subscribed, TransactionSubscriptionResult
  <2> QED
    BY <2>1
<1>3. CASE ResultOfSync
  <2>1. Subscribed = Reported /\ Syncs /\ Clean
    BY <1>3 DEF ResultOfSync, Subscribed, TransactionSubscriptionResult
  <2> QED
    BY <1>1, <2>1 DEF Reported
<1> QED
  BY <1>2, <1>3 DEF PollInv

\* A poll that returns has dropped no event that it could decode, at any depth,
\* and leaves out only those of groups that go on after errors.
THEOREM EventsAreAllReported == Spec => []NoEventDropped
<1>1. PollInv => NoEventDropped
  <2> SUFFICES ASSUME PollInv, pc = "done", NEW i \in DOMAIN Subscribed,
                      NEW t \in {Subscribed[i]} \cup Range(Subscribed[i].inner)
               PROVE  LET decodable == {x \in EventLogs(t.facts) : t.facts.logs[x[1]].decodable}
                      IN  /\ Len(t.events) = Cardinality(decodable)
                          /\ \A x \in EventLogs(t.facts) \ decodable : groups[x[2]].continueOnError
    BY DEF NoEventDropped
  <2>1. /\ IsGiven /\ Syncs /\ Clean /\ i \in DOMAIN Kept
        /\ Subscribed[i] = WithExtraFields(Kept[i])
    BY ReportedAre
  <2>2. PICK x : x = Kept[i]
    OBVIOUS
  <2>3. /\ Subscribed[i].facts = x.facts /\ Subscribed[i].events = EventsOf(groups, x.facts)
        /\ DOMAIN Subscribed[i].inner = DOMAIN x.inner
        /\ \A k \in DOMAIN x.inner : /\ Subscribed[i].inner[k].facts = x.inner[k].facts
                                     /\ Subscribed[i].inner[k].events = EventsOf(groups, x.inner[k].facts)
    <3> DEFINE extra(v) == [id |-> v.id, round |-> v.round, offset |-> v.offset,
                            facts |-> v.facts, matched |-> v.matched, inner |-> v.inner,
                            events |-> EventsOf(groups, v.facts),
                            changes |-> BalanceChangesOf(v.facts)]
    <3>1. Subscribed[i] = [extra(x) EXCEPT !.inner = [k \in DOMAIN x.inner |-> extra(x.inner[k])]]
      BY <2>1, <2>2 DEF WithExtraFields
    <3>2. /\ Subscribed[i].facts = x.facts /\ Subscribed[i].events = EventsOf(groups, x.facts)
          /\ Subscribed[i].inner = [k \in DOMAIN x.inner |-> extra(x.inner[k])]
      BY <3>1
    <3>3. ASSUME NEW k \in DOMAIN x.inner
          PROVE  /\ Subscribed[i].inner[k].facts = x.inner[k].facts
                 /\ Subscribed[i].inner[k].events = EventsOf(groups, x.inner[k].facts)
      BY <3>2
    <3> QED
      BY <3>2, <3>3
  <2>4. PICK u \in {x} \cup Range(x.inner) : t.facts = u.facts /\ t.events = EventsOf(groups, u.facts)
    <3>1. CASE t = Subscribed[i]
      BY <2>3, <3>1
    <3>2. CASE t \in Range(Subscribed[i].inner)
      BY <2>3, <3>2 DEF Range
    <3> QED
      BY <3>1, <3>2
  <2>5. PICK facts : facts = u.facts
    OBVIOUS
  <2>6. IsTransaction(facts) /\ ~Undecodable(groups, facts)
    BY <2>1, <2>2, <2>4, <2>5, KeptIsExtracted
  <2>7. AreGroups(groups) /\ EventLogs(facts) = Tries(groups, facts)
    BY <2>1, GivenGroups
  <2>8. /\ Len(EventsOf(groups, facts)) =
               Cardinality({y \in Tries(groups, facts) : facts.logs[y[1]].decodable})
        /\ \A y \in Tries(groups, facts) : ~facts.logs[y[1]].decodable => groups[y[2]].continueOnError
    BY <2>6, <2>7, EventsAre
  <2> QED
    BY <2>4, <2>5, <2>7, <2>8
<1> QED
  BY <1>1, PollInvariant, PTL

\* A transaction that a filter on events let through reports an event that the
\* filter asks for.  The one exemption is a log that should be such an event and
\* cannot be decoded, in a group that goes on after errors.
THEOREM FilterShowsItsEvent == Spec => []EventsBehindFilter
<1>1. PollInv => EventsBehindFilter
  <2> SUFFICES ASSUME PollInv, pc = "done", SameConditions(groups),
                      NEW i \in DOMAIN Subscribed, NEW f \in Range(filters),
                      f.filter.events # {}, PostFilter(f.filter, groups, Subscribed[i].facts)
               PROVE  \/ \E e \in Range(Subscribed[i].events) : <<e.group, e.event>> \in f.filter.events
                      \/ \E x \in EventLogs(Subscribed[i].facts) :
                            /\ <<groups[x[2]].name, groups[x[2]].events[x[3]].name>> \in f.filter.events
                            /\ ~Subscribed[i].facts.logs[x[1]].decodable
                            /\ groups[x[2]].continueOnError
    BY DEF EventsBehindFilter
  <2>1. /\ IsGiven /\ Syncs /\ Clean /\ i \in DOMAIN Kept
        /\ Subscribed[i] = WithExtraFields(Kept[i])
    BY ReportedAre
  <2>2. PICK t : t = Subscribed[i].facts
    OBVIOUS
  <2>3. t = Kept[i].facts /\ Subscribed[i].events = EventsOf(groups, t)
    BY <2>1, <2>2 DEF WithExtraFields
  <2>4. IsTransaction(t) /\ ~Undecodable(groups, t)
    BY <2>1, <2>3, KeptIsExtracted
  <2>5. AreGroups(groups) /\ EventLogs(t) = Tries(groups, t)
    BY <2>1, GivenGroups
  <2>6. PICK wanted : wanted = f.filter.events
    OBVIOUS
  <2>7. EventsMatch(groups, wanted, t)
    BY <2>2, <2>6 DEF PostFilter
  <2>8. groups \in Seq(Range(groups))
    BY <2>5 DEF AreGroups
  <2> DEFINE IsEvent(group, event, log) ==
           GroupApplies(group, t) /\ <<group.name, event.name>> \in wanted
           /\ log.prefix = event.signature
  <2>9. \E group \in Range(groups) : \E event \in Range(group.events) :
           \E log \in Range(t.logs) : IsEvent(group, event, log)
    <3>1. PICK gs : gs = groups
      OBVIOUS
    <3>2. gs \in Seq(Range(gs)) /\ EventsMatch(gs, wanted, t)
      BY <2>7, <2>8, <3>1
    <3>3. SameConditions(gs)
      BY <3>1
    <3>4. \E group \in Range(gs) : \E event \in Range(group.events) : \E log \in Range(t.logs) :
             /\ GroupApplies(group, t)
             /\ <<group.name, event.name>> \in wanted
             /\ log.prefix = event.signature
      BY ONLY <3>2, <3>3, MatchHasCandidate
    <3> QED
      BY <3>1, <3>4
  <2>21. PICK group \in Range(groups) :
            \E event \in Range(group.events) : \E log \in Range(t.logs) : IsEvent(group, event, log)
    BY <2>9
  <2>22. PICK event \in Range(group.events) : \E log \in Range(t.logs) : IsEvent(group, event, log)
    BY <2>21
  <2>23. PICK log \in Range(t.logs) : IsEvent(group, event, log)
    BY <2>22
  <2>10. /\ GroupApplies(group, t) /\ <<group.name, event.name>> \in wanted
         /\ log.prefix = event.signature
    BY <2>23
  <2>11. PICK g \in DOMAIN groups : group = groups[g]
    BY DEF Range
  <2>12. PICK e \in DOMAIN group.events : event = group.events[e]
    BY DEF Range
  <2>13. PICK l \in DOMAIN t.logs : log = t.logs[l]
    BY DEF Range
  <2>14. PICK x : x = <<l, g, e>>
    OBVIOUS
  <2>15. x[1] = l /\ x[2] = g /\ x[3] = e /\ x = <<x[1], x[2], x[3]>>
    BY <2>14
  <2>16. x \in Tries(groups, t)
    BY <2>10, <2>11, <2>12, <2>13, <2>15, TriesAre
  <2>17. t.logs[x[1]].decodable =>
            [group |-> groups[x[2]].name, event |-> groups[x[2]].events[x[3]].name]
                \in Range(EventsOf(groups, t))
    BY <2>4, <2>5, <2>16, EventsAre
  <2>18. t.logs[l].decodable =>
            [group |-> group.name, event |-> event.name] \in Range(EventsOf(groups, t))
    BY <2>11, <2>12, <2>15, <2>17
  <2>19. CASE ~t.logs[l].decodable
    <3>1. groups[x[2]].continueOnError
      BY <2>4, <2>5, <2>15, <2>16, <2>19, EventsAre
    <3>2. <<groups[x[2]].name, groups[x[2]].events[x[3]].name>> \in f.filter.events
      BY <2>6, <2>10, <2>11, <2>12, <2>15
    <3>3. x \in EventLogs(t) /\ ~t.logs[x[1]].decodable
      BY <2>5, <2>15, <2>16, <2>19
    <3> QED
      BY <2>2, <3>1, <3>2, <3>3
  <2>20. CASE t.logs[l].decodable
    <3>1. PICK d : d = [group |-> group.name, event |-> event.name]
      OBVIOUS
    <3>2. d.group = group.name /\ d.event = event.name
      BY <3>1
    <3>3. d \in Range(Subscribed[i].events)
      BY <2>3, <2>18, <2>20, <3>1
    <3> QED
      BY <2>6, <2>10, <3>2, <3>3
  <2> QED
    BY <2>19, <2>20
<1> QED
  BY <1>1, PollInvariant, PTL

-------------------------------------------------------------------------------
(* The metadata of a poll. *)

\* The body of CountInner.
CountOf(t, g) == SumFunction([i \in DOMAIN t.inner |-> g[t.inner[i]]]) + Len(t.inner)

\* The count of a tree depends only on the counts of what it nests.
LEMMA CountAlike ==
    ASSUME NEW t, NEW g, NEW h, \A i \in DOMAIN t.inner : g[t.inner[i]] = h[t.inner[i]]
    PROVE  CountOf(t, g) = CountOf(t, h)
<1>1. [i \in DOMAIN t.inner |-> g[t.inner[i]]] = [i \in DOMAIN t.inner |-> h[t.inner[i]]]
  OBVIOUS
<1> QED
  BY <1>1 DEF CountOf

\* The recursion of the count has a solution.
LEMMA CountExists == \E g : g = [t \in Trees |-> CountOf(t, g)]
<1> DEFINE P == {d \in Nat : \E g : g = [t \in UpToLevel(d) |-> CountOf(t, g)]}
<1>1. 0 \in P
  <2> DEFINE g == [t \in {} |-> t]
  <2>1. g = [t \in {} |-> CountOf(t, g)]
    OBVIOUS
  <2> HIDE DEF g
  <2> QED
    BY <2>1, LevelsAreTrees
<1>2. \A d \in Nat : d \in P => d + 1 \in P
  <2> SUFFICES ASSUME NEW d \in Nat, d \in P PROVE d + 1 \in P
    OBVIOUS
  <2>1. PICK g : g = [t \in UpToLevel(d) |-> CountOf(t, g)]
    OBVIOUS
  <2> DEFINE h == [t \in UpToLevel(d + 1) |-> CountOf(t, g)]
  <2>2. \A t \in UpToLevel(d) : h[t] = g[t]
    BY <2>1, LevelsAreTrees
  <2>3. ASSUME NEW t \in UpToLevel(d + 1) PROVE CountOf(t, g) = CountOf(t, h)
    <3>1. \A i \in DOMAIN t.inner : t.inner[i] \in UpToLevel(d)
      BY InnerIsLower, SeqIs
    <3> HIDE DEF h
    <3> QED
      BY <2>2, <3>1, CountAlike
  <2>4. h = [t \in UpToLevel(d + 1) |-> CountOf(t, h)]
    BY <2>3
  <2> HIDE DEF h
  <2> QED
    BY <2>4
<1> HIDE DEF P
<1>3. Nat \subseteq P
  BY <1>1, <1>2, NatInductionSet
<1> QED
  BY <1>3, LevelsAreTrees DEF P

\* A tree counts what it nests, and what that nests.
LEMMA CountInnerIs ==
    ASSUME NEW t \in Trees
    PROVE  CountInner[t] = CountOf(t, CountInner)
<1> DEFINE c == CHOOSE g : g = [u \in Trees |-> CountOf(u, g)]
<1>1. c = [u \in Trees |-> CountOf(u, c)]
  BY CountExists
<1>2. CountInner = c
  BY DEF CountInner, CountOf
<1> HIDE DEF c
<1> QED
  BY <1>1, <1>2

\* One more for each.
LEMMA SumOneMore ==
    ASSUME NEW f, NEW e, NEW m \in Nat, \A k \in 1..m : e[k] \in Int /\ f[k] = 1 + e[k]
    PROVE  SumFunctionOnSet(f, 1..m) = SumFunctionOnSet(e, 1..m) + m
<1> DEFINE P == {n \in Nat : n <= m =>
                    SumFunctionOnSet(f, 1..n) = SumFunctionOnSet(e, 1..n) + n}
<1>1. 0 \in P
  <2>1. 1..0 = {}
    OBVIOUS
  <2> QED
    BY <2>1, SumEmpty
<1>2. \A n \in Nat : n \in P => n + 1 \in P
  <2> SUFFICES ASSUME NEW n \in Nat, n \in P, n + 1 <= m
               PROVE  SumFunctionOnSet(f, 1..(n + 1)) = SumFunctionOnSet(e, 1..(n + 1)) + (n + 1)
    OBVIOUS
  <2>1. \A k \in 1..(n + 1) : e[k] \in Int /\ f[k] \in Int /\ f[k] = 1 + e[k]
    OBVIOUS
  <2>2. /\ SumFunctionOnSet(f, 1..n) \in Int
        /\ SumFunctionOnSet(f, 1..(n + 1)) = SumFunctionOnSet(f, 1..n) + f[n + 1]
    BY <2>1, SumNext
  <2>3. /\ SumFunctionOnSet(e, 1..n) \in Int
        /\ SumFunctionOnSet(e, 1..(n + 1)) = SumFunctionOnSet(e, 1..n) + e[n + 1]
    BY <2>1, SumNext
  <2>4. SumFunctionOnSet(f, 1..n) = SumFunctionOnSet(e, 1..n) + n
    OBVIOUS
  <2>5. f[n + 1] = 1 + e[n + 1] /\ e[n + 1] \in Int
    BY <2>1
  <2>6. PICK u, v, x : u = SumFunctionOnSet(f, 1..n) /\ v = SumFunctionOnSet(e, 1..n) /\ x = e[n + 1]
    OBVIOUS
  <2>7. SumFunctionOnSet(f, 1..(n + 1)) = u + (1 + x) /\ SumFunctionOnSet(e, 1..(n + 1)) = v + x
        /\ u = v + n /\ v \in Int /\ x \in Int
    BY <2>2, <2>3, <2>4, <2>5, <2>6
  <2>8. u + (1 + x) = (v + x) + (n + 1)
    BY <2>7
  <2> QED
    BY <2>7, <2>8
<1> HIDE DEF P
<1>3. Nat \subseteq P
  BY <1>1, <1>2, NatInductionSet
<1> QED
  BY <1>3 DEF P

\* The nodes of a forest, counted root by root.
LEMMA SizeIsSum ==
    ASSUME NEW forest \in Seq(Trees), NEW f, f = [i \in DOMAIN forest |-> Len(Below[forest[i]])]
    PROVE  /\ Size(forest) = SumFunction(f) + Len(forest) /\ Size(forest) \in Nat
           /\ SumFunction(f) \in Int
<1> DEFINE n == Len(forest)
           nodes == Nodes(forest)
<1>1. n \in Nat /\ DOMAIN forest = 1..n /\ \A i \in 1..n : forest[i] \in Trees
  BY SeqIs
<1>2. \A i \in 1..n : Below[forest[i]] \in Seq(Trees)
  BY <1>1, BelowTyped
<1>3. /\ nodes \in Seq(Seq(Trees)) /\ DOMAIN nodes = 1..n
      /\ \A i \in 1..n : Len(nodes[i]) = 1 + Len(Below[forest[i]])
  BY <1>1, <1>2, NodesTyped
<1>4. Size(forest) = Len(Joined(nodes))
  BY DEF Size, Expanded, Nodes
<1>5. PICK e : e = [i \in DOMAIN nodes |-> Len(nodes[i])]
  OBVIOUS
<1> HIDE DEF nodes, n
<1>6. Size(forest) = SumFunction(e)
  BY <1>3, <1>4, <1>5, JoinedLength
<1>7. DOMAIN e = 1..n /\ DOMAIN f = 1..n /\ \A k \in 1..n : f[k] \in Int /\ e[k] = 1 + f[k]
  BY <1>1, <1>2, <1>3, <1>5
<1>8. SumFunctionOnSet(e, 1..n) = SumFunctionOnSet(f, 1..n) + n
  <2>1. n \in Nat /\ \A k \in 1..n : f[k] \in Int /\ e[k] = 1 + f[k]
    BY <1>1, <1>7
  <2>2. PICK a : a = e
    OBVIOUS
  <2>3. PICK b : b = f
    OBVIOUS
  <2>4. n \in Nat /\ \A k \in 1..n : b[k] \in Int /\ a[k] = 1 + b[k]
    BY <2>1, <2>2, <2>3
  <2>5. SumFunctionOnSet(a, 1..n) = SumFunctionOnSet(b, 1..n) + n
    BY ONLY <2>4, SumOneMore
  <2> QED
    BY <2>2, <2>3, <2>5
<1>9. Size(forest) \in Nat
  BY SizeTyped
<1>10. SumFunction(f) \in Int
  <2>1. IsFiniteSet(DOMAIN f)
    <3>1. IsFiniteSet(1..n)
      BY <1>1, FS_Interval
    <3> QED
      BY <1>7, <3>1
  <2>2. 0 \in Int /\ (\A a, b \in Int : a + b \in Int) /\ \A k \in DOMAIN f : f[k] \in Int
    BY <1>7
  <2>3. SumFunctionOnSet(f, DOMAIN f) \in Int
    BY ONLY <2>1, <2>2, SumTyped
  <2> QED
    BY <2>3 DEF SumFunction
<1> QED
  BY <1>6, <1>7, <1>8, <1>9, <1>10 DEF SumFunction, n

\* count_all_transactions counts the nodes below a transaction.
LEMMA CountIsLength ==
    ASSUME NEW t \in Trees
    PROVE  CountInner[t] = Len(Below[t])
<1> DEFINE P == {u \in Trees : CountInner[u] = Len(Below[u])}
<1>1. ASSUME NEW u \in Trees, u.inner \in Seq(Trees), Range(u.inner) \subseteq P
      PROVE  CountInner[u] = Len(Below[u])
  <2>1. \A i \in DOMAIN u.inner : CountInner[u.inner[i]] = Len(Below[u.inner[i]])
    BY <1>1 DEF Range
  <2>2. PICK f : f = [i \in DOMAIN u.inner |-> Len(Below[u.inner[i]])]
    OBVIOUS
  <2>3. f = [i \in DOMAIN u.inner |-> CountInner[u.inner[i]]]
    BY <2>1, <2>2
  <2>4. CountInner[u] = SumFunction(f) + Len(u.inner)
    BY <2>3, CountInnerIs DEF CountOf
  <2>5. Size(u.inner) = SumFunction(f) + Len(u.inner)
    BY <1>1, <2>2, SizeIsSum
  <2>6. Size(u.inner) = Len(Below[u])
    BY BelowIs DEF Size
  <2> QED
    BY <2>4, <2>5, <2>6
<1>2. \A u \in Trees : u.inner \in Seq(Trees) /\ Range(u.inner) \subseteq P => u \in P
  BY <1>1
<1> HIDE DEF P
<1>3. t \in P
  BY <1>2, TreeInduction
<1> QED
  BY <1>3 DEF P

\* The count of a payset is the number of its nodes.
LEMMA CountAllIsSize ==
    ASSUME NEW forest \in Seq(Trees)
    PROVE  CountAll(forest) = Size(forest) /\ CountAll(forest) \in Nat
<1>1. PICK f : f = [i \in DOMAIN forest |-> Len(Below[forest[i]])]
  OBVIOUS
<1>2. \A i \in DOMAIN forest : CountInner[forest[i]] = Len(Below[forest[i]])
  BY SeqIs, CountIsLength
<1>3. f = [i \in DOMAIN forest |-> CountInner[forest[i]]]
  BY <1>1, <1>2
<1>4. CountAll(forest) = SumFunction(f) + Len(forest)
  BY <1>3 DEF CountAll
<1> QED
  BY <1>1, <1>4, SizeIsSum

\* The subscriber makes a transaction of each node of the payset, and one of the
\* payout.
LEMMA TransactionsOfBlock ==
    ASSUME IsGiven, NEW r \in 1..window[3]
    PROVE  Len(SubscribedTxns(AlgodTxns(chain[r]))) =
               Size(chain[r].payset) + (IF HasPayout(chain[r].header) THEN 1 ELSE 0)
<1> DEFINE payset == chain[r].payset
           header == chain[r].header
           n == Len(payset)
           m == Count(r)
           roots == AlgodTxns(chain[r])
           lists == [j \in DOMAIN roots |-> WithInner(roots[j])]
<1>1. n \in Nat /\ DOMAIN payset = 1..n /\ payset \in Seq(Trees)
      /\ \A j \in 1..n : payset[j] \in Trees
  BY BlockOfRound
<1>2. m = n + (IF HasPayout(header) THEN 1 ELSE 0)
  BY DEF Count
<1>m. m = (IF HasPayout(header) THEN n + 1 ELSE n)
  <2> HIDE DEF n, m
  <2> QED
    BY <1>1, <1>2
<1>3. roots = [j \in 1..m |-> RootAt(r, j)]
  BY BlockIsAsIndexed, IndexedTxnsAre
<1>4. \A j \in 1..m : IsRoot(RootAt(r, j))
  BY RootAtIsRoot
<1>5. lists = [j \in 1..m |-> lists[j]] /\ \A j \in 1..m : lists[j] = WithInner(RootAt(r, j))
  BY <1>3
<1>6. SubscribedTxns(roots) = Joined(lists)
  BY DEF SubscribedTxns
<1> HIDE DEF lists, roots
<1>7. \A j \in 1..m : /\ Len(lists[j]) = 1 + Len(RootAt(r, j).inner)
                      /\ lists[j] \in Seq(Range(lists[j]))
                      /\ Len(RootAt(r, j).inner) \in Nat
  BY <1>4, <1>5, WithInnerIs DEF IsRoot
<1>8. m \in Nat
  <2> HIDE DEF n, m
  <2> QED
    BY <1>1, <1>m
<1>9. PICK S : lists \in Seq(Seq(S)) /\ DOMAIN lists = 1..m
  <2>1. DOMAIN lists = 1..m /\ \E S : lists \in Seq(Seq(S))
    <3> HIDE DEF m
    <3>1. \A j \in 1..m : lists[j] \in Seq(Range(lists[j]))
      BY <1>7
    <3> QED
      BY <1>5, <1>8, <3>1, SeqOfLists
  <2> QED
    BY <2>1
<1>10. PICK e : e = [j \in DOMAIN lists |-> Len(lists[j])]
  OBVIOUS
<1>11. Len(SubscribedTxns(roots)) = SumFunction(e)
  BY <1>6, <1>9, <1>10, JoinedLength
<1>12. PICK f : f = [j \in DOMAIN payset |-> Len(Below[payset[j]])]
  OBVIOUS
<1>13. Size(payset) = SumFunction(f) + n /\ Size(payset) \in Nat /\ SumFunction(f) \in Int
  BY <1>1, <1>12, SizeIsSum
<1>14. DOMAIN e = 1..m /\ \A j \in 1..m : e[j] = 1 + Len(RootAt(r, j).inner) /\ e[j] \in Int
  BY <1>7, <1>9, <1>10
<1>15. ASSUME NEW j \in 1..n PROVE f[j] \in Int /\ e[j] = 1 + f[j]
  <2>1. j \in 1..m /\ j <= n
    <3>1. j \in 1..n /\ n \in Nat /\ (m = n \/ m = n + 1)
      BY <1>1, <1>m
    <3> HIDE DEF n, m
    <3> QED
      BY <3>1
  <2>2. RootAt(r, j).inner = Inner(payset[j])
    BY <2>1 DEF RootAt
  <2>3. PICK b : b = Below[payset[j]]
    OBVIOUS
  <2>4. b \in Seq(Trees)
    BY <1>1, <2>3, BelowTyped
  <2>5. Len(Inner(payset[j])) = Len(b)
    <3>1. Inner(payset[j]) = [k \in DOMAIN b |-> [facts |-> b[k].facts, size |-> Len(Below[b[k]])]]
      BY <2>3 DEF Inner, Sized
    <3>2. DOMAIN b = 1..Len(b) /\ Len(b) \in Nat
      BY <2>4
    <3>3. PICK i : i = Inner(payset[j])
      OBVIOUS
    <3>4. i \in [1..Len(b) -> Range(i)]
      BY <3>1, <3>2, <3>3 DEF Range
    <3> QED
      BY <3>2, <3>3, <3>4, FunctionIsSeq
  <2>6. f[j] = Len(b) /\ Len(b) \in Nat
    BY <1>1, <1>12, <2>3, <2>4
  <2> QED
    BY <1>14, <2>1, <2>2, <2>5, <2>6
<1>16. SumFunctionOnSet(e, 1..n) = SumFunctionOnSet(f, 1..n) + n
  <2> HIDE DEF n
  <2> QED
    BY <1>1, <1>15, SumOneMore
<1>17. DOMAIN f = 1..n
  BY <1>1, <1>12
<1>18. SumFunctionOnSet(e, 1..n) = Size(payset)
  BY <1>13, <1>16, <1>17 DEF SumFunction
<1>19. CASE ~HasPayout(header)
  <2>1. m = n
    BY <1>m, <1>19
  <2>2. SumFunction(e) = Size(payset)
    BY <1>14, <1>18, <2>1 DEF SumFunction
  <2>3. Size(payset) + 0 = Size(payset)
    BY <1>13
  <2> QED
    BY <1>11, <1>19, <2>2, <2>3 DEF roots, payset, header
<1>20. CASE HasPayout(header)
  <2>1. m = n + 1
    BY <1>m, <1>20
  <2>2. e[n + 1] = 1
    <3>1. n + 1 \in 1..m /\ ~(n + 1 <= n)
      BY <1>1, <2>1
    <3>2. RootAt(r, n + 1).inner = <<>>
      BY <3>1 DEF RootAt
    <3>3. Len(<<>>) = 0
      OBVIOUS
    <3> HIDE DEF m, n
    <3> QED
      BY <1>14, <3>1, <3>2, <3>3
  <2>3. /\ SumFunctionOnSet(e, 1..n) \in Int
        /\ SumFunctionOnSet(e, 1..(n + 1)) = SumFunctionOnSet(e, 1..n) + e[n + 1]
    <3>1. \A k \in 1..(n + 1) : e[k] \in Int
      BY <1>14, <2>1
    <3> HIDE DEF n
    <3> QED
      BY <1>1, <3>1, SumNext
  <2>4. SumFunction(e) = SumFunctionOnSet(e, 1..(n + 1))
    BY <1>14, <2>1 DEF SumFunction
  <2>5. SumFunction(e) = Size(payset) + 1
    BY <1>18, <2>2, <2>3, <2>4
  <2> QED
    BY <1>11, <1>20, <2>5 DEF roots, payset, header
<1> QED
  BY <1>19, <1>20

\* The transactions that the subscriber makes of a block are those in it, and its
\* payout when it has one.
LEMMA RootsOfBlock ==
    ASSUME IsGiven, NEW r \in 1..window[3]
    PROVE  Len(AlgodTxns(chain[r])) =
               Len(chain[r].payset) + (IF HasPayout(chain[r].header) THEN 1 ELSE 0)
<1> DEFINE n == Len(chain[r].payset)
           m == Count(r)
<1>1. n \in Nat
  BY BlockOfRound
<1>2. m = n + (IF HasPayout(chain[r].header) THEN 1 ELSE 0)
  BY DEF Count
<1>3. AlgodTxns(chain[r]) = [j \in 1..m |-> RootAt(r, j)]
  BY BlockIsAsIndexed, IndexedTxnsAre
<1> HIDE DEF n, m
<1>4. m \in Nat
  BY <1>1, <1>2
<1>5. Len([j \in 1..m |-> RootAt(r, j)]) = m
  BY <1>4
<1> QED
  BY <1>2, <1>3, <1>5 DEF n

\* The metadata that a poll returns, block by block.
LEMMA MetadataOfBlock ==
    ASSUME IsGiven, NEW r \in 1..window[3]
    PROVE  LET metadata == Metadata(chain[r])
           IN  /\ metadata \in BlockMetadata /\ metadata.round = r
               /\ Len(AlgodTxns(chain[r])) =
                      metadata.parents + (IF HasPayout(chain[r].header) THEN 1 ELSE 0)
               /\ Len(SubscribedTxns(AlgodTxns(chain[r]))) =
                      metadata.all + (IF HasPayout(chain[r].header) THEN 1 ELSE 0)
<1> DEFINE payset == chain[r].payset
           header == chain[r].header
           cert == chain[r].cert
<1>1. /\ r \in Nat /\ payset \in Seq(Trees) /\ Len(payset) \in Nat
      /\ header \in BlockHeaders(r) /\ header.round = r
      /\ cert \in Seq([digest : Seq(Texts)])
  BY BlockOfRound
<1>2. CountAll(payset) = Size(payset) /\ CountAll(payset) \in Nat
  BY <1>1, CountAllIsSize
<1>3. /\ Metadata(chain[r]).round = r /\ Metadata(chain[r]).all = CountAll(payset)
      /\ Metadata(chain[r]).parents = Len(payset)
  BY <1>1 DEF Metadata
<1>4. BlockHash(cert) \in Texts
  <2>1. CASE Given(cert)
    <3>1. PICK S : cert \in Seq(S) /\ S = [digest : Seq(Texts)]
      BY <1>1
    <3>2. cert # <<>> /\ cert \in Seq(S)
      BY <2>1, <3>1 DEF Given
    <3>3. cert[1] \in S
      BY ONLY <3>2
    <3>4. PICK d : d = cert[1].digest
      OBVIOUS
    <3>5. d \in Seq(Texts)
      BY <3>1, <3>3, <3>4
    <3>6. OrElse(d, None) \in Texts
      <4>1. None \in Texts
        BY TextsAssumption
      <4>2. \A T : \A q \in Seq(T), x \in T : OrElse(q, x) \in T
        BY DEF OrElse, Given
      <4> QED
        BY ONLY <3>5, <4>1, <4>2
    <3> QED
      BY <2>1, <3>4, <3>6 DEF BlockHash
  <2>2. CASE ~Given(cert)
    BY <2>2, TextsAssumption DEF BlockHash
  <2> QED
    BY <2>1, <2>2
<1>5. /\ header.proposer \in Texts /\ header.feeSink \in Texts /\ header.pool \in Texts
      /\ header.level \in Seq(Nat) /\ header.counter \in Seq(Nat)
      /\ header.genesisId \in Seq(Texts) /\ header.previous \in Seq(Texts)
      /\ header.protocol \in Seq(Texts) /\ header.nextProtocol \in Seq(Texts)
  BY <1>1 DEF BlockHeaders
<1>6. \A S : \A s \in Seq(S), x \in S : OrElse(s, x) \in S
  BY DEF OrElse, Given
<1>7. None \in Texts /\ "" \in Texts /\ ZeroAddress \in Texts /\ 0 \in Nat
  BY TextsAssumption
<1>8. /\ OrElse(header.level, 0) \in Nat /\ OrElse(header.counter, 0) \in Nat
      /\ OrElse(header.genesisId, "") \in Texts /\ OrElse(header.previous, None) \in Texts
      /\ OrElse(header.protocol, "") \in Texts /\ OrElse(header.nextProtocol, None) \in Texts
      /\ FeeSink(header) \in Texts
      /\ (IF header.pool = None THEN ZeroAddress ELSE header.pool) \in Texts
  BY <1>5, <1>6, <1>7 DEF FeeSink
<1>9. Metadata(chain[r]) =
          [round |-> header.round, hash |-> BlockHash(cert),
           previousHash |-> OrElse(header.previous, None),
           genesisId |-> OrElse(header.genesisId, ""), proposer |-> header.proposer,
           rewards |-> Metadata(chain[r]).rewards, upgrade |-> Metadata(chain[r]).upgrade,
           counter |-> OrElse(header.counter, 0), parents |-> Len(payset),
           all |-> CountAll(payset)]
      /\ Metadata(chain[r]).rewards =
          [feeSink |-> FeeSink(header),
           pool |-> IF header.pool = None THEN ZeroAddress ELSE header.pool,
           level |-> OrElse(header.level, 0)]
      /\ Metadata(chain[r]).upgrade =
          [currentProtocol |-> OrElse(header.protocol, ""),
           nextProtocol |-> OrElse(header.nextProtocol, None)]
  BY DEF Metadata
<1>10. PICK hash, previous, genesis, proposer, sink, pool, level, protocol, next, counter :
           /\ hash = BlockHash(cert) /\ previous = OrElse(header.previous, None)
           /\ genesis = OrElse(header.genesisId, "") /\ proposer = header.proposer
           /\ sink = FeeSink(header) /\ level = OrElse(header.level, 0)
           /\ pool = (IF header.pool = None THEN ZeroAddress ELSE header.pool)
           /\ protocol = OrElse(header.protocol, "") /\ next = OrElse(header.nextProtocol, None)
           /\ counter = OrElse(header.counter, 0)
  OBVIOUS
<1>11. PICK rewards, upgrade, size, all :
           /\ rewards = Metadata(chain[r]).rewards /\ upgrade = Metadata(chain[r]).upgrade
           /\ size = Len(payset) /\ all = CountAll(payset)
  OBVIOUS
<1>12. /\ Metadata(chain[r]) =
              [round |-> r, hash |-> hash, previousHash |-> previous, genesisId |-> genesis,
               proposer |-> proposer, rewards |-> rewards, upgrade |-> upgrade,
               counter |-> counter, parents |-> size, all |-> all]
       /\ rewards = [feeSink |-> sink, pool |-> pool, level |-> level]
       /\ upgrade = [currentProtocol |-> protocol, nextProtocol |-> next]
  BY <1>1, <1>9, <1>10, <1>11
<1>13. /\ hash \in Texts /\ previous \in Texts /\ genesis \in Texts /\ proposer \in Texts
       /\ sink \in Texts /\ pool \in Texts /\ level \in Nat /\ protocol \in Texts
       /\ next \in Texts /\ counter \in Nat /\ size \in Nat /\ all \in Nat /\ r \in Nat
  BY <1>1, <1>2, <1>4, <1>5, <1>8, <1>10, <1>11
<1>14. rewards \in BlockRewards /\ upgrade \in BlockUpgradeState
  BY ONLY <1>12, <1>13 DEF BlockRewards, BlockUpgradeState
<1>15. PICK R, U : R = BlockRewards /\ U = BlockUpgradeState
  OBVIOUS
<1>16. PICK b : b = Metadata(chain[r])
  OBVIOUS
<1>17. rewards \in R /\ upgrade \in U
  BY <1>14, <1>15
<1>18. b = [round |-> r, hash |-> hash, previousHash |-> previous, genesisId |-> genesis,
            proposer |-> proposer, rewards |-> rewards, upgrade |-> upgrade,
            counter |-> counter, parents |-> size, all |-> all]
  BY <1>12, <1>16
<1>19. b \in [round : Nat, hash : Texts, previousHash : Texts, genesisId : Texts, proposer : Texts,
              rewards : R, upgrade : U, counter : Nat, parents : Nat, all : Nat]
  BY ONLY <1>13, <1>17, <1>18
<1> HIDE DEF payset, header, cert
<1>20. Metadata(chain[r]) \in BlockMetadata
  BY <1>15, <1>16, <1>19 DEF BlockMetadata
<1> QED
  BY <1>2, <1>3, <1>20, TransactionsOfBlock, RootsOfBlock DEF payset, header

\* At the tip there is no round to read.
LEMMA NothingReadAtTip ==
    ASSUME IsGiven, AtTip(window[2], window[3])
    PROVE  Read = {} /\ Cardinality(Read) = 0
<1> DEFINE cfg == window[1]
           w == window[2]
           c == window[3]
<1>1. cfg \in SyncConfig /\ w \in Nat /\ c \in Nat /\ c <= w
  BY WindowsAssumption DEF IsGiven, AtTip
<1>2. cfg.maxRoundsToSync \in Nat
  BY <1>1 DEF SyncConfig
<1> HIDE DEF cfg, w, c
<1>3. ~TooFarBehind(cfg, w, c)
  BY <1>1, <1>2 DEF TooFarBehind
<1>4. AlgodRounds(cfg, w, c) = (w + 1)..c
  BY <1>3 DEF AlgodRounds, AlgodFrom, EndRound, StartRound, IndexerCapped, CatchesUp, SkipsToNewest,
       SyncsOldest
<1>5. (w + 1)..c = {}
  BY <1>1
<1>6. Read = {}
  BY <1>4, <1>5 DEF Read, cfg, w, c
<1> QED
  BY <1>6, FS_EmptySet

\* The metadata of the blocks that a poll has read.
LEMMA MetadataOfBlocks ==
    ASSUME IsGiven, Syncs, BlocksRead, Len(blocks) = Cardinality(Read),
           NEW i \in 1..Cardinality(Read)
    PROVE  /\ blocks[i] = chain[Min(Read) + i - 1]
           /\ Metadata(blocks[i]) \in BlockMetadata /\ Metadata(blocks[i]).round = Min(Read) + i - 1
           /\ Len(AlgodTxns(blocks[i])) =
                  Metadata(blocks[i]).parents + (IF HasPayout(blocks[i].header) THEN 1 ELSE 0)
           /\ Len(SubscribedTxns(AlgodTxns(blocks[i]))) =
                  Metadata(blocks[i]).all + (IF HasPayout(blocks[i].header) THEN 1 ELSE 0)
<1> DEFINE n == Cardinality(Read)
           m == Min(Read)
<1>1. PICK a \in Int, b \in Int : Read = a..b
  BY RoundsOfPoll
<1>2. n = IF a > b THEN 0 ELSE b - a + 1
  BY <1>1, FS_Interval
<1>3. blocks = [k \in 1..n |-> chain[m + k - 1]]
  BY DEF BlocksRead
<1>4. Read \subseteq 1..window[3]
  BY RoundsOfPoll
<1>5. a <= b
  BY <1>2
<1>6. m = a
  BY <1>1, <1>5, MinOfInterval
<1>7. PICK r : r = m + i - 1
  OBVIOUS
<1>8. r \in Read
  BY <1>1, <1>2, <1>5, <1>6, <1>7
<1>9. blocks[i] = chain[r]
  BY <1>3, <1>7
<1>10. /\ Metadata(chain[r]) \in BlockMetadata /\ Metadata(chain[r]).round = r
       /\ Len(AlgodTxns(chain[r])) =
              Metadata(chain[r]).parents + (IF HasPayout(chain[r].header) THEN 1 ELSE 0)
       /\ Len(SubscribedTxns(AlgodTxns(chain[r]))) =
              Metadata(chain[r]).all + (IF HasPayout(chain[r].header) THEN 1 ELSE 0)
  BY <1>4, <1>8, MetadataOfBlock
<1> QED
  BY <1>7, <1>9, <1>10

\* The metadata of a poll is that of the blocks it read, in their order, and counts
\* the transactions that the subscriber makes of them.
THEOREM MetadataIsExact == Spec => []MetadataAgrees
<1>1. PollInv => MetadataAgrees
  <2> SUFFICES ASSUME PollInv, pc = "done" PROVE MetadataAgrees
    BY DEF MetadataAgrees
  <2> DEFINE metadata == result.blockMetadata
             n == Cardinality(Read)
             m == Min(Read)
  <2>1. IsGiven
    BY DEF PollInv, SearchInv
  <2>2. CASE ResultAtTip
    <3>1. metadata = <<>> /\ AtTip(window[2], window[3])
      BY <2>2 DEF ResultAtTip, TransactionSubscriptionResult
    <3>2. n = 0
      BY <2>1, <3>1, NothingReadAtTip
    <3>3. DOMAIN metadata = {} /\ 1..n = {}
      BY <3>1, <3>2
    <3> HIDE DEF metadata, n
    <3>4. [i \in DOMAIN metadata |-> metadata[i].round] = [i \in 1..n |-> Min(Read) + i - 1]
      BY <3>3
    <3> QED
      BY <3>3, <3>4 DEF MetadataAgrees, metadata, n
  <2>3. CASE ResultOfSync
    <3>1. /\ Syncs /\ BlocksRead /\ Len(blocks) = n
          /\ metadata = [i \in DOMAIN blocks |-> Metadata(blocks[i])]
      BY <2>3 DEF ResultOfSync, TransactionSubscriptionResult
    <3>2. DOMAIN blocks = 1..n
      BY <3>1 DEF BlocksRead
    <3>3. \A i \in 1..n :
             /\ Metadata(blocks[i]).round = m + i - 1
             /\ Len(AlgodTxns(blocks[i])) =
                    Metadata(blocks[i]).parents + (IF HasPayout(blocks[i].header) THEN 1 ELSE 0)
             /\ Len(SubscribedTxns(AlgodTxns(blocks[i]))) =
                    Metadata(blocks[i]).all + (IF HasPayout(blocks[i].header) THEN 1 ELSE 0)
      BY <2>1, <3>1, MetadataOfBlocks
    <3>4. DOMAIN metadata = 1..n /\ \A i \in 1..n : metadata[i] = Metadata(blocks[i])
      BY <3>1, <3>2
    <3> HIDE DEF metadata, n, m
    <3>5. [i \in DOMAIN metadata |-> metadata[i].round] = [i \in 1..n |-> m + i - 1]
      BY <3>3, <3>4
    <3>6. \A i \in DOMAIN metadata :
             /\ Len(AlgodTxns(blocks[i])) =
                    metadata[i].parents + (IF HasPayout(blocks[i].header) THEN 1 ELSE 0)
             /\ Len(SubscribedTxns(AlgodTxns(blocks[i]))) =
                    metadata[i].all + (IF HasPayout(blocks[i].header) THEN 1 ELSE 0)
      BY <3>3, <3>4
    <3> QED
      BY <3>5, <3>6 DEF MetadataAgrees, metadata, n, m
  <2> QED
    BY <2>2, <2>3 DEF PollInv
<1> QED
  BY <1>1, PollInvariant, PTL

-------------------------------------------------------------------------------
(* The types. *)

AtPlace == pc \in {"begin", "request", "map", "merge", "blocks", "done", "raised"}

\* The poll starts at its first statement.
LEMMA PlaceInit == Init => AtPlace
BY DEF Init, AtPlace

\* Each step leads to a statement of the poll.
LEMMA PlaceNext == AtPlace /\ [Next]_vars => AtPlace'
<1> SUFFICES ASSUME AtPlace, [Next]_vars PROVE AtPlace'
  OBVIOUS
<1>1. CASE ReturnAtTip
  BY <1>1 DEF ReturnAtTip, AtPlace
<1>2. CASE Begin
  BY <1>2 DEF Begin, AtPlace
<1>3. CASE RequestPage
  BY <1>3 DEF RequestPage, AtPlace
<1>4. CASE MapAndFilter
  BY <1>4 DEF MapAndFilter, AtPlace
<1>5. CASE Merge
  BY <1>5 DEF Merge, AtPlace
<1>6. CASE ReadBlock
  BY <1>6 DEF ReadBlock, AtPlace
<1>7. CASE Finish
  BY <1>7 DEF Finish, AtPlace
<1>8. CASE Done
  BY <1>8 DEF Done, vars, AtPlace
<1>9. CASE UNCHANGED vars
  BY <1>9 DEF vars, AtPlace
<1> QED
  BY <1>1, <1>2, <1>3, <1>4, <1>5, <1>6, <1>7, <1>8, <1>9 DEF Next

\* The token never passes the end of what there is to search.
LEMMA TokenBounded ==
    ASSUME SearchInv
    PROVE  token \in -1..Len(OfRounds(IndexedTxns, Searched))
<1> DEFINE all == OfRounds(IndexedTxns, Searched)
<1>1. IsGiven
  BY DEF SearchInv
<1>2. Len(all) \in Nat
  <2>1. CASE CatchesUp(window[1], window[2], window[3])
    <3>1. all \in Seq(Range(all))
      BY <1>1, <2>1, SearchedTxns
    <3> HIDE DEF all
    <3> QED
      BY <3>1
  <2>2. CASE ~CatchesUp(window[1], window[2], window[3])
    <3>1. Searched = {}
      BY <2>2 DEF Searched, IndexerRounds
    <3>2. Cardinality(Searched) = 0
      BY <3>1, FS_EmptySet
    <3>3. [i \in 1..Cardinality(Searched) |-> IndexedTxns(Min(Searched) + i - 1)] = <<>>
      BY <3>2
    <3>4. all = <<>>
      BY <3>3, JoinedEmpty DEF OfRounds
    <3> HIDE DEF all
    <3> QED
      BY <3>4
  <2> QED
    BY <2>1, <2>2
<1>3. CASE pc \notin {"request", "map"}
  <2>1. token = -1
    BY <1>3 DEF SearchInv
  <2> HIDE DEF all
  <2> QED
    BY <1>2, <2>1
<1>4. CASE pc \in {"request", "map"}
  <2>1. CatchesUp(window[1], window[2], window[3]) /\ token \in -1..Len(Answer(filters[current]))
    BY <1>4 DEF SearchInv
  <2>2. PICK f : f = filters[current]
    OBVIOUS
  <2>3. Answer(f) \in Seq(Range(Answer(f))) /\ Len(Answer(f)) <= Len(all)
    BY <1>1, <2>1, AnswerOfSearch
  <2>4. PICK n : n = Len(Answer(f))
    OBVIOUS
  <2>5. PICK m : m = Len(all)
    OBVIOUS
  <2>6. n \in Nat /\ m \in Nat /\ n <= m /\ token \in -1..n
    BY <1>2, <2>1, <2>2, <2>3, <2>4, <2>5
  <2>7. token \in -1..m
    BY ONLY <2>6
  <2> QED
    BY <2>5, <2>7
<1> QED
  BY <1>3, <1>4

\* What a poll keeps has names, and an id of its own.
LEMMA KeptDiffer ==
    ASSUME IsGiven, Syncs
    PROVE  /\ \A k \in DOMAIN Kept : Kept[k].matched # <<>>
           /\ \A k, l \in DOMAIN Kept : Kept[k].id = Kept[l].id => k = l
<1> DEFINE rounds == StartRound(window[1], window[2], window[3])
                         ..EndRound(window[1], window[2], window[3])
<1>1. IsKept(Kept, rounds)
  BY KeptIs
<1> HIDE DEF rounds
<1>2. \A k \in DOMAIN Kept : \E r, j, i :
          NamesMatched(filters, Facts(r, j, i)) # <<>> /\ Shows(Kept[k], r, j, i)
  BY <1>1 DEF IsKept, Range
<1>3. ASSUME NEW k \in DOMAIN Kept, NEW l \in DOMAIN Kept, Kept[k].id = Kept[l].id
      PROVE  Kept[k].round = Kept[l].round /\ Kept[k].offset = Kept[l].offset
  <2>1. PICK r, j, i : Shows(Kept[k], r, j, i)
    BY <1>2
  <2>2. PICK s, t, u : Shows(Kept[l], s, t, u)
    BY <1>2
  <2>3. <<RootAt(s, t).id, u>> = <<RootAt(r, j).id, i>>
    BY <1>3, <2>1, <2>2 DEF Shows
  <2>4. s = r /\ t = j /\ u = i
    BY <2>3, SameNode
  <2> QED
    BY <2>1, <2>2, <2>4 DEF Shows
<1>4. DOMAIN Kept = 1..Len(Kept) /\ Len(Kept) \in Nat
  BY <1>1 DEF IsKept
<1>5. \A k \in DOMAIN Kept : Kept[k].round \in Nat /\ Kept[k].offset \in Nat
  BY <1>1 DEF IsKept, Keyed
<1>6. \A k, l \in DOMAIN Kept : k < l =>
          \/ Kept[k].round < Kept[l].round
          \/ Kept[k].round = Kept[l].round /\ Kept[k].offset < Kept[l].offset
  BY <1>1 DEF IsKept, Sorted, Earlier
<1>7. ASSUME NEW k \in DOMAIN Kept, NEW l \in DOMAIN Kept, Kept[k].id = Kept[l].id
      PROVE  k = l
  <2>1. Kept[k].round = Kept[l].round /\ Kept[k].offset = Kept[l].offset
    BY <1>3, <1>7
  <2>2. ~(k < l) /\ ~(l < k)
    BY <1>5, <1>6, <2>1
  <2> QED
    BY <1>4, <2>2
<1>8. \A k \in DOMAIN Kept : Kept[k].matched # <<>>
  BY <1>2 DEF Shows
<1> QED
  BY <1>7, <1>8

\* The metadata of a finished poll.
LEMMA MetadataTyped ==
    ASSUME PollInv, pc = "done"
    PROVE  result.blockMetadata \in Seq(BlockMetadata)
<1>1. IsGiven
  BY DEF PollInv, SearchInv
<1>2. CASE ResultAtTip
  <2>1. result.blockMetadata = <<>>
    BY <1>2 DEF ResultAtTip, TransactionSubscriptionResult
  <2> QED
    BY <2>1
<1>3. CASE ResultOfSync
  <2> DEFINE n == Cardinality(Read)
  <2>1. /\ Syncs /\ BlocksRead /\ Len(blocks) = n
        /\ result.blockMetadata = [i \in DOMAIN blocks |-> Metadata(blocks[i])]
    BY <1>3 DEF ResultOfSync, TransactionSubscriptionResult
  <2>2. DOMAIN blocks = 1..n /\ n \in Nat
    BY <2>1 DEF BlocksRead
  <2>3. \A i \in 1..n : Metadata(blocks[i]) \in BlockMetadata
    BY <1>1, <2>1, MetadataOfBlocks
  <2>4. PICK S : S = BlockMetadata
    OBVIOUS
  <2> HIDE DEF n
  <2>5. result.blockMetadata \in [1..n -> S]
    BY <2>1, <2>2, <2>3, <2>4
  <2> QED
    BY <2>2, <2>4, <2>5, FunctionIsSeq
<1> QED
  BY <1>2, <1>3 DEF PollInv

\* Type correctness, and no transaction twice or without the name of a filter.
THEOREM TypeCorrect == Spec => []TypeOK
<1>1. Spec => []AtPlace
  <2>1. Init => AtPlace
    BY PlaceInit
  <2>2. AtPlace /\ [Next]_vars => AtPlace'
    BY PlaceNext
  <2> QED
    BY <2>1, <2>2, PTL DEF Spec
<1>2. PollInv /\ AtPlace => TypeOK
  <2> SUFFICES ASSUME PollInv, AtPlace PROVE TypeOK
    OBVIOUS
  <2>1. current \in 1..(Len(filters) + 1) /\ SearchInv
    BY DEF PollInv, SearchInv
  <2>2. token \in -1..Len(OfRounds(IndexedTxns, Searched))
    BY <2>1, TokenBounded
  <2>3. pc = "done" => result.blockMetadata \in Seq(BlockMetadata)
    BY MetadataTyped
  <2>4. ASSUME NEW i \in DOMAIN Subscribed PROVE Subscribed[i].matched # <<>>
    <3>1. pc = "done"
      BY <2>4 DEF Subscribed
    <3>2. /\ IsGiven /\ Syncs /\ i \in DOMAIN Kept /\ Subscribed[i] = WithExtraFields(Kept[i])
      BY <3>1, ReportedAre
    <3>3. PICK x : x = Kept[i]
      OBVIOUS
    <3>4. Subscribed[i].matched = x.matched
      BY <3>2, <3>3 DEF WithExtraFields
    <3> QED
      BY <3>2, <3>3, <3>4, KeptDiffer
  <2>5. ASSUME NEW i \in DOMAIN Subscribed, NEW j \in DOMAIN Subscribed,
               Subscribed[i].id = Subscribed[j].id
        PROVE  i = j
    <3>1. pc = "done"
      BY <2>5 DEF Subscribed
    <3>2. /\ IsGiven /\ Syncs /\ i \in DOMAIN Kept /\ Subscribed[i] = WithExtraFields(Kept[i])
          /\ j \in DOMAIN Kept /\ Subscribed[j] = WithExtraFields(Kept[j])
      BY <3>1, ReportedAre
    <3>3. PICK x, y : x = Kept[i] /\ y = Kept[j]
      OBVIOUS
    <3>4. Subscribed[i].id = x.id /\ Subscribed[j].id = y.id
      BY <3>2, <3>3 DEF WithExtraFields
    <3> QED
      BY <2>5, <3>2, <3>3, <3>4, KeptDiffer
  <2> QED
    BY <2>1, <2>2, <2>3, <2>4, <2>5 DEF TypeOK, AtPlace
<1> QED
  BY <1>1, <1>2, PollInvariant, PTL

-------------------------------------------------------------------------------
(* The balance changes of a poll. *)

Changes == [address : Texts, asset : Nat, amount : Int,
            role : {"Sender", "Receiver", "CloseTo", "AssetCreator", "AssetDestroyer"}]

\* The ends of movements that lie at accounts.
Ends(moves) == UNION {{<<m, e>> : e \in {x \in moves[m] : x.address # None}} : m \in DOMAIN moves}

\* A list has the ends of a movement that lie at accounts, each once.
ListsEnds(part, moved) ==
    /\ \A x : (\E l \in DOMAIN part : part[l] = x) <=> x \in moved /\ x.address # None
    /\ \A k, l \in DOMAIN part : part[k] = part[l] => k = l

\* What the movements come to, for each account and asset.
NetChanges(ends) ==
    LET of(key) == {end \in ends : <<end[2].address, end[2].asset>> = key}
    IN  {[address |-> key[1], asset |-> key[2],
          amount |-> SumFunction([end \in of(key) |-> end[2].amount]),
          roles |-> {end[2].role : end \in of(key)}] :
            key \in {<<end[2].address, end[2].asset>> : end \in ends}}

\* h gives the place of a change its end.
EndsOf(h, raw, ends) ==
    /\ h \in [DOMAIN raw -> ends]
    /\ \A k, l \in DOMAIN raw : h[k] = h[l] => k = l
    /\ \A end \in ends : \E k \in DOMAIN raw : h[k] = end
    /\ \A k \in DOMAIN raw : raw[k] = h[k][2]

\* Lists that have the ends of one movement each have, joined, the ends of all.
LEMMA PartsListEnds ==
    ASSUME NEW parts \in Seq(Seq(Changes)), NEW moves, DOMAIN moves = DOMAIN parts,
           \A m \in DOMAIN parts : ListsEnds(parts[m], moves[m])
    PROVE  \E h : EndsOf(h, Joined(parts), Ends(moves))
<1> DEFINE raw == Joined(parts)
           n == Len(raw)
           ends == Ends(moves)
<1>1. PICK place : JoinsFrom(place, parts, raw)
  BY JoinedFrom
<1>2. raw \in Seq(Changes)
  BY JoinedPlaces
<1>3. DOMAIN raw = 1..n /\ n \in Nat
  BY <1>2
<1> HIDE DEF raw, n
<1>4. \A k \in 1..n : /\ place[k] \in Places(parts) /\ raw[k] = parts[place[k][1]][place[k][2]]
  BY <1>1 DEF JoinsFrom, n
<1>5. \A k, l \in 1..n : place[k] = place[l] => k = l
  <2>1. \A k, l \in 1..n : k < l => Prior(place[k], place[l])
    BY <1>1 DEF JoinsFrom, n
  <2>2. \A p \in Places(parts) : p[1] \in Int /\ p[2] \in Int
    BY DEF Places
  <2>3. \A k, l \in 1..n : k < l => place[k] # place[l]
    BY <1>4, <2>1, <2>2 DEF Prior
  <2> QED
    BY <2>3
<1>6. \A p \in Places(parts) : p = <<p[1], p[2]>> /\ p[1] \in DOMAIN parts /\ p[2] \in DOMAIN parts[p[1]]
  BY DEF Places
<1>7. PICK h : h = [k \in 1..n |-> <<place[k][1], raw[k]>>]
  OBVIOUS
<1>8. \A m, e : <<m, e>> \in ends <=> m \in DOMAIN parts /\ e \in moves[m] /\ e.address # None
  BY DEF Ends
<1>9. \A end \in ends : end = <<end[1], end[2]>>
  BY DEF Ends
<1> HIDE DEF ends
<1>10. ASSUME NEW k \in 1..n PROVE h[k] \in ends /\ raw[k] = h[k][2]
  <2>1. PICK m, l : place[k] = <<m, l>> /\ m \in DOMAIN parts /\ l \in DOMAIN parts[m]
    BY <1>4, <1>6
  <2>2. raw[k] = parts[m][l] /\ h[k] = <<m, raw[k]>>
    BY <1>4, <1>7, <2>1
  <2>3. raw[k] \in moves[m] /\ raw[k].address # None
    BY <2>1, <2>2 DEF ListsEnds
  <2> QED
    BY <1>8, <2>1, <2>2, <2>3
<1>11. ASSUME NEW k \in 1..n, NEW l \in 1..n, h[k] = h[l] PROVE k = l
  <2>1. PICK m, i : place[k] = <<m, i>> /\ m \in DOMAIN parts /\ i \in DOMAIN parts[m]
    BY <1>4, <1>6
  <2>2. PICK p, j : place[l] = <<p, j>> /\ p \in DOMAIN parts /\ j \in DOMAIN parts[p]
    BY <1>4, <1>6
  <2>3. m = p /\ raw[k] = raw[l]
    BY <1>7, <1>11, <2>1, <2>2
  <2>4. i = j
    <3>1. raw[k] = parts[m][i] /\ raw[l] = parts[p][j]
      BY <1>4, <2>1, <2>2
    <3>2. PICK part : part = parts[m]
      OBVIOUS
    <3>3. ListsEnds(part, moves[m])
      BY <2>1, <3>2
    <3>4. i \in DOMAIN part /\ j \in DOMAIN part /\ part[i] = part[j]
      BY <2>1, <2>2, <2>3, <3>1, <3>2
    <3> QED
      BY ONLY <3>3, <3>4 DEF ListsEnds
  <2> QED
    BY <1>5, <2>1, <2>2, <2>3, <2>4
<1>12. ASSUME NEW end \in ends PROVE \E k \in 1..n : h[k] = end
  <2>1. PICK m, e : end = <<m, e>> /\ m \in DOMAIN parts /\ e \in moves[m] /\ e.address # None
    BY <1>8, <1>9
  <2>2. PICK l \in DOMAIN parts[m] : parts[m][l] = e
    BY <2>1 DEF ListsEnds
  <2>3. <<m, l>> \in Places(parts)
    <3>1. parts[m] \in Seq(Changes)
      BY <2>1
    <3>2. DOMAIN parts[m] = 1..Len(parts[m])
      BY <3>1
    <3>3. l \in Nat
      BY <3>2
    <3> QED
      BY <2>1, <2>2, <3>3 DEF Places
  <2>4. PICK k \in 1..n : place[k] = <<m, l>>
    BY <1>1, <2>3 DEF JoinsFrom, n
  <2>5. raw[k] = e
    BY <1>4, <2>2, <2>4
  <2>6. place[k][1] = m
    BY <2>4
  <2> QED
    BY <1>7, <2>1, <2>5, <2>6
<1>13. h \in [1..n -> ends]
  BY <1>7, <1>10
<1>14. EndsOf(h, raw, ends)
  BY <1>3, <1>10, <1>11, <1>12, <1>13 DEF EndsOf
<1> QED
  BY <1>14 DEF raw, ends

\* The changes of one account in one asset, made one, are what its movements
\* come to.
LEMMA ConsolidatedIs ==
    ASSUME NEW raw \in Seq(Changes), NEW ends, NEW h, EndsOf(h, raw, ends)
    PROVE  Consolidated(raw) = NetChanges(ends)
<1> DEFINE of(key) == {end \in ends : <<end[2].address, end[2].asset>> = key}
           at(key) == Entries(raw, key)
           keys == {<<end[2].address, end[2].asset>> : end \in ends}
           amount1(key) == SumFunction([i \in at(key) |-> raw[i].amount])
           amount2(key) == SumFunction([end \in of(key) |-> end[2].amount])
           roles1(key) == {raw[i].role : i \in at(key)}
           roles2(key) == {end[2].role : end \in of(key)}
<1>1. /\ \A k \in DOMAIN raw : h[k] \in ends /\ raw[k] = h[k][2]
      /\ \A k, l \in DOMAIN raw : h[k] = h[l] => k = l
      /\ \A end \in ends : \E k \in DOMAIN raw : h[k] = end
  BY DEF EndsOf
<1>2. DOMAIN raw = 1..Len(raw) /\ Len(raw) \in Nat /\ \A k \in DOMAIN raw : raw[k].amount \in Int
  <2>1. PICK S : S = Changes
    OBVIOUS
  <2>2. raw \in Seq(S)
    BY <2>1
  <2>3. DOMAIN raw = 1..Len(raw) /\ Len(raw) \in Nat /\ \A k \in DOMAIN raw : raw[k] \in S
    BY ONLY <2>2
  <2>4. \A c \in S : c.amount \in Int
    BY <2>1 DEF Changes
  <2> QED
    BY <2>3, <2>4
<1>3. Keys(raw) = keys
  BY <1>1 DEF Keys
<1>4. ASSUME NEW key PROVE roles1(key) = roles2(key)
  BY <1>1 DEF Entries
<1>5. ASSUME NEW key PROVE amount1(key) = amount2(key)
  <2>1. PICK A, B : A = at(key) /\ B = of(key)
    OBVIOUS
  <2>2. /\ \A k : k \in A <=> k \in DOMAIN raw /\ <<raw[k].address, raw[k].asset>> = key
        /\ \A end : end \in B <=> end \in ends /\ <<end[2].address, end[2].asset>> = key
    BY <2>1 DEF Entries
  <2>3. PICK f : f = [i \in A |-> raw[i].amount]
    OBVIOUS
  <2>4. PICK e : e = [end \in B |-> end[2].amount]
    OBVIOUS
  <2>5. PICK g : g = [k \in A |-> h[k]]
    OBVIOUS
  <2>6. Matches(g, f, A, e, B)
    <3>1. \A k \in A : h[k] \in B /\ raw[k] = h[k][2] /\ k \in DOMAIN raw
      BY <1>1, <2>2
    <3>2. g \in [A -> B]
      BY <2>5, <3>1
    <3>3. \A k, l \in A : g[k] = g[l] => k = l
      BY <1>1, <2>5, <3>1
    <3>4. \A end \in B : \E k \in A : g[k] = end
      BY <1>1, <2>2, <2>5
    <3>5. \A k \in A : f[k] = e[g[k]]
      BY <2>3, <2>4, <2>5, <3>1
    <3> QED
      BY <3>2, <3>3, <3>4, <3>5 DEF Matches
  <2>7. IsFiniteSet(A)
    <3>1. A \in SUBSET (1..Len(raw))
      BY <1>2, <2>2
    <3>2. IsFiniteSet(1..Len(raw))
      BY <1>2, FS_Interval
    <3> QED
      BY <3>1, <3>2, FS_Subset
  <2>8. \A k \in A : f[k] \in Int
    BY <1>2, <2>2, <2>3
  <2>9. SumFunctionOnSet(f, A) = SumFunctionOnSet(e, B)
    BY ONLY <2>6, <2>7, <2>8, SumMatched
  <2>10. DOMAIN f = A /\ DOMAIN e = B
    BY <2>3, <2>4
  <2>11. SumFunction(f) = SumFunction(e)
    BY <2>9, <2>10 DEF SumFunction
  <2> QED
    BY <2>1, <2>3, <2>4, <2>11
<1>6. Consolidated(raw) = {[address |-> key[1], asset |-> key[2], amount |-> amount1(key),
                            roles |-> roles1(key)] : key \in Keys(raw)}
  BY DEF Consolidated
<1> HIDE DEF amount1, amount2, roles1, roles2, keys
<1>7. Consolidated(raw) = {[address |-> key[1], asset |-> key[2], amount |-> amount2(key),
                            roles |-> roles2(key)] : key \in keys}
  BY <1>3, <1>4, <1>5, <1>6
<1> QED
  BY <1>7 DEF amount2, roles2, keys, NetChanges

FourInRow(a, b, c, d) == ((a \o b) \o c) \o d

\* Four lists joined are concatenated from the left.
LEMMA JoinedFour ==
    ASSUME NEW S, NEW a \in Seq(S), NEW b \in Seq(S), NEW c \in Seq(S), NEW d \in Seq(S)
    PROVE  /\ <<a, b, c, d>> \in Seq(Seq(S))
           /\ Joined(<<a, b, c, d>>) = FourInRow(a, b, c, d)
<1>1. PICK T : T = Seq(S)
  OBVIOUS
<1>2. a \in T /\ b \in T /\ c \in T /\ d \in T
  BY <1>1
<1>3. /\ <<>> \in Seq(T) /\ <<a>> \in Seq(T) /\ <<a, b>> \in Seq(T) /\ <<a, b, c>> \in Seq(T)
      /\ <<a, b, c, d>> \in Seq(T)
  BY ONLY <1>2
<1>4. /\ <<a>> = Append(<<>>, a) /\ <<a, b>> = Append(<<a>>, b)
      /\ <<a, b, c>> = Append(<<a, b>>, c) /\ <<a, b, c, d>> = Append(<<a, b, c>>, d)
  OBVIOUS
<1>5. Joined(<<a>>) = <<>> \o a
  BY <1>1, <1>3, <1>4, JoinedAppend, JoinedEmpty
<1>6. <<>> \o a = a
  BY ConcatEmptySeq
<1>7. Joined(<<a, b>>) = a \o b
  BY <1>1, <1>3, <1>4, <1>5, <1>6, JoinedAppend
<1>8. Joined(<<a, b, c>>) = (a \o b) \o c
  BY <1>1, <1>3, <1>4, <1>7, JoinedAppend
<1>9. Joined(<<a, b, c, d>>) = ((a \o b) \o c) \o d
  BY <1>1, <1>3, <1>4, <1>8, JoinedAppend
<1> QED
  BY <1>1, <1>3, <1>9 DEF FourInRow

\* What the parts of a transaction move, apart from its fee and its close-out.
MainChanges(t) ==
    IF t.type = "pay" THEN <<Change(t.sender, 0, -t.body.amount, "Sender"),
                             Change(t.body.receiver, 0, t.body.amount, "Receiver")>>
    ELSE IF t.type = "axfer"
    THEN <<Change(IF t.body.from # None THEN t.body.from ELSE t.sender,
                  t.body.asset, -t.body.amount, "Sender"),
           Change(t.body.receiver, t.body.asset, t.body.amount, "Receiver")>>
    ELSE <<>>

ClosingChanges(t) ==
    IF t.type = "pay" THEN CloseChanges(t, 0)
    ELSE IF t.type = "axfer" THEN CloseChanges(t, t.body.asset) ELSE <<>>

Parts(t) == <<FeeChanges(t), MainChanges(t), ClosingChanges(t), ConfigChanges(t)>>

\* The values that the changes are made of.
LEMMA ValuesTyped ==
    ASSUME NEW t, IsTransaction(t)
    PROVE  /\ t.sender \in Texts /\ t.sender # None /\ t.fee \in Nat /\ t.createdAsset \in Nat
           /\ t.type \in {"pay", "axfer"} =>
                 /\ t.body.receiver \in Texts /\ t.body.receiver # None /\ t.body.amount \in Nat
                 /\ t.body.closeTo \in Texts /\ t.body.closeAmount \in Nat
           /\ t.type = "axfer" => t.body.from \in Texts /\ t.body.asset \in Nat
           /\ t.type = "acfg" =>
                 /\ t.body.asset \in Nat /\ (t.createdAsset # 0 <=> t.body.asset = 0)
                 /\ Given(t.body.params) => t.body.params[1].total \in Nat
           /\ t.type # "acfg" => t.createdAsset = 0
<1>1. /\ t.sender \in Texts /\ t.sender # None /\ t.fee \in Nat /\ t.createdAsset \in Nat
      /\ t.type \in TxnTypes /\ IsBody(t)
      /\ t.type # "acfg" => t.createdAsset = 0
  BY DEF IsTransaction
<1>2. t.body \in Body(t.type)
  BY <1>1 DEF IsBody
<1>3. CASE t.type = "pay"
  <2>1. t.body \in [receiver : Texts, amount : Nat, closeTo : Texts, closeAmount : Nat]
    BY <1>2, <1>3 DEF Body
  <2> QED
    BY <1>1, <1>3, <2>1 DEF IsBody
<1>4. CASE t.type = "axfer"
  <2>1. t.body \in [asset : Nat, amount : Nat, receiver : Texts, closeTo : Texts,
                    closeAmount : Nat, from : Texts]
    BY <1>2, <1>4 DEF Body
  <2> QED
    BY <1>1, <1>4, <2>1 DEF IsBody
<1>5. CASE t.type = "acfg"
  <2>1. PICK P : P = [total : Nat, manager : Texts]
    OBVIOUS
  <2>2. PICK Q : Q = Optional(P)
    OBVIOUS
  <2>3. t.body \in [asset : Nat, params : Q]
    BY <1>2, <1>5, <2>1, <2>2 DEF Body
  <2>4. t.body.asset \in Nat /\ t.body.params \in Q
    BY ONLY <2>3
  <2>5. ASSUME Given(t.body.params) PROVE t.body.params[1].total \in Nat
    <3>1. t.body.params \in Seq(P) /\ t.body.params # <<>>
      BY <2>2, <2>4, <2>5 DEF Optional, Given
    <3>2. PICK q : q = t.body.params
      OBVIOUS
    <3>3. q \in Seq(P) /\ q # <<>>
      BY <3>1, <3>2
    <3>4. q[1] \in P
      BY ONLY <3>3
    <3> QED
      BY <2>1, <3>2, <3>4
  <2> QED
    BY <1>1, <1>5, <2>4, <2>5 DEF IsBody
<1>6. CASE t.type \notin {"pay", "axfer", "acfg"}
  BY <1>1, <1>6
<1> QED
  BY <1>3, <1>4, <1>5, <1>6

\* No movement, no change.
LEMMA NoEnd == ListsEnds(<<>>, {})
BY DEF ListsEnds

\* A movement with one end at an account.
LEMMA OneEnd ==
    ASSUME NEW a, NEW b, a.address # None, b.address = None
    PROVE  ListsEnds(<<a>>, {a, b})
BY DEF ListsEnds

\* A movement with both ends at accounts.
LEMMA TwoEnds ==
    ASSUME NEW a, NEW b, a.address # None, b.address # None, a # b
    PROVE  ListsEnds(<<a, b>>, {a, b})
BY DEF ListsEnds

\* What moves from one account to another.
Move(from, fromRole, to, toRole, asset, amount) ==
    {Change(from, asset, -amount, fromRole), Change(to, asset, amount, toRole)}

\* The four parts of a transaction that move something: fee, amount, close-out,
\* asset.
LEMMA MovesAre ==
    ASSUME NEW t
    PROVE  LET close(asset) ==
                   IF t.body.closeTo = None THEN {}
                   ELSE Move(t.sender, "Sender", t.body.closeTo, "CloseTo", asset, t.body.closeAmount)
               from == IF t.type = "axfer" /\ t.body.from # None THEN t.body.from ELSE t.sender
           IN  /\ DOMAIN Moves(t) = 1..4
               /\ Moves(t)[1] = IF t.fee = 0 THEN {} ELSE Move(t.sender, "Sender", None, None, 0, t.fee)
               /\ Moves(t)[2] =
                      IF t.type \in {"pay", "axfer"}
                      THEN Move(from, "Sender", t.body.receiver, "Receiver",
                                IF t.type = "pay" THEN 0 ELSE t.body.asset, t.body.amount)
                      ELSE {}
               /\ Moves(t)[3] = IF t.type \in {"pay", "axfer"}
                                THEN close(IF t.type = "pay" THEN 0 ELSE t.body.asset) ELSE {}
               /\ Moves(t)[4] =
                      IF t.createdAsset # 0
                      THEN Move(None, None, t.sender, "AssetCreator", t.createdAsset,
                                IF Given(t.body.params) THEN t.body.params[1].total ELSE 0)
                      ELSE IF t.type = "acfg" /\ ~Given(t.body.params)
                      THEN Move(None, None, t.sender, "AssetDestroyer", t.body.asset, 0) ELSE {}
<1> DEFINE m == Moves(t)
<1>1. /\ DOMAIN m = 1..4
      /\ m[1] = IF t.fee = 0 THEN {} ELSE Move(t.sender, "Sender", None, None, 0, t.fee)
  BY DEF Moves, Move, Change
<1>2. m[2] =
          IF t.type \in {"pay", "axfer"}
          THEN Move(IF t.type = "axfer" /\ t.body.from # None THEN t.body.from ELSE t.sender,
                    "Sender", t.body.receiver, "Receiver",
                    IF t.type = "pay" THEN 0 ELSE t.body.asset, t.body.amount)
          ELSE {}
  BY DEF Moves, Move, Change
<1>3. m[3] =
          IF t.type \in {"pay", "axfer"}
          THEN IF t.body.closeTo = None THEN {}
               ELSE Move(t.sender, "Sender", t.body.closeTo, "CloseTo",
                         IF t.type = "pay" THEN 0 ELSE t.body.asset, t.body.closeAmount)
          ELSE {}
  BY DEF Moves, Move, Change
<1>4. m[4] =
          IF t.createdAsset # 0
          THEN Move(None, None, t.sender, "AssetCreator", t.createdAsset,
                    IF Given(t.body.params) THEN t.body.params[1].total ELSE 0)
          ELSE IF t.type = "acfg" /\ ~Given(t.body.params)
          THEN Move(None, None, t.sender, "AssetDestroyer", t.body.asset, 0) ELSE {}
  BY DEF Moves, Move, Change
<1> HIDE DEF m
<1> QED
  BY <1>1, <1>2, <1>3, <1>4 DEF m

\* A change is made of its values.
LEMMA ChangeTyped ==
    ASSUME NEW address \in Texts, NEW asset \in Nat, NEW amount \in Int,
           NEW role \in {"Sender", "Receiver", "CloseTo", "AssetCreator", "AssetDestroyer"}
    PROVE  /\ Change(address, asset, amount, role) \in Changes
           /\ Change(address, asset, amount, role).address = address
           /\ Change(address, asset, amount, role).role = role
BY DEF Change, Changes

\* Movements between accounts.
LEMMA TwoChanges ==
    ASSUME NEW from \in Texts, from # None, NEW to \in Texts, to # None, NEW asset \in Nat,
           NEW amount \in Nat, NEW role \in {"Receiver", "CloseTo"},
           NEW part, part = <<Change(from, asset, -amount, "Sender"), Change(to, asset, amount, role)>>
    PROVE  part \in Seq(Changes) /\ ListsEnds(part, Move(from, "Sender", to, role, asset, amount))
<1>1. PICK a, b : a = Change(from, asset, -amount, "Sender") /\ b = Change(to, asset, amount, role)
  OBVIOUS
<1>2. /\ a \in Changes /\ b \in Changes /\ a.address = from /\ b.address = to
      /\ a.role = "Sender" /\ b.role = role
  <2>1. -amount \in Int /\ amount \in Int
    OBVIOUS
  <2> QED
    BY <1>1, <2>1, ChangeTyped
<1>3. a # b
  BY <1>2
<1>4. ListsEnds(<<a, b>>, {a, b})
  BY <1>2, <1>3, TwoEnds
<1>5. PICK S : S = Changes
  OBVIOUS
<1>6. a \in S /\ b \in S
  BY <1>2, <1>5
<1>7. <<a, b>> \in Seq(S)
  BY ONLY <1>6
<1>8. Move(from, "Sender", to, role, asset, amount) = {a, b} /\ part = <<a, b>>
  BY <1>1 DEF Move
<1> QED
  BY <1>4, <1>5, <1>7, <1>8

\* A movement of which one end is an account.
LEMMA OneChange ==
    ASSUME NEW a \in Changes, a.address # None, NEW b, b.address = None,
           NEW moved, moved = {a, b}, NEW part, part = <<a>>
    PROVE  part \in Seq(Changes) /\ ListsEnds(part, moved)
<1>1. ListsEnds(<<a>>, {a, b})
  BY OneEnd
<1>2. PICK S : S = Changes
  OBVIOUS
<1>3. a \in S
  BY <1>2
<1>4. <<a>> \in Seq(S)
  BY ONLY <1>3
<1> QED
  BY <1>1, <1>2, <1>4

\* No part, no change.
LEMMA NoChange == <<>> \in Seq(Changes) /\ ListsEnds(<<>>, {})
BY NoEnd

\* The fee leaves the sender.
LEMMA FeeListed ==
    ASSUME NEW t, IsTransaction(t)
    PROVE  FeeChanges(t) \in Seq(Changes) /\ ListsEnds(FeeChanges(t), Moves(t)[1])
<1>1. t.sender \in Texts /\ t.sender # None /\ t.fee \in Nat
  BY ValuesTyped
<1>2. Moves(t)[1] = IF t.fee = 0 THEN {} ELSE Move(t.sender, "Sender", None, None, 0, t.fee)
  BY MovesAre
<1>3. CASE t.fee = 0
  BY <1>2, <1>3, NoChange DEF FeeChanges
<1>4. CASE t.fee # 0
  <2>1. PICK a, b : a = Change(t.sender, 0, -t.fee, "Sender") /\ b = Change(None, 0, t.fee, None)
    OBVIOUS
  <2>2. a \in Changes /\ a.address # None
    BY <1>1, <2>1, ChangeTyped
  <2>3. b.address = None
    BY <2>1 DEF Change
  <2>4. Moves(t)[1] = {a, b} /\ FeeChanges(t) = <<a>>
    BY <1>2, <1>4, <2>1 DEF Move, FeeChanges
  <2> QED
    BY <2>2, <2>3, <2>4, OneChange
<1> QED
  BY <1>3, <1>4

\* A payment or transfer leaves one account and enters another.
LEMMA MainListed ==
    ASSUME NEW t, IsTransaction(t)
    PROVE  MainChanges(t) \in Seq(Changes) /\ ListsEnds(MainChanges(t), Moves(t)[2])
<1>1. Moves(t)[2] =
          IF t.type \in {"pay", "axfer"}
          THEN Move(IF t.type = "axfer" /\ t.body.from # None THEN t.body.from ELSE t.sender,
                    "Sender", t.body.receiver, "Receiver",
                    IF t.type = "pay" THEN 0 ELSE t.body.asset, t.body.amount)
          ELSE {}
  BY MovesAre
<1>2. CASE t.type = "pay"
  <2>1. /\ t.sender \in Texts /\ t.sender # None /\ t.body.receiver \in Texts
        /\ t.body.receiver # None /\ t.body.amount \in Nat
    BY <1>2, ValuesTyped
  <2>2. PICK part : part = <<Change(t.sender, 0, -t.body.amount, "Sender"),
                             Change(t.body.receiver, 0, t.body.amount, "Receiver")>>
    OBVIOUS
  <2>3. part \in Seq(Changes)
        /\ ListsEnds(part, Move(t.sender, "Sender", t.body.receiver, "Receiver", 0, t.body.amount))
    BY <2>1, <2>2, TwoChanges
  <2>4. Moves(t)[2] = Move(t.sender, "Sender", t.body.receiver, "Receiver", 0, t.body.amount)
    BY <1>1, <1>2
  <2>5. MainChanges(t) = part
    BY <1>2, <2>2 DEF MainChanges
  <2> QED
    BY <2>3, <2>4, <2>5
<1>3. CASE t.type = "axfer"
  <2>1. PICK from : from = IF t.body.from # None THEN t.body.from ELSE t.sender
    OBVIOUS
  <2>2. /\ from \in Texts /\ from # None /\ t.body.receiver \in Texts
        /\ t.body.receiver # None /\ t.body.amount \in Nat /\ t.body.asset \in Nat
    BY <1>3, <2>1, ValuesTyped
  <2>3. PICK part : part = <<Change(from, t.body.asset, -t.body.amount, "Sender"),
                             Change(t.body.receiver, t.body.asset, t.body.amount, "Receiver")>>
    OBVIOUS
  <2>4. part \in Seq(Changes)
        /\ ListsEnds(part, Move(from, "Sender", t.body.receiver, "Receiver", t.body.asset, t.body.amount))
    BY <2>2, <2>3, TwoChanges
  <2>5. Moves(t)[2] = Move(from, "Sender", t.body.receiver, "Receiver", t.body.asset, t.body.amount)
    BY <1>1, <1>3, <2>1
  <2>6. MainChanges(t) = part
    BY <1>3, <2>1, <2>3 DEF MainChanges
  <2> QED
    BY <2>4, <2>5, <2>6
<1>4. CASE t.type \notin {"pay", "axfer"}
  <2>1. Moves(t)[2] = {} /\ MainChanges(t) = <<>>
    BY <1>1, <1>4 DEF MainChanges
  <2> QED
    BY <2>1, NoChange
<1> QED
  BY <1>2, <1>3, <1>4

\* A close-out leaves the sender and enters another account.
LEMMA ClosingListed ==
    ASSUME NEW t, IsTransaction(t)
    PROVE  ClosingChanges(t) \in Seq(Changes) /\ ListsEnds(ClosingChanges(t), Moves(t)[3])
<1>1. Moves(t)[3] =
          IF t.type \in {"pay", "axfer"}
          THEN IF t.body.closeTo = None THEN {}
               ELSE Move(t.sender, "Sender", t.body.closeTo, "CloseTo",
                         IF t.type = "pay" THEN 0 ELSE t.body.asset, t.body.closeAmount)
          ELSE {}
  BY MovesAre
<1>2. CASE t.type \in {"pay", "axfer"} /\ t.body.closeTo # None
  <2>1. PICK asset : asset = IF t.type = "pay" THEN 0 ELSE t.body.asset
    OBVIOUS
  <2>2. /\ t.sender \in Texts /\ t.sender # None /\ t.body.closeTo \in Texts
        /\ t.body.closeTo # None /\ t.body.closeAmount \in Nat /\ asset \in Nat
    BY <1>2, <2>1, ValuesTyped
  <2>3. PICK part : part = <<Change(t.sender, asset, -t.body.closeAmount, "Sender"),
                             Change(t.body.closeTo, asset, t.body.closeAmount, "CloseTo")>>
    OBVIOUS
  <2>4. part \in Seq(Changes)
        /\ ListsEnds(part, Move(t.sender, "Sender", t.body.closeTo, "CloseTo", asset, t.body.closeAmount))
    BY <2>2, <2>3, TwoChanges
  <2>5. Moves(t)[3] = Move(t.sender, "Sender", t.body.closeTo, "CloseTo", asset, t.body.closeAmount)
    BY <1>1, <1>2, <2>1
  <2>6. ClosingChanges(t) = part
    <3>1. CASE t.type = "pay"
      BY <1>2, <2>1, <2>3, <3>1 DEF ClosingChanges, CloseChanges
    <3>2. CASE t.type = "axfer"
      BY <1>2, <2>1, <2>3, <3>2 DEF ClosingChanges, CloseChanges
    <3> QED
      BY <1>2, <3>1, <3>2
  <2> QED
    BY <2>4, <2>5, <2>6
<1>3. CASE ~(t.type \in {"pay", "axfer"} /\ t.body.closeTo # None)
  <2>1. Moves(t)[3] = {}
    BY <1>1, <1>3
  <2>2. ClosingChanges(t) = <<>>
    BY <1>3 DEF ClosingChanges, CloseChanges
  <2> QED
    BY <2>1, <2>2, NoChange
<1> QED
  BY <1>2, <1>3

\* A created asset enters the creator's account; a destroyed one is reported
\* with 0.
LEMMA ConfigListed ==
    ASSUME NEW t, IsTransaction(t)
    PROVE  ConfigChanges(t) \in Seq(Changes) /\ ListsEnds(ConfigChanges(t), Moves(t)[4])
<1>1. Moves(t)[4] =
          IF t.createdAsset # 0
          THEN Move(None, None, t.sender, "AssetCreator", t.createdAsset,
                    IF Given(t.body.params) THEN t.body.params[1].total ELSE 0)
          ELSE IF t.type = "acfg" /\ ~Given(t.body.params)
          THEN Move(None, None, t.sender, "AssetDestroyer", t.body.asset, 0) ELSE {}
  BY MovesAre
<1>2. /\ t.sender \in Texts /\ t.sender # None /\ t.createdAsset \in Nat
      /\ t.type = "acfg" =>
            /\ t.body.asset \in Nat /\ (t.createdAsset # 0 <=> t.body.asset = 0)
            /\ Given(t.body.params) => t.body.params[1].total \in Nat
      /\ t.type # "acfg" => t.createdAsset = 0
  BY ValuesTyped
<1>3. CASE t.createdAsset # 0
  <2>1. PICK total : total = IF Given(t.body.params) THEN t.body.params[1].total ELSE 0
    OBVIOUS
  <2>2. total \in Nat /\ t.type = "acfg" /\ t.body.asset = 0
    BY <1>2, <1>3, <2>1
  <2>3. PICK a, b : /\ a = Change(t.sender, t.createdAsset, total, "AssetCreator")
                    /\ b = Change(None, t.createdAsset, -total, None)
    OBVIOUS
  <2>4. a \in Changes /\ a.address # None
    BY <1>2, <2>2, <2>3, ChangeTyped
  <2>5. b.address = None
    BY <2>3 DEF Change
  <2>6. Moves(t)[4] = Move(None, None, t.sender, "AssetCreator", t.createdAsset, total)
    BY <1>1, <1>3, <2>1
  <2>7. Moves(t)[4] = {a, b}
    BY <2>3, <2>6 DEF Move
  <2>8. ConfigChanges(t) = <<a>>
    BY <1>3, <2>1, <2>2, <2>3 DEF ConfigChanges
  <2> QED
    BY <2>4, <2>5, <2>7, <2>8, OneChange
<1>4. CASE t.createdAsset = 0 /\ t.type = "acfg" /\ ~Given(t.body.params)
  <2>1. PICK a, b : /\ a = Change(t.sender, t.body.asset, 0, "AssetDestroyer")
                    /\ b = Change(None, t.body.asset, -0, None)
    OBVIOUS
  <2>2. a \in Changes /\ a.address # None
    BY <1>2, <1>4, <2>1, ChangeTyped
  <2>3. b.address = None
    BY <2>1 DEF Change
  <2>4. Moves(t)[4] = Move(None, None, t.sender, "AssetDestroyer", t.body.asset, 0)
    BY <1>1, <1>4
  <2>5. Moves(t)[4] = {a, b}
    BY <2>1, <2>4 DEF Move
  <2>6. ConfigChanges(t) = <<a>>
    BY <1>2, <1>4, <2>1 DEF ConfigChanges, NoId
  <2> QED
    BY <2>2, <2>3, <2>5, <2>6, OneChange
<1>5. CASE t.createdAsset = 0 /\ ~(t.type = "acfg" /\ ~Given(t.body.params))
  <2>1. Moves(t)[4] = {}
    BY <1>1, <1>5
  <2>2. ConfigChanges(t) = <<>>
    BY <1>2, <1>5 DEF ConfigChanges
  <2> QED
    BY <2>1, <2>2, NoChange
<1> QED
  BY <1>3, <1>4, <1>5

\* The changes of a transaction, part by part.
LEMMA PartsAre ==
    ASSUME NEW t, IsTransaction(t)
    PROVE  /\ Parts(t) \in Seq(Seq(Changes)) /\ RawChanges(t) = Joined(Parts(t))
           /\ DOMAIN Moves(t) = DOMAIN Parts(t)
           /\ \A m \in DOMAIN Parts(t) : ListsEnds(Parts(t)[m], Moves(t)[m])
<1>1. PICK a, b, c, d : a = FeeChanges(t) /\ b = MainChanges(t) /\ c = ClosingChanges(t)
                        /\ d = ConfigChanges(t)
  OBVIOUS
<1>2. a \in Seq(Changes) /\ b \in Seq(Changes) /\ c \in Seq(Changes) /\ d \in Seq(Changes)
  BY <1>1, FeeListed, MainListed, ClosingListed, ConfigListed
<1>3. Parts(t) = <<a, b, c, d>>
  BY <1>1 DEF Parts
<1>4. Parts(t) \in Seq(Seq(Changes)) /\ Joined(Parts(t)) = ((a \o b) \o c) \o d
  <2>1. <<a, b, c, d>> \in Seq(Seq(Changes)) /\ Joined(<<a, b, c, d>>) = FourInRow(a, b, c, d)
    BY ONLY <1>2, JoinedFour
  <2> QED
    BY <1>3, <2>1 DEF FourInRow
<1>5. /\ ListsEnds(a, Moves(t)[1]) /\ ListsEnds(b, Moves(t)[2])
      /\ ListsEnds(c, Moves(t)[3]) /\ ListsEnds(d, Moves(t)[4])
  BY <1>1, FeeListed, MainListed, ClosingListed, ConfigListed
<1>6. DOMAIN Moves(t) = 1..4 /\ DOMAIN Parts(t) = 1..4
  BY <1>3, MovesAre
<1>7. \A m \in DOMAIN Parts(t) : ListsEnds(Parts(t)[m], Moves(t)[m])
  <2>1. \A m \in 1..4 : m = 1 \/ m = 2 \/ m = 3 \/ m = 4
    OBVIOUS
  <2>2. Parts(t)[1] = a /\ Parts(t)[2] = b /\ Parts(t)[3] = c /\ Parts(t)[4] = d
    BY <1>3
  <2> QED
    BY <1>5, <1>6, <2>1, <2>2
<1>8. RawChanges(t) = ((a \o b) \o c) \o d
  <2>1. RawChanges(t) = ((a \o PaymentChanges(t)) \o TransferChanges(t)) \o d
    BY <1>1 DEF RawChanges
  <2>2. /\ (a \o b) \o c = a \o (b \o c) /\ (a \o (b \o c)) \o <<>> = a \o (b \o c)
        /\ a \o <<>> = a
    <3>1. b \o c \in Seq(Changes) /\ a \o (b \o c) \in Seq(Changes)
      BY <1>2, ConcatProperties
    <3> QED
      BY <1>2, <3>1, ConcatAssociative, ConcatEmptySeq, SMTT(20)
  <2>3. CASE t.type = "pay"
    <3>1. PaymentChanges(t) = b \o c /\ TransferChanges(t) = <<>>
      BY <1>1, <2>3 DEF PaymentChanges, TransferChanges, MainChanges, ClosingChanges
    <3> QED
      BY <2>1, <2>2, <3>1
  <2>4. CASE t.type = "axfer"
    <3>1. PaymentChanges(t) = <<>> /\ TransferChanges(t) = b \o c
      BY <1>1, <2>4 DEF PaymentChanges, TransferChanges, MainChanges, ClosingChanges
    <3> QED
      BY <2>1, <2>2, <3>1
  <2>5. CASE t.type \notin {"pay", "axfer"}
    <3>1. PaymentChanges(t) = <<>> /\ TransferChanges(t) = <<>> /\ b = <<>> /\ c = <<>>
      BY <1>1, <2>5 DEF PaymentChanges, TransferChanges, MainChanges, ClosingChanges
    <3> QED
      BY <2>1, <2>2, <3>1
  <2> QED
    BY <2>3, <2>4, <2>5
<1> QED
  BY <1>4, <1>6, <1>7, <1>8

\* The changes of a transaction are the differences that its movements make.
LEMMA ChangesAreMovements ==
    ASSUME NEW t, IsTransaction(t)
    PROVE  BalanceChangesOf(t) = NetChanges(Ends(Moves(t)))
<1>1. PICK parts, moves, raw, ends : /\ parts = Parts(t) /\ moves = Moves(t) /\ raw = Joined(parts)
                                     /\ ends = Ends(moves)
  OBVIOUS
<1>2. parts \in Seq(Seq(Changes)) /\ DOMAIN moves = DOMAIN parts
      /\ \A m \in DOMAIN parts : ListsEnds(parts[m], moves[m])
  BY <1>1, PartsAre
<1>3. PICK h : EndsOf(h, raw, ends)
  <2>1. \E h : EndsOf(h, Joined(parts), Ends(moves))
    BY ONLY <1>2, PartsListEnds
  <2> QED
    BY <1>1, <2>1
<1>4. raw \in Seq(Changes)
  BY <1>1, <1>2, JoinedPlaces
<1>5. BalanceChangesOf(t) = Consolidated(raw)
  BY <1>1, PartsAre DEF BalanceChangesOf
<1>6. Consolidated(raw) = NetChanges(ends)
  BY <1>3, <1>4, ConsolidatedIs
<1> QED
  BY <1>1, <1>5, <1>6

\* The balance changes of what a poll returns are what the transactions do to
\* the ledger.
THEOREM ChangesAreExact == Spec => []ChangesMatchLedger
<1>1. PollInv => ChangesMatchLedger
  <2> SUFFICES ASSUME PollInv, NEW i \in DOMAIN Subscribed
               PROVE  LET moves == Moves(Subscribed[i].facts)
                          ends == UNION {{<<m, e>> : e \in {x \in moves[m] : x.address # None}} :
                                             m \in DOMAIN moves}
                          of(key) == {end \in ends : <<end[2].address, end[2].asset>> = key}
                      IN  Subscribed[i].changes =
                            {[address |-> key[1], asset |-> key[2],
                              amount |-> SumFunction([end \in of(key) |-> end[2].amount]),
                              roles |-> {end[2].role : end \in of(key)}] :
                                key \in {<<end[2].address, end[2].asset>> : end \in ends}}
    BY DEF ChangesMatchLedger
  <2>1. pc = "done"
    BY DEF Subscribed
  <2>2. IsGiven /\ Syncs /\ Clean /\ i \in DOMAIN Kept /\ Subscribed[i] = WithExtraFields(Kept[i])
    BY <2>1, ReportedAre
  <2>3. PICK x : x = Kept[i]
    OBVIOUS
  <2>4. Subscribed[i].facts = x.facts /\ Subscribed[i].changes = BalanceChangesOf(x.facts)
    BY <2>2, <2>3 DEF WithExtraFields
  <2>5. IsTransaction(x.facts)
    BY <2>2, <2>3, KeptIsExtracted
  <2>6. PICK t : t = Subscribed[i].facts
    OBVIOUS
  <2>7. Subscribed[i].changes = NetChanges(Ends(Moves(t)))
    BY <2>4, <2>5, <2>6, ChangesAreMovements
  <2> QED
    BY <2>6, <2>7 DEF NetChanges, Ends
<1> QED
  BY <1>1, PollInvariant, PTL

\* The places in s that h takes to y.
Fibre(h, s, y) == {x \in s : h[x] = y}

\* A sum is the sum of the sums over the groups that its members fall into.
LEMMA SumGrouped ==
    ASSUME NEW f, NEW S, IsFiniteSet(S), \A x \in S : f[x] \in Int,
           NEW T, IsFiniteSet(T), NEW h \in [S -> T]
    PROVE  SumFunctionOnSet(f, S) =
               SumFunctionOnSet([y \in T |-> SumFunctionOnSet(f, Fibre(h, S, y))], T)
<1> DEFINE of(s) == [y \in T |-> SumFunctionOnSet(f, Fibre(h, s, y))]
           P == {n \in Nat : \A s \in SUBSET S : Cardinality(s) = n =>
                    SumFunctionOnSet(f, s) = SumFunctionOnSet(of(s), T)}
<1>0. ASSUME NEW s \in SUBSET S
      PROVE  /\ IsFiniteSet(s) /\ Cardinality(s) \in Nat /\ (Cardinality(s) = 0 <=> s = {})
             /\ \A x \in s : s \ {x} \in SUBSET S /\ Cardinality(s \ {x}) = Cardinality(s) - 1
  <2>1. IsFiniteSet(s)
    BY FS_Subset
  <2>2. Cardinality(s) \in Nat /\ (Cardinality(s) = 0 <=> s = {})
    BY <2>1, FS_CardinalityType, FS_EmptySet
  <2>3. \A x \in s : Cardinality(s \ {x}) = Cardinality(s) - 1
    BY <2>1, FS_RemoveElement
  <2> QED
    BY <2>1, <2>2, <2>3
<1>1. \A s \in SUBSET S : SumFunctionOnSet(f, s) \in Int
  <2> SUFFICES ASSUME NEW s \in SUBSET S PROVE SumFunctionOnSet(f, s) \in Int
    OBVIOUS
  <2>1. 0 \in Int /\ \A a, b \in Int : a + b \in Int
    OBVIOUS
  <2>2. IsFiniteSet(s) /\ \A x \in s : f[x] \in Int
    BY <1>0
  <2> QED
    BY ONLY <2>1, <2>2, SumTyped
<1>2. \A s \in SUBSET S, y \in T : of(s)[y] = SumFunctionOnSet(f, Fibre(h, s, y)) /\ of(s)[y] \in Int
  <2> SUFFICES ASSUME NEW s \in SUBSET S, NEW y \in T
               PROVE  of(s)[y] = SumFunctionOnSet(f, Fibre(h, s, y)) /\ of(s)[y] \in Int
    OBVIOUS
  <2>1. Fibre(h, s, y) \in SUBSET S
    BY DEF Fibre
  <2> QED
    BY <1>1, <2>1
<1> HIDE DEF of
<1>3. 0 \in P
  <2> SUFFICES ASSUME NEW s \in SUBSET S, Cardinality(s) = 0
               PROVE  SumFunctionOnSet(f, s) = SumFunctionOnSet(of(s), T)
    OBVIOUS
  <2>1. s = {} /\ SumFunctionOnSet(f, s) = 0
    BY <1>0, SumEmpty
  <2>2. \A y \in T : of(s)[y] \in {0}
    <3>1. \A y \in T : Fibre(h, s, y) = {}
      BY <2>1 DEF Fibre
    <3> QED
      BY <1>2, <3>1, SumEmpty
  <2>3. 0 \in {0} /\ \A a, b \in {0} : a + b \in {0}
    OBVIOUS
  <2>4. SumFunctionOnSet(of(s), T) \in {0}
    BY ONLY <2>2, <2>3, IsFiniteSet(T), SumTyped
  <2> QED
    BY <2>1, <2>4
<1>4. \A n \in Nat : n \in P => n + 1 \in P
  <2> SUFFICES ASSUME NEW n \in Nat, n \in P, NEW s \in SUBSET S, Cardinality(s) = n + 1
               PROVE  SumFunctionOnSet(f, s) = SumFunctionOnSet(of(s), T)
    OBVIOUS
  <2>1. PICK x \in s : TRUE
    BY <1>0
  <2>2. PICK r, y : r = s \ {x} /\ y = h[x]
    OBVIOUS
  <2>3. r \in SUBSET S /\ Cardinality(r) = n /\ y \in T /\ IsFiniteSet(s)
    BY <1>0, <2>2
  <2>4. SumFunctionOnSet(f, s) = f[x] + SumFunctionOnSet(f, r)
    <3>1. \A z \in s : f[z] \in Int
      OBVIOUS
    <3> QED
      BY ONLY <2>2, <2>3, <3>1, x \in s, SumRemove
  <2>5. SumFunctionOnSet(f, r) = SumFunctionOnSet(of(r), T)
    BY <2>3
  <2>6. of(s)[y] = f[x] + of(r)[y]
    <3>1. /\ x \in Fibre(h, s, y) /\ Fibre(h, r, y) = Fibre(h, s, y) \ {x}
          /\ Fibre(h, s, y) \in SUBSET S
      BY <2>2 DEF Fibre
    <3>2. IsFiniteSet(Fibre(h, s, y)) /\ \A z \in Fibre(h, s, y) : f[z] \in Int
      BY <1>0, <3>1
    <3>3. SumFunctionOnSet(f, Fibre(h, s, y)) = f[x] + SumFunctionOnSet(f, Fibre(h, r, y))
      BY ONLY <3>1, <3>2, SumRemove
    <3> QED
      BY <1>2, <2>3, <3>3
  <2>7. \A z \in T \ {y} : of(s)[z] = of(r)[z]
    <3>1. \A z \in T \ {y} : Fibre(h, s, z) = Fibre(h, r, z)
      BY <2>2 DEF Fibre
    <3> QED
      BY <1>2, <2>3, <3>1
  <2>8. /\ SumFunctionOnSet(of(s), T) = of(s)[y] + SumFunctionOnSet(of(s), T \ {y})
        /\ SumFunctionOnSet(of(r), T) = of(r)[y] + SumFunctionOnSet(of(r), T \ {y})
        /\ SumFunctionOnSet(of(r), T \ {y}) \in Int
    <3>1. PICK a, b : a = of(s) /\ b = of(r)
      OBVIOUS
    <3>2. \A z \in T : a[z] \in Int /\ b[z] \in Int
      BY <1>2, <2>3, <3>1
    <3>3. SumFunctionOnSet(a, T) = a[y] + SumFunctionOnSet(a, T \ {y})
      BY <2>3, <3>2, SumRemove
    <3>4. /\ SumFunctionOnSet(b, T \ {y}) \in Int
          /\ SumFunctionOnSet(b, T) = b[y] + SumFunctionOnSet(b, T \ {y})
      BY <2>3, <3>2, SumRemove
    <3> QED
      BY <3>1, <3>3, <3>4
  <2>9. SumFunctionOnSet(of(s), T \ {y}) = SumFunctionOnSet(of(r), T \ {y})
    <3>1. IsFiniteSet(T \ {y})
      BY FS_RemoveElement
    <3> QED
      BY ONLY <2>7, <3>1, SumAlike
  <2>10. f[x] \in Int /\ of(r)[y] \in Int
    BY <1>2, <2>3
  <2> QED
    BY <2>4, <2>5, <2>6, <2>8, <2>9, <2>10
<1> HIDE DEF P
<1>5. Nat \subseteq P
  BY <1>3, <1>4, NatInductionSet
<1>6. Cardinality(S) \in P
  BY <1>0, <1>5
<1> QED
  BY <1>6 DEF P, of

\* What the changes of a list come to in one asset.
OfAsset(s, asset) == {i \in DOMAIN s : s[i].asset = asset}

Amounts(s) == [i \in DOMAIN s |-> s[i].amount]

Net(s, asset) == SumFunctionOnSet(Amounts(s), OfAsset(s, asset))

\* The amount of a change, if it is in the asset.
InAsset(change, asset) == IF change.asset = asset THEN change.amount ELSE 0

\* The places of a list of changes in one asset.
LEMMA NetTyped ==
    ASSUME NEW s \in Seq(Changes), NEW asset
    PROVE  /\ DOMAIN s = 1..Len(s) /\ Len(s) \in Nat
           /\ IsFiniteSet(OfAsset(s, asset)) /\ OfAsset(s, asset) \subseteq DOMAIN s
           /\ \A i \in OfAsset(s, asset) : Amounts(s)[i] = s[i].amount /\ Amounts(s)[i] \in Int
           /\ Net(s, asset) \in Int
<1>1. PICK S : S = Changes
  OBVIOUS
<1>2. \A x \in S : x.amount \in Int
  BY <1>1 DEF Changes
<1>3. DOMAIN s = 1..Len(s) /\ Len(s) \in Nat /\ \A i \in DOMAIN s : s[i] \in S
  <2>1. s \in Seq(S)
    BY <1>1
  <2> QED
    BY ONLY <2>1
<1>4. IsFiniteSet(1..Len(s))
  BY <1>3, UpTo
<1>5. OfAsset(s, asset) \subseteq DOMAIN s
  BY DEF OfAsset
<1>6. IsFiniteSet(OfAsset(s, asset))
  BY <1>3, <1>4, <1>5, FS_Subset
<1>7. \A i \in OfAsset(s, asset) : Amounts(s)[i] = s[i].amount /\ Amounts(s)[i] \in Int
  BY <1>2, <1>3, <1>5 DEF Amounts
<1>8. Net(s, asset) \in Int
  <2>1. 0 \in Int /\ \A a, b \in Int : a + b \in Int
    OBVIOUS
  <2> QED
    BY <1>6, <1>7, <2>1, SumTyped DEF Net
<1> QED
  BY <1>3, <1>5, <1>6, <1>7, <1>8

\* One more change adds its amount.
LEMMA NetAppend ==
    ASSUME NEW s \in Seq(Changes), NEW x \in Changes, NEW asset
    PROVE  /\ Append(s, x) \in Seq(Changes)
           /\ Net(Append(s, x), asset) = Net(s, asset) + InAsset(x, asset)
<1>1. PICK S, a, n : S = Changes /\ a = Append(s, x) /\ n = Len(s)
  OBVIOUS
<1>2. /\ a \in Seq(S) /\ n \in Nat /\ Len(a) = n + 1 /\ a[n + 1] = x
      /\ \A i \in 1..n : a[i] = s[i]
      /\ DOMAIN a = 1..(n + 1) /\ DOMAIN s = 1..n
  <2>1. s \in Seq(S) /\ x \in S
    BY <1>1
  <2> QED
    BY ONLY <1>1, <2>1
<1>3. PICK A, B : A = OfAsset(a, asset) /\ B = OfAsset(s, asset)
  OBVIOUS
<1>4. a \in Seq(Changes)
  BY <1>1, <1>2
<1>5. /\ IsFiniteSet(A) /\ IsFiniteSet(B) /\ B \subseteq 1..n
      /\ \A i \in A : Amounts(a)[i] = a[i].amount /\ Amounts(a)[i] \in Int
      /\ \A i \in B : Amounts(s)[i] = s[i].amount /\ Amounts(s)[i] \in Int
      /\ Net(s, asset) \in Int
  BY <1>2, <1>3, <1>4, NetTyped
<1>6. A = IF x.asset = asset THEN B \cup {n + 1} ELSE B
  BY <1>2, <1>3 DEF OfAsset
<1>7. \A i \in B : Amounts(a)[i] = Amounts(s)[i]
  BY <1>2, <1>5, <1>6
<1>8. SumFunctionOnSet(Amounts(a), B) = SumFunctionOnSet(Amounts(s), B)
  BY <1>5, <1>7, SumAlike
<1>9. CASE x.asset = asset
  <2>1. n + 1 \in A /\ A \ {n + 1} = B
    BY <1>2, <1>5, <1>6, <1>9
  <2>2. SumFunctionOnSet(Amounts(a), A) = Amounts(a)[n + 1] + SumFunctionOnSet(Amounts(a), A \ {n + 1})
    BY <1>5, <2>1, SumRemove
  <2>3. Amounts(a)[n + 1] = x.amount /\ x.amount \in Int
    BY <1>2, <1>5, <2>1
  <2>4. Net(a, asset) = x.amount + Net(s, asset)
    BY <1>3, <1>8, <2>1, <2>2, <2>3 DEF Net
  <2> QED
    BY <1>1, <1>4, <1>5, <1>9, <2>3, <2>4 DEF InAsset
<1>10. CASE x.asset # asset
  <2>1. Net(a, asset) = Net(s, asset)
    BY <1>3, <1>6, <1>8, <1>10 DEF Net
  <2> QED
    BY <1>1, <1>4, <1>5, <1>10, <2>1 DEF InAsset
<1> QED
  BY <1>9, <1>10

\* What a transaction moves leaves one account and enters another.
Offsetting(part) ==
    \/ part = <<>>
    \/ \E x, y \in Changes : part = <<x, y>> /\ x.asset = y.asset /\ x.amount + y.amount = 0

\* It leaves what the changes come to.
LEMMA NetOfMove ==
    ASSUME NEW s \in Seq(Changes), NEW part, Offsetting(part), NEW asset
    PROVE  s \o part \in Seq(Changes) /\ Net(s \o part, asset) = Net(s, asset)
<1>1. CASE part = <<>>
  BY <1>1, ConcatEmptySeq
<1>2. ASSUME NEW x \in Changes, NEW y \in Changes, part = <<x, y>>, x.asset = y.asset,
             x.amount + y.amount = 0
      PROVE  s \o part \in Seq(Changes) /\ Net(s \o part, asset) = Net(s, asset)
  <2>1. s \o <<x, y>> = Append(Append(s, x), y)
    <3>1. PICK S : S = Changes
      OBVIOUS
    <3>2. s \in Seq(S) /\ x \in S /\ y \in S
      BY <3>1
    <3> QED
      BY ONLY <3>2
  <2>2. /\ Append(s, x) \in Seq(Changes)
        /\ Net(Append(s, x), asset) = Net(s, asset) + InAsset(x, asset)
    BY NetAppend
  <2>3. /\ Append(Append(s, x), y) \in Seq(Changes)
        /\ Net(Append(Append(s, x), y), asset) = Net(Append(s, x), asset) + InAsset(y, asset)
    BY <2>2, NetAppend
  <2>4. x.amount \in Int /\ y.amount \in Int /\ Net(s, asset) \in Int
    BY NetTyped DEF Changes
  <2>5. InAsset(x, asset) + InAsset(y, asset) = 0 /\ InAsset(x, asset) \in Int
        /\ InAsset(y, asset) \in Int
    BY <1>2, <2>4 DEF InAsset
  <2>6. PICK k, l, m, n : /\ k = Net(s, asset) /\ l = InAsset(x, asset) /\ m = InAsset(y, asset)
                          /\ n = Net(Append(Append(s, x), y), asset)
    OBVIOUS
  <2>7. n = (k + l) + m /\ k \in Int /\ l \in Int /\ m \in Int /\ l + m = 0
    BY <2>2, <2>3, <2>4, <2>5, <2>6
  <2>8. n = k
    BY ONLY <2>7
  <2>9. s \o part = Append(Append(s, x), y)
    BY <1>2, <2>1
  <2> QED
    BY <2>3, <2>6, <2>8, <2>9
<1> QED
  BY <1>1, <1>2 DEF Offsetting

\* A payment or transfer, and a close-out, only move what there is.
LEMMA MovesOffset ==
    ASSUME NEW t, IsTransaction(t)
    PROVE  Offsetting(MainChanges(t)) /\ Offsetting(ClosingChanges(t))
<1>1. ASSUME NEW from \in Texts, NEW to \in Texts, NEW asset \in Nat, NEW amount \in Nat,
             NEW role \in {"Receiver", "CloseTo"}
      PROVE  Offsetting(<<Change(from, asset, -amount, "Sender"), Change(to, asset, amount, role)>>)
  <2>1. PICK x, y : x = Change(from, asset, -amount, "Sender") /\ y = Change(to, asset, amount, role)
    OBVIOUS
  <2>2. x \in Changes /\ y \in Changes
    <3>1. -amount \in Int /\ amount \in Int
      OBVIOUS
    <3> QED
      BY <2>1, <3>1, ChangeTyped
  <2>3. x.asset = y.asset /\ x.amount = -amount /\ y.amount = amount
    BY <2>1 DEF Change
  <2>4. x.amount + y.amount = 0
    BY <2>3
  <2>5. Offsetting(<<x, y>>)
    BY <2>2, <2>3, <2>4 DEF Offsetting
  <2> QED
    BY <2>1, <2>5
<1>2. Offsetting(MainChanges(t))
  <2>1. CASE t.type = "pay"
    <3>1. /\ t.sender \in Texts /\ t.body.receiver \in Texts /\ t.body.amount \in Nat /\ 0 \in Nat
      BY <2>1, ValuesTyped
    <3>2. Offsetting(<<Change(t.sender, 0, -t.body.amount, "Sender"),
                       Change(t.body.receiver, 0, t.body.amount, "Receiver")>>)
      BY <1>1, <3>1
    <3> QED
      BY <2>1, <3>2 DEF MainChanges
  <2>2. CASE t.type = "axfer"
    <3>1. PICK from : from = IF t.body.from # None THEN t.body.from ELSE t.sender
      OBVIOUS
    <3>2. /\ from \in Texts /\ t.body.receiver \in Texts /\ t.body.amount \in Nat
          /\ t.body.asset \in Nat
      BY <2>2, <3>1, ValuesTyped
    <3>3. Offsetting(<<Change(from, t.body.asset, -t.body.amount, "Sender"),
                       Change(t.body.receiver, t.body.asset, t.body.amount, "Receiver")>>)
      BY <1>1, <3>2
    <3> QED
      BY <2>2, <3>1, <3>3 DEF MainChanges
  <2>3. CASE t.type \notin {"pay", "axfer"}
    BY <2>3 DEF MainChanges, Offsetting
  <2> QED
    BY <2>1, <2>2, <2>3
<1>3. ASSUME NEW asset \in Nat, t.type \in {"pay", "axfer"} PROVE Offsetting(CloseChanges(t, asset))
  <2>1. t.sender \in Texts /\ t.body.closeTo \in Texts /\ t.body.closeAmount \in Nat
    BY <1>3, ValuesTyped
  <2>2. Offsetting(<<Change(t.sender, asset, -t.body.closeAmount, "Sender"),
                     Change(t.body.closeTo, asset, t.body.closeAmount, "CloseTo")>>)
    BY <1>1, <2>1
  <2>3. Offsetting(<<>>)
    BY DEF Offsetting
  <2> QED
    BY <2>2, <2>3 DEF CloseChanges
<1>4. Offsetting(ClosingChanges(t))
  <2>1. CASE t.type = "pay"
    BY <1>3, <2>1 DEF ClosingChanges
  <2>2. CASE t.type = "axfer"
    <3>1. t.body.asset \in Nat
      BY <2>2, ValuesTyped
    <3> QED
      BY <1>3, <2>2, <3>1 DEF ClosingChanges
  <2>3. CASE t.type \notin {"pay", "axfer"}
    BY <2>3 DEF ClosingChanges, Offsetting
  <2> QED
    BY <2>1, <2>2, <2>3
<1> QED
  BY <1>2, <1>4

\* What a transaction creates of an asset.
Issued(t, asset) ==
    IF t.createdAsset # 0 /\ t.createdAsset = asset /\ Given(t.body.params)
    THEN t.body.params[1].total ELSE 0

\* What the parts of a transaction come to in one asset.
LEMMA NetOfRaw ==
    ASSUME NEW t, IsTransaction(t), NEW asset \in Nat
    PROVE  /\ RawChanges(t) \in Seq(Changes)
           /\ Net(RawChanges(t), asset) = Issued(t, asset) - (IF asset = 0 THEN t.fee ELSE 0)
<1>1. PICK a, b, c, d : a = FeeChanges(t) /\ b = MainChanges(t) /\ c = ClosingChanges(t)
                        /\ d = ConfigChanges(t)
  OBVIOUS
<1>2. a \in Seq(Changes) /\ b \in Seq(Changes) /\ c \in Seq(Changes) /\ d \in Seq(Changes)
  BY <1>1, FeeListed, MainListed, ClosingListed, ConfigListed
<1>3. RawChanges(t) = ((a \o b) \o c) \o d
  <2>1. <<a, b, c, d>> \in Seq(Seq(Changes)) /\ Joined(<<a, b, c, d>>) = FourInRow(a, b, c, d)
    BY ONLY <1>2, JoinedFour
  <2>2. Parts(t) = <<a, b, c, d>>
    BY <1>1 DEF Parts
  <2> QED
    BY <2>1, <2>2, PartsAre DEF FourInRow
<1>4. Offsetting(b) /\ Offsetting(c)
  BY <1>1, MovesOffset
<1>5. /\ a \o b \in Seq(Changes) /\ Net(a \o b, asset) = Net(a, asset)
      /\ (a \o b) \o c \in Seq(Changes) /\ Net((a \o b) \o c, asset) = Net(a, asset)
  <2>1. a \o b \in Seq(Changes) /\ Net(a \o b, asset) = Net(a, asset)
    BY <1>2, <1>4, NetOfMove
  <2>2. PICK r : r = a \o b
    OBVIOUS
  <2>3. r \o c \in Seq(Changes) /\ Net(r \o c, asset) = Net(r, asset)
    BY <1>4, <2>1, <2>2, NetOfMove
  <2> QED
    BY <2>1, <2>2, <2>3
<1>6. PICK e : e = (a \o b) \o c
  OBVIOUS
<1>7. e \in Seq(Changes) /\ Net(e, asset) = Net(a, asset) /\ RawChanges(t) = e \o d
  BY <1>3, <1>5, <1>6
<1>8. /\ t.sender \in Texts /\ t.fee \in Nat /\ t.createdAsset \in Nat
      /\ t.type = "acfg" =>
            /\ t.body.asset \in Nat /\ (t.createdAsset # 0 <=> t.body.asset = 0)
            /\ Given(t.body.params) => t.body.params[1].total \in Nat
      /\ t.type # "acfg" => t.createdAsset = 0
  BY ValuesTyped
<1>9. Net(<<>>, asset) = 0
  <2>1. OfAsset(<<>>, asset) = {}
    BY DEF OfAsset
  <2> QED
    BY <2>1, SumEmpty DEF Net
<1>10. Net(a, asset) = IF asset = 0 THEN -t.fee ELSE 0
  <2>1. CASE t.fee = 0
    BY <1>1, <1>9, <2>1 DEF FeeChanges
  <2>2. CASE t.fee # 0
    <3>1. PICK x : x = Change(t.sender, 0, -t.fee, "Sender")
      OBVIOUS
    <3>2. x \in Changes /\ x.asset = 0 /\ x.amount = -t.fee
      <4>1. -t.fee \in Int /\ 0 \in Nat
        BY <1>8
      <4>2. x \in Changes
        BY <1>8, <3>1, <4>1, ChangeTyped
      <4> QED
        BY <3>1, <4>2 DEF Change
    <3>3. a = Append(<<>>, x)
      BY <1>1, <2>2, <3>1 DEF FeeChanges
    <3>4. <<>> \in Seq(Changes)
      OBVIOUS
    <3>5. Net(a, asset) = 0 + InAsset(x, asset)
      BY <1>9, <3>2, <3>3, <3>4, NetAppend
    <3>6. InAsset(x, asset) = IF asset = 0 THEN -t.fee ELSE 0
      BY <3>2 DEF InAsset
    <3> QED
      BY <1>8, <3>5, <3>6
  <2> QED
    BY <2>1, <2>2
<1>11. e \o d \in Seq(Changes) /\ Net(e \o d, asset) = Net(e, asset) + Issued(t, asset)
  <2> DEFINE total == IF Given(t.body.params) THEN t.body.params[1].total ELSE 0
  <2>1. Net(e, asset) \in Int /\ e \o d \in Seq(Changes)
    BY <1>2, <1>7, NetTyped, ConcatProperties
  <2>2. ASSUME NEW x \in Changes, d = <<x>>
        PROVE  Net(e \o d, asset) = Net(e, asset) + InAsset(x, asset)
    <3>1. PICK S : S = Changes
      OBVIOUS
    <3>2. e \in Seq(S) /\ x \in S
      BY <1>7, <3>1
    <3>3. e \o <<x>> = Append(e, x)
      BY ONLY <3>2
    <3> QED
      BY <1>7, <2>2, <3>3, NetAppend
  <2>3. CASE t.createdAsset # 0
    <3>1. t.type = "acfg" /\ t.body.asset \in {0, NoId} /\ total \in Int
      BY <1>8, <2>3
    <3>2. PICK x : x = Change(t.sender, t.createdAsset, total, "AssetCreator")
      OBVIOUS
    <3>3. d = <<x>>
      BY <1>1, <2>3, <3>1, <3>2 DEF ConfigChanges
    <3>4. x \in Changes
      BY <1>8, <3>1, <3>2, ChangeTyped
    <3>5. x.asset = t.createdAsset /\ x.amount = total
      BY <3>2 DEF Change
    <3>6. InAsset(x, asset) = Issued(t, asset)
      BY <2>3, <3>5 DEF InAsset, Issued
    <3> QED
      BY <2>1, <2>2, <3>3, <3>4, <3>6
  <2>4. CASE t.createdAsset = 0
    <3>1. Issued(t, asset) = 0
      BY <2>4 DEF Issued
    <3>2. CASE t.type = "acfg" /\ ~Given(t.body.params)
      <4>1. t.body.asset \in Nat /\ t.body.asset \notin {0, NoId}
        BY <1>8, <2>4, <3>2 DEF NoId
      <4>2. PICK x : x = Change(t.sender, t.body.asset, 0, "AssetDestroyer")
        OBVIOUS
      <4>3. d = <<x>>
        BY <1>1, <2>4, <3>2, <4>1, <4>2 DEF ConfigChanges
      <4>4. x \in Changes
        BY <1>8, <4>1, <4>2, ChangeTyped
      <4>5. InAsset(x, asset) = 0
        BY <4>2 DEF InAsset, Change
      <4> QED
        BY <2>1, <2>2, <3>1, <4>3, <4>4, <4>5
    <3>3. CASE ~(t.type = "acfg" /\ ~Given(t.body.params))
      <4>1. d = <<>>
        BY <1>1, <2>4, <3>3 DEF ConfigChanges
      <4> QED
        BY <1>7, <2>1, <3>1, <4>1, ConcatEmptySeq
    <3> QED
      BY <3>2, <3>3
  <2> QED
    BY <2>3, <2>4
<1>12. Issued(t, asset) \in Int /\ t.fee \in Int
  BY <1>8 DEF Issued
<1> QED
  BY <1>7, <1>10, <1>11, <1>12

\* Nothing is lost or made up when the changes of a transaction are made one for
\* each account and asset: in any asset they come to what the transaction
\* creates of it, and in the Algo to minus its fee, clawbacks, payments to
\* oneself and close-outs to a party of the transaction included.
THEOREM ChangesBalance ==
    ASSUME NEW t, IsTransaction(t), NEW asset \in Nat
    PROVE  LET changes == {change \in BalanceChangesOf(t) : change.asset = asset}
           IN  SumFunction([change \in changes |-> change.amount]) =
                   Issued(t, asset) - (IF asset = 0 THEN t.fee ELSE 0)
<1> DEFINE raw == RawChanges(t)
           key(i) == <<raw[i].address, raw[i].asset>>
           total(k) == SumFunction([i \in Entries(raw, k) |-> raw[i].amount])
           roles(k) == {raw[i].role : i \in Entries(raw, k)}
           made(k) == [address |-> k[1], asset |-> k[2], amount |-> total(k), roles |-> roles(k)]
           changes == {change \in BalanceChangesOf(t) : change.asset = asset}
           places == OfAsset(raw, asset)
           h == [i \in places |-> made(key(i))]
<1>1. raw \in Seq(Changes) /\ Net(raw, asset) = Issued(t, asset) - (IF asset = 0 THEN t.fee ELSE 0)
  BY NetOfRaw
<1>2. BalanceChangesOf(t) = {made(k) : k \in {key(i) : i \in DOMAIN raw}}
  BY DEF BalanceChangesOf, Consolidated, Keys
<1> HIDE DEF raw, total, roles
<1>3. /\ IsFiniteSet(places) /\ places \subseteq DOMAIN raw
      /\ \A i \in places : Amounts(raw)[i] = raw[i].amount /\ Amounts(raw)[i] \in Int
  BY <1>1, NetTyped
<1>4. \A i \in DOMAIN raw : key(i)[1] = raw[i].address /\ key(i)[2] = raw[i].asset
  OBVIOUS
<1>5. \A k : made(k).address = k[1] /\ made(k).asset = k[2] /\ made(k).amount = total(k)
  OBVIOUS
<1> HIDE DEF made, key
<1>6. /\ h \in [places -> changes]
      /\ \A change \in changes : \E i \in places : h[i] = change
  BY <1>2, <1>3, <1>4, <1>5 DEF OfAsset
<1>7. IsFiniteSet(changes)
  <2>1. h \in Surjection(places, changes)
    BY <1>6, Fun_IsSurj
  <2> QED
    BY <1>3, <2>1, FS_Surjection
<1>8. \A i \in places : h[i] = made(key(i))
  OBVIOUS
<1> HIDE DEF changes, h
<1>9. ASSUME NEW change \in changes
      PROVE  SumFunctionOnSet(Amounts(raw), Fibre(h, places, change)) = change.amount
  <2>1. PICK j \in places : change = made(key(j))
    BY <1>6, <1>8
  <2>2. \A i \in places : h[i] = change <=> key(i) = key(j)
    <3>1. ASSUME NEW i \in places, h[i] = change PROVE key(i) = key(j)
      <4>1. made(key(i)) = made(key(j))
        BY <1>8, <2>1, <3>1
      <4>2. key(i)[1] = key(j)[1] /\ key(i)[2] = key(j)[2]
        BY <1>5, <4>1
      <4>3. raw[i].address = raw[j].address /\ raw[i].asset = raw[j].asset
        BY <1>3, <1>4, <4>2
      <4> QED
        BY <4>3 DEF key
    <3> QED
      BY <1>8, <2>1, <3>1
  <2>3. Entries(raw, key(j)) = Fibre(h, places, change)
    BY <1>3, <2>1, <2>2 DEF Entries, Fibre, key, OfAsset
  <2>4. PICK E : E = Entries(raw, key(j))
    OBVIOUS
  <2>5. E \subseteq places /\ IsFiniteSet(E)
    BY <1>3, <2>3, <2>4, FS_Subset DEF Fibre
  <2>6. change.amount = SumFunctionOnSet([i \in E |-> raw[i].amount], E)
    BY <1>5, <2>1, <2>4 DEF total, SumFunction
  <2>7. \A i \in E : Amounts(raw)[i] = [k \in E |-> raw[k].amount][i]
    BY <1>3, <2>5
  <2>8. SumFunctionOnSet(Amounts(raw), E) = SumFunctionOnSet([i \in E |-> raw[i].amount], E)
    BY <2>5, <2>7, SumAlike
  <2> QED
    BY <2>3, <2>4, <2>6, <2>8
<1>10. SumFunctionOnSet(Amounts(raw), places) =
           SumFunctionOnSet([y \in changes |-> SumFunctionOnSet(Amounts(raw), Fibre(h, places, y))],
                            changes)
  BY <1>3, <1>6, <1>7, SumGrouped
<1>11. [y \in changes |-> SumFunctionOnSet(Amounts(raw), Fibre(h, places, y))] =
           [change \in changes |-> change.amount]
  BY <1>9
<1>12. SumFunction([change \in changes |-> change.amount]) = Net(raw, asset)
  BY <1>10, <1>11 DEF SumFunction, Net
<1> QED
  BY <1>1, <1>12 DEF changes
===============================================================================
