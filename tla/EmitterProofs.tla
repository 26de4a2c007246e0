----------------------------- MODULE EmitterProofs -----------------------------
(***************************************************************************)
(* Theorems about EventEmitter, for any events, listeners, bounds and      *)
(* depth of the emissions.                                                 *)
(*                                                                         *)
(* EmitterInv says of every emission in progress, not of the last one      *)
(* only, that it has called a prefix of its list, up to its index, unless  *)
(* the list lost an entry since: registrations put entries after the       *)
(* index, and removals mark all emissions of the event at once.  Counting  *)
(* the entries of a listener shows that the removals from the two lists    *)
(* keep step.                                                              *)
(***************************************************************************)
EXTENDS EventEmitter, FiniteSetTheorems, SequenceTheorems, WellFoundedInduction, TLAPS

Listener == Handlers \cup {Default}

-------------------------------------------------------------------------------
(* list.append and list.remove. *)

\* A nonempty set of natural numbers has a least one.
LEMMA LeastExists ==
    ASSUME NEW I \in SUBSET Nat, I # {}
    PROVE  Min(I) \in I
<1> DEFINE R == OpToRel(<, Nat)
<1>1. \E x \in I : \A y \in I : ~(<<y, x>> \in R)
  <2>1. IsWellFoundedOn(R, Nat)
    BY NatLessThanWellFounded
  <2> HIDE DEF R
  <2> QED
    BY <2>1, WFMin
<1>2. PICK x \in I : \A y \in I : ~(<<y, x>> \in R)
  BY <1>1
<1>3. R = {ss \in Nat \X Nat : ss[1] < ss[2]}
  BY DEF OpToRel
<1> HIDE DEF R
<1>4. \A y \in I : <<y, x>> \in R <=> y < x
  BY <1>3
<1>5. \A y \in I : x <= y
  <2> TAKE y \in I
  <2>1. x \in Nat /\ y \in Nat
    OBVIOUS
  <2>2. ~(y < x)
    BY <1>2, <1>4
  <2> QED
    BY <2>1, <2>2
<1> QED
  BY <1>5 DEF Min

\* A list without the entry at place k, with those after it moved.
IsWithout(shorter, s, k) ==
    /\ shorter \in Seq(Listener)
    /\ Len(shorter) = Len(s) - 1
    /\ \A i \in 1..(Len(s) - 1) : shorter[i] = IF i < k THEN s[i] ELSE s[i + 1]

\* Removing a listener takes one entry with it out of the list.
LEMMA Removed ==
    ASSUME NEW s \in Seq(Listener), NEW h, Contains(s, h)
    PROVE  \E k \in 1..Len(s) : s[k] = h /\ IsWithout(RemoveFirst(s, h), s, k)
<1> DEFINE I == {i \in 1..Len(s) : s[i] = h}
           k == Min(I)
<1>1. k \in I
  <2>1. I \in SUBSET Nat /\ I # {}
    BY DEF Contains
  <2> QED
    BY <2>1, LeastExists
<1>2. RemoveFirst(s, h) = RemoveAt(s, k)
  BY DEF RemoveFirst, SelectInSeq, Contains
<1>3. k \in 1..Len(s) /\ s[k] = h
  BY <1>1
<1> HIDE DEF k
<1>4. IsWithout(RemoveAt(s, k), s, k)
  <2> DEFINE before == SubSeq(s, 1, k - 1)
             after == SubSeq(s, k + 1, Len(s))
  <2>1. before \in Seq(Listener) /\ Len(before) = k - 1
        /\ \A i \in 1..(k - 1) : before[i] = s[i]
    BY <1>3
  <2>2. after \in Seq(Listener) /\ Len(after) = Len(s) - k
        /\ \A i \in 1..(Len(s) - k) : after[i] = s[k + i]
    BY <1>3
  <2>3. RemoveAt(s, k) = before \o after
    BY DEF RemoveAt
  <2> HIDE DEF before, after
  <2>4. /\ before \o after \in Seq(Listener)
        /\ Len(before \o after) = Len(s) - 1
        /\ \A i \in 1..(Len(s) - 1) :
              (before \o after)[i] = IF i <= k - 1 THEN before[i] ELSE after[i - (k - 1)]
    <3>1. Len(before) + Len(after) = Len(s) - 1
      BY <1>3, <2>1, <2>2
    <3> QED
      BY <2>1, <2>2, <3>1, ConcatProperties
  <2>5. \A i \in 1..(Len(s) - 1) : (before \o after)[i] = IF i < k THEN s[i] ELSE s[i + 1]
    <3> TAKE i \in 1..(Len(s) - 1)
    <3>1. CASE i < k
      BY <1>3, <2>1, <2>4, <3>1
    <3>2. CASE ~(i < k)
      <4>1. i - (k - 1) \in 1..(Len(s) - k) /\ k + (i - (k - 1)) = i + 1
        BY <1>3, <3>2
      <4> QED
        BY <1>3, <2>2, <2>4, <3>2, <4>1
    <3> QED
      BY <3>1, <3>2
  <2> QED
    BY <2>3, <2>4, <2>5 DEF IsWithout
<1> QED
  BY <1>2, <1>3, <1>4

\* Where it is not in the list nothing changes.
LEMMA NotRemoved ==
    ASSUME NEW s, NEW h, ~Contains(s, h)
    PROVE  RemoveFirst(s, h) = s
BY DEF RemoveFirst, Contains

\* The places of a listener in a list are finitely many.
LEMMA TimesType ==
    ASSUME NEW s \in Seq(Listener), NEW h
    PROVE  /\ IsFiniteSet({i \in DOMAIN s : s[i] = h})
           /\ Times(s, h) \in Nat
           /\ Times(s, h) = 0 <=> ~Contains(s, h)
<1> DEFINE I == {i \in DOMAIN s : s[i] = h}
<1>1. DOMAIN s = 1..Len(s) /\ Len(s) \in Nat
  OBVIOUS
<1>2. IsFiniteSet(1..Len(s))
  BY <1>1, FS_Interval
<1>3. IsFiniteSet(I)
  BY <1>1, <1>2, FS_Subset
<1>4. Cardinality(I) \in Nat /\ (Cardinality(I) = 0 <=> I = {})
  BY <1>3, FS_CardinalityType, FS_EmptySet
<1> QED
  BY <1>1, <1>3, <1>4 DEF Times, Contains

\* A listener that is appended is there once more.
LEMMA TimesAppended ==
    ASSUME NEW s \in Seq(Listener), NEW h \in Listener, NEW x
    PROVE  Times(Append(s, h), x) = Times(s, x) + (IF x = h THEN 1 ELSE 0)
<1> DEFINE I == {i \in DOMAIN s : s[i] = x}
           n == Len(s) + 1
           longer == Append(s, h)
<1>1. DOMAIN s = 1..Len(s) /\ Len(s) \in Nat
  OBVIOUS
<1>2. /\ DOMAIN longer = 1..n /\ longer[n] = h
      /\ \A i \in 1..Len(s) : longer[i] = s[i]
  OBVIOUS
<1>3. {i \in DOMAIN longer : longer[i] = x} = IF x = h THEN I \cup {n} ELSE I
  BY <1>1, <1>2
<1>4. IsFiniteSet(I) /\ Cardinality(I) \in Nat
  BY TimesType DEF Times
<1>5. n \notin I
  BY <1>1
<1>6. Cardinality(I \cup {n}) = Cardinality(I) + 1
  BY <1>4, <1>5, FS_AddElement
<1>7. Times(longer, x) = Cardinality(IF x = h THEN I \cup {n} ELSE I)
  BY <1>3 DEF Times
<1>8. Times(s, x) = Cardinality(I)
  BY DEF Times
<1> QED
  BY <1>4, <1>6, <1>7, <1>8

\* A listener that is removed is there once less, and the others as often.
LEMMA TimesRemoved ==
    ASSUME NEW s \in Seq(Listener), NEW h, Contains(s, h), NEW x
    PROVE  Times(RemoveFirst(s, h), x) = Times(s, x) - (IF x = h THEN 1 ELSE 0)
<1> DEFINE shorter == RemoveFirst(s, h)
<1> HIDE DEF shorter
<1> DEFINE I == {i \in DOMAIN s : s[i] = x}
           J == {i \in DOMAIN shorter : shorter[i] = x}
<1>0. PICK k \in 1..Len(s) : s[k] = h /\ IsWithout(shorter, s, k)
  BY Removed DEF shorter
<1>1. /\ s[k] = h
      /\ shorter \in Seq(Listener)
      /\ Len(shorter) = Len(s) - 1
      /\ \A i \in 1..(Len(s) - 1) : shorter[i] = IF i < k THEN s[i] ELSE s[i + 1]
  BY <1>0 DEF IsWithout
<1>2. DOMAIN s = 1..Len(s) /\ Len(s) \in Nat /\ DOMAIN shorter = 1..(Len(s) - 1)
  BY <1>1
<1> DEFINE f == [i \in J |-> IF i < k THEN i ELSE i + 1]
           T == I \ {k}
<1>3. f \in Bijection(J, T)
  <2>1. f \in [J -> T]
    BY <1>1, <1>2
  <2>2. \A i, j \in J : f[i] = f[j] => i = j
    BY <1>1, <1>2
  <2>3. \A t \in T : \E i \in J : f[i] = t
    <3> TAKE t \in T
    <3>1. t \in 1..Len(s) /\ s[t] = x /\ t # k
      BY <1>2
    <3> DEFINE i == IF t < k THEN t ELSE t - 1
    <3>2. i \in 1..(Len(s) - 1) /\ shorter[i] = s[t]
      BY <1>1, <3>1
    <3>3. i \in J /\ f[i] = t
      BY <1>1, <1>2, <3>1, <3>2
    <3> QED
      BY <3>3
  <2> HIDE DEF f, T, J
  <2> QED
    BY <2>1, <2>2, <2>3, Zenon DEF Bijection, Injection, Surjection, IsInjective
<1>4. IsFiniteSet(I) /\ Cardinality(I) \in Nat
  BY TimesType DEF Times
<1>5. IsFiniteSet(T) /\ Cardinality(T) = IF k \in I THEN Cardinality(I) - 1 ELSE Cardinality(I)
  BY <1>4, FS_RemoveElement
<1>6. k \in I <=> x = h
  BY <1>1, <1>2
<1>7. IsFiniteSet(J)
  BY <1>1, TimesType DEF Times
<1>8. Cardinality(J) = Cardinality(T)
  <2>1. ExistsBijection(J, T)
    BY <1>3 DEF ExistsBijection
  <2> QED
    BY <1>7, <2>1, FS_Bijection
<1> QED
  BY <1>4, <1>5, <1>6, <1>8 DEF Times, shorter

-------------------------------------------------------------------------------
(* The lists of all events. *)

AreLists(lists) == \A e \in DOMAIN lists : lists[e] \in Seq(Listener)

\* Append, with a new list for an event that has none.
LEMMA WithAppends ==
    ASSUME NEW lists, NEW e, NEW h
    PROVE  With(lists, e, h)[e] = Append(Get(lists, e), h)
BY DEF With

\* A registration adds to one list and leaves the others.
LEMMA WithLists ==
    ASSUME NEW lists, AreLists(lists), NEW e, NEW h \in Listener
    PROVE  /\ AreLists(With(lists, e, h))
           /\ Get(lists, e) \in Seq(Listener)
           /\ DOMAIN With(lists, e, h) = DOMAIN lists \cup {e}
           /\ \A x \in DOMAIN lists : x # e => With(lists, e, h)[x] = lists[x]
<1>1. Get(lists, e) \in Seq(Listener)
  BY DEF AreLists, Get
<1> DEFINE longer == Append(Get(lists, e), h)
<1>2. longer \in Seq(Listener)
  BY <1>1
<1>3. With(lists, e, h) = [x \in DOMAIN lists \cup {e} |-> IF x = e THEN longer ELSE lists[x]]
  BY DEF With
<1> HIDE DEF longer
<1>4. /\ DOMAIN With(lists, e, h) = DOMAIN lists \cup {e}
      /\ With(lists, e, h)[e] = longer
      /\ \A x \in DOMAIN lists : x # e => With(lists, e, h)[x] = lists[x]
  BY <1>3
<1>5. AreLists(With(lists, e, h))
  BY <1>2, <1>4 DEF AreLists
<1> QED
  BY <1>1, <1>4, <1>5 DEF longer

\* Removal from the list of one event.
LEMMA WithoutLists ==
    ASSUME NEW lists, AreLists(lists), NEW e, NEW h
    PROVE  /\ AreLists(Without(lists, e, h))
           /\ DOMAIN Without(lists, e, h) = DOMAIN lists
           /\ e \in DOMAIN lists => Without(lists, e, h)[e] = RemoveFirst(lists[e], h)
           /\ \A x \in DOMAIN lists : x # e => Without(lists, e, h)[x] = lists[x]
<1>1. CASE e \notin DOMAIN lists
  BY <1>1 DEF Without
<1>2. CASE e \in DOMAIN lists
  <2> DEFINE shorter == RemoveFirst(lists[e], h)
  <2>1. lists[e] \in Seq(Listener)
    BY <1>2 DEF AreLists
  <2>2. shorter \in Seq(Listener)
    BY <2>1, Removed, NotRemoved DEF IsWithout
  <2>3. Without(lists, e, h) = [lists EXCEPT ![e] = shorter]
    BY <1>2 DEF Without
  <2> HIDE DEF shorter
  <2>4. /\ DOMAIN Without(lists, e, h) = DOMAIN lists
        /\ Without(lists, e, h)[e] = shorter
        /\ \A x \in DOMAIN lists : x # e => Without(lists, e, h)[x] = lists[x]
    BY <1>2, <2>3
  <2>5. AreLists(Without(lists, e, h))
    BY <2>2, <2>4 DEF AreLists
  <2> QED
    BY <2>4, <2>5 DEF shorter
<1> QED
  BY <1>1, <1>2

\* A removal that raises leaves every list as it is.
LEMMA WithoutNothing ==
    ASSUME NEW lists, AreLists(lists), NEW e, NEW h, CannotRemove(lists, e, h)
    PROVE  \A x \in DOMAIN lists : Without(lists, e, h)[x] = lists[x]
<1>1. e \in DOMAIN lists /\ RemoveFirst(lists[e], h) = lists[e]
  BY NotRemoved DEF CannotRemove
<1> QED
  BY <1>1, WithoutLists

-------------------------------------------------------------------------------
(* One-time registrations. *)

\* What the two lists of each event have in common.
Registered(lists, times) ==
    /\ DOMAIN times \subseteq DOMAIN lists
    /\ \A e \in DOMAIN times : \A h \in Handlers : Times(times[e], h) <= Times(lists[e], h)

\* More listeners do no harm.
LEMMA OnRegisters ==
    ASSUME NEW lists, AreLists(lists), NEW times, AreLists(times), Registered(lists, times),
           NEW e, NEW h \in Listener
    PROVE  Registered(With(lists, e, h), times)
<1> DEFINE more == With(lists, e, h)
<1>a. /\ DOMAIN more = DOMAIN lists \cup {e}
      /\ Get(lists, e) \in Seq(Listener)
      /\ \A x \in DOMAIN lists : x # e => more[x] = lists[x]
  BY WithLists
<1>c. more[e] = Append(Get(lists, e), h)
  BY WithAppends
<1> HIDE DEF more
<1>1. DOMAIN times \subseteq DOMAIN more
  BY <1>a DEF Registered
<1>2. ASSUME NEW x \in DOMAIN times, NEW g \in Handlers
      PROVE  Times(times[x], g) <= Times(more[x], g)
  <2>1. x \in DOMAIN lists /\ Times(times[x], g) <= Times(lists[x], g)
    BY DEF Registered
  <2>2. CASE x # e
    BY <2>1, <2>2, <1>a
  <2>3. CASE x = e
    <3>1. more[x] = Append(lists[x], h) /\ lists[x] \in Seq(Listener)
      BY <2>1, <2>3, <1>a, <1>c DEF Get, AreLists
    <3>2. Times(more[x], g) = Times(lists[x], g) + (IF g = h THEN 1 ELSE 0)
      BY <3>1, TimesAppended
    <3>3. Times(lists[x], g) \in Nat /\ Times(times[x], g) \in Nat
      BY <3>1, TimesType DEF AreLists
    <3> QED
      BY <2>1, <3>2, <3>3
  <2> QED
    BY <2>2, <2>3
<1> QED
  BY <1>1, <1>2 DEF Registered, more

\* once appends to both lists.
LEMMA OnceRegisters ==
    ASSUME NEW lists, AreLists(lists), NEW times, AreLists(times), Registered(lists, times),
           NEW e, NEW h \in Listener
    PROVE  Registered(With(lists, e, h), With(times, e, h))
<1> DEFINE more == With(lists, e, h)
           moreTimes == With(times, e, h)
<1>a. /\ DOMAIN more = DOMAIN lists \cup {e}
      /\ Get(lists, e) \in Seq(Listener)
      /\ \A x \in DOMAIN lists : x # e => more[x] = lists[x]
  BY WithLists
<1>c. more[e] = Append(Get(lists, e), h)
  BY WithAppends
<1>b. /\ DOMAIN moreTimes = DOMAIN times \cup {e}
      /\ Get(times, e) \in Seq(Listener)
      /\ \A x \in DOMAIN times : x # e => moreTimes[x] = times[x]
  BY WithLists
<1>d. moreTimes[e] = Append(Get(times, e), h)
  BY WithAppends
<1> HIDE DEF more, moreTimes
<1>1. DOMAIN moreTimes \subseteq DOMAIN more
  BY <1>a, <1>b DEF Registered
<1>2. ASSUME NEW x \in DOMAIN moreTimes, NEW g \in Handlers
      PROVE  Times(moreTimes[x], g) <= Times(more[x], g)
  <2>1. CASE x # e
    <3>1. x \in DOMAIN times
      BY <1>b, <1>2, <2>1
    <3> QED
      BY <1>a, <1>b, <2>1, <3>1 DEF Registered
  <2>2. CASE x = e
    <3> DEFINE old == Get(lists, e)
               oldTimes == Get(times, e)
               one == IF g = h THEN 1 ELSE 0
    <3>1. /\ more[x] = Append(old, h) /\ moreTimes[x] = Append(oldTimes, h)
          /\ old \in Seq(Listener) /\ oldTimes \in Seq(Listener)
      BY <1>a, <1>b, <1>c, <1>d, <2>2
    <3>2. Times(oldTimes, g) <= Times(old, g)
      <4>1. CASE e \in DOMAIN times
        BY <4>1 DEF Registered, Get
      <4>2. CASE e \notin DOMAIN times
        <5>1. oldTimes = <<>>
          BY <4>2 DEF Get
        <5>2. Times(oldTimes, g) = 0
          BY <5>1, FS_EmptySet DEF Times
        <5>3. Times(old, g) \in Nat
          BY <3>1, TimesType
        <5> QED
          BY <5>2, <5>3
      <4> QED
        BY <4>1, <4>2
    <3>3. Times(old, g) \in Nat /\ Times(oldTimes, g) \in Nat
      BY <3>1, TimesType
    <3>4. /\ Times(more[x], g) = Times(old, g) + one
          /\ Times(moreTimes[x], g) = Times(oldTimes, g) + one
      BY <3>1, TimesAppended
    <3> QED
      BY <3>2, <3>3, <3>4
  <2> QED
    BY <2>1, <2>2
<1> QED
  BY <1>1, <1>2 DEF Registered, more, moreTimes

\* remove_listener takes a listener out of the list of one-time listeners only
\* when it took one out of the list of listeners, and then if it can.
LEMMA RemoveRegisters ==
    ASSUME AreLists(listeners), AreLists(oneTime), Registered(listeners, oneTime),
           NEW e, NEW h, RemoveListener(e, h)
    PROVE  /\ AreLists(listeners)' /\ AreLists(oneTime)'
           /\ DOMAIN listeners' = DOMAIN listeners /\ DOMAIN oneTime' = DOMAIN oneTime
           /\ Registered(listeners, oneTime)'
<1>1. /\ AreLists(listeners') /\ DOMAIN listeners' = DOMAIN listeners
      /\ e \in DOMAIN listeners => listeners'[e] = RemoveFirst(listeners[e], h)
      /\ \A x \in DOMAIN listeners : x # e => listeners'[x] = listeners[x]
  BY WithoutLists DEF RemoveListener
<1>2. AreLists(oneTime') /\ DOMAIN oneTime' = DOMAIN oneTime
  BY WithoutLists DEF RemoveListener
<1>3. ASSUME NEW x \in DOMAIN oneTime, NEW g \in Handlers
      PROVE  Times(oneTime'[x], g) <= Times(listeners'[x], g)
  <2>1. x \in DOMAIN listeners /\ Times(oneTime[x], g) <= Times(listeners[x], g)
    BY DEF Registered
  <2>2. oneTime[x] \in Seq(Listener) /\ listeners[x] \in Seq(Listener)
    BY <2>1 DEF AreLists
  <2>3. Times(oneTime[x], g) \in Nat /\ Times(listeners[x], g) \in Nat
    BY <2>2, TimesType
  <2>4. CASE CannotRemove(listeners, e, h)
    <3>1. listeners'[x] = listeners[x] /\ oneTime' = oneTime
      BY <2>1, <2>4, WithoutNothing DEF RemoveListener
    <3> QED
      BY <2>1, <3>1
  <2>5. CASE ~CannotRemove(listeners, e, h) /\ x # e
    <3>1. oneTime'[x] = oneTime[x]
      BY <2>5, WithoutLists DEF RemoveListener
    <3> QED
      BY <1>1, <2>1, <2>5, <3>1
  <2>6. CASE ~CannotRemove(listeners, e, h) /\ x = e
    <3> DEFINE one == IF g = h THEN 1 ELSE 0
    <3>1. Contains(listeners[x], h)
      BY <2>1, <2>6 DEF CannotRemove
    <3>2. listeners'[x] = RemoveFirst(listeners[x], h)
      BY <1>1, <2>1, <2>6
    <3>3. Times(listeners'[x], g) = Times(listeners[x], g) - one
      BY <2>2, <3>1, <3>2, TimesRemoved
    <3>4. oneTime'[x] = RemoveFirst(oneTime[x], h)
      BY <2>6, WithoutLists DEF RemoveListener
    <3>5. CASE Contains(oneTime[x], h)
      <4>1. Times(oneTime'[x], g) = Times(oneTime[x], g) - one
        BY <2>2, <3>4, <3>5, TimesRemoved
      <4> QED
        BY <2>1, <2>3, <3>3, <4>1
    <3>6. CASE ~Contains(oneTime[x], h)
      <4>1. oneTime'[x] = oneTime[x]
        BY <3>4, <3>6, NotRemoved
      <4>2. CASE g # h
        BY <2>1, <2>3, <3>3, <4>1, <4>2
      <4>3. CASE g = h
        <5>1. Times(oneTime[x], g) = 0 /\ Times(listeners[x], g) # 0
          BY <2>2, <3>1, <3>6, <4>3, TimesType
        <5> QED
          BY <2>3, <3>3, <4>1, <4>3, <5>1
      <4> QED
        BY <4>2, <4>3
    <3> QED
      BY <3>5, <3>6
  <2> QED
    BY <2>4, <2>5, <2>6
<1>4. DOMAIN oneTime' \subseteq DOMAIN listeners'
  BY <1>1, <1>2 DEF Registered
<1> QED
  BY <1>1, <1>2, <1>3, <1>4 DEF Registered, AreLists

-------------------------------------------------------------------------------
(* The emissions in progress. *)

\* An emission whose list lost nothing has called the first listeners of the
\* list as it is now, and found a list that is a prefix of it.
InOrder(f, list) ==
    ~f.disturbed =>
        /\ f.index <= Len(list) /\ Len(f.called) = f.index
        /\ \A j \in 1..f.index : f.called[j] = list[j]
        /\ Len(f.before) <= Len(list)
        /\ \A j \in 1..Len(f.before) : f.before[j] = list[j]

FramesInOrder(frames, lists) ==
    \A i \in 1..Len(frames) :
        frames[i].event \in DOMAIN lists /\ InOrder(frames[i], lists[frames[i].event])

\* A registration comes after what every emission has seen of the list.
LEMMA FramesGrow ==
    ASSUME NEW frames \in Seq(Frame), NEW lists, AreLists(lists), FramesInOrder(frames, lists),
           NEW e, NEW h \in Listener
    PROVE  FramesInOrder(frames, With(lists, e, h))
<1> DEFINE more == With(lists, e, h)
<1>1. /\ DOMAIN more = DOMAIN lists \cup {e}
      /\ \A x \in DOMAIN lists : x # e => more[x] = lists[x]
  BY WithLists
<1>2. more[e] = Append(Get(lists, e), h)
  BY WithAppends
<1> HIDE DEF more
<1>3. ASSUME NEW i \in 1..Len(frames)
      PROVE  frames[i].event \in DOMAIN more /\ InOrder(frames[i], more[frames[i].event])
  <2> DEFINE f == frames[i]
             list == lists[f.event]
  <2>1. f \in Frame /\ f.event \in DOMAIN lists /\ InOrder(f, list)
    BY DEF FramesInOrder
  <2>2. f.index \in Nat /\ f.before \in Seq(Listener)
    BY <2>1 DEF Frame, Listener
  <2> HIDE DEF f
  <2>3. CASE f.event # e
    BY <1>1, <2>1, <2>3 DEF f
  <2>4. CASE f.event = e
    <3>1. more[f.event] = Append(list, h) /\ list \in Seq(Listener)
      BY <1>2, <2>1, <2>4 DEF Get, AreLists
    <3>2. /\ Len(Append(list, h)) = Len(list) + 1 /\ Len(list) \in Nat
          /\ \A j \in 1..Len(list) : Append(list, h)[j] = list[j]
      BY <3>1
    <3>3. InOrder(f, Append(list, h))
      BY <2>1, <2>2, <3>2 DEF InOrder
    <3> QED
      BY <1>1, <2>1, <3>1, <3>3 DEF f
  <2> QED
    BY <2>3, <2>4
<1> QED
  BY <1>3 DEF FramesInOrder, more

\* A removal marks the emissions that iterate over the list.
LEMMA DisturbedFrames ==
    ASSUME NEW frames \in Seq(Frame), NEW e
    PROVE  /\ Disturb(frames, e) \in Seq(Frame)
           /\ Len(Disturb(frames, e)) = Len(frames)
           /\ \A i \in 1..Len(frames) :
                 /\ Disturb(frames, e)[i].event = frames[i].event
                 /\ frames[i].event = e => Disturb(frames, e)[i].disturbed
                 /\ frames[i].event # e => Disturb(frames, e)[i] = frames[i]
<1> DEFINE marked(i) == IF frames[i].event = e THEN [frames[i] EXCEPT !.disturbed = TRUE]
                        ELSE frames[i]
<1>1. Disturb(frames, e) = [i \in 1..Len(frames) |-> marked(i)]
  BY DEF Disturb
<1>2. ASSUME NEW i \in 1..Len(frames)
      PROVE  /\ marked(i) \in Frame /\ marked(i).event = frames[i].event
             /\ frames[i].event = e => marked(i).disturbed
             /\ frames[i].event # e => marked(i) = frames[i]
  <2>1. frames[i] \in Frame
    OBVIOUS
  <2> QED
    BY <2>1 DEF Frame
<1> HIDE DEF marked
<1> QED
  BY <1>1, <1>2

\* A removal from the list of an event leaves what the running emits have still
\* to call in order.
LEMMA FramesShrink ==
    ASSUME NEW frames \in Seq(Frame), NEW lists, AreLists(lists), FramesInOrder(frames, lists),
           NEW e, NEW h
    PROVE  FramesInOrder(Disturb(frames, e), Without(lists, e, h))
<1> DEFINE fewer == Without(lists, e, h)
           marked == Disturb(frames, e)
<1>1. DOMAIN fewer = DOMAIN lists /\ \A x \in DOMAIN lists : x # e => fewer[x] = lists[x]
  BY WithoutLists
<1>2. /\ Len(marked) = Len(frames)
      /\ \A i \in 1..Len(frames) :
            /\ marked[i].event = frames[i].event
            /\ frames[i].event = e => marked[i].disturbed
            /\ frames[i].event # e => marked[i] = frames[i]
  BY DisturbedFrames
<1> HIDE DEF fewer, marked
<1>3. ASSUME NEW i \in 1..Len(frames)
      PROVE  marked[i].event \in DOMAIN fewer /\ InOrder(marked[i], fewer[marked[i].event])
  <2>1. frames[i].event \in DOMAIN lists /\ InOrder(frames[i], lists[frames[i].event])
    BY DEF FramesInOrder
  <2>2. CASE frames[i].event = e
    BY <1>1, <1>2, <2>1, <2>2 DEF InOrder
  <2>3. CASE frames[i].event # e
    BY <1>1, <1>2, <2>1, <2>3
  <2> QED
    BY <2>2, <2>3
<1> QED
  BY <1>2, <1>3 DEF FramesInOrder, fewer, marked

\* A removal that raises leaves the emissions alone.
LEMMA FramesSame ==
    ASSUME NEW frames, NEW lists, NEW others, FramesInOrder(frames, lists),
           DOMAIN others = DOMAIN lists, \A x \in DOMAIN lists : others[x] = lists[x]
    PROVE  FramesInOrder(frames, others)
BY DEF FramesInOrder

\* The end of an emission.
LEMMA FramesFront ==
    ASSUME NEW frames \in Seq(Frame), frames # <<>>, NEW lists, FramesInOrder(frames, lists)
    PROVE  /\ Front(frames) \in Seq(Frame) /\ FramesInOrder(Front(frames), lists)
           /\ Last(frames) \in Frame /\ Last(frames).event \in DOMAIN lists
           /\ InOrder(Last(frames), lists[Last(frames).event])
<1>1. Len(frames) \in 1..Len(frames) /\ Last(frames) = frames[Len(frames)]
  BY DEF Last
<1>2. /\ Front(frames) \in Seq(Frame) /\ Len(Front(frames)) = Len(frames) - 1
      /\ \A i \in 1..(Len(frames) - 1) : Front(frames)[i] = frames[i]
  <2> DEFINE n == Len(frames) - 1
  <2>1. n \in Nat /\ \A i \in 1..n : frames[i] \in Frame
    BY <1>1
  <2> DEFINE rest == SubSeq(frames, 1, n)
  <2>2. /\ rest \in Seq(Frame)
        /\ Len(rest) = IF 1 <= n THEN n - 1 + 1 ELSE 0
        /\ \A i \in 1..(n - 1 + 1) : rest[i] = frames[1 + i - 1]
    BY <2>1, SubSeqProperties
  <2>3. Front(frames) = rest
    BY DEF Front
  <2> HIDE DEF rest, n
  <2>4. Len(rest) = n
    BY <2>1, <2>2
  <2>5. ASSUME NEW i \in 1..n PROVE rest[i] = frames[i]
    <3>1. i \in 1..(n - 1 + 1) /\ 1 + i - 1 = i
      BY <2>1
    <3> QED
      BY <2>2, <3>1
  <2> QED
    BY <2>2, <2>3, <2>4, <2>5 DEF n
<1>3. FramesInOrder(Front(frames), lists)
  BY <1>2 DEF FramesInOrder
<1> QED
  BY <1>1, <1>2, <1>3 DEF FramesInOrder

\* A new emission, or a step of the last one.
LEMMA FramesAppend ==
    ASSUME NEW frames \in Seq(Frame), NEW lists, FramesInOrder(frames, lists),
           NEW f \in Frame, f.event \in DOMAIN lists, InOrder(f, lists[f.event])
    PROVE  /\ Append(frames, f) \in Seq(Frame)
           /\ FramesInOrder(Append(frames, f), lists)
<1> DEFINE more == Append(frames, f)
<1>1. /\ more \in Seq(Frame) /\ Len(more) = Len(frames) + 1
      /\ more[Len(frames) + 1] = f
      /\ \A i \in 1..Len(frames) : more[i] = frames[i]
  OBVIOUS
<1> HIDE DEF more
<1>2. ASSUME NEW i \in 1..Len(more)
      PROVE  more[i].event \in DOMAIN lists /\ InOrder(more[i], lists[more[i].event])
  <2>1. CASE i = Len(frames) + 1
    BY <1>1, <2>1
  <2>2. CASE i # Len(frames) + 1
    <3>1. i \in 1..Len(frames)
      BY <1>1, <2>2
    <3> QED
      BY <1>1, <3>1 DEF FramesInOrder
  <2> QED
    BY <2>1, <2>2
<1> QED
  BY <1>1, <1>2 DEF FramesInOrder, more

-------------------------------------------------------------------------------
(* The invariant: with the emissions in order, the list of the error event *)
(* is the one that the first call of on_error left, and never had a        *)
(* one-time listener.                                                      *)

ErrorListeners ==
    /\ ErrorEvent \in DOMAIN listeners /\ ErrorEvent \notin DOMAIN oneTime
    /\ listeners[ErrorEvent] = IF asked = <<>> THEN <<Default>> ELSE <<asked[1]>>

EmitterInv ==
    /\ TypeOK
    /\ Registered(listeners, oneTime)
    /\ ErrorListeners
    /\ FramesInOrder(stack, listeners)

\* Nothing is registered and nothing runs at the start, but for the listener of
\* errors.
LEMMA EmitterInvInit == Init => EmitterInv
<1> SUFFICES ASSUME Init PROVE EmitterInv
  OBVIOUS
<1>1. DOMAIN oneTime = {} /\ stack = <<>> /\ asked = <<>>
  BY DEF Init
<1>2. DOMAIN listeners = {ErrorEvent} /\ listeners[ErrorEvent] = <<Default>>
  BY DEF Init
<1>3. TypeOK
  <2>1. <<Default>> \in Lists /\ <<>> \in Seq(Frame) /\ <<>> \in Seq(Handlers)
    BY DEF Lists
  <2> QED
    BY <1>1, <1>2, <2>1 DEF TypeOK
<1>4. FramesInOrder(stack, listeners)
  BY <1>1 DEF FramesInOrder
<1> QED
  BY <1>1, <1>2, <1>3, <1>4 DEF EmitterInv, Registered, ErrorListeners

\* What TypeOK says, in the terms of the lemmas.
LEMMA ListsTyped == TypeOK => AreLists(listeners) /\ AreLists(oneTime)
BY DEF TypeOK, Lists, AreLists, Listener

\* on keeps the invariant.
LEMMA OnStep ==
    ASSUME EmitterInv, NEW e \in Events, NEW h \in Handlers, On(e, h)
    PROVE  EmitterInv'
<1>1. AreLists(listeners) /\ AreLists(oneTime) /\ stack \in Seq(Frame)
  BY ListsTyped DEF EmitterInv, TypeOK
<1>2. listeners' = With(listeners, e, h) /\ UNCHANGED <<oneTime, stack, asked>>
  BY DEF On
<1>3. /\ AreLists(listeners') /\ DOMAIN listeners' = DOMAIN listeners \cup {e}
      /\ \A x \in DOMAIN listeners : x # e => listeners'[x] = listeners[x]
  <2>1. h \in Listener
    BY DEF Listener
  <2>2. /\ AreLists(With(listeners, e, h))
        /\ DOMAIN With(listeners, e, h) = DOMAIN listeners \cup {e}
        /\ \A x \in DOMAIN listeners : x # e => With(listeners, e, h)[x] = listeners[x]
    BY <1>1, <2>1, WithLists
  <2> QED
    BY <1>2, <2>2
<1>4. TypeOK'
  BY <1>2, <1>3 DEF EmitterInv, TypeOK, Lists, AreLists, Listener
<1>5. Registered(listeners, oneTime)'
  BY <1>1, <1>2, OnRegisters DEF EmitterInv, Listener
<1>6. ErrorListeners'
  BY <1>2, <1>3, NamesAssumption DEF EmitterInv, ErrorListeners, NamesAssumption
<1>7. FramesInOrder(stack, listeners)'
  BY <1>1, <1>2, FramesGrow DEF EmitterInv, Listener
<1> QED
  BY <1>4, <1>5, <1>6, <1>7 DEF EmitterInv

\* once keeps the invariant.
LEMMA OnceStep ==
    ASSUME EmitterInv, NEW e \in Events, NEW h \in Handlers, Once(e, h)
    PROVE  EmitterInv'
<1>1. AreLists(listeners) /\ AreLists(oneTime) /\ stack \in Seq(Frame)
  BY ListsTyped DEF EmitterInv, TypeOK
<1>2. /\ listeners' = With(listeners, e, h) /\ oneTime' = With(oneTime, e, h)
      /\ UNCHANGED <<stack, asked>>
  BY DEF Once
<1>3. /\ AreLists(listeners') /\ DOMAIN listeners' = DOMAIN listeners \cup {e}
      /\ \A x \in DOMAIN listeners : x # e => listeners'[x] = listeners[x]
  <2>1. h \in Listener
    BY DEF Listener
  <2>2. /\ AreLists(With(listeners, e, h))
        /\ DOMAIN With(listeners, e, h) = DOMAIN listeners \cup {e}
        /\ \A x \in DOMAIN listeners : x # e => With(listeners, e, h)[x] = listeners[x]
    BY <1>1, <2>1, WithLists
  <2> QED
    BY <1>2, <2>2
<1>4. AreLists(oneTime') /\ DOMAIN oneTime' = DOMAIN oneTime \cup {e}
  BY <1>1, <1>2, WithLists DEF Listener
<1>5. TypeOK'
  BY <1>2, <1>3, <1>4 DEF EmitterInv, TypeOK, Lists, AreLists, Listener
<1>6. Registered(listeners, oneTime)'
  BY <1>1, <1>2, OnceRegisters DEF EmitterInv, Listener
<1>7. ErrorListeners'
  BY <1>2, <1>3, <1>4, NamesAssumption DEF EmitterInv, ErrorListeners, NamesAssumption
<1>8. FramesInOrder(stack, listeners)'
  BY <1>1, <1>2, FramesGrow DEF EmitterInv, Listener
<1> QED
  BY <1>5, <1>6, <1>7, <1>8 DEF EmitterInv

\* off, and the removal that an emission makes: frames is the stack before
\* its emissions are marked.
LEMMA RemovalStep ==
    ASSUME EmitterInv, NEW e, e # ErrorEvent, NEW h, RemoveListener(e, h), UNCHANGED asked,
           NEW frames \in Seq(Frame), FramesInOrder(frames, listeners),
           stack' = IF CannotRemove(listeners, e, h) THEN frames ELSE Disturb(frames, e)
    PROVE  EmitterInv'
<1>1. AreLists(listeners) /\ AreLists(oneTime) /\ Registered(listeners, oneTime)
  BY ListsTyped DEF EmitterInv
<1>2. /\ AreLists(listeners') /\ AreLists(oneTime')
      /\ DOMAIN listeners' = DOMAIN listeners /\ DOMAIN oneTime' = DOMAIN oneTime
      /\ Registered(listeners, oneTime)'
  BY <1>1, RemoveRegisters DEF AreLists
<1>3. listeners' = Without(listeners, e, h)
  BY DEF RemoveListener
<1>4. \A x \in DOMAIN listeners : x # e => listeners'[x] = listeners[x]
  BY <1>1, <1>3, WithoutLists
<1>5. stack' \in Seq(Frame)
  BY DisturbedFrames
<1>6. TypeOK'
  BY <1>2, <1>5 DEF EmitterInv, TypeOK, Lists, AreLists, Listener
<1>7. ErrorListeners'
  BY <1>2, <1>4 DEF EmitterInv, ErrorListeners
<1>8. FramesInOrder(stack', listeners')
  <2>1. CASE CannotRemove(listeners, e, h)
    BY <1>1, <1>2, <1>3, <2>1, WithoutNothing, FramesSame
  <2>2. CASE ~CannotRemove(listeners, e, h)
    BY <1>1, <1>3, <2>2, FramesShrink
  <2> QED
    BY <2>1, <2>2
<1> QED
  BY <1>2, <1>6, <1>7, <1>8 DEF EmitterInv

\* on_error keeps the invariant: the new handler takes the place of the old
\* one.
LEMMA OnErrorStep ==
    ASSUME EmitterInv, NEW h \in Handlers, OnError(h)
    PROVE  EmitterInv'
<1>1. AreLists(listeners) /\ AreLists(oneTime) /\ stack \in Seq(Frame)
  BY ListsTyped DEF EmitterInv, TypeOK
<1>2. asked \in Seq(Handlers) /\ asked' = Append(asked, h) /\ UNCHANGED oneTime
  BY DEF EmitterInv, TypeOK, OnError
<1>3. asked' \in Seq(Handlers) /\ asked' # <<>> /\ (asked # <<>> => asked'[1] = asked[1])
      /\ (asked = <<>> => asked'[1] = h)
  BY <1>2
<1>4. ErrorEvent \in DOMAIN listeners
  BY DEF EmitterInv, ErrorListeners
<1>5. CASE asked # <<>>
  <2>1. listeners[ErrorEvent] = <<asked[1]>> /\ asked[1] \in Handlers
    BY <1>2, <1>5 DEF EmitterInv, ErrorListeners
  <2>2. CannotRemove(listeners, ErrorEvent, Default)
    BY <1>4, <2>1, NamesAssumption DEF CannotRemove, Contains, NamesAssumption
  <2>3. UNCHANGED <<listeners, stack>>
    BY <2>2 DEF OnError
  <2> QED
    BY <1>2, <1>3, <1>5, <2>1, <2>3
        DEF EmitterInv, TypeOK, Registered, ErrorListeners, FramesInOrder
<1>6. CASE asked = <<>>
  <2> DEFINE fewer == Without(listeners, ErrorEvent, Default)
  <2>1. listeners[ErrorEvent] = <<Default>>
    BY <1>6 DEF EmitterInv, ErrorListeners
  <2>2. Contains(listeners[ErrorEvent], Default)
    BY <2>1 DEF Contains
  <2>3. ~CannotRemove(listeners, ErrorEvent, Default)
    BY <2>2 DEF CannotRemove
  <2>4. listeners' = With(fewer, ErrorEvent, h) /\ stack' = Disturb(stack, ErrorEvent)
    BY <2>3 DEF OnError
  <2>5. /\ AreLists(fewer) /\ DOMAIN fewer = DOMAIN listeners
        /\ fewer[ErrorEvent] = RemoveFirst(listeners[ErrorEvent], Default)
        /\ \A x \in DOMAIN listeners : x # ErrorEvent => fewer[x] = listeners[x]
    BY <1>1, <1>4, WithoutLists
  <2>6. fewer[ErrorEvent] = <<>>
    <3>1. listeners[ErrorEvent] \in Seq(Listener) /\ Len(listeners[ErrorEvent]) = 1
      BY <1>1, <1>4, <2>1 DEF AreLists
    <3>2. PICK k \in 1..1 : IsWithout(fewer[ErrorEvent], listeners[ErrorEvent], k)
      BY <2>2, <2>5, <3>1, Removed
    <3>3. fewer[ErrorEvent] \in Seq(Listener) /\ Len(fewer[ErrorEvent]) = 0
      BY <3>1, <3>2 DEF IsWithout
    <3> QED
      BY <3>3, EmptySeq
  <2>7. h \in Listener
    BY DEF Listener
  <2>8. FramesInOrder(stack', fewer)
    BY <1>1, <2>4, FramesShrink DEF EmitterInv
  <2>9. stack' \in Seq(Frame)
    BY <1>1, <2>4, DisturbedFrames
  <2> HIDE DEF fewer
  <2>10. /\ AreLists(listeners') /\ DOMAIN listeners' = DOMAIN listeners
         /\ \A x \in DOMAIN listeners : x # ErrorEvent => listeners'[x] = listeners[x]
    <3>1. /\ AreLists(With(fewer, ErrorEvent, h))
          /\ DOMAIN With(fewer, ErrorEvent, h) = DOMAIN fewer \cup {ErrorEvent}
          /\ \A x \in DOMAIN fewer : x # ErrorEvent => With(fewer, ErrorEvent, h)[x] = fewer[x]
      BY <2>5, <2>7, WithLists
    <3> QED
      BY <1>4, <2>4, <2>5, <3>1
  <2>11. listeners'[ErrorEvent] = <<h>>
    <3>1. With(fewer, ErrorEvent, h)[ErrorEvent] = Append(Get(fewer, ErrorEvent), h)
      BY WithAppends
    <3>2. Get(fewer, ErrorEvent) = <<>>
      BY <2>6 DEF Get
    <3> QED
      BY <2>4, <3>1, <3>2
  <2>12. TypeOK'
    BY <1>2, <1>3, <2>9, <2>10 DEF EmitterInv, TypeOK, Lists, AreLists, Listener
  <2>13. Registered(listeners, oneTime)'
    BY <1>2, <2>10 DEF EmitterInv, ErrorListeners, Registered
  <2>14. ErrorListeners'
    BY <1>2, <1>3, <1>4, <1>6, <2>10, <2>11 DEF EmitterInv, ErrorListeners
  <2>15. FramesInOrder(stack', listeners')
    BY <2>4, <2>5, <2>7, <2>8, <2>9, FramesGrow
  <2> QED
    BY <2>12, <2>13, <2>14, <2>15 DEF EmitterInv
<1> QED
  BY <1>5, <1>6

\* Steps that change the stack only.
LEMMA StackStep ==
    ASSUME EmitterInv, UNCHANGED <<listeners, oneTime, asked>>,
           stack' \in Seq(Frame), FramesInOrder(stack', listeners)
    PROVE  EmitterInv'
<1>1. FramesInOrder(stack', listeners')
  OBVIOUS
<1> QED
  BY <1>1 DEF EmitterInv, TypeOK, Registered, ErrorListeners

\* An emit begins with the list of its event.
LEMMA EmitStep ==
    ASSUME EmitterInv, NEW e \in Events \cup {ErrorEvent}, Emit(e)
    PROVE  EmitterInv'
<1> DEFINE f == [event |-> e, index |-> 0, listener |-> Default, calling |-> FALSE,
                 before |-> listeners[e], called |-> <<>>, disturbed |-> FALSE]
<1>1. e \in DOMAIN listeners /\ listeners[e] \in Seq(Listener) /\ stack \in Seq(Frame)
  BY ListsTyped DEF Emit, EmitterInv, TypeOK, AreLists
<1>2. f \in Frame
  <2>1. <<>> \in Seq(Listener)
    OBVIOUS
  <2> QED
    BY <1>1, <2>1 DEF Frame, Listener
<1>3. InOrder(f, listeners[e]) /\ f.event = e
  BY <1>1 DEF InOrder
<1>4. stack' = Append(stack, f) /\ UNCHANGED <<listeners, oneTime, asked>>
  BY DEF Emit
<1> HIDE DEF f
<1>5. Append(stack, f) \in Seq(Frame) /\ FramesInOrder(Append(stack, f), listeners)
  BY <1>1, <1>2, <1>3, FramesAppend DEF EmitterInv
<1> QED
  BY <1>4, <1>5, StackStep

\* A call takes the next listener of the innermost emit.
LEMMA CallStep ==
    ASSUME EmitterInv, CallListener
    PROVE  EmitterInv'
<1> DEFINE f == Last(stack)
           list == listeners[f.event]
           h == list[f.index + 1]
           g == [f EXCEPT !.index = @ + 1, !.listener = h, !.calling = TRUE,
                          !.called = Append(@, h)]
<1>1. stack \in Seq(Frame) /\ stack # <<>>
  BY DEF EmitterInv, TypeOK, CallListener, Iterating
<1>2. /\ Front(stack) \in Seq(Frame) /\ FramesInOrder(Front(stack), listeners)
      /\ f \in Frame /\ f.event \in DOMAIN listeners /\ InOrder(f, list)
  BY <1>1, FramesFront DEF EmitterInv
<1>3. list \in Seq(Listener)
  BY <1>2, ListsTyped DEF EmitterInv, AreLists
<1>4. stack' = Append(Front(stack), g) /\ UNCHANGED <<listeners, oneTime, asked>>
  BY DEF CallListener
<1>5. f.index < Len(list) /\ f.index \in Nat
  BY <1>2, <1>3 DEF CallListener, Exhausted, Frame
<1> HIDE DEF f, list
<1>6. h \in Listener
  BY <1>3, <1>5
<1> HIDE DEF h
<1>7. f.called \in Seq(Listener) /\ Append(f.called, h) \in Seq(Listener)
  BY <1>2, <1>6 DEF Frame, Listener
<1>8. /\ g.event = f.event /\ g.index = f.index + 1 /\ g.called = Append(f.called, h)
      /\ g.before = f.before /\ g.disturbed = f.disturbed /\ g \in Frame
  <2> DEFINE longer == Append(f.called, h)
  <2>1. g = [f EXCEPT !.index = f.index + 1, !.listener = h, !.calling = TRUE,
                      !.called = longer]
    OBVIOUS
  <2>2. longer \in Seq(Handlers \cup {Default}) /\ h \in Handlers \cup {Default}
        /\ f.index + 1 \in Nat
    BY <1>5, <1>6, <1>7 DEF Listener
  <2> HIDE DEF longer, g
  <2>3. g \in Frame
    BY <1>2, <2>1, <2>2 DEF Frame
  <2>4. /\ g.event = f.event /\ g.index = f.index + 1 /\ g.called = longer
        /\ g.before = f.before /\ g.disturbed = f.disturbed
    BY <1>2, <2>1, <2>2 DEF Frame
  <2> QED
    BY <2>3, <2>4 DEF longer
<1> HIDE DEF g
<1>9. InOrder(g, list)
  <2> SUFFICES ASSUME ~f.disturbed
               PROVE  /\ f.index + 1 <= Len(list) /\ Len(Append(f.called, h)) = f.index + 1
                      /\ \A j \in 1..(f.index + 1) : Append(f.called, h)[j] = list[j]
    BY <1>2, <1>8 DEF InOrder
  <2>1. Len(f.called) = f.index /\ \A j \in 1..f.index : f.called[j] = list[j]
    BY <1>2 DEF InOrder
  <2>2. Append(f.called, h)[f.index + 1] = list[f.index + 1]
    BY <1>7, <2>1 DEF h
  <2>3. \A j \in 1..f.index : Append(f.called, h)[j] = f.called[j]
    BY <1>7, <2>1
  <2> QED
    BY <1>3, <1>5, <1>7, <2>1, <2>2, <2>3
<1>10. Append(Front(stack), g) \in Seq(Frame) /\ FramesInOrder(Append(Front(stack), g), listeners)
  BY <1>2, <1>8, <1>9, FramesAppend DEF list
<1> QED
  BY <1>4, <1>10, StackStep

\* The listener that the last emission called is done.
LEMMA CallDone ==
    ASSUME EmitterInv, stack # <<>>,
           NEW g, g = [Last(stack) EXCEPT !.calling = FALSE]
    PROVE  /\ Append(Front(stack), g) \in Seq(Frame)
           /\ FramesInOrder(Append(Front(stack), g), listeners)
<1> DEFINE f == Last(stack)
<1>1. /\ Front(stack) \in Seq(Frame) /\ FramesInOrder(Front(stack), listeners)
      /\ f \in Frame /\ f.event \in DOMAIN listeners /\ InOrder(f, listeners[f.event])
  BY FramesFront DEF EmitterInv, TypeOK
<1>2. g = [f EXCEPT !.calling = FALSE]
  OBVIOUS
<1> HIDE DEF f
<1>3. g \in Frame
  BY <1>1, <1>2 DEF Frame
<1>4. /\ g.event = f.event /\ g.index = f.index /\ g.called = f.called
      /\ g.before = f.before /\ g.disturbed = f.disturbed
  BY <1>1, <1>2 DEF Frame
<1>5. g.event \in DOMAIN listeners /\ InOrder(g, listeners[g.event])
  BY <1>1, <1>4 DEF InOrder
<1> QED
  BY <1>1, <1>3, <1>5, FramesAppend

\* The listener that was called once goes before its emit calls the next.
LEMMA RemoveCalledStep ==
    ASSUME EmitterInv, RemoveCalled
    PROVE  EmitterInv'
<1> DEFINE f == Last(stack)
           g == [f EXCEPT !.calling = FALSE]
           raises == CannotRemove(listeners, f.event, f.listener)
                         \/ CannotRemove(oneTime, f.event, f.listener)
           rest == IF raises THEN Front(stack) ELSE Append(Front(stack), g)
<1>1. stack # <<>> /\ RemoveListener(f.event, f.listener) /\ UNCHANGED asked
      /\ f.event \in DOMAIN oneTime
  BY DEF RemoveCalled, Calling
<1>2. stack' = IF CannotRemove(listeners, f.event, f.listener) THEN rest
               ELSE Disturb(rest, f.event)
  BY DEF RemoveCalled
<1>3. Front(stack) \in Seq(Frame) /\ FramesInOrder(Front(stack), listeners)
  BY <1>1, FramesFront DEF EmitterInv, TypeOK
<1>4. Append(Front(stack), g) \in Seq(Frame) /\ FramesInOrder(Append(Front(stack), g), listeners)
  BY <1>1, CallDone
<1>5. f.event # ErrorEvent
  BY <1>1 DEF EmitterInv, ErrorListeners
<1> HIDE DEF f, g, raises
<1>6. rest \in Seq(Frame) /\ FramesInOrder(rest, listeners)
  BY <1>3, <1>4
<1> HIDE DEF rest
<1> QED
  BY <1>1, <1>2, <1>5, <1>6, RemovalStep

\* Each step keeps the invariant.
LEMMA EmitterInvStep == EmitterInv /\ [Next]_vars => EmitterInv'
<1> SUFFICES ASSUME EmitterInv, [Next]_vars PROVE EmitterInv'
  OBVIOUS
<1>1. ASSUME NEW e \in Events, NEW h \in Handlers, On(e, h) PROVE EmitterInv'
  BY <1>1, OnStep
<1>2. ASSUME NEW e \in Events, NEW h \in Handlers, Once(e, h) PROVE EmitterInv'
  BY <1>2, OnceStep
<1>3. ASSUME NEW e \in Events, NEW h \in Handlers, Off(e, h) PROVE EmitterInv'
  <2>1. e # ErrorEvent
    BY NamesAssumption DEF NamesAssumption
  <2>2. stack \in Seq(Frame) /\ FramesInOrder(stack, listeners)
    BY DEF EmitterInv, TypeOK
  <2>3. /\ RemoveListener(e, h) /\ UNCHANGED asked
        /\ stack' = IF CannotRemove(listeners, e, h) THEN stack ELSE Disturb(stack, e)
    BY <1>3 DEF Off
  <2> QED
    BY <2>1, <2>2, <2>3, RemovalStep
<1>4. ASSUME NEW h \in Handlers, OnError(h) PROVE EmitterInv'
  BY <1>4, OnErrorStep
<1>5. ASSUME NEW e \in Events \cup {ErrorEvent}, Emit(e) PROVE EmitterInv'
  BY <1>5, EmitStep
<1>6. CASE CallListener
  BY <1>6, CallStep
<1>7. CASE ListenerReturns
  <2>1. /\ stack # <<>>
        /\ stack' = Append(Front(stack), [Last(stack) EXCEPT !.calling = FALSE])
        /\ UNCHANGED <<listeners, oneTime, asked>>
    BY <1>7 DEF ListenerReturns, Calling
  <2>2. stack' \in Seq(Frame) /\ FramesInOrder(stack', listeners)
    BY <2>1, CallDone
  <2> QED
    BY <2>1, <2>2, StackStep
<1>8. CASE RemoveCalled
  BY <1>8, RemoveCalledStep
<1>9. CASE ListenerRaises \/ EmitReturns
  <2>1. /\ stack # <<>> /\ stack' = Front(stack)
        /\ UNCHANGED <<listeners, oneTime, asked>>
    BY <1>9 DEF ListenerRaises, EmitReturns, Calling, Iterating
  <2>2. stack' \in Seq(Frame) /\ FramesInOrder(stack', listeners)
    BY <2>1, FramesFront DEF EmitterInv, TypeOK
  <2> QED
    BY <2>1, <2>2, StackStep
<1>10. CASE UNCHANGED vars
  BY <1>10 DEF vars, EmitterInv, TypeOK, Registered, ErrorListeners, FramesInOrder
<1> QED
  BY <1>1, <1>2, <1>3, <1>4, <1>5, <1>6, <1>7, <1>8, <1>9, <1>10 DEF Next

\* The invariant of the emitter.
LEMMA EmitterInvAlways == Spec => []EmitterInv
  BY EmitterInvInit, EmitterInvStep, PTL DEF Spec

-------------------------------------------------------------------------------
\* Every variable keeps its type, and an event with one-time listeners has a
\* list of listeners.
THEOREM EmitterTypeCorrect == Spec => []TypeOK
<1>1. EmitterInv => TypeOK
  BY DEF EmitterInv
<1> QED
  BY <1>1, EmitterInvAlways, PTL

\* Each one-time registration has a registration of its own in the list that
\* emit iterates over, whatever is removed or raises in whichever nesting.
THEOREM OneTimeAlwaysRegistered == Spec => []OneTimeIsRegistered
<1>1. EmitterInv => OneTimeIsRegistered
  BY DEF EmitterInv, Registered, OneTimeIsRegistered
<1> QED
  BY <1>1, EmitterInvAlways, PTL

\* An emission that returns and whose list lost nothing has called every
\* listener of its event in order.
THEOREM AlwaysEmitsInOrder == Spec => []EmitsInOrder
<1>1. EmitterInv => EmitsInOrder
  <2> DEFINE f == Last(stack)
             list == listeners[f.event]
  <2> SUFFICES ASSUME EmitterInv, Iterating, Exhausted(f), ~f.disturbed
               PROVE  f.called = list /\ IsPrefix(f.before, list)
    BY DEF EmitsInOrder
  <2>1. f \in Frame /\ f.event \in DOMAIN listeners /\ InOrder(f, list)
    BY FramesFront DEF EmitterInv, TypeOK, Iterating
  <2>2. list \in Seq(Listener)
    BY <2>1, ListsTyped DEF EmitterInv, AreLists
  <2>3. f.called \in Seq(Listener) /\ f.before \in Seq(Listener) /\ f.index \in Nat
    BY <2>1 DEF Frame, Listener
  <2>4. f.index >= Len(list)
    BY DEF Exhausted
  <2> HIDE DEF f, list
  <2>5. f.index = Len(list) /\ Len(f.called) = f.index
        /\ \A j \in 1..f.index : f.called[j] = list[j]
    BY <2>1, <2>2, <2>3, <2>4 DEF InOrder
  <2>6. f.called = list
    BY <2>2, <2>3, <2>5, SeqEqual
  <2>7. Len(f.before) <= Len(list) /\ \A j \in 1..Len(f.before) : f.before[j] = list[j]
    BY <2>1 DEF InOrder
  <2>8. SubSeq(list, 1, Len(f.before)) = SubSeq(f.before, 1, Len(f.before))
    BY <2>2, <2>3, <2>7
  <2> QED
    BY <2>6, <2>7, <2>8 DEF IsPrefix
<1> QED
  BY <1>1, EmitterInvAlways, PTL

\* The error event has one listener at all times: the default one until the
\* first on_error, that of the first call from then on.
THEOREM ErrorAlwaysHeard == Spec => []ErrorHeard
<1>1. EmitterInv => ErrorHeard
  BY DEF EmitterInv, ErrorListeners, ErrorHeard
<1> QED
  BY <1>1, EmitterInvAlways, PTL
===============================================================================
