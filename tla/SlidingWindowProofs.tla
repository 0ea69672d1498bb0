------------------------- MODULE SlidingWindowProofs -------------------------
(***************************************************************************)
(* Lemmas about the deque of the rate limiters: what is left when somebody *)
(* looks at it are the entries that count, and with time these change as   *)
(* the list of a RollingWindow does.                                       *)
(***************************************************************************)
EXTENDS SlidingWindow, SequenceTheorems, TLAPS

\* The first k entries, and no others, are at least w old.
Cut(ages, w, k) == \A i \in 1..Len(ages) : i <= k <=> ages[i] >= w

\* Oldest first, stated so that no step of the proofs needs an induction: at every
\* age there is a place to cut the deque.
Layered(ages) ==
    /\ ages \in Seq(Ages)
    /\ \A w \in Ages : \E k \in 0..Len(ages) : Cut(ages, w, k)

LEMMA AgesOf ==
    ASSUME NEW ages \in Seq(Ages)
    PROVE  /\ Len(ages) \in Nat /\ ages \in [1..Len(ages) -> Ages]
           /\ \A i \in 1..Len(ages) : ages[i] \in Nat /\ ages[i] <= Window
           /\ Window \in Nat /\ Window > 0 /\ Window \in Ages /\ 0 \in Ages
BY LenProperties, ElementOfSeq, WindowAssumption DEF Ages

\* There is only one place to cut at an age.
LEMMA CutUnique ==
    ASSUME NEW ages \in Seq(Ages), NEW w, NEW j \in 0..Len(ages), NEW k \in 0..Len(ages),
           Cut(ages, w, j), Cut(ages, w, k)
    PROVE  j = k
<1>1. Len(ages) \in Nat
  BY AgesOf
<1>2. CASE j < k
  <2>1. j + 1 \in 1..Len(ages) /\ j + 1 <= k /\ ~(j + 1 <= j)
    BY <1>1, <1>2
  <2> QED BY <2>1 DEF Cut
<1>3. CASE k < j
  <2>1. k + 1 \in 1..Len(ages) /\ k + 1 <= j /\ ~(k + 1 <= k)
    BY <1>1, <1>3
  <2> QED BY <2>1 DEF Cut
<1> QED
  BY <1>1, <1>2, <1>3

\* The entries that count are those behind the cut at Window.
LEMMA FreshIs ==
    ASSUME NEW ages \in Seq(Ages), NEW k \in 0..Len(ages), Cut(ages, Window, k)
    PROVE  Fresh(ages) = SubSeq(ages, k + 1, Len(ages))
<1> DEFINE stale == CHOOSE j \in 0..Len(ages) :
                       \A i \in 1..Len(ages) : i <= j <=> ages[i] >= Window
<1>1. stale \in 0..Len(ages) /\ Cut(ages, Window, stale)
  BY DEF Cut
<1>2. stale = k
  <2> HIDE DEF stale
  <2> QED BY <1>1, CutUnique
<1> QED
  BY <1>2 DEF Fresh

\* A suffix of the deque.
LEMMA Suffix ==
    ASSUME NEW ages \in Seq(Ages), NEW k \in 0..Len(ages)
    PROVE  /\ Kept(ages, k) \in Seq(Ages) /\ Len(Kept(ages, k)) = Len(ages) - k
           /\ \A i \in 1..(Len(ages) - k) : Kept(ages, k)[i] = ages[k + i]
BY AgesOf, SubSeqProperties DEF Kept

\* A suffix can be cut where the deque can.
LEMMA LayeredSuffix ==
    ASSUME NEW ages, Layered(ages), NEW k \in 0..Len(ages)
    PROVE  Layered(Kept(ages, k))
<1> DEFINE kept == Kept(ages, k)
<1>0. ages \in Seq(Ages) /\ Len(ages) \in Nat
  BY AgesOf DEF Layered
<1>1. /\ kept \in Seq(Ages) /\ Len(kept) = Len(ages) - k
      /\ \A i \in 1..(Len(ages) - k) : kept[i] = ages[k + i]
  BY <1>0, Suffix
<1> HIDE DEF kept
<1>2. ASSUME NEW w \in Ages PROVE \E j \in 0..Len(kept) : Cut(kept, w, j)
  <2>1. PICK c \in 0..Len(ages) : Cut(ages, w, c)
    BY DEF Layered
  <2> DEFINE j == IF c < k THEN 0 ELSE c - k
  <2>2. j \in 0..Len(kept)
    BY <1>0, <1>1
  <2>3. ASSUME NEW i \in 1..Len(kept) PROVE i <= j <=> kept[i] >= w
    <3>1. k + i \in 1..Len(ages) /\ kept[i] = ages[k + i]
      BY <1>0, <1>1
    <3>2. k + i <= c <=> i <= j
      BY <1>0, <1>1
    <3> QED BY <2>1, <3>1, <3>2 DEF Cut
  <2> QED BY <2>2, <2>3 DEF Cut
<1> QED
  BY <1>1, <1>2 DEF Layered, kept

\* Granting and aging keep the deque in order.
LEMMA LayeredGrant ==
    ASSUME NEW ages, Layered(ages)
    PROVE  Layered(Append(ages, 0))
<1> DEFINE more == Append(ages, 0)
<1>0. /\ ages \in Seq(Ages) /\ Len(ages) \in Nat /\ 0 \in Ages
  BY AgesOf DEF Layered
<1>1. /\ more \in Seq(Ages) /\ Len(more) = Len(ages) + 1
      /\ \A i \in 1..Len(ages) : more[i] = ages[i]
      /\ more[Len(ages) + 1] = 0
  BY <1>0, AppendProperties
<1> HIDE DEF more
<1>2. ASSUME NEW w \in Ages PROVE \E j \in 0..Len(more) : Cut(more, w, j)
  <2>1. CASE w = 0
    <3>1. Cut(more, w, Len(more))
      BY <1>0, <1>1, <2>1, AgesOf DEF Cut
    <3> QED BY <1>0, <1>1, <3>1
  <2>2. CASE w # 0
    <3>1. PICK c \in 0..Len(ages) : Cut(ages, w, c)
      BY DEF Layered
    <3>2. w \in Nat /\ w > 0
      BY <2>2, WindowAssumption DEF Ages
    <3>3. ASSUME NEW i \in 1..Len(more) PROVE i <= c <=> more[i] >= w
      <4>1. CASE i \in 1..Len(ages)
        BY <1>1, <3>1, <4>1 DEF Cut
      <4>2. CASE i = Len(ages) + 1
        BY <1>0, <1>1, <3>2, <4>2
      <4> QED BY <1>0, <1>1, <4>1, <4>2
    <3>4. c \in 0..Len(more)
      BY <1>0, <1>1
    <3> QED BY <3>3, <3>4 DEF Cut
  <2> QED BY <2>1, <2>2
<1> QED
  BY <1>1, <1>2 DEF Layered, more

\* The deque a tick later, entry by entry.
LEMMA AgedIs ==
    ASSUME NEW ages \in Seq(Ages)
    PROVE  /\ Aged(ages) \in Seq(Ages) /\ Len(Aged(ages)) = Len(ages)
           /\ \A i \in 1..Len(ages) :
                /\ ages[i] < Window => Aged(ages)[i] = ages[i] + 1
                /\ ~(ages[i] < Window) => Aged(ages)[i] = Window
<1>1. Aged(ages) \in [1..Len(ages) -> Ages]
  BY AgesOf DEF Aged, Ages
<1>2. Aged(ages) \in Seq(Ages)
  BY <1>1, AgesOf, IsASeq
<1>3. Len(Aged(ages)) = Len(ages)
  BY <1>1, <1>2, AgesOf, LenProperties
<1> QED
  BY <1>2, <1>3 DEF Aged

\* What will be w old in a tick is w - 1 old now.
LEMMA CutAged ==
    ASSUME NEW ages \in Seq(Ages), NEW w \in 1..Window, NEW k \in 0..Len(ages)
    PROVE  Cut(Aged(ages), w, k) <=> Cut(ages, w - 1, k)
<1>1. \A i \in 1..Len(ages) : Aged(ages)[i] >= w <=> ages[i] >= w - 1
  BY AgesOf, AgedIs
<1> QED
  BY <1>1, AgedIs DEF Cut

LEMMA LayeredAged ==
    ASSUME NEW ages, Layered(ages)
    PROVE  Layered(Aged(ages))
<1>0. ages \in Seq(Ages)
  BY DEF Layered
<1>1. Aged(ages) \in Seq(Ages) /\ Len(Aged(ages)) = Len(ages) /\ Len(ages) \in Nat
  BY <1>0, AgesOf, AgedIs
<1>2. ASSUME NEW w \in Ages PROVE \E j \in 0..Len(ages) : Cut(Aged(ages), w, j)
  <2>1. CASE w = 0
    <3>1. \A i \in 1..Len(ages) : Aged(ages)[i] \in Nat
      BY <1>1, AgesOf
    <3>2. Cut(Aged(ages), w, Len(ages))
      BY <1>1, <2>1, <3>1 DEF Cut
    <3> QED BY <1>1, <3>2
  <2>2. CASE w # 0
    <3>1. w \in 1..Window /\ w - 1 \in Ages
      BY <2>2, WindowAssumption DEF Ages
    <3>2. PICK c \in 0..Len(ages) : Cut(ages, w - 1, c)
      BY <3>1 DEF Layered
    <3> QED BY <1>0, <3>1, <3>2, CutAged
  <2> QED BY <2>1, <2>2
<1> QED
  BY <1>1, <1>2 DEF Layered

\* Whoever looks at the deque finds the entries that count and no others.
LEMMA PopsToFresh ==
    ASSUME NEW ages, Layered(ages), NEW k \in 0..Len(ages), PopsOff(ages, k)
    PROVE  Kept(ages, k) = Fresh(ages) /\ Cut(ages, Window, k)
<1>0. ages \in Seq(Ages) /\ Window \in Ages /\ Len(ages) \in Nat
  BY AgesOf DEF Layered
<1>1. PICK c \in 0..Len(ages) : Cut(ages, Window, c)
  BY <1>0 DEF Layered
<1>2. CASE c < k
  <2>1. c + 1 \in 1..k /\ c + 1 \in 1..Len(ages) /\ ~(c + 1 <= c)
    BY <1>0, <1>2
  <2> QED BY <1>1, <2>1 DEF Cut, PopsOff
<1>3. CASE k < c
  <2>1. k + 1 \in 1..Len(ages) /\ k + 1 <= c /\ k < Len(ages)
    BY <1>0, <1>3
  <2>2. ages[k + 1] >= Window /\ ages[k + 1] < Window
    BY <1>1, <2>1 DEF Cut, PopsOff
  <2> QED BY <1>0, <2>1, <2>2, AgesOf
<1>4. CASE c = k
  BY <1>0, <1>1, <1>4, FreshIs DEF Kept
<1> QED
  BY <1>0, <1>2, <1>3, <1>4

\* A deque in which everything counts.
LEMMA AllFresh ==
    ASSUME NEW ages \in Seq(Ages), \A i \in 1..Len(ages) : ages[i] < Window
    PROVE  Fresh(ages) = ages
<1>1. Cut(ages, Window, 0) /\ Len(ages) \in Nat
  BY AgesOf DEF Cut
<1>2. Fresh(ages) = SubSeq(ages, 1, Len(ages))
  BY <1>1, FreshIs
<1> QED
  BY <1>2, SubSeqFull

\* Without a grant the entries that count stay; with one it joins them.
LEMMA FreshGrant ==
    ASSUME NEW ages, Layered(ages), NEW k \in 0..Len(ages), PopsOff(ages, k)
    PROVE  /\ Fresh(Kept(ages, k)) = Fresh(ages)
           /\ Fresh(Append(Kept(ages, k), 0)) = Append(Fresh(ages), 0)
<1> DEFINE kept == Kept(ages, k)
<1>0. ages \in Seq(Ages) /\ Len(ages) \in Nat /\ 0 \in Ages /\ Window > 0 /\ Window \in Nat
  BY AgesOf DEF Layered
<1>1. /\ kept \in Seq(Ages) /\ Len(kept) = Len(ages) - k
      /\ \A i \in 1..(Len(ages) - k) : kept[i] = ages[k + i]
  BY <1>0, Suffix
<1>2. kept = Fresh(ages) /\ Cut(ages, Window, k)
  BY PopsToFresh
<1> HIDE DEF kept
<1>3. ASSUME NEW i \in 1..Len(kept) PROVE kept[i] < Window
  <2>1. k + i \in 1..Len(ages) /\ ~(k + i <= k) /\ kept[i] = ages[k + i]
    BY <1>0, <1>1
  <2>2. ~(ages[k + i] >= Window)
    BY <1>2, <2>1 DEF Cut
  <2> QED BY <1>0, <2>1, <2>2, AgesOf
<1>4. Fresh(kept) = kept
  BY <1>1, <1>3, AllFresh
<1>5. /\ Append(kept, 0) \in Seq(Ages) /\ Len(Append(kept, 0)) = Len(kept) + 1
      /\ \A i \in 1..Len(kept) : Append(kept, 0)[i] = kept[i]
      /\ Append(kept, 0)[Len(kept) + 1] = 0
      /\ Len(kept) \in Nat
  BY <1>0, <1>1, AppendProperties
<1>6. ASSUME NEW i \in 1..Len(Append(kept, 0)) PROVE Append(kept, 0)[i] < Window
  BY <1>0, <1>3, <1>5
<1>7. Fresh(Append(kept, 0)) = Append(kept, 0)
  BY <1>5, <1>6, AllFresh
<1> QED
  BY <1>2, <1>4, <1>7 DEF kept

\* A tick takes from the entries that count those that come of age, as in RollingWindow.
LEMMA FreshAged ==
    ASSUME NEW ages, Layered(ages)
    PROVE  \E k \in 0..Len(Fresh(ages)) :
              /\ \A i \in 1..Len(Fresh(ages)) : i <= k <=> Fresh(ages)[i] + 1 >= Window
              /\ Fresh(Aged(ages)) =
                   [i \in 1..(Len(Fresh(ages)) - k) |-> Fresh(ages)[k + i] + 1]
<1>0. /\ ages \in Seq(Ages) /\ Len(ages) \in Nat /\ Window \in Nat /\ Window > 0
      /\ Window \in Ages /\ Window - 1 \in Ages /\ Window \in 1..Window
      /\ \A i \in 1..Len(ages) : ages[i] \in Nat
  BY AgesOf DEF Layered, Ages
<1>1. PICK s \in 0..Len(ages) : Cut(ages, Window, s)
  BY <1>0 DEF Layered
<1>2. PICK t \in 0..Len(ages) : Cut(ages, Window - 1, t)
  BY <1>0 DEF Layered
<1>3. s <= t
  <2>1. CASE t < s
    <3>1. s \in 1..Len(ages) /\ s <= s /\ ~(s <= t)
      BY <1>0, <2>1
    <3>2. ages[s] >= Window /\ ~(ages[s] >= Window - 1) /\ ages[s] \in Nat
      BY <1>0, <1>1, <1>2, <3>1 DEF Cut
    <3> QED BY <1>0, <3>2
  <2> QED BY <1>0, <2>1
<1> DEFINE now == Kept(ages, s)
           next == Kept(Aged(ages), t)
           k == t - s
<1>4. /\ now = Fresh(ages) /\ now \in Seq(Ages) /\ Len(now) = Len(ages) - s
      /\ \A i \in 1..(Len(ages) - s) : now[i] = ages[s + i]
  BY <1>0, <1>1, FreshIs, Suffix DEF Kept
<1>5. Aged(ages) \in Seq(Ages) /\ Len(Aged(ages)) = Len(ages)
  BY <1>0, AgedIs
<1>6. /\ next = Fresh(Aged(ages)) /\ next \in Seq(Ages) /\ Len(next) = Len(ages) - t
      /\ \A i \in 1..(Len(ages) - t) : next[i] = Aged(ages)[t + i]
  <2>1. Cut(Aged(ages), Window, t)
    BY <1>0, <1>2, CutAged
  <2> QED
    BY <1>0, <1>5, <2>1, FreshIs, Suffix DEF Kept
<1> HIDE DEF now, next
<1>7. k \in 0..Len(now)
  BY <1>0, <1>3, <1>4
<1>8. ASSUME NEW i \in 1..Len(now) PROVE i <= k <=> now[i] + 1 >= Window
  <2>1. s + i \in 1..Len(ages) /\ now[i] = ages[s + i] /\ ages[s + i] \in Nat
    BY <1>0, <1>4
  <2>2. s + i <= t <=> ages[s + i] >= Window - 1
    BY <1>2, <2>1 DEF Cut
  <2> QED BY <1>0, <2>1, <2>2
<1>9. ASSUME NEW i \in 1..Len(next) PROVE k + i \in 1..Len(now) /\ next[i] = now[k + i] + 1
  <2>1. t + i \in 1..Len(ages) /\ ~(t + i <= t) /\ s + (k + i) = t + i /\ k + i \in 1..Len(now)
    BY <1>0, <1>3, <1>4, <1>6
  <2>2. ~(ages[t + i] >= Window - 1) /\ ages[t + i] \in Nat
    BY <1>0, <1>2, <2>1 DEF Cut
  <2>3. ages[t + i] < Window
    BY <1>0, <2>2
  <2>4. Aged(ages)[t + i] = ages[t + i] + 1
    BY <1>0, <2>1, <2>3, AgedIs
  <2> QED BY <1>4, <1>6, <2>1, <2>4
<1>10. next = [i \in 1..(Len(now) - k) |-> now[k + i] + 1]
  <2>1. Len(next) = Len(now) - k
    BY <1>0, <1>4, <1>6
  <2>2. next = [i \in 1..Len(next) |-> next[i]]
    BY <1>6, LenProperties
  <2> QED BY <1>9, <2>1, <2>2
<1> QED
  BY <1>4, <1>6, <1>7, <1>8, <1>10

\* The empty deque is in order, and so is its list of entries that count.
LEMMA LayeredEmpty == Layered(<<>>) /\ Fresh(<<>>) = <<>>
<1> DEFINE none == <<>>
<1>1. none \in Seq(Ages) /\ Len(none) = 0
  BY EmptySeq
<1> HIDE DEF none
<1>2. \A w \in Ages : Cut(none, w, 0)
  BY <1>1 DEF Cut
<1>3. Fresh(none) = none
  <2>1. \A i \in 1..Len(none) : none[i] < Window
    BY <1>1
  <2> QED
    BY <1>1, <2>1, AllFresh
<1> QED
  BY <1>1, <1>2, <1>3 DEF Layered, none
=============================================================================
