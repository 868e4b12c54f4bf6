--------------------------- MODULE ChatPageProofs ---------------------------
(***************************************************************************)
(* Proofs about ChatPage, for any threads, messages, sizes of a page and   *)
(* of a kept copy, and any number of disturbances: what is shown is of the *)
(* selected thread, no message is lost from sight but in the three ways    *)
(* the model marks, and a page that counts as online shows the server's    *)
(* messages.                                                               *)
(***************************************************************************)
EXTENDS ChatPage, FiniteSetTheorems, NaturalFacts, TLAPS

MaybeThread == Threads \union {NoThread}
Snaps == Shown \union {NoSnap}
Conns == [hint : BOOLEAN, browser : BOOLEAN, reach : {"connecting", "offline", "online"}]
Requests == [phase : {"idle", "asked", "answered"}, thread : MaybeThread, snap : Snaps]
Streams == [thread : MaybeThread, state : {"closed", "connecting", "open"}, events : Seq(Shown)]
Stores == [active : MaybeThread, snaps : [Threads -> Snaps],
           startup : [thread : MaybeThread, snap : Snaps],
           olderPages : SUBSET [thread : Threads, cursor : Numbers]]
Scars == {"torn", "stray", "unchecked"}

-----------------------------------------------------------------------------
(* Snapshots. *)

LEMMA Sizes ==
  ASSUME PageBounds
  PROVE  /\ MaxMessages \in Nat /\ PageSize \in Nat /\ PageSize >= 1
         /\ CacheLimit \in Nat /\ CacheLimit >= 1 /\ MaxUpsets \in Nat
BY DEF PageBounds

(* The least and the greatest of some messages are among them.            *)
LEMMA Ends ==
  ASSUME MaxMessages \in Nat, NEW S, S \subseteq Numbers, S # {}
  PROVE  /\ Least(S) \in S /\ \A j \in S : Least(S) <= j
         /\ Most(S) \in S /\ \A j \in S : j <= Most(S)
<1>1. \E x \in S : \A y \in S : x <= y
  <2>1. S \subseteq Nat
    BY DEF Numbers
  <2> QED
    BY <2>1, SmallestNat
<1>2. \E x \in S : \A y \in S : y <= x
  BY GreatestBelow DEF Numbers
<1> QED
  BY <1>1, <1>2 DEF Least, Most

(* A set of messages has its newest k ones.                               *)
LEMMA NewestOf ==
  ASSUME MaxMessages \in Nat, NEW S, S \subseteq Numbers,
         NEW k \in Nat, k <= Cardinality(S)
  PROVE  \E T \in SUBSET S : Cardinality(T) = k /\ \A i \in T, j \in S \ T : j < i
<1> DEFINE Upper == {U \in SUBSET S : k <= Cardinality(U) /\ \A i \in U, j \in S \ U : j < i}
<1> DEFINE Counts == {Cardinality(U) : U \in Upper}
<1>1. \A U \in SUBSET S : IsFiniteSet(U) /\ Cardinality(U) \in Nat
  <2>1. IsFiniteSet(Numbers)
    BY FS_Interval DEF Numbers
  <2>2. \A U \in SUBSET S : IsFiniteSet(U)
    BY <2>1, FS_Subset
  <2> QED
    BY <2>2, FS_CardinalityType
<1>2. S \in Upper
  OBVIOUS
<1>3. Counts \subseteq Nat /\ Counts # {}
  BY <1>1, <1>2
<1>4. PICK c \in Counts : \A d \in Counts : c <= d
  <2> HIDE DEF Counts
  <2> QED
    BY <1>3, SmallestNat
<1>5. PICK U \in Upper : c = Cardinality(U)
  OBVIOUS
<1>6. U \in SUBSET S /\ k <= Cardinality(U) /\ Cardinality(U) \in Nat
  BY <1>1
<1>7. CASE Cardinality(U) = k
  BY <1>6, <1>7
<1>8. CASE Cardinality(U) # k
  <2> DEFINE x == Least(U)
  <2>1. U # {}
    BY <1>6, <1>8, FS_EmptySet
  <2>2. x \in U /\ \A j \in U : x <= j
    BY <1>6, <2>1, Ends
  <2> DEFINE V == U \ {x}
  <2>3. Cardinality(V) = Cardinality(U) - 1
    <3>1. IsFiniteSet(U)
      BY <1>1, <1>6
    <3>2. x \in U
      BY <2>2
    <3> HIDE DEF x
    <3> QED
      BY <3>1, <3>2, FS_RemoveElement
  <2>4. V \in SUBSET S /\ k <= Cardinality(V)
    BY <1>6, <1>8, <2>3
  <2>5. ASSUME NEW i \in V, NEW j \in S \ V PROVE j < i
    <3>1. i \in U /\ i # x /\ x \in U
      BY <2>2
    <3>4. \A u \in U : u \in Nat
      BY <1>6 DEF Numbers
    <3>5. i \in Nat /\ x \in Nat
      <4> HIDE DEF x, V
      <4> QED
        BY <3>1, <3>4
    <3>2. CASE j = x
      <4> HIDE DEF x, V
      <4>1. x <= i
        BY <2>2, <3>1
      <4> QED
        BY <3>1, <3>2, <3>5, <4>1
    <3>3. CASE j # x
      <4>1. j \in S \ U
        BY <3>3
      <4> QED
        BY <3>1, <4>1
    <3> QED
      BY <3>2, <3>3
  <2>6. V \in Upper
    BY <2>4, <2>5
  <2>7. Cardinality(U) <= Cardinality(V)
    BY <1>4, <1>5, <2>6
  <2> QED
    BY <1>6, <2>3, <2>7
<1> QED
  BY <1>7, <1>8

(* A window of the server is a snapshot of its thread, without a gap.     *)
LEMMA WindowFacts ==
  ASSUME PageBounds, NEW t \in Threads, NEW before \in 1..(MaxMessages + 1)
  PROVE  /\ Window(t, before) \in Shown /\ Window(t, before).thread = t
         /\ Window(t, before).msgs = {i \in Numbers :
               i < before /\ Window(t, before).cursor <= i}
         /\ \A i \in Numbers : i < before =>
               i \in Window(t, before).msgs \/ i < Window(t, before).cursor
<1> DEFINE first == IF before > PageSize THEN before - PageSize ELSE 1
<1>1. MaxMessages \in Nat /\ PageSize \in Nat /\ PageSize >= 1 /\ before \in Nat
      /\ before <= MaxMessages + 1 /\ before >= 1
  BY Sizes
<1>2. first \in Nat /\ first >= 1 /\ first <= before
  BY <1>1
<1>3. first > 1 => first <= MaxMessages
  BY <1>1
<1> HIDE DEF first
<1> DEFINE w == [thread |-> t, msgs |-> first..(before - 1),
                 cursor |-> IF first > 1 THEN first ELSE 0]
<1>4. Window(t, before) = w
  BY DEF Window, first
<1>5. w.thread = t /\ w.msgs = first..(before - 1) /\ w.cursor = IF first > 1 THEN first ELSE 0
  OBVIOUS
<1>6. first..(before - 1) \subseteq Numbers
  BY <1>1, <1>2 DEF Numbers
<1>7. w.cursor \in 0..MaxMessages
  BY <1>1, <1>2, <1>3
<1>8. w \in Shown
  BY <1>6, <1>7 DEF Shown
<1>9. \A i \in Numbers : i \in first..(before - 1) <=> i < before /\ w.cursor <= i
  BY <1>1, <1>2 DEF Numbers
<1>10. \A i \in Numbers : i < before => i \in first..(before - 1) \/ i < w.cursor
  BY <1>1, <1>2 DEF Numbers
<1> HIDE DEF w
<1> QED
  BY <1>4, <1>5, <1>6, <1>8, <1>9, <1>10

(* The part of a snapshot from its cursor on is shown without a gap.      *)
Whole(s) == Complete(s) /\ \A m \in s.msgs : s.cursor <= m

LEMMA LatestFacts ==
  ASSUME PageBounds, log \in [Threads -> 0..MaxMessages], NEW t \in Threads
  PROVE  /\ Latest(t) \in Shown /\ Latest(t).thread = t /\ Whole(Latest(t))
<1>1. MaxMessages \in Nat
  BY Sizes
<1>2. log[t] \in 0..MaxMessages
  OBVIOUS
<1>3. log[t] + 1 \in 1..(MaxMessages + 1)
  BY <1>1, <1>2
<1> DEFINE b == log[t] + 1
<1>4. b \in 1..(MaxMessages + 1) /\ Latest(t) = Window(t, b)
  BY <1>3 DEF Latest
<1> HIDE DEF b
<1> DEFINE w == Window(t, b)
<1>5. /\ w \in Shown /\ w.thread = t
      /\ w.msgs = {i \in Numbers : i < b /\ w.cursor <= i}
      /\ \A i \in Numbers : i < b => i \in w.msgs \/ i < w.cursor
  BY <1>4, WindowFacts
<1>6. b \in Nat
  BY <1>1, <1>4
<1> HIDE DEF w
<1>7. Whole(w)
  <2>1. \A i, j \in Numbers : i < j /\ j < b => i < b
    BY <1>1, <1>6 DEF Numbers
  <2> QED
    BY <1>5, <2>1 DEF Whole, Complete
<1> QED
  BY <1>4, <1>5, <1>7 DEF w

(* The snapshot of a thread merged into what is shown of it.              *)
LEMMA MergeTyped ==
  ASSUME PageBounds, NEW cur \in Snaps, NEW new \in Shown
  PROVE  MergeRealtime(cur, new) \in Shown /\ MergeRealtime(cur, new).thread = new.thread
<1>1. CASE cur.msgs = {} \/ new.msgs = {} \/ cur.thread # new.thread
  BY <1>1 DEF MergeRealtime
<1>2. CASE cur.msgs # {} /\ new.msgs # {} /\ cur.thread = new.thread
  <2>1. cur.msgs \subseteq Numbers /\ cur.cursor \in 0..MaxMessages
    <3>1. CASE cur \in Shown
      BY <3>1 DEF Shown
    <3>2. CASE cur = NoSnap
      BY <1>2, <3>2 DEF NoSnap
    <3> QED
      BY <3>1, <3>2 DEF Snaps
  <2>2. new.thread \in Threads /\ new.msgs \subseteq Numbers /\ new.cursor \in 0..MaxMessages
    BY DEF Shown
  <2> DEFINE c == IF cur.cursor # 0 THEN cur.cursor ELSE new.cursor
  <2>3. new = [thread |-> new.thread, msgs |-> new.msgs, cursor |-> new.cursor]
    BY DEF Shown
  <2>4. MergeRealtime(cur, new) =
          [thread |-> new.thread, msgs |-> cur.msgs \union new.msgs, cursor |-> c]
    BY <1>2, <2>3 DEF MergeRealtime, Shown
  <2>5. c \in 0..MaxMessages /\ cur.msgs \union new.msgs \subseteq Numbers
    BY <2>1, <2>2
  <2> HIDE DEF c
  <2> QED
    BY <2>2, <2>4, <2>5 DEF Shown
<1> QED
  BY <1>1, <1>2

(* ... leaves no gap where there was none, unless it skips messages.      *)
LEMMA MergeComplete ==
  ASSUME PageBounds, NEW cur \in Snaps, NEW new \in Shown,
         Complete(cur), Whole(new), ~Skips(cur, new)
  PROVE  Complete(MergeRealtime(cur, new))
<1>1. CASE cur.msgs = {} \/ new.msgs = {} \/ cur.thread # new.thread
  BY <1>1 DEF MergeRealtime, Whole
<1>2. CASE cur.msgs # {} /\ new.msgs # {} /\ cur.thread = new.thread
  <2>0. MaxMessages \in Nat
    BY Sizes
  <2>1. cur.msgs \subseteq Numbers /\ cur.cursor \in Nat
    <3>1. CASE cur \in Shown
      BY <3>1 DEF Shown
    <3>2. CASE cur = NoSnap
      BY <1>2, <3>2 DEF NoSnap
    <3> QED
      BY <3>1, <3>2 DEF Snaps
  <2>2. new.msgs \subseteq Numbers /\ new.cursor \in Nat
    BY DEF Shown
  <2> DEFINE m == MergeRealtime(cur, new)
  <2>3. /\ m.msgs = cur.msgs \union new.msgs
        /\ m.cursor = IF cur.cursor # 0 THEN cur.cursor ELSE new.cursor
    BY <1>2 DEF MergeRealtime, Shown
  <2> DEFINE top == Most(cur.msgs)
  <2> DEFINE bottom == Least(new.msgs)
  <2>4. /\ top \in cur.msgs /\ \A j \in cur.msgs : j <= top
        /\ bottom \in new.msgs /\ \A j \in new.msgs : bottom <= j
    BY <1>2, <2>0, <2>1, <2>2, Ends
  <2>5. cur.cursor # 0 => ~(top + 1 < bottom)
    BY <1>2 DEF Skips
  <2>6. /\ \A i \in Numbers, j \in cur.msgs : i < j => i \in cur.msgs \/ i < cur.cursor
        /\ \A i \in Numbers, j \in new.msgs : i < j => i \in new.msgs \/ i < new.cursor
        /\ \A j \in new.msgs : new.cursor <= j
    BY DEF Complete, Whole
  <2>7. \A i \in Numbers : i \in Nat
    BY DEF Numbers
  <2> HIDE DEF m, top, bottom
  <2>8. top \in Nat /\ bottom \in Nat /\ new.cursor <= bottom
    BY <2>1, <2>2, <2>4, <2>6, <2>7
  <2>9. ASSUME NEW i \in Numbers, NEW j \in m.msgs, i < j
        PROVE  i \in m.msgs \/ i < m.cursor
    <3>1. i \in Nat
      BY <2>7
    <3>2. CASE j \in cur.msgs
      <4>1. i \in cur.msgs \/ i < cur.cursor
        BY <2>6, <2>9, <3>2
      <4>2. i < cur.cursor => cur.cursor # 0
        BY <2>1, <3>1
      <4> QED
        BY <2>3, <4>1, <4>2
    <3>3. CASE j \in new.msgs /\ i \notin new.msgs
      <4>1. i < new.cursor
        BY <2>6, <2>9, <3>3
      <4>2. CASE cur.cursor = 0
        BY <2>3, <4>1, <4>2
      <4>3. CASE cur.cursor # 0
        <5>1. i <= top
          BY <2>2, <2>5, <2>8, <3>1, <4>1, <4>3
        <5>2. CASE i = top
          BY <2>3, <2>4, <5>2
        <5>3. CASE i # top
          <6>1. i < top
            BY <2>8, <3>1, <5>1, <5>3
          <6>2. i \in cur.msgs \/ i < cur.cursor
            BY <2>4, <2>6, <6>1
          <6> QED
            BY <2>3, <4>3, <6>2
        <5> QED
          BY <5>2, <5>3
      <4> QED
        BY <4>2, <4>3
    <3>4. CASE i \in new.msgs
      BY <2>3, <3>4
    <3> QED
      BY <2>3, <2>9, <3>2, <3>3, <3>4
  <2> QED
    BY <2>9 DEF Complete, m
<1> QED
  BY <1>1, <1>2

(* A page of older messages joined to what is shown.                      *)
LEMMA OlderTyped ==
  ASSUME PageBounds, NEW cur \in Snaps, NEW t \in Threads, NEW cursor \in Numbers
  PROVE  /\ MergeOlder(cur, Window(t, cursor)) \in Shown
         /\ MergeOlder(cur, Window(t, cursor)).thread = t
<1>1. cursor \in 1..(MaxMessages + 1)
  BY Sizes DEF Numbers
<1> DEFINE w == Window(t, cursor)
<1>2. w \in Shown /\ w.thread = t
  BY <1>1, WindowFacts
<1> HIDE DEF w
<1>3. w.msgs \subseteq Numbers /\ w.cursor \in 0..MaxMessages
  BY <1>2 DEF Shown
<1>4. cur.msgs \subseteq Numbers
  <2>1. CASE cur \in Shown
    BY <2>1 DEF Shown
  <2>2. CASE cur = NoSnap
    BY <2>2 DEF NoSnap
  <2> QED
    BY <2>1, <2>2 DEF Snaps
<1>5. MergeOlder(cur, w) = [thread |-> t, msgs |-> w.msgs \union cur.msgs, cursor |-> w.cursor]
  <2>1. w = [thread |-> w.thread, msgs |-> w.msgs, cursor |-> w.cursor]
    BY <1>2 DEF Shown
  <2>2. MergeOlder(cur, w) = [w EXCEPT !.msgs = w.msgs \union cur.msgs]
    BY DEF MergeOlder
  <2> QED
    BY <1>2, <2>1, <2>2
<1>6. w.msgs \union cur.msgs \subseteq Numbers
  BY <1>3, <1>4
<1>7. MergeOlder(cur, w) \in Shown /\ MergeOlder(cur, w).thread = t
  BY <1>3, <1>5, <1>6 DEF Shown
<1> QED
  BY <1>7 DEF w

(* ... leaves no gap, unless the transcript begins later by now.          *)
LEMMA OlderComplete ==
  ASSUME PageBounds, NEW cur \in Snaps, NEW t \in Threads, NEW cursor \in Numbers,
         Complete(cur), ~Misses(cur, cursor)
  PROVE  Complete(MergeOlder(cur, Window(t, cursor)))
<1>1. cursor \in 1..(MaxMessages + 1) /\ cursor \in Nat
  BY Sizes DEF Numbers
<1> DEFINE w == Window(t, cursor)
<1>2. /\ w \in Shown /\ w.msgs = {i \in Numbers : i < cursor /\ w.cursor <= i}
      /\ \A i \in Numbers : i < cursor => i \in w.msgs \/ i < w.cursor
  BY <1>1, WindowFacts
<1> HIDE DEF w
<1>3. cur.cursor \in Nat /\ cur.msgs \subseteq Numbers
  <2>1. CASE cur \in Shown
    BY <2>1, Sizes DEF Shown
  <2>2. CASE cur = NoSnap
    BY <2>2 DEF NoSnap
  <2> QED
    BY <2>1, <2>2 DEF Snaps
<1>4. ~(cursor < cur.cursor)
  BY DEF Misses
<1> DEFINE m == MergeOlder(cur, w)
<1>5. m.msgs = w.msgs \union cur.msgs /\ m.cursor = w.cursor
  BY <1>2 DEF MergeOlder, Shown
<1>6. \A i \in Numbers : i \in Nat
  BY Sizes DEF Numbers
<1>7. \A i \in Numbers, j \in cur.msgs : i < j => i \in cur.msgs \/ i < cur.cursor
  BY DEF Complete
<1> HIDE DEF m
<1>8. ASSUME NEW i \in Numbers, NEW j \in m.msgs, i < j
      PROVE  i \in m.msgs \/ i < m.cursor
  <2>1. CASE i < cursor
    BY <1>2, <1>5, <2>1
  <2>2. CASE ~(i < cursor)
    <3>1. j \notin w.msgs
      <4>1. i \in Nat /\ (j \in w.msgs => j \in Nat /\ j < cursor)
        BY <1>2, <1>6
      <4> QED
        BY <1>1, <1>8, <2>2, <4>1
    <3>2. i \in cur.msgs \/ i < cur.cursor
      BY <1>5, <1>7, <1>8, <3>1
    <3>3. ~(i < cur.cursor)
      BY <1>1, <1>3, <1>4, <1>6, <2>2
    <3> QED
      BY <1>5, <3>2, <3>3
  <2> QED
    BY <2>1, <2>2
<1> QED
  BY <1>8 DEF Complete, m, w

(* A copy for the device keeps the newest messages of the snapshot.       *)
LEMMA BoundedCut ==
  ASSUME PageBounds, NEW s \in Shown, ~(Cardinality(s.msgs) <= CacheLimit)
  PROVE  \E kept \in SUBSET s.msgs :
            /\ kept # {} /\ \A i \in kept, j \in s.msgs \ kept : j < i
            /\ Bounded(s) = [thread |-> s.thread, msgs |-> kept, cursor |-> Least(kept)]
<1> DEFINE Newest(S) == /\ Cardinality(S) = CacheLimit
                        /\ \A i \in S, j \in s.msgs \ S : j < i
<1> DEFINE kept == CHOOSE S \in SUBSET s.msgs : Newest(S)
<1>1. s.msgs \subseteq Numbers /\ s = [thread |-> s.thread, msgs |-> s.msgs, cursor |-> s.cursor]
  BY DEF Shown
<1>2. Cardinality(s.msgs) \in Nat
  <2>1. IsFiniteSet(Numbers)
    BY Sizes, FS_Interval DEF Numbers
  <2>2. IsFiniteSet(s.msgs)
    BY <1>1, <2>1, FS_Subset
  <2> QED
    BY <2>2, FS_CardinalityType
<1>3. CacheLimit <= Cardinality(s.msgs)
  BY <1>2, Sizes
<1>4. \E S \in SUBSET s.msgs : Newest(S)
  BY <1>1, <1>3, Sizes, NewestOf
<1>5. kept \in SUBSET s.msgs /\ Newest(kept)
  BY <1>4
<1>6. Bounded(s) = [thread |-> s.thread, msgs |-> kept, cursor |-> Least(kept)]
  <2>1. Bounded(s) = [s EXCEPT !.msgs = kept, !.cursor = Least(kept)]
    BY DEF Bounded
  <2> HIDE DEF kept
  <2> QED
    BY <1>1, <2>1
<1>7. kept # {}
  <2> HIDE DEF kept
  <2> QED
    BY <1>5, Sizes, FS_EmptySet
<1> HIDE DEF kept
<1> QED
  BY <1>5, <1>6, <1>7

LEMMA BoundedTyped ==
  ASSUME PageBounds, NEW s \in Shown
  PROVE  Bounded(s) \in Shown /\ Bounded(s).thread = s.thread
<1>1. CASE Cardinality(s.msgs) <= CacheLimit
  BY <1>1 DEF Bounded
<1>2. CASE ~(Cardinality(s.msgs) <= CacheLimit)
  <2>1. PICK kept \in SUBSET s.msgs :
            /\ kept # {}
            /\ Bounded(s) = [thread |-> s.thread, msgs |-> kept, cursor |-> Least(kept)]
    BY <1>2, BoundedCut
  <2>2. kept \subseteq Numbers /\ s.thread \in Threads
    BY DEF Shown
  <2>3. Least(kept) \in Numbers
    BY <2>1, <2>2, Sizes, Ends
  <2>4. Least(kept) \in 0..MaxMessages
    BY <2>3, Sizes DEF Numbers
  <2> QED
    BY <2>1, <2>2, <2>4 DEF Shown
<1> QED
  BY <1>1, <1>2

LEMMA BoundedNothing ==
  ASSUME PageBounds
  PROVE  Bounded(NoSnap) = NoSnap
<1>1. Cardinality({}) = 0
  BY FS_EmptySet
<1> QED
  BY <1>1, Sizes DEF Bounded, NoSnap

(* ... and has no gap either, unless it is cut below one.                 *)
LEMMA BoundedComplete ==
  ASSUME PageBounds, NEW s \in Shown, Complete(s), ~Hides(s)
  PROVE  Complete(Bounded(s))
<1>1. CASE Cardinality(s.msgs) <= CacheLimit
  BY <1>1 DEF Bounded
<1>2. CASE ~(Cardinality(s.msgs) <= CacheLimit)
  <2>1. PICK kept \in SUBSET s.msgs :
            /\ kept # {} /\ \A i \in kept, j \in s.msgs \ kept : j < i
            /\ Bounded(s) = [thread |-> s.thread, msgs |-> kept, cursor |-> Least(kept)]
    BY <1>2, BoundedCut
  <2>2. kept \subseteq Numbers /\ s.cursor \in Nat
    BY Sizes DEF Shown
  <2> DEFINE low == Least(kept)
  <2>3. low \in kept /\ \A j \in kept : low <= j
    BY <2>1, <2>2, Sizes, Ends
  <2>4. Bounded(s).msgs = kept /\ Bounded(s).cursor = low
    BY <2>1
  <2>5. ~(low < s.cursor)
    BY <2>4 DEF Hides
  <2>6. \A i \in Numbers : i \in Nat
    BY DEF Numbers
  <2> HIDE DEF low
  <2>7. ASSUME NEW i \in Numbers, NEW j \in kept, i < j
        PROVE  i \in kept \/ i < low
    <3>1. i \in s.msgs \/ i < s.cursor
      BY <2>7 DEF Complete
    <3>2. i \in Nat /\ low \in Nat
      BY <2>2, <2>3, <2>6
    <3>3. CASE i \in s.msgs \ kept
      BY <2>1, <2>3, <3>3
    <3>4. CASE i < s.cursor
      BY <2>2, <2>5, <3>2, <3>4
    <3> QED
      BY <3>1, <3>3, <3>4
  <2> QED
    BY <2>4, <2>7 DEF Complete
<1> QED
  BY <1>1, <1>2

LEMMA NothingComplete == Complete(NoSnap)
BY DEF Complete, NoSnap

-----------------------------------------------------------------------------
(* What is shown, asked for, received and kept goes by the thread.        *)

GoodPage(p) ==
    /\ p \in Pages
    /\ p.status = "ready" => p.thread \in Threads /\ p.snap.thread = p.thread
    /\ p.status # "ready" => p.snap = NoSnap
GoodLoad(l) ==
    /\ l \in Loads
    /\ l.phase \in {"messages", "answered"} => l.thread \in Threads
    /\ l.phase = "answered" => l.snap.thread = l.thread
GoodRefresh(r) ==
    /\ r \in Requests
    /\ r.phase # "idle" => r.thread \in Threads
    /\ r.phase = "answered" => r.snap.thread = r.thread
GoodOlder(o) == o = NoOlder \/ o \in [thread : Threads, cursor : Numbers]
GoodStream(o) ==
    /\ o \in Streams
    /\ o.events # <<>> => \E s \in Shown : o.events = <<s>> /\ s.thread = o.thread
GoodStore(k) ==
    /\ k \in Stores
    /\ \A t \in Threads : k.snaps[t].thread \in {NoThread, t}
    /\ k.startup.snap.thread = k.startup.thread

World ==
    /\ log \in [Threads -> 0..MaxMessages] /\ due \subseteq Threads
    /\ link \in {"up", "lost", "down"} /\ wanted \in MaybeThread /\ upsets \in 0..MaxUpsets
Shape ==
    /\ GoodPage(page) /\ conn \in Conns /\ GoodStore(store) /\ GoodStream(stream)
    /\ stream.thread = RealtimeThread(page) /\ scars \subseteq Scars
Asking == GoodLoad(load) /\ GoodLoad(stale) /\ GoodRefresh(refresh) /\ GoodOlder(older)
Sound == World /\ Shape /\ Asking

LEMMA NoThreadApart ==
  ASSUME PageBounds
  PROVE  /\ \A s \in Snaps : s.thread \in Threads => s \in Shown
         /\ \A s \in Snaps : s.thread = NoThread => s = NoSnap
         /\ \A s \in Snaps : s.thread \in MaybeThread
         /\ NoThread \notin Threads /\ NoSnap.thread = NoThread
BY DEF PageBounds, Snaps, Shown, NoSnap, MaybeThread

(* A page that is saved leaves good copies.                               *)
LEMMA SavedGood ==
  ASSUME PageBounds, GoodStore(store), NEW p, GoodPage(p)
  PROVE  GoodStore(Saved(p))
<1>1. CASE p.cached \/ p.thread = NoThread \/ p.status = "gone"
  BY <1>1 DEF Saved
<1>2. CASE ~(p.cached \/ p.thread = NoThread \/ p.status = "gone") /\ p.status # "ready"
  <2>1. p.thread \in MaybeThread
    BY DEF GoodPage, Pages, MaybeThread
  <2>2. Saved(p) = [store EXCEPT !.active = p.thread]
    BY <1>2 DEF Saved
  <2>3. store \in Stores
    BY DEF GoodStore
  <2>4. /\ Saved(p) \in Stores /\ Saved(p).snaps = store.snaps
        /\ Saved(p).startup = store.startup
    BY <2>1, <2>2, <2>3 DEF Stores
  <2> QED
    BY <2>4 DEF GoodStore
<1>3. CASE ~(p.cached \/ p.thread = NoThread \/ p.status = "gone") /\ p.status = "ready"
  <2> DEFINE b == Bounded(p.snap)
  <2>1. p.thread \in Threads /\ p.snap.thread = p.thread /\ p.snap \in Snaps
    BY <1>3 DEF GoodPage, Pages, Snaps
  <2>2. p.snap \in Shown
    BY <2>1, NoThreadApart
  <2>3. b \in Shown /\ b.thread = p.thread
    BY <2>1, <2>2, BoundedTyped
  <2>4. Saved(p) = [store EXCEPT !.active = p.thread, !.snaps[p.thread] = b,
                                 !.startup = [thread |-> p.thread, snap |-> b]]
    BY <1>3 DEF Saved
  <2> HIDE DEF b
  <2>5. store \in Stores /\ \A t \in Threads : store.snaps[t].thread \in {NoThread, t}
    BY DEF GoodStore
  <2>6. /\ store.active \in MaybeThread /\ store.snaps \in [Threads -> Snaps]
        /\ store.olderPages \in SUBSET [thread : Threads, cursor : Numbers]
        /\ store = [active |-> store.active, snaps |-> store.snaps,
                    startup |-> store.startup, olderPages |-> store.olderPages]
    BY <2>5 DEF Stores
  <2> DEFINE k == [store.snaps EXCEPT ![p.thread] = b]
  <2>7. Saved(p) = [active |-> p.thread, snaps |-> k,
                    startup |-> [thread |-> p.thread, snap |-> b],
                    olderPages |-> store.olderPages]
    BY <2>4, <2>6
  <2>8. k \in [Threads -> Snaps]
    BY <2>3, <2>6 DEF Snaps
  <2>9. \A t \in Threads : k[t].thread \in {NoThread, t}
    BY <2>1, <2>3, <2>5, <2>6
  <2> HIDE DEF k
  <2>10. [thread |-> p.thread, snap |-> b] \in [thread : MaybeThread, snap : Snaps]
    BY <2>1, <2>3 DEF MaybeThread, Snaps
  <2>11. Saved(p) \in Stores
    BY <2>1, <2>6, <2>7, <2>8, <2>10 DEF Stores, MaybeThread
  <2> QED
    BY <2>3, <2>7, <2>9, <2>11 DEF GoodStore
<1> QED
  BY <1>1, <1>2, <1>3

LEMMA RealtimeTyped ==
  ASSUME NEW p, GoodPage(p)
  PROVE  RealtimeThread(p) \in MaybeThread
BY DEF RealtimeThread, GoodPage, Pages, MaybeThread

LEMMA ConnectedGood ==
  ASSUME NEW open, GoodStream(open), NEW t \in MaybeThread
  PROVE  GoodStream(Connected(open, t)) /\ Connected(open, t).thread = t
<1>1. CASE t = open.thread
  BY <1>1 DEF Connected
<1>2. CASE t # open.thread
  <2>1. <<>> \in Seq(Shown)
    OBVIOUS
  <2> QED
    BY <1>2, <2>1 DEF Connected, GoodStream, Streams
<1> QED
  BY <1>1, <1>2

(* Every change of the page goes through Put.                             *)
LEMMA PutShape ==
  ASSUME PageBounds, NEW p, GoodPage(p), NEW c \in Conns, NEW marks, marks \subseteq Scars,
         NEW kept, GoodStore(kept), NEW open, GoodStream(open),
         scars \subseteq Scars, Put(p, c, marks, kept, open)
  PROVE  Shape'
<1>1. /\ page' = p /\ conn' = c /\ store' = kept
      /\ stream' = Connected(open, RealtimeThread(p))
      /\ scars' = marks \union Mark("torn", p.status = "ready" /\ ~p.cached /\ Hides(p.snap))
                        \union {x \in scars : x = "stray" => p.status = "ready" /\ p.cached}
  BY DEF Put
<1>2. GoodStream(stream') /\ stream'.thread = RealtimeThread(p)
  BY <1>1, ConnectedGood, RealtimeTyped
<1>3. RealtimeThread(page') = RealtimeThread(p)
  BY <1>1
<1>4. scars' \subseteq Scars
  BY <1>1 DEF Mark, Scars
<1> QED
  BY <1>1, <1>2, <1>3, <1>4 DEF Shape, RealtimeThread

LEMMA ShowShape ==
  ASSUME PageBounds, Shape, NEW p, GoodPage(p), NEW c \in Conns,
         NEW marks, marks \subseteq Scars, Show(p, c, marks)
  PROVE  Shape'
BY SavedGood, PutShape DEF Shape, Show

LEMMA KeepShape ==
  ASSUME PageBounds, Shape, NEW c \in Conns, Keep(c)
  PROVE  Shape'
BY ShowShape DEF Shape, Keep

LEMMA UntouchedShape ==
  ASSUME Shape, Untouched
  PROVE  Shape'
BY DEF Shape, Untouched, RealtimeThread

LEMMA OnlineTyped == MarkedOnline \in Conns /\ MarkedOffline \in Conns
BY DEF MarkedOnline, MarkedOffline, Conns, Navigator

LEMMA IdleGood == GoodLoad(Idle) /\ GoodRefresh(NoRequest) /\ GoodOlder(NoOlder)
<1>1. Idle \in Loads
  BY DEF Idle, Loads, MaybeThread, Snaps
<1>2. NoRequest \in Requests
  BY DEF NoRequest, Requests, MaybeThread, Snaps
<1> QED
  BY <1>1, <1>2 DEF GoodLoad, GoodRefresh, GoodOlder, Idle, NoRequest

LEMMA LoadFields ==
  ASSUME NEW l, GoodLoad(l)
  PROVE  /\ l.initial \in BOOLEAN /\ l.prefer \in MaybeThread /\ l.thread \in MaybeThread
         /\ l.fallback \in {"reading", "opened", "shut"} /\ l.hint \in BOOLEAN
         /\ l.snap \in Snaps
         /\ l.phase \in {"idle", "threads", "messages", "answered", "lost", "refused", "denied"}
         /\ l = [phase |-> l.phase, initial |-> l.initial, prefer |-> l.prefer,
                 thread |-> l.thread, fallback |-> l.fallback, hint |-> l.hint,
                 snap |-> l.snap]
BY DEF GoodLoad, Loads, MaybeThread, Snaps

(* A load that fails, or whose fallback is known, stays a load.           *)
LEMMA LoadMoves ==
  ASSUME NEW l, GoodLoad(l)
  PROVE  /\ \A ph \in Failing : GoodLoad([l EXCEPT !.phase = ph])
         /\ \A f \in {"opened", "shut"} : GoodLoad([l EXCEPT !.fallback = f])
<1>1. /\ l.initial \in BOOLEAN /\ l.prefer \in MaybeThread /\ l.thread \in MaybeThread
      /\ l.fallback \in {"reading", "opened", "shut"} /\ l.hint \in BOOLEAN
      /\ l.snap \in Snaps
      /\ l.phase \in {"idle", "threads", "messages", "answered", "lost", "refused", "denied"}
      /\ l = [phase |-> l.phase, initial |-> l.initial, prefer |-> l.prefer,
              thread |-> l.thread, fallback |-> l.fallback, hint |-> l.hint,
              snap |-> l.snap]
  BY LoadFields
<1>2. ASSUME NEW ph \in Failing PROVE GoodLoad([l EXCEPT !.phase = ph])
  <2> DEFINE m == [phase |-> ph, initial |-> l.initial, prefer |-> l.prefer,
              thread |-> l.thread, fallback |-> l.fallback, hint |-> l.hint,
              snap |-> l.snap]
  <2>1. [l EXCEPT !.phase = ph] = m
    BY <1>1
  <2>2. m \in Loads
    BY <1>1, <1>2 DEF Loads, Failing, MaybeThread, Snaps
  <2>3. m.phase \notin {"messages", "answered"}
    BY <1>2 DEF Failing
  <2> QED
    BY <2>1, <2>2, <2>3 DEF GoodLoad
<1>3. ASSUME NEW f \in {"opened", "shut"} PROVE GoodLoad([l EXCEPT !.fallback = f])
  <2> DEFINE m == [phase |-> l.phase, initial |-> l.initial, prefer |-> l.prefer,
              thread |-> l.thread, fallback |-> f, hint |-> l.hint,
              snap |-> l.snap]
  <2>1. [l EXCEPT !.fallback = f] = m
    BY <1>1
  <2>2. m \in Loads
    BY <1>1, <1>3 DEF Loads, MaybeThread, Snaps
  <2>3. m.phase = l.phase /\ m.thread = l.thread /\ m.snap = l.snap
    OBVIOUS
  <2> QED
    BY <2>1, <2>2, <2>3 DEF GoodLoad
<1> QED
  BY <1>2, <1>3

LEMMA BeginGood ==
  ASSUME Sound, NEW initial \in BOOLEAN, NEW t \in MaybeThread,
         ~initial => t \in Threads, Begin(initial, t)
  PROVE  GoodLoad(load') /\ GoodLoad(stale')
<1> DEFINE new == [phase |-> IF initial THEN "threads" ELSE "messages", initial |-> initial,
                   prefer |-> t, thread |-> t, fallback |-> "reading", hint |-> conn.hint,
                   snap |-> NoSnap]
<1>1. load' = new /\ (stale' = load \/ stale' = stale)
  BY DEF Begin
<1>2. conn.hint \in BOOLEAN /\ GoodLoad(load) /\ GoodLoad(stale)
  BY DEF Sound, Shape, Asking, Conns
<1>3. new \in Loads
  BY <1>2 DEF Loads, MaybeThread, Snaps
<1>4. new.phase # "answered" /\ (new.phase = "messages" => new.thread \in Threads)
  OBVIOUS
<1>5. GoodLoad(new)
  BY <1>3, <1>4 DEF GoodLoad
<1> QED
  BY <1>1, <1>2, <1>5

LEMMA PageFields ==
  ASSUME Shape
  PROVE  /\ GoodPage(page) /\ page.thread \in MaybeThread /\ page.snap \in Snaps
         /\ page.cached \in BOOLEAN /\ page.status \in {"loading", "ready", "error", "gone"}
         /\ page = [status |-> page.status, thread |-> page.thread, cached |-> page.cached,
                    snap |-> page.snap]
         /\ page.status = "ready" => page.thread \in Threads /\ page.snap.thread = page.thread
         /\ page.status # "ready" => page.snap = NoSnap
BY DEF Shape, GoodPage, Pages, MaybeThread, Snaps

LEMMA ReadyGood ==
  ASSUME NEW t \in Threads, NEW cached \in BOOLEAN, NEW s \in Shown, s.thread = t
  PROVE  GoodPage(Ready(t, cached, s))
BY DEF Ready, GoodPage, Pages

LEMMA BarePageGood ==
  ASSUME NEW status \in {"loading", "error", "gone"}, NEW t \in MaybeThread, NEW cached \in BOOLEAN
  PROVE  GoodPage([status |-> status, thread |-> t, cached |-> cached, snap |-> NoSnap])
BY DEF GoodPage, Pages, MaybeThread

LEMMA LoadInitialGood ==
  ASSUME PageBounds, Sound, NEW c \in Conns, LoadInitialChat(c)
  PROVE  GoodLoad(load') /\ GoodLoad(stale') /\ Shape'
<1>1. Shape /\ page.thread \in MaybeThread
  BY PageFields DEF Sound
<1>2. GoodLoad(load') /\ GoodLoad(stale')
  BY <1>1, BeginGood DEF LoadInitialChat
<1> DEFINE p == IF page.status = "ready" THEN page ELSE [page EXCEPT !.status = "loading"]
<1>3. GoodPage(p)
  <2>1. CASE page.status = "ready"
    BY <1>1, <2>1, PageFields
  <2>2. CASE page.status # "ready"
    <3>1. p = [status |-> "loading", thread |-> page.thread, cached |-> page.cached,
               snap |-> NoSnap]
      BY <1>1, <2>2, PageFields
    <3> QED
      BY <1>1, <3>1, PageFields, BarePageGood
  <2> QED
    BY <2>1, <2>2
<1>4. Show(p, c, {})
  BY DEF LoadInitialChat
<1> HIDE DEF p
<1>5. Shape'
  BY <1>1, <1>3, <1>4, ShowShape
<1> QED
  BY <1>2, <1>5

(* The last lines of a failed load show the error page, or nothing new.   *)
LEMMA SettleShape ==
  ASSUME PageBounds, Sound, NEW l, GoodLoad(l), NEW c \in Conns, Settle(l, c)
  PROVE  Shape'
<1> DEFINE away == [c EXCEPT !.reach = "offline"]
<1>1. away \in Conns
  BY DEF Conns
<1>2. Shape /\ GoodPage(page) /\ page.thread \in MaybeThread /\ l.thread \in MaybeThread
  BY PageFields, LoadFields DEF Sound
<1>3. GoodPage(ErrorPage(l))
  BY <1>2, BarePageGood DEF ErrorPage
<1>4. \/ Show(page, away, {}) \/ Show(ErrorPage(l), away, {}) \/ Show(ErrorPage(l), c, {})
  BY DEF Settle
<1> HIDE DEF away
<1> QED
  BY <1>1, <1>2, <1>3, <1>4, ShowShape

LEMMA CatchGood ==
  ASSUME PageBounds, Sound, NEW ph \in Failing, NEW c \in Conns, CatchLoad(ph, c)
  PROVE  GoodLoad(load') /\ Shape'
<1> DEFINE l == [load EXCEPT !.phase = ph]
<1>1. GoodLoad(load) /\ Shape
  BY DEF Sound, Asking
<1>2. GoodLoad(l)
  BY <1>1, LoadMoves
<1>3. \/ load' = l /\ Keep(c)
      \/ load' = Idle /\ Settle(l, c)
  BY DEF CatchLoad
<1> HIDE DEF l
<1> QED
  BY <1>1, <1>2, <1>3, KeepShape, SettleShape, IdleGood

LEMMA UpsetTyped ==
  ASSUME PageBounds, upsets \in 0..MaxUpsets, Upset
  PROVE  upsets' \in 0..MaxUpsets
BY Sizes DEF Upset

LEMMA WorldKept ==
  ASSUME World, UNCHANGED <<world, wanted>>
  PROVE  World'
BY DEF World, world

LEMMA WorldUpset ==
  ASSUME PageBounds, World, UNCHANGED <<log, due, link, wanted>>, Upset \/ UNCHANGED upsets
  PROVE  World'
BY UpsetTyped DEF World

(* Loads. *)
LEMMA SoundLoads ==
  ASSUME PageBounds, Sound,
         \/ HandleSelectThread \/ ThreadsAnswered \/ MessagesAnswered \/ LoadArrives
         \/ OpenCachedChatFallback \/ FallbackShut \/ StaleSettles
  PROVE  Sound'
<1>0. /\ World /\ Shape /\ GoodLoad(load) /\ GoodLoad(stale) /\ GoodRefresh(refresh)
      /\ GoodOlder(older) /\ conn \in Conns
  BY DEF Sound, Asking, Shape
<1>1. CASE HandleSelectThread
  <2>1. wanted \in Threads
    BY <1>0, <1>1 DEF HandleSelectThread, World, MaybeThread
  <2>2. GoodLoad(load') /\ GoodLoad(stale')
    BY <1>1, <2>1, BeginGood DEF HandleSelectThread, MaybeThread
  <2> DEFINE p == [status |-> "loading", thread |-> wanted, cached |-> page.cached,
                   snap |-> NoSnap]
  <2>3. GoodPage(p) /\ Show(p, conn, {})
    BY <1>0, <1>1, <2>1, PageFields, BarePageGood DEF HandleSelectThread, MaybeThread
  <2> HIDE DEF p
  <2>4. Shape'
    BY <1>0, <2>3, ShowShape
  <2> QED
    BY <1>0, <1>1, <2>2, <2>4, WorldKept DEF HandleSelectThread, Sound, Asking
<1>2. CASE ThreadsAnswered
  <2> DEFINE t == IF wanted # NoThread THEN wanted
                  ELSE IF page.thread # NoThread THEN page.thread ELSE Private
  <2>1. t \in Threads
    BY <1>0, PageFields DEF World, MaybeThread, PageBounds
  <2>2. /\ load' = [load EXCEPT !.phase = "messages", !.thread = t]
        /\ store' = [store EXCEPT !.active = t]
        /\ UNCHANGED <<world, wanted, page, conn, stale, refresh, older, stream, scars>>
    BY <1>2 DEF ThreadsAnswered
  <2> HIDE DEF t
  <2> DEFINE m == [phase |-> "messages", initial |-> load.initial, prefer |-> load.prefer,
                   thread |-> t, fallback |-> load.fallback, hint |-> load.hint,
                   snap |-> load.snap]
  <2>3. load' = m
    <3>1. load = [phase |-> load.phase, initial |-> load.initial, prefer |-> load.prefer,
                 thread |-> load.thread, fallback |-> load.fallback, hint |-> load.hint,
                 snap |-> load.snap]
      BY <1>0, LoadFields
    <3>2. load' = [load EXCEPT !.phase = "messages", !.thread = t]
      BY <2>2
    <3> QED
      BY <3>1, <3>2
  <2>4. m \in Loads
    BY <1>0, <2>1, LoadFields DEF Loads, Snaps, MaybeThread
  <2>5. GoodLoad(m)
    BY <2>1, <2>4 DEF GoodLoad
  <2>6. store' \in Stores /\ store'.snaps = store.snaps /\ store'.startup = store.startup
    BY <1>0, <2>1, <2>2 DEF Shape, GoodStore, Stores, MaybeThread
  <2>7. GoodStore(store')
    BY <1>0, <2>6 DEF Shape, GoodStore
  <2>8. Shape'
    BY <1>0, <2>2, <2>7 DEF Shape, RealtimeThread
  <2> HIDE DEF m
  <2> QED
    BY <1>0, <2>2, <2>3, <2>5, <2>8, WorldKept DEF Sound, Asking
<1>3. CASE MessagesAnswered
  <2>1. load.phase = "messages" /\ load' = [load EXCEPT !.phase = "answered",
                                                        !.snap = Latest(load.thread)]
    BY <1>3 DEF MessagesAnswered
  <2>2. load.thread \in Threads
    BY <1>0, <2>1 DEF GoodLoad
  <2> DEFINE s == Latest(load.thread)
  <2>3. s \in Shown /\ s.thread = load.thread
    BY <1>0, <2>2, LatestFacts DEF World
  <2> HIDE DEF s
  <2> DEFINE m == [phase |-> "answered", initial |-> load.initial, prefer |-> load.prefer,
                   thread |-> load.thread, fallback |-> load.fallback, hint |-> load.hint,
                   snap |-> s]
  <2>4. load' = m
    <3>1. load = [phase |-> load.phase, initial |-> load.initial, prefer |-> load.prefer,
                 thread |-> load.thread, fallback |-> load.fallback, hint |-> load.hint,
                 snap |-> load.snap]
      BY <1>0, LoadFields
    <3>2. load' = [load EXCEPT !.phase = "answered", !.snap = s]
      BY <2>1 DEF s
    <3> QED
      BY <3>1, <3>2
  <2>5. m \in Loads
    BY <1>0, <2>3, LoadFields DEF Loads, Snaps, MaybeThread
  <2>6. GoodLoad(m)
    BY <2>2, <2>3, <2>5 DEF GoodLoad
  <2>7. Shape'
    BY <1>0, <1>3, UntouchedShape DEF MessagesAnswered
  <2> HIDE DEF m
  <2> QED
    BY <1>0, <1>3, <2>4, <2>6, <2>7, WorldKept DEF MessagesAnswered, Sound, Asking
<1>4. CASE LoadArrives
  <2>1. load.thread \in Threads /\ load.snap.thread = load.thread /\ load.snap \in Snaps
    BY <1>0, <1>4, LoadFields DEF LoadArrives, GoodLoad
  <2> DEFINE p == Ready(load.thread, FALSE, load.snap)
  <2>2. GoodPage(p)
    BY <2>1, NoThreadApart, ReadyGood
  <2>3. Show(p, MarkedOnline, {})
    BY <1>4 DEF LoadArrives
  <2> HIDE DEF p
  <2>4. Shape'
    BY <1>0, <2>2, <2>3, ShowShape, OnlineTyped
  <2> QED
    BY <1>0, <1>4, <2>4, WorldKept, IdleGood DEF LoadArrives, Sound, Asking
<1>5. CASE OpenCachedChatFallback
  <2> DEFINE t == CachedThread(load.prefer)
  <2> DEFINE p == IF page.status = "ready" /\ page.cached /\ page.thread = t THEN page
                  ELSE Ready(t, TRUE, store.snaps[t])
  <2> DEFINE c == [(IF load.hint THEN conn ELSE MarkedOffline) EXCEPT
                   !.reach = IF load.hint /\ load.phase # "lost" THEN "connecting" ELSE "offline"]
  <2>1. /\ t # NoThread /\ store.snaps[t] # NoSnap /\ Show(p, c, {})
        /\ load' = IF load.phase = "lost" THEN Idle ELSE [load EXCEPT !.fallback = "opened"]
        /\ UNCHANGED <<world, wanted, stale, refresh, older>>
    BY <1>5 DEF OpenCachedChatFallback
  <2>2. store.active \in MaybeThread /\ load.prefer \in MaybeThread
        /\ \A u \in Threads : store.snaps[u] \in Snaps /\ store.snaps[u].thread \in {NoThread, u}
    BY <1>0, LoadFields DEF Shape, GoodStore, Stores
  <2>3. t \in Threads
    BY <2>1, <2>2 DEF CachedThread, MaybeThread
  <2>4. store.snaps[t] \in Shown /\ store.snaps[t].thread = t
    <3> HIDE DEF t
    <3> QED
      BY <2>1, <2>2, <2>3, NoThreadApart
  <2>5. GoodPage(p)
    <3> HIDE DEF t
    <3> QED
      BY <1>0, <2>3, <2>4, ReadyGood, PageFields
  <2>6. c \in Conns
    <3>1. (IF load.hint THEN conn ELSE MarkedOffline) \in Conns
      BY <1>0, OnlineTyped
    <3> QED
      BY <3>1 DEF Conns
  <2>7. GoodLoad(load')
    BY <1>0, <2>1, LoadMoves, IdleGood
  <2> HIDE DEF p, c, t
  <2>8. Shape'
    BY <1>0, <2>1, <2>5, <2>6, ShowShape
  <2> QED
    BY <1>0, <2>1, <2>7, <2>8, WorldKept DEF Sound, Asking
<1>6. CASE FallbackShut
  <2> DEFINE l == [load EXCEPT !.fallback = "shut"]
  <2>1. GoodLoad(l)
    BY <1>0, LoadMoves
  <2>2. \/ load' = Idle /\ Settle(l, conn)
        \/ load' = l /\ Untouched
    BY <1>6 DEF FallbackShut
  <2> HIDE DEF l
  <2>3. Shape' /\ GoodLoad(load')
    BY <1>0, <2>1, <2>2, SettleShape, UntouchedShape, IdleGood
  <2> QED
    BY <1>0, <1>6, <2>3, WorldKept DEF FallbackShut, Sound, Asking
<1>7. CASE StaleSettles
  <2> DEFINE l == [stale EXCEPT !.fallback = "shut"]
  <2>1. GoodLoad(l)
    BY <1>0, LoadMoves
  <2>2. stale' = Idle /\ Settle(l, conn)
    BY <1>7 DEF StaleSettles
  <2> HIDE DEF l
  <2>3. Shape' /\ GoodLoad(stale')
    BY <1>0, <2>1, <2>2, SettleShape, IdleGood
  <2> QED
    BY <1>0, <1>7, <2>3, WorldKept DEF StaleSettles, Sound, Asking
<1> QED
  BY <1>1, <1>2, <1>3, <1>4, <1>5, <1>6, <1>7

(* Loads that fail. *)
LEMMA SoundFailures ==
  ASSUME PageBounds, Sound,
         \/ LoadLost \/ LoadRefused \/ LoadDenied \/ SessionUnknown \/ SessionEnds
  PROVE  Sound'
<1>0. /\ World /\ Shape /\ GoodLoad(load) /\ GoodLoad(stale) /\ GoodRefresh(refresh)
      /\ GoodOlder(older) /\ conn \in Conns
  BY DEF Sound, Asking, Shape
<1>1. CASE LoadLost
  <2>1. GoodLoad(load') /\ Shape'
    BY <1>1, CatchGood, OnlineTyped DEF LoadLost, Failing
  <2>2. UNCHANGED <<log, due, link, wanted, stale, refresh, older>> /\ (Upset \/ UNCHANGED upsets)
    BY <1>1 DEF LoadLost
  <2> QED
    BY <1>0, <2>1, <2>2, WorldUpset DEF Sound, Asking
<1>2. CASE LoadRefused
  <2>1. GoodLoad(load') /\ Shape'
    BY <1>2, CatchGood, OnlineTyped DEF LoadRefused, Failing
  <2>2. UNCHANGED <<log, due, link, wanted, stale, refresh, older>> /\ Upset
    BY <1>2 DEF LoadRefused
  <2> QED
    BY <1>0, <2>1, <2>2, WorldUpset DEF Sound, Asking
<1>3. CASE LoadDenied
  <2>1. GoodLoad(load')
    BY <1>0, <1>3, LoadMoves DEF LoadDenied, Failing
  <2>2. UNCHANGED <<log, due, link, wanted, stale, refresh, older>> /\ Upset /\ Untouched
    BY <1>3 DEF LoadDenied
  <2> QED
    BY <1>0, <2>1, <2>2, WorldUpset, UntouchedShape DEF Sound, Asking
<1>4. CASE SessionUnknown
  <2>1. GoodLoad(load') /\ GoodLoad(stale')
    BY <1>0, <1>4, IdleGood DEF SessionUnknown
  <2>2. /\ UNCHANGED <<world, wanted, page, conn, refresh, older, stream, store>>
        /\ scars' = scars \union {"unchecked"}
    BY <1>4 DEF SessionUnknown
  <2>3. Shape'
    BY <1>0, <2>2 DEF Shape, RealtimeThread, Scars
  <2> QED
    BY <1>0, <2>1, <2>2, <2>3, WorldKept DEF Sound, Asking
<1>5. CASE SessionEnds
  <2>1. GoodPage(NoPage)
    BY BarePageGood DEF NoPage, MaybeThread
  <2>2. /\ load' = Idle /\ stale' = Idle /\ refresh' = NoRequest /\ older' = NoOlder
        /\ Show(NoPage, conn, {}) /\ UNCHANGED <<world, wanted>>
    BY <1>5 DEF SessionEnds
  <2>3. Shape'
    BY <1>0, <2>1, <2>2, ShowShape
  <2> QED
    BY <1>0, <2>2, <2>3, WorldKept, IdleGood DEF Sound, Asking
<1> QED
  BY <1>1, <1>2, <1>3, <1>4, <1>5

LEMMA AskGood ==
  ASSUME PageBounds, Shape, page.thread \in Threads, Ask
  PROVE  GoodRefresh(refresh')
<1>1. refresh' = [phase |-> "asked", thread |-> page.thread, snap |-> NoSnap]
  BY DEF Ask
<1>2. refresh' \in Requests
  BY <1>1 DEF Requests, MaybeThread, Snaps
<1> QED
  BY <1>1, <1>2 DEF GoodRefresh

(* A stream, or a snapshot, belongs to a thread of the user.              *)
LEMMA RealtimePage ==
  ASSUME PageBounds, Shape, RealtimeThread(page) # NoThread
  PROVE  page.status = "ready" /\ ~page.cached /\ page.snap.msgs # {}
         /\ page.thread \in Threads /\ RealtimeThread(page) = page.thread
BY PageFields DEF RealtimeThread

LEMMA ResyncGood ==
  ASSUME PageBounds, Sound, NEW c \in Conns, Resync(c)
  PROVE  Shape' /\ GoodLoad(load') /\ GoodLoad(stale') /\ GoodRefresh(refresh')
<1>0. Shape /\ GoodLoad(load) /\ GoodLoad(stale) /\ GoodRefresh(refresh)
  BY DEF Sound, Asking
<1>1. CASE page.cached \/ page.snap = NoSnap
  <2>1. LoadInitialChat(c) /\ UNCHANGED refresh
    BY <1>1 DEF Resync
  <2> QED
    BY <1>0, <2>1, LoadInitialGood
<1>2. CASE ~(page.cached \/ page.snap = NoSnap)
  <2>1. (Ask \/ UNCHANGED refresh) /\ UNCHANGED <<load, stale>> /\ Keep(c)
    BY <1>2 DEF Resync
  <2>2. page.thread \in Threads
    BY <1>0, <1>2, PageFields
  <2> QED
    BY <1>0, <2>1, <2>2, AskGood, KeepShape
<1> QED
  BY <1>1, <1>2

LEMMA RefreshedGood ==
  ASSUME PageBounds, Shape, NEW t \in Threads, NEW new \in Shown, new.thread = t
  PROVE  GoodPage(Refreshed(t, new))
<1>1. page.snap \in Snaps /\ GoodPage(page)
  BY PageFields
<1>2. MergeRealtime(page.snap, new) \in Shown /\ MergeRealtime(page.snap, new).thread = t
  BY <1>1, MergeTyped
<1>3. CASE page.thread # t
  BY <1>1, <1>3 DEF Refreshed
<1>4. CASE page.thread = t /\ page.status = "ready"
  <2>1. Refreshed(t, new) = Ready(t, FALSE, MergeRealtime(page.snap, new))
    BY <1>4 DEF Refreshed
  <2> QED
    BY <1>2, <2>1, ReadyGood
<1>5. CASE page.thread = t /\ page.status # "ready"
  <2>1. Refreshed(t, new) = Ready(t, FALSE, new)
    BY <1>5 DEF Refreshed
  <2> QED
    BY <2>1, ReadyGood
<1> QED
  BY <1>3, <1>4, <1>5

(* Refreshes. *)
LEMMA SoundRefreshes ==
  ASSUME PageBounds, Sound,
         \/ Probe \/ HealthFallback \/ Resume \/ PushMessage
         \/ RefreshAnswered \/ RefreshArrives \/ RefreshFails
  PROVE  Sound'
<1>0. /\ World /\ Shape /\ GoodLoad(load) /\ GoodLoad(stale) /\ GoodRefresh(refresh)
      /\ GoodOlder(older) /\ conn \in Conns
  BY DEF Sound, Asking, Shape
<1>1. CASE Probe \/ HealthFallback \/ PushMessage
  <2>1. page.thread \in Threads
    <3>1. CASE page.status = "ready"
      BY <1>0, <3>1, PageFields
    <3>2. CASE HealthFallback
      BY <1>0, <3>2, RealtimePage DEF HealthFallback, Shape
    <3> QED
      BY <1>1, <3>1, <3>2 DEF Probe, PushMessage
  <2>2. /\ Ask /\ Untouched /\ UNCHANGED <<log, due, link, wanted, load, stale, older>>
        /\ (Upset \/ UNCHANGED upsets)
    BY <1>1 DEF Probe, HealthFallback, PushMessage, world
  <2> QED
    BY <1>0, <2>1, <2>2, AskGood, WorldUpset, UntouchedShape DEF Sound, Asking
<1>2. CASE Resume
  <2> DEFINE c == [conn EXCEPT !.hint = Navigator, !.browser = @ /\ Navigator]
  <2>1. c \in Conns
    BY <1>0 DEF Conns, Navigator
  <2>2. /\ Resync(c) \/ (Keep(c) /\ UNCHANGED <<load, stale, refresh>>)
        /\ Upset /\ UNCHANGED <<log, due, link, wanted, older>>
    BY <1>2 DEF Resume
  <2> HIDE DEF c
  <2>3. Shape' /\ GoodLoad(load') /\ GoodLoad(stale') /\ GoodRefresh(refresh')
    BY <1>0, <2>1, <2>2, ResyncGood, KeepShape
  <2> QED
    BY <1>0, <2>2, <2>3, WorldUpset DEF Sound, Asking
<1>3. CASE RefreshAnswered
  <2> DEFINE s == Latest(refresh.thread)
  <2>1. refresh.thread \in Threads
    BY <1>0, <1>3 DEF RefreshAnswered, GoodRefresh
  <2>2. s \in Shown /\ s.thread = refresh.thread
    BY <1>0, <2>1, LatestFacts DEF World
  <2>3. refresh' = [refresh EXCEPT !.phase = "answered", !.snap = s]
    BY <1>3 DEF RefreshAnswered
  <2> HIDE DEF s
  <2>4. refresh' \in Requests /\ refresh'.thread = refresh.thread /\ refresh'.snap = s
    BY <1>0, <2>2, <2>3 DEF GoodRefresh, Requests, Snaps
  <2>5. GoodRefresh(refresh')
    BY <2>1, <2>2, <2>4 DEF GoodRefresh
  <2> QED
    BY <1>0, <1>3, <2>5, WorldKept, UntouchedShape DEF RefreshAnswered, Sound, Asking
<1>4. CASE RefreshArrives
  <2>1. refresh.thread \in Threads /\ refresh.snap \in Shown
        /\ refresh.snap.thread = refresh.thread
    BY <1>0, <1>4, NoThreadApart DEF RefreshArrives, GoodRefresh, Requests
  <2> DEFINE p == Refreshed(refresh.thread, refresh.snap)
  <2> DEFINE marks == IF page.thread = refresh.thread
            THEN Mark("torn", Skips(page.snap, refresh.snap))
            ELSE Mark("stray", OnCopy)
  <2>2. GoodPage(p)
    BY <1>0, <2>1, RefreshedGood
  <2>3. marks \subseteq Scars
    BY DEF Mark, Scars
  <2>4. Show(p, MarkedOnline, marks) /\ refresh' = NoRequest
    BY <1>4 DEF RefreshArrives
  <2> HIDE DEF p, marks
  <2>5. Shape'
    BY <1>0, <2>2, <2>3, <2>4, ShowShape, OnlineTyped
  <2> QED
    BY <1>0, <1>4, <2>4, <2>5, WorldKept, IdleGood DEF RefreshArrives, Sound, Asking
<1>5. CASE RefreshFails
  <2>1. /\ refresh' = NoRequest /\ (Keep(MarkedOffline) \/ Untouched)
        /\ (Upset \/ UNCHANGED upsets) /\ UNCHANGED <<log, due, link, wanted, load, stale, older>>
    BY <1>5 DEF RefreshFails
  <2>2. Shape'
    BY <1>0, <2>1, KeepShape, UntouchedShape, OnlineTyped
  <2> QED
    BY <1>0, <2>1, <2>2, WorldUpset, IdleGood DEF Sound, Asking
<1> QED
  BY <1>1, <1>2, <1>3, <1>4, <1>5

LEMMA OlderFields ==
  ASSUME GoodOlder(older), older # NoOlder
  PROVE  older \in [thread : Threads, cursor : Numbers]
         /\ older.thread \in Threads /\ older.cursor \in Numbers
BY DEF GoodOlder

LEMMA WithOlderGood ==
  ASSUME PageBounds, Shape, older.thread \in Threads, older.cursor \in Numbers,
         NEW cached \in BOOLEAN
  PROVE  GoodPage(WithOlder(cached))
<1> DEFINE s == MergeOlder(page.snap, Window(older.thread, older.cursor))
<1>1. page.snap \in Snaps /\ GoodPage(page)
  BY PageFields
<1>2. s \in Shown /\ s.thread = older.thread
  BY <1>1, OlderTyped
<1>3. WithOlder(cached) = IF page.status = "ready" /\ page.thread = older.thread
                          THEN Ready(page.thread, cached, s) ELSE page
  BY DEF WithOlder
<1> HIDE DEF s
<1> QED
  BY <1>1, <1>2, <1>3, ReadyGood

(* Older messages. *)
LEMMA SoundOlder ==
  ASSUME PageBounds, Sound, HandleLoadOlderMessages \/ OlderArrives \/ OlderFails
  PROVE  Sound'
<1>0. /\ World /\ Shape /\ GoodLoad(load) /\ GoodLoad(stale) /\ GoodRefresh(refresh)
      /\ GoodOlder(older) /\ conn \in Conns /\ scars \subseteq Scars /\ GoodStore(store)
      /\ GoodStream(stream)
  BY DEF Sound, Asking, Shape
<1>1. CASE HandleLoadOlderMessages
  <2>1. page.thread \in Threads /\ page.snap \in Shown /\ page.snap.cursor # 0
    BY <1>0, <1>1, PageFields, NoThreadApart DEF HandleLoadOlderMessages
  <2>2. page.snap.cursor \in Numbers
    BY <2>1, Sizes DEF Shown, Numbers
  <2>3. older' = [thread |-> page.thread, cursor |-> page.snap.cursor]
    BY <1>1 DEF HandleLoadOlderMessages
  <2>4. GoodOlder(older')
    BY <2>1, <2>2, <2>3 DEF GoodOlder
  <2> QED
    BY <1>0, <1>1, <2>4, WorldKept, UntouchedShape DEF HandleLoadOlderMessages, Sound, Asking
<1>2. CASE OlderArrives
  <2>1. older \in [thread : Threads, cursor : Numbers]
        /\ older.thread \in Threads /\ older.cursor \in Numbers
    BY <1>0, <1>2, OlderFields DEF OlderArrives
  <2> DEFINE p == WithOlder(FALSE)
  <2> DEFINE marks == Tear \union Mark("stray", p.status = "ready" /\ p.cached)
  <2> DEFINE kept == [Saved(p) EXCEPT !.olderPages = @ \union {older}]
  <2>2. GoodPage(p)
    BY <1>0, <2>1, WithOlderGood
  <2>3. marks \subseteq Scars
    BY DEF Mark, Scars, Tear
  <2>4. Put(p, MarkedOnline, marks, kept, stream) /\ older' = NoOlder
    BY <1>2 DEF OlderArrives
  <2>5. GoodStore(kept)
    <3> DEFINE k == Saved(p)
    <3> HIDE DEF p
    <3>1. GoodStore(k) /\ kept = [k EXCEPT !.olderPages = @ \union {older}]
      BY <1>0, <2>2, SavedGood
    <3> HIDE DEF kept, k
    <3>2. k \in Stores
      BY <3>1 DEF GoodStore
    <3>3. kept \in Stores /\ kept.snaps = k.snaps /\ kept.startup = k.startup
      BY <2>1, <3>1, <3>2 DEF Stores
    <3> QED
      BY <3>1, <3>3 DEF GoodStore
  <2> HIDE DEF p, marks, kept
  <2>6. Shape'
    BY <1>0, <2>2, <2>3, <2>4, <2>5, PutShape, OnlineTyped
  <2> QED
    BY <1>0, <1>2, <2>4, <2>6, WorldKept, IdleGood DEF OlderArrives, Sound, Asking
<1>3. CASE OlderFails
  <2>1. older.thread \in Threads /\ older.cursor \in Numbers
    BY <1>0, <1>3, OlderFields DEF OlderFails
  <2>2. /\ older' = NoOlder /\ (Upset \/ UNCHANGED upsets)
        /\ UNCHANGED <<log, due, link, wanted, load, stale, refresh>>
        /\ \/ Show(WithOlder(page.cached), MarkedOffline, Tear)
           \/ Keep(MarkedOffline) \/ Untouched
    BY <1>3 DEF OlderFails
  <2>3. GoodPage(WithOlder(page.cached)) /\ Tear \subseteq Scars
    BY <1>0, <2>1, WithOlderGood, PageFields DEF Mark, Scars, Tear
  <2>4. Shape'
    BY <1>0, <2>2, <2>3, ShowShape, KeepShape, UntouchedShape, OnlineTyped
  <2> QED
    BY <1>0, <2>2, <2>4, WorldUpset, IdleGood DEF Sound, Asking
<1> QED
  BY <1>1, <1>2, <1>3

(* What waits in the stream is of the shown thread.                       *)
LEMMA StreamWaits ==
  ASSUME PageBounds, Shape, stream.events # <<>>
  PROVE  \E s \in Shown :
            /\ stream.events = <<s>> /\ Head(stream.events) = s /\ Tail(stream.events) = <<>>
            /\ s.thread = page.thread /\ page.thread \in Threads
            /\ page.status = "ready" /\ ~page.cached /\ page.snap.msgs # {}
<1>1. PICK s \in Shown : stream.events = <<s>> /\ s.thread = stream.thread
  BY DEF Shape, GoodStream
<1>2. s.thread # NoThread
  BY NoThreadApart DEF Shown
<1>3. /\ page.status = "ready" /\ ~page.cached /\ page.snap.msgs # {}
      /\ page.thread \in Threads /\ s.thread = page.thread
  BY <1>1, <1>2, RealtimePage DEF Shape
<1> QED
  BY <1>1, <1>3

(* The stream of snapshots. *)
LEMMA SoundStream ==
  ASSUME PageBounds, Sound, StreamOpens \/ StreamRefused \/ StreamBreaks \/ OnMessages
  PROVE  Sound'
<1>0. /\ World /\ Shape /\ Asking
      /\ conn \in Conns /\ scars \subseteq Scars /\ GoodStore(store)
      /\ GoodStream(stream) /\ stream \in Streams /\ GoodPage(page)
  BY DEF Sound, Shape, GoodStream
<1>1. CASE StreamOpens
  <2> DEFINE open == [stream EXCEPT !.state = "open"]
  <2>1. GoodStream(open)
    BY <1>0 DEF GoodStream, Streams
  <2>2. Put(page, MarkedOnline, {}, store, open)
    BY <1>1 DEF StreamOpens
  <2> HIDE DEF open
  <2>3. Shape'
    BY <1>0, <2>1, <2>2, PutShape, OnlineTyped
  <2> QED
    BY <1>0, <1>1, <2>3, WorldKept DEF StreamOpens, Sound, Asking, requests
<1>2. CASE StreamRefused
  <2>1. GoodStream(stream') /\ stream'.thread = stream.thread
    BY <1>0, <1>2 DEF StreamRefused, GoodStream, Streams
  <2>2. /\ UNCHANGED <<log, due, link, wanted, page, conn, requests, store, scars>> /\ Upset
    BY <1>2 DEF StreamRefused
  <2>3. Shape'
    BY <1>0, <2>1, <2>2 DEF Shape, RealtimeThread
  <2> QED
    BY <1>0, <2>2, <2>3, WorldUpset DEF Sound, Asking, requests
<1>3. CASE StreamBreaks
  <2>1. <<>> \in Seq(Shown)
    OBVIOUS
  <2>2. GoodStream(stream') /\ stream'.thread = stream.thread
    BY <1>0, <1>3, <2>1 DEF StreamBreaks, GoodStream, Streams
  <2>3. /\ UNCHANGED <<log, due, link, wanted, page, conn, requests, store, scars>> /\ Upset
    BY <1>3 DEF StreamBreaks
  <2>4. Shape'
    BY <1>0, <2>2, <2>3 DEF Shape, RealtimeThread
  <2> QED
    BY <1>0, <2>3, <2>4, WorldUpset DEF Sound, Asking, requests
<1>4. CASE OnMessages
  <2>1. PICK s \in Shown :
            /\ Head(stream.events) = s /\ Tail(stream.events) = <<>>
            /\ s.thread = page.thread /\ page.thread \in Threads
    BY <1>0, <1>4, StreamWaits DEF OnMessages
  <2> DEFINE p == Ready(page.thread, FALSE, MergeRealtime(page.snap, s))
  <2> DEFINE open == [stream EXCEPT !.events = <<>>]
  <2> DEFINE marks == Mark("torn", Skips(page.snap, s))
  <2>2. Put(p, MarkedOnline, marks, Saved(p), open)
    BY <1>4, <2>1 DEF OnMessages
  <2>3. GoodPage(p)
    BY <1>0, <2>1, MergeTyped, ReadyGood, PageFields
  <2>4. GoodStream(open)
    <3>1. <<>> \in Seq(Shown)
      OBVIOUS
    <3> QED
      BY <1>0, <3>1 DEF GoodStream, Streams
  <2>5. marks \subseteq Scars
    BY DEF Mark, Scars
  <2> HIDE DEF p, open, marks
  <2>6. Shape'
    BY <1>0, <2>2, <2>3, <2>4, <2>5, PutShape, SavedGood, OnlineTyped
  <2> QED
    BY <1>0, <1>4, <2>6, WorldKept DEF OnMessages, Sound, Asking, requests
<1> QED
  BY <1>1, <1>2, <1>3, <1>4

LEMMA StartupGood ==
  ASSUME PageBounds, Shape
  PROVE  GoodPage(Startup)
<1>1. /\ store.startup.thread \in MaybeThread /\ store.startup.snap \in Snaps
      /\ store.startup.snap.thread = store.startup.thread
  BY DEF Shape, GoodStore, Stores
<1>2. CASE store.startup.thread # NoThread /\ wanted \in {NoThread, store.startup.thread}
  <2>1. store.startup.thread \in Threads /\ store.startup.snap \in Shown
    BY <1>1, <1>2, NoThreadApart DEF MaybeThread
  <2>2. Startup = Ready(store.startup.thread, TRUE, store.startup.snap)
    BY <1>2 DEF Startup
  <2> QED
    BY <1>1, <2>1, <2>2, ReadyGood
<1>3. CASE ~(store.startup.thread # NoThread /\ wanted \in {NoThread, store.startup.thread})
  <2>1. Startup = [status |-> "loading", thread |-> NoThread, cached |-> FALSE, snap |-> NoSnap]
    BY <1>3 DEF Startup
  <2> QED
    BY <2>1, BarePageGood DEF MaybeThread
<1> QED
  BY <1>2, <1>3

(* The world. *)
LEMMA SoundWorld ==
  ASSUME PageBounds, Sound,
         \/ \E t \in Threads : NewMessage(t) \/ Publish(t) \/ SelectThread(t)
         \/ LoseLink \/ GoOffline \/ ComeBack \/ OtherRequest \/ Retry \/ Reload
  PROVE  Sound'
<1>0. /\ World /\ Shape /\ Asking
      /\ conn \in Conns /\ scars \subseteq Scars /\ GoodStore(store)
      /\ GoodStream(stream) /\ stream \in Streams /\ GoodPage(page)
      /\ stream.thread = RealtimeThread(page)
  BY DEF Sound, Shape, GoodStream
<1>1. ASSUME NEW t \in Threads, NewMessage(t) PROVE Sound'
  <2>1. /\ log[t] < EndLog[t] /\ log' = [log EXCEPT ![t] = @ + 1] /\ due' = due \union {t}
        /\ Upset /\ UNCHANGED <<link, wanted, page, conn, requests, stream, store, scars>>
    BY <1>1 DEF NewMessage
  <2>2. EndLog[t] \in 0..MaxMessages /\ log \in [Threads -> 0..MaxMessages]
    BY <1>0 DEF PageBounds, World
  <2>3. log[t] + 1 \in 0..MaxMessages
    BY <2>1, <2>2, Sizes
  <2>4. log' \in [Threads -> 0..MaxMessages]
    BY <2>1, <2>2, <2>3
  <2>5. World'
    BY <1>0, <2>1, <2>4, UpsetTyped DEF World
  <2> QED
    BY <1>0, <2>1, <2>5 DEF Sound, Shape, RealtimeThread, Asking, requests
<1>2. ASSUME NEW t \in Threads, Publish(t) PROVE Sound'
  <2>1. /\ due' = due \ {t}
        /\ UNCHANGED <<log, link, wanted, page, conn, requests, store, scars, upsets>>
    BY <1>2 DEF Publish
  <2>2. \/ UNCHANGED stream
        \/ stream.thread = t /\ stream' = [stream EXCEPT !.events = <<Latest(t)>>]
    BY <1>2 DEF Publish
  <2>3. GoodStream(stream') /\ stream'.thread = stream.thread
    <3>1. CASE UNCHANGED stream
      BY <1>0, <3>1
    <3>2. CASE stream.thread = t /\ stream' = [stream EXCEPT !.events = <<Latest(t)>>]
      <4> DEFINE s == Latest(t)
      <4>1. s \in Shown /\ s.thread = t
        BY <1>0, LatestFacts DEF World
      <4> HIDE DEF s
      <4>2. stream' = [stream EXCEPT !.events = <<s>>]
        BY <3>2 DEF s
      <4>3. <<s>> \in Seq(Shown)
        BY <4>1
      <4>4. stream' \in Streams /\ stream'.events = <<s>> /\ stream'.thread = stream.thread
        BY <1>0, <4>2, <4>3 DEF Streams
      <4> QED
        BY <3>2, <4>1, <4>4 DEF GoodStream
    <3> QED
      BY <2>2, <3>1, <3>2
  <2>4. World'
    BY <1>0, <2>1 DEF World
  <2>5. Shape'
    BY <1>0, <2>1, <2>3 DEF Shape, RealtimeThread
  <2> QED
    BY <1>0, <2>1, <2>4, <2>5 DEF Sound, Asking, requests
<1>3. ASSUME NEW t \in Threads, SelectThread(t) PROVE Sound'
  <2>1. /\ wanted' = t /\ Upset
        /\ UNCHANGED <<log, due, link, page, conn, requests, stream, store, scars>>
    BY <1>3 DEF SelectThread
  <2>2. World'
    BY <1>0, <2>1, UpsetTyped DEF World, MaybeThread
  <2> QED
    BY <1>0, <2>1, <2>2 DEF Sound, Shape, RealtimeThread, Asking, requests
<1>4. CASE LoseLink
  <2>1. /\ link' = "lost" /\ Upset
        /\ UNCHANGED <<log, due, wanted, page, conn, requests, stream, store, scars>>
    BY <1>4 DEF LoseLink
  <2>2. World'
    BY <1>0, <2>1, UpsetTyped DEF World
  <2> QED
    BY <1>0, <2>1, <2>2 DEF Sound, Shape, RealtimeThread, Asking, requests
<1>5. CASE GoOffline
  <2>1. /\ link' = "down" /\ Upset
        /\ conn' = [conn EXCEPT !.hint = FALSE, !.browser = FALSE]
        /\ UNCHANGED <<log, due, wanted, page, requests, store, scars>>
    BY <1>5 DEF GoOffline
  <2>2. GoodStream(stream') /\ stream'.thread = stream.thread
    <3>1. <<>> \in Seq(Shown)
      OBVIOUS
    <3>2. \/ UNCHANGED stream
          \/ stream' = [stream EXCEPT !.state = "connecting", !.events = <<>>]
      BY <1>5 DEF GoOffline
    <3> QED
      BY <1>0, <3>1, <3>2 DEF GoodStream, Streams
  <2>3. World'
    BY <1>0, <2>1, UpsetTyped DEF World
  <2>4. conn' \in Conns
    BY <1>0, <2>1 DEF Conns
  <2>5. Shape'
    BY <1>0, <2>1, <2>2, <2>4 DEF Shape, RealtimeThread
  <2> QED
    BY <1>0, <2>1, <2>3, <2>5 DEF Sound, Asking, requests
<1>6. CASE ComeBack
  <2> DEFINE c == [conn EXCEPT !.hint = TRUE, !.browser = TRUE]
  <2>1. c \in Conns
    BY <1>0 DEF Conns
  <2>2. /\ link' = "up" /\ UNCHANGED <<log, due, wanted, older, upsets>>
        /\ Resync(c) \/ (UNCHANGED <<load, stale, refresh>> /\ Untouched)
    BY <1>6 DEF ComeBack
  <2> HIDE DEF c
  <2>3. World'
    BY <1>0, <2>2 DEF World
  <2>4. Shape' /\ GoodLoad(load') /\ GoodLoad(stale') /\ GoodRefresh(refresh')
    BY <1>0, <2>1, <2>2, ResyncGood, UntouchedShape DEF Asking
  <2> QED
    BY <1>0, <2>2, <2>3, <2>4 DEF Sound, Asking
<1>7. CASE OtherRequest
  <2>1. Mark("stray", OnCopy) \subseteq Scars
    BY DEF Mark, Scars
  <2>2. /\ Show(page, MarkedOnline, Mark("stray", OnCopy)) \/ Keep(MarkedOffline)
        /\ Upset /\ UNCHANGED <<log, due, link, wanted, requests>>
    BY <1>7 DEF OtherRequest
  <2>3. Shape'
    BY <1>0, <2>1, <2>2, ShowShape, KeepShape, OnlineTyped
  <2> QED
    BY <1>0, <2>2, <2>3, WorldUpset DEF Sound, Asking, requests
<1>8. CASE Retry
  <2>1. /\ LoadInitialChat(conn) /\ Upset
        /\ UNCHANGED <<log, due, link, wanted, refresh, older>>
    BY <1>8 DEF Retry
  <2>2. Shape' /\ GoodLoad(load') /\ GoodLoad(stale')
    BY <1>0, <2>1, LoadInitialGood
  <2> QED
    BY <1>0, <2>1, <2>2, WorldUpset DEF Sound, Asking
<1>9. CASE Reload
  <2> DEFINE p == Startup
  <2>1. GoodPage(p)
    BY <1>0, StartupGood
  <2> HIDE DEF p
  <2>2. /\ page' = p /\ scars' = {x \in scars : x = "torn"}
        /\ load' = [Idle EXCEPT !.phase = "threads", !.initial = TRUE, !.prefer = p.thread,
                                !.thread = p.thread, !.fallback = "reading", !.hint = Navigator]
        /\ conn' = [hint |-> Navigator, browser |-> Navigator,
                    reach |-> IF Navigator THEN "connecting" ELSE "offline"]
        /\ stale' = Idle /\ refresh' = NoRequest /\ older' = NoOlder
        /\ stream' = Connected(stream, NoThread)
        /\ Upset /\ UNCHANGED <<log, due, link, wanted, store>>
    BY <1>9 DEF Reload, p
  <2>3. p.thread \in MaybeThread
    BY <2>1 DEF GoodPage, Pages, MaybeThread
  <2>4. load' = [phase |-> "threads", initial |-> TRUE, prefer |-> p.thread,
                 thread |-> p.thread, fallback |-> "reading", hint |-> Navigator,
                 snap |-> NoSnap]
    BY <2>2 DEF Idle
  <2>5. GoodLoad(load')
    <3>1. load' \in Loads
      BY <2>3, <2>4 DEF Loads, MaybeThread, Navigator
    <3> QED
      BY <2>4, <3>1 DEF GoodLoad
  <2>6. conn' \in Conns
    BY <2>2 DEF Conns, Navigator
  <2>7. GoodStream(stream') /\ stream'.thread = NoThread
    BY <1>0, <2>2, ConnectedGood DEF MaybeThread
  <2>8. RealtimeThread(p) = NoThread
    <3>1. p.status = "ready" => p.cached
      BY DEF p, Startup, Ready
    <3> QED
      BY <3>1 DEF RealtimeThread
  <2>9. Shape'
    BY <1>0, <2>1, <2>2, <2>6, <2>7, <2>8 DEF Shape, RealtimeThread
  <2> QED
    BY <1>0, <2>2, <2>5, <2>9, WorldUpset, IdleGood DEF Sound, Asking
<1> QED
  BY <1>1, <1>2, <1>3, <1>4, <1>5, <1>6, <1>7, <1>8, <1>9

LEMMA SoundInit ==
  ASSUME PageBounds, PageInit
  PROVE  Sound
<1>1. World
  BY Sizes DEF PageInit, World, MaybeThread, PageBounds
<1>2. GoodPage(page) /\ RealtimeThread(page) = NoThread
  BY BarePageGood DEF PageInit, MaybeThread, RealtimeThread
<1>3. conn \in Conns /\ scars \subseteq Scars
  BY DEF PageInit, Conns
<1>4. GoodStore(store)
  <2>1. store = [active |-> NoThread, snaps |-> [t \in Threads |-> NoSnap],
                 startup |-> [thread |-> NoThread, snap |-> NoSnap], olderPages |-> {}]
    BY DEF PageInit
  <2>2. store \in Stores
    BY <2>1 DEF Stores, MaybeThread, Snaps
  <2> QED
    BY <2>1, <2>2 DEF GoodStore, NoSnap
<1>5. GoodStream(stream) /\ stream.thread = NoThread
  <2>1. <<>> \in Seq(Shown)
    OBVIOUS
  <2> QED
    BY <2>1 DEF PageInit, GoodStream, Streams, MaybeThread
<1>6. GoodLoad(load)
  <2>1. load = [phase |-> "threads", initial |-> TRUE, prefer |-> NoThread, thread |-> NoThread,
                fallback |-> "reading", hint |-> TRUE, snap |-> NoSnap]
    BY DEF PageInit, Idle
  <2>2. load \in Loads
    BY <2>1 DEF Loads
  <2> QED
    BY <2>1, <2>2 DEF GoodLoad
<1> QED
  BY <1>1, <1>2, <1>3, <1>4, <1>5, <1>6, IdleGood DEF PageInit, Sound, Shape, Asking

LEMMA SoundStep ==
  ASSUME PageBounds, Sound, [PageNext]_pageVars
  PROVE  Sound'
<1>1. CASE PageNext
  BY <1>1, SoundLoads, SoundFailures, SoundRefreshes, SoundOlder, SoundStream, SoundWorld
     DEF PageNext
<1>2. CASE UNCHANGED pageVars
  BY <1>2 DEF pageVars, Sound, World, Shape, Asking, RealtimeThread
<1> QED
  BY <1>1, <1>2

LEMMA AlwaysSound == PageSpec => []Sound
<1>1. PageInit => Sound
  BY SoundInit, PageBounds
<1>2. Sound /\ [PageNext]_pageVars => Sound'
  BY SoundStep, PageBounds
<1> QED
  BY <1>1, <1>2, PTL DEF PageSpec

(* Type correctness.                                                      *)
THEOREM PageTyped == PageSpec => []PageTypeOK
<1>1. ASSUME Sound PROVE PageTypeOK
  <2>1. World /\ Shape /\ Asking
    BY <1>1 DEF Sound
  <2>2. older \in [thread : MaybeThread, cursor : 0..MaxMessages]
    <3>1. Numbers \subseteq 0..MaxMessages /\ 0 \in 0..MaxMessages
      BY Sizes, PageBounds DEF Numbers
    <3>2. CASE older = NoOlder
      BY <3>1, <3>2 DEF NoOlder, MaybeThread
    <3>3. CASE older \in [thread : Threads, cursor : Numbers]
      BY <3>1, <3>3 DEF MaybeThread
    <3> QED
      BY <2>1, <3>2, <3>3 DEF Asking, GoodOlder
  <2>3. page \in Pages /\ load \in Loads /\ stale \in Loads
    BY <2>1 DEF Shape, Asking, GoodPage, GoodLoad
  <2>4. refresh \in Requests /\ stream \in Streams /\ store \in Stores
    BY <2>1 DEF Shape, Asking, GoodRefresh, GoodStream, GoodStore
  <2> QED
    BY <2>1, <2>2, <2>3, <2>4
       DEF PageTypeOK, World, Shape, Conns, Requests, Streams, Stores, Scars, MaybeThread, Snaps
<1> QED
  BY <1>1, AlwaysSound, PTL

(* Whatever answers arrive late, what is shown, and what is kept, is of   *)
(* the thread it is shown or kept as.                                     *)
THEOREM ShownIsSelected == PageSpec => []TranscriptOfSelected
<1>1. Sound => TranscriptOfSelected
  BY DEF Sound, Shape, GoodPage, GoodStore, TranscriptOfSelected
<1> QED
  BY <1>1, AlwaysSound, PTL

-----------------------------------------------------------------------------
(* No message is lost from sight: while no step tore the page, it and the *)
(* copies have no gap above their cursor, and what is on its way has none *)
(* at all.                                                                *)

Unbroken(k) == Complete(k.startup.snap) /\ \A t \in Threads : Complete(k.snaps[t])
Sees == "torn" \notin scars => Complete(page.snap) /\ Unbroken(store)
Answer(r) == r.phase = "answered" => Whole(r.snap)
Waiting(o) == \A s \in Shown : o.events = <<s>> => Whole(s)
Gapless == Sees /\ Answer(load) /\ Answer(refresh) /\ Waiting(stream)

LEMMA SavedUnbroken ==
  ASSUME PageBounds, GoodStore(store), Unbroken(store), NEW p, GoodPage(p), Complete(p.snap),
         ~(p.status = "ready" /\ ~p.cached /\ Hides(p.snap))
  PROVE  Unbroken(Saved(p))
<1>0. store \in Stores
  BY DEF GoodStore
<1>1. CASE p.cached \/ p.thread = NoThread \/ p.status = "gone"
  BY <1>1 DEF Saved
<1>2. CASE ~(p.cached \/ p.thread = NoThread \/ p.status = "gone") /\ p.status # "ready"
  <2>1. Saved(p) = [store EXCEPT !.active = p.thread]
    BY <1>2 DEF Saved
  <2>2. Saved(p).snaps = store.snaps /\ Saved(p).startup = store.startup
    BY <1>0, <2>1 DEF Stores
  <2> QED
    BY <2>2 DEF Unbroken
<1>3. CASE ~(p.cached \/ p.thread = NoThread \/ p.status = "gone") /\ p.status = "ready"
  <2> DEFINE b == Bounded(p.snap)
  <2>1. p.thread \in Threads /\ p.snap \in Shown
    BY <1>3, NoThreadApart DEF GoodPage, Pages, Snaps
  <2>2. Complete(b)
    <3>1. ~Hides(p.snap)
      BY <1>3
    <3> QED
      BY <2>1, <3>1, BoundedComplete
  <2>3. Saved(p) = [store EXCEPT !.active = p.thread, !.snaps[p.thread] = b,
                                 !.startup = [thread |-> p.thread, snap |-> b]]
    BY <1>3 DEF Saved
  <2> HIDE DEF b
  <2>4. /\ store.snaps \in [Threads -> Snaps]
        /\ store = [active |-> store.active, snaps |-> store.snaps,
                    startup |-> store.startup, olderPages |-> store.olderPages]
    BY <1>0 DEF Stores
  <2>5. /\ Saved(p).snaps = [store.snaps EXCEPT ![p.thread] = b]
        /\ Saved(p).startup.snap = b
    BY <2>3, <2>4
  <2>6. \A t \in Threads : Complete(Saved(p).snaps[t])
    <3> TAKE t \in Threads
    <3>1. Complete(store.snaps[t])
      BY DEF Unbroken
    <3>2. CASE t = p.thread
      <4>1. Saved(p).snaps[t] = b
        BY <2>4, <2>5, <3>2
      <4> QED
        BY <2>2, <4>1
    <3>3. CASE t # p.thread
      <4>1. Saved(p).snaps[t] = store.snaps[t]
        BY <2>4, <2>5, <3>3
      <4> QED
        BY <3>1, <4>1
    <3> QED
      BY <3>2, <3>3
  <2> QED
    BY <2>2, <2>5, <2>6 DEF Unbroken
<1> QED
  BY <1>1, <1>2, <1>3

(* A change of the page that finds its messages without a gap, or is      *)
(* marked.                                                                *)
LEMMA PutSees ==
  ASSUME PageBounds, Shape, Sees, NEW p, GoodPage(p), NEW c, NEW marks, NEW kept, NEW open,
         "torn" \notin scars /\ "torn" \notin marks => Complete(p.snap),
         \/ kept = store
         \/ kept.snaps = Saved(p).snaps /\ kept.startup = Saved(p).startup,
         Waiting(open), Put(p, c, marks, kept, open)
  PROVE  Sees' /\ Waiting(stream')
<1>1. /\ page' = p /\ store' = kept
      /\ stream' = Connected(open, RealtimeThread(p))
      /\ scars' = marks \union Mark("torn", p.status = "ready" /\ ~p.cached /\ Hides(p.snap))
                        \union {x \in scars : x = "stray" => p.status = "ready" /\ p.cached}
  BY DEF Put
<1>2. ASSUME "torn" \notin scars' PROVE Complete(p.snap) /\ Unbroken(kept)
  <2>1. "torn" \notin marks /\ "torn" \notin scars
    BY <1>1, <1>2
  <2>2. ~(p.status = "ready" /\ ~p.cached /\ Hides(p.snap))
    BY <1>1, <1>2 DEF Mark
  <2>3. Complete(p.snap) /\ Unbroken(store)
    BY <2>1 DEF Sees
  <2>4. Unbroken(Saved(p))
    BY <2>2, <2>3, SavedUnbroken DEF Shape
  <2> QED
    BY <2>3, <2>4 DEF Unbroken
<1>3. Waiting(stream')
  <2>1. \A s \in Shown : <<>> # <<s>>
    OBVIOUS
  <2> QED
    BY <1>1, <2>1 DEF Connected, Waiting
<1> QED
  BY <1>1, <1>2, <1>3 DEF Sees

LEMMA ShowSees ==
  ASSUME PageBounds, Shape, Gapless, NEW p, GoodPage(p), NEW c, NEW marks,
         "torn" \notin scars /\ "torn" \notin marks => Complete(p.snap),
         Show(p, c, marks)
  PROVE  Sees' /\ Waiting(stream')
BY PutSees DEF Gapless, Show

LEMMA KeepSees ==
  ASSUME PageBounds, Shape, Gapless, NEW c, NEW marks,
         Keep(c) \/ Show(page, c, marks)
  PROVE  Sees' /\ Waiting(stream')
<1>1. GoodPage(page)
  BY DEF Shape
<1>2. "torn" \notin scars => Complete(page.snap)
  BY DEF Gapless, Sees
<1>3. Show(page, c, {}) \/ Show(page, c, marks)
  BY DEF Keep
<1> QED
  BY <1>1, <1>2, <1>3, ShowSees

LEMMA UntouchedSees ==
  ASSUME Gapless, Untouched
  PROVE  Sees' /\ Waiting(stream')
BY DEF Gapless, Untouched, Sees, Unbroken, Waiting

LEMMA BareSees ==
  ASSUME PageBounds, Shape, Gapless, NEW p, GoodPage(p), p.status # "ready",
         NEW c, Show(p, c, {})
  PROVE  Sees' /\ Waiting(stream')
<1>1. p.snap = NoSnap
  BY DEF GoodPage
<1>2. Complete(p.snap)
  BY <1>1, NothingComplete
<1> QED
  BY <1>2, ShowSees

LEMMA NoAnswer ==
  /\ Answer(Idle) /\ Answer(NoRequest)
  /\ \A l : GoodLoad(l) /\ Answer(l) =>
        /\ \A ph \in Failing : Answer([l EXCEPT !.phase = ph])
        /\ \A f \in {"opened", "shut"} : Answer([l EXCEPT !.fallback = f])
<1>1. Answer(Idle) /\ Answer(NoRequest)
  BY DEF Answer, Idle, NoRequest
<1>2. ASSUME NEW l, GoodLoad(l), Answer(l), NEW ph \in Failing
      PROVE  Answer([l EXCEPT !.phase = ph])
  <2>1. l \in Loads
    BY <1>2 DEF GoodLoad
  <2>2. [l EXCEPT !.phase = ph].phase = ph
    BY <2>1 DEF Loads
  <2> QED
    BY <1>2, <2>2 DEF Answer, Failing
<1>3. ASSUME NEW l, GoodLoad(l), Answer(l), NEW f \in {"opened", "shut"}
      PROVE  Answer([l EXCEPT !.fallback = f])
  <2>1. l \in Loads
    BY <1>3 DEF GoodLoad
  <2>2. /\ [l EXCEPT !.fallback = f].phase = l.phase
        /\ [l EXCEPT !.fallback = f].snap = l.snap
    BY <2>1 DEF Loads
  <2> QED
    BY <1>3, <2>2 DEF Answer
<1> QED
  BY <1>1, <1>2, <1>3

LEMMA LoadInitialSees ==
  ASSUME PageBounds, Sound, Gapless, NEW c, LoadInitialChat(c)
  PROVE  Answer(load') /\ Sees' /\ Waiting(stream')
<1>1. Shape /\ Begin(TRUE, page.thread)
  BY DEF Sound, LoadInitialChat
<1>2. load'.phase = "threads"
  BY <1>1 DEF Begin
<1> DEFINE p == IF page.status = "ready" THEN page ELSE [page EXCEPT !.status = "loading"]
<1>3. Show(p, c, {})
  BY DEF LoadInitialChat
<1>4. CASE page.status = "ready"
  BY <1>1, <1>2, <1>3, <1>4, KeepSees DEF Answer
<1>5. CASE page.status # "ready"
  <2>1. p = [status |-> "loading", thread |-> page.thread, cached |-> page.cached,
             snap |-> NoSnap]
    BY <1>1, <1>5, PageFields
  <2> HIDE DEF p
  <2>2. GoodPage(p) /\ p.status # "ready"
    BY <1>1, <2>1, PageFields, BarePageGood
  <2>3. Sees' /\ Waiting(stream')
    BY <1>1, <1>3, <2>2, BareSees
  <2> QED
    BY <1>2, <2>3 DEF Answer
<1> QED
  BY <1>4, <1>5

LEMMA SettleSees ==
  ASSUME PageBounds, Sound, Gapless, NEW l, GoodLoad(l), NEW c, Settle(l, c)
  PROVE  Sees' /\ Waiting(stream')
<1> DEFINE away == [c EXCEPT !.reach = "offline"]
<1>1. Shape /\ page.thread \in MaybeThread /\ l.thread \in MaybeThread
  BY PageFields, LoadFields DEF Sound
<1>2. GoodPage(ErrorPage(l)) /\ ErrorPage(l).status # "ready"
  BY <1>1, BarePageGood DEF ErrorPage
<1>3. \/ Show(page, away, {}) \/ Show(ErrorPage(l), away, {}) \/ Show(ErrorPage(l), c, {})
  BY DEF Settle
<1> HIDE DEF away
<1> QED
  BY <1>1, <1>2, <1>3, KeepSees, BareSees

LEMMA CatchSees ==
  ASSUME PageBounds, Sound, Gapless, NEW ph \in Failing, NEW c, CatchLoad(ph, c)
  PROVE  Answer(load') /\ Sees' /\ Waiting(stream')
<1> DEFINE l == [load EXCEPT !.phase = ph]
<1>1. GoodLoad(load) /\ Shape /\ Answer(load)
  BY DEF Sound, Asking, Gapless
<1>2. GoodLoad(l) /\ Answer(l)
  BY <1>1, LoadMoves, NoAnswer
<1>3. \/ load' = l /\ Keep(c)
      \/ load' = Idle /\ Settle(l, c)
  BY DEF CatchLoad
<1> HIDE DEF l
<1> QED
  BY <1>1, <1>2, <1>3, KeepSees, SettleSees, NoAnswer

LEMMA GaplessLoads ==
  ASSUME PageBounds, Sound, Gapless,
         \/ HandleSelectThread \/ ThreadsAnswered \/ MessagesAnswered \/ LoadArrives
         \/ OpenCachedChatFallback \/ FallbackShut \/ StaleSettles
         \/ LoadLost \/ LoadRefused \/ LoadDenied \/ SessionUnknown \/ SessionEnds
  PROVE  Gapless'
<1>0. /\ World /\ Shape /\ GoodLoad(load) /\ GoodLoad(stale) /\ Sees /\ Answer(load)
      /\ Answer(refresh) /\ Waiting(stream)
  BY DEF Sound, Asking, Gapless
<1>1. CASE HandleSelectThread
  <2> DEFINE p == [status |-> "loading", thread |-> wanted, cached |-> page.cached,
                   snap |-> NoSnap]
  <2>1. load'.phase = "messages" /\ Show(p, conn, {}) /\ UNCHANGED refresh
    BY <1>1 DEF HandleSelectThread, Begin
  <2>2. GoodPage(p) /\ p.status # "ready"
    BY <1>0, PageFields, BarePageGood DEF World
  <2> HIDE DEF p
  <2>3. Sees' /\ Waiting(stream')
    BY <1>0, <2>1, <2>2, BareSees
  <2> QED
    BY <1>0, <2>1, <2>3 DEF Gapless, Answer
<1>2. CASE ThreadsAnswered
  <2>1. /\ UNCHANGED <<page, refresh, stream, scars>>
        /\ \E t : /\ load' = [load EXCEPT !.phase = "messages", !.thread = t]
                  /\ store' = [store EXCEPT !.active = t]
    BY <1>2 DEF ThreadsAnswered
  <2>2. store \in Stores /\ load \in Loads
    BY <1>0 DEF Shape, GoodStore, GoodLoad
  <2>3. store'.snaps = store.snaps /\ store'.startup = store.startup
    BY <2>1, <2>2 DEF Stores
  <2>4. load'.phase = "messages"
    BY <2>1, <2>2 DEF Loads
  <2>5. Sees'
    BY <1>0, <2>1, <2>3 DEF Sees, Unbroken
  <2> QED
    BY <1>0, <2>1, <2>4, <2>5 DEF Gapless, Answer, Waiting
<1>3. CASE MessagesAnswered
  <2>1. load.thread \in Threads
    BY <1>0, <1>3 DEF MessagesAnswered, GoodLoad
  <2> DEFINE s == Latest(load.thread)
  <2>2. Whole(s)
    BY <1>0, <2>1, LatestFacts DEF World
  <2>3. load' = [load EXCEPT !.phase = "answered", !.snap = s] /\ Untouched /\ UNCHANGED refresh
    BY <1>3 DEF MessagesAnswered
  <2> HIDE DEF s
  <2>4. load'.snap = s
    <3>1. load \in Loads
      BY <1>0 DEF GoodLoad
    <3> QED
      BY <2>3, <3>1 DEF Loads
  <2>5. Sees' /\ Waiting(stream')
    BY <2>3, UntouchedSees
  <2> QED
    BY <1>0, <2>2, <2>3, <2>4, <2>5 DEF Gapless, Answer
<1>4. CASE LoadArrives
  <2>1. load.thread \in Threads /\ load.snap.thread = load.thread /\ load.snap \in Snaps
        /\ Complete(load.snap)
    BY <1>0, <1>4, LoadFields DEF LoadArrives, GoodLoad, Answer, Whole
  <2> DEFINE p == Ready(load.thread, FALSE, load.snap)
  <2>2. GoodPage(p) /\ Complete(p.snap)
    BY <2>1, NoThreadApart, ReadyGood DEF Ready
  <2>3. Show(p, MarkedOnline, {}) /\ load' = Idle /\ UNCHANGED refresh
    BY <1>4 DEF LoadArrives
  <2> HIDE DEF p
  <2>4. Sees' /\ Waiting(stream')
    BY <1>0, <2>2, <2>3, ShowSees
  <2> QED
    BY <1>0, <2>3, <2>4, NoAnswer DEF Gapless
<1>5. CASE OpenCachedChatFallback
  <2> DEFINE t == CachedThread(load.prefer)
  <2> DEFINE p == IF page.status = "ready" /\ page.cached /\ page.thread = t THEN page
                  ELSE Ready(t, TRUE, store.snaps[t])
  <2>1. /\ t # NoThread /\ store.snaps[t] # NoSnap /\ (\E c : Show(p, c, {}))
        /\ load' = IF load.phase = "lost" THEN Idle ELSE [load EXCEPT !.fallback = "opened"]
        /\ UNCHANGED refresh
    BY <1>5 DEF OpenCachedChatFallback
  <2>2. store.active \in MaybeThread /\ load.prefer \in MaybeThread
        /\ \A u \in Threads : store.snaps[u] \in Snaps /\ store.snaps[u].thread \in {NoThread, u}
    BY <1>0, LoadFields DEF Shape, GoodStore, Stores
  <2>3. t \in Threads
    BY <2>1, <2>2 DEF CachedThread, MaybeThread
  <2> HIDE DEF t
  <2>4. store.snaps[t] \in Shown /\ store.snaps[t].thread = t
    BY <2>1, <2>2, <2>3, NoThreadApart
  <2>5. GoodPage(p)
    BY <1>0, <2>3, <2>4, ReadyGood, PageFields
  <2>6. "torn" \notin scars => Complete(p.snap)
    BY <1>0, <2>3 DEF Sees, Unbroken, Ready
  <2>7. Answer(load')
    BY <1>0, <2>1, NoAnswer
  <2> HIDE DEF p
  <2>8. Sees' /\ Waiting(stream')
    BY <1>0, <2>1, <2>5, <2>6, ShowSees
  <2> QED
    BY <1>0, <2>1, <2>7, <2>8 DEF Gapless
<1>6. CASE FallbackShut
  <2> DEFINE l == [load EXCEPT !.fallback = "shut"]
  <2>1. GoodLoad(l) /\ Answer(l)
    BY <1>0, LoadMoves, NoAnswer
  <2>2. \/ load' = Idle /\ Settle(l, conn)
        \/ load' = l /\ Untouched
    BY <1>6 DEF FallbackShut
  <2> HIDE DEF l
  <2>3. Answer(load') /\ Sees' /\ Waiting(stream')
    BY <1>0, <2>1, <2>2, SettleSees, UntouchedSees, NoAnswer
  <2> QED
    BY <1>0, <1>6, <2>3 DEF FallbackShut, Gapless
<1>7. CASE StaleSettles
  <2> DEFINE l == [stale EXCEPT !.fallback = "shut"]
  <2>1. GoodLoad(l)
    BY <1>0, LoadMoves
  <2>2. Settle(l, conn) /\ UNCHANGED <<load, refresh>>
    BY <1>7 DEF StaleSettles
  <2> HIDE DEF l
  <2>3. Sees' /\ Waiting(stream')
    BY <2>1, <2>2, SettleSees
  <2> QED
    BY <1>0, <2>2, <2>3 DEF Gapless
<1>8. CASE LoadLost \/ LoadRefused
  <2>1. UNCHANGED refresh /\ (\E c : CatchLoad("lost", c) \/ CatchLoad("refused", c))
    BY <1>8 DEF LoadLost, LoadRefused
  <2>2. Answer(load') /\ Sees' /\ Waiting(stream')
    BY <2>1, CatchSees DEF Failing
  <2> QED
    BY <1>0, <2>1, <2>2 DEF Gapless
<1>9. CASE LoadDenied
  <2>1. Answer(load') /\ Untouched /\ UNCHANGED refresh
    BY <1>0, <1>9, NoAnswer DEF LoadDenied, Failing
  <2> QED
    BY <1>0, <2>1, UntouchedSees DEF Gapless
<1>10. CASE SessionUnknown
  <2>1. Answer(load') /\ UNCHANGED <<page, stream, store, refresh>> /\ scars \subseteq scars'
    BY <1>0, <1>10, NoAnswer DEF SessionUnknown
  <2>2. Sees'
    BY <1>0, <2>1 DEF Sees, Unbroken
  <2> QED
    BY <1>0, <2>1, <2>2 DEF Gapless, Waiting
<1>11. CASE SessionEnds
  <2>1. GoodPage(NoPage) /\ NoPage.status # "ready"
    BY BarePageGood DEF NoPage, MaybeThread
  <2>2. load' = Idle /\ refresh' = NoRequest /\ Show(NoPage, conn, {})
    BY <1>11 DEF SessionEnds
  <2>3. Sees' /\ Waiting(stream')
    BY <1>0, <2>1, <2>2, BareSees
  <2> QED
    BY <2>2, <2>3, NoAnswer DEF Gapless
<1> QED
  BY <1>1, <1>2, <1>3, <1>4, <1>5, <1>6, <1>7, <1>8, <1>9, <1>10, <1>11

LEMMA ResyncSees ==
  ASSUME PageBounds, Sound, Gapless, NEW c, Resync(c)
  PROVE  Answer(load') /\ Answer(refresh') /\ Sees' /\ Waiting(stream')
<1>0. Shape /\ Answer(load) /\ Answer(refresh)
  BY DEF Sound, Gapless
<1>1. CASE page.cached \/ page.snap = NoSnap
  <2>1. LoadInitialChat(c) /\ UNCHANGED refresh
    BY <1>1 DEF Resync
  <2> QED
    BY <1>0, <2>1, LoadInitialSees
<1>2. CASE ~(page.cached \/ page.snap = NoSnap)
  <2>1. (Ask \/ UNCHANGED refresh) /\ UNCHANGED <<load, stale>> /\ Keep(c)
    BY <1>2 DEF Resync
  <2>2. Answer(refresh')
    BY <1>0, <2>1 DEF Ask, Answer
  <2> QED
    BY <1>0, <2>1, <2>2, KeepSees
<1> QED
  BY <1>1, <1>2

(* A snapshot merged into the page is marked if it skips messages.        *)
LEMMA MergedSees ==
  ASSUME PageBounds, Shape, Sees, NEW new \in Shown, Whole(new),
         "torn" \notin scars /\ "torn" \notin Mark("torn", Skips(page.snap, new))
  PROVE  Complete(MergeRealtime(page.snap, new)) /\ Complete(new)
<1>1. ~Skips(page.snap, new)
  BY DEF Mark
<1>2. Complete(page.snap) /\ page.snap \in Snaps
  BY PageFields DEF Sees
<1> QED
  BY <1>1, <1>2, MergeComplete DEF Whole

LEMMA GaplessRefreshes ==
  ASSUME PageBounds, Sound, Gapless,
         \/ Probe \/ HealthFallback \/ Resume \/ PushMessage
         \/ RefreshAnswered \/ RefreshArrives \/ RefreshFails
  PROVE  Gapless'
<1>0. /\ World /\ Shape /\ GoodRefresh(refresh) /\ Sees /\ Answer(load)
      /\ Answer(refresh) /\ Waiting(stream)
  BY DEF Sound, Asking, Gapless
<1>1. CASE Probe \/ HealthFallback \/ PushMessage
  <2>1. Ask /\ Untouched /\ UNCHANGED load
    BY <1>1 DEF Probe, HealthFallback, PushMessage
  <2>2. Answer(refresh')
    BY <2>1 DEF Ask, Answer
  <2> QED
    BY <1>0, <2>1, <2>2, UntouchedSees DEF Gapless
<1>2. CASE Resume
  <2>1. \/ \E c : Resync(c)
        \/ (\E c : Keep(c)) /\ UNCHANGED <<load, refresh>>
    BY <1>2 DEF Resume
  <2> QED
    BY <1>0, <2>1, ResyncSees, KeepSees DEF Gapless
<1>3. CASE RefreshAnswered
  <2>1. refresh.thread \in Threads
    BY <1>0, <1>3 DEF RefreshAnswered, GoodRefresh
  <2> DEFINE s == Latest(refresh.thread)
  <2>2. Whole(s)
    BY <1>0, <2>1, LatestFacts DEF World
  <2>3. refresh' = [refresh EXCEPT !.phase = "answered", !.snap = s] /\ Untouched /\ UNCHANGED load
    BY <1>3 DEF RefreshAnswered
  <2> HIDE DEF s
  <2>4. refresh'.snap = s
    BY <1>0, <2>3 DEF GoodRefresh, Requests
  <2> QED
    BY <1>0, <2>2, <2>3, <2>4, UntouchedSees DEF Gapless, Answer
<1>4. CASE RefreshArrives
  <2> DEFINE new == refresh.snap
  <2>1. refresh.thread \in Threads /\ new \in Shown /\ new.thread = refresh.thread /\ Whole(new)
    BY <1>0, <1>4, NoThreadApart DEF RefreshArrives, GoodRefresh, Requests, Answer
  <2> DEFINE p == Refreshed(refresh.thread, new)
  <2> DEFINE marks == IF page.thread = refresh.thread
            THEN Mark("torn", Skips(page.snap, new))
            ELSE Mark("stray", OnCopy)
  <2>2. GoodPage(p)
    BY <1>0, <2>1, RefreshedGood
  <2>3. Show(p, MarkedOnline, marks) /\ refresh' = NoRequest /\ UNCHANGED load
    BY <1>4 DEF RefreshArrives
  <2>4. "torn" \notin scars /\ "torn" \notin marks => Complete(p.snap)
    <3>1. CASE page.thread # refresh.thread
      <4>1. p = page
        BY <3>1 DEF Refreshed
      <4> QED
        BY <1>0, <4>1 DEF Sees
    <3>2. CASE page.thread = refresh.thread
      <4>1. marks = Mark("torn", Skips(page.snap, new))
        BY <3>2
      <4>2. p.snap = IF page.status = "ready" THEN MergeRealtime(page.snap, new) ELSE new
        BY <3>2 DEF Refreshed, Ready
      <4> HIDE DEF new, marks, p
      <4> QED
        BY <1>0, <2>1, <4>1, <4>2, MergedSees
    <3> QED
      BY <3>1, <3>2
  <2> HIDE DEF p, marks, new
  <2>5. Sees' /\ Waiting(stream')
    BY <1>0, <2>2, <2>3, <2>4, ShowSees
  <2> QED
    BY <1>0, <2>3, <2>5, NoAnswer DEF Gapless
<1>5. CASE RefreshFails
  <2>1. refresh' = NoRequest /\ ((\E c : Keep(c)) \/ Untouched) /\ UNCHANGED load
    BY <1>5 DEF RefreshFails
  <2>2. Sees' /\ Waiting(stream')
    BY <1>0, <2>1, KeepSees, UntouchedSees
  <2> QED
    BY <1>0, <2>1, <2>2, NoAnswer DEF Gapless
<1> QED
  BY <1>1, <1>2, <1>3, <1>4, <1>5

(* Older messages join what is shown, or the step is marked.              *)
LEMMA WithOlderSees ==
  ASSUME PageBounds, Shape, Sees, older.thread \in Threads, older.cursor \in Numbers,
         NEW cached, "torn" \notin scars, "torn" \notin Tear
  PROVE  Complete(WithOlder(cached).snap)
<1> DEFINE s == MergeOlder(page.snap, Window(older.thread, older.cursor))
<1>1. page.snap \in Snaps /\ Complete(page.snap)
  BY PageFields DEF Sees
<1>2. CASE page.status = "ready" /\ page.thread = older.thread
  <2>1. ~Misses(page.snap, older.cursor)
    BY <1>2 DEF Tear, Mark
  <2>2. Complete(s)
    BY <1>1, <2>1, OlderComplete
  <2>3. WithOlder(cached).snap = s
    BY <1>2 DEF WithOlder, Ready
  <2> QED
    BY <2>2, <2>3
<1>3. CASE ~(page.status = "ready" /\ page.thread = older.thread)
  BY <1>1, <1>3 DEF WithOlder
<1> QED
  BY <1>2, <1>3

LEMMA GaplessOlder ==
  ASSUME PageBounds, Sound, Gapless, HandleLoadOlderMessages \/ OlderArrives \/ OlderFails
  PROVE  Gapless'
<1>0. /\ Shape /\ GoodOlder(older) /\ Sees /\ Answer(load)
      /\ Answer(refresh) /\ Waiting(stream)
  BY DEF Sound, Asking, Gapless
<1>1. CASE HandleLoadOlderMessages
  BY <1>0, <1>1, UntouchedSees DEF HandleLoadOlderMessages, Gapless
<1>2. CASE OlderArrives
  <2>1. older.thread \in Threads /\ older.cursor \in Numbers
    BY <1>0, <1>2, OlderFields DEF OlderArrives
  <2> DEFINE p == WithOlder(FALSE)
  <2> DEFINE marks == Tear \union Mark("stray", p.status = "ready" /\ p.cached)
  <2> DEFINE kept == [Saved(p) EXCEPT !.olderPages = @ \union {older}]
  <2>2. GoodPage(p)
    BY <1>0, <2>1, WithOlderGood
  <2>3. Put(p, MarkedOnline, marks, kept, stream) /\ UNCHANGED <<load, refresh>>
    BY <1>2 DEF OlderArrives
  <2>4. "torn" \notin scars /\ "torn" \notin marks => Complete(p.snap)
    BY <1>0, <2>1, WithOlderSees
  <2>5. kept.snaps = Saved(p).snaps /\ kept.startup = Saved(p).startup
    <3> HIDE DEF p
    <3>1. Saved(p) \in Stores
      BY <1>0, <2>2, SavedGood DEF Shape, GoodStore
    <3> QED
      BY <3>1 DEF Stores
  <2> HIDE DEF p, marks, kept
  <2>6. Sees' /\ Waiting(stream')
    BY <1>0, <2>2, <2>3, <2>4, <2>5, PutSees
  <2> QED
    BY <1>0, <2>3, <2>6 DEF Gapless
<1>3. CASE OlderFails
  <2>1. older.thread \in Threads /\ older.cursor \in Numbers
    BY <1>0, <1>3, OlderFields DEF OlderFails
  <2> DEFINE p == WithOlder(page.cached)
  <2>2. UNCHANGED <<load, refresh>> /\ (Show(p, MarkedOffline, Tear) \/ Keep(MarkedOffline) \/ Untouched)
    BY <1>3 DEF OlderFails
  <2>3. GoodPage(p)
    BY <1>0, <2>1, WithOlderGood, PageFields
  <2>4. "torn" \notin scars /\ "torn" \notin Tear => Complete(p.snap)
    BY <1>0, <2>1, WithOlderSees
  <2> HIDE DEF p
  <2>5. Sees' /\ Waiting(stream')
    BY <1>0, <2>2, <2>3, <2>4, ShowSees, KeepSees, UntouchedSees
  <2> QED
    BY <1>0, <2>2, <2>5 DEF Gapless
<1> QED
  BY <1>1, <1>2, <1>3

LEMMA GaplessStream ==
  ASSUME PageBounds, Sound, Gapless, StreamOpens \/ StreamRefused \/ StreamBreaks \/ OnMessages
  PROVE  Gapless'
<1>0. /\ Shape /\ Sees /\ Answer(load) /\ Answer(refresh) /\ Waiting(stream)
      /\ stream \in Streams /\ GoodPage(page)
      /\ ("torn" \notin scars => Complete(page.snap))
  BY DEF Sound, Shape, Gapless, GoodStream, Sees
<1>9. \A s \in Shown : <<>> # <<s>>
  OBVIOUS
<1>1. CASE StreamOpens
  <2> DEFINE open == [stream EXCEPT !.state = "open"]
  <2>1. Waiting(open)
    BY <1>0 DEF Waiting, Streams
  <2>2. Put(page, MarkedOnline, {}, store, open) /\ UNCHANGED <<load, refresh>>
    BY <1>1 DEF StreamOpens, requests
  <2> HIDE DEF open
  <2>3. Sees' /\ Waiting(stream')
    BY <1>0, <2>1, <2>2, PutSees
  <2> QED
    BY <1>0, <2>2, <2>3 DEF Gapless
<1>2. CASE StreamRefused \/ StreamBreaks
  <2>1. UNCHANGED <<page, requests, store, scars>>
    BY <1>2 DEF StreamRefused, StreamBreaks
  <2>2. Waiting(stream')
    BY <1>0, <1>2, <1>9 DEF StreamRefused, StreamBreaks, Waiting, Streams
  <2> QED
    BY <1>0, <2>1, <2>2 DEF Gapless, Sees, Unbroken, Answer, requests
<1>4. CASE OnMessages
  <2>1. PICK s \in Shown :
            /\ stream.events = <<s>> /\ Head(stream.events) = s /\ Tail(stream.events) = <<>>
            /\ s.thread = page.thread /\ page.thread \in Threads
    BY <1>0, <1>4, StreamWaits DEF OnMessages
  <2> DEFINE p == Ready(page.thread, FALSE, MergeRealtime(page.snap, s))
  <2> DEFINE open == [stream EXCEPT !.events = <<>>]
  <2> DEFINE marks == Mark("torn", Skips(page.snap, s))
  <2>2. Put(p, MarkedOnline, marks, Saved(p), open) /\ UNCHANGED <<load, refresh>>
    BY <1>4, <2>1 DEF OnMessages, requests
  <2>3. GoodPage(p)
    BY <1>0, <2>1, MergeTyped, ReadyGood, PageFields
  <2>4. Waiting(open)
    BY <1>0, <1>9 DEF Waiting, Streams
  <2>5. "torn" \notin scars /\ "torn" \notin marks => Complete(p.snap)
    <3>1. p.snap = MergeRealtime(page.snap, s)
      BY DEF Ready
    <3>2. Whole(s)
      BY <1>0, <2>1 DEF Waiting
    <3> HIDE DEF p
    <3> QED
      BY <1>0, <3>1, <3>2, MergedSees
  <2> HIDE DEF p, open, marks
  <2>6. Sees' /\ Waiting(stream')
    BY <1>0, <2>2, <2>3, <2>4, <2>5, PutSees
  <2> QED
    BY <1>0, <2>2, <2>6 DEF Gapless
<1> QED
  BY <1>1, <1>2, <1>4

LEMMA GaplessWorld ==
  ASSUME PageBounds, Sound, Gapless,
         \/ \E t \in Threads : NewMessage(t) \/ Publish(t) \/ SelectThread(t)
         \/ LoseLink \/ GoOffline \/ ComeBack \/ OtherRequest \/ Retry \/ Reload
  PROVE  Gapless'
<1>0. /\ World /\ Shape /\ Sees /\ Answer(load) /\ Answer(refresh) /\ Waiting(stream)
      /\ stream \in Streams /\ GoodPage(page)
      /\ ("torn" \notin scars => Complete(page.snap) /\ Unbroken(store))
  BY DEF Sound, Shape, Gapless, GoodStream, Sees
<1>9. \A s \in Shown : <<>> # <<s>>
  OBVIOUS
<1>1. CASE \E t \in Threads : NewMessage(t) \/ SelectThread(t)
  BY <1>0, <1>1 DEF NewMessage, SelectThread, Gapless, Sees, Unbroken, Answer, Waiting, requests
<1>2. ASSUME NEW t \in Threads, Publish(t) PROVE Gapless'
  <2>1. UNCHANGED <<page, requests, store, scars>>
    BY <1>2 DEF Publish
  <2>2. Waiting(stream')
    <3>1. CASE UNCHANGED stream
      BY <1>0, <3>1 DEF Waiting
    <3>2. CASE stream' = [stream EXCEPT !.events = <<Latest(t)>>]
      <4> DEFINE w == Latest(t)
      <4>1. Whole(w)
        BY <1>0, LatestFacts DEF World
      <4> HIDE DEF w
      <4>2. stream'.events = <<w>>
        BY <1>0, <3>2 DEF Streams, w
      <4>3. \A s : <<w>> = <<s>> => s = w
        OBVIOUS
      <4> QED
        BY <4>1, <4>2, <4>3 DEF Waiting
    <3> QED
      BY <1>2, <3>1, <3>2 DEF Publish
  <2> QED
    BY <1>0, <2>1, <2>2 DEF Gapless, Sees, Unbroken, Answer, requests
<1>3. CASE LoseLink
  BY <1>0, <1>3 DEF LoseLink, Gapless, Sees, Unbroken, Answer, Waiting, requests
<1>4. CASE GoOffline
  <2>1. /\ UNCHANGED <<page, requests, store, scars>>
        /\ \/ UNCHANGED stream
           \/ stream' = [stream EXCEPT !.state = "connecting", !.events = <<>>]
    BY <1>4 DEF GoOffline
  <2>2. Waiting(stream')
    BY <1>0, <1>9, <2>1 DEF Waiting, Streams
  <2> QED
    BY <1>0, <2>1, <2>2 DEF Gapless, Sees, Unbroken, Answer, requests
<1>5. CASE ComeBack
  <2>1. (\E c : Resync(c)) \/ (UNCHANGED <<load, stale, refresh>> /\ Untouched)
    BY <1>5 DEF ComeBack
  <2> QED
    BY <1>0, <2>1, ResyncSees, UntouchedSees DEF Gapless
<1>6. CASE OtherRequest
  <2>1. UNCHANGED requests /\ (\E c, marks : Keep(c) \/ Show(page, c, marks))
    BY <1>6 DEF OtherRequest
  <2> QED
    BY <1>0, <2>1, KeepSees DEF Gapless, requests, Answer
<1>7. CASE Retry
  <2>1. UNCHANGED refresh /\ (\E c : LoadInitialChat(c))
    BY <1>7 DEF Retry
  <2> QED
    BY <1>0, <2>1, LoadInitialSees DEF Gapless
<1>8. CASE Reload
  <2> DEFINE p == Startup
  <2>1. "torn" \notin scars => Complete(p.snap)
    BY <1>0, NothingComplete DEF Startup, Ready, Unbroken
  <2> HIDE DEF p
  <2>2. /\ page' = p /\ scars' = {x \in scars : x = "torn"} /\ UNCHANGED store
        /\ load' = [Idle EXCEPT !.phase = "threads", !.initial = TRUE, !.prefer = p.thread,
                                !.thread = p.thread, !.fallback = "reading", !.hint = Navigator]
        /\ refresh' = NoRequest /\ stream' = Connected(stream, NoThread)
    BY <1>8 DEF Reload, p
  <2>3. load'.phase = "threads"
    BY <2>2 DEF Idle
  <2>4. Waiting(stream')
    BY <1>0, <1>9, <2>2 DEF Connected, Waiting
  <2>5. Sees'
    BY <1>0, <2>1, <2>2 DEF Sees, Unbroken
  <2> QED
    BY <2>2, <2>3, <2>4, <2>5, NoAnswer DEF Gapless, Answer
<1> QED
  BY <1>1, <1>2, <1>3, <1>4, <1>5, <1>6, <1>7, <1>8

LEMMA GaplessInit ==
  ASSUME PageBounds, PageInit
  PROVE  Gapless
<1>1. page.snap = NoSnap /\ store.startup.snap = NoSnap /\ \A t \in Threads : store.snaps[t] = NoSnap
  BY DEF PageInit
<1>2. Sees
  BY <1>1, NothingComplete DEF Sees, Unbroken
<1>3. load.phase = "threads" /\ refresh = NoRequest
  BY DEF PageInit, Idle
<1>4. Waiting(stream)
  <2>1. \A s \in Shown : <<>> # <<s>>
    OBVIOUS
  <2> QED
    BY <2>1 DEF PageInit, Waiting
<1> QED
  BY <1>2, <1>3, <1>4, NoAnswer DEF Gapless, Answer

LEMMA AlwaysGapless == PageSpec => []Gapless
<1>1. PageInit => Gapless
  BY GaplessInit, PageBounds
<1>2. Sound /\ Gapless /\ [PageNext]_pageVars => Gapless'
  <2> SUFFICES ASSUME Sound, Gapless, [PageNext]_pageVars PROVE Gapless'
    OBVIOUS
  <2>1. CASE PageNext
    BY <2>1, PageBounds, GaplessLoads, GaplessRefreshes, GaplessOlder, GaplessStream,
       GaplessWorld DEF PageNext
  <2>2. CASE UNCHANGED pageVars
    BY <2>2 DEF pageVars, Gapless, Sees, Unbroken, Answer, Waiting
  <2> QED
    BY <2>1, <2>2
<1> QED
  BY <1>1, <1>2, AlwaysSound, PTL DEF PageSpec

(* No message is lost from sight: one older than the newest shown is      *)
(* shown, or comes with the next pages of older messages, on the page and *)
(* on every copy; unless a step was marked.                               *)
THEOREM NothingOutOfReach == PageSpec => []OlderReachable
<1>1. Gapless => OlderReachable
  BY DEF Gapless, Sees, Unbroken, OlderReachable
<1> QED
  BY <1>1, AlwaysGapless, PTL

-----------------------------------------------------------------------------
(* Online, on the copy of the device: only after another request was      *)
(* answered, or while a load the server refused waits for the fallback.   *)

Refused(l) == l.phase = "refused"
Fresh == conn.reach = "online" /\ OnCopy =>
             "stray" \in scars \/ Refused(load) \/ Refused(stale)
Quiet(o) == o.thread = NoThread => o.state = "closed"
Fed == Fresh /\ Quiet(stream)

LEMMA PutFresh ==
  ASSUME Quiet(stream), NEW p, NEW c, NEW marks, NEW kept, NEW open, Quiet(open),
         Put(p, c, marks, kept, open),
         c.reach = "online" /\ p.status = "ready" /\ p.cached =>
             "stray" \in scars \/ "stray" \in marks \/ Refused(load') \/ Refused(stale')
  PROVE  Fed'
<1>1. /\ page' = p /\ conn' = c
      /\ stream' = Connected(open, RealtimeThread(p))
      /\ scars' = marks \union Mark("torn", p.status = "ready" /\ ~p.cached /\ Hides(p.snap))
                        \union {x \in scars : x = "stray" => p.status = "ready" /\ p.cached}
  BY DEF Put
<1>2. ASSUME p.status = "ready", p.cached PROVE "stray" \in scars \/ "stray" \in marks => "stray" \in scars'
  BY <1>1, <1>2
<1>3. Fresh'
  BY <1>1, <1>2 DEF Fresh, OnCopy
<1>4. Quiet(stream')
  BY <1>1 DEF Connected, Quiet
<1> QED
  BY <1>3, <1>4 DEF Fed

LEMMA ShowFresh ==
  ASSUME Fed, NEW p, NEW c, NEW marks, Show(p, c, marks),
         c.reach = "online" /\ p.status = "ready" /\ p.cached =>
             "stray" \in scars \/ "stray" \in marks \/ Refused(load') \/ Refused(stale')
  PROVE  Fed'
BY PutFresh DEF Show, Fed

(* What the connection was found to be stays, or becomes offline, and the *)
(* refused loads are still there.                                         *)
LEMMA KeepStaysFresh ==
  ASSUME Fed, NEW c, Keep(c),
         c.reach \in {conn.reach, "offline"} \/ ~page.cached,
         Refused(load) \/ Refused(stale) => Refused(load') \/ Refused(stale')
  PROVE  Fed'
<1>1. Show(page, c, {})
  BY DEF Keep
<1>2. c.reach = "online" /\ page.status = "ready" /\ page.cached =>
          "stray" \in scars \/ Refused(load') \/ Refused(stale')
  BY DEF Fed, Fresh, OnCopy
<1> QED
  BY <1>1, <1>2, ShowFresh

LEMMA UntouchedFresh ==
  ASSUME Fed, Untouched,
         Refused(load) \/ Refused(stale) => Refused(load') \/ Refused(stale')
  PROVE  Fed'
BY DEF Fed, Fresh, OnCopy, Untouched, Quiet

(* A load that begins sets a refused one aside.                           *)
LEMMA BeginKeepsRefused ==
  ASSUME NEW initial, NEW t, Begin(initial, t), Refused(load) \/ Refused(stale)
  PROVE  Refused(stale')
BY DEF Begin, Refused, Failing

LEMMA LoadInitialFresh ==
  ASSUME Fed, Shape, NEW c, c.reach = conn.reach, LoadInitialChat(c)
  PROVE  Fed'
<1> DEFINE p == IF page.status = "ready" THEN page ELSE [page EXCEPT !.status = "loading"]
<1>1. Show(p, c, {}) /\ (Refused(load) \/ Refused(stale) => Refused(stale'))
  BY BeginKeepsRefused DEF LoadInitialChat
<1>2. CASE page.status = "ready"
  BY <1>1, <1>2, KeepStaysFresh DEF Keep
<1>3. CASE page.status # "ready"
  <2>1. p.status = "loading"
    BY <1>3, PageFields
  <2> HIDE DEF p
  <2> QED
    BY <1>1, <2>1, ShowFresh
<1> QED
  BY <1>2, <1>3

(* The end of a failed load leaves no copy on a page that counts as       *)
(* online.                                                                *)
LEMMA SettleFresh ==
  ASSUME Fed, NEW l, l.phase \in {"lost", "refused"}, NEW c \in Conns, Settle(l, c)
  PROVE  Fed'
<1> DEFINE away == [c EXCEPT !.reach = "offline"]
<1>1. away.reach = "offline"
  BY DEF Conns
<1>2. \/ Show(page, away, {}) \/ Show(ErrorPage(l), away, {})
      \/ Show(ErrorPage(l), c, {})
  BY DEF Settle
<1>3. ErrorPage(l).status = "error"
  BY DEF ErrorPage
<1> HIDE DEF away
<1> QED
  BY <1>1, <1>2, <1>3, ShowFresh

LEMMA FreshLoads ==
  ASSUME PageBounds, Sound, Fed,
         \/ HandleSelectThread \/ ThreadsAnswered \/ MessagesAnswered \/ LoadArrives
         \/ OpenCachedChatFallback \/ FallbackShut \/ StaleSettles
         \/ LoadLost \/ LoadRefused \/ LoadDenied \/ SessionUnknown \/ SessionEnds
  PROVE  Fed'
<1>0. Shape /\ conn \in Conns /\ load \in Loads /\ stale \in Loads /\ GoodLoad(load)
  BY DEF Sound, Asking, Shape, GoodLoad
<1>1. CASE HandleSelectThread
  <2> DEFINE p == [status |-> "loading", thread |-> wanted, cached |-> page.cached,
                   snap |-> NoSnap]
  <2>1. Show(p, conn, {}) /\ p.status = "loading"
    BY <1>1 DEF HandleSelectThread
  <2> HIDE DEF p
  <2> QED
    BY <2>1, ShowFresh
<1>2. CASE ThreadsAnswered
  <2>1. ~Refused(load) /\ UNCHANGED <<page, conn, stale, stream, scars>>
    BY <1>2 DEF ThreadsAnswered, Refused
  <2> QED
    BY <2>1 DEF Fed, Fresh, OnCopy, Quiet, Refused
<1>3. CASE MessagesAnswered
  <2>1. ~Refused(load) /\ Untouched /\ UNCHANGED stale
    BY <1>3 DEF MessagesAnswered, Refused
  <2> QED
    BY <2>1, UntouchedFresh DEF Refused
<1>4. CASE LoadArrives
  <2> DEFINE p == Ready(load.thread, FALSE, load.snap)
  <2>1. Show(p, MarkedOnline, {}) /\ ~p.cached
    BY <1>4 DEF LoadArrives, Ready
  <2> HIDE DEF p
  <2> QED
    BY <2>1, ShowFresh
<1>5. CASE OpenCachedChatFallback
  <2> DEFINE c == [(IF load.hint THEN conn ELSE MarkedOffline) EXCEPT
                   !.reach = IF load.hint /\ load.phase # "lost" THEN "connecting" ELSE "offline"]
  <2>1. \E p : Show(p, c, {})
    BY <1>5 DEF OpenCachedChatFallback
  <2>2. c.reach # "online"
    <3>1. (IF load.hint THEN conn ELSE MarkedOffline) \in Conns
      BY <1>0, OnlineTyped
    <3> QED
      BY <3>1 DEF Conns
  <2> HIDE DEF c
  <2> QED
    BY <2>1, <2>2, ShowFresh
<1>6. CASE FallbackShut
  <2> DEFINE l == [load EXCEPT !.fallback = "shut"]
  <2>1. l.phase = load.phase
    BY <1>0 DEF Loads
  <2>2. \/ l.phase \in {"lost", "refused"} /\ Settle(l, conn)
        \/ load' = l /\ Untouched /\ UNCHANGED stale
    BY <1>6, <2>1 DEF FallbackShut
  <2> HIDE DEF l
  <2> QED
    BY <1>0, <2>1, <2>2, SettleFresh, UntouchedFresh DEF Refused
<1>7. CASE StaleSettles
  <2> DEFINE l == [stale EXCEPT !.fallback = "shut"]
  <2>1. l.phase = stale.phase
    BY <1>0 DEF Loads
  <2>2. l.phase \in {"lost", "refused"} /\ Settle(l, conn)
    BY <1>7, <2>1 DEF StaleSettles
  <2> HIDE DEF l
  <2> QED
    BY <1>0, <2>2, SettleFresh
<1>8. CASE LoadLost
  <2> DEFINE l == [load EXCEPT !.phase = "lost"]
  <2>1. l.phase = "lost"
    BY <1>0 DEF Loads
  <2>2. Keep(MarkedOffline) \/ Settle(l, MarkedOffline)
    BY <1>8 DEF LoadLost, CatchLoad
  <2>3. MarkedOffline.reach = "offline"
    BY DEF MarkedOffline
  <2> HIDE DEF l
  <2> QED
    BY <2>1, <2>2, <2>3, SettleFresh, ShowFresh, OnlineTyped DEF Keep
<1>9. CASE LoadRefused
  <2> DEFINE l == [load EXCEPT !.phase = "refused"]
  <2>1. l.phase = "refused"
    BY <1>0 DEF Loads
  <2>2. (load' = l /\ Keep(MarkedOnline)) \/ Settle(l, MarkedOnline)
    BY <1>9 DEF LoadRefused, CatchLoad
  <2> HIDE DEF l
  <2> QED
    BY <2>1, <2>2, SettleFresh, ShowFresh, OnlineTyped DEF Keep, Refused
<1>10. CASE LoadDenied
  <2>1. ~Refused(load) /\ Untouched /\ UNCHANGED stale
    BY <1>10 DEF LoadDenied, InFlight, Refused
  <2> QED
    BY <2>1, UntouchedFresh DEF Refused
<1>11. CASE SessionUnknown
  <2>1. /\ UNCHANGED <<page, conn, stream>> /\ scars \subseteq scars'
        /\ (Refused(load) \/ Refused(stale) => Refused(load') \/ Refused(stale'))
    BY <1>11 DEF SessionUnknown, Refused
  <2> QED
    BY <2>1 DEF Fed, Fresh, OnCopy, Quiet
<1>12. CASE SessionEnds
  <2>1. Show(NoPage, conn, {}) /\ NoPage.status = "gone"
    BY <1>12 DEF SessionEnds, NoPage
  <2> QED
    BY <2>1, ShowFresh
<1> QED
  BY <1>1, <1>2, <1>3, <1>4, <1>5, <1>6, <1>7, <1>8, <1>9, <1>10, <1>11, <1>12

LEMMA ResyncFresh ==
  ASSUME Fed, Shape, NEW c, c.reach = conn.reach, Resync(c)
  PROVE  Fed'
<1>1. CASE page.cached \/ page.snap = NoSnap
  BY <1>1, LoadInitialFresh DEF Resync
<1>2. CASE ~(page.cached \/ page.snap = NoSnap)
  <2>1. Keep(c) /\ UNCHANGED <<load, stale>>
    BY <1>2 DEF Resync
  <2> QED
    BY <1>2, <2>1, KeepStaysFresh
<1> QED
  BY <1>1, <1>2

LEMMA FreshAnswers ==
  ASSUME PageBounds, Sound, Fed,
         \/ Probe \/ HealthFallback \/ Resume \/ PushMessage
         \/ RefreshAnswered \/ RefreshArrives \/ RefreshFails
         \/ HandleLoadOlderMessages \/ OlderArrives \/ OlderFails
         \/ StreamOpens \/ StreamRefused \/ StreamBreaks \/ OnMessages
  PROVE  Fed'
<1>0. Shape /\ conn \in Conns /\ stream \in Streams /\ stream.thread = RealtimeThread(page)
      /\ Quiet(stream) /\ MarkedOffline.reach = "offline"
  BY DEF Sound, Shape, GoodStream, Fed, MarkedOffline
<1>1. CASE Probe \/ HealthFallback \/ PushMessage \/ RefreshAnswered \/ HandleLoadOlderMessages
  <2>1. Untouched /\ UNCHANGED <<load, stale>>
    BY <1>1 DEF Probe, HealthFallback, PushMessage, RefreshAnswered, HandleLoadOlderMessages
  <2> QED
    BY <2>1, UntouchedFresh
<1>2. CASE Resume
  <2> DEFINE c == [conn EXCEPT !.hint = Navigator, !.browser = @ /\ Navigator]
  <2>1. c.reach = conn.reach
    BY <1>0 DEF Conns
  <2>2. Resync(c) \/ (Keep(c) /\ UNCHANGED <<load, stale>>)
    BY <1>2 DEF Resume
  <2> HIDE DEF c
  <2> QED
    BY <1>0, <2>1, <2>2, ResyncFresh, KeepStaysFresh
<1>3. CASE RefreshArrives
  <2> DEFINE p == Refreshed(refresh.thread, refresh.snap)
  <2> DEFINE marks == IF page.thread = refresh.thread
            THEN Mark("torn", Skips(page.snap, refresh.snap))
            ELSE Mark("stray", OnCopy)
  <2>1. Show(p, MarkedOnline, marks)
    BY <1>3 DEF RefreshArrives
  <2>2. p.status = "ready" /\ p.cached => "stray" \in marks
    BY DEF Refreshed, Ready, Mark, OnCopy
  <2> HIDE DEF p, marks
  <2> QED
    BY <2>1, <2>2, ShowFresh
<1>4. CASE RefreshFails
  <2>1. (Keep(MarkedOffline) \/ Untouched) /\ UNCHANGED <<load, stale>>
    BY <1>4 DEF RefreshFails
  <2> QED
    BY <1>0, <2>1, KeepStaysFresh, UntouchedFresh
<1>5. CASE OlderArrives
  <2> DEFINE p == WithOlder(FALSE)
  <2> DEFINE marks == Tear \union Mark("stray", p.status = "ready" /\ p.cached)
  <2>1. \E kept : Put(p, MarkedOnline, marks, kept, stream)
    BY <1>5 DEF OlderArrives
  <2>2. p.status = "ready" /\ p.cached => "stray" \in marks
    BY DEF Mark
  <2> HIDE DEF p, marks
  <2> QED
    BY <1>0, <2>1, <2>2, PutFresh
<1>6. CASE OlderFails
  <2>1. /\ \/ \E p : Show(p, MarkedOffline, Tear)
           \/ Keep(MarkedOffline) \/ Untouched
        /\ UNCHANGED <<load, stale>>
    BY <1>6 DEF OlderFails
  <2> QED
    BY <1>0, <2>1, ShowFresh, KeepStaysFresh, UntouchedFresh
<1>7. CASE StreamOpens
  <2> DEFINE open == [stream EXCEPT !.state = "open"]
  <2>1. stream.thread # NoThread
    BY <1>0, <1>7 DEF StreamOpens, Quiet
  <2>2. Quiet(open)
    BY <1>0, <2>1 DEF Quiet, Streams
  <2>3. ~page.cached
    BY <1>0, <2>1 DEF RealtimeThread
  <2>4. Put(page, MarkedOnline, {}, store, open)
    BY <1>7 DEF StreamOpens
  <2> HIDE DEF open
  <2> QED
    BY <1>0, <2>2, <2>3, <2>4, PutFresh
<1>8. CASE StreamRefused \/ StreamBreaks
  <2>1. UNCHANGED <<page, conn, requests, scars>>
    BY <1>8 DEF StreamRefused, StreamBreaks
  <2>2. Quiet(stream')
    BY <1>0, <1>8 DEF StreamRefused, StreamBreaks, Quiet, Streams
  <2> QED
    BY <2>1, <2>2 DEF Fed, Fresh, OnCopy, Refused, requests
<1>9. CASE OnMessages
  <2> DEFINE p == Ready(page.thread, FALSE, MergeRealtime(page.snap, Head(stream.events)))
  <2> DEFINE open == [stream EXCEPT !.events = Tail(@)]
  <2>1. \E kept, marks : Put(p, MarkedOnline, marks, kept, open)
    BY <1>9 DEF OnMessages
  <2>2. Quiet(open)
    BY <1>0 DEF Quiet, Streams
  <2>3. ~p.cached
    BY DEF Ready
  <2> HIDE DEF p, open
  <2> QED
    BY <1>0, <2>1, <2>2, <2>3, PutFresh
<1> QED
  BY <1>1, <1>2, <1>3, <1>4, <1>5, <1>6, <1>7, <1>8, <1>9

LEMMA FreshWorld ==
  ASSUME PageBounds, Sound, Fed,
         \/ \E t \in Threads : NewMessage(t) \/ Publish(t) \/ SelectThread(t)
         \/ LoseLink \/ GoOffline \/ ComeBack \/ OtherRequest \/ Retry \/ Reload
  PROVE  Fed'
<1>0. Shape /\ conn \in Conns /\ stream \in Streams /\ Quiet(stream)
      /\ stream.thread = RealtimeThread(page) /\ MarkedOffline.reach = "offline"
  BY DEF Sound, Shape, GoodStream, Fed, MarkedOffline
<1>1. CASE LoseLink \/ \E t \in Threads : NewMessage(t) \/ SelectThread(t)
  <2>1. UNCHANGED <<page, conn, requests, stream, scars>>
    BY <1>1 DEF LoseLink, NewMessage, SelectThread
  <2> QED
    BY <2>1 DEF Fed, Fresh, OnCopy, Quiet, Refused, requests
<1>2. ASSUME NEW t \in Threads, Publish(t) PROVE Fed'
  <2>1. /\ UNCHANGED <<page, conn, requests, scars>>
        /\ (UNCHANGED stream \/ stream' = [stream EXCEPT !.events = <<Latest(t)>>])
    BY <1>2 DEF Publish
  <2>2. Quiet(stream')
    BY <1>0, <2>1 DEF Quiet, Streams
  <2> QED
    BY <2>1, <2>2 DEF Fed, Fresh, OnCopy, Refused, requests
<1>3. CASE GoOffline
  <2>1. /\ UNCHANGED <<page, requests, scars>>
        /\ conn' = [conn EXCEPT !.hint = FALSE, !.browser = FALSE]
        /\ stream' = IF stream.state = "open"
                     THEN [stream EXCEPT !.state = "connecting", !.events = <<>>] ELSE stream
    BY <1>3 DEF GoOffline
  <2>2. conn'.reach = conn.reach
    BY <1>0, <2>1 DEF Conns
  <2>3. Quiet(stream')
    BY <1>0, <2>1 DEF Quiet, Streams
  <2> QED
    BY <2>1, <2>2, <2>3 DEF Fed, Fresh, OnCopy, Refused, requests
<1>4. CASE ComeBack
  <2> DEFINE c == [conn EXCEPT !.hint = TRUE, !.browser = TRUE]
  <2>1. c.reach = conn.reach
    BY <1>0 DEF Conns
  <2>2. Resync(c) \/ (UNCHANGED <<load, stale>> /\ Untouched)
    BY <1>4 DEF ComeBack
  <2> HIDE DEF c
  <2> QED
    BY <1>0, <2>1, <2>2, ResyncFresh, UntouchedFresh
<1>5. CASE OtherRequest
  <2>1. /\ Show(page, MarkedOnline, Mark("stray", OnCopy)) \/ Keep(MarkedOffline)
        /\ UNCHANGED <<load, stale>>
    BY <1>5 DEF OtherRequest, requests
  <2>2. page.status = "ready" /\ page.cached => "stray" \in Mark("stray", OnCopy)
    BY DEF Mark, OnCopy
  <2> QED
    BY <1>0, <2>1, <2>2, ShowFresh, KeepStaysFresh
<1>6. CASE Retry
  BY <1>0, <1>6, LoadInitialFresh DEF Retry
<1>7. CASE Reload
  <2>1. /\ conn'.reach # "online" /\ stream' = Connected(stream, NoThread)
    BY <1>7 DEF Reload
  <2>2. Quiet(stream')
    BY <1>0, <2>1 DEF Quiet, Connected
  <2> QED
    BY <2>1, <2>2 DEF Fed, Fresh
<1> QED
  BY <1>1, <1>2, <1>3, <1>4, <1>5, <1>6, <1>7

LEMMA AlwaysFed == PageSpec => []Fed
<1>1. PageInit => Fed
  BY DEF PageInit, Fed, Fresh, OnCopy, Quiet
<1>2. Sound /\ Fed /\ [PageNext]_pageVars => Fed'
  <2> SUFFICES ASSUME Sound, Fed, [PageNext]_pageVars PROVE Fed'
    OBVIOUS
  <2>1. CASE PageNext
    BY <2>1, PageBounds, FreshLoads, FreshAnswers, FreshWorld DEF PageNext
  <2>2. CASE UNCHANGED pageVars
    BY <2>2 DEF pageVars, Fed, Fresh, OnCopy, Quiet, Refused
  <2> QED
    BY <2>1, <2>2
<1> QED
  BY <1>1, <1>2, AlwaysSound, PTL DEF PageSpec

(* A page that counts as online shows the server's messages, unless a     *)
(* load is still on its way or another request was answered meanwhile.    *)
THEOREM OnlineShowsServer == PageSpec => []OnlineIsLive
<1>1. Fed => OnlineIsLive
  BY DEF Fed, Fresh, OnlineIsLive, CanUseBackend, Status, Refused
<1> QED
  BY <1>1, AlwaysFed, PTL
=============================================================================
