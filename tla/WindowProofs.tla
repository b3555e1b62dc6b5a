---------------------------- MODULE WindowProofs ----------------------------
(***************************************************************************)
(* The sliding window that the rate limiter and the message quota share,   *)
(* for every queue: what popping the expired front leaves, and that its    *)
(* length is the number of requests allowed within the window.             *)
(***************************************************************************)
EXTENDS SlidingWindow, Integers, FiniteSetTheorems, SequenceTheorems,
        WellFoundedInduction, NaturalsInduction, TLAPS

(* Every non-empty set of numbers has a least one.                         *)
LEMMA Least ==
  ASSUME NEW T, T \subseteq Nat, T # {}
  PROVE  \E n \in T : \A m \in T : n <= m
<1> DEFINE Less == {p \in Nat \X Nat : p[1] < p[2]}
<1>1. IsWellFoundedOn(Less, Nat)
  BY NatLessThanWellFounded DEF OpToRel
<1>2. PICK x \in T : \A y \in T : ~ (<<y, x>> \in Less)
  <2> HIDE DEF Less
  <2> QED
    BY <1>1, WFMin
<1>3. ASSUME NEW y \in T PROVE x <= y
  <2>1. x \in Nat /\ y \in Nat
    OBVIOUS
  <2>2. <<y, x>> \in Nat \X Nat
    BY <2>1
  <2>3. <<y, x>>[1] = y /\ <<y, x>>[2] = x
    OBVIOUS
  <2>4. ~(y < x)
    BY <1>2, <2>2, <2>3, Zenon
  <2> QED
    BY <2>1, <2>4
<1> QED
  BY <1>3

(* There is a place where popping stops: before the first element that is  *)
(* to stay, or at the end.                                                 *)
LEMMA StopExists ==
  ASSUME NEW q \in Seq(Nat), NEW S
  PROVE  \E n \in 0..Len(q) : StopsAt(q, S, n)
<1> DEFINE T == {n \in 1..Len(q) : q[n] \notin S}
<1>0. Len(q) \in Nat
  OBVIOUS
<1>1. CASE T = {}
  <2>1. Len(q) \in 0..Len(q) /\ \A i \in 1..Len(q) : q[i] \in S
    BY <1>0, <1>1
  <2>2. StopsAt(q, S, Len(q))
    BY <2>1 DEF StopsAt
  <2> QED
    BY <2>1, <2>2
<1>2. CASE T # {}
  <2>1. T \subseteq Nat
    OBVIOUS
  <2>2. PICK n \in T : \A m \in T : n <= m
    <3> HIDE DEF T
    <3> QED
      BY <1>2, <2>1, Least
  <2>3. n - 1 \in 0..Len(q) /\ n = (n - 1) + 1 /\ n \in 1..Len(q) /\ q[n] \notin S
    BY <2>2
  <2>4. ASSUME NEW i \in 1..(n - 1) PROVE q[i] \in S
    <3>1. i \in 1..Len(q) /\ ~(n <= i)
      BY <2>3
    <3> QED
      BY <2>2, <3>1
  <2> QED
    BY <2>3, <2>4 DEF StopsAt
<1> QED
  BY <1>1, <1>2

(* Popping removes a prefix of elements of S and stops before another one. *)
LEMMA PopWhileEffect ==
  ASSUME NEW q \in Seq(Nat), NEW S
  PROVE  \E k \in 0..Len(q) :
           /\ StopsAt(q, S, k)
           /\ PopWhile(q, S) \in Seq(Nat)
           /\ Len(PopWhile(q, S)) = Len(q) - k
           /\ \A i \in 1..(Len(q) - k) : PopWhile(q, S)[i] = q[k + i]
<1> DEFINE k == CHOOSE n \in 0..Len(q) : StopsAt(q, S, n)
<1>1. k \in 0..Len(q) /\ StopsAt(q, S, k)
  BY StopExists
<1>2. PopWhile(q, S) = SubSeq(q, k + 1, Len(q))
  BY DEF PopWhile
<1> HIDE DEF k
<1>3. /\ SubSeq(q, k + 1, Len(q)) \in Seq(Nat)
      /\ Len(SubSeq(q, k + 1, Len(q))) = Len(q) - k
      /\ \A i \in 1..(Len(q) - k) : SubSeq(q, k + 1, Len(q))[i] = q[k + i]
  <2>1. Len(q) \in Nat /\ k + 1 \in 1..(Len(q) + 1) /\ Len(q) \in (k + 1 - 1)..Len(q)
    BY <1>1
  <2>2. /\ SubSeq(q, k + 1, Len(q)) \in Seq(Nat)
        /\ Len(SubSeq(q, k + 1, Len(q))) =
             IF k + 1 <= Len(q) THEN Len(q) - (k + 1) + 1 ELSE 0
        /\ \A i \in 1..(Len(q) - (k + 1) + 1) :
             SubSeq(q, k + 1, Len(q))[i] = q[(k + 1) + i - 1]
    BY <2>1, SubSeqProperties
  <2>3. \A i \in 1..(Len(q) - k) : (k + 1) + i - 1 = k + i
    BY <1>1
  <2> QED
    BY <1>1, <2>1, <2>2, <2>3
<1> QED
  BY <1>1, <1>2, <1>3

-----------------------------------------------------------------------------

Sorted(a) == \A i, j \in 1..Len(a) : i <= j => a[i] <= a[j]

(* The queue q is the end of the list a of all instants, which are in the  *)
(* order of time and not in the future; what is missing has expired at t.  *)
Tracks(q, a, t, w) ==
  /\ q \in Seq(Nat) /\ a \in Seq(Nat) /\ t \in Nat /\ w \in Nat
  /\ Sorted(a)
  /\ \A i \in 1..Len(a) : a[i] <= t
  /\ Len(q) <= Len(a)
  /\ \A i \in 1..Len(q) : q[i] = a[Len(a) - Len(q) + i]
  /\ \A i \in 1..(Len(a) - Len(q)) : t - a[i] > w

Gone(t, w) == {x \in 0..t : t - x > w}

RecentIn(a, t, w) == {i \in 1..Len(a) : t - a[i] <= w}

(* Popping the expired front keeps track, and leaves what is recent.       *)
LEMMA TrimTracks ==
  ASSUME NEW q, NEW a, NEW t, NEW w, Tracks(q, a, t, w),
         NEW r, r = PopWhile(q, Gone(t, w))
  PROVE  /\ Tracks(r, a, t, w)
         /\ Len(r) <= Len(q)
         /\ Cardinality(RecentIn(a, t, w)) = Len(r)
<1>0. q \in Seq(Nat) /\ a \in Seq(Nat) /\ t \in Nat /\ w \in Nat
      /\ Len(q) \in Nat /\ Len(a) \in Nat /\ Len(q) <= Len(a)
      /\ \A i \in 1..Len(a) : a[i] \in Nat
  BY DEF Tracks
<1>1. PICK k \in 0..Len(q) :
        /\ StopsAt(q, Gone(t, w), k)
        /\ r \in Seq(Nat)
        /\ Len(r) = Len(q) - k
        /\ \A i \in 1..(Len(q) - k) : r[i] = q[k + i]
  <2>1. q \in Seq(Nat)
    BY <1>0
  <2> QED
    BY <2>1, PopWhileEffect, Zenon
<1> DEFINE d == Len(a) - Len(q)
           e == Len(a) - Len(r)
<1>n. /\ Len(q) \in Nat /\ Len(a) \in Nat /\ Len(q) <= Len(a) /\ k \in 0..Len(q)
      /\ Len(r) = Len(q) - k
  BY <1>0, <1>1
<1>2. d \in Nat /\ e = d + k /\ Len(r) \in Nat /\ e \in 0..Len(a)
      /\ Len(r) = Len(a) - e
  BY <1>n
<1>3. \A i \in 1..Len(q) : q[i] = a[d + i]
  BY DEF Tracks
<1>4. ASSUME NEW i \in 1..Len(r) PROVE r[i] = a[e + i]
  <2>1. k + i \in 1..Len(q) /\ r[i] = q[k + i] /\ d + (k + i) = e + i
    BY <1>0, <1>1, <1>2
  <2> QED
    BY <1>3, <2>1
<1>5. ASSUME NEW i \in 1..e PROVE t - a[i] > w
  <2>1. CASE i \in 1..d
    BY <2>1 DEF Tracks
  <2>2. CASE i \notin 1..d
    <3>1. i - d \in 1..k /\ i - d \in 1..Len(q) /\ d + (i - d) = i
      BY <1>0, <1>1, <1>2, <2>2
    <3>2. q[i - d] \in Gone(t, w)
      BY <1>1, <3>1 DEF StopsAt
    <3>3. q[i - d] = a[i]
      BY <1>3, <3>1
    <3> QED
      BY <3>2, <3>3 DEF Gone
  <2> QED
    BY <2>1, <2>2
<1>6. ASSUME NEW i \in (e + 1)..Len(a) PROVE t - a[i] <= w
  <2>1. k # Len(q) /\ k + 1 \in 1..Len(q) /\ d + (k + 1) = e + 1
        /\ e + 1 \in 1..Len(a) /\ i \in 1..Len(a) /\ e + 1 <= i
    BY <1>n, <1>2
  <2>2. q[k + 1] \notin Gone(t, w) /\ q[k + 1] = a[e + 1]
    BY <1>1, <1>3, <2>1 DEF StopsAt
  <2>3. a[e + 1] <= t /\ a[e + 1] <= a[i] /\ a[e + 1] \in Nat /\ a[i] \in Nat
    BY <1>0, <2>1 DEF Tracks, Sorted
  <2>4. ~(t - a[e + 1] > w)
    BY <1>0, <2>2, <2>3 DEF Gone
  <2>5. t \in Nat /\ w \in Nat
    BY <1>0
  <2> QED
    BY <2>3, <2>4, <2>5
<1>7. RecentIn(a, t, w) = (e + 1)..Len(a)
  <2>1. ASSUME NEW i \in 1..Len(a), t - a[i] <= w PROVE i \in (e + 1)..Len(a)
    <3>1. i \notin 1..e
      BY <1>0, <1>5, <2>1
    <3> QED
      BY <1>0, <1>2, <3>1
  <2>2. (e + 1)..Len(a) \subseteq 1..Len(a)
    BY <1>0, <1>2
  <2> QED
    BY <1>6, <2>1, <2>2 DEF RecentIn
<1>8. Cardinality((e + 1)..Len(a)) = Len(r)
  <2>1. Cardinality((e + 1)..Len(a)) =
          IF e + 1 > Len(a) THEN 0 ELSE Len(a) - (e + 1) + 1
    <3>1. e + 1 \in Int /\ Len(a) \in Int
      BY <1>n, <1>2
    <3> QED
      BY <3>1, FS_Interval, Zenon
  <2> QED
    BY <1>n, <1>2, <2>1
<1>9. Tracks(r, a, t, w)
  BY <1>0, <1>1, <1>2, <1>4, <1>5 DEF Tracks
<1> QED
  <2>1. Len(r) <= Len(q)
    BY <1>n
  <2>2. Cardinality(RecentIn(a, t, w)) = Len(r)
    BY <1>7, <1>8
  <2> QED
    BY <1>9, <2>1, <2>2

(* A request at t is appended to both.                                     *)
LEMMA AppendTracks ==
  ASSUME NEW q, NEW a, NEW t, NEW w, Tracks(q, a, t, w)
  PROVE  Tracks(Append(q, t), Append(a, t), t, w)
<1> DEFINE r == Append(q, t)
           b == Append(a, t)
<1>1. q \in Seq(Nat) /\ a \in Seq(Nat) /\ t \in Nat /\ w \in Nat
      /\ Len(q) \in Nat /\ Len(a) \in Nat /\ Len(q) <= Len(a)
  BY DEF Tracks
<1>2. /\ r \in Seq(Nat) /\ Len(r) = Len(q) + 1 /\ r[Len(q) + 1] = t
      /\ \A i \in 1..Len(q) : r[i] = q[i]
      /\ b \in Seq(Nat) /\ Len(b) = Len(a) + 1 /\ b[Len(a) + 1] = t
      /\ \A i \in 1..Len(a) : b[i] = a[i]
  BY <1>1
<1>n. /\ Len(q) \in Nat /\ Len(a) \in Nat /\ Len(q) <= Len(a)
      /\ Len(r) = Len(q) + 1 /\ Len(b) = Len(a) + 1
  BY <1>1, <1>2
<1> HIDE DEF r, b
<1>3. Sorted(b) /\ \A i \in 1..Len(b) : b[i] <= t
  <2>1. \A i \in 1..Len(b) : i \in 1..Len(a) \/ i = Len(a) + 1
    BY <1>1, <1>2
  <2>2. ASSUME NEW i \in 1..Len(b) PROVE b[i] <= t
    <3>1. CASE i \in 1..Len(a)
      BY <1>2, <3>1 DEF Tracks
    <3>2. CASE i = Len(a) + 1
      BY <1>1, <1>2, <3>2
    <3> QED
      BY <2>1, <3>1, <3>2
  <2>3. ASSUME NEW i \in 1..Len(b), NEW j \in 1..Len(b), i <= j
        PROVE  b[i] <= b[j]
    <3>1. CASE j = Len(a) + 1
      BY <1>2, <2>2, <3>1
    <3>2. CASE j # Len(a) + 1
      <4>1. i \in 1..Len(a) /\ j \in 1..Len(a)
        BY <1>n, <2>3, <3>2
      <4> QED
        BY <1>2, <2>3, <4>1 DEF Tracks, Sorted
    <3> QED
      BY <3>1, <3>2
  <2> QED
    BY <2>2, <2>3 DEF Sorted
<1>4. Len(b) - Len(r) = Len(a) - Len(q)
  BY <1>1, <1>2
<1>5. ASSUME NEW i \in 1..Len(r) PROVE r[i] = b[Len(b) - Len(r) + i]
  <2>1. CASE i \in 1..Len(q)
    <3>1. Len(a) - Len(q) + i \in 1..Len(a)
      BY <1>1, <2>1
    <3> QED
      BY <1>2, <1>4, <2>1, <3>1 DEF Tracks
  <2>2. CASE i = Len(q) + 1
    <3>1. Len(b) - Len(r) + i = Len(a) + 1
      BY <1>n, <2>2
    <3> QED
      BY <1>2, <2>2, <3>1
  <2> QED
    BY <1>1, <1>2, <2>1, <2>2
<1>6. ASSUME NEW i \in 1..(Len(b) - Len(r)) PROVE t - b[i] > w
  <2>1. i \in 1..(Len(a) - Len(q)) /\ i \in 1..Len(a)
    BY <1>1, <1>4
  <2> QED
    BY <1>2, <2>1 DEF Tracks
<1>7. Len(r) <= Len(b)
  BY <1>1, <1>2
<1>8. Tracks(r, b, t, w)
  BY <1>1, <1>2, <1>3, <1>5, <1>6, <1>7 DEF Tracks
<1> QED
  BY <1>8 DEF r, b

(* What has expired stays expired.                                         *)
LEMMA LaterTracks ==
  ASSUME NEW q, NEW a, NEW t, NEW w, Tracks(q, a, t, w)
  PROVE  Tracks(q, a, t + 1, w)
<1>1. /\ t \in Nat /\ w \in Nat /\ Len(q) \in Nat /\ Len(a) \in Nat
      /\ \A i \in 1..Len(a) : a[i] \in Nat /\ a[i] <= t
  BY DEF Tracks
<1>2. ASSUME NEW i \in 1..Len(a) PROVE a[i] <= t + 1
  BY <1>1
<1>3. ASSUME NEW i \in 1..(Len(a) - Len(q)) PROVE (t + 1) - a[i] > w
  <2>1. t - a[i] > w /\ i \in 1..Len(a)
    BY <1>1 DEF Tracks
  <2> QED
    BY <1>1, <2>1
<1>4. t + 1 \in Nat
  BY <1>1
<1> QED
  BY <1>2, <1>3, <1>4 DEF Tracks

(* A sequence of numbers none of which is above t.                         *)
LEMMA BoundedSeq ==
  ASSUME NEW s \in Seq(Nat), NEW t \in Nat, \A i \in 1..Len(s) : s[i] <= t
  PROVE  s \in Seq(0..t)
<1>1. Len(s) \in Nat /\ \A i \in 1..Len(s) : s[i] \in 0..t
  OBVIOUS
<1> QED
  BY <1>1, SeqDef

(* Neither the queue nor the list has an instant in the future.            *)
LEMMA BoundedTracks ==
  ASSUME NEW q, NEW a, NEW t, NEW w, Tracks(q, a, t, w)
  PROVE  q \in Seq(0..t) /\ a \in Seq(0..t)
<1>1. /\ q \in Seq(Nat) /\ a \in Seq(Nat) /\ t \in Nat
      /\ Len(q) \in Nat /\ Len(a) \in Nat /\ Len(q) <= Len(a)
      /\ \A i \in 1..Len(a) : a[i] <= t
      /\ \A i \in 1..Len(q) : q[i] = a[Len(a) - Len(q) + i]
  BY DEF Tracks
<1>2. ASSUME NEW i \in 1..Len(q) PROVE q[i] <= t
  <2>1. Len(a) - Len(q) + i \in 1..Len(a)
    BY <1>1
  <2> QED
    BY <1>1, <2>1
<1> QED
  BY <1>1, <1>2, BoundedSeq

(* Any `most` + 1 successive instants of a span more than w.               *)
Spread(a, most, w) ==
  \A i \in 1..Len(a) : i + most <= Len(a) => a[i + most] - a[i] > w

(* A request that finds fewer than `most` in the trimmed queue keeps the   *)
(* list spread: what it would have to be told apart from has expired.      *)
LEMMA AppendSpread ==
  ASSUME NEW q, NEW a, NEW t, NEW w, NEW most \in Nat \ {0},
         Tracks(q, a, t, w), Spread(a, most, w), Len(q) < most
  PROVE  Spread(Append(a, t), most, w)
<1> DEFINE b == Append(a, t)
<1>1. a \in Seq(Nat) /\ t \in Nat /\ Len(q) \in Nat /\ Len(a) \in Nat
      /\ Len(q) <= Len(a)
  BY DEF Tracks
<1>2. /\ Len(b) = Len(a) + 1 /\ b[Len(a) + 1] = t
      /\ \A i \in 1..Len(a) : b[i] = a[i]
  BY <1>1
<1> HIDE DEF b
<1>3. ASSUME NEW i \in 1..Len(b), i + most <= Len(b)
      PROVE  b[i + most] - b[i] > w
  <2>1. i \in 1..Len(a)
    BY <1>1, <1>2, <1>3
  <2>2. CASE i + most = Len(a) + 1
    <3>1. i \in 1..(Len(a) - Len(q))
      BY <1>1, <2>1, <2>2
    <3>2. t - a[i] > w
      BY <3>1 DEF Tracks
    <3> QED
      BY <1>2, <2>1, <2>2, <3>2
  <2>3. CASE i + most # Len(a) + 1
    <3>1. i + most \in 1..Len(a)
      BY <1>1, <1>2, <1>3, <2>1, <2>3
    <3>2. i + most <= Len(a)
      BY <3>1
    <3>3. a[i + most] - a[i] > w
      BY <2>1, <3>2 DEF Spread
    <3> QED
      BY <1>2, <2>1, <3>1, <3>3
  <2> QED
    BY <2>2, <2>3
<1>4. Spread(b, most, w)
  BY <1>3 DEF Spread
<1> QED
  BY <1>4 DEF b
=============================================================================
