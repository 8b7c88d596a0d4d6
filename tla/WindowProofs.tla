---------------------------- MODULE WindowProofs ----------------------------
(***************************************************************************)
(* What the operators of SlidingWindow do to a limiter's queue, for every  *)
(* window and limit: for AccountsProofs and FreePoolProofs.                *)
(***************************************************************************)
EXTENDS SlidingWindow, SequenceTheorems, FiniteSetTheorems, TLAPS

(* A limiter's queue: oldest first, nothing older than the window.         *)
Queue(q, w) ==
  /\ q \in Seq(Nat)
  /\ \A i, j \in 1..Len(q) : i <= j => q[j] <= q[i]
  /\ \A i \in 1..Len(q) : q[i] <= w

----------------------------------------------------------------------------
(* Facts about SlidingWindow.                                              *)

(* Nothing goes from a queue whose entries are young.                      *)
LEMMA WithinQueue ==
  ASSUME NEW q, NEW w \in Nat, Queue(q, w)
  PROVE  Within(q, w) = q
<1>1. q \in Seq(Nat) /\ Len(q) \in Nat /\ DOMAIN q = 1..Len(q)
  BY LenProperties DEF Queue
<1>2. {i \in DOMAIN q : q[i] > w} = {}
  <2>1. \A i \in 1..Len(q) : q[i] \in Nat /\ q[i] <= w
    BY <1>1 DEF Queue
  <2> QED  BY <1>1, <2>1
<1>3. Within(q, w) = SubSeq(q, 1, Len(q))
  <2> DEFINE old == {i \in DOMAIN q : q[i] > w}
  <2>1. Within(q, w) = SubSeq(q, Cardinality(old) + 1, Len(q))
    BY DEF Within
  <2>2. Cardinality(old) = 0
    BY <1>2, FS_EmptySet
  <2> HIDE DEF old
  <2> QED  BY <2>1, <2>2
<1> QED  BY <1>1, <1>3, SubSeqFull

(* How many entries have become too old when all are one older.            *)
Expired(q, w) == Cardinality({i \in 1..Len(q) : q[i] + 1 > w})

(* An hour, a window, passes: what has become too old is a prefix.         *)
LEMMA OlderQueue ==
  ASSUME NEW q, NEW w \in Nat, Queue(q, w)
  PROVE  /\ Queue(AllOlder(q, w), w) /\ Len(AllOlder(q, w)) <= Len(q)
         /\ Expired(q, w) \in 0..Len(q) /\ Len(AllOlder(q, w)) = Len(q) - Expired(q, w)
         /\ \A i \in 1..(Len(q) - Expired(q, w)) : AllOlder(q, w)[i] = q[Expired(q, w) + i] + 1
<1> DEFINE n == Len(q)
           p == [i \in DOMAIN q |-> q[i] + 1]
           old == {i \in DOMAIN p : p[i] > w}
           k == Cardinality(old)
<1>1. n \in Nat /\ DOMAIN q = 1..n /\ p \in Seq(Nat) /\ Len(p) = n /\ DOMAIN p = 1..n
      /\ \A i \in 1..n : q[i] \in Nat /\ p[i] = q[i] + 1
  <2>1. q \in Seq(Nat) /\ n \in Nat /\ DOMAIN q = 1..n /\ \A i \in 1..n : q[i] \in Nat
    BY LenProperties, ElementOfSeq DEF Queue
  <2>2. p \in [1..n -> Nat] /\ \A i \in 1..n : p[i] = q[i] + 1
    BY <2>1
  <2>3. p \in Seq(Nat) /\ Len(p) = n
    BY <2>1, <2>2, IsASeq, LenProperties
  <2> QED  BY <2>1, <2>2, <2>3
<1>2. \A i, j \in 1..n : i <= j => p[j] <= p[i]
  BY <1>1 DEF Queue
<1> HIDE DEF p
<1>3. /\ IsFiniteSet(old) /\ old \in SUBSET (1..n)
      /\ k \in Nat /\ k <= n
  <2>1. IsFiniteSet(1..n) /\ Cardinality(1..n) = n
    <3>1. 1 \in Int /\ n \in Int /\ (IF 1 > n THEN 0 ELSE n - 1 + 1) = n
      BY <1>1
    <3> HIDE DEF n
    <3> QED  BY <3>1, FS_Interval
  <2>2. old \in SUBSET (1..n)
    BY <1>1
  <2> HIDE DEF old
  <2>3. IsFiniteSet(old) /\ Cardinality(old) <= Cardinality(1..n)
    BY <2>1, <2>2, FS_Subset
  <2> QED  BY <2>1, <2>2, <2>3, FS_CardinalityType
<1>4. \A i \in old : i <= k
  <2> SUFFICES ASSUME NEW i \in old PROVE i <= k
    OBVIOUS
  <2>1. i \in 1..n /\ p[i] > w
    BY <1>1
  <2>2. 1..i \in SUBSET old
    <3> SUFFICES ASSUME NEW j \in 1..i PROVE j \in old
      OBVIOUS
    <3>1. j \in 1..n /\ j <= i
      BY <1>1, <2>1
    <3>2. p[i] <= p[j] /\ p[i] \in Nat /\ p[j] \in Nat
      BY <1>1, <1>2, <2>1, <3>1
    <3> QED  BY <1>1, <2>1, <3>1, <3>2
  <2>3. Cardinality(1..i) = i
    BY <2>1, FS_Interval
  <2> QED  BY <1>3, <2>2, <2>3, FS_Subset
<1> HIDE DEF k
<1>5. AllOlder(q, w) = SubSeq(p, k + 1, n)
  <2>1. AllOlder(q, w) = SubSeq(p, k + 1, Len(p))
    BY DEF AllOlder, Within, k, p
  <2> QED  BY <1>1, <2>1
<1> DEFINE s == SubSeq(p, k + 1, n)
<1>6. /\ s \in Seq(Nat) /\ Len(s) = n - k
      /\ \A i \in 1..(n - k) : s[i] = p[k + i]
  <2>1. k + 1 \in Int /\ n \in Int /\ \A i \in (k + 1)..n : p[i] \in Nat
    BY <1>1, <1>3
  <2>2. /\ s \in Seq(Nat) /\ Len(s) = IF k + 1 <= n THEN n - (k + 1) + 1 ELSE 0
        /\ \A i \in 1..(n - (k + 1) + 1) : s[i] = p[k + 1 + i - 1]
    BY <2>1, SubSeqProperties
  <2>3. n - (k + 1) + 1 = n - k /\ \A i \in 1..(n - k) : k + 1 + i - 1 = k + i
    BY <1>1, <1>3
  <2> HIDE DEF s
  <2>4. Len(s) = n - k
    <3>1. (IF k + 1 <= n THEN n - (k + 1) + 1 ELSE 0) = n - k
      <4>1. \A a, b \in Nat : b <= a => (IF b + 1 <= a THEN a - (b + 1) + 1 ELSE 0) = a - b
        OBVIOUS
      <4>2. n \in Nat /\ k \in Nat /\ k <= n
        BY <1>1, <1>3
      <4> HIDE DEF n
      <4> QED  BY <4>1, <4>2
    <3> QED  BY <2>2, <3>1
  <2>5. \A i \in 1..(n - k) : s[i] = p[k + i]
    BY <2>2, <2>3
  <2> QED  BY <2>2, <2>4, <2>5
<1> HIDE DEF s
<1>7. \A i \in 1..(n - k) : k + i \in 1..n /\ k + i \notin old
  BY <1>1, <1>3, <1>4
<1>8. \A i \in 1..Len(s) : s[i] <= w
  <2> SUFFICES ASSUME NEW i \in 1..(n - k) PROVE p[k + i] <= w
    BY <1>6
  <2>1. k + i \in 1..n /\ p[k + i] \in Nat /\ ~(p[k + i] > w)
    BY <1>1, <1>7
  <2> QED  BY <2>1
<1>9. \A i, j \in 1..Len(s) : i <= j => s[j] <= s[i]
  <2> SUFFICES ASSUME NEW i \in 1..(n - k), NEW j \in 1..(n - k), i <= j PROVE p[k + j] <= p[k + i]
    BY <1>6
  <2>1. k + i \in 1..n /\ k + j \in 1..n /\ k + i <= k + j
    BY <1>3, <1>7
  <2> QED  BY <1>2, <2>1
<1>10. Queue(s, w) /\ Len(s) <= n
  BY <1>1, <1>3, <1>6, <1>8, <1>9 DEF Queue
<1>11. k = Expired(q, w)
  <2>1. old = {i \in 1..Len(q) : q[i] + 1 > w}
    BY <1>1
  <2> HIDE DEF old
  <2> QED  BY <2>1 DEF Expired, k
<1>12. \A i \in 1..(n - k) : s[i] = q[k + i] + 1
  BY <1>1, <1>6, <1>7
<1> HIDE DEF n
<1> QED  BY <1>1, <1>3, <1>5, <1>6, <1>10, <1>11, <1>12 DEF s, n

(* A call.                                                                 *)
LEMMA AppendQueue ==
  ASSUME NEW q, NEW w \in Nat, Queue(q, w)
  PROVE  Queue(Append(q, 0), w) /\ Len(Append(q, 0)) = Len(q) + 1
<1>1. /\ q \in Seq(Nat) /\ Len(q) \in Nat
      /\ \A i \in 1..Len(q) : q[i] \in Nat
  BY DEF Queue
<1> DEFINE s == Append(q, 0)
<1>2. /\ s \in Seq(Nat) /\ Len(s) = Len(q) + 1
      /\ \A i \in 1..Len(q) : s[i] = q[i]
      /\ s[Len(q) + 1] = 0
  BY <1>1, AppendProperties
<1> HIDE DEF s
<1>3. \A i \in 1..Len(s) : i \in 1..Len(q) \/ i = Len(q) + 1
  BY <1>1, <1>2
<1>4. \A i \in 1..Len(s) : s[i] \in Nat /\ s[i] <= w
  BY <1>1, <1>2, <1>3 DEF Queue
<1>5. \A i, j \in 1..Len(s) : i <= j => s[j] <= s[i]
  <2> SUFFICES ASSUME NEW i \in 1..Len(s), NEW j \in 1..Len(s), i <= j PROVE s[j] <= s[i]
    OBVIOUS
  <2>1. CASE j = Len(q) + 1
    BY <1>2, <1>4, <2>1
  <2>2. CASE j \in 1..Len(q)
    <3>1. i \in 1..Len(q)
      BY <1>1, <1>3, <2>2
    <3> QED  BY <1>2, <2>2, <3>1 DEF Queue
  <2> QED  BY <1>3, <2>1, <2>2
<1> QED  BY <1>2, <1>4, <1>5 DEF Queue, s

(* The limiter's queue, of at most max entries, and the history of what it *)
(* let through, which is the same queue.                                   *)
Limited(q, w, max) == Queue(q, w) /\ Len(q) <= max

LEMMA CallLimited ==
  ASSUME NEW q, NEW w \in Nat, NEW max \in Nat, Limited(q, w, max)
  PROVE  /\ Limited(AfterCall(q, w, max), w, max)
         /\ LetThrough(q, w, max) => AfterCall(q, w, max) = Append(Within(q, w), 0)
         /\ ~LetThrough(q, w, max) => AfterCall(q, w, max) = q
<1>1. Within(q, w) = q /\ Len(q) \in Nat /\ Len(q) <= max
  BY WithinQueue DEF Limited, Queue
<1>2. Queue(Append(q, 0), w) /\ Len(Append(q, 0)) = Len(q) + 1
  BY AppendQueue DEF Limited
<1> QED  BY <1>1, <1>2 DEF Limited, LetThrough, AfterCall

LEMMA OlderLimited ==
  ASSUME NEW q, NEW w \in Nat, NEW max \in Nat, Limited(q, w, max)
  PROVE  Limited(AllOlder(q, w), w, max)
<1>1. Queue(AllOlder(q, w), w) /\ Len(AllOlder(q, w)) <= Len(q)
  BY OlderQueue DEF Limited
<1>2. Len(q) \in Nat /\ Len(AllOlder(q, w)) \in Nat /\ Len(q) <= max
  BY <1>1 DEF Limited, Queue
<1> QED  BY <1>1, <1>2 DEF Limited

LEMMA LimitedType ==
  ASSUME NEW q, NEW w \in Nat, NEW max \in Nat, Limited(q, w, max)
  PROVE  q \in Seq(0..w) /\ Len(Within(q, w)) <= max
<1>1. q \in Seq(Nat) /\ Len(q) \in Nat /\ \A i \in 1..Len(q) : q[i] \in Nat /\ q[i] <= w
  BY DEF Limited, Queue
<1>2. \A i \in 1..Len(q) : q[i] \in 0..w
  BY <1>1
<1>3. q \in Seq(0..w)
  BY <1>1, <1>2
<1> QED  BY <1>3, WithinQueue DEF Limited
=============================================================================
