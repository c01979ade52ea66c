---------------------------- MODULE QueueLemmas ----------------------------
(***************************************************************************)
(* Lemmas about queues of buffers in which no buffer is twice: the queue of *)
(* a driver (VIDIOC_QBUF and VIDIOC_DQBUF), or that of a device upstream.    *)
(***************************************************************************)
EXTENDS FrameBuffers, Sequences, FiniteSets, FiniteSetTheorems, TLAPS

Has(q, b) == \E n \in 1 .. Len(q) : q[n] = b
Distinct(q) == \A n, m \in 1 .. Len(q) : q[n] = q[m] => n = m

(* The first is taken out.                                                  *)
LEMMA TailKeeps ==
  ASSUME NEW q \in Seq(Buffers), q # << >>, Distinct(q)
  PROVE  /\ Head(q) \in Buffers /\ Has(q, Head(q))
         /\ Tail(q) \in Seq(Buffers) /\ Distinct(Tail(q))
         /\ \A b \in Buffers : Has(Tail(q), b) <=> Has(q, b) /\ b # Head(q)
<1>1. /\ Len(q) \in Nat \ {0} /\ Head(q) = q[1] /\ q[1] \in Buffers
      /\ Tail(q) \in Seq(Buffers) /\ Len(Tail(q)) = Len(q) - 1
      /\ \A n \in 1 .. Len(q) - 1 : Tail(q)[n] = q[n + 1]
  OBVIOUS
<1>2. Distinct(Tail(q)) /\ Has(q, Head(q))
  BY <1>1 DEF Distinct, Has
<1>3. ASSUME NEW b \in Buffers
      PROVE  Has(Tail(q), b) <=> Has(q, b) /\ b # Head(q)
  <2>1. ASSUME Has(Tail(q), b)  PROVE Has(q, b) /\ b # Head(q)
    BY <1>1, <2>1 DEF Has, Distinct
  <2>2. ASSUME Has(q, b), b # Head(q)  PROVE Has(Tail(q), b)
    <3>1. PICK n \in 1 .. Len(q) : q[n] = b
      BY <2>2 DEF Has
    <3>2. n - 1 \in 1 .. Len(q) - 1 /\ Tail(q)[n - 1] = b
      BY <1>1, <2>2, <3>1
    <3> QED
      BY <1>1, <3>2 DEF Has
  <2> QED
    BY <2>1, <2>2
<1> QED
  BY <1>1, <1>2, <1>3

(* A buffer that is not in the queue comes last.                            *)
LEMMA AppendKeeps ==
  ASSUME NEW q \in Seq(Buffers), Distinct(q), NEW b \in Buffers, ~ Has(q, b)
  PROVE  /\ Append(q, b) \in Seq(Buffers) /\ Distinct(Append(q, b))
         /\ \A c \in Buffers : Has(Append(q, b), c) <=> Has(q, c) \/ c = b
<1> DEFINE r == Append(q, b)
<1>1. /\ Len(q) \in Nat /\ r \in Seq(Buffers) /\ Len(r) = Len(q) + 1
      /\ r[Len(q) + 1] = b /\ \A n \in 1 .. Len(q) : r[n] = q[n]
  OBVIOUS
<1> HIDE DEF r
<1>2. Distinct(r)
  BY <1>1 DEF Distinct, Has
<1>3. ASSUME NEW c \in Buffers
      PROVE  Has(r, c) <=> Has(q, c) \/ c = b
  BY <1>1 DEF Has
<1> QED
  BY <1>1, <1>2, <1>3 DEF r

(* It has one place there, or none.                                         *)
LEMMA OnePosition ==
  ASSUME NEW q \in Seq(Buffers), Distinct(q), NEW b
  PROVE  /\ IsFiniteSet({ n \in DOMAIN q : q[n] = b })
         /\ Cardinality({ n \in DOMAIN q : q[n] = b }) = IF Has(q, b) THEN 1 ELSE 0
<1>1. DOMAIN q = 1 .. Len(q)
  OBVIOUS
<1>2. CASE Has(q, b)
  <2>1. PICK n \in 1 .. Len(q) : q[n] = b
    BY <1>2 DEF Has
  <2>2. { m \in DOMAIN q : q[m] = b } = {n}
    BY <1>1, <2>1 DEF Distinct
  <2> QED
    BY <1>2, <2>2, FS_Singleton
<1>3. CASE ~ Has(q, b)
  <2>1. { m \in DOMAIN q : q[m] = b } = {}
    BY <1>1, <1>3 DEF Has
  <2> QED
    BY <1>3, <2>1, FS_EmptySet
<1> QED
  BY <1>2, <1>3

(* Its places, marked, are one or none.                                      *)
LEMMA OneMark ==
  ASSUME NEW q \in Seq(Buffers), Distinct(q), NEW b, NEW tag
  PROVE  LET marks == { <<tag, n>> : n \in { m \in DOMAIN q : q[m] = b } }
         IN  IF Has(q, b) THEN \E x : marks = {x} ELSE marks = {}
<1> DEFINE marks == { <<tag, n>> : n \in { m \in DOMAIN q : q[m] = b } }
<1>1. DOMAIN q = 1 .. Len(q)
  OBVIOUS
<1>2. CASE Has(q, b)
  <2>1. PICK n \in 1 .. Len(q) : q[n] = b
    BY <1>2 DEF Has
  <2>2. { m \in DOMAIN q : q[m] = b } = {n}
    BY <1>1, <2>1 DEF Distinct
  <2>3. marks = {<<tag, n>>}
    BY <2>2
  <2> QED
    BY <1>2, <2>3
<1>3. CASE ~ Has(q, b)
  <2>1. { m \in DOMAIN q : q[m] = b } = {}
    BY <1>1, <1>3 DEF Has
  <2> QED
    BY <1>3, <2>1
<1> QED
  BY <1>2, <1>3

(* The queue of all the buffers in the order of their numbers.              *)
LEMMA AllInOrder ==
  ASSUME NEW q, q = [n \in 1 .. NBuffers |-> n - 1]
  PROVE  q \in Seq(Buffers) /\ Distinct(q) /\ q # << >> /\ \A b \in Buffers : Has(q, b)
<1>1. q \in Seq(Buffers) /\ Len(q) = NBuffers
  BY NBuffersAssumption DEF Buffers
<1>2. Distinct(q) /\ q # << >>
  BY <1>1, NBuffersAssumption DEF Distinct
<1>3. ASSUME NEW b \in Buffers  PROVE Has(q, b)
  <2>1. b + 1 \in 1 .. NBuffers /\ q[b + 1] = b
    BY NBuffersAssumption DEF Buffers
  <2> QED
    BY <1>1, <2>1 DEF Has
<1> QED
  BY <1>1, <1>2, <1>3

(***************************************************************************)
(* A driver has two queues: the buffers it may fill, and those it has filled. *)
(***************************************************************************)
With(q, d, b) == Has(q, b) \/ Has(d, b)

TwoQueues(q, d) ==
    /\ q \in Seq(Buffers) /\ Distinct(q)
    /\ d \in Seq(Buffers) /\ Distinct(d)
    /\ \A b \in Buffers : ~ (Has(q, b) /\ Has(d, b))

(* Before the first frame the driver has all the buffers.                   *)
LEMMA AllWith ==
  ASSUME NEW q, q = [n \in 1 .. NBuffers |-> n - 1]
  PROVE  TwoQueues(q, << >>) /\ \A b \in Buffers : With(q, << >>, b)
<1>1. q \in Seq(Buffers) /\ Distinct(q) /\ \A b \in Buffers : Has(q, b)
  BY AllInOrder
<1>2. << >> \in Seq(Buffers) /\ Distinct(<< >>) /\ \A b \in Buffers : ~ Has(<< >>, b)
  BY DEF Distinct, Has
<1> QED
  BY <1>1, <1>2 DEF TwoQueues, With

(* It fills the first one.                                                  *)
LEMMA FillKeepsBoth ==
  ASSUME NEW q, NEW d, TwoQueues(q, d), q # << >>
  PROVE  /\ Head(q) \in Buffers
         /\ TwoQueues(Tail(q), Append(d, Head(q)))
         /\ \A b \in Buffers : With(Tail(q), Append(d, Head(q)), b) <=> With(q, d, b)
<1> DEFINE h == Head(q)
           t == Tail(q)
           e == Append(d, h)
<1>1. /\ h \in Buffers /\ Has(q, h) /\ t \in Seq(Buffers) /\ Distinct(t)
      /\ \A b \in Buffers : Has(t, b) <=> Has(q, b) /\ b # h
  BY TailKeeps DEF TwoQueues
<1> HIDE DEF h, t
<1>2. /\ e \in Seq(Buffers) /\ Distinct(e)
      /\ \A b \in Buffers : Has(e, b) <=> Has(d, b) \/ b = h
  BY <1>1, AppendKeeps DEF TwoQueues
<1> HIDE DEF e
<1>3. TwoQueues(t, e) /\ \A b \in Buffers : With(t, e, b) <=> With(q, d, b)
  BY <1>1, <1>2 DEF TwoQueues, With
<1> QED
  BY <1>1, <1>3 DEF h, t, e

(* The first one filled is taken.                                           *)
LEMMA TakeKeepsBoth ==
  ASSUME NEW q, NEW d, TwoQueues(q, d), d # << >>
  PROVE  /\ TwoQueues(q, Tail(d)) /\ Head(d) \in Buffers /\ With(q, d, Head(d))
         /\ \A b \in Buffers : With(q, Tail(d), b) <=> With(q, d, b) /\ b # Head(d)
<1> DEFINE h == Head(d)
           t == Tail(d)
<1>1. /\ h \in Buffers /\ Has(d, h) /\ t \in Seq(Buffers) /\ Distinct(t)
      /\ \A b \in Buffers : Has(t, b) <=> Has(d, b) /\ b # h
  BY TailKeeps DEF TwoQueues
<1> HIDE DEF h, t
<1>2. /\ TwoQueues(q, t) /\ With(q, d, h)
      /\ \A b \in Buffers : With(q, t, b) <=> With(q, d, b) /\ b # h
  BY <1>1 DEF TwoQueues, With
<1> QED
  BY <1>1, <1>2 DEF h, t

(* One that the driver does not have is given.                              *)
LEMMA GiveKeepsBoth ==
  ASSUME NEW q, NEW d, TwoQueues(q, d), NEW b \in Buffers, ~ With(q, d, b)
  PROVE  /\ TwoQueues(Append(q, b), d)
         /\ \A c \in Buffers : With(Append(q, b), d, c) <=> With(q, d, c) \/ c = b
<1> DEFINE r == Append(q, b)
<1>1. /\ r \in Seq(Buffers) /\ Distinct(r)
      /\ \A c \in Buffers : Has(r, c) <=> Has(q, c) \/ c = b
  BY AppendKeeps DEF TwoQueues, With
<1> HIDE DEF r
<1>2. TwoQueues(r, d) /\ \A c \in Buffers : With(r, d, c) <=> With(q, d, c) \/ c = b
  BY <1>1 DEF TwoQueues, With
<1> QED
  BY <1>2 DEF r

(***************************************************************************)
(* Buffers that go round in the order of their numbers.                      *)
(***************************************************************************)

(* How many buffers come before b, from l on.                               *)
TurnFrom(l, b) == IF b < l THEN b + NBuffers - l ELSE b - l

(* The buffers of q have their turn one after the other, from the k-th on.  *)
InTurn(q, l, k) == \A i \in 1 .. Len(q) : TurnFrom(l, q[i]) = (k + i) - 1

LEMMA TurnFromIs ==
  ASSUME NEW l \in Buffers
  PROVE  /\ \A b \in Buffers : TurnFrom(l, b) \in 0 .. NBuffers - 1
         /\ \A b, c \in Buffers : TurnFrom(l, b) = TurnFrom(l, c) => b = c
         /\ \A b \in Buffers : TurnFrom(l, b) = 0 <=> b = l
         /\ NBuffers \in Nat \ {0}
BY NBuffersAssumption DEF TurnFrom, Buffers

(* After the next one by number the first one is the last.                  *)
LEMMA TurnFromNext ==
  ASSUME NEW l \in Buffers, NEW m, m = (l + 1) % NBuffers
  PROVE  /\ m \in Buffers
         /\ \A b \in Buffers : TurnFrom(m, b) = IF b = l THEN NBuffers - 1 ELSE TurnFrom(l, b) - 1
         /\ \A b \in Buffers : TurnFrom(m, b) = 0 <=> b = m
<1> DEFINE n == NBuffers
           x == l
<1>1. n \in Nat \ {0} /\ x \in 0 .. n - 1
  BY NBuffersAssumption DEF Buffers
<1> HIDE DEF n, x
<1>2. (x + 1) % n = IF x + 1 < n THEN x + 1 ELSE 0
  <2>1. CASE x + 1 < n
    BY <1>1, <2>1
  <2>2. CASE x + 1 = n
    BY <1>1, <2>2
  <2> QED
    BY <1>1, <2>1, <2>2
<1>3. m = IF l + 1 < NBuffers THEN l + 1 ELSE 0
  BY <1>2 DEF n, x
<1> QED
  BY <1>3, NBuffersAssumption DEF TurnFrom, Buffers

(* The first has the first turn, the others have the next ones.             *)
LEMMA HeadInTurn ==
  ASSUME NEW q \in Seq(Buffers), q # << >>, NEW l, NEW k \in Nat, InTurn(q, l, k)
  PROVE  /\ Head(q) \in Buffers /\ TurnFrom(l, Head(q)) = k
         /\ Tail(q) \in Seq(Buffers) /\ Len(Tail(q)) = Len(q) - 1 /\ Len(q) \in Nat \ {0}
         /\ InTurn(Tail(q), l, k + 1)
<1> DEFINE t == Tail(q)
<1>1. /\ Len(q) \in Nat \ {0} /\ Head(q) = q[1] /\ q[1] \in Buffers
      /\ t \in Seq(Buffers) /\ Len(t) = Len(q) - 1
      /\ \A n \in 1 .. Len(q) - 1 : t[n] = q[n + 1]
  OBVIOUS
<1> HIDE DEF t
<1>2. TurnFrom(l, Head(q)) = k
  BY <1>1 DEF InTurn
<1>3. ASSUME NEW i \in 1 .. Len(t)  PROVE TurnFrom(l, t[i]) = ((k + 1) + i) - 1
  <2>1. i + 1 \in 1 .. Len(q) /\ t[i] = q[i + 1]
    BY <1>1
  <2>2. TurnFrom(l, q[i + 1]) = (k + (i + 1)) - 1
    BY <2>1 DEF InTurn
  <2> QED
    BY <2>1, <2>2
<1>4. InTurn(t, l, k + 1)
  BY <1>3 DEF InTurn
<1> QED
  BY <1>1, <1>2, <1>4 DEF t

(* One whose turn comes after them is the last.                             *)
LEMMA AppendInTurn ==
  ASSUME NEW q \in Seq(Buffers), NEW l, NEW k \in Nat, InTurn(q, l, k),
         NEW b \in Buffers, TurnFrom(l, b) = k + Len(q)
  PROVE  /\ Append(q, b) \in Seq(Buffers) /\ Len(Append(q, b)) = Len(q) + 1 /\ Len(q) \in Nat
         /\ InTurn(Append(q, b), l, k)
<1> DEFINE r == Append(q, b)
<1>1. /\ Len(q) \in Nat /\ r \in Seq(Buffers) /\ Len(r) = Len(q) + 1
      /\ r[Len(q) + 1] = b /\ \A n \in 1 .. Len(q) : r[n] = q[n]
  OBVIOUS
<1> HIDE DEF r
<1>2. ASSUME NEW i \in 1 .. Len(r)  PROVE TurnFrom(l, r[i]) = (k + i) - 1
  <2>1. CASE i = Len(q) + 1
    BY <1>1, <2>1
  <2>2. CASE i \in 1 .. Len(q)
    BY <1>1, <2>2 DEF InTurn
  <2> QED
    BY <1>1, <2>1, <2>2
<1> QED
  BY <1>1, <1>2 DEF InTurn, r

(* When the first one of all has gone round, each turn comes sooner.        *)
LEMMA NextInTurn ==
  ASSUME NEW q \in Seq(Buffers), NEW l \in Buffers, NEW m, m = (l + 1) % NBuffers,
         NEW k \in Nat, InTurn(q, l, k + 1)
  PROVE  InTurn(q, m, k)
<1>1. ASSUME NEW i \in 1 .. Len(q)  PROVE TurnFrom(m, q[i]) = (k + i) - 1
  <2> DEFINE b == q[i]
  <2>1. b \in Buffers /\ TurnFrom(l, b) = ((k + 1) + i) - 1 /\ i \in Nat \ {0}
    BY DEF InTurn
  <2> HIDE DEF b
  <2>2. b # l
    BY <2>1, TurnFromIs
  <2>3. TurnFrom(m, b) = TurnFrom(l, b) - 1
    BY <2>1, <2>2, TurnFromNext
  <2> QED
    BY <2>1, <2>3 DEF b
<1> QED
  BY <1>1 DEF InTurn
=============================================================================
