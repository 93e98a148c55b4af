---------------------------- MODULE SelectProofs ---------------------------
(***************************************************************************)
(* Proofs that jinn_select, as modelled in module Select, leaves no node   *)
(* of its stack in a wait queue and is woken by exactly one waker, for any *)
(* number of channels, selects, cases, plain senders and receivers, closes *)
(* and cancellations.                                                      *)
(***************************************************************************)
EXTENDS Select, FiniteSetTheorems, TLAPS

----------------------------------------------------------------------------
(* The inductive invariant                                                 *)

Node == [coro : Coro, case : Nat]
Out == {"idle", "top", "lock", "done"}

\* A queue holds the node of a plain waiter once.
PlainOnce(q) == \A i, j \in DOMAIN q : q[i] = q[j] /\ q[i].case = 0 => i = j

QueueTypes ==
  /\ sendq \in [Chan -> Seq(Node)] /\ recvq \in [Chan -> Seq(Node)]
  /\ \A ch \in Chan : PlainOnce(sendq[ch]) /\ PlainOnce(recvq[ch])

\* A plain waiter is queued on its channel, in one of the two queues, while it is
\* parked and not handed to the scheduler.
PlainInv ==
  \A ch \in Chan :
    /\ \A n \in Members(sendq[ch]) \cup Members(recvq[ch]) : n.coro \notin Selectors =>
         /\ n.case = 0 /\ ch = Home[n.coro]
         /\ pc[n.coro] = "parked" /\ n.coro \notin runq
    /\ \A n \in Members(sendq[ch]) \cap Members(recvq[ch]) : n.coro \in Selectors

\* A node of a select is that of one of its cases, and its stack is alive.
SelectInv ==
  \A ch \in Chan :
    /\ \A n \in Members(sendq[ch]) \cup Members(recvq[ch]) : n.coro \in Selectors =>
         /\ n.case # 0 /\ ch \in ChansOf(n.coro)
         /\ pc[n.coro] \in {"swap", "parked", "relock"}

\* The claim of a select that is not switched out yet cannot be taken, because it
\* holds the locks; of one that is, it is taken by whoever enqueues it.
ClaimInv ==
  /\ \A c \in Selectors :
       /\ pc[c] = "swap" => ~claim[c] /\ HoldsAll(c)
       /\ pc[c] = "relock" => claim[c]
       /\ pc[c] = "parked" => (claim[c] <=> c \in runq)
       /\ pc[c] \in {"swap", "parked"} /\ ~claim[c] => \A i \in DOMAIN Cases[c] : NodeQueued(c, i)
  /\ \A c \in runq : pc[c] = "parked"
  /\ \A c \in Coro \ Selectors : pc[c] \in {"idle", "top", "parked", "done"}

IInv == TypeOK /\ QueueTypes /\ PlainInv /\ SelectInv /\ ClaimInv

----------------------------------------------------------------------------
(* Positions in a queue                                                    *)

\* The ranks of the members of a finite set of numbers are 1 .. its size, each
\* taken once.
LEMMA NthFacts ==
  ASSUME NEW S \in SUBSET Nat, IsFiniteSet(S)
  PROVE  /\ Cardinality(S) \in Nat
         /\ \A k \in 1..Cardinality(S) : Nth(S, k) \in S
         /\ \A i \in S : \E k \in 1..Cardinality(S) : Nth(S, k) = i
         /\ \A k, l \in 1..Cardinality(S) : Nth(S, k) = Nth(S, l) => k = l
<1> DEFINE Upto(i) == {j \in S : j <= i}
           n == Cardinality(S)
           f == [i \in S |-> Cardinality(Upto(i))]
<1>1. n \in Nat
  BY FS_CardinalityType
<1>2. ASSUME NEW i \in S
      PROVE  /\ IsFiniteSet(Upto(i)) /\ Cardinality(Upto(i)) \in 1..n
             /\ \A j \in S : i < j => Cardinality(Upto(i)) < Cardinality(Upto(j))
  <2>1. IsFiniteSet(Upto(i)) /\ Cardinality(Upto(i)) <= n /\ Cardinality(Upto(i)) \in Nat
    <3>1. Upto(i) \in SUBSET S
      OBVIOUS
    <3>2. IsFiniteSet(Upto(i)) /\ Cardinality(Upto(i)) <= n
      BY <3>1, FS_Subset
    <3> QED
      BY <3>2, FS_CardinalityType
  <2>2. i \in Upto(i)
    OBVIOUS
  <2>3. Cardinality(Upto(i)) # 0
    BY <2>1, <2>2, FS_EmptySet
  <2>4. ASSUME NEW j \in S, i < j PROVE Cardinality(Upto(i)) < Cardinality(Upto(j))
    <3>0. i \in Nat /\ j \in Nat /\ S \subseteq Nat
      OBVIOUS
    <3>1. Upto(i) \in SUBSET Upto(j) /\ j \in Upto(j) /\ j \notin Upto(i)
      <4>1. ASSUME NEW k \in S, k <= i PROVE k <= j
        <5>1. k \in Nat
          OBVIOUS
        <5> QED
          BY <2>4, <3>0, <4>1, <5>1
      <4>2. j <= j /\ ~(j <= i)
        BY <2>4, <3>0
      <4> QED
        BY <4>1, <4>2
    <3>2. IsFiniteSet(Upto(j)) /\ Cardinality(Upto(j)) \in Nat
      <4>1. Upto(j) \in SUBSET S
        OBVIOUS
      <4> QED
        BY <4>1, FS_Subset, FS_CardinalityType
    <3>3. /\ Cardinality(Upto(i)) <= Cardinality(Upto(j))
          /\ Cardinality(Upto(j)) = Cardinality(Upto(i)) => Upto(j) = Upto(i)
      BY <3>1, <3>2, FS_Subset
    <3> HIDE DEF Upto
    <3> QED
      BY <2>1, <3>1, <3>2, <3>3
  <2> HIDE DEF Upto
  <2> QED
    BY <1>1, <2>1, <2>3, <2>4
<1>3. f \in Injection(S, 1..n)
  <2>1. f \in [S -> 1..n]
    BY <1>2
  <2>2. ASSUME NEW i \in S, NEW j \in S, f[i] = f[j] PROVE i = j
    <3>1. f[i] = Cardinality(Upto(i)) /\ f[j] = Cardinality(Upto(j))
      OBVIOUS
    <3>2. Cardinality(Upto(i)) \in 1..n /\ Cardinality(Upto(j)) \in 1..n
      BY <1>2
    <3>3. /\ i < j => Cardinality(Upto(i)) < Cardinality(Upto(j))
          /\ j < i => Cardinality(Upto(j)) < Cardinality(Upto(i))
      BY <1>2
    <3>4. i \in Nat /\ j \in Nat
      OBVIOUS
    <3>5. Cardinality(Upto(i)) = Cardinality(Upto(j))
      BY <2>2
    <3> HIDE DEF Upto, f, n
    <3>6. ~(i < j) /\ ~(j < i)
      BY <1>1, <3>2, <3>3, <3>5
    <3> QED
      BY <3>4, <3>6
  <2> QED
    BY <2>1, <2>2 DEF Injection, IsInjective
<1>4. IsFiniteSet(1..n) /\ Cardinality(1..n) = n
  BY <1>1, FS_Interval
<1>5. f \in Surjection(S, 1..n)
  BY <1>3, <1>4, FS_Injection
<1>6. ASSUME NEW k \in 1..n PROVE Nth(S, k) \in S /\ f[Nth(S, k)] = k
  <2>1. \E i \in S : Cardinality({j \in S : j <= i}) = k
    BY <1>5 DEF Surjection
  <2> QED
    BY <2>1 DEF Nth
<1>7. ASSUME NEW i \in S PROVE f[i] \in 1..n /\ Nth(S, f[i]) = i
  <2>1. f[i] \in 1..n
    BY <1>3 DEF Injection
  <2>2. Nth(S, f[i]) \in S /\ f[Nth(S, f[i])] = f[i]
    BY <1>6, <2>1
  <2> HIDE DEF f
  <2> QED
    BY <1>3, <2>1, <2>2 DEF Injection, IsInjective
<1> HIDE DEF f
<1>8. \A k, l \in 1..n : Nth(S, k) = Nth(S, l) => k = l
  BY <1>6
<1> QED
  BY <1>1, <1>6, <1>7, <1>8

\* A set of numbers that is not empty has a least element.
LEMMA MinFacts ==
  ASSUME NEW S \in SUBSET Nat, S # {}
  PROVE  Min(S) \in S /\ \A y \in S : Min(S) <= y
<1>1. \E x \in S : \A y \in S : ~(<<y, x>> \in OpToRel(<, Nat))
  BY NatLessThanWellFounded, WFMin
<1>2. \A x, y \in Nat : y < x => <<y, x>> \in OpToRel(<, Nat)
  BY DEF OpToRel
<1>3. PICK x \in S : \A y \in S : ~(<<y, x>> \in OpToRel(<, Nat))
  BY <1>1
<1>4. \A y \in S : x <= y
  <2> SUFFICES ASSUME NEW y \in S PROVE x <= y
    OBVIOUS
  <2>1. x \in Nat /\ y \in Nat
    OBVIOUS
  <2>2. ~(y < x)
    BY <1>2, <1>3, <2>1
  <2> QED
    BY <2>1, <2>2
<1> QED
  BY <1>4 DEF Min

LEMMA PickFacts ==
  ASSUME NEW X, NEW q \in Seq(X), NEW S \in SUBSET DOMAIN q
  PROVE  /\ PickAt(q, S) \in Seq(X)
         /\ Members(PickAt(q, S)) = {q[i] : i \in S}
         /\ \A i, j \in DOMAIN PickAt(q, S) : \E k, l \in S :
              /\ PickAt(q, S)[i] = q[k] /\ PickAt(q, S)[j] = q[l]
              /\ k = l => i = j
<1>1. S \in SUBSET Nat /\ IsFiniteSet(S)
  <2>1. DOMAIN q = 1..Len(q) /\ IsFiniteSet(1..Len(q))
    BY FS_Interval
  <2> QED
    BY <2>1, FS_Subset
<1>2. /\ Cardinality(S) \in Nat
      /\ \A k \in 1..Cardinality(S) : Nth(S, k) \in S
      /\ \A i \in S : \E k \in 1..Cardinality(S) : Nth(S, k) = i
      /\ \A k, l \in 1..Cardinality(S) : Nth(S, k) = Nth(S, l) => k = l
  BY <1>1, NthFacts
<1>3. /\ DOMAIN PickAt(q, S) = 1..Cardinality(S)
      /\ \A k \in 1..Cardinality(S) : PickAt(q, S)[k] = q[Nth(S, k)]
  BY DEF PickAt
<1>4. \A i \in S : q[i] \in X
  OBVIOUS
<1>5. PickAt(q, S) \in Seq(X)
  BY <1>2, <1>4 DEF PickAt
<1>6. Members(PickAt(q, S)) = {q[i] : i \in S}
  BY <1>2, <1>3 DEF Members
<1>7. ASSUME NEW i \in DOMAIN PickAt(q, S), NEW j \in DOMAIN PickAt(q, S)
      PROVE  \E k, l \in S : /\ PickAt(q, S)[i] = q[k] /\ PickAt(q, S)[j] = q[l]
                             /\ k = l => i = j
  <2>1. Nth(S, i) \in S /\ Nth(S, j) \in S /\ (Nth(S, i) = Nth(S, j) => i = j)
    BY <1>2, <1>3
  <2> QED
    BY <1>3, <2>1
<1> QED
  BY <1>5, <1>6, <1>7

\* The operations of the queues, by what they leave in.
LEMMA SubSeqFacts ==
  ASSUME NEW q \in Seq(Node), NEW k \in 0..Len(q)
  PROVE  LET r == SubSeq(q, k + 1, Len(q))
         IN  /\ r \in Seq(Node) /\ Len(r) = Len(q) - k
             /\ \A i \in 1..(Len(q) - k) : r[i] = q[k + i]
OBVIOUS

LEMMA PopFacts ==
  ASSUME NEW q \in Seq(Node), PlainOnce(q)
  PROVE  /\ PopRest(q) \in Seq(Node) /\ PlainOnce(PopRest(q))
         /\ Members(PopRest(q)) \subseteq Members(q)
         /\ \A n \in Members(q) \ Members(PopRest(q)) : n.coro \in Popped(q) \/ ~Claimable(n)
         /\ \A c \in Popped(q) : \E n \in Members(q) :
              /\ n.coro = c /\ Claimable(n)
              /\ n.case = 0 => n \notin Members(PopRest(q))
<1>1. CASE Wakeable(q) = {}
  <2>1. PopRest(q) = <<>> /\ Popped(q) = {}
    BY <1>1 DEF PopRest, Popped
  <2>2. \A n \in Members(q) : ~Claimable(n)
    BY <1>1 DEF Wakeable, Members
  <2>3. Members(<<>>) = {} /\ PlainOnce(<<>>) /\ <<>> \in Seq(Node)
    BY DEF Members, PlainOnce
  <2> QED
    BY <2>1, <2>2, <2>3
<1>2. CASE Wakeable(q) # {}
  <2> DEFINE k == Min(Wakeable(q))
             r == SubSeq(q, k + 1, Len(q))
  <2>1. Wakeable(q) \in SUBSET Nat /\ Wakeable(q) \subseteq 1..Len(q)
    BY DEF Wakeable
  <2>2. k \in Wakeable(q) /\ \A y \in Wakeable(q) : k <= y
    BY <1>2, <2>1, MinFacts
  <2>3. k \in 1..Len(q) /\ Claimable(q[k]) /\ \A i \in 1..Len(q) : i < k => ~Claimable(q[i])
    <3>1. k \in 1..Len(q) /\ Claimable(q[k])
      BY <2>1, <2>2 DEF Wakeable
    <3>2. ASSUME NEW i \in 1..Len(q), i < k, Claimable(q[i]) PROVE FALSE
      <4>1. i \in Wakeable(q)
        BY <3>2 DEF Wakeable
      <4>2. k <= i
        BY <2>2, <4>1
      <4> HIDE DEF k
      <4> QED
        BY <3>1, <3>2, <4>2
    <3> QED
      BY <3>1, <3>2
  <2> HIDE DEF k
  <2>4. /\ r \in Seq(Node) /\ Len(r) = Len(q) - k
        /\ \A i \in 1..(Len(q) - k) : r[i] = q[k + i]
    BY <2>3, SubSeqFacts
  <2>5. PopRest(q) = r /\ Popped(q) = {q[k].coro}
    BY <1>2 DEF PopRest, Popped, k
  <2> HIDE DEF r
  <2>6. DOMAIN q = 1..Len(q) /\ DOMAIN r = 1..(Len(q) - k) /\ Len(q) \in Nat
    BY <2>4
  <2>7. \A i \in 1..(Len(q) - k) : k + i \in 1..Len(q) /\ k + i # k
    BY <2>3, <2>6
  <2>8. Members(r) \subseteq Members(q)
    BY <2>4, <2>6, <2>7 DEF Members
  <2>9. PlainOnce(r)
    <3>1. ASSUME NEW i \in DOMAIN r, NEW j \in DOMAIN r, r[i] = r[j], r[i].case = 0 PROVE i = j
      <4>1. q[k + i] = q[k + j] /\ q[k + i].case = 0
        BY <2>4, <2>6, <3>1
      <4>2. k + i = k + j
        BY <2>6, <2>7, <4>1 DEF PlainOnce
      <4> QED
        BY <2>3, <2>6, <4>2
    <3> QED
      BY <3>1 DEF PlainOnce
  <2>10. ASSUME NEW n \in Members(q), n \notin Members(r) PROVE n.coro = q[k].coro \/ ~Claimable(n)
    <3>1. PICK i \in 1..Len(q) : n = q[i]
      BY <2>6 DEF Members
    <3>2. CASE i > k
      <4>1. i - k \in 1..(Len(q) - k) /\ k + (i - k) = i
        BY <2>3, <2>6, <3>2
      <4>2. r[i - k] = q[i]
        BY <2>4, <4>1
      <4> QED
        BY <2>6, <2>10, <3>1, <4>1, <4>2 DEF Members
    <3>3. CASE i <= k
      BY <2>3, <3>1, <3>3
    <3> QED
      BY <2>3, <3>2, <3>3
  <2>11. q[k] \in Members(q)
    BY <2>3, <2>6 DEF Members
  <2>12. q[k].case = 0 => q[k] \notin Members(r)
    <3> SUFFICES ASSUME q[k].case = 0, NEW i \in DOMAIN r, r[i] = q[k] PROVE FALSE
      BY DEF Members
    <3>1. q[k + i] = q[k] /\ k + i \in DOMAIN q /\ k + i # k
      BY <2>4, <2>6, <2>7
    <3> QED
      BY <2>3, <2>6, <3>1 DEF PlainOnce
  <2> QED
    BY <2>3, <2>4, <2>5, <2>8, <2>9, <2>10, <2>11, <2>12
<1> QED
  BY <1>1, <1>2

LEMMA DropFacts ==
  ASSUME NEW q \in Seq(Node), PlainOnce(q), NEW c
  PROVE  /\ DropFirst(q, c) \in Seq(Node) /\ PlainOnce(DropFirst(q, c))
         /\ Members(DropFirst(q, c)) \subseteq Members(q)
         /\ \A n \in Members(q) \ Members(DropFirst(q, c)) : n.coro = c
         /\ FirstOf(q, c) = {} => DropFirst(q, c) = q
         /\ FirstOf(q, c) # {} => \E n \in Members(q) : n.coro = c
<1>1. CASE FirstOf(q, c) = {}
  BY <1>1 DEF DropFirst
<1>2. CASE FirstOf(q, c) # {}
  <2>1. PICK k \in FirstOf(q, c) : DropFirst(q, c) = SubSeq(q, 1, k - 1) \o SubSeq(q, k + 1, Len(q))
    BY <1>2 DEF DropFirst
  <2>2. k \in 1..Len(q) /\ q[k].coro = c /\ Len(q) \in Nat /\ DOMAIN q = 1..Len(q)
    BY DEF FirstOf
  <2> DEFINE r == SubSeq(q, 1, k - 1) \o SubSeq(q, k + 1, Len(q))
             src(i) == IF i < k THEN i ELSE i + 1
  <2>3. /\ r \in Seq(Node) /\ Len(r) = Len(q) - 1 /\ DOMAIN r = 1..(Len(q) - 1)
        /\ \A i \in 1..(Len(q) - 1) : r[i] = q[src(i)]
    <3> DEFINE a == SubSeq(q, 1, k - 1)
               b == SubSeq(q, k + 1, Len(q))
    <3>0. k \in Nat /\ k \in 0..Len(q) /\ k >= 1 /\ k <= Len(q) /\ Len(q) \in Nat
      BY <2>2
    <3>1. a \in Seq(Node) /\ Len(a) = k - 1 /\ \A i \in 1..(k - 1) : a[i] = q[i]
      BY <2>2
    <3>2. b \in Seq(Node) /\ Len(b) = Len(q) - k /\ \A i \in 1..(Len(q) - k) : b[i] = q[k + i]
      BY <3>0, SubSeqFacts
    <3> HIDE DEF a, b
    <3>3. /\ a \o b \in Seq(Node) /\ Len(a \o b) = Len(q) - 1 /\ DOMAIN (a \o b) = 1..(Len(q) - 1)
      <4>1. a \o b \in Seq(Node) /\ Len(a \o b) = Len(a) + Len(b) /\ DOMAIN (a \o b) = 1..Len(a \o b)
        BY <3>1, <3>2
      <4>2. Len(a) + Len(b) = Len(q) - 1
        BY <3>0, <3>1, <3>2
      <4> QED
        BY <4>1, <4>2
    <3>4. ASSUME NEW i \in 1..(Len(q) - 1) PROVE (a \o b)[i] = q[src(i)]
      <4>1. CASE i < k
        BY <2>2, <3>1, <3>2, <4>1
      <4>2. CASE i >= k
        <5>1. i - (k - 1) \in 1..(Len(q) - k) /\ k + (i - (k - 1)) = i + 1
          BY <2>2, <4>2
        <5>2. (a \o b)[i] = b[i - (k - 1)]
          BY <2>2, <3>1, <3>2, <4>2
        <5>3. b[i - (k - 1)] = q[k + (i - (k - 1))]
          BY <3>2, <5>1
        <5> QED
          BY <3>0, <4>2, <5>1, <5>2, <5>3
      <4>3. i < k \/ i >= k
        BY <3>0
      <4> QED
        BY <4>1, <4>2, <4>3
    <3> QED
      BY <3>3, <3>4 DEF a, b
  <2> HIDE DEF r
  <2>4. \A i \in 1..(Len(q) - 1) : src(i) \in 1..Len(q)
    BY <2>2
  <2>5. \A i, j \in 1..(Len(q) - 1) : src(i) = src(j) => i = j
    BY <2>2
  <2>6. \A i \in 1..Len(q) : i # k => \E j \in 1..(Len(q) - 1) : src(j) = i
    <3> SUFFICES ASSUME NEW i \in 1..Len(q), i # k PROVE \E j \in 1..(Len(q) - 1) : src(j) = i
      OBVIOUS
    <3>1. CASE i < k
      BY <2>2, <3>1
    <3>2. CASE i > k
      <4>1. i - 1 \in 1..(Len(q) - 1) /\ src(i - 1) = i
        BY <2>2, <3>2
      <4> QED
        BY <4>1
    <3> QED
      BY <2>2, <3>1, <3>2
  <2> HIDE DEF src
  <2>7. Members(r) \subseteq Members(q)
    BY <2>2, <2>3, <2>4 DEF Members
  <2>8. ASSUME NEW n \in Members(q), n \notin Members(r) PROVE n.coro = c
    <3>1. PICK i \in 1..Len(q) : n = q[i]
      BY <2>2 DEF Members
    <3>2. i = k
      BY <2>3, <2>6, <2>8, <3>1 DEF Members
    <3> QED
      BY <2>2, <3>1, <3>2
  <2>9. PlainOnce(r)
    BY <2>2, <2>3, <2>4, <2>5 DEF PlainOnce
  <2>10. \E n \in Members(q) : n.coro = c
    BY <2>2 DEF Members
  <2> QED
    BY <1>2, <2>1, <2>3, <2>7, <2>8, <2>9, <2>10 DEF r
<1> QED
  BY <1>1, <1>2

LEMMA ConcatFacts ==
  ASSUME NEW q \in Seq(Node), NEW r \in Seq(Node), PlainOnce(q), PlainOnce(r),
         \A n \in Members(q) \cap Members(r) : n.case # 0
  PROVE  /\ q \o r \in Seq(Node) /\ PlainOnce(q \o r)
         /\ Members(q \o r) = Members(q) \cup Members(r)
<1> DEFINE s == q \o r
<1>1. /\ s \in Seq(Node) /\ Len(s) = Len(q) + Len(r) /\ Len(q) \in Nat /\ Len(r) \in Nat
      /\ DOMAIN s = 1..(Len(q) + Len(r)) /\ DOMAIN q = 1..Len(q) /\ DOMAIN r = 1..Len(r)
      /\ \A i \in 1..Len(q) : s[i] = q[i]
      /\ \A i \in 1..Len(r) : s[Len(q) + i] = r[i]
  OBVIOUS
<1> HIDE DEF s
<1>2. \A i \in 1..(Len(q) + Len(r)) :
         i \in 1..Len(q) \/ (i - Len(q) \in 1..Len(r) /\ s[i] = r[i - Len(q)])
  <2> SUFFICES ASSUME NEW i \in 1..(Len(q) + Len(r)), i > Len(q)
               PROVE  i - Len(q) \in 1..Len(r) /\ s[i] = r[i - Len(q)]
    BY <1>1
  <2>1. i - Len(q) \in 1..Len(r) /\ Len(q) + (i - Len(q)) = i
    BY <1>1
  <2> QED
    BY <1>1, <2>1
<1>3. Members(s) \subseteq Members(q) \cup Members(r)
  <2> SUFFICES ASSUME NEW i \in 1..(Len(q) + Len(r)) PROVE s[i] \in Members(q) \cup Members(r)
    BY <1>1 DEF Members
  <2>1. CASE i \in 1..Len(q)
    BY <1>1, <2>1 DEF Members
  <2>2. CASE i - Len(q) \in 1..Len(r) /\ s[i] = r[i - Len(q)]
    BY <1>1, <2>2 DEF Members
  <2> QED
    BY <1>2, <2>1, <2>2
<1>4. Members(q) \subseteq Members(s)
  <2>1. \A i \in 1..Len(q) : i \in 1..(Len(q) + Len(r))
    BY <1>1
  <2> QED
    BY <1>1, <2>1 DEF Members
<1>5. Members(r) \subseteq Members(s)
  <2>1. \A i \in 1..Len(r) : Len(q) + i \in 1..(Len(q) + Len(r))
    BY <1>1
  <2> QED
    BY <1>1, <2>1 DEF Members
<1>6. ASSUME NEW i \in DOMAIN s, NEW j \in DOMAIN s, s[i] = s[j], s[i].case = 0 PROVE i = j
  <2>1. CASE i \in 1..Len(q) /\ j \in 1..Len(q)
    BY <1>1, <1>6, <2>1 DEF PlainOnce
  <2>2. CASE i \notin 1..Len(q) /\ j \notin 1..Len(q)
    <3>1. i - Len(q) = j - Len(q)
      <4>1. /\ i - Len(q) \in 1..Len(r) /\ s[i] = r[i - Len(q)]
            /\ j - Len(q) \in 1..Len(r) /\ s[j] = r[j - Len(q)]
        BY <1>1, <1>2, <2>2
      <4>2. \A k, l \in 1..Len(r) : r[k] = r[l] /\ r[k].case = 0 => k = l
        BY <1>1 DEF PlainOnce
      <4> QED
        BY <1>6, <4>1, <4>2
    <3> QED
      BY <1>1, <3>1
  <2>3. ASSUME NEW k \in 1..Len(q), NEW l \in 1..Len(r), q[k] = r[l], q[k].case = 0 PROVE FALSE
    BY <1>1, <2>3 DEF Members
  <2> QED
    BY <1>1, <1>2, <1>6, <2>1, <2>2, <2>3
<1> QED
  BY <1>1, <1>3, <1>4, <1>5, <1>6 DEF PlainOnce, s

LEMMA AppendFacts ==
  ASSUME NEW q \in Seq(Node), PlainOnce(q), NEW n \in Node, n \notin Members(q)
  PROVE  /\ Append(q, n) \in Seq(Node) /\ PlainOnce(Append(q, n))
         /\ Members(Append(q, n)) = Members(q) \cup {n}
<1>1. /\ <<n>> \in Seq(Node) /\ PlainOnce(<<n>>) /\ Members(<<n>>) = {n}
      /\ Append(q, n) = q \o <<n>>
  BY DEF PlainOnce, Members
<1> QED
  BY <1>1, ConcatFacts

----------------------------------------------------------------------------
(* Steps that only move coroutines outside of the queues, and wake-ups     *)

\* Coroutines that wait nowhere move on; who is between the push of its nodes and
\* the switch keeps its locks.
Moves ==
  /\ \A c \in Coro : pc'[c] = pc[c] \/ (pc[c] \in Out /\ pc'[c] \in Out)
  /\ \A c \in Coro \ Selectors : pc'[c] # "lock"
  /\ \A c \in Selectors : pc[c] = "swap" /\ HoldsAll(c) => HoldsAll(c)'

QuietInv == QueueTypes /\ PlainInv /\ SelectInv /\ ClaimInv

LEMMA TypeFacts ==
  ASSUME IInv
  PROVE  /\ \A ch \in Chan : sendq[ch] \in Seq(Node) /\ recvq[ch] \in Seq(Node)
         /\ \A ch \in Chan : \A n \in Members(sendq[ch]) \cup Members(recvq[ch]) :
              n \in Node /\ n.coro \in Coro /\ n.case \in Nat
              /\ n = [coro |-> n.coro, case |-> n.case]
         /\ \A c \in Selectors : c \in Coro /\ c # None
         /\ \A c \in Selectors : \A i \in DOMAIN Cases[c] :
              i \in Nat \ {0} /\ Cases[c][i].chan \in Chan /\ Cases[c][i].chan \in ChansOf(c)
         /\ \A c \in Selectors : ChansOf(c) \subseteq Chan
<1>1. \A ch \in Chan : sendq[ch] \in Seq(Node) /\ recvq[ch] \in Seq(Node)
  BY DEF IInv, QueueTypes
<1>2. ASSUME NEW ch \in Chan, NEW n \in Members(sendq[ch]) \cup Members(recvq[ch])
      PROVE  n \in Node
  BY <1>1 DEF Members
<1>3. \A n \in Node : n.coro \in Coro /\ n.case \in Nat /\ n = [coro |-> n.coro, case |-> n.case]
  BY DEF Node
<1>4. \A c \in Selectors : c \in Coro /\ c # None
  BY SelectAssumption DEF Coro
<1>5. ASSUME NEW c \in Selectors, NEW i \in DOMAIN Cases[c]
      PROVE  i \in Nat \ {0} /\ Cases[c][i].chan \in Chan /\ Cases[c][i].chan \in ChansOf(c)
  <2>1. Cases[c] \in Seq([chan : Chan, is_send : BOOLEAN])
    BY SelectAssumption
  <2> DEFINE Case == [chan : Chan, is_send : BOOLEAN]
  <2>2. Cases[c][i] \in Case /\ i \in Nat \ {0}
    <3> HIDE DEF Case
    <3>1. Cases[c] \in Seq(Case)
      BY <2>1 DEF Case
    <3> QED
      BY <3>1
  <2>3. Cases[c][i].chan \in Chan
    BY <2>2
  <2> QED
    BY <2>2, <2>3 DEF ChansOf
<1>6. \A c \in Selectors : ChansOf(c) \subseteq Chan
  BY <1>5 DEF ChansOf
<1> QED
  BY <1>1, <1>2, <1>3, <1>4, <1>5, <1>6

LEMMA QuietStep ==
  ASSUME IInv, Moves, UNCHANGED <<sendq, recvq, claim, runq>>
  PROVE  QuietInv'
<1> USE DEF QuietInv
<1>1. QueueTypes'
  BY DEF IInv, QueueTypes
<1>2. \A ch \in Chan : \A n \in Members(sendq[ch]) \cup Members(recvq[ch]) : n.coro \in Coro
  BY TypeFacts
<1>3. PlainInv'
  BY <1>2 DEF IInv, PlainInv, Moves, Out
<1>4. SelectInv'
  BY <1>2 DEF IInv, SelectInv, Moves, Out
<1>5. ClaimInv'
  <2>1. \A c \in Selectors : c \in Coro
    BY TypeFacts
  <2>2. runq \subseteq Coro
    BY DEF IInv, TypeOK
  <2>3. \A c \in Selectors : \A i : NodeQueued(c, i)' <=> NodeQueued(c, i)
    BY DEF NodeQueued
  <2>4. ASSUME NEW c \in Selectors
        PROVE  /\ pc'[c] = "swap" => ~claim'[c] /\ HoldsAll(c)'
               /\ pc'[c] = "relock" => claim'[c]
               /\ pc'[c] = "parked" => (claim'[c] <=> c \in runq')
               /\ pc'[c] \in {"swap", "parked"} /\ ~claim'[c]
                    => \A i \in DOMAIN Cases[c] : NodeQueued(c, i)'
    BY <2>1, <2>3 DEF IInv, ClaimInv, Moves, Out
  <2>5. \A c \in runq' : pc'[c] = "parked"
    BY <2>2 DEF IInv, ClaimInv, Moves, Out
  <2>6. \A c \in Coro \ Selectors : pc'[c] \in {"idle", "top", "parked", "done"}
    BY DEF IInv, ClaimInv, Moves, Out
  <2> QED
    BY <2>4, <2>5, <2>6 DEF ClaimInv
<1> QED
  BY <1>1, <1>3, <1>4, <1>5

\* The coroutines in W are woken and the queues of ch become qs and qr: whoever
\* loses a node is woken, or has been.
Wakes(ch, W, qs, qr) ==
  /\ W \in SUBSET Coro /\ Wake(W)
  /\ qs \in Seq(Node) /\ PlainOnce(qs) /\ sendq' = [sendq EXCEPT ![ch] = qs]
  /\ qr \in Seq(Node) /\ PlainOnce(qr) /\ recvq' = [recvq EXCEPT ![ch] = qr]
  /\ Members(qs) \subseteq Members(sendq[ch]) /\ Members(qr) \subseteq Members(recvq[ch])
  /\ \A n \in (Members(sendq[ch]) \ Members(qs)) \cup (Members(recvq[ch]) \ Members(qr)) :
       n.coro \in W \/ ~Claimable(n)
  /\ \A c \in W :
       /\ pc[c] = "parked"
       /\ c \in Selectors => ~claim[c]
       /\ c \notin Selectors =>
            ch = Home[c] /\ \A n \in Members(qs) \cup Members(qr) : n.coro # c

LEMMA WakeStep ==
  ASSUME IInv, Moves, NEW ch \in Chan, NEW W, NEW qs, NEW qr, Wakes(ch, W, qs, qr)
  PROVE  QuietInv'
<1> USE DEF QuietInv
<1>0. /\ W \in SUBSET Coro /\ Wake(W)
      /\ qs \in Seq(Node) /\ PlainOnce(qs) /\ sendq' = [sendq EXCEPT ![ch] = qs]
      /\ qr \in Seq(Node) /\ PlainOnce(qr) /\ recvq' = [recvq EXCEPT ![ch] = qr]
      /\ Members(qs) \subseteq Members(sendq[ch]) /\ Members(qr) \subseteq Members(recvq[ch])
  BY DEF Wakes
<1>lost. \A n \in (Members(sendq[ch]) \ Members(qs)) \cup (Members(recvq[ch]) \ Members(qr)) :
           n.coro \in W \/ ~Claimable(n)
  BY DEF Wakes
<1>woken. \A c \in W :
            /\ pc[c] = "parked"
            /\ c \in Selectors => ~claim[c]
            /\ c \notin Selectors =>
                 ch = Home[c] /\ \A n \in Members(qs) \cup Members(qr) : n.coro # c
  BY DEF Wakes
<1>1. /\ \A x \in Chan : Members(sendq'[x]) \subseteq Members(sendq[x])
      /\ \A x \in Chan : Members(recvq'[x]) \subseteq Members(recvq[x])
      /\ sendq'[ch] = qs /\ recvq'[ch] = qr
      /\ \A x \in Chan : x # ch => sendq'[x] = sendq[x] /\ recvq'[x] = recvq[x]
  BY <1>0 DEF IInv, QueueTypes
<1>2. QueueTypes'
  BY <1>0 DEF IInv, QueueTypes
<1>3. \A x \in Chan : \A n \in Members(sendq[x]) \cup Members(recvq[x]) : n.coro \in Coro
  BY TypeFacts
<1>4. /\ \A c \in Selectors : claim'[c] = (claim[c] \/ c \in W)
      /\ runq' = runq \cup W
  BY <1>0 DEF Wake
<1>5. PlainInv'
  <2>1. ASSUME NEW x \in Chan, NEW n \in Members(sendq'[x]) \cup Members(recvq'[x]),
               n.coro \notin Selectors
        PROVE  /\ n.case = 0 /\ x = Home[n.coro]
               /\ pc'[n.coro] = "parked" /\ n.coro \notin runq'
    <3>1. /\ n \in Members(sendq[x]) \cup Members(recvq[x]) /\ n.coro \in Coro
          /\ n.case = 0 /\ x = Home[n.coro] /\ pc[n.coro] = "parked" /\ n.coro \notin runq
      BY <1>1, <1>3, <2>1 DEF IInv, PlainInv
    <3>2. n.coro \notin W
      BY <1>1, <1>woken, <2>1, <3>1
    <3> QED
      BY <1>4, <3>1, <3>2 DEF Moves, Out
  <2>2. ASSUME NEW x \in Chan, NEW n \in Members(sendq'[x]) \cap Members(recvq'[x])
        PROVE  n.coro \in Selectors
    BY <1>1 DEF IInv, PlainInv
  <2> QED
    BY <2>1, <2>2 DEF PlainInv
<1>6. SelectInv'
  <2>1. ASSUME NEW x \in Chan, NEW n \in Members(sendq'[x]) \cup Members(recvq'[x]),
               n.coro \in Selectors
        PROVE  /\ n.case # 0 /\ x \in ChansOf(n.coro)
               /\ pc'[n.coro] \in {"swap", "parked", "relock"}
    <3>1. /\ n \in Members(sendq[x]) \cup Members(recvq[x]) /\ n.coro \in Coro
          /\ n.case # 0 /\ x \in ChansOf(n.coro) /\ pc[n.coro] \in {"swap", "parked", "relock"}
      BY <1>1, <1>3, <2>1 DEF IInv, SelectInv
    <3> QED
      BY <3>1 DEF Moves, Out
  <2> QED
    BY <2>1 DEF SelectInv
<1>7. ClaimInv'
  <2>1. \A c \in Selectors : c \in Coro
    BY TypeFacts
  <2>2. runq \subseteq Coro
    BY DEF IInv, TypeOK
  <2>3. ASSUME NEW c \in Selectors, ~claim'[c], NEW i \in DOMAIN Cases[c], NodeQueued(c, i)
        PROVE  NodeQueued(c, i)'
    <3> DEFINE n == [coro |-> c, case |-> i]
               x == Cases[c][i].chan
    <3>1. i # 0 /\ x \in Chan
      BY TypeFacts
    <3>2. Claimable(n) /\ n.coro \notin W
      BY <1>4, <2>3 DEF Claimable
    <3>3. /\ n \in Members(sendq[x]) => n \in Members(sendq'[x])
          /\ n \in Members(recvq[x]) => n \in Members(recvq'[x])
      <4> HIDE DEF n, x
      <4>1. CASE x = ch
        BY <1>1, <1>lost, <3>2, <4>1
      <4>2. CASE x # ch
        BY <1>1, <3>1, <4>2
      <4> QED
        BY <4>1, <4>2
    <3> QED
      BY <2>3, <3>3 DEF NodeQueued
  <2>4. ASSUME NEW c \in Selectors
        PROVE  /\ pc'[c] = "swap" => ~claim'[c] /\ HoldsAll(c)'
               /\ pc'[c] = "relock" => claim'[c]
               /\ pc'[c] = "parked" => (claim'[c] <=> c \in runq')
               /\ pc'[c] \in {"swap", "parked"} /\ ~claim'[c]
                    => \A i \in DOMAIN Cases[c] : NodeQueued(c, i)'
    BY <1>0, <1>4, <1>woken, <2>1, <2>3 DEF IInv, ClaimInv, Moves, Out
  <2>5. \A c \in runq' : pc'[c] = "parked"
    BY <1>0, <1>4, <1>woken, <2>2 DEF IInv, ClaimInv, Moves, Out
  <2>6. \A c \in Coro \ Selectors : pc'[c] \in {"idle", "top", "parked", "done"}
    BY DEF IInv, ClaimInv, Moves, Out
  <2> QED
    BY <2>4, <2>5, <2>6 DEF ClaimInv
<1> QED
  BY <1>2, <1>5, <1>6, <1>7

\* Who can be claimed on a channel whose lock is not its own is switched out.
LEMMA ClaimedParked ==
  ASSUME IInv, NEW ch \in Chan, NEW n \in Members(sendq[ch]) \cup Members(recvq[ch]),
         Claimable(n), \A c \in Selectors : pc[c] = "swap" => lock[ch] # c
  PROVE  /\ n.coro \in Coro /\ pc[n.coro] = "parked"
         /\ n.coro \in Selectors => ~claim[n.coro]
         /\ n.coro \notin Selectors => ch = Home[n.coro] /\ n.case = 0
<1>1. n.coro \in Coro
  BY TypeFacts
<1>2. CASE n.coro \in Selectors
  <2>1. n.case # 0 /\ ch \in ChansOf(n.coro) /\ pc[n.coro] \in {"swap", "parked", "relock"}
    BY <1>2 DEF IInv, SelectInv
  <2>2. ~claim[n.coro]
    BY <2>1 DEF Claimable
  <2>3. pc[n.coro] # "relock" /\ (pc[n.coro] = "swap" => lock[ch] = n.coro)
    BY <1>2, <2>1, <2>2 DEF IInv, ClaimInv, HoldsAll
  <2> QED
    BY <1>1, <1>2, <2>1, <2>2, <2>3
<1>3. CASE n.coro \notin Selectors
  BY <1>1, <1>3 DEF IInv, PlainInv
<1> QED
  BY <1>2, <1>3

LEMMA WakeTypes ==
  ASSUME IInv, NEW W \in SUBSET Coro, Wake(W)
  PROVE  /\ claim' \in [Selectors -> BOOLEAN] /\ runq' \subseteq Coro
         /\ wait_chan' \in [Selectors -> Chan \cup {None}]
<1>1. claim \in [Selectors -> BOOLEAN] /\ runq \subseteq Coro
      /\ wait_chan \in [Selectors -> Chan \cup {None}]
  BY DEF IInv, TypeOK
<1>2. claim' \in [Selectors -> BOOLEAN]
  BY <1>1 DEF Wake
<1>3. wait_chan' \in [Selectors -> Chan \cup {None}]
  BY <1>1 DEF Wake
<1> QED
  BY <1>1, <1>2, <1>3 DEF Wake

\* chan_wake_one under the lock of ch, after a value went in or out.
LEMMA PopWake ==
  ASSUME IInv, Moves, NEW ch \in Chan, WakeReceiver(ch) \/ WakeSender(ch),
         \A c \in Selectors : pc[c] = "swap" => lock[ch] # c
  PROVE  /\ QuietInv'
         /\ claim' \in [Selectors -> BOOLEAN] /\ runq' \subseteq Coro
         /\ wait_chan' \in [Selectors -> Chan \cup {None}]
<1>0. /\ sendq[ch] \in Seq(Node) /\ recvq[ch] \in Seq(Node)
      /\ PlainOnce(sendq[ch]) /\ PlainOnce(recvq[ch])
      /\ sendq \in [Chan -> Seq(Node)] /\ recvq \in [Chan -> Seq(Node)]
  BY DEF IInv, QueueTypes
<1>1. \A n \in Members(sendq[ch]) \cup Members(recvq[ch]) :
         Claimable(n) =>
           /\ n.coro \in Coro /\ pc[n.coro] = "parked"
           /\ n.coro \in Selectors => ~claim[n.coro]
           /\ n.coro \notin Selectors => ch = Home[n.coro] /\ n.case = 0
  BY ClaimedParked
<1>2. \A n \in Members(sendq[ch]) \cup Members(recvq[ch]) :
         /\ n = [coro |-> n.coro, case |-> n.case]
         /\ n.coro \notin Selectors => n.case = 0
  BY TypeFacts DEF IInv, PlainInv
<1>3. \A n \in Members(sendq[ch]) \cap Members(recvq[ch]) : n.coro \in Selectors
  BY DEF IInv, PlainInv
<1>4. CASE WakeReceiver(ch)
  <2> DEFINE q == recvq[ch]
             W == Popped(q)
             r == PopRest(q)
  <2>1. /\ r \in Seq(Node) /\ PlainOnce(r) /\ Members(r) \subseteq Members(q)
        /\ \A n \in Members(q) \ Members(r) : n.coro \in W \/ ~Claimable(n)
        /\ \A c \in W : \E n \in Members(q) :
              n.coro = c /\ Claimable(n) /\ (n.case = 0 => n \notin Members(r))
    BY <1>0, PopFacts
  <2>2. /\ Wake(W) /\ recvq' = [recvq EXCEPT ![ch] = r] /\ sendq' = [sendq EXCEPT ![ch] = sendq[ch]]
    BY <1>0, <1>4 DEF WakeReceiver
  <2> HIDE DEF W, r
  <2>3. ASSUME NEW c \in W
        PROVE  /\ c \in Coro /\ pc[c] = "parked" /\ (c \in Selectors => ~claim[c])
               /\ c \notin Selectors =>
                    ch = Home[c] /\ \A n \in Members(sendq[ch]) \cup Members(r) : n.coro # c
    <3>1. PICK n \in Members(q) : n.coro = c /\ Claimable(n) /\ (n.case = 0 => n \notin Members(r))
      BY <2>1
    <3>2. ASSUME c \notin Selectors, NEW m \in Members(sendq[ch]) \cup Members(r), m.coro = c
          PROVE  FALSE
      <4>1. m = n
        BY <1>2, <2>1, <3>1, <3>2
      <4> QED
        BY <1>1, <1>3, <3>1, <3>2, <4>1
    <3> QED
      BY <1>1, <3>1, <3>2
  <2>4. W \in SUBSET Coro
    BY <2>3
  <2>5. \A n \in (Members(sendq[ch]) \ Members(sendq[ch])) \cup (Members(recvq[ch]) \ Members(r)) :
           n.coro \in W \/ ~Claimable(n)
    BY <2>1
  <2>6. \A c \in W :
          /\ pc[c] = "parked" /\ (c \in Selectors => ~claim[c])
          /\ c \notin Selectors =>
               ch = Home[c] /\ \A n \in Members(sendq[ch]) \cup Members(r) : n.coro # c
    BY <2>3
  <2>7. Wakes(ch, W, sendq[ch], r)
    BY <1>0, <2>1, <2>2, <2>4, <2>5, <2>6 DEF Wakes
  <2>8. QuietInv'
    BY <2>7, WakeStep
  <2> QED
    BY <2>2, <2>4, <2>8, WakeTypes
<1>5. CASE WakeSender(ch)
  <2> DEFINE q == sendq[ch]
             W == Popped(q)
             r == PopRest(q)
  <2>1. /\ r \in Seq(Node) /\ PlainOnce(r) /\ Members(r) \subseteq Members(q)
        /\ \A n \in Members(q) \ Members(r) : n.coro \in W \/ ~Claimable(n)
        /\ \A c \in W : \E n \in Members(q) :
              n.coro = c /\ Claimable(n) /\ (n.case = 0 => n \notin Members(r))
    BY <1>0, PopFacts
  <2>2. /\ Wake(W) /\ sendq' = [sendq EXCEPT ![ch] = r] /\ recvq' = [recvq EXCEPT ![ch] = recvq[ch]]
    BY <1>0, <1>5 DEF WakeSender
  <2> HIDE DEF W, r
  <2>3. ASSUME NEW c \in W
        PROVE  /\ c \in Coro /\ pc[c] = "parked" /\ (c \in Selectors => ~claim[c])
               /\ c \notin Selectors =>
                    ch = Home[c] /\ \A n \in Members(r) \cup Members(recvq[ch]) : n.coro # c
    <3>1. PICK n \in Members(q) : n.coro = c /\ Claimable(n) /\ (n.case = 0 => n \notin Members(r))
      BY <2>1
    <3>2. ASSUME c \notin Selectors, NEW m \in Members(r) \cup Members(recvq[ch]), m.coro = c
          PROVE  FALSE
      <4>1. m = n
        BY <1>2, <2>1, <3>1, <3>2
      <4> QED
        BY <1>1, <1>3, <3>1, <3>2, <4>1
    <3> QED
      BY <1>1, <3>1, <3>2
  <2>4. W \in SUBSET Coro
    BY <2>3
  <2>5. \A n \in (Members(sendq[ch]) \ Members(r)) \cup (Members(recvq[ch]) \ Members(recvq[ch])) :
           n.coro \in W \/ ~Claimable(n)
    BY <2>1
  <2>6. \A c \in W :
          /\ pc[c] = "parked" /\ (c \in Selectors => ~claim[c])
          /\ c \notin Selectors =>
               ch = Home[c] /\ \A n \in Members(r) \cup Members(recvq[ch]) : n.coro # c
    BY <2>3
  <2>7. Wakes(ch, W, r, recvq[ch])
    BY <1>0, <2>1, <2>2, <2>4, <2>5, <2>6 DEF Wakes
  <2>8. QuietInv'
    BY <2>7, WakeStep
  <2> QED
    BY <2>2, <2>4, <2>8, WakeTypes
<1> QED
  BY <1>4, <1>5

----------------------------------------------------------------------------
(* Plain senders and receivers                                             *)

\* A step of c between states in which it waits nowhere.
LEMMA StepMoves ==
  ASSUME IInv, NEW c \in Coro, NEW l \in Out, pc[c] \in Out, Goto(c, l),
         c \in Selectors \/ l # "lock",
         \A ch \in Chan : lock[ch] # c /\ lock[ch] # None => lock'[ch] = lock[ch]
  PROVE  Moves /\ pc' \in [Coro -> {"idle", "top", "lock", "swap", "parked", "relock", "done"}]
<1>1. pc \in [Coro -> {"idle", "top", "lock", "swap", "parked", "relock", "done"}]
  BY DEF IInv, TypeOK
<1>2. pc'[c] = l /\ \A d \in Coro \ {c} : pc'[d] = pc[d]
  BY <1>1 DEF Goto
<1>3. pc' \in [Coro -> {"idle", "top", "lock", "swap", "parked", "relock", "done"}]
  BY <1>1 DEF Goto, Out
<1>4. \A d \in Coro \ Selectors : pc'[d] # "lock"
  BY <1>2 DEF IInv, ClaimInv
<1>5. ASSUME NEW d \in Selectors, pc[d] = "swap", HoldsAll(d) PROVE HoldsAll(d)'
  <2>1. d # c /\ d # None /\ ChansOf(d) \subseteq Chan
    BY <1>5, TypeFacts DEF Out
  <2> QED
    BY <1>5, <2>1 DEF HoldsAll
<1> QED
  BY <1>2, <1>3, <1>4, <1>5 DEF Moves

LEMMA BeginInv ==
  ASSUME IInv, NEW c \in Coro, Begin(c)
  PROVE  IInv'
<1>1. Moves /\ pc' \in [Coro -> {"idle", "top", "lock", "swap", "parked", "relock", "done"}]
  BY StepMoves DEF Begin, Out
<1>2. QuietInv'
  BY <1>1, QuietStep DEF Begin, waitVars
<1>3. TypeOK'
  BY <1>1 DEF Begin, IInv, TypeOK, waitVars, bufVars
<1> QED
  BY <1>2, <1>3 DEF IInv, QuietInv

\* A plain coroutine parks with a node on one queue of its channel.
LEMMA PlainParks ==
  ASSUME IInv, NEW c \in Coro \ Selectors, pc[c] = "top", Home[c] \in Chan, Goto(c, "parked"),
         UNCHANGED <<claim, runq, lock>>,
         \/ sendq' = [sendq EXCEPT ![Home[c]] = Append(@, PlainNode(c))] /\ UNCHANGED recvq
         \/ recvq' = [recvq EXCEPT ![Home[c]] = Append(@, PlainNode(c))] /\ UNCHANGED sendq
  PROVE  QuietInv'
<1> DEFINE n == PlainNode(c)
<1>1. n \in Node /\ n.coro = c /\ n.case = 0
  BY DEF PlainNode, Node
<1>2. \A ch \in Chan : n \notin Members(sendq[ch]) /\ n \notin Members(recvq[ch])
  BY <1>1 DEF IInv, PlainInv
<1>3. /\ sendq \in [Chan -> Seq(Node)] /\ recvq \in [Chan -> Seq(Node)]
      /\ \A ch \in Chan : PlainOnce(sendq[ch]) /\ PlainOnce(recvq[ch])
  BY DEF IInv, QueueTypes
<1>4. ASSUME NEW q \in [Chan -> Seq(Node)], q = sendq \/ q = recvq
      PROVE  LET r == [q EXCEPT ![Home[c]] = Append(@, n)]
             IN  /\ r \in [Chan -> Seq(Node)] /\ \A ch \in Chan : PlainOnce(r[ch])
                 /\ \A ch \in Chan : Members(q[ch]) \subseteq Members(r[ch])
                 /\ \A ch \in Chan : \A m \in Members(r[ch]) :
                      m \in Members(q[ch]) \/ (m = n /\ ch = Home[c])
  <2> DEFINE a == Append(q[Home[c]], n)
             r == [q EXCEPT ![Home[c]] = a]
  <2>1. /\ q[Home[c]] \in Seq(Node) /\ PlainOnce(q[Home[c]]) /\ n \notin Members(q[Home[c]])
        /\ \A ch \in Chan : PlainOnce(q[ch])
    BY <1>2, <1>3, <1>4
  <2> HIDE DEF n
  <2>2. /\ a \in Seq(Node) /\ PlainOnce(a) /\ Members(a) = Members(q[Home[c]]) \cup {n}
    BY <1>1, <2>1, AppendFacts
  <2> HIDE DEF a
  <2>3. \A ch \in Chan : r[ch] = IF ch = Home[c] THEN a ELSE q[ch]
    OBVIOUS
  <2>4. r \in [Chan -> Seq(Node)]
    BY <2>2
  <2> HIDE DEF r
  <2>5. /\ r \in [Chan -> Seq(Node)] /\ \A ch \in Chan : PlainOnce(r[ch])
        /\ \A ch \in Chan : Members(q[ch]) \subseteq Members(r[ch])
        /\ \A ch \in Chan : \A m \in Members(r[ch]) :
             m \in Members(q[ch]) \/ (m = n /\ ch = Home[c])
    BY <2>1, <2>2, <2>3, <2>4
  <2> QED
    BY <2>5 DEF r, a
<1> HIDE DEF n
<1>5. /\ QueueTypes'
      /\ \A ch \in Chan : Members(sendq[ch]) \subseteq Members(sendq'[ch])
      /\ \A ch \in Chan : Members(recvq[ch]) \subseteq Members(recvq'[ch])
      /\ \A ch \in Chan : \A m \in Members(sendq'[ch]) \cup Members(recvq'[ch]) :
           m \in Members(sendq[ch]) \cup Members(recvq[ch]) \/ (m = n /\ ch = Home[c])
      /\ \A ch \in Chan : \A m \in Members(sendq'[ch]) \cap Members(recvq'[ch]) :
           m \in Members(sendq[ch]) \cap Members(recvq[ch])
  <2>1. CASE sendq' = [sendq EXCEPT ![Home[c]] = Append(@, n)] /\ UNCHANGED recvq
    <3>1. /\ sendq' \in [Chan -> Seq(Node)] /\ \A ch \in Chan : PlainOnce(sendq'[ch])
          /\ \A ch \in Chan : Members(sendq[ch]) \subseteq Members(sendq'[ch])
          /\ \A ch \in Chan : \A m \in Members(sendq'[ch]) :
               m \in Members(sendq[ch]) \/ (m = n /\ ch = Home[c])
      BY <1>3, <1>4, <2>1
    <3> QED
      BY <1>2, <1>3, <2>1, <3>1 DEF QueueTypes
  <2>2. CASE recvq' = [recvq EXCEPT ![Home[c]] = Append(@, n)] /\ UNCHANGED sendq
    <3>1. /\ recvq' \in [Chan -> Seq(Node)] /\ \A ch \in Chan : PlainOnce(recvq'[ch])
          /\ \A ch \in Chan : Members(recvq[ch]) \subseteq Members(recvq'[ch])
          /\ \A ch \in Chan : \A m \in Members(recvq'[ch]) :
               m \in Members(recvq[ch]) \/ (m = n /\ ch = Home[c])
      BY <1>3, <1>4, <2>2
    <3> QED
      BY <1>2, <1>3, <2>2, <3>1 DEF QueueTypes
  <2> QED
    BY <2>1, <2>2 DEF n
<1>6. pc'[c] = "parked" /\ \A d \in Coro \ {c} : pc'[d] = pc[d]
  BY DEF IInv, TypeOK, Goto
<1>7. c \notin runq
  BY DEF IInv, ClaimInv
<1>8. \A ch \in Chan : \A m \in Members(sendq[ch]) \cup Members(recvq[ch]) : m.coro \in Coro \ {c}
  BY TypeFacts DEF IInv, PlainInv
<1>9. PlainInv'
  BY <1>1, <1>5, <1>6, <1>7, <1>8 DEF IInv, PlainInv
<1>10. SelectInv'
  BY <1>1, <1>5, <1>6, <1>8 DEF IInv, SelectInv
<1>11. ClaimInv'
  <2>1. ASSUME NEW d \in Selectors, NEW i \in DOMAIN Cases[d], NodeQueued(d, i)
        PROVE  NodeQueued(d, i)'
    <3>1. Cases[d][i].chan \in Chan
      BY TypeFacts
    <3> QED
      BY <1>5, <2>1, <3>1 DEF NodeQueued
  <2>2. \A d \in Selectors : d \in Coro \ {c}
    BY TypeFacts
  <2>3. \A d \in Selectors : HoldsAll(d)' <=> HoldsAll(d)
    BY DEF HoldsAll
  <2>4. runq \subseteq Coro
    BY DEF IInv, TypeOK
  <2> QED
    BY <1>6, <2>1, <2>2, <2>3, <2>4 DEF IInv, ClaimInv
<1> QED
  BY <1>5, <1>9, <1>10, <1>11 DEF QuietInv

LEMMA FillFacts ==
  ASSUME IInv, NEW ch \in Chan
  PROVE  /\ CanSend(ch) => [fill EXCEPT ![ch] = @ + 1] \in [Chan -> 0..Capacity]
         /\ CanRecv(ch) => [fill EXCEPT ![ch] = @ - 1] \in [Chan -> 0..Capacity]
<1>1. fill \in [Chan -> 0..Capacity] /\ Capacity \in Nat
  BY SelectAssumption DEF IInv, TypeOK
<1>2. CanSend(ch) => fill[ch] + 1 \in 0..Capacity
  BY <1>1 DEF CanSend
<1>3. CanRecv(ch) => fill[ch] - 1 \in 0..Capacity
  BY <1>1 DEF CanRecv
<1> QED
  BY <1>1, <1>2, <1>3

LEMMA PlainFacts ==
  ASSUME IInv, NEW c \in Senders \cup Receivers
  PROVE  /\ c \in Coro /\ c \notin Selectors /\ Home[c] \in Chan
         /\ lock[Home[c]] = None => \A d \in Selectors : lock[Home[c]] # d
BY SelectAssumption DEF Coro

LEMMA PlainSendInv ==
  ASSUME IInv, NEW c \in Coro, PlainSend(c)
  PROVE  IInv'
<1> DEFINE ch == Home[c]
<1>1. /\ c \in Senders /\ c \notin Selectors /\ ch \in Chan
      /\ pc[c] = "top" /\ UNCHANGED lock
      /\ \A d \in Selectors : lock[ch] # d
  BY PlainFacts DEF PlainSend
<1>2. TypeOK
  BY DEF IInv
<1>3. CASE ch \in closed /\ Goto(c, "done") /\ UNCHANGED <<bufVars, waitVars>>
  <2>1. Moves /\ pc' \in [Coro -> {"idle", "top", "lock", "swap", "parked", "relock", "done"}]
    BY <1>1, <1>3, StepMoves DEF Out
  <2>2. QuietInv'
    BY <1>3, <2>1, QuietStep DEF waitVars
  <2>3. TypeOK'
    BY <1>1, <1>2, <1>3, <2>1 DEF TypeOK, waitVars, bufVars
  <2> QED
    BY <2>2, <2>3 DEF IInv, QuietInv
<1>4. CASE /\ CanSend(ch) /\ fill' = [fill EXCEPT ![ch] = @ + 1]
           /\ WakeReceiver(ch) /\ Goto(c, "idle") /\ UNCHANGED closed
  <2>1. Moves /\ pc' \in [Coro -> {"idle", "top", "lock", "swap", "parked", "relock", "done"}]
    BY <1>1, <1>4, StepMoves DEF Out
  <2> HIDE DEF ch
  <2>2. /\ QuietInv' /\ claim' \in [Selectors -> BOOLEAN] /\ runq' \subseteq Coro
        /\ wait_chan' \in [Selectors -> Chan \cup {None}]
    BY <1>1, <1>4, <2>1, PopWake
  <2>3. TypeOK'
    BY <1>1, <1>2, <1>4, <2>1, <2>2, FillFacts DEF TypeOK
  <2> QED
    BY <2>2, <2>3 DEF IInv, QuietInv
<1>5. CASE /\ sendq' = [sendq EXCEPT ![ch] = Append(@, PlainNode(c))] /\ Goto(c, "parked")
           /\ UNCHANGED <<bufVars, recvq, claim, wait_chan, runq>>
  <2>1. QuietInv'
    BY <1>1, <1>5, PlainParks
  <2>2. TypeOK'
    BY <1>1, <1>2, <1>5 DEF TypeOK, Goto, bufVars
  <2> QED
    BY <2>1, <2>2 DEF IInv, QuietInv
<1> QED
  BY <1>3, <1>4, <1>5 DEF PlainSend

LEMMA PlainRecvInv ==
  ASSUME IInv, NEW c \in Coro, PlainRecv(c)
  PROVE  IInv'
<1> DEFINE ch == Home[c]
<1>1. /\ c \in Receivers /\ c \notin Selectors /\ ch \in Chan
      /\ pc[c] = "top" /\ UNCHANGED lock
      /\ \A d \in Selectors : lock[ch] # d
  BY PlainFacts DEF PlainRecv
<1>2. TypeOK
  BY DEF IInv
<1>3. CASE ch \in closed /\ Goto(c, "done") /\ UNCHANGED <<bufVars, waitVars>>
  <2>1. Moves /\ pc' \in [Coro -> {"idle", "top", "lock", "swap", "parked", "relock", "done"}]
    BY <1>1, <1>3, StepMoves DEF Out
  <2>2. QuietInv'
    BY <1>3, <2>1, QuietStep DEF waitVars
  <2>3. TypeOK'
    BY <1>1, <1>2, <1>3, <2>1 DEF TypeOK, waitVars, bufVars
  <2> QED
    BY <2>2, <2>3 DEF IInv, QuietInv
<1>4. CASE /\ CanRecv(ch) /\ fill' = [fill EXCEPT ![ch] = @ - 1]
           /\ WakeSender(ch) /\ Goto(c, "idle") /\ UNCHANGED closed
  <2>1. Moves /\ pc' \in [Coro -> {"idle", "top", "lock", "swap", "parked", "relock", "done"}]
    BY <1>1, <1>4, StepMoves DEF Out
  <2> HIDE DEF ch
  <2>2. /\ QuietInv' /\ claim' \in [Selectors -> BOOLEAN] /\ runq' \subseteq Coro
        /\ wait_chan' \in [Selectors -> Chan \cup {None}]
    BY <1>1, <1>4, <2>1, PopWake
  <2>3. TypeOK'
    BY <1>1, <1>2, <1>4, <2>1, <2>2, FillFacts DEF TypeOK
  <2> QED
    BY <2>2, <2>3 DEF IInv, QuietInv
<1>5. CASE /\ recvq' = [recvq EXCEPT ![ch] = Append(@, PlainNode(c))] /\ Goto(c, "parked")
           /\ UNCHANGED <<bufVars, sendq, claim, wait_chan, runq>>
  <2>1. QuietInv'
    BY <1>1, <1>5, PlainParks
  <2>2. TypeOK'
    BY <1>1, <1>2, <1>5 DEF TypeOK, Goto, bufVars
  <2> QED
    BY <2>1, <2>2 DEF IInv, QuietInv
<1> QED
  BY <1>3, <1>4, <1>5 DEF PlainRecv

\* The scheduler takes c from the run queue: it retries from the top.
LEMMA PlainRunInv ==
  ASSUME IInv, NEW c \in Coro, PlainRun(c)
  PROVE  IInv'
<1>1. c \notin Selectors /\ c \in runq /\ pc[c] = "parked"
  BY DEF PlainRun, IInv, ClaimInv
<1>2. pc'[c] = "top" /\ (\A d \in Coro \ {c} : pc'[d] = pc[d]) /\ runq' = runq \ {c}
  BY DEF PlainRun, Goto, IInv, TypeOK
<1>3. \A ch \in Chan : \A m \in Members(sendq[ch]) \cup Members(recvq[ch]) : m.coro \in Coro \ {c}
  BY <1>1, TypeFacts DEF IInv, PlainInv
<1>4. sendq' = sendq /\ recvq' = recvq /\ claim' = claim /\ lock' = lock
  BY DEF PlainRun
<1>5. QueueTypes' /\ PlainInv' /\ SelectInv'
  BY <1>1, <1>2, <1>3, <1>4 DEF IInv, QueueTypes, PlainInv, SelectInv
<1>6. ClaimInv'
  <2>1. \A d \in Selectors : \A i : NodeQueued(d, i)' <=> NodeQueued(d, i)
    BY <1>4 DEF NodeQueued
  <2>2. \A d \in Selectors : d \in Coro \ {c} /\ (HoldsAll(d)' <=> HoldsAll(d))
    BY <1>1, <1>4, TypeFacts DEF HoldsAll
  <2>3. runq \subseteq Coro
    BY DEF IInv, TypeOK
  <2> QED
    BY <1>2, <1>4, <2>1, <2>2, <2>3 DEF IInv, ClaimInv
<1>7. TypeOK'
  BY DEF IInv, TypeOK, PlainRun, Goto, bufVars
<1> QED
  BY <1>5, <1>6, <1>7 DEF IInv

----------------------------------------------------------------------------
(* jinn_select                                                             *)

PcType == [Coro -> {"idle", "top", "lock", "swap", "parked", "relock", "done"}]

\* unlock_all touches no lock of another select.
LEMMA UnlockFacts ==
  ASSUME IInv, NEW c, UnlockAll(c)
  PROVE  /\ lock' \in [Chan -> Selectors \cup {None}]
         /\ \A ch \in Chan : lock[ch] # c => lock'[ch] = lock[ch]
         /\ \A d \in Selectors : d # c /\ HoldsAll(d) => HoldsAll(d)'
<1>1. /\ lock' \in [Chan -> Selectors \cup {None}]
      /\ \A ch \in Chan : lock[ch] # c => lock'[ch] = lock[ch]
  BY DEF UnlockAll, IInv, TypeOK
<1>2. \A d \in Selectors : ChansOf(d) \subseteq Chan
  BY TypeFacts
<1> QED
  BY <1>1, <1>2 DEF HoldsAll

LEMMA CheckAtTopInv ==
  ASSUME IInv, NEW c \in Coro, CheckAtTop(c)
  PROVE  IInv'
<1>1. Moves /\ pc' \in PcType
  <2>1. CASE Goto(c, "done")
    BY <2>1, StepMoves DEF CheckAtTop, Out, PcType
  <2>2. CASE Goto(c, "lock")
    BY <2>2, StepMoves DEF CheckAtTop, Out, PcType
  <2> QED
    BY <2>1, <2>2 DEF CheckAtTop
<1>2. QuietInv'
  BY <1>1, QuietStep DEF CheckAtTop, waitVars
<1>3. TypeOK'
  BY <1>1 DEF CheckAtTop, IInv, TypeOK, waitVars, bufVars, PcType
<1> QED
  BY <1>2, <1>3 DEF IInv, QuietInv

LEMMA LockNextInv ==
  ASSUME IInv, NEW c \in Coro, LockNext(c)
  PROVE  IInv'
<1> DEFINE x == NextToLock(c)
<1>1. c \in Selectors /\ lock[x] = None /\ lock' = [lock EXCEPT ![x] = c] /\ pc' = pc
  BY DEF LockNext
<1>2. lock \in [Chan -> Selectors \cup {None}] /\ pc \in PcType
  BY DEF IInv, TypeOK, PcType
<1> HIDE DEF x
<1>3. ASSUME NEW d \in Selectors, HoldsAll(d) PROVE HoldsAll(d)'
  <2>1. d # None /\ ChansOf(d) \subseteq Chan
    BY TypeFacts
  <2> QED
    BY <1>1, <1>2, <1>3, <2>1 DEF HoldsAll
<1>4. Moves
  BY <1>1, <1>3 DEF Moves, IInv, ClaimInv
<1>5. QuietInv'
  BY <1>4, QuietStep DEF LockNext, waitVars
<1>6. TypeOK'
  BY <1>1, <1>2 DEF LockNext, IInv, TypeOK, waitVars, bufVars
<1> QED
  BY <1>5, <1>6 DEF IInv, QuietInv

LEMMA FireInv ==
  ASSUME IInv, NEW c \in Coro, Fire(c)
  PROVE  IInv'
<1>1. c \in Selectors /\ pc[c] = "lock" /\ HoldsAll(c) /\ UnlockAll(c) /\ Goto(c, "idle")
  BY DEF Fire
<1>2. PICK i \in Ready(c) : FireCase(Cases[c][i])
  BY DEF Fire
<1> DEFINE k == Cases[c][i]
           ch == k.chan
<1>3. i \in DOMAIN Cases[c] /\ CaseReady(k)
  BY DEF Ready
<1>4. ch \in Chan /\ ch \in ChansOf(c)
  BY <1>1, <1>3, TypeFacts
<1>5. \A d \in Selectors : pc[d] = "swap" => lock[ch] # d
  BY <1>1, <1>4 DEF HoldsAll
<1>6. Moves /\ pc' \in PcType /\ lock' \in [Chan -> Selectors \cup {None}]
  BY <1>1, StepMoves, UnlockFacts DEF Out, PcType
<1>7. CASE /\ k.is_send /\ ch \notin closed /\ fill' = [fill EXCEPT ![ch] = @ + 1]
           /\ WakeReceiver(ch) /\ UNCHANGED closed
  <2>1. CanSend(ch)
    BY <1>3, <1>7 DEF CaseReady
  <2> HIDE DEF ch
  <2>2. /\ QuietInv' /\ claim' \in [Selectors -> BOOLEAN] /\ runq' \subseteq Coro
        /\ wait_chan' \in [Selectors -> Chan \cup {None}]
    BY <1>4, <1>5, <1>6, <1>7, PopWake
  <2>3. fill' \in [Chan -> 0..Capacity]
    BY <1>4, <1>7, <2>1, FillFacts
  <2> QED
    BY <1>6, <1>7, <2>2, <2>3 DEF IInv, TypeOK, QuietInv, PcType
<1>8. CASE /\ ~k.is_send /\ CanRecv(ch) /\ fill' = [fill EXCEPT ![ch] = @ - 1]
           /\ WakeSender(ch) /\ UNCHANGED closed
  <2> HIDE DEF ch
  <2>2. /\ QuietInv' /\ claim' \in [Selectors -> BOOLEAN] /\ runq' \subseteq Coro
        /\ wait_chan' \in [Selectors -> Chan \cup {None}]
    BY <1>4, <1>5, <1>6, <1>8, PopWake
  <2>3. fill' \in [Chan -> 0..Capacity]
    BY <1>4, <1>8, FillFacts
  <2> QED
    BY <1>6, <1>8, <2>2, <2>3 DEF IInv, TypeOK, QuietInv, PcType
<1>9. CASE UNCHANGED <<bufVars, waitVars>>
  <2>1. QuietInv'
    BY <1>6, <1>9, QuietStep DEF waitVars
  <2> QED
    BY <1>6, <1>9, <2>1 DEF IInv, TypeOK, QuietInv, PcType, waitVars, bufVars
<1> QED
  BY <1>2, <1>7, <1>8, <1>9 DEF FireCase

LEMMA LeaveInv ==
  ASSUME IInv, NEW c \in Coro, TakeDefault(c) \/ Spin(c)
  PROVE  IInv'
<1>1. /\ c \in Selectors /\ pc[c] = "lock" /\ UnlockAll(c) /\ UNCHANGED <<bufVars, waitVars>>
      /\ Goto(c, "idle") \/ Goto(c, "top")
  BY SelectAssumption DEF TakeDefault, Spin
<1>2. lock' \in [Chan -> Selectors \cup {None}] /\ \A ch \in Chan : lock[ch] # c => lock'[ch] = lock[ch]
  BY <1>1, UnlockFacts
<1>3. Moves /\ pc' \in PcType
  <2>1. CASE Goto(c, "idle")
    BY <1>1, <1>2, <2>1, StepMoves DEF Out, PcType
  <2>2. CASE Goto(c, "top")
    BY <1>1, <1>2, <2>2, StepMoves DEF Out, PcType
  <2> QED
    BY <1>1, <2>1, <2>2
<1>4. QuietInv'
  BY <1>1, <1>3, QuietStep DEF waitVars
<1> QED
  BY <1>1, <1>2, <1>3, <1>4 DEF IInv, TypeOK, QuietInv, PcType, waitVars, bufVars

\* The nodes a select pushes on one queue are those of its cases there.
LEMMA NodesForFacts ==
  ASSUME NEW c \in Selectors, NEW ch \in Chan, NEW send \in BOOLEAN
  PROVE  /\ NodesFor(c, ch, send) \in Seq(Node) /\ PlainOnce(NodesFor(c, ch, send))
         /\ \A n \in Members(NodesFor(c, ch, send)) : n.coro = c /\ n.case # 0 /\ ch \in ChansOf(c)
         /\ \A i \in DOMAIN Cases[c] : Cases[c][i].chan = ch /\ Cases[c][i].is_send = send
              => [coro |-> c, case |-> i] \in Members(NodesFor(c, ch, send))
<1> DEFINE D == DOMAIN Cases[c]
           q == [i \in D |-> [coro |-> c, case |-> i]]
           S == {i \in D : Cases[c][i].chan = ch /\ Cases[c][i].is_send = send}
           p == PickAt(q, S)
<1>1. Len(Cases[c]) \in Nat /\ D = 1..Len(Cases[c])
  <2>1. Cases[c] \in Seq([chan : Chan, is_send : BOOLEAN])
    BY SelectAssumption
  <2> QED
    BY <2>1
<1>2. \A i \in D : i \in Nat \ {0} /\ [coro |-> c, case |-> i] \in Node
  BY <1>1 DEF Node, Coro
<1>3. q \in Seq(Node) /\ DOMAIN q = D
  BY <1>1, <1>2
<1>4. /\ p \in Seq(Node) /\ Members(p) = {q[i] : i \in S}
  <2> HIDE DEF q
  <2>1. S \in SUBSET DOMAIN q
    BY <1>3
  <2> HIDE DEF S
  <2> QED
    BY <1>3, <2>1, PickFacts
<1>5. \A n \in Members(p) : n.coro = c /\ n.case # 0 /\ ch \in ChansOf(c)
  <2> SUFFICES ASSUME NEW i \in S PROVE q[i].coro = c /\ q[i].case # 0 /\ ch \in ChansOf(c)
    BY <1>4
  <2> QED
    BY <1>2 DEF ChansOf
<1>6. PlainOnce(p)
  BY <1>4, <1>5 DEF PlainOnce, Members
<1>7. \A i \in D : Cases[c][i].chan = ch /\ Cases[c][i].is_send = send
        => [coro |-> c, case |-> i] \in Members(p)
  BY <1>4
<1>8. p = NodesFor(c, ch, send)
  BY DEF NodesFor
<1> QED
  BY <1>4, <1>5, <1>6, <1>7, <1>8

LEMMA ParkInv ==
  ASSUME IInv, NEW c \in Coro, Park(c)
  PROVE  IInv'
<1>1. /\ c \in Selectors /\ pc[c] = "lock" /\ HoldsAll(c) /\ ChansOf(c) # {}
      /\ lock' = lock /\ runq' = runq
  BY DEF Park, NeverWaits
<1>2. pc'[c] = "swap" /\ (\A d \in Coro \ {c} : pc'[d] = pc[d]) /\ pc' \in PcType
  BY DEF Park, Goto, IInv, TypeOK, PcType
<1>3. /\ claim'[c] = FALSE /\ claim' \in [Selectors -> BOOLEAN]
      /\ \A d \in Selectors : d # c => claim'[d] = claim[d]
  BY <1>1 DEF Park, IInv, TypeOK
<1>4. \A ch \in Chan : \A n \in Members(sendq[ch]) \cup Members(recvq[ch]) : n.coro \in Coro \ {c}
  BY <1>1, TypeFacts DEF IInv, SelectInv
<1>5. ASSUME NEW ch \in Chan
      PROVE  /\ sendq'[ch] \in Seq(Node) /\ PlainOnce(sendq'[ch])
             /\ recvq'[ch] \in Seq(Node) /\ PlainOnce(recvq'[ch])
             /\ Members(sendq'[ch]) = Members(sendq[ch]) \cup Members(NodesFor(c, ch, TRUE))
             /\ Members(recvq'[ch]) = Members(recvq[ch]) \cup Members(NodesFor(c, ch, FALSE))
  <2>1. /\ sendq'[ch] = sendq[ch] \o NodesFor(c, ch, TRUE)
        /\ recvq'[ch] = recvq[ch] \o NodesFor(c, ch, FALSE)
    BY DEF Park
  <2>2. /\ sendq[ch] \in Seq(Node) /\ PlainOnce(sendq[ch])
        /\ recvq[ch] \in Seq(Node) /\ PlainOnce(recvq[ch])
    BY DEF IInv, QueueTypes
  <2>3. ASSUME NEW b \in BOOLEAN
        PROVE  /\ NodesFor(c, ch, b) \in Seq(Node) /\ PlainOnce(NodesFor(c, ch, b))
               /\ \A n \in Members(NodesFor(c, ch, b)) : n.coro = c
    BY <1>1, NodesForFacts
  <2>4. /\ \A n \in Members(sendq[ch]) \cap Members(NodesFor(c, ch, TRUE)) : n.case # 0
        /\ \A n \in Members(recvq[ch]) \cap Members(NodesFor(c, ch, FALSE)) : n.case # 0
    BY <1>4, <2>3
  <2> QED
    BY <2>1, <2>2, <2>3, <2>4, ConcatFacts
<1>6. ASSUME NEW ch \in Chan, NEW n \in Members(sendq'[ch]) \cup Members(recvq'[ch]), n.coro # c
      PROVE  /\ n \in Members(sendq[ch]) \cup Members(recvq[ch])
             /\ n \in Members(sendq'[ch]) \cap Members(recvq'[ch])
                  => n \in Members(sendq[ch]) \cap Members(recvq[ch])
  <2>1. \A m \in Members(NodesFor(c, ch, TRUE)) \cup Members(NodesFor(c, ch, FALSE)) : m.coro = c
    BY <1>1, NodesForFacts
  <2> QED
    BY <1>5, <1>6, <2>1
<1>7. ASSUME NEW ch \in Chan, NEW n \in Members(sendq'[ch]) \cup Members(recvq'[ch]), n.coro = c
      PROVE  n.case # 0 /\ ch \in ChansOf(c)
  <2>1. \A m \in Members(NodesFor(c, ch, TRUE)) \cup Members(NodesFor(c, ch, FALSE)) :
           m.case # 0 /\ ch \in ChansOf(c)
    BY <1>1, NodesForFacts
  <2> QED
    BY <1>4, <1>5, <1>7, <2>1
<1>8. QueueTypes'
  <2>1. sendq' = [ch \in Chan |-> sendq'[ch]] /\ recvq' = [ch \in Chan |-> recvq'[ch]]
    BY DEF Park
  <2>2. sendq' \in [Chan -> Seq(Node)] /\ recvq' \in [Chan -> Seq(Node)]
    BY <1>5, <2>1
  <2> QED
    BY <1>5, <2>2 DEF QueueTypes
<1>9. PlainInv'
  <2>1. ASSUME NEW ch \in Chan, NEW n \in Members(sendq'[ch]) \cup Members(recvq'[ch]),
               n.coro \notin Selectors
        PROVE  /\ n.case = 0 /\ ch = Home[n.coro]
               /\ pc'[n.coro] = "parked" /\ n.coro \notin runq'
    <3>1. n.coro # c /\ n \in Members(sendq[ch]) \cup Members(recvq[ch]) /\ n.coro \in Coro \ {c}
      BY <1>1, <1>4, <1>6, <2>1
    <3> QED
      BY <1>1, <1>2, <2>1, <3>1 DEF IInv, PlainInv
  <2>2. ASSUME NEW ch \in Chan, NEW n \in Members(sendq'[ch]) \cap Members(recvq'[ch])
        PROVE  n.coro \in Selectors
    BY <1>1, <1>6 DEF IInv, PlainInv
  <2> QED
    BY <2>1, <2>2 DEF PlainInv
<1>10. SelectInv'
  <2> SUFFICES ASSUME NEW ch \in Chan, NEW n \in Members(sendq'[ch]) \cup Members(recvq'[ch]),
                      n.coro \in Selectors
               PROVE  /\ n.case # 0 /\ ch \in ChansOf(n.coro)
                      /\ pc'[n.coro] \in {"swap", "parked", "relock"}
    BY DEF SelectInv
  <2>1. CASE n.coro = c
    BY <1>2, <1>7, <2>1
  <2>2. CASE n.coro # c
    <3>1. n \in Members(sendq[ch]) \cup Members(recvq[ch]) /\ n.coro \in Coro \ {c}
      BY <1>4, <1>6, <2>2
    <3> QED
      BY <1>2, <3>1 DEF IInv, SelectInv
  <2> QED
    BY <2>1, <2>2
<1>11. ClaimInv'
  <2>1. ASSUME NEW i \in DOMAIN Cases[c] PROVE NodeQueued(c, i)'
    <3>1. Cases[c][i].chan \in Chan /\ Cases[c][i].is_send \in BOOLEAN
      <4>1. Cases[c] \in Seq([chan : Chan, is_send : BOOLEAN])
        BY <1>1, SelectAssumption
      <4> DEFINE Case == [chan : Chan, is_send : BOOLEAN]
      <4>2. Cases[c][i] \in Case
        <5>1. Cases[c] \in Seq(Case)
          BY <4>1
        <5> HIDE DEF Case
        <5> QED
          BY <5>1
      <4> QED
        BY <4>2
    <3>2. [coro |-> c, case |-> i] \in Members(NodesFor(c, Cases[c][i].chan, Cases[c][i].is_send))
      BY <1>1, <3>1, NodesForFacts
    <3> QED
      BY <1>5, <3>1, <3>2 DEF NodeQueued
  <2>2. ASSUME NEW d \in Selectors, NEW i \in DOMAIN Cases[d], NodeQueued(d, i)
        PROVE  NodeQueued(d, i)'
    <3>1. Cases[d][i].chan \in Chan
      BY TypeFacts
    <3> QED
      BY <1>5, <2>2, <3>1 DEF NodeQueued
  <2>3. c \notin runq
    BY <1>1 DEF IInv, ClaimInv
  <2>4. \A d \in Selectors : d \in Coro /\ (HoldsAll(d)' <=> HoldsAll(d))
    BY <1>1, TypeFacts DEF HoldsAll
  <2>5. ASSUME NEW d \in Selectors
        PROVE  /\ pc'[d] = "swap" => ~claim'[d] /\ HoldsAll(d)'
               /\ pc'[d] = "relock" => claim'[d]
               /\ pc'[d] = "parked" => (claim'[d] <=> d \in runq')
               /\ pc'[d] \in {"swap", "parked"} /\ ~claim'[d]
                    => \A i \in DOMAIN Cases[d] : NodeQueued(d, i)'
    <3>1. CASE d = c
      BY <1>1, <1>2, <1>3, <2>1, <2>4, <3>1
    <3>2. CASE d # c
      <4>1. pc'[d] = pc[d] /\ claim'[d] = claim[d]
        BY <1>2, <1>3, <2>4, <3>2
      <4> QED
        BY <1>1, <2>2, <2>4, <4>1 DEF IInv, ClaimInv
    <3> QED
      BY <3>1, <3>2
  <2>6. runq \subseteq Coro
    BY DEF IInv, TypeOK
  <2>7. \A d \in runq' : pc'[d] = "parked"
    BY <1>1, <1>2, <2>3, <2>6 DEF IInv, ClaimInv
  <2>8. \A d \in Coro \ Selectors : pc'[d] \in {"idle", "top", "parked", "done"}
    BY <1>1, <1>2 DEF IInv, ClaimInv
  <2> QED
    BY <2>5, <2>7, <2>8 DEF ClaimInv
<1>12. TypeOK'
  <2>1. ChansOf(c) \in SUBSET Nat /\ ChansOf(c) \subseteq Chan
    BY <1>1, TypeFacts, SelectAssumption
  <2>2. Min(ChansOf(c)) \in Chan
    BY <1>1, <2>1, MinFacts
  <2>3. wait_chan' \in [Selectors -> Chan \cup {None}]
    BY <2>2 DEF Park, IInv, TypeOK
  <2> QED
    BY <1>2, <1>3, <2>3 DEF Park, IInv, TypeOK, PcType, bufVars
<1> QED
  BY <1>8, <1>9, <1>10, <1>11, <1>12 DEF IInv

LEMMA SwapOutInv ==
  ASSUME IInv, NEW c \in Coro, SwapOut(c)
  PROVE  IInv'
<1>1. /\ pc[c] = "swap" /\ c \in Selectors /\ UnlockAll(c)
      /\ UNCHANGED <<bufVars, waitVars>>
  BY DEF SwapOut, IInv, ClaimInv
<1>2. pc'[c] = "parked" /\ (\A d \in Coro \ {c} : pc'[d] = pc[d]) /\ pc' \in PcType
  BY DEF SwapOut, Goto, IInv, TypeOK, PcType
<1>3. sendq' = sendq /\ recvq' = recvq /\ claim' = claim /\ runq' = runq
  BY <1>1 DEF waitVars
<1>4. \A ch \in Chan : \A m \in Members(sendq[ch]) \cup Members(recvq[ch]) : m.coro \in Coro
  BY TypeFacts
<1>5. QueueTypes' /\ PlainInv' /\ SelectInv'
  <2>1. QueueTypes'
    BY <1>3 DEF IInv, QueueTypes
  <2>2. PlainInv'
    BY <1>1, <1>2, <1>3, <1>4 DEF IInv, PlainInv
  <2>3. SelectInv'
    BY <1>1, <1>2, <1>3, <1>4 DEF IInv, SelectInv
  <2> QED
    BY <2>1, <2>2, <2>3
<1>6. ClaimInv'
  <2>1. \A d \in Selectors : \A i : NodeQueued(d, i)' <=> NodeQueued(d, i)
    BY <1>3 DEF NodeQueued
  <2>2. \A d \in Selectors : d \in Coro /\ (d # c /\ HoldsAll(d) => HoldsAll(d)')
    BY <1>1, TypeFacts, UnlockFacts
  <2>3. runq \subseteq Coro
    BY DEF IInv, TypeOK
  <2>4. ASSUME NEW d \in Selectors
        PROVE  /\ pc'[d] = "swap" => ~claim'[d] /\ HoldsAll(d)'
               /\ pc'[d] = "relock" => claim'[d]
               /\ pc'[d] = "parked" => (claim'[d] <=> d \in runq')
               /\ pc'[d] \in {"swap", "parked"} /\ ~claim'[d]
                    => \A i \in DOMAIN Cases[d] : NodeQueued(d, i)'
    <3>1. CASE d = c
      BY <1>1, <1>2, <1>3, <2>1, <3>1 DEF IInv, ClaimInv
    <3>2. CASE d # c
      <4>1. pc'[d] = pc[d] /\ (HoldsAll(d) => HoldsAll(d)')
        BY <1>2, <2>2, <3>2
      <4> QED
        BY <1>2, <1>3, <2>1, <3>2, <4>1 DEF IInv, ClaimInv
    <3> QED
      BY <3>1, <3>2
  <2>5. \A d \in runq' : pc'[d] = "parked"
    BY <1>1, <1>2, <1>3, <2>3 DEF IInv, ClaimInv
  <2>6. \A d \in Coro \ Selectors : pc'[d] \in {"idle", "top", "parked", "done"}
    BY <1>1, <1>2 DEF IInv, ClaimInv
  <2> QED
    BY <2>4, <2>5, <2>6 DEF ClaimInv
<1>7. TypeOK'
  BY <1>1, <1>2, UnlockFacts DEF IInv, TypeOK, waitVars, bufVars, PcType
<1> QED
  BY <1>5, <1>6, <1>7 DEF IInv

LEMMA ResumeInv ==
  ASSUME IInv, NEW c \in Coro, Resume(c)
  PROVE  IInv'
<1>1. c \in Selectors /\ c \in runq /\ pc[c] = "parked" /\ claim[c]
  BY DEF Resume, IInv, ClaimInv
<1>2. /\ pc'[c] = "relock" /\ (\A d \in Coro \ {c} : pc'[d] = pc[d]) /\ pc' \in PcType
      /\ runq' = runq \ {c}
  BY DEF Resume, Goto, IInv, TypeOK, PcType
<1>3. sendq' = sendq /\ recvq' = recvq /\ claim' = claim /\ lock' = lock
  BY DEF Resume
<1>4. \A ch \in Chan : \A m \in Members(sendq[ch]) \cup Members(recvq[ch]) : m.coro \in Coro
  BY TypeFacts
<1>5. QueueTypes' /\ PlainInv' /\ SelectInv'
  <2>1. QueueTypes'
    BY <1>3 DEF IInv, QueueTypes
  <2>2. PlainInv'
    BY <1>1, <1>2, <1>3, <1>4 DEF IInv, PlainInv
  <2>3. SelectInv'
    BY <1>1, <1>2, <1>3, <1>4 DEF IInv, SelectInv
  <2> QED
    BY <2>1, <2>2, <2>3
<1>6. ClaimInv'
  <2>1. \A d \in Selectors : \A i : NodeQueued(d, i)' <=> NodeQueued(d, i)
    BY <1>3 DEF NodeQueued
  <2>2. \A d \in Selectors : d \in Coro /\ (HoldsAll(d)' <=> HoldsAll(d))
    BY <1>3, TypeFacts DEF HoldsAll
  <2>3. runq \subseteq Coro
    BY DEF IInv, TypeOK
  <2>4. ASSUME NEW d \in Selectors
        PROVE  /\ pc'[d] = "swap" => ~claim'[d] /\ HoldsAll(d)'
               /\ pc'[d] = "relock" => claim'[d]
               /\ pc'[d] = "parked" => (claim'[d] <=> d \in runq')
               /\ pc'[d] \in {"swap", "parked"} /\ ~claim'[d]
                    => \A i \in DOMAIN Cases[d] : NodeQueued(d, i)'
    <3>1. CASE d = c
      BY <1>1, <1>2, <1>3, <2>1, <3>1 DEF IInv, ClaimInv
    <3>2. CASE d # c
      <4>1. pc'[d] = pc[d] /\ (HoldsAll(d) => HoldsAll(d)')
        BY <1>2, <2>2, <3>2
      <4> QED
        BY <1>2, <1>3, <2>1, <3>2, <4>1 DEF IInv, ClaimInv
    <3> QED
      BY <3>1, <3>2
  <2>5. \A d \in runq' : pc'[d] = "parked"
    BY <1>1, <1>2, <1>3, <2>3 DEF IInv, ClaimInv
  <2>6. \A d \in Coro \ Selectors : pc'[d] \in {"idle", "top", "parked", "done"}
    BY <1>1, <1>2 DEF IInv, ClaimInv
  <2> QED
    BY <2>4, <2>5, <2>6 DEF ClaimInv
<1>7. TypeOK'
  BY <1>2 DEF Resume, IInv, TypeOK, bufVars, PcType
<1> QED
  BY <1>5, <1>6, <1>7 DEF IInv


\* What waitq_remove_node for every case of c leaves in a queue.
LEMMA NotOfFacts ==
  ASSUME NEW q \in Seq(Node), PlainOnce(q), NEW c
  PROVE  /\ NotOf(q, c) \in Seq(Node) /\ PlainOnce(NotOf(q, c))
         /\ Members(NotOf(q, c)) = {n \in Members(q) : n.coro # c}
<1> DEFINE S == {i \in DOMAIN q : q[i].coro # c}
           p == PickAt(q, S)
<1>1. S \in SUBSET DOMAIN q
  OBVIOUS
<1>2. /\ p \in Seq(Node) /\ Members(p) = {q[i] : i \in S}
      /\ \A i, j \in DOMAIN p : \E k, l \in S :
           p[i] = q[k] /\ p[j] = q[l] /\ (k = l => i = j)
  <2> HIDE DEF S
  <2> QED
    BY <1>1, PickFacts
<1>3. PlainOnce(p)
  <2> HIDE DEF p
  <2> SUFFICES ASSUME NEW i \in DOMAIN p, NEW j \in DOMAIN p, p[i] = p[j], p[i].case = 0
               PROVE  i = j
    BY DEF PlainOnce
  <2>1. PICK k \in S, l \in S : p[i] = q[k] /\ p[j] = q[l] /\ (k = l => i = j)
    BY <1>2
  <2>2. k = l
    BY <1>1, <2>1 DEF PlainOnce
  <2> QED
    BY <2>1, <2>2
<1>4. Members(p) = {n \in Members(q) : n.coro # c}
  <2>1. Members(p) = {q[i] : i \in S}
    BY <1>2
  <2> HIDE DEF p
  <2> QED
    BY <2>1 DEF Members
<1>5. p = NotOf(q, c)
  BY DEF NotOf
<1> QED
  BY <1>2, <1>3, <1>4, <1>5

LEMMA UnlinkInv ==
  ASSUME IInv, NEW c \in Coro, Unlink(c)
  PROVE  IInv'
<1>1. pc[c] = "relock" /\ c \in Selectors /\ UnlockAll(c) /\ claim' = claim /\ runq' = runq
  BY DEF Unlink, IInv, ClaimInv
<1>2. pc'[c] = "top" /\ (\A d \in Coro \ {c} : pc'[d] = pc[d]) /\ pc' \in PcType
  BY DEF Unlink, Goto, IInv, TypeOK, PcType
<1>3. ASSUME NEW ch \in Chan
      PROVE  /\ sendq'[ch] \in Seq(Node) /\ PlainOnce(sendq'[ch])
             /\ recvq'[ch] \in Seq(Node) /\ PlainOnce(recvq'[ch])
             /\ Members(sendq'[ch]) = {n \in Members(sendq[ch]) : n.coro # c}
             /\ Members(recvq'[ch]) = {n \in Members(recvq[ch]) : n.coro # c}
  <2>1. /\ sendq[ch] \in Seq(Node) /\ PlainOnce(sendq[ch])
        /\ recvq[ch] \in Seq(Node) /\ PlainOnce(recvq[ch])
    BY DEF IInv, QueueTypes
  <2>2. sendq'[ch] = NotOf(sendq[ch], c) /\ recvq'[ch] = NotOf(recvq[ch], c)
    BY DEF Unlink
  <2> QED
    BY <2>1, <2>2, NotOfFacts
<1>4. \A ch \in Chan : \A m \in Members(sendq[ch]) \cup Members(recvq[ch]) : m.coro \in Coro
  BY TypeFacts
<1>5. QueueTypes'
  <2>1. sendq' = [ch \in Chan |-> sendq'[ch]] /\ recvq' = [ch \in Chan |-> recvq'[ch]]
    BY DEF Unlink
  <2>2. sendq' \in [Chan -> Seq(Node)] /\ recvq' \in [Chan -> Seq(Node)]
    BY <1>3, <2>1
  <2> QED
    BY <1>3, <2>2 DEF QueueTypes
<1>6. PlainInv'
  BY <1>1, <1>2, <1>3, <1>4 DEF IInv, PlainInv
<1>7. SelectInv'
  BY <1>2, <1>3, <1>4 DEF IInv, SelectInv
<1>8. ClaimInv'
  <2>1. ASSUME NEW d \in Selectors, d # c, NEW i \in DOMAIN Cases[d], NodeQueued(d, i)
        PROVE  NodeQueued(d, i)'
    <3>1. Cases[d][i].chan \in Chan
      BY TypeFacts
    <3> QED
      BY <1>3, <2>1, <3>1 DEF NodeQueued
  <2>2. \A d \in Selectors : d \in Coro /\ (d # c /\ HoldsAll(d) => HoldsAll(d)')
    BY <1>1, TypeFacts, UnlockFacts
  <2>3. ASSUME NEW d \in Selectors
        PROVE  /\ pc'[d] = "swap" => ~claim'[d] /\ HoldsAll(d)'
               /\ pc'[d] = "relock" => claim'[d]
               /\ pc'[d] = "parked" => (claim'[d] <=> d \in runq')
               /\ pc'[d] \in {"swap", "parked"} /\ ~claim'[d]
                    => \A i \in DOMAIN Cases[d] : NodeQueued(d, i)'
    <3>1. CASE d = c
      BY <1>2, <3>1
    <3>2. CASE d # c
      <4>1. pc'[d] = pc[d] /\ (HoldsAll(d) => HoldsAll(d)')
        BY <1>2, <2>2, <3>2
      <4> QED
        BY <1>1, <2>1, <3>2, <4>1 DEF IInv, ClaimInv
    <3> QED
      BY <3>1, <3>2
  <2>4. \A d \in runq' : pc'[d] = "parked"
    BY <1>1, <1>2 DEF IInv, ClaimInv, TypeOK
  <2>5. \A d \in Coro \ Selectors : pc'[d] \in {"idle", "top", "parked", "done"}
    BY <1>1, <1>2 DEF IInv, ClaimInv
  <2> QED
    BY <2>3, <2>4, <2>5 DEF ClaimInv
<1>9. TypeOK'
  <2>1. wait_chan' \in [Selectors -> Chan \cup {None}]
    BY DEF Unlink, IInv, TypeOK
  <2> QED
    BY <1>1, <1>2, <2>1, UnlockFacts DEF Unlink, IInv, TypeOK, bufVars, PcType
<1> QED
  BY <1>5, <1>6, <1>7, <1>8, <1>9 DEF IInv

----------------------------------------------------------------------------
(* Close and cancellation                                                  *)

LEMMA StillMoves ==
  ASSUME IInv, UNCHANGED <<pc, lock>>
  PROVE  Moves
BY DEF Moves, IInv, ClaimInv, HoldsAll

LEMMA CloseInv ==
  ASSUME IInv, NEW ch \in Chan, Close(ch)
  PROVE  IInv'
<1> DEFINE W == {n.coro : n \in {m \in Members(sendq[ch]) \cup Members(recvq[ch]) : Claimable(m)}}
<1>1. Moves /\ lock[ch] = None /\ Wake(W)
  BY StillMoves DEF Close
<1>2. \A n \in Members(sendq[ch]) \cup Members(recvq[ch]) :
         Claimable(n) =>
           /\ n.coro \in Coro /\ pc[n.coro] = "parked"
           /\ n.coro \in Selectors => ~claim[n.coro]
           /\ n.coro \notin Selectors => ch = Home[n.coro] /\ n.case = 0
  <2>1. \A d \in Selectors : lock[ch] # d
    BY <1>1, TypeFacts
  <2> QED
    BY <2>1, ClaimedParked
<1>3. W \in SUBSET Coro
  BY <1>2
<1>4. <<>> \in Seq(Node) /\ PlainOnce(<<>>) /\ Members(<<>>) = {}
  BY DEF PlainOnce, Members
<1>5. sendq' = [sendq EXCEPT ![ch] = <<>>] /\ recvq' = [recvq EXCEPT ![ch] = <<>>]
  BY DEF Close
<1>6. \A n \in (Members(sendq[ch]) \ Members(<<>>)) \cup (Members(recvq[ch]) \ Members(<<>>)) :
         n.coro \in W \/ ~Claimable(n)
  OBVIOUS
<1>7. \A c \in W : /\ pc[c] = "parked"
                   /\ c \in Selectors => ~claim[c]
                   /\ c \notin Selectors => ch = Home[c]
  BY <1>2
<1> HIDE DEF W
<1>8. Wakes(ch, W, <<>>, <<>>)
  BY <1>1, <1>3, <1>4, <1>5, <1>6, <1>7 DEF Wakes
<1>9. QuietInv'
  BY <1>1, <1>8, WakeStep
<1>10. /\ claim' \in [Selectors -> BOOLEAN] /\ runq' \subseteq Coro
       /\ wait_chan' \in [Selectors -> Chan \cup {None}]
  BY <1>1, <1>3, WakeTypes
<1>11. TypeOK'
  BY <1>10 DEF Close, IInv, TypeOK
<1> QED
  BY <1>9, <1>11 DEF IInv, QuietInv

LEMMA CancelMarkInv ==
  ASSUME IInv, NEW c \in Scoped, CancelMark(c)
  PROVE  IInv'
<1>1. Moves
  BY StillMoves DEF CancelMark
<1>2. QuietInv'
  BY <1>1, QuietStep DEF CancelMark, waitVars
<1>3. TypeOK'
  BY DEF CancelMark, IInv, TypeOK, waitVars, bufVars
<1> QED
  BY <1>2, <1>3 DEF IInv, QuietInv

\* The search for a coroutine finds a node exactly when there is one.
LEMMA FirstFacts ==
  ASSUME NEW q \in Seq(Node), NEW c
  PROVE  FirstOf(q, c) = {} <=> \A n \in Members(q) : n.coro # c
<1> DEFINE S == {i \in DOMAIN q : q[i].coro = c}
<1>1. DOMAIN q = 1..Len(q) /\ Len(q) \in Nat
  OBVIOUS
<1>2. ASSUME S # {} PROVE FirstOf(q, c) # {}
  <2>1. S \in SUBSET Nat
    BY <1>1
  <2> DEFINE k == Min(S)
  <2>2. k \in S /\ \A y \in S : k <= y
    <3> HIDE DEF S
    <3> QED
      BY <1>2, <2>1, MinFacts
  <2> HIDE DEF k
  <2>3. \A j \in 1..(k - 1) : q[j].coro # c
    <3> SUFFICES ASSUME NEW j \in 1..(k - 1), q[j].coro = c PROVE FALSE
      OBVIOUS
    <3>1. k \in 1..Len(q)
      BY <1>1, <2>2
    <3>2. j \in 1..Len(q) /\ ~(k <= j)
      BY <1>1, <3>1
    <3> QED
      BY <1>1, <2>2, <3>2
  <2> QED
    BY <2>2, <2>3 DEF FirstOf
<1>3. FirstOf(q, c) \subseteq S
  BY DEF FirstOf
<1> QED
  BY <1>2, <1>3 DEF Members

LEMMA CancelWakeInv ==
  ASSUME IInv, NEW c \in Scoped, CancelWake(c)
  PROVE  IInv'
<1> DEFINE ch == wait_chan[c]
           qs == IF FirstOf(sendq[ch], c) # {} THEN DropFirst(sendq[ch], c) ELSE sendq[ch]
           qr == IF FirstOf(sendq[ch], c) # {} THEN recvq[ch] ELSE DropFirst(recvq[ch], c)
           W == IF FirstOf(sendq[ch] \o recvq[ch], c) # {} /\ ~claim[c] THEN {c} ELSE {}
           Mine == {n \in Members(sendq[ch]) \cup Members(recvq[ch]) : n.coro = c}
<1>1. c \in Selectors /\ c \in Coro
  BY SelectAssumption, TypeFacts
<1>2. ch \in Chan /\ lock[ch] = None /\ Wake(W)
  BY <1>1 DEF CancelWake, IInv, TypeOK
<1>3. /\ sendq[ch] \in Seq(Node) /\ PlainOnce(sendq[ch])
      /\ recvq[ch] \in Seq(Node) /\ PlainOnce(recvq[ch])
      /\ sendq \in [Chan -> Seq(Node)] /\ recvq \in [Chan -> Seq(Node)]
  BY <1>2 DEF IInv, QueueTypes
<1>4. sendq' = [sendq EXCEPT ![ch] = qs] /\ recvq' = [recvq EXCEPT ![ch] = qr]
  <2>1. CASE FirstOf(sendq[ch], c) # {}
    BY <1>2, <1>3, <2>1 DEF CancelWake
  <2>2. CASE FirstOf(sendq[ch], c) = {}
    BY <1>2, <1>3, <2>2 DEF CancelWake
  <2> QED
    BY <2>1, <2>2
<1>5. Mine = {} <=> FirstOf(sendq[ch] \o recvq[ch], c) = {}
  <2>1. \A n \in Members(sendq[ch]) \cap Members(recvq[ch]) : n.case # 0
    BY <1>2 DEF IInv, PlainInv, SelectInv
  <2> HIDE DEF ch
  <2>2. /\ sendq[ch] \o recvq[ch] \in Seq(Node)
        /\ Members(sendq[ch] \o recvq[ch]) = Members(sendq[ch]) \cup Members(recvq[ch])
    BY <1>3, <2>1, ConcatFacts
  <2> QED
    BY <2>2, FirstFacts
<1>6. \A n \in Mine : n.case # 0
  BY <1>1, <1>2 DEF IInv, SelectInv
<1>7. ASSUME Mine # {}, ~claim[c] PROVE pc[c] = "parked"
  <2>1. PICK n \in Members(sendq[ch]) \cup Members(recvq[ch]) : n.coro = c
    BY <1>7
  <2>2. Claimable(n)
    BY <1>7, <2>1 DEF Claimable
  <2>3. \A d \in Selectors : lock[ch] # d
    BY <1>2, TypeFacts
  <2> HIDE DEF ch
  <2> QED
    BY <1>2, <2>1, <2>2, <2>3, ClaimedParked
<1>8. /\ qs \in Seq(Node) /\ PlainOnce(qs) /\ Members(qs) \subseteq Members(sendq[ch])
      /\ \A n \in Members(sendq[ch]) \ Members(qs) : n.coro = c
      /\ qr \in Seq(Node) /\ PlainOnce(qr) /\ Members(qr) \subseteq Members(recvq[ch])
      /\ \A n \in Members(recvq[ch]) \ Members(qr) : n.coro = c
  <2> HIDE DEF ch
  <2>1. /\ DropFirst(sendq[ch], c) \in Seq(Node) /\ PlainOnce(DropFirst(sendq[ch], c))
        /\ Members(DropFirst(sendq[ch], c)) \subseteq Members(sendq[ch])
        /\ \A n \in Members(sendq[ch]) \ Members(DropFirst(sendq[ch], c)) : n.coro = c
    BY <1>3, DropFacts
  <2>2. /\ DropFirst(recvq[ch], c) \in Seq(Node) /\ PlainOnce(DropFirst(recvq[ch], c))
        /\ Members(DropFirst(recvq[ch], c)) \subseteq Members(recvq[ch])
        /\ \A n \in Members(recvq[ch]) \ Members(DropFirst(recvq[ch], c)) : n.coro = c
    BY <1>3, DropFacts
  <2>3. CASE FirstOf(sendq[ch], c) # {}
    BY <1>3, <2>1, <2>3
  <2>4. CASE FirstOf(sendq[ch], c) = {}
    BY <1>3, <2>2, <2>4
  <2> QED
    BY <2>3, <2>4
<1> HIDE DEF ch, qs, qr
<1>9. \A n \in (Members(sendq[ch]) \ Members(qs)) \cup (Members(recvq[ch]) \ Members(qr)) :
         n.coro \in W \/ ~Claimable(n)
  <2> SUFFICES ASSUME NEW n \in Mine, n.coro \notin W PROVE ~Claimable(n)
    BY <1>8
  <2>1. claim[c] /\ n.coro = c /\ n.case # 0
    BY <1>5, <1>6
  <2> QED
    BY <2>1 DEF Claimable
<1>10. \A d \in W : pc[d] = "parked" /\ d \in Selectors /\ d \in Coro /\ ~claim[d]
  BY <1>1, <1>5, <1>7
<1> HIDE DEF W
<1>11. Wakes(ch, W, qs, qr)
  BY <1>2, <1>4, <1>8, <1>9, <1>10 DEF Wakes
<1>12. Moves
  BY StillMoves DEF CancelWake
<1>13. QuietInv'
  BY <1>2, <1>11, <1>12, WakeStep
<1>14. /\ claim' \in [Selectors -> BOOLEAN] /\ runq' \subseteq Coro
       /\ wait_chan' \in [Selectors -> Chan \cup {None}]
  <2>1. W \in SUBSET Coro
    BY <1>10
  <2> QED
    BY <1>2, <2>1, WakeTypes
<1>15. TypeOK'
  BY <1>14 DEF CancelWake, IInv, TypeOK, bufVars
<1> QED
  BY <1>13, <1>15 DEF IInv, QuietInv

----------------------------------------------------------------------------
(* The theorems                                                            *)

LEMMA InitInv == Init => IInv
<1> SUFFICES ASSUME Init PROVE IInv
  OBVIOUS
<1>1. <<>> \in Seq(Node) /\ PlainOnce(<<>>) /\ Members(<<>>) = {}
  BY DEF PlainOnce, Members
<1>2. \A ch \in Chan : sendq[ch] = <<>> /\ recvq[ch] = <<>>
  BY DEF Init
<1>3. TypeOK
  BY SelectAssumption DEF Init, TypeOK
<1>4. QueueTypes
  BY <1>1 DEF Init, QueueTypes
<1>5. PlainInv /\ SelectInv
  BY <1>1, <1>2 DEF PlainInv, SelectInv
<1>6. \A c \in Coro : pc[c] = "idle"
  BY DEF Init
<1>7. \A c \in Selectors : c \in Coro
  BY DEF Coro
<1>8. ClaimInv
  BY <1>6, <1>7 DEF Init, ClaimInv
<1> QED
  BY <1>3, <1>4, <1>5, <1>8 DEF IInv

LEMMA NextInv == IInv /\ [Next]_vars => IInv'
<1> SUFFICES ASSUME IInv, [Next]_vars PROVE IInv'
  OBVIOUS
<1>1. ASSUME NEW c \in Coro, CoroStep(c) PROVE IInv'
  BY <1>1, BeginInv, PlainSendInv, PlainRecvInv, PlainRunInv, CheckAtTopInv, LockNextInv,
     FireInv, LeaveInv, ParkInv, SwapOutInv, ResumeInv, UnlinkInv DEF CoroStep
<1>2. ASSUME NEW ch \in Chan, Close(ch) PROVE IInv'
  BY <1>2, CloseInv
<1>3. ASSUME NEW c \in Scoped, CancelMark(c) \/ CancelWake(c) PROVE IInv'
  BY <1>3, CancelMarkInv, CancelWakeInv
<1>4. CASE UNCHANGED vars
  <2>1. UNCHANGED <<fill, closed, lock, sendq, recvq, pc, claim, wait_chan, runq>>
    BY <1>4 DEF vars, bufVars, waitVars
  <2>2. Moves
    BY <2>1, StillMoves
  <2>3. QuietInv'
    BY <2>1, <2>2, QuietStep
  <2>4. TypeOK'
    BY <2>1 DEF IInv, TypeOK
  <2> QED
    BY <2>3, <2>4 DEF IInv, QuietInv
<1> QED
  BY <1>1, <1>2, <1>3, <1>4 DEF Next

LEMMA Inductive == Spec => []IInv
BY InitInv, NextInv, PTL DEF Spec

\* The state keeps its types: no select and no plain operation overfills or
\* underruns a ring (chan_can_send and chan_can_recv are tested under the lock).
THEOREM SelectTypeOK == Spec => []TypeOK
<1>1. IInv => TypeOK
  BY DEF IInv
<1> QED
  BY <1>1, Inductive, PTL

\* No wait queue ever holds a node of a select that has returned: jinn_select
\* unlinks every node under the channels' locks before its stack is reused.
THEOREM SelectNoDangling == Spec => []NoDanglingNode
<1>1. IInv => NoDanglingNode
  BY DEF IInv, PlainInv, SelectInv, NoDanglingNode
<1> QED
  BY <1>1, Inductive, PTL

\* waitq_node_claim lets exactly one waker take a parked select, and one that was
\* not taken can still be found in the queue of each of its cases.
THEOREM SelectOneWaker == Spec => []OneWaker
<1>1. IInv => OneWaker
  BY DEF IInv, ClaimInv, OneWaker
<1> QED
  BY <1>1, Inductive, PTL
============================================================================
