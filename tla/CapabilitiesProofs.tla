------------------------ MODULE CapabilitiesProofs --------------------------
(***************************************************************************)
(* The capabilities a function declares are upper bounds of what it does.  *)
(* First paths: a path that is textually within a scope leads to a place   *)
(* below the scope's.  Then the pass: the rows it spreads have all that a  *)
(* function may reach, and a running program only has operations to do     *)
(* that are charged to the row of the function it entered.                 *)
(***************************************************************************)
EXTENDS Capabilities, FiniteSetTheorems, NaturalsInduction, WellFoundedInduction, SequenceTheorems, TLAPS

\* Induction along 0..L: what holds at 0 and is carried from n - 1 to n holds
\* of them all, or there would be a least number it fails for.
LEMMA LeastCounterexample ==
  ASSUME NEW L \in Nat, NEW T, 0 \in T, \A n \in 1..L : n - 1 \in T => n \in T
  PROVE  0..L \subseteq T
<1>1. SUFFICES ASSUME (0..L) \ T # {} PROVE FALSE
  OBVIOUS
<1> DEFINE B == (0..L) \ T
<1>2. PICK n \in B : \A k \in B : ~(<<k, n>> \in OpToRel(<, Nat))
  <2>1. B \subseteq Nat /\ B # {}
    BY <1>1
  <2> HIDE DEF B
  <2> QED
    BY <2>1, NatLessThanWellFounded, WFMin, Zenon
<1>3. \A k, m \in Nat : k < m => <<k, m>> \in OpToRel(<, Nat)
  BY DEF OpToRel
<1>4. n # 0 /\ n \in 1..L /\ n - 1 \in 0..L /\ n - 1 \in Nat /\ n \in Nat /\ n - 1 < n
  OBVIOUS
<1>5. n - 1 \notin B
  BY <1>2, <1>3, <1>4
<1> QED
  BY <1>4, <1>5

\* A function on 0..L may be defined from its value at 0 and a step.
Iterable(L, S, base, G) == \E f \in [0..L -> S] : f[0] = base /\ \A n \in 1..L : f[n] = G[n][f[n - 1]]

\* A function on 0..L can be defined from its value at 0 and a step, which is
\* how the segments of a path are folded.
LEMMA Recursion ==
  ASSUME NEW L \in Nat, NEW S, NEW base \in S, NEW G \in [1..L -> [S -> S]]
  PROVE  Iterable(L, S, base, G)
<1> DEFINE Upto(m, f) == f[0] = base /\ \A n \in 1..m : f[n] = G[n][f[n - 1]]
           T == {m \in 0..L : \E f \in [0..m -> S] : Upto(m, f)}
<1>1. 0 \in T
  <2> DEFINE g == [n \in 0..0 |-> base]
  <2>1. Upto(0, g) /\ g \in [0..0 -> S] /\ 0 \in 0..L
    OBVIOUS
  <2> HIDE DEF g, Upto
  <2> QED
    BY <2>1
<1>2. ASSUME NEW n \in 1..L, n - 1 \in T PROVE n \in T
  <2>1. PICK f \in [0..(n - 1) -> S] : Upto(n - 1, f)
    BY <1>2
  <2> DEFINE g == [m \in 0..n |-> IF m = n THEN G[n][f[n - 1]] ELSE f[m]]
  <2>2. g \in [0..n -> S]
    <3>1. G[n][f[n - 1]] \in S
      BY n - 1 \in 0..(n - 1)
    <3>2. \A m \in 0..n : m # n => m \in 0..(n - 1)
      OBVIOUS
    <3> QED BY <3>1, <3>2
  <2>3. Upto(n, g)
    <3>1. g[0] = base
      BY <2>1
    <3>2. ASSUME NEW m \in 1..n PROVE g[m] = G[m][g[m - 1]]
      <4>1. CASE m = n
        <5>1. n - 1 # n /\ n - 1 \in 0..n
          OBVIOUS
        <5> QED BY <4>1, <5>1
      <4>2. CASE m # n
        <5>1. m \in 1..(n - 1) /\ m - 1 \in 0..n /\ m - 1 # n
          BY <4>2
        <5> QED BY <4>2, <5>1, <2>1
      <4> QED BY <4>1, <4>2
    <3> QED BY <3>1, <3>2
  <2> HIDE DEF g, Upto
  <2>4. n \in 0..L
    OBVIOUS
  <2> QED
    BY <2>2, <2>3, <2>4
<1> HIDE DEF T
<1>3. \A n \in 1..L : n - 1 \in T => n \in T
  BY <1>2
<1>4. 0..L \subseteq T
  BY <1>1, <1>3, LeastCounterexample
<1>5. L \in T
  BY <1>4
<1> QED
  BY <1>5 DEF T, Iterable

\* Pushing a segment on a path leaves a path.
LEMMA PushSegType ==
  ASSUME NEW out \in Seq(Segments), NEW seg \in Segments
  PROVE  PushSeg(out, seg) \in Seq(Segments)
<1>1. Append(out, seg) \in Seq(Segments)
  OBVIOUS
<1>2. out # <<>> => Front1(out) \in Seq(Segments)
  BY DEF Front1
<1> QED
  BY <1>1, <1>2 DEF PushSeg

\* normalize_path's loop: the normal form is what is left after pushing the
\* segments one by one.
LEMMA NormalUnfolds ==
  ASSUME NEW segs \in Seq(Segments)
  PROVE  \E f \in [0..Len(segs) -> Seq(Segments)] :
           /\ f[0] = <<>> /\ \A n \in 1..Len(segs) : f[n] = PushSeg(f[n - 1], segs[n])
           /\ NormalSegs(segs) = f[Len(segs)]
<1> DEFINE L == Len(segs)
           G == [n \in 1..L |-> [x \in Seq(Segments) |-> PushSeg(x, segs[n])]]
           out[n \in 0..Len(segs)] == IF n = 0 THEN <<>> ELSE PushSeg(out[n - 1], segs[n])
<1>1. G \in [1..L -> [Seq(Segments) -> Seq(Segments)]] /\ L \in Nat /\ <<>> \in Seq(Segments)
  <2>1. \A n \in 1..L : segs[n] \in Segments
    OBVIOUS
  <2>2. \A n \in 1..L, x \in Seq(Segments) : PushSeg(x, segs[n]) \in Seq(Segments)
    BY <2>1, PushSegType
  <2>3. L \in Nat /\ <<>> \in Seq(Segments)
    OBVIOUS
  <2> HIDE DEF L
  <2> QED BY <2>2, <2>3
<1>2. PICK f \in [0..L -> Seq(Segments)] : f[0] = <<>> /\ \A n \in 1..L : f[n] = G[n][f[n - 1]]
  <2> DEFINE S == Seq(Segments)
             base == <<>>
  <2>1. L \in Nat /\ base \in S /\ G \in [1..L -> [S -> S]]
    BY <1>1
  <2> HIDE DEF G, L, S, base
  <2>2. Iterable(L, S, base, G)
    BY <2>1, Recursion
  <2> QED
    BY <2>2 DEF S, base, Iterable
<1>3. \A n \in 1..L : f[n] = PushSeg(f[n - 1], segs[n])
  <2>1. \A n \in 1..L : f[n - 1] \in Seq(Segments)
    <3>1. \A n \in 1..L : n - 1 \in 0..L
      BY <1>1
    <3> QED BY <3>1
  <2> QED BY <1>2, <2>1
<1>4. f = [n \in 0..Len(segs) |-> IF n = 0 THEN <<>> ELSE PushSeg(f[n - 1], segs[n])]
  <2>1. \A n \in 0..L : f[n] = IF n = 0 THEN <<>> ELSE PushSeg(f[n - 1], segs[n])
    <3>1. \A n \in 0..L : n = 0 \/ n \in 1..L
      BY <1>1
    <3> QED BY <1>2, <1>3, <3>1
  <2> QED BY <2>1
<1>5. out = [n \in 0..Len(segs) |-> IF n = 0 THEN <<>> ELSE PushSeg(out[n - 1], segs[n])]
  BY <1>4
<1>6. NormalSegs(segs) = out[Len(segs)]
  BY DEF NormalSegs
<1> HIDE DEF out
<1>7. out \in [0..L -> Seq(Segments)] /\ out[0] = <<>> /\ \A n \in 1..L : out[n] = PushSeg(out[n - 1], segs[n])
  <2> DEFINE T == {n \in 0..L : out[n] \in Seq(Segments)}
  <2>1. out[0] = <<>> /\ \A n \in 1..L : out[n] = PushSeg(out[n - 1], segs[n])
    <3>1. 0 \in 0..L /\ \A n \in 1..L : n \in 0..L /\ n # 0
      BY <1>1
    <3> QED BY <1>5, <3>1
  <2>2. 0 \in T
    <3>1. 0 \in 0..L /\ out[0] \in Seq(Segments)
      BY <1>1, <2>1
    <3> QED BY <3>1
  <2>3. ASSUME NEW n \in 1..L, n - 1 \in T PROVE n \in T
    <3>1. n \in 0..L /\ segs[n] \in Segments
      OBVIOUS
    <3>2. out[n - 1] \in Seq(Segments)
      BY <2>3
    <3>3. PushSeg(out[n - 1], segs[n]) \in Seq(Segments)
      BY <3>1, <3>2, PushSegType
    <3> QED BY <3>1, <3>3, <2>1
  <2> HIDE DEF T, L
  <2>4. 0..L \subseteq T
    BY <1>1, <2>2, <2>3, LeastCounterexample
  <2> QED
    BY <2>1, <2>4, <1>5 DEF T, L
<1> QED
  BY <1>6, <1>7

\* Following a segment from a place leads to a place.
LEMMA WalkSegType ==
  ASSUME NEW at \in Seq(Segments), NEW seg \in Segments
  PROVE  WalkSeg(at, seg) \in Seq(Segments)
<1>1. Append(at, seg) \in Seq(Segments)
  OBVIOUS
<1>2. Up(at) \in Seq(Segments)
  BY DEF Up, Front1
<1> QED
  BY <1>1, <1>2 DEF WalkSeg

\* A walk is its segments followed one by one.
LEMMA WalkUnfolds ==
  ASSUME NEW from \in Seq(Segments), NEW segs \in Seq(Segments)
  PROVE  \E f \in [0..Len(segs) -> Seq(Segments)] :
           /\ f[0] = from /\ \A n \in 1..Len(segs) : f[n] = WalkSeg(f[n - 1], segs[n])
           /\ Walk(from, segs) = f[Len(segs)]
<1> DEFINE L == Len(segs)
           S == Seq(Segments)
           G == [n \in 1..L |-> [x \in S |-> WalkSeg(x, segs[n])]]
           at[n \in 0..Len(segs)] == IF n = 0 THEN from ELSE WalkSeg(at[n - 1], segs[n])
<1>1. L \in Nat /\ \A n \in 1..L : n \in 0..L /\ n - 1 \in 0..L /\ n # 0 /\ segs[n] \in Segments
  OBVIOUS
<1>2. \A n \in 1..L, x \in S : WalkSeg(x, segs[n]) \in S
  BY <1>1, WalkSegType
<1>3. G \in [1..L -> [S -> S]] /\ from \in S
  BY <1>2
<1>4. PICK f \in [0..L -> S] : f[0] = from /\ \A n \in 1..L : f[n] = G[n][f[n - 1]]
  <2>1. L \in Nat
    BY <1>1
  <2>2. from \in S /\ G \in [1..L -> [S -> S]]
    BY <1>3
  <2> HIDE DEF G, L, S
  <2>3. Iterable(L, S, from, G)
    BY <2>1, <2>2, Recursion
  <2> QED
    BY <2>3 DEF Iterable
<1>5. \A n \in 1..L : f[n] = WalkSeg(f[n - 1], segs[n])
  BY <1>1, <1>4
<1>6. f = [n \in 0..Len(segs) |-> IF n = 0 THEN from ELSE WalkSeg(f[n - 1], segs[n])]
  <2>1. \A n \in 0..L : n = 0 \/ n \in 1..L
    BY <1>1
  <2>2. \A n \in 0..L : f[n] = IF n = 0 THEN from ELSE WalkSeg(f[n - 1], segs[n])
    BY <1>4, <1>5, <2>1
  <2> QED BY <2>2
<1>7. at = [n \in 0..Len(segs) |-> IF n = 0 THEN from ELSE WalkSeg(at[n - 1], segs[n])]
  BY <1>6
<1>8. Walk(from, segs) = at[Len(segs)]
  BY DEF Walk
<1> HIDE DEF at
<1>9. at[0] = from /\ \A n \in 1..L : at[n] = WalkSeg(at[n - 1], segs[n])
  BY <1>1, <1>7
<1>10. 0..L \subseteq {n \in 0..L : at[n] \in S}
  <2> DEFINE T == {n \in 0..L : at[n] \in S}
  <2>1. 0 \in T
    BY <1>1, <1>9
  <2>2. \A n \in 1..L : n - 1 \in T => n \in T
    BY <1>1, <1>2, <1>9
  <2>3. L \in Nat
    BY <1>1
  <2>4. 0..L \subseteq T
    <3> HIDE DEF T, L
    <3> QED BY <2>1, <2>2, <2>3, LeastCounterexample
  <2> QED
    BY <2>4
<1> QED
  BY <1>7, <1>8, <1>9, <1>10

\* One walk goes through the ends of the walks along all its prefixes.
LEMMA WalkTrace ==
  ASSUME NEW from \in Seq(Segments), NEW t \in Seq(Segments)
  PROVE  \E g \in [0..Len(t) -> Seq(Segments)] :
           /\ g[0] = from /\ \A n \in 1..Len(t) : g[n] = WalkSeg(g[n - 1], t[n])
           /\ \A s \in Seq(Segments) : Len(s) <= Len(t) /\ (\A i \in 1..Len(s) : s[i] = t[i]) => Walk(from, s) = g[Len(s)]
<1>1. PICK g \in [0..Len(t) -> Seq(Segments)] : g[0] = from /\ \A n \in 1..Len(t) : g[n] = WalkSeg(g[n - 1], t[n])
  BY WalkUnfolds
<1>2. ASSUME NEW s \in Seq(Segments), Len(s) <= Len(t), \A i \in 1..Len(s) : s[i] = t[i]
      PROVE  Walk(from, s) = g[Len(s)]
  <2>1. PICK f \in [0..Len(s) -> Seq(Segments)] :
           /\ f[0] = from /\ \A n \in 1..Len(s) : f[n] = WalkSeg(f[n - 1], s[n])
           /\ Walk(from, s) = f[Len(s)]
    BY WalkUnfolds
  <2> DEFINE L == Len(s)
             T == {n \in 0..L : f[n] = g[n]}
  <2>2. L \in Nat /\ \A n \in 1..L : n \in 1..Len(t) /\ n \in 0..L
    BY <1>2
  <2>3. 0 \in T
    BY <1>1, <2>1, <2>2
  <2>4. \A n \in 1..L : n - 1 \in T => n \in T
    BY <1>1, <1>2, <2>1, <2>2
  <2>5. 0..L \subseteq T
    <3> HIDE DEF T, L
    <3> QED BY <2>2, <2>3, <2>4, LeastCounterexample
  <2>6. L \in T
    BY <2>2, <2>5
  <2> QED
    BY <2>1, <2>6
<1> QED
  BY <1>1, <1>2

\* A walk along nothing stays where it is.
LEMMA WalkEmpty ==
  ASSUME NEW from \in Seq(Segments)
  PROVE  Walk(from, <<>>) = from
<1>1. <<>> \in Seq(Segments) /\ Len(<<>>) = 0
  OBVIOUS
<1>2. PICK f \in [0..Len(<<>>) -> Seq(Segments)] : f[0] = from /\ Walk(from, <<>>) = f[Len(<<>>)]
  BY <1>1, WalkUnfolds
<1> QED
  BY <1>1, <1>2

\* A walk along one segment more is the walk, and then the segment.
LEMMA WalkAppend ==
  ASSUME NEW from \in Seq(Segments), NEW s \in Seq(Segments), NEW x \in Segments
  PROVE  /\ Walk(from, s) \in Seq(Segments)
         /\ Walk(from, Append(s, x)) = WalkSeg(Walk(from, s), x)
<1> DEFINE t == Append(s, x)
<1>1. /\ t \in Seq(Segments) /\ Len(t) = Len(s) + 1 /\ t[Len(t)] = x /\ Len(s) \in Nat
      /\ \A i \in 1..Len(s) : s[i] = t[i]
  OBVIOUS
<1> HIDE DEF t
<1>2. PICK g \in [0..Len(t) -> Seq(Segments)] :
         /\ g[0] = from /\ \A n \in 1..Len(t) : g[n] = WalkSeg(g[n - 1], t[n])
         /\ \A r \in Seq(Segments) : Len(r) <= Len(t) /\ (\A i \in 1..Len(r) : r[i] = t[i]) => Walk(from, r) = g[Len(r)]
  BY <1>1, WalkTrace
<1>3. Walk(from, s) = g[Len(s)] /\ Walk(from, t) = g[Len(t)]
  BY <1>1, <1>2
<1>4. g[Len(t)] = WalkSeg(g[Len(s)], x) /\ g[Len(s)] \in Seq(Segments)
  <2> DEFINE n == Len(t)
  <2>1. n \in 1..n /\ n - 1 = Len(s) /\ n - 1 \in 0..n /\ t[n] = x
    BY <1>1
  <2> HIDE DEF n
  <2>2. g[n] = WalkSeg(g[n - 1], t[n])
    BY <1>2, <2>1 DEF n
  <2>3. g[n - 1] \in Seq(Segments)
    BY <1>2, <2>1 DEF n
  <2> QED BY <2>1, <2>2, <2>3 DEF n
<1> QED
  BY <1>3, <1>4 DEF t

\* What push_seg keeps in a normalised path: no empty segment and no ".", and
\* nothing but ".." before a "..".
Normal(s) == \A i \in 1..Len(s) :
  /\ s[i] \notin {"", "."}
  /\ s[i] = ".." => \A j \in 1..i : s[j] = ".."

\* What a path is without its last segment.
LEMMA FrontFacts ==
  ASSUME NEW s \in Seq(Segments), s # <<>>
  PROVE  /\ Front1(s) \in Seq(Segments) /\ Len(Front1(s)) = Len(s) - 1 /\ Len(s) \in Nat /\ Len(s) >= 1
         /\ s[Len(s)] \in Segments /\ s = Append(Front1(s), s[Len(s)])
         /\ \A i \in 1..(Len(s) - 1) : Front1(s)[i] = s[i]
<1>1. Len(s) \in Nat /\ Len(s) >= 1
  OBVIOUS
<1>2. s[Len(s)] \in Segments
  BY <1>1
<1>3. /\ Front1(s) \in Seq(Segments) /\ Len(Front1(s)) = Len(s) - 1
      /\ \A i \in 1..(Len(s) - 1) : Front1(s)[i] = s[i]
  <2>1. Len(s) - 1 \in Nat
    BY <1>1
  <2>2. SubSeq(s, 1, Len(s) - 1) \in Seq(Segments)
    OBVIOUS
  <2>3. Len(SubSeq(s, 1, Len(s) - 1)) = Len(s) - 1
    <3>1. 1 \in 1..(Len(s) + 1) /\ Len(s) - 1 \in (1 - 1)..Len(s)
      BY <1>1
    <3> DEFINE n == Len(s) - 1
    <3>2. n \in Nat /\ 1 \in 1..(Len(s) + 1) /\ n \in (1 - 1)..Len(s)
      BY <2>1, <3>1
    <3> HIDE DEF n
    <3>3. Len(SubSeq(s, 1, n)) = IF 1 <= n THEN n - 1 + 1 ELSE 0
      BY <3>2, SubSeqProperties
    <3>4. Len(SubSeq(s, 1, n)) = n
      BY <3>2, <3>3
    <3> QED BY <3>4 DEF n
  <2>4. \A i \in 1..(Len(s) - 1) : SubSeq(s, 1, Len(s) - 1)[i] = s[i]
    BY <1>1
  <2> QED BY <2>2, <2>3, <2>4 DEF Front1
<1>4. s = Append(Front1(s), s[Len(s)])
  BY <1>1, <1>2, <1>3
<1> QED
  BY <1>1, <1>2, <1>3, <1>4

\* Pushing a segment on a normal path leaves a normal path.
LEMMA PushSegNormal ==
  ASSUME NEW out \in Seq(Segments), NEW seg \in Segments, Normal(out)
  PROVE  Normal(PushSeg(out, seg))
<1>1. CASE seg \in {"", "."}
  BY <1>1 DEF PushSeg
<1>2. CASE seg = ".." /\ (out = <<>> \/ out[Len(out)] = "..")
  <2>1. PushSeg(out, seg) = Append(out, seg)
    BY <1>2 DEF PushSeg
  <2>2. \A j \in 1..Len(out) : out[j] = ".."
    <3>1. CASE out = <<>>
      BY <3>1
    <3>2. CASE out # <<>>
      <4>1. Len(out) \in 1..Len(out) /\ out[Len(out)] = ".."
        BY <1>2, <3>2
      <4> QED BY <4>1 DEF Normal
    <3> QED BY <3>1, <3>2
  <2>3. \A j \in 1..Len(Append(out, seg)) : Append(out, seg)[j] = ".."
    BY <1>2, <2>2
  <2>4. \A i \in 1..Len(Append(out, seg)) : \A j \in 1..i : j \in 1..Len(Append(out, seg))
    OBVIOUS
  <2>5. Normal(Append(out, seg))
    BY <2>3, <2>4 DEF Normal
  <2> QED
    BY <2>1, <2>5
<1>3. CASE seg = ".." /\ out # <<>> /\ out[Len(out)] # ".."
  <2>1. PushSeg(out, seg) = Front1(out)
    BY <1>3 DEF PushSeg
  <2>2. Normal(Front1(out))
    <3>1. \A i \in 1..Len(Front1(out)) : i \in 1..Len(out) /\ Front1(out)[i] = out[i] /\ \A j \in 1..i : Front1(out)[j] = out[j]
      BY <1>3, FrontFacts
    <3> QED BY <3>1 DEF Normal
  <2> QED
    BY <2>1, <2>2
<1>4. CASE seg \notin {"", ".", ".."}
  <2>1. PushSeg(out, seg) = Append(out, seg)
    BY <1>4 DEF PushSeg
  <2>2. ASSUME NEW i \in 1..Len(Append(out, seg))
        PROVE  /\ Append(out, seg)[i] \notin {"", "."}
               /\ Append(out, seg)[i] = ".." => \A j \in 1..i : Append(out, seg)[j] = ".."
    <3> Len(out) \in Nat /\ Len(Append(out, seg)) = Len(out) + 1
      OBVIOUS
    <3>1. CASE i = Len(out) + 1
      <4>1. Append(out, seg)[i] = seg
        BY <3>1
      <4> QED BY <1>4, <4>1
    <3>2. CASE i \in 1..Len(out)
      <4>1. \A j \in 1..i : Append(out, seg)[j] = out[j]
        BY <3>2
      <4>2. Append(out, seg)[i] = out[i]
        BY <3>2
      <4> QED BY <3>2, <4>1, <4>2 DEF Normal
    <3>3. i \in 1..(Len(out) + 1)
      OBVIOUS
    <3>4. i = Len(out) + 1 \/ i \in 1..Len(out)
      BY <3>3
    <3> QED BY <3>1, <3>2, <3>4
  <2>3. Normal(Append(out, seg))
    BY <2>2 DEF Normal
  <2> QED
    BY <2>1, <2>3
<1> QED
  BY <1>1, <1>2, <1>3, <1>4

\* A segment pushed walks as the segment does.
LEMMA WalkPush ==
  ASSUME NEW from \in Seq(Segments), NEW out \in Seq(Segments), NEW seg \in Segments, Normal(out)
  PROVE  Walk(from, PushSeg(out, seg)) = WalkSeg(Walk(from, out), seg)
<1>1. CASE seg \in {"", "."}
  BY <1>1 DEF PushSeg, WalkSeg
<1>2. CASE seg = ".." /\ (out = <<>> \/ out[Len(out)] = "..")
  <2>1. PushSeg(out, seg) = Append(out, seg)
    BY <1>2 DEF PushSeg
  <2> QED
    BY <2>1, WalkAppend
<1>3. CASE seg = ".." /\ out # <<>> /\ out[Len(out)] # ".."
  <2> DEFINE last == out[Len(out)]
             front == Front1(out)
  <2>1. PushSeg(out, seg) = front
    BY <1>3 DEF PushSeg
  <2>2. front \in Seq(Segments) /\ out = Append(front, last) /\ last \in Segments /\ Len(out) \in 1..Len(out)
    BY <1>3, FrontFacts
  <2>3. last \notin {"", ".", ".."}
    BY <1>3, <2>2 DEF Normal
  <2> HIDE DEF last, front
  <2>4. Walk(from, out) = WalkSeg(Walk(from, front), last) /\ Walk(from, front) \in Seq(Segments)
    BY <2>2, WalkAppend
  <2>5. Walk(from, out) = Append(Walk(from, front), last)
    BY <2>3, <2>4 DEF WalkSeg
  <2>6. Up(Append(Walk(from, front), last)) = Walk(from, front)
    <3> DEFINE w == Walk(from, front)
    <3>1. w \in Seq(Segments)
      BY <2>4
    <3> HIDE DEF w
    <3> DEFINE u == Append(w, last)
    <3>2. u \in Seq(Segments) /\ u # <<>> /\ Len(u) = Len(w) + 1 /\ u[Len(w) + 1] = last
      BY <3>1, <2>2, AppendProperties
    <3>3. u = Append(Front1(u), u[Len(u)]) /\ Front1(u) \in Seq(Segments) /\ u[Len(u)] \in Segments
      <4> HIDE DEF u
      <4> QED BY <3>2, FrontFacts
    <3>4. Front1(u) = w
      BY <2>2, <3>1, <3>3, AppendInjective
    <3> HIDE DEF u
    <3> QED BY <3>2, <3>4 DEF Up, u, w
  <2> QED
    BY <1>3, <2>1, <2>5, <2>6 DEF WalkSeg
<1>4. CASE seg \notin {"", ".", ".."}
  <2>1. PushSeg(out, seg) = Append(out, seg)
    BY <1>4 DEF PushSeg
  <2> QED
    BY <2>1, WalkAppend
<1> QED
  BY <1>1, <1>2, <1>3, <1>4

\* A path and its normal form lead to the same place.
LEMMA NormalLeadsThere ==
  ASSUME NEW from \in Seq(Segments), NEW segs \in Seq(Segments)
  PROVE  /\ NormalSegs(segs) \in Seq(Segments) /\ Normal(NormalSegs(segs))
         /\ Walk(from, segs) = Walk(from, NormalSegs(segs))
<1>1. PICK f \in [0..Len(segs) -> Seq(Segments)] :
        /\ f[0] = <<>> /\ \A n \in 1..Len(segs) : f[n] = PushSeg(f[n - 1], segs[n])
        /\ NormalSegs(segs) = f[Len(segs)]
  BY NormalUnfolds
<1>2. PICK g \in [0..Len(segs) -> Seq(Segments)] :
        /\ g[0] = from /\ \A n \in 1..Len(segs) : g[n] = WalkSeg(g[n - 1], segs[n])
        /\ Walk(from, segs) = g[Len(segs)]
  BY WalkUnfolds
<1> DEFINE L == Len(segs)
           T == {n \in 0..L : Normal(f[n]) /\ Walk(from, f[n]) = g[n]}
<1>3. L \in Nat /\ \A n \in 1..L : n \in 0..L /\ n - 1 \in 0..L /\ segs[n] \in Segments
  OBVIOUS
<1>4. 0 \in T
  <2>1. Normal(<<>>)
    <3>1. 1..Len(<<>>) = {}
      OBVIOUS
    <3> QED BY <3>1 DEF Normal
  <2> QED BY <2>1, <1>1, <1>2, <1>3, WalkEmpty
<1>5. \A n \in 1..L : n - 1 \in T => n \in T
  <2> SUFFICES ASSUME NEW n \in 1..L, n - 1 \in T PROVE n \in T
    OBVIOUS
  <2>1. f[n - 1] \in Seq(Segments) /\ segs[n] \in Segments /\ n \in 0..L
    BY <1>3
  <2>2. Normal(f[n - 1]) /\ Walk(from, f[n - 1]) = g[n - 1]
    OBVIOUS
  <2>3. f[n] = PushSeg(f[n - 1], segs[n]) /\ g[n] = WalkSeg(g[n - 1], segs[n])
    BY <1>1, <1>2
  <2>4. Normal(f[n]) /\ Walk(from, f[n]) = g[n]
    BY <2>1, <2>2, <2>3, PushSegNormal, WalkPush
  <2> QED
    BY <2>1, <2>4
<1>6. 0..L \subseteq T
  <2>1. L \in Nat
    BY <1>3
  <2> HIDE DEF T, L
  <2> QED BY <1>4, <1>5, <2>1, LeastCounterexample
<1>7. L \in T /\ f[L] \in Seq(Segments)
  BY <1>3, <1>6
<1> QED
  BY <1>1, <1>2, <1>7

\* A path still starts with a prefix when a segment is added to it.
LEMMA StartsAppend ==
  ASSUME NEW s \in Seq(Segments), NEW pre \in Seq(Segments), NEW x \in Segments, StartsWith(s, pre)
  PROVE  StartsWith(Append(s, x), pre)
<1>1. Len(s) \in Nat /\ Len(pre) \in Nat /\ Len(Append(s, x)) = Len(s) + 1
  OBVIOUS
<1>2. \A m \in 1..Len(s) : Append(s, x)[m] = s[m]
  OBVIOUS
<1>3. \A m \in 1..Len(pre) : m \in 1..Len(s) /\ s[m] = pre[m]
  BY <1>1 DEF StartsWith
<1>4. Len(pre) <= Len(Append(s, x))
  BY <1>1 DEF StartsWith
<1> QED
  BY <1>2, <1>3, <1>4 DEF StartsWith

\* From the segment k on, s has only names of files and directories.
DownFrom(s, k) == \A i \in (k + 1)..Len(s) : s[i] \notin {"", ".", ".."}

\* A walk along names only goes down.
LEMMA WalkDown ==
  ASSUME NEW from \in Seq(Segments), NEW s \in Seq(Segments), NEW t \in Seq(Segments),
         StartsWith(t, s), DownFrom(t, Len(s))
  PROVE  StartsWith(Walk(from, t), Walk(from, s))
<1>1. PICK g \in [0..Len(t) -> Seq(Segments)] :
         /\ g[0] = from /\ \A n \in 1..Len(t) : g[n] = WalkSeg(g[n - 1], t[n])
         /\ \A r \in Seq(Segments) : Len(r) <= Len(t) /\ (\A i \in 1..Len(r) : r[i] = t[i]) => Walk(from, r) = g[Len(r)]
  BY WalkTrace
<1> DEFINE k == Len(s)
           L == Len(t)
           T == {n \in 0..L : n < k \/ StartsWith(g[n], g[k])}
<1>2. k \in Nat /\ L \in Nat /\ k \in 0..L /\ k <= L
  BY DEF StartsWith
<1>3. g[k] \in Seq(Segments) /\ StartsWith(g[k], g[k])
  <2>1. g[k] \in Seq(Segments)
    BY <1>2
  <2> QED BY <2>1 DEF StartsWith
<1>4. 0 \in T
  BY <1>2, <1>3
<1>5. \A n \in 1..L : n - 1 \in T => n \in T
  <2> SUFFICES ASSUME NEW n \in 1..L, n - 1 \in T PROVE n \in 0..L /\ (n < k \/ StartsWith(g[n], g[k]))
    OBVIOUS
  <2>1. CASE n < k
    BY <2>1
  <2>2. CASE n = k
    BY <2>2, <1>3
  <2>3. CASE n > k
    <3>1. n - 1 \in 0..L /\ ~(n - 1 < k) /\ n \in (Len(s) + 1)..Len(t)
      BY <1>2, <2>3
    <3>2. StartsWith(g[n - 1], g[k]) /\ g[n - 1] \in Seq(Segments)
      BY <3>1
    <3>3. t[n] \in Segments /\ g[n] = WalkSeg(g[n - 1], t[n])
      BY <1>1, <3>1
    <3>4. t[n] \notin {"", ".", ".."}
      BY <3>1 DEF DownFrom
    <3>5. g[n] = Append(g[n - 1], t[n])
      BY <3>3, <3>4 DEF WalkSeg
    <3>6. StartsWith(g[n], g[k])
      <4> HIDE DEF k, L
      <4> QED BY <1>3, <3>2, <3>3, <3>5, StartsAppend
    <3> QED BY <3>6
  <2> QED BY <1>2, <2>1, <2>2, <2>3
<1>6. L \in T
  <2>1. 0..L \subseteq T
    <3> HIDE DEF T, L
    <3> QED BY <1>2, <1>4, <1>5, LeastCounterexample
  <2> QED BY <1>2, <2>1
<1>7. StartsWith(g[L], g[k])
  BY <1>2, <1>6
<1>8. Walk(from, s) = g[k]
  BY <1>1 DEF StartsWith
<1>9. Walk(from, t) = g[L]
  <2>1. Len(t) <= Len(t)
    BY <1>2
  <2> QED BY <1>1, <2>1
<1> QED
  BY <1>7, <1>8, <1>9

\* From the root nothing lies above.
LEMMA WalkAbove ==
  ASSUME NEW s \in Seq(Segments), Normal(s), s # <<>> => s[Len(s)] = ".."
  PROVE  Walk(<<>>, s) = <<>>
<1>1. <<>> \in Seq(Segments)
  OBVIOUS
<1>2. PICK g \in [0..Len(s) -> Seq(Segments)] :
         /\ g[0] = <<>> /\ \A n \in 1..Len(s) : g[n] = WalkSeg(g[n - 1], s[n])
         /\ Walk(<<>>, s) = g[Len(s)]
  BY <1>1, WalkUnfolds
<1> DEFINE L == Len(s)
           T == {n \in 0..L : g[n] = <<>>}
<1>3. L \in Nat /\ \A n \in 1..L : n \in 0..L
  OBVIOUS
<1>4. \A n \in 1..L : s[n] = ".."
  <2>1. CASE L = 0
    BY <2>1
  <2>2. CASE L # 0
    <3>1. Len(s) \in 1..Len(s) /\ s # <<>>
      BY <1>3, <2>2
    <3> QED BY <3>1 DEF Normal
  <2> QED BY <2>1, <2>2
<1>5. 0 \in T
  BY <1>2, <1>3
<1>6. \A n \in 1..L : n - 1 \in T => n \in T
  BY <1>2, <1>3, <1>4 DEF WalkSeg, Up
<1>7. 0..L \subseteq T
  <2>1. L \in Nat
    BY <1>3
  <2> HIDE DEF T, L
  <2> QED BY <1>5, <1>6, <2>1, LeastCounterexample
<1>8. L \in T
  BY <1>3, <1>7
<1> QED
  BY <1>2, <1>8

-----------------------------------------------------------------------------
\* How the text of a normalised path tells its segments.
Bit(b) == IF b THEN 1 ELSE 0
Tells(text, N, b) ==
  /\ text \in Seq(Segments \cup {"/"})
  /\ Len(text) = IF N = <<>> THEN b ELSE 2 * Len(N) - 1 + b
  /\ \A j \in 1..Len(N) : text[2 * j - 1 + b] = N[j] /\ N[j] # "/"
  /\ b = 1 => text[1] = "/"

\* The text normalize_path builds has segment j of the normal form at 2j - 1,
\* one further behind the "/" of an absolute path.
LEMMA TextOf ==
  ASSUME NEW p \in Paths
  PROVE  /\ NormalSegs(p.segs) \in Seq(Segments) /\ Bit(p.abs) \in {0, 1}
         /\ Tells(normalize_path(p), NormalSegs(p.segs), Bit(p.abs))
<1> DEFINE N == NormalSegs(p.segs)
           b == Bit(p.abs)
<1>0. N \in Seq(Segments) /\ b \in {0, 1} /\ (p.abs => b = 1) /\ (~p.abs => b = 0)
  <2>1. p.segs \in Seq(Segments) /\ p.abs \in BOOLEAN /\ <<>> \in Seq(Segments)
    BY DEF Paths
  <2> QED BY <2>1, NormalLeadsThere DEF Bit
<1> DEFINE text == IF N = <<>> THEN <<>> ELSE Joined(N)
           n == Len(N)
           m == IF N = <<>> THEN 0 ELSE 2 * n - 1
<1>1. n \in Nat /\ m \in Nat /\ (N = <<>> <=> n = 0) /\ \A j \in 1..n : N[j] \in Segments
  <2> HIDE DEF N, b
  <2> QED BY <1>0
<1>2. "/" \notin Segments
  BY CapabilitiesAssumption
<1>3. normalize_path(p) = IF p.abs THEN <<"/">> \o text ELSE text
  BY DEF normalize_path
<1> HIDE DEF N, b
<1>4. /\ text \in Seq(Segments \cup {"/"}) /\ Len(text) = m
      /\ \A j \in 1..n : text[2 * j - 1] = N[j]
      /\ \A j \in 1..(n - 1) : text[2 * j] = "/"
  <2>1. CASE N = <<>>
    BY <1>1, <2>1
  <2>2. CASE N # <<>>
    <3>1. text = [i \in 1..m |-> IF i % 2 = 1 THEN N[(i + 1) \div 2] ELSE "/"]
      BY <1>1, <2>2 DEF Joined
    <3>2. \A i \in 1..m : i % 2 = 1 => (i + 1) \div 2 \in 1..n
      BY <1>1, <2>2
    <3>3. \A i \in 1..m : (IF i % 2 = 1 THEN N[(i + 1) \div 2] ELSE "/") \in Segments \cup {"/"}
      <4> SUFFICES ASSUME NEW i \in 1..m PROVE (IF i % 2 = 1 THEN N[(i + 1) \div 2] ELSE "/") \in Segments \cup {"/"}
        OBVIOUS
      <4>1. i % 2 = 1 => N[(i + 1) \div 2] \in Segments
        BY <1>1, <3>2
      <4>2. "/" \in Segments \cup {"/"}
        OBVIOUS
      <4>3. CASE i % 2 = 1
        BY <4>1, <4>3, <1>2
      <4>4. CASE i % 2 # 1
        BY <4>2, <4>4
      <4> QED BY <4>3, <4>4
    <3>4. text \in Seq(Segments \cup {"/"}) /\ Len(text) = m
      <4> HIDE DEF m
      <4>1. text \in [1..m -> Segments \cup {"/"}]
        BY <3>1, <3>3
      <4> HIDE DEF text
      <4> QED BY <4>1, <1>1
    <3>5. \A j \in 1..n : 2 * j - 1 \in 1..m /\ (2 * j - 1) % 2 = 1 /\ ((2 * j - 1) + 1) \div 2 = j
      BY <1>1, <2>2
    <3>6. \A j \in 1..(n - 1) : 2 * j \in 1..m /\ (2 * j) % 2 = 0
      BY <1>1, <2>2
    <3> HIDE DEF text, m, n
    <3>7. \A j \in 1..n : text[2 * j - 1] = N[j]
      BY <3>1, <3>5
    <3>8. \A j \in 1..(n - 1) : text[2 * j] = "/"
      BY <3>1, <3>6
    <3> QED BY <3>4, <3>7, <3>8
  <2> QED BY <2>1, <2>2
<1> HIDE DEF text
<1>5. CASE p.abs
  <2>1. /\ Len(<<"/">> \o text) = 1 + m /\ <<"/">> \o text \in Seq(Segments \cup {"/"})
        /\ (<<"/">> \o text)[1] = "/"
        /\ \A i \in 1..m : (<<"/">> \o text)[i + 1] = text[i]
    BY <1>4
  <2>2. \A j \in 1..n : 2 * j - 1 \in 1..m
    BY <1>1
  <2>3. b = 1 /\ normalize_path(p) = <<"/">> \o text
    BY <1>0, <1>3, <1>5
  <2>4. Len(normalize_path(p)) = IF N = <<>> THEN b ELSE 2 * Len(N) - 1 + b
    BY <1>1, <2>1, <2>3
  <2> HIDE DEF m
  <2>5. \A j \in 1..n : normalize_path(p)[2 * j - 1 + b] = N[j] /\ N[j] # "/"
    BY <1>1, <1>2, <1>4, <2>1, <2>2, <2>3
  <2> QED BY <1>0, <2>1, <2>3, <2>4, <2>5 DEF Tells, N, b
<1>6. CASE ~p.abs
  <2>1. b = 0 /\ normalize_path(p) = text
    BY <1>0, <1>3, <1>6
  <2>2. \A j \in 1..n : text[2 * j - 1 + b] = N[j] /\ N[j] # "/"
    BY <1>1, <1>2, <1>4, <2>1
  <2>3. Len(text) = IF N = <<>> THEN b ELSE 2 * Len(N) - 1 + b
    BY <1>1, <1>4, <2>1
  <2> QED BY <1>0, <1>4, <2>1, <2>2, <2>3 DEF Tells, N, b
<1> QED
  BY <1>5, <1>6

\* Two normalised paths with the same text are the same.
LEMMA SameText ==
  ASSUME NEW i \in Paths, NEW o \in Paths, normalize_path(i) = normalize_path(o)
  PROVE  i.abs = o.abs /\ NormalSegs(i.segs) = NormalSegs(o.segs)
<1> DEFINE N == NormalSegs(i.segs)
           M == NormalSegs(o.segs)
           b == Bit(i.abs)
           c == Bit(o.abs)
           text == normalize_path(i)
<1>1. N \in Seq(Segments) /\ M \in Seq(Segments) /\ b \in {0, 1} /\ c \in {0, 1} /\ Tells(text, N, b) /\ Tells(text, M, c)
  BY TextOf
<1>2. (i.abs = o.abs) <=> (b = c)
  BY DEF Paths, Bit
<1> HIDE DEF N, M, b, c, text
<1>3. /\ Len(N) \in Nat /\ Len(M) \in Nat /\ (N = <<>> <=> Len(N) = 0) /\ (M = <<>> <=> Len(M) = 0)
  BY <1>1
<1>4. /\ Len(text) = IF N = <<>> THEN b ELSE 2 * Len(N) - 1 + b
      /\ \A j \in 1..Len(N) : text[2 * j - 1 + b] = N[j] /\ N[j] # "/"
      /\ b = 1 => text[1] = "/"
  BY <1>1 DEF Tells
<1>5. /\ Len(text) = IF M = <<>> THEN c ELSE 2 * Len(M) - 1 + c
      /\ \A j \in 1..Len(M) : text[2 * j - 1 + c] = M[j] /\ M[j] # "/"
      /\ c = 1 => text[1] = "/"
  BY <1>1 DEF Tells
<1>6. ~(b = 1 /\ c = 0)
  <2> SUFFICES ASSUME b = 1, c = 0 PROVE FALSE
    OBVIOUS
  <2>1. Len(M) # 0 /\ 1 \in 1..Len(M) /\ 2 * 1 - 1 + c = 1
    BY <1>3, <1>4, <1>5
  <2> QED BY <2>1, <1>4, <1>5
<1>7. ~(c = 1 /\ b = 0)
  <2> SUFFICES ASSUME c = 1, b = 0 PROVE FALSE
    OBVIOUS
  <2>1. Len(N) # 0 /\ 1 \in 1..Len(N) /\ 2 * 1 - 1 + b = 1
    BY <1>3, <1>4, <1>5
  <2> QED BY <2>1, <1>4, <1>5
<1>8. b = c
  BY <1>1, <1>6, <1>7
<1>9. Len(N) = Len(M)
  BY <1>1, <1>3, <1>4, <1>5, <1>8
<1>10. \A j \in 1..Len(N) : N[j] = M[j]
  BY <1>4, <1>5, <1>8, <1>9
<1>11. N = M
  BY <1>1, <1>9, <1>10
<1> QED
  BY <1>2, <1>8, <1>11 DEF N, M

\* A path whose text continues that of a scope after a "/" lies below it.
LEMMA LongerText ==
  ASSUME NEW i \in Paths, NEW o \in Paths, StartsWith(normalize_path(i), Append(normalize_path(o), "/")),
         o.abs \/ NormalSegs(o.segs) # <<>>
  PROVE  i.abs = o.abs /\ (NormalSegs(o.segs) # <<>> => StartsWith(NormalSegs(i.segs), NormalSegs(o.segs)))
<1> DEFINE N == NormalSegs(i.segs)
           M == NormalSegs(o.segs)
           b == Bit(i.abs)
           c == Bit(o.abs)
           ni == normalize_path(i)
           no == normalize_path(o)
<1>1. N \in Seq(Segments) /\ M \in Seq(Segments) /\ b \in {0, 1} /\ c \in {0, 1} /\ Tells(ni, N, b) /\ Tells(no, M, c)
  BY TextOf
<1>2. ((i.abs = o.abs) <=> (b = c)) /\ (c = 1 \/ M # <<>>)
  BY DEF Paths, Bit
<1>3. StartsWith(ni, Append(no, "/"))
  OBVIOUS
<1> HIDE DEF N, M, b, c, ni, no
<1>4. /\ Len(N) \in Nat /\ Len(M) \in Nat /\ (N = <<>> <=> Len(N) = 0) /\ (M = <<>> <=> Len(M) = 0)
  BY <1>1
<1>5. /\ Len(ni) = IF N = <<>> THEN b ELSE 2 * Len(N) - 1 + b
      /\ \A j \in 1..Len(N) : ni[2 * j - 1 + b] = N[j] /\ N[j] # "/"
      /\ b = 1 => ni[1] = "/"
  BY <1>1 DEF Tells
<1>6. /\ Len(no) = IF M = <<>> THEN c ELSE 2 * Len(M) - 1 + c
      /\ \A j \in 1..Len(M) : no[2 * j - 1 + c] = M[j] /\ M[j] # "/"
      /\ c = 1 => no[1] = "/"
      /\ no \in Seq(Segments \cup {"/"})
  BY <1>1 DEF Tells
<1>7. /\ Len(no) \in Nat /\ Len(Append(no, "/")) = Len(no) + 1
      /\ \A j \in 1..Len(no) : Append(no, "/")[j] = no[j]
  BY <1>6
<1>8. Len(no) + 1 <= Len(ni) /\ \A j \in 1..Len(no) : ni[j] = no[j]
  BY <1>3, <1>7 DEF StartsWith
<1>9. Len(no) >= 1
  BY <1>1, <1>2, <1>4, <1>6
<1>10. ni[1] = no[1]
  BY <1>7, <1>8, <1>9
<1>11. ~(b = 1 /\ c = 0)
  <2> SUFFICES ASSUME b = 1, c = 0 PROVE FALSE
    OBVIOUS
  <2>1. Len(M) # 0 /\ 1 \in 1..Len(M) /\ 2 * 1 - 1 + c = 1
    BY <1>2, <1>4
  <2> QED BY <2>1, <1>5, <1>6, <1>10
<1>12. ~(c = 1 /\ b = 0)
  <2> SUFFICES ASSUME c = 1, b = 0 PROVE FALSE
    OBVIOUS
  <2>1. Len(N) # 0 /\ 1 \in 1..Len(N) /\ 2 * 1 - 1 + b = 1
    BY <1>4, <1>5, <1>7, <1>8
  <2> QED BY <2>1, <1>5, <1>6, <1>10
<1>13. b = c
  BY <1>1, <1>11, <1>12
<1>14. ASSUME M # <<>> PROVE StartsWith(N, M)
  <2>1. Len(no) = 2 * Len(M) - 1 + c /\ Len(M) >= 1
    BY <1>4, <1>6, <1>14
  <2>2. Len(M) <= Len(N)
    BY <1>1, <1>4, <1>5, <1>8, <1>13, <2>1
  <2>3. ASSUME NEW j \in 1..Len(M) PROVE N[j] = M[j]
    <3>1. j \in 1..Len(N) /\ 2 * j - 1 + c \in 1..Len(no)
      BY <1>1, <1>4, <2>1, <2>2
    <3> QED BY <1>5, <1>6, <1>8, <1>13, <3>1
  <2> QED BY <2>2, <2>3 DEF StartsWith
<1> QED
  BY <1>2, <1>13, <1>14 DEF N, M

\* What the comparison of scopes is for: a path within an honest scope leads to
\* a place at the scope's place or below it.
LEMMA WithinLeadsBelow ==
  ASSUME NEW i \in Paths, NEW o \in Paths, NamesPlace(o), o # AnyScope, path_within(i, o)
  PROVE  StartsWith(At(i), At(o))
<1> DEFINE N == NormalSegs(i.segs)
           M == NormalSegs(o.segs)
           from == IF o.abs THEN <<>> ELSE Cwd
<1>1. /\ i.segs \in Seq(Segments) /\ o.segs \in Seq(Segments) /\ from \in Seq(Segments) /\ <<>> \in Seq(Segments)
  BY CapabilitiesAssumption DEF Paths
<1>2. N \in Seq(Segments) /\ M \in Seq(Segments) /\ Normal(N) /\ Normal(M)
  BY <1>1, NormalLeadsThere
<1>3. At(o) = Walk(from, M)
  BY <1>1, NormalLeadsThere DEF At
<1>4. o.abs \/ (M # <<>> /\ M[Len(M)] # "..")
  BY DEF NamesPlace
<1>5. i.abs = o.abs /\ (M # <<>> => StartsWith(N, M))
  <2>1. normalize_path(i) = normalize_path(o) \/ StartsWith(normalize_path(i), Append(normalize_path(o), "/"))
    BY DEF path_within
  <2>2. CASE normalize_path(i) = normalize_path(o)
    <3>1. i.abs = o.abs /\ N = M
      BY <2>2, SameText
    <3>2. StartsWith(M, M)
      <4> HIDE DEF M
      <4> QED BY <1>2 DEF StartsWith
    <3> QED BY <3>1, <3>2
  <2>3. CASE StartsWith(normalize_path(i), Append(normalize_path(o), "/"))
    <3>1. o.abs \/ NormalSegs(o.segs) # <<>>
      BY <1>4
    <3> QED BY <2>3, <3>1, LongerText
  <2> QED BY <2>1, <2>2, <2>3
<1>6. At(i) = Walk(from, N)
  BY <1>1, <1>5, NormalLeadsThere DEF At
<1>7. Walk(from, N) \in Seq(Segments)
  <2>1. PICK f \in [0..Len(N) -> Seq(Segments)] : Walk(from, N) = f[Len(N)]
    <3> HIDE DEF N, from
    <3> QED BY <1>1, <1>2, WalkUnfolds
  <2>2. Len(N) \in 0..Len(N)
    BY <1>2
  <2> QED BY <2>1, <2>2
<1> HIDE DEF N, M, from
<1>8. CASE M # <<>> => M[Len(M)] = ".."
  <2>1. from = <<>>
    BY <1>4, <1>8 DEF from
  <2>2. Walk(from, M) = <<>>
    BY <1>2, <1>8, <2>1, WalkAbove
  <2>3. Len(<<>>) = 0 /\ 1..0 = {} /\ Len(Walk(from, N)) >= 0
    BY <1>7
  <2>4. StartsWith(Walk(from, N), <<>>)
    BY <2>3 DEF StartsWith
  <2> QED BY <1>3, <1>6, <2>2, <2>4
<1>9. CASE M # <<>> /\ M[Len(M)] # ".."
  <2>1. StartsWith(N, M)
    BY <1>5, <1>9
  <2>2. DownFrom(N, Len(M))
    <3> SUFFICES ASSUME NEW k \in (Len(M) + 1)..Len(N) PROVE N[k] \notin {"", ".", ".."}
      BY DEF DownFrom
    <3>1. Len(M) \in Nat /\ Len(N) \in Nat /\ Len(M) >= 1
      BY <1>2, <1>9
    <3>2. k \in 1..Len(N) /\ Len(M) \in 1..k /\ Len(M) \in 1..Len(M)
      BY <3>1
    <3>3. N[Len(M)] = M[Len(M)]
      BY <2>1, <3>2 DEF StartsWith
    <3>4. N[Len(M)] # ".."
      BY <1>9, <3>3
    <3> QED BY <1>2, <3>2, <3>4 DEF Normal
  <2> QED BY <1>1, <1>2, <1>3, <1>6, <2>1, <2>2, WalkDown
<1> QED
  BY <1>8, <1>9

-----------------------------------------------------------------------------
(* What the work lists of the pass visit. *)

\* A work list visits what it starts with.
LEMMA ClosureHas ==
  ASSUME NEW All, NEW S, NEW next, NEW u \in S, u \in All
  PROVE  u \in Closure(All, S, next)
BY DEF Closure

\* A work list visits what follows what it visits.
LEMMA ClosureClosed ==
  ASSUME NEW All, NEW S, NEW next, NEW v \in Closure(All, S, next), NEW u \in next[v], u \in All
  PROVE  u \in Closure(All, S, next)
<1> SUFFICES ASSUME NEW T \in SUBSET All, S \subseteq T, \A w \in T : next[w] \subseteq T PROVE u \in T
  BY DEF Closure
<1>1. v \in T
  BY DEF Closure
<1> QED
  BY <1>1

\* A work list that starts with part of what another one visits visits no more.
LEMMA ClosureOfLess ==
  ASSUME NEW All, NEW R, NEW S, NEW next, R \subseteq Closure(All, S, next)
  PROVE  Closure(All, R, next) \subseteq Closure(All, S, next)
<1> SUFFICES ASSUME NEW u \in Closure(All, R, next),
                    NEW T \in SUBSET All, S \subseteq T, \A w \in T : next[w] \subseteq T
             PROVE  u \in T /\ u \in All
  BY DEF Closure
<1>1. Closure(All, S, next) \subseteq T
  BY DEF Closure
<1>2. R \subseteq T
  BY <1>1
<1> QED
  BY <1>2 DEF Closure

\* A work list that starts empty visits nothing.
LEMMA ClosureOfNone ==
  ASSUME NEW All, NEW next
  PROVE  Closure(All, {}, next) = {}
<1>1. \A u \in Closure(All, {}, next) : u \in {}
  <2> SUFFICES ASSUME NEW u \in Closure(All, {}, next) PROVE u \in {}
    OBVIOUS
  <2>1. {} \in SUBSET All /\ {} \subseteq {} /\ \A w \in {} : next[w] \subseteq {}
    OBVIOUS
  <2> QED BY <2>1 DEF Closure
<1> QED
  BY <1>1

\* The functions put back on the work list are all there.
LEMMA SetToSeqHasAll ==
  ASSUME NEW S, IsFiniteSet(S)
  PROVE  SetToSeq(S) \in Seq(S) /\ ToSet(SetToSeq(S)) = S
<1> DEFINE n == Cardinality(S)
           q == SetToSeq(S)
<1>1. n \in Nat /\ ExistsBijection(1..n, S)
  BY FS_CardinalityType
<1>2. \E f \in [1..n -> S] : IsInjective(f)
  BY <1>1 DEF ExistsBijection, Bijection, Injection, IsInjective
<1>3. q \in [1..n -> S] /\ IsInjective(q)
  BY <1>2 DEF SetToSeq
<1>4. IsFiniteSet(1..n) /\ Cardinality(1..n) = n
  BY <1>1, FS_Interval
<1>5. q \in Surjection(1..n, S)
  <2>1. q \in Injection(1..n, S)
    BY <1>3 DEF Injection, IsInjective
  <2> HIDE DEF q, n
  <2> QED BY <1>4, <2>1, FS_Injection DEF n
<1> HIDE DEF q
<1>6. \A x \in S : \E i \in 1..n : q[i] = x
  BY <1>5 DEF Surjection
<1>7. DOMAIN q = 1..n /\ \A i \in 1..n : q[i] \in S
  BY <1>3
<1>8. q \in Seq(S)
  <2> HIDE DEF n
  <2> QED BY <1>1, <1>3
<1>9. ToSet(q) = S
  <2> HIDE DEF n
  <2> QED BY <1>6, <1>7 DEF ToSet
<1> QED
  BY <1>8, <1>9 DEF q

-----------------------------------------------------------------------------
(* The operations a piece of code stands for. *)

Nested(p) == [u \in Pieces(p) |-> Inner(p, Code(p, u))]
Reach(p, o) == {o} \cup UNION {Code(p, u) : u \in Closure(Pieces(p), Inner(p, {o}), Nested(p))}

\* What an operation of a body reaches is in the body's block.
LEMMA BodyReach ==
  ASSUME NEW p, NEW f, NEW o \in ToSet(p.body[f])
  PROVE  Reach(p, o) \subseteq block(p, f)
<1> DEFINE own == ToSet(p.body[f])
           init == IF f = "main" THEN {"global"} \X DOMAIN p.globals ELSE {}
           C == Closure(Pieces(p), Inner(p, own) \cup init, Nested(p))
<1>1. block(p, f) = own \cup UNION {Code(p, u) : u \in C}
  BY DEF block, Nested
<1>2. Inner(p, {o}) \subseteq Pieces(p) /\ Inner(p, {o}) \subseteq Inner(p, own)
  BY DEF Inner
<1>3. Inner(p, {o}) \subseteq C
  <2> SUFFICES ASSUME NEW u \in Inner(p, {o}) PROVE u \in C
    OBVIOUS
  <2>1. u \in Inner(p, own) \cup init /\ u \in Pieces(p)
    BY <1>2
  <2> HIDE DEF init, own
  <2> QED BY <2>1, ClosureHas
<1> HIDE DEF init, own
<1>4. Closure(Pieces(p), Inner(p, {o}), Nested(p)) \subseteq C
  BY <1>3, ClosureOfLess
<1> HIDE DEF C
<1> QED
  BY <1>1, <1>4 DEF Reach, own

\* So is what the initialiser of a global reaches, in the block of main.
LEMMA GlobalReach ==
  ASSUME NEW p, NEW g \in DOMAIN p.globals, NEW o \in ToSet(p.globals[g])
  PROVE  Reach(p, o) \subseteq block(p, "main")
<1> DEFINE own == ToSet(p.body["main"])
           init == {"global"} \X DOMAIN p.globals
           C == Closure(Pieces(p), Inner(p, own) \cup init, Nested(p))
           u0 == <<"global", g>>
<1>1. block(p, "main") = own \cup UNION {Code(p, u) : u \in C}
  BY DEF block, Nested
<1>2. u0 \in init /\ u0 \in Pieces(p) /\ Code(p, u0) = ToSet(p.globals[g])
  BY DEF Pieces, Code
<1>3. u0 \in C
  <2>1. u0 \in Inner(p, own) \cup init
    BY <1>2
  <2> HIDE DEF init, own, u0
  <2> QED BY <1>2, <2>1, ClosureHas
<1>4. Inner(p, {o}) \subseteq C
  <2> SUFFICES ASSUME NEW u \in Inner(p, {o}) PROVE u \in C
    OBVIOUS
  <2>1. o \in Code(p, u0)
    BY <1>2
  <2>2. u \in Pieces(p) /\ u \in Inner(p, Code(p, u0))
    BY <2>1 DEF Inner
  <2>3. u \in Nested(p)[u0]
    BY <1>2, <2>2 DEF Nested
  <2> HIDE DEF init, own, u0
  <2> QED BY <1>3, <2>2, <2>3, ClosureClosed
<1> HIDE DEF init, own
<1>5. Closure(Pieces(p), Inner(p, {o}), Nested(p)) \subseteq C
  BY <1>4, ClosureOfLess
<1>6. Code(p, u0) \subseteq UNION {Code(p, u) : u \in C}
  BY <1>3
<1> HIDE DEF C, u0
<1> QED
  BY <1>1, <1>2, <1>5, <1>6 DEF Reach

\* What an operation of a nested block reaches, the block reaches.
LEMMA BlockReach ==
  ASSUME NEW p, NEW o, o.op = "block", o.x \in DOMAIN p.blocks, NEW q \in ToSet(p.blocks[o.x])
  PROVE  Reach(p, q) \subseteq Reach(p, o)
<1> DEFINE u0 == <<"block", o.x>>
           C == Closure(Pieces(p), Inner(p, {o}), Nested(p))
<1>1. u0 \in Pieces(p) /\ Code(p, u0) = ToSet(p.blocks[o.x]) /\ u0 \in Inner(p, {o})
  BY DEF Pieces, Code, Inner
<1>2. u0 \in C
  <2> HIDE DEF u0
  <2> QED BY <1>1, ClosureHas
<1>3. Inner(p, {q}) \subseteq C
  <2> SUFFICES ASSUME NEW u \in Inner(p, {q}) PROVE u \in C
    OBVIOUS
  <2>1. q \in Code(p, u0)
    BY <1>1
  <2>2. u \in Pieces(p) /\ u \in Inner(p, Code(p, u0))
    BY <2>1 DEF Inner
  <2>3. u \in Nested(p)[u0]
    BY <1>1, <2>2 DEF Nested
  <2> HIDE DEF u0
  <2> QED BY <1>2, <2>2, <2>3, ClosureClosed
<1>4. Closure(Pieces(p), Inner(p, {q}), Nested(p)) \subseteq C
  BY <1>3, ClosureOfLess
<1>5. Code(p, u0) \subseteq UNION {Code(p, u) : u \in C}
  BY <1>2
<1> HIDE DEF C, u0
<1> QED
  BY <1>1, <1>4, <1>5 DEF Reach, C

\* Other operations reach themselves only.
LEMMA PlainReach ==
  ASSUME NEW p, NEW o, o.op \notin {"block", "gget"}
  PROVE  Reach(p, o) = {o}
<1>1. Inner(p, {o}) = {}
  BY DEF Inner
<1> QED
  BY <1>1, ClosureOfNone DEF Reach

-----------------------------------------------------------------------------
AnyPath == Paths \cup {AnyScope}

\* Every field of the state is there.
Shaped(c) == c = [prog |-> c.prog, stage |-> c.stage, graph |-> c.graph, rows |-> c.rows, pending |-> c.pending,
                  from |-> c.from, k |-> c.k, vals |-> c.vals, did |-> c.did, fuel |-> c.fuel]

\* The rows have what the bodies need, and a caller's row has its callee's
\* unless the callee still waits.
Spreading(c) ==
  /\ DOMAIN c.rows = DOMAIN c.prog.body
  /\ c.graph = [f \in DOMAIN c.prog.body |-> Scan(c.prog, f).callees \cap DOMAIN c.prog.body]
  /\ \A f \in DOMAIN c.prog.body : Scan(c.prog, f).caps \subseteq c.rows[f]
  /\ c.pending \in Seq(DOMAIN c.prog.body)
  /\ \A f \in DOMAIN c.prog.body : \A g \in c.graph[f] : g \notin ToSet(c.pending) => c.rows[g] \subseteq c.rows[f]

\* An operation's capabilities are in the row of the function entered, and so
\* are those of the functions it calls.
Paid(c, o) ==
  /\ expr(c.prog, o).caps \subseteq c.rows[c.from]
  /\ \A g \in expr(c.prog, o).callees : g \in DOMAIN c.prog.body /\ c.rows[g] \subseteq c.rows[c.from]
Known(c, o) ==
  /\ o.path \in AnyPath
  /\ Resolved(c.prog, o) \/ (o.op = "init" /\ o.x \in DOMAIN c.prog.globals /\ c.from = "main")
Waits(c) == Ops \cup {Op("delete", s, AnyScope, "") : s \in DOMAIN c.prog.stores}
                \cup {Op("drop", t, AnyScope, "") : t \in DOMAIN c.prog.types}
Charged(c) == {o \in Waits(c) : Known(c, o) /\ \A q \in Reach(c.prog, o) : Paid(c, q)}
Running(c) ==
  /\ c.pending = <<>>
  /\ c.from \in DOMAIN c.prog.needs
  /\ contained_in(c.rows[c.from], c.prog.needs[c.from]) = {}
  /\ c.k \in Seq(Charged(c))
  /\ \A e \in c.did : \E d \in c.prog.needs[c.from] : Covered(e, d)

CapInv ==
  /\ Shaped(cap) /\ cap.prog \in Programs /\ cap.stage \in {"scan", "spread", "refused", "run"}
  /\ cap.stage # "run" => cap.did = {}
  /\ cap.stage # "scan" => Spreading(cap)
  /\ cap.stage = "run" => Running(cap)

-----------------------------------------------------------------------------
(* The rows *)

\* The invariant holds before the pass.
LEMMA InitInv == CapabilitiesInit => CapInv
<1> SUFFICES ASSUME NEW p \in Programs,
                    cap = [prog |-> p, stage |-> "scan", graph |-> <<>>, rows |-> <<>>, pending |-> <<>>,
                           from |-> "", k |-> <<>>, vals |-> {}, did |-> {}, fuel |-> Fuel]
             PROVE  CapInv
  BY DEF CapabilitiesInit, Fresh
<1>1. Shaped(cap)
  BY DEF Shaped
<1>2. cap.prog = p /\ cap.stage = "scan" /\ cap.did = {}
  OBVIOUS
<1> QED
  BY <1>1, <1>2 DEF CapInv

\* The scan of the bodies establishes the rows: a caller's row may lack its
\* callee's, but then the callee is on the work list.
LEMMA AnalyzeStep == CapInv /\ analyze => CapInv'
<1> SUFFICES ASSUME CapInv, analyze PROVE CapInv'
  OBVIOUS
<1> DEFINE p == cap.prog
           graph == [f \in DOMAIN p.body |-> Scan(p, f).callees \cap DOMAIN p.body]
           rows == [f \in DOMAIN p.body |-> Scan(p, f).caps]
<1>1. p \in Programs /\ WellFormed(p) /\ Shaped(cap)
  BY CapabilitiesAssumption DEF CapInv
<1>2. cap' = [cap EXCEPT !.stage = "spread", !.graph = graph, !.rows = rows, !.pending = p.order]
  BY DEF analyze
<1> HIDE DEF graph, rows
<1>3. cap' = [prog |-> p, stage |-> "spread", graph |-> graph, rows |-> rows, pending |-> p.order,
              from |-> cap.from, k |-> cap.k, vals |-> cap.vals, did |-> cap.did, fuel |-> cap.fuel]
  BY <1>1, <1>2 DEF Shaped
<1>4. /\ cap'.prog = p /\ cap'.stage = "spread" /\ cap'.graph = graph /\ cap'.rows = rows
      /\ cap'.pending = p.order /\ cap'.did = cap.did /\ Shaped(cap')
  BY <1>3 DEF Shaped
<1> DEFINE D == cap.did
<1>7. D = {} /\ cap'.did = D
  BY <1>1, <1>4 DEF CapInv, analyze
<1> HIDE DEF D
<1> HIDE DEF p
<1>5. p.order \in Seq(DOMAIN p.body) /\ DOMAIN p.body \subseteq ToSet(p.order)
  BY <1>1 DEF WellFormed, ToSet
<1>6. Spreading(cap')
  <2>1. DOMAIN rows = DOMAIN p.body /\ \A f \in DOMAIN p.body : Scan(p, f).caps \subseteq rows[f]
    BY DEF rows
  <2>2. \A f \in DOMAIN p.body : \A g \in graph[f] : g \in ToSet(p.order)
    BY <1>5 DEF graph
  <2> QED BY <1>4, <1>5, <2>1, <2>2 DEF Spreading, graph
<1> QED
  BY <1>1, <1>4, <1>6, <1>7 DEF CapInv

\* A turn of the work list keeps them: a caller whose row does not grow has its
\* callee's already, and a function whose row grows waits again.
LEMMA SpreadStep == CapInv /\ spread => CapInv'
<1> SUFFICES ASSUME CapInv, spread PROVE CapInv'
  OBVIOUS
<1> DEFINE p == cap.prog
           F == DOMAIN p.body
           callee == Head(cap.pending)
           up == Grown(cap, callee)
           rest == Tail(cap.pending)
           back == SetToSeq(up \ ToSet(rest))
           rows == [f \in DOMAIN cap.rows |-> IF f \in up THEN cap.rows[f] \cup cap.rows[callee] ELSE cap.rows[f]]
<1>1. p \in Programs /\ WellFormed(p) /\ Shaped(cap) /\ Spreading(cap) /\ cap.stage = "spread" /\ cap.pending # <<>>
  BY CapabilitiesAssumption DEF CapInv, spread
<1>2. cap' = [cap EXCEPT !.rows = rows, !.pending = rest \o back]
  BY <1>1 DEF spread, Spread, Shaped
<1> HIDE DEF rows, rest, back
<1>3. cap' = [prog |-> p, stage |-> "spread", graph |-> cap.graph, rows |-> rows, pending |-> rest \o back,
              from |-> cap.from, k |-> cap.k, vals |-> cap.vals, did |-> cap.did, fuel |-> cap.fuel]
  BY <1>1, <1>2 DEF Shaped
<1>4. /\ cap'.prog = p /\ cap'.stage = "spread" /\ cap'.graph = cap.graph /\ cap'.rows = rows
      /\ cap'.pending = rest \o back /\ cap'.did = cap.did /\ Shaped(cap')
  BY <1>3 DEF Shaped
<1> DEFINE D == cap.did
<1>13. D = {} /\ cap'.did = D
  BY <1>1, <1>4 DEF CapInv
<1> HIDE DEF D
<1>5. /\ DOMAIN cap.rows = F /\ cap.pending \in Seq(F) /\ IsFiniteSet(F)
      /\ cap.graph = [f \in F |-> Scan(p, f).callees \cap F]
      /\ \A f \in F : Scan(p, f).caps \subseteq cap.rows[f]
      /\ \A f \in F : \A g \in cap.graph[f] : g \notin ToSet(cap.pending) => cap.rows[g] \subseteq cap.rows[f]
  BY <1>1 DEF Spreading, WellFormed
<1>6. up \subseteq F
  BY <1>5 DEF Grown
<1> HIDE DEF p, F
<1>7. /\ callee \in F /\ rest \in Seq(F)
      /\ \A g \in ToSet(cap.pending) : g = callee \/ g \in ToSet(rest)
  <2>1. callee \in F /\ rest \in Seq(F) /\ Len(rest) = Len(cap.pending) - 1 /\ Len(cap.pending) \in Nat
    BY <1>1, <1>5 DEF rest
  <2>2. ASSUME NEW i \in DOMAIN cap.pending, i # 1
        PROVE  cap.pending[i] \in ToSet(rest)
    <3>1. i - 1 \in DOMAIN rest /\ rest[i - 1] = cap.pending[i]
      BY <1>1, <1>5, <2>1, <2>2 DEF rest
    <3> QED BY <3>1 DEF ToSet
  <2>3. cap.pending[1] = callee
    BY <1>1, <1>5
  <2> QED BY <2>1, <2>2, <2>3 DEF ToSet
<1>8. back \in Seq(F) /\ ToSet(back) = up \ ToSet(rest)
  <2>1. IsFiniteSet(up \ ToSet(rest))
    BY <1>5, <1>6, FS_Subset
  <2>2. back \in Seq(up \ ToSet(rest)) /\ ToSet(back) = up \ ToSet(rest)
    BY <2>1, SetToSeqHasAll DEF back
  <2> QED BY <1>6, <2>2
<1>9. rest \o back \in Seq(F) /\ \A g \in ToSet(rest) \cup up : g \in ToSet(rest \o back)
  <2>1. rest \o back \in Seq(F)
    BY <1>7, <1>8
  <2>2. ASSUME NEW i \in DOMAIN rest PROVE rest[i] \in ToSet(rest \o back)
    <3>1. i \in DOMAIN (rest \o back) /\ (rest \o back)[i] = rest[i]
      BY <1>7, <1>8
    <3> QED BY <3>1 DEF ToSet
  <2>3. ASSUME NEW i \in DOMAIN back PROVE back[i] \in ToSet(rest \o back)
    <3>1. i + Len(rest) \in DOMAIN (rest \o back) /\ (rest \o back)[i + Len(rest)] = back[i]
      BY <1>7, <1>8
    <3> QED BY <3>1 DEF ToSet
  <2>4. \A g \in ToSet(rest) : g \in ToSet(rest \o back)
    BY <2>2 DEF ToSet
  <2>5. \A g \in ToSet(back) : g \in ToSet(rest \o back)
    BY <2>3 DEF ToSet
  <2> QED BY <1>8, <2>1, <2>4, <2>5
<1>10. /\ DOMAIN rows = F
       /\ \A f \in F : cap.rows[f] \subseteq rows[f]
       /\ \A f \in up : cap.rows[callee] \subseteq rows[f]
       /\ \A f \in F \ up : rows[f] = cap.rows[f]
  BY <1>5, <1>6 DEF rows
<1>11. ASSUME NEW f \in F, NEW g \in cap.graph[f], g \notin ToSet(rest \o back)
       PROVE  rows[g] \subseteq rows[f]
  <2>1. g \in F /\ g \notin ToSet(rest) /\ g \notin up /\ rows[g] = cap.rows[g]
    BY <1>5, <1>9, <1>10, <1>11
  <2>2. CASE g = callee
    <3>1. f \notin up => cap.rows[callee] \subseteq cap.rows[f]
      BY <1>5, <1>11, <2>2 DEF Grown
    <3> QED BY <1>10, <2>1, <2>2, <3>1
  <2>3. CASE g # callee
    <3>1. g \notin ToSet(cap.pending)
      BY <1>7, <2>1, <2>3
    <3> QED BY <1>5, <1>10, <1>11, <2>1, <3>1
  <2> QED BY <2>2, <2>3
<1>12. Spreading(cap')
  BY <1>4, <1>5, <1>9, <1>10, <1>11 DEF Spreading, F
<1> QED
  BY <1>1, <1>4, <1>12, <1>13 DEF CapInv

-----------------------------------------------------------------------------
(* What an accepted program is charged for *)

\* All that a running program's invariant says of its function and its row.
Accepted(c) ==
  /\ c.prog \in Programs /\ Spreading(c) /\ c.pending = <<>> /\ c.from \in DOMAIN c.prog.needs
  /\ contained_in(c.rows[c.from], c.prog.needs[c.from]) = {}

\* No declaration covers an indirect call, so an accepted function makes none.
LEMMA NoIndirect ==
  ASSUME NEW c, Accepted(c)
  PROVE  IndirectCall \notin c.rows[c.from]
<1> SUFFICES ASSUME IndirectCall \in c.rows[c.from] PROVE FALSE
  OBVIOUS
<1>1. satisfies(c.prog.needs[c.from], IndirectCall)
  BY DEF Accepted, contained_in
<1>2. PICK d \in c.prog.needs[c.from] : IndirectCall.class = d.class
  BY <1>1 DEF satisfies, subsumed_by
<1>3. d.class # "indirect-call"
  BY CapabilitiesAssumption DEF Accepted, WellFormed
<1> QED
  BY <1>2, <1>3 DEF IndirectCall, Cap

\* Where the callee's row is within the entered function's, so are the rows of
\* all it calls, and its own operations are paid for.
LEMMA GoodPays ==
  ASSUME NEW c, Accepted(c), NEW f \in DOMAIN c.prog.body, c.rows[f] \subseteq c.rows[c.from], NEW o \in block(c.prog, f)
  PROVE  Paid(c, o)
<1> DEFINE p == c.prog
           S == Scan(p, f)
           callees == UNION {expr(p, q).callees : q \in block(p, f)}
           caps == UNION {expr(p, q).caps : q \in block(p, f)}
<1>1. S.callees = callees /\ S.caps = caps \cup (IF callees \subseteq DOMAIN p.body THEN {} ELSE {IndirectCall})
  BY DEF Scan
<1> HIDE DEF S
<1>2. S.caps \subseteq c.rows[f]
  BY DEF Accepted, Spreading, S
<1>3. callees \subseteq DOMAIN p.body
  <2>1. IndirectCall \notin S.caps
    BY <1>2, NoIndirect
  <2> HIDE DEF callees, caps, p
  <2> QED BY <1>1, <2>1
<1>4. expr(p, o).caps \subseteq caps /\ expr(p, o).callees \subseteq callees
  OBVIOUS
<1> HIDE DEF callees, caps
<1>5. \A g \in callees : c.rows[g] \subseteq c.rows[f]
  <2>1. \A g \in c.graph[f] : c.rows[g] \subseteq c.rows[f]
    BY DEF Accepted, Spreading, ToSet
  <2>2. c.graph[f] = S.callees \cap DOMAIN p.body
    BY DEF Accepted, Spreading, S
  <2> QED BY <1>1, <1>3, <2>1, <2>2
<1> QED
  BY <1>1, <1>2, <1>3, <1>4, <1>5 DEF Paid, p

\* Every operation of a body whose row is within the entered function's.
LEMMA BodyCharged ==
  ASSUME NEW c, Accepted(c), NEW f \in DOMAIN c.prog.body, c.rows[f] \subseteq c.rows[c.from]
  PROVE  c.prog.body[f] \in Seq(Charged(c))
<1> DEFINE code == c.prog.body[f]
<1>1. code \in Seq(Ops) /\ \A i \in DOMAIN code : Resolved(c.prog, code[i])
  BY CapabilitiesAssumption DEF Accepted, WellFormed
<1>2. ASSUME NEW i \in DOMAIN code PROVE code[i] \in Charged(c)
  <2>1. code[i] \in Ops /\ code[i] \in ToSet(c.prog.body[f])
    BY <1>1 DEF ToSet
  <2>2. code[i].path \in AnyPath
    BY <2>1 DEF Ops, AnyPath
  <2>3. \A q \in Reach(c.prog, code[i]) : Paid(c, q)
    BY <2>1, BodyReach, GoodPays
  <2> QED BY <1>1, <2>1, <2>2, <2>3 DEF Charged, Known, Waits
<1> HIDE DEF code
<1>3. code \in Seq(Charged(c))
  <2>1. code \in [1..Len(code) -> Charged(c)] /\ Len(code) \in Nat
    BY <1>1, <1>2
  <2> QED BY <2>1
<1> QED
  BY <1>3 DEF code

\* And every operation of an initialiser, when main is entered.
LEMMA GlobalCharged ==
  ASSUME NEW c, Accepted(c), c.from = "main", NEW g \in DOMAIN c.prog.globals
  PROVE  c.prog.globals[g] \in Seq(Charged(c))
<1> DEFINE code == c.prog.globals[g]
<1>1. code \in Seq(Ops) /\ (\A i \in DOMAIN code : Resolved(c.prog, code[i])) /\ "main" \in DOMAIN c.prog.body
  BY CapabilitiesAssumption DEF Accepted, WellFormed
<1>2. ASSUME NEW i \in DOMAIN code PROVE code[i] \in Charged(c)
  <2>1. code[i] \in Ops /\ code[i] \in ToSet(c.prog.globals[g])
    BY <1>1 DEF ToSet
  <2>2. code[i].path \in AnyPath
    BY <2>1 DEF Ops, AnyPath
  <2>3. \A q \in Reach(c.prog, code[i]) : Paid(c, q)
    BY <1>1, <2>1, GlobalReach, GoodPays
  <2> QED BY <1>1, <2>1, <2>2, <2>3 DEF Charged, Known, Waits
<1> HIDE DEF code
<1>3. code \in Seq(Charged(c))
  <2>1. code \in [1..Len(code) -> Charged(c)] /\ Len(code) \in Nat
    BY <1>1, <1>2
  <2> QED BY <2>1
<1> QED
  BY <1>3 DEF code

\* And every operation of a block nested in one that is charged for.
LEMMA BlockCharged ==
  ASSUME NEW c, Accepted(c), NEW o \in Charged(c), o.op = "block"
  PROVE  o.x \in DOMAIN c.prog.blocks /\ c.prog.blocks[o.x] \in Seq(Charged(c))
<1> DEFINE code == c.prog.blocks[o.x]
<1>1. o.x \in DOMAIN c.prog.blocks
  BY DEF Charged, Known, Resolved
<1>2. code \in Seq(Ops) /\ \A i \in DOMAIN code : Resolved(c.prog, code[i])
  BY <1>1, CapabilitiesAssumption DEF Accepted, WellFormed
<1>3. ASSUME NEW i \in DOMAIN code PROVE code[i] \in Charged(c)
  <2>1. code[i] \in Ops /\ code[i] \in ToSet(c.prog.blocks[o.x])
    BY <1>2 DEF ToSet
  <2>2. code[i].path \in AnyPath
    BY <2>1 DEF Ops, AnyPath
  <2>3. \A q \in Reach(c.prog, code[i]) : Paid(c, q)
    BY <1>1, <2>1, BlockReach DEF Charged
  <2> QED BY <1>2, <2>1, <2>2, <2>3 DEF Charged, Known, Waits
<1> HIDE DEF code
<1>4. code \in Seq(Charged(c))
  <2>1. code \in [1..Len(code) -> Charged(c)] /\ Len(code) \in Nat
    BY <1>2, <1>3
  <2> QED BY <2>1
<1> QED
  BY <1>1, <1>4 DEF code

\* The deletion of a row pays for those it cascades to.
LEMMA DeleteCharged ==
  ASSUME NEW c, Accepted(c), NEW o \in Charged(c), o.op = "delete", NEW s \in c.prog.stores[o.x].cascade
  PROVE  Op("delete", s, AnyScope, "") \in Charged(c)
<1> DEFINE p == c.prog
           q == Op("delete", s, AnyScope, "")
           nx == [t \in DOMAIN p.stores |-> p.stores[t].cascade]
<1>1. o.x \in DOMAIN p.stores
  BY DEF Charged, Known, Resolved
<1>2. s \in DOMAIN p.stores
  BY <1>1, CapabilitiesAssumption DEF Accepted, WellFormed
<1>3. q.op = "delete" /\ q.x = s /\ q.path = AnyScope
  BY DEF Op
<1>4. Paid(c, o)
  BY DEF Charged, Reach
<1>5. Cascaded(p, s) \subseteq Cascaded(p, o.x)
  <2>1. o.x \in Closure(DOMAIN p.stores, {o.x}, nx)
    <3> HIDE DEF p, nx
    <3> QED BY <1>1, ClosureHas
  <2>2. s \in nx[o.x]
    BY <1>1
  <2>3. s \in Closure(DOMAIN p.stores, {o.x}, nx)
    <3> HIDE DEF p, nx
    <3> QED BY <1>2, <2>1, <2>2, ClosureClosed
  <2>4. Closure(DOMAIN p.stores, {s}, nx) \subseteq Closure(DOMAIN p.stores, {o.x}, nx)
    <3> HIDE DEF p, nx
    <3> QED BY <2>3, ClosureOfLess
  <2> QED BY <2>4 DEF Cascaded
<1> HIDE DEF p, q
<1>6. store_delete(p, s).caps \subseteq store_delete(p, o.x).caps /\ store_delete(p, s).callees \subseteq store_delete(p, o.x).callees
  <2>1. \A t : /\ store_delete(p, t).caps = UNION {store(u).caps \cup store_hooks(p, u, "delete").caps : u \in Cascaded(p, t)}
               /\ store_delete(p, t).callees = UNION {store_hooks(p, u, "delete").callees : u \in Cascaded(p, t)}
    BY DEF store_delete
  <2> QED BY <1>5, <2>1
<1>7. expr(p, o) = store_delete(p, o.x) /\ expr(p, q) = store_delete(p, s)
  BY <1>3 DEF expr, StoreExpr
<1>8. Paid(c, q)
  BY <1>4, <1>6, <1>7 DEF Paid, p
<1>9. Reach(p, q) = {q}
  BY <1>3, PlainReach
<1>10. Known(c, q) /\ q \in Waits(c)
  BY <1>2, <1>3 DEF Known, Resolved, AnyPath, Waits, p, q
<1> QED
  BY <1>8, <1>9, <1>10 DEF Charged, p, q

\* The drop of a value pays for those of its fields.
LEMMA DropCharged ==
  ASSUME NEW c, Accepted(c), NEW o \in Charged(c), o.op = "drop", NEW t \in c.prog.types[o.x].fields
  PROVE  Op("drop", t, AnyScope, "") \in Charged(c)
<1> DEFINE p == c.prog
           q == Op("drop", t, AnyScope, "")
           nx == [u \in DOMAIN p.types |-> p.types[u].fields]
<1>1. o.x \in DOMAIN p.types
  BY DEF Charged, Known, Resolved
<1>2. t \in DOMAIN p.types
  BY <1>1, CapabilitiesAssumption DEF Accepted, WellFormed
<1>3. q.op = "drop" /\ q.x = t /\ q.path = AnyScope
  BY DEF Op
<1>4. Paid(c, o)
  BY DEF Charged, Reach
<1>5. Within(p, t) \subseteq Within(p, o.x)
  <2>1. o.x \in Closure(DOMAIN p.types, {o.x}, nx)
    <3> HIDE DEF p, nx
    <3> QED BY <1>1, ClosureHas
  <2>2. t \in nx[o.x]
    BY <1>1
  <2>3. t \in Closure(DOMAIN p.types, {o.x}, nx)
    <3> HIDE DEF p, nx
    <3> QED BY <1>2, <2>1, <2>2, ClosureClosed
  <2>4. Closure(DOMAIN p.types, {t}, nx) \subseteq Closure(DOMAIN p.types, {o.x}, nx)
    <3> HIDE DEF p, nx
    <3> QED BY <2>3, ClosureOfLess
  <2> QED BY <2>4 DEF Within
<1> HIDE DEF p, q
<1>6. drop_type(p, t).caps \subseteq drop_type(p, o.x).caps /\ drop_type(p, t).callees \subseteq drop_type(p, o.x).callees
  <2>1. \A u : /\ drop_type(p, u).caps = {}
               /\ drop_type(p, u).callees = {p.types[w].drop : w \in {v \in Within(p, u) : p.types[v].resource}} \cap DOMAIN p.body
    BY DEF drop_type, OfCallees
  <2> QED BY <1>5, <2>1
<1>7. expr(p, o) = drop_type(p, o.x) /\ expr(p, q) = drop_type(p, t)
  BY <1>3 DEF expr
<1>8. Paid(c, q)
  BY <1>4, <1>6, <1>7 DEF Paid, p
<1>9. Reach(p, q) = {q}
  BY <1>3, PlainReach
<1>10. Known(c, q) /\ q \in Waits(c)
  BY <1>2, <1>3 DEF Known, Resolved, AnyPath, Waits, p, q
<1> QED
  BY <1>8, <1>9, <1>10 DEF Charged, p, q

\* Whatever an operation sets off has a row within the entered function's.
LEMMA CalledGood ==
  ASSUME NEW c, Accepted(c), NEW o \in Charged(c), NEW f \in Called(c, o), f \in DOMAIN c.prog.body
  PROVE  c.rows[f] \subseteq c.rows[c.from]
<1> DEFINE p == c.prog
<1>1. Paid(c, o) /\ Known(c, o)
  BY DEF Charged, Reach
<1>2. SUFFICES f \in expr(p, o).callees
  BY <1>1, <1>2 DEF Paid
<1>3. CASE o.op = "call"
  <2>1. f = o.x /\ expr(p, o) = call(p, o.x)
    BY <1>3 DEF Called, expr
  <2> QED BY <2>1 DEF call, OfCallees
<1>4. CASE o.op = "method"
  <2>1. f = o.x /\ expr(p, o) = method(p, o.x)
    BY <1>4 DEF Called, expr
  <2> QED BY <2>1 DEF method, OfCallees
<1>5. CASE o.op = "send"
  <2>1. f = o.x /\ expr(p, o) = ActorExpr(p, o)
    BY <1>5 DEF Called, expr
  <2> QED BY <1>5, <2>1 DEF ActorExpr, OfCallees
<1>6. CASE o.op = "spawn"
  <2>1. f \in p.actors[o.x] /\ expr(p, o) = ActorExpr(p, o)
    BY <1>6 DEF Called, expr
  <2> QED BY <1>6, <2>1 DEF ActorExpr, OfCallees
<1>7. CASE o.op = "indirect"
  <2>1. expr(p, o) = OfCaps({IndirectCall})
    BY <1>7 DEF expr
  <2>2. IndirectCall \in c.rows[c.from]
    BY <1>1, <2>1 DEF Paid, OfCaps
  <2> QED BY <2>2, NoIndirect
<1>8. CASE o.op = "insert"
  <2>1. f \in p.stores[o.x].hooks["insert"]
    BY <1>8 DEF Called
  <2>2. expr(p, o) = Both(store(o.x), store_hooks(p, o.x, "insert"))
    BY <1>8 DEF expr, StoreExpr
  <2>3. f \in store_hooks(p, o.x, "insert").callees
    BY <2>1 DEF store_hooks, Both, OfCallees, OfCaps
  <2> QED BY <2>2, <2>3 DEF Both
<1>9. CASE o.op = "delete"
  <2>1. f \in p.stores[o.x].hooks["delete"]
    BY <1>9 DEF Called
  <2>2. expr(p, o) = store_delete(p, o.x)
    BY <1>9 DEF expr, StoreExpr
  <2>3. f \in store_hooks(p, o.x, "delete").callees
    BY <2>1 DEF store_hooks, Both, OfCallees, OfCaps
  <2>4. o.x \in Cascaded(p, o.x)
    <3>1. o.x \in DOMAIN p.stores
      BY <1>1, <1>9 DEF Known, Resolved
    <3> QED BY <3>1, ClosureHas DEF Cascaded
  <2> QED BY <2>2, <2>3, <2>4 DEF store_delete
<1>10. CASE o.op = "drop"
  <2>1. f = p.types[o.x].drop /\ p.types[o.x].resource
    BY <1>10 DEF Called
  <2>2. expr(p, o) = drop_type(p, o.x)
    BY <1>10 DEF expr
  <2>3. o.x \in Within(p, o.x)
    <3>1. o.x \in DOMAIN p.types
      BY <1>1, <1>10 DEF Known, Resolved
    <3> QED BY <3>1, ClosureHas DEF Within
  <2> QED BY <2>1, <2>2, <2>3 DEF drop_type, OfCallees
<1>11. CASE o.op = "log"
  <2>1. o.x \in DOMAIN p.types /\ f = p.types[o.x].display
    BY <1>11 DEF Called
  <2>2. expr(p, o) = display(p, o.x)
    BY <1>11 DEF expr
  <2> QED BY <2>1, <2>2 DEF display, OfCallees
<1>12. CASE o.op \notin {"call", "method", "send", "spawn", "indirect", "insert", "delete", "drop", "log"}
  BY <1>12 DEF Called
<1> QED
  BY <1>3, <1>4, <1>5, <1>6, <1>7, <1>8, <1>9, <1>10, <1>11, <1>12

-----------------------------------------------------------------------------
(* Effects and capabilities *)

\* The effect e is one the capability k stands for.
Realises(e, k) ==
  /\ k.class = CountsAs(e)
  /\ k.class \in {"fs.read", "fs.write"} =>
       k.scope = AnyScope \/ (k.scope \in Paths /\ k.scope # AnyScope /\ e.at = At(k.scope))
  /\ k.class = "state" => e.at = k.scope.segs

\* An effect that is a capability of the entered function's row is covered by one
\* of its declarations: for a file this is WithinLeadsBelow.
LEMMA CoveredBy ==
  ASSUME NEW c, Accepted(c), NEW k \in c.rows[c.from], NEW e, Realises(e, k)
  PROVE  \E d \in c.prog.needs[c.from] : Covered(e, d)
<1>1. satisfies(c.prog.needs[c.from], k)
  BY DEF Accepted, contained_in
<1>2. PICK d \in c.prog.needs[c.from] : subsumed_by(k, d)
  BY <1>1 DEF satisfies
<1>3. d.scope \in AnyPath
  BY CapabilitiesAssumption DEF Accepted, WellFormed, AnyPath
<1>4. k.class = d.class /\ d.class = CountsAs(e)
  BY <1>2 DEF subsumed_by, Realises
<1>5. CASE d.class \in {"fs.read", "fs.write"}
  <2>1. path_within(k.scope, d.scope)
    BY <1>2, <1>4, <1>5 DEF subsumed_by
  <2>2. d.scope = AnyScope \/ (NamesPlace(d.scope) => StartsWith(e.at, At(d.scope)))
    <3> SUFFICES ASSUME d.scope # AnyScope, NamesPlace(d.scope) PROVE StartsWith(e.at, At(d.scope))
      OBVIOUS
    <3>1. k.scope # AnyScope
      BY <2>1 DEF path_within
    <3>2. k.scope \in Paths /\ e.at = At(k.scope)
      BY <1>4, <1>5, <3>1 DEF Realises
    <3>3. d.scope \in Paths
      BY <1>3 DEF AnyPath
    <3> QED BY <2>1, <3>2, <3>3, WithinLeadsBelow
  <2> QED BY <1>4, <1>5, <2>2 DEF Covered
<1>6. CASE d.class = "state"
  <2>1. d.scope = AnyScope \/ k.scope = d.scope
    BY <1>2, <1>4, <1>6 DEF subsumed_by
  <2>2. d.scope = AnyScope \/ e.at = d.scope.segs
    BY <1>4, <1>6, <2>1 DEF Realises
  <2> QED BY <1>4, <1>6, <2>2 DEF Covered
<1>7. CASE d.class \notin {"fs.read", "fs.write", "state"}
  BY <1>4, <1>7 DEF Covered
<1> QED
  BY <1>5, <1>6, <1>7

\* What opening a file does is a capability open_mode_caps gives it.
LEMMA OpenRealised ==
  ASSUME NEW path \in AnyPath, NEW mode, NEW at, path # AnyScope => at = At(path), NEW e \in OpenEffs(mode, at)
  PROVE  \E k \in open_mode_caps(path, mode) : Realises(e, k)
<1>1. path = AnyScope \/ (path \in Paths /\ path # AnyScope /\ at = At(path))
  BY DEF AnyPath
<1>2. /\ \A class : CountsAs(Eff(class, at)) = class /\ Eff(class, at).at = at
      /\ CountsAs(ReadBack(at)) = "fs.write" /\ ReadBack(at).at = at
  BY DEF Eff, ReadBack, CountsAs
<1>3. Cap("fs.read", path).class = "fs.read" /\ Cap("fs.read", path).scope = path /\ Cap("fs.write", path).class = "fs.write" /\ Cap("fs.write", path).scope = path
  BY DEF Cap
<1>4. /\ Realises(Eff("fs.read", at), Cap("fs.read", path))
      /\ Realises(Eff("fs.write", at), Cap("fs.write", path))
      /\ Realises(ReadBack(at), Cap("fs.write", path))
  BY <1>1, <1>2, <1>3 DEF Realises
<1>5. CASE e = Eff("fs.read", at) /\ mode \in {"r", "?"}
  <2>1. Cap("fs.read", path) \in open_mode_caps(path, mode)
    BY <1>5 DEF open_mode_caps
  <2> QED BY <1>4, <1>5, <2>1
<1>6. CASE e \in {Eff("fs.write", at), ReadBack(at)} /\ mode # "r"
  <2>1. Cap("fs.write", path) \in open_mode_caps(path, mode)
    BY <1>6 DEF open_mode_caps
  <2> QED BY <1>4, <1>6, <2>1
<1> QED
  BY <1>5, <1>6 DEF OpenEffs

\* Every effect of an operation is one of the capabilities the scan found in it.
LEMMA EffectsRealised ==
  ASSUME NEW c, Accepted(c), NEW o \in Charged(c), NEW at \in Places(o.path), NEW e \in Effects(c.prog, o, at)
  PROVE  \E k \in expr(c.prog, o).caps : Realises(e, k)
<1> DEFINE p == c.prog
<1>1. Known(c, o) /\ o.path \in AnyPath /\ (o.path # AnyScope => at = At(o.path))
  BY DEF Charged, Known, Places
<1>2. CASE o.op = "extern"
  <2>1. e \in ExternEffs(o, at) /\ expr(p, o).caps = classify_extern(o)
    BY <1>2 DEF Effects, expr, OfCaps
  <2>2. CASE o.x = "fopen"
    <3>1. e \in OpenEffs(o.mode, at) /\ classify_extern(o) = open_mode_caps(o.path, o.mode)
      BY <2>1, <2>2 DEF ExternEffs, classify_extern
    <3> QED BY <1>1, <2>1, <3>1, OpenRealised
  <2>3. CASE o.x = "benign"
    BY <2>1, <2>3 DEF ExternEffs
  <2>4. CASE o.x = "unknown"
    <3>1. e = Eff("ffi.unsafe", <<>>) /\ FfiUnsafe \in classify_extern(o)
      BY <2>1, <2>4 DEF ExternEffs, classify_extern
    <3>2. Realises(e, FfiUnsafe)
      BY <3>1 DEF Realises, CountsAs, FfiUnsafe, Cap, Eff
    <3> QED BY <2>1, <3>1, <3>2
  <2>5. CASE o.x \in {"fs.read", "fs.write"}
    <3>1. e = Eff(o.x, at) /\ classify_extern(o) = {Cap(o.x, o.path)}
      BY <2>1, <2>5 DEF ExternEffs, classify_extern, capability_of
    <3>2. o.path = AnyScope \/ (o.path \in Paths /\ o.path # AnyScope /\ at = At(o.path))
      BY <1>1 DEF AnyPath
    <3>3. Realises(Eff(o.x, at), Cap(o.x, o.path))
      BY <2>5, <3>2 DEF Realises, CountsAs, Cap, Eff
    <3> QED BY <2>1, <3>1, <3>3
  <2>6. CASE o.x = "state"
    <3>1. e = Eff(o.x, <<"env">>) /\ classify_extern(o) = {Cap(o.x, Path(FALSE, <<"env">>))}
      BY <2>1, <2>6 DEF ExternEffs, classify_extern, capability_of
    <3>2. Realises(Eff(o.x, <<"env">>), Cap(o.x, Path(FALSE, <<"env">>)))
      BY <2>6 DEF Realises, CountsAs, Cap, Eff, Path
    <3> QED BY <2>1, <3>1, <3>2
  <2>7. CASE o.x \notin {"fopen", "benign", "unknown", "fs.read", "fs.write", "state"}
    <3>1. e = Eff(o.x, <<>>) /\ classify_extern(o) = {Cap(o.x, AnyScope)}
      BY <2>1, <2>7 DEF ExternEffs, classify_extern, capability_of
    <3>2. Realises(Eff(o.x, <<>>), Cap(o.x, AnyScope))
      BY <2>7 DEF Realises, CountsAs, Cap, Eff
    <3> QED BY <2>1, <3>1, <3>2
  <2> QED BY <2>2, <2>3, <2>4, <2>5, <2>6, <2>7
<1>3. CASE o.op \in {"insert", "delete", "query"}
  <2> DEFINE file == StoreFile(o.x)
  <2>1. e \in OpenEffs("?", At(file))
    BY <1>3 DEF Effects
  <2>2. o.x \in DOMAIN p.stores /\ o.x \in Segments
    BY <1>1, <1>3, CapabilitiesAssumption DEF Known, Resolved, Accepted, WellFormed
  <2>3. file \in AnyPath
    <3>1. "." \in Segments
      BY CapabilitiesAssumption
    <3>2. <<".", o.x>> \in Seq(Segments)
      BY <2>2, <3>1
    <3> QED BY <3>2 DEF StoreFile, Path, Paths, AnyPath
  <2>4. open_mode_caps(file, "?") = {Cap("fs.read", file), Cap("fs.write", file)}
    BY DEF open_mode_caps
  <2>5. open_mode_caps(file, "?") \subseteq store(o.x).caps
    BY <2>4 DEF store, OfCaps
  <2>6. store(o.x).caps \subseteq expr(p, o).caps
    <3>1. CASE o.op = "insert"
      BY <3>1 DEF expr, StoreExpr, Both
    <3>2. CASE o.op = "query"
      BY <3>2 DEF expr, StoreExpr
    <3>3. CASE o.op = "delete"
      <4>1. o.x \in Cascaded(p, o.x)
        BY <2>2, ClosureHas DEF Cascaded
      <4>2. expr(p, o) = store_delete(p, o.x)
        BY <3>3 DEF expr, StoreExpr
      <4> QED BY <4>1, <4>2 DEF store_delete
    <3> QED BY <1>3, <3>1, <3>2, <3>3
  <2> HIDE DEF file
  <2>7. \E k \in open_mode_caps(file, "?") : Realises(e, k)
    BY <2>1, <2>3, OpenRealised
  <2> QED BY <2>5, <2>6, <2>7
<1>4. CASE o.op \in {"gset", "gget"}
  <2>1. e = Eff("state", <<o.x>>) /\ expr(p, o).caps = {Cap("state", Path(FALSE, <<o.x>>))}
    BY <1>4 DEF Effects, expr, OfCaps
  <2>2. Realises(Eff("state", <<o.x>>), Cap("state", Path(FALSE, <<o.x>>)))
    BY DEF Realises, CountsAs, Cap, Eff, Path
  <2> QED BY <2>1, <2>2
<1>5. CASE o.op = "call"
  <2>1. o.x \notin DOMAIN p.body /\ e = Eff("ffi.unsafe", <<>>)
    BY <1>5 DEF Effects
  <2>2. expr(p, o).caps = {FfiUnsafe}
    BY <1>5, <2>1 DEF expr, call, OfCaps
  <2>3. Realises(e, FfiUnsafe)
    BY <2>1 DEF Realises, CountsAs, FfiUnsafe, Cap, Eff
  <2> QED BY <2>2, <2>3
<1>6. CASE o.op = "method"
  <2>1. o.x \notin DOMAIN p.body /\ e = Eff("indirect-call", <<>>)
    BY <1>6 DEF Effects
  <2>2. expr(p, o).caps = {IndirectCall}
    BY <1>6, <2>1 DEF expr, method, OfCaps
  <2>3. Realises(e, IndirectCall)
    BY <2>1 DEF Realises, CountsAs, IndirectCall, Cap, Eff
  <2> QED BY <2>2, <2>3
<1>7. CASE o.op \notin {"extern", "insert", "delete", "query", "gset", "gget", "call", "method"}
  BY <1>7 DEF Effects
<1> QED
  BY <1>2, <1>3, <1>4, <1>5, <1>6, <1>7

\* An initialiser run before main is charged to main.
LEMMA InitCharged ==
  ASSUME NEW c, Accepted(c), c.from = "main"
  PROVE  c.prog.inits \in Seq(Charged(c))
<1> DEFINE code == c.prog.inits
<1>1. code \in Seq(Ops) /\ \A i \in DOMAIN code : code[i].op = "init" /\ code[i].x \in DOMAIN c.prog.globals
  BY CapabilitiesAssumption DEF Accepted, WellFormed
<1>2. ASSUME NEW i \in DOMAIN code PROVE code[i] \in Charged(c)
  <2>1. code[i] \in Ops /\ code[i].op = "init"
    BY <1>1
  <2>2. code[i].path \in AnyPath
    BY <2>1 DEF Ops, AnyPath
  <2>3. Reach(c.prog, code[i]) = {code[i]}
    BY <2>1, PlainReach
  <2>4. expr(c.prog, code[i]) = None
    BY <2>1 DEF expr
  <2>5. Paid(c, code[i])
    BY <2>4 DEF Paid, None
  <2> QED BY <1>1, <2>1, <2>2, <2>3, <2>5 DEF Charged, Known, Waits
<1> HIDE DEF code
<1>3. code \in Seq(Charged(c))
  <2>1. code \in [1..Len(code) -> Charged(c)] /\ Len(code) \in Nat
    BY <1>1, <1>2
  <2> QED BY <2>1
<1> QED
  BY <1>3 DEF code

\* Entering an accepted function, or refusing the program, keeps the invariant:
\* all the function is about to do is charged to its row.
LEMMA JudgeStep == CapInv /\ judge => CapInv'
<1> SUFFICES ASSUME CapInv, judge PROVE CapInv'
  OBVIOUS
<1> DEFINE p == cap.prog
           over == {f \in DOMAIN p.needs : contained_in(cap.rows[f], p.needs[f]) # {}}
<1>1. p \in Programs /\ Shaped(cap) /\ Spreading(cap) /\ cap.stage = "spread" /\ cap.pending = <<>> /\ WellFormed(p)
  BY CapabilitiesAssumption DEF CapInv, judge
<1>2. CASE over # {}
  <2>1. cap' = [cap EXCEPT !.stage = "refused"]
    BY <1>2 DEF judge
  <2>2. cap' = [prog |-> p, stage |-> "refused", graph |-> cap.graph, rows |-> cap.rows, pending |-> cap.pending,
                from |-> cap.from, k |-> cap.k, vals |-> cap.vals, did |-> cap.did, fuel |-> cap.fuel]
    BY <1>1, <2>1 DEF Shaped
  <2>3. /\ cap'.prog = p /\ cap'.stage = "refused" /\ cap'.graph = cap.graph /\ cap'.rows = cap.rows
        /\ cap'.pending = cap.pending /\ cap'.did = cap.did /\ Shaped(cap')
    BY <2>2 DEF Shaped
  <2>4. Spreading(cap')
    BY <1>1, <2>3 DEF Spreading
  <2> DEFINE D == cap.did
  <2>5. D = {} /\ cap'.did = D
    BY <1>1, <2>3 DEF CapInv
  <2> HIDE DEF D, over
  <2> QED BY <1>1, <2>3, <2>4, <2>5 DEF CapInv
<1>3. CASE over = {}
  <2>1. PICK f \in DOMAIN p.needs : cap' = [cap EXCEPT !.stage = "run", !.from = f, !.k = EntryOf(p, f)]
    BY <1>3 DEF judge
  <2> DEFINE code == EntryOf(p, f)
  <2>2. cap' = [prog |-> p, stage |-> "run", graph |-> cap.graph, rows |-> cap.rows, pending |-> cap.pending,
                from |-> f, k |-> code, vals |-> cap.vals, did |-> cap.did, fuel |-> cap.fuel]
    BY <1>1, <2>1 DEF Shaped
  <2> HIDE DEF code
  <2>3. /\ cap'.prog = p /\ cap'.stage = "run" /\ cap'.graph = cap.graph /\ cap'.rows = cap.rows
        /\ cap'.pending = cap.pending /\ cap'.from = f /\ cap'.k = code /\ cap'.did = cap.did /\ Shaped(cap')
    BY <2>2 DEF Shaped
  <2>4. Spreading(cap')
    BY <1>1, <2>3 DEF Spreading
  <2>5. contained_in(cap.rows[f], p.needs[f]) = {}
    BY <1>3
  <2> HIDE DEF p, over
  <2>6. Accepted(cap')
    BY <1>1, <2>3, <2>4, <2>5 DEF Accepted, p
  <2>7. f \in DOMAIN p.body
    BY <1>1, <2>1 DEF WellFormed
  <2>8. p.body[f] \in Seq(Charged(cap'))
    BY <2>3, <2>6, <2>7, BodyCharged
  <2>9. code \in Seq(Charged(cap'))
    <3>1. CASE f = "main"
      <4>1. p.inits \in Seq(Charged(cap'))
        BY <2>3, <2>6, <3>1, InitCharged
      <4>2. code = p.inits \o p.body[f]
        BY <3>1 DEF EntryOf, code
      <4> QED BY <2>8, <4>1, <4>2
    <3>2. CASE f # "main"
      <4>1. code = <<>> \o p.body[f]
        BY <3>2 DEF EntryOf, code
      <4> QED BY <2>8, <4>1
    <3> QED BY <3>1, <3>2
  <2> DEFINE D == cap.did
  <2>10. D = {}
    BY <1>1 DEF CapInv, D
  <2> QED BY <1>1, <2>3, <2>4, <2>6, <2>9, <2>10 DEF CapInv, Running, Accepted
<1> QED
  BY <1>2, <1>3

\* An operation of the running program keeps it: what it starts is charged to
\* the row of the function entered, and what it does the `needs` covers.
LEMMA StepStep == CapInv /\ step => CapInv'
<1> SUFFICES ASSUME CapInv, step PROVE CapInv'
  OBVIOUS
<1> DEFINE p == cap.prog
           o == Head(cap.k)
<1>1. p \in Programs /\ Shaped(cap) /\ Spreading(cap) /\ cap.stage = "run" /\ cap.k # <<>> /\ Running(cap)
  BY DEF CapInv, step
<1>2. Accepted(cap)
  BY <1>1 DEF Accepted, Running
<1>3. PICK b \in Started(cap, o), at \in Places(o.path) :
        cap' = [cap EXCEPT !.k = b \o Tail(@), !.did = @ \cup Effects(cap.prog, o, at), !.fuel = @ - 1,
                           !.vals = IF o.op = "ref" THEN @ \cup {o.x} ELSE @]
  BY DEF step
<1> DEFINE k == b \o Tail(cap.k)
           did == cap.did \cup Effects(p, o, at)
           vals == IF o.op = "ref" THEN cap.vals \cup {o.x} ELSE cap.vals
<1>4. cap' = [prog |-> p, stage |-> "run", graph |-> cap.graph, rows |-> cap.rows, pending |-> cap.pending,
              from |-> cap.from, k |-> k, vals |-> vals, did |-> did, fuel |-> cap.fuel - 1]
  BY <1>1, <1>3 DEF Shaped
<1> HIDE DEF k, did, vals
<1>5. /\ cap'.prog = p /\ cap'.stage = "run" /\ cap'.graph = cap.graph /\ cap'.rows = cap.rows
      /\ cap'.pending = cap.pending /\ cap'.from = cap.from /\ cap'.k = k /\ cap'.did = did /\ Shaped(cap')
  BY <1>4 DEF Shaped
<1>6. cap.k \in Seq(Charged(cap)) /\ o \in Charged(cap) /\ Tail(cap.k) \in Seq(Charged(cap))
  BY <1>1 DEF Running
<1> HIDE DEF o, p
<1>7. b \in Seq(Charged(cap))
  <2>1. CASE b = <<>>
    BY <2>1
  <2>2. CASE \E f \in Called(cap, o) \cap DOMAIN cap.prog.body : b = cap.prog.body[f]
    BY <1>2, <1>6, <2>2, CalledGood, BodyCharged
  <2>3. CASE b \in Follows(cap, o)
    <3>1. CASE o.op = "delete"
      <4>1. PICK s \in cap.prog.stores[o.x].cascade : b = <<Op("delete", s, AnyScope, "")>>
        BY <2>3, <3>1 DEF Follows
      <4> DEFINE q == Op("delete", s, AnyScope, "")
      <4>2. q \in Charged(cap)
        BY <1>2, <1>6, <3>1, DeleteCharged
      <4>3. b = <<q>>
        BY <4>1
      <4> HIDE DEF q
      <4> QED BY <4>2, <4>3
    <3>2. CASE o.op = "drop"
      <4>1. PICK t \in cap.prog.types[o.x].fields : b = <<Op("drop", t, AnyScope, "")>>
        BY <2>3, <3>2 DEF Follows
      <4> DEFINE q == Op("drop", t, AnyScope, "")
      <4>2. q \in Charged(cap)
        BY <1>2, <1>6, <3>2, DropCharged
      <4>3. b = <<q>>
        BY <4>1
      <4> HIDE DEF q
      <4> QED BY <4>2, <4>3
    <3>3. CASE o.op = "block"
      <4>1. b = cap.prog.blocks[o.x]
        BY <2>3, <3>3 DEF Follows
      <4> QED BY <1>2, <1>6, <3>3, <4>1, BlockCharged
    <3>4. CASE o.op = "init"
      <4>1. b = cap.prog.globals[o.x]
        BY <2>3, <3>4 DEF Follows
      <4>2. Known(cap, o)
        BY <1>6 DEF Charged
      <4>3. o.x \in DOMAIN cap.prog.globals /\ cap.from = "main"
        BY <3>4, <4>2 DEF Known, Resolved
      <4> QED BY <1>2, <4>1, <4>3, GlobalCharged
    <3>5. CASE o.op \notin {"delete", "drop", "block", "init"}
      BY <2>3, <3>5 DEF Follows
    <3> QED BY <3>1, <3>2, <3>3, <3>4, <3>5
  <2> QED BY <1>3, <2>1, <2>2, <2>3 DEF Started
<1>8. k \in Seq(Charged(cap))
  BY <1>6, <1>7 DEF k
<1>9. Charged(cap') = Charged(cap)
  <2>1. \A q : Paid(cap', q) <=> Paid(cap, q)
    BY <1>5 DEF Paid, p
  <2>2. \A q : Known(cap', q) <=> Known(cap, q)
    BY <1>5 DEF Known, p
  <2>3. Waits(cap') = Waits(cap)
    BY <1>5 DEF Waits, p
  <2>4. cap'.prog = cap.prog
    BY <1>5 DEF p
  <2> QED BY <2>1, <2>2, <2>3, <2>4 DEF Charged
<1>10. ASSUME NEW e \in did PROVE \E d \in cap.prog.needs[cap.from] : Covered(e, d)
  <2>1. CASE e \in cap.did
    BY <1>1, <2>1 DEF Running
  <2>2. CASE e \in Effects(cap.prog, o, at)
    <3>1. PICK q \in expr(cap.prog, o).caps : Realises(e, q)
      BY <1>2, <1>3, <1>6, <2>2, EffectsRealised
    <3>2. Paid(cap, o)
      BY <1>6 DEF Charged, Reach
    <3>3. q \in cap.rows[cap.from]
      BY <3>1, <3>2 DEF Paid
    <3> QED BY <1>2, <3>1, <3>3, CoveredBy
  <2> QED BY <2>1, <2>2 DEF did, p
<1>11. Spreading(cap')
  BY <1>1, <1>5 DEF Spreading, p
<1>12. Running(cap')
  BY <1>1, <1>5, <1>8, <1>9, <1>10 DEF Running, p
<1> QED
  BY <1>1, <1>5, <1>11, <1>12 DEF CapInv

\* So does a step that leaves the pass alone.
LEMMA UnchangedStep == CapInv /\ UNCHANGED cap => CapInv'
<1> SUFFICES ASSUME CapInv, cap' = cap PROVE CapInv'
  OBVIOUS
<1>1. (Shaped(cap') <=> Shaped(cap)) /\ (Spreading(cap') <=> Spreading(cap)) /\ (Running(cap') <=> Running(cap))
  OBVIOUS
<1> QED
  BY <1>1 DEF CapInv

\* The rows the pass spreads are complete, and a running program is charged for
\* all it has still to do (typer/caps.rs:628-755).
THEOREM CapabilitiesInvariant == CapabilitiesSpec => []CapInv
<1>1. CapInv /\ [CapabilitiesNext]_cap => CapInv'
  BY AnalyzeStep, SpreadStep, JudgeStep, StepStep, UnchangedStep DEF CapabilitiesNext
<1> QED
  BY InitInv, <1>1, PTL DEF CapabilitiesSpec

\* What `needs` bounds (docs/internals.md:68), in every program: each effect an
\* accepted function has, however deep in calls, hooks, cascades, drops, handlers,
\* blocks and initialisers, is of a class it declares; reading through a file
\* opened to be updated counts as writing (cap_sites.rs:431-444).  Where the
\* declared scope is absolute or leads below the working directory the effect is
\* there; "." and scopes that climb limit only the class (caps.rs:65-100).
THEOREM NeedsBoundEffects == CapabilitiesSpec => []NeedsHold
<1>1. CapInv => NeedsHold
  BY DEF CapInv, Running, NeedsHold
<1> QED
  BY CapabilitiesInvariant, <1>1, PTL
=============================================================================
