-------------------------- MODULE PrimitivesProofs --------------------------
(***************************************************************************)
(* Proofs about the primitives of the runtime: the work-stealing deque of  *)
(* module Deque neither loses nor duplicates a coroutine, for any number   *)
(* of coroutines and thieves, any first capacity and any number of         *)
(* growths; the writer gate and the completion latch of module Waiting     *)
(* keep their promises for any number of tasks, stores and nestings; the   *)
(* table of module HashMap answers like a dictionary for any keys, values, *)
(* hash and capacity.                                                      *)
(***************************************************************************)
EXTENDS Deque, Waiting, HashMap, FiniteSetTheorems, WellFoundedInduction, TLAPS

----------------------------------------------------------------------------
(* The inductive invariant                                                 *)

Entry == Item \cup {Null}
Buf == UNION {[0..(n - 1) -> Entry] : n \in Nat \ {0}}

TypeInv ==
  /\ top \in Nat /\ bottom \in Int /\ bufs \in Seq(Buf) /\ bufs # <<>>
  /\ opc \in {"idle", "push", "slot", "bottom", "pop", "cas", "restore"}
  /\ ob \in Int /\ ot \in Int /\ oc \in Entry
  /\ spc \in [Thieves -> {"idle", "bottom", "buf", "slot", "cas"}]
  /\ st \in [Thieves -> Nat] /\ sbuf \in [Thieves -> Nat]
  /\ sc \in [Thieves -> Entry]
  /\ hands \in [Item -> Nat]

\* The value at index i of the published buffer.
Val(i) == At(bufs[Cur], i)

\* The live indices fit the published buffer and hold coroutines.
WindowInv ==
  /\ top <= Hi /\ Hi - top <= Size(bufs[Cur])
  /\ \A i \in top..(Hi - 1) : Val(i) \in Item

\* What the owner knows at each of its steps: its copy of top may be old, and
\* then it only overestimates how full the buffer is.
OwnerInv ==
  /\ opc \in {"push", "slot", "bottom"} =>
       ob = bottom /\ ot \in Nat /\ ot <= top /\ oc \in Item
  /\ opc = "push" => ob - ot <= Size(bufs[Cur])
  /\ opc \in {"slot", "bottom"} => ob - ot < Size(bufs[Cur])
  /\ opc = "bottom" => Val(ob) = oc
  /\ opc \in {"pop", "cas", "restore"} => ob = bottom
  /\ opc = "cas" => ot = ob /\ top >= ob /\ (top = ob => oc = Val(top))
  /\ opc = "restore" => top = ob + 1

\* A thief whose copy of top is still right: the index was seen live and stays
\* so, and the buffer it reads, replaced or not, agrees at that index.
ThiefInv ==
  \A w \in Thieves :
    /\ spc[w] # "idle" => st[w] <= top
    /\ spc[w] = "slot" => sbuf[w] \in 1..Cur
    /\ spc[w] \in {"buf", "slot", "cas"} /\ st[w] = top => top < Hi
    /\ spc[w] = "slot" /\ st[w] = top => At(bufs[sbuf[w]], top) = Val(top)
    /\ spc[w] = "cas" /\ st[w] = top => sc[w] = Val(top)

\* EachInOnePlace by cases.
PlaceInv ==
  /\ \A c \in Item :
       \/ InDeque(c) /\ ~InPush(c) /\ hands[c] = 0
       \/ ~InDeque(c) /\ InPush(c) /\ hands[c] = 0
       \/ ~InDeque(c) /\ ~InPush(c) /\ hands[c] = 1
  /\ \A i, j \in top..(Hi - 1) : Val(i) = Val(j) => i = j

IInv == TypeInv /\ WindowInv /\ OwnerInv /\ ThiefInv /\ PlaceInv

----------------------------------------------------------------------------
(* Buffers and the arithmetic of their slots                               *)

\* A multiple of c is 0 or less, or at least c.
LEMMA Multiples ==
  ASSUME NEW c \in Nat \ {0}, NEW k \in Int
  PROVE  /\ k >= 1 => c * k >= c
         /\ k <= 0 => c * k <= 0
OBVIOUS

\* Two indices less than the size apart address different slots.
LEMMA SlotsApart ==
  ASSUME NEW a \in Nat, NEW b \in Nat, NEW n \in Nat \ {0}, a < b, b - a < n
  PROVE  a % n # b % n
<1> DEFINE p == a \div n
           q == b \div n
<1>1. p \in Int /\ q \in Int
  OBVIOUS
<1>2. a = n * p + (a % n) /\ b = n * q + (b % n)
  OBVIOUS
<1>3. ASSUME a % n = b % n PROVE FALSE
  <2>1. b - a = n * (q - p)
    BY <1>1, <1>2, <1>3
  <2>2. q - p >= 1 => n * (q - p) >= n
    BY <1>1, Multiples
  <2>3. q - p <= 0 => n * (q - p) <= 0
    BY <1>1, Multiples
  <2> QED
    BY <1>1, <2>1, <2>2, <2>3
<1> QED
  BY <1>3

\* A buffer is an array of Size entries; every index addresses one of them.
LEMMA BufFacts ==
  ASSUME NEW b \in Buf
  PROVE  /\ Size(b) \in Nat \ {0}
         /\ b \in [0..(Size(b) - 1) -> Entry]
         /\ \A i \in Int : i % Size(b) \in 0..(Size(b) - 1) /\ At(b, i) \in Entry
<1>1. PICK n \in Nat \ {0} : b \in [0..(n - 1) -> Entry]
  BY DEF Buf
<1>2. Cardinality(0..(n - 1)) = n
  BY FS_Interval
<1>3. Size(b) = n
  BY <1>1, <1>2 DEF Size
<1>4. \A i \in Int : i % n \in 0..(n - 1)
  OBVIOUS
<1> QED
  BY <1>1, <1>3, <1>4 DEF At

\* What the type of the buffers says of the published one.
LEMMA CurFacts ==
  ASSUME TypeInv
  PROVE  /\ Cur \in Nat \ {0} /\ bufs[Cur] \in Buf
         /\ Size(bufs[Cur]) \in Nat \ {0}
         /\ \A i \in Int : Val(i) \in Entry
         /\ Hi \in Int
<1>1. Cur \in Nat \ {0} /\ bufs[Cur] \in Buf
  BY DEF TypeInv, Cur
<1>2. Size(bufs[Cur]) \in Nat \ {0} /\ \A i \in Int : At(bufs[Cur], i) \in Entry
  BY <1>1, BufFacts
<1>3. Hi \in Int
  BY DEF TypeInv, Hi
<1> QED
  BY <1>1, <1>2, <1>3 DEF Val

\* A write to the slot of index j changes no other slot in the window.
LEMMA WriteFacts ==
  ASSUME NEW b \in Buf, NEW j \in Nat, NEW x \in Entry,
         NEW b2, b2 = [b EXCEPT ![j % Size(b)] = x]
  PROVE  /\ b2 \in Buf /\ Size(b2) = Size(b)
         /\ At(b2, j) = x
         /\ \A i \in Nat : i < j /\ j - i < Size(b) => At(b2, i) = At(b, i)
<1>1. /\ Size(b) \in Nat \ {0} /\ b \in [0..(Size(b) - 1) -> Entry]
      /\ \A i \in Int : i % Size(b) \in 0..(Size(b) - 1)
  BY BufFacts
<1>2. b2 \in [0..(Size(b) - 1) -> Entry]
  BY <1>1
<1>3. b2 \in Buf
  BY <1>1, <1>2 DEF Buf
<1>4. Size(b2) = Size(b)
  BY <1>1, <1>2 DEF Size
<1>5. At(b2, j) = x
  BY <1>1, <1>4 DEF At
<1>6. ASSUME NEW i \in Nat, i < j, j - i < Size(b) PROVE At(b2, i) = At(b, i)
  <2>1. i % Size(b) # j % Size(b)
    BY <1>1, <1>6, SlotsApart
  <2> QED
    BY <1>1, <1>4, <2>1 DEF At
<1> QED
  BY <1>3, <1>4, <1>5, <1>6

\* The grown buffer holds the copied window at the same indices.
LEMMA GrownFacts ==
  ASSUME TypeInv, ob \in Nat, ot \in Nat, ob - ot <= Size(bufs[Cur])
  PROVE  /\ Grown \in Buf /\ Size(Grown) = 2 * Size(bufs[Cur])
         /\ \A i \in ot..(ob - 1) : At(Grown, i) = Val(i)
<1> DEFINE old == bufs[Cur]
           n == 2 * Size(old)
           src(k) == CHOOSE i \in ot..(ob - 1) : i % n = k
<1>1. Size(old) \in Nat \ {0} /\ \A i \in Int : At(old, i) \in Entry
  BY CurFacts DEF Val
<1>2. n \in Nat \ {0}
  BY <1>1
<1>3. NewBuf(n) \in [0..(n - 1) -> Entry] /\ DOMAIN NewBuf(n) = 0..(n - 1)
  BY DEF NewBuf, Entry
<1>4. NewBuf(n) \in Buf
  BY <1>2, <1>3 DEF Buf
<1>5. Size(NewBuf(n)) = n
  BY <1>2, <1>3, FS_Interval DEF Size
<1>6. Grown = [k \in 0..(n - 1) |->
                 IF \E i \in ot..(ob - 1) : i % n = k THEN At(old, src(k)) ELSE Null]
  BY <1>3, <1>5 DEF Grown
<1>7. \A k \in 0..(n - 1) : (\E i \in ot..(ob - 1) : i % n = k)
         => src(k) \in ot..(ob - 1) /\ src(k) % n = k
  OBVIOUS
<1>8. Grown \in [0..(n - 1) -> Entry]
  <2> HIDE DEF src, n, old
  <2> QED
    BY <1>1, <1>6, <1>7 DEF Entry
<1>9. Grown \in Buf
  BY <1>2, <1>8 DEF Buf
<1>10. Size(Grown) = n
  <2> HIDE DEF n
  <2>1. DOMAIN Grown = 0..(n - 1)
    BY <1>8
  <2>2. Cardinality(0..(n - 1)) = n
    BY <1>2, FS_Interval
  <2> QED
    BY <2>1, <2>2 DEF Size
<1>11. ASSUME NEW i \in ot..(ob - 1) PROVE At(Grown, i) = Val(i)
  <2>1. i \in Nat /\ i % n \in 0..(n - 1)
    BY <1>2
  <2>2. src(i % n) \in ot..(ob - 1) /\ src(i % n) % n = i % n
    BY <1>7, <2>1
  <2>3. At(Grown, i) = At(old, src(i % n))
    <3> HIDE DEF src, n, old
    <3> QED
      BY <1>6, <1>10, <2>1 DEF At
  <2>4. src(i % n) = i
    <3> HIDE DEF src
    <3>1. src(i % n) \in Nat /\ src(i % n) - i < n /\ i - src(i % n) < n
      BY <1>1, <2>2
    <3> QED
      BY <1>2, <2>1, <2>2, <3>1, SlotsApart
  <2> QED
    BY <2>3, <2>4 DEF Val
<1> QED
  BY <1>9, <1>10, <1>11

----------------------------------------------------------------------------
(* Steps on the state seen as a window of indices                          *)

\* The window and its contents do not change.
LEMMA SameWindow ==
  ASSUME IInv, UNCHANGED <<top, bufs>>, Hi' = Hi
  PROVE  /\ WindowInv'
         /\ \A i : Val(i)' = Val(i)
         /\ \A c : InDeque(c)' <=> InDeque(c)
BY DEF IInv, WindowInv, Val, InDeque, Cur

\* Neither does what anybody holds.
LEMMA SamePlaces ==
  ASSUME IInv, UNCHANGED <<top, bufs, hands>>, Hi' = Hi,
         \A c \in Item : InPush(c)' <=> InPush(c)
  PROVE  WindowInv' /\ PlaceInv'
<1>1. WindowInv' /\ (\A i : Val(i)' = Val(i)) /\ \A c : InDeque(c)' <=> InDeque(c)
  BY SameWindow
<1> QED
  BY <1>1 DEF IInv, PlaceInv

\* A thief keeps its knowledge while top, the buffers and the window's end stay.
LEMMA ThievesKeep ==
  ASSUME IInv, UNCHANGED <<top, bufs, thiefVars>>, Hi' >= Hi, Hi' \in Int
  PROVE  ThiefInv'
<1>1. Hi \in Int /\ top \in Nat
  BY CurFacts DEF IInv, TypeInv
<1> QED
  BY <1>1 DEF IInv, ThiefInv, thiefVars, Val, Cur

\* A coroutine leaves the window, at either end, for somebody's hands.
LEMMA Taken ==
  ASSUME IInv, UNCHANGED bufs, top' \in Nat, Hi' \in Int,
         NEW k \in top..(Hi - 1), NEW x, x = Val(k), HandOut(x),
         top'..(Hi' - 1) = top..(Hi - 1) \ {k},
         top' <= Hi', Hi' - top' <= Hi - top,
         \A c \in Item : InPush(c)' <=> InPush(c)
  PROVE  WindowInv' /\ PlaceInv' /\ hands' \in [Item -> Nat]
<1>1. /\ Hi \in Int /\ top \in Nat /\ Size(bufs[Cur]) \in Nat /\ hands \in [Item -> Nat]
      /\ x \in Item
  BY CurFacts DEF IInv, TypeInv, WindowInv
<1>2. \A i : Val(i)' = Val(i)
  BY DEF Val, Cur
<1>3. WindowInv'
  <2>1. \A i \in top'..(Hi' - 1) : Val(i)' \in Item
    BY <1>2 DEF IInv, WindowInv
  <2>2. Hi' - top' <= Size(bufs[Cur])'
    <3>1. Size(bufs[Cur])' = Size(bufs[Cur])
      BY DEF Cur
    <3>2. Hi - top <= Size(bufs[Cur])
      BY DEF IInv, WindowInv
    <3> QED
      BY <1>1, <3>1, <3>2
  <2> QED
    BY <2>1, <2>2 DEF WindowInv
<1>4. hands' \in [Item -> Nat] /\ hands'[x] = hands[x] + 1
      /\ \A c \in Item : c # x => hands'[c] = hands[c]
  BY <1>1 DEF HandOut
<1>5. /\ \A c : InDeque(c) <=> \E i \in top..(Hi - 1) : Val(i) = c
      /\ \A c : InDeque(c)' <=> \E i \in top'..(Hi' - 1) : Val(i)' = c
  BY DEF InDeque, Val
<1>6. \A i, j \in top..(Hi - 1) : Val(i) = Val(j) => i = j
  BY DEF IInv, PlaceInv
<1>7. \A i, j \in top'..(Hi' - 1) : Val(i)' = Val(j)' => i = j
  BY <1>2, <1>6
<1>8. InDeque(x) /\ ~InDeque(x)'
  BY <1>2, <1>5, <1>6
<1>9. ASSUME NEW c \in Item, c # x PROVE InDeque(c)' <=> InDeque(c)
  BY <1>2, <1>5, <1>9
<1>10. ASSUME NEW c \in Item
       PROVE  \/ InDeque(c)' /\ ~InPush(c)' /\ hands'[c] = 0
              \/ ~InDeque(c)' /\ InPush(c)' /\ hands'[c] = 0
              \/ ~InDeque(c)' /\ ~InPush(c)' /\ hands'[c] = 1
  <2>1. CASE c = x
    BY <1>1, <1>4, <1>8, <2>1 DEF IInv, PlaceInv
  <2>2. CASE c # x
    BY <1>4, <1>9, <2>2 DEF IInv, PlaceInv
  <2> QED
    BY <2>1, <2>2
<1> QED
  BY <1>3, <1>4, <1>7, <1>10 DEF PlaceInv

----------------------------------------------------------------------------
(* The owner                                                               *)

\* Without a push, a pop or a steal under way the invariant holds at once.
LEMMA InitInv == DequeInit => IInv
<1> SUFFICES ASSUME DequeInit PROVE IInv
  OBVIOUS
<1>1. NewBuf(InitCap) \in Buf
  BY DequeAssumption DEF NewBuf, Buf, Entry
<1>2. TypeInv
  BY <1>1, DequeAssumption DEF DequeInit, TypeInv, Entry
<1>3. top = 0 /\ Hi = 0 /\ Size(bufs[Cur]) \in Nat
  BY <1>2, CurFacts DEF DequeInit, Hi
<1>4. WindowInv
  BY <1>3 DEF WindowInv
<1>5. OwnerInv /\ ThiefInv
  BY DEF DequeInit, OwnerInv, ThiefInv
<1>6. PlaceInv
  BY <1>3 DEF PlaceInv, DequeInit, InDeque, InPush
<1> QED
  BY <1>2, <1>4, <1>5, <1>6 DEF IInv

LEMMA PushBeginInv ==
  ASSUME IInv, NEW x \in Item, PushBegin(x)
  PROVE  IInv'
<1>1. TypeInv'
  BY DEF IInv, TypeInv, PushBegin, thiefVars, Entry
<1>2. Hi' = Hi /\ Hi \in Int /\ Hi' = bottom /\ top \in Nat
  BY CurFacts DEF IInv, TypeInv, PushBegin, Hi
<1>3. WindowInv' /\ (\A c : InDeque(c)' <=> InDeque(c)) /\ \A i : Val(i)' = Val(i)
  BY <1>2, SameWindow DEF PushBegin
<1>4. OwnerInv'
  BY <1>1, <1>2 DEF IInv, WindowInv, OwnerInv, PushBegin, TypeInv, Cur
<1>5. ThiefInv'
  BY <1>2, ThievesKeep DEF PushBegin
<1>6. hands \in [Item -> Nat] /\ hands[x] > 0 /\ hands' = [hands EXCEPT ![x] = @ - 1]
  BY DEF IInv, TypeInv, PushBegin
<1>7. \A c \in Item : ~InPush(c) /\ (InPush(c)' <=> c = x)
  BY DEF PushBegin, InPush
<1>8. ASSUME NEW c \in Item
      PROVE  \/ InDeque(c)' /\ ~InPush(c)' /\ hands'[c] = 0
             \/ ~InDeque(c)' /\ InPush(c)' /\ hands'[c] = 0
             \/ ~InDeque(c)' /\ ~InPush(c)' /\ hands'[c] = 1
  <2>1. CASE c = x
    BY <1>3, <1>6, <1>7, <2>1 DEF IInv, PlaceInv
  <2>2. CASE c # x
    BY <1>3, <1>6, <1>7, <2>2 DEF IInv, PlaceInv
  <2> QED
    BY <2>1, <2>2
<1>9. PlaceInv'
  BY <1>2, <1>3, <1>8 DEF IInv, PlaceInv, PushBegin
<1> QED
  BY <1>1, <1>3, <1>4, <1>5, <1>9 DEF IInv

\* The new buffer agrees with the old one on the window, so a thief that holds
\* a right copy of top reads the same coroutine from either.
LEMMA PushGrowInv ==
  ASSUME IInv, PushGrow
  PROVE  IInv'
<1>1. /\ top \in Nat /\ ob = bottom /\ ot \in Nat /\ ot <= top /\ oc \in Item
      /\ Hi = ob /\ Hi' = ob /\ ob \in Nat /\ top <= ob
      /\ ob - ot <= Size(bufs[Cur]) /\ Size(bufs[Cur]) \in Nat \ {0}
  BY CurFacts DEF IInv, TypeInv, WindowInv, OwnerInv, PushGrow, Hi
<1>2. /\ Grown \in Buf /\ Size(Grown) = 2 * Size(bufs[Cur])
      /\ \A i \in ot..(ob - 1) : At(Grown, i) = Val(i)
  BY <1>1, GrownFacts DEF IInv
<1>3. /\ bufs' = Append(bufs, Grown) /\ bufs \in Seq(Buf)
      /\ Cur' = Cur + 1 /\ bufs'[Cur'] = Grown /\ Cur \in Nat \ {0}
      /\ \A k \in 1..Cur : bufs'[k] = bufs[k]
  BY <1>2 DEF IInv, TypeInv, PushGrow, Cur
<1>4. \A i \in top..(Hi - 1) : Val(i)' = Val(i)
  BY <1>1, <1>2, <1>3 DEF Val
<1>5. TypeInv'
  BY <1>2, <1>3 DEF IInv, TypeInv, PushGrow, thiefVars
<1>6. WindowInv'
  <2>1. Hi' - top' <= Size(bufs[Cur])'
    BY <1>1, <1>2, <1>3 DEF PushGrow
  <2> QED
    BY <1>1, <1>4, <2>1 DEF IInv, WindowInv, PushGrow
<1>7. OwnerInv'
  BY <1>1, <1>2, <1>3 DEF OwnerInv, PushGrow
<1>8. ThiefInv'
  <2> SUFFICES ASSUME NEW w \in Thieves PROVE ThiefInv!(w)'
    BY DEF ThiefInv
  <2>1. /\ st'[w] = st[w] /\ spc'[w] = spc[w] /\ sbuf'[w] = sbuf[w]
        /\ sc'[w] = sc[w] /\ top' = top /\ Hi' = Hi
    BY <1>1 DEF PushGrow, thiefVars
  <2>2. ThiefInv!(w)
    BY DEF IInv, ThiefInv
  <2>3. top < Hi => At(bufs'[Cur'], top) = At(bufs[Cur], top)
    BY <1>1, <1>2, <1>3 DEF Val
  <2>4. ASSUME NEW k \in 1..Cur PROVE bufs'[k] = bufs[k] /\ k \in 1..(Cur')
    <3>1. k \in 1..(Cur + 1)
      BY <1>3
    <3> QED
      BY <1>3, <3>1
  <2> QED
    BY <1>1, <2>1, <2>2, <2>3, <2>4 DEF Val
<1>9. PlaceInv'
  <2>1. \A c \in Item : InPush(c)' <=> InPush(c)
    BY DEF InPush, PushGrow
  <2>2. \A c : InDeque(c) <=> \E i \in top..(Hi - 1) : Val(i) = c
    BY DEF InDeque, Val
  <2>3. \A c : InDeque(c)' <=> \E i \in top..(Hi - 1) : Val(i)' = c
    BY <1>1 DEF InDeque, Val, PushGrow
  <2>4. \A c : InDeque(c)' <=> InDeque(c)
    BY <1>4, <2>2, <2>3
  <2> QED
    BY <1>1, <1>4, <2>1, <2>4 DEF IInv, PlaceInv, PushGrow
<1> QED
  BY <1>5, <1>6, <1>7, <1>8, <1>9 DEF IInv

\* The slot written lies outside the window: ot is at most top.
LEMMA PushSlotInv ==
  ASSUME IInv, PushSlot
  PROVE  IInv'
<1> DEFINE b == bufs[Cur]
           b2 == [b EXCEPT ![ob % Size(b)] = oc]
<1>1. /\ top \in Nat /\ ob = bottom /\ ot \in Nat /\ ot <= top /\ oc \in Item
      /\ Hi = ob /\ Hi' = ob /\ ob \in Nat /\ top <= ob
      /\ ob - ot < Size(b) /\ Size(b) \in Nat \ {0} /\ b \in Buf
  BY CurFacts DEF IInv, TypeInv, WindowInv, OwnerInv, PushSlot, Hi, Full
<1>2. /\ b2 \in Buf /\ Size(b2) = Size(b) /\ At(b2, ob) = oc
      /\ \A i \in Nat : i < ob /\ ob - i < Size(b) => At(b2, i) = At(b, i)
  BY <1>1, WriteFacts DEF Entry
<1>3. bufs \in Seq(Buf) /\ Cur \in 1..Len(bufs) /\ Cur \in DOMAIN bufs
  BY DEF IInv, TypeInv, Cur
<1>4. /\ bufs' = [bufs EXCEPT ![Cur] = b2] /\ Cur' = Cur /\ bufs'[Cur] = b2
      /\ \A k \in DOMAIN bufs : k # Cur => bufs'[k] = bufs[k]
  BY <1>3 DEF PushSlot, Cur
<1>5. /\ bufs' \in Seq(Buf) /\ bufs' # <<>>
  BY <1>2, <1>3, <1>4 DEF IInv, TypeInv, Cur
<1> HIDE DEF b2
<1>6. \A i \in top..(Hi - 1) : At(b2, i) = At(b, i)
  BY <1>1, <1>2
<1>7. \A i : Val(i)' = At(b2, i) /\ Val(i) = At(b, i)
  BY <1>4 DEF Val
<1>8. TypeInv'
  BY <1>5 DEF IInv, TypeInv, PushSlot, thiefVars
<1>9. WindowInv'
  <2>1. Hi' - top' <= Size(bufs[Cur])'
    BY <1>1, <1>2, <1>4 DEF PushSlot
  <2> QED
    BY <1>1, <1>6, <1>7, <2>1 DEF IInv, WindowInv, PushSlot
<1>10. OwnerInv'
  <2>1. Val(ob)' = oc'
    BY <1>2, <1>4 DEF Val, PushSlot
  <2> QED
    BY <1>1, <1>2, <1>4, <2>1 DEF OwnerInv, PushSlot
<1>11. ThiefInv'
  <2> SUFFICES ASSUME NEW w \in Thieves PROVE ThiefInv!(w)'
    BY DEF ThiefInv
  <2>1. /\ st'[w] = st[w] /\ spc'[w] = spc[w] /\ sbuf'[w] = sbuf[w]
        /\ sc'[w] = sc[w] /\ top' = top /\ Hi' = Hi
    BY <1>1 DEF PushSlot, thiefVars
  <2>2. ThiefInv!(w)
    BY DEF IInv, ThiefInv
  <2>3. top < Hi => At(b2, top) = At(b, top)
    BY <1>1, <1>6
  <2>4. ASSUME NEW k \in 1..Cur, top < Hi PROVE At(bufs'[k], top) = At(bufs[k], top)
    BY <1>3, <1>4, <2>3, <2>4
  <2> QED
    BY <1>1, <1>4, <2>1, <2>2, <2>3, <2>4 DEF Val
<1>12. PlaceInv'
  <2>1. \A c \in Item : InPush(c)' <=> InPush(c)
    BY DEF InPush, PushSlot
  <2>2. \A c : InDeque(c) <=> \E i \in top..(Hi - 1) : Val(i) = c
    BY DEF InDeque, Val
  <2>3. \A c : InDeque(c)' <=> \E i \in top..(Hi - 1) : Val(i)' = c
    BY <1>1 DEF InDeque, Val, PushSlot
  <2>4. \A c : InDeque(c)' <=> InDeque(c)
    BY <1>6, <1>7, <2>2, <2>3
  <2> QED
    BY <1>1, <1>6, <1>7, <2>1, <2>4 DEF IInv, PlaceInv, PushSlot
<1> QED
  BY <1>8, <1>9, <1>10, <1>11, <1>12 DEF IInv

\* The pushed coroutine enters the window at its end.
LEMMA PushBottomInv ==
  ASSUME IInv, PushBottom
  PROVE  IInv'
<1>1. /\ top \in Nat /\ ob = bottom /\ ot \in Nat /\ ot <= top /\ oc \in Item
      /\ Hi = ob /\ Hi' = ob + 1 /\ ob \in Nat /\ top <= ob /\ Val(ob) = oc
      /\ ob - ot < Size(bufs[Cur]) /\ Size(bufs[Cur]) \in Nat \ {0}
  BY CurFacts DEF IInv, TypeInv, WindowInv, OwnerInv, PushBottom, Hi, OwnerReturns
<1>2. top' = top /\ bufs' = bufs /\ hands' = hands
  BY DEF PushBottom
<1>3. \A i : Val(i)' = Val(i)
  BY <1>2 DEF Val, Cur
<1>4. TypeInv'
  BY <1>1 DEF IInv, TypeInv, PushBottom, OwnerReturns, thiefVars, Entry
<1>5. WindowInv'
  <2>1. Size(bufs[Cur])' = Size(bufs[Cur])
    BY <1>2 DEF Cur
  <2> QED
    BY <1>1, <1>2, <1>3, <2>1 DEF IInv, WindowInv
<1>6. OwnerInv'
  BY DEF OwnerInv, PushBottom, OwnerReturns
<1>7. ThiefInv'
  BY <1>1, ThievesKeep DEF PushBottom
<1>8. PlaceInv'
  <2>1. \A c \in Item : (InPush(c) <=> c = oc) /\ ~InPush(c)'
    BY DEF InPush, PushBottom, OwnerReturns
  <2>2. \A c : InDeque(c) <=> \E i \in top..(Hi - 1) : Val(i) = c
    BY DEF InDeque, Val
  <2>3. \A c : InDeque(c)' <=> \E i \in top..ob : Val(i) = c
    <3>1. \A c : InDeque(c)' <=> \E i \in top'..(Hi' - 1) : Val(i)' = c
      BY DEF InDeque, Val
    <3> QED
      BY <1>1, <1>2, <1>3, <3>1
  <2>4. \A c \in Item : InDeque(c)' <=> InDeque(c) \/ c = oc
    BY <1>1, <2>2, <2>3
  <2>5. ~InDeque(oc)
    BY <1>1, <2>1 DEF IInv, PlaceInv
  <2>6. \A i, j \in top..ob : Val(i) = Val(j) => i = j
    BY <1>1, <2>2, <2>5 DEF IInv, PlaceInv
  <2> QED
    BY <1>1, <1>2, <1>3, <2>1, <2>4, <2>5, <2>6 DEF IInv, PlaceInv
<1> QED
  BY <1>4, <1>5, <1>6, <1>7, <1>8 DEF IInv

\* A pop lowers bottom and keeps the coroutine it goes for in the window.
LEMMA PopBottomInv ==
  ASSUME IInv, PopBottom
  PROVE  IInv'
<1>1. Hi' = Hi /\ Hi \in Int /\ bottom \in Int
  BY DEF IInv, TypeInv, PopBottom, Hi
<1>2. TypeInv'
  BY DEF IInv, TypeInv, PopBottom, thiefVars
<1>3. WindowInv' /\ PlaceInv'
  BY <1>1, SamePlaces DEF PopBottom, InPush
<1>4. OwnerInv'
  BY DEF OwnerInv, PopBottom
<1>5. ThiefInv'
  BY <1>1, ThievesKeep DEF PopBottom
<1> QED
  BY <1>2, <1>3, <1>4, <1>5 DEF IInv

\* With more than one left the bottom one is no thief's: a right copy of top is
\* below it.
LEMMA PopReadTopInv ==
  ASSUME IInv, PopReadTop
  PROVE  IInv'
<1>1. /\ top \in Nat /\ ob \in Int /\ bottom = ob /\ Hi = ob + 1 /\ top <= ob + 1
      /\ \A i \in Int : Val(i) \in Entry
      /\ \A c \in Item : ~InPush(c)
  BY CurFacts DEF IInv, TypeInv, WindowInv, OwnerInv, PopReadTop, Hi, InPush
<1>2. UNCHANGED <<top, bottom, bufs, thiefVars>>
  BY DEF PopReadTop
<1>3. CASE opc' = "restore" /\ ot' = top /\ top > ob /\ UNCHANGED <<ob, oc, hands>>
  <2>1. Hi' = Hi /\ \A c \in Item : ~InPush(c)'
    BY <1>1, <1>3 DEF Hi, InPush
  <2>2. TypeInv'
    BY <1>1, <1>2, <1>3 DEF IInv, TypeInv, thiefVars
  <2>3. WindowInv' /\ PlaceInv' /\ ThiefInv'
    BY <1>1, <1>2, <1>3, <2>1, SamePlaces, ThievesKeep
  <2>4. OwnerInv'
    BY <1>1, <1>2, <1>3 DEF OwnerInv
  <2> QED
    BY <2>2, <2>3, <2>4 DEF IInv
<1>4. CASE opc' = "cas" /\ ot' = top /\ top = ob /\ oc' = Val(ob) /\ UNCHANGED <<ob, hands>>
  <2>1. Hi' = Hi /\ \A c \in Item : ~InPush(c)'
    BY <1>1, <1>4 DEF Hi, InPush
  <2>2. TypeInv'
    BY <1>1, <1>2, <1>4 DEF IInv, TypeInv, thiefVars
  <2>3. WindowInv' /\ PlaceInv' /\ ThiefInv'
    BY <1>1, <1>2, <1>4, <2>1, SamePlaces, ThievesKeep
  <2>4. Val(top)' = Val(top)
    BY <1>2 DEF Val, Cur
  <2>5. OwnerInv'
    BY <1>1, <1>2, <1>4, <2>4 DEF OwnerInv
  <2> QED
    BY <2>2, <2>3, <2>5 DEF IInv
<1>5. CASE top < ob /\ HandOut(Val(ob)) /\ OwnerReturns
  <2>1. Hi' = ob /\ \A c \in Item : ~InPush(c)'
    BY <1>1, <1>2, <1>5 DEF Hi, InPush, OwnerReturns
  <2>2. WindowInv' /\ PlaceInv' /\ hands' \in [Item -> Nat]
    <3>1. ob \in top..(Hi - 1) /\ top'..(Hi' - 1) = top..(Hi - 1) \ {ob}
      BY <1>1, <1>2, <1>5, <2>1
    <3>2. \A c \in Item : InPush(c)' <=> InPush(c)
      BY <1>1, <2>1
    <3>3. top' \in Nat /\ Hi' \in Int /\ top' <= Hi' /\ Hi' - top' <= Hi - top
      BY <1>1, <1>2, <1>5, <2>1
    <3> QED
      BY <1>2, <1>5, <3>1, <3>2, <3>3, Taken
  <2>3. TypeInv'
    BY <1>2, <1>5, <2>2 DEF IInv, TypeInv, thiefVars, OwnerReturns, Entry
  <2>4. OwnerInv'
    BY <1>5 DEF OwnerInv, OwnerReturns
  <2>5. ThiefInv'
    BY <1>1, <1>2, <1>5, <2>1 DEF IInv, ThiefInv, thiefVars, Val, Cur
  <2> QED
    BY <2>2, <2>3, <2>4, <2>5 DEF IInv
<1> QED
  BY <1>3, <1>4, <1>5 DEF PopReadTop, Val

\* Whoever moves top has the last coroutine, and a thief that was as far has
\* now an old copy of top.
LEMMA PopCasInv ==
  ASSUME IInv, PopCas
  PROVE  IInv'
<1>1. /\ top \in Nat /\ ob \in Int /\ bottom = ob /\ Hi = ob + 1 /\ Hi' = Hi
      /\ ot = ob /\ top >= ob /\ top <= ob + 1 /\ (top = ob => oc = Val(top))
      /\ \A c \in Item : ~InPush(c) /\ ~InPush(c)'
  BY CurFacts DEF IInv, TypeInv, WindowInv, OwnerInv, PopCas, Hi, InPush
<1>2. UNCHANGED <<bottom, bufs, ob, ot, oc, thiefVars>> /\ opc' = "restore"
  BY DEF PopCas
<1>3. CASE top = ot /\ top' = top + 1 /\ HandOut(oc)
  <2>1. WindowInv' /\ PlaceInv' /\ hands' \in [Item -> Nat]
    <3>1. top \in top..(Hi - 1) /\ top'..(Hi' - 1) = top..(Hi - 1) \ {top}
      BY <1>1, <1>3
    <3>2. top' \in Nat /\ Hi' \in Int /\ top' <= Hi' /\ Hi' - top' <= Hi - top
      BY <1>1, <1>3
    <3> QED
      BY <1>1, <1>2, <1>3, <3>1, <3>2, Taken
  <2>2. TypeInv'
    BY <1>2, <1>3, <2>1 DEF IInv, TypeInv, thiefVars
  <2>3. OwnerInv'
    BY <1>1, <1>2, <1>3 DEF OwnerInv
  <2>4. ThiefInv'
    BY <1>1, <1>2, <1>3 DEF IInv, TypeInv, ThiefInv, thiefVars, Cur
  <2> QED
    BY <2>1, <2>2, <2>3, <2>4 DEF IInv
<1>4. CASE top # ot /\ UNCHANGED <<top, hands>>
  <2>1. TypeInv'
    BY <1>2, <1>4 DEF IInv, TypeInv, thiefVars
  <2>2. WindowInv' /\ PlaceInv' /\ ThiefInv'
    BY <1>1, <1>2, <1>4, SamePlaces, ThievesKeep
  <2>3. OwnerInv'
    BY <1>1, <1>2, <1>4 DEF OwnerInv
  <2> QED
    BY <2>1, <2>2, <2>3 DEF IInv
<1> QED
  BY <1>3, <1>4 DEF PopCas

\* bottom is put back; the window ends where it ended.
LEMMA PopRestoreInv ==
  ASSUME IInv, PopRestore
  PROVE  IInv'
<1>1. Hi' = Hi /\ Hi \in Int /\ \A c \in Item : InPush(c)' <=> InPush(c)
  BY DEF IInv, TypeInv, PopRestore, OwnerReturns, Hi, InPush
<1>2. TypeInv'
  BY DEF IInv, TypeInv, PopRestore, OwnerReturns, thiefVars, Entry
<1>3. WindowInv' /\ PlaceInv' /\ ThiefInv'
  BY <1>1, SamePlaces, ThievesKeep DEF PopRestore
<1>4. OwnerInv'
  BY DEF OwnerInv, PopRestore, OwnerReturns
<1> QED
  BY <1>2, <1>3, <1>4 DEF IInv

----------------------------------------------------------------------------
(* The thieves                                                             *)

\* A step of a thief that only changes its own variables.
LEMMA ThiefLocal ==
  ASSUME IInv, UNCHANGED <<top, bottom, bufs, ownerVars, hands>>
  PROVE  WindowInv' /\ PlaceInv' /\ OwnerInv' /\ Hi' = Hi /\ \A i : Val(i)' = Val(i)
<1>1. Hi' = Hi /\ \A c \in Item : InPush(c)' <=> InPush(c)
  BY DEF ownerVars, Hi, InPush
<1>2. WindowInv' /\ PlaceInv' /\ \A i : Val(i)' = Val(i)
  BY <1>1, SamePlaces, SameWindow
<1>3. OwnerInv'
  BY DEF IInv, OwnerInv, ownerVars, Val, Cur
<1> QED
  BY <1>1, <1>2, <1>3

LEMMA StealInv ==
  ASSUME IInv, NEW w \in Thieves,
         StealTop(w) \/ StealBottom(w) \/ StealBuf(w) \/ StealSlot(w)
  PROVE  IInv'
<1>1. /\ UNCHANGED <<top, bottom, bufs, ownerVars, hands>>
      /\ top \in Nat /\ bottom \in Int
  BY DEF IInv, TypeInv, StealTop, StealBottom, StealBuf, StealSlot
<1>2. WindowInv' /\ PlaceInv' /\ OwnerInv' /\ Hi' = Hi
  BY <1>1, ThiefLocal
<1>3. TypeInv' /\ ThiefInv'
  <2>1. CASE StealTop(w)
    <3>1. TypeInv'
      BY <1>1, <2>1 DEF IInv, TypeInv, StealTop, ownerVars
    <3> QED
      BY <1>1, <1>2, <2>1, <3>1 DEF IInv, TypeInv, ThiefInv, StealTop, Val, Cur
  <2>2. CASE StealBottom(w)
    <3>1. TypeInv'
      <4>1. CASE ThiefReturns(w)
        BY <1>1, <4>1 DEF IInv, TypeInv, ThiefReturns, ownerVars, Entry
      <4>2. CASE spc' = [spc EXCEPT ![w] = "buf"] /\ UNCHANGED <<st, sbuf, sc>>
        BY <1>1, <4>2 DEF IInv, TypeInv, ownerVars
      <4> QED
        BY <2>2, <4>1, <4>2 DEF StealBottom
    <3>2. bottom <= Hi /\ Hi \in Int
      BY <1>1, CurFacts DEF IInv, OwnerInv, TypeInv, Hi
    <3> QED
      BY <1>1, <1>2, <2>2, <3>1, <3>2
      DEF IInv, TypeInv, ThiefInv, StealBottom, ThiefReturns, Val, Cur
  <2>3. CASE StealBuf(w)
    <3>0. Cur \in Nat \ {0} /\ Cur' = Cur
      BY <1>1, CurFacts DEF IInv, Cur
    <3>1. TypeInv'
      BY <1>1, <2>3, <3>0 DEF IInv, TypeInv, StealBuf, ownerVars
    <3> QED
      BY <1>1, <1>2, <2>3, <3>0, <3>1 DEF IInv, TypeInv, ThiefInv, StealBuf, Val
  <2>4. CASE StealSlot(w)
    <3>1. sbuf[w] \in 1..Cur /\ bufs[sbuf[w]] \in Buf
      BY <2>4 DEF IInv, TypeInv, ThiefInv, StealSlot, Cur
    <3>2. At(bufs[sbuf[w]], st[w]) \in Entry
      <4>1. st[w] \in Int
        BY DEF IInv, TypeInv
      <4> QED
        BY <3>1, <4>1, BufFacts
    <3>3. TypeInv'
      BY <1>1, <2>4, <3>2 DEF IInv, TypeInv, StealSlot, ownerVars
    <3> QED
      BY <1>1, <1>2, <2>4, <3>3 DEF IInv, TypeInv, ThiefInv, StealSlot, Val, Cur
  <2> QED
    BY <2>1, <2>2, <2>3, <2>4
<1> QED
  BY <1>2, <1>3 DEF IInv

\* A successful compare-and-swap: the copy of top was right, so what the thief
\* read is what is there.
LEMMA StealCasInv ==
  ASSUME IInv, NEW w \in Thieves, StealCas(w)
  PROVE  IInv'
<1>1. UNCHANGED <<bottom, bufs, ownerVars>> /\ ThiefReturns(w) /\ spc[w] = "cas"
      /\ top \in Nat
  BY DEF StealCas, IInv, TypeInv
<1>2. CASE top # st[w] /\ UNCHANGED <<top, hands>>
  <2>1. WindowInv' /\ PlaceInv' /\ OwnerInv' /\ Hi' = Hi
    BY <1>1, <1>2, ThiefLocal
  <2>2. TypeInv'
    BY <1>1, <1>2 DEF IInv, TypeInv, ThiefReturns, ownerVars, Entry
  <2>3. ThiefInv'
    BY <1>1, <1>2, <2>1 DEF IInv, TypeInv, ThiefInv, ThiefReturns, Val, Cur
  <2> QED
    BY <2>1, <2>2, <2>3 DEF IInv
<1>3. CASE top = st[w] /\ top' = top + 1 /\ HandOut(sc[w])
  <2>1. top < Hi /\ sc[w] = Val(top) /\ Hi \in Int
    BY <1>1, <1>3, CurFacts DEF IInv, ThiefInv
  <2>2. Hi' = Hi /\ \A c \in Item : InPush(c)' <=> InPush(c)
    BY <1>1 DEF ownerVars, Hi, InPush
  <2>3. WindowInv' /\ PlaceInv' /\ hands' \in [Item -> Nat]
    <3>1. top \in top..(Hi - 1) /\ top'..(Hi' - 1) = top..(Hi - 1) \ {top}
      BY <1>1, <1>3, <2>1, <2>2
    <3>2. top' \in Nat /\ Hi' \in Int /\ top' <= Hi' /\ Hi' - top' <= Hi - top
      BY <1>1, <1>3, <2>1, <2>2
    <3> QED
      BY <1>1, <1>3, <2>1, <2>2, <3>1, <3>2, Taken
  <2>4. TypeInv'
    BY <1>1, <1>3, <2>3 DEF IInv, TypeInv, ThiefReturns, ownerVars, Entry
  <2>5. OwnerInv'
    BY <1>1, <1>3, <2>1 DEF IInv, TypeInv, OwnerInv, ownerVars, Val, Cur, Hi
  <2>6. ThiefInv'
    BY <1>1, <1>3 DEF IInv, TypeInv, ThiefInv, ThiefReturns, Cur
  <2> QED
    BY <2>3, <2>4, <2>5, <2>6 DEF IInv
<1> QED
  BY <1>2, <1>3 DEF StealCas

----------------------------------------------------------------------------
(* The theorems                                                            *)

\* Every step of the owner and of every thief keeps the invariant.
LEMMA NextInv == IInv /\ [DequeNext]_deque_vars => IInv'
<1> SUFFICES ASSUME IInv, [DequeNext]_deque_vars PROVE IInv'
  OBVIOUS
<1>1. CASE Owner
  BY <1>1, PushBeginInv, PushGrowInv, PushSlotInv, PushBottomInv,
     PopBottomInv, PopReadTopInv, PopCasInv, PopRestoreInv DEF Owner
<1>2. ASSUME NEW w \in Thieves, Thief(w) PROVE IInv'
  BY <1>2, StealInv, StealCasInv DEF Thief
<1>3. CASE UNCHANGED deque_vars
  <2>1. UNCHANGED <<top, bottom, bufs, ownerVars, hands>> /\ UNCHANGED thiefVars
    BY <1>3 DEF deque_vars
  <2>2. WindowInv' /\ PlaceInv' /\ OwnerInv' /\ Hi' = Hi
    BY <2>1, ThiefLocal
  <2>3. ThiefInv'
    BY <2>1, <2>2, ThievesKeep, CurFacts DEF IInv
  <2>4. TypeInv'
    BY <2>1 DEF IInv, TypeInv, ownerVars, thiefVars
  <2> QED
    BY <2>2, <2>3, <2>4 DEF IInv
<1> QED
  BY <1>1, <1>2, <1>3 DEF DequeNext

LEMMA DequeInductive == DequeSpec => []IInv
BY InitInv, NextInv, PTL DEF DequeSpec

\* The counters, the buffers and the history keep their types, and bottom is
\* never more than one below zero.
THEOREM DequeTypeOK == DequeSpec => []TypeOK
<1>1. IInv => TypeOK
  <2> SUFFICES ASSUME IInv PROVE TypeOK
    OBVIOUS
  <2>1. bottom >= -1
    BY CurFacts DEF IInv, TypeInv, WindowInv, OwnerInv, Hi
  <2>2. ASSUME NEW k \in DOMAIN bufs PROVE bufs[k] \in [DOMAIN bufs[k] -> Item \cup {Null}]
    <3>1. bufs[k] \in Buf
      BY DEF IInv, TypeInv
    <3> QED
      BY <3>1 DEF Buf, Entry
  <2> QED
    BY <2>1, <2>2 DEF IInv, TypeInv, TypeOK
<1> QED
  BY <1>1, DequeInductive, PTL

\* No coroutine is lost or handed out twice, whatever the owner and any number
\* of thieves interleave (jinn_deque_push, _pop, _steal and deque_grow).
THEOREM DequeKeepsEach == DequeSpec => []EachInOnePlace
<1>1. IInv => EachInOnePlace
  <2> SUFFICES ASSUME IInv PROVE EachInOnePlace
    OBVIOUS
  <2>1. \A c \in Item : (IF InDeque(c) THEN 1 ELSE 0) + (IF InPush(c) THEN 1 ELSE 0) + hands[c] = 1
    BY DEF IInv, PlaceInv
  <2>2. \A i, j \in top..(Hi - 1) : At(bufs[Cur], i) = At(bufs[Cur], j) => i = j
    BY DEF IInv, PlaceInv, Val
  <2> QED
    BY <2>1, <2>2 DEF EachInOnePlace
<1> QED
  BY <1>1, DequeInductive, PTL

\* The compare-and-swap of jinn_deque_steal succeeds only for a thief that read
\* the coroutine at top, although it may have read it from a replaced buffer.
THEOREM DequeStealsTop == DequeSpec => []StealsWhatIsAtTop
<1>1. IInv => StealsWhatIsAtTop
  <2> SUFFICES ASSUME IInv, NEW w \in Thieves, spc[w] = "cas", st[w] = top
               PROVE  sc[w] # Null /\ sc[w] = At(bufs[Cur], top)
    BY DEF StealsWhatIsAtTop
  <2>1. top < Hi /\ sc[w] = Val(top)
    BY DEF IInv, ThiefInv
  <2>2. Val(top) \in Item
    BY <2>1, CurFacts DEF IInv, WindowInv, TypeInv
  <2> QED
    BY <2>1, <2>2, DequeAssumption DEF Val
<1> QED
  BY <1>1, DequeInductive, PTL

----------------------------------------------------------------------------
(* The inductive invariant of the gate                                     *)

Occ(s, p) == Cardinality({i \in DOMAIN s : s[i] = p})

\* What a client holds besides the acquisition it is giving up.
Kept(c) == IF gpc[c] \in {"unslot", "leave", "open"} THEN Tail(held[c]) ELSE held[c]

GateTypes ==
  /\ writer_owner \in Clients \cup {NoOne} /\ writer_depth \in Int
  /\ slot_owner \in [Paths -> Clients \cup {NoOne}] /\ slot_depth \in [Paths -> Int]
  /\ gpc \in [Clients -> {"off", "idle", "enter", "depth", "slot", "slot_depth",
                          "unslot", "leave", "open"}]
  /\ seeks \in [Clients -> Paths \cup {Txn}]
  /\ held \in [Clients -> Seq(Paths \cup {Txn})]

\* Between its first entry and its last leave a client owns the gate, and the
\* depth counts what it holds and what it is about to hold.
GateInv(c) ==
  /\ held[c] # <<>> \/ gpc[c] \in {"depth", "slot", "slot_depth", "unslot", "leave", "open"}
       => writer_owner = c
  /\ gpc[c] \in {"idle", "enter"} /\ writer_owner = c => writer_depth = Len(held[c]) /\ held[c] # <<>>
  /\ gpc[c] = "depth" => held[c] = <<>>
  /\ gpc[c] \in {"slot", "slot_depth"} => seeks[c] # Txn /\ writer_depth = Len(held[c]) + 1
  /\ gpc[c] \in {"unslot", "leave", "open"} => held[c] # <<>> /\ seeks[c] = Head(held[c])
  /\ gpc[c] \in {"unslot", "leave"} => writer_depth = Len(held[c])
  /\ gpc[c] = "unslot" => seeks[c] # Txn
  /\ gpc[c] = "open" => Len(held[c]) = 1
  /\ gpc[c] = "off" => held[c] = <<>> /\ writer_owner # c

\* The owner of a store's lock is who holds it, and its depth says how often.
SlotInv(c, p) ==
  /\ slot_owner[p] = c <=> \/ Occ(Kept(c), p) > 0
                           \/ gpc[c] \in {"slot_depth", "unslot"} /\ seeks[c] = p
  /\ slot_owner[p] = c => slot_depth[p] = Occ(Kept(c), p) \/ (gpc[c] = "slot_depth" /\ seeks[c] = p)
  /\ gpc[c] \in {"slot_depth", "unslot"} /\ seeks[c] = p => Occ(Kept(c), p) = 0

GateIInv == GateTypes /\ \A c \in Clients : GateInv(c) /\ \A p \in Paths : SlotInv(c, p)

----------------------------------------------------------------------------
(* The inductive invariant of the latch                                    *)

Inside == {"top", "lock", "swap", "parked", "wake", "gone"}

LatchTypes ==
  /\ slot \in Parties \cup {NoOne} /\ mine \in [Parties -> Parties \cup {NoOne}]
  /\ jdone \in [Parties -> BOOLEAN] /\ jlock \in [Parties -> BOOLEAN]
  /\ waitq \in [Parties -> SUBSET Joiners] /\ woken \in SUBSET Joiners
  /\ jpc \in [Parties -> {"off", "get", "publish"} \cup Inside]

\* There is one latch, whoever made it.
OneLatch ==
  \A t \in Parties : jpc[t] \in Inside => slot # NoOne /\ mine[t] = slot

\* A joiner is queued from its second look at the flag until the signal takes the
\* queue; the lock is held by the one whose stack is not left yet.
QueueInv ==
  /\ \A j \in Parties : j # slot => waitq[j] = {} /\ ~jdone[j]
  /\ \A t \in Joiners : jpc[t] # "wake"
  /\ jpc[Ender] \in {"off", "get", "publish", "top", "wake", "gone"}
  /\ \A t \in Joiners : jpc[t] \in {"swap", "parked"} => t \in waitq[slot] \cup woken
  /\ slot # NoOne => \A t \in waitq[slot] : jpc[t] \in {"swap", "parked"}
  /\ \A t \in woken : jpc[t] = "parked"
  /\ \A t, u \in Joiners : jpc[t] = "swap" => jlock[slot] /\ (jpc[u] = "swap" => u = t)
  /\ slot # NoOne => (jdone[slot] <=> jpc[Ender] \in {"wake", "gone"})
  /\ jpc[Ender] \in {"wake", "gone"} => waitq[slot] = {}
  /\ jpc[Ender] # "wake" => woken = {}

LatchIInv == LatchTypes /\ OneLatch /\ QueueInv

----------------------------------------------------------------------------
(* Counting what is held                                                   *)

LEMMA OccType ==
  ASSUME NEW X, NEW s \in Seq(X), NEW p
  PROVE  /\ IsFiniteSet({i \in DOMAIN s : s[i] = p})
         /\ Occ(s, p) \in Nat
         /\ Occ(s, p) > 0 <=> \E i \in DOMAIN s : s[i] = p
<1> DEFINE A == {i \in DOMAIN s : s[i] = p}
<1>1. IsFiniteSet(1..Len(s))
  BY FS_Interval
<1>2. IsFiniteSet(A)
  BY <1>1, FS_Subset
<1>3. Cardinality(A) \in Nat
  BY <1>2, FS_CardinalityType
<1>4. Cardinality(A) = 0 <=> A = {}
  BY <1>2, FS_EmptySet
<1> QED
  BY <1>2, <1>3, <1>4 DEF Occ

\* A sequence with one more element in front.
LEMMA OccFront ==
  ASSUME NEW X, NEW s \in Seq(X), NEW r \in Seq(X), NEW p,
         Len(r) = Len(s) + 1, \A i \in 1..Len(s) : r[i + 1] = s[i]
  PROVE  Occ(r, p) = Occ(s, p) + (IF r[1] = p THEN 1 ELSE 0)
<1> DEFINE A == {i \in DOMAIN s : s[i] = p}
           B == {i \in DOMAIN r : r[i] = p}
           A1 == {i + 1 : i \in A}
           f == [i \in A |-> i + 1]
<1>1. IsFiniteSet(A) /\ Cardinality(A) \in Nat
  BY OccType DEF Occ
<1>2. A \subseteq Nat /\ A \subseteq 1..Len(s) /\ Len(s) \in Nat
  OBVIOUS
<1>3. f \in Bijection(A, A1)
  BY <1>2 DEF Bijection, Injection, Surjection, IsInjective
<1>4. IsFiniteSet(A1) /\ Cardinality(A1) = Cardinality(A)
  BY <1>1, <1>3, FS_Bijection DEF ExistsBijection
<1>5. \A i \in 2..Len(r) : i - 1 \in 1..Len(s) /\ r[i] = s[i - 1]
  <2> SUFFICES ASSUME NEW i \in 2..Len(r) PROVE i - 1 \in 1..Len(s) /\ r[i] = s[i - 1]
    OBVIOUS
  <2>1. i - 1 \in 1..Len(s) /\ (i - 1) + 1 = i
    BY <1>2
  <2> QED
    BY <2>1
<1>6. 1 \notin A1
  BY <1>2
<1>7. B = A1 \cup (IF r[1] = p THEN {1} ELSE {})
  <2>1. ASSUME NEW i \in B, i # 1 PROVE i \in A1
    BY <1>2, <1>5, <2>1
  <2>2. ASSUME NEW i \in A1 PROVE i \in B
    BY <1>2, <2>2
  <2>3. 1 \in B <=> r[1] = p
    BY <1>2
  <2> QED
    BY <1>6, <2>1, <2>2, <2>3
<1>8. CASE r[1] = p
  BY <1>1, <1>4, <1>6, <1>7, <1>8, FS_AddElement DEF Occ
<1>9. CASE r[1] # p
  <2>1. B = A1
    BY <1>7, <1>9
  <2>2. Occ(r, p) = Cardinality(B) /\ Occ(s, p) = Cardinality(A)
    BY DEF Occ
  <2> HIDE DEF A, B, A1
  <2> QED
    BY <1>1, <1>4, <1>9, <2>1, <2>2
<1> QED
  BY <1>8, <1>9

LEMMA OccCons ==
  ASSUME NEW X, NEW s \in Seq(X), NEW x \in X, NEW p
  PROVE  /\ <<x>> \o s \in Seq(X) /\ Len(<<x>> \o s) = Len(s) + 1 /\ <<x>> \o s # <<>>
         /\ Occ(<<x>> \o s, p) = Occ(s, p) + (IF x = p THEN 1 ELSE 0)
<1> DEFINE r == <<x>> \o s
<1>1. r \in Seq(X) /\ Len(r) = Len(s) + 1 /\ r[1] = x /\ \A i \in 1..Len(s) : r[i + 1] = s[i]
  OBVIOUS
<1> HIDE DEF r
<1>2. Occ(r, p) = Occ(s, p) + (IF x = p THEN 1 ELSE 0)
  BY <1>1, OccFront
<1>3. r # <<>>
  BY <1>1
<1> QED
  BY <1>1, <1>2, <1>3 DEF r

LEMMA OccTail ==
  ASSUME NEW X, NEW r \in Seq(X), r # <<>>, NEW p
  PROVE  /\ Tail(r) \in Seq(X) /\ Len(Tail(r)) = Len(r) - 1 /\ Head(r) \in X
         /\ Occ(r, p) = Occ(Tail(r), p) + (IF Head(r) = p THEN 1 ELSE 0)
<1> DEFINE s == Tail(r)
<1>1. /\ s \in Seq(X) /\ Len(r) = Len(s) + 1 /\ r[1] = Head(r) /\ Head(r) \in X
      /\ \A i \in 1..Len(s) : r[i + 1] = s[i]
  OBVIOUS
<1> HIDE DEF s
<1>2. Occ(r, p) = Occ(s, p) + (IF Head(r) = p THEN 1 ELSE 0)
  BY <1>1, OccFront
<1> QED
  BY <1>1, <1>2 DEF s

LEMMA EmptyLen ==
  ASSUME NEW X, NEW s \in Seq(X)
  PROVE  Len(s) \in Nat /\ (s = <<>> <=> Len(s) = 0)
OBVIOUS

LEMMA OccEmpty == \A p : Occ(<<>>, p) = 0
BY FS_EmptySet DEF Occ

----------------------------------------------------------------------------
(* The steps of the gate                                                   *)

Whole(c) == GateInv(c) /\ \A p \in Paths : SlotInv(c, p)

\* A client that does not step keeps its part of the invariant as long as the
\* gate and the locks it owns, and only those, stay its own.
LEMMA OthersKeep ==
  ASSUME GateIInv, NEW d \in Clients,
         gpc'[d] = gpc[d], held'[d] = held[d], seeks'[d] = seeks[d],
         writer_owner' = d <=> writer_owner = d,
         writer_owner = d => writer_depth' = writer_depth,
         \A p \in Paths : /\ slot_owner'[p] = d <=> slot_owner[p] = d
                          /\ slot_owner[p] = d => slot_depth'[p] = slot_depth[p]
  PROVE  Whole(d)'
<1>1. Kept(d)' = Kept(d)
  BY DEF Kept
<1>2. GateInv(d) /\ \A p \in Paths : SlotInv(d, p)
  BY DEF GateIInv
<1>3. GateInv(d)'
  BY <1>2 DEF GateInv
<1>4. ASSUME NEW p \in Paths PROVE SlotInv(d, p)'
  BY <1>1, <1>2 DEF SlotInv
<1> QED
  BY <1>3, <1>4 DEF Whole

\* A step of client c, for c itself and for the others.
LEMMA GateStep ==
  ASSUME GateIInv, NEW c \in Clients, GateTypes', Whole(c)',
         \A d \in Clients \ {c} :
           /\ gpc'[d] = gpc[d] /\ held'[d] = held[d] /\ seeks'[d] = seeks[d]
           /\ writer_owner' = d <=> writer_owner = d
           /\ writer_owner = d => writer_depth' = writer_depth
           /\ \A p \in Paths : /\ slot_owner'[p] = d <=> slot_owner[p] = d
                               /\ slot_owner[p] = d => slot_depth'[p] = slot_depth[p]
  PROVE  GateIInv'
<1>1. ASSUME NEW d \in Clients \ {c} PROVE Whole(d)'
  BY <1>1, OthersKeep
<1> QED
  BY <1>1 DEF GateIInv, Whole

\* The types a client's step may rely on.
LEMMA ClientTypes ==
  ASSUME GateIInv, NEW c \in Clients
  PROVE  /\ held[c] \in Seq(Paths \cup {Txn}) /\ seeks[c] \in Paths \cup {Txn}
         /\ Len(held[c]) \in Nat /\ (held[c] = <<>> <=> Len(held[c]) = 0)
         /\ held \in [Clients -> Seq(Paths \cup {Txn})]
         /\ Whole(c)
BY DEF GateIInv, GateTypes, Whole

LEMMA AcquireInv ==
  ASSUME GateIInv, NEW c \in Clients, NEW x \in Paths \cup {Txn}, Acquire(c, x)
  PROVE  GateIInv'
<1>1. GateTypes'
  BY DEF GateIInv, GateTypes, Acquire, GoTo
<1>2. /\ gpc[c] = "idle" /\ gpc'[c] = "enter" /\ held' = held
      /\ UNCHANGED <<writer_owner, writer_depth, slot_owner, slot_depth>>
      /\ \A d \in Clients \ {c} : gpc'[d] = gpc[d] /\ seeks'[d] = seeks[d]
  BY DEF GateIInv, GateTypes, Acquire, GoTo
<1>3. Whole(c)
  BY ClientTypes
<1>4. GateInv(c)'
  BY <1>2, <1>3 DEF Whole, GateInv
<1>5. Kept(c)' = Kept(c)
  BY <1>2 DEF Kept
<1>6. \A p \in Paths : SlotInv(c, p)'
  BY <1>2, <1>3, <1>5 DEF Whole, SlotInv
<1> QED
  BY <1>1, <1>2, <1>4, <1>6, GateStep DEF Whole

\* jinn_store_writer_enter has returned: one entry more, whether the task goes on
\* to a store's lock or is through.
LEMMA EnteredInv ==
  ASSUME GateIInv, NEW c \in Clients, gpc[c] \in {"enter", "depth"}, writer_owner = c,
         writer_depth' = Len(held[c]) + 1, Entered(c),
         UNCHANGED <<writer_owner, slot_owner, slot_depth, seeks>>
  PROVE  GateIInv'
<1>1. /\ held[c] \in Seq(Paths \cup {Txn}) /\ seeks[c] \in Paths \cup {Txn} /\ Whole(c)
      /\ Len(held[c]) \in Nat /\ held \in [Clients -> Seq(Paths \cup {Txn})]
      /\ gpc \in [Clients -> {"off", "idle", "enter", "depth", "slot", "slot_depth",
                              "unslot", "leave", "open"}]
  BY ClientTypes DEF GateIInv, GateTypes
<1> DEFINE more == <<seeks[c]>> \o held[c]
<1>2. /\ more \in Seq(Paths \cup {Txn}) /\ Len(more) = Len(held[c]) + 1 /\ more # <<>>
      /\ \A p : Occ(more, p) = Occ(held[c], p) + (IF seeks[c] = p THEN 1 ELSE 0)
  BY <1>1, OccCons
<1> HIDE DEF more
<1>3. Kept(c) = held[c]
  BY DEF Kept
<1>4. CASE seeks[c] = Txn /\ Got(c)
  <2>1. /\ gpc'[c] = "idle" /\ held'[c] = more
        /\ \A d \in Clients \ {c} : gpc'[d] = gpc[d] /\ held'[d] = held[d]
    BY <1>1, <1>4 DEF Got, more
  <2>2. GateTypes'
    BY <1>1, <1>2, <1>4 DEF GateIInv, GateTypes, Got, more
  <2>3. GateInv(c)'
    BY <1>1, <1>2, <2>1 DEF GateInv
  <2>4. Kept(c)' = more
    BY <2>1 DEF Kept
  <2>5. ASSUME NEW p \in Paths PROVE SlotInv(c, p)'
    <3>1. Occ(more, p) = Occ(held[c], p)
      <4>1. p # Txn /\ Occ(held[c], p) \in Nat
        BY <1>1, WaitingAssumption, OccType
      <4> QED
        BY <1>2, <1>4, <4>1
    <3> QED
      BY <1>1, <1>3, <2>1, <2>4, <3>1 DEF Whole, SlotInv
  <2> QED
    BY <2>1, <2>2, <2>3, <2>5, GateStep DEF Whole
<1>5. CASE seeks[c] # Txn /\ GoTo(c, "slot") /\ UNCHANGED held
  <2>1. gpc'[c] = "slot" /\ \A d \in Clients \ {c} : gpc'[d] = gpc[d] /\ held'[d] = held[d]
    BY <1>1, <1>5 DEF GoTo
  <2>2. GateTypes'
    BY <1>1, <1>5 DEF GateIInv, GateTypes, GoTo
  <2>3. GateInv(c)'
    BY <1>1, <1>5, <2>1 DEF GateInv
  <2>4. Kept(c)' = held[c]
    BY <1>5, <2>1 DEF Kept
  <2>5. \A p \in Paths : SlotInv(c, p)'
    BY <1>1, <1>3, <2>1, <2>4 DEF Whole, SlotInv
  <2> QED
    BY <2>1, <2>2, <2>3, <2>5, GateStep DEF Whole
<1> QED
  BY <1>4, <1>5 DEF Entered

LEMMA EnterInv ==
  ASSUME GateIInv, NEW c \in Clients, Reenter(c) \/ SwapIn(c) \/ FirstDepth(c)
  PROVE  GateIInv'
<1>1. Whole(c) /\ Len(held[c]) \in Nat /\ (held[c] = <<>> <=> Len(held[c]) = 0)
  BY ClientTypes
<1>2. CASE Reenter(c)
  <2>1. writer_depth' = Len(held[c]) + 1
    BY <1>1, <1>2 DEF Reenter, Whole, GateInv
  <2> QED
    BY <1>2, <2>1, EnteredInv DEF Reenter
<1>3. CASE FirstDepth(c)
  <2>1. writer_owner = c /\ writer_depth' = Len(held[c]) + 1
    BY <1>1, <1>3 DEF FirstDepth, Whole, GateInv
  <2> QED
    BY <1>3, <2>1, EnteredInv DEF FirstDepth
<1>4. CASE SwapIn(c)
  <2>1. /\ gpc[c] = "enter" /\ gpc'[c] = "depth" /\ writer_owner = NoOne /\ writer_owner' = c
        /\ UNCHANGED <<writer_depth, slot_owner, slot_depth, seeks, held>>
        /\ \A d \in Clients \ {c} : gpc'[d] = gpc[d]
    BY <1>4 DEF GateIInv, GateTypes, SwapIn, GoTo
  <2>2. c # NoOne /\ \A d \in Clients : d # NoOne
    BY WaitingAssumption
  <2>3. GateTypes'
    BY <1>4 DEF GateIInv, GateTypes, SwapIn, GoTo
  <2>4. GateInv(c)'
    BY <1>1, <2>1, <2>2 DEF Whole, GateInv
  <2>5. Kept(c)' = Kept(c)
    BY <2>1 DEF Kept
  <2>6. \A p \in Paths : SlotInv(c, p)'
    BY <1>1, <2>1, <2>5 DEF Whole, SlotInv
  <2> QED
    BY <2>1, <2>2, <2>3, <2>4, <2>6, GateStep DEF Whole
<1> QED
  BY <1>2, <1>3, <1>4

\* The store's lock, taken again or for the first time.
LEMMA LockInv ==
  ASSUME GateIInv, NEW c \in Clients, LockAgain(c) \/ SlotDepth(c)
  PROVE  GateIInv'
<1>1. /\ held[c] \in Seq(Paths \cup {Txn}) /\ seeks[c] \in Paths \cup {Txn} /\ Whole(c)
      /\ Len(held[c]) \in Nat /\ held \in [Clients -> Seq(Paths \cup {Txn})]
      /\ slot_depth \in [Paths -> Int]
      /\ gpc \in [Clients -> {"off", "idle", "enter", "depth", "slot", "slot_depth",
                              "unslot", "leave", "open"}]
  BY ClientTypes DEF GateIInv, GateTypes
<1>2. /\ gpc[c] \in {"slot", "slot_depth"} /\ seeks[c] # Txn /\ writer_owner = c
      /\ writer_depth = Len(held[c]) + 1 /\ seeks[c] \in Paths
  BY <1>1 DEF LockAgain, SlotDepth, Whole, GateInv
<1>3. Got(c) /\ UNCHANGED <<writer_owner, writer_depth, slot_owner, seeks>>
  BY DEF LockAgain, SlotDepth
<1> DEFINE more == <<seeks[c]>> \o held[c]
<1>4. /\ more \in Seq(Paths \cup {Txn}) /\ Len(more) = Len(held[c]) + 1 /\ more # <<>>
      /\ \A p : Occ(more, p) = Occ(held[c], p) + (IF seeks[c] = p THEN 1 ELSE 0)
  BY <1>1, OccCons
<1>5. /\ gpc'[c] = "idle" /\ held'[c] = more
      /\ \A d \in Clients \ {c} : gpc'[d] = gpc[d] /\ held'[d] = held[d]
  BY <1>1, <1>3 DEF Got
<1>6. held' = [held EXCEPT ![c] = more]
  BY <1>3 DEF Got
<1> HIDE DEF more
<1>7. /\ slot_owner[seeks[c]] = c
      /\ slot_depth'[seeks[c]] = Occ(held[c], seeks[c]) + 1
      /\ slot_depth' \in [Paths -> Int]
      /\ \A p \in Paths : p # seeks[c] => slot_depth'[p] = slot_depth[p]
  <2>1. Kept(c) = held[c] /\ Occ(held[c], seeks[c]) \in Nat
    BY <1>1, <1>2, OccType DEF Kept
  <2>2. CASE LockAgain(c)
    BY <1>1, <1>2, <2>1, <2>2 DEF LockAgain, Whole, SlotInv
  <2>3. CASE SlotDepth(c)
    BY <1>1, <1>2, <2>1, <2>3 DEF SlotDepth, Whole, SlotInv
  <2> QED
    BY <2>2, <2>3
<1>8. GateTypes'
  BY <1>1, <1>3, <1>4, <1>6, <1>7 DEF GateIInv, GateTypes, Got
<1>9. GateInv(c)'
  BY <1>1, <1>2, <1>3, <1>4, <1>5 DEF GateInv
<1>10. Kept(c)' = more /\ Kept(c) = held[c]
  BY <1>2, <1>5 DEF Kept
<1>11. ASSUME NEW p \in Paths PROVE SlotInv(c, p)'
  <2>1. Occ(held[c], p) \in Nat
    BY <1>1, OccType
  <2>2. CASE p = seeks[c]
    BY <1>3, <1>4, <1>5, <1>7, <1>10, <2>1, <2>2 DEF SlotInv
  <2>3. CASE p # seeks[c]
    <3>1. Occ(more, p) = Occ(held[c], p)
      BY <1>4, <2>1, <2>3
    <3> QED
      BY <1>1, <1>3, <1>5, <1>7, <1>10, <2>3, <3>1 DEF Whole, SlotInv
  <2> QED
    BY <2>2, <2>3
<1>12. ASSUME NEW d \in Clients \ {c}, NEW p \in Paths, slot_owner[p] = d
       PROVE  slot_depth'[p] = slot_depth[p]
  BY <1>7, <1>12
<1> QED
  BY <1>2, <1>3, <1>5, <1>8, <1>9, <1>11, <1>12, GateStep DEF Whole

LEMMA LockSlotInv ==
  ASSUME GateIInv, NEW c \in Clients, LockSlot(c)
  PROVE  GateIInv'
<1>1. Whole(c) /\ held[c] \in Seq(Paths \cup {Txn}) /\ seeks[c] \in Paths \cup {Txn}
  BY ClientTypes
<1>2. seeks[c] \in Paths
  BY <1>1 DEF LockSlot, Whole, GateInv
<1>3. /\ gpc[c] = "slot" /\ gpc'[c] = "slot_depth" /\ slot_owner[seeks[c]] = NoOne
      /\ slot_owner'[seeks[c]] = c
      /\ \A p \in Paths : p # seeks[c] => slot_owner'[p] = slot_owner[p]
      /\ UNCHANGED <<writer_owner, writer_depth, slot_depth, seeks, held>>
      /\ \A d \in Clients \ {c} : gpc'[d] = gpc[d]
  BY <1>2 DEF GateIInv, GateTypes, LockSlot, GoTo
<1>4. GateTypes'
  BY <1>2 DEF GateIInv, GateTypes, LockSlot, GoTo
<1>5. GateInv(c)'
  BY <1>1, <1>3 DEF Whole, GateInv
<1>6. Kept(c)' = Kept(c) /\ Kept(c) = held[c]
  BY <1>3 DEF Kept
<1>7. \A d \in Clients : d # NoOne
  BY WaitingAssumption
<1>8. ASSUME NEW p \in Paths PROVE SlotInv(c, p)'
  <2>1. Occ(held[c], p) \in Nat
    BY <1>1, OccType
  <2>2. CASE p = seeks[c]
    BY <1>1, <1>3, <1>6, <1>7, <2>1, <2>2 DEF Whole, SlotInv
  <2>3. CASE p # seeks[c]
    BY <1>1, <1>3, <1>6, <2>3 DEF Whole, SlotInv
  <2> QED
    BY <2>2, <2>3
<1>9. ASSUME NEW d \in Clients \ {c}, NEW p \in Paths
      PROVE  slot_owner'[p] = d <=> slot_owner[p] = d
  BY <1>3, <1>7
<1> QED
  BY <1>3, <1>4, <1>5, <1>8, <1>9, GateStep DEF Whole

\* A release lowers the depth of the lock; the branch that does nothing, for a
\* lock that is another's, is not reached.
LEMMA UnlockInv ==
  ASSUME GateIInv, NEW c \in Clients, Unlock(c)
  PROVE  GateIInv'
<1> DEFINE x == Head(held[c])
           rest == Tail(held[c])
<1>1. /\ held[c] \in Seq(Paths \cup {Txn}) /\ Whole(c) /\ Len(held[c]) \in Nat
      /\ slot_depth \in [Paths -> Int] /\ seeks \in [Clients -> Paths \cup {Txn}]
      /\ gpc \in [Clients -> {"off", "idle", "enter", "depth", "slot", "slot_depth",
                              "unslot", "leave", "open"}]
      /\ gpc[c] = "idle" /\ held[c] # <<>>
  BY ClientTypes DEF GateIInv, GateTypes, Unlock
<1>2. /\ x \in Paths \cup {Txn} /\ rest \in Seq(Paths \cup {Txn})
      /\ \A p : Occ(held[c], p) = Occ(rest, p) + (IF x = p THEN 1 ELSE 0)
  BY <1>1, OccTail
<1>3. \A p : Occ(rest, p) \in Nat
  BY <1>2, OccType
<1> HIDE DEF x, rest
<1>4. Kept(c) = held[c] /\ writer_owner = c /\ writer_depth = Len(held[c])
  BY <1>1 DEF Kept, Whole, GateInv
<1>5. /\ seeks' = [seeks EXCEPT ![c] = x]
      /\ UNCHANGED <<writer_owner, writer_depth, slot_owner>>
  BY DEF Unlock, x
<1>6. CASE x = Txn
  <2>1. GoTo(c, "leave") /\ UNCHANGED <<slot_depth, held>>
    BY <1>6 DEF Unlock, x
  <2>2. gpc'[c] = "leave" /\ \A d \in Clients \ {c} : gpc'[d] = gpc[d] /\ seeks'[d] = seeks[d]
    BY <1>1, <1>5, <2>1 DEF GoTo
  <2>3. GateTypes'
    BY <1>1, <1>2, <1>5, <2>1 DEF GateIInv, GateTypes, GoTo
  <2>4. GateInv(c)'
    BY <1>1, <1>4, <1>5, <2>1, <2>2 DEF GateInv, x
  <2>5. Kept(c)' = rest
    BY <2>1, <2>2 DEF Kept, rest
  <2>6. ASSUME NEW p \in Paths PROVE SlotInv(c, p)'
    <3>1. Occ(held[c], p) = Occ(rest, p)
      BY <1>2, <1>3, <1>6, WaitingAssumption
    <3> QED
      BY <1>1, <1>4, <1>5, <2>1, <2>2, <2>5, <3>1 DEF Whole, SlotInv
  <2> QED
    BY <1>5, <2>1, <2>2, <2>3, <2>4, <2>6, GateStep DEF Whole
<1>7. CASE x # Txn
  <2>1. x \in Paths
    BY <1>2, <1>7
  <2>2. slot_owner[x] = c /\ slot_depth[x] = Occ(rest, x) + 1
    <3>1. Occ(held[c], x) = Occ(rest, x) + 1 /\ Occ(held[c], x) > 0
      BY <1>2, <1>3
    <3> QED
      BY <1>1, <1>4, <2>1, <3>1 DEF Whole, SlotInv
  <2>3. /\ slot_depth' = [slot_depth EXCEPT ![x] = @ - 1]
        /\ GoTo(c, IF slot_depth[x] <= 1 THEN "unslot" ELSE "leave") /\ UNCHANGED held
    BY <1>7, <2>2 DEF Unlock, x
  <2>4. /\ slot_depth' \in [Paths -> Int] /\ slot_depth'[x] = Occ(rest, x)
        /\ \A p \in Paths : p # x => slot_depth'[p] = slot_depth[p]
    BY <1>1, <1>3, <2>1, <2>2, <2>3
  <2>5. /\ gpc'[c] \in {"unslot", "leave"} /\ seeks'[c] = x
        /\ gpc'[c] = "unslot" <=> Occ(rest, x) = 0
        /\ \A d \in Clients \ {c} : gpc'[d] = gpc[d] /\ seeks'[d] = seeks[d]
    BY <1>1, <1>3, <1>5, <2>2, <2>3 DEF GoTo
  <2>6. GateTypes'
    BY <1>1, <1>2, <1>5, <2>3, <2>4 DEF GateIInv, GateTypes, GoTo
  <2>7. GateInv(c)'
    BY <1>1, <1>4, <1>5, <1>7, <2>3, <2>5 DEF GateInv, x
  <2>8. Kept(c)' = rest
    BY <2>3, <2>5 DEF Kept, rest
  <2>9. ASSUME NEW p \in Paths PROVE SlotInv(c, p)'
    <3>1. CASE p = x
      BY <1>3, <1>5, <2>2, <2>4, <2>5, <2>8, <3>1 DEF SlotInv
    <3>2. CASE p # x
      <4>1. Occ(held[c], p) = Occ(rest, p)
        BY <1>2, <1>3, <3>2
      <4> QED
        BY <1>1, <1>4, <1>5, <2>4, <2>5, <2>8, <3>2, <4>1 DEF Whole, SlotInv
    <3> QED
      BY <3>1, <3>2
  <2>10. ASSUME NEW d \in Clients \ {c}, NEW p \in Paths, slot_owner[p] = d
         PROVE  slot_depth'[p] = slot_depth[p]
    BY <2>2, <2>4, <2>10
  <2> QED
    BY <1>4, <1>5, <2>3, <2>5, <2>6, <2>7, <2>9, <2>10, GateStep DEF Whole
<1> QED
  BY <1>6, <1>7

LEMMA UnslotInv ==
  ASSUME GateIInv, NEW c \in Clients, Unslot(c)
  PROVE  GateIInv'
<1>1. Whole(c) /\ held[c] \in Seq(Paths \cup {Txn}) /\ seeks[c] \in Paths \cup {Txn}
  BY ClientTypes
<1>2. seeks[c] \in Paths
  BY <1>1 DEF Unslot, Whole, GateInv
<1>3. /\ gpc[c] = "unslot" /\ gpc'[c] = "leave" /\ slot_owner'[seeks[c]] = NoOne
      /\ \A p \in Paths : p # seeks[c] => slot_owner'[p] = slot_owner[p]
      /\ UNCHANGED <<writer_owner, writer_depth, slot_depth, seeks, held>>
      /\ \A d \in Clients \ {c} : gpc'[d] = gpc[d]
  BY <1>2 DEF GateIInv, GateTypes, Unslot, GoTo
<1>4. GateTypes'
  BY <1>2 DEF GateIInv, GateTypes, Unslot, GoTo
<1>5. GateInv(c)'
  BY <1>1, <1>3 DEF Whole, GateInv
<1>6. Kept(c)' = Kept(c)
  BY <1>3 DEF Kept
<1>7. \A d \in Clients : d # NoOne
  BY WaitingAssumption
<1>8. slot_owner[seeks[c]] = c /\ Occ(Kept(c), seeks[c]) = 0
  BY <1>1, <1>2, <1>3 DEF Whole, SlotInv
<1>9. ASSUME NEW p \in Paths PROVE SlotInv(c, p)'
  <2>1. CASE p = seeks[c]
    BY <1>3, <1>6, <1>7, <1>8, <2>1 DEF SlotInv
  <2>2. CASE p # seeks[c]
    BY <1>1, <1>3, <1>6, <2>2 DEF Whole, SlotInv
  <2> QED
    BY <2>1, <2>2
<1>10. ASSUME NEW d \in Clients \ {c}, NEW p \in Paths
       PROVE  slot_owner'[p] = d <=> slot_owner[p] = d
  BY <1>3, <1>7, <1>8
<1> QED
  BY <1>3, <1>4, <1>5, <1>9, <1>10, GateStep DEF Whole

\* The gate is opened by the last leave, and no leave is refused.
LEMMA LeaveInv ==
  ASSUME GateIInv, NEW c \in Clients, Leave(c) \/ OpenGate(c)
  PROVE  GateIInv'
<1>1. /\ held[c] \in Seq(Paths \cup {Txn}) /\ Whole(c) /\ Len(held[c]) \in Nat
      /\ held \in [Clients -> Seq(Paths \cup {Txn})]
      /\ gpc \in [Clients -> {"off", "idle", "enter", "depth", "slot", "slot_depth",
                              "unslot", "leave", "open"}]
      /\ gpc[c] \in {"leave", "open"}
  BY ClientTypes DEF GateIInv, GateTypes, Leave, OpenGate
<1>2. /\ held[c] # <<>> /\ writer_owner = c
      /\ gpc[c] = "leave" => writer_depth = Len(held[c])
      /\ gpc[c] = "open" => Len(held[c]) = 1
  BY <1>1 DEF Whole, GateInv
<1>3. Tail(held[c]) \in Seq(Paths \cup {Txn}) /\ Len(Tail(held[c])) = Len(held[c]) - 1
  BY <1>1, <1>2, OccTail
<1>4. Kept(c) = Tail(held[c]) /\ UNCHANGED <<slot_owner, slot_depth, seeks>>
  BY <1>1 DEF Kept, Leave, OpenGate
<1>5. /\ Len(held[c]) >= 1 /\ (Len(Tail(held[c])) = 0 <=> Tail(held[c]) = <<>>)
      /\ \A d \in Clients : d # NoOne
  <2>1. Len(held[c]) # 0 /\ (Len(Tail(held[c])) = 0 <=> Tail(held[c]) = <<>>)
    BY <1>1, <1>2, <1>3, EmptyLen
  <2> QED
    BY <1>1, <2>1, WaitingAssumption
<1>6. CASE Leave(c) /\ writer_depth = 1
  <2>1. /\ writer_depth' = 0 /\ GoTo(c, "open") /\ UNCHANGED <<held, writer_owner>>
        /\ gpc[c] = "leave"
    BY <1>2, <1>6 DEF Leave
  <2>2. gpc'[c] = "open" /\ \A d \in Clients \ {c} : gpc'[d] = gpc[d]
    BY <1>1, <2>1 DEF GoTo
  <2>3. GateTypes'
    BY <1>4, <2>1 DEF GateIInv, GateTypes, GoTo
  <2>4. GateInv(c)'
    BY <1>1, <1>2, <1>4, <1>6, <2>1, <2>2 DEF Whole, GateInv
  <2>5. Kept(c)' = Kept(c)
    BY <1>4, <2>1, <2>2 DEF Kept
  <2>6. \A p \in Paths : SlotInv(c, p)'
    BY <1>1, <1>4, <2>1, <2>2, <2>5 DEF Whole, SlotInv
  <2> QED
    BY <1>2, <1>4, <2>1, <2>2, <2>3, <2>4, <2>6, GateStep DEF Whole
<1>7. CASE Through(c) /\ (OpenGate(c) \/ (Leave(c) /\ writer_depth # 1))
  <2>1. /\ gpc'[c] = "idle" /\ held'[c] = Tail(held[c])
        /\ \A d \in Clients \ {c} : gpc'[d] = gpc[d] /\ held'[d] = held[d]
    BY <1>1, <1>7 DEF Through
  <2>2. \/ writer_owner' = NoOne /\ writer_depth' = writer_depth /\ gpc[c] = "open"
        \/ /\ writer_owner' = writer_owner /\ writer_depth' = writer_depth - 1
           /\ gpc[c] = "leave" /\ Len(held[c]) > 1
    BY <1>1, <1>2, <1>5, <1>7 DEF OpenGate, Leave
  <2>3. GateTypes'
    BY <1>3, <1>4, <1>7, <2>2 DEF GateIInv, GateTypes, Through
  <2>4. GateInv(c)'
    <3>1. CASE writer_owner' = NoOne /\ gpc[c] = "open"
      BY <1>2, <1>3, <1>5, <2>1, <3>1 DEF GateInv
    <3>2. CASE /\ writer_owner' = writer_owner /\ writer_depth' = writer_depth - 1
               /\ gpc[c] = "leave" /\ Len(held[c]) > 1
      <4>1. Tail(held[c]) # <<>>
        BY <1>1, <1>3, <1>5, <3>2
      <4> QED
        BY <1>2, <1>3, <2>1, <3>2, <4>1 DEF GateInv
    <3> QED
      BY <2>2, <3>1, <3>2
  <2>5. Kept(c)' = Kept(c)
    BY <1>4, <2>1 DEF Kept
  <2>6. \A p \in Paths : SlotInv(c, p)'
    BY <1>1, <1>4, <2>1, <2>5 DEF Whole, SlotInv
  <2>7. \A d \in Clients \ {c} : (writer_owner' = d <=> writer_owner = d) /\ seeks'[d] = seeks[d]
    BY <1>2, <1>4, <1>5, <2>2
  <2> QED
    BY <1>2, <1>4, <2>1, <2>3, <2>4, <2>6, <2>7, GateStep DEF Whole
<1> QED
  BY <1>1, <1>2, <1>5, <1>6, <1>7 DEF Leave, OpenGate

\* Every step of every client keeps the invariant of the gate.
LEMMA GateNextInv == GateIInv /\ GateNext => GateIInv'
<1> SUFFICES ASSUME GateIInv, GateNext PROVE GateIInv'
  OBVIOUS
<1>1. PICK c \in Clients :
        \/ \E x \in Paths \cup {Txn} : Acquire(c, x)
        \/ Reenter(c) \/ SwapIn(c) \/ FirstDepth(c)
        \/ LockAgain(c) \/ LockSlot(c) \/ SlotDepth(c)
        \/ Unlock(c) \/ Unslot(c) \/ Leave(c) \/ OpenGate(c)
  BY DEF GateNext
<1> QED
  BY <1>1, AcquireInv, EnterInv, LockInv, LockSlotInv, UnlockInv, UnslotInv, LeaveInv

LEMMA GateStutter == GateIInv /\ UNCHANGED gate_vars => GateIInv'
<1> SUFFICES ASSUME GateIInv, UNCHANGED gate_vars PROVE GateIInv'
  OBVIOUS
<1>1. GateTypes'
  BY DEF GateIInv, GateTypes, gate_vars
<1>2. ASSUME NEW d \in Clients PROVE Whole(d)'
  BY OthersKeep DEF gate_vars
<1> QED
  BY <1>1, <1>2 DEF GateIInv, Whole

LEMMA GateInit ==
  ASSUME WaitingStart("gate") \/ WaitingStart("latch")
  PROVE  GateIInv
<1>1. /\ writer_owner = NoOne /\ slot_owner = [p \in Paths |-> NoOne]
      /\ held = [c \in Clients |-> <<>>] /\ slot_depth = [p \in Paths |-> 0]
      /\ writer_depth = 0 /\ seeks = [c \in Clients |-> Txn]
      /\ gpc \in [Clients -> {"idle", "off"}]
  BY DEF WaitingStart
<1>2. GateTypes
  BY <1>1 DEF GateTypes
<1>3. ASSUME NEW c \in Clients PROVE GateInv(c) /\ \A p \in Paths : SlotInv(c, p)
  <2>1. c # NoOne /\ held[c] = <<>> /\ gpc[c] \in {"idle", "off"} /\ Kept(c) = <<>>
    BY <1>1, WaitingAssumption DEF Kept
  <2>2. \A p \in Paths : slot_owner[p] # c /\ Occ(Kept(c), p) = 0
    BY <1>1, <2>1, OccEmpty
  <2> QED
    BY <1>1, <2>1, <2>2 DEF GateInv, SlotInv
<1> QED
  BY <1>2, <1>3 DEF GateIInv

----------------------------------------------------------------------------
(* The steps of the latch                                                  *)

LEMMA LatchInit ==
  ASSUME WaitingStart("gate") \/ WaitingStart("latch")
  PROVE  LatchIInv
<1>1. jpc \in [Parties -> {"get", "off"}] /\ slot = NoOne /\ woken = {}
  BY DEF WaitingStart
<1>2. LatchTypes
  BY <1>1 DEF WaitingStart, LatchTypes
<1>3. Ender \in Parties /\ Joiners \subseteq Parties
  BY DEF Parties
<1>4. OneLatch
  BY <1>1 DEF OneLatch, Inside
<1>5. QueueInv
  <2>1. \A j \in Parties : waitq[j] = {} /\ ~jdone[j]
    BY DEF WaitingStart
  <2> QED
    BY <1>1, <1>3, <2>1 DEF QueueInv
<1> QED
  BY <1>2, <1>4, <1>5 DEF LatchIInv

LEMMA LatchNextInv == LatchIInv /\ LatchNext => LatchIInv'
<1> SUFFICES ASSUME LatchIInv, LatchNext PROVE LatchIInv'
  OBVIOUS
<1> USE DEF LatchIInv, Parties
<1>0. /\ Ender \notin Joiners /\ NoOne \notin Joiners \cup {Ender}
      /\ Ender \in Parties /\ Joiners \subseteq Parties
  BY WaitingAssumption
<1>1. ASSUME NEW t \in Parties, GetJoin(t) PROVE LatchIInv'
  <2>1. LatchTypes'
    BY <1>1 DEF LatchTypes, GetJoin, Step, Inside
  <2>2. OneLatch'
    BY <1>1 DEF LatchTypes, OneLatch, GetJoin, Step, Inside
  <2>3. QueueInv'
    BY <1>0, <1>1 DEF LatchTypes, QueueInv, GetJoin, Step, Inside
  <2> QED
    BY <2>1, <2>2, <2>3
<1>2. ASSUME NEW t \in Parties, PublishJoin(t) PROVE LatchIInv'
  <2>1. LatchTypes'
    BY <1>2 DEF LatchTypes, PublishJoin, Step, Inside
  <2>2. OneLatch'
    BY <1>0, <1>2 DEF LatchTypes, OneLatch, PublishJoin, Step, Inside
  <2>3. QueueInv'
    <3>1. CASE slot = NoOne
      BY <1>0, <1>2, <3>1 DEF LatchTypes, OneLatch, QueueInv, PublishJoin, Step, Inside
    <3>2. CASE slot # NoOne
      BY <1>0, <1>2, <3>2 DEF LatchTypes, OneLatch, QueueInv, PublishJoin, Step, Inside
    <3> QED
      BY <3>1, <3>2
  <2> QED
    BY <2>1, <2>2, <2>3
<1>3. CASE JoinSignal
  <2>1. LatchTypes'
    <3>1. mine[Ender] \in Parties
      BY <1>0, <1>3 DEF LatchTypes, OneLatch, JoinSignal, Inside
    <3>2. woken' \in SUBSET Joiners /\ waitq' \in [Parties -> SUBSET Joiners]
      BY <1>3, <3>1 DEF LatchTypes, JoinSignal
    <3> QED
      BY <1>0, <1>3, <3>2 DEF LatchTypes, JoinSignal, Step, Inside
  <2>2. OneLatch'
    BY <1>0, <1>3 DEF LatchTypes, OneLatch, JoinSignal, Step, Inside
  <2>3. QueueInv'
    BY <1>0, <1>3 DEF LatchTypes, OneLatch, QueueInv, JoinSignal, Step, Inside
  <2> QED
    BY <2>1, <2>2, <2>3
<1>4. CASE JoinWake
  <2>1. LatchTypes'
    BY <1>0, <1>4 DEF LatchTypes, JoinWake, Step, Inside
  <2>2. OneLatch'
    BY <1>0, <1>4 DEF LatchTypes, OneLatch, QueueInv, JoinWake, Step, Inside
  <2>3. QueueInv'
    BY <1>0, <1>4 DEF LatchTypes, OneLatch, QueueInv, JoinWake, Step, Inside
  <2> QED
    BY <2>1, <2>2, <2>3
<1>5. ASSUME NEW t \in Joiners, JoinLook(t) PROVE LatchIInv'
  <2>1. LatchTypes'
    BY <1>5 DEF LatchTypes, JoinLook, Step, Inside
  <2>2. OneLatch'
    BY <1>0, <1>5 DEF LatchTypes, OneLatch, JoinLook, Step, Inside
  <2>3. QueueInv'
    BY <1>0, <1>5 DEF LatchTypes, OneLatch, QueueInv, JoinLook, Step, Inside
  <2> QED
    BY <2>1, <2>2, <2>3
<1>6. ASSUME NEW t \in Joiners, JoinEnqueue(t) PROVE LatchIInv'
  <2>1. LatchTypes'
    <3>1. mine[t] \in Parties
      BY <1>0, <1>6 DEF LatchTypes, OneLatch, JoinEnqueue, Inside
    <3>2. waitq' \in [Parties -> SUBSET Joiners] /\ jlock' \in [Parties -> BOOLEAN]
      <4>1. CASE jdone[mine[t]]
        BY <1>6, <4>1 DEF LatchTypes, JoinEnqueue
      <4>2. CASE ~jdone[mine[t]]
        <5>1. /\ waitq' = [waitq EXCEPT ![mine[t]] = waitq[mine[t]] \cup {t}]
              /\ jlock' = [jlock EXCEPT ![mine[t]] = TRUE]
          BY <1>6, <4>2 DEF JoinEnqueue
        <5> QED
          BY <3>1, <5>1 DEF LatchTypes
      <4> QED
        BY <4>1, <4>2
    <3> QED
      BY <1>0, <1>6, <3>2 DEF LatchTypes, JoinEnqueue, Step, Inside
  <2>2. OneLatch'
    BY <1>0, <1>6 DEF LatchTypes, OneLatch, JoinEnqueue, Step, Inside
  <2>3. QueueInv'
    BY <1>0, <1>6 DEF LatchTypes, OneLatch, QueueInv, JoinEnqueue, Step, Inside
  <2> QED
    BY <2>1, <2>2, <2>3
<1>7. ASSUME NEW t \in Joiners, JoinLeave(t) PROVE LatchIInv'
  <2>1. LatchTypes'
    BY <1>0, <1>7 DEF LatchTypes, JoinLeave, Step, Inside
  <2>2. OneLatch'
    BY <1>0, <1>7 DEF LatchTypes, OneLatch, JoinLeave, Step, Inside
  <2>3. QueueInv'
    BY <1>0, <1>7 DEF LatchTypes, OneLatch, QueueInv, JoinLeave, Step, Inside
  <2> QED
    BY <2>1, <2>2, <2>3
<1> QED
  BY <1>1, <1>2, <1>3, <1>4, <1>5, <1>6, <1>7 DEF LatchNext

LEMMA LatchStutter == LatchIInv /\ UNCHANGED latch_vars => LatchIInv'
BY DEF LatchIInv, LatchTypes, OneLatch, QueueInv, latch_vars

----------------------------------------------------------------------------
(* The theorem                                                             *)

LEMMA WaitingInductive == WaitingSpec => [](GateIInv /\ LatchIInv)
<1>1. WaitingStart("gate") \/ WaitingStart("latch") => GateIInv /\ LatchIInv
  BY GateInit, LatchInit
<1>2. GateIInv /\ LatchIInv /\ [WaitingNext]_waiting_vars => (GateIInv /\ LatchIInv)'
  <2>1. CASE GateNext
    BY <2>1, GateNextInv, LatchStutter DEF GateNext
  <2>2. CASE LatchNext
    BY <2>2, LatchNextInv, GateStutter DEF LatchNext
  <2>3. CASE UNCHANGED waiting_vars
    BY <2>3, GateStutter, LatchStutter DEF waiting_vars
  <2> QED
    BY <2>1, <2>2, <2>3 DEF WaitingNext
<1> QED
  BY <1>1, <1>2, PTL DEF WaitingSpec

\* For any number of clients, stores and nested acquisitions: who holds anything
\* owns the gate alone, the depths are what it holds, and jinn_store_writer_leave
\* refuses nobody; and for any number of joiners of an actor, none stays parked
\* once jinn_join_signal is through.
THEOREM WaitersAreServed == WaitingSpec => []WaitersServed
<1>1. GateIInv => GateHeld
  <2> SUFFICES ASSUME GateIInv, NEW c \in Clients
               PROVE  /\ gpc[c] # "failed"
                      /\ held[c] # <<>> => writer_owner = c
                      /\ gpc[c] = "idle" /\ writer_owner = c => writer_depth = Len(held[c])
                      /\ gpc[c] = "idle" => \A p \in Paths :
                           slot_owner[p] = c <=> \E i \in DOMAIN held[c] : held[c][i] = p
    BY DEF GateHeld
  <2>1. gpc[c] # "failed" /\ GateInv(c)
    BY DEF GateIInv, GateTypes
  <2>2. ASSUME gpc[c] = "idle", NEW p \in Paths
        PROVE  slot_owner[p] = c <=> \E i \in DOMAIN held[c] : held[c][i] = p
    <3>1. SlotInv(c, p) /\ Kept(c) = held[c] /\ held[c] \in Seq(Paths \cup {Txn})
      BY <2>2 DEF GateIInv, GateTypes, Kept
    <3>2. Occ(held[c], p) > 0 <=> \E i \in DOMAIN held[c] : held[c][i] = p
      BY <3>1, OccType
    <3> QED
      BY <2>2, <3>1, <3>2 DEF SlotInv
  <2> QED
    BY <2>1, <2>2 DEF GateInv
<1>2. LatchIInv => JoinersReturn
  <2> SUFFICES ASSUME LatchIInv PROVE JoinersReturn
    OBVIOUS
  <2>1. ASSUME jpc[Ender] = "gone", NEW t \in Joiners PROVE jpc[t] # "parked"
    BY <2>1 DEF LatchIInv, QueueInv
  <2> QED
    BY <2>1 DEF LatchIInv, QueueInv, JoinersReturn
<1> QED
  BY <1>1, <1>2, WaitingInductive, PTL DEF WaitersServed

-----------------------------------------------------------------------------
(* The hash map: the inductive invariant                                   *)

EntryOf == {Filled(k, v) : k \in Keys, v \in Vals}

\* The buckets are as many as the capacity, and an occupied one holds an entry
\* under its own hash.
Shape(m) ==
  /\ m.cap \in Nat /\ m.cap >= 4 /\ m.len \in Nat
  /\ m = [len |-> m.len, cap |-> m.cap, b |-> m.b]
  /\ DOMAIN m.b = Buckets(m)
  /\ m.b = [i \in Buckets(m) |-> m.b[i]]
  /\ \A i \in Buckets(m) : m.b[i].occ \in {0, 1} /\ (m.b[i].occ # 0 => m.b[i] \in EntryOf)

\* The walk from hash h comes to bucket i through occupied buckets only.
Reached(m, h, i) ==
  \E d \in Buckets(m) : After(m, h, d) = i /\ \A e \in 0..(d - 1) : After(m, h, e) \in Occupied(m)

\* Every entry is reached from its hash, and no key is there twice.
Linked(m) ==
  /\ \A i \in Occupied(m) : Reached(m, m.b[i].hash, i)
  /\ \A i, j \in Occupied(m) : m.b[i].key = m.b[j].key => i = j

\* The entries are the pairs of the dictionary.
Stands(m, d) ==
  /\ d = [x \in DOMAIN d |-> d[x]]
  /\ DOMAIN d = {m.b[i].key : i \in Occupied(m)}
  /\ \A i \in Occupied(m) : d[m.b[i].key] = m.b[i].val

\* A bucket stays free.
Counted(m) == m.len = Cardinality(Occupied(m)) /\ m.len < m.cap

Below(m, n) == {i \in Occupied(m) : i < n}
\* Half way through the growth the new table holds the entries passed so far.
GrowInv ==
  /\ growing = [i |-> growing.i, key |-> growing.key, val |-> growing.val, t |-> growing.t]
  /\ growing.key \in Keys /\ growing.val \in Vals /\ growing.i \in 0..map.cap
  /\ Shape(growing.t) /\ growing.t.cap = 2 * map.cap /\ growing.t.len = map.len
  /\ Cardinality(Occupied(growing.t)) = Cardinality(Below(map, growing.i))
  /\ broken = 0 =>
       /\ Linked(growing.t)
       /\ {growing.t.b[j] : j \in Occupied(growing.t)} = {map.b[i] : i \in Below(map, growing.i)}

MapInv ==
  /\ Shape(map) /\ Counted(map) /\ broken \in Nat
  /\ Busy => GrowInv
  /\ broken = 0 => Linked(map) /\ Stands(map, dict)

-----------------------------------------------------------------------------
(* Walks *)

\* Two different numbers below n are n or more apart when added to h.
LEMMA SumsApart ==
  ASSUME NEW n \in Nat \ {0}, NEW h \in Nat, NEW d \in 0..(n - 1), NEW e \in 0..(n - 1),
         (h + d) % n = (h + e) % n
  PROVE  d = e
<1>1. d < e => (h + d) % n # (h + e) % n
  <2>1. h + d \in Nat /\ h + e \in Nat /\ (d < e => h + d < h + e /\ (h + e) - (h + d) < n)
    OBVIOUS
  <2> QED
    BY <2>1, SlotsApart
<1>2. e < d => (h + e) % n # (h + d) % n
  <2>1. h + d \in Nat /\ h + e \in Nat /\ (e < d => h + e < h + d /\ (h + d) - (h + e) < n)
    OBVIOUS
  <2> QED
    BY <2>1, SlotsApart
<1> QED
  BY <1>1, <1>2

\* A remainder is told by its range and a multiple.
LEMMA RemainderIs ==
  ASSUME NEW n \in Nat \ {0}, NEW q \in Int, NEW r \in 0..(n - 1)
  PROVE  (n * q + r) % n = r
<1> DEFINE x == n * q + r
           p == x \div n
<1>1. x \in Int /\ p \in Int /\ x % n \in 0..(n - 1)
  OBVIOUS
<1>2. x = n * p + (x % n)
  BY <1>1
<1>3. n * (q - p) = (x % n) - r
  BY <1>1, <1>2
<1>4. q - p >= 1 => n * (q - p) >= n
  BY <1>1, Multiples
<1>5. p - q >= 1 => n * (p - q) >= n
  BY <1>1, Multiples
<1>6. n * (p - q) = r - (x % n)
  BY <1>1, <1>2
<1>7. q = p
  BY <1>1, <1>3, <1>4, <1>5, <1>6
<1>8. n * (q - p) = 0
  BY <1>1, <1>7
<1> QED
  BY <1>1, <1>3, <1>8

\* Every number below n is the remainder of h and a number below n.
LEMMA SumsReach ==
  ASSUME NEW n \in Nat \ {0}, NEW h \in Nat, NEW i \in 0..(n - 1)
  PROVE  \E d \in 0..(n - 1) : (h + d) % n = i
<1> DEFINE r == h % n
           q == h \div n
<1>1. q \in Int /\ r \in 0..(n - 1)
  OBVIOUS
<1>2. h = n * q + r
  OBVIOUS
<1> HIDE DEF q, r
<1>3. CASE i >= r
  <2>1. i - r \in 0..(n - 1) /\ h + (i - r) = n * q + i
    BY <1>1, <1>2, <1>3
  <2>2. (n * q + i) % n = i
    BY <1>1, RemainderIs
  <2> QED
    BY <2>1, <2>2
<1>4. CASE i < r
  <2>1. n + i - r \in 0..(n - 1)
    BY <1>1, <1>4
  <2>2. n * (q + 1) = n * q + n
    BY <1>1
  <2>3. h + (n + i - r) = n * (q + 1) + i
    BY <1>1, <1>2, <2>2
  <2>4. (n * (q + 1) + i) % n = i
    BY <1>1, RemainderIs
  <2> QED
    BY <2>1, <2>3, <2>4
<1> QED
  BY <1>1, <1>3, <1>4

\* The capacity is a positive number.
LEMMA CapIs == \A m : Shape(m) => m.cap \in Nat \ {0} /\ Buckets(m) = 0..(m.cap - 1)
BY DEF Shape, Buckets

\* Two walks from one hash, both shorter than the table, end at different
\* buckets.
LEMMA WalksApart ==
  ASSUME NEW m, Shape(m), NEW h \in Nat, NEW d \in Buckets(m), NEW e \in Buckets(m),
         After(m, h, d) = After(m, h, e)
  PROVE  d = e
BY CapIs, SumsApart DEF After

\* Every bucket lies on the walk from every hash.
LEMMA WalkGoesRound ==
  ASSUME NEW m, Shape(m), NEW h \in Nat, NEW i \in Buckets(m)
  PROVE  \E d \in Buckets(m) : After(m, h, d) = i
<1>1. \E d \in 0..(m.cap - 1) : (h + d) % m.cap = i
  BY CapIs, SumsReach
<1> QED
  BY <1>1, CapIs DEF After

\* A walk stays within the buckets.
LEMMA WalkType ==
  ASSUME NEW m, Shape(m), NEW h \in Nat, NEW d \in Nat
  PROVE  After(m, h, d) \in Buckets(m)
BY DEF After, Shape, Buckets

\* The first bucket of S on a walk is in S, and none before it is.
LEMMA FirstFacts ==
  ASSUME NEW m, Shape(m), NEW h \in Nat, NEW S \in SUBSET Buckets(m), S # {}
  PROVE  /\ FirstOf(m, h, S) \in S
         /\ \E d \in Buckets(m) : /\ After(m, h, d) = FirstOf(m, h, S)
                                  /\ \A e \in 0..(d - 1) : After(m, h, e) \notin S
<1> DEFINE D == {d \in Buckets(m) : After(m, h, d) \in S}
<1>1. D # {} /\ D \subseteq Nat
  <2>1. PICK i \in S : i \in Buckets(m)
    OBVIOUS
  <2>2. \E d \in Buckets(m) : After(m, h, d) = i
    BY <2>1, WalkGoesRound
  <2>3. Buckets(m) \subseteq Nat
    BY CapIs
  <2> QED
    BY <2>1, <2>2, <2>3
<1>2. PICK d \in D : \A e \in D : d <= e
  <2> HIDE DEF D
  <2>1. PICK d \in D : \A e \in D : ~(<<e, d>> \in OpToRel(<, Nat))
    BY <1>1, NatLessThanWellFounded, WFMin, Zenon
  <2>2. \A e, f \in Nat : e < f => <<e, f>> \in OpToRel(<, Nat)
    BY DEF OpToRel
  <2>3. \A e \in D : e \in Nat /\ d \in Nat /\ ~(e < d)
    BY <1>1, <2>1, <2>2
  <2>4. \A e \in D : d <= e
    BY <2>3
  <2> QED
    BY <2>1, <2>4
<1>3. FirstOf(m, h, S) = After(m, h, CHOOSE f \in D : \A e \in D : f <= e)
  BY <1>1 DEF FirstOf
<1>4. \A f \in D : (\A e \in D : f <= e) => f = d
  BY <1>1, <1>2
<1>5. (CHOOSE f \in D : \A e \in D : f <= e) = d
  <2> HIDE DEF D
  <2> QED BY <1>2, <1>4
<1>6. \A e \in 0..(d - 1) : After(m, h, e) \notin S
  BY <1>1, <1>2 DEF Buckets, Shape
<1> QED
  BY <1>2, <1>3, <1>5, <1>6
-----------------------------------------------------------------------------
(* Tables *)

\* What an occupied bucket holds.
LEMMA EntryFacts ==
  ASSUME NEW e \in EntryOf
  PROVE  e = Filled(e.key, e.val) /\ e.occ = 1 /\ e.key \in Keys /\ e.val \in Vals
         /\ e.hash = Hash(e.key) /\ e.hash \in Nat
BY MapAssumption DEF EntryOf, Filled

\* The occupied and the free buckets of a table.
LEMMA TableFacts ==
  ASSUME NEW m, Shape(m)
  PROVE  /\ \A i \in Occupied(m) : i \in Buckets(m) /\ m.b[i] \in EntryOf
         /\ Buckets(m) = Occupied(m) \cup Vacant(m) /\ Occupied(m) \cap Vacant(m) = {}
         /\ \A k \in Keys : Holding(m, k) = {i \in Occupied(m) : m.b[i].key = k}
<1>1. \A i \in Occupied(m) : i \in Buckets(m) /\ m.b[i] \in EntryOf
  BY DEF Shape, Occupied
<1>2. \A i \in Occupied(m), k \in Keys : m.b[i].key = k => m.b[i].hash = Hash(k)
  BY <1>1, EntryFacts
<1> QED
  BY <1>1, <1>2 DEF Occupied, Vacant, Holding

\* There are finitely many buckets, and if not all are occupied one is free.
LEMMA TableSizes ==
  ASSUME NEW m, Shape(m)
  PROVE  /\ IsFiniteSet(Occupied(m)) /\ Cardinality(Occupied(m)) \in Nat
         /\ Cardinality(Occupied(m)) < m.cap => Vacant(m) # {}
<1>1. m.cap - 1 \in Int /\ m.cap \in Nat \ {0} /\ Buckets(m) = 0..(m.cap - 1)
  BY CapIs
<1>2. IsFiniteSet(Buckets(m)) /\ Cardinality(Buckets(m)) = m.cap
  <2>1. \A c \in Nat \ {0} : IsFiniteSet(0..(c - 1)) /\ Cardinality(0..(c - 1)) = c
    BY FS_Interval
  <2> QED
    BY <1>1, <2>1
<1>3. Occupied(m) \subseteq Buckets(m)
  BY DEF Occupied
<1>4. IsFiniteSet(Occupied(m)) /\ Cardinality(Occupied(m)) \in Nat
  BY <1>2, <1>3, FS_Subset, FS_CardinalityType
<1>5. Vacant(m) = {} => Occupied(m) = Buckets(m)
  BY <1>3 DEF Vacant
<1> QED
  BY <1>1, <1>2, <1>4, <1>5

\* A probe ends at a free bucket or at one that holds the key, and what it has
\* passed is occupied by other keys.
LEMMA ProbeFacts ==
  ASSUME NEW m, Shape(m), Cardinality(Occupied(m)) < m.cap, NEW k \in Keys
  PROVE  /\ map_probe(m, k) \in Vacant(m) \cup Holding(m, k)
         /\ \E d \in Buckets(m) :
              /\ After(m, Hash(k), d) = map_probe(m, k)
              /\ \A e \in 0..(d - 1) : After(m, Hash(k), e) \in Occupied(m) \ Holding(m, k)
<1> DEFINE S == Vacant(m) \cup Holding(m, k)
           h == Hash(k)
<1>1. S \in SUBSET Buckets(m) /\ S # {} /\ h \in Nat
  BY TableFacts, TableSizes, MapAssumption DEF Holding
<1>2. map_probe(m, k) = FirstOf(m, h, S)
  BY DEF map_probe
<1> HIDE DEF S, h
<1>3. FirstOf(m, h, S) \in S
  BY <1>1, FirstFacts
<1>4. PICK d \in Buckets(m) : After(m, h, d) = FirstOf(m, h, S) /\ \A e \in 0..(d - 1) : After(m, h, e) \notin S
  BY <1>1, FirstFacts
<1>5. \A e \in 0..(d - 1) : After(m, h, e) \in Buckets(m)
  <2>1. \A e \in 0..(d - 1) : e \in Nat
    BY <1>4, CapIs
  <2> QED
    BY <1>1, <2>1, WalkType
<1>6. \A e \in 0..(d - 1) : After(m, h, e) \in Occupied(m) \ Holding(m, k)
  BY <1>4, <1>5, TableFacts DEF S
<1> QED
  BY <1>2, <1>3, <1>4, <1>6 DEF S, h

\* A key that is in a table without cut sequences is found where it is.
LEMMA ProbeFinds ==
  ASSUME NEW m, Shape(m), Cardinality(Occupied(m)) < m.cap, Linked(m),
         NEW i \in Occupied(m)
  PROVE  map_probe(m, m.b[i].key) = i /\ i \in Holding(m, m.b[i].key)
<1> DEFINE k == m.b[i].key
<1>1. k \in Keys /\ m.b[i].hash = Hash(k) /\ Hash(k) \in Nat
  <2>1. m.b[i] \in EntryOf
    BY TableFacts
  <2> QED
    BY <2>1, EntryFacts, MapAssumption
<1>2. i \in Holding(m, k)
  BY <1>1 DEF Holding
<1>3. \A j \in Holding(m, k) : j = i
  BY DEF Linked, Holding
<1>4. PICK d \in Buckets(m) :
        /\ After(m, Hash(k), d) = map_probe(m, k)
        /\ \A e \in 0..(d - 1) : After(m, Hash(k), e) \in Occupied(m) \ Holding(m, k)
  BY <1>1, ProbeFacts
<1>5. PICK f \in Buckets(m) :
        After(m, Hash(k), f) = i /\ \A e \in 0..(f - 1) : After(m, Hash(k), e) \in Occupied(m)
  BY <1>1 DEF Linked, Reached
<1>6. d \in Nat /\ f \in Nat
  BY CapIs
<1>7. ~(f < d)
  <2>1. f < d => f \in 0..(d - 1)
    BY <1>6
  <2> QED
    BY <1>2, <1>4, <1>5, <2>1
<1>8. CASE d < f
  <2>1. After(m, Hash(k), d) \in Occupied(m)
    BY <1>5, <1>6, <1>8
  <2>2. map_probe(m, k) \in Vacant(m) \cup Holding(m, k)
    BY <1>1, ProbeFacts
  <2>3. map_probe(m, k) \in Holding(m, k)
    BY <1>4, <2>1, <2>2, TableFacts
  <2> QED
    BY <1>2, <1>3, <2>3
<1>9. CASE d = f
  BY <1>2, <1>4, <1>5, <1>9
<1> QED
  BY <1>6, <1>7, <1>8, <1>9

\* A key that is not in the table leads to a free bucket.
LEMMA ProbeMisses ==
  ASSUME NEW m, Shape(m), Cardinality(Occupied(m)) < m.cap, NEW k \in Keys,
         map_probe(m, k) \notin Holding(m, k)
  PROVE  map_probe(m, k) \in Vacant(m) /\ Reached(m, Hash(k), map_probe(m, k))
BY ProbeFacts DEF Reached

-----------------------------------------------------------------------------
(* Changing one bucket                                                     *)

\* The table n is m with entry e in bucket i.
Wrote(m, n, i, e) ==
  /\ i \in Buckets(m) /\ e \in EntryOf /\ n.len \in Nat
  /\ n = [len |-> n.len, cap |-> m.cap, b |-> [m.b EXCEPT ![i] = e]]

\* What a written entry leaves as it was.
LEMMA WriteEntry ==
  ASSUME NEW m, Shape(m), NEW n, NEW i, NEW e, Wrote(m, n, i, e)
  PROVE  /\ Shape(n) /\ n.cap = m.cap /\ Buckets(n) = Buckets(m)
         /\ Occupied(n) = Occupied(m) \cup {i} /\ Occupied(m) \subseteq Buckets(m)
         /\ n.b[i] = e /\ \A j \in Buckets(m) : j # i => n.b[j] = m.b[j]
         /\ i \in Vacant(m) => Cardinality(Occupied(n)) = Cardinality(Occupied(m)) + 1
<1>1. n.cap = m.cap /\ n.b = [m.b EXCEPT ![i] = e] /\ Buckets(n) = Buckets(m) /\ i \in DOMAIN m.b
  BY DEF Wrote, Buckets, Shape
<1>2. n.b[i] = e /\ (\A j \in Buckets(m) : j # i => n.b[j] = m.b[j]) /\ DOMAIN n.b = Buckets(m)
  BY <1>1 DEF Shape
<1>3. e.occ = 1
  BY EntryFacts DEF Wrote
<1>4. Shape(n)
  <2>1. n.b = [j \in Buckets(n) |-> n.b[j]]
    BY <1>1, <1>2 DEF Shape
  <2>2. \A j \in Buckets(n) : n.b[j].occ \in {0, 1} /\ (n.b[j].occ # 0 => n.b[j] \in EntryOf)
    BY <1>1, <1>2, <1>3 DEF Shape, Wrote
  <2>3. n = [len |-> n.len, cap |-> n.cap, b |-> n.b]
    BY <1>1 DEF Wrote
  <2> QED
    BY <1>1, <1>2, <2>1, <2>2, <2>3 DEF Shape, Wrote
<1>5. Occupied(n) = Occupied(m) \cup {i} /\ Occupied(m) \subseteq Buckets(m)
  BY <1>1, <1>2, <1>3 DEF Occupied, Wrote
<1>6. i \in Vacant(m) => Cardinality(Occupied(n)) = Cardinality(Occupied(m)) + 1
  BY <1>5, TableSizes, FS_AddElement DEF Vacant
<1> QED
  BY <1>1, <1>2, <1>4, <1>5, <1>6

\* A table that has more occupied buckets is walked no less far.
LEMMA StillReached ==
  ASSUME NEW m, NEW n, n.cap = m.cap, Occupied(m) \subseteq Occupied(n), NEW h, NEW i, Reached(m, h, i)
  PROVE  Reached(n, h, i)
BY DEF Reached, After, Buckets

\* An entry that is written where its walk comes to, under a key that no other
\* bucket holds, leaves the table linked.
LEMMA WriteLinked ==
  ASSUME NEW m, Shape(m), NEW n, NEW i, NEW e, Wrote(m, n, i, e), Linked(m),
         Reached(m, e.hash, i),
         \A j \in Occupied(m) : j # i => m.b[j].key # e.key
  PROVE  Linked(n)
<1>1. /\ n.cap = m.cap /\ Occupied(n) = Occupied(m) \cup {i} /\ Occupied(m) \subseteq Buckets(m)
      /\ n.b[i] = e /\ \A j \in Buckets(m) : j # i => n.b[j] = m.b[j]
  BY WriteEntry
<1>2. ASSUME NEW j \in Occupied(n) PROVE Reached(n, n.b[j].hash, j)
  <2>1. CASE j = i
    <3>1. Reached(n, e.hash, i)
      BY <1>1, StillReached
    <3> QED
      BY <1>1, <2>1, <3>1
  <2>2. CASE j # i
    <3>1. j \in Occupied(m) /\ n.b[j] = m.b[j]
      BY <1>1, <1>2, <2>2
    <3>2. Reached(m, m.b[j].hash, j)
      BY <3>1 DEF Linked
    <3>3. Reached(n, m.b[j].hash, j)
      BY <1>1, <3>2, StillReached
    <3> QED
      BY <3>1, <3>3
  <2> QED
    BY <2>1, <2>2
<1>3. ASSUME NEW x \in Occupied(n), NEW y \in Occupied(n), n.b[x].key = n.b[y].key PROVE x = y
  <2>1. \A j \in Occupied(n) : j # i => j \in Occupied(m) /\ n.b[j] = m.b[j]
    BY <1>1
  <2> QED
    BY <1>1, <1>3, <2>1 DEF Linked
<1> QED
  BY <1>2, <1>3 DEF Linked

\* The dictionary of the table after a write.
LEMMA WriteStands ==
  ASSUME NEW m, Shape(m), NEW n, NEW i, NEW e, Wrote(m, n, i, e), NEW d, Stands(m, d),
         i \in Occupied(m) => m.b[i].key = e.key,
         \A j \in Occupied(m) : j # i => m.b[j].key # e.key
  PROVE  Stands(n, Updated(d, e.key, e.val))
<1> DEFINE u == Updated(d, e.key, e.val)
<1>1. /\ Occupied(n) = Occupied(m) \cup {i} /\ Occupied(m) \subseteq Buckets(m)
      /\ n.b[i] = e /\ \A j \in Buckets(m) : j # i => n.b[j] = m.b[j]
  BY WriteEntry
<1>2. DOMAIN u = DOMAIN d \cup {e.key} /\ u[e.key] = e.val /\ u = [x \in DOMAIN u |-> u[x]]
      /\ \A x \in DOMAIN d : x # e.key => u[x] = d[x]
  BY DEF Updated
<1> HIDE DEF u
<1>3. \A j \in Occupied(n) : j = i \/ (j \in Occupied(m) /\ n.b[j] = m.b[j] /\ m.b[j].key # e.key)
  BY <1>1
<1>4. \A j \in Occupied(m) : m.b[j].key \in DOMAIN d /\ d[m.b[j].key] = m.b[j].val
  BY DEF Stands
<1>5. DOMAIN u = {n.b[j].key : j \in Occupied(n)}
  <2>1. \A x \in DOMAIN u : \E j \in Occupied(n) : n.b[j].key = x
    <3> TAKE x \in DOMAIN u
    <3>1. CASE x = e.key
      BY <1>1, <3>1
    <3>2. CASE x # e.key
      <4>1. PICK j \in Occupied(m) : m.b[j].key = x
        BY <1>2, <3>2 DEF Stands
      <4>2. j # i
        BY <3>2, <4>1
      <4> QED
        BY <1>1, <4>1, <4>2
    <3> QED
      BY <3>1, <3>2
  <2>2. \A j \in Occupied(n) : n.b[j].key \in DOMAIN u
    BY <1>1, <1>2, <1>3, <1>4
  <2> QED
    BY <2>1, <2>2
<1>6. \A j \in Occupied(n) : u[n.b[j].key] = n.b[j].val
  BY <1>1, <1>2, <1>3, <1>4
<1> QED
  BY <1>2, <1>5, <1>6 DEF Stands, u

\* An entry whose value is replaced.
LEMMA ValueReplaced ==
  ASSUME NEW h, NEW k, NEW w, NEW v, NEW e, e = [occ |-> 1, hash |-> h, key |-> k, val |-> w]
  PROVE  [e EXCEPT !.val = v] = [occ |-> 1, hash |-> h, key |-> k, val |-> v]
OBVIOUS

\* Put into a table that has room keeps everything, and the dictionary follows.
LEMMA PutFacts ==
  ASSUME NEW m, Shape(m), m.len = Cardinality(Occupied(m)), m.len + 1 < m.cap,
         NEW k \in Keys, NEW v \in Vals
  PROVE  /\ Shape(Put(m, k, v)) /\ Counted(Put(m, k, v)) /\ Put(m, k, v).cap = m.cap
         /\ \A d : Linked(m) /\ Stands(m, d) =>
              Linked(Put(m, k, v)) /\ Stands(Put(m, k, v), Updated(d, k, v))
<1> DEFINE i == map_probe(m, k)
           n == Put(m, k, v)
           e == Filled(k, v)
<1>1. m.cap \in Nat /\ m.len \in Nat /\ m.len < m.cap /\ m = [len |-> m.len, cap |-> m.cap, b |-> m.b]
      /\ DOMAIN m.b = Buckets(m)
  BY DEF Shape
<1>2. e \in EntryOf /\ e.key = k /\ e.val = v /\ e.hash = Hash(k)
  <2>1. e \in EntryOf
    BY DEF EntryOf
  <2> QED
    BY <2>1 DEF Filled
<1>3. CASE i \in Holding(m, k)
  <2>1. i \in Occupied(m) /\ m.b[i] \in EntryOf /\ m.b[i].key = k /\ i \in Buckets(m)
    BY <1>3, TableFacts DEF Holding
  <2>2. [m.b[i] EXCEPT !.val = v] = e
    <3>1. m.b[i] = Filled(k, m.b[i].val)
      BY <2>1, EntryFacts
    <3>2. m.b[i] = [occ |-> 1, hash |-> Hash(k), key |-> k, val |-> m.b[i].val]
          /\ e = [occ |-> 1, hash |-> Hash(k), key |-> k, val |-> v]
      BY <3>1 DEF Filled
    <3> QED
      BY <3>2, ValueReplaced
  <2>3. n = [m EXCEPT !.b[i].val = v]
    BY <1>3 DEF Put
  <2>4. n.b = [m.b EXCEPT ![i] = e] /\ n.len = m.len /\ n = [len |-> m.len, cap |-> m.cap, b |-> n.b]
    BY <1>1, <2>1, <2>2, <2>3
  <2> HIDE DEF n, e
  <2>5. Wrote(m, n, i, e)
    BY <1>1, <1>2, <2>1, <2>4 DEF Wrote
  <2>6. Occupied(m) \cup {i} = Occupied(m)
    BY <2>1
  <2>7. Shape(n) /\ Counted(n) /\ n.cap = m.cap
    <3>1. Shape(n) /\ n.cap = m.cap /\ Occupied(n) = Occupied(m)
      BY <2>5, <2>6, WriteEntry
    <3> QED
      BY <1>1, <2>4, <3>1 DEF Counted
  <2>8. ASSUME NEW d, Linked(m), Stands(m, d) PROVE Linked(n) /\ Stands(n, Updated(d, k, v))
    <3>1. Reached(m, e.hash, i)
      BY <1>2, <1>3, <2>8 DEF Linked, Holding
    <3>2. \A j \in Occupied(m) : j # i => m.b[j].key # e.key
      BY <1>2, <2>1, <2>8 DEF Linked
    <3>3. Linked(n)
      BY <2>5, <2>8, <3>1, <3>2, WriteLinked
    <3> QED
      BY <1>2, <2>1, <2>5, <2>8, <3>2, <3>3, WriteStands
  <2> QED
    BY <2>7, <2>8 DEF n
<1>4. CASE i \notin Holding(m, k)
  <2>1. i \in Vacant(m) /\ Reached(m, Hash(k), i) /\ i \in Buckets(m)
    BY <1>1, <1>4, ProbeMisses, TableFacts
  <2>2. n = [m EXCEPT !.b[i] = e, !.len = @ + 1]
    BY <1>4 DEF Put
  <2>3. n.b = [m.b EXCEPT ![i] = e] /\ n.len = m.len + 1 /\ n = [len |-> m.len + 1, cap |-> m.cap, b |-> n.b]
    BY <1>1, <2>1, <2>2
  <2> HIDE DEF n, e
  <2>4. Wrote(m, n, i, e)
    BY <1>1, <1>2, <2>1, <2>3 DEF Wrote
  <2>5. Shape(n) /\ Counted(n) /\ n.cap = m.cap
    BY <1>1, <2>1, <2>3, <2>4, WriteEntry DEF Counted
  <2>6. ASSUME NEW d, Linked(m), Stands(m, d) PROVE Linked(n) /\ Stands(n, Updated(d, k, v))
    <3>1. \A j \in Occupied(m) : m.b[j].key # e.key
      <4>1. SUFFICES ASSUME NEW j \in Occupied(m), m.b[j].key = k PROVE FALSE
        BY <1>2
      <4>2. i = j /\ j \in Holding(m, k)
        BY <1>1, <2>6, <4>1, ProbeFinds
      <4> QED
        BY <1>4, <4>2
    <3>2. Linked(n)
      BY <1>2, <2>1, <2>4, <2>6, <3>1, WriteLinked
    <3>3. i \notin Occupied(m)
      BY <2>1 DEF Vacant
    <3>4. Stands(n, Updated(d, e.key, e.val))
      BY <2>4, <2>6, <3>1, <3>3, WriteStands
    <3> QED
      BY <1>2, <3>2, <3>4
  <2> QED
    BY <2>5, <2>6 DEF n
<1> QED
  BY <1>3, <1>4

-----------------------------------------------------------------------------
(* The operations                                                          *)

\* An empty table.
LEMMA ZeroedFacts ==
  ASSUME NEW m, NEW c \in Nat, c >= 4, NEW l \in Nat, m = [len |-> l, cap |-> c, b |-> Zeroed(c)]
  PROVE  Shape(m) /\ Occupied(m) = {} /\ Linked(m) /\ m.cap = c /\ m.len = l
<1>1. m.cap = c /\ m.len = l /\ m.b = Zeroed(c) /\ Buckets(m) = 0..(c - 1)
  BY DEF Buckets
<1>2. \A i \in 0..(c - 1) : m.b[i].occ = 0
  BY <1>1 DEF Zeroed
<1>3. Occupied(m) = {}
  BY <1>1, <1>2 DEF Occupied
<1>4. DOMAIN m.b = Buckets(m) /\ m.b = [i \in Buckets(m) |-> m.b[i]]
  BY <1>1 DEF Zeroed
<1>5. Shape(m)
  BY <1>1, <1>2, <1>4 DEF Shape
<1> QED
  BY <1>1, <1>3, <1>5 DEF Linked

\* The dictionary that a program starts with stands for an empty table.
LEMMA EmptyStands ==
  ASSUME NEW m, Occupied(m) = {}, NEW d, d = [x \in {} |-> 0]
  PROVE  Stands(m, d)
BY DEF Stands

\* A new map satisfies the invariant.
LEMMA MapInitInv == MapInit => MapInv
<1> SUFFICES ASSUME MapInit PROVE MapInv
  OBVIOUS
<1>1. map = [len |-> 0, cap |-> MapInitCap, b |-> Zeroed(MapInitCap)]
  BY DEF MapInit, MapStart, compile_map_new
<1>2. MapInitCap \in Nat /\ MapInitCap >= 4
  BY MapAssumption
<1>3. Shape(map) /\ Occupied(map) = {} /\ Linked(map) /\ map.cap = MapInitCap /\ map.len = 0
  BY <1>1, <1>2, ZeroedFacts
<1>4. Stands(map, dict)
  BY <1>3, EmptyStands DEF MapInit, MapStart
<1>5. Counted(map)
  BY <1>2, <1>3, FS_EmptySet DEF Counted
<1>6. ~Busy /\ broken = 0
  BY DEF MapInit, MapStart, Busy, NotGrowing
<1> QED
  BY <1>3, <1>4, <1>5, <1>6 DEF MapInv

\* Whatever follows a cut sequence, it stays cut.
LEMMA LaterFacts == broken \in Nat /\ Later => broken' \in Nat /\ (broken' = 0 => broken = 0)
BY DEF Later

\* What the start of the growth leaves: an empty table of twice the size.
LEMMA GrowthStarts ==
  ASSUME MapInv, NEW k \in Keys, NEW v \in Vals, map_set_val(k, v), Loaded(map)
  PROVE  MapInv'
<1> DEFINE t == [len |-> map.len, cap |-> 2 * map.cap, b |-> Zeroed(2 * map.cap)]
<1>1. /\ growing' = [i |-> 0, key |-> k, val |-> v, t |-> t]
      /\ map' = map /\ dict' = dict /\ Later
  BY DEF map_set_val
<1>2. map.cap \in Nat /\ map.cap >= 4 /\ map.len \in Nat /\ broken \in Nat
  BY DEF MapInv, Shape
<1>3. Shape(t) /\ Occupied(t) = {} /\ Linked(t) /\ t.cap = 2 * map.cap /\ t.len = map.len
  BY <1>2, ZeroedFacts
<1> HIDE DEF t
<1>4. Below(map, 0) = {}
  BY DEF Below, Occupied, Buckets
<1>5. GrowInv'
  BY <1>1, <1>2, <1>3, <1>4 DEF GrowInv
<1> QED
  BY <1>1, <1>2, <1>5, LaterFacts DEF MapInv

\* An insertion into a table below the load limit.
LEMMA SetInv ==
  ASSUME MapInv, NEW k \in Keys, NEW v \in Vals, map_set_val(k, v), ~Loaded(map)
  PROVE  MapInv'
<1>1. map' = Put(map, k, v) /\ dict' = Updated(dict, k, v) /\ growing' = growing /\ Later /\ ~Busy
  BY DEF map_set_val
<1>2. Shape(map) /\ map.len = Cardinality(Occupied(map)) /\ map.len + 1 < map.cap /\ broken \in Nat
  BY DEF MapInv, Shape, Counted, Loaded
<1>3. Shape(map') /\ Counted(map') /\ (Linked(map) /\ Stands(map, dict) => Linked(map') /\ Stands(map', dict'))
  BY <1>1, <1>2, PutFacts
<1>4. ~Busy'
  BY <1>1 DEF Busy
<1> QED
  BY <1>1, <1>2, <1>3, <1>4, LaterFacts DEF MapInv

\* What the loop passes next.
LEMMA BelowFacts ==
  ASSUME NEW m, Shape(m), NEW n \in 0..(m.cap - 1)
  PROVE  /\ m.b[n].occ # 0 => Below(m, n + 1) = Below(m, n) \cup {n} /\ n \in Occupied(m)
                          /\ Cardinality(Below(m, n + 1)) = Cardinality(Below(m, n)) + 1
         /\ m.b[n].occ = 0 => Below(m, n + 1) = Below(m, n)
         /\ Cardinality(Below(m, n)) \in Nat /\ Cardinality(Below(m, n)) <= Cardinality(Occupied(m))
         /\ n \notin Below(m, n)
<1>1. IsFiniteSet(Occupied(m)) /\ Below(m, n) \subseteq Occupied(m)
  BY TableSizes DEF Below
<1>2. IsFiniteSet(Below(m, n)) /\ Cardinality(Below(m, n)) \in Nat
      /\ Cardinality(Below(m, n)) <= Cardinality(Occupied(m))
  BY <1>1, FS_Subset, FS_CardinalityType
<1>3. n \in Buckets(m) /\ n \notin Below(m, n) /\ \A j \in Buckets(m) : j < n + 1 <=> j < n \/ j = n
  BY CapIs DEF Below
<1>4. ASSUME m.b[n].occ # 0
      PROVE  Below(m, n + 1) = Below(m, n) \cup {n} /\ n \in Occupied(m)
  BY <1>3, <1>4 DEF Below, Occupied
<1>5. ASSUME m.b[n].occ = 0
      PROVE  Below(m, n + 1) = Below(m, n)
  BY <1>3, <1>5 DEF Below, Occupied
<1>6. Cardinality(Below(m, n) \cup {n}) = Cardinality(Below(m, n)) + 1
  BY <1>2, <1>3, FS_AddElement
<1> QED
  BY <1>2, <1>3, <1>4, <1>5, <1>6

\* What one round of the loop changes.
LEMMA RoundPassed ==
  ASSUME NEW k, NEW v, NEW i, NEW j, NEW t, NEW u, NEW g,
         g = [i |-> i, key |-> k, val |-> v, t |-> t]
  PROVE  [g EXCEPT !.i = j, !.t = u] = [i |-> j, key |-> k, val |-> v, t |-> u]
<1> DEFINE r == [g EXCEPT !.i = j]
<1>1. r = [i |-> j, key |-> k, val |-> v, t |-> t]
  OBVIOUS
<1>2. [g EXCEPT !.i = j, !.t = u] = [r EXCEPT !.t = u]
  OBVIOUS
<1> HIDE DEF r
<1> QED
  BY <1>1, <1>2

\* One bucket of the old table passed.
LEMMA RehashInv == MapInv /\ map_grow => MapInv'
<1> SUFFICES ASSUME MapInv, map_grow PROVE MapInv'
  OBVIOUS
<1> DEFINE n == growing.i
           t == growing.t
           e == map.b[n]
           t2 == IF e.occ # 0 THEN Rehash(t, e) ELSE t
<1>1. GrowInv /\ Shape(map) /\ Counted(map) /\ n < map.cap
  BY DEF MapInv, map_grow
<1>2. /\ n \in 0..(map.cap - 1) /\ n + 1 \in 0..map.cap
      /\ growing' = [i |-> n + 1, key |-> growing.key, val |-> growing.val, t |-> t2]
  <2>1. growing' = [growing EXCEPT !.i = n + 1, !.t = t2]
    BY DEF map_grow
  <2>2. growing = [i |-> n, key |-> growing.key, val |-> growing.val, t |-> t]
    BY <1>1 DEF GrowInv
  <2> HIDE DEF t2, t, n
  <2>3. growing' = [i |-> n + 1, key |-> growing.key, val |-> growing.val, t |-> t2]
    BY <2>1, <2>2, RoundPassed
  <2> QED
    BY <1>1, <2>3, CapIs DEF GrowInv, n
<1>3. map' = map /\ dict' = dict /\ broken' = broken
  BY DEF map_grow
<1>4. /\ Shape(t) /\ t.cap = 2 * map.cap /\ t.len = map.len
      /\ Cardinality(Occupied(t)) = Cardinality(Below(map, n))
      /\ growing.key \in Keys /\ growing.val \in Vals
  BY <1>1 DEF GrowInv
<1>5. broken = 0 => /\ Linked(t) /\ Linked(map)
                    /\ {t.b[j] : j \in Occupied(t)} = {map.b[i] : i \in Below(map, n)}
  BY <1>1 DEF GrowInv, MapInv
<1>6. /\ Shape(t2) /\ t2.cap = 2 * map.cap /\ t2.len = map.len
      /\ Cardinality(Occupied(t2)) = Cardinality(Below(map, n + 1))
      /\ broken = 0 => /\ Linked(t2)
                       /\ {t2.b[j] : j \in Occupied(t2)} = {map.b[i] : i \in Below(map, n + 1)}
  <2> HIDE DEF n, t
  <2>1. CASE e.occ = 0
    <3>1. t2 = t /\ Below(map, n + 1) = Below(map, n)
      BY <1>1, <1>2, <2>1, BelowFacts
    <3> QED
      BY <1>4, <1>5, <3>1
  <2>2. CASE e.occ # 0
    <3> DEFINE j == FirstOf(t, e.hash, Vacant(t))
    <3>1. /\ Below(map, n + 1) = Below(map, n) \cup {n} /\ n \in Occupied(map) /\ n \notin Below(map, n)
          /\ Cardinality(Below(map, n + 1)) = Cardinality(Below(map, n)) + 1
          /\ Cardinality(Below(map, n)) \in Nat /\ Cardinality(Below(map, n)) <= Cardinality(Occupied(map))
      BY <1>1, <1>2, <2>2, BelowFacts
    <3>2. e \in EntryOf /\ e.hash \in Nat
      <4>1. e \in EntryOf
        BY <1>1, <3>1, TableFacts
      <4> QED
        BY <4>1, EntryFacts
    <3>3. Vacant(t) # {} /\ Vacant(t) \in SUBSET Buckets(t)
      <4>1. map.cap \in Nat /\ Cardinality(Occupied(map)) < map.cap /\ Cardinality(Occupied(map)) \in Nat
        BY <1>1, TableSizes DEF Shape, Counted
      <4>2. Cardinality(Occupied(t)) < t.cap
        BY <1>4, <3>1, <4>1
      <4> QED
        BY <1>4, <4>2, TableSizes DEF Vacant
    <3> HIDE DEF e
    <3>4. j \in Vacant(t)
      BY <1>4, <3>2, <3>3, FirstFacts
    <3>5. Reached(t, e.hash, j)
      <4>1. PICK d \in Buckets(t) : After(t, e.hash, d) = j
                                    /\ \A x \in 0..(d - 1) : After(t, e.hash, x) \notin Vacant(t)
        BY <1>4, <3>2, <3>3, FirstFacts
      <4>2. \A x \in 0..(d - 1) : x \in Nat
        BY <1>4, CapIs
      <4>3. \A x \in 0..(d - 1) : After(t, e.hash, x) \in Occupied(t)
        BY <1>4, <3>2, <4>1, <4>2, WalkType, TableFacts
      <4> QED
        BY <4>1, <4>3 DEF Reached
    <3>6. t2 = [len |-> t.len, cap |-> t.cap, b |-> [t.b EXCEPT ![j] = e]]
      <4>1. t2 = [t EXCEPT !.b[j] = e]
        BY <2>2 DEF Rehash
      <4>2. t = [len |-> t.len, cap |-> t.cap, b |-> t.b]
        BY <1>4 DEF Shape
      <4> HIDE DEF t2, j
      <4> QED
        BY <4>1, <4>2
    <3> HIDE DEF t2, j
    <3>7. Wrote(t, t2, j, e) /\ j \notin Occupied(t) /\ t2.len = t.len
      BY <1>4, <3>2, <3>3, <3>4, <3>6 DEF Wrote, Shape, Vacant
    <3>8. /\ Shape(t2) /\ t2.cap = t.cap /\ Occupied(t2) = Occupied(t) \cup {j} /\ Occupied(t) \subseteq Buckets(t)
          /\ t2.b[j] = e /\ \A i \in Buckets(t) : i # j => t2.b[i] = t.b[i]
          /\ Cardinality(Occupied(t2)) = Cardinality(Occupied(t)) + 1
      BY <1>4, <3>4, <3>7, WriteEntry
    <3>9. ASSUME broken = 0
          PROVE  Linked(t2) /\ {t2.b[i] : i \in Occupied(t2)} = {map.b[i] : i \in Below(map, n + 1)}
      <4>1. \A i \in Occupied(t) : i # j => t.b[i].key # e.key
        <5>1. SUFFICES ASSUME NEW i \in Occupied(t), t.b[i].key = e.key PROVE FALSE
          OBVIOUS
        <5>2. PICK x \in Below(map, n) : t.b[i] = map.b[x]
          BY <1>5, <3>9
        <5>3. x \in Occupied(map) /\ map.b[x].key = map.b[n].key /\ x # n
          BY <3>1, <5>1, <5>2 DEF e, Below
        <5> QED
          BY <1>5, <3>1, <3>9, <5>3 DEF Linked
      <4>2. Linked(t2)
        BY <1>4, <1>5, <3>5, <3>7, <3>9, <4>1, WriteLinked
      <4>3. {t2.b[i] : i \in Occupied(t2)} = {t.b[i] : i \in Occupied(t)} \cup {e}
        <5>1. \A i \in Occupied(t) : i # j /\ i \in Occupied(t2) /\ t2.b[i] = t.b[i]
          BY <3>7, <3>8
        <5> QED
          BY <3>8, <5>1
      <4>4. {map.b[i] : i \in Below(map, n + 1)} = {map.b[i] : i \in Below(map, n)} \cup {e}
        BY <3>1 DEF e
      <4> QED
        BY <1>5, <3>9, <4>2, <4>3, <4>4
    <3> QED
      BY <1>4, <3>1, <3>7, <3>8, <3>9
  <2> QED
    BY <2>1, <2>2
<1> HIDE DEF t2, n, t, e
<1>7. /\ growing'.i = n + 1 /\ growing'.key = growing.key /\ growing'.val = growing.val /\ growing'.t = t2
      /\ growing' = [i |-> growing'.i, key |-> growing'.key, val |-> growing'.val, t |-> growing'.t]
  BY <1>2
<1>8. GrowInv'
  <2>1. growing'.key \in Keys /\ growing'.val \in Vals /\ growing'.i \in 0..map'.cap
    BY <1>2, <1>3, <1>4, <1>7
  <2>2. Shape(growing'.t) /\ growing'.t.cap = 2 * map'.cap /\ growing'.t.len = map'.len
    BY <1>3, <1>6, <1>7
  <2>3. Cardinality(Occupied(growing'.t)) = Cardinality(Below(map', growing'.i))
    BY <1>3, <1>6, <1>7
  <2>4. broken' = 0 =>
          /\ Linked(growing'.t)
          /\ {growing'.t.b[j] : j \in Occupied(growing'.t)} = {map'.b[i] : i \in Below(map', growing'.i)}
    BY <1>3, <1>6, <1>7
  <2> QED
    BY <1>7, <2>1, <2>2, <2>3, <2>4 DEF GrowInv
<1> QED
  BY <1>1, <1>3, <1>8 DEF MapInv

\* The end of the growth: the new table holds all entries and takes the new one.
LEMMA GrownInv == MapInv /\ map_grown => MapInv'
<1> SUFFICES ASSUME MapInv, map_grown PROVE MapInv'
  OBVIOUS
<1> DEFINE t == growing.t
<1>1. /\ map' = Put(t, growing.key, growing.val) /\ dict' = Updated(dict, growing.key, growing.val)
      /\ growing' = NotGrowing /\ broken' = broken /\ GrowInv /\ growing.i = map.cap
  BY DEF map_grown, MapInv
<1>2. /\ Shape(t) /\ t.cap = 2 * map.cap /\ t.len = map.len /\ growing.key \in Keys /\ growing.val \in Vals
      /\ Cardinality(Occupied(t)) = Cardinality(Below(map, map.cap))
      /\ broken = 0 => Linked(t) /\ {t.b[j] : j \in Occupied(t)} = {map.b[i] : i \in Below(map, map.cap)}
  BY <1>1 DEF GrowInv
<1>3. /\ Shape(map) /\ map.len = Cardinality(Occupied(map)) /\ map.len < map.cap
      /\ map.len \in Nat /\ map.cap \in Nat /\ map.cap >= 4 /\ broken \in Nat
  BY DEF MapInv, Counted, Shape
<1>4. Below(map, map.cap) = Occupied(map)
  <2>1. \A i \in Occupied(map) : i < map.cap
    BY <1>3, CapIs DEF Occupied
  <2> QED
    BY <2>1 DEF Below
<1> HIDE DEF t
<1>5. t.len = Cardinality(Occupied(t)) /\ t.len + 1 < t.cap
  BY <1>2, <1>3, <1>4
<1>6. Shape(map') /\ Counted(map') /\ (Linked(t) /\ Stands(t, dict) => Linked(map') /\ Stands(map', dict'))
  BY <1>1, <1>2, <1>5, PutFacts
<1>7. broken = 0 => Stands(t, dict)
  <2> SUFFICES ASSUME broken = 0 PROVE Stands(t, dict)
    OBVIOUS
  <2>1. {t.b[j] : j \in Occupied(t)} = {map.b[i] : i \in Occupied(map)} /\ Stands(map, dict)
    BY <1>2, <1>4 DEF MapInv
  <2>2. \A j \in Occupied(t) : \E i \in Occupied(map) : t.b[j] = map.b[i]
    BY <2>1
  <2>3. \A i \in Occupied(map) : \E j \in Occupied(t) : t.b[j] = map.b[i]
    BY <2>1
  <2>4. \A j \in Occupied(t) : dict[t.b[j].key] = t.b[j].val /\ t.b[j].key \in DOMAIN dict
    BY <2>1, <2>2 DEF Stands
  <2>5. \A x \in DOMAIN dict : \E j \in Occupied(t) : t.b[j].key = x
    BY <2>1, <2>3 DEF Stands
  <2>6. DOMAIN dict = {t.b[j].key : j \in Occupied(t)}
    BY <2>4, <2>5
  <2>7. dict = [x \in DOMAIN dict |-> dict[x]]
    BY <2>1 DEF Stands
  <2> QED
    BY <2>4, <2>6, <2>7 DEF Stands
<1>8. ~Busy'
  BY <1>1 DEF Busy, NotGrowing
<1> QED
  BY <1>1, <1>2, <1>3, <1>6, <1>7, <1>8 DEF MapInv

\* A removal: the walks that do not pass the bucket come where they came.
LEMMA RemoveInv ==
  ASSUME MapInv, NEW k \in Keys, map_remove_val(k)
  PROVE  MapInv'
<1> DEFINE i == map_probe(map, k)
<1>1. /\ ~Busy /\ growing' = growing /\ Shape(map) /\ broken \in Nat
      /\ map.len = Cardinality(Occupied(map)) /\ map.len < map.cap
      /\ dict' = [x \in DOMAIN dict \ {k} |-> dict[x]]
  BY DEF MapInv, Counted, map_remove_val
<1>2. ~Busy'
  BY <1>1 DEF Busy
<1>3. CASE i \notin Holding(map, k)
  <2>1. map' = map /\ Later
    BY <1>3 DEF map_remove_val
  <2>2. ASSUME broken = 0 PROVE dict' = dict
    <3>1. Linked(map) /\ Stands(map, dict)
      BY <2>2 DEF MapInv
    <3>2. k \notin DOMAIN dict
      <4>1. SUFFICES ASSUME NEW j \in Occupied(map), map.b[j].key = k PROVE FALSE
        BY <3>1 DEF Stands
      <4>2. i = j /\ j \in Holding(map, k)
        BY <1>1, <3>1, <4>1, ProbeFinds
      <4> QED
        BY <1>3, <4>2
    <3> QED
      BY <1>1, <3>1, <3>2 DEF Stands
  <2> QED
    BY <1>1, <1>2, <2>1, <2>2, LaterFacts DEF MapInv
<1>4. CASE i \in Holding(map, k)
  <2> DEFINE n == [map EXCEPT !.b[i].occ = 0, !.len = @ - 1]
  <2>1. i \in Occupied(map) /\ i \in Buckets(map) /\ map.b[i] \in EntryOf /\ map.b[i].key = k
    BY <1>1, <1>4, TableFacts DEF Holding
  <2>2. map' = n /\ (broken' = 0 => broken = 0 /\ \A j \in Occupied(map) : ~OnPathTo(map, i, j))
        /\ broken' \in Nat
    BY <1>1, <1>4 DEF map_remove_val, Later
  <2>3. map.cap \in Nat /\ map.cap >= 4 /\ map.len \in Nat /\ DOMAIN map.b = Buckets(map)
        /\ map = [len |-> map.len, cap |-> map.cap, b |-> map.b]
    BY <1>1 DEF Shape
  <2>4. /\ n.cap = map.cap /\ n.len = map.len - 1
        /\ n.b = [map.b EXCEPT ![i] = [map.b[i] EXCEPT !.occ = 0]]
        /\ n = [len |-> n.len, cap |-> n.cap, b |-> n.b]
    <3>1. n = [len |-> map.len - 1, cap |-> map.cap, b |-> [map.b EXCEPT ![i] = [map.b[i] EXCEPT !.occ = 0]]]
      <4>1. \A l, c, b : map = [len |-> l, cap |-> c, b |-> b] =>
              n = [len |-> l - 1, cap |-> c, b |-> [b EXCEPT ![i] = [b[i] EXCEPT !.occ = 0]]]
        <5> TAKE l, c, b
        <5> HAVE map = [len |-> l, cap |-> c, b |-> b]
        <5> DEFINE r == [map EXCEPT !.b[i].occ = 0]
        <5> HIDE DEF i
        <5>1. r = [len |-> l, cap |-> c, b |-> [b EXCEPT ![i] = [b[i] EXCEPT !.occ = 0]]]
          OBVIOUS
        <5>2. n = [r EXCEPT !.len = l - 1]
          OBVIOUS
        <5> HIDE DEF n, r
        <5> QED
          BY <5>1, <5>2
      <4> HIDE DEF n, i
      <4> QED
        BY <2>3, <4>1
    <3> HIDE DEF n, i
    <3> QED
      BY <3>1
  <2>5. [map.b[i] EXCEPT !.occ = 0].occ = 0
    <3>1. map.b[i] = [occ |-> 1, hash |-> map.b[i].hash, key |-> k, val |-> map.b[i].val]
      BY <2>1, EntryFacts DEF Filled
    <3> QED
      BY <3>1
  <2> HIDE DEF n, i
  <2>6. /\ Buckets(n) = Buckets(map) /\ DOMAIN n.b = Buckets(n) /\ n.b[i].occ = 0
        /\ \A j \in Buckets(map) : j # i => n.b[j] = map.b[j]
        /\ n.b = [j \in Buckets(n) |-> n.b[j]]
    BY <2>1, <2>3, <2>4, <2>5 DEF Buckets
  <2>7. Occupied(n) = Occupied(map) \ {i}
    BY <2>1, <2>6 DEF Occupied
  <2>8. Cardinality(Occupied(n)) = map.len - 1 /\ map.len - 1 \in Nat
    <3>1. IsFiniteSet(Occupied(map)) /\ IsFiniteSet(Occupied(n))
      BY <1>1, <2>7, TableSizes, FS_RemoveElement
    <3>2. Cardinality(Occupied(n)) = Cardinality(Occupied(map)) - 1
      BY <2>1, <2>7, <3>1, FS_RemoveElement
    <3>3. Cardinality(Occupied(n)) \in Nat
      BY <3>1, FS_CardinalityType
    <3> QED
      BY <1>1, <3>2, <3>3
  <2>9. Shape(n) /\ Counted(n)
    <3>1. \A j \in Buckets(n) : n.b[j].occ \in {0, 1} /\ (n.b[j].occ # 0 => n.b[j] \in EntryOf)
      BY <1>1, <2>6 DEF Shape
    <3>2. Shape(n)
      BY <2>3, <2>4, <2>6, <2>8, <3>1 DEF Shape
    <3> QED
      BY <1>1, <2>3, <2>4, <2>8, <3>2 DEF Counted
  <2>10. ASSUME broken' = 0 PROVE Linked(n) /\ Stands(n, dict')
    <3>1. Linked(map) /\ Stands(map, dict) /\ \A j \in Occupied(map) : ~OnPathTo(map, i, j)
      BY <2>2, <2>10 DEF MapInv
    <3>2. \A j \in Occupied(n) : j \in Occupied(map) /\ n.b[j] = map.b[j]
      BY <2>6, <2>7 DEF Occupied
    <3>3. ASSUME NEW j \in Occupied(n) PROVE Reached(n, n.b[j].hash, j)
      <4>1. PICK d \in Buckets(map) :
              /\ After(map, map.b[j].hash, d) = j
              /\ \A e \in 0..(d - 1) : After(map, map.b[j].hash, e) \in Occupied(map)
        BY <3>1, <3>2, <3>3 DEF Linked, Reached
      <4>2. \A e \in 0..(d - 1) : After(map, map.b[j].hash, e) # i
        BY <3>1, <3>2, <3>3, <4>1 DEF OnPathTo
      <4>3. \A e \in 0..(d - 1) : After(map, map.b[j].hash, e) \in Occupied(n)
        BY <2>7, <4>1, <4>2
      <4>4. \A h, e : After(n, h, e) = After(map, h, e)
        BY <2>4 DEF After
      <4> QED
        BY <2>6, <3>2, <3>3, <4>1, <4>3, <4>4 DEF Reached
    <3>4. Linked(n)
      BY <3>1, <3>2, <3>3 DEF Linked
    <3>5. \A j \in Occupied(n) : map.b[j].key # k
      BY <2>1, <2>7, <3>1 DEF Linked
    <3>6. DOMAIN dict' = DOMAIN dict \ {k} /\ \A x \in DOMAIN dict' : dict'[x] = dict[x]
      BY <1>1
    <3>7. DOMAIN dict' = {n.b[j].key : j \in Occupied(n)}
      <4>1. \A x \in DOMAIN dict' : \E j \in Occupied(n) : n.b[j].key = x
        <5> TAKE x \in DOMAIN dict'
        <5>1. PICK j \in Occupied(map) : map.b[j].key = x
          BY <3>1, <3>6 DEF Stands
        <5>2. j # i
          BY <2>1, <3>6, <5>1
        <5> QED
          BY <2>7, <3>2, <5>1, <5>2
      <4>2. \A j \in Occupied(n) : n.b[j].key \in DOMAIN dict'
        BY <3>1, <3>2, <3>5, <3>6 DEF Stands
      <4> QED
        BY <4>1, <4>2
    <3>8. \A j \in Occupied(n) : dict'[n.b[j].key] = n.b[j].val
      BY <3>1, <3>2, <3>5, <3>6 DEF Stands
    <3>9. dict' = [x \in DOMAIN dict' |-> dict'[x]]
      BY <1>1
    <3> QED
      BY <3>4, <3>7, <3>8, <3>9 DEF Stands
  <2> QED
    BY <1>2, <2>2, <2>9, <2>10 DEF MapInv
<1> QED
  BY <1>3, <1>4

\* Clear leaves an empty table of the same size.
LEMMA ClearInv == MapInv /\ map_clear => MapInv'
<1> SUFFICES ASSUME MapInv, map_clear PROVE MapInv'
  OBVIOUS
<1>1. /\ map' = [len |-> 0, cap |-> map.cap, b |-> Zeroed(map.cap)] /\ dict' = [x \in {} |-> 0]
      /\ broken' = 0 /\ growing' = growing /\ ~Busy
  BY DEF map_clear
<1>2. map.cap \in Nat /\ map.cap >= 4
  BY DEF MapInv, Shape
<1>3. Shape(map') /\ Occupied(map') = {} /\ Linked(map') /\ map'.cap = map.cap /\ map'.len = 0
  BY <1>1, <1>2, ZeroedFacts
<1>4. Stands(map', dict')
  BY <1>1, <1>3, EmptyStands
<1>5. Counted(map')
  BY <1>2, <1>3, FS_EmptySet DEF Counted
<1>6. ~Busy'
  BY <1>1 DEF Busy
<1> QED
  BY <1>1, <1>3, <1>4, <1>5, <1>6 DEF MapInv

\* Every step keeps the invariant.
LEMMA MapNextInv == MapInv /\ [MapNext]_map_vars => MapInv'
<1> SUFFICES ASSUME MapInv, [MapNext]_map_vars PROVE MapInv'
  OBVIOUS
<1>1. CASE UNCHANGED map_vars
  BY <1>1 DEF map_vars, MapInv, GrowInv, Busy
<1>2. ASSUME NEW k \in Keys, NEW v \in Vals, map_set_val(k, v) PROVE MapInv'
  BY <1>2, GrowthStarts, SetInv
<1>3. ASSUME NEW k \in Keys, map_remove_val(k) PROVE MapInv'
  BY <1>3, RemoveInv
<1> QED
  BY <1>1, <1>2, <1>3, RehashInv, GrownInv, ClearInv DEF MapNext

\* The invariant holds for a map of any initial capacity from 4 on, any keys,
\* any hash function and any number of growths and removals.
LEMMA MapInductive == MapSpec => []MapInv
<1>1. MapInit => MapInv
  BY MapInitInv
<1>2. MapInv /\ [MapNext]_map_vars => MapInv'
  BY MapNextInv
<1> QED
  BY <1>1, <1>2, PTL DEF MapSpec

\* What the invariant says of the answers.
LEMMA InvAgrees == MapInv => MapAgrees
<1> SUFFICES ASSUME MapInv PROVE MapAgrees
  OBVIOUS
<1>1. /\ Shape(map) /\ map.len = Cardinality(Occupied(map)) /\ map.len < map.cap
      /\ map.cap \in Nat /\ map.cap >= 4
  BY DEF MapInv, Counted, Shape
<1>2. \A k \in Keys : map_probe(map, k) # NoBucket
  <2> TAKE k \in Keys
  <2>1. map_probe(map, k) \in Buckets(map)
    BY <1>1, ProbeFacts, TableFacts DEF Holding
  <2> QED
    BY <1>1, <2>1, CapIs DEF NoBucket
<1>3. Busy => Vacant(growing.t) # {}
  <2> SUFFICES ASSUME Busy PROVE Vacant(growing.t) # {}
    OBVIOUS
  <2>1. /\ Shape(growing.t) /\ growing.t.cap = 2 * map.cap
        /\ Cardinality(Occupied(growing.t)) = Cardinality(Below(map, growing.i))
    BY DEF MapInv, GrowInv
  <2>2. IsFiniteSet(Occupied(map)) /\ Below(map, growing.i) \subseteq Occupied(map)
    BY <1>1, TableSizes DEF Below
  <2>3. Cardinality(Below(map, growing.i)) <= Cardinality(Occupied(map))
        /\ Cardinality(Below(map, growing.i)) \in Nat /\ Cardinality(Occupied(map)) \in Nat
    BY <2>2, FS_Subset, FS_CardinalityType
  <2>4. Cardinality(Occupied(growing.t)) < growing.t.cap
    BY <1>1, <2>1, <2>3
  <2> QED
    BY <2>1, <2>4, TableSizes
<1>4. ASSUME broken = 0
      PROVE  /\ \A k \in Keys : map_has_val(map, k) <=> k \in DOMAIN dict
             /\ \A k \in Keys, v \in Vals : map_get_val(map, k, v) = IF k \in DOMAIN dict THEN dict[k] ELSE v
             /\ map_collect(map) = DOMAIN dict /\ map.len = Cardinality(DOMAIN dict)
  <2>1. Linked(map) /\ Stands(map, dict)
    BY <1>4 DEF MapInv
  <2>2. ASSUME NEW k \in Keys, k \in DOMAIN dict
        PROVE  map_has_val(map, k) /\ map.b[map_probe(map, k)].val = dict[k]
    <3>1. PICK i \in Occupied(map) : map.b[i].key = k
      BY <2>1, <2>2 DEF Stands
    <3>2. map_probe(map, k) = i /\ i \in Holding(map, k)
      BY <1>1, <2>1, <3>1, ProbeFinds
    <3> QED
      BY <2>1, <3>1, <3>2 DEF map_has_val, Stands
  <2>3. ASSUME NEW k \in Keys, map_has_val(map, k) PROVE k \in DOMAIN dict
    BY <2>1, <2>3 DEF map_has_val, Holding, Stands
  <2>4. \A k \in Keys, v \in Vals : map_get_val(map, k, v) = IF k \in DOMAIN dict THEN dict[k] ELSE v
    BY <2>2, <2>3 DEF map_get_val
  <2>5. map_collect(map) = DOMAIN dict
    BY <2>1 DEF map_collect, Stands
  <2>6. Cardinality(DOMAIN dict) = Cardinality(Occupied(map))
    <3> DEFINE f == [i \in Occupied(map) |-> map.b[i].key]
    <3>1. f \in Bijection(Occupied(map), DOMAIN dict)
      <4>1. f \in [Occupied(map) -> DOMAIN dict]
        BY <2>1 DEF Stands
      <4>2. \A x, y \in Occupied(map) : f[x] = f[y] => x = y
        BY <2>1 DEF Linked
      <4>3. \A z \in DOMAIN dict : \E x \in Occupied(map) : f[x] = z
        BY <2>1 DEF Stands
      <4> HIDE DEF f
      <4> QED
        BY <4>1, <4>2, <4>3 DEF Bijection, Injection, Surjection, IsInjective
    <3>2. ExistsBijection(Occupied(map), DOMAIN dict)
      BY <3>1 DEF ExistsBijection
    <3> QED
      BY <1>1, <3>2, TableSizes, FS_Bijection
  <2> QED
    BY <1>1, <2>2, <2>3, <2>4, <2>5, <2>6
<1> QED
  BY <1>1, <1>2, <1>3, <1>4 DEF MapAgrees

\* The map answers like a dictionary, and every walk ends.
THEOREM MapsAnswer == MapSpec => []MapAgrees
BY MapInductive, InvAgrees, PTL
=============================================================================
