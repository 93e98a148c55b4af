--------------------------- MODULE ChannelProofs ---------------------------
(***************************************************************************)
(* Proofs that the channel of module Channel keeps its safety properties   *)
(* for all sets of callers, capacities and values.                         *)
(***************************************************************************)
EXTENDS Channel, FiniteSetTheorems, TLAPS

----------------------------------------------------------------------------
(* The inductive invariant                                                 *)

Distinct(q) == \A i, j \in DOMAIN q : q[i] = q[j] => i = j

Waiting == Members(send_waitq) \cup Members(recv_waitq)

\* A wait queue holds a coroutine once, with the stack left or being left; a run
\* queue holds only coroutines that left their stack and wait nowhere.
QueueInv ==
  /\ Distinct(send_waitq) /\ Distinct(recv_waitq)
  /\ \A c \in Waiting : pc[c] \in {"swap", "parked"} /\ c \notin runq
  /\ \A c \in runq : pc[c] = "parked"
  /\ \A c \in Coro : pc[c] \in {"swap", "parked"} => c \in runq \cup Waiting

\* Who registers holds the lock, and nobody else; so the channel stays empty
\* (full) from the moment a receiver (sender) found it so until it is queued.
LockInv ==
  /\ \A c \in Coro : pc[c] \in {"check", "reg", "swap"} <=> lock = c
  /\ \A c \in Receivers : pc[c] \in {"check", "reg"} => head = tail
  /\ \A c \in Senders : pc[c] \in {"check", "reg"} => tail - head = Capacity

\* Only cancelled coroutines are woken by the scope.
CancelInv ==
  /\ cpc # "idle" => \A c \in Scoped \ todo : cancelled[c]
  /\ cpc \in {"peek", "wake"} => cur \in Scoped /\ cancelled[cur]
  /\ cpc \in {"rewake", "join"} => \A c \in Scoped : cancelled[c]

IInv == TypeOK /\ RingHoldsPending /\ QueueInv /\ LockInv /\ CancelInv /\ NoStranded

----------------------------------------------------------------------------
(* Arithmetic of the ring                                                  *)

\* A multiple of the capacity is 0 or less, or at least the capacity.
LEMMA MulPositive ==
  ASSUME NEW c \in Nat \ {0}, NEW k \in Int
  PROVE  /\ k >= 1 => c * k >= c
         /\ k <= 0 => c * k <= 0
OBVIOUS

\* Two counters less than Capacity apart address different slots.
LEMMA SlotsDiffer ==
  ASSUME NEW a \in Nat, NEW b \in Nat, NEW c \in Nat \ {0}, a < b, b - a < c
  PROVE  a % c # b % c
<1> DEFINE p == a \div c
           q == b \div c
<1>1. p \in Int /\ q \in Int
  OBVIOUS
<1>2. a = c * p + (a % c) /\ b = c * q + (b % c)
  OBVIOUS
<1>3. ASSUME a % c = b % c PROVE FALSE
  <2>1. b - a = c * (q - p)
    BY <1>1, <1>2, <1>3
  <2>2. q - p >= 1 => c * (q - p) >= c
    BY <1>1, MulPositive
  <2>3. q - p <= 0 => c * (q - p) <= 0
    BY <1>1, MulPositive
  <2> QED BY <1>1, <2>1, <2>2, <2>3
<1> QED BY <1>3

\* Every counter addresses a slot of the ring (tail & (capacity - 1) in the code).
LEMMA SlotInRange ==
  ASSUME NEW a \in Nat
  PROVE  a % Capacity \in Slots
BY ChannelAssumption DEF Slots

----------------------------------------------------------------------------
(* Wait queues                                                             *)

\* Popping the oldest node of a wait queue removes exactly that coroutine.
LEMMA PopMembers ==
  ASSUME NEW S, NEW q \in Seq(S), q # <<>>, Distinct(q)
  PROVE  /\ Tail(q) \in Seq(S) /\ Head(q) \in S
         /\ Distinct(Tail(q))
         /\ Head(q) \in Members(q)
         /\ Members(Tail(q)) = Members(q) \ {Head(q)}
<1>1. /\ Len(q) \in Nat \ {0} /\ DOMAIN q = 1..Len(q) /\ Head(q) = q[1]
      /\ \A i \in 1..Len(q) : q[i] \in S
  OBVIOUS
<1>2. Tail(q) \in Seq(S) /\ Len(Tail(q)) = Len(q) - 1 /\ DOMAIN Tail(q) = 1..(Len(q) - 1)
  BY <1>1
<1>3. \A i \in 1..(Len(q) - 1) : Tail(q)[i] = q[i + 1]
  BY <1>1
<1>4. Head(q) \in S /\ Head(q) \in Members(q)
  BY <1>1 DEF Members
<1>5. Distinct(Tail(q))
  BY <1>1, <1>2, <1>3 DEF Distinct
<1>6. Members(Tail(q)) \subseteq Members(q) \ {Head(q)}
  BY <1>1, <1>2, <1>3 DEF Distinct, Members
<1>7. ASSUME NEW x \in Members(q), x # Head(q) PROVE x \in Members(Tail(q))
  <2>1. PICK i \in 1..Len(q) : q[i] = x
    BY <1>1 DEF Members
  <2>2. i - 1 \in 1..(Len(q) - 1) /\ Tail(q)[i - 1] = x
    BY <1>1, <1>3, <1>7, <2>1
  <2> QED BY <1>2, <2>2 DEF Members
<1> QED BY <1>2, <1>4, <1>5, <1>6, <1>7

\* waitq_push adds exactly the coroutine it is given.
LEMMA PushMembers ==
  ASSUME NEW S, NEW q \in Seq(S), NEW c \in S, Distinct(q), c \notin Members(q)
  PROVE  /\ Append(q, c) \in Seq(S)
         /\ Distinct(Append(q, c))
         /\ Members(Append(q, c)) = Members(q) \cup {c}
<1> DEFINE r == Append(q, c)
<1>1. /\ Len(q) \in Nat /\ DOMAIN q = 1..Len(q)
      /\ r \in Seq(S) /\ DOMAIN r = 1..(Len(q) + 1)
  OBVIOUS
<1>2. (\A i \in 1..Len(q) : r[i] = q[i]) /\ r[Len(q) + 1] = c
  OBVIOUS
<1> HIDE DEF r
<1>3. \A i \in 1..Len(q) : q[i] # c
  BY <1>1 DEF Members
<1>4. Distinct(r)
  BY <1>1, <1>2, <1>3 DEF Distinct
<1>5. Members(r) = Members(q) \cup {c}
  <2>1. Members(r) \subseteq Members(q) \cup {c}
    BY <1>1, <1>2 DEF Members
  <2>2. ASSUME NEW x \in Members(q) PROVE x \in Members(r)
    <3>1. PICK i \in 1..Len(q) : q[i] = x
      BY <1>1 DEF Members
    <3>2. i \in DOMAIN r /\ r[i] = x
      BY <1>1, <1>2, <3>1
    <3> QED BY <3>2 DEF Members
  <2>3. c \in Members(r)
    <3>1. Len(q) + 1 \in DOMAIN r
      BY <1>1
    <3> QED BY <1>2, <3>1 DEF Members
  <2> QED BY <2>1, <2>2, <2>3
<1> QED BY <1>1, <1>4, <1>5 DEF r

\* waitq_remove_coro takes out the coroutine and keeps the other waiters.
LEMMA WithoutMembers ==
  ASSUME NEW S, NEW q \in Seq(S), NEW c, Distinct(q)
  PROVE  /\ Without(q, c) \in Seq(S)
         /\ Distinct(Without(q, c))
         /\ Members(Without(q, c)) = Members(q) \ {c}
<1>1. CASE c \notin Members(q)
  BY <1>1 DEF Without
<1>2. CASE c \in Members(q)
  <2> DEFINE First(i) == q[i] = c /\ \A j \in 1..(i - 1) : q[j] # c
             k == CHOOSE i \in DOMAIN q : First(i)
             r == [i \in 1..(Len(q) - 1) |-> IF i < k THEN q[i] ELSE q[i + 1]]
  <2>1. PICK n \in DOMAIN q : q[n] = c
    BY <1>2 DEF Members
  <2>2. First(n)
    BY <2>1 DEF Distinct
  <2>3. k \in DOMAIN q /\ First(k)
    BY <2>1, <2>2
  <2>4. Without(q, c) = r
    BY <1>2 DEF Without
  <2> HIDE DEF k
  <2>5. k \in 1..Len(q) /\ q[k] = c /\ DOMAIN q = 1..Len(q) /\ Len(q) \in Nat
    BY <2>3
  <2>6. r \in Seq(S) /\ DOMAIN r = 1..(Len(q) - 1) /\ Len(q) - 1 \in Nat
    <3>1. \A i \in 1..(Len(q) - 1) : r[i] \in S
      BY <2>5
    <3> QED BY <2>5, <3>1
  <2>7. Distinct(r)
    BY <2>5, <2>6 DEF Distinct
  <2>8. Members(r) \subseteq Members(q) \ {c}
    BY <2>5, <2>6 DEF Distinct, Members
  <2>9. ASSUME NEW x \in Members(q), x # c PROVE x \in Members(r)
    <3>1. PICK i \in DOMAIN q : q[i] = x
      BY DEF Members
    <3>2. CASE i < k
      BY <2>5, <2>6, <3>1, <3>2 DEF Members
    <3>3. CASE i > k
      <4>1. i - 1 \in DOMAIN r /\ r[i - 1] = x
        BY <2>5, <2>6, <3>1, <3>3
      <4> QED BY <4>1 DEF Members
    <3> QED BY <2>5, <2>9, <3>1, <3>2, <3>3
  <2> QED BY <2>4, <2>6, <2>7, <2>8, <2>9
<1> QED BY <1>1, <1>2

----------------------------------------------------------------------------
(* What every wake-up does                                                 *)

\* The coroutines of w move from the wait queues to the run queue.
Moves(w) ==
  /\ w \subseteq Waiting
  /\ send_waitq' \in Seq(Senders) /\ recv_waitq' \in Seq(Receivers)
  /\ Distinct(send_waitq') /\ Distinct(recv_waitq')
  /\ Members(send_waitq') = Members(send_waitq) \ w
  /\ Members(recv_waitq') = Members(recv_waitq) \ w
  /\ runq' = runq \cup w
  /\ wait_chan' \in [Coro -> BOOLEAN]

\* The members of a sequence over S are in S.
LEMMA SeqMembers ==
  ASSUME NEW S, NEW q \in Seq(S)
  PROVE  Members(q) \subseteq S
BY DEF Members

\* Only coroutines wait.
LEMMA WaitingTyped ==
  ASSUME TypeOK
  PROVE  /\ Members(send_waitq) \subseteq Senders
         /\ Members(recv_waitq) \subseteq Receivers
         /\ Waiting \subseteq Coro
BY SeqMembers DEF TypeOK, Waiting, Coro

\* Waking coroutines keeps wait_chan and the run queue typed.
LEMMA WakeTyped ==
  ASSUME TypeOK, NEW w, Wake(w)
  PROVE  runq' = runq \cup w /\ wait_chan' \in [Coro -> BOOLEAN]
BY DEF Wake, TypeOK

\* A step that leaves the wait queues alone moves nobody.
LEMMA NothingMoves ==
  ASSUME TypeOK, QueueInv, UNCHANGED waitVars
  PROVE  Moves({})
BY DEF Moves, TypeOK, QueueInv, waitVars

\* Waking the oldest receiver moves it from its wait queue to a run queue.
LEMMA ReceiverMoves ==
  ASSUME TypeOK, QueueInv, WakeOldestReceiver
  PROVE  Moves(IF recv_waitq = <<>> THEN {} ELSE {Head(recv_waitq)})
<1>1. CASE recv_waitq = <<>>
  BY <1>1, NothingMoves DEF WakeOldestReceiver
<1>2. CASE recv_waitq # <<>>
  <2> DEFINE h == Head(recv_waitq)
  <2>1. recv_waitq' = Tail(recv_waitq) /\ send_waitq' = send_waitq /\ Wake({h})
    BY <1>2 DEF WakeOldestReceiver
  <2>2. /\ Tail(recv_waitq) \in Seq(Receivers) /\ h \in Receivers
        /\ Distinct(Tail(recv_waitq)) /\ h \in Members(recv_waitq)
        /\ Members(Tail(recv_waitq)) = Members(recv_waitq) \ {h}
    BY <1>2, PopMembers DEF TypeOK, QueueInv
  <2>3. h \notin Members(send_waitq)
    BY <2>2, WaitingTyped, ChannelAssumption
  <2>4. runq' = runq \cup {h} /\ wait_chan' \in [Coro -> BOOLEAN]
    BY <2>1, WakeTyped
  <2> HIDE DEF h
  <2>5. Moves({h})
    BY <2>1, <2>2, <2>3, <2>4 DEF Moves, TypeOK, QueueInv, Waiting
  <2> QED BY <1>2, <2>5 DEF h
<1> QED BY <1>1, <1>2

\* Waking the oldest sender moves it from its wait queue to a run queue.
LEMMA SenderMoves ==
  ASSUME TypeOK, QueueInv, WakeOldestSender
  PROVE  Moves(IF send_waitq = <<>> THEN {} ELSE {Head(send_waitq)})
<1>1. CASE send_waitq = <<>>
  BY <1>1, NothingMoves DEF WakeOldestSender
<1>2. CASE send_waitq # <<>>
  <2> DEFINE h == Head(send_waitq)
  <2>1. send_waitq' = Tail(send_waitq) /\ recv_waitq' = recv_waitq /\ Wake({h})
    BY <1>2 DEF WakeOldestSender
  <2>2. /\ Tail(send_waitq) \in Seq(Senders) /\ h \in Senders
        /\ Distinct(Tail(send_waitq)) /\ h \in Members(send_waitq)
        /\ Members(Tail(send_waitq)) = Members(send_waitq) \ {h}
    BY <1>2, PopMembers DEF TypeOK, QueueInv
  <2>3. h \notin Members(recv_waitq)
    BY <2>2, WaitingTyped, ChannelAssumption
  <2>4. runq' = runq \cup {h} /\ wait_chan' \in [Coro -> BOOLEAN]
    BY <2>1, WakeTyped
  <2> HIDE DEF h
  <2>5. Moves({h})
    BY <2>1, <2>2, <2>3, <2>4 DEF Moves, TypeOK, QueueInv, Waiting
  <2> QED BY <1>2, <2>5 DEF h
<1> QED BY <1>1, <1>2

\* jinn_chan_close moves all waiters to the run queue.
LEMMA CloseMoves ==
  ASSUME TypeOK, CloseWakeAll
  PROVE  Moves(Waiting)
<1>1. send_waitq' = <<>> /\ recv_waitq' = <<>> /\ Wake(Waiting)
  BY DEF CloseWakeAll, Waiting
<1>2. Members(<<>>) = {} /\ Distinct(<<>>)
  BY DEF Members, Distinct
<1>3. Members(send_waitq) \ Waiting = {} /\ Members(recv_waitq) \ Waiting = {}
  BY DEF Waiting
<1>4. runq' = runq \cup Waiting /\ wait_chan' \in [Coro -> BOOLEAN]
  BY <1>1, WakeTyped
<1> QED BY <1>1, <1>2, <1>3, <1>4 DEF Moves

\* jinn_chan_wake_coro moves the coroutine if, and only if, it waits.
LEMMA CoroMoves ==
  ASSUME TypeOK, QueueInv, NEW c, WakeCoro(c)
  PROVE  Moves({c} \cap Waiting)
<1> DEFINE w == {c} \cap Waiting
<1>1. /\ send_waitq' = Without(send_waitq, c) /\ recv_waitq' = Without(recv_waitq, c)
      /\ Wake(w)
  BY DEF WakeCoro, Waiting
<1>2. /\ send_waitq' \in Seq(Senders) /\ Distinct(send_waitq')
      /\ Members(send_waitq') = Members(send_waitq) \ {c}
  BY <1>1, WithoutMembers DEF TypeOK, QueueInv
<1>3. /\ recv_waitq' \in Seq(Receivers) /\ Distinct(recv_waitq')
      /\ Members(recv_waitq') = Members(recv_waitq) \ {c}
  BY <1>1, WithoutMembers DEF TypeOK, QueueInv
<1>4. /\ Members(send_waitq) \ {c} = Members(send_waitq) \ w
      /\ Members(recv_waitq) \ {c} = Members(recv_waitq) \ w
  BY DEF Waiting
<1>5. runq' = runq \cup w /\ wait_chan' \in [Coro -> BOOLEAN]
  BY <1>1, WakeTyped
<1> HIDE DEF w
<1>6. w \subseteq Waiting
  BY DEF w
<1>7. Moves(w)
  BY <1>2, <1>3, <1>4, <1>5, <1>6 DEF Moves
<1> QED BY <1>7 DEF w

----------------------------------------------------------------------------
(* The initial state                                                       *)

\* The new channel satisfies the invariant.
LEMMA InitIInv == Init => IInv
<1> SUFFICES ASSUME Init PROVE IInv
  OBVIOUS
<1>1. TypeOK
  <2>1. /\ send_waitq \in Seq(Senders) /\ recv_waitq \in Seq(Receivers)
        /\ sent \in Seq(Value) /\ rcvd \in Seq(Value)
    BY DEF Init
  <2>2. buffer \in [Slots -> Value \cup {None}]
    BY DEF Init
  <2>3. pc \in [Coro -> Pcs] /\ wait_chan \in [Coro -> BOOLEAN] /\ cancelled \in [Coro -> BOOLEAN]
    BY DEF Init, Pcs
  <2> QED BY <2>1, <2>2, <2>3 DEF Init, TypeOK
<1>2. RingHoldsPending
  BY ChannelAssumption DEF Init, RingHoldsPending
<1>3. Waiting = {}
  BY DEF Init, Waiting, Members
<1>4. QueueInv
  BY <1>3 DEF Init, QueueInv, Distinct
<1>5. LockInv
  BY ChannelAssumption DEF Init, LockInv, Coro
<1>6. CancelInv
  BY DEF Init, CancelInv
<1>7. NoStranded
  BY DEF Init, NoStranded
<1> QED BY <1>1, <1>2, <1>4, <1>5, <1>6, <1>7 DEF IInv

----------------------------------------------------------------------------
(* Type correctness                                                        *)

\* The value a receive copies out is one that was sent.
LEMMA TakesASentValue ==
  ASSUME TypeOK, RingHoldsPending, HasValue
  PROVE  buffer[head % Capacity] = sent[head + 1] /\ sent[head + 1] \in Value
<1>1. head \in head..(tail - 1) /\ head + 1 \in 1..Len(sent)
  BY DEF TypeOK, RingHoldsPending, HasValue
<1> QED BY <1>1 DEF TypeOK, RingHoldsPending

\* Putting a value in keeps the ring and the history typed.
LEMMA PutTyped ==
  ASSUME TypeOK, NEW v \in Value, Put(v)
  PROVE  /\ head' \in Nat /\ tail' \in Nat /\ closed' \in BOOLEAN
         /\ buffer' \in [Slots -> Value \cup {None}]
         /\ sent' \in Seq(Value) /\ rcvd' \in Seq(Value)
BY SlotInRange DEF TypeOK, Put

\* Taking a value out keeps the ring and the history typed.
LEMMA TakeTyped ==
  ASSUME TypeOK, RingHoldsPending, HasValue, Take
  PROVE  /\ head' \in Nat /\ tail' \in Nat /\ closed' \in BOOLEAN
         /\ buffer' \in [Slots -> Value \cup {None}]
         /\ sent' \in Seq(Value) /\ rcvd' \in Seq(Value)
BY TakesASentValue DEF TypeOK, Take

\* Moving waiters to a run queue keeps the queues typed.
LEMMA MovesTyped ==
  ASSUME TypeOK, NEW w, Moves(w)
  PROVE  /\ send_waitq' \in Seq(Senders) /\ recv_waitq' \in Seq(Receivers)
         /\ runq' \subseteq Coro /\ wait_chan' \in [Coro -> BOOLEAN]
BY WaitingTyped DEF Moves, TypeOK

\* A step of one caller keeps the program counters typed.
LEMMA GotoTyped ==
  ASSUME TypeOK, NEW c, NEW l \in Pcs, Goto(c, l)
  PROVE  pc' \in [Coro -> Pcs]
BY DEF TypeOK, Goto

\* Every step keeps the types.
LEMMA TypeStep == IInv /\ [Next]_vars => TypeOK'
<1> SUFFICES ASSUME IInv, [Next]_vars PROVE TypeOK'
  OBVIOUS
<1> USE DEF IInv
<1>0. CASE UNCHANGED vars
  BY <1>0 DEF TypeOK, vars, chanVars, waitVars, cancelVars
<1>1. ASSUME NEW c \in Coro, Begin(c) \/ CheckAtTop(c) \/ CheckBeforeParking(c) \/ SwapOut(c)
      PROVE  TypeOK'
  BY <1>1 DEF TypeOK, Begin, CheckAtTop, CheckBeforeParking, SwapOut, Goto, Pcs,
              chanVars, waitVars, cancelVars
<1>2. ASSUME NEW c \in Coro, TrySend(c) PROVE TypeOK'
  <2>1. CASE closed
    BY <1>2, <2>1 DEF TrySend, TypeOK, Goto, Pcs, chanVars, waitVars, cancelVars
  <2>2. CASE ~closed /\ HasRoom
    <3>1. PICK v \in Value : Put(v)
      BY <1>2, <2>2 DEF TrySend
    <3>2. WakeOldestReceiver /\ Goto(c, "idle")
      BY <1>2, <2>2 DEF TrySend
    <3>3. /\ send_waitq' \in Seq(Senders) /\ recv_waitq' \in Seq(Receivers)
          /\ runq' \subseteq Coro /\ wait_chan' \in [Coro -> BOOLEAN]
      BY <3>2, ReceiverMoves, MovesTyped
    <3>4. pc' \in [Coro -> Pcs]
      BY <3>2, GotoTyped DEF Pcs
    <3>5. UNCHANGED <<lock, cancelVars, cancelled, close_pc>>
      BY <1>2, <2>2 DEF TrySend
    <3> QED BY <3>1, <3>3, <3>4, <3>5, PutTyped DEF TypeOK, cancelVars
  <2>3. CASE ~closed /\ ~HasRoom
    BY <1>2, <2>3 DEF TrySend, Blocked, TypeOK, Goto, Pcs, chanVars, waitVars, cancelVars
  <2> QED BY <2>1, <2>2, <2>3
<1>3. ASSUME NEW c \in Coro, TryRecv(c) PROVE TypeOK'
  <2>1. CASE HasValue
    <3>1. Take /\ WakeOldestSender /\ Goto(c, "idle")
      BY <1>3, <2>1 DEF TryRecv
    <3>2. /\ send_waitq' \in Seq(Senders) /\ recv_waitq' \in Seq(Receivers)
          /\ runq' \subseteq Coro /\ wait_chan' \in [Coro -> BOOLEAN]
      BY <3>1, SenderMoves, MovesTyped
    <3>3. pc' \in [Coro -> Pcs]
      BY <3>1, GotoTyped DEF Pcs
    <3>4. UNCHANGED <<lock, cancelVars, cancelled, close_pc>>
      BY <1>3, <2>1 DEF TryRecv
    <3> QED BY <2>1, <3>1, <3>2, <3>3, <3>4, TakeTyped DEF TypeOK, cancelVars
  <2>2. CASE ~HasValue
    BY <1>3, <2>2 DEF TryRecv, Blocked, TypeOK, Goto, Pcs, chanVars, waitVars, cancelVars
  <2> QED BY <2>1, <2>2
<1>4. ASSUME NEW c \in Coro, Poll(c) PROVE TypeOK'
  <2>1. CASE HasValue
    <3>1. Take /\ WakeOldestSender
      BY <1>4, <2>1 DEF Poll
    <3>2. /\ send_waitq' \in Seq(Senders) /\ recv_waitq' \in Seq(Receivers)
          /\ runq' \subseteq Coro /\ wait_chan' \in [Coro -> BOOLEAN]
      BY <3>1, SenderMoves, MovesTyped
    <3>3. UNCHANGED <<pc, lock, cancelVars, cancelled, close_pc>>
      BY <1>4, <2>1 DEF Poll
    <3> QED BY <2>1, <3>1, <3>2, <3>3, TakeTyped DEF TypeOK, cancelVars
  <2>2. CASE ~HasValue
    BY <1>4, <2>2 DEF Poll, TypeOK, Goto, Pcs, chanVars, waitVars, cancelVars
  <2> QED BY <2>1, <2>2
<1>5. ASSUME NEW c \in Coro, Register(c) PROVE TypeOK'
  <2>1. send_waitq' \in Seq(Senders) /\ recv_waitq' \in Seq(Receivers)
    <3>1. CASE c \in Senders
      <4>1. send_waitq' = Append(send_waitq, c) /\ recv_waitq' = recv_waitq
        BY <1>5, <3>1 DEF Register
      <4> QED BY <3>1, <4>1 DEF TypeOK
    <3>2. CASE c \in Receivers /\ c \notin Senders
      <4>1. recv_waitq' = Append(recv_waitq, c) /\ send_waitq' = send_waitq
        BY <1>5, <3>2 DEF Register
      <4> QED BY <3>2, <4>1 DEF TypeOK
    <3> QED BY <3>1, <3>2 DEF Coro
  <2>2. pc' \in [Coro -> Pcs] /\ wait_chan' \in [Coro -> BOOLEAN]
    BY <1>5 DEF Register, TypeOK, Goto, Pcs
  <2> QED BY <1>5, <2>1, <2>2 DEF Register, TypeOK, chanVars, cancelVars
<1>6. ASSUME NEW c \in Coro, Run(c) PROVE TypeOK'
  BY <1>6 DEF Run, TypeOK, Goto, Pcs, chanVars, cancelVars
<1>7. CASE CloseStore
  BY <1>7 DEF CloseStore, TypeOK, waitVars, cancelVars
<1>8. CASE CloseWakeAll
  <2>1. /\ send_waitq' \in Seq(Senders) /\ recv_waitq' \in Seq(Receivers)
        /\ runq' \subseteq Coro /\ wait_chan' \in [Coro -> BOOLEAN]
    BY <1>8, CloseMoves, MovesTyped
  <2> QED BY <1>8, <2>1 DEF CloseWakeAll, TypeOK, chanVars, cancelVars
<1>9. CASE CancelWake
  <2>1. /\ send_waitq' \in Seq(Senders) /\ recv_waitq' \in Seq(Receivers)
        /\ runq' \subseteq Coro /\ wait_chan' \in [Coro -> BOOLEAN]
    <3>1. CASE seen
      BY <1>9, <3>1, CoroMoves, MovesTyped DEF CancelWake
    <3>2. CASE ~seen
      BY <1>9, <3>2, NothingMoves, MovesTyped DEF CancelWake
    <3> QED BY <3>1, <3>2
  <2>2. cpc' \in {"join", "rewake", "mark"} /\ todo' \subseteq Scoped
    BY <1>9 DEF CancelWake, TypeOK
  <2> QED BY <1>9, <2>1, <2>2 DEF CancelWake, TypeOK, chanVars
<1>10. CASE ScopeCancel \/ ParentParks \/ CancelPeek \/ JoinRewake
  <2>1. cpc = "peek" => cur \in Coro
    BY ChannelAssumption DEF CancelInv
  <2> QED BY <1>10, <2>1 DEF ScopeCancel, ParentParks, CancelPeek, JoinRewake, TypeOK,
                            chanVars, waitVars
<1>11. ASSUME NEW c \in Scoped, CancelMark(c) \/ RewakePeek(c) PROVE TypeOK'
  BY <1>11, ChannelAssumption DEF CancelMark, RewakePeek, TypeOK, chanVars, waitVars
<1> QED BY <1>0, <1>1, <1>2, <1>3, <1>4, <1>5, <1>6, <1>7, <1>8, <1>9, <1>10, <1>11
        DEF Next, CoroStep, CancelStep

----------------------------------------------------------------------------
(* The ring                                                                *)

\* A send into a ring that has room overwrites no pending value.
LEMMA PutKeepsRing ==
  ASSUME TypeOK, RingHoldsPending, HasRoom, NEW v \in Value, Put(v)
  PROVE  RingHoldsPending'
<1>1. /\ head \in Nat /\ tail \in Nat /\ head' = head /\ tail' = tail + 1
      /\ Capacity \in Nat \ {0} /\ tail - head < Capacity /\ head <= tail
      /\ sent \in Seq(Value) /\ rcvd' = rcvd /\ sent' = Append(sent, v)
      /\ Len(sent) = tail /\ Len(rcvd) = head
  BY ChannelAssumption DEF TypeOK, RingHoldsPending, HasRoom, Put
<1>2. /\ Len(sent') = tail' /\ sent'[tail + 1] = v
      /\ \A i \in 1..tail : sent'[i] = sent[i]
  BY <1>1
<1>3. rcvd' = SubSeq(sent', 1, head')
  <2>1. rcvd = SubSeq(sent, 1, head)
    BY DEF RingHoldsPending
  <2>2. SubSeq(sent', 1, head) = SubSeq(sent, 1, head)
    BY <1>1, <1>2
  <2> QED BY <1>1, <2>1, <2>2
<1>4. ASSUME NEW i \in head..tail PROVE buffer'[i % Capacity] = sent'[i + 1]
  <2>0. i \in Nat /\ tail \in Nat /\ tail - i < Capacity
    BY <1>1
  <2>1. tail % Capacity \in Slots /\ i % Capacity \in Slots
    BY <2>0, SlotInRange
  <2>2. CASE i = tail
    BY <1>2, <2>1, <2>2 DEF Put, TypeOK
  <2>3. CASE i < tail
    <3>1. i % Capacity # tail % Capacity
      BY <2>0, <2>3, ChannelAssumption, SlotsDiffer
    <3>2. buffer[i % Capacity] = sent[i + 1]
      BY <1>1, <2>3 DEF RingHoldsPending
    <3> QED BY <1>1, <1>2, <2>1, <2>3, <3>1, <3>2 DEF Put, TypeOK
  <2> QED BY <1>1, <2>2, <2>3
<1>5. head'..(tail' - 1) = head..tail /\ head' <= tail' /\ tail' - head' <= Capacity
  BY <1>1
<1>6. \A i \in head'..(tail' - 1) : buffer'[i % Capacity] = sent'[i + 1]
  BY <1>4, <1>5
<1> QED BY <1>1, <1>2, <1>3, <1>5, <1>6 DEF RingHoldsPending

\* A receive from a ring that holds a value hands out the oldest one.
LEMMA TakeKeepsRing ==
  ASSUME TypeOK, RingHoldsPending, HasValue, Take
  PROVE  RingHoldsPending'
<1>1. /\ head \in Nat /\ tail \in Nat /\ head' = head + 1 /\ tail' = tail
      /\ Capacity \in Nat \ {0} /\ tail - head <= Capacity /\ head < tail
      /\ sent \in Seq(Value) /\ sent' = sent /\ buffer' = buffer
      /\ Len(sent) = tail /\ Len(rcvd) = head /\ rcvd \in Seq(Value)
  BY ChannelAssumption DEF TypeOK, RingHoldsPending, HasValue, Take
<1>2. rcvd' = Append(rcvd, sent[head + 1]) /\ sent[head + 1] \in Value
  BY TakesASentValue DEF Take
<1>3. Len(rcvd') = head'
  BY <1>1, <1>2
<1>4. rcvd' = SubSeq(sent', 1, head')
  <2>1. rcvd = SubSeq(sent, 1, head)
    BY DEF RingHoldsPending
  <2>2. Append(SubSeq(sent, 1, head), sent[head + 1]) = SubSeq(sent, 1, head + 1)
    BY <1>1
  <2> QED BY <1>1, <1>2, <2>1, <2>2
<1> QED BY <1>1, <1>3, <1>4 DEF RingHoldsPending

\* A step that leaves the ring alone keeps its contents.
LEMMA RingSame ==
  ASSUME RingHoldsPending, UNCHANGED <<head, tail, buffer, sent, rcvd>>
  PROVE  RingHoldsPending'
BY DEF RingHoldsPending

\* Every step keeps the ring's contents right.
LEMMA RingStep == IInv /\ [Next]_vars => RingHoldsPending'
<1> SUFFICES ASSUME IInv, [Next]_vars PROVE RingHoldsPending'
  OBVIOUS
<1> USE DEF IInv
<1>1. ASSUME NEW c \in Coro, TrySend(c) PROVE RingHoldsPending'
  BY <1>1, PutKeepsRing, RingSame DEF TrySend, Blocked, chanVars
<1>2. ASSUME NEW c \in Coro, TryRecv(c) \/ Poll(c) PROVE RingHoldsPending'
  BY <1>2, TakeKeepsRing, RingSame DEF TryRecv, Poll, Blocked, chanVars
<1>3. ASSUME NEW c \in Coro,
             Begin(c) \/ CheckAtTop(c) \/ CheckBeforeParking(c) \/ Register(c)
               \/ SwapOut(c) \/ Run(c)
      PROVE  RingHoldsPending'
  BY <1>3, RingSame DEF Begin, CheckAtTop, CheckBeforeParking, Register, SwapOut, Run, chanVars
<1>4. CASE CloseStore \/ CloseWakeAll \/ ScopeCancel \/ CancelStep \/ UNCHANGED vars
  BY <1>4, RingSame DEF CloseStore, CloseWakeAll, ScopeCancel, CancelStep, ParentParks,
       CancelPeek, CancelWake, JoinRewake, CancelMark, RewakePeek, vars, chanVars
<1> QED BY <1>1, <1>2, <1>3, <1>4 DEF Next, CoroStep

----------------------------------------------------------------------------
(* Parking                                                                 *)

Registering == {"check", "reg", "swap"}
OffStack == {"swap", "parked"}

\* With the lock free every queued coroutine has left its stack.
LEMMA QueuedAreParked ==
  ASSUME IInv, lock = None
  PROVE  \A c \in Waiting : pc[c] = "parked"
<1> SUFFICES ASSUME NEW c \in Waiting PROVE pc[c] = "parked"
  OBVIOUS
<1>1. c \in Coro /\ pc[c] \in {"swap", "parked"}
  BY WaitingTyped DEF IInv, QueueInv
<1>2. pc[c] # "swap"
  BY <1>1, ChannelAssumption DEF IInv, LockInv
<1> QED BY <1>1, <1>2

\* A wake-up keeps the queues in order: it takes the woken coroutines from the
\* wait queues, and the caller that makes it is on its stack before and after.
LEMMA WakeKeepsQueues ==
  ASSUME IInv, lock = None, NEW w, Moves(w),
         \A c \in Coro : pc'[c] = pc[c] \/ (pc[c] \notin OffStack /\ pc'[c] \notin OffStack)
  PROVE  QueueInv'
<1>1. Waiting' = Waiting \ w /\ runq' = runq \cup w /\ w \subseteq Waiting
  BY DEF Moves, Waiting
<1>2. Waiting \subseteq Coro /\ runq \subseteq Coro
  BY WaitingTyped DEF IInv, TypeOK
<1>3. \A c \in Waiting : pc[c] = "parked"
  BY QueuedAreParked
<1>4. \A c \in Waiting \cup runq : pc'[c] = "parked"
  BY <1>2, <1>3 DEF IInv, QueueInv, OffStack
<1>5. \A c \in Waiting : c \notin runq
  BY DEF IInv, QueueInv
<1>6. \A c \in Coro : pc'[c] \in OffStack => c \in runq \cup Waiting
  BY DEF IInv, QueueInv, OffStack
<1> QED BY <1>1, <1>4, <1>5, <1>6 DEF QueueInv, Moves, OffStack

\* A step that leaves the queues alone, and in which a caller stays on its stack
\* or completes leaving it, keeps each coroutine in its place.
LEMMA QueuesSame ==
  ASSUME IInv, UNCHANGED <<send_waitq, recv_waitq, runq>>,
         \A c \in Coro : \/ pc'[c] = pc[c]
                         \/ pc[c] \notin OffStack /\ pc'[c] \notin OffStack
                         \/ pc[c] = "swap" /\ pc'[c] = "parked"
  PROVE  QueueInv'
<1>1. Waiting' = Waiting /\ runq' = runq /\ Waiting \subseteq Coro /\ runq \subseteq Coro
  BY WaitingTyped DEF IInv, TypeOK, Waiting
<1>2. \A c \in Waiting : pc'[c] \in OffStack /\ c \notin runq
  BY <1>1 DEF IInv, QueueInv, OffStack
<1>3. \A c \in runq : pc'[c] = "parked"
  BY <1>1 DEF IInv, QueueInv, OffStack
<1>4. \A c \in Coro : pc'[c] \in OffStack => c \in runq \cup Waiting
  BY DEF IInv, QueueInv, OffStack
<1> QED BY <1>1, <1>2, <1>3, <1>4 DEF IInv, QueueInv, OffStack

\* What a step of one caller does to the program counters.
LEMMA GotoMoves ==
  ASSUME TypeOK, NEW c \in Coro, NEW l, Goto(c, l)
  PROVE  pc'[c] = l /\ \A d \in Coro \ {c} : pc'[d] = pc[d]
BY DEF Goto, TypeOK

\* Every step keeps each parked coroutine in one place.
LEMMA QueueStep == IInv /\ [Next]_vars => QueueInv'
<1> SUFFICES ASSUME IInv, [Next]_vars PROVE QueueInv'
  OBVIOUS
<1>t. TypeOK /\ QueueInv /\ LockInv
  BY DEF IInv
<1>1. ASSUME NEW c \in Coro, Begin(c) \/ CheckAtTop(c) \/ CheckBeforeParking(c) \/ SwapOut(c)
      PROVE  QueueInv'
  <2>1. \A d \in Coro : \/ pc'[d] = pc[d]
                        \/ pc[d] \notin OffStack /\ pc'[d] \notin OffStack
                        \/ pc[d] = "swap" /\ pc'[d] = "parked"
    BY <1>1, <1>t, GotoMoves DEF Begin, CheckAtTop, CheckBeforeParking, SwapOut, OffStack
  <2>2. UNCHANGED <<send_waitq, recv_waitq, runq>>
    BY <1>1 DEF Begin, CheckAtTop, CheckBeforeParking, SwapOut, waitVars
  <2> QED BY <2>1, <2>2, QueuesSame
<1>2. ASSUME NEW c \in Coro, TrySend(c) PROVE QueueInv'
  <2>1. \A d \in Coro : pc'[d] = pc[d] \/ (pc[d] \notin OffStack /\ pc'[d] \notin OffStack)
    BY <1>2, <1>t, GotoMoves DEF TrySend, Blocked, OffStack
  <2>2. \E w : Moves(w)
    BY <1>2, <1>t, ReceiverMoves, NothingMoves DEF TrySend, Blocked
  <2>3. lock = None
    BY <1>2 DEF TrySend
  <2> QED BY <2>1, <2>2, <2>3, WakeKeepsQueues
<1>3. ASSUME NEW c \in Coro, TryRecv(c) PROVE QueueInv'
  <2>1. \A d \in Coro : pc'[d] = pc[d] \/ (pc[d] \notin OffStack /\ pc'[d] \notin OffStack)
    BY <1>3, <1>t, GotoMoves DEF TryRecv, Blocked, OffStack
  <2>2. \E w : Moves(w)
    BY <1>3, <1>t, SenderMoves, NothingMoves DEF TryRecv, Blocked
  <2>3. lock = None
    BY <1>3 DEF TryRecv
  <2> QED BY <2>1, <2>2, <2>3, WakeKeepsQueues
<1>4. ASSUME NEW c \in Coro, Poll(c) PROVE QueueInv'
  <2>1. \A d \in Coro : pc'[d] = pc[d] \/ (pc[d] \notin OffStack /\ pc'[d] \notin OffStack)
    BY <1>4, <1>t, GotoMoves DEF Poll, OffStack
  <2>2. \E w : Moves(w)
    BY <1>4, <1>t, SenderMoves, NothingMoves DEF Poll
  <2>3. lock = None
    BY <1>4 DEF Poll
  <2> QED BY <2>1, <2>2, <2>3, WakeKeepsQueues
<1>5. ASSUME NEW c \in Coro, Register(c) PROVE QueueInv'
  <2>1. c \notin Waiting /\ c \notin runq
    BY <1>5, <1>t DEF Register, QueueInv
  <2>2. /\ Distinct(send_waitq') /\ Distinct(recv_waitq')
        /\ Waiting' = Waiting \cup {c}
    <3>1. CASE c \in Senders
      <4>1. send_waitq' = Append(send_waitq, c) /\ recv_waitq' = recv_waitq
        BY <1>5, <3>1 DEF Register
      <4>2. c \notin Members(send_waitq)
        BY <2>1 DEF Waiting
      <4>3. /\ Distinct(Append(send_waitq, c))
            /\ Members(Append(send_waitq, c)) = Members(send_waitq) \cup {c}
        BY <1>t, <3>1, <4>2, PushMembers DEF TypeOK, QueueInv
      <4> QED BY <1>t, <4>1, <4>3 DEF QueueInv, Waiting
    <3>2. CASE c \in Receivers /\ c \notin Senders
      <4>1. recv_waitq' = Append(recv_waitq, c) /\ send_waitq' = send_waitq
        BY <1>5, <3>2 DEF Register
      <4>2. c \notin Members(recv_waitq)
        BY <2>1 DEF Waiting
      <4>3. /\ Distinct(Append(recv_waitq, c))
            /\ Members(Append(recv_waitq, c)) = Members(recv_waitq) \cup {c}
        BY <1>t, <3>2, <4>2, PushMembers DEF TypeOK, QueueInv
      <4> QED BY <1>t, <4>1, <4>3 DEF QueueInv, Waiting
    <3> QED BY <3>1, <3>2 DEF Coro
  <2>3. pc'[c] = "swap" /\ (\A d \in Coro \ {c} : pc'[d] = pc[d]) /\ runq' = runq
    BY <1>5, <1>t, GotoMoves DEF Register
  <2>4. Waiting \subseteq Coro /\ runq \subseteq Coro
    BY <1>t, WaitingTyped DEF TypeOK
  <2>5. \A d \in Waiting' : pc'[d] \in {"swap", "parked"} /\ d \notin runq'
    BY <1>t, <2>1, <2>2, <2>3, <2>4 DEF QueueInv
  <2>6. \A d \in runq' : pc'[d] = "parked"
    BY <1>t, <2>1, <2>3, <2>4 DEF QueueInv
  <2>7. \A d \in Coro : pc'[d] \in {"swap", "parked"} => d \in runq' \cup Waiting'
    BY <1>t, <2>2, <2>3 DEF QueueInv
  <2> QED BY <2>2, <2>5, <2>6, <2>7 DEF QueueInv
<1>6. ASSUME NEW c \in Coro, Run(c) PROVE QueueInv'
  <2>1. pc'[c] = "top" /\ (\A d \in Coro \ {c} : pc'[d] = pc[d])
    BY <1>6, <1>t, GotoMoves DEF Run
  <2>2. /\ c \in runq /\ runq' = runq \ {c} /\ Waiting' = Waiting
        /\ send_waitq' = send_waitq /\ recv_waitq' = recv_waitq
    BY <1>6 DEF Run, Waiting
  <2>3. c \notin Waiting /\ Waiting \subseteq Coro /\ runq \subseteq Coro
    BY <1>t, <2>2, WaitingTyped DEF TypeOK, QueueInv
  <2> QED BY <1>t, <2>1, <2>2, <2>3 DEF QueueInv
<1>7. CASE CloseWakeAll
  <2>1. lock = None /\ pc' = pc
    BY <1>7 DEF CloseWakeAll
  <2> QED BY <1>7, <1>t, <2>1, CloseMoves, WakeKeepsQueues
<1>8. CASE CancelWake /\ seen
  <2>1. lock = None /\ pc' = pc /\ WakeCoro(cur)
    BY <1>8 DEF CancelWake, WakeCoro
  <2> QED BY <1>t, <2>1, CoroMoves, WakeKeepsQueues
<1>9. CASE \/ CloseStore \/ ScopeCancel \/ ParentParks \/ CancelPeek \/ JoinRewake
           \/ (CancelWake /\ ~seen) \/ UNCHANGED vars
           \/ \E c \in Scoped : CancelMark(c) \/ RewakePeek(c)
  <2>1. UNCHANGED <<send_waitq, recv_waitq, runq, pc>>
    BY <1>9 DEF CloseStore, ScopeCancel, ParentParks, CancelPeek, JoinRewake, CancelWake,
                CancelMark, RewakePeek, vars, waitVars
  <2> QED BY <2>1, QueuesSame
<1> QED BY <1>1, <1>2, <1>3, <1>4, <1>5, <1>6, <1>7, <1>8, <1>9
        DEF Next, CoroStep, CancelStep

----------------------------------------------------------------------------
(* The lock                                                                *)

\* While the lock is free nobody is registering.
LEMMA NobodyRegisters ==
  ASSUME IInv, lock = None
  PROVE  \A c \in Coro : pc[c] \notin Registering
BY ChannelAssumption DEF IInv, LockInv, Registering

\* A step that does not pass the lock on, and leaves the counters alone while the
\* lock is held, keeps the link between the lock and who registers.
LEMMA LockSame ==
  ASSUME IInv, lock' = lock, lock = None \/ (head' = head /\ tail' = tail),
         \A c \in Coro : \/ pc'[c] = pc[c]
                         \/ pc[c] \notin Registering /\ pc'[c] \notin Registering
                         \/ pc[c] = "reg" /\ pc'[c] = "swap"
                         \/ pc[c] = "check" /\ pc'[c] = "reg"
  PROVE  LockInv'
<1>1. CASE lock = None
  <2>1. \A c \in Coro : pc'[c] \notin Registering /\ lock # c
    BY <1>1, NobodyRegisters, ChannelAssumption DEF Registering
  <2> QED BY <2>1, ChannelAssumption DEF LockInv, Registering, Coro
<1>2. CASE head' = head /\ tail' = tail
  BY <1>2 DEF IInv, LockInv, Registering, Coro
<1> QED BY <1>1, <1>2

\* Every step keeps the link between the lock and who registers.
LEMMA LockStep == IInv /\ [Next]_vars => LockInv'
<1> SUFFICES ASSUME IInv, [Next]_vars PROVE LockInv'
  OBVIOUS
<1>t. TypeOK /\ RingHoldsPending /\ LockInv
  BY DEF IInv
<1>1. ASSUME NEW c \in Coro, Begin(c) \/ CheckAtTop(c) \/ Register(c)
      PROVE  LockInv'
  <2>1. \A d \in Coro : \/ pc'[d] = pc[d]
                        \/ pc[d] \notin Registering /\ pc'[d] \notin Registering
                        \/ pc[d] = "reg" /\ pc'[d] = "swap"
    BY <1>1, <1>t, GotoMoves DEF Begin, CheckAtTop, Register, Registering
  <2>2. UNCHANGED <<lock, head, tail>>
    BY <1>1 DEF Begin, CheckAtTop, Register, chanVars
  <2> QED BY <2>1, <2>2, LockSame
<1>2. ASSUME NEW c \in Coro, TrySend(c) \/ TryRecv(c) \/ Poll(c), lock' = lock
      PROVE  LockInv'
  <2>1. lock = None
    BY <1>2 DEF TrySend, TryRecv, Poll
  <2>2. lock' = lock => ~(lock' = c)
    BY <2>1, ChannelAssumption
  <2>3. \A d \in Coro : \/ pc'[d] = pc[d]
                        \/ pc[d] \notin Registering /\ pc'[d] \notin Registering
    BY <1>2, <1>t, <2>2, GotoMoves DEF TrySend, TryRecv, Poll, Blocked, Registering
  <2> QED BY <1>2, <2>1, <2>3, LockSame
<1>3. ASSUME NEW c \in Coro, TrySend(c) \/ TryRecv(c) \/ Poll(c), lock' # lock
      PROVE  LockInv'
  <2>1. /\ lock = None /\ lock' = c
        /\ pc'[c] = "check" /\ \A d \in Coro \ {c} : pc'[d] = pc[d]
        /\ head' = head /\ tail' = tail
    BY <1>3, <1>t, GotoMoves DEF TrySend, TryRecv, Poll, Blocked, chanVars
  <2>2. \A d \in Coro \ {c} : pc'[d] \notin Registering
    BY <2>1, NobodyRegisters
  <2>3. \/ c \in Senders /\ c \notin Receivers /\ tail - head = Capacity
        \/ c \in Receivers /\ c \notin Senders /\ head = tail
    BY <1>3, <1>t, ChannelAssumption
       DEF TrySend, TryRecv, Poll, HasRoom, HasValue, RingHoldsPending, TypeOK
  <2> QED BY <2>1, <2>2, <2>3 DEF LockInv, Registering, Coro
<1>4. ASSUME NEW c \in Coro, CheckBeforeParking(c) PROVE LockInv'
  <2>1. CASE cancelled[c]
    <3>1. /\ lock = c /\ lock' = None
          /\ pc'[c] = "done" /\ \A d \in Coro \ {c} : pc'[d] = pc[d]
      BY <1>4, <1>t, <2>1, GotoMoves DEF CheckBeforeParking, LockInv
    <3>2. \A d \in Coro : pc'[d] \notin Registering
      BY <1>t, <3>1 DEF LockInv, Registering
    <3> QED BY <3>1, <3>2, ChannelAssumption DEF LockInv, Registering, Coro
  <2>2. CASE ~cancelled[c]
    <3>1. \A d \in Coro : pc'[d] = pc[d] \/ (pc[d] = "check" /\ pc'[d] = "reg")
      BY <1>4, <1>t, <2>2, GotoMoves DEF CheckBeforeParking
    <3>2. UNCHANGED <<lock, head, tail>>
      BY <1>4, <2>2 DEF CheckBeforeParking, chanVars
    <3> QED BY <3>1, <3>2, LockSame
  <2> QED BY <2>1, <2>2
<1>5. ASSUME NEW c \in Coro, SwapOut(c) PROVE LockInv'
  <2>1. /\ lock = c /\ lock' = None
        /\ pc'[c] = "parked" /\ \A d \in Coro \ {c} : pc'[d] = pc[d]
    BY <1>5, <1>t, GotoMoves DEF SwapOut, LockInv
  <2>2. \A d \in Coro : pc'[d] \notin Registering
    BY <1>t, <2>1 DEF LockInv, Registering
  <2> QED BY <2>1, <2>2, ChannelAssumption DEF LockInv, Registering, Coro
<1>6. ASSUME NEW c \in Coro, Run(c) PROVE LockInv'
  <2>1. pc[c] = "parked"
    BY <1>6 DEF Run, IInv, QueueInv
  <2>2. \A d \in Coro : \/ pc'[d] = pc[d]
                        \/ pc[d] \notin Registering /\ pc'[d] \notin Registering
    BY <1>6, <1>t, <2>1, GotoMoves DEF Run, Registering
  <2>3. UNCHANGED <<lock, head, tail>>
    BY <1>6 DEF Run, chanVars
  <2> QED BY <2>2, <2>3, LockSame
<1>7. CASE CloseStore \/ CloseWakeAll \/ ScopeCancel \/ CancelStep \/ UNCHANGED vars
  <2>1. UNCHANGED <<lock, head, tail, pc>>
    BY <1>7 DEF CloseStore, CloseWakeAll, ScopeCancel, CancelStep, ParentParks, CancelPeek,
         CancelWake, JoinRewake, CancelMark, RewakePeek, vars, chanVars
  <2> QED BY <2>1, LockSame
<1> QED BY <1>1, <1>2, <1>3, <1>4, <1>5, <1>6, <1>7 DEF Next, CoroStep

----------------------------------------------------------------------------
(* Cancellation                                                            *)

\* Every step keeps what is known of the coroutines a scope has cancelled.
LEMMA CancelStepInv == IInv /\ [Next]_vars => CancelInv'
<1> SUFFICES ASSUME IInv, [Next]_vars PROVE CancelInv'
  OBVIOUS
<1>t. TypeOK /\ CancelInv
  BY DEF IInv
<1>1. ASSUME NEW c \in Coro, CoroStep(c) PROVE CancelInv'
  <2>1. UNCHANGED <<cpc, todo, cur, cancelled>>
    BY <1>1 DEF CoroStep, Begin, CheckAtTop, TrySend, TryRecv, Poll, CheckBeforeParking,
                Register, SwapOut, Run, cancelVars
  <2> QED BY <1>t, <2>1 DEF CancelInv
<1>2. CASE CloseStore \/ CloseWakeAll \/ ParentParks \/ UNCHANGED vars
  <2>1. UNCHANGED <<cpc, todo, cur, cancelled>>
    BY <1>2 DEF CloseStore, CloseWakeAll, ParentParks, vars, cancelVars
  <2> QED BY <1>t, <2>1 DEF CancelInv
<1>3. CASE ScopeCancel
  BY <1>3, <1>t DEF ScopeCancel, CancelInv
<1>4. CASE CancelPeek \/ JoinRewake
  BY <1>4, <1>t DEF CancelPeek, JoinRewake, CancelInv
<1>5. ASSUME NEW c \in Scoped, CancelMark(c) PROVE CancelInv'
  <2>1. cancelled'[c] /\ \A d \in Coro : cancelled[d] => cancelled'[d]
    BY <1>5, <1>t, ChannelAssumption DEF CancelMark, TypeOK
  <2>2. Scoped \subseteq Coro
    BY ChannelAssumption
  <2> QED BY <1>5, <1>t, <2>1, <2>2 DEF CancelMark, CancelInv
<1>6. ASSUME NEW c \in Scoped, RewakePeek(c) PROVE CancelInv'
  BY <1>6, <1>t DEF RewakePeek, CancelInv
<1>7. CASE CancelWake
  <2>1. todo' = todo \ {cur} /\ cancelled' = cancelled /\ cancelled[cur]
    BY <1>7, <1>t DEF CancelWake, CancelInv
  <2>2. \A c \in Scoped \ todo' : cancelled[c]
    BY <1>7, <1>t, <2>1 DEF CancelWake, CancelInv
  <2>3. /\ cpc' \in {"join", "rewake", "mark"}
        /\ cpc' = "join" => todo' = {}
        /\ cpc' = "rewake" => \A c \in Scoped : cancelled[c]
    BY <1>7 DEF CancelWake
  <2> QED BY <2>1, <2>2, <2>3 DEF CancelInv
<1> QED BY <1>1, <1>2, <1>3, <1>4, <1>5, <1>6, <1>7 DEF Next, CancelStep

----------------------------------------------------------------------------
(* Wake-ups are not lost                                                   *)

\* The two halves of NoStranded.
RecvServed == recv_waitq # <<>> => tail - head <= Cardinality(EnRoute(Receivers))

SendServed ==
  send_waitq # <<>> /\ ~closed => Capacity - (tail - head) <= Cardinality(EnRoute(Senders))

\* Those on the way to the channel are finitely many.
LEMMA EnRouteFinite ==
  /\ IsFiniteSet(EnRoute(Receivers)) /\ Cardinality(EnRoute(Receivers)) \in Nat
  /\ IsFiniteSet(EnRoute(Senders)) /\ Cardinality(EnRoute(Senders)) \in Nat
  /\ IsFiniteSet(EnRoute(Receivers)') /\ Cardinality(EnRoute(Receivers)') \in Nat
  /\ IsFiniteSet(EnRoute(Senders)') /\ Cardinality(EnRoute(Senders)') \in Nat
<1>1. /\ EnRoute(Receivers) \subseteq Receivers /\ EnRoute(Senders) \subseteq Senders
      /\ EnRoute(Receivers)' \subseteq Receivers /\ EnRoute(Senders)' \subseteq Senders
  BY DEF EnRoute
<1> QED BY <1>1, FS_Subset, FS_CardinalityType, ChannelAssumption

\* A set that gains, keeps or loses one element.
LEMMA CardinalityChange ==
  ASSUME NEW S, NEW T, IsFiniteSet(S), IsFiniteSet(T)
  PROVE  /\ Cardinality(S) \in Nat /\ Cardinality(T) \in Nat
         /\ S \subseteq T => Cardinality(S) <= Cardinality(T)
         /\ \A x : S \cup {x} \subseteq T /\ x \notin S => Cardinality(S) + 1 <= Cardinality(T)
         /\ \A x : S \ {x} \subseteq T => Cardinality(S) - 1 <= Cardinality(T)
<1>1. Cardinality(S) \in Nat /\ Cardinality(T) \in Nat
  BY FS_CardinalityType
<1>2. S \subseteq T => Cardinality(S) <= Cardinality(T)
  BY FS_Subset
<1>3. ASSUME NEW x, S \cup {x} \subseteq T, x \notin S
      PROVE  Cardinality(S) + 1 <= Cardinality(T)
  <2>1. IsFiniteSet(S \cup {x}) /\ Cardinality(S \cup {x}) = Cardinality(S) + 1
    BY <1>3, FS_AddElement
  <2>2. Cardinality(S \cup {x}) <= Cardinality(T)
    BY <1>3, FS_Subset
  <2> QED BY <2>1, <2>2
<1>4. ASSUME NEW x, S \ {x} \subseteq T
      PROVE  Cardinality(S) - 1 <= Cardinality(T)
  <2>1. /\ IsFiniteSet(S \ {x})
        /\ Cardinality(S \ {x}) = IF x \in S THEN Cardinality(S) - 1 ELSE Cardinality(S)
    BY FS_RemoveElement
  <2>2. Cardinality(S \ {x}) <= Cardinality(T)
    BY <1>4, FS_Subset
  <2> QED BY <1>1, <2>1, <2>2
<1> QED BY <1>1, <1>2, <1>3, <1>4

\* One side stays served when nothing is put in or taken out, its queue is the
\* same and nobody of it who was on the way is lost.
LEMMA RecvQuiet ==
  ASSUME TypeOK, RecvServed, recv_waitq' = recv_waitq, head' = head, tail' = tail,
         EnRoute(Receivers) \subseteq EnRoute(Receivers)'
  PROVE  RecvServed'
<1>1. Cardinality(EnRoute(Receivers)) <= Cardinality(EnRoute(Receivers)')
  BY EnRouteFinite, CardinalityChange
<1>2. head \in Nat /\ tail \in Nat
  BY DEF TypeOK
<1> QED BY <1>1, <1>2, EnRouteFinite DEF RecvServed

\* The same for the senders and the free slots.
LEMMA SendQuiet ==
  ASSUME TypeOK, SendServed, send_waitq' = send_waitq, closed => closed',
         head' = head, tail' = tail, EnRoute(Senders) \subseteq EnRoute(Senders)'
  PROVE  SendServed'
<1>1. Cardinality(EnRoute(Senders)) <= Cardinality(EnRoute(Senders)')
  BY EnRouteFinite, CardinalityChange
<1>2. head \in Nat /\ tail \in Nat
  BY DEF TypeOK
<1> QED BY <1>1, <1>2, EnRouteFinite, ChannelAssumption DEF SendServed

\* A send adds one value and wakes one receiver: the receivers stay served.
LEMMA AddingServes ==
  ASSUME IInv, RecvServed, SendServed, NEW c \in Senders, TrySend(c), ~closed, HasRoom
  PROVE  RecvServed' /\ SendServed'
<1>t. TypeOK /\ QueueInv
  BY DEF IInv
<1>1. /\ head' = head /\ tail' = tail + 1 /\ closed' = closed
      /\ WakeOldestReceiver /\ Goto(c, "idle") /\ lock = None
  BY DEF TrySend, Put
<1>2. head \in Int /\ tail \in Int /\ Capacity \in Int
  BY <1>t, ChannelAssumption DEF TypeOK
<1>3. pc'[c] = "idle" /\ \A d \in Coro \ {c} : pc'[d] = pc[d]
  BY <1>1, <1>t, GotoMoves DEF Coro
<1>4. runq \subseteq runq' /\ send_waitq' = send_waitq
  BY <1>1 DEF WakeOldestReceiver, Wake, waitVars
<1>5. SendServed'
  <2>1. EnRoute(Senders) \ {c} \subseteq EnRoute(Senders)'
    BY <1>3, <1>4 DEF EnRoute, Coro
  <2>2. Cardinality(EnRoute(Senders)) - 1 <= Cardinality(EnRoute(Senders)')
    BY <2>1, EnRouteFinite, CardinalityChange
  <2> QED BY <1>1, <1>2, <1>4, <2>2, EnRouteFinite DEF SendServed
<1>6. CASE recv_waitq = <<>>
  <2>1. recv_waitq' = <<>>
    BY <1>1, <1>6 DEF WakeOldestReceiver, waitVars
  <2> QED BY <1>5, <2>1 DEF RecvServed
<1>7. CASE recv_waitq # <<>>
  <2> DEFINE h == Head(recv_waitq)
  <2>1. h \in Members(recv_waitq) /\ h \in Receivers
    BY <1>t, <1>7, PopMembers DEF TypeOK, QueueInv
  <2>2. runq' = runq \cup {h}
    BY <1>1, <1>7 DEF WakeOldestReceiver, Wake
  <2>3. pc[h] = "parked" /\ h \notin runq
    BY <1>1, <1>t, <2>1, QueuedAreParked DEF QueueInv, Waiting
  <2> HIDE DEF h
  <2>4. c \notin Receivers
    BY ChannelAssumption
  <2>5. EnRoute(Receivers) \cup {h} \subseteq EnRoute(Receivers)' /\ h \notin EnRoute(Receivers)
    BY <1>3, <2>1, <2>2, <2>3, <2>4 DEF EnRoute, Coro
  <2>6. Cardinality(EnRoute(Receivers)) + 1 <= Cardinality(EnRoute(Receivers)')
    BY <2>5, EnRouteFinite, CardinalityChange
  <2> QED BY <1>1, <1>2, <1>5, <1>7, <2>6, EnRouteFinite DEF RecvServed
<1> QED BY <1>6, <1>7

\* A receive frees one slot and wakes one sender: the senders stay served.
LEMMA TakingServes ==
  ASSUME IInv, RecvServed, SendServed, NEW c \in Receivers, TryRecv(c) \/ Poll(c), HasValue
  PROVE  RecvServed' /\ SendServed'
<1>t. TypeOK /\ QueueInv
  BY DEF IInv
<1>1. /\ head' = head + 1 /\ tail' = tail /\ closed' = closed
      /\ WakeOldestSender /\ lock = None
  BY DEF TryRecv, Poll, Take
<1>2. head \in Int /\ tail \in Int /\ Capacity \in Int
  BY <1>t, ChannelAssumption DEF TypeOK
<1>3. \A d \in Coro \ {c} : pc'[d] = pc[d]
  BY <1>t, GotoMoves DEF TryRecv, Poll, Coro
<1>4. runq \subseteq runq' /\ recv_waitq' = recv_waitq
  BY <1>1 DEF WakeOldestSender, Wake, waitVars
<1>5. RecvServed'
  <2>1. EnRoute(Receivers) \ {c} \subseteq EnRoute(Receivers)'
    BY <1>3, <1>4 DEF EnRoute, Coro
  <2>2. Cardinality(EnRoute(Receivers)) - 1 <= Cardinality(EnRoute(Receivers)')
    BY <2>1, EnRouteFinite, CardinalityChange
  <2> QED BY <1>1, <1>2, <1>4, <2>2, EnRouteFinite DEF RecvServed
<1>6. CASE send_waitq = <<>>
  <2>1. send_waitq' = <<>>
    BY <1>1, <1>6 DEF WakeOldestSender, waitVars
  <2> QED BY <1>5, <2>1 DEF SendServed
<1>7. CASE send_waitq # <<>>
  <2> DEFINE h == Head(send_waitq)
  <2>1. h \in Members(send_waitq) /\ h \in Senders
    BY <1>t, <1>7, PopMembers DEF TypeOK, QueueInv
  <2>2. runq' = runq \cup {h}
    BY <1>1, <1>7 DEF WakeOldestSender, Wake
  <2>3. pc[h] = "parked" /\ h \notin runq
    BY <1>1, <1>t, <2>1, QueuedAreParked DEF QueueInv, Waiting
  <2> HIDE DEF h
  <2>4. c \notin Senders
    BY ChannelAssumption
  <2>5. EnRoute(Senders) \cup {h} \subseteq EnRoute(Senders)' /\ h \notin EnRoute(Senders)
    BY <1>3, <2>1, <2>2, <2>3, <2>4 DEF EnRoute, Coro
  <2>6. Cardinality(EnRoute(Senders)) + 1 <= Cardinality(EnRoute(Senders)')
    BY <2>5, EnRouteFinite, CardinalityChange
  <2> QED BY <1>1, <1>2, <1>5, <1>7, <2>6, EnRouteFinite DEF SendServed
<1> QED BY <1>6, <1>7

\* Every step keeps the wake-ups sufficient.
LEMMA StrandStep == IInv /\ [Next]_vars => NoStranded'
<1> SUFFICES ASSUME IInv, [Next]_vars, NobodyCancelled' PROVE RecvServed' /\ SendServed'
  BY DEF NoStranded, RecvServed, SendServed
<1>t. TypeOK /\ RingHoldsPending /\ QueueInv /\ LockInv /\ CancelInv
  BY DEF IInv
<1>n. head \in Int /\ tail \in Int /\ Capacity \in Int /\ tail - head \in 0..Capacity
  BY <1>t, ChannelAssumption DEF TypeOK, RingHoldsPending
<1>d. Senders \subseteq Coro /\ Receivers \subseteq Coro /\ Senders \cap Receivers = {}
  BY ChannelAssumption DEF Coro
<1>c. ASSUME NobodyCancelled PROVE RecvServed /\ SendServed
  BY <1>c DEF IInv, NoStranded, RecvServed, SendServed
<1>1. ASSUME NEW c \in Coro, Begin(c) \/ CheckAtTop(c) \/ CheckBeforeParking(c) \/ SwapOut(c)
      PROVE  RecvServed' /\ SendServed'
  <2>1. /\ UNCHANGED <<head, tail, closed, send_waitq, recv_waitq, runq, cancelled>>
        /\ \A d \in Coro \ {c} : pc'[d] = pc[d]
    BY <1>1, <1>t, GotoMoves DEF Begin, CheckAtTop, CheckBeforeParking, SwapOut, chanVars, waitVars
  <2>2. NobodyCancelled
    BY <2>1 DEF NobodyCancelled
  <2>3. pc[c] \in {"top", "try"} => pc'[c] \in {"top", "try"}
    BY <1>1, <1>t, <2>2, GotoMoves
       DEF Begin, CheckAtTop, CheckBeforeParking, SwapOut, NobodyCancelled
  <2>4. EnRoute(Receivers) \subseteq EnRoute(Receivers)' /\ EnRoute(Senders) \subseteq EnRoute(Senders)'
    BY <1>d, <2>1, <2>3 DEF EnRoute
  <2> QED BY <1>t, <1>c, <1>n, <2>1, <2>2, <2>4, RecvQuiet, SendQuiet
<1>2. ASSUME NEW c \in Coro, TrySend(c) PROVE RecvServed' /\ SendServed'
  <2>1. c \in Senders /\ c \notin Receivers /\ NobodyCancelled /\ pc[c] = "try"
    BY <1>2, <1>d DEF TrySend, NobodyCancelled
  <2>2. CASE ~closed /\ HasRoom
    BY <1>2, <1>t, <1>c, <2>1, <2>2, AddingServes
  <2>3. CASE closed \/ ~HasRoom
    <3>1. /\ UNCHANGED <<head, tail, closed, send_waitq, recv_waitq, runq>>
          /\ \A d \in Coro \ {c} : pc'[d] = pc[d]
      BY <1>2, <1>t, <2>3, GotoMoves DEF TrySend, Blocked, chanVars, waitVars
    <3>2. EnRoute(Receivers) \subseteq EnRoute(Receivers)'
      BY <1>d, <2>1, <3>1 DEF EnRoute
    <3>3. RecvServed'
      BY <1>t, <1>c, <1>n, <2>1, <3>1, <3>2, RecvQuiet
    <3>4. CASE closed
      BY <3>1, <3>3, <3>4 DEF SendServed
    <3>5. CASE ~HasRoom
      <4>1. Capacity - (tail' - head') = 0
        BY <1>n, <3>1, <3>5 DEF HasRoom
      <4> QED BY <3>3, <4>1, EnRouteFinite DEF SendServed
    <3> QED BY <2>3, <3>4, <3>5
  <2> QED BY <2>2, <2>3
<1>3. ASSUME NEW c \in Coro, TryRecv(c) \/ Poll(c) PROVE RecvServed' /\ SendServed'
  <2>1. c \in Receivers /\ c \notin Senders /\ NobodyCancelled
    BY <1>3, <1>d DEF TryRecv, Poll, NobodyCancelled
  <2>2. CASE HasValue
    BY <1>3, <1>t, <1>c, <2>1, <2>2, TakingServes
  <2>3. CASE ~HasValue
    <3>1. /\ UNCHANGED <<head, tail, closed, send_waitq, recv_waitq, runq>>
          /\ \A d \in Coro \ {c} : pc'[d] = pc[d]
      BY <1>3, <1>t, <2>3, GotoMoves DEF TryRecv, Poll, Blocked, chanVars, waitVars
    <3>2. EnRoute(Senders) \subseteq EnRoute(Senders)'
      BY <1>d, <2>1, <3>1 DEF EnRoute
    <3>3. SendServed'
      BY <1>t, <1>c, <1>n, <2>1, <3>1, <3>2, SendQuiet
    <3>4. tail' - head' = 0
      BY <1>n, <2>3, <3>1 DEF HasValue
    <3> QED BY <3>3, <3>4, EnRouteFinite DEF RecvServed
  <2> QED BY <2>2, <2>3
<1>4. ASSUME NEW c \in Coro, Register(c) PROVE RecvServed' /\ SendServed'
  <2>1. /\ UNCHANGED <<head, tail, closed, runq, cancelled>> /\ pc[c] = "reg"
        /\ \A d \in Coro \ {c} : pc'[d] = pc[d]
    BY <1>4, <1>t, GotoMoves DEF Register, chanVars
  <2>2. NobodyCancelled
    BY <2>1 DEF NobodyCancelled
  <2>3. EnRoute(Receivers) \subseteq EnRoute(Receivers)' /\ EnRoute(Senders) \subseteq EnRoute(Senders)'
    BY <1>d, <2>1 DEF EnRoute
  <2>4. CASE c \in Senders
    <3>1. recv_waitq' = recv_waitq
      BY <1>4, <2>4 DEF Register
    <3>2. RecvServed'
      BY <1>t, <1>c, <1>n, <2>1, <2>2, <2>3, <3>1, RecvQuiet
    <3>3. Capacity - (tail' - head') = 0
      BY <1>t, <1>n, <2>1, <2>4 DEF LockInv
    <3> QED BY <3>2, <3>3, EnRouteFinite DEF SendServed
  <2>5. CASE c \in Receivers /\ c \notin Senders
    <3>1. send_waitq' = send_waitq
      BY <1>4, <2>5 DEF Register
    <3>2. SendServed'
      BY <1>t, <1>c, <1>n, <2>1, <2>2, <2>3, <3>1, SendQuiet
    <3>3. tail' - head' = 0
      BY <1>t, <1>n, <2>1, <2>5 DEF LockInv
    <3> QED BY <3>2, <3>3, EnRouteFinite DEF RecvServed
  <2> QED BY <2>4, <2>5 DEF Coro
<1>5. ASSUME NEW c \in Coro, Run(c) PROVE RecvServed' /\ SendServed'
  <2>1. /\ UNCHANGED <<head, tail, closed, send_waitq, recv_waitq, cancelled>>
        /\ runq' = runq \ {c} /\ pc'[c] = "top" /\ \A d \in Coro \ {c} : pc'[d] = pc[d]
    BY <1>5, <1>t, GotoMoves DEF Run, chanVars
  <2>2. NobodyCancelled
    BY <2>1 DEF NobodyCancelled
  <2>3. EnRoute(Receivers) \subseteq EnRoute(Receivers)' /\ EnRoute(Senders) \subseteq EnRoute(Senders)'
    BY <1>d, <2>1 DEF EnRoute
  <2> QED BY <1>t, <1>c, <1>n, <2>1, <2>2, <2>3, RecvQuiet, SendQuiet
<1>6. CASE CloseWakeAll
  BY <1>6 DEF CloseWakeAll, RecvServed, SendServed
<1>7. CASE CancelWake
  <2>1. cancelled' = cancelled /\ cancelled[cur] /\ cur \in Coro
    BY <1>7, <1>t, ChannelAssumption DEF CancelWake, CancelInv
  <2> QED BY <2>1 DEF NobodyCancelled
<1>8. ASSUME NEW c \in Scoped, CancelMark(c) PROVE RecvServed' /\ SendServed'
  <2>1. cancelled'[c] /\ c \in Coro
    BY <1>8, <1>t, ChannelAssumption DEF CancelMark, TypeOK
  <2> QED BY <2>1 DEF NobodyCancelled
<1>9. CASE \/ CloseStore \/ ScopeCancel \/ ParentParks \/ CancelPeek \/ JoinRewake
           \/ UNCHANGED vars \/ \E c \in Scoped : RewakePeek(c)
  <2>1. UNCHANGED <<head, tail, send_waitq, recv_waitq, runq, pc, cancelled>> /\ (closed => closed')
    BY <1>9 DEF CloseStore, ScopeCancel, ParentParks, CancelPeek, JoinRewake, RewakePeek,
                vars, chanVars, waitVars
  <2>2. NobodyCancelled
    BY <2>1 DEF NobodyCancelled
  <2>3. EnRoute(Receivers) \subseteq EnRoute(Receivers)' /\ EnRoute(Senders) \subseteq EnRoute(Senders)'
    BY <2>1 DEF EnRoute
  <2> QED BY <1>t, <1>c, <1>n, <2>1, <2>2, <2>3, RecvQuiet, SendQuiet
<1> QED BY <1>1, <1>2, <1>3, <1>4, <1>5, <1>6, <1>7, <1>8, <1>9 DEF Next, CoroStep, CancelStep

----------------------------------------------------------------------------
(* The theorems                                                            *)

\* Every reachable state satisfies the inductive invariant.
THEOREM Invariance == Spec => []IInv
<1>1. Init => IInv
  BY InitIInv
<1>2. IInv /\ [Next]_vars => IInv'
  BY TypeStep, RingStep, QueueStep, LockStep, CancelStepInv, StrandStep DEF IInv
<1> QED BY <1>1, <1>2, PTL DEF Spec

\* No operation of channel.c or scope.c takes the channel out of its types;
\* in particular a receive never copies out an empty slot.
THEOREM TypeCorrect == Spec => []TypeOK
<1>1. IInv => TypeOK
  BY DEF IInv
<1> QED BY <1>1, Invariance, PTL

\* jinn_chan_send and jinn_chan_recv lose, duplicate and reorder nothing, for
\* every capacity and any number of senders and receivers.
THEOREM RingCorrect == Spec => []RingHoldsPending
<1>1. IInv => RingHoldsPending
  BY DEF IInv
<1> QED BY <1>1, Invariance, PTL

\* The held_lock protocol: a parked coroutine is in one queue, and a worker
\* never gets one whose stack is still in use.
THEOREM ParkingCorrect == Spec => []ParkedInOnePlace
<1>1. IInv => ParkedInOnePlace
  <2> SUFFICES ASSUME IInv PROVE ParkedInOnePlace
    OBVIOUS
  <2>1. Waiting \subseteq Coro /\ runq \subseteq Coro
    BY WaitingTyped DEF IInv, TypeOK
  <2>2. \A c \in Coro : pc[c] = "parked" <=> c \in runq \/ (c \in Waiting /\ pc[c] # "swap")
    BY <2>1 DEF IInv, QueueInv
  <2>3. runq \cap Waiting = {}
    BY DEF IInv, QueueInv
  <2> QED BY <2>2, <2>3 DEF ParkedInOnePlace, Waiting
<1> QED BY <1>1, Invariance, PTL

\* Without cancellation no wake-up is lost: waking one waiter per value and per
\* slot is enough, for any number of waiters.
THEOREM WakeupsSuffice == Spec => []NoStranded
<1>1. IInv => NoStranded
  BY DEF IInv
<1> QED BY <1>1, Invariance, PTL

----------------------------------------------------------------------------
(* Closing                                                                 *)

\* Once the queues were emptied nobody can start to register: the flag was
\* stored before the lock was taken.
CloseInv ==
  /\ close_pc # "open" => closed
  /\ close_pc = "shut" => /\ send_waitq = <<>> /\ recv_waitq = <<>>
                          /\ \A c \in Coro : pc[c] \notin Registering

\* After close, a step with the same waiters and nobody new registering keeps
\* what close has achieved.
LEMMA CloseSame ==
  ASSUME CloseInv, UNCHANGED <<close_pc, closed>>,
         close_pc = "shut" =>
           /\ UNCHANGED <<send_waitq, recv_waitq>>
           /\ \A c \in Coro : pc'[c] = pc[c] \/ pc'[c] \notin Registering
  PROVE  CloseInv'
BY DEF CloseInv

\* Every step keeps what close has achieved.
LEMMA CloseStep == IInv /\ CloseInv /\ [Next]_vars => CloseInv'
<1> SUFFICES ASSUME IInv, CloseInv, [Next]_vars PROVE CloseInv'
  OBVIOUS
<1>t. TypeOK
  BY DEF IInv
<1>1. ASSUME NEW c \in Coro,
             Begin(c) \/ CheckAtTop(c) \/ CheckBeforeParking(c) \/ Register(c)
               \/ SwapOut(c) \/ Run(c)
      PROVE  CloseInv'
  <2>1. UNCHANGED <<close_pc, closed>>
    BY <1>1 DEF Begin, CheckAtTop, CheckBeforeParking, Register, SwapOut, Run, chanVars
  <2>2. ASSUME close_pc = "shut"
        PROVE  /\ UNCHANGED <<send_waitq, recv_waitq>>
               /\ \A d \in Coro : pc'[d] = pc[d] \/ pc'[d] \notin Registering
    <3>1. pc[c] \notin Registering
      BY <2>2 DEF CloseInv
    <3>2. Begin(c) \/ CheckAtTop(c) \/ Run(c)
      BY <1>1, <3>1 DEF CheckBeforeParking, Register, SwapOut, Registering
    <3> QED BY <1>t, <3>2, GotoMoves DEF Begin, CheckAtTop, Run, Registering, waitVars
  <2> QED BY <2>1, <2>2, CloseSame
<1>2. ASSUME NEW c \in Coro, TrySend(c) PROVE CloseInv'
  <2>1. UNCHANGED <<close_pc, closed>>
    BY <1>2 DEF TrySend, Put, Blocked, chanVars
  <2>2. ASSUME close_pc = "shut"
        PROVE  /\ UNCHANGED <<send_waitq, recv_waitq>>
               /\ \A d \in Coro : pc'[d] = pc[d] \/ pc'[d] \notin Registering
    <3>1. closed
      BY <2>2 DEF CloseInv
    <3> QED BY <1>2, <1>t, <3>1, GotoMoves DEF TrySend, Registering, waitVars
  <2> QED BY <2>1, <2>2, CloseSame
<1>3. ASSUME NEW c \in Coro, TryRecv(c) \/ Poll(c) PROVE CloseInv'
  <2>1. UNCHANGED <<close_pc, closed>>
    BY <1>3 DEF TryRecv, Poll, Take, Blocked, chanVars
  <2>2. ASSUME close_pc = "shut"
        PROVE  /\ UNCHANGED <<send_waitq, recv_waitq>>
               /\ \A d \in Coro : pc'[d] = pc[d] \/ pc'[d] \notin Registering
    <3>1. closed /\ send_waitq = <<>>
      BY <2>2 DEF CloseInv
    <3>2. UNCHANGED <<send_waitq, recv_waitq>>
      BY <1>3, <3>1 DEF TryRecv, Poll, WakeOldestSender, waitVars
    <3>3. \A d \in Coro : pc'[d] = pc[d] \/ pc'[d] \notin Registering
      BY <1>3, <1>t, <3>1, GotoMoves DEF TryRecv, Poll, Registering
    <3> QED BY <3>2, <3>3
  <2> QED BY <2>1, <2>2, CloseSame
<1>4. CASE CloseStore
  BY <1>4 DEF CloseStore, CloseInv
<1>5. CASE CloseWakeAll
  <2>1. \A c \in Coro : pc[c] \notin Registering
    BY <1>5, NobodyRegisters DEF CloseWakeAll
  <2> QED BY <1>5, <2>1 DEF CloseWakeAll, CloseInv, chanVars
<1>6. CASE CancelWake
  <2>1. UNCHANGED <<close_pc, closed, pc>>
    BY <1>6 DEF CancelWake, chanVars
  <2>2. close_pc = "shut" => UNCHANGED <<send_waitq, recv_waitq>>
    BY <1>6 DEF CancelWake, WakeCoro, CloseInv, Without, Members, waitVars
  <2> QED BY <2>1, <2>2, CloseSame
<1>7. CASE \/ ScopeCancel \/ ParentParks \/ CancelPeek \/ JoinRewake
           \/ UNCHANGED vars \/ \E c \in Scoped : CancelMark(c) \/ RewakePeek(c)
  <2>1. UNCHANGED <<close_pc, closed, pc, send_waitq, recv_waitq>>
    BY <1>7 DEF ScopeCancel, ParentParks, CancelPeek, JoinRewake, CancelMark, RewakePeek,
                vars, chanVars, waitVars
  <2> QED BY <2>1, CloseSame
<1> QED BY <1>1, <1>2, <1>3, <1>4, <1>5, <1>6, <1>7 DEF Next, CoroStep, CancelStep

\* After jinn_chan_close has returned no coroutine is, or ever becomes, parked
\* on the channel, although the flag is stored before the lock is taken.
THEOREM CloseCorrect == Spec => []ClosedFreesAll
<1>1. Init => CloseInv
  BY DEF Init, CloseInv
<1>2. CloseInv => ClosedFreesAll
  BY DEF CloseInv, ClosedFreesAll
<1> QED BY <1>1, <1>2, Invariance, CloseStep, PTL DEF Spec

----------------------------------------------------------------------------
(* Refinement                                                              *)

Queue == [i \in 1..(tail - head) |-> buffer[(head + i - 1) % Capacity]]

\* What a sequence holds after its first h elements.
After(s, h) == [i \in 1..(Len(s) - h) |-> s[h + i]]

\* The values after the first n form a sequence of values.
LEMMA AfterIsSeq ==
  ASSUME NEW S, NEW s \in Seq(S), NEW h \in 0..Len(s)
  PROVE  After(s, h) \in Seq(S) /\ Len(After(s, h)) = Len(s) - h
<1>1. Len(s) - h \in Nat /\ \A i \in 1..(Len(s) - h) : s[h + i] \in S
  OBVIOUS
<1> QED BY <1>1 DEF After

\* Sending appends to the values in flight.
LEMMA AfterAppend ==
  ASSUME NEW S, NEW s \in Seq(S), NEW h \in 0..Len(s), NEW v \in S
  PROVE  After(Append(s, v), h) = Append(After(s, h), v)
<1> DEFINE n == Len(s) - h
           a == After(Append(s, v), h)
           b == Append(After(s, h), v)
<1>1. n \in Nat /\ h + (n + 1) = Len(s) + 1 /\ Len(Append(s, v)) - h = n + 1
  OBVIOUS
<1>2. After(s, h) \in Seq(S) /\ Len(After(s, h)) = n
  BY AfterIsSeq
<1>3. a = [i \in 1..(n + 1) |-> Append(s, v)[h + i]]
  BY <1>1 DEF After
<1>4. b \in Seq(S) /\ Len(b) = n + 1 /\ DOMAIN b = 1..(n + 1)
  BY <1>2
<1> HIDE DEF n
<1>5. ASSUME NEW i \in 1..(n + 1) PROVE Append(s, v)[h + i] = b[i]
  <2>1. CASE i = n + 1
    BY <1>1, <1>2, <2>1
  <2>2. CASE i \in 1..n
    <3>1. Append(s, v)[h + i] = s[h + i]
      BY <2>2 DEF n
    <3>2. b[i] = After(s, h)[i]
      BY <1>2, <2>2
    <3> QED BY <2>2, <3>1, <3>2 DEF After, n
  <2>3. n \in Nat
    BY <1>1
  <2>4. i = n + 1 \/ i \in 1..n
    BY <2>3
  <2> QED BY <2>1, <2>2, <2>4
<1> HIDE DEF b
<1>6. b = [i \in 1..(n + 1) |-> b[i]]
  BY <1>4
<1>7. a = b
  BY <1>3, <1>5, <1>6
<1> QED BY <1>7 DEF b

\* Receiving drops the first of the values in flight.
LEMMA AfterNext ==
  ASSUME NEW S, NEW s \in Seq(S), NEW h \in 0..Len(s), h < Len(s)
  PROVE  /\ After(s, h) # <<>>
         /\ Head(After(s, h)) = s[h + 1]
         /\ Tail(After(s, h)) = After(s, h + 1)
<1> DEFINE n == Len(s) - h
           a == After(s, h)
<1>1. a \in Seq(S) /\ Len(a) = n /\ n \in Nat \ {0} /\ h + 1 \in 0..Len(s)
  BY AfterIsSeq
<1>2. \A i \in 1..n : a[i] = s[h + i]
  BY DEF After
<1> HIDE DEF a
<1>3. a # <<>> /\ Head(a) = s[h + 1]
  BY <1>1, <1>2
<1>4. Tail(a) \in Seq(S) /\ Len(Tail(a)) = n - 1 /\ \A i \in 1..(n - 1) : Tail(a)[i] = a[i + 1]
  BY <1>1, <1>3
<1>5. \A i \in 1..(n - 1) : a[i + 1] = s[h + 1 + i]
  BY <1>1, <1>2
<1>6. After(s, h + 1) = [i \in 1..(n - 1) |-> s[h + 1 + i]]
  BY DEF After
<1>7. Tail(a) = [i \in 1..(n - 1) |-> Tail(a)[i]]
  <2> DEFINE r == Tail(a)
  <2>1. r \in Seq(S) /\ Len(r) = n - 1
    BY <1>4
  <2> HIDE DEF r
  <2>2. r = [i \in 1..(n - 1) |-> r[i]]
    BY <2>1
  <2> QED BY <2>2 DEF r
<1>8. Tail(a) = After(s, h + 1)
  BY <1>4, <1>5, <1>6, <1>7
<1> QED BY <1>3, <1>8 DEF a

\* Positions of the queue and counters of the ring correspond.
LEMMA IndexShift ==
  ASSUME NEW h \in Nat, NEW t \in Nat, NEW i \in 1..(t - h)
  PROVE  h + i - 1 \in h..(t - 1) /\ (h + i - 1) + 1 = h + i
OBVIOUS

\* The slots between head and tail, read in order, are the values in flight.
LEMMA QueueIsPending ==
  ASSUME TypeOK, RingHoldsPending
  PROVE  Queue = After(sent, head) /\ head \in 0..Len(sent) /\ tail = Len(sent)
<1>1. sent \in Seq(Value) /\ head \in 0..Len(sent) /\ tail = Len(sent)
  BY DEF TypeOK, RingHoldsPending
<1>2. ASSUME NEW i \in 1..(tail - head)
      PROVE  buffer[(head + i - 1) % Capacity] = sent[head + i]
  <2>0. head \in Nat /\ tail \in Nat
    BY DEF TypeOK
  <2>1. head + i - 1 \in head..(tail - 1) /\ (head + i - 1) + 1 = head + i
    BY <2>0, IndexShift
  <2>2. buffer[(head + i - 1) % Capacity] = sent[(head + i - 1) + 1]
    BY <2>1 DEF RingHoldsPending
  <2> QED BY <2>1, <2>2
<1> QED BY <1>1, <1>2 DEF Queue, After

\* The same of the next state.
LEMMA QueueIsPendingNext ==
  ASSUME TypeOK', RingHoldsPending'
  PROVE  Queue' = After(sent', head') /\ head' \in 0..Len(sent') /\ tail' = Len(sent')
<1>1. sent' \in Seq(Value) /\ head' \in 0..Len(sent') /\ tail' = Len(sent')
  BY DEF TypeOK, RingHoldsPending
<1>2. ASSUME NEW i \in 1..(tail' - head')
      PROVE  buffer'[(head' + i - 1) % Capacity] = sent'[head' + i]
  <2>0. head' \in Nat /\ tail' \in Nat
    BY DEF TypeOK
  <2>1. head' + i - 1 \in head'..(tail' - 1) /\ (head' + i - 1) + 1 = head' + i
    BY <2>0, IndexShift
  <2>2. buffer'[(head' + i - 1) % Capacity] = sent'[(head' + i - 1) + 1]
    BY <2>1 DEF RingHoldsPending
  <2> QED BY <2>1, <2>2
<1> QED BY <1>1, <1>2 DEF Queue, After

\* A send is Accept of the bounded queue.
LEMMA AcceptStep ==
  ASSUME IInv, IInv', ~closed, HasRoom, NEW v \in Value, Put(v)
  PROVE  Fifo!Accept(v)
<1>1. head' = head /\ sent' = Append(sent, v) /\ rcvd' = rcvd /\ closed' = closed
  BY DEF Put
<1>2. sent \in Seq(Value) /\ head \in 0..Len(sent) /\ tail = Len(sent) /\ Queue = After(sent, head)
  BY QueueIsPending DEF IInv, TypeOK
<1>3. Queue' = Append(Queue, v)
  BY <1>1, <1>2, QueueIsPendingNext, AfterAppend DEF IInv
<1>4. Len(Queue) < Capacity
  BY <1>2, AfterIsSeq DEF HasRoom
<1> QED BY <1>1, <1>3, <1>4 DEF Fifo!Accept, Queue

\* A receive is HandOut of the bounded queue.
LEMMA HandOutStep ==
  ASSUME IInv, IInv', HasValue, Take
  PROVE  Fifo!HandOut
<1>1. /\ head' = head + 1 /\ sent' = sent /\ closed' = closed
      /\ rcvd' = Append(rcvd, buffer[head % Capacity])
  BY DEF Take
<1>2. /\ sent \in Seq(Value) /\ head \in 0..Len(sent) /\ head < Len(sent)
      /\ Queue = After(sent, head)
  BY QueueIsPending DEF IInv, TypeOK, HasValue
<1>3. Queue # <<>> /\ Head(Queue) = sent[head + 1] /\ Tail(Queue) = After(sent, head + 1)
  BY <1>2, AfterNext
<1>4. Queue' = Tail(Queue)
  BY <1>1, <1>3, QueueIsPendingNext DEF IInv
<1>5. buffer[head % Capacity] = sent[head + 1]
  BY TakesASentValue DEF IInv
<1> QED BY <1>1, <1>3, <1>4, <1>5 DEF Fifo!HandOut, Queue

\* Every step of the channel is a step of the queue or leaves it as it is.
LEMMA FifoStep == IInv /\ IInv' /\ [Next]_vars => [Fifo!FifoNext]_(Fifo!fifoVars)
<1> SUFFICES ASSUME IInv, IInv', [Next]_vars PROVE [Fifo!FifoNext]_(Fifo!fifoVars)
  OBVIOUS
<1>s. ASSUME UNCHANGED chanVars PROVE UNCHANGED Fifo!fifoVars
  BY <1>s DEF chanVars, Fifo!fifoVars
<1>1. ASSUME NEW c \in Coro, TrySend(c) PROVE [Fifo!FifoNext]_(Fifo!fifoVars)
  <2>1. CASE ~closed /\ HasRoom
    <3>1. PICK v \in Value : Put(v)
      BY <1>1, <2>1 DEF TrySend
    <3>2. Fifo!Accept(v)
      BY <2>1, <3>1, AcceptStep
    <3> QED BY <3>2 DEF Fifo!FifoNext
  <2>2. CASE closed \/ ~HasRoom
    BY <1>1, <1>s, <2>2 DEF TrySend, Blocked
  <2> QED BY <2>1, <2>2
<1>2. ASSUME NEW c \in Coro, TryRecv(c) \/ Poll(c) PROVE [Fifo!FifoNext]_(Fifo!fifoVars)
  <2>1. CASE HasValue
    <3>1. Take
      BY <1>2, <2>1 DEF TryRecv, Poll
    <3>2. Fifo!HandOut
      BY <2>1, <3>1, HandOutStep
    <3> QED BY <3>2 DEF Fifo!FifoNext
  <2>2. CASE ~HasValue
    BY <1>2, <1>s, <2>2 DEF TryRecv, Poll, Blocked
  <2> QED BY <2>1, <2>2
<1>3. CASE CloseStore
  <2>1. UNCHANGED <<head, tail, buffer, rcvd>> /\ closed' = TRUE
    BY <1>3 DEF CloseStore
  <2>2. CASE closed
    BY <2>1, <2>2 DEF Fifo!fifoVars
  <2>3. CASE ~closed
    <3>1. Fifo!Shut
      BY <2>1, <2>3 DEF Fifo!Shut
    <3> QED BY <3>1 DEF Fifo!FifoNext
  <2> QED BY <2>2, <2>3
<1>4. ASSUME NEW c \in Coro,
             Begin(c) \/ CheckAtTop(c) \/ CheckBeforeParking(c) \/ Register(c)
               \/ SwapOut(c) \/ Run(c)
      PROVE  UNCHANGED chanVars
  BY <1>4 DEF Begin, CheckAtTop, CheckBeforeParking, Register, SwapOut, Run
<1>5. CASE CloseWakeAll \/ ScopeCancel \/ CancelStep \/ UNCHANGED vars
  <2>1. UNCHANGED chanVars
    BY <1>5 DEF CloseWakeAll, ScopeCancel, CancelStep, ParentParks, CancelPeek, CancelWake,
         JoinRewake, CancelMark, RewakePeek, vars
  <2> QED BY <1>s, <2>1
<1> QED BY <1>1, <1>2, <1>3, <1>4, <1>5, <1>s DEF Next, CoroStep

\* The channel implements the bounded first-in first-out queue of BoundedFifo:
\* ring, locks, parking, wake-ups, close and cancellation are invisible.
THEOREM ChannelIsFifo == Spec => ImplementsFifo
<1>1. Init => Fifo!FifoInit
  <2> SUFFICES ASSUME Init PROVE Fifo!FifoInit
    OBVIOUS
  <2>1. Queue = <<>>
    BY DEF Init, Queue
  <2> QED BY <2>1 DEF Init, Fifo!FifoInit, Queue
<1> QED BY <1>1, Invariance, FifoStep, PTL DEF Spec, ImplementsFifo, Fifo!FifoSpec
============================================================================
