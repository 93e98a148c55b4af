---------------------------- MODULE ActorsProofs ----------------------------
(***************************************************************************)
(* What an actor is sent is handled once, in order, or dropped once        *)
(* (PayloadsSettled), for any handlers, senders, mailbox capacity and      *)
(* number of messages.                                                     *)
(*                                                                         *)
(* A supervisor keeps one server for every child (OneServer), at rest has  *)
(* brought every child back (AllServed), and pays no more than one restart *)
(* for a stop (RestartsPaid, one_for_one), for any number of children,     *)
(* workers, restarts and stops.                                            *)
(***************************************************************************)
EXTENDS Actor, Supervisor, FiniteSetTheorems, WellFoundedInduction, TLAPS

Gone == {"signal", "destroy", "retire", "done"}
Left == Gone \cup {"exit"}
Pcs == Left \cup {"new", "ready", "yielded", "loop", "receive", "parked", "dispatch"}
Resting == {"ready", "yielded", "parked", "done"}

Value == Nat \X Nat
Message == {[tag |-> t, payload |-> Pack(t, n)] : t \in DOMAIN Handlers, n \in Nat}
Owned(m) == OwnedIn(m.tag, m.payload)

-----------------------------------------------------------------------------
(* An actor: the inductive invariant *)

ActorTypes ==
  /\ akind \in {"message", "loop"} /\ acancelled \in BOOLEAN /\ mclosed \in BOOLEAN
  /\ apc \in Pcs /\ sends \in Nat
  /\ mring \in Seq(Message) /\ (apc = "dispatch" => amsg \in Message)
  /\ posted \in Seq(SUBSET Value) /\ handled \in Seq(SUBSET Value)
  /\ frees \in [DOMAIN frees -> Nat]
  /\ \A v \in DOMAIN frees : v \in Value /\ v[1] <= sends

\* Nothing but its default state belongs to an actor that was not spawned yet, and
\* nothing moves once the program has ended.
Phases ==
  /\ epc = "spawn" => apc = "new" /\ astate = <<0, 1>> /\ DOMAIN frees = {astate}
  /\ epc = "ended" => apc \in Resting
  /\ astate = NoValue <=> apc \in Gone
  /\ latch => apc \in {"destroy", "retire", "done"}

\* The places that own values are apart, and own values that exist.
Places ==
  /\ astate # NoValue => astate \in DOMAIN frees
  /\ \A i \in DOMAIN mring : Owned(mring[i]) \subseteq DOMAIN frees /\ astate \notin Owned(mring[i])
  /\ \A i, j \in DOMAIN mring : i # j => Owned(mring[i]) \cap Owned(mring[j]) = {}
  /\ apc = "dispatch" =>
       /\ Owned(amsg) \subseteq DOMAIN frees /\ astate \notin Owned(amsg)
       /\ \A i \in DOMAIN mring : Owned(amsg) \cap Owned(mring[i]) = {}

\* What was accepted is what was handled, then the message in hand, then the ring.
InHand == IF apc = "dispatch" THEN 1 ELSE 0
Flow ==
  /\ epc # "ended" => Len(posted) = Len(handled) + InHand + Len(mring)
  /\ Len(handled) + InHand <= Len(posted)
  /\ \A i \in DOMAIN handled : handled[i] = posted[i]
  /\ apc = "dispatch" => posted[Len(handled) + 1] = Owned(amsg)
  /\ epc # "ended" => \A i \in DOMAIN mring : posted[Len(handled) + InHand + i] = Owned(mring[i])

\* Who left the loop was cancelled, or stopped and through with all messages.
Through == apc \in Left => (akind = "message" /\ acancelled) \/ (mclosed /\ handled = posted)

AInv == ActorTypes /\ Phases /\ Places /\ DroppedOnce /\ Flow /\ Through

\* A set of numbers from a finite set has a greatest element.
LEMMA Greatest ==
  ASSUME NEW S, S \subseteq Nat, IsFiniteSet(S), NEW T, T \subseteq S, T # {}
  PROVE  \E x \in T : \A y \in T : y <= x
<1> DEFINE Above(x) == {r \in S : r > x}
           C == {Cardinality(Above(x)) : x \in T}
<1>1. \A x \in T : IsFiniteSet(Above(x)) /\ Cardinality(Above(x)) \in Nat
  BY FS_Subset, FS_CardinalityType
<1>2. C \subseteq Nat /\ C # {}
  BY <1>1
<1>3. PICK n \in C : \A k \in C : ~(<<k, n>> \in OpToRel(<, Nat))
  <2> HIDE DEF C
  <2> QED
    BY <1>2, NatLessThanWellFounded, WFMin, Zenon
<1>4. \A k \in C : ~(k < n)
  <2>1. \A k, m \in Nat : k < m => <<k, m>> \in OpToRel(<, Nat)
    BY DEF OpToRel
  <2> QED
    BY <1>2, <1>3, <2>1
<1>5. PICK x \in T : n = Cardinality(Above(x))
  OBVIOUS
<1>6. ASSUME NEW y \in T, y > x PROVE FALSE
  <2>1. x \in Nat /\ y \in Nat /\ y \in S
    OBVIOUS
  <2>2. Above(y) \subseteq Above(x) /\ y \in Above(x) /\ y \notin Above(y)
    <3>1. \A r \in S : r \in Nat
      OBVIOUS
    <3>2. \A r \in S : r > y => r > x
      BY <1>6, <2>1, <3>1
    <3>3. Above(y) \subseteq Above(x)
      BY <3>2
    <3>4. y \in Above(x)
      BY <1>6, <2>1
    <3>5. ~(y > y)
      BY <2>1
    <3> QED
      BY <3>3, <3>4, <3>5
  <2>3. Cardinality(Above(y)) <= Cardinality(Above(x)) /\ (Cardinality(Above(x)) = Cardinality(Above(y)) => Above(x) = Above(y))
    <3> HIDE DEF Above
    <3> QED
      BY <1>1, <2>2, FS_Subset
  <2>4. Cardinality(Above(y)) < n /\ Cardinality(Above(y)) \in C
    <3>1. Cardinality(Above(y)) # Cardinality(Above(x))
      BY <2>2, <2>3
    <3> HIDE DEF Above
    <3> QED
      BY <1>1, <1>5, <2>3, <3>1
  <2> QED
    BY <1>4, <2>4
<1>7. \A y \in T : y <= x
  <2>1. ASSUME NEW y \in T PROVE y <= x
    <3>1. y \in Nat /\ x \in Nat /\ ~(y > x)
      BY <1>6
    <3> QED
      BY <3>1
  <2> QED
    BY <2>1
<1> QED
  BY <1>7

-----------------------------------------------------------------------------
(* Facts about payloads *)

\* A later parameter starts at a later word.
LEMMA OffsetFacts ==
  ASSUME NEW ps \in Seq({"int", "own"}), NEW k \in 1..(Len(ps) + 1)
  PROVE  /\ Offset(ps, k) \in Nat
         /\ \A j \in 1..(Len(ps) + 1) : k < j => Offset(ps, k) + 1 <= Offset(ps, j)
<1> DEFINE Before(j) == {i \in 1..(j - 1) : ps[i] = "own"}
<1>1. ASSUME NEW j \in 1..(Len(ps) + 1) PROVE IsFiniteSet(Before(j)) /\ Cardinality(Before(j)) \in Nat
  <2>1. IsFiniteSet(1..(j - 1))
    BY FS_Interval
  <2>2. Before(j) \in SUBSET (1..(j - 1))
    OBVIOUS
  <2> QED
    BY <2>1, <2>2, FS_Subset, FS_CardinalityType
<1>2. ASSUME NEW j \in 1..(Len(ps) + 1), k < j PROVE Cardinality(Before(k)) <= Cardinality(Before(j))
  <2>1. Before(k) \in SUBSET Before(j)
    BY <1>2
  <2> QED
    BY <1>1, <2>1, FS_Subset
<1>3. \A j : Offset(ps, j) = (j - 1) + Cardinality(Before(j))
  BY DEF Offset
<1> HIDE DEF Before
<1>4. Offset(ps, k) \in Nat
  BY <1>1, <1>3
<1>5. ASSUME NEW j \in 1..(Len(ps) + 1), k < j PROVE Offset(ps, k) + 1 <= Offset(ps, j)
  <2>1. /\ Cardinality(Before(k)) \in Nat /\ Cardinality(Before(j)) \in Nat
        /\ Cardinality(Before(k)) <= Cardinality(Before(j))
    BY <1>1, <1>2, <1>5
  <2> QED
    BY <1>3, <1>5, <2>1
<1> QED
  BY <1>4, <1>5

\* The payload has room for the parameters of every handler.
LEMMA PayloadFits ==
  /\ PayloadSize \in Nat
  /\ \A t \in DOMAIN Handlers : Offset(Handlers[t], Len(Handlers[t]) + 1) <= PayloadSize
<1> DEFINE size == [t \in 0..Len(Handlers) |-> IF t = 0 THEN 2 ELSE Offset(Handlers[t], Len(Handlers[t]) + 1)]
           S == {2} \cup {Offset(Handlers[t], Len(Handlers[t]) + 1) : t \in DOMAIN Handlers}
<1>1. Handlers \in Seq(Seq({"int", "own"})) /\ DOMAIN Handlers = 1..Len(Handlers) /\ Len(Handlers) \in Nat
  BY ActorAssumption
<1>2. ASSUME NEW t \in DOMAIN Handlers PROVE Offset(Handlers[t], Len(Handlers[t]) + 1) \in Nat
  <2>1. Handlers[t] \in Seq({"int", "own"})
    BY <1>1
  <2>2. Len(Handlers[t]) + 1 \in 1..(Len(Handlers[t]) + 1)
    BY <2>1
  <2> QED
    BY <2>1, <2>2, OffsetFacts
<1>3. S \subseteq Nat
  BY <1>2
<1>4. size \in [0..Len(Handlers) -> S]
  BY <1>1
<1>5. \A x \in S : \E t \in 0..Len(Handlers) : size[t] = x
  <2>1. size[0] = 2 /\ 0 \in 0..Len(Handlers)
    BY <1>1
  <2>2. \A t \in DOMAIN Handlers : t \in 0..Len(Handlers) /\ size[t] = Offset(Handlers[t], Len(Handlers[t]) + 1)
    BY <1>1
  <2> HIDE DEF size
  <2> QED
    BY <2>1, <2>2
<1>6. IsFiniteSet(S)
  <2> HIDE DEF S, size
  <2>1. size \in Surjection(0..Len(Handlers), S)
    BY <1>4, <1>5 DEF Surjection
  <2>2. IsFiniteSet(0..Len(Handlers))
    BY <1>1, FS_Interval
  <2> QED
    BY <2>1, <2>2, FS_Surjection DEF ExistsSurjection
<1>7. S # {}
  OBVIOUS
<1>8. PICK x \in S : \A y \in S : y <= x
  <2> HIDE DEF S
  <2> QED
    BY <1>3, <1>6, <1>7, Greatest
<1>9. PayloadSize \in S /\ \A y \in S : PayloadSize >= y
  <2>1. PayloadSize = CHOOSE z \in S : \A y \in S : z >= y
    BY DEF PayloadSize, Max
  <2>2. \A y \in S : x >= y
    BY <1>3, <1>8
  <2> HIDE DEF S
  <2> QED
    BY <2>1, <2>2
<1> QED
  BY <1>2, <1>3, <1>9

\* The handler and the drop function find each argument where the send has put it.
LEMMA PackFacts ==
  ASSUME NEW t \in DOMAIN Handlers, NEW n \in Nat
  PROVE  /\ OwnedIn(t, Pack(t, n)) = Args(t, n) /\ Args(t, n) \subseteq Value
         /\ \A v \in Args(t, n) : v[1] = n
<1> DEFINE ps == Handlers[t]
           cell(k) == Offset(ps, k) + 1
<1>1. ps \in Seq({"int", "own"}) /\ DOMAIN ps = 1..Len(ps) /\ Len(ps) \in Nat
  BY ActorAssumption
<1>2. \A k \in DOMAIN ps : k \in 1..(Len(ps) + 1) /\ k < Len(ps) + 1 /\ Len(ps) + 1 \in 1..(Len(ps) + 1)
  BY <1>1
<1>3. ASSUME NEW k \in DOMAIN ps PROVE Offset(ps, k) \in Nat /\ Offset(ps, k) + 1 <= Offset(ps, Len(ps) + 1)
  BY <1>1, <1>2, OffsetFacts
<1>4. ASSUME NEW k \in DOMAIN ps, NEW j \in DOMAIN ps, cell(k) = cell(j) PROVE k = j
  <2>1. k \in Nat /\ j \in Nat /\ Offset(ps, k) \in Nat /\ Offset(ps, j) \in Nat
    BY <1>1, <1>3
  <2>2. ~(k < j)
    <3>1. k < j => Offset(ps, k) + 1 <= Offset(ps, j)
      BY <1>1, <1>2, OffsetFacts
    <3> QED
      BY <1>4, <2>1, <3>1
  <2>3. ~(j < k)
    <3>1. j < k => Offset(ps, j) + 1 <= Offset(ps, k)
      BY <1>1, <1>2, OffsetFacts
    <3> QED
      BY <1>4, <2>1, <3>1
  <2> QED
    BY <2>1, <2>2, <2>3
<1>5. ASSUME NEW k \in DOMAIN ps PROVE cell(k) \in 1..PayloadSize
  <2>1. Offset(ps, Len(ps) + 1) <= PayloadSize /\ PayloadSize \in Nat /\ Offset(ps, Len(ps) + 1) \in Nat
    BY <1>1, <1>2, PayloadFits, OffsetFacts
  <2> QED
    BY <1>3, <2>1
<1>6. Owning(t) \subseteq DOMAIN ps
  BY DEF Owning
<1>7. ASSUME NEW k \in Owning(t) PROVE Pack(t, n)[Offset(ps, k) + 1] = <<n, k>>
  <2> DEFINE here == {j \in Owning(t) : cell(k) = Offset(Handlers[t], j) + 1}
  <2>1. here = {k}
    BY <1>4, <1>6, <1>7
  <2>2. k \in Nat
    BY <1>1, <1>6, <1>7
  <2>3. Max({k}) = k
    BY <2>2 DEF Max
  <2>4. cell(k) \in 1..PayloadSize
    BY <1>5, <1>6, <1>7
  <2>5. Pack(t, n)[cell(k)] = IF here = {} THEN NoValue ELSE <<n, Max(here)>>
    BY <2>4 DEF Pack
  <2> QED
    BY <2>1, <2>3, <2>5
<1>8. OwnedIn(t, Pack(t, n)) = Args(t, n)
  <2>1. OwnedIn(t, Pack(t, n)) = {Pack(t, n)[Offset(ps, k) + 1] : k \in Owning(t)}
    BY DEF OwnedIn
  <2> QED
    BY <1>7, <2>1 DEF Args
<1>9. Args(t, n) \subseteq Value /\ \A v \in Args(t, n) : v[1] = n
  BY <1>1, <1>6 DEF Args, Value
<1> QED
  BY <1>8, <1>9

\* A message owns values only.
LEMMA MessageFacts ==
  ASSUME NEW m \in Message PROVE Owned(m) \subseteq Value /\ NoValue \notin Owned(m)
<1>1. PICK t \in DOMAIN Handlers, n \in Nat : m = [tag |-> t, payload |-> Pack(t, n)]
  BY DEF Message
<1>2. Owned(m) = Args(t, n)
  BY <1>1, PackFacts DEF Owned
<1>3. NoValue \notin Value
  BY DEF NoValue, Value
<1> QED
  BY <1>2, <1>3, PackFacts

\* A drop counts for the values dropped and for no other.
LEMMA FreedFacts ==
  ASSUME NEW f, NEW D, f \in [D -> Nat], NEW vs
  PROVE  /\ Freed(f, vs) \in [D -> Nat] /\ DOMAIN Freed(f, vs) = D /\ DOMAIN f = D
         /\ \A v \in D : Freed(f, vs)[v] = IF v \in vs THEN f[v] + 1 ELSE f[v]
<1>1. DOMAIN f = D /\ \A v \in D : f[v] \in Nat
  OBVIOUS
<1> QED
  BY <1>1 DEF Freed

\* A new value was not dropped yet; the others keep their count.
LEMMA MadeFacts ==
  ASSUME NEW f, NEW D, f \in [D -> Nat], NEW vs
  PROVE  /\ Made(f, vs) \in [D \cup vs -> Nat] /\ DOMAIN Made(f, vs) = D \cup vs
         /\ \A v \in D : Made(f, vs)[v] = f[v]
         /\ \A v \in vs : v \notin D => Made(f, vs)[v] = 0
<1>1. DOMAIN f = D /\ \A v \in D : f[v] \in Nat
  OBVIOUS
<1> QED
  BY <1>1 DEF Made

\* What is held, by place.
LEMMA HeldFacts ==
  /\ \A v : v \in Held <=> \/ astate # NoValue /\ v = astate
                           \/ \E i \in DOMAIN mring : v \in Owned(mring[i])
                           \/ apc = "dispatch" /\ v \in Owned(amsg)
  /\ \A v : v \in Held' <=> \/ astate' # NoValue /\ v = astate'
                            \/ \E i \in DOMAIN mring' : v \in Owned(mring'[i])
                            \/ apc' = "dispatch" /\ v \in Owned(amsg')
BY DEF Held, Owned

-----------------------------------------------------------------------------
(* The steps *)

\* A step that moves no message and no value.
LEMMA ActorQuietStep ==
  ASSUME AInv, UNCHANGED <<akind, mring, amsg, astate, sends, posted, handled, frees>>,
         acancelled' \in BOOLEAN, mclosed' \in BOOLEAN, apc' \in Pcs,
         acancelled => acancelled', mclosed => mclosed',
         apc # "dispatch", apc' # "dispatch", apc' \in Gone <=> apc \in Gone,
         epc # "ended", epc' # "spawn", epc' # "ended",
         latch' => apc' \in {"destroy", "retire", "done"},
         apc' \in Left => apc \in Left \/ (akind = "message" /\ acancelled) \/ (mclosed /\ mring = <<>>)
  PROVE  AInv'
<1>1. ActorTypes /\ Phases /\ Places /\ DroppedOnce /\ Flow /\ Through
  BY DEF AInv
<1>2. ActorTypes'
  BY <1>1 DEF ActorTypes
<1>3. Phases'
  BY <1>1 DEF Phases
<1>4. \A m : Owned(m)' = Owned(m)
  BY DEF Owned
<1>5. Places'
  BY <1>1 DEF Places, Owned
<1>6. Held' = Held
  BY DEF Held
<1>7. DroppedOnce'
  BY <1>1, <1>6 DEF DroppedOnce
<1>8. InHand = 0 /\ InHand' = 0
  BY DEF InHand
<1>9. Flow'
  BY <1>1, <1>8 DEF Flow, Owned
<1>10. mring = <<>> => handled = posted
  <2>1. handled \in Seq(SUBSET Value) /\ posted \in Seq(SUBSET Value)
    BY <1>1 DEF ActorTypes
  <2>2. mring = <<>> => Len(posted) = Len(handled)
    BY <1>1, <1>8, <2>1 DEF Flow
  <2> QED
    BY <1>1, <2>1, <2>2 DEF Flow
<1>11. Through'
  BY <1>1, <1>10 DEF Through
<1> QED
  BY <1>2, <1>3, <1>5, <1>7, <1>9, <1>11 DEF AInv

\* The steps of the coroutine.
LEMMA CoroutineSteps ==
  ASSUME AInv,
         \/ Resumed \/ LoopHandler \/ SignalLatch \/ jinn_actor_unregister_live \/ jinn_actor_retire_mailbox
  PROVE  AInv'
<1>1. ActorTypes /\ Phases
  BY DEF AInv
<1>2. apc \in {"ready", "yielded", "loop", "signal", "destroy", "retire"} /\ epc # "ended"
  BY <1>1 DEF Resumed, LoopHandler, SignalLatch, jinn_actor_unregister_live, jinn_actor_retire_mailbox, Phases, Resting
<1>3. /\ UNCHANGED <<akind, mring, amsg, astate, acancelled, epc, sends, posted, handled, frees>>
      /\ mclosed' \in BOOLEAN /\ (mclosed => mclosed')
  BY <1>1 DEF Resumed, LoopHandler, SignalLatch, jinn_actor_unregister_live, jinn_actor_retire_mailbox, ActorTypes
<1>4. \/ apc \in {"ready", "yielded", "loop"} /\ apc' \in {"loop", "receive", "yielded"} /\ latch' = latch
      \/ apc = "signal" /\ apc' = "destroy"
      \/ apc = "destroy" /\ apc' = "retire"
      \/ apc = "retire" /\ apc' = "done"
  BY DEF Resumed, LoopHandler, SignalLatch, jinn_actor_unregister_live, jinn_actor_retire_mailbox
<1>5. /\ apc' \in Pcs /\ apc # "dispatch" /\ apc' # "dispatch" /\ (apc' \in Gone <=> apc \in Gone)
      /\ (apc' \in Left => apc \in Left) /\ epc # "spawn"
      /\ (latch' => apc' \in {"destroy", "retire", "done"})
  BY <1>1, <1>2, <1>4 DEF Phases, Pcs, Left, Gone
<1> QED
  BY <1>1, <1>2, <1>3, <1>5, ActorQuietStep DEF ActorTypes

\* The steps of *main.
LEMMA ActorMainSteps ==
  ASSUME AInv, jinn_actor_stop \/ CancelActor \/ CancelCloses \/ jinn_actor_stop_all
  PROVE  AInv'
<1>1. ActorTypes /\ Phases /\ epc \in {"run", "cancel"} /\ epc' \in {"run", "cancel", "drain"}
  BY DEF AInv, jinn_actor_stop, CancelActor, CancelCloses, jinn_actor_stop_all
<1>2. /\ UNCHANGED <<akind, mring, amsg, astate, latch, sends, posted, handled, frees>>
      /\ apc' \in {apc, Woken}
  BY DEF jinn_actor_stop, CancelActor, CancelCloses, jinn_actor_stop_all
<1>3. acancelled' \in BOOLEAN /\ (acancelled => acancelled') /\ mclosed' \in BOOLEAN /\ (mclosed => mclosed')
  BY <1>1 DEF jinn_actor_stop, CancelActor, CancelCloses, jinn_actor_stop_all, ActorTypes
<1>4. apc' = apc \/ (apc = "parked" /\ apc' = "ready")
  BY <1>2 DEF Woken
<1>5. CASE apc # "dispatch"
  <2>1. /\ apc' \in Pcs /\ apc' # "dispatch" /\ (apc' \in Gone <=> apc \in Gone) /\ (apc' \in Left => apc \in Left)
        /\ (latch' => apc' \in {"destroy", "retire", "done"})
    BY <1>1, <1>2, <1>4, <1>5 DEF Phases, Pcs, Left, Gone, ActorTypes
  <2> QED
    BY <1>1, <1>2, <1>3, <1>5, <2>1, ActorQuietStep
<1>6. CASE apc = "dispatch"
  <2>1. apc' = apc
    BY <1>4, <1>6
  <2>2. Places /\ DroppedOnce /\ Flow /\ Through
    BY DEF AInv
  <2>3. ActorTypes' /\ Phases'
    BY <1>1, <1>2, <1>3, <2>1 DEF ActorTypes, Phases
  <2>4. Places' /\ Flow'
    BY <1>1, <1>2, <2>1, <2>2 DEF Places, Flow, Owned, InHand
  <2>5. Held' = Held
    BY <1>2, <2>1 DEF Held
  <2>6. DroppedOnce'
    BY <1>2, <2>2, <2>5 DEF DroppedOnce
  <2>7. Through'
    BY <1>6, <2>1 DEF Through, Left, Gone
  <2> QED
    BY <2>3, <2>4, <2>6, <2>7 DEF AInv
<1> QED
  BY <1>5, <1>6

\* A receive that finds nothing, or that sees the cancellation.
LEMMA EmptyReceive ==
  ASSUME AInv, apc = "receive", mring = <<>> \/ (akind = "message" /\ acancelled),
         apc' = (IF mclosed \/ (akind = "message" /\ acancelled) THEN "exit"
                 ELSE IF akind = "loop" THEN "loop" ELSE "parked"),
         UNCHANGED <<akind, mclosed, mring, amsg, astate, acancelled, latch, epc, sends, posted, handled, frees>>
  PROVE  AInv'
<1>1. ActorTypes /\ Phases
  BY DEF AInv
<1>2. /\ epc # "ended" /\ epc # "spawn" /\ apc' \in {"exit", "loop", "parked"}
  BY <1>1 DEF Phases, Resting
<1>3. ~latch
  BY <1>1 DEF Phases
<1>4. apc' \in Left => (akind = "message" /\ acancelled) \/ (mclosed /\ mring = <<>>)
  BY DEF Left, Gone
<1>5. apc' \in Pcs /\ apc # "dispatch" /\ apc' # "dispatch" /\ (apc' \in Gone <=> apc \in Gone)
  BY <1>2 DEF Pcs, Left, Gone
<1> QED
  BY <1>1, <1>2, <1>3, <1>4, <1>5, ActorQuietStep DEF ActorTypes

\* The first message of the ring is the one in hand.
LEMMA ReceiveStep ==
  ASSUME AInv, apc = "receive", mring # <<>>, amsg' = Head(mring), mring' = Tail(mring), apc' = "dispatch",
         UNCHANGED <<akind, mclosed, astate, acancelled, latch, epc, sends, posted, handled, frees>>
  PROVE  AInv'
<1>1. ActorTypes /\ Phases /\ Places /\ DroppedOnce /\ Flow
  BY DEF AInv
<1>2. /\ mring \in Seq(Message) /\ Len(mring) \in Nat \ {0} /\ DOMAIN mring = 1..Len(mring)
      /\ posted \in Seq(SUBSET Value) /\ handled \in Seq(SUBSET Value)
  BY <1>1 DEF ActorTypes
<1>3. /\ mring' \in Seq(Message) /\ Len(mring') = Len(mring) - 1 /\ DOMAIN mring' = 1..(Len(mring) - 1)
      /\ amsg' = mring[1] /\ 1 \in DOMAIN mring /\ amsg' \in Message
      /\ \A i \in DOMAIN mring' : mring'[i] = mring[i + 1] /\ i + 1 \in DOMAIN mring /\ i + 1 # 1
  BY <1>2
<1>4. \A i \in DOMAIN mring : i = 1 \/ (i - 1 \in DOMAIN mring' /\ mring'[i - 1] = mring[i])
  BY <1>2, <1>3
<1>5. epc # "ended" /\ epc # "spawn" /\ ~latch /\ astate # NoValue
  BY <1>1 DEF Phases, Resting, Gone
<1>6. ActorTypes'
  BY <1>1, <1>3 DEF ActorTypes, Pcs
<1>7. Phases'
  BY <1>1, <1>5 DEF Phases, Gone
<1>8. Places'
  <2>1. astate' \in DOMAIN frees'
    BY <1>1, <1>5 DEF Places
  <2>2. \A i \in DOMAIN mring' : Owned(mring'[i]) \subseteq DOMAIN frees /\ astate \notin Owned(mring'[i])
    BY <1>1, <1>3 DEF Places
  <2>3. \A i, j \in DOMAIN mring' : i # j => Owned(mring'[i]) \cap Owned(mring'[j]) = {}
    <3>1. \A i, j \in DOMAIN mring' : i # j => i + 1 # j + 1
      BY <1>2, <1>3
    <3> QED
      BY <1>1, <1>3, <3>1 DEF Places
  <2>4. Owned(amsg') \subseteq DOMAIN frees /\ astate \notin Owned(amsg')
    BY <1>1, <1>3 DEF Places
  <2>5. \A i \in DOMAIN mring' : Owned(amsg') \cap Owned(mring'[i]) = {}
    BY <1>1, <1>3 DEF Places
  <2> QED
    BY <2>1, <2>2, <2>3, <2>4, <2>5 DEF Places, Owned
<1>9. \A v : v \in Held' <=> v \in Held
  <2>1. ASSUME NEW v PROVE (\E i \in DOMAIN mring : v \in Owned(mring[i])) <=>
                           v \in Owned(amsg') \/ \E i \in DOMAIN mring' : v \in Owned(mring'[i])
    BY <1>3, <1>4
  <2> QED
    BY <2>1, HeldFacts
<1>10. DroppedOnce'
  BY <1>1, <1>9 DEF DroppedOnce
<1>11. InHand = 0 /\ InHand' = 1
  BY DEF InHand
<1>12. /\ Len(posted) = Len(handled) + Len(mring) /\ Len(posted) \in Nat /\ Len(handled) \in Nat
       /\ \A i \in DOMAIN mring : posted[Len(handled) + i] = Owned(mring[i])
  BY <1>1, <1>2, <1>5, <1>11 DEF Flow
<1>13. Flow'
  <2>1. Len(posted) = Len(handled) + 1 + Len(mring') /\ Len(handled) + 1 <= Len(posted)
    BY <1>2, <1>3, <1>12
  <2>2. \A i \in DOMAIN handled : handled[i] = posted[i]
    BY <1>1 DEF Flow
  <2>3. posted[Len(handled) + 1] = Owned(amsg')
    BY <1>3, <1>12
  <2>4. ASSUME NEW i \in DOMAIN mring' PROVE posted[Len(handled) + 1 + i] = Owned(mring'[i])
    <3>0. i \in Nat /\ Len(handled) \in Nat
      BY <1>2, <1>3
    <3>1. Len(handled) + 1 + i = Len(handled) + (i + 1)
      BY <3>0
    <3>2. posted[Len(handled) + (i + 1)] = Owned(mring[i + 1])
      BY <1>3, <1>12
    <3> QED
      BY <1>3, <3>1, <3>2
  <2> QED
    BY <1>11, <2>1, <2>2, <2>3, <2>4 DEF Flow, Owned
<1>14. Through'
  BY DEF Through, Left, Gone
<1> QED
  BY <1>6, <1>7, <1>8, <1>10, <1>13, <1>14 DEF AInv

\* The handler drops its arguments, or keeps one and drops the old state instead.
LEMMA DispatchStep ==
  ASSUME AInv, DispatchMessage PROVE AInv'
<1> DEFINE vs == Owned(amsg)
<1>1. ActorTypes /\ Phases /\ Places /\ DroppedOnce /\ Flow
  BY DEF AInv
<1>2. /\ apc = "dispatch" /\ apc' \in {"loop", "receive"} /\ handled' = Append(handled, vs)
      /\ UNCHANGED <<akind, mring, mclosed, amsg, acancelled, latch, epc, sends, posted>>
  BY DEF DispatchMessage, Owned
<1>3. PICK gone : /\ frees' = Freed(frees, gone)
                  /\ \/ gone = vs /\ astate' = astate
                     \/ \E v \in vs : astate' = v /\ gone = (vs \ {v}) \cup {astate}
  BY DEF DispatchMessage, Owned
<1>4. amsg \in Message /\ frees \in [DOMAIN frees -> Nat] /\ vs \subseteq Value /\ NoValue \notin vs
  BY <1>1, <1>2, MessageFacts DEF ActorTypes
<1>5. /\ frees' \in [DOMAIN frees -> Nat] /\ DOMAIN frees' = DOMAIN frees
      /\ \A v \in DOMAIN frees : frees'[v] = IF v \in gone THEN frees[v] + 1 ELSE frees[v]
  BY <1>3, <1>4, FreedFacts
<1>6. /\ epc # "ended" /\ epc # "spawn" /\ ~latch /\ astate # NoValue
      /\ astate \notin vs /\ astate \in DOMAIN frees /\ vs \subseteq DOMAIN frees
      /\ \A i \in DOMAIN mring : vs \cap Owned(mring[i]) = {} /\ astate \notin Owned(mring[i]) /\ Owned(mring[i]) \subseteq DOMAIN frees
  BY <1>1, <1>2 DEF Phases, Resting, Gone, Places
<1> HIDE DEF vs
<1>7. /\ astate' # NoValue /\ astate' \in DOMAIN frees /\ \A i \in DOMAIN mring : astate' \notin Owned(mring[i])
      /\ \A v : v \in gone <=> (v \in vs \/ v = astate) /\ v # astate'
  BY <1>3, <1>4, <1>6
<1>8. handled' \in Seq(SUBSET Value)
  BY <1>1, <1>2, <1>4 DEF ActorTypes
<1>9. ActorTypes'
  BY <1>1, <1>2, <1>5, <1>8 DEF ActorTypes, Pcs
<1>10. Phases'
  BY <1>2, <1>6, <1>7 DEF Phases, Gone
<1>11. Places'
  <2>1. \A i, j \in DOMAIN mring : i # j => Owned(mring[i]) \cap Owned(mring[j]) = {}
    BY <1>1 DEF Places
  <2> QED
    BY <1>2, <1>5, <1>6, <1>7, <2>1 DEF Places, Owned
<1>12. DroppedOnce'
  <2>1. ASSUME NEW v \in DOMAIN frees PROVE frees'[v] = IF v \in Held' THEN 0 ELSE 1
    <3>1. frees[v] = IF v \in Held THEN 0 ELSE 1
      BY <1>1 DEF DroppedOnce
    <3>2. v \in Held <=> v = astate \/ v \in vs \/ \E i \in DOMAIN mring : v \in Owned(mring[i])
      BY <1>2, <1>6, HeldFacts DEF vs
    <3>3. v \in Held' <=> v = astate' \/ \E i \in DOMAIN mring : v \in Owned(mring[i])
      BY <1>2, <1>7, HeldFacts
    <3>4. CASE v \in gone
      <4>1. v \in Held /\ v \notin Held'
        BY <1>6, <1>7, <3>2, <3>3, <3>4
      <4> QED
        BY <1>5, <3>1, <3>4, <4>1
    <3>5. CASE v \notin gone
      <4>1. v \in Held <=> v \in Held'
        <5>1. astate' = astate \/ astate' \in vs
          BY <1>3
        <5> QED
          BY <1>7, <3>2, <3>3, <3>5, <5>1
      <4> QED
        BY <1>5, <3>1, <3>5, <4>1
    <3> QED
      BY <3>4, <3>5
  <2> QED
    BY <1>5, <2>1 DEF DroppedOnce
<1>13. InHand = 1 /\ InHand' = 0
  BY <1>2 DEF InHand
<1>14. Flow'
  <2>1. posted \in Seq(SUBSET Value) /\ handled \in Seq(SUBSET Value) /\ mring \in Seq(Message)
    BY <1>1 DEF ActorTypes
  <2>2. /\ Len(posted) = Len(handled) + 1 + Len(mring) /\ posted[Len(handled) + 1] = vs
        /\ \A i \in DOMAIN handled : handled[i] = posted[i]
        /\ \A i \in DOMAIN mring : posted[Len(handled) + 1 + i] = Owned(mring[i])
    BY <1>1, <1>2, <1>6, <1>13 DEF Flow, vs
  <2>3. /\ Len(handled') = Len(handled) + 1 /\ DOMAIN handled' = 1..(Len(handled) + 1)
        /\ \A i \in 1..(Len(handled) + 1) : handled'[i] = IF i = Len(handled) + 1 THEN vs ELSE handled[i]
    BY <1>2, <1>4, <2>1
  <2>4. ASSUME NEW i \in DOMAIN handled' PROVE handled'[i] = posted[i]
    BY <2>1, <2>2, <2>3
  <2>5. Len(posted) = Len(handled') + 0 + Len(mring) /\ Len(handled') + 0 <= Len(posted)
    BY <2>1, <2>2, <2>3
  <2>6. ASSUME NEW i \in DOMAIN mring PROVE posted[Len(handled') + 0 + i] = Owned(mring[i])
    <3>1. Len(handled') + 0 + i = Len(handled) + 1 + i
      BY <2>1, <2>3
    <3> QED
      BY <2>2, <3>1
  <2> QED
    BY <1>2, <1>13, <2>4, <2>5, <2>6 DEF Flow, Owned
<1>15. Through'
  BY <1>2 DEF Through, Left, Gone
<1> QED
  BY <1>9, <1>10, <1>11, <1>12, <1>14, <1>15 DEF AInv

\* The end of the loop drops the state.
LEMMA ReleaseStep ==
  ASSUME AInv, ReleaseState PROVE AInv'
<1>1. ActorTypes /\ Phases /\ Places /\ DroppedOnce /\ Flow /\ Through
  BY DEF AInv
<1>2. /\ apc = "exit" /\ apc' = "signal" /\ frees' = Freed(frees, {astate}) /\ astate' = NoValue
      /\ UNCHANGED <<akind, mring, mclosed, amsg, acancelled, latch, epc, sends, posted, handled>>
  BY DEF ReleaseState
<1>3. epc # "ended" /\ epc # "spawn" /\ ~latch /\ astate # NoValue
  BY <1>1, <1>2 DEF Phases, Resting, Gone
<1>4. /\ frees' \in [DOMAIN frees -> Nat] /\ DOMAIN frees' = DOMAIN frees
      /\ \A v \in DOMAIN frees : frees'[v] = IF v = astate THEN frees[v] + 1 ELSE frees[v]
  BY <1>1, <1>2, FreedFacts DEF ActorTypes
<1>5. ActorTypes'
  BY <1>1, <1>2, <1>4 DEF ActorTypes, Pcs, Left, Gone
<1>6. Phases'
  BY <1>2, <1>3 DEF Phases, Gone
<1>7. Places'
  <2>1. \A i \in DOMAIN mring : NoValue \notin Owned(mring[i])
    BY <1>1, MessageFacts DEF ActorTypes
  <2> QED
    BY <1>1, <1>2, <1>4, <2>1 DEF Places, Owned
<1>8. DroppedOnce'
  <2>1. ASSUME NEW v \in DOMAIN frees PROVE frees'[v] = IF v \in Held' THEN 0 ELSE 1
    <3>1. frees[v] = IF v \in Held THEN 0 ELSE 1
      BY <1>1 DEF DroppedOnce
    <3>2. v \in Held <=> v = astate \/ \E i \in DOMAIN mring : v \in Owned(mring[i])
      BY <1>2, <1>3, HeldFacts
    <3>3. v \in Held' <=> \E i \in DOMAIN mring : v \in Owned(mring[i])
      BY <1>2, HeldFacts
    <3>4. v = astate => v \notin Held'
      BY <1>1, <3>3 DEF Places
    <3> QED
      BY <1>4, <3>1, <3>2, <3>3, <3>4
  <2> QED
    BY <1>4, <2>1 DEF DroppedOnce
<1>9. InHand = 0 /\ InHand' = 0
  BY <1>2 DEF InHand
<1>10. Flow'
  BY <1>1, <1>2, <1>9 DEF Flow, Owned
<1>11. Through'
  BY <1>1, <1>2 DEF Through, Left, Gone
<1> QED
  BY <1>5, <1>6, <1>7, <1>8, <1>10, <1>11 DEF AInv

\* An initial value takes the place of the default, which is dropped.
LEMMA SpawnStep ==
  ASSUME AInv, NEW given \in BOOLEAN, NEW kind \in {"message", "loop"}, NEW scope,
         compile_spawn_with_init_vals(given, kind, scope)
  PROVE  AInv'
<1>1. ActorTypes /\ Phases /\ Places /\ DroppedOnce /\ Flow
  BY DEF AInv
<1>2. /\ epc = "spawn" /\ epc' = "run" /\ apc' = "ready" /\ akind' = kind /\ acancelled' \in BOOLEAN
      /\ UNCHANGED <<mring, mclosed, amsg, latch, sends, posted, handled>>
  BY DEF compile_spawn_with_init_vals
<1>3. apc = "new" /\ astate = <<0, 1>> /\ DOMAIN frees = {astate} /\ ~latch
  BY <1>1, <1>2 DEF Phases
<1> DEFINE w == <<0, 2>>
<1>4. w # astate /\ w # NoValue /\ astate # NoValue /\ w \in Value /\ w[1] = 0
  BY <1>3 DEF NoValue, Value
<1>5. \A i \in DOMAIN mring : Owned(mring[i]) = {}
  BY <1>1, <1>3 DEF Places
<1>6. frees \in [{astate} -> Nat] /\ frees[astate] = 0
  <2>1. astate \in Held
    BY <1>4, HeldFacts
  <2> QED
    BY <1>1, <1>3, <2>1 DEF ActorTypes, DroppedOnce
<1>7. \/ astate' = astate /\ frees' = frees
      \/ /\ astate' = w /\ frees' \in [{astate, w} -> Nat] /\ frees'[astate] = 1 /\ frees'[w] = 0
  <2>1. CASE given
    <3>1. astate' = w /\ frees' = Freed(Made(frees, {w}), {astate})
      BY <2>1 DEF compile_spawn_with_init_vals
    <3> HIDE DEF w
    <3>2. PICK f : f = Made(frees, {w})
      OBVIOUS
    <3>3. f \in [{astate} \cup {w} -> Nat] /\ f[astate] = 0 /\ f[w] = 0
      <4>1. /\ Made(frees, {w}) \in [{astate} \cup {w} -> Nat]
            /\ \A v \in {astate} : Made(frees, {w})[v] = frees[v]
            /\ \A v \in {w} : v \notin {astate} => Made(frees, {w})[v] = 0
        <5>1. DOMAIN frees = {astate} /\ \A v \in DOMAIN frees : frees[v] \in Nat
          BY <1>6
        <5>2. \A vs : /\ Made(frees, vs) \in [DOMAIN frees \cup vs -> Nat]
                      /\ \A v \in DOMAIN frees : Made(frees, vs)[v] = frees[v]
                      /\ \A v \in vs : v \notin DOMAIN frees => Made(frees, vs)[v] = 0
          BY <5>1 DEF Made
        <5> QED
          BY <5>1, <5>2
      <4> QED
        BY <1>4, <1>6, <3>2, <4>1
    <3>4. /\ Freed(f, {astate}) \in [{astate} \cup {w} -> Nat]
          /\ \A v \in {astate} \cup {w} : Freed(f, {astate})[v] = IF v \in {astate} THEN f[v] + 1 ELSE f[v]
      BY <3>3, FreedFacts
    <3> QED
      BY <1>4, <3>1, <3>2, <3>3, <3>4
  <2>2. CASE ~given
    BY <2>2 DEF compile_spawn_with_init_vals
  <2> QED
    BY <2>1, <2>2
<1>8. astate' # NoValue /\ frees' \in [DOMAIN frees' -> Nat] /\ DOMAIN frees' \subseteq {astate, w} /\ astate' \in DOMAIN frees'
  BY <1>3, <1>4, <1>6, <1>7
<1>9. \A v \in DOMAIN frees' : frees'[v] = IF v = astate' THEN 0 ELSE 1
  BY <1>3, <1>4, <1>6, <1>7
<1>10. ActorTypes'
  <2>1. \A v \in DOMAIN frees' : v \in Value /\ v[1] <= sends
    BY <1>1, <1>3, <1>4, <1>8 DEF ActorTypes
  <2> QED
    BY <1>1, <1>2, <1>8, <2>1 DEF ActorTypes, Pcs
<1>11. Phases'
  BY <1>2, <1>3, <1>8 DEF Phases, Gone
<1>12. Places'
  BY <1>2, <1>5, <1>8 DEF Places, Owned
<1>13. DroppedOnce'
  <2>1. \A v : v \in Held' <=> v = astate'
    BY <1>2, <1>5, <1>8, HeldFacts
  <2> QED
    BY <1>9, <2>1 DEF DroppedOnce
<1>14. InHand = 0 /\ InHand' = 0
  BY <1>2, <1>3 DEF InHand
<1>15. Flow'
  BY <1>1, <1>2, <1>14 DEF Flow, Owned
<1>16. Through'
  BY <1>2 DEF Through, Left, Gone
<1> QED
  BY <1>10, <1>11, <1>12, <1>13, <1>15, <1>16 DEF AInv

\* A message that is accepted belongs to the ring, a refused one to nobody.
LEMMA SendStep ==
  ASSUME AInv, NEW p \in Posters, NEW t \in DOMAIN Handlers, emit_actor_send(p, t) PROVE AInv'
<1> DEFINE n == sends + 1
           msg == [tag |-> t, payload |-> Pack(t, n)]
           A == Args(t, n)
           known == Made(frees, A)
           refused == mclosed \/ (p \in Inside /\ acancelled)
<1>1. ActorTypes /\ Phases /\ Places /\ DroppedOnce /\ Flow /\ Through
  BY DEF AInv
<1>2. /\ epc # "spawn" /\ epc # "ended" /\ sends' = n
      /\ UNCHANGED <<akind, mclosed, amsg, astate, acancelled, latch, epc, handled>>
  BY DEF emit_actor_send
<1>3. \/ refused /\ frees' = Freed(known, Owned(msg)) /\ UNCHANGED <<mring, apc, posted>>
      \/ ~refused /\ mring' = Append(mring, msg) /\ apc' = Woken /\ posted' = Append(posted, A) /\ frees' = known
  BY DEF emit_actor_send, actor_message_drop_fn, Owned
<1>4. n \in Nat /\ sends \in Nat /\ msg \in Message
  BY <1>1 DEF ActorTypes, Message
<1>5. Owned(msg) = A /\ A \subseteq Value /\ \A v \in A : v[1] = n
  BY <1>4, PackFacts DEF Owned
<1>6. A \cap DOMAIN frees = {}
  <2>1. \A v \in DOMAIN frees : v[1] <= sends
    BY <1>1 DEF ActorTypes
  <2> HIDE DEF A
  <2> QED
    BY <1>4, <1>5, <2>1
<1> HIDE DEF A, msg, known
<1>7. /\ known \in [DOMAIN frees \cup A -> Nat] /\ DOMAIN known = DOMAIN frees \cup A
      /\ \A v \in DOMAIN frees : known[v] = frees[v]
      /\ \A v \in A : known[v] = 0
  <2>1. frees \in [DOMAIN frees -> Nat]
    BY <1>1 DEF ActorTypes
  <2> QED
    BY <1>6, <2>1, MadeFacts DEF known
<1>8. \A v \in DOMAIN frees \cup A : v \in Value /\ v[1] <= n
  <2>1. \A v \in DOMAIN frees : v \in Value /\ v[1] <= sends /\ v[1] \in Nat
    BY <1>1 DEF ActorTypes, Value
  <2>2. \A v \in DOMAIN frees : v[1] <= n
    BY <1>4, <2>1
  <2> QED
    BY <1>4, <1>5, <2>1, <2>2
<1>9. astate # NoValue => astate \in DOMAIN frees
  BY <1>1 DEF Places
<1>10. \A i \in DOMAIN mring : Owned(mring[i]) \subseteq DOMAIN frees
  BY <1>1 DEF Places
<1>11. apc = "dispatch" => Owned(amsg) \subseteq DOMAIN frees
  BY <1>1 DEF Places
<1>12. NoValue \notin A
  BY <1>5 DEF NoValue, Value
<1>13. \A v \in A : v \notin Held
  <2>1. \A v \in A : v \notin DOMAIN frees
    BY <1>6
  <2> QED
    BY <1>9, <1>10, <1>11, <2>1, HeldFacts
<1>14. CASE refused
  <2>1. frees' = Freed(known, A) /\ UNCHANGED <<mring, apc, posted>>
    BY <1>3, <1>5, <1>14
  <2>2. /\ frees' \in [DOMAIN frees \cup A -> Nat] /\ DOMAIN frees' = DOMAIN frees \cup A
        /\ \A v \in DOMAIN frees \cup A : frees'[v] = IF v \in A THEN known[v] + 1 ELSE known[v]
    BY <1>7, <2>1, FreedFacts
  <2>3. ActorTypes'
    BY <1>1, <1>2, <1>4, <1>8, <2>1, <2>2 DEF ActorTypes
  <2>4. Phases'
    BY <1>1, <1>2, <2>1 DEF Phases
  <2>5. Places'
    BY <1>1, <1>2, <2>1, <2>2 DEF Places, Owned
  <2>6. Held' = Held
    BY <1>2, <2>1 DEF Held
  <2>7. ASSUME NEW v \in DOMAIN frees' PROVE frees'[v] = IF v \in Held' THEN 0 ELSE 1
    <3>1. CASE v \in A
      BY <1>7, <1>13, <2>2, <2>6, <3>1
    <3>2. CASE v \notin A
      BY <1>1, <1>7, <2>2, <2>6, <2>7, <3>2 DEF DroppedOnce
    <3> QED
      BY <3>1, <3>2
  <2>8. DroppedOnce'
    BY <2>7 DEF DroppedOnce
  <2>9. Flow' /\ Through'
    BY <1>1, <1>2, <2>1 DEF Flow, InHand, Through, Owned
  <2> QED
    BY <2>3, <2>4, <2>5, <2>8, <2>9 DEF AInv
<1>15. CASE ~refused
  <2>1. /\ mring' = Append(mring, msg) /\ posted' = Append(posted, A) /\ frees' = known
        /\ (apc' = apc \/ (apc = "parked" /\ apc' = "ready")) /\ ~mclosed
    BY <1>3, <1>15 DEF Woken
  <2> HIDE DEF refused, n
  <2>2. mring \in Seq(Message) /\ posted \in Seq(SUBSET Value) /\ handled \in Seq(SUBSET Value) /\ A \in SUBSET Value
    BY <1>1, <1>5 DEF ActorTypes
  <2>3. /\ mring' \in Seq(Message) /\ Len(mring') = Len(mring) + 1 /\ DOMAIN mring' = 1..(Len(mring) + 1)
        /\ DOMAIN mring = 1..Len(mring) /\ Len(mring) \in Nat
        /\ mring'[Len(mring) + 1] = msg /\ \A i \in DOMAIN mring : mring'[i] = mring[i]
    BY <1>4, <2>1, <2>2
  <2>4. /\ posted' \in Seq(SUBSET Value) /\ Len(posted') = Len(posted) + 1 /\ DOMAIN posted = 1..Len(posted) /\ Len(posted) \in Nat
        /\ posted'[Len(posted) + 1] = A /\ \A i \in DOMAIN posted : posted'[i] = posted[i]
    BY <2>1, <2>2
  <2>5. PICK N \in Nat : N = Len(mring) + 1
    BY <2>3
  <2>6. N \notin DOMAIN mring /\ DOMAIN mring' = DOMAIN mring \cup {N} /\ mring'[N] = msg
    BY <2>3, <2>5
  <2>7. apc' \in Pcs /\ (apc' = "dispatch" <=> apc = "dispatch") /\ (apc' \in Gone <=> apc \in Gone) /\ (apc' \in Left => apc \in Left)
    BY <1>1, <2>1 DEF ActorTypes, Pcs, Left, Gone
  <2>8. ActorTypes'
    BY <1>1, <1>2, <1>4, <1>7, <1>8, <2>1, <2>3, <2>4, <2>7 DEF ActorTypes
  <2>9. Phases'
    BY <1>1, <1>2, <2>1, <2>7 DEF Phases
  <2>10. Places'
    <3>1. astate' # NoValue => astate' \in DOMAIN frees'
      BY <1>2, <1>7, <1>9, <2>1
    <3>2. astate \notin A
      BY <1>6, <1>9, <1>12
    <3>3. \A i \in DOMAIN mring' : Owned(mring'[i]) \subseteq DOMAIN known /\ astate \notin Owned(mring'[i])
      BY <1>1, <1>5, <1>7, <2>3, <2>6, <3>2 DEF Places
    <3>4. ASSUME NEW i \in DOMAIN mring', NEW j \in DOMAIN mring', i # j PROVE Owned(mring'[i]) \cap Owned(mring'[j]) = {}
      <4>1. CASE i \in DOMAIN mring /\ j \in DOMAIN mring
        BY <1>1, <2>3, <3>4, <4>1 DEF Places
      <4>2. CASE i = N /\ j \in DOMAIN mring
        BY <1>5, <1>6, <1>10, <2>3, <2>6, <4>2
      <4>3. CASE j = N /\ i \in DOMAIN mring
        BY <1>5, <1>6, <1>10, <2>3, <2>6, <4>3
      <4> QED
        BY <2>6, <3>4, <4>1, <4>2, <4>3
    <3>5. ASSUME apc = "dispatch"
          PROVE  /\ Owned(amsg) \subseteq DOMAIN known /\ astate \notin Owned(amsg)
                 /\ \A i \in DOMAIN mring' : Owned(amsg) \cap Owned(mring'[i]) = {}
      <4>1. Owned(amsg) \cap A = {}
        BY <1>6, <1>11, <3>5
      <4>2. /\ Owned(amsg) \subseteq DOMAIN frees /\ astate \notin Owned(amsg)
            /\ \A i \in DOMAIN mring : Owned(amsg) \cap Owned(mring[i]) = {}
        BY <1>1, <3>5 DEF Places
      <4> QED
        BY <1>5, <1>7, <2>3, <2>6, <4>1, <4>2
    <3> QED
      BY <1>2, <2>1, <2>7, <3>1, <3>3, <3>4, <3>5 DEF Places, Owned
  <2>11. \A v : v \in Held' <=> v \in Held \/ v \in A
    <3>1. \A v : (\E i \in DOMAIN mring' : v \in Owned(mring'[i])) <=> (\E i \in DOMAIN mring : v \in Owned(mring[i])) \/ v \in A
      BY <1>5, <2>3, <2>6
    <3> QED
      BY <1>2, <2>7, <3>1, HeldFacts
  <2>12. DroppedOnce'
    <3>1. ASSUME NEW v \in DOMAIN known PROVE known[v] = IF v \in Held' THEN 0 ELSE 1
      <4>1. CASE v \in A
        BY <1>7, <2>11, <4>1
      <4>2. CASE v \notin A
        BY <1>1, <1>7, <2>11, <3>1, <4>2 DEF DroppedOnce
      <4> QED
        BY <4>1, <4>2
    <3> QED
      BY <2>1, <3>1 DEF DroppedOnce
  <2>13. InHand' = InHand /\ InHand \in {0, 1}
    BY <2>7 DEF InHand
  <2>14. Flow'
    <3>1. /\ Len(posted) = Len(handled) + InHand + Len(mring) /\ Len(handled) \in Nat
          /\ Len(handled) + InHand <= Len(posted)
          /\ \A i \in DOMAIN handled : handled[i] = posted[i]
          /\ apc = "dispatch" => posted[Len(handled) + 1] = Owned(amsg) /\ InHand = 1
          /\ \A i \in DOMAIN mring : posted[Len(handled) + InHand + i] = Owned(mring[i])
      BY <1>1, <1>2, <2>2 DEF Flow, InHand
    <3>2. Len(posted') = Len(handled) + InHand + Len(mring') /\ Len(handled) + InHand <= Len(posted')
      BY <2>3, <2>4, <2>13, <3>1
    <3>3. DOMAIN handled = 1..Len(handled) /\ 1..Len(handled) \subseteq 1..Len(posted)
      BY <2>2, <2>3, <2>4, <2>13, <3>1
    <3>4. \A i \in DOMAIN handled : handled[i] = posted'[i]
      BY <2>4, <3>1, <3>3
    <3>5. apc = "dispatch" => posted'[Len(handled) + 1] = Owned(amsg)
      <4>1. apc = "dispatch" => Len(handled) + 1 \in 1..Len(posted)
        BY <2>3, <2>4, <3>1
      <4> QED
        BY <2>4, <3>1, <4>1
    <3>6. ASSUME NEW i \in DOMAIN mring' PROVE posted'[Len(handled) + InHand + i] = Owned(mring'[i])
      <4>1. CASE i \in DOMAIN mring
        <5>1. i \in Nat /\ 1 <= i /\ i <= Len(mring)
          BY <2>3, <4>1
        <5>2. Len(handled) + InHand + i \in 1..Len(posted)
          BY <2>3, <2>4, <2>13, <3>1, <5>1
        <5> QED
          BY <2>3, <2>4, <3>1, <4>1, <5>2
      <4>2. CASE i = N
        <5>1. Len(handled) + InHand + N = Len(posted) + 1
          BY <2>3, <2>4, <2>5, <2>13, <3>1
        <5> QED
          BY <1>5, <2>4, <2>6, <4>2, <5>1
      <4> QED
        BY <2>6, <4>1, <4>2
    <3> QED
      BY <1>2, <2>7, <2>13, <3>2, <3>4, <3>5, <3>6 DEF Flow, Owned
  <2>15. Through'
    BY <1>1, <1>2, <2>1, <2>7 DEF Through
  <2> QED
    BY <2>8, <2>9, <2>10, <2>12, <2>14, <2>15 DEF AInv
<1> QED
  BY <1>14, <1>15

\* The messages of a retired mailbox are dropped, each by its own tag.
LEMMA FlushStep ==
  ASSUME AInv, jinn_actor_retire_flush PROVE AInv'
<1>1. ActorTypes /\ Phases /\ Places /\ DroppedOnce /\ Flow /\ Through
  BY DEF AInv
<1>2. /\ epc = "drain" /\ epc' = "ended" /\ apc \in Resting /\ apc # "dispatch"
      /\ UNCHANGED <<akind, mclosed, apc, amsg, astate, acancelled, latch, sends, posted, handled>>
  BY DEF jinn_actor_retire_flush, Resting
<1>3. \/ frees' = DropPending(frees, mring) /\ mring' = <<>>
      \/ UNCHANGED <<frees, mring>>
  BY DEF jinn_actor_retire_flush
<1>4. Phases' /\ Through'
  BY <1>1, <1>2 DEF Phases, Through
<1>5. Flow'
  BY <1>1, <1>2 DEF Flow, InHand
<1>6. CASE UNCHANGED <<frees, mring>>
  <2>1. ActorTypes' /\ Places' /\ Held' = Held
    BY <1>1, <1>2, <1>6 DEF ActorTypes, Places, Owned, Held
  <2>2. DroppedOnce'
    BY <1>1, <1>6, <2>1 DEF DroppedOnce
  <2> QED
    BY <1>4, <1>5, <2>1, <2>2 DEF AInv
<1>7. CASE frees' = DropPending(frees, mring) /\ mring' = <<>>
  <2> DEFINE In(v) == {i \in DOMAIN mring : v \in Owned(mring[i])}
  <2>1. frees \in [DOMAIN frees -> Nat] /\ mring \in Seq(Message)
    BY <1>1 DEF ActorTypes
  <2>2. ASSUME NEW v \in DOMAIN frees, NEW i \in DOMAIN mring
        PROVE  actor_message_drop_fn(frees, mring[i])[v] # frees[v] <=> v \in Owned(mring[i])
    <3>1. actor_message_drop_fn(frees, mring[i])[v] = IF v \in Owned(mring[i]) THEN frees[v] + 1 ELSE frees[v]
      BY <2>1, FreedFacts DEF actor_message_drop_fn, Owned
    <3> QED
      BY <2>1, <3>1
  <2>3. /\ DOMAIN frees' = DOMAIN frees
        /\ \A v \in DOMAIN frees : frees'[v] = frees[v] + Cardinality(In(v))
    <3>1. ASSUME NEW v \in DOMAIN frees
          PROVE  {i \in DOMAIN mring : actor_message_drop_fn(frees, mring[i])[v] # frees[v]} = In(v)
      BY <2>2
    <3>2. /\ DOMAIN frees' = DOMAIN frees
          /\ \A v \in DOMAIN frees :
               frees'[v] = frees[v] + Cardinality({i \in DOMAIN mring : actor_message_drop_fn(frees, mring[i])[v] # frees[v]})
      BY <1>7 DEF DropPending
    <3> QED
      BY <3>1, <3>2
  <2>4. ASSUME NEW v \in DOMAIN frees
        PROVE  \/ In(v) = {} /\ Cardinality(In(v)) = 0
               \/ Cardinality(In(v)) = 1 /\ \E i \in DOMAIN mring : v \in Owned(mring[i])
    <3>1. CASE In(v) = {}
      BY <3>1, FS_EmptySet
    <3>2. CASE In(v) # {}
      <4>1. PICK i \in DOMAIN mring : v \in Owned(mring[i])
        BY <3>2
      <4>2. In(v) = {i}
        BY <1>1, <4>1 DEF Places
      <4> QED
        BY <4>1, <4>2, FS_Singleton
    <3> QED
      BY <3>1, <3>2
  <2>5. ASSUME NEW v \in DOMAIN frees PROVE frees'[v] = IF v \in Held' THEN 0 ELSE 1
    <3>1. frees[v] = IF v \in Held THEN 0 ELSE 1
      BY <1>1 DEF DroppedOnce
    <3>2. v \in Held <=> (astate # NoValue /\ v = astate) \/ In(v) # {}
      BY <1>2, HeldFacts
    <3>3. v \in Held' <=> astate # NoValue /\ v = astate
      <4>1. DOMAIN mring' = {}
        BY <1>7
      <4> QED
        BY <1>2, <4>1, HeldFacts
    <3>4. v = astate => In(v) = {}
      BY <1>1 DEF Places
    <3> HIDE DEF In
    <3>5. frees'[v] = frees[v] + Cardinality(In(v))
      BY <2>3
    <3>6. CASE In(v) = {}
      BY <2>4, <3>1, <3>2, <3>3, <3>5, <3>6, FS_EmptySet
    <3>7. CASE In(v) # {}
      BY <2>4, <3>1, <3>2, <3>3, <3>4, <3>5, <3>7
    <3> QED
      BY <3>6, <3>7
  <2>6. DroppedOnce'
    BY <2>3, <2>5 DEF DroppedOnce
  <2>7. frees' \in [DOMAIN frees' -> Nat]
    <3>1. \A v \in DOMAIN frees' : frees'[v] \in Nat
      BY <2>3, <2>5
    <3>2. frees' = [v \in DOMAIN frees' |-> frees'[v]]
      BY <1>7 DEF DropPending
    <3> QED
      BY <3>1, <3>2
  <2>8. ActorTypes'
    BY <1>1, <1>2, <1>7, <2>3, <2>7 DEF ActorTypes
  <2>9. Places'
    <3>1. DOMAIN mring' = {}
      BY <1>7
    <3> QED
      BY <1>1, <1>2, <2>3, <3>1 DEF Places
  <2> QED
    BY <1>4, <1>5, <2>6, <2>8, <2>9 DEF AInv
<1> QED
  BY <1>3, <1>6, <1>7

-----------------------------------------------------------------------------
(* The specification *)

\* The invariant holds before the spawn.
LEMMA AInit == ActorInit => AInv
<1> SUFFICES ASSUME ActorInit PROVE AInv
  OBVIOUS
<1>1. /\ akind = "message" /\ acancelled = FALSE /\ mclosed = FALSE /\ mring = <<>> /\ apc = "new"
      /\ astate = <<0, 1>> /\ frees = [v \in {astate} |-> 0] /\ latch = FALSE /\ epc = "spawn"
      /\ sends = 0 /\ posted = <<>> /\ handled = <<>>
  BY DEF ActorInit, ActorState, ensure_actor_factory
<1>2. DOMAIN mring = {} /\ DOMAIN handled = {} /\ DOMAIN frees = {astate} /\ frees[astate] = 0
  BY <1>1
<1>3. astate \in Value /\ astate # NoValue /\ astate[1] = 0
  BY <1>1 DEF Value, NoValue
<1>4. ActorTypes
  <2>1. akind \in {"message", "loop"} /\ acancelled \in BOOLEAN /\ mclosed \in BOOLEAN /\ apc \in Pcs
    BY <1>1 DEF Pcs
  <2>2. sends \in Nat /\ apc # "dispatch"
    BY <1>1
  <2>3. mring \in Seq(Message) /\ posted \in Seq(SUBSET Value) /\ handled \in Seq(SUBSET Value)
    <3>1. \A S : <<>> \in Seq(S)
      OBVIOUS
    <3> QED
      BY <1>1, <3>1
  <2>4. frees \in [DOMAIN frees -> Nat]
    <3>1. frees \in [{astate} -> Nat]
      BY <1>1
    <3> QED
      BY <1>2, <3>1
  <2>5. \A v \in DOMAIN frees : v \in Value /\ v[1] <= sends
    BY <1>1, <1>2, <1>3
  <2> QED
    BY <2>1, <2>2, <2>3, <2>4, <2>5 DEF ActorTypes
<1>5. Phases
  BY <1>1, <1>2, <1>3 DEF Phases, Gone
<1>6. Places
  BY <1>1, <1>2, <1>3 DEF Places
<1>7. DroppedOnce
  <2>1. astate \in Held
    BY <1>3, HeldFacts
  <2> QED
    BY <1>2, <2>1 DEF DroppedOnce
<1>8. Flow
  BY <1>1, <1>2 DEF Flow, InHand
<1>9. Through
  BY <1>1 DEF Through, Left, Gone
<1> QED
  BY <1>4, <1>5, <1>6, <1>7, <1>8, <1>9 DEF AInv

\* Every step preserves it.
LEMMA AStep ==
  ASSUME AInv, [ActorNext]_actor_vars PROVE AInv'
<1>1. CASE Received
  <2>1. CASE mring # <<>> /\ amsg' = Head(mring) /\ mring' = Tail(mring) /\ apc' = "dispatch"
    BY <1>1, <2>1, ReceiveStep DEF Received
  <2>2. CASE /\ mring = <<>> \/ (akind = "message" /\ acancelled)
             /\ apc' = (IF mclosed \/ (akind = "message" /\ acancelled) THEN "exit"
                        ELSE IF akind = "loop" THEN "loop" ELSE "parked")
             /\ UNCHANGED <<amsg, mring>>
    BY <1>1, <2>2, EmptyReceive DEF Received
  <2> QED
    BY <1>1, <2>1, <2>2 DEF Received
<1>2. CASE UNCHANGED actor_vars
  <2>1. UNCHANGED <<akind, mring, mclosed, apc, amsg, astate, acancelled, latch, epc, sends, posted, handled, frees>>
    BY <1>2 DEF actor_vars
  <2>2. Held' = Held
    BY <2>1 DEF Held
  <2> QED
    BY <2>1, <2>2 DEF AInv, ActorTypes, Phases, Places, DroppedOnce, Flow, Through, Owned, InHand
<1>3. CASE ActorNext
  <2>1. ASSUME NEW given \in BOOLEAN, NEW kind \in {"message", "loop"}, NEW scope, compile_spawn_with_init_vals(given, kind, scope)
        PROVE  AInv'
    BY <2>1, SpawnStep
  <2>2. ASSUME NEW p \in Posters, NEW t \in DOMAIN Handlers, emit_actor_send(p, t) PROVE AInv'
    BY <2>2, SendStep
  <2>3. CASE Resumed \/ LoopHandler \/ SignalLatch \/ jinn_actor_unregister_live \/ jinn_actor_retire_mailbox
    BY <2>3, CoroutineSteps
  <2>4. CASE jinn_actor_stop \/ CancelActor \/ CancelCloses \/ jinn_actor_stop_all
    BY <2>4, ActorMainSteps
  <2>5. CASE DispatchMessage \/ ReleaseState \/ jinn_actor_retire_flush
    BY <2>5, DispatchStep, ReleaseStep, FlushStep
  <2> QED
    BY <1>1, <1>3, <2>1, <2>2, <2>3, <2>4, <2>5 DEF ActorNext
<1> QED
  BY <1>2, <1>3

\* It says what is wanted.
LEMMA SettledFromInvariant ==
  ASSUME AInv PROVE PayloadsSettled
<1>1. ActorTypes /\ Phases /\ DroppedOnce /\ Flow /\ Through
  BY DEF AInv
<1>2. posted \in Seq(SUBSET Value) /\ handled \in Seq(SUBSET Value)
  BY <1>1 DEF ActorTypes
<1>3. Len(handled) <= Len(posted)
  BY <1>1, <1>2 DEF Flow, InHand
<1>4. SubSeq(handled, 1, Len(handled)) = SubSeq(posted, 1, Len(handled))
  <2>1. SubSeq(handled, 1, Len(handled)) = [i \in 1..Len(handled) |-> handled[i]]
    BY <1>2
  <2>2. SubSeq(posted, 1, Len(handled)) = [i \in 1..Len(handled) |-> posted[i]]
    BY <1>2, <1>3
  <2>3. \A i \in 1..Len(handled) : handled[i] = posted[i]
    BY <1>1, <1>2 DEF Flow
  <2> QED
    BY <2>1, <2>2, <2>3
<1>5. StopDrains
  BY <1>1, <1>3, <1>4 DEF StopDrains, IsPrefix, Through, Left, Gone
<1>6. LatchIsLast
  BY <1>1 DEF Phases, LatchIsLast, Gone
<1> QED
  BY <1>1, <1>5, <1>6 DEF PayloadsSettled

\* Whatever emit_actor_send is given, whoever stops or cancels the actor and however
\* the program ends: each owned argument is handled once or dropped once by
\* __message_drop, in the order of the sends, and the latch comes after the state.
THEOREM ActorSettlesPayloads == ActorSpec => []PayloadsSettled
<1>1. ActorInit => AInv
  BY AInit
<1>2. AInv /\ [ActorNext]_actor_vars => AInv'
  BY AStep
<1>3. AInv => PayloadsSettled
  BY SettledFromInvariant
<1> QED
  BY <1>1, <1>2, <1>3, PTL DEF ActorSpec

-----------------------------------------------------------------------------
Busy == {"run", "siblings"}
OnCpu == {"entry", "loop", "destroy", "exit", "spawn"}
Serving == {"new", "entry", "loop", "parked"}
Live == Serving \cup {"destroy", "exit"}
Ats == Live \cup {"spawn", "done"}
Early == {"start", "run", "stop"}
Box == [closed : BOOLEAN, retired : Nat]
Coroutine == [child : Children, at : Ats, mb : Nat]

-----------------------------------------------------------------------------
(* A supervisor: the inductive invariant *)

SupTypes ==
  /\ strategy \in {"one_for_one", "one_for_all", "rest_for_one"}
  /\ mb_ptr \in [Children -> Nat] /\ alive \in [Children -> BOOLEAN]
  /\ restart_count \in Nat /\ restart_count <= MAX_RESTARTS
  /\ box \in Seq(Box) /\ coro \in Seq(Coroutine) /\ Len(coro) = Len(box)
  /\ runq \subseteq DOMAIN coro
  /\ wpc \in [Workers -> {"check", "find", "ended"} \cup Busy] /\ current \in [Workers -> Nat]
  /\ mpc \in Early \cup {"shutdown", "joining", "ended"}
  /\ mpc = "start" => marg \in Nat
  /\ stops \in Nat

\* A busy worker has a coroutine of its own, and holds the lock when it restarts;
\* the other coroutines are queued, wait on an open mailbox or are through.
Works(w) ==
  wpc[w] \in Busy =>
    /\ current[w] \in DOMAIN coro /\ coro[current[w]].at \in OnCpu
    /\ wpc[w] = "siblings" => coro[current[w]].at = "spawn"
    /\ coro[current[w]].at = "spawn" => sup_lock = w
Waits(n) ==
  /\ coro[n].at \in OnCpu => \E w \in Workers : wpc[w] \in Busy /\ current[w] = n
  /\ n \in runq => coro[n].at \in {"new", "parked"}
  /\ coro[n].at = "new" => n \in runq
  /\ coro[n].at = "parked" /\ n \notin runq => ~box[n].closed
Workforce ==
  /\ \A w \in Workers : Works(w)
  /\ \A v, w \in Workers : wpc[v] \in Busy /\ wpc[w] \in Busy /\ current[v] = current[w] => v = w
  /\ \A n \in DOMAIN coro : Waits(n)

\* *main holds the lock as long as it starts the children.
Starting ==
  mpc = "start" => (sup_lock = "main" \/ coro = <<>>) /\ \A n \in DOMAIN coro : coro[n].child <= marg

\* Slot and coroutine name each other.
Serves(n) ==
  /\ coro[n].at \in Live => mb_ptr[coro[n].child] = n
  /\ coro[n].at \in {"loop", "parked", "destroy"} => coro[n].mb = n
  /\ coro[n].at \in {"destroy", "exit"} => box[n].closed
Respawns(w, c) == wpc[w] = "run" /\ coro[current[w]].at = "spawn" /\ coro[current[w]].child = c
Respawning(c) == \E w \in Workers : Respawns(w, c)
Slot(c) ==
  /\ mb_ptr[c] # 0 => /\ mb_ptr[c] \in DOMAIN coro /\ coro[mb_ptr[c]].child = c
                      /\ coro[mb_ptr[c]].at \in Live /\ alive[c]
  /\ Respawning(c) => mb_ptr[c] = 0
  /\ mb_ptr[c] = 0 => restart_count = MAX_RESTARTS \/ (mpc = "start" /\ c > marg) \/ Respawning(c)
Slots == (\A n \in DOMAIN coro : Serves(n)) /\ (\A c \in Children : Slot(c))

\* Every stop of the program accounts for one mailbox that was closed and whose
\* child was not brought back yet, or for one restart.
Doomed == {n \in DOMAIN coro : box[n].closed /\ coro[n].at \in Live}
Paid ==
  strategy = "one_for_one" /\ mpc \in Early =>
    restart_count + Cardinality(Doomed) + (IF mpc = "stop" THEN 1 ELSE 0) <= stops

SInv == SupTypes /\ Workforce /\ Starting /\ Slots
PInv == SInv /\ Paid

-----------------------------------------------------------------------------
(* Facts about the operators of the model *)

LEMMA CoroFacts ==
  ASSUME SupTypes, NEW n \in DOMAIN coro, NEW p \in Ats
  PROVE  /\ CoroAt(n, p) \in Seq(Coroutine) /\ Len(CoroAt(n, p)) = Len(coro) /\ DOMAIN CoroAt(n, p) = DOMAIN coro
         /\ \A m \in DOMAIN coro : /\ CoroAt(n, p)[m].child = coro[m].child /\ CoroAt(n, p)[m].mb = coro[m].mb
                                   /\ CoroAt(n, p)[m].at = IF m = n THEN p ELSE coro[m].at
<1>1. coro \in Seq(Coroutine) /\ DOMAIN coro = 1..Len(coro) /\ Len(coro) \in Nat
  BY DEF SupTypes
<1>2. \A m \in DOMAIN coro : coro[m] \in Coroutine
  BY <1>1
<1>3. [coro[n] EXCEPT !.at = p] \in Coroutine
  BY <1>2 DEF Coroutine
<1>4. CoroAt(n, p) = [m \in 1..Len(coro) |-> IF m = n THEN [coro[n] EXCEPT !.at = p] ELSE coro[m]]
  BY <1>1 DEF CoroAt
<1>5. \A m \in 1..Len(coro) : CoroAt(n, p)[m] \in Coroutine
  BY <1>1, <1>2, <1>3, <1>4
<1>6. CoroAt(n, p) \in Seq(Coroutine) /\ Len(CoroAt(n, p)) = Len(coro) /\ DOMAIN CoroAt(n, p) = DOMAIN coro
  BY <1>1, <1>4, <1>5
<1>7. ASSUME NEW m \in DOMAIN coro
      PROVE  /\ CoroAt(n, p)[m].child = coro[m].child /\ CoroAt(n, p)[m].mb = coro[m].mb
             /\ CoroAt(n, p)[m].at = IF m = n THEN p ELSE coro[m].at
  BY <1>1, <1>2, <1>4 DEF Coroutine
<1> QED
  BY <1>6, <1>7

\* What a step leaves of the mailboxes: which are closed.
LEMMA BoxFacts ==
  ASSUME SupTypes
  PROVE  /\ DOMAIN box = 1..Len(box) /\ Len(box) \in Nat /\ DOMAIN coro = DOMAIN box
         /\ \A m \in DOMAIN box : box[m] \in Box
         /\ \A ms : /\ Closing(ms) \in Seq(Box) /\ Len(Closing(ms)) = Len(box) /\ DOMAIN Closing(ms) = DOMAIN box
                    /\ \A m \in DOMAIN box : Closing(ms)[m].closed <=> box[m].closed \/ m \in ms
         /\ \A n \in DOMAIN box :
              /\ Destroyed(n) \in Seq(Box) /\ Len(Destroyed(n)) = Len(box) /\ DOMAIN Destroyed(n) = DOMAIN box
              /\ \A m \in DOMAIN box : Destroyed(n)[m].closed <=> box[m].closed \/ m = n
<1>1. DOMAIN box = 1..Len(box) /\ Len(box) \in Nat /\ DOMAIN coro = DOMAIN box /\ box \in Seq(Box)
  BY DEF SupTypes
<1>2. \A m \in DOMAIN box : box[m] \in Box
  BY <1>1
<1>3. ASSUME NEW ms
      PROVE  /\ Closing(ms) \in Seq(Box) /\ Len(Closing(ms)) = Len(box) /\ DOMAIN Closing(ms) = DOMAIN box
             /\ \A m \in DOMAIN box : Closing(ms)[m].closed <=> box[m].closed \/ m \in ms
  <2>1. ASSUME NEW m \in DOMAIN box
        PROVE  /\ Closing(ms)[m] \in Box
               /\ Closing(ms)[m].closed <=> box[m].closed \/ m \in ms
    <3>1. Closing(ms)[m] = [box[m] EXCEPT !.closed = @ \/ m \in ms]
      BY DEF Closing
    <3>2. box[m] \in Box
      BY <1>2
    <3> QED
      BY <3>1, <3>2 DEF Box
  <2>2. DOMAIN Closing(ms) = 1..Len(box)
    BY <1>1 DEF Closing
  <2>3. Closing(ms) = [m \in 1..Len(box) |-> Closing(ms)[m]]
    BY <1>1 DEF Closing
  <2>4. Closing(ms) \in Seq(Box)
    BY <1>1, <2>1, <2>2, <2>3
  <2> QED
    BY <1>1, <2>1, <2>2, <2>4
<1>4. ASSUME NEW n \in DOMAIN box
      PROVE  /\ Destroyed(n) \in Seq(Box) /\ Len(Destroyed(n)) = Len(box) /\ DOMAIN Destroyed(n) = DOMAIN box
             /\ \A m \in DOMAIN box : Destroyed(n)[m].closed <=> box[m].closed \/ m = n
  <2> DEFINE x == [closed |-> TRUE, retired |-> box[n].retired + 1]
  <2>1. x \in Box
    BY <1>2 DEF Box
  <2>2. Destroyed(n) = [box EXCEPT ![n] = x]
    BY <1>1 DEF Destroyed
  <2>3. /\ Destroyed(n) = [m \in 1..Len(box) |-> IF m = n THEN x ELSE box[m]]
    BY <1>1, <2>2
  <2>4. Destroyed(n) \in Seq(Box) /\ Len(Destroyed(n)) = Len(box) /\ DOMAIN Destroyed(n) = DOMAIN box
    BY <1>1, <1>2, <2>1, <2>3
  <2>5. ASSUME NEW m \in DOMAIN box
        PROVE  Destroyed(n)[m].closed <=> box[m].closed \/ m = n
    <3>1. CASE m = n
      BY <1>1, <2>3, <3>1
    <3>2. CASE m # n
      BY <1>1, <2>3, <3>2
    <3> QED
      BY <3>1, <3>2
  <2> QED
    BY <2>4, <2>5
<1> QED
  BY <1>1, <1>2, <1>3, <1>4

LEMMA SpawnFacts ==
  ASSUME SupTypes, NEW c \in Children, SpawnOne(c, alive)
  PROVE  LET N == Len(box) + 1
         IN  /\ N \in Nat \ {0} /\ N \notin DOMAIN coro /\ DOMAIN box' = DOMAIN box \cup {N} /\ DOMAIN coro' = DOMAIN coro \cup {N}
             /\ box' \in Seq(Box) /\ coro' \in Seq(Coroutine) /\ Len(coro') = Len(box')
             /\ \A m \in DOMAIN coro : box'[m] = box[m] /\ coro'[m] = coro[m]
             /\ ~box'[N].closed
             /\ coro'[N].child = c /\ coro'[N].at = "new"
             /\ runq' = runq \cup {N}
             /\ mb_ptr' \in [Children -> Nat] /\ alive' \in [Children -> BOOLEAN]
             /\ \A d \in Children : /\ mb_ptr'[d] = IF d = c THEN N ELSE mb_ptr[d]
                                    /\ alive'[d] = IF d = c THEN TRUE ELSE alive[d]
<1> DEFINE N == Len(box) + 1
           x == [closed |-> FALSE, retired |-> 0]
           y == [child |-> c, at |-> "new", mb |-> 0]
<1>1. DOMAIN box = 1..Len(box) /\ Len(box) \in Nat /\ DOMAIN coro = DOMAIN box /\ Len(coro) = Len(box)
  BY BoxFacts DEF SupTypes
<1>2. x \in Box /\ y \in Coroutine
  BY DEF Box, Coroutine, Ats, Live, Serving
<1>3. box' = Append(box, x) /\ coro' = Append(coro, y) /\ runq' = runq \cup {N}
  BY DEF SpawnOne
<1>4. box \in Seq(Box) /\ coro \in Seq(Coroutine)
  BY DEF SupTypes
<1> HIDE DEF x, y
<1>5. box' \in Seq(Box) /\ Len(box') = N /\ DOMAIN box' = 1..N /\ box'[N] = x /\ \A m \in 1..Len(box) : box'[m] = box[m]
  BY <1>1, <1>2, <1>3, <1>4
<1>6. coro' \in Seq(Coroutine) /\ Len(coro') = N /\ DOMAIN coro' = 1..N /\ coro'[N] = y /\ \A m \in 1..Len(box) : coro'[m] = coro[m]
  BY <1>1, <1>2, <1>3, <1>4
<1>7. N \in Nat \ {0} /\ N \notin 1..Len(box) /\ 1..N = 1..Len(box) \cup {N}
  BY <1>1
<1>8. ~x.closed /\ y.child = c /\ y.at = "new"
  BY DEF x, y
<1>9. /\ mb_ptr' \in [Children -> Nat] /\ alive' \in [Children -> BOOLEAN]
      /\ \A d \in Children : /\ mb_ptr'[d] = IF d = c THEN N ELSE mb_ptr[d]
                             /\ alive'[d] = IF d = c THEN TRUE ELSE alive[d]
  BY <1>7 DEF SpawnOne, SupTypes
<1> QED
  BY <1>1, <1>3, <1>5, <1>6, <1>7, <1>8, <1>9

-----------------------------------------------------------------------------
(* The worker loop *)

\* A worker that stays without a coroutine.
LEMMA IdleWorker ==
  ASSUME SInv, NEW w \in Workers, wpc[w] \notin Busy, wpc'[w] \notin Busy,
         wpc' \in [Workers -> {"check", "find", "ended"} \cup Busy], \A v \in Workers : v # w => wpc'[v] = wpc[v],
         UNCHANGED <<strategy, mb_ptr, alive, restart_count, sup_lock, box, coro, runq, current, mpc, marg, stops>>
  PROVE  SInv'
<1>1. SupTypes /\ Workforce /\ Starting /\ Slots
  BY DEF SInv
<1>2. \A v \in Workers : /\ wpc'[v] \in Busy <=> wpc[v] \in Busy
                         /\ wpc'[v] \in Busy => wpc'[v] = wpc[v]
  OBVIOUS
<1>3. SupTypes'
  BY <1>1 DEF SupTypes
<1>4. ASSUME NEW v \in Workers PROVE Works(v)'
  BY <1>1, <1>2 DEF Workforce, Works
<1>5. ASSUME NEW n \in DOMAIN coro PROVE Waits(n)'
  BY <1>1, <1>2 DEF Workforce, Waits
<1>6. \A u, v \in Workers : wpc'[u] \in Busy /\ wpc'[v] \in Busy /\ current[u] = current[v] => u = v
  BY <1>1, <1>2 DEF Workforce
<1>7. Starting'
  BY <1>1 DEF Starting
<1>8. \A c \in Children : Respawning(c)' <=> Respawning(c)
  BY <1>2 DEF Respawning, Respawns, Busy
<1>9. Slots'
  BY <1>1, <1>8 DEF Slots, Slot, Serves
<1> QED
  BY <1>3, <1>4, <1>5, <1>6, <1>7, <1>9 DEF SInv, Workforce

LEMMA CheckStep ==
  ASSUME SInv, NEW w \in Workers, Check(w) PROVE SInv'
<1>1. SupTypes /\ Workforce /\ Starting /\ Slots
  BY DEF SInv
<1>2. /\ wpc[w] = "check" /\ wpc'[w] \in {"ended", "find"} /\ wpc' \in [Workers -> {"check", "find", "ended"} \cup Busy]
      /\ \A v \in Workers : v # w => wpc'[v] = wpc[v]
  BY <1>1 DEF Check, SupTypes
<1>3. UNCHANGED <<strategy, mb_ptr, alive, restart_count, sup_lock, box, coro, runq, current, mpc, marg, stops, shutdown>>
  BY DEF Check
<1> QED
  BY <1>2, <1>3, IdleWorker DEF Busy

LEMMA FindStep ==
  ASSUME SInv, NEW w \in Workers, Find(w) PROVE SInv'
<1>1. SupTypes /\ Workforce /\ Starting /\ Slots
  BY DEF SInv
<1>2. UNCHANGED <<strategy, mb_ptr, alive, restart_count, sup_lock, box, mpc, marg, stops, shutdown>> /\ wpc[w] = "find"
  BY DEF Find
<1>3. CASE runq = {} /\ wpc' = [wpc EXCEPT ![w] = "check"] /\ UNCHANGED <<runq, current, coro>>
  <2>1. /\ wpc'[w] = "check" /\ wpc' \in [Workers -> {"check", "find", "ended"} \cup Busy]
        /\ \A v \in Workers : v # w => wpc'[v] = wpc[v]
    BY <1>1, <1>3 DEF SupTypes
  <2> QED
    BY <1>2, <1>3, <2>1, IdleWorker DEF Busy
<1>4. ASSUME NEW n \in runq, runq' = runq \ {n}, current' = [current EXCEPT ![w] = n],
             coro' = CoroAt(n, IF coro[n].at = "new" THEN "entry" ELSE "loop"), wpc' = [wpc EXCEPT ![w] = "run"]
      PROVE  SInv'
  <2> DEFINE p == IF coro[n].at = "new" THEN "entry" ELSE "loop"
  <2>1. n \in DOMAIN coro /\ p \in Ats /\ coro[n].at \in {"new", "parked"}
    BY <1>1, <1>4 DEF SupTypes, Workforce, Waits, Ats, Live, Serving
  <2>2. /\ coro' \in Seq(Coroutine) /\ Len(coro') = Len(coro) /\ DOMAIN coro' = DOMAIN coro
        /\ \A m \in DOMAIN coro : /\ coro'[m].child = coro[m].child /\ coro'[m].mb = coro[m].mb
                                  /\ coro'[m].at = IF m = n THEN p ELSE coro[m].at
    BY <1>1, <1>4, <2>1, CoroFacts
  <2> HIDE DEF p
  <2>3. p \in {"entry", "loop"} /\ (p = "entry" <=> coro[n].at = "new") /\ (p = "loop" <=> coro[n].at = "parked")
    BY <2>1 DEF p
  <2>4. /\ wpc'[w] = "run" /\ wpc' \in [Workers -> {"check", "find", "ended"} \cup Busy]
        /\ current'[w] = n /\ current' \in [Workers -> Nat]
        /\ \A v \in Workers : v # w => wpc'[v] = wpc[v] /\ current'[v] = current[v]
    <3>1. n \in Nat
      BY <1>1, <2>1 DEF SupTypes
    <3> QED
      BY <1>1, <1>4, <3>1 DEF SupTypes, Busy
  <2>5. SupTypes'
    BY <1>1, <1>2, <1>4, <2>2, <2>4 DEF SupTypes
  <2>6. \A v \in Workers : wpc[v] \in Busy => current[v] # n /\ current[v] \in DOMAIN coro /\ v # w
    BY <1>1, <1>2, <2>1 DEF Workforce, Works, OnCpu, Busy
  <2>7. ASSUME NEW v \in Workers PROVE Works(v)'
    <3>1. CASE v = w
      BY <2>1, <2>2, <2>3, <2>4, <3>1 DEF Works, OnCpu
    <3>2. CASE v # w
      BY <1>1, <1>2, <2>2, <2>4, <2>6, <3>2 DEF Works, Workforce
    <3> QED
      BY <3>1, <3>2
  <2>8. ASSUME NEW u \in Workers, NEW v \in Workers, wpc'[u] \in Busy, wpc'[v] \in Busy, current'[u] = current'[v] PROVE u = v
    BY <1>1, <2>4, <2>6, <2>8 DEF Workforce
  <2>9. ASSUME NEW m \in DOMAIN coro PROVE Waits(m)'
    <3>1. CASE m = n
      BY <1>4, <2>2, <2>3, <2>4, <3>1 DEF Waits, Busy
    <3>2. CASE m # n
      BY <1>1, <1>2, <1>4, <2>2, <2>4, <2>6, <3>2 DEF Waits, Workforce
    <3> QED
      BY <3>1, <3>2
  <2>10. Starting'
    BY <1>1, <1>2, <2>1, <2>2 DEF Starting
  <2>11. \A c \in Children : Respawning(c)' <=> Respawning(c)
    <3>1. ASSUME NEW c \in Children, NEW v \in Workers PROVE Respawns(v, c)' <=> Respawns(v, c)
      <4>1. CASE v = w
        BY <1>2, <2>1, <2>2, <2>3, <2>4, <4>1 DEF Respawns
      <4>2. CASE v # w
        BY <2>2, <2>4, <2>6, <4>2 DEF Respawns, Busy
      <4> QED
        BY <4>1, <4>2
    <3> QED
      BY <3>1 DEF Respawning
  <2>12. ASSUME NEW m \in DOMAIN coro PROVE Serves(m)'
    BY <1>1, <1>2, <2>1, <2>2, <2>3 DEF Serves, Slots, Live, Serving
  <2>13. ASSUME NEW c \in Children PROVE Slot(c)'
    BY <1>1, <1>2, <2>1, <2>2, <2>3, <2>11 DEF Slot, Slots, Live, Serving
  <2> QED
    BY <2>2, <2>5, <2>7, <2>8, <2>9, <2>10, <2>12, <2>13 DEF SInv, Slots, Workforce
<1> QED
  BY <1>3, <1>4 DEF Find

\* What a worker knows when it goes on with its coroutine.
LEMMA Own ==
  ASSUME SInv, NEW w \in Workers, wpc[w] \in Busy
  PROVE  /\ current[w] \in DOMAIN coro /\ coro[current[w]].at \in OnCpu /\ current[w] \notin runq
         /\ coro[current[w]].child \in Children /\ coro[current[w]] \in Coroutine
         /\ \A v \in Workers : wpc[v] \in Busy /\ v # w => current[v] \in DOMAIN coro /\ current[v] # current[w]
         /\ coro[current[w]].at \in Live => mb_ptr[coro[current[w]].child] = current[w]
<1>1. SupTypes /\ Workforce /\ Slots
  BY DEF SInv
<1>2. current[w] \in DOMAIN coro /\ coro[current[w]].at \in OnCpu
  BY <1>1 DEF Workforce, Works
<1>3. \A v \in Workers : wpc[v] \in Busy /\ v # w => current[v] \in DOMAIN coro /\ current[v] # current[w]
  BY <1>1 DEF Workforce, Works
<1>4. current[w] \notin runq
  BY <1>1, <1>2 DEF Workforce, Waits, OnCpu
<1>5. coro[current[w]] \in Coroutine
  BY <1>1, <1>2 DEF SupTypes
<1>6. coro[current[w]].at \in Live => mb_ptr[coro[current[w]].child] = current[w]
  BY <1>1, <1>2 DEF Slots, Serves
<1> QED
  BY <1>2, <1>3, <1>4, <1>5, <1>6 DEF Coroutine

\* A worker goes on with its coroutine and keeps it: only the coroutine's own place
\* and mailbox change, and mailboxes of nobody else.
LEMMA GoesOn ==
  ASSUME SInv, NEW w \in Workers, wpc[w] = "run", NEW p \in OnCpu \ {"spawn"}, coro[current[w]].at # "spawn",
         coro' \in Seq(Coroutine), box' \in Seq(Box), Len(coro') = Len(coro), Len(box') = Len(box),
         DOMAIN coro' = DOMAIN coro, DOMAIN box' = DOMAIN box,
         \A m \in DOMAIN coro : coro'[m].child = coro[m].child /\ (m # current[w] => coro'[m] = coro[m] /\ box'[m] = box[m]),
         coro'[current[w]].at = p,
         p \in {"loop", "destroy"} => coro'[current[w]].mb = current[w],
         p \in {"destroy", "exit"} => box'[current[w]].closed,
         UNCHANGED <<strategy, mb_ptr, alive, restart_count, sup_lock, runq, wpc, current, mpc, marg, stops>>
  PROVE  SInv'
<1> DEFINE n == current[w]
<1>1. SupTypes /\ Workforce /\ Starting /\ Slots
  BY DEF SInv
<1>2. /\ n \in DOMAIN coro /\ coro[n].at \in OnCpu /\ n \notin runq
      /\ coro[n].child \in Children
      /\ \A v \in Workers : wpc[v] \in Busy /\ v # w => current[v] \in DOMAIN coro /\ current[v] # n
      /\ coro[n].at \in Live => mb_ptr[coro[n].child] = n
  BY Own DEF Busy
<1>3. coro[n].at \in Live /\ p \in Live /\ p \notin {"new", "parked", "spawn"}
  BY <1>2 DEF OnCpu, Live, Serving
<1>4. SupTypes'
  BY <1>1 DEF SupTypes
<1>5. ASSUME NEW v \in Workers PROVE Works(v)'
  <2>1. CASE v = w
    BY <1>2, <1>3, <2>1 DEF Works
  <2>2. CASE v # w
    BY <1>1, <1>2, <2>2 DEF Works, Workforce
  <2> QED
    BY <2>1, <2>2
<1>6. ASSUME NEW m \in DOMAIN coro PROVE Waits(m)'
  <2>1. CASE m = n
    BY <1>2, <1>3, <2>1 DEF Waits, Busy
  <2>2. CASE m # n
    BY <1>1, <2>2 DEF Waits, Workforce
  <2> QED
    BY <2>1, <2>2
<1>7. Workforce'
  BY <1>1, <1>5, <1>6 DEF Workforce
<1>8. Starting'
  <2>1. CASE coro = <<>>
    BY <1>2, <2>1
  <2>2. CASE coro # <<>>
    BY <1>1, <2>2 DEF Starting
  <2> QED
    BY <2>1, <2>2
<1>9. ASSUME NEW c \in Children PROVE Respawning(c)' <=> Respawning(c)
  <2>1. ASSUME NEW v \in Workers PROVE Respawns(v, c)' <=> Respawns(v, c)
    <3>1. CASE v = w
      BY <1>3, <3>1 DEF Respawns, Live, Serving
    <3>2. CASE v # w
      BY <1>2, <3>2 DEF Respawns, Busy
    <3> QED
      BY <3>1, <3>2
  <2> QED
    BY <2>1 DEF Respawning
<1>10. ASSUME NEW m \in DOMAIN coro PROVE Serves(m)'
  <2>1. CASE m = n
    BY <1>2, <1>3, <2>1 DEF Serves
  <2>2. CASE m # n
    BY <1>1, <2>2 DEF Serves, Slots
  <2> QED
    BY <2>1, <2>2
<1>11. ASSUME NEW c \in Children PROVE Slot(c)'
  <2>1. CASE mb_ptr[c] = n
    BY <1>1, <1>2, <1>3, <1>9, <2>1 DEF Slot, Slots
  <2>2. CASE mb_ptr[c] # n
    BY <1>1, <1>9, <2>2 DEF Slot, Slots
  <2> QED
    BY <2>1, <2>2
<1> QED
  BY <1>4, <1>7, <1>8, <1>10, <1>11 DEF SInv, Slots

LEMMA EntryStep ==
  ASSUME SInv, NEW w \in Workers, Entry(w) PROVE SInv'
<1> DEFINE n == current[w]
<1>1. SupTypes /\ Workforce /\ Starting /\ Slots
  BY DEF SInv
<1>2. wpc[w] = "run" /\ coro[n].at = "entry" /\ wpc[w] \in Busy
  BY DEF Entry, Running, Busy
<1>3. /\ n \in DOMAIN coro /\ coro[n].child \in Children /\ coro[n] \in Coroutine
      /\ mb_ptr[coro[n].child] = n
  BY <1>2, Own DEF Live, Serving
<1>4. coro \in Seq(Coroutine) /\ DOMAIN coro = 1..Len(coro) /\ Len(coro) \in Nat /\ n \in Nat
  BY <1>1, <1>3 DEF SupTypes
<1> DEFINE x == [coro[n] EXCEPT !.at = "loop", !.mb = n]
<1>5. x \in Coroutine /\ x.child = coro[n].child /\ x.at = "loop" /\ x.mb = n
  BY <1>3, <1>4 DEF Coroutine, Ats, Live, Serving
<1>6. coro' = [coro EXCEPT ![n] = x]
  BY <1>3 DEF Entry
<1> HIDE DEF x
<1>7. coro' = [m \in 1..Len(coro) |-> IF m = n THEN x ELSE coro[m]]
  BY <1>4, <1>6
<1>8. /\ coro' \in Seq(Coroutine) /\ Len(coro') = Len(coro) /\ DOMAIN coro' = DOMAIN coro /\ coro'[n] = x
      /\ \A m \in DOMAIN coro : m # n => coro'[m] = coro[m]
  <2>1. \A m \in 1..Len(coro) : coro'[m] \in Coroutine
    BY <1>4, <1>5, <1>7
  <2> QED
    BY <1>3, <1>4, <1>7, <2>1
<1>9. UNCHANGED <<strategy, mb_ptr, alive, restart_count, sup_lock, box, runq, wpc, current, mpc, marg, stops>>
  BY DEF Entry
<1>11. "loop" \in OnCpu \ {"spawn"} /\ "loop" \notin {"destroy", "exit"} /\ box' \in Seq(Box)
  BY <1>1, <1>9 DEF OnCpu, SupTypes
<1> QED
  BY <1>2, <1>3, <1>5, <1>8, <1>9, <1>11, GoesOn

LEMMA LoopEndStep ==
  ASSUME SInv, NEW w \in Workers, LoopEnd(w) PROVE SInv'
<1> DEFINE n == current[w]
<1>1. SupTypes /\ Workforce /\ Starting /\ Slots
  BY DEF SInv
<1>2. wpc[w] = "run" /\ coro[n].at = "destroy" /\ wpc[w] \in Busy
  BY DEF LoopEnd, Running, Busy
<1>3. n \in DOMAIN coro /\ coro[n].child \in Children
  BY <1>2, Own
<1>4. coro[n].mb = n /\ n \in DOMAIN box
  BY <1>1, <1>2, <1>3, BoxFacts DEF Slots, Serves
<1>5. box' = Destroyed(n) /\ coro' = CoroAt(n, "exit") /\ "exit" \in Ats
  BY <1>4 DEF LoopEnd, Ats, Live
<1>6. /\ coro' \in Seq(Coroutine) /\ Len(coro') = Len(coro) /\ DOMAIN coro' = DOMAIN coro /\ coro'[n].at = "exit"
      /\ \A m \in DOMAIN coro : coro'[m].child = coro[m].child
  BY <1>1, <1>3, <1>5, CoroFacts
<1>7. \A m \in DOMAIN coro : m # n => coro'[m] = coro[m] /\ box'[m] = box[m]
  BY <1>1, <1>3, <1>4, <1>5, BoxFacts DEF CoroAt, Destroyed
<1>8. box' \in Seq(Box) /\ Len(box') = Len(box) /\ DOMAIN box' = DOMAIN box /\ box'[n].closed
  BY <1>1, <1>4, <1>5, BoxFacts
<1>9. UNCHANGED <<strategy, mb_ptr, alive, restart_count, sup_lock, runq, wpc, current, mpc, marg, stops>>
  BY DEF LoopEnd
<1>10. "exit" \in OnCpu \ {"spawn"} /\ "exit" \notin {"loop", "destroy"} \cup Serving
  BY DEF OnCpu, Serving
<1> QED
  BY <1>2, <1>6, <1>7, <1>8, <1>9, <1>10, GoesOn

LEMMA LoopStep ==
  ASSUME SInv, NEW w \in Workers, Loop(w) PROVE SInv'
<1> DEFINE n == current[w]
<1>1. SupTypes /\ Workforce /\ Starting /\ Slots
  BY DEF SInv
<1>2. wpc[w] = "run" /\ coro[n].at = "loop" /\ wpc[w] \in Busy
  BY DEF Loop, Running, Busy
<1>3. /\ n \in DOMAIN coro /\ coro[n].child \in Children /\ n \notin runq
      /\ \A v \in Workers : wpc[v] \in Busy /\ v # w => current[v] \in DOMAIN coro /\ current[v] # n
      /\ mb_ptr[coro[n].child] = n
  BY <1>2, Own DEF Live, Serving
<1>4. coro[n].mb = n /\ n \in DOMAIN box
  BY <1>1, <1>2, <1>3, BoxFacts DEF Slots, Serves
<1>5. UNCHANGED <<strategy, mb_ptr, alive, restart_count, sup_lock, box, runq, current, mpc, marg, stops>>
  BY DEF Loop
<1>6. CASE box[n].closed /\ coro' = CoroAt(n, "destroy") /\ wpc' = wpc
  <2>1. "destroy" \in OnCpu \ {"spawn"} /\ "destroy" \notin Serving /\ "destroy" \in Ats
    BY DEF OnCpu, Serving, Ats, Live
  <2>2. /\ coro' \in Seq(Coroutine) /\ Len(coro') = Len(coro) /\ DOMAIN coro' = DOMAIN coro /\ coro'[n].at = "destroy"
        /\ coro'[n].mb = n /\ \A m \in DOMAIN coro : coro'[m].child = coro[m].child
    BY <1>1, <1>3, <1>4, <1>6, <2>1, CoroFacts
  <2>3. \A m \in DOMAIN coro : m # n => coro'[m] = coro[m] /\ box'[m] = box[m]
    BY <1>1, <1>3, <1>5, <1>6 DEF CoroAt
  <2>4. box' \in Seq(Box) /\ Len(box') = Len(box) /\ DOMAIN box' = DOMAIN box /\ box'[n].closed
    BY <1>1, <1>5, <1>6 DEF SupTypes
  <2> QED
    BY <1>2, <1>5, <1>6, <2>1, <2>2, <2>3, <2>4, GoesOn
<1>7. CASE ~box[n].closed /\ coro' = CoroAt(n, "parked") /\ wpc' = [wpc EXCEPT ![w] = "check"]
  <2>1. "parked" \in Ats /\ "parked" \notin OnCpu
    BY DEF Ats, Live, Serving, OnCpu
  <2>2. /\ coro' \in Seq(Coroutine) /\ Len(coro') = Len(coro) /\ DOMAIN coro' = DOMAIN coro
        /\ \A m \in DOMAIN coro : /\ coro'[m].child = coro[m].child /\ coro'[m].mb = coro[m].mb
                                  /\ coro'[m].at = IF m = n THEN "parked" ELSE coro[m].at
    BY <1>1, <1>3, <1>7, <2>1, CoroFacts
  <2>3. /\ wpc'[w] = "check" /\ wpc' \in [Workers -> {"check", "find", "ended"} \cup Busy] /\ wpc'[w] \notin Busy
        /\ \A v \in Workers : v # w => wpc'[v] = wpc[v]
    BY <1>1, <1>7 DEF SupTypes, Busy
  <2>4. SupTypes'
    BY <1>1, <1>5, <2>2, <2>3 DEF SupTypes
  <2>5. ASSUME NEW v \in Workers PROVE Works(v)'
    <3>1. CASE v = w
      BY <2>3, <3>1 DEF Works
    <3>2. CASE v # w
      BY <1>1, <1>3, <1>5, <2>2, <2>3, <3>2 DEF Works, Workforce
    <3> QED
      BY <3>1, <3>2
  <2>6. ASSUME NEW m \in DOMAIN coro PROVE Waits(m)'
    <3>1. CASE m = n
      BY <1>3, <1>5, <1>7, <2>1, <2>2, <3>1 DEF Waits
    <3>2. CASE m # n
      BY <1>1, <1>5, <2>2, <2>3, <3>2 DEF Waits, Workforce
    <3> QED
      BY <3>1, <3>2
  <2>7. Workforce'
    BY <1>1, <1>5, <2>2, <2>3, <2>5, <2>6 DEF Workforce
  <2>8. Starting'
    <3>1. coro # <<>>
      BY <1>3
    <3> QED
      BY <1>1, <1>5, <2>2, <3>1 DEF Starting
  <2>9. ASSUME NEW c \in Children PROVE Respawning(c)' <=> Respawning(c)
    <3>1. ASSUME NEW v \in Workers PROVE Respawns(v, c)' <=> Respawns(v, c)
      <4>1. CASE v = w
        BY <1>2, <2>3, <4>1 DEF Respawns
      <4>2. CASE v # w
        BY <1>3, <1>5, <2>2, <2>3, <4>2 DEF Respawns, Busy
      <4> QED
        BY <4>1, <4>2
    <3> QED
      BY <3>1 DEF Respawning
  <2>10. ASSUME NEW m \in DOMAIN coro PROVE Serves(m)'
    <3>1. CASE m = n
      BY <1>1, <1>2, <1>3, <1>4, <1>5, <2>2, <3>1 DEF Serves, Slots, Serving
    <3>2. CASE m # n
      BY <1>1, <1>5, <2>2, <3>2 DEF Serves, Slots
    <3> QED
      BY <3>1, <3>2
  <2>11. ASSUME NEW c \in Children PROVE Slot(c)'
    BY <1>1, <1>2, <1>5, <2>2, <2>9 DEF Slot, Slots, Live, Serving
  <2> QED
    BY <2>2, <2>4, <2>7, <2>8, <2>10, <2>11 DEF SInv, Slots
<1> QED
  BY <1>4, <1>6, <1>7 DEF Loop

\* While the lock is free nobody restarts a child, and *main has started them all.
LEMMA NobodyRestarts ==
  ASSUME SInv, sup_lock \notin Workers, sup_lock # "main", coro # <<>>
  PROVE  /\ mpc # "start" /\ \A v \in Workers : wpc[v] \in Busy => coro[current[v]].at # "spawn"
         /\ \A c \in Children : ~Respawning(c)
<1>1. Workforce /\ Starting
  BY DEF SInv
<1>2. mpc # "start"
  BY <1>1 DEF Starting
<1>3. \A v \in Workers : wpc[v] \in Busy => coro[current[v]].at # "spawn"
  BY <1>1 DEF Workforce, Works
<1>4. \A c \in Children : ~Respawning(c)
  BY <1>3 DEF Respawning, Respawns, Busy
<1> QED
  BY <1>2, <1>3, <1>4

\* A worker that restarts a child is the only one, and *main has started them all.
LEMMA OneRestarts ==
  ASSUME SInv, NEW w \in Workers, wpc[w] \in Busy, coro[current[w]].at = "spawn"
  PROVE  /\ mpc # "start" /\ sup_lock = w
         /\ \A v \in Workers : wpc[v] \in Busy /\ v # w => coro[current[v]].at # "spawn"
         /\ \A c \in Children : Respawning(c) <=> wpc[w] = "run" /\ coro[current[w]].child = c
<1>1. Workforce /\ Starting /\ SupTypes
  BY DEF SInv
<1>2. sup_lock = w /\ current[w] \in DOMAIN coro
  BY <1>1 DEF Workforce, Works
<1>3. mpc # "start"
  <2>1. coro # <<>>
    BY <1>2
  <2> QED
    BY <1>1, <1>2, <2>1, SupervisorAssumption DEF Starting
<1>4. \A v \in Workers : wpc[v] \in Busy /\ v # w => coro[current[v]].at # "spawn"
  BY <1>1, <1>2 DEF Workforce, Works
<1>5. ASSUME NEW c \in Children PROVE Respawning(c) <=> wpc[w] = "run" /\ coro[current[w]].child = c
  BY <1>4 DEF Respawning, Respawns, Busy
<1> QED
  BY <1>2, <1>3, <1>4, <1>5

LEMMA OnExitStep ==
  ASSUME SInv, NEW w \in Workers, OnExit(w) PROVE SInv'
<1> DEFINE n == current[w]
           c == coro[n].child
<1>1. SupTypes /\ Workforce /\ Starting /\ Slots
  BY DEF SInv
<1>2. wpc[w] = "run" /\ coro[n].at = "exit" /\ wpc[w] \in Busy /\ sup_lock = "free"
  BY DEF OnExit, Running, Busy
<1>3. /\ n \in DOMAIN coro /\ c \in Children /\ n \notin runq
      /\ \A v \in Workers : wpc[v] \in Busy /\ v # w => current[v] \in DOMAIN coro /\ current[v] # n
      /\ mb_ptr[c] = n
  BY <1>2, Own DEF Live, Serving
<1>4. coro # <<>> /\ n \in DOMAIN box /\ n # 0
  BY <1>1, <1>3, BoxFacts
<1>5. /\ mpc # "start" /\ \A v \in Workers : wpc[v] \in Busy => coro[current[v]].at # "spawn"
      /\ \A d \in Children : ~Respawning(d)
  BY <1>2, <1>4, NobodyRestarts, SupervisorAssumption
<1>6. UNCHANGED <<strategy, runq, current, mpc, marg, stops>> /\ box' = Destroyed(n)
  BY <1>3 DEF OnExit
<1>7. /\ box' \in Seq(Box) /\ Len(box') = Len(box) /\ DOMAIN box' = DOMAIN box
      /\ \A m \in DOMAIN coro : m # n => (box'[m].closed <=> box[m].closed)
  BY <1>1, <1>4, <1>6, BoxFacts
<1>8. /\ mb_ptr' \in [Children -> Nat] /\ alive' \in [Children -> BOOLEAN] /\ mb_ptr'[c] = 0
      /\ \A d \in Children : d # c => mb_ptr'[d] = mb_ptr[d] /\ alive'[d] = alive[d]
  BY <1>1, <1>3 DEF OnExit, SupTypes
<1>9. \A m \in DOMAIN coro : m # n /\ coro[m].at \in Live => coro[m].child # c /\ coro[m].child \in Children
  <2>1. \A m \in DOMAIN coro : coro[m] \in Coroutine
    BY <1>1 DEF SupTypes
  <2> QED
    BY <1>1, <1>3, <2>1 DEF Slots, Serves, Coroutine
<1>10. ASSUME NEW p \in {"done", "spawn"}, coro' = CoroAt(n, p),
              wpc' \in [Workers -> {"check", "find", "ended"} \cup Busy], \A v \in Workers : v # w => wpc'[v] = wpc[v],
              wpc'[w] = IF p = "done" THEN "check" ELSE "run",
              p = "done" => restart_count = MAX_RESTARTS /\ restart_count' = restart_count /\ sup_lock' = sup_lock,
              p = "spawn" => restart_count # MAX_RESTARTS /\ restart_count' = restart_count + 1 /\ sup_lock' = w
       PROVE  SInv'
  <2>1. /\ coro' \in Seq(Coroutine) /\ Len(coro') = Len(coro) /\ DOMAIN coro' = DOMAIN coro
        /\ \A m \in DOMAIN coro : /\ coro'[m].child = coro[m].child /\ coro'[m].mb = coro[m].mb
                                  /\ coro'[m].at = IF m = n THEN p ELSE coro[m].at
    <3>1. p \in Ats
      BY DEF Ats
    <3> QED
      BY <1>1, <1>3, <1>10, <3>1, CoroFacts
  <2>2. restart_count' \in Nat /\ restart_count' <= MAX_RESTARTS
    BY <1>1, <1>10, SupervisorAssumption DEF SupTypes
  <2>3. SupTypes'
    BY <1>1, <1>6, <1>7, <1>8, <1>10, <2>1, <2>2 DEF SupTypes
  <2>4. ASSUME NEW v \in Workers PROVE Works(v)'
    <3>1. CASE v = w
      BY <1>3, <1>6, <1>10, <2>1, <3>1 DEF Works, OnCpu, Busy
    <3>2. CASE v # w
      <4>1. wpc[v] \in Busy => coro'[current[v]].at # "spawn"
        BY <1>3, <1>5, <2>1, <3>2
      <4> QED
        BY <1>1, <1>3, <1>6, <1>10, <2>1, <3>2, <4>1 DEF Works, Workforce
    <3> QED
      BY <3>1, <3>2
  <2>5. ASSUME NEW m \in DOMAIN coro PROVE Waits(m)'
    <3>1. CASE m = n
      BY <1>3, <1>6, <1>10, <2>1, <3>1 DEF Waits, OnCpu, Busy
    <3>2. CASE m # n
      <4>1. Waits(m) /\ m \notin {n}
        BY <1>1, <3>2 DEF Workforce
      <4>2. coro'[m].at = coro[m].at /\ (box'[m].closed <=> box[m].closed) /\ runq' = runq /\ current' = current
        BY <1>6, <1>7, <2>1, <3>2
      <4>3. ASSUME NEW v \in Workers, wpc[v] \in Busy, current[v] = m PROVE wpc'[v] \in Busy
        BY <1>10, <3>2, <4>3
      <4> QED
        BY <4>1, <4>2, <4>3 DEF Waits
    <3> QED
      BY <3>1, <3>2
  <2>6. ASSUME NEW u \in Workers, NEW v \in Workers, wpc'[u] \in Busy, wpc'[v] \in Busy, current'[u] = current'[v] PROVE u = v
    <3>1. wpc[u] \in Busy /\ wpc[v] \in Busy
      BY <1>2, <1>10, <2>6
    <3> QED
      BY <1>1, <1>6, <2>6, <3>1 DEF Workforce
  <2>7. Starting'
    BY <1>5, <1>6 DEF Starting
  <2>8. ASSUME NEW m \in DOMAIN coro PROVE Serves(m)'
    <3>1. CASE m = n
      BY <2>1, <3>1 DEF Serves, Live, Serving
    <3>2. CASE m # n
      <4>1. Serves(m)
        BY <1>1 DEF Slots
      <4>2. coro'[m].at = coro[m].at /\ coro'[m].mb = coro[m].mb /\ coro'[m].child = coro[m].child
        BY <2>1, <3>2
      <4>3. coro[m].at \in Live => mb_ptr'[coro[m].child] = mb_ptr[coro[m].child]
        BY <1>8, <1>9, <3>2
      <4>4. (box'[m].closed <=> box[m].closed) /\ mpc' = mpc
        BY <1>6, <1>7, <3>2
      <4> QED
        BY <4>1, <4>2, <4>3, <4>4 DEF Serves
    <3> QED
      BY <3>1, <3>2
  <2>9. ASSUME NEW d \in Children PROVE Respawning(d)' <=> p = "spawn" /\ d = c
    <3>1. ASSUME NEW v \in Workers, v # w PROVE ~Respawns(v, d)'
      <4>1. wpc[v] \in Busy => coro'[current[v]].at # "spawn"
        BY <1>3, <1>5, <2>1, <3>1
      <4> QED
        BY <1>6, <1>10, <3>1, <4>1 DEF Respawns, Busy
    <3>2. Respawns(w, d)' <=> p = "spawn" /\ d = c
      BY <1>3, <1>6, <1>10, <2>1 DEF Respawns
    <3> QED
      BY <3>1, <3>2 DEF Respawning
  <2>10. ASSUME NEW d \in Children PROVE Slot(d)'
    <3>1. CASE d = c
      BY <1>8, <1>10, <2>9, <3>1 DEF Slot
    <3>2. CASE d # c
      <4>1. mb_ptr[d] # n
        BY <1>1, <1>4, <3>2 DEF Slots, Slot
      <4> QED
        BY <1>1, <1>5, <1>6, <1>8, <1>10, <2>1, <2>9, <3>2, <4>1 DEF Slot, Slots
    <3> QED
      BY <3>1, <3>2
  <2> QED
    BY <2>1, <2>3, <2>4, <2>5, <2>6, <2>7, <2>8, <2>10 DEF SInv, Slots, Workforce
<1>11. CASE restart_count >= MAX_RESTARTS
  <2>1. coro' = CoroAt(n, "done") /\ wpc' = [wpc EXCEPT ![w] = "check"] /\ restart_count' = restart_count /\ sup_lock' = sup_lock
    BY <1>11 DEF OnExit, Done
  <2>2. restart_count = MAX_RESTARTS
    BY <1>1, <1>11, SupervisorAssumption DEF SupTypes
  <2>3. /\ wpc' \in [Workers -> {"check", "find", "ended"} \cup Busy] /\ wpc'[w] = "check"
        /\ \A v \in Workers : v # w => wpc'[v] = wpc[v]
    BY <1>1, <2>1 DEF SupTypes
  <2> QED
    BY <1>10, <2>1, <2>2, <2>3
<1>12. CASE ~(restart_count >= MAX_RESTARTS)
  <2>1. coro' = CoroAt(n, "spawn") /\ wpc' = wpc /\ restart_count' = restart_count + 1 /\ sup_lock' = w
    BY <1>12 DEF OnExit
  <2>2. restart_count # MAX_RESTARTS
    BY <1>1, <1>12, SupervisorAssumption DEF SupTypes
  <2>3. /\ wpc' \in [Workers -> {"check", "find", "ended"} \cup Busy] /\ wpc'[w] = "run"
        /\ \A v \in Workers : v # w => wpc'[v] = wpc[v]
    BY <1>1, <1>2, <2>1 DEF SupTypes
  <2> QED
    BY <1>10, <2>1, <2>2, <2>3
<1> QED
  BY <1>11, <1>12

LEMMA RestartStep ==
  ASSUME SInv, NEW w \in Workers, Restart(w) PROVE SInv'
<1> DEFINE n == current[w]
           c == coro[n].child
<1>1. SupTypes /\ Workforce /\ Starting /\ Slots
  BY DEF SInv
<1>2. wpc[w] = "run" /\ coro[n].at = "spawn" /\ wpc[w] \in Busy
  BY DEF Restart, Running, Busy
<1>3. n \in DOMAIN coro /\ c \in Children
  BY <1>2, Own
<1>4. /\ mpc # "start" /\ sup_lock = w
      /\ \A v \in Workers : wpc[v] \in Busy /\ v # w => coro[current[v]].at # "spawn"
      /\ \A d \in Children : Respawning(d) <=> d = c
  BY <1>2, OneRestarts
<1>5. mb_ptr[c] = 0
  BY <1>1, <1>3, <1>4 DEF Slots, Slot
<1>6. UNCHANGED <<strategy, restart_count, sup_lock, current, mpc, marg, stops>> /\ SpawnOne(c, alive)
  BY DEF Restart
<1>n. PICK N \in Nat : N = Len(box) + 1
  BY <1>1 DEF SupTypes
<1>7. /\ N \in Nat \ {0} /\ N \notin DOMAIN coro /\ DOMAIN box' = DOMAIN box \cup {N} /\ DOMAIN coro' = DOMAIN coro \cup {N}
      /\ box' \in Seq(Box) /\ coro' \in Seq(Coroutine) /\ Len(coro') = Len(box')
      /\ \A m \in DOMAIN coro : box'[m] = box[m] /\ coro'[m] = coro[m]
      /\ ~box'[N].closed
      /\ coro'[N].child = c /\ coro'[N].at = "new"
      /\ runq' = runq \cup {N}
      /\ mb_ptr' \in [Children -> Nat] /\ alive' \in [Children -> BOOLEAN]
      /\ \A d \in Children : /\ mb_ptr'[d] = IF d = c THEN N ELSE mb_ptr[d]
                             /\ alive'[d] = IF d = c THEN TRUE ELSE alive[d]
  BY <1>1, <1>3, <1>6, <1>n, SpawnFacts
<1>8. /\ wpc' \in [Workers -> {"check", "find", "ended"} \cup Busy] /\ wpc'[w] = "siblings"
      /\ \A v \in Workers : v # w => wpc'[v] = wpc[v]
  BY <1>1 DEF Restart, SupTypes, Busy
<1>9. SupTypes'
  BY <1>1, <1>6, <1>7, <1>8 DEF SupTypes
<1>10. ASSUME NEW v \in Workers PROVE Works(v)'
  <2>1. CASE v = w
    BY <1>2, <1>3, <1>4, <1>6, <1>7, <2>1 DEF Works, OnCpu
  <2>2. CASE v # w
    <3>1. Works(v) /\ wpc'[v] = wpc[v] /\ current' = current
      BY <1>1, <1>6, <1>8, <2>2 DEF Workforce
    <3> QED
      BY <1>4, <1>7, <2>2, <3>1 DEF Works
  <2> QED
    BY <2>1, <2>2
<1>11. ASSUME NEW m \in DOMAIN coro PROVE Waits(m)'
  <2>1. Waits(m) /\ m # N /\ coro'[m] = coro[m] /\ box'[m] = box[m]
    BY <1>1, <1>7 DEF Workforce
  <2>2. \A v \in Workers : wpc[v] \in Busy => wpc'[v] \in Busy
    BY <1>8 DEF Busy
  <2> QED
    BY <1>6, <1>7, <2>1, <2>2 DEF Waits
<1>12. Waits(N)'
  BY <1>7 DEF Waits, OnCpu
<1>13. \A u, v \in Workers : wpc'[u] \in Busy /\ wpc'[v] \in Busy /\ current'[u] = current'[v] => u = v
  <2>1. \A v \in Workers : wpc'[v] \in Busy => wpc[v] \in Busy
    BY <1>2, <1>8
  <2> QED
    BY <1>1, <1>6, <2>1 DEF Workforce
<1>14. Workforce'
  BY <1>7, <1>10, <1>11, <1>12, <1>13 DEF Workforce
<1>15. Starting'
  BY <1>4, <1>6 DEF Starting
<1>16. ASSUME NEW d \in Children PROVE ~Respawning(d)'
  <2>1. ASSUME NEW v \in Workers PROVE ~Respawns(v, d)'
    <3>1. CASE v = w
      BY <1>8, <3>1 DEF Respawns
    <3>2. CASE v # w
      <4>1. wpc[v] \in Busy => current[v] \in DOMAIN coro /\ coro[current[v]].at # "spawn"
        BY <1>1, <1>4, <3>2 DEF Workforce, Works
      <4> QED
        BY <1>6, <1>7, <1>8, <3>2, <4>1 DEF Respawns, Busy
    <3> QED
      BY <3>1, <3>2
  <2> QED
    BY <2>1 DEF Respawning
<1>17. ASSUME NEW m \in DOMAIN coro PROVE Serves(m)'
  <2>1. Serves(m) /\ coro'[m] = coro[m] /\ box'[m] = box[m] /\ m # 0
    BY <1>1, <1>7 DEF Slots, SupTypes
  <2>2. coro[m].child \in Children
    <3>1. coro[m] \in Coroutine
      BY <1>1 DEF SupTypes
    <3> QED
      BY <3>1 DEF Coroutine
  <2>3. coro[m].at \in Live => mb_ptr'[coro[m].child] = m
    BY <1>5, <1>7, <2>1, <2>2 DEF Serves
  <2> QED
    BY <1>6, <2>1, <2>3 DEF Serves
<1>18. Serves(N)'
  BY <1>3, <1>7 DEF Serves
<1>19. ASSUME NEW d \in Children PROVE Slot(d)'
  <2>1. CASE d = c
    BY <1>7, <1>16, <2>1 DEF Slot, Live, Serving
  <2>2. CASE d # c
    <3>1. Slot(d) /\ ~Respawning(d) /\ ~Respawning(d)' /\ mb_ptr'[d] = mb_ptr[d] /\ alive'[d] = alive[d]
      BY <1>1, <1>4, <1>7, <1>16, <2>2 DEF Slots
    <3>2. mb_ptr[d] # 0 => coro'[mb_ptr[d]] = coro[mb_ptr[d]] /\ mb_ptr[d] \in DOMAIN coro'
      BY <1>7, <3>1 DEF Slot
    <3> QED
      BY <1>6, <3>1, <3>2 DEF Slot
  <2> QED
    BY <2>1, <2>2
<1> QED
  BY <1>7, <1>9, <1>14, <1>15, <1>17, <1>18, <1>19 DEF SInv, Slots

LEMMA StopSiblingsStep ==
  ASSUME SInv, NEW w \in Workers, StopSiblings(w) PROVE SInv'
<1> DEFINE n == current[w]
<1>1. SupTypes /\ Workforce /\ Starting /\ Slots
  BY DEF SInv
<1>2. wpc[w] = "siblings" /\ wpc[w] \in Busy /\ coro[n].at = "spawn"
  BY <1>1 DEF StopSiblings, Busy, Workforce, Works
<1>3. n \in DOMAIN coro /\ n \notin runq /\ \A v \in Workers : wpc[v] \in Busy /\ v # w => current[v] \in DOMAIN coro /\ current[v] # n
  BY <1>2, Own
<1>4. /\ mpc # "start" /\ sup_lock = w
      /\ \A v \in Workers : wpc[v] \in Busy /\ v # w => coro[current[v]].at # "spawn"
      /\ \A d \in Children : ~Respawning(d)
  BY <1>2, OneRestarts
<1>5. PICK ms : box' = Closing(ms) /\ runq' = runq \cup Readied(ms)
  BY DEF StopSiblings
<1>6. /\ box' \in Seq(Box) /\ Len(box') = Len(box) /\ DOMAIN box' = DOMAIN box
      /\ \A m \in DOMAIN coro : (box'[m].closed <=> box[m].closed \/ m \in ms)
  BY <1>1, <1>5, BoxFacts
<1>7. coro' = CoroAt(n, "done") /\ wpc' = [wpc EXCEPT ![w] = "check"] /\ sup_lock' = "free"
  BY DEF StopSiblings, Done
<1>8. UNCHANGED <<strategy, mb_ptr, alive, restart_count, current, mpc, marg, stops>>
  BY DEF StopSiblings
<1>9. /\ coro' \in Seq(Coroutine) /\ Len(coro') = Len(coro) /\ DOMAIN coro' = DOMAIN coro
      /\ \A m \in DOMAIN coro : /\ coro'[m].child = coro[m].child /\ coro'[m].mb = coro[m].mb
                                /\ coro'[m].at = IF m = n THEN "done" ELSE coro[m].at
  BY <1>1, <1>3, <1>7, CoroFacts DEF Ats
<1>10. /\ wpc' \in [Workers -> {"check", "find", "ended"} \cup Busy] /\ wpc'[w] = "check" /\ wpc'[w] \notin Busy
       /\ \A v \in Workers : v # w => wpc'[v] = wpc[v]
  BY <1>1, <1>7 DEF SupTypes, Busy
<1>11. \A m : m \in Readied(ms) <=> m \in DOMAIN coro /\ coro[m].at = "parked" /\ coro[m].mb \in ms
  BY DEF Readied
<1>12. SupTypes'
  <2>1. runq' \subseteq DOMAIN coro'
    BY <1>1, <1>5, <1>9, <1>11 DEF SupTypes
  <2> QED
    BY <1>1, <1>4, <1>6, <1>8, <1>9, <1>10, <2>1 DEF SupTypes
<1>13. ASSUME NEW v \in Workers PROVE Works(v)'
  <2>1. CASE v = w
    BY <1>10, <2>1 DEF Works
  <2>2. CASE v # w
    <3>1. Works(v) /\ wpc'[v] = wpc[v] /\ current' = current
      BY <1>1, <1>8, <1>10, <2>2 DEF Workforce
    <3> QED
      BY <1>3, <1>4, <1>9, <2>2, <3>1 DEF Works
  <2> QED
    BY <2>1, <2>2
<1>14. ASSUME NEW m \in DOMAIN coro PROVE Waits(m)'
  <2>1. CASE m = n
    BY <1>2, <1>3, <1>5, <1>9, <1>11, <2>1 DEF Waits, OnCpu
  <2>2. CASE m # n
    <3>1. Waits(m) /\ coro'[m].at = coro[m].at /\ current' = current /\ (coro[m].at = "parked" => coro[m].mb = m)
      BY <1>1, <1>8, <1>9, <2>2 DEF Workforce, Slots, Serves
    <3>2. ASSUME NEW v \in Workers, wpc[v] \in Busy, current[v] = m PROVE wpc'[v] \in Busy
      BY <1>10, <2>2, <3>2
    <3> QED
      BY <1>5, <1>6, <1>11, <3>1, <3>2 DEF Waits
  <2> QED
    BY <2>1, <2>2
<1>15. Workforce'
  BY <1>1, <1>8, <1>9, <1>10, <1>13, <1>14 DEF Workforce
<1>16. Starting'
  BY <1>4, <1>8 DEF Starting
<1>17. ASSUME NEW d \in Children PROVE ~Respawning(d)'
  <2>1. ASSUME NEW v \in Workers PROVE ~Respawns(v, d)'
    <3>1. CASE v = w
      BY <1>10, <3>1 DEF Respawns
    <3>2. CASE v # w
      BY <1>3, <1>4, <1>8, <1>9, <1>10, <3>2 DEF Respawns, Busy
    <3> QED
      BY <3>1, <3>2
  <2> QED
    BY <2>1 DEF Respawning
<1>18. ASSUME NEW m \in DOMAIN coro PROVE Serves(m)'
  <2>1. CASE m = n
    BY <1>9, <2>1 DEF Serves, Live, Serving
  <2>2. CASE m # n
    BY <1>1, <1>6, <1>8, <1>9, <2>2 DEF Serves, Slots
  <2> QED
    BY <2>1, <2>2
<1>19. ASSUME NEW d \in Children PROVE Slot(d)'
  BY <1>1, <1>2, <1>4, <1>8, <1>9, <1>17 DEF Slot, Slots, Live, Serving
<1> QED
  BY <1>9, <1>12, <1>15, <1>16, <1>18, <1>19 DEF SInv, Slots

-----------------------------------------------------------------------------
(* *main *)

\* *main has started the children, and closes some mailboxes or none.
LEMMA MainStep ==
  ASSUME SInv, mpc # "start", mpc' \in {"run", "stop", "shutdown", "joining", "ended"},
         mpc' \in Early => mpc \in Early, stops' \in Nat,
         NEW ms, runq' = runq \cup Readied(ms),
         box' \in Seq(Box), Len(box') = Len(box), DOMAIN box' = DOMAIN box,
         \A m \in DOMAIN box : box'[m].closed <=> box[m].closed \/ m \in ms,
         UNCHANGED <<strategy, mb_ptr, alive, restart_count, sup_lock, coro, wpc, current>>
  PROVE  SInv'
<1>1. SupTypes /\ Workforce /\ Starting /\ Slots
  BY DEF SInv
<1>2. DOMAIN coro = DOMAIN box
  BY <1>1, BoxFacts
<1>3. \A m : m \in Readied(ms) <=> m \in DOMAIN coro /\ coro[m].at = "parked" /\ coro[m].mb \in ms
  BY DEF Readied
<1>4. SupTypes'
  <2>1. runq' \subseteq DOMAIN coro /\ mpc' # "start"
    BY <1>1, <1>3 DEF SupTypes
  <2> QED
    BY <1>1, <2>1 DEF SupTypes, Early
<1>5. ASSUME NEW v \in Workers PROVE Works(v)'
  BY <1>1 DEF Workforce, Works
<1>6. ASSUME NEW m \in DOMAIN coro PROVE Waits(m)'
  <2>1. Waits(m) /\ (coro[m].at = "parked" => coro[m].mb = m)
    BY <1>1 DEF Workforce, Slots, Serves
  <2> QED
    BY <1>2, <1>3, <2>1 DEF Waits
<1>7. Workforce'
  BY <1>1, <1>5, <1>6 DEF Workforce
<1>8. Starting'
  BY DEF Starting
<1>9. \A c \in Children : Respawning(c)' <=> Respawning(c)
  BY DEF Respawning, Respawns
<1>10. ASSUME NEW m \in DOMAIN coro PROVE Serves(m)'
  BY <1>1, <1>2 DEF Slots, Serves
<1>11. ASSUME NEW c \in Children PROVE Slot(c)'
  BY <1>1, <1>9 DEF Slots, Slot
<1> QED
  BY <1>4, <1>7, <1>8, <1>10, <1>11 DEF SInv, Slots

LEMMA ChildrenNat == Children \subseteq Nat
<1>1. Cardinality(Children) \in Nat
  BY SupervisorAssumption, FS_CardinalityType
<1> QED
  BY <1>1, SupervisorAssumption

LEMMA StartStep ==
  ASSUME SInv, Start PROVE SInv'
<1> DEFINE left == {c \in Children : c > marg}
<1>1. SupTypes /\ Workforce /\ Starting /\ Slots /\ mpc = "start" /\ marg \in Nat
  BY DEF SInv, Start, SupTypes
<1>2. UNCHANGED <<strategy, restart_count, wpc, current, stops>>
  BY DEF Start
<1>3. \A v \in Workers : wpc[v] \in Busy => coro[current[v]].at # "spawn"
  <2>1. \A v \in Workers : wpc[v] \in Busy => coro # <<>> /\ (coro[current[v]].at = "spawn" => sup_lock = v)
    BY <1>1 DEF Workforce, Works
  <2> QED
    BY <1>1, <2>1, SupervisorAssumption DEF Starting
<1>4. \A c \in Children : ~Respawning(c)
  BY <1>3 DEF Respawning, Respawns, Busy
<1>5. CASE left = {} /\ sup_lock' = "free" /\ mpc' = "run" /\ marg' = 0 /\ UNCHANGED <<box, mb_ptr, alive, coro, runq>>
  <2>1. SupTypes'
    BY <1>1, <1>2, <1>5 DEF SupTypes, Early
  <2>2. ASSUME NEW v \in Workers PROVE Works(v)'
    BY <1>1, <1>2, <1>3, <1>5 DEF Workforce, Works
  <2>3. ASSUME NEW m \in DOMAIN coro PROVE Waits(m)'
    BY <1>1, <1>2, <1>5 DEF Workforce, Waits
  <2>4. Workforce'
    BY <1>1, <1>2, <1>5, <2>2, <2>3 DEF Workforce
  <2>5. Starting'
    BY <1>5 DEF Starting
  <2>6. \A c \in Children : Respawning(c)' <=> Respawning(c)
    BY <1>2, <1>5 DEF Respawning, Respawns
  <2>7. ASSUME NEW m \in DOMAIN coro PROVE Serves(m)'
    BY <1>1, <1>2, <1>5 DEF Slots, Serves, Early
  <2>8. ASSUME NEW c \in Children PROVE Slot(c)'
    BY <1>1, <1>2, <1>5, <2>6 DEF Slots, Slot
  <2> QED
    BY <1>5, <2>1, <2>4, <2>5, <2>7, <2>8 DEF SInv, Slots
<1>6. CASE left # {} /\ SpawnOne(marg + 1, alive) /\ sup_lock' = "main" /\ marg' = marg + 1 /\ mpc' = mpc
  <2>0. PICK N \in Nat : N = Len(box) + 1
    BY <1>1 DEF SupTypes
  <2>c. PICK c \in Children : c = marg + 1
    <3>1. Cardinality(Children) \in Nat
      BY SupervisorAssumption, FS_CardinalityType
    <3> QED
      BY <1>1, <1>6, <3>1, SupervisorAssumption
  <2>1. /\ N \in Nat \ {0} /\ N \notin DOMAIN coro /\ DOMAIN box' = DOMAIN box \cup {N} /\ DOMAIN coro' = DOMAIN coro \cup {N}
        /\ box' \in Seq(Box) /\ coro' \in Seq(Coroutine) /\ Len(coro') = Len(box')
        /\ \A m \in DOMAIN coro : box'[m] = box[m] /\ coro'[m] = coro[m]
        /\ ~box'[N].closed
        /\ coro'[N].child = c /\ coro'[N].at = "new"
        /\ runq' = runq \cup {N}
        /\ mb_ptr' \in [Children -> Nat] /\ alive' \in [Children -> BOOLEAN]
        /\ \A d \in Children : /\ mb_ptr'[d] = IF d = c THEN N ELSE mb_ptr[d]
                               /\ alive'[d] = IF d = c THEN TRUE ELSE alive[d]
    <3>1. SpawnOne(c, alive)
      BY <1>6, <2>c DEF SpawnOne
    <3> QED
      BY <1>1, <2>0, <3>1, SpawnFacts
  <2>2. SupTypes'
    BY <1>1, <1>2, <1>6, <2>1 DEF SupTypes
  <2>3. ASSUME NEW v \in Workers PROVE Works(v)'
    BY <1>1, <1>2, <1>3, <2>1 DEF Workforce, Works
  <2>4. ASSUME NEW m \in DOMAIN coro PROVE Waits(m)'
    BY <1>1, <1>2, <2>1 DEF Workforce, Waits
  <2>5. Waits(N)'
    BY <2>1 DEF Waits, OnCpu
  <2>6. Workforce'
    BY <1>1, <1>2, <2>1, <2>3, <2>4, <2>5 DEF Workforce
  <2>7. \A m \in DOMAIN coro : coro[m].child \in Nat /\ coro[m].child <= marg /\ coro[m].child \in Children /\ coro[m].child # c
    <3>1. \A m \in DOMAIN coro : coro[m].child \in Children
      <4>1. \A m \in DOMAIN coro : coro[m] \in Coroutine
        BY <1>1 DEF SupTypes
      <4> QED
        BY <4>1 DEF Coroutine
    <3>2. \A m \in DOMAIN coro : coro[m].child <= marg
      BY <1>1 DEF Starting
    <3>3. ASSUME NEW m \in DOMAIN coro PROVE coro[m].child \in Nat /\ coro[m].child # c
      <4>1. coro[m].child \in Nat /\ coro[m].child <= marg
        BY <3>1, <3>2, ChildrenNat
      <4> QED
        BY <1>1, <2>c, <4>1
    <3> QED
      BY <3>1, <3>2, <3>3
  <2>8. Starting'
    BY <1>1, <1>6, <2>1, <2>7, <2>c DEF Starting
  <2>9. ASSUME NEW d \in Children PROVE ~Respawning(d)'
    <3>1. ASSUME NEW v \in Workers PROVE ~Respawns(v, d)'
      <4>1. wpc[v] \in Busy => current[v] \in DOMAIN coro /\ coro[current[v]].at # "spawn"
        BY <1>1, <1>3 DEF Workforce, Works
      <4> QED
        BY <1>2, <2>1, <4>1 DEF Respawns, Busy
    <3> QED
      BY <3>1 DEF Respawning
  <2>10. ASSUME NEW m \in DOMAIN coro PROVE Serves(m)'
    <3>1. Serves(m) /\ coro'[m] = coro[m] /\ box'[m] = box[m] /\ mb_ptr'[coro[m].child] = mb_ptr[coro[m].child]
      BY <1>1, <2>1, <2>7 DEF Slots
    <3> QED
      BY <1>6, <3>1 DEF Serves
  <2>11. Serves(N)'
    BY <2>1 DEF Serves
  <2>12. ASSUME NEW d \in Children PROVE Slot(d)'
    <3>1. CASE d = c
      BY <2>1, <2>9, <3>1 DEF Slot, Live, Serving
    <3>2. CASE d # c
      <4>1. Slot(d) /\ ~Respawning(d) /\ ~Respawning(d)' /\ mb_ptr'[d] = mb_ptr[d] /\ alive'[d] = alive[d] /\ d \in Nat
        BY <1>1, <1>4, <2>1, <2>9, <3>2, ChildrenNat DEF Slots
      <4>2. mb_ptr[d] # 0 => coro'[mb_ptr[d]] = coro[mb_ptr[d]] /\ mb_ptr[d] \in DOMAIN coro'
        BY <2>1, <4>1 DEF Slot
      <4>3. d > marg => d > marg + 1
        BY <1>1, <2>c, <3>2, <4>1
      <4> QED
        BY <1>1, <1>2, <1>6, <4>1, <4>2, <4>3 DEF Slot
    <3> QED
      BY <3>1, <3>2
  <2> QED
    BY <2>1, <2>2, <2>6, <2>8, <2>10, <2>11, <2>12 DEF SInv, Slots
<1> QED
  BY <1>1, <1>5, <1>6 DEF Start

\* The same when nothing is closed.
LEMMA QuietStep ==
  ASSUME SInv, mpc # "start", mpc' \in {"run", "stop", "shutdown", "joining", "ended"},
         mpc' \in Early => mpc \in Early, stops' \in Nat,
         box' \in Seq(Box), Len(box') = Len(box), DOMAIN box' = DOMAIN box,
         \A m \in DOMAIN box : box'[m].closed <=> box[m].closed,
         UNCHANGED <<strategy, mb_ptr, alive, restart_count, sup_lock, coro, wpc, current, runq>>
  PROVE  SInv'
<1>1. PICK ms : ms = {}
  OBVIOUS
<1>2. runq' = runq \cup Readied(ms)
  BY <1>1 DEF Readied
<1>3. \A m \in DOMAIN box : box'[m].closed <=> box[m].closed \/ m \in ms
  BY <1>1
<1> QED
  BY <1>2, <1>3, MainStep

LEMMA MainSteps ==
  ASSUME SInv,
         (\E c \in Children : Peek(c)) \/ StopChild \/ StopAll \/ Shutdown \/ Flush
  PROVE  SInv'
<1>1. SupTypes /\ DOMAIN coro = DOMAIN box
  BY BoxFacts DEF SInv, SupTypes
<1>2. /\ box \in Seq(Box)
      /\ DOMAIN box = 1..Len(box) /\ Len(box) \in Nat /\ \A m \in DOMAIN box : box[m] \in Box
      /\ \A ms : /\ Closing(ms) \in Seq(Box) /\ Len(Closing(ms)) = Len(box) /\ DOMAIN Closing(ms) = DOMAIN box
                 /\ \A m \in DOMAIN box : Closing(ms)[m].closed <=> box[m].closed \/ m \in ms
  BY <1>1, BoxFacts DEF SupTypes
<1>3. ASSUME NEW c \in Children, Peek(c) PROVE SInv'
  <2>1. /\ mpc = "run" /\ mpc' = "stop" /\ stops' \in Nat /\ box' = box /\ runq' = runq
        /\ UNCHANGED <<strategy, mb_ptr, alive, restart_count, sup_lock, coro, wpc, current>>
    BY <1>1, <1>3 DEF Peek, SupTypes
  <2> QED
    BY <1>2, <2>1, QuietStep DEF Early
<1>4. CASE StopChild
  <2>1. /\ mpc = "stop" /\ mpc' = "run" /\ stops' \in Nat /\ box' = Closing({marg}) /\ runq' = runq \cup Readied({marg})
        /\ UNCHANGED <<strategy, mb_ptr, alive, restart_count, sup_lock, coro, wpc, current>>
    BY <1>1, <1>4 DEF StopChild, SupTypes
  <2> QED
    BY <1>2, <2>1, MainStep DEF Early
<1>5. CASE StopAll
  <2>1. /\ mpc = "run" /\ mpc' = "shutdown" /\ stops' \in Nat /\ box' = box /\ runq' = runq
        /\ UNCHANGED <<strategy, mb_ptr, alive, restart_count, sup_lock, coro, wpc, current>>
    BY <1>1, <1>5 DEF StopAll, SupTypes
  <2> QED
    BY <1>2, <2>1, QuietStep DEF Early
<1>7. CASE Shutdown \/ Flush
  <2>1. /\ mpc \in {"shutdown", "joining"} /\ mpc' \in {"joining", "ended"} /\ stops' \in Nat /\ box' = box /\ runq' = runq
        /\ UNCHANGED <<strategy, mb_ptr, alive, restart_count, sup_lock, coro, wpc, current>>
    BY <1>1, <1>7 DEF Shutdown, Flush, SupTypes
  <2> QED
    BY <1>2, <2>1, QuietStep DEF Early
<1> QED
  BY <1>3, <1>4, <1>5, <1>7

-----------------------------------------------------------------------------
(* The specification *)

LEMMA SInit == SupInit => SInv
<1> SUFFICES ASSUME SupInit PROVE SInv
  OBVIOUS
<1>1. /\ mb_ptr = [c \in Children |-> 0] /\ alive = [c \in Children |-> FALSE]
      /\ restart_count = 0 /\ sup_lock = "free" /\ box = <<>> /\ coro = <<>> /\ runq = {}
      /\ wpc = [w \in Workers |-> "check"] /\ current = [w \in Workers |-> 0]
      /\ mpc = "start" /\ marg = 0 /\ stops = 0
      /\ strategy \in {"one_for_one", "one_for_all", "rest_for_one"}
  BY DEF SupInit, SupState
<1>2. SupTypes
  BY <1>1, SupervisorAssumption DEF SupTypes, Early
<1>3. \A w \in Workers : wpc[w] \notin Busy
  BY <1>1 DEF Busy
<1>4. DOMAIN coro = {}
  BY <1>1
<1>5. Workforce
  BY <1>3, <1>4 DEF Workforce, Works
<1>6. Starting
  BY <1>1, <1>4 DEF Starting
<1>7. ASSUME NEW c \in Children PROVE Slot(c)
  <2>1. ~Respawning(c) /\ mb_ptr[c] = 0
    BY <1>1, <1>3 DEF Respawning, Respawns, Busy
  <2>2. c > marg
    <3>1. Cardinality(Children) \in Nat
      BY SupervisorAssumption, FS_CardinalityType
    <3>2. c \in 1..Cardinality(Children)
      BY SupervisorAssumption
    <3> QED
      BY <1>1, <3>1, <3>2
  <2> QED
    BY <1>1, <2>1, <2>2 DEF Slot
<1> QED
  BY <1>2, <1>4, <1>5, <1>6, <1>7 DEF SInv, Slots

LEMMA SStep ==
  ASSUME SInv, [SupNext]_sup_vars PROVE SInv'
<1>1. ASSUME NEW w \in Workers, Check(w) \/ Find(w) \/ Entry(w) \/ Loop(w) \/ LoopEnd(w) PROVE SInv'
  BY <1>1, CheckStep, FindStep, EntryStep, LoopStep, LoopEndStep
<1>2. ASSUME NEW w \in Workers, OnExit(w) \/ Restart(w) \/ StopSiblings(w) PROVE SInv'
  BY <1>2, OnExitStep, RestartStep, StopSiblingsStep
<1>3. CASE UNCHANGED sup_vars
  BY <1>3 DEF sup_vars, SInv, SupTypes, Workforce, Works, Waits, Starting, Slots, Serves, Slot, Respawning, Respawns
<1> QED
  BY <1>1, <1>2, <1>3, StartStep, MainSteps DEF SupNext

LEMMA ServedFromInvariant ==
  ASSUME SInv PROVE OneServer /\ AllServed
<1>1. SupTypes /\ Workforce /\ Starting /\ Slots
  BY DEF SInv
<1>2. OneServer
  BY <1>1 DEF Slots, Serves, OneServer, Live, Serving
<1>3. ASSUME mpc = "run", runq = {}, \A w \in Workers : wpc[w] \in {"check", "find"}, restart_count # MAX_RESTARTS,
             NEW c \in Children
      PROVE  alive[c] /\ ~box[mb_ptr[c]].closed
  <2>1. ~Respawning(c) /\ Slot(c)
    BY <1>1, <1>3 DEF Respawning, Respawns, Slots
  <2>2. mb_ptr[c] # 0
    BY <1>3, <2>1 DEF Slot
  <2>3. alive[c] /\ mb_ptr[c] \in DOMAIN coro /\ coro[mb_ptr[c]].at \in Live
    BY <2>1, <2>2 DEF Slot
  <2>4. Waits(mb_ptr[c]) /\ Serves(mb_ptr[c])
    BY <1>1, <2>3 DEF Workforce, Slots
  <2>5. coro[mb_ptr[c]].at = "parked"
    BY <1>3, <2>3, <2>4 DEF Waits, OnCpu, Busy, Live, Serving
  <2> QED
    BY <1>3, <2>3, <2>4, <2>5 DEF Waits, Serves, Serving, Early
<1> QED
  BY <1>2, <1>3 DEF AllServed

\* sup_child_entry reads its slot without the lock (sup.c), and still a child never
\* has two coroutines in its loop; and when nothing is runnable every child has been
\* brought back by sup_on_child_exit, unless the restarts are used up.
THEOREM SupervisorKeepsChildren == SupSpec => [](OneServer /\ AllServed)
<1>1. SupInit => SInv
  BY SInit
<1>2. SInv /\ [SupNext]_sup_vars => SInv'
  BY SStep
<1>3. SInv => OneServer /\ AllServed
  BY ServedFromInvariant
<1> QED
  BY <1>1, <1>2, <1>3, PTL DEF SupSpec

-----------------------------------------------------------------------------
(* What the stops cost *)

LEMMA DoomedFinite ==
  ASSUME SInv PROVE IsFiniteSet(Doomed) /\ Cardinality(Doomed) \in Nat
<1>1. DOMAIN coro = 1..Len(box) /\ Len(box) \in Nat
  BY BoxFacts DEF SInv
<1>2. IsFiniteSet(1..Len(box))
  BY <1>1, FS_Interval
<1>3. Doomed \in SUBSET (1..Len(box))
  BY <1>1 DEF Doomed
<1>4. IsFiniteSet(Doomed)
  BY <1>2, <1>3, FS_Subset
<1> QED
  BY <1>4, FS_CardinalityType

\* A step that dooms nobody and restarts nobody.
LEMMA DoomsNobody ==
  ASSUME SInv, Paid, Doomed' \subseteq Doomed, UNCHANGED <<strategy, restart_count, stops>>,
         mpc' \in Early => mpc \in Early, mpc' = "stop" => mpc = "stop"
  PROVE  Paid'
<1>1. IsFiniteSet(Doomed) /\ Cardinality(Doomed) \in Nat /\ restart_count \in Nat /\ stops \in Nat
  BY DoomedFinite DEF SInv, SupTypes
<1>2. PICK D \in SUBSET Doomed : D = Doomed'
  OBVIOUS
<1>3. IsFiniteSet(D) /\ Cardinality(D) <= Cardinality(Doomed)
  BY <1>1, <1>2, FS_Subset
<1>4. Cardinality(D) \in Nat
  BY <1>3, FS_CardinalityType
<1>5. Cardinality(Doomed)' = Cardinality(D)
  BY <1>2
<1>6. CASE strategy = "one_for_one" /\ mpc' \in Early
  <2>1. restart_count + Cardinality(Doomed) + (IF mpc = "stop" THEN 1 ELSE 0) <= stops
    BY <1>6 DEF Paid
  <2>2. (IF mpc' = "stop" THEN 1 ELSE 0) <= (IF mpc = "stop" THEN 1 ELSE 0)
    OBVIOUS
  <2>3. restart_count' + Cardinality(D) + (IF mpc' = "stop" THEN 1 ELSE 0) <= stops'
    BY <1>1, <1>3, <1>4, <2>1, <2>2
  <2> QED
    BY <1>5, <2>3 DEF Paid
<1> QED
  BY <1>6 DEF Paid

\* The same, from what happens to each coroutine and its mailbox.
LEMMA EachSpared ==
  ASSUME SInv, Paid, UNCHANGED <<strategy, restart_count, stops>>,
         mpc' \in Early => mpc \in Early, mpc' = "stop" => mpc = "stop",
         \A m \in DOMAIN coro' : box'[m].closed /\ coro'[m].at \in Live =>
           m \in DOMAIN coro /\ box[m].closed /\ coro[m].at \in Live
  PROVE  Paid'
<1>1. Doomed' \subseteq Doomed
  BY DEF Doomed
<1> QED
  BY <1>1, DoomsNobody

LEMMA LoopPays ==
  ASSUME SInv, Paid, NEW w \in Workers, Check(w) \/ Find(w) \/ Entry(w) \/ Loop(w) \/ LoopEnd(w)
  PROVE  Paid'
<1>1. SupTypes /\ Workforce /\ Slots /\ DOMAIN coro = DOMAIN box
  BY BoxFacts DEF SInv
<1>2. CASE Check(w)
  BY <1>2, EachSpared DEF Check
<1>3. CASE Find(w)
  <2>1. UNCHANGED <<strategy, restart_count, stops, mpc, box>>
    BY <1>3 DEF Find
  <2>2. CASE coro' = coro
    BY <2>1, <2>2, EachSpared
  <2>3. ASSUME NEW n \in runq, coro' = CoroAt(n, IF coro[n].at = "new" THEN "entry" ELSE "loop") PROVE Paid'
    <3>1. n \in DOMAIN coro /\ coro[n].at \in Live
      BY <1>1 DEF SupTypes, Workforce, Waits, Live, Serving
    <3>2. PICK p \in Ats : coro' = CoroAt(n, p)
      BY <2>3 DEF Ats, Live, Serving
    <3>3. DOMAIN coro' = DOMAIN coro /\ \A m \in DOMAIN coro : m # n => coro'[m].at = coro[m].at
      BY <1>1, <3>1, <3>2, CoroFacts
    <3> QED
      BY <2>1, <3>1, <3>3, EachSpared
  <2> QED
    BY <1>3, <2>2, <2>3 DEF Find
<1>4. CASE Entry(w) \/ Loop(w) \/ LoopEnd(w)
  <2> DEFINE n == current[w]
  <2>1. wpc[w] \in Busy /\ coro[n].at \in {"entry", "loop", "destroy"}
    BY <1>4 DEF Entry, Loop, LoopEnd, Running, Busy
  <2>2. n \in DOMAIN coro /\ coro[n].at \in Live /\ n \in DOMAIN box
    BY <1>1, <2>1, Own DEF Live, Serving
  <2>3. UNCHANGED <<strategy, restart_count, stops, mpc>>
    BY <1>4 DEF Entry, Loop, LoopEnd
  <2>4. DOMAIN coro' = DOMAIN coro /\ \A m \in DOMAIN coro : m # n => coro'[m].at = coro[m].at
    <3>1. CASE Entry(w)
      BY <3>1 DEF Entry
    <3>2. CASE Loop(w) \/ LoopEnd(w)
      <4>1. PICK p \in Ats : coro' = CoroAt(n, p)
        BY <3>2 DEF Loop, LoopEnd, Ats, Live, Serving
      <4> QED
        BY <1>1, <2>2, <4>1, CoroFacts
    <3> QED
      BY <1>4, <3>1, <3>2
  <2>5. \A m \in DOMAIN coro : box'[m].closed => box[m].closed
    <3>1. CASE Entry(w) \/ Loop(w)
      BY <3>1 DEF Entry, Loop
    <3>2. CASE LoopEnd(w)
      <4>1. coro[n].at = "destroy"
        BY <3>2 DEF LoopEnd, Running
      <4>2. coro[n].mb = n /\ box[n].closed
        BY <1>1, <2>2, <4>1 DEF Slots, Serves
      <4>3. box' = Destroyed(n)
        BY <3>2, <4>2 DEF LoopEnd
      <4> QED
        BY <1>1, <2>2, <4>2, <4>3, BoxFacts
    <3> QED
      BY <1>4, <3>1, <3>2
  <2> QED
    BY <2>2, <2>3, <2>4, <2>5, EachSpared
<1> QED
  BY <1>2, <1>3, <1>4

LEMMA SpawnPays ==
  ASSUME SInv, Paid, NEW c \in Children, SpawnOne(c, alive), UNCHANGED <<strategy, restart_count, stops, mpc>>
  PROVE  Paid'
<1>1. SupTypes
  BY DEF SInv
<1>2. PICK N : /\ DOMAIN coro' = DOMAIN coro \cup {N} /\ ~box'[N].closed
               /\ \A m \in DOMAIN coro : box'[m] = box[m] /\ coro'[m] = coro[m]
  BY <1>1, SpawnFacts
<1> QED
  BY <1>2, EachSpared

\* Under one_for_one a restarted child takes no sibling with it.
LEMMA SiblingsPay ==
  ASSUME SInv, Paid, NEW w \in Workers, StopSiblings(w)
  PROVE  Paid'
<1>1. SupTypes /\ Workforce /\ Slots /\ DOMAIN coro = DOMAIN box
  BY BoxFacts DEF SInv
<1>2. UNCHANGED <<strategy, restart_count, stops, mpc>>
  BY DEF StopSiblings
<1>3. CASE strategy # "one_for_one"
  BY <1>2, <1>3 DEF Paid
<1>4. CASE strategy = "one_for_one"
  <2>1. wpc[w] \in Busy
    BY DEF StopSiblings, Busy
  <2>2. current[w] \in DOMAIN coro
    BY <2>1, Own
  <2>3. coro' = CoroAt(current[w], "done") /\ "done" \in Ats
    BY DEF StopSiblings, Done, Ats
  <2>4. /\ DOMAIN coro' = DOMAIN coro
        /\ \A m \in DOMAIN coro : coro'[m].at = IF m = current[w] THEN "done" ELSE coro[m].at
    BY <1>1, <2>2, <2>3, CoroFacts
  <2>5. \A c : Siblings(c) = {}
    BY <1>4 DEF Siblings
  <2>6. PICK ms : ms = {} /\ box' = Closing(ms)
    BY <2>5 DEF StopSiblings
  <2>7. \A m \in DOMAIN coro : box'[m].closed <=> box[m].closed
    BY <1>1, <2>6, BoxFacts
  <2>8. "done" \notin Live
    BY DEF Live, Serving
  <2> QED
    BY <1>2, <2>4, <2>7, <2>8, EachSpared
<1> QED
  BY <1>3, <1>4

\* A child that exits was doomed, and its restart is paid by that.
LEMMA ExitPays ==
  ASSUME SInv, Paid, NEW w \in Workers, OnExit(w)
  PROVE  Paid'
<1> DEFINE n == current[w]
<1>1. SupTypes /\ Workforce /\ Slots /\ DOMAIN coro = DOMAIN box
  BY BoxFacts DEF SInv
<1>2. wpc[w] \in Busy /\ coro[n].at = "exit" /\ coro[n].at \in Live
  BY DEF OnExit, Running, Busy, Live
<1>3. n \in DOMAIN coro /\ n \in DOMAIN box /\ mb_ptr[coro[n].child] = n
  BY <1>1, <1>2, Own
<1>4. box[n].closed
  BY <1>1, <1>2, <1>3 DEF Slots, Serves
<1>5. n \in Doomed
  BY <1>2, <1>3, <1>4 DEF Doomed
<1>6. PICK p \in Ats : coro' = CoroAt(n, p) /\ p \notin Live
  BY DEF OnExit, Done, Ats, Live, Serving
<1>7. /\ DOMAIN coro' = DOMAIN coro
      /\ \A m \in DOMAIN coro : coro'[m].at = IF m = n THEN p ELSE coro[m].at
  BY <1>1, <1>3, <1>6, CoroFacts
<1>8. box' = Destroyed(n)
  BY <1>3 DEF OnExit
<1>9. \A m \in DOMAIN coro : box'[m].closed <=> box[m].closed
  BY <1>1, <1>3, <1>4, <1>8, BoxFacts
<1>10. Doomed' \subseteq Doomed \ {n}
  BY <1>6, <1>7, <1>9 DEF Doomed
<1>11. /\ IsFiniteSet(Doomed) /\ Cardinality(Doomed) \in Nat /\ restart_count \in Nat /\ stops \in Nat
  BY DoomedFinite, <1>1 DEF SupTypes
<1>12. IsFiniteSet(Doomed \ {n}) /\ Cardinality(Doomed \ {n}) = Cardinality(Doomed) - 1
  BY <1>5, <1>11, FS_RemoveElement
<1>13. PICK D \in SUBSET (Doomed \ {n}) : D = Doomed'
  BY <1>10
<1>14. Cardinality(D) \in Nat /\ Cardinality(D) <= Cardinality(Doomed) - 1
  BY <1>12, <1>13, FS_Subset, FS_CardinalityType
<1>15. Cardinality(Doomed)' = Cardinality(D)
  BY <1>13
<1>16. restart_count' \in {restart_count, restart_count + 1} /\ UNCHANGED <<strategy, stops, mpc>>
  BY DEF OnExit
<1>17. CASE strategy = "one_for_one" /\ mpc \in Early
  <2>1. PICK k \in {0, 1} : k = IF mpc = "stop" THEN 1 ELSE 0
    OBVIOUS
  <2>2. restart_count + Cardinality(Doomed) + k <= stops
    BY <1>17, <2>1 DEF Paid
  <2>3. restart_count' + Cardinality(D) + k <= stops
    BY <1>11, <1>14, <1>16, <2>2
  <2> QED
    BY <1>15, <1>16, <2>1, <2>3 DEF Paid
<1> QED
  BY <1>16, <1>17 DEF Paid

\* A stop pays for the one mailbox it closes.
LEMMA MainPays ==
  ASSUME SInv, Paid,
         Start \/ (\E c \in Children : Peek(c)) \/ StopChild \/ StopAll \/ Shutdown \/ Flush
  PROVE  Paid'
<1>1. SupTypes /\ DOMAIN coro = DOMAIN box
  BY BoxFacts DEF SInv
<1>2. /\ IsFiniteSet(Doomed) /\ Cardinality(Doomed) \in Nat /\ restart_count \in Nat /\ stops \in Nat
  BY DoomedFinite, <1>1 DEF SupTypes
<1>3. CASE Start
  <2>1. mpc = "start" /\ UNCHANGED <<strategy, restart_count, stops>> /\ marg \in Nat
    BY <1>1, <1>3 DEF Start, SupTypes
  <2>2. CASE mpc' = "run" /\ UNCHANGED <<box, coro>>
    BY <2>1, <2>2, EachSpared DEF Early
  <2>3. CASE \E d \in Children : d > marg /\ SpawnOne(marg + 1, alive) /\ mpc' = mpc
    <3>1. marg + 1 \in Children
      <4>1. Cardinality(Children) \in Nat
        BY SupervisorAssumption, FS_CardinalityType
      <4> QED
        BY <2>1, <2>3, <4>1, SupervisorAssumption
    <3> QED
      BY <2>1, <2>3, <3>1, SpawnPays
  <2> QED
    BY <1>3, <2>2, <2>3 DEF Start
<1>4. ASSUME NEW c \in Children, Peek(c) PROVE Paid'
  <2>1. /\ mpc = "run" /\ mpc' = "stop" /\ stops' = stops + 1
        /\ UNCHANGED <<strategy, restart_count, box, coro>>
    BY <1>4 DEF Peek
  <2>2. Doomed' = Doomed
    BY <2>1 DEF Doomed
  <2>3. PICK k : k = Cardinality(Doomed)
    OBVIOUS
  <2>4. Cardinality(Doomed)' = k
    BY <2>2, <2>3
  <2>5. strategy = "one_for_one" => restart_count + k <= stops
    BY <1>2, <2>1, <2>3 DEF Paid, Early
  <2>6. strategy = "one_for_one" => restart_count + k + 1 <= stops + 1
    BY <1>2, <2>3, <2>5
  <2> QED
    BY <2>1, <2>4, <2>6 DEF Paid
<1>5. CASE StopChild
  <2>1. /\ mpc = "stop" /\ mpc' = "run" /\ box' = Closing({marg})
        /\ UNCHANGED <<strategy, restart_count, stops, coro>>
    BY <1>5 DEF StopChild
  <2>2. \A m \in DOMAIN coro : box'[m].closed => box[m].closed \/ m = marg
    BY <1>1, <2>1, BoxFacts
  <2>3. Doomed' \subseteq Doomed \cup {marg}
    BY <2>1, <2>2 DEF Doomed
  <2>4. /\ IsFiniteSet(Doomed \cup {marg})
        /\ Cardinality(Doomed \cup {marg}) = IF marg \in Doomed THEN Cardinality(Doomed) ELSE Cardinality(Doomed) + 1
    BY <1>2, FS_AddElement
  <2>5. PICK D \in SUBSET (Doomed \cup {marg}) : D = Doomed'
    BY <2>3
  <2>6. Cardinality(D) <= Cardinality(Doomed \cup {marg}) /\ Cardinality(D) \in Nat
    BY <2>4, <2>5, FS_Subset, FS_CardinalityType
  <2>7. Cardinality(D) <= Cardinality(Doomed) + 1
    BY <1>2, <2>4, <2>6
  <2>8. Cardinality(Doomed)' = Cardinality(D)
    BY <2>5
  <2>9. strategy = "one_for_one" => restart_count + Cardinality(Doomed) + 1 <= stops
    BY <2>1 DEF Paid, Early
  <2>10. strategy = "one_for_one" => restart_count + Cardinality(D) + 0 <= stops
    BY <1>2, <2>6, <2>7, <2>9
  <2> QED
    BY <2>1, <2>8, <2>10 DEF Paid
<1>6. CASE StopAll \/ Shutdown \/ Flush
  BY <1>6 DEF StopAll, Shutdown, Flush, Paid, Early
<1> QED
  BY <1>3, <1>4, <1>5, <1>6

LEMMA PStep ==
  ASSUME PInv, [SupNext]_sup_vars PROVE PInv'
<1>1. SInv /\ Paid /\ SInv'
  BY SStep DEF PInv
<1>2. ASSUME NEW w \in Workers, Restart(w) PROVE Paid'
  <2>1. wpc[w] \in Busy /\ SpawnOne(coro[current[w]].child, alive) /\ UNCHANGED <<strategy, restart_count, stops, mpc>>
    BY <1>2 DEF Restart, Running, Busy
  <2> QED
    BY <1>1, <2>1, Own, SpawnPays
<1>3. ASSUME UNCHANGED sup_vars PROVE Paid'
  <2>1. UNCHANGED <<strategy, restart_count, stops, mpc, box, coro>>
    BY <1>3 DEF sup_vars
  <2> QED
    BY <1>1, <2>1, EachSpared
<1>4. ASSUME NEW w \in Workers, Check(w) \/ Find(w) \/ Entry(w) \/ Loop(w) \/ LoopEnd(w) \/ OnExit(w) \/ StopSiblings(w)
      PROVE  Paid'
  BY <1>1, <1>4, LoopPays, ExitPays, SiblingsPay
<1>5. ASSUME Start \/ (\E c \in Children : Peek(c)) \/ StopChild \/ StopAll \/ Shutdown \/ Flush
      PROVE  Paid'
  BY <1>1, <1>5, MainPays
<1>6. Paid'
  BY <1>2, <1>3, <1>4, <1>5 DEF SupNext
<1> QED
  BY <1>1, <1>6 DEF PInv

\* A supervisor brings its children back, each once: no stop costs more than one
\* restart under one_for_one.  (Under one_for_all the code promises no bound; the
\* bound under rest_for_one is a power of two.)
THEOREM SupervisorSettled == SupSpec => [](strategy # "rest_for_one" => SupervisorSettles)
<1>1. SupInit => PInv
  <2> SUFFICES ASSUME SupInit PROVE Paid
    BY SInit DEF PInv
  <2>1. coro = <<>> /\ restart_count = 0 /\ stops = 0 /\ mpc = "start"
    BY DEF SupInit, SupState
  <2>2. Doomed = {}
    BY <2>1 DEF Doomed
  <2>3. Cardinality(Doomed) = 0
    BY <2>2, FS_EmptySet
  <2> QED
    BY <2>1, <2>3 DEF Paid
<1>2. PInv /\ [SupNext]_sup_vars => PInv'
  BY PStep
<1>3. PInv => (strategy # "rest_for_one" => SupervisorSettles)
  <2> SUFFICES ASSUME PInv, strategy # "rest_for_one" PROVE SupervisorSettles
    OBVIOUS
  <2>1. SInv /\ Paid /\ restart_count \in Nat /\ stops \in Nat
    BY DEF PInv, SInv, SupTypes
  <2>2. Cardinality(Doomed) \in Nat
    BY <2>1, DoomedFinite
  <2>3. strategy = "one_for_one" /\ mpc \in {"run", "stop"} => restart_count <= stops
    <3>1. PICK k \in {0, 1} : k = IF mpc = "stop" THEN 1 ELSE 0
      OBVIOUS
    <3>2. strategy = "one_for_one" /\ mpc \in {"run", "stop"} => restart_count + Cardinality(Doomed) + k <= stops
      BY <2>1, <3>1 DEF Paid, Early
    <3> QED
      BY <2>1, <2>2, <3>2
  <2> QED
    BY <2>1, <2>3, ServedFromInvariant DEF SupervisorSettles, RestartsPaid
<1> QED
  BY <1>1, <1>2, <1>3, PTL DEF SupSpec
=============================================================================
