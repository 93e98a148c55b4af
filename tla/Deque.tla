------------------------------- MODULE Deque -------------------------------
(***************************************************************************)
(* The run queue of a worker (runtime/deque.c): a Chase-Lev deque.  The    *)
(* owning worker pushes and pops at the bottom, the other workers steal at *)
(* the top, and the only synchronisation is the compare-and-swap on top.   *)
(* Every access to top, bottom, buf and a slot is a step of its own, in    *)
(* program order (the code puts a sequentially consistent fence between    *)
(* the two accesses whose order matters).  A full buffer is replaced by    *)
(* one of twice the size; thieves may still read the old one.              *)
(***************************************************************************)
EXTENDS Integers, Sequences, FiniteSets

CONSTANTS Item,      \* coroutines
          Thieves,   \* the other workers
          InitCap,   \* slots of the first buffer (JINN_DEQUE_INIT_CAP)
          MaxIndex,  \* bound: no push begins at an index beyond it
          Null       \* no coroutine, an empty slot

ASSUME DequeAssumption ==
  /\ IsFiniteSet(Item) /\ Null \notin Item
  /\ InitCap \in Nat \ {0} /\ MaxIndex \in Nat

VARIABLES
  top, bottom,       \* the deque's counters
  bufs,              \* all buffers ever allocated, the last one is dq->buf
  opc, ob, ot, oc,   \* the owner: step, its b, t and c
  spc, st, sbuf, sc, \* each thief: step, its t, buf and c
  hands              \* history: how many workers hold the item outside the deque

ownerVars == <<opc, ob, ot, oc>>
thiefVars == <<spc, st, sbuf, sc>>
deque_vars == <<top, bottom, bufs, ownerVars, thiefVars, hands>>

NewBuf(size) == [i \in 0..(size - 1) |-> Null]
Size(buf) == Cardinality(DOMAIN buf)
At(buf, i) == buf[i % Size(buf)]
Cur == Len(bufs)

DequeInit ==
  /\ top = 0 /\ bottom = 0
  /\ bufs = <<NewBuf(InitCap)>>
  /\ opc = "idle" /\ ob = 0 /\ ot = 0 /\ oc = Null
  /\ spc = [w \in Thieves |-> "idle"]
  /\ st = [w \in Thieves |-> 0] /\ sbuf = [w \in Thieves |-> 0]
  /\ sc = [w \in Thieves |-> Null]
  /\ hands = [c \in Item |-> 1]

\* The operation ends; its local variables are gone.
OwnerReturns == opc' = "idle" /\ ob' = 0 /\ ot' = 0 /\ oc' = Null
ThiefReturns(w) ==
  /\ spc' = [spc EXCEPT ![w] = "idle"]
  /\ st' = [st EXCEPT ![w] = 0]
  /\ sbuf' = [sbuf EXCEPT ![w] = 0]
  /\ sc' = [sc EXCEPT ![w] = Null]

\* The operation returns c to its caller.
HandOut(c) == hands' = [hands EXCEPT ![c] = @ + 1]

----------------------------------------------------------------------------
(* jinn_deque_push, by the owner, of a coroutine that is in no run queue   *)

PushBegin(c) ==
  /\ opc = "idle"
  /\ hands[c] > 0 /\ bottom < MaxIndex
  /\ hands' = [hands EXCEPT ![c] = @ - 1]
  /\ oc' = c /\ ob' = bottom /\ ot' = top
  /\ opc' = "push"
  /\ UNCHANGED <<top, bottom, bufs, thiefVars>>

\* Mutant: the slots are copied without being addressed anew.
GrownSameSlots ==
  LET old == bufs[Cur]
  IN  [k \in DOMAIN NewBuf(2 * Size(old)) |-> IF k \in DOMAIN old THEN old[k] ELSE Null]

\* deque_grow copies t .. b-1 and publishes the new buffer.
Grown ==
  LET old == bufs[Cur]
      new == NewBuf(2 * Size(old))
  IN  [k \in DOMAIN new |->
         IF \E i \in ot..(ob - 1) : i % Size(new) = k
         THEN At(old, CHOOSE i \in ot..(ob - 1) : i % Size(new) = k)
         ELSE Null]

\* Mutant: one item too many before the buffer grows.
FullOffByOne == ob - ot > Size(bufs[Cur])

Full == ob - ot >= Size(bufs[Cur])

PushGrow ==
  /\ opc = "push" /\ Full
  /\ bufs' = Append(bufs, Grown)
  /\ opc' = "slot"
  /\ UNCHANGED <<top, bottom, ob, ot, oc, thiefVars, hands>>

PushSlot ==
  /\ opc = "slot" \/ (opc = "push" /\ ~Full)
  /\ bufs' = [bufs EXCEPT ![Cur][ob % Size(bufs[Cur])] = oc]
  /\ opc' = "bottom"
  /\ UNCHANGED <<top, bottom, ob, ot, oc, thiefVars, hands>>

PushBottom ==
  /\ opc = "bottom"
  /\ bottom' = ob + 1
  /\ OwnerReturns
  /\ UNCHANGED <<top, bufs, thiefVars, hands>>

----------------------------------------------------------------------------
(* jinn_deque_pop, by the owner                                            *)

PopBottom ==
  /\ opc = "idle"
  /\ ob' = bottom - 1
  /\ bottom' = bottom - 1
  /\ opc' = "pop"
  /\ UNCHANGED <<top, bufs, ot, oc, thiefVars, hands>>

\* Reads top; with more than one item left the bottom one is taken for good.
PopReadTop ==
  /\ opc = "pop"
  /\ \/ /\ top > ob
        /\ opc' = "restore" /\ ot' = top
        /\ UNCHANGED <<ob, oc, hands>>
     \/ /\ top = ob
        /\ opc' = "cas" /\ ot' = top
        /\ oc' = At(bufs[Cur], ob)
        /\ UNCHANGED <<ob, hands>>
     \/ /\ top < ob
        /\ HandOut(At(bufs[Cur], ob))
        /\ OwnerReturns
  /\ UNCHANGED <<top, bottom, bufs, thiefVars>>

\* The last item is raced for with the thieves.
PopCas ==
  /\ opc = "cas"
  /\ IF top = ot
     THEN top' = top + 1 /\ HandOut(oc)
     ELSE UNCHANGED <<top, hands>>
  /\ opc' = "restore"
  /\ UNCHANGED <<bottom, bufs, ob, ot, oc, thiefVars>>

PopRestore ==
  /\ opc = "restore"
  /\ bottom' = ob + 1
  /\ OwnerReturns
  /\ UNCHANGED <<top, bufs, thiefVars, hands>>

----------------------------------------------------------------------------
(* jinn_deque_steal, by another worker                                     *)

StealTop(w) ==
  /\ spc[w] = "idle"
  /\ st' = [st EXCEPT ![w] = top]
  /\ spc' = [spc EXCEPT ![w] = "bottom"]
  /\ UNCHANGED <<top, bottom, bufs, ownerVars, sbuf, sc, hands>>

\* Nothing to steal unless t < b; else the buffer pointer is read next.
StealBottom(w) ==
  /\ spc[w] = "bottom"
  /\ \/ /\ st[w] < bottom
        /\ spc' = [spc EXCEPT ![w] = "buf"]
        /\ UNCHANGED <<st, sbuf, sc>>
     \/ /\ st[w] >= bottom
        /\ ThiefReturns(w)
  /\ UNCHANGED <<top, bottom, bufs, ownerVars, hands>>

StealBuf(w) ==
  /\ spc[w] = "buf"
  /\ sbuf' = [sbuf EXCEPT ![w] = Cur]
  /\ spc' = [spc EXCEPT ![w] = "slot"]
  /\ UNCHANGED <<top, bottom, bufs, ownerVars, st, sc, hands>>

StealSlot(w) ==
  /\ spc[w] = "slot"
  /\ sc' = [sc EXCEPT ![w] = At(bufs[sbuf[w]], st[w])]
  /\ spc' = [spc EXCEPT ![w] = "cas"]
  /\ UNCHANGED <<top, bottom, bufs, ownerVars, st, sbuf, hands>>

StealCas(w) ==
  /\ spc[w] = "cas"
  /\ IF top = st[w]
     THEN top' = top + 1 /\ HandOut(sc[w])
     ELSE UNCHANGED <<top, hands>>
  /\ ThiefReturns(w)
  /\ UNCHANGED <<bottom, bufs, ownerVars>>

----------------------------------------------------------------------------

Owner == \/ \E c \in Item : PushBegin(c)
         \/ PushGrow \/ PushSlot \/ PushBottom
         \/ PopBottom \/ PopReadTop \/ PopCas \/ PopRestore

Thief(w) ==
  StealTop(w) \/ StealBottom(w) \/ StealBuf(w) \/ StealSlot(w) \/ StealCas(w)

DequeNext == Owner \/ \E w \in Thieves : Thief(w)

DequeSpec == DequeInit /\ [][DequeNext]_deque_vars

----------------------------------------------------------------------------
(* Properties                                                              *)

\* The types of the state; a pop lowers bottom by one at most and puts it back.
TypeOK ==
  /\ top \in Nat /\ bottom \in Int /\ bottom >= -1
  /\ \A k \in DOMAIN bufs : bufs[k] \in [DOMAIN bufs[k] -> Item \cup {Null}]
  /\ opc \in {"idle", "push", "slot", "bottom", "pop", "cas", "restore"}
  /\ spc \in [Thieves -> {"idle", "bottom", "buf", "slot", "cas"}]
  /\ hands \in [Item -> Nat]

\* A pop that has lowered bottom still counts the item it goes for.
Hi == IF opc \in {"pop", "cas", "restore"} THEN ob + 1 ELSE bottom

InDeque(c) == \E i \in top..(Hi - 1) : At(bufs[Cur], i) = c
InPush(c) == opc \in {"push", "slot", "bottom"} /\ oc = c

\* No coroutine is lost or handed out twice: each one is held by exactly one
\* worker, or is on its way in, or is in exactly one live slot, although the
\* owner and the thieves share nothing but top, bottom and the slots.
EachInOnePlace ==
  /\ \A c \in Item :
       (IF InDeque(c) THEN 1 ELSE 0) + (IF InPush(c) THEN 1 ELSE 0) + hands[c] = 1
  /\ \A i, j \in top..(Hi - 1) : At(bufs[Cur], i) = At(bufs[Cur], j) => i = j

\* A thief about to win its compare-and-swap holds the item at top, even when
\* it read it from a buffer that was replaced, or from a slot since reused.
StealsWhatIsAtTop ==
  \A w \in Thieves :
    spc[w] = "cas" /\ st[w] = top => sc[w] # Null /\ sc[w] = At(bufs[Cur], top)
============================================================================
