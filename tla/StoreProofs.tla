---------------------------- MODULE StoreProofs ----------------------------
(***************************************************************************)
(* Proofs about Store: the types, the durability of the undo images under  *)
(* every fault, and, when processes are killed but the power does not      *)
(* fail, the outcome table: a restart shows a legal state of all stores.   *)
(***************************************************************************)
EXTENDS Store, SequenceTheorems, WellFoundedInduction, TLAPS

----------------------------------------------------------------------------
(* The inductive invariant of the types and of the undo images             *)

Early   == {"down", "jrestore", "jrsync", "jgone"}
InBlock == {"idle", "rewrite", "rwsync", "ckpt", "trunc", "tsync",
            "image", "wimage", "begin", "bsync", "log", "force", "apply"}
Putting == {"image", "wimage", "begin", "bsync", "log", "force", "apply"}
Opening == {"rewrite", "rwsync", "ckpt", "trunc", "tsync"}
Ending  == {"csync", "cframe", "cfsync", "undo", "usync"}
Ended   == {"cdir", "udir"}

Typed(m) == /\ DOMAIN m = File
            /\ \A s \in Stores : m[Data(s)] \in Contents /\ m[Wal(s)] \in Seq(Frame)

JournalOK(j) == \/ j = None
                \/ /\ j \in Seq(Image)
                   /\ \A i \in DOMAIN j, s \in Stores :
                        /\ j[i].file = Data(s) => j[i].img \in Contents
                        /\ j[i].file = Wal(s) => j[i].img \in Seq(Frame)

\* The files of a store in a transaction are tracked with images of their type.
SnapOK == /\ DOMAIN snap \subseteq File
          /\ \A s \in Stores : /\ Data(s) \in DOMAIN snap => snap[Data(s)] \in Contents
                               /\ Wal(s) \in DOMAIN snap => snap[Wal(s)] \in Seq(Frame)

StepTypes ==
  /\ pc \in Early \cup InBlock \cup Ending \cup Ended
  /\ pc \in Opening => cur \in Stores
  /\ pc \in Putting => cur \in [store : Stores, row : Rows, val : Values]
  /\ pc \in {"wimage", "begin", "bsync"} => Data(cur.store) \in DOMAIN snap
  /\ pc \in {"jrestore", "jrsync"} => todo \in Seq(Image) /\ JournalOK(todo)
  /\ pc = "jrsync" => todo # <<>>
  /\ pc \in Ending => todo \in Seq(File) /\ \A i \in DOMAIN todo : todo[i] \in DOMAIN snap
  /\ pc \in {"cfsync", "usync"} => todo # <<>>
  /\ pc = "cfsync" => IsWal(Head(todo))
  /\ files \in Seq(File) /\ \A i \in DOMAIN files : files[i] \in DOMAIN snap

\* Other tasks save stores that are open.
OpenSave == [store : open, step : {"ckpt", "trunc", "tsync"}]
Saves == saving \in [Savers -> {None} \cup OpenSave]

Images ==
  /\ pc \in Early => DOMAIN snap = {} /\ files = <<>>
  /\ pc \notin Ended /\ DOMAIN snap # {} =>
       /\ jmem # None /\ jdsk = jmem
       /\ \A f \in DOMAIN snap : \E i \in DOMAIN jdsk : jdsk[i].file = f /\ jdsk[i].img = snap[f]

TInv == /\ TypeOK
        /\ Typed(mem) /\ Typed(dsk)
        /\ JournalOK(jmem) /\ JournalOK(jdsk)
        /\ SnapOK /\ StepTypes /\ Images

FInv == TInv /\ Saves

----------------------------------------------------------------------------
(* The inductive invariant of the outcome table                            *)

\* f has an image in the journal; Base(f) is what a restart now would find.
Held(f) == jmem # None /\ \E i \in DOMAIN jmem : jmem[i].file = f
Base(f) == IF Held(f) THEN jmem[CHOOSE i \in DOMAIN jmem : jmem[i].file = f].img ELSE mem[f]

\* The state of all stores after a restart.
View == [s \in Stores |-> Replay(Base(Data(s)), Base(Wal(s)))]

\* No transaction is pending in the log w.
Closed(w) == \A i \in DOMAIN w : w[i].op = "begin" => \E j \in (i + 1)..Len(w) : w[j].op = "commit"

Puts(w, k) == {i \in DOMAIN w : w[i].op = "put" /\ w[i].row = k}
LastPut(w, k, i) == i \in Puts(w, k) /\ \A j \in Puts(w, k) : j <= i

\* The data file d holds the last value that w has for each row.
Agrees(d, w) == \A k \in Rows : \A i \in DOMAIN w : LastPut(w, k, i) => w[i].val = d[k]

InFiles(f) == \E i \in DOMAIN files : files[i] = f
InTodo(f) == \E i \in DOMAIN todo : todo[i] = f

\* Where the journal may exist, and which files it covers.
Coverage ==
  /\ pc \in Early => open = {} /\ depth = 0 /\ files = <<>>
  /\ pc \in InBlock /\ depth = 0 => jmem = None /\ files = <<>>
  /\ pc \in Ended \cup {"jgone"} => jmem = None
  /\ \A s \in Stores : InFiles(Data(s)) => s \in open
  /\ pc \in InBlock \cup Ending => \A s \in Stores :
       /\ Held(Data(s)) <=> InFiles(Data(s)) \/ (pc \in {"wimage", "begin", "bsync"} /\ s = cur.store)
       /\ Held(Wal(s)) <=> InFiles(Data(s)) \/ (pc \in {"begin", "bsync"} /\ s = cur.store)
       /\ InFiles(Wal(s)) <=> InFiles(Data(s)) \/ (pc \in {"begin", "bsync"} /\ s = cur.store)
  /\ pc \in InBlock \cup Ending => \A f \in File : Held(f) => f \in DOMAIN snap /\ Base(f) = snap[f]
  /\ jmem # None => \A i, j \in DOMAIN jmem : jmem[i].file = jmem[j].file => i = j

\* Where the running operation stands.
Phase ==
  /\ pc \in {"image", "wimage", "begin", "bsync"} => depth > 0
  /\ pc \in {"trunc", "tsync"} => depth = 0
  /\ pc \in Putting => \A s \in Stores : s = cur.store =>
       /\ s \in open
       /\ pc \in {"image", "wimage", "begin", "bsync"} => ~InFiles(Data(s))
       /\ pc \in {"log", "force", "apply"} /\ depth > 0 => InFiles(Data(s))
       /\ pc = "wimage" => Base(Data(s)) = mem[Data(s)]
  /\ pc \in Opening => \A s \in Stores : s = cur =>
       /\ s \in open
       /\ pc \in {"rewrite", "rwsync"} => ~Held(Data(s)) /\ ~Held(Wal(s))

\* The loops that restore files: what was visited has its image back, or is a log
\* that another task has truncated since.
Restoring ==
  /\ pc \in {"jrestore", "jrsync"} =>
       /\ jmem # None /\ Len(todo) <= Len(jmem)
       /\ \A i \in DOMAIN todo : todo[i] = jmem[i]
       /\ \A i \in DOMAIN jmem : i > Len(todo) \/ (pc = "jrsync" /\ i = Len(todo))
            => mem[jmem[i].file] = jmem[i].img
  /\ pc \in {"undo", "usync"} =>
       /\ \A f \in File : InFiles(f) => InTodo(f) \/ mem[f] = snap[f] \/ (IsWal(f) /\ mem[f] = <<>>)
       /\ \A f \in File : InTodo(f) => InFiles(f)
  /\ pc = "usync" => \/ mem[Head(todo)] = snap[Head(todo)]
                     \/ IsWal(Head(todo)) /\ mem[Head(todo)] = <<>>

\* Logs: what a restart finds is closed, and the commit closes the others.
Logs ==
  /\ \A s \in Stores : Closed(Base(Wal(s)))
  /\ pc \in {"cframe", "cfsync", "cdir"} => \A s \in Stores : InFiles(Data(s)) =>
       Closed(mem[Wal(s)]) \/ (pc # "cdir" /\ InTodo(Wal(s)))
  /\ pc = "cfsync" => Closed(mem[Head(todo)])
  /\ pc \in {"force", "apply"} =>
       LET w == mem[Wal(cur.store)]
       IN  w = <<>> \/ (Len(w) > 0 /\ w[Len(w)] = PutFrame(cur.row, cur.val))

\* Data files: an open store's file and log agree, and so do their images.
Agreement ==
  /\ pc \notin Early => \A s \in Stores : Held(Data(s)) /\ Held(Wal(s)) =>
       Agrees(Base(Data(s)), Base(Wal(s)))
  /\ \A s \in open :
       \/ pc = "rewrite" /\ s = cur
       \/ pc \in {"force", "apply"} /\ s = cur.store
       \/ pc \in {"undo", "usync"} /\ InFiles(Data(s))
       \/ Agrees(mem[Data(s)], mem[Wal(s)])
  /\ pc \in {"force", "apply"} =>
       Agrees([mem[Data(cur.store)] EXCEPT ![cur.row] = cur.val], mem[Wal(cur.store)])

Legal == View \in outcomes /\ outcomes \subseteq [Stores -> Contents]

OInv == TInv /\ Coverage /\ Phase /\ Restoring /\ Logs /\ Agreement /\ Legal

\* Nobody saves a store whose data file its recovery rewrites.
SavesApart == \A t \in Savers : saving[t] # None /\ pc \in {"rewrite", "rwsync"} => saving[t].store # cur

\* While a row is in the log only, a restart may show it or, once another task has
\* truncated the log, what the data file holds: both are legal.
EitherLegal ==
  pc \in {"force", "apply"} /\ depth = 0 =>
    /\ [View EXCEPT ![cur.store] = mem[Data(cur.store)]] \in outcomes
    /\ WithPut \subseteq outcomes

SInv == OInv /\ Saves /\ SavesApart /\ EitherLegal

----------------------------------------------------------------------------
(* Facts about the operators of the model                                  *)

\* The names of the files of two stores, and of the two kinds, differ.
LEMMA FileNames ==
  /\ \A s, t \in Stores : (Data(s) = Data(t) => s = t) /\ (Wal(s) = Wal(t) => s = t) /\ Data(s) # Wal(t)
  /\ \A s \in Stores : Data(s) \in File /\ Wal(s) \in File
  /\ \A s \in Stores : ~IsWal(Data(s)) /\ IsWal(Wal(s))
  /\ \A f \in File : \E s \in Stores : f = Data(s) \/ f = Wal(s)
BY DEF Data, Wal, File, IsWal

\* A nonempty set of positions has a greatest element (for PendingBegin and Replay).
LEMMA MaxIn ==
  ASSUME NEW n \in Nat, NEW S, S \subseteq 1..n, S # {}
  PROVE  Max(S) \in S /\ \A y \in S : y <= Max(S)
<1> DEFINE T == {n - i : i \in S}
<1>0. \A i \in S : i \in Int /\ n - i \in Nat
  <2>1. SUFFICES ASSUME NEW i \in S PROVE i \in Int /\ n - i \in Nat
    OBVIOUS
  <2>2. i \in 1..n
    OBVIOUS
  <2> QED
    BY <2>2
<1>1. T \subseteq Nat /\ T # {}
  BY <1>0
<1>2. PICK x \in T : \A y \in T : ~ (<<y, x>> \in OpToRel(<, Nat))
  BY <1>1, NatLessThanWellFounded, WFMin, Zenon
<1>3. \A y \in T : x <= y
  <2>1. SUFFICES ASSUME NEW y \in T PROVE x <= y
    OBVIOUS
  <2>2. x \in Nat /\ y \in Nat
    BY <1>1
  <2>3. <<y, x>> \in Nat \X Nat /\ (y < x => <<y, x>> \in OpToRel(<, Nat))
    BY <2>2 DEF OpToRel
  <2>4. ~(y < x)
    BY <1>2, <2>3, Zenon
  <2> QED
    BY <2>2, <2>4
<1>4. PICK m \in S : x = n - m
  BY <1>2
<1>5. \A y \in S : m >= y
  <2>1. SUFFICES ASSUME NEW y \in S PROVE m >= y
    OBVIOUS
  <2>2. n - y \in T /\ y \in Int /\ m \in Int
    BY <1>4
  <2> QED
    BY <1>3, <1>4, <2>2
<1>6. Max(S) \in S /\ \A y \in S : Max(S) >= y
  BY <1>4, <1>5 DEF Max
<1> QED
  BY <1>6

\* The three kinds of frames.
LEMMA FrameKinds ==
  ASSUME NEW x \in Frame
  PROVE  /\ x.op \in {"put", "begin", "commit"}
         /\ x.op = "put" => x.row \in Rows /\ x.val \in Values
         /\ x.op = "begin" => x.img \in Contents
<1>1. CASE x \in [op : {"put"}, row : Rows, val : Values]
  BY <1>1
<1>2. CASE x \in [op : {"begin"}, img : Contents]
  BY <1>2
<1>3. CASE x \in [op : {"commit"}]
  BY <1>3
<1> QED
  BY <1>1, <1>2, <1>3 DEF Frame

LEMMA NewFrames ==
  /\ \A k \in Rows, v \in Values : PutFrame(k, v) \in Frame
  /\ \A c \in Contents : BeginFrame(c) \in Frame
  /\ CommitFrame \in Frame
BY DEF PutFrame, BeginFrame, CommitFrame, Frame

\* A closed log has no pending begin frame; otherwise PendingBegin is the position
\* of one.
LEMMA PendingCase ==
  ASSUME NEW w \in Seq(Frame)
  PROVE  /\ Closed(w) => PendingBegin(w) = 0
         /\ PendingBegin(w) # 0 => PendingBegin(w) \in DOMAIN w /\ w[PendingBegin(w)].op = "begin"
         /\ PendingBegin(w) \in 0..Len(w)
         /\ PendingBegin(w) = 0 => Closed(w)
<1> DEFINE O == {i \in DOMAIN w : w[i].op = "begin" /\
                   \A j \in (i + 1)..Len(w) : w[j].op # "commit"}
<1>1. O \subseteq 1..Len(w) /\ Len(w) \in Nat /\ DOMAIN w = 1..Len(w)
  OBVIOUS
<1>2. PendingBegin(w) = IF O = {} THEN 0 ELSE Max(O)
  BY DEF PendingBegin
<1>3. O # {} => Max(O) \in O
  BY <1>1, MaxIn
<1>4. Closed(w) <=> O = {}
  BY DEF Closed
<1> HIDE DEF O
<1>5. O # {} => Max(O) \in 1..Len(w)
  BY <1>1, <1>3
<1> QED
  BY <1>1, <1>2, <1>3, <1>4, <1>5 DEF O

\* Replaying a log over a data file: the last put of a row wins, a row without
\* one keeps its value.
LEMMA ReplayIs ==
  ASSUME NEW w \in Seq(Frame), NEW d \in Contents
  PROVE  /\ Replay(d, w) \in Contents
         /\ Closed(w) => \A k \in Rows :
              /\ Puts(w, k) = {} => Replay(d, w)[k] = d[k]
              /\ Puts(w, k) # {} => \E i \in DOMAIN w : LastPut(w, k, i) /\ Replay(d, w)[k] = w[i].val
<1> DEFINE stop == IF PendingBegin(w) = 0 THEN Len(w) ELSE PendingBegin(w) - 1
           Of(k) == {i \in 1..stop : w[i].op = "put" /\ w[i].row = k}
<1>1. stop \in 0..Len(w) /\ Len(w) \in Nat /\ DOMAIN w = 1..Len(w)
  BY PendingCase
<1>2. Replay(d, w) = [k \in Rows |-> IF Of(k) = {} THEN d[k] ELSE w[Max(Of(k))].val]
  BY DEF Replay
<1>3. \A k \in Rows : Of(k) # {} => Max(Of(k)) \in Of(k) /\ \A j \in Of(k) : j <= Max(Of(k))
  <2>1. stop \in Nat
    BY <1>1
  <2>2. SUFFICES ASSUME NEW k \in Rows, Of(k) # {}
                 PROVE  Max(Of(k)) \in Of(k) /\ \A j \in Of(k) : j <= Max(Of(k))
    OBVIOUS
  <2>3. Of(k) \subseteq 1..stop
    OBVIOUS
  <2> HIDE DEF Of, stop
  <2> QED
    BY <2>1, <2>2, <2>3, MaxIn
<1>4. Closed(w) => \A k \in Rows : Of(k) = Puts(w, k)
  BY <1>1, PendingCase DEF Puts
<1>5. \A k \in Rows : Of(k) \subseteq Puts(w, k)
  BY <1>1 DEF Puts
<1>6. \A k : \A i \in Puts(w, k) : i \in DOMAIN w /\ w[i].val \in Values
  <2>1. SUFFICES ASSUME NEW k, NEW i \in Puts(w, k) PROVE i \in DOMAIN w /\ w[i].val \in Values
    OBVIOUS
  <2>2. i \in DOMAIN w /\ w[i].op = "put"
    BY DEF Puts
  <2>3. w[i] \in Frame
    BY <2>2
  <2> QED
    BY <2>2, <2>3, FrameKinds
<1> HIDE DEF Of, stop
<1>7. Replay(d, w) \in Contents
  BY <1>2, <1>3, <1>5, <1>6 DEF Contents
<1>8. ASSUME Closed(w), NEW k \in Rows
      PROVE  /\ Puts(w, k) = {} => Replay(d, w)[k] = d[k]
             /\ Puts(w, k) # {} => \E i \in DOMAIN w : LastPut(w, k, i) /\ Replay(d, w)[k] = w[i].val
  <2>1. Of(k) = Puts(w, k)
    BY <1>4, <1>8
  <2>2. Replay(d, w)[k] = IF Puts(w, k) = {} THEN d[k] ELSE w[Max(Puts(w, k))].val
    BY <1>2, <2>1
  <2>3. CASE Puts(w, k) = {}
    BY <2>2, <2>3
  <2>4. CASE Puts(w, k) # {}
    <3>1. LastPut(w, k, Max(Puts(w, k))) /\ Max(Puts(w, k)) \in DOMAIN w
      BY <1>3, <1>6, <2>1, <2>4 DEF LastPut
    <3> QED
      BY <2>2, <2>4, <3>1
  <2> QED
    BY <2>3, <2>4
<1> QED
  BY <1>7, <1>8

----------------------------------------------------------------------------
(* Types and undo images, under every fault                                *)

\* A write of the right kind of content, and a sync, keep the files typed.
LEMMA TypedWrite ==
  ASSUME NEW m, Typed(m), NEW s \in Stores
  PROVE  /\ \A c \in Contents : Typed([m EXCEPT ![Data(s)] = c])
         /\ \A w \in Seq(Frame) : Typed([m EXCEPT ![Wal(s)] = w])
BY FileNames DEF Typed

LEMMA TypedSync ==
  ASSUME NEW m, NEW d, Typed(m), Typed(d), NEW f \in File
  PROVE  Typed([d EXCEPT ![f] = m[f]])
BY FileNames DEF Typed

\* An image put back is of the right kind.
LEMMA TypedImage ==
  ASSUME NEW m, Typed(m), NEW f \in File, NEW x,
         \A s \in Stores : (f = Data(s) => x \in Contents) /\ (f = Wal(s) => x \in Seq(Frame))
  PROVE  Typed([m EXCEPT ![f] = x])
BY FileNames DEF Typed

\* What recovery makes of a store is a data file.
LEMMA RecoveredTyped ==
  ASSUME Typed(mem), NEW s \in Stores
  PROVE  Recovered(s) \in Contents
<1> DEFINE w == mem[Wal(s)]
           d == IF PendingBegin(w) = 0 THEN mem[Data(s)] ELSE w[PendingBegin(w)].img
<1>1. w \in Seq(Frame) /\ mem[Data(s)] \in Contents
  BY DEF Typed
<1>2. d \in Contents
  <2>1. CASE PendingBegin(w) = 0
    BY <1>1, <2>1
  <2>2. CASE PendingBegin(w) # 0
    <3>1. PendingBegin(w) \in DOMAIN w /\ w[PendingBegin(w)].op = "begin"
      BY <1>1, <2>2, PendingCase
    <3>2. w[PendingBegin(w)] \in Frame
      BY <1>1, <3>1
    <3>3. w[PendingBegin(w)].img \in Contents
      BY <3>1, <3>2, FrameKinds
    <3> QED
      BY <2>2, <3>3
  <2> QED
    BY <2>1, <2>2
<1>3. Recovered(s) = Replay(d, w)
  BY DEF Recovered
<1> QED
  BY <1>1, <1>2, <1>3, ReplayIs

\* The image that the recovery takes next, and the images it leaves.
LEMMA LastImage ==
  ASSUME NEW q \in Seq(Image), JournalOK(q), q # <<>>
  PROVE  /\ Last(q).file \in File
         /\ \A s \in Stores : /\ Last(q).file = Data(s) => Last(q).img \in Contents
                              /\ Last(q).file = Wal(s) => Last(q).img \in Seq(Frame)
         /\ Front(q) \in Seq(Image) /\ JournalOK(Front(q))
         /\ Len(Front(q)) = Len(q) - 1 /\ \A i \in DOMAIN Front(q) : Front(q)[i] = q[i]
<1>1. Len(q) \in Nat /\ Len(q) \in DOMAIN q /\ q[Len(q)] \in Image
  OBVIOUS
<1>2. q # None
  BY NoJournal
<1>3. Last(q).file \in File
  BY <1>1 DEF Last, Image
<1>4. \A i \in DOMAIN q, s \in Stores : /\ q[i].file = Data(s) => q[i].img \in Contents
                                        /\ q[i].file = Wal(s) => q[i].img \in Seq(Frame)
  BY <1>2 DEF JournalOK
<1>5. /\ Front(q) \in Seq(Image) /\ Len(Front(q)) = Len(q) - 1
      /\ DOMAIN Front(q) \subseteq DOMAIN q /\ \A i \in DOMAIN Front(q) : Front(q)[i] = q[i]
  <2>1. \A i \in 1..(Len(q) - 1) : q[i] \in Image
    BY <1>1
  <2>2. /\ Front(q) \in Seq(Image) /\ Len(Front(q)) = Len(q) - 1
        /\ \A i \in 1..(Len(q) - 1) : Front(q)[i] = q[i]
    <3> DEFINE n == Len(q) - 1
    <3>1. n \in Nat
      BY <1>1
    <3> HIDE DEF n
    <3>2. SubSeq(q, 1, n) \in Seq(Image)
      BY <2>1, <3>1, SubSeqProperties DEF n
    <3>3. Len(SubSeq(q, 1, n)) = n
      BY <3>1
    <3>4. \A i \in 1..n : SubSeq(q, 1, n)[i] = q[i]
      BY <3>1
    <3> QED
      BY <3>2, <3>3, <3>4 DEF Front, n
  <2> QED
    BY <1>1, <2>2
<1>6. JournalOK(Front(q))
  BY <1>4, <1>5 DEF JournalOK
<1> QED
  BY <1>1, <1>3, <1>4, <1>5, <1>6 DEF Last

\* jinn_txn_journal_snapshot: the image of f is in the journal, cached and durable,
\* and those before it still are.
LEMMA JournaledImage ==
  ASSUME Typed(mem), JournalOK(jmem), SnapOK, NEW f \in File, Journaled(f)
  PROVE  /\ jmem' \in Seq(Image) /\ JournalOK(jmem') /\ jdsk' = jmem' /\ jmem' # None
         /\ SnapOK'
         /\ DOMAIN snap' = DOMAIN snap \cup {f} /\ snap'[f] = mem[f]
         /\ \A g \in DOMAIN snap : g # f => snap'[g] = snap[g]
         /\ jmem = None => Len(jmem') = 1
         /\ jmem # None => Len(jmem') = Len(jmem) + 1 /\ \A i \in DOMAIN jmem : jmem'[i] = jmem[i]
         /\ Len(jmem') \in DOMAIN jmem' /\ jmem'[Len(jmem')] = [file |-> f, img |-> mem[f]]
<1> DEFINE j == IF jmem = None THEN <<>> ELSE jmem
           e == [file |-> f, img |-> mem[f]]
<1>1. /\ j \in Seq(Image)
      /\ \A i \in DOMAIN j, s \in Stores : /\ j[i].file = Data(s) => j[i].img \in Contents
                                           /\ j[i].file = Wal(s) => j[i].img \in Seq(Frame)
  BY DEF JournalOK
<1>2. e \in Image /\ \A s \in Stores : /\ f = Data(s) => mem[f] \in Contents
                                       /\ f = Wal(s) => mem[f] \in Seq(Frame)
  BY FileNames DEF Image, Typed
<1>3. jmem' = Append(j, e) /\ jdsk' = jmem'
  BY DEF Journaled
<1> HIDE DEF j
<1>4. jmem' \in Seq(Image) /\ jmem' # None
  BY <1>1, <1>2, <1>3, NoJournal
<1>5. /\ Len(jmem') = Len(j) + 1 /\ Len(jmem') \in DOMAIN jmem' /\ jmem'[Len(jmem')] = e
      /\ \A i \in DOMAIN jmem' : (i \in DOMAIN j /\ jmem'[i] = j[i]) \/ i = Len(jmem')
      /\ \A i \in DOMAIN j : i \in DOMAIN jmem' /\ jmem'[i] = j[i]
  BY <1>1, <1>2, <1>3
<1>6. ASSUME NEW i \in DOMAIN jmem', NEW s \in Stores
      PROVE  /\ jmem'[i].file = Data(s) => jmem'[i].img \in Contents
             /\ jmem'[i].file = Wal(s) => jmem'[i].img \in Seq(Frame)
  <2>1. CASE i \in DOMAIN j /\ jmem'[i] = j[i]
    BY <1>1, <2>1
  <2>2. CASE i = Len(jmem')
    BY <1>2, <1>5, <2>2
  <2> QED
    BY <1>5, <2>1, <2>2
<1>7. JournalOK(jmem')
  BY <1>4, <1>6 DEF JournalOK
<1>8. /\ DOMAIN snap' = DOMAIN snap \cup {f} /\ snap'[f] = mem[f]
      /\ \A g \in DOMAIN snap : g # f => snap'[g] = snap[g]
  BY DEF Journaled
<1>9. SnapOK'
  BY <1>2, <1>8, FileNames DEF SnapOK
<1>10. /\ jmem = None => Len(jmem') = 1
       /\ jmem # None => Len(jmem') = Len(jmem) + 1 /\ \A i \in DOMAIN jmem : jmem'[i] = jmem[i]
  BY <1>5 DEF j
<1> QED
  BY <1>3, <1>4, <1>5, <1>7, <1>8, <1>9, <1>10

\* The store starts with blank files and no journal.
LEMMA TInit == Init => FInv
<1> SUFFICES ASSUME Init PROVE FInv
  OBVIOUS
<1>1. Typed(mem) /\ Typed(dsk)
  <2>1. \A s \in Stores : Blank(Data(s)) = [k \in Rows |-> Zero] /\ Blank(Wal(s)) = <<>>
    BY DEF Blank, Data, Wal
  <2>2. [k \in Rows |-> Zero] \in Contents /\ <<>> \in Seq(Frame)
    BY StoreAssumption DEF Contents
  <2> QED
    BY <2>1, <2>2, FileNames DEF Typed, Init
<1>2. TypeOK
  BY <1>1, StoreAssumption DEF Init, TypeOK, Typed
<1>3. SnapOK /\ JournalOK(jmem) /\ JournalOK(jdsk)
  BY DEF Init, SnapOK, JournalOK
<1>4. StepTypes /\ Images
  BY DEF Init, StepTypes, Images, Early, InBlock, Ending, Ended, Opening, Putting
<1>5. Saves
  BY DEF Init, Saves
<1> QED
  BY <1>1, <1>2, <1>3, <1>4, <1>5 DEF TInv, FInv

\* A step of another task's save syncs a file of an open store or truncates its
\* log, and leaves the client alone.
LEMMA OtherStep ==
  ASSUME Saves, Others, open \subseteq Stores
  PROVE  /\ UNCHANGED clientVars
         /\ Saves'
         /\ \E s \in open :
              \/ mem' = mem /\ dsk' = [dsk EXCEPT ![Data(s)] = mem[Data(s)]]
              \/ mem' = mem /\ dsk' = [dsk EXCEPT ![Wal(s)] = mem[Wal(s)]]
              \/ /\ mem' = [mem EXCEPT ![Wal(s)] = <<>>] /\ dsk' = dsk
                 /\ \E t \in Savers : saving[t] # None /\ saving[t].store = s
<1>1. PICK t \in Savers : \/ \E s \in Stores : OtherSave(t, s)
                         \/ OtherCheckpoint(t) \/ OtherTruncate(t) \/ OtherSync(t)
  BY DEF Others
<1>2. saving[t] # None => saving[t] \in OpenSave /\ saving[t].store \in open
  BY DEF Saves, OpenSave
<1>3. UNCHANGED clientVars /\ open' = open
  BY <1>1 DEF OtherSave, OtherCheckpoint, OtherTruncate, OtherSync, clientVars
<1>4. OpenSave' = OpenSave
  BY <1>3 DEF OpenSave
<1>5. ASSUME NEW x \in {None} \cup OpenSave, Goes(t, x) PROVE Saves'
  BY <1>4, <1>5 DEF Saves, Goes
<1>6. ASSUME NEW s \in Stores, OtherSave(t, s)
      PROVE  /\ Saves' /\ mem' = mem /\ s \in open
             /\ dsk' = [dsk EXCEPT ![Data(s)] = mem[Data(s)]]
  <2>1. [store |-> s, step |-> "ckpt"] \in OpenSave
    BY <1>6 DEF OtherSave, OpenSave
  <2> QED
    BY <1>5, <1>6, <2>1 DEF OtherSave, Sync
<1>7. CASE OtherCheckpoint(t)
  <2>1. saving[t] \in OpenSave /\ saving[t].store \in open
    BY <1>2, <1>7 DEF OtherCheckpoint, At
  <2>2. [saving[t] EXCEPT !.step = "trunc"] \in OpenSave
    BY <2>1 DEF OpenSave
  <2>3. Saves'
    BY <1>5, <1>7, <2>2 DEF OtherCheckpoint
  <2> QED
    BY <1>3, <1>7, <2>1, <2>3 DEF OtherCheckpoint, Sync
<1>8. CASE OtherTruncate(t)
  <2>1. saving[t] # None /\ saving[t] \in OpenSave /\ saving[t].store \in open
    BY <1>2, <1>8 DEF OtherTruncate, At
  <2>2. [saving[t] EXCEPT !.step = "tsync"] \in OpenSave
    BY <2>1 DEF OpenSave
  <2>3. Saves'
    BY <1>5, <1>8, <2>2 DEF OtherTruncate
  <2> QED
    BY <1>3, <1>8, <2>1, <2>3 DEF OtherTruncate
<1>9. CASE OtherSync(t)
  <2>1. saving[t].store \in open
    BY <1>2, <1>9 DEF OtherSync, At
  <2>2. Saves'
    BY <1>5, <1>9 DEF OtherSync
  <2> QED
    BY <1>3, <1>9, <2>1, <2>2 DEF OtherSync, Sync
<1> QED
  BY <1>1, <1>3, <1>6, <1>7, <1>8, <1>9

\* Another task is in a save only of a store that is open, at every step.
LEMMA SavesStep == FInv /\ [Next]_vars => Saves'
<1> SUFFICES ASSUME FInv, [Next]_vars PROVE Saves'
  OBVIOUS
<1>1. CASE UNCHANGED saving /\ open \subseteq open'
  BY <1>1 DEF FInv, Saves, OpenSave
<1>2. CASE UNCHANGED vars
  BY <1>1, <1>2 DEF vars
<1>3. CASE Work /\ UNCHANGED saving
  BY <1>1, <1>3 DEF Work, Start, JournalRestore, JournalRestoreSync, JournalRestored, JournalGone,
       RecoverRewrite, RecoverSync, Checkpoint, CheckpointTruncate, CheckpointSync, TrackData,
       TrackWal, LogBegin, SyncBegin, LogRow, ForceRow, Apply, CommitSync, CommitSynced,
       CommitFrameSkip, CommitFrameWrite, CommitFrameSync, CommitUnlink, CommitDone, Undo,
       UndoSync, UndoUnlink, UndoDone
<1>4. CASE Client /\ UNCHANGED saving
  BY <1>1, <1>4 DEF Client, Open, Save, Mutate, TxnBegin, TxnCommit, TxnRollback
<1>5. CASE Others
  BY <1>5, OtherStep DEF FInv, TInv, TypeOK
<1>6. CASE Kill \/ PowerFailure
  BY <1>6 DEF Kill, PowerFailure, ProcessGone, Saves
<1> QED
  BY <1>2, <1>3, <1>4, <1>5, <1>6 DEF Next

\* Every step keeps the types and the images.
LEMMA TStep == FInv /\ [Next]_vars => TInv'
<1> SUFFICES ASSUME FInv, [Next]_vars PROVE TInv'
  OBVIOUS
<1> USE StoreAssumption, NoJournal
<1>0. TypeOK /\ Typed(mem) /\ Typed(dsk) /\ JournalOK(jmem) /\ JournalOK(jdsk) /\ SnapOK /\ StepTypes /\ Images
  BY DEF TInv, FInv
<1>u. CASE UNCHANGED vars
  BY <1>0, <1>u DEF vars, diskVars, journalVars, txnVars, TInv, TypeOK, Typed, JournalOK, SnapOK, StepTypes, Images, InFiles
<1>1. CASE Start
  <2>1. Typed(mem)' /\ Typed(dsk)'
    BY <1>0, <1>1 DEF Start, diskVars, Typed
  <2>2. JournalOK(jmem)' /\ JournalOK(jdsk)'
    BY <1>0, <1>1 DEF Start, journalVars, JournalOK
  <2>3. SnapOK'
    BY <1>0, <1>1 DEF Start, txnVars, SnapOK
  <2>4. StepTypes'
    BY <1>0, <1>1 DEF Start, TypeOK, StepTypes, Images, Early, InBlock, Ending, Ended, Opening, Putting, diskVars, journalVars, txnVars, JournalOK
  <2>5. Images'
    BY <1>0, <1>1 DEF Start, TypeOK, StepTypes, Images, Early, InBlock, Ending, Ended, Opening, Putting, diskVars, journalVars, txnVars, JournalOK
  <2>6. TypeOK'
    BY <1>0, <1>1, <2>1 DEF Start, TypeOK, Typed, txnVars, JournalOK
  <2> QED
    BY <2>1, <2>2, <2>3, <2>4, <2>5, <2>6 DEF TInv
<1>2. CASE JournalRestore
  <2>1. Typed(mem)' /\ Typed(dsk)'
    <3>1. todo \in Seq(Image) /\ JournalOK(todo) /\ todo # <<>>
      BY <1>0, <1>2 DEF JournalRestore, StepTypes
    <3> QED
      BY <1>0, <1>2, <3>1, LastImage, TypedImage DEF JournalRestore, Write
  <2>2. JournalOK(jmem)' /\ JournalOK(jdsk)'
    BY <1>0, <1>2 DEF JournalRestore, journalVars, JournalOK
  <2>3. SnapOK'
    BY <1>0, <1>2 DEF JournalRestore, txnVars, SnapOK
  <2>4. StepTypes'
    BY <1>0, <1>2 DEF JournalRestore, TypeOK, StepTypes, Images, Early, InBlock, Ending, Ended, Opening, Putting, diskVars, journalVars, txnVars
  <2>5. Images'
    BY <1>0, <1>2 DEF JournalRestore, TypeOK, StepTypes, Images, Early, InBlock, Ending, Ended, Opening, Putting, diskVars, journalVars, txnVars
  <2>6. TypeOK'
    BY <1>0, <1>2, <2>1 DEF JournalRestore, TypeOK, Typed, txnVars
  <2> QED
    BY <2>1, <2>2, <2>3, <2>4, <2>5, <2>6 DEF TInv
<1>3. CASE JournalRestoreSync
  <2>1. Typed(mem)' /\ Typed(dsk)'
    <3>1. todo \in Seq(Image) /\ JournalOK(todo) /\ todo # <<>>
      BY <1>0, <1>3 DEF JournalRestoreSync, StepTypes
    <3> QED
      BY <1>0, <1>3, <3>1, LastImage, TypedSync DEF JournalRestoreSync, Sync
  <2>2. JournalOK(jmem)' /\ JournalOK(jdsk)'
    BY <1>0, <1>3 DEF JournalRestoreSync, journalVars, JournalOK
  <2>3. SnapOK'
    BY <1>0, <1>3 DEF JournalRestoreSync, txnVars, SnapOK
  <2>4. StepTypes'
    <3>1. todo \in Seq(Image) /\ JournalOK(todo) /\ todo # <<>>
      BY <1>0, <1>3 DEF JournalRestoreSync, StepTypes
    <3> QED
      BY <1>0, <1>3, <3>1, LastImage, SMT DEF JournalRestoreSync, StepTypes, Images, Early, InBlock, Ending, Ended, Opening, Putting, txnVars
  <2>5. Images'
    BY <1>0, <1>3 DEF JournalRestoreSync, TypeOK, StepTypes, Images, Early, InBlock, Ending, Ended, Opening, Putting, diskVars, journalVars, txnVars
  <2>6. TypeOK'
    BY <1>0, <1>3, <2>1 DEF JournalRestoreSync, TypeOK, Typed, txnVars
  <2> QED
    BY <2>1, <2>2, <2>3, <2>4, <2>5, <2>6 DEF TInv
<1>4. CASE JournalRestored
  <2>1. Typed(mem)' /\ Typed(dsk)'
    BY <1>0, <1>4 DEF JournalRestored, diskVars, Typed
  <2>2. JournalOK(jmem)' /\ JournalOK(jdsk)'
    BY <1>0, <1>4 DEF JournalRestored, journalVars, JournalOK
  <2>3. SnapOK'
    BY <1>0, <1>4 DEF JournalRestored, txnVars, SnapOK
  <2>4. StepTypes'
    BY <1>0, <1>4 DEF JournalRestored, TypeOK, StepTypes, Images, Early, InBlock, Ending, Ended, Opening, Putting, diskVars, journalVars, txnVars
  <2>5. Images'
    BY <1>0, <1>4 DEF JournalRestored, TypeOK, StepTypes, Images, Early, InBlock, Ending, Ended, Opening, Putting, diskVars, journalVars, txnVars
  <2>6. TypeOK'
    BY <1>0, <1>4, <2>1 DEF JournalRestored, TypeOK, Typed, txnVars
  <2> QED
    BY <2>1, <2>2, <2>3, <2>4, <2>5, <2>6 DEF TInv
<1>5. CASE JournalGone
  <2>1. Typed(mem)' /\ Typed(dsk)'
    BY <1>0, <1>5 DEF JournalGone, diskVars, Typed
  <2>2. JournalOK(jmem)' /\ JournalOK(jdsk)'
    BY <1>0, <1>5 DEF JournalGone, journalVars, JournalOK
  <2>3. SnapOK'
    BY <1>0, <1>5 DEF JournalGone, txnVars, SnapOK
  <2>4. StepTypes'
    BY <1>0, <1>5 DEF JournalGone, TypeOK, StepTypes, Images, Early, InBlock, Ending, Ended, Opening, Putting, diskVars, journalVars, txnVars
  <2>5. Images'
    BY <1>0, <1>5 DEF JournalGone, TypeOK, StepTypes, Images, Early, InBlock, Ending, Ended, Opening, Putting, diskVars, journalVars, txnVars
  <2>6. TypeOK'
    BY <1>0, <1>5, <2>1 DEF JournalGone, TypeOK, Typed, txnVars
  <2> QED
    BY <2>1, <2>2, <2>3, <2>4, <2>5, <2>6 DEF TInv
<1>6. ASSUME NEW s \in Stores, Open(s) PROVE TInv'
  <2>1. Typed(mem)' /\ Typed(dsk)'
    BY <1>0, <1>6 DEF Open, diskVars, Typed
  <2>2. JournalOK(jmem)' /\ JournalOK(jdsk)'
    BY <1>0, <1>6 DEF Open, journalVars, JournalOK
  <2>3. SnapOK'
    BY <1>0, <1>6 DEF Open, txnVars, SnapOK
  <2>4. StepTypes'
    BY <1>0, <1>6 DEF Open, TypeOK, StepTypes, Images, Early, InBlock, Ending, Ended, Opening, Putting, diskVars, journalVars, txnVars
  <2>5. Images'
    BY <1>0, <1>6 DEF Open, TypeOK, StepTypes, Images, Early, InBlock, Ending, Ended, Opening, Putting, diskVars, journalVars, txnVars
  <2>6. TypeOK'
    BY <1>0, <1>6, <2>1 DEF Open, TypeOK, Typed, txnVars
  <2> QED
    BY <2>1, <2>2, <2>3, <2>4, <2>5, <2>6 DEF TInv
<1>7. CASE RecoverRewrite
  <2>1. Typed(mem)' /\ Typed(dsk)'
    <3>1. cur \in Stores /\ Recovered(cur) \in Contents
      BY <1>0, <1>7, RecoveredTyped DEF RecoverRewrite, StepTypes, Putting, Opening
    <3> QED
      BY <1>0, <1>7, <3>1, TypedWrite DEF RecoverRewrite, Write
  <2>2. JournalOK(jmem)' /\ JournalOK(jdsk)'
    BY <1>0, <1>7 DEF RecoverRewrite, journalVars, JournalOK
  <2>3. SnapOK'
    BY <1>0, <1>7 DEF RecoverRewrite, txnVars, SnapOK
  <2>4. StepTypes'
    BY <1>0, <1>7 DEF RecoverRewrite, TypeOK, StepTypes, Images, Early, InBlock, Ending, Ended, Opening, Putting, diskVars, journalVars, txnVars
  <2>5. Images'
    BY <1>0, <1>7 DEF RecoverRewrite, TypeOK, StepTypes, Images, Early, InBlock, Ending, Ended, Opening, Putting, diskVars, journalVars, txnVars
  <2>6. TypeOK'
    BY <1>0, <1>7, <2>1 DEF RecoverRewrite, TypeOK, Typed, txnVars
  <2> QED
    BY <2>1, <2>2, <2>3, <2>4, <2>5, <2>6 DEF TInv
<1>8. CASE RecoverSync
  <2>1. Typed(mem)' /\ Typed(dsk)'
    <3>1. Data(cur) \in File
      BY <1>0, <1>8, FileNames DEF RecoverSync, StepTypes, Putting, Opening
    <3> QED
      BY <1>0, <1>8, <3>1, TypedSync DEF RecoverSync, Sync
  <2>2. JournalOK(jmem)' /\ JournalOK(jdsk)'
    BY <1>0, <1>8 DEF RecoverSync, journalVars, JournalOK
  <2>3. SnapOK'
    BY <1>0, <1>8 DEF RecoverSync, txnVars, SnapOK
  <2>4. StepTypes'
    BY <1>0, <1>8 DEF RecoverSync, TypeOK, StepTypes, Images, Early, InBlock, Ending, Ended, Opening, Putting, diskVars, journalVars, txnVars
  <2>5. Images'
    BY <1>0, <1>8 DEF RecoverSync, TypeOK, StepTypes, Images, Early, InBlock, Ending, Ended, Opening, Putting, diskVars, journalVars, txnVars
  <2>6. TypeOK'
    BY <1>0, <1>8, <2>1 DEF RecoverSync, TypeOK, Typed, txnVars
  <2> QED
    BY <2>1, <2>2, <2>3, <2>4, <2>5, <2>6 DEF TInv
<1>9. CASE Checkpoint
  <2>1. Typed(mem)' /\ Typed(dsk)'
    <3>1. Wal(cur) \in File
      BY <1>0, <1>9, FileNames DEF Checkpoint, StepTypes, Putting, Opening
    <3>2. mem' = mem /\ (dsk' = dsk \/ dsk' = [dsk EXCEPT ![Wal(cur)] = mem[Wal(cur)]])
      BY <1>9 DEF Checkpoint, Sync
    <3>3. Typed([dsk EXCEPT ![Wal(cur)] = mem[Wal(cur)]])
      BY <1>0, <3>1, TypedSync
    <3> QED
      BY <1>0, <3>2, <3>3
  <2>2. JournalOK(jmem)' /\ JournalOK(jdsk)'
    BY <1>0, <1>9 DEF Checkpoint, journalVars, JournalOK
  <2>3. SnapOK'
    BY <1>0, <1>9 DEF Checkpoint, txnVars, SnapOK
  <2>4. StepTypes'
    BY <1>0, <1>9 DEF Checkpoint, TypeOK, StepTypes, Images, Early, InBlock, Ending, Ended, Opening, Putting, diskVars, journalVars, txnVars
  <2>5. Images'
    BY <1>0, <1>9 DEF Checkpoint, TypeOK, StepTypes, Images, Early, InBlock, Ending, Ended, Opening, Putting, diskVars, journalVars, txnVars
  <2>6. TypeOK'
    BY <1>0, <1>9, <2>1 DEF Checkpoint, TypeOK, Typed, txnVars
  <2> QED
    BY <2>1, <2>2, <2>3, <2>4, <2>5, <2>6 DEF TInv
<1>10. CASE CheckpointTruncate
  <2>1. Typed(mem)' /\ Typed(dsk)'
    <3>1. cur \in Stores /\ <<>> \in Seq(Frame)
      BY <1>0, <1>10 DEF CheckpointTruncate, StepTypes, Putting, Opening
    <3> QED
      BY <1>0, <1>10, <3>1, TypedWrite DEF CheckpointTruncate, Write
  <2>2. JournalOK(jmem)' /\ JournalOK(jdsk)'
    BY <1>0, <1>10 DEF CheckpointTruncate, journalVars, JournalOK
  <2>3. SnapOK'
    BY <1>0, <1>10 DEF CheckpointTruncate, txnVars, SnapOK
  <2>4. StepTypes'
    BY <1>0, <1>10 DEF CheckpointTruncate, TypeOK, StepTypes, Images, Early, InBlock, Ending, Ended, Opening, Putting, diskVars, journalVars, txnVars
  <2>5. Images'
    BY <1>0, <1>10 DEF CheckpointTruncate, TypeOK, StepTypes, Images, Early, InBlock, Ending, Ended, Opening, Putting, diskVars, journalVars, txnVars
  <2>6. TypeOK'
    BY <1>0, <1>10, <2>1 DEF CheckpointTruncate, TypeOK, Typed, txnVars
  <2> QED
    BY <2>1, <2>2, <2>3, <2>4, <2>5, <2>6 DEF TInv
<1>11. CASE CheckpointSync
  <2>1. Typed(mem)' /\ Typed(dsk)'
    <3>1. Wal(cur) \in File
      BY <1>0, <1>11, FileNames DEF CheckpointSync, StepTypes, Putting, Opening
    <3> QED
      BY <1>0, <1>11, <3>1, TypedSync DEF CheckpointSync, Sync
  <2>2. JournalOK(jmem)' /\ JournalOK(jdsk)'
    BY <1>0, <1>11 DEF CheckpointSync, journalVars, JournalOK
  <2>3. SnapOK'
    BY <1>0, <1>11 DEF CheckpointSync, txnVars, SnapOK
  <2>4. StepTypes'
    BY <1>0, <1>11 DEF CheckpointSync, TypeOK, StepTypes, Images, Early, InBlock, Ending, Ended, Opening, Putting, diskVars, journalVars, txnVars
  <2>5. Images'
    BY <1>0, <1>11 DEF CheckpointSync, TypeOK, StepTypes, Images, Early, InBlock, Ending, Ended, Opening, Putting, diskVars, journalVars, txnVars
  <2>6. TypeOK'
    BY <1>0, <1>11, <2>1 DEF CheckpointSync, TypeOK, Typed, txnVars
  <2> QED
    BY <2>1, <2>2, <2>3, <2>4, <2>5, <2>6 DEF TInv
<1>12. ASSUME NEW s \in Stores, Save(s) PROVE TInv'
  <2>1. Typed(mem)' /\ Typed(dsk)'
    <3>1. Data(s) \in File
      BY <1>0, <1>12, FileNames DEF Save, StepTypes, Putting, Opening
    <3> QED
      BY <1>0, <1>12, <3>1, TypedSync DEF Save, Sync
  <2>2. JournalOK(jmem)' /\ JournalOK(jdsk)'
    BY <1>0, <1>12 DEF Save, journalVars, JournalOK
  <2>3. SnapOK'
    BY <1>0, <1>12 DEF Save, txnVars, SnapOK
  <2>4. StepTypes'
    BY <1>0, <1>12 DEF Save, TypeOK, StepTypes, Images, Early, InBlock, Ending, Ended, Opening, Putting, diskVars, journalVars, txnVars
  <2>5. Images'
    BY <1>0, <1>12 DEF Save, TypeOK, StepTypes, Images, Early, InBlock, Ending, Ended, Opening, Putting, diskVars, journalVars, txnVars
  <2>6. TypeOK'
    BY <1>0, <1>12, <2>1 DEF Save, TypeOK, Typed, txnVars
  <2> QED
    BY <2>1, <2>2, <2>3, <2>4, <2>5, <2>6 DEF TInv
<1>13. ASSUME NEW s \in Stores, NEW k \in Rows, NEW v \in Values, Mutate(s, k, v) PROVE TInv'
  <2>1. Typed(mem)' /\ Typed(dsk)'
    BY <1>0, <1>13 DEF Mutate, diskVars, Typed
  <2>2. JournalOK(jmem)' /\ JournalOK(jdsk)'
    BY <1>0, <1>13 DEF Mutate, journalVars, JournalOK
  <2>3. SnapOK'
    BY <1>0, <1>13 DEF Mutate, txnVars, SnapOK
  <2>4. StepTypes'
    BY <1>0, <1>13 DEF Mutate, TypeOK, StepTypes, Images, Early, InBlock, Ending, Ended, Opening, Putting, diskVars, journalVars, txnVars
  <2>5. Images'
    BY <1>0, <1>13 DEF Mutate, TypeOK, StepTypes, Images, Early, InBlock, Ending, Ended, Opening, Putting, diskVars, journalVars, txnVars
  <2>6. TypeOK'
    BY <1>0, <1>13, <2>1 DEF Mutate, TypeOK, Typed, txnVars
  <2> QED
    BY <2>1, <2>2, <2>3, <2>4, <2>5, <2>6 DEF TInv
<1>14. CASE TrackData
  <2>1. Typed(mem)' /\ Typed(dsk)'
    BY <1>0, <1>14 DEF TrackData, diskVars, Typed
  <2>2. JournalOK(jmem)' /\ JournalOK(jdsk)'
    <3>1. Data(cur.store) \in File
      BY <1>0, <1>14, FileNames DEF TrackData, StepTypes, Putting
    <3> QED
      BY <1>0, <1>14, <3>1, JournaledImage DEF TrackData
  <2>3. SnapOK'
    <3>1. Data(cur.store) \in File
      BY <1>0, <1>14, FileNames DEF TrackData, StepTypes, Putting
    <3> QED
      BY <1>0, <1>14, <3>1, JournaledImage DEF TrackData
  <2>4. StepTypes'
    <3>1. Data(cur.store) \in File /\ cur' = cur
      BY <1>0, <1>14, FileNames DEF TrackData, StepTypes, Putting
    <3>2. DOMAIN snap' = DOMAIN snap \cup {Data(cur.store)}
      BY <1>0, <1>14, <3>1, JournaledImage DEF TrackData
    <3> QED
      BY <1>0, <1>14, <3>1, <3>2 DEF TrackData, StepTypes, Early, InBlock, Ending, Ended, Opening, Putting
  <2>5. Images'
    <3>1. Data(cur.store) \in File /\ Journaled(Data(cur.store))
      BY <1>0, <1>14, FileNames DEF TrackData, StepTypes, Putting
    <3>2. pc' \notin Early /\ DOMAIN snap' = DOMAIN snap \cup {Data(cur.store)}
      BY <1>0, <1>14, <3>1, JournaledImage DEF TrackData, Early
    <3>3. jmem' # None /\ jdsk' = jmem' /\ jmem' \in Seq(Image)
      BY <1>0, <3>1, JournaledImage
    <3>4. ASSUME NEW f \in DOMAIN snap'
          PROVE  \E i \in DOMAIN jdsk' : jdsk'[i].file = f /\ jdsk'[i].img = snap'[f]
      <4>1. CASE f = Data(cur.store)
        <5>1. Len(jmem') \in DOMAIN jmem' /\ jmem'[Len(jmem')] = [file |-> f, img |-> snap'[f]]
          BY <1>0, <3>1, <3>3, <4>1, JournaledImage
        <5> QED
          BY <3>3, <5>1
      <4>2. CASE f # Data(cur.store)
        <5>1. f \in DOMAIN snap /\ snap'[f] = snap[f]
          BY <1>0, <3>1, <3>2, <4>2, JournaledImage
        <5>2. jmem # None /\ jmem \in Seq(Image) /\ jdsk = jmem
          BY <1>0, <1>14, <5>1 DEF Images, JournalOK, TrackData, Ended
        <5>3. PICK i \in DOMAIN jmem : jmem[i].file = f /\ jmem[i].img = snap[f]
          BY <1>0, <1>14, <5>1, <5>2 DEF Images, TrackData, Ended
        <5>4. Len(jmem') = Len(jmem) + 1 /\ jmem'[i] = jmem[i]
          BY <1>0, <3>1, <5>2, JournaledImage
        <5>5. i \in DOMAIN jmem'
          BY <3>3, <5>2, <5>4
        <5> QED
          BY <3>3, <5>1, <5>3, <5>4, <5>5
      <4> QED
        BY <4>1, <4>2
    <3> QED
      BY <3>2, <3>3, <3>4 DEF Images
  <2>6. TypeOK'
    BY <1>0, <1>14, <2>1 DEF TrackData, TypeOK, Typed, txnVars
  <2> QED
    BY <2>1, <2>2, <2>3, <2>4, <2>5, <2>6 DEF TInv
<1>15. CASE TrackWal
  <2>1. Typed(mem)' /\ Typed(dsk)'
    BY <1>0, <1>15 DEF TrackWal, diskVars, Typed
  <2>2. JournalOK(jmem)' /\ JournalOK(jdsk)'
    <3>1. Wal(cur.store) \in File
      BY <1>0, <1>15, FileNames DEF TrackWal, StepTypes, Putting
    <3> QED
      BY <1>0, <1>15, <3>1, JournaledImage DEF TrackWal
  <2>3. SnapOK'
    <3>1. Wal(cur.store) \in File
      BY <1>0, <1>15, FileNames DEF TrackWal, StepTypes, Putting
    <3> QED
      BY <1>0, <1>15, <3>1, JournaledImage DEF TrackWal
  <2>4. StepTypes'
    <3>1. Wal(cur.store) \in File /\ cur' = cur
      BY <1>0, <1>15, FileNames DEF TrackWal, StepTypes, Putting
    <3>2. DOMAIN snap' = DOMAIN snap \cup {Wal(cur.store)}
      BY <1>0, <1>15, <3>1, JournaledImage DEF TrackWal
    <3> QED
      BY <1>0, <1>15, <3>1, <3>2 DEF TrackWal, StepTypes, Early, InBlock, Ending, Ended, Opening, Putting
  <2>5. Images'
    <3>1. Wal(cur.store) \in File /\ Journaled(Wal(cur.store))
      BY <1>0, <1>15, FileNames DEF TrackWal, StepTypes, Putting
    <3>2. pc' \notin Early /\ DOMAIN snap' = DOMAIN snap \cup {Wal(cur.store)}
      BY <1>0, <1>15, <3>1, JournaledImage DEF TrackWal, Early
    <3>3. jmem' # None /\ jdsk' = jmem' /\ jmem' \in Seq(Image)
      BY <1>0, <3>1, JournaledImage
    <3>4. ASSUME NEW f \in DOMAIN snap'
          PROVE  \E i \in DOMAIN jdsk' : jdsk'[i].file = f /\ jdsk'[i].img = snap'[f]
      <4>1. CASE f = Wal(cur.store)
        <5>1. Len(jmem') \in DOMAIN jmem' /\ jmem'[Len(jmem')] = [file |-> f, img |-> snap'[f]]
          BY <1>0, <3>1, <3>3, <4>1, JournaledImage
        <5> QED
          BY <3>3, <5>1
      <4>2. CASE f # Wal(cur.store)
        <5>1. f \in DOMAIN snap /\ snap'[f] = snap[f]
          BY <1>0, <3>1, <3>2, <4>2, JournaledImage
        <5>2. jmem # None /\ jmem \in Seq(Image) /\ jdsk = jmem
          BY <1>0, <1>15, <5>1 DEF Images, JournalOK, TrackWal, Ended
        <5>3. PICK i \in DOMAIN jmem : jmem[i].file = f /\ jmem[i].img = snap[f]
          BY <1>0, <1>15, <5>1, <5>2 DEF Images, TrackWal, Ended
        <5>4. Len(jmem') = Len(jmem) + 1 /\ jmem'[i] = jmem[i]
          BY <1>0, <3>1, <5>2, JournaledImage
        <5>5. i \in DOMAIN jmem'
          BY <3>3, <5>2, <5>4
        <5> QED
          BY <3>3, <5>1, <5>3, <5>4, <5>5
      <4> QED
        BY <4>1, <4>2
    <3> QED
      BY <3>2, <3>3, <3>4 DEF Images
  <2>6. TypeOK'
    BY <1>0, <1>15, <2>1 DEF TrackWal, TypeOK, Typed, txnVars
  <2> QED
    BY <2>1, <2>2, <2>3, <2>4, <2>5, <2>6 DEF TInv
<1>16. CASE LogBegin
  <2>1. Typed(mem)' /\ Typed(dsk)'
    <3>1. cur.store \in Stores /\ Append(mem[Wal(cur.store)], BeginFrame(mem[Data(cur.store)])) \in Seq(Frame)
      BY <1>0, <1>16, NewFrames DEF LogBegin, StepTypes, Putting, Opening, Typed
    <3> QED
      BY <1>0, <1>16, <3>1, TypedWrite DEF LogBegin, Write
  <2>2. JournalOK(jmem)' /\ JournalOK(jdsk)'
    BY <1>0, <1>16 DEF LogBegin, journalVars, JournalOK
  <2>3. SnapOK'
    BY <1>0, <1>16 DEF LogBegin, txnVars, SnapOK
  <2>4. StepTypes'
    BY <1>0, <1>16 DEF LogBegin, TypeOK, StepTypes, Images, Early, InBlock, Ending, Ended, Opening, Putting, diskVars, journalVars, txnVars
  <2>5. Images'
    BY <1>0, <1>16 DEF LogBegin, TypeOK, StepTypes, Images, Early, InBlock, Ending, Ended, Opening, Putting, diskVars, journalVars, txnVars
  <2>6. TypeOK'
    BY <1>0, <1>16, <2>1 DEF LogBegin, TypeOK, Typed, txnVars
  <2> QED
    BY <2>1, <2>2, <2>3, <2>4, <2>5, <2>6 DEF TInv
<1>17. CASE SyncBegin
  <2>1. Typed(mem)' /\ Typed(dsk)'
    <3>1. Wal(cur.store) \in File
      BY <1>0, <1>17, FileNames DEF SyncBegin, StepTypes, Putting, Opening
    <3> QED
      BY <1>0, <1>17, <3>1, TypedSync DEF SyncBegin, Sync
  <2>2. JournalOK(jmem)' /\ JournalOK(jdsk)'
    BY <1>0, <1>17 DEF SyncBegin, journalVars, JournalOK
  <2>3. SnapOK'
    BY <1>0, <1>17 DEF SyncBegin, txnVars, SnapOK
  <2>4. StepTypes'
    <3>1. Data(cur.store) \in File /\ Data(cur.store) \in DOMAIN snap
      BY <1>0, <1>17, FileNames DEF SyncBegin, StepTypes, Putting
    <3>2. /\ files' \in Seq(File) /\ \A i \in DOMAIN files' : files'[i] \in DOMAIN snap
          /\ snap' = snap /\ cur' = cur /\ pc' = "log"
      <4>1. files \in Seq(File) /\ \A i \in DOMAIN files : files[i] \in DOMAIN snap
        BY <1>0 DEF StepTypes
      <4>2. files' = <<Data(cur.store)>> \o files /\ snap' = snap /\ cur' = cur /\ pc' = "log"
        BY <1>17 DEF SyncBegin
      <4> QED
        BY <3>1, <4>1, <4>2
    <3> QED
      BY <1>0, <1>17, <3>2 DEF SyncBegin, StepTypes, Early, InBlock, Ending, Ended, Opening, Putting
  <2>5. Images'
    BY <1>0, <1>17 DEF SyncBegin, TypeOK, StepTypes, Images, Early, InBlock, Ending, Ended, Opening, Putting, diskVars, journalVars, txnVars
  <2>6. TypeOK'
    BY <1>0, <1>17, <2>1 DEF SyncBegin, TypeOK, Typed, txnVars
  <2> QED
    BY <2>1, <2>2, <2>3, <2>4, <2>5, <2>6 DEF TInv
<1>18. CASE LogRow
  <2>1. Typed(mem)' /\ Typed(dsk)'
    <3>1. cur.store \in Stores /\ Append(mem[Wal(cur.store)], PutFrame(cur.row, cur.val)) \in Seq(Frame)
      BY <1>0, <1>18, NewFrames DEF LogRow, StepTypes, Putting, Opening, Typed
    <3> QED
      BY <1>0, <1>18, <3>1, TypedWrite DEF LogRow, Write
  <2>2. JournalOK(jmem)' /\ JournalOK(jdsk)'
    BY <1>0, <1>18 DEF LogRow, journalVars, JournalOK
  <2>3. SnapOK'
    BY <1>0, <1>18 DEF LogRow, txnVars, SnapOK
  <2>4. StepTypes'
    BY <1>0, <1>18 DEF LogRow, TypeOK, StepTypes, Images, Early, InBlock, Ending, Ended, Opening, Putting, diskVars, journalVars, txnVars
  <2>5. Images'
    BY <1>0, <1>18 DEF LogRow, TypeOK, StepTypes, Images, Early, InBlock, Ending, Ended, Opening, Putting, diskVars, journalVars, txnVars
  <2>6. TypeOK'
    BY <1>0, <1>18, <2>1 DEF LogRow, TypeOK, Typed, txnVars
  <2> QED
    BY <2>1, <2>2, <2>3, <2>4, <2>5, <2>6 DEF TInv
<1>19. CASE ForceRow
  <2>1. Typed(mem)' /\ Typed(dsk)'
    <3>1. Wal(cur.store) \in File
      BY <1>0, <1>19, FileNames DEF ForceRow, StepTypes, Putting, Opening
    <3>2. mem' = mem /\ (dsk' = dsk \/ dsk' = [dsk EXCEPT ![Wal(cur.store)] = mem[Wal(cur.store)]])
      BY <1>19 DEF ForceRow, Sync
    <3>3. Typed([dsk EXCEPT ![Wal(cur.store)] = mem[Wal(cur.store)]])
      BY <1>0, <3>1, TypedSync
    <3> QED
      BY <1>0, <3>2, <3>3
  <2>2. JournalOK(jmem)' /\ JournalOK(jdsk)'
    BY <1>0, <1>19 DEF ForceRow, journalVars, JournalOK
  <2>3. SnapOK'
    BY <1>0, <1>19 DEF ForceRow, txnVars, SnapOK
  <2>4. StepTypes'
    BY <1>0, <1>19 DEF ForceRow, TypeOK, StepTypes, Images, Early, InBlock, Ending, Ended, Opening, Putting, diskVars, journalVars, txnVars
  <2>5. Images'
    BY <1>0, <1>19 DEF ForceRow, TypeOK, StepTypes, Images, Early, InBlock, Ending, Ended, Opening, Putting, diskVars, journalVars, txnVars
  <2>6. TypeOK'
    BY <1>0, <1>19, <2>1 DEF ForceRow, TypeOK, Typed, txnVars
  <2> QED
    BY <2>1, <2>2, <2>3, <2>4, <2>5, <2>6 DEF TInv
<1>20. CASE Apply
  <2>1. Typed(mem)' /\ Typed(dsk)'
    <3>1. cur.store \in Stores /\ [mem[Data(cur.store)] EXCEPT ![cur.row] = cur.val] \in Contents
      BY <1>0, <1>20 DEF Apply, StepTypes, Putting, Opening, Typed, Contents
    <3> QED
      BY <1>0, <1>20, <3>1, TypedWrite DEF Apply, Write
  <2>2. JournalOK(jmem)' /\ JournalOK(jdsk)'
    BY <1>0, <1>20 DEF Apply, journalVars, JournalOK
  <2>3. SnapOK'
    BY <1>0, <1>20 DEF Apply, txnVars, SnapOK
  <2>4. StepTypes'
    BY <1>0, <1>20 DEF Apply, TypeOK, StepTypes, Images, Early, InBlock, Ending, Ended, Opening, Putting, diskVars, journalVars, txnVars
  <2>5. Images'
    BY <1>0, <1>20 DEF Apply, TypeOK, StepTypes, Images, Early, InBlock, Ending, Ended, Opening, Putting, diskVars, journalVars, txnVars
  <2>6. TypeOK'
    BY <1>0, <1>20, <2>1 DEF Apply, TypeOK, Typed, txnVars
  <2> QED
    BY <2>1, <2>2, <2>3, <2>4, <2>5, <2>6 DEF TInv
<1>21. CASE TxnBegin
  <2>1. Typed(mem)' /\ Typed(dsk)'
    BY <1>0, <1>21 DEF TxnBegin, diskVars, Typed
  <2>2. JournalOK(jmem)' /\ JournalOK(jdsk)'
    BY <1>0, <1>21 DEF TxnBegin, journalVars, JournalOK
  <2>3. SnapOK'
    BY <1>0, <1>21 DEF TxnBegin, txnVars, SnapOK
  <2>4. StepTypes'
    BY <1>0, <1>21 DEF TxnBegin, TypeOK, StepTypes, Images, Early, InBlock, Ending, Ended, Opening, Putting, diskVars, journalVars, txnVars
  <2>5. Images'
    BY <1>0, <1>21 DEF TxnBegin, TypeOK, StepTypes, Images, Early, InBlock, Ending, Ended, Opening, Putting, diskVars, journalVars, txnVars
  <2>6. TypeOK'
    BY <1>0, <1>21, <2>1 DEF TxnBegin, TypeOK, Typed, txnVars
  <2> QED
    BY <2>1, <2>2, <2>3, <2>4, <2>5, <2>6 DEF TInv
<1>22. CASE TxnCommit
  <2>1. Typed(mem)' /\ Typed(dsk)'
    BY <1>0, <1>22 DEF TxnCommit, diskVars, Typed
  <2>2. JournalOK(jmem)' /\ JournalOK(jdsk)'
    BY <1>0, <1>22 DEF TxnCommit, journalVars, JournalOK
  <2>3. SnapOK'
    BY <1>0, <1>22 DEF TxnCommit, txnVars, SnapOK
  <2>4. StepTypes'
    BY <1>0, <1>22 DEF TxnCommit, TypeOK, StepTypes, Images, Early, InBlock, Ending, Ended, Opening, Putting, diskVars, journalVars, txnVars
  <2>5. Images'
    BY <1>0, <1>22 DEF TxnCommit, TypeOK, StepTypes, Images, Early, InBlock, Ending, Ended, Opening, Putting, diskVars, journalVars, txnVars
  <2>6. TypeOK'
    BY <1>0, <1>22, <2>1 DEF TxnCommit, TypeOK, Typed, txnVars
  <2> QED
    BY <2>1, <2>2, <2>3, <2>4, <2>5, <2>6 DEF TInv
<1>23. CASE CommitSync
  <2>1. Typed(mem)' /\ Typed(dsk)'
    <3>1. Head(todo) \in File
      BY <1>0, <1>23, FileNames DEF CommitSync, StepTypes, Ending
    <3> QED
      BY <1>0, <1>23, <3>1, TypedSync DEF CommitSync, Sync
  <2>2. JournalOK(jmem)' /\ JournalOK(jdsk)'
    BY <1>0, <1>23 DEF CommitSync, journalVars, JournalOK
  <2>3. SnapOK'
    BY <1>0, <1>23 DEF CommitSync, txnVars, SnapOK
  <2>4. StepTypes'
    BY <1>0, <1>23 DEF CommitSync, TypeOK, StepTypes, Images, Early, InBlock, Ending, Ended, Opening, Putting, diskVars, journalVars, txnVars
  <2>5. Images'
    BY <1>0, <1>23 DEF CommitSync, TypeOK, StepTypes, Images, Early, InBlock, Ending, Ended, Opening, Putting, diskVars, journalVars, txnVars
  <2>6. TypeOK'
    BY <1>0, <1>23, <2>1 DEF CommitSync, TypeOK, Typed, txnVars
  <2> QED
    BY <2>1, <2>2, <2>3, <2>4, <2>5, <2>6 DEF TInv
<1>24. CASE CommitSynced
  <2>1. Typed(mem)' /\ Typed(dsk)'
    BY <1>0, <1>24 DEF CommitSynced, diskVars, Typed
  <2>2. JournalOK(jmem)' /\ JournalOK(jdsk)'
    BY <1>0, <1>24 DEF CommitSynced, journalVars, JournalOK
  <2>3. SnapOK'
    BY <1>0, <1>24 DEF CommitSynced, txnVars, SnapOK
  <2>4. StepTypes'
    BY <1>0, <1>24 DEF CommitSynced, TypeOK, StepTypes, Images, Early, InBlock, Ending, Ended, Opening, Putting, diskVars, journalVars, txnVars
  <2>5. Images'
    BY <1>0, <1>24 DEF CommitSynced, TypeOK, StepTypes, Images, Early, InBlock, Ending, Ended, Opening, Putting, diskVars, journalVars, txnVars
  <2>6. TypeOK'
    BY <1>0, <1>24, <2>1 DEF CommitSynced, TypeOK, Typed, txnVars
  <2> QED
    BY <2>1, <2>2, <2>3, <2>4, <2>5, <2>6 DEF TInv
<1>25. CASE CommitFrameSkip
  <2>1. Typed(mem)' /\ Typed(dsk)'
    BY <1>0, <1>25 DEF CommitFrameSkip, diskVars, Typed
  <2>2. JournalOK(jmem)' /\ JournalOK(jdsk)'
    BY <1>0, <1>25 DEF CommitFrameSkip, journalVars, JournalOK
  <2>3. SnapOK'
    BY <1>0, <1>25 DEF CommitFrameSkip, txnVars, SnapOK
  <2>4. StepTypes'
    BY <1>0, <1>25 DEF CommitFrameSkip, TypeOK, StepTypes, Images, Early, InBlock, Ending, Ended, Opening, Putting, diskVars, journalVars, txnVars
  <2>5. Images'
    BY <1>0, <1>25 DEF CommitFrameSkip, TypeOK, StepTypes, Images, Early, InBlock, Ending, Ended, Opening, Putting, diskVars, journalVars, txnVars
  <2>6. TypeOK'
    BY <1>0, <1>25, <2>1 DEF CommitFrameSkip, TypeOK, Typed, txnVars
  <2> QED
    BY <2>1, <2>2, <2>3, <2>4, <2>5, <2>6 DEF TInv
<1>26. CASE CommitFrameWrite
  <2>1. Typed(mem)' /\ Typed(dsk)'
    <3>1. Head(todo) \in File /\ IsWal(Head(todo))
      BY <1>0, <1>26 DEF CommitFrameWrite, StepTypes, Ending
    <3>2. PICK s \in Stores : Head(todo) = Wal(s)
      BY <3>1, FileNames
    <3>3. Append(mem[Wal(s)], CommitFrame) \in Seq(Frame)
      BY <1>0, NewFrames DEF Typed
    <3> QED
      BY <1>0, <1>26, <3>2, <3>3, TypedWrite DEF CommitFrameWrite, Write
  <2>2. JournalOK(jmem)' /\ JournalOK(jdsk)'
    BY <1>0, <1>26 DEF CommitFrameWrite, journalVars, JournalOK
  <2>3. SnapOK'
    BY <1>0, <1>26 DEF CommitFrameWrite, txnVars, SnapOK
  <2>4. StepTypes'
    BY <1>0, <1>26 DEF CommitFrameWrite, TypeOK, StepTypes, Images, Early, InBlock, Ending, Ended, Opening, Putting, diskVars, journalVars, txnVars
  <2>5. Images'
    BY <1>0, <1>26 DEF CommitFrameWrite, TypeOK, StepTypes, Images, Early, InBlock, Ending, Ended, Opening, Putting, diskVars, journalVars, txnVars
  <2>6. TypeOK'
    BY <1>0, <1>26, <2>1 DEF CommitFrameWrite, TypeOK, Typed, txnVars
  <2> QED
    BY <2>1, <2>2, <2>3, <2>4, <2>5, <2>6 DEF TInv
<1>27. CASE CommitFrameSync
  <2>1. Typed(mem)' /\ Typed(dsk)'
    <3>1. Head(todo) \in File
      BY <1>0, <1>27, FileNames DEF CommitFrameSync, StepTypes, Ending
    <3> QED
      BY <1>0, <1>27, <3>1, TypedSync DEF CommitFrameSync, Sync
  <2>2. JournalOK(jmem)' /\ JournalOK(jdsk)'
    BY <1>0, <1>27 DEF CommitFrameSync, journalVars, JournalOK
  <2>3. SnapOK'
    BY <1>0, <1>27 DEF CommitFrameSync, txnVars, SnapOK
  <2>4. StepTypes'
    BY <1>0, <1>27 DEF CommitFrameSync, TypeOK, StepTypes, Images, Early, InBlock, Ending, Ended, Opening, Putting, diskVars, journalVars, txnVars
  <2>5. Images'
    BY <1>0, <1>27 DEF CommitFrameSync, TypeOK, StepTypes, Images, Early, InBlock, Ending, Ended, Opening, Putting, diskVars, journalVars, txnVars
  <2>6. TypeOK'
    BY <1>0, <1>27, <2>1 DEF CommitFrameSync, TypeOK, Typed, txnVars
  <2> QED
    BY <2>1, <2>2, <2>3, <2>4, <2>5, <2>6 DEF TInv
<1>28. CASE CommitUnlink
  <2>1. Typed(mem)' /\ Typed(dsk)'
    BY <1>0, <1>28 DEF CommitUnlink, diskVars, Typed
  <2>2. JournalOK(jmem)' /\ JournalOK(jdsk)'
    BY <1>0, <1>28 DEF CommitUnlink, journalVars, JournalOK
  <2>3. SnapOK'
    BY <1>0, <1>28 DEF CommitUnlink, txnVars, SnapOK
  <2>4. StepTypes'
    BY <1>0, <1>28 DEF CommitUnlink, TypeOK, StepTypes, Images, Early, InBlock, Ending, Ended, Opening, Putting, diskVars, journalVars, txnVars
  <2>5. Images'
    BY <1>0, <1>28 DEF CommitUnlink, TypeOK, StepTypes, Images, Early, InBlock, Ending, Ended, Opening, Putting, diskVars, journalVars, txnVars
  <2>6. TypeOK'
    BY <1>0, <1>28, <2>1 DEF CommitUnlink, TypeOK, Typed, txnVars
  <2> QED
    BY <2>1, <2>2, <2>3, <2>4, <2>5, <2>6 DEF TInv
<1>29. CASE CommitDone
  <2>1. Typed(mem)' /\ Typed(dsk)'
    BY <1>0, <1>29 DEF CommitDone, diskVars, Typed
  <2>2. JournalOK(jmem)' /\ JournalOK(jdsk)'
    BY <1>0, <1>29 DEF CommitDone, Release, JournalOK
  <2>3. SnapOK'
    BY <1>0, <1>29 DEF CommitDone, Release, SnapOK
  <2>4. StepTypes'
    BY <1>0, <1>29 DEF CommitDone, TypeOK, StepTypes, Images, Early, InBlock, Ending, Ended, Opening, Putting, diskVars, journalVars, txnVars, Release
  <2>5. Images'
    BY <1>0, <1>29 DEF CommitDone, TypeOK, StepTypes, Images, Early, InBlock, Ending, Ended, Opening, Putting, diskVars, journalVars, txnVars, Release
  <2>6. TypeOK'
    BY <1>0, <1>29, <2>1 DEF CommitDone, TypeOK, Typed, txnVars, Release
  <2> QED
    BY <2>1, <2>2, <2>3, <2>4, <2>5, <2>6 DEF TInv
<1>30. CASE TxnRollback
  <2>1. Typed(mem)' /\ Typed(dsk)'
    BY <1>0, <1>30 DEF TxnRollback, diskVars, Typed
  <2>2. JournalOK(jmem)' /\ JournalOK(jdsk)'
    BY <1>0, <1>30 DEF TxnRollback, journalVars, JournalOK
  <2>3. SnapOK'
    BY <1>0, <1>30 DEF TxnRollback, txnVars, SnapOK
  <2>4. StepTypes'
    BY <1>0, <1>30 DEF TxnRollback, TypeOK, StepTypes, Images, Early, InBlock, Ending, Ended, Opening, Putting, diskVars, journalVars, txnVars
  <2>5. Images'
    BY <1>0, <1>30 DEF TxnRollback, TypeOK, StepTypes, Images, Early, InBlock, Ending, Ended, Opening, Putting, diskVars, journalVars, txnVars
  <2>6. TypeOK'
    BY <1>0, <1>30, <2>1 DEF TxnRollback, TypeOK, Typed, txnVars
  <2> QED
    BY <2>1, <2>2, <2>3, <2>4, <2>5, <2>6 DEF TInv
<1>31. CASE Undo
  <2>1. Typed(mem)' /\ Typed(dsk)'
    <3>1. Head(todo) \in File /\ Head(todo) \in DOMAIN snap
      BY <1>0, <1>31 DEF Undo, StepTypes, Ending
    <3> QED
      BY <1>0, <1>31, <3>1, TypedImage DEF Undo, Write, SnapOK
  <2>2. JournalOK(jmem)' /\ JournalOK(jdsk)'
    BY <1>0, <1>31 DEF Undo, journalVars, JournalOK
  <2>3. SnapOK'
    BY <1>0, <1>31 DEF Undo, txnVars, SnapOK
  <2>4. StepTypes'
    BY <1>0, <1>31 DEF Undo, TypeOK, StepTypes, Images, Early, InBlock, Ending, Ended, Opening, Putting, diskVars, journalVars, txnVars
  <2>5. Images'
    BY <1>0, <1>31 DEF Undo, TypeOK, StepTypes, Images, Early, InBlock, Ending, Ended, Opening, Putting, diskVars, journalVars, txnVars
  <2>6. TypeOK'
    BY <1>0, <1>31, <2>1 DEF Undo, TypeOK, Typed, txnVars
  <2> QED
    BY <2>1, <2>2, <2>3, <2>4, <2>5, <2>6 DEF TInv
<1>32. CASE UndoSync
  <2>1. Typed(mem)' /\ Typed(dsk)'
    <3>1. Head(todo) \in File
      BY <1>0, <1>32, FileNames DEF UndoSync, StepTypes, Ending
    <3> QED
      BY <1>0, <1>32, <3>1, TypedSync DEF UndoSync, Sync
  <2>2. JournalOK(jmem)' /\ JournalOK(jdsk)'
    BY <1>0, <1>32 DEF UndoSync, journalVars, JournalOK
  <2>3. SnapOK'
    BY <1>0, <1>32 DEF UndoSync, txnVars, SnapOK
  <2>4. StepTypes'
    BY <1>0, <1>32 DEF UndoSync, TypeOK, StepTypes, Images, Early, InBlock, Ending, Ended, Opening, Putting, diskVars, journalVars, txnVars
  <2>5. Images'
    BY <1>0, <1>32 DEF UndoSync, TypeOK, StepTypes, Images, Early, InBlock, Ending, Ended, Opening, Putting, diskVars, journalVars, txnVars
  <2>6. TypeOK'
    BY <1>0, <1>32, <2>1 DEF UndoSync, TypeOK, Typed, txnVars
  <2> QED
    BY <2>1, <2>2, <2>3, <2>4, <2>5, <2>6 DEF TInv
<1>33. CASE UndoUnlink
  <2>1. Typed(mem)' /\ Typed(dsk)'
    BY <1>0, <1>33 DEF UndoUnlink, diskVars, Typed
  <2>2. JournalOK(jmem)' /\ JournalOK(jdsk)'
    BY <1>0, <1>33 DEF UndoUnlink, journalVars, JournalOK
  <2>3. SnapOK'
    BY <1>0, <1>33 DEF UndoUnlink, txnVars, SnapOK
  <2>4. StepTypes'
    BY <1>0, <1>33 DEF UndoUnlink, TypeOK, StepTypes, Images, Early, InBlock, Ending, Ended, Opening, Putting, diskVars, journalVars, txnVars
  <2>5. Images'
    BY <1>0, <1>33 DEF UndoUnlink, TypeOK, StepTypes, Images, Early, InBlock, Ending, Ended, Opening, Putting, diskVars, journalVars, txnVars
  <2>6. TypeOK'
    BY <1>0, <1>33, <2>1 DEF UndoUnlink, TypeOK, Typed, txnVars
  <2> QED
    BY <2>1, <2>2, <2>3, <2>4, <2>5, <2>6 DEF TInv
<1>34. CASE UndoDone
  <2>1. Typed(mem)' /\ Typed(dsk)'
    BY <1>0, <1>34 DEF UndoDone, diskVars, Typed
  <2>2. JournalOK(jmem)' /\ JournalOK(jdsk)'
    BY <1>0, <1>34 DEF UndoDone, Release, JournalOK
  <2>3. SnapOK'
    BY <1>0, <1>34 DEF UndoDone, Release, SnapOK
  <2>4. StepTypes'
    BY <1>0, <1>34 DEF UndoDone, TypeOK, StepTypes, Images, Early, InBlock, Ending, Ended, Opening, Putting, diskVars, journalVars, txnVars, Release
  <2>5. Images'
    BY <1>0, <1>34 DEF UndoDone, TypeOK, StepTypes, Images, Early, InBlock, Ending, Ended, Opening, Putting, diskVars, journalVars, txnVars, Release
  <2>6. TypeOK'
    BY <1>0, <1>34, <2>1 DEF UndoDone, TypeOK, Typed, txnVars, Release
  <2> QED
    BY <2>1, <2>2, <2>3, <2>4, <2>5, <2>6 DEF TInv
<1>35. CASE Kill
  <2>1. Typed(mem)' /\ Typed(dsk)'
    BY <1>0, <1>35 DEF Kill, diskVars, Typed
  <2>2. JournalOK(jmem)' /\ JournalOK(jdsk)'
    BY <1>0, <1>35 DEF Kill, journalVars, JournalOK
  <2>3. SnapOK'
    BY <1>0, <1>35 DEF Kill, ProcessGone, SnapOK
  <2>4. StepTypes'
    BY <1>0, <1>35 DEF Kill, TypeOK, StepTypes, Images, Early, InBlock, Ending, Ended, Opening, Putting, diskVars, journalVars, txnVars, ProcessGone
  <2>5. Images'
    BY <1>0, <1>35 DEF Kill, TypeOK, StepTypes, Images, Early, InBlock, Ending, Ended, Opening, Putting, diskVars, journalVars, txnVars, ProcessGone
  <2>6. TypeOK'
    BY <1>0, <1>35, <2>1 DEF Kill, TypeOK, Typed, txnVars, ProcessGone
  <2> QED
    BY <2>1, <2>2, <2>3, <2>4, <2>5, <2>6 DEF TInv
<1>36. CASE PowerFailure
  <2>1. Typed(mem)' /\ Typed(dsk)'
    <3>1. PICK d, w : /\ \A s \in Stores : d[s] \in RowsLeft(s) /\ w[s] \in LogsLeft(s)
                     /\ mem' = [f \in File |-> IF f[1] = "data" THEN d[f[2]] ELSE w[f[2]]]
      BY <1>36 DEF PowerFailure
    <3>2. \A s \in Stores : d[s] \in Contents
      BY <3>1 DEF RowsLeft, Contents
    <3>3. ASSUME NEW s \in Stores PROVE w[s] \in Seq(Frame)
      <4>1. mem[Wal(s)] \in Seq(Frame) /\ dsk[Wal(s)] \in Seq(Frame)
        BY <1>0 DEF Typed
      <4>2. ASSUME NEW n \in Len(dsk[Wal(s)])..Len(mem[Wal(s)])
            PROVE  SubSeq(mem[Wal(s)], 1, n) \in Seq(Frame)
        <5>1. n \in Int /\ \A i \in 1..n : mem[Wal(s)][i] \in Frame
          BY <4>1
        <5> QED
          BY <5>1, SubSeqProperties
      <4>3. w[s] \in LogsLeft(s)
        BY <3>1
      <4> QED
        BY <4>1, <4>2, <4>3 DEF LogsLeft
    <3>4. \A s \in Stores : mem'[Data(s)] = d[s] /\ mem'[Wal(s)] = w[s]
      BY <3>1, FileNames DEF Data, Wal
    <3>5. dsk' = mem' /\ DOMAIN mem' = File
      BY <1>36, <3>1 DEF PowerFailure
    <3> QED
      BY <3>2, <3>3, <3>4, <3>5 DEF Typed
  <2>2. JournalOK(jmem)' /\ JournalOK(jdsk)'
    BY <1>0, <1>36 DEF PowerFailure, JournalOK
  <2>3. SnapOK'
    BY <1>0, <1>36 DEF PowerFailure, ProcessGone, SnapOK
  <2>4. StepTypes'
    BY <1>0, <1>36 DEF PowerFailure, TypeOK, StepTypes, Images, Early, InBlock, Ending, Ended, Opening, Putting, diskVars, journalVars, txnVars, ProcessGone
  <2>5. Images'
    BY <1>0, <1>36 DEF PowerFailure, TypeOK, StepTypes, Images, Early, InBlock, Ending, Ended, Opening, Putting, diskVars, journalVars, txnVars, ProcessGone
  <2>6. TypeOK'
    BY <1>0, <1>36, <2>1 DEF PowerFailure, TypeOK, Typed, txnVars, ProcessGone
  <2> QED
    BY <2>1, <2>2, <2>3, <2>4, <2>5, <2>6 DEF TInv
<1>37. CASE Others
  <2>1. UNCHANGED clientVars
    BY <1>0, <1>37, OtherStep DEF FInv, TypeOK
  <2>2. Typed(mem)' /\ Typed(dsk)'
    <3>1. PICK s \in open :
            \/ mem' = mem /\ dsk' = [dsk EXCEPT ![Data(s)] = mem[Data(s)]]
            \/ mem' = mem /\ dsk' = [dsk EXCEPT ![Wal(s)] = mem[Wal(s)]]
            \/ mem' = [mem EXCEPT ![Wal(s)] = <<>>] /\ dsk' = dsk
      BY <1>0, <1>37, OtherStep DEF FInv, TypeOK
    <3>2. s \in Stores /\ Data(s) \in File /\ Wal(s) \in File /\ <<>> \in Seq(Frame)
      BY <1>0, FileNames DEF TypeOK
    <3>3. /\ Typed([dsk EXCEPT ![Data(s)] = mem[Data(s)]]) /\ Typed([dsk EXCEPT ![Wal(s)] = mem[Wal(s)]])
          /\ Typed([mem EXCEPT ![Wal(s)] = <<>>])
      BY <1>0, <3>2, TypedSync, TypedWrite
    <3> QED
      BY <1>0, <3>1, <3>3
  <2>3. JournalOK(jmem)' /\ JournalOK(jdsk)' /\ SnapOK'
    BY <1>0, <2>1 DEF clientVars, journalVars, txnVars, JournalOK, SnapOK
  <2>4. StepTypes' /\ Images'
    BY <1>0, <2>1 DEF clientVars, journalVars, txnVars, StepTypes, Images, JournalOK
  <2>5. TypeOK'
    BY <1>0, <2>1, <2>2 DEF clientVars, txnVars, TypeOK, Typed
  <2> QED
    BY <2>2, <2>3, <2>4, <2>5 DEF TInv
<1> QED
  BY <1>u, <1>1, <1>2, <1>3, <1>4, <1>5, <1>6, <1>7, <1>8, <1>9, <1>10, <1>11, <1>12, <1>13, <1>14, <1>15, <1>16, <1>17, <1>18, <1>19, <1>20, <1>21, <1>22, <1>23, <1>24, <1>25, <1>26, <1>27, <1>28, <1>29, <1>30, <1>31, <1>32, <1>33, <1>34, <1>35, <1>36, <1>37 DEF Next, Work, Client

\* In every behaviour the stores keep their types.
THEOREM StoreInv == Spec => []FInv
<1>1. Init => FInv
  BY TInit
<1>2. FInv /\ [Next]_vars => FInv'
  BY TStep, SavesStep DEF FInv
<1> QED
  BY <1>1, <1>2, PTL DEF Spec

\* Whatever is lost, undone or replayed, data files hold a value in every row and
\* logs whole frames.
THEOREM StoreTypeOK == Spec => []TypeOK
<1>1. FInv => TypeOK
  BY DEF TInv, FInv
<1> QED
  BY <1>1, StoreInv, PTL

\* Undo before change, at every step, whatever faults occur: the image of every
\* file that a transaction changed is in the durable journal until the journal is
\* retired (jinn_txn_journal_snapshot).
THEOREM StoreUndoIsDurable == Spec => []UndoIsDurable
<1>1. FInv => UndoIsDurable
  <2> SUFFICES ASSUME FInv, NEW f \in DOMAIN snap, pc # "cdir", pc # "udir"
               PROVE  \E i \in DOMAIN jdsk : jdsk[i].file = f /\ jdsk[i].img = snap[f]
    BY DEF UndoIsDurable
  <2> QED
    BY DEF FInv, TInv, Images, Ended
<1> QED
  BY <1>1, StoreInv, PTL

----------------------------------------------------------------------------
(* Replay of closed logs                                                   *)

\* A log that is appended to: its positions, and its puts.
LEMMA Appended ==
  ASSUME NEW w \in Seq(Frame), NEW x \in Frame
  PROVE  /\ Append(w, x) \in Seq(Frame)
         /\ Len(Append(w, x)) = Len(w) + 1 /\ Len(w) \in Nat
         /\ DOMAIN w = 1..Len(w) /\ DOMAIN Append(w, x) = 1..(Len(w) + 1)
         /\ \A i \in DOMAIN w : Append(w, x)[i] = w[i]
         /\ Append(w, x)[Len(w) + 1] = x
OBVIOUS

LEMMA PutsAppended ==
  ASSUME NEW w \in Seq(Frame), NEW x \in Frame, NEW k
  PROVE  Puts(Append(w, x), k) = Puts(w, k) \cup (IF x.op = "put" /\ x.row = k THEN {Len(w) + 1} ELSE {})
BY Appended DEF Puts

\* A put keeps a log closed, a commit frame closes it, the empty log is closed.
LEMMA ClosedAppend ==
  ASSUME NEW w \in Seq(Frame)
  PROVE  /\ \A k \in Rows, v \in Values : Closed(w) => Closed(Append(w, PutFrame(k, v)))
         /\ Closed(Append(w, CommitFrame))
         /\ Closed(<<>>)
<1>1. ASSUME NEW k \in Rows, NEW v \in Values, Closed(w) PROVE Closed(Append(w, PutFrame(k, v)))
  <2> DEFINE x == PutFrame(k, v)
  <2>1. x \in Frame /\ x.op = "put"
    BY NewFrames DEF PutFrame
  <2> HIDE DEF x
  <2>2. SUFFICES ASSUME NEW i \in DOMAIN Append(w, x), Append(w, x)[i].op = "begin"
                 PROVE  \E j \in (i + 1)..Len(Append(w, x)) : Append(w, x)[j].op = "commit"
    BY DEF Closed, x
  <2>3. i \in DOMAIN w /\ w[i].op = "begin"
    BY <2>1, <2>2, Appended
  <2>4. PICK j \in (i + 1)..Len(w) : w[j].op = "commit"
    BY <1>1, <2>3 DEF Closed
  <2>5. j \in DOMAIN w /\ j \in (i + 1)..Len(Append(w, x))
    BY <2>1, <2>3, <2>4, Appended
  <2> QED
    BY <2>1, <2>4, <2>5, Appended
<1>2. Closed(Append(w, CommitFrame))
  <2> DEFINE x == CommitFrame
  <2>1. x \in Frame /\ x.op = "commit"
    BY NewFrames DEF CommitFrame
  <2> HIDE DEF x
  <2>2. SUFFICES ASSUME NEW i \in DOMAIN Append(w, x), Append(w, x)[i].op = "begin"
                 PROVE  \E j \in (i + 1)..Len(Append(w, x)) : Append(w, x)[j].op = "commit"
    BY DEF Closed, x
  <2>3. i \in DOMAIN w
    BY <2>1, <2>2, Appended
  <2>4. Len(w) + 1 \in (i + 1)..Len(Append(w, x)) /\ Append(w, x)[Len(w) + 1].op = "commit"
    BY <2>1, <2>3, Appended
  <2> QED
    BY <2>4
<1>3. Closed(<<>>)
  BY DEF Closed
<1> QED
  BY <1>1, <1>2, <1>3

\* A row has at most one last put.
LEMMA LastPutUnique ==
  ASSUME NEW w \in Seq(Frame), NEW k, NEW i, NEW j, LastPut(w, k, i), LastPut(w, k, j)
  PROVE  i = j
BY DEF LastPut, Puts

\* A file that agrees with its closed log is what the replay yields.
LEMMA AgreesFix ==
  ASSUME NEW w \in Seq(Frame), NEW d \in Contents, Closed(w), Agrees(d, w)
  PROVE  Replay(d, w) = d
<1>1. \A k \in Rows : Replay(d, w)[k] = d[k]
  BY ReplayIs DEF Agrees
<1>2. Replay(d, w) \in Contents
  BY ReplayIs
<1> QED
  BY <1>1, <1>2 DEF Contents

\* What the replay yields agrees with the log.
LEMMA ReplayAgrees ==
  ASSUME NEW w \in Seq(Frame), NEW d \in Contents, Closed(w)
  PROVE  Agrees(Replay(d, w), w)
<1> SUFFICES ASSUME NEW k \in Rows, NEW i \in DOMAIN w, LastPut(w, k, i)
             PROVE  w[i].val = Replay(d, w)[k]
  BY DEF Agrees
<1>1. Puts(w, k) # {}
  BY DEF LastPut
<1>2. PICK j \in DOMAIN w : LastPut(w, k, j) /\ Replay(d, w)[k] = w[j].val
  BY <1>1, ReplayIs
<1> QED
  BY <1>2, LastPutUnique

\* The last put of a log to which a frame was appended.
LEMMA LastAppended ==
  ASSUME NEW w \in Seq(Frame), NEW x \in Frame, NEW k
  PROVE  /\ x.op = "put" /\ x.row = k => LastPut(Append(w, x), k, Len(w) + 1)
         /\ ~(x.op = "put" /\ x.row = k) => \A i : LastPut(Append(w, x), k, i) <=> LastPut(w, k, i)
         /\ \A i : LastPut(w, k, i) => i \in DOMAIN w
<1>1. \A i \in Puts(w, k) : i \in 1..Len(w)
  BY Appended DEF Puts
<1>2. CASE x.op = "put" /\ x.row = k
  BY <1>1, <1>2, Appended, PutsAppended DEF LastPut
<1>3. CASE ~(x.op = "put" /\ x.row = k)
  BY <1>1, <1>3, Appended, PutsAppended DEF LastPut
<1> QED
  BY <1>1, <1>2, <1>3 DEF LastPut, Puts

\* A begin or commit frame changes no row.
LEMMA AgreesFrame ==
  ASSUME NEW w \in Seq(Frame), NEW d, NEW x \in Frame, x.op # "put", Agrees(d, w)
  PROVE  Agrees(d, Append(w, x))
<1> SUFFICES ASSUME NEW k \in Rows, NEW i \in DOMAIN Append(w, x), LastPut(Append(w, x), k, i)
             PROVE  Append(w, x)[i].val = d[k]
  BY DEF Agrees
<1>1. LastPut(w, k, i) /\ i \in DOMAIN w
  BY LastAppended
<1> QED
  BY <1>1, Appended DEF Agrees

\* Logging a row and then writing it keeps file and log in agreement.
LEMMA AgreesPut ==
  ASSUME NEW w \in Seq(Frame), NEW d \in Contents, NEW r \in Rows, NEW v \in Values, Agrees(d, w)
  PROVE  Agrees([d EXCEPT ![r] = v], Append(w, PutFrame(r, v)))
<1> DEFINE x == PutFrame(r, v)
<1>1. x \in Frame /\ x.op = "put" /\ x.row = r /\ x.val = v
  BY NewFrames DEF PutFrame
<1> HIDE DEF x
<1> SUFFICES ASSUME NEW k \in Rows, NEW i \in DOMAIN Append(w, x), LastPut(Append(w, x), k, i)
             PROVE  Append(w, x)[i].val = [d EXCEPT ![r] = v][k]
  BY DEF Agrees, x
<1>2. CASE k = r
  <2>1. LastPut(Append(w, x), k, Len(w) + 1)
    BY <1>1, <1>2, LastAppended
  <2>2. Append(w, x) \in Seq(Frame)
    BY <1>1, Appended
  <2>3. i = Len(w) + 1
    BY <2>1, <2>2, LastPutUnique
  <2> QED
    BY <1>1, <1>2, <2>3, Appended DEF Contents
<1>3. CASE k # r
  <2>1. LastPut(w, k, i) /\ i \in DOMAIN w
    BY <1>1, <1>3, LastAppended
  <2> QED
    BY <1>1, <1>3, <2>1, Appended DEF Agrees, Contents
<1> QED
  BY <1>2, <1>3

\* The replay of a log to which a row was appended is the old one with that row.
LEMMA ReplayPut ==
  ASSUME NEW w \in Seq(Frame), NEW d \in Contents, NEW r \in Rows, NEW v \in Values, Closed(w)
  PROVE  Replay(d, Append(w, PutFrame(r, v))) = [Replay(d, w) EXCEPT ![r] = v]
<1> DEFINE x == PutFrame(r, v)
           u == Append(w, x)
<1>1. x \in Frame /\ x.op = "put" /\ x.row = r /\ x.val = v
  BY NewFrames DEF PutFrame
<1>2. u \in Seq(Frame) /\ Closed(u)
  BY <1>1, Appended, ClosedAppend
<1> HIDE DEF x
<1>3. Replay(d, w) \in Contents /\ Replay(d, u) \in Contents
  BY <1>2, ReplayIs
<1>4. ASSUME NEW k \in Rows PROVE Replay(d, u)[k] = [Replay(d, w) EXCEPT ![r] = v][k]
  <2>1. CASE k = r
    <3>1. LastPut(u, k, Len(w) + 1)
      BY <1>1, <2>1, LastAppended
    <3>2. Puts(u, k) # {}
      BY <3>1 DEF LastPut
    <3>3. PICK i \in DOMAIN u : LastPut(u, k, i) /\ Replay(d, u)[k] = u[i].val
      BY <1>2, <3>2, ReplayIs
    <3>4. i = Len(w) + 1
      BY <1>2, <3>1, <3>3, LastPutUnique
    <3> QED
      BY <1>1, <1>3, <2>1, <3>3, <3>4, Appended DEF Contents
  <2>2. CASE k # r
    <3>1. Puts(u, k) = Puts(w, k)
      <4>1. Puts(Append(w, x), k) = Puts(w, k) \cup (IF x.op = "put" /\ x.row = k THEN {Len(w) + 1} ELSE {})
        BY <1>1, PutsAppended
      <4>2. x.row # k
        BY <1>1, <2>2
      <4> QED
        BY <4>1, <4>2
    <3>2. CASE Puts(w, k) = {}
      <4>1. Replay(d, u)[k] = d[k] /\ Replay(d, w)[k] = d[k]
        BY <1>2, <3>1, <3>2, ReplayIs
      <4> QED
        BY <1>3, <2>2, <4>1 DEF Contents
    <3>3. CASE Puts(w, k) # {}
      <4>1. PICK i \in DOMAIN u : LastPut(u, k, i) /\ Replay(d, u)[k] = u[i].val
        BY <1>2, <3>1, <3>3, ReplayIs
      <4>2. LastPut(w, k, i) /\ i \in DOMAIN w
        BY <1>1, <2>2, <4>1, LastAppended
      <4>3. PICK j \in DOMAIN w : LastPut(w, k, j) /\ Replay(d, w)[k] = w[j].val
        BY <3>3, ReplayIs
      <4>4. i = j
        BY <4>2, <4>3, LastPutUnique
      <4>5. u[i] = w[j]
        BY <1>1, <4>2, <4>4, Appended
      <4> QED
        BY <1>3, <2>2, <4>1, <4>3, <4>5 DEF Contents
    <3> QED
      BY <3>2, <3>3
  <2> QED
    BY <2>1, <2>2
<1>5. [Replay(d, w) EXCEPT ![r] = v] \in Contents
  BY <1>3 DEF Contents
<1>6. Replay(d, u) = [Replay(d, w) EXCEPT ![r] = v]
  BY <1>3, <1>4, <1>5 DEF Contents
<1> QED
  BY <1>6 DEF x

\* Between the log and the write of a row the replay already shows it.
LEMMA ReplayLogged ==
  ASSUME NEW w \in Seq(Frame), NEW d \in Contents, NEW r \in Rows, NEW v \in Values, Closed(w),
         Len(w) > 0, w[Len(w)] = PutFrame(r, v), Agrees([d EXCEPT ![r] = v], w)
  PROVE  Replay(d, w) = [d EXCEPT ![r] = v]
<1>1. Len(w) \in Nat /\ DOMAIN w = 1..Len(w) /\ w[Len(w)].op = "put" /\ w[Len(w)].row = r /\ w[Len(w)].val = v
  BY DEF PutFrame
<1>2. LastPut(w, r, Len(w)) /\ Puts(w, r) # {}
  BY <1>1 DEF LastPut, Puts
<1>3. Replay(d, w) \in Contents /\ [d EXCEPT ![r] = v] \in Contents
  BY ReplayIs DEF Contents
<1>4. ASSUME NEW k \in Rows PROVE Replay(d, w)[k] = [d EXCEPT ![r] = v][k]
  <2>1. CASE k = r
    <3>1. PICK i \in DOMAIN w : LastPut(w, r, i) /\ Replay(d, w)[r] = w[i].val
      BY <1>2, ReplayIs
    <3>2. i = Len(w)
      BY <1>2, <3>1, LastPutUnique
    <3> QED
      BY <1>1, <2>1, <3>1, <3>2 DEF Contents
  <2>2. CASE k # r
    <3>1. [d EXCEPT ![r] = v][k] = d[k]
      BY <2>2 DEF Contents
    <3>2. CASE Puts(w, k) = {}
      BY <3>1, <3>2, ReplayIs
    <3>3. CASE Puts(w, k) # {}
      <4>1. PICK i \in DOMAIN w : LastPut(w, k, i) /\ Replay(d, w)[k] = w[i].val
        BY <3>3, ReplayIs
      <4> QED
        BY <4>1 DEF Agrees
    <3> QED
      BY <3>2, <3>3
  <2> QED
    BY <2>1, <2>2
<1> QED
  BY <1>3, <1>4 DEF Contents

----------------------------------------------------------------------------
(* What a restart would find                                               *)

\* With the journal unchanged, a covered file keeps its image and another one is
\* its cached content.
LEMMA SameJournal ==
  ASSUME jmem' = jmem, NEW f
  PROVE  /\ Held(f)' <=> Held(f)
         /\ Held(f) => Base(f)' = Base(f)
         /\ ~Held(f) => Base(f) = mem[f] /\ Base(f)' = mem'[f]
         /\ mem'[f] = mem[f] => Base(f)' = Base(f)
BY DEF Held, Base

\* Without a journal every file is its cached content.
LEMMA NoneHeld ==
  ASSUME NEW f
  PROVE  /\ jmem = None => ~Held(f) /\ Base(f) = mem[f]
         /\ jmem' = None => ~Held(f)' /\ Base(f)' = mem'[f]
BY DEF Held, Base

\* The image of a covered file, found at its only position.
LEMMA HeldAt ==
  ASSUME jmem # None, \A i, j \in DOMAIN jmem : jmem[i].file = jmem[j].file => i = j,
         NEW i \in DOMAIN jmem
  PROVE  Held(jmem[i].file) /\ Base(jmem[i].file) = jmem[i].img
<1> DEFINE f == jmem[i].file
<1>1. Held(f)
  BY DEF Held
<1>2. (CHOOSE n \in DOMAIN jmem : jmem[n].file = f) = i
  OBVIOUS
<1> QED
  BY <1>1, <1>2 DEF Base

\* A file that is covered has a position in the journal.
LEMMA HeldPosition ==
  ASSUME NEW f, Held(f)
  PROVE  jmem # None /\ \E i \in DOMAIN jmem : jmem[i].file = f
BY DEF Held

\* The stores after a restart are given by the files after a restart.
LEMMA SameView ==
  ASSUME \A s \in Stores : Base(Data(s))' = Base(Data(s)) /\ Base(Wal(s))' = Base(Wal(s))
  PROVE  View' = View
BY DEF View

\* They are a state of the stores.
LEMMA BaseTyped ==
  ASSUME Typed(mem), JournalOK(jmem), NEW s \in Stores
  PROVE  Base(Data(s)) \in Contents /\ Base(Wal(s)) \in Seq(Frame)
<1>1. ASSUME NEW f, Held(f) PROVE \E i \in DOMAIN jmem : jmem[i].file = f /\ Base(f) = jmem[i].img
  BY <1>1 DEF Held, Base
<1>2. mem[Data(s)] \in Contents /\ mem[Wal(s)] \in Seq(Frame)
  BY DEF Typed
<1>3. Base(Data(s)) \in Contents
  <2>1. CASE ~Held(Data(s))
    BY <1>2, <2>1 DEF Base
  <2>2. CASE Held(Data(s))
    BY <1>1, <2>2, HeldPosition DEF JournalOK
  <2> QED
    BY <2>1, <2>2
<1>4. Base(Wal(s)) \in Seq(Frame)
  <2>1. CASE ~Held(Wal(s))
    BY <1>2, <2>1 DEF Base
  <2>2. CASE Held(Wal(s))
    BY <1>1, <2>2, HeldPosition DEF JournalOK
  <2> QED
    BY <2>1, <2>2
<1> QED
  BY <1>3, <1>4

LEMMA ViewTyped ==
  ASSUME Typed(mem), JournalOK(jmem)
  PROVE  View \in [Stores -> Contents]
BY BaseTyped, ReplayIs DEF View

\* The journal gets the image of a file that it does not cover: a restart finds
\* the same files.
LEMMA NewImage ==
  ASSUME Typed(mem), JournalOK(jmem), SnapOK, NEW f \in File, Journaled(f), ~Held(f), mem' = mem,
         jmem # None => \A i, j \in DOMAIN jmem : jmem[i].file = jmem[j].file => i = j
  PROVE  /\ \A i, j \in DOMAIN jmem' : jmem'[i].file = jmem'[j].file => i = j
         /\ \A g \in File : (Held(g)' <=> Held(g) \/ g = f) /\ Base(g)' = Base(g)
<1>1. /\ jmem' \in Seq(Image) /\ jmem' # None
      /\ Len(jmem') \in DOMAIN jmem' /\ jmem'[Len(jmem')] = [file |-> f, img |-> mem[f]]
      /\ jmem = None => Len(jmem') = 1
      /\ jmem # None => Len(jmem') = Len(jmem) + 1 /\ \A i \in DOMAIN jmem : jmem'[i] = jmem[i]
  BY JournaledImage
<1>2. jmem'[Len(jmem')].file = f /\ jmem'[Len(jmem')].img = mem[f]
  BY <1>1
<1>3. \A i \in DOMAIN jmem' : i # Len(jmem') => jmem # None /\ i \in DOMAIN jmem /\ jmem'[i] = jmem[i] /\ jmem[i].file # f
  <2>1. SUFFICES ASSUME NEW i \in DOMAIN jmem', i # Len(jmem')
                 PROVE  jmem # None /\ i \in DOMAIN jmem /\ jmem'[i] = jmem[i] /\ jmem[i].file # f
    OBVIOUS
  <2>2. jmem # None
    BY <1>1, <2>1
  <2>3. jmem \in Seq(Image)
    BY <2>2 DEF JournalOK
  <2>4. i \in DOMAIN jmem /\ jmem'[i] = jmem[i]
    BY <1>1, <2>1, <2>2, <2>3
  <2> QED
    BY <2>2, <2>4 DEF Held
<1>4. \A i, j \in DOMAIN jmem' : jmem'[i].file = jmem'[j].file => i = j
  BY <1>2, <1>3
<1>5. ASSUME NEW g \in File, g = f PROVE (Held(g)' <=> Held(g) \/ g = f) /\ Base(g)' = Base(g)
  <2>1. Held(f)'
    BY <1>1, <1>2 DEF Held
  <2>2. (CHOOSE i \in DOMAIN jmem' : jmem'[i].file = f) = Len(jmem')
    BY <1>1, <1>2, <1>4
  <2>3. Base(f)' = mem[f] /\ Base(f) = mem[f]
    BY <1>2, <2>1, <2>2 DEF Base
  <2> QED
    BY <1>5, <2>1, <2>3
<1>6. ASSUME NEW g \in File, g # f PROVE (Held(g)' <=> Held(g) \/ g = f) /\ Base(g)' = Base(g)
  <2>1. Held(g)' => Held(g)
    BY <1>2, <1>3, <1>6 DEF Held
  <2>2. CASE Held(g)
    <3>1. PICK i \in DOMAIN jmem : jmem[i].file = g
      BY <2>2, HeldPosition
    <3>2. jmem # None /\ jmem \in Seq(Image)
      BY <2>2, HeldPosition DEF JournalOK
    <3>3. i \in DOMAIN jmem' /\ jmem'[i] = jmem[i]
      BY <1>1, <3>1, <3>2
    <3>4. Held(g)'
      BY <1>1, <3>1, <3>3 DEF Held
    <3>5. (CHOOSE n \in DOMAIN jmem' : jmem'[n].file = g) = i
      BY <1>4, <3>1, <3>3
    <3>6. (CHOOSE n \in DOMAIN jmem : jmem[n].file = g) = i
      BY <3>1, <3>2
    <3>7. Base(g)' = jmem'[i].img
      BY <3>4, <3>5 DEF Base
    <3>8. Base(g) = jmem[i].img
      BY <2>2, <3>6 DEF Base
    <3> QED
      BY <2>2, <3>3, <3>4, <3>7, <3>8
  <2>3. CASE ~Held(g)
    BY <1>6, <2>1, <2>3 DEF Base
  <2> QED
    BY <2>2, <2>3
<1> QED
  BY <1>4, <1>5, <1>6

\* The loops over files: visiting the first one.
LEMMA TailCase ==
  ASSUME todo \in Seq(File), todo # <<>>, todo' = Tail(todo), NEW f
  PROVE  InTodo(f) <=> f = Head(todo) \/ InTodo(f)'
<1>1. Len(todo) \in Nat /\ Len(todo) > 0 /\ Len(todo') = Len(todo) - 1 /\ DOMAIN todo = 1..Len(todo)
  OBVIOUS
<1>2. DOMAIN todo' = 1..(Len(todo) - 1) /\ \A i \in DOMAIN todo' : todo'[i] = todo[i + 1]
  BY <1>1
<1>3. Head(todo) = todo[1] /\ 1 \in DOMAIN todo
  BY <1>1
<1>4. InTodo(f)' => InTodo(f)
  BY <1>1, <1>2 DEF InTodo
<1>5. ASSUME InTodo(f), f # Head(todo) PROVE InTodo(f)'
  <2>1. PICK i \in DOMAIN todo : todo[i] = f
    BY <1>5 DEF InTodo
  <2>2. i - 1 \in DOMAIN todo' /\ todo'[i - 1] = f
    BY <1>1, <1>2, <1>3, <1>5, <2>1
  <2> QED
    BY <2>2 DEF InTodo
<1> QED
  BY <1>3, <1>4, <1>5 DEF InTodo

\* Nothing that matters after a restart changes.
LEMMA Quiet ==
  ASSUME mem' = mem, jmem' = jmem
  PROVE  (\A f : (Held(f)' <=> Held(f)) /\ Base(f)' = Base(f)) /\ View' = View
<1>1. \A f : (Held(f)' <=> Held(f)) /\ Base(f)' = Base(f)
  BY SameJournal
<1> QED
  BY <1>1, SameView

LEMMA SameFiles ==
  ASSUME files' = files, NEW f
  PROVE  InFiles(f)' <=> InFiles(f)
BY DEF InFiles

\* A store whose files a restart finds as they are shows what its log replays.
LEMMA RecoveredIs ==
  ASSUME Typed(mem), NEW s \in Stores, Closed(mem[Wal(s)])
  PROVE  Recovered(s) = Replay(mem[Data(s)], mem[Wal(s)])
BY PendingCase DEF Recovered, Typed

\* A file added to the participants.
LEMMA PutFirst ==
  ASSUME NEW h \in File, files \in Seq(File), files' = <<h>> \o files, NEW f
  PROVE  InFiles(f)' <=> InFiles(f) \/ f = h
<1>1. Len(files) \in Nat /\ DOMAIN files' = 1..(Len(files) + 1) /\ DOMAIN files = 1..Len(files)
  OBVIOUS
<1>2. files'[1] = h /\ \A i \in DOMAIN files : files'[i + 1] = files[i]
  OBVIOUS
<1>3. ASSUME InFiles(f)' PROVE InFiles(f) \/ f = h
  <2>1. PICK i \in DOMAIN files' : files'[i] = f
    BY <1>3 DEF InFiles
  <2>2. i = 1 \/ (i - 1 \in DOMAIN files /\ files[i - 1] = f)
    BY <1>1, <1>2, <2>1
  <2> QED
    BY <1>2, <2>1, <2>2 DEF InFiles
<1>4. ASSUME InFiles(f) PROVE InFiles(f)'
  <2>1. PICK i \in DOMAIN files : files[i] = f
    BY <1>4 DEF InFiles
  <2>2. i + 1 \in DOMAIN files' /\ files'[i + 1] = f
    BY <1>1, <1>2, <2>1
  <2> QED
    BY <2>2 DEF InFiles
<1>5. ASSUME f = h PROVE InFiles(f)'
  BY <1>1, <1>2, <1>5 DEF InFiles
<1> QED
  BY <1>3, <1>4, <1>5

\* The outcomes with the current mutation are states of the stores.
LEMMA WithPutTyped ==
  ASSUME cur.store \in Stores, cur.row \in Rows, cur.val \in Values, outcomes \subseteq [Stores -> Contents]
  PROVE  WithPut \subseteq [Stores -> Contents]
<1> SUFFICES ASSUME NEW o \in outcomes
             PROVE  [o EXCEPT ![cur.store][cur.row] = cur.val] \in [Stores -> Contents]
  BY DEF WithPut
<1>1. o \in [Stores -> Contents]
  OBVIOUS
<1>2. [o[cur.store] EXCEPT ![cur.row] = cur.val] \in Contents
  BY <1>1 DEF Contents
<1>3. [o EXCEPT ![cur.store] = [o[cur.store] EXCEPT ![cur.row] = cur.val]] \in [Stores -> Contents]
  BY <1>1, <1>2
<1> QED
  BY <1>3

\* A truncated log is closed, agrees with every data file and replays nothing.
LEMMA EmptyLog ==
  ASSUME NEW d \in Contents
  PROVE  Closed(<<>>) /\ Agrees(d, <<>>) /\ Replay(d, <<>>) = d
<1>1. Closed(<<>>) /\ Agrees(d, <<>>) /\ <<>> \in Seq(Frame)
  BY DEF Closed, Agrees
<1> QED
  BY <1>1, AgreesFix

\* Nothing that the invariant speaks of changes.
LEMMA NothingMoves ==
  ASSUME OInv, TInv', mem' = mem, jmem' = jmem, files' = files, todo' = todo, pc' = pc, cur' = cur,
         open' = open, depth' = depth, snap' = snap, outcomes' = outcomes
  PROVE  OInv'
<1>1. TInv /\ Coverage /\ Phase /\ Restoring /\ Logs /\ Agreement /\ Legal
  BY DEF OInv
<1>2. \A f : (InFiles(f)' <=> InFiles(f)) /\ (InTodo(f)' <=> InTodo(f))
  BY SameFiles DEF InTodo
<1>3. (\A f : (Held(f)' <=> Held(f)) /\ Base(f)' = Base(f)) /\ View' = View
  BY Quiet
<1>4. Coverage'
  BY <1>1, <1>2, <1>3 DEF Coverage
<1>5. Phase'
  BY <1>1, <1>2, <1>3 DEF Phase
<1>6. Restoring'
  BY <1>1, <1>2, <1>3 DEF Restoring
<1>7. Logs'
  BY <1>1, <1>2, <1>3 DEF Logs
<1>8. Agreement'
  BY <1>1, <1>2, <1>3 DEF Agreement
<1>9. Legal'
  BY <1>1, <1>3 DEF Legal
<1> QED
  BY <1>4, <1>5, <1>6, <1>7, <1>8, <1>9 DEF OInv

\* Another task truncates the log of an open store: a restart finds legal states
\* still, because the data file holds the rows already, or the journal their undo
\* image, or the row of the current mutation is not acknowledged yet.
LEMMA TruncateStep ==
  ASSUME SInv, TInv', UNCHANGED clientVars, NEW s \in open,
         NEW t \in Savers, saving[t] # None, saving[t].store = s,
         mem' = [mem EXCEPT ![Wal(s)] = <<>>]
  PROVE  OInv'
<1> USE StoreAssumption, NoJournal
<1>0. TInv /\ Coverage /\ Phase /\ Restoring /\ Logs /\ Agreement /\ Legal /\ SavesApart /\ EitherLegal
  BY DEF OInv, SInv
<1>1. /\ jmem' = jmem /\ files' = files /\ todo' = todo /\ pc' = pc /\ cur' = cur
      /\ open' = open /\ depth' = depth /\ snap' = snap /\ outcomes' = outcomes
  BY DEF clientVars, journalVars, txnVars
<1>2. s \in Stores /\ pc \notin Early /\ pc \in InBlock \cup Ending \cup Ended
      /\ ~(pc \in {"rewrite", "rwsync"} /\ s = cur) /\ DOMAIN mem = File /\ depth \in Nat
  BY <1>0 DEF TInv, TypeOK, Coverage, StepTypes, SavesApart, Typed
<1>3. \A f : (InFiles(f)' <=> InFiles(f)) /\ (InTodo(f)' <=> InTodo(f)) /\ (Held(f)' <=> Held(f))
  BY <1>1, SameFiles DEF InTodo, Held
<1>4. (\A f \in File : f # Wal(s) => mem'[f] = mem[f]) /\ mem'[Wal(s)] = <<>>
  BY <1>2, FileNames
<1>5. /\ \A f \in File : f # Wal(s) \/ Held(f) => Base(f)' = Base(f)
      /\ ~Held(Wal(s)) => Base(Wal(s))' = <<>> /\ Base(Wal(s)) = mem[Wal(s)]
  BY <1>1, <1>4, SameJournal
<1>6. \A r \in Stores : /\ Data(r) \in File /\ Wal(r) \in File /\ Data(r) # Wal(s)
                        /\ (r # s => Wal(r) # Wal(s)) /\ mem[Data(r)] \in Contents
  BY <1>0, <1>2, FileNames DEF TInv, Typed
<1>7. IsWal(Wal(s))
  BY DEF IsWal, Wal
<1>8. \A r \in Stores : /\ Base(Data(r))' = Base(Data(r)) /\ mem'[Data(r)] = mem[Data(r)]
                        /\ (r # s => Base(Wal(r))' = Base(Wal(r)) /\ mem'[Wal(r)] = mem[Wal(r)])
  BY <1>4, <1>5, <1>6
<1>9. Coverage'
  <2>1. \A f \in File : Held(f) => Base(f)' = Base(f)
    BY <1>5
  <2> QED
    BY <1>0, <1>1, <1>3, <2>1 DEF Coverage
<1>10. Phase'
  BY <1>0, <1>1, <1>3, <1>8 DEF Phase
<1>11. Restoring'
  <2>1. pc \notin {"jrestore", "jrsync"}
    BY <1>2 DEF Early
  <2>2. pc = "usync" => Head(todo) \in File
    BY <1>0 DEF TInv, StepTypes, Ending
  <2> QED
    <3>1. \A f \in File : mem'[f] = mem[f] \/ (f = Wal(s) /\ IsWal(f) /\ mem'[f] = <<>>)
      BY <1>4, <1>7
    <3>2. pc \in {"undo", "usync"} =>
            /\ \A f \in File : InFiles(f)' =>
                 InTodo(f)' \/ mem'[f] = snap'[f] \/ (IsWal(f) /\ mem'[f] = <<>>)
            /\ \A f \in File : InTodo(f)' => InFiles(f)'
      BY <1>0, <1>1, <1>3, <3>1 DEF Restoring
    <3>3. pc = "usync" => \/ mem'[Head(todo)] = snap[Head(todo)]
                          \/ IsWal(Head(todo)) /\ mem'[Head(todo)] = <<>>
      <4>1. pc = "usync" => \/ mem[Head(todo)] = snap[Head(todo)]
                            \/ IsWal(Head(todo)) /\ mem[Head(todo)] = <<>>
        BY <1>0 DEF Restoring
      <4>2. pc = "usync" => \/ mem'[Head(todo)] = mem[Head(todo)]
                            \/ IsWal(Head(todo)) /\ mem'[Head(todo)] = <<>>
        BY <2>2, <3>1, Zenon
      <4> QED
        BY <4>1, <4>2
    <3> QED
      BY <1>1, <2>1, <3>2, <3>3 DEF Restoring
<1>12. Logs'
  <2>1. Closed(<<>>)
    BY <1>2, <1>6, EmptyLog
  <2>2. \A r \in Stores : Closed(Base(Wal(r))')
    BY <1>0, <1>2, <1>5, <1>6, <1>8, <2>1 DEF Logs
  <2>3. \A r \in Stores : mem'[Wal(r)] = mem[Wal(r)] \/ mem'[Wal(r)] = <<>>
    BY <1>4, <1>8
  <2>4. pc = "cfsync" => Head(todo) \in File
    BY <1>0 DEF TInv, StepTypes, Ending
  <2>5. pc = "cfsync" => Closed(mem'[Head(todo)])
    BY <1>0, <1>4, <2>1, <2>4 DEF Logs
  <2>6. pc \in {"force", "apply"} => cur.store \in Stores
    BY <1>0 DEF TInv, StepTypes, Putting
  <2> QED
    BY <1>0, <1>1, <1>3, <2>1, <2>2, <2>3, <2>5, <2>6 DEF Logs
<1>13. Agreement'
  <2>1. \A r \in Stores : Held(Data(r)) /\ Held(Wal(r)) =>
          Base(Data(r))' = Base(Data(r)) /\ Base(Wal(r))' = Base(Wal(r))
    BY <1>5, <1>6
  <2>2. \A r \in open : r \in Stores /\ (r = s => Agrees(mem'[Data(r)], mem'[Wal(r)]))
    BY <1>0, <1>2, <1>4, <1>6, <1>8, EmptyLog DEF TInv, TypeOK
  <2>3. pc \in {"force", "apply"} =>
          Agrees([mem'[Data(cur.store)] EXCEPT ![cur.row] = cur.val], mem'[Wal(cur.store)])
    <3> SUFFICES ASSUME pc \in {"force", "apply"}
                 PROVE  Agrees([mem'[Data(cur.store)] EXCEPT ![cur.row] = cur.val], mem'[Wal(cur.store)])
      OBVIOUS
    <3>1. cur.store \in Stores /\ cur.row \in Rows /\ cur.val \in Values
      BY <1>0 DEF TInv, StepTypes, Putting
    <3>2. [mem[Data(cur.store)] EXCEPT ![cur.row] = cur.val] \in Contents
      BY <1>6, <3>1 DEF Contents
    <3> QED
      BY <1>0, <1>4, <1>8, <3>1, <3>2, EmptyLog DEF Agreement
  <2> QED
    BY <1>0, <1>1, <1>3, <1>8, <2>1, <2>2, <2>3 DEF Agreement
<1>14. Legal'
  <2>1. View \in outcomes /\ outcomes \subseteq [Stores -> Contents]
    BY <1>0 DEF Legal
  <2>2. CASE Held(Wal(s))
    <3>1. \A r \in Stores : Base(Data(r))' = Base(Data(r)) /\ Base(Wal(r))' = Base(Wal(r))
      BY <1>5, <1>6, <1>8, <2>2
    <3> QED
      BY <1>1, <2>1, <3>1, SameView DEF Legal
  <2>3. CASE ~Held(Wal(s))
    <3>1. \A r \in Stores : r # s => View'[r] = View[r]
      BY <1>8 DEF View
    <3>2. Base(Data(s)) = mem[Data(s)]
      <4>1. CASE ~Held(Data(s))
        BY <4>1 DEF Base
      <4>2. CASE Held(Data(s))
        <5>1. jmem # None /\ pc \notin Ended
          BY <1>0, <4>2 DEF Held, Coverage
        <5>2. pc = "wimage" /\ s = cur.store
          BY <1>0, <1>2, <2>3, <4>2, <5>1 DEF Coverage
        <5> QED
          BY <1>0, <1>2, <5>2 DEF Phase, Putting
      <4> QED
        BY <4>1, <4>2
    <3>3. View'[s] = mem[Data(s)]
      <4>1. View'[s] = Replay(Base(Data(s))', Base(Wal(s))')
        BY <1>2 DEF View
      <4> QED
        BY <1>2, <1>5, <1>6, <1>8, <2>3, <3>2, <4>1, EmptyLog
    <3>4. View \in [Stores -> Contents] /\ View' = [r \in Stores |-> View'[r]]
      BY <2>1 DEF View
    <3>5. View' = [View EXCEPT ![s] = mem[Data(s)]]
      BY <1>2, <3>1, <3>3, <3>4
    <3>6. CASE pc \in {"force", "apply"} /\ s = cur.store
      <4>1. depth = 0
        BY <1>0, <1>2, <2>3, <3>6 DEF Phase, Putting, Coverage, InBlock
      <4> QED
        BY <1>0, <1>1, <2>1, <3>5, <3>6, <4>1 DEF EitherLegal, Legal
    <3>7. CASE ~(pc \in {"force", "apply"} /\ s = cur.store)
      <4>1. ~(pc \in {"undo", "usync"} /\ InFiles(Data(s)))
        BY <1>0, <1>2, <2>3 DEF Coverage, Ending
      <4>2. Agrees(mem[Data(s)], mem[Wal(s)])
        BY <1>0, <1>2, <3>7, <4>1 DEF Agreement
      <4>3. Closed(mem[Wal(s)]) /\ mem[Wal(s)] \in Seq(Frame)
        BY <1>0, <1>2, <1>5, <2>3 DEF Logs, TInv, Typed
      <4>4. View[s] = mem[Data(s)]
        BY <1>2, <1>5, <1>6, <2>3, <3>2, <4>2, <4>3, AgreesFix DEF View
      <4> QED
        BY <1>1, <1>2, <2>1, <3>4, <3>5, <4>4 DEF Legal
    <3> QED
      BY <3>6, <3>7
  <2> QED
    BY <2>2, <2>3
<1> QED
  BY <1>9, <1>10, <1>11, <1>12, <1>13, <1>14 DEF OInv

\* Every step but a power failure keeps the invariant of the outcome table.
LEMMA OStep ==
  ASSUME "power" \notin Faults, SInv, [Next]_vars
  PROVE  OInv'
<1> USE StoreAssumption, NoJournal
<1>0. TInv /\ Coverage /\ Phase /\ Restoring /\ Logs /\ Agreement /\ Legal
  BY DEF OInv, SInv
<1>t. Typed(mem) /\ JournalOK(jmem) /\ SnapOK /\ StepTypes /\ Images /\ depth \in Nat
  BY <1>0 DEF TInv, TypeOK
<1>v. TInv'
  BY <1>0, TStep DEF SInv, FInv
<1>x. StepTypes' /\ Typed(mem')
  BY <1>v DEF TInv
<1>u. CASE UNCHANGED vars
  BY <1>v, <1>u, NothingMoves DEF SInv, vars, diskVars, journalVars, txnVars
<1>1. CASE Start
  <2>1. mem' = mem /\ jmem' = jmem
    BY <1>1 DEF Start, diskVars, journalVars, txnVars
  <2>2. (\A f : (Held(f)' <=> Held(f)) /\ Base(f)' = Base(f)) /\ View' = View
    BY <2>1, Quiet
  <2>3. files' = files /\ \A f : InFiles(f)' <=> InFiles(f)
    BY <1>1, SameFiles DEF Start, txnVars
  <2>4. open = {} /\ files = <<>> /\ depth = 0 /\ \A f : ~InFiles(f)
    BY <1>0, <1>1 DEF Start, Coverage, Early, InFiles
  <2>5. jmem = None => \A f : ~Held(f)
    BY NoneHeld
  <2>6. Coverage'
    BY <1>0, <1>t, <1>x, <1>1, <2>1, <2>2, <2>3, <2>4, <2>5 DEF Start, Coverage, Early, InBlock, Ending, Ended, Opening, Putting, diskVars, journalVars, txnVars
  <2>7. Phase'
    BY <1>0, <1>t, <1>x, <1>1, <2>1, <2>2, <2>3, <2>4, <2>5 DEF Start, Phase, Early, InBlock, Ending, Ended, Opening, Putting, diskVars, journalVars, txnVars
  <2>8. Restoring'
    BY <1>0, <1>t, <1>x, <1>1, <2>1, <2>2, <2>3, <2>4, <2>5 DEF Start, Restoring, Early, InBlock, Ending, Ended, Opening, Putting, diskVars, journalVars, txnVars
  <2>9. Logs'
    BY <1>0, <1>t, <1>x, <1>1, <2>1, <2>2, <2>3, <2>4, <2>5 DEF Start, Logs, Early, InBlock, Ending, Ended, Opening, Putting, diskVars, journalVars, txnVars
  <2>10. Agreement'
    BY <1>0, <1>t, <1>x, <1>1, <2>1, <2>2, <2>3, <2>4, <2>5 DEF Start, Agreement, Early, InBlock, Ending, Ended, Opening, Putting, diskVars, journalVars, txnVars
  <2>11. Legal'
    BY <1>0, <1>t, <1>x, <1>1, <2>1, <2>2, <2>3, <2>4, <2>5 DEF Start, Legal, Early, InBlock, Ending, Ended, Opening, Putting, diskVars, journalVars, txnVars
  <2> QED
    BY <1>v, <2>6, <2>7, <2>8, <2>9, <2>10, <2>11 DEF OInv
<1>2. CASE JournalRestoreSync
  <2>1. mem' = mem /\ jmem' = jmem
    BY <1>2 DEF JournalRestoreSync, diskVars, journalVars, txnVars
  <2>2. (\A f : (Held(f)' <=> Held(f)) /\ Base(f)' = Base(f)) /\ View' = View
    BY <2>1, Quiet
  <2>3. files' = files /\ \A f : InFiles(f)' <=> InFiles(f)
    BY <1>2, SameFiles DEF JournalRestoreSync, txnVars
  <2>4. /\ todo \in Seq(Image) /\ jmem \in Seq(Image) /\ Len(todo') = Len(todo) - 1
        /\ \A i \in DOMAIN todo' : todo'[i] = todo[i] /\ i \in DOMAIN todo
    <3>1. todo \in Seq(Image) /\ JournalOK(todo) /\ todo # <<>> /\ todo' = Front(todo)
      BY <1>t, <1>2 DEF JournalRestoreSync, StepTypes
    <3>2. todo' \in Seq(Image) /\ Len(todo') = Len(todo) - 1 /\ \A i \in DOMAIN todo' : todo'[i] = todo[i]
      BY <3>1, LastImage
    <3>3. jmem \in Seq(Image)
      BY <1>0, <1>t, <1>2 DEF JournalRestoreSync, Restoring, JournalOK
    <3> QED
      BY <3>1, <3>2, <3>3
  <2>5. Coverage'
    BY <1>0, <1>t, <1>x, <1>2, <2>1, <2>2, <2>3, <2>4 DEF JournalRestoreSync, Coverage, Early, InBlock, Ending, Ended, Opening, Putting, diskVars, journalVars, txnVars
  <2>6. Phase'
    BY <1>0, <1>t, <1>x, <1>2, <2>1, <2>2, <2>3, <2>4 DEF JournalRestoreSync, Phase, Early, InBlock, Ending, Ended, Opening, Putting, diskVars, journalVars, txnVars
  <2>7. Restoring'
    BY <1>0, <1>t, <1>x, <1>2, <2>1, <2>2, <2>3, <2>4 DEF JournalRestoreSync, Restoring, Early, InBlock, Ending, Ended, Opening, Putting, diskVars, journalVars, txnVars
  <2>8. Logs'
    BY <1>0, <1>t, <1>x, <1>2, <2>1, <2>2, <2>3, <2>4 DEF JournalRestoreSync, Logs, Early, InBlock, Ending, Ended, Opening, Putting, diskVars, journalVars, txnVars
  <2>9. Agreement'
    BY <1>0, <1>t, <1>x, <1>2, <2>1, <2>2, <2>3, <2>4 DEF JournalRestoreSync, Agreement, Early, InBlock, Ending, Ended, Opening, Putting, diskVars, journalVars, txnVars
  <2>10. Legal'
    BY <1>0, <1>t, <1>x, <1>2, <2>1, <2>2, <2>3, <2>4 DEF JournalRestoreSync, Legal, Early, InBlock, Ending, Ended, Opening, Putting, diskVars, journalVars, txnVars
  <2> QED
    BY <1>v, <2>5, <2>6, <2>7, <2>8, <2>9, <2>10 DEF OInv
<1>3. CASE JournalGone
  <2>1. mem' = mem /\ jmem' = jmem
    BY <1>3 DEF JournalGone, diskVars, journalVars, txnVars
  <2>2. (\A f : (Held(f)' <=> Held(f)) /\ Base(f)' = Base(f)) /\ View' = View
    BY <2>1, Quiet
  <2>3. files' = files /\ \A f : InFiles(f)' <=> InFiles(f)
    BY <1>3, SameFiles DEF JournalGone, txnVars
  <2>4. open = {} /\ files = <<>> /\ depth = 0 /\ \A f : ~InFiles(f)
    BY <1>0, <1>3 DEF JournalGone, Coverage, Early, InFiles
  <2>5. jmem = None /\ \A f : ~Held(f)
    BY <1>0, <1>3, NoneHeld DEF JournalGone, Coverage
  <2>6. Coverage'
    BY <1>0, <1>t, <1>x, <1>3, <2>1, <2>2, <2>3, <2>4, <2>5 DEF JournalGone, Coverage, Early, InBlock, Ending, Ended, Opening, Putting, diskVars, journalVars, txnVars
  <2>7. Phase'
    BY <1>0, <1>t, <1>x, <1>3, <2>1, <2>2, <2>3, <2>4, <2>5 DEF JournalGone, Phase, Early, InBlock, Ending, Ended, Opening, Putting, diskVars, journalVars, txnVars
  <2>8. Restoring'
    BY <1>0, <1>t, <1>x, <1>3, <2>1, <2>2, <2>3, <2>4, <2>5 DEF JournalGone, Restoring, Early, InBlock, Ending, Ended, Opening, Putting, diskVars, journalVars, txnVars
  <2>9. Logs'
    BY <1>0, <1>t, <1>x, <1>3, <2>1, <2>2, <2>3, <2>4, <2>5 DEF JournalGone, Logs, Early, InBlock, Ending, Ended, Opening, Putting, diskVars, journalVars, txnVars
  <2>10. Agreement'
    BY <1>0, <1>t, <1>x, <1>3, <2>1, <2>2, <2>3, <2>4, <2>5 DEF JournalGone, Agreement, Early, InBlock, Ending, Ended, Opening, Putting, diskVars, journalVars, txnVars
  <2>11. Legal'
    BY <1>0, <1>t, <1>x, <1>3, <2>1, <2>2, <2>3, <2>4, <2>5 DEF JournalGone, Legal, Early, InBlock, Ending, Ended, Opening, Putting, diskVars, journalVars, txnVars
  <2> QED
    BY <1>v, <2>6, <2>7, <2>8, <2>9, <2>10, <2>11 DEF OInv
<1>4. ASSUME NEW s \in Stores, Open(s) PROVE OInv'
  <2>1. mem' = mem /\ jmem' = jmem
    BY <1>4 DEF Open, diskVars, journalVars, txnVars
  <2>2. (\A f : (Held(f)' <=> Held(f)) /\ Base(f)' = Base(f)) /\ View' = View
    BY <2>1, Quiet
  <2>3. files' = files /\ \A f : InFiles(f)' <=> InFiles(f)
    BY <1>4, SameFiles DEF Open, txnVars
  <2>4. ~InFiles(Data(s)) /\ ~Held(Data(s)) /\ ~Held(Wal(s))
    BY <1>0, <1>4 DEF Open, Coverage, InBlock
  <2>5. Closed(mem[Wal(s)]) /\ mem[Wal(s)] \in Seq(Frame) /\ mem[Data(s)] \in Contents
    <3>1. Base(Wal(s)) = mem[Wal(s)]
      BY <2>4 DEF Base
    <3> QED
      BY <1>0, <1>t, <3>1 DEF Logs, Typed
  <2>6. pc' # "rewrite" => Agrees(mem[Data(s)], mem[Wal(s)])
    <3>1. CASE mem[Wal(s)] = <<>>
      BY <3>1 DEF Agrees
    <3>2. CASE Recovered(s) = mem[Data(s)]
      BY <1>t, <2>5, <3>2, RecoveredIs, ReplayAgrees
    <3> QED
      BY <1>4, <3>1, <3>2 DEF Open
  <2>7. open' = open \cup {s} /\ cur' = s /\ pc = "idle" /\ pc' \in {"idle", "rewrite", "ckpt"}
    BY <1>4 DEF Open
  <2>8. Coverage'
    BY <1>0, <1>t, <1>x, <1>4, <2>1, <2>2, <2>3, <2>4, <2>5, <2>6, <2>7 DEF Open, Coverage, Early, InBlock, Ending, Ended, Opening, Putting, diskVars, journalVars, txnVars
  <2>9. Phase'
    BY <1>0, <1>t, <1>x, <1>4, <2>1, <2>2, <2>3, <2>4, <2>5, <2>6, <2>7 DEF Open, Phase, Early, InBlock, Ending, Ended, Opening, Putting, diskVars, journalVars, txnVars
  <2>10. Restoring'
    BY <1>0, <1>t, <1>x, <1>4, <2>1, <2>2, <2>3, <2>4, <2>5, <2>6, <2>7 DEF Open, Restoring, Early, InBlock, Ending, Ended, Opening, Putting, diskVars, journalVars, txnVars
  <2>11. Logs'
    BY <1>0, <1>t, <1>x, <1>4, <2>1, <2>2, <2>3, <2>4, <2>5, <2>6, <2>7 DEF Open, Logs, Early, InBlock, Ending, Ended, Opening, Putting, diskVars, journalVars, txnVars
  <2>12. Agreement'
    BY <1>0, <1>t, <1>x, <1>4, <2>1, <2>2, <2>3, <2>4, <2>5, <2>6, <2>7 DEF Open, Agreement, Early, InBlock, Ending, Ended, Opening, Putting, diskVars, journalVars, txnVars
  <2>13. Legal'
    BY <1>0, <1>t, <1>x, <1>4, <2>1, <2>2, <2>3, <2>4, <2>5, <2>6, <2>7 DEF Open, Legal, Early, InBlock, Ending, Ended, Opening, Putting, diskVars, journalVars, txnVars
  <2> QED
    BY <1>v, <2>8, <2>9, <2>10, <2>11, <2>12, <2>13 DEF OInv
<1>5. CASE RecoverSync
  <2>1. mem' = mem /\ jmem' = jmem
    BY <1>5 DEF RecoverSync, diskVars, journalVars, txnVars
  <2>2. (\A f : (Held(f)' <=> Held(f)) /\ Base(f)' = Base(f)) /\ View' = View
    BY <2>1, Quiet
  <2>3. files' = files /\ \A f : InFiles(f)' <=> InFiles(f)
    BY <1>5, SameFiles DEF RecoverSync, txnVars
  <2>4. Coverage'
    BY <1>0, <1>t, <1>x, <1>5, <2>1, <2>2, <2>3 DEF RecoverSync, Coverage, Early, InBlock, Ending, Ended, Opening, Putting, diskVars, journalVars, txnVars
  <2>5. Phase'
    BY <1>0, <1>t, <1>x, <1>5, <2>1, <2>2, <2>3 DEF RecoverSync, Phase, Early, InBlock, Ending, Ended, Opening, Putting, diskVars, journalVars, txnVars
  <2>6. Restoring'
    BY <1>0, <1>t, <1>x, <1>5, <2>1, <2>2, <2>3 DEF RecoverSync, Restoring, Early, InBlock, Ending, Ended, Opening, Putting, diskVars, journalVars, txnVars
  <2>7. Logs'
    BY <1>0, <1>t, <1>x, <1>5, <2>1, <2>2, <2>3 DEF RecoverSync, Logs, Early, InBlock, Ending, Ended, Opening, Putting, diskVars, journalVars, txnVars
  <2>8. Agreement'
    BY <1>0, <1>t, <1>x, <1>5, <2>1, <2>2, <2>3 DEF RecoverSync, Agreement, Early, InBlock, Ending, Ended, Opening, Putting, diskVars, journalVars, txnVars
  <2>9. Legal'
    BY <1>0, <1>t, <1>x, <1>5, <2>1, <2>2, <2>3 DEF RecoverSync, Legal, Early, InBlock, Ending, Ended, Opening, Putting, diskVars, journalVars, txnVars
  <2> QED
    BY <1>v, <2>4, <2>5, <2>6, <2>7, <2>8, <2>9 DEF OInv
<1>6. CASE Checkpoint
  <2>1. mem' = mem /\ jmem' = jmem
    BY <1>6 DEF Checkpoint, diskVars, journalVars, txnVars
  <2>2. (\A f : (Held(f)' <=> Held(f)) /\ Base(f)' = Base(f)) /\ View' = View
    BY <2>1, Quiet
  <2>3. files' = files /\ \A f : InFiles(f)' <=> InFiles(f)
    BY <1>6, SameFiles DEF Checkpoint, txnVars
  <2>4. Coverage'
    BY <1>0, <1>t, <1>x, <1>6, <2>1, <2>2, <2>3 DEF Checkpoint, Coverage, Early, InBlock, Ending, Ended, Opening, Putting, diskVars, journalVars, txnVars
  <2>5. Phase'
    BY <1>0, <1>t, <1>x, <1>6, <2>1, <2>2, <2>3 DEF Checkpoint, Phase, Early, InBlock, Ending, Ended, Opening, Putting, diskVars, journalVars, txnVars
  <2>6. Restoring'
    BY <1>0, <1>t, <1>x, <1>6, <2>1, <2>2, <2>3 DEF Checkpoint, Restoring, Early, InBlock, Ending, Ended, Opening, Putting, diskVars, journalVars, txnVars
  <2>7. Logs'
    BY <1>0, <1>t, <1>x, <1>6, <2>1, <2>2, <2>3 DEF Checkpoint, Logs, Early, InBlock, Ending, Ended, Opening, Putting, diskVars, journalVars, txnVars
  <2>8. Agreement'
    BY <1>0, <1>t, <1>x, <1>6, <2>1, <2>2, <2>3 DEF Checkpoint, Agreement, Early, InBlock, Ending, Ended, Opening, Putting, diskVars, journalVars, txnVars
  <2>9. Legal'
    BY <1>0, <1>t, <1>x, <1>6, <2>1, <2>2, <2>3 DEF Checkpoint, Legal, Early, InBlock, Ending, Ended, Opening, Putting, diskVars, journalVars, txnVars
  <2> QED
    BY <1>v, <2>4, <2>5, <2>6, <2>7, <2>8, <2>9 DEF OInv
<1>7. CASE CheckpointSync
  <2>1. mem' = mem /\ jmem' = jmem
    BY <1>7 DEF CheckpointSync, diskVars, journalVars, txnVars
  <2>2. (\A f : (Held(f)' <=> Held(f)) /\ Base(f)' = Base(f)) /\ View' = View
    BY <2>1, Quiet
  <2>3. files' = files /\ \A f : InFiles(f)' <=> InFiles(f)
    BY <1>7, SameFiles DEF CheckpointSync, txnVars
  <2>4. Coverage'
    BY <1>0, <1>t, <1>x, <1>7, <2>1, <2>2, <2>3 DEF CheckpointSync, Coverage, Early, InBlock, Ending, Ended, Opening, Putting, diskVars, journalVars, txnVars
  <2>5. Phase'
    BY <1>0, <1>t, <1>x, <1>7, <2>1, <2>2, <2>3 DEF CheckpointSync, Phase, Early, InBlock, Ending, Ended, Opening, Putting, diskVars, journalVars, txnVars
  <2>6. Restoring'
    BY <1>0, <1>t, <1>x, <1>7, <2>1, <2>2, <2>3 DEF CheckpointSync, Restoring, Early, InBlock, Ending, Ended, Opening, Putting, diskVars, journalVars, txnVars
  <2>7. Logs'
    BY <1>0, <1>t, <1>x, <1>7, <2>1, <2>2, <2>3 DEF CheckpointSync, Logs, Early, InBlock, Ending, Ended, Opening, Putting, diskVars, journalVars, txnVars
  <2>8. Agreement'
    BY <1>0, <1>t, <1>x, <1>7, <2>1, <2>2, <2>3 DEF CheckpointSync, Agreement, Early, InBlock, Ending, Ended, Opening, Putting, diskVars, journalVars, txnVars
  <2>9. Legal'
    BY <1>0, <1>t, <1>x, <1>7, <2>1, <2>2, <2>3 DEF CheckpointSync, Legal, Early, InBlock, Ending, Ended, Opening, Putting, diskVars, journalVars, txnVars
  <2> QED
    BY <1>v, <2>4, <2>5, <2>6, <2>7, <2>8, <2>9 DEF OInv
<1>8. ASSUME NEW s \in Stores, Save(s) PROVE OInv'
  <2>1. mem' = mem /\ jmem' = jmem
    BY <1>8 DEF Save, diskVars, journalVars, txnVars
  <2>2. (\A f : (Held(f)' <=> Held(f)) /\ Base(f)' = Base(f)) /\ View' = View
    BY <2>1, Quiet
  <2>3. files' = files /\ \A f : InFiles(f)' <=> InFiles(f)
    BY <1>8, SameFiles DEF Save, txnVars
  <2>4. Coverage'
    BY <1>0, <1>t, <1>x, <1>8, <2>1, <2>2, <2>3 DEF Save, Coverage, Early, InBlock, Ending, Ended, Opening, Putting, diskVars, journalVars, txnVars
  <2>5. Phase'
    BY <1>0, <1>t, <1>x, <1>8, <2>1, <2>2, <2>3 DEF Save, Phase, Early, InBlock, Ending, Ended, Opening, Putting, diskVars, journalVars, txnVars
  <2>6. Restoring'
    BY <1>0, <1>t, <1>x, <1>8, <2>1, <2>2, <2>3 DEF Save, Restoring, Early, InBlock, Ending, Ended, Opening, Putting, diskVars, journalVars, txnVars
  <2>7. Logs'
    BY <1>0, <1>t, <1>x, <1>8, <2>1, <2>2, <2>3 DEF Save, Logs, Early, InBlock, Ending, Ended, Opening, Putting, diskVars, journalVars, txnVars
  <2>8. Agreement'
    BY <1>0, <1>t, <1>x, <1>8, <2>1, <2>2, <2>3 DEF Save, Agreement, Early, InBlock, Ending, Ended, Opening, Putting, diskVars, journalVars, txnVars
  <2>9. Legal'
    BY <1>0, <1>t, <1>x, <1>8, <2>1, <2>2, <2>3 DEF Save, Legal, Early, InBlock, Ending, Ended, Opening, Putting, diskVars, journalVars, txnVars
  <2> QED
    BY <1>v, <2>4, <2>5, <2>6, <2>7, <2>8, <2>9 DEF OInv
<1>9. ASSUME NEW s \in Stores, NEW k \in Rows, NEW v \in Values, Mutate(s, k, v) PROVE OInv'
  <2>1. mem' = mem /\ jmem' = jmem
    BY <1>9 DEF Mutate, diskVars, journalVars, txnVars
  <2>2. (\A f : (Held(f)' <=> Held(f)) /\ Base(f)' = Base(f)) /\ View' = View
    BY <2>1, Quiet
  <2>3. files' = files /\ \A f : InFiles(f)' <=> InFiles(f)
    BY <1>9, SameFiles DEF Mutate, txnVars
  <2>4. \A q : Tracked(q) <=> InFiles(Data(q))
    BY DEF Tracked, InFiles
  <2>5. Coverage'
    BY <1>0, <1>t, <1>x, <1>9, <2>1, <2>2, <2>3, <2>4 DEF Mutate, Coverage, Early, InBlock, Ending, Ended, Opening, Putting, diskVars, journalVars, txnVars
  <2>6. Phase'
    BY <1>0, <1>t, <1>x, <1>9, <2>1, <2>2, <2>3, <2>4 DEF Mutate, Phase, Early, InBlock, Ending, Ended, Opening, Putting, diskVars, journalVars, txnVars
  <2>7. Restoring'
    BY <1>0, <1>t, <1>x, <1>9, <2>1, <2>2, <2>3, <2>4 DEF Mutate, Restoring, Early, InBlock, Ending, Ended, Opening, Putting, diskVars, journalVars, txnVars
  <2>8. Logs'
    BY <1>0, <1>t, <1>x, <1>9, <2>1, <2>2, <2>3, <2>4 DEF Mutate, Logs, Early, InBlock, Ending, Ended, Opening, Putting, diskVars, journalVars, txnVars
  <2>9. Agreement'
    BY <1>0, <1>t, <1>x, <1>9, <2>1, <2>2, <2>3, <2>4 DEF Mutate, Agreement, Early, InBlock, Ending, Ended, Opening, Putting, diskVars, journalVars, txnVars
  <2>10. Legal'
    BY <1>0, <1>t, <1>x, <1>9, <2>1, <2>2, <2>3, <2>4 DEF Mutate, Legal, Early, InBlock, Ending, Ended, Opening, Putting, diskVars, journalVars, txnVars
  <2> QED
    BY <1>v, <2>5, <2>6, <2>7, <2>8, <2>9, <2>10 DEF OInv
<1>10. CASE SyncBegin
  <2>1. mem' = mem /\ jmem' = jmem
    BY <1>10 DEF SyncBegin, diskVars, journalVars, txnVars
  <2>2. (\A f : (Held(f)' <=> Held(f)) /\ Base(f)' = Base(f)) /\ View' = View
    BY <2>1, Quiet
  <2>3. cur.store \in Stores /\ cur' = cur /\ pc = "bsync" /\ pc' = "log"
    BY <1>t, <1>10 DEF SyncBegin, StepTypes, Putting
  <2>4. \A f : InFiles(f)' <=> InFiles(f) \/ f = Data(cur.store)
    <3>1. files' = <<Data(cur.store)>> \o files /\ files \in Seq(File) /\ Data(cur.store) \in File
      BY <1>t, <1>10, <2>3, FileNames DEF SyncBegin, StepTypes
    <3> QED
      BY <3>1, PutFirst
  <2>5. \A s \in Stores : (InFiles(Data(s))' <=> InFiles(Data(s)) \/ s = cur.store) /\ (InFiles(Wal(s))' <=> InFiles(Wal(s)))
    BY <2>3, <2>4, FileNames
  <2>6. depth > 0 /\ depth' = depth /\ cur.store \in open
    BY <1>0, <1>10, <2>3 DEF SyncBegin, Phase, Putting
  <2>7. Coverage'
    BY <1>0, <1>t, <1>x, <1>10, <2>1, <2>2, <2>3, <2>4, <2>5, <2>6 DEF SyncBegin, Coverage, Early, InBlock, Ending, Ended, Opening, Putting, diskVars, journalVars, txnVars
  <2>8. Phase'
    BY <1>0, <1>t, <1>x, <1>10, <2>1, <2>2, <2>3, <2>4, <2>5, <2>6 DEF SyncBegin, Phase, Early, InBlock, Ending, Ended, Opening, Putting, diskVars, journalVars, txnVars
  <2>9. Restoring'
    BY <1>0, <1>t, <1>x, <1>10, <2>1, <2>2, <2>3, <2>4, <2>5, <2>6 DEF SyncBegin, Restoring, Early, InBlock, Ending, Ended, Opening, Putting, diskVars, journalVars, txnVars
  <2>10. Logs'
    BY <1>0, <1>t, <1>x, <1>10, <2>1, <2>2, <2>3, <2>4, <2>5, <2>6 DEF SyncBegin, Logs, Early, InBlock, Ending, Ended, Opening, Putting, diskVars, journalVars, txnVars
  <2>11. Agreement'
    BY <1>0, <1>t, <1>x, <1>10, <2>1, <2>2, <2>3, <2>4, <2>5, <2>6 DEF SyncBegin, Agreement, Early, InBlock, Ending, Ended, Opening, Putting, diskVars, journalVars, txnVars
  <2>12. Legal'
    BY <1>0, <1>t, <1>x, <1>10, <2>1, <2>2, <2>3, <2>4, <2>5, <2>6 DEF SyncBegin, Legal, Early, InBlock, Ending, Ended, Opening, Putting, diskVars, journalVars, txnVars
  <2> QED
    BY <1>v, <2>7, <2>8, <2>9, <2>10, <2>11, <2>12 DEF OInv
<1>11. CASE ForceRow
  <2>1. mem' = mem /\ jmem' = jmem
    BY <1>11 DEF ForceRow, diskVars, journalVars, txnVars
  <2>2. (\A f : (Held(f)' <=> Held(f)) /\ Base(f)' = Base(f)) /\ View' = View
    BY <2>1, Quiet
  <2>3. files' = files /\ \A f : InFiles(f)' <=> InFiles(f)
    BY <1>11, SameFiles DEF ForceRow, txnVars
  <2>4. Coverage'
    BY <1>0, <1>t, <1>x, <1>11, <2>1, <2>2, <2>3 DEF ForceRow, Coverage, Early, InBlock, Ending, Ended, Opening, Putting, diskVars, journalVars, txnVars
  <2>5. Phase'
    BY <1>0, <1>t, <1>x, <1>11, <2>1, <2>2, <2>3 DEF ForceRow, Phase, Early, InBlock, Ending, Ended, Opening, Putting, diskVars, journalVars, txnVars
  <2>6. Restoring'
    BY <1>0, <1>t, <1>x, <1>11, <2>1, <2>2, <2>3 DEF ForceRow, Restoring, Early, InBlock, Ending, Ended, Opening, Putting, diskVars, journalVars, txnVars
  <2>7. Logs'
    BY <1>0, <1>t, <1>x, <1>11, <2>1, <2>2, <2>3 DEF ForceRow, Logs, Early, InBlock, Ending, Ended, Opening, Putting, diskVars, journalVars, txnVars
  <2>8. Agreement'
    BY <1>0, <1>t, <1>x, <1>11, <2>1, <2>2, <2>3 DEF ForceRow, Agreement, Early, InBlock, Ending, Ended, Opening, Putting, diskVars, journalVars, txnVars
  <2>9. Legal'
    BY <1>0, <1>t, <1>x, <1>11, <2>1, <2>2, <2>3 DEF ForceRow, Legal, Early, InBlock, Ending, Ended, Opening, Putting, diskVars, journalVars, txnVars
  <2> QED
    BY <1>v, <2>4, <2>5, <2>6, <2>7, <2>8, <2>9 DEF OInv
<1>12. CASE TxnBegin
  <2>1. mem' = mem /\ jmem' = jmem
    BY <1>12 DEF TxnBegin, diskVars, journalVars, txnVars
  <2>2. (\A f : (Held(f)' <=> Held(f)) /\ Base(f)' = Base(f)) /\ View' = View
    BY <2>1, Quiet
  <2>3. files' = files /\ \A f : InFiles(f)' <=> InFiles(f)
    BY <1>12, SameFiles DEF TxnBegin, txnVars
  <2>4. Coverage'
    BY <1>0, <1>t, <1>x, <1>12, <2>1, <2>2, <2>3 DEF TxnBegin, Coverage, Early, InBlock, Ending, Ended, Opening, Putting, diskVars, journalVars, txnVars
  <2>5. Phase'
    BY <1>0, <1>t, <1>x, <1>12, <2>1, <2>2, <2>3 DEF TxnBegin, Phase, Early, InBlock, Ending, Ended, Opening, Putting, diskVars, journalVars, txnVars
  <2>6. Restoring'
    BY <1>0, <1>t, <1>x, <1>12, <2>1, <2>2, <2>3 DEF TxnBegin, Restoring, Early, InBlock, Ending, Ended, Opening, Putting, diskVars, journalVars, txnVars
  <2>7. Logs'
    BY <1>0, <1>t, <1>x, <1>12, <2>1, <2>2, <2>3 DEF TxnBegin, Logs, Early, InBlock, Ending, Ended, Opening, Putting, diskVars, journalVars, txnVars
  <2>8. Agreement'
    BY <1>0, <1>t, <1>x, <1>12, <2>1, <2>2, <2>3 DEF TxnBegin, Agreement, Early, InBlock, Ending, Ended, Opening, Putting, diskVars, journalVars, txnVars
  <2>9. Legal'
    BY <1>0, <1>t, <1>x, <1>12, <2>1, <2>2, <2>3 DEF TxnBegin, Legal, Early, InBlock, Ending, Ended, Opening, Putting, diskVars, journalVars, txnVars
  <2> QED
    BY <1>v, <2>4, <2>5, <2>6, <2>7, <2>8, <2>9 DEF OInv
<1>13. CASE TxnCommit
  <2>1. mem' = mem /\ jmem' = jmem
    BY <1>13 DEF TxnCommit, diskVars, journalVars, txnVars
  <2>2. (\A f : (Held(f)' <=> Held(f)) /\ Base(f)' = Base(f)) /\ View' = View
    BY <2>1, Quiet
  <2>3. files' = files /\ \A f : InFiles(f)' <=> InFiles(f)
    BY <1>13, SameFiles DEF TxnCommit, txnVars
  <2>4. Coverage'
    BY <1>0, <1>t, <1>x, <1>13, <2>1, <2>2, <2>3 DEF TxnCommit, Coverage, Early, InBlock, Ending, Ended, Opening, Putting, diskVars, journalVars, txnVars
  <2>5. Phase'
    BY <1>0, <1>t, <1>x, <1>13, <2>1, <2>2, <2>3 DEF TxnCommit, Phase, Early, InBlock, Ending, Ended, Opening, Putting, diskVars, journalVars, txnVars
  <2>6. Restoring'
    BY <1>0, <1>t, <1>x, <1>13, <2>1, <2>2, <2>3 DEF TxnCommit, Restoring, Early, InBlock, Ending, Ended, Opening, Putting, diskVars, journalVars, txnVars
  <2>7. Logs'
    BY <1>0, <1>t, <1>x, <1>13, <2>1, <2>2, <2>3 DEF TxnCommit, Logs, Early, InBlock, Ending, Ended, Opening, Putting, diskVars, journalVars, txnVars
  <2>8. Agreement'
    BY <1>0, <1>t, <1>x, <1>13, <2>1, <2>2, <2>3 DEF TxnCommit, Agreement, Early, InBlock, Ending, Ended, Opening, Putting, diskVars, journalVars, txnVars
  <2>9. Legal'
    BY <1>0, <1>t, <1>x, <1>13, <2>1, <2>2, <2>3 DEF TxnCommit, Legal, Early, InBlock, Ending, Ended, Opening, Putting, diskVars, journalVars, txnVars
  <2> QED
    BY <1>v, <2>4, <2>5, <2>6, <2>7, <2>8, <2>9 DEF OInv
<1>14. CASE CommitSync
  <2>1. mem' = mem /\ jmem' = jmem
    BY <1>14 DEF CommitSync, diskVars, journalVars, txnVars
  <2>2. (\A f : (Held(f)' <=> Held(f)) /\ Base(f)' = Base(f)) /\ View' = View
    BY <2>1, Quiet
  <2>3. files' = files /\ \A f : InFiles(f)' <=> InFiles(f)
    BY <1>14, SameFiles DEF CommitSync, txnVars
  <2>4. Coverage'
    BY <1>0, <1>t, <1>x, <1>14, <2>1, <2>2, <2>3 DEF CommitSync, Coverage, Early, InBlock, Ending, Ended, Opening, Putting, diskVars, journalVars, txnVars
  <2>5. Phase'
    BY <1>0, <1>t, <1>x, <1>14, <2>1, <2>2, <2>3 DEF CommitSync, Phase, Early, InBlock, Ending, Ended, Opening, Putting, diskVars, journalVars, txnVars
  <2>6. Restoring'
    BY <1>0, <1>t, <1>x, <1>14, <2>1, <2>2, <2>3 DEF CommitSync, Restoring, Early, InBlock, Ending, Ended, Opening, Putting, diskVars, journalVars, txnVars
  <2>7. Logs'
    BY <1>0, <1>t, <1>x, <1>14, <2>1, <2>2, <2>3 DEF CommitSync, Logs, Early, InBlock, Ending, Ended, Opening, Putting, diskVars, journalVars, txnVars
  <2>8. Agreement'
    BY <1>0, <1>t, <1>x, <1>14, <2>1, <2>2, <2>3 DEF CommitSync, Agreement, Early, InBlock, Ending, Ended, Opening, Putting, diskVars, journalVars, txnVars
  <2>9. Legal'
    BY <1>0, <1>t, <1>x, <1>14, <2>1, <2>2, <2>3 DEF CommitSync, Legal, Early, InBlock, Ending, Ended, Opening, Putting, diskVars, journalVars, txnVars
  <2> QED
    BY <1>v, <2>4, <2>5, <2>6, <2>7, <2>8, <2>9 DEF OInv
<1>15. CASE CommitSynced
  <2>1. mem' = mem /\ jmem' = jmem
    BY <1>15 DEF CommitSynced, diskVars, journalVars, txnVars
  <2>2. (\A f : (Held(f)' <=> Held(f)) /\ Base(f)' = Base(f)) /\ View' = View
    BY <2>1, Quiet
  <2>3. files' = files /\ \A f : InFiles(f)' <=> InFiles(f)
    BY <1>15, SameFiles DEF CommitSynced, txnVars
  <2>4. todo' = files /\ \A f : InTodo(f)' <=> InFiles(f)
    BY <1>15 DEF CommitSynced, InTodo, InFiles
  <2>5. \A s \in Stores : InFiles(Data(s)) => InFiles(Wal(s))
    BY <1>0, <1>15 DEF CommitSynced, Coverage, Ending
  <2>6. Coverage'
    BY <1>0, <1>t, <1>x, <1>15, <2>1, <2>2, <2>3, <2>4, <2>5 DEF CommitSynced, Coverage, Early, InBlock, Ending, Ended, Opening, Putting, diskVars, journalVars, txnVars
  <2>7. Phase'
    BY <1>0, <1>t, <1>x, <1>15, <2>1, <2>2, <2>3, <2>4, <2>5 DEF CommitSynced, Phase, Early, InBlock, Ending, Ended, Opening, Putting, diskVars, journalVars, txnVars
  <2>8. Restoring'
    BY <1>0, <1>t, <1>x, <1>15, <2>1, <2>2, <2>3, <2>4, <2>5 DEF CommitSynced, Restoring, Early, InBlock, Ending, Ended, Opening, Putting, diskVars, journalVars, txnVars
  <2>9. Logs'
    BY <1>0, <1>t, <1>x, <1>15, <2>1, <2>2, <2>3, <2>4, <2>5 DEF CommitSynced, Logs, Early, InBlock, Ending, Ended, Opening, Putting, diskVars, journalVars, txnVars
  <2>10. Agreement'
    BY <1>0, <1>t, <1>x, <1>15, <2>1, <2>2, <2>3, <2>4, <2>5 DEF CommitSynced, Agreement, Early, InBlock, Ending, Ended, Opening, Putting, diskVars, journalVars, txnVars
  <2>11. Legal'
    BY <1>0, <1>t, <1>x, <1>15, <2>1, <2>2, <2>3, <2>4, <2>5 DEF CommitSynced, Legal, Early, InBlock, Ending, Ended, Opening, Putting, diskVars, journalVars, txnVars
  <2> QED
    BY <1>v, <2>6, <2>7, <2>8, <2>9, <2>10, <2>11 DEF OInv
<1>16. CASE CommitFrameSkip
  <2>1. mem' = mem /\ jmem' = jmem
    BY <1>16 DEF CommitFrameSkip, diskVars, journalVars, txnVars
  <2>2. (\A f : (Held(f)' <=> Held(f)) /\ Base(f)' = Base(f)) /\ View' = View
    BY <2>1, Quiet
  <2>3. files' = files /\ \A f : InFiles(f)' <=> InFiles(f)
    BY <1>16, SameFiles DEF CommitFrameSkip, txnVars
  <2>4. \A f : InTodo(f) <=> f = Head(todo) \/ InTodo(f)'
    BY <1>t, <1>16, TailCase DEF CommitFrameSkip, StepTypes, Ending
  <2>5. \A s \in Stores : Wal(s) # Head(todo)
    BY <1>16, FileNames DEF CommitFrameSkip
  <2>6. Coverage'
    BY <1>0, <1>t, <1>x, <1>16, <2>1, <2>2, <2>3, <2>4, <2>5 DEF CommitFrameSkip, Coverage, Early, InBlock, Ending, Ended, Opening, Putting, diskVars, journalVars, txnVars
  <2>7. Phase'
    BY <1>0, <1>t, <1>x, <1>16, <2>1, <2>2, <2>3, <2>4, <2>5 DEF CommitFrameSkip, Phase, Early, InBlock, Ending, Ended, Opening, Putting, diskVars, journalVars, txnVars
  <2>8. Restoring'
    BY <1>0, <1>t, <1>x, <1>16, <2>1, <2>2, <2>3, <2>4, <2>5 DEF CommitFrameSkip, Restoring, Early, InBlock, Ending, Ended, Opening, Putting, diskVars, journalVars, txnVars
  <2>9. Logs'
    BY <1>0, <1>t, <1>x, <1>16, <2>1, <2>2, <2>3, <2>4, <2>5 DEF CommitFrameSkip, Logs, Early, InBlock, Ending, Ended, Opening, Putting, diskVars, journalVars, txnVars
  <2>10. Agreement'
    BY <1>0, <1>t, <1>x, <1>16, <2>1, <2>2, <2>3, <2>4, <2>5 DEF CommitFrameSkip, Agreement, Early, InBlock, Ending, Ended, Opening, Putting, diskVars, journalVars, txnVars
  <2>11. Legal'
    BY <1>0, <1>t, <1>x, <1>16, <2>1, <2>2, <2>3, <2>4, <2>5 DEF CommitFrameSkip, Legal, Early, InBlock, Ending, Ended, Opening, Putting, diskVars, journalVars, txnVars
  <2> QED
    BY <1>v, <2>6, <2>7, <2>8, <2>9, <2>10, <2>11 DEF OInv
<1>17. CASE CommitFrameSync
  <2>1. mem' = mem /\ jmem' = jmem
    BY <1>17 DEF CommitFrameSync, diskVars, journalVars, txnVars
  <2>2. (\A f : (Held(f)' <=> Held(f)) /\ Base(f)' = Base(f)) /\ View' = View
    BY <2>1, Quiet
  <2>3. files' = files /\ \A f : InFiles(f)' <=> InFiles(f)
    BY <1>17, SameFiles DEF CommitFrameSync, txnVars
  <2>4. \A f : InTodo(f) <=> f = Head(todo) \/ InTodo(f)'
    BY <1>t, <1>17, TailCase DEF CommitFrameSync, StepTypes, Ending
  <2>5. Coverage'
    BY <1>0, <1>t, <1>x, <1>17, <2>1, <2>2, <2>3, <2>4 DEF CommitFrameSync, Coverage, Early, InBlock, Ending, Ended, Opening, Putting, diskVars, journalVars, txnVars
  <2>6. Phase'
    BY <1>0, <1>t, <1>x, <1>17, <2>1, <2>2, <2>3, <2>4 DEF CommitFrameSync, Phase, Early, InBlock, Ending, Ended, Opening, Putting, diskVars, journalVars, txnVars
  <2>7. Restoring'
    BY <1>0, <1>t, <1>x, <1>17, <2>1, <2>2, <2>3, <2>4 DEF CommitFrameSync, Restoring, Early, InBlock, Ending, Ended, Opening, Putting, diskVars, journalVars, txnVars
  <2>8. Logs'
    BY <1>0, <1>t, <1>x, <1>17, <2>1, <2>2, <2>3, <2>4 DEF CommitFrameSync, Logs, Early, InBlock, Ending, Ended, Opening, Putting, diskVars, journalVars, txnVars
  <2>9. Agreement'
    BY <1>0, <1>t, <1>x, <1>17, <2>1, <2>2, <2>3, <2>4 DEF CommitFrameSync, Agreement, Early, InBlock, Ending, Ended, Opening, Putting, diskVars, journalVars, txnVars
  <2>10. Legal'
    BY <1>0, <1>t, <1>x, <1>17, <2>1, <2>2, <2>3, <2>4 DEF CommitFrameSync, Legal, Early, InBlock, Ending, Ended, Opening, Putting, diskVars, journalVars, txnVars
  <2> QED
    BY <1>v, <2>5, <2>6, <2>7, <2>8, <2>9, <2>10 DEF OInv
<1>18. CASE TxnRollback
  <2>1. mem' = mem /\ jmem' = jmem
    BY <1>18 DEF TxnRollback, diskVars, journalVars, txnVars
  <2>2. (\A f : (Held(f)' <=> Held(f)) /\ Base(f)' = Base(f)) /\ View' = View
    BY <2>1, Quiet
  <2>3. files' = files /\ \A f : InFiles(f)' <=> InFiles(f)
    BY <1>18, SameFiles DEF TxnRollback, txnVars
  <2>4. todo' = files /\ \A f : InTodo(f)' <=> InFiles(f)
    BY <1>18 DEF TxnRollback, InTodo, InFiles
  <2>5. Coverage'
    BY <1>0, <1>t, <1>x, <1>18, <2>1, <2>2, <2>3, <2>4 DEF TxnRollback, Coverage, Early, InBlock, Ending, Ended, Opening, Putting, diskVars, journalVars, txnVars
  <2>6. Phase'
    BY <1>0, <1>t, <1>x, <1>18, <2>1, <2>2, <2>3, <2>4 DEF TxnRollback, Phase, Early, InBlock, Ending, Ended, Opening, Putting, diskVars, journalVars, txnVars
  <2>7. Restoring'
    BY <1>0, <1>t, <1>x, <1>18, <2>1, <2>2, <2>3, <2>4 DEF TxnRollback, Restoring, Early, InBlock, Ending, Ended, Opening, Putting, diskVars, journalVars, txnVars
  <2>8. Logs'
    BY <1>0, <1>t, <1>x, <1>18, <2>1, <2>2, <2>3, <2>4 DEF TxnRollback, Logs, Early, InBlock, Ending, Ended, Opening, Putting, diskVars, journalVars, txnVars
  <2>9. Agreement'
    BY <1>0, <1>t, <1>x, <1>18, <2>1, <2>2, <2>3, <2>4 DEF TxnRollback, Agreement, Early, InBlock, Ending, Ended, Opening, Putting, diskVars, journalVars, txnVars
  <2>10. Legal'
    BY <1>0, <1>t, <1>x, <1>18, <2>1, <2>2, <2>3, <2>4 DEF TxnRollback, Legal, Early, InBlock, Ending, Ended, Opening, Putting, diskVars, journalVars, txnVars
  <2> QED
    BY <1>v, <2>5, <2>6, <2>7, <2>8, <2>9, <2>10 DEF OInv
<1>19. CASE UndoSync
  <2>1. mem' = mem /\ jmem' = jmem
    BY <1>19 DEF UndoSync, diskVars, journalVars, txnVars
  <2>2. (\A f : (Held(f)' <=> Held(f)) /\ Base(f)' = Base(f)) /\ View' = View
    BY <2>1, Quiet
  <2>3. files' = files /\ \A f : InFiles(f)' <=> InFiles(f)
    BY <1>19, SameFiles DEF UndoSync, txnVars
  <2>4. \A f : InTodo(f) <=> f = Head(todo) \/ InTodo(f)'
    BY <1>t, <1>19, TailCase DEF UndoSync, StepTypes, Ending
  <2>5. Coverage'
    BY <1>0, <1>t, <1>x, <1>19, <2>1, <2>2, <2>3, <2>4 DEF UndoSync, Coverage, Early, InBlock, Ending, Ended, Opening, Putting, diskVars, journalVars, txnVars
  <2>6. Phase'
    BY <1>0, <1>t, <1>x, <1>19, <2>1, <2>2, <2>3, <2>4 DEF UndoSync, Phase, Early, InBlock, Ending, Ended, Opening, Putting, diskVars, journalVars, txnVars
  <2>7. Restoring'
    BY <1>0, <1>t, <1>x, <1>19, <2>1, <2>2, <2>3, <2>4 DEF UndoSync, Restoring, Early, InBlock, Ending, Ended, Opening, Putting, diskVars, journalVars, txnVars
  <2>8. Logs'
    BY <1>0, <1>t, <1>x, <1>19, <2>1, <2>2, <2>3, <2>4 DEF UndoSync, Logs, Early, InBlock, Ending, Ended, Opening, Putting, diskVars, journalVars, txnVars
  <2>9. Agreement'
    BY <1>0, <1>t, <1>x, <1>19, <2>1, <2>2, <2>3, <2>4 DEF UndoSync, Agreement, Early, InBlock, Ending, Ended, Opening, Putting, diskVars, journalVars, txnVars
  <2>10. Legal'
    BY <1>0, <1>t, <1>x, <1>19, <2>1, <2>2, <2>3, <2>4 DEF UndoSync, Legal, Early, InBlock, Ending, Ended, Opening, Putting, diskVars, journalVars, txnVars
  <2> QED
    BY <1>v, <2>5, <2>6, <2>7, <2>8, <2>9, <2>10 DEF OInv
<1>20. CASE Kill
  <2>1. mem' = mem /\ jmem' = jmem
    BY <1>20 DEF Kill, diskVars, journalVars, txnVars, ProcessGone
  <2>2. (\A f : (Held(f)' <=> Held(f)) /\ Base(f)' = Base(f)) /\ View' = View
    BY <2>1, Quiet
  <2>3. files' = <<>> /\ open' = {} /\ depth' = 0 /\ pc' = "down" /\ \A f : ~InFiles(f)'
    BY <1>20 DEF Kill, ProcessGone, InFiles
  <2>4. Coverage'
    BY <1>0, <1>t, <1>x, <1>20, <2>1, <2>2, <2>3 DEF Kill, Coverage, Early, InBlock, Ending, Ended, Opening, Putting, diskVars, journalVars, txnVars, ProcessGone
  <2>5. Phase'
    BY <1>0, <1>t, <1>x, <1>20, <2>1, <2>2, <2>3 DEF Kill, Phase, Early, InBlock, Ending, Ended, Opening, Putting, diskVars, journalVars, txnVars, ProcessGone
  <2>6. Restoring'
    BY <1>0, <1>t, <1>x, <1>20, <2>1, <2>2, <2>3 DEF Kill, Restoring, Early, InBlock, Ending, Ended, Opening, Putting, diskVars, journalVars, txnVars, ProcessGone
  <2>7. Logs'
    BY <1>0, <1>t, <1>x, <1>20, <2>1, <2>2, <2>3 DEF Kill, Logs, Early, InBlock, Ending, Ended, Opening, Putting, diskVars, journalVars, txnVars, ProcessGone
  <2>8. Agreement'
    BY <1>0, <1>t, <1>x, <1>20, <2>1, <2>2, <2>3 DEF Kill, Agreement, Early, InBlock, Ending, Ended, Opening, Putting, diskVars, journalVars, txnVars, ProcessGone
  <2>9. Legal'
    BY <1>0, <1>t, <1>x, <1>20, <2>1, <2>2, <2>3 DEF Kill, Legal, Early, InBlock, Ending, Ended, Opening, Putting, diskVars, journalVars, txnVars, ProcessGone
  <2> QED
    BY <1>v, <2>4, <2>5, <2>6, <2>7, <2>8, <2>9 DEF OInv
<1>21. CASE UndoDone
  <2>1. mem' = mem /\ jmem' = jmem
    BY <1>21 DEF UndoDone, diskVars, journalVars, txnVars, Release
  <2>2. (\A f : (Held(f)' <=> Held(f)) /\ Base(f)' = Base(f)) /\ View' = View
    BY <2>1, Quiet
  <2>3. depth' = 0 /\ files' = <<>> /\ pc' = "idle" /\ jmem = None /\ (\A f : ~InFiles(f)' /\ ~Held(f))
    BY <1>0, <1>21, NoneHeld DEF UndoDone, Release, InFiles, Coverage, Ended
  <2>4. Coverage'
    BY <1>0, <1>t, <1>x, <1>21, <2>1, <2>2, <2>3 DEF UndoDone, Coverage, Early, InBlock, Ending, Ended, Opening, Putting, diskVars, journalVars, txnVars, Release
  <2>5. Phase'
    BY <1>0, <1>t, <1>x, <1>21, <2>1, <2>2, <2>3 DEF UndoDone, Phase, Early, InBlock, Ending, Ended, Opening, Putting, diskVars, journalVars, txnVars, Release
  <2>6. Restoring'
    BY <1>0, <1>t, <1>x, <1>21, <2>1, <2>2, <2>3 DEF UndoDone, Restoring, Early, InBlock, Ending, Ended, Opening, Putting, diskVars, journalVars, txnVars, Release
  <2>7. Logs'
    BY <1>0, <1>t, <1>x, <1>21, <2>1, <2>2, <2>3 DEF UndoDone, Logs, Early, InBlock, Ending, Ended, Opening, Putting, diskVars, journalVars, txnVars, Release
  <2>8. Agreement'
    BY <1>0, <1>t, <1>x, <1>21, <2>1, <2>2, <2>3 DEF UndoDone, Agreement, Early, InBlock, Ending, Ended, Opening, Putting, diskVars, journalVars, txnVars, Release
  <2>9. Legal'
    BY <1>0, <1>t, <1>x, <1>21, <2>1, <2>2, <2>3 DEF UndoDone, Legal, Early, InBlock, Ending, Ended, Opening, Putting, diskVars, journalVars, txnVars, Release
  <2> QED
    BY <1>v, <2>4, <2>5, <2>6, <2>7, <2>8, <2>9 DEF OInv
<1>22. CASE CommitDone
  <2>1. mem' = mem /\ jmem' = jmem
    BY <1>22 DEF CommitDone, diskVars, journalVars, txnVars, Release
  <2>2. (\A f : (Held(f)' <=> Held(f)) /\ Base(f)' = Base(f)) /\ View' = View
    BY <2>1, Quiet
  <2>3. depth' = 0 /\ files' = <<>> /\ pc' = "idle" /\ jmem = None /\ (\A f : ~InFiles(f)' /\ ~Held(f))
    BY <1>0, <1>22, NoneHeld DEF CommitDone, Release, InFiles, Coverage, Ended
  <2>4. Coverage'
    BY <1>0, <1>t, <1>x, <1>22, <2>1, <2>2, <2>3 DEF CommitDone, Coverage, Early, InBlock, Ending, Ended, Opening, Putting, diskVars, journalVars, txnVars, Release
  <2>5. Phase'
    BY <1>0, <1>t, <1>x, <1>22, <2>1, <2>2, <2>3 DEF CommitDone, Phase, Early, InBlock, Ending, Ended, Opening, Putting, diskVars, journalVars, txnVars, Release
  <2>6. Restoring'
    BY <1>0, <1>t, <1>x, <1>22, <2>1, <2>2, <2>3 DEF CommitDone, Restoring, Early, InBlock, Ending, Ended, Opening, Putting, diskVars, journalVars, txnVars, Release
  <2>7. Logs'
    BY <1>0, <1>t, <1>x, <1>22, <2>1, <2>2, <2>3 DEF CommitDone, Logs, Early, InBlock, Ending, Ended, Opening, Putting, diskVars, journalVars, txnVars, Release
  <2>8. Agreement'
    BY <1>0, <1>t, <1>x, <1>22, <2>1, <2>2, <2>3 DEF CommitDone, Agreement, Early, InBlock, Ending, Ended, Opening, Putting, diskVars, journalVars, txnVars, Release
  <2>9. Legal'
    <3>1. View \in outcomes /\ outcomes \subseteq [Stores -> Contents] /\ outcomes' = Committed
      BY <1>0, <1>22 DEF Legal, CommitDone
    <3>2. \A s \in Participants : View[s] = mem[Data(s)]
      <4>1. SUFFICES ASSUME NEW s \in Stores, Tracked(s) PROVE View[s] = mem[Data(s)]
        BY DEF Participants
      <4>2. InFiles(Data(s)) /\ s \in open
        BY <1>0, <4>1 DEF Tracked, InFiles, Coverage
      <4>3. Base(Data(s)) = mem[Data(s)] /\ Base(Wal(s)) = mem[Wal(s)]
        BY <2>3, NoneHeld
      <4>4. Agrees(mem[Data(s)], mem[Wal(s)]) /\ Closed(mem[Wal(s)])
        BY <1>0, <1>22, <4>2, <4>3 DEF CommitDone, Agreement, Logs
      <4> QED
        BY <1>t, <4>3, <4>4, AgreesFix DEF View, Typed
    <3>3. View = [s \in Stores |-> IF s \in Participants THEN mem[Data(s)] ELSE View[s]]
      BY <3>2 DEF View
    <3>4. View \in Committed
      BY <3>1, <3>3 DEF Committed
    <3>5. Committed \subseteq [Stores -> Contents]
      BY <1>t, <3>1 DEF Committed, Typed
    <3> QED
      BY <2>2, <3>1, <3>4, <3>5 DEF Legal
  <2> QED
    BY <1>v, <2>4, <2>5, <2>6, <2>7, <2>8, <2>9 DEF OInv
<1>23. CASE JournalRestore
  <2>1. /\ todo \in Seq(Image) /\ jmem \in Seq(Image) /\ jmem # None /\ todo # <<>> /\ Len(todo) \in DOMAIN jmem
        /\ Last(todo) = jmem[Len(todo)] /\ Last(todo).file \in File
    <3>1. todo \in Seq(Image) /\ JournalOK(todo) /\ todo # <<>>
      BY <1>t, <1>23 DEF JournalRestore, StepTypes
    <3>2. jmem \in Seq(Image) /\ jmem # None /\ Len(todo) <= Len(jmem) /\ \A i \in DOMAIN todo : todo[i] = jmem[i]
      BY <1>0, <1>t, <1>23 DEF JournalRestore, Restoring, JournalOK
    <3>3. Len(todo) \in DOMAIN todo /\ Len(todo) \in DOMAIN jmem
      BY <3>1, <3>2
    <3> QED
      BY <3>1, <3>2, <3>3, LastImage DEF Last
  <2>2. Held(Last(todo).file) /\ \A i, j \in DOMAIN jmem : jmem[i].file = jmem[j].file => i = j
    BY <1>0, <2>1, HeldAt DEF Coverage
  <2>3. todo' = todo /\ pc = "jrestore" /\ pc' = "jrsync" /\ open' = {}
    BY <1>0, <1>23 DEF JournalRestore, Coverage, Early
  <2>4. mem' = [mem EXCEPT ![Last(todo).file] = Last(todo).img] /\ jmem' = jmem /\ files' = files /\ DOMAIN mem = File /\ \A g : InFiles(g)' <=> InFiles(g)
    BY <1>t, <1>23, SameFiles DEF JournalRestore, Write, journalVars, txnVars, Typed
  <2>5. \A g : (Held(g)' <=> Held(g)) /\ (Held(g) => Base(g)' = Base(g)) /\ (~Held(g) => Base(g)' = mem'[g] /\ Base(g) = mem[g])
    BY <2>4, SameJournal
  <2>6. (\A g \in File : Base(g)' = Base(g)) /\ View' = View /\ \A s \in Stores : Base(Data(s))' = Base(Data(s)) /\ Base(Wal(s))' = Base(Wal(s))
    <3>1. \A g \in File : Base(g)' = Base(g)
      BY <2>2, <2>4, <2>5
    <3> QED
      BY <3>1, FileNames, SameView
  <2>7. Coverage'
    BY <1>0, <1>t, <1>x, <1>23, <2>1, <2>2, <2>3, <2>4, <2>5, <2>6 DEF JournalRestore, Coverage, Early, InBlock, Ending, Ended, Opening, Putting, journalVars, txnVars
  <2>8. Phase'
    BY <1>0, <1>t, <1>x, <1>23, <2>1, <2>2, <2>3, <2>4, <2>5, <2>6 DEF JournalRestore, Phase, Early, InBlock, Ending, Ended, Opening, Putting, journalVars, txnVars
  <2>9. Restoring'
    <3>1. ASSUME NEW i \in DOMAIN jmem, i > Len(todo) \/ i = Len(todo)
          PROVE  mem'[jmem[i].file] = jmem[i].img
      <4>1. jmem[i].file \in File
        <5>1. jmem[i] \in Image
          BY <2>1
        <5> QED
          BY <5>1 DEF Image
      <4>2. CASE i = Len(todo)
        BY <2>1, <2>4, <4>2
      <4>3. CASE i # Len(todo)
        <5>1. i > Len(todo) /\ jmem[i].file # Last(todo).file
          BY <2>1, <2>2, <3>1, <4>3
        <5>2. mem[jmem[i].file] = jmem[i].img
          BY <1>0, <2>3, <5>1 DEF Restoring
        <5> QED
          BY <2>4, <4>1, <5>1, <5>2
      <4> QED
        BY <4>2, <4>3
    <3> QED
      BY <1>0, <2>1, <2>3, <2>4, <3>1 DEF Restoring
  <2>10. Logs'
    BY <1>0, <1>t, <1>x, <1>23, <2>1, <2>2, <2>3, <2>4, <2>5, <2>6 DEF JournalRestore, Logs, Early, InBlock, Ending, Ended, Opening, Putting, journalVars, txnVars
  <2>11. Agreement'
    BY <1>0, <1>t, <1>x, <1>23, <2>1, <2>2, <2>3, <2>4, <2>5, <2>6 DEF JournalRestore, Agreement, Early, InBlock, Ending, Ended, Opening, Putting, journalVars, txnVars
  <2>12. Legal'
    BY <1>0, <1>t, <1>x, <1>23, <2>1, <2>2, <2>3, <2>4, <2>5, <2>6 DEF JournalRestore, Legal, Early, InBlock, Ending, Ended, Opening, Putting, journalVars, txnVars
  <2> QED
    BY <1>v, <2>7, <2>8, <2>9, <2>10, <2>11, <2>12 DEF OInv
<1>24. CASE Undo
  <2>1. Held(Head(todo))
    <3>1. Head(todo) \in DOMAIN snap /\ pc \notin Ended
      BY <1>t, <1>24 DEF Undo, StepTypes, Ending, Ended
    <3> QED
      BY <1>t, <3>1 DEF Images, Held
  <2>2. todo' = todo /\ snap' = snap /\ pc = "undo" /\ pc' = "usync" /\ Head(todo) \in File /\ \A f : InTodo(f)' <=> InTodo(f)
    BY <1>t, <1>24 DEF Undo, txnVars, StepTypes, Ending, InTodo
  <2>3. InFiles(Head(todo))
    <3>1. InTodo(Head(todo))
      BY <1>t, <1>24 DEF Undo, StepTypes, Ending, InTodo
    <3> QED
      BY <1>0, <2>2, <3>1 DEF Restoring
  <2>4. mem' = [mem EXCEPT ![Head(todo)] = snap[Head(todo)]] /\ jmem' = jmem /\ files' = files /\ DOMAIN mem = File /\ \A g : InFiles(g)' <=> InFiles(g)
    BY <1>t, <1>24, SameFiles DEF Undo, Write, journalVars, txnVars, Typed
  <2>5. \A g : (Held(g)' <=> Held(g)) /\ (Held(g) => Base(g)' = Base(g)) /\ (~Held(g) => Base(g)' = mem'[g] /\ Base(g) = mem[g])
    BY <2>4, SameJournal
  <2>6. (\A g \in File : Base(g)' = Base(g)) /\ View' = View /\ \A s \in Stores : Base(Data(s))' = Base(Data(s)) /\ Base(Wal(s))' = Base(Wal(s))
    <3>1. \A g \in File : Base(g)' = Base(g)
      BY <2>1, <2>4, <2>5
    <3> QED
      BY <3>1, FileNames, SameView
  <2>7. Coverage'
    BY <1>0, <1>t, <1>x, <1>24, <2>1, <2>2, <2>3, <2>4, <2>5, <2>6 DEF Undo, Coverage, Early, InBlock, Ending, Ended, Opening, Putting, journalVars, txnVars
  <2>8. Phase'
    BY <1>0, <1>t, <1>x, <1>24, <2>1, <2>2, <2>3, <2>4, <2>5, <2>6 DEF Undo, Phase, Early, InBlock, Ending, Ended, Opening, Putting, journalVars, txnVars
  <2>9. Restoring'
    BY <1>0, <1>t, <1>x, <1>24, <2>1, <2>2, <2>3, <2>4, <2>5, <2>6 DEF Undo, Restoring, Early, InBlock, Ending, Ended, Opening, Putting, journalVars, txnVars
  <2>10. Logs'
    BY <1>0, <1>t, <1>x, <1>24, <2>1, <2>2, <2>3, <2>4, <2>5, <2>6 DEF Undo, Logs, Early, InBlock, Ending, Ended, Opening, Putting, journalVars, txnVars
  <2>11. Agreement'
    <3>1. ASSUME NEW s \in Stores, ~InFiles(Data(s)) PROVE mem'[Data(s)] = mem[Data(s)] /\ mem'[Wal(s)] = mem[Wal(s)]
      <4>1. ~InFiles(Wal(s))
        BY <1>0, <2>2, <3>1 DEF Coverage, Ending
      <4> QED
        BY <2>3, <2>4, <3>1, <4>1, FileNames
    <3>2. open' = open /\ open \subseteq Stores
      BY <1>0, <1>24 DEF Undo, TInv, TypeOK
    <3> QED
      BY <1>0, <2>2, <2>4, <2>5, <2>6, <3>1, <3>2, FileNames DEF Agreement, Early
  <2>12. Legal'
    BY <1>0, <1>t, <1>x, <1>24, <2>1, <2>2, <2>3, <2>4, <2>5, <2>6 DEF Undo, Legal, Early, InBlock, Ending, Ended, Opening, Putting, journalVars, txnVars
  <2> QED
    BY <1>v, <2>7, <2>8, <2>9, <2>10, <2>11, <2>12 DEF OInv
<1>25. CASE LogBegin
  <2>1. cur.store \in Stores /\ cur.row \in Rows /\ cur.val \in Values /\ cur' = cur
    BY <1>t, <1>25 DEF LogBegin, StepTypes, Putting
  <2>2. Held(Wal(cur.store)) /\ pc = "begin" /\ pc' = "bsync"
    BY <1>0, <1>25, <2>1 DEF LogBegin, Coverage, InBlock
  <2>3. Agrees(mem[Data(cur.store)], mem[Wal(cur.store)]) /\ open' = open /\ open \subseteq Stores
    BY <1>0, <1>25, <2>1, <2>2 DEF LogBegin, Phase, Putting, Agreement, TInv, TypeOK
  <2>4. mem' = [mem EXCEPT ![Wal(cur.store)] = Append(mem[Wal(cur.store)], BeginFrame(mem[Data(cur.store)]))] /\ jmem' = jmem /\ files' = files /\ DOMAIN mem = File /\ \A g : InFiles(g)' <=> InFiles(g)
    BY <1>t, <1>25, SameFiles DEF LogBegin, Write, journalVars, txnVars, Typed
  <2>5. \A g : (Held(g)' <=> Held(g)) /\ (Held(g) => Base(g)' = Base(g)) /\ (~Held(g) => Base(g)' = mem'[g] /\ Base(g) = mem[g])
    BY <2>4, SameJournal
  <2>6. (\A g \in File : Base(g)' = Base(g)) /\ View' = View /\ \A s \in Stores : Base(Data(s))' = Base(Data(s)) /\ Base(Wal(s))' = Base(Wal(s))
    <3>1. \A g \in File : Base(g)' = Base(g)
      BY <2>2, <2>4, <2>5
    <3> QED
      BY <3>1, FileNames, SameView
  <2>7. Agrees(mem'[Data(cur.store)], mem'[Wal(cur.store)])
    <3>1. mem[Data(cur.store)] \in Contents /\ mem[Wal(cur.store)] \in Seq(Frame)
      BY <1>t, <2>1 DEF Typed
    <3>2. BeginFrame(mem[Data(cur.store)]) \in Frame /\ BeginFrame(mem[Data(cur.store)]).op # "put"
      BY <3>1, NewFrames DEF BeginFrame
    <3>3. /\ mem'[Data(cur.store)] = mem[Data(cur.store)]
          /\ mem'[Wal(cur.store)] = Append(mem[Wal(cur.store)], BeginFrame(mem[Data(cur.store)]))
      BY <2>1, <2>4, FileNames
    <3> QED
      BY <2>3, <3>1, <3>2, <3>3, AgreesFrame
  <2>8. \A s \in Stores : s # cur.store => mem'[Data(s)] = mem[Data(s)] /\ mem'[Wal(s)] = mem[Wal(s)]
    BY <2>1, <2>4, FileNames
  <2>9. Coverage'
    BY <1>0, <1>t, <1>x, <1>25, <2>1, <2>2, <2>3, <2>4, <2>5, <2>6, <2>7, <2>8 DEF LogBegin, Coverage, Early, InBlock, Ending, Ended, Opening, Putting, journalVars, txnVars
  <2>10. Phase'
    BY <1>0, <1>t, <1>x, <1>25, <2>1, <2>2, <2>3, <2>4, <2>5, <2>6, <2>7, <2>8 DEF LogBegin, Phase, Early, InBlock, Ending, Ended, Opening, Putting, journalVars, txnVars
  <2>11. Restoring'
    BY <1>0, <1>t, <1>x, <1>25, <2>1, <2>2, <2>3, <2>4, <2>5, <2>6, <2>7, <2>8 DEF LogBegin, Restoring, Early, InBlock, Ending, Ended, Opening, Putting, journalVars, txnVars
  <2>12. Logs'
    BY <1>0, <1>t, <1>x, <1>25, <2>1, <2>2, <2>3, <2>4, <2>5, <2>6, <2>7, <2>8 DEF LogBegin, Logs, Early, InBlock, Ending, Ended, Opening, Putting, journalVars, txnVars
  <2>13. Agreement'
    BY <1>0, <2>1, <2>2, <2>3, <2>4, <2>5, <2>6, <2>7, <2>8, FileNames DEF Agreement, Early
  <2>14. Legal'
    BY <1>0, <1>t, <1>x, <1>25, <2>1, <2>2, <2>3, <2>4, <2>5, <2>6, <2>7, <2>8 DEF LogBegin, Legal, Early, InBlock, Ending, Ended, Opening, Putting, journalVars, txnVars
  <2> QED
    BY <1>v, <2>9, <2>10, <2>11, <2>12, <2>13, <2>14 DEF OInv
<1>26. CASE LogRow
  <2>1. cur.store \in Stores /\ cur.row \in Rows /\ cur.val \in Values /\ cur' = cur
    BY <1>t, <1>26 DEF LogRow, StepTypes, Putting
  <2>2. pc = "log" /\ pc' = "force" /\ depth' = depth /\ open' = open /\ open \subseteq Stores /\ cur.store \in open
    BY <1>0, <1>26, <2>1 DEF LogRow, txnVars, Phase, Putting, TInv, TypeOK
  <2>3. /\ mem[Data(cur.store)] \in Contents /\ mem[Wal(cur.store)] \in Seq(Frame)
        /\ PutFrame(cur.row, cur.val) \in Frame /\ Agrees(mem[Data(cur.store)], mem[Wal(cur.store)])
    BY <1>0, <1>t, <2>1, <2>2, NewFrames DEF Typed, Agreement
  <2>4. mem' = [mem EXCEPT ![Wal(cur.store)] = Append(mem[Wal(cur.store)], PutFrame(cur.row, cur.val))] /\ jmem' = jmem /\ files' = files /\ DOMAIN mem = File /\ \A g : InFiles(g)' <=> InFiles(g)
    BY <1>t, <1>26, SameFiles DEF LogRow, Write, journalVars, txnVars, Typed
  <2>5. \A g : (Held(g)' <=> Held(g)) /\ (Held(g) => Base(g)' = Base(g)) /\ (~Held(g) => Base(g)' = mem'[g] /\ Base(g) = mem[g])
    BY <2>4, SameJournal
  <2>6. \A s \in Stores : s # cur.store => mem'[Data(s)] = mem[Data(s)] /\ mem'[Wal(s)] = mem[Wal(s)]
    BY <2>1, <2>4, FileNames
  <2>7. /\ mem'[Data(cur.store)] = mem[Data(cur.store)]
        /\ mem'[Wal(cur.store)] = Append(mem[Wal(cur.store)], PutFrame(cur.row, cur.val))
    BY <2>1, <2>4, FileNames
  <2>8. depth > 0 => Held(Wal(cur.store)) /\ Held(Data(cur.store))
    BY <1>0, <2>1, <2>2 DEF Phase, Putting, Coverage, InBlock
  <2>9. depth = 0 => \A g : ~Held(g)
    BY <1>0, <2>2, NoneHeld DEF Coverage, InBlock
  <2>10. \A s \in Stores : Base(Data(s))' = Base(Data(s)) /\ (Base(Wal(s))' = Base(Wal(s)) \/ (depth = 0 /\ s = cur.store))
    BY <1>t, <2>1, <2>5, <2>6, <2>7, <2>8, <2>9
  <2>11. Closed(Base(Wal(cur.store))) /\ (depth = 0 => Base(Wal(cur.store)) = mem[Wal(cur.store)] /\ Base(Data(cur.store)) = mem[Data(cur.store)])
    BY <1>0, <2>1, <2>5, <2>9 DEF Logs
  <2>12. depth = 0 => View' = [View EXCEPT ![cur.store][cur.row] = cur.val]
    <3> SUFFICES ASSUME depth = 0 PROVE View' = [View EXCEPT ![cur.store][cur.row] = cur.val]
      OBVIOUS
    <3>1. \A s \in Stores : s # cur.store => View'[s] = View[s]
      BY <2>1, <2>10 DEF View
    <3>2. Replay(mem[Data(cur.store)], Append(mem[Wal(cur.store)], PutFrame(cur.row, cur.val)))
            = [Replay(mem[Data(cur.store)], mem[Wal(cur.store)]) EXCEPT ![cur.row] = cur.val]
      BY <2>1, <2>3, <2>11, ReplayPut
    <3>3. ASSUME NEW s \in Stores, s = cur.store PROVE View'[s] = [View[s] EXCEPT ![cur.row] = cur.val]
      <4>1. View[s] = Replay(mem[Data(s)], mem[Wal(s)])
        BY <2>11, <3>3 DEF View
      <4>2. Base(Data(s))' = mem[Data(s)] /\ Base(Wal(s))' = Append(mem[Wal(s)], PutFrame(cur.row, cur.val))
        BY <2>5, <2>7, <2>9, <3>3
      <4>3. View'[s] = Replay(Base(Data(s))', Base(Wal(s))')
        BY DEF View
      <4> QED
        BY <3>2, <3>3, <4>1, <4>2, <4>3
    <3>4. View \in [Stores -> Contents] /\ DOMAIN View' = Stores /\ View' = [s \in Stores |-> View'[s]]
      BY <1>t, ViewTyped DEF View
    <3> QED
      BY <2>1, <3>1, <3>3, <3>4
  <2>13. Coverage'
    BY <1>0, <1>t, <1>x, <1>26, <2>1, <2>2, <2>3, <2>4, <2>5, <2>6, <2>7, <2>8, <2>9, <2>10, <2>11, <2>12 DEF LogRow, Coverage, Early, InBlock, Ending, Ended, Opening, Putting, journalVars, txnVars
  <2>14. Phase'
    BY <1>0, <1>t, <1>x, <1>26, <2>1, <2>2, <2>3, <2>4, <2>5, <2>6, <2>7, <2>8, <2>9, <2>10, <2>11, <2>12 DEF LogRow, Phase, Early, InBlock, Ending, Ended, Opening, Putting, journalVars, txnVars
  <2>15. Restoring'
    BY <1>0, <1>t, <1>x, <1>26, <2>1, <2>2, <2>3, <2>4, <2>5, <2>6, <2>7, <2>8, <2>9, <2>10, <2>11, <2>12 DEF LogRow, Restoring, Early, InBlock, Ending, Ended, Opening, Putting, journalVars, txnVars
  <2>16. Logs'
    <3>1. ASSUME NEW s \in Stores PROVE Closed(Base(Wal(s))')
      <4>1. CASE Base(Wal(s))' = Base(Wal(s))
        BY <1>0, <4>1 DEF Logs
      <4>2. CASE depth = 0 /\ s = cur.store
        <5>1. Base(Wal(s))' = Append(mem[Wal(cur.store)], PutFrame(cur.row, cur.val))
          BY <2>5, <2>7, <2>9, <4>2
        <5> QED
          BY <2>1, <2>3, <2>11, <4>2, <5>1, ClosedAppend
      <4> QED
        BY <2>10, <4>1, <4>2
    <3>2. LET u == mem'[Wal(cur.store)] IN u = <<>> \/ (Len(u) > 0 /\ u[Len(u)] = PutFrame(cur.row, cur.val))
      BY <2>3, <2>7, Appended
    <3> QED
      BY <2>1, <2>2, <3>1, <3>2 DEF Logs
  <2>17. Agreement'
    <3>1. Agrees([mem'[Data(cur.store)] EXCEPT ![cur.row] = cur.val], mem'[Wal(cur.store)])
      BY <2>1, <2>3, <2>7, AgreesPut
    <3>2. \A s \in Stores : Held(Data(s))' /\ Held(Wal(s))' => Agrees(Base(Data(s))', Base(Wal(s))')
      BY <1>0, <2>2, <2>5, <2>9, <2>10 DEF Agreement, Early
    <3>3. \A s \in open : s = cur.store \/ Agrees(mem'[Data(s)], mem'[Wal(s)])
      BY <1>0, <2>2, <2>6 DEF Agreement
    <3> QED
      BY <2>1, <2>2, <3>1, <3>2, <3>3 DEF Agreement
  <2>18. Legal'
    <3>1. View \in outcomes /\ outcomes \subseteq [Stores -> Contents]
      BY <1>0 DEF Legal
    <3>2. CASE depth = 0
      <4>1. outcomes' = outcomes \cup WithPut
        BY <1>26, <3>2 DEF LogRow
      <4>2. View' \in WithPut
        BY <2>12, <3>1, <3>2 DEF WithPut
      <4>3. WithPut \subseteq [Stores -> Contents]
        BY <2>1, <3>1, WithPutTyped
      <4> QED
        BY <3>1, <4>1, <4>2, <4>3 DEF Legal
    <3>3. CASE depth # 0
      BY <1>26, <2>10, <3>1, <3>3, SameView DEF LogRow, Legal
    <3> QED
      BY <3>2, <3>3
  <2> QED
    BY <1>v, <2>13, <2>14, <2>15, <2>16, <2>17, <2>18 DEF OInv
<1>27. CASE Apply
  <2>1. cur.store \in Stores /\ cur.row \in Rows /\ cur.val \in Values /\ cur' = cur
    BY <1>t, <1>27 DEF Apply, StepTypes, Putting
  <2>2. pc = "apply" /\ pc' = "idle" /\ depth' = depth /\ open' = open /\ open \subseteq Stores /\ cur.store \in open
    BY <1>0, <1>27, <2>1 DEF Apply, txnVars, Phase, Putting, TInv, TypeOK
  <2>3. /\ mem[Data(cur.store)] \in Contents /\ mem[Wal(cur.store)] \in Seq(Frame)
        /\ Agrees([mem[Data(cur.store)] EXCEPT ![cur.row] = cur.val], mem[Wal(cur.store)])
    BY <1>0, <1>t, <2>1, <2>2 DEF Typed, Agreement
  <2>4. mem' = [mem EXCEPT ![Data(cur.store)] = [mem[Data(cur.store)] EXCEPT ![cur.row] = cur.val]] /\ jmem' = jmem /\ files' = files /\ DOMAIN mem = File /\ \A g : InFiles(g)' <=> InFiles(g)
    BY <1>t, <1>27, SameFiles DEF Apply, Write, journalVars, txnVars, Typed
  <2>5. \A g : (Held(g)' <=> Held(g)) /\ (Held(g) => Base(g)' = Base(g)) /\ (~Held(g) => Base(g)' = mem'[g] /\ Base(g) = mem[g])
    BY <2>4, SameJournal
  <2>6. \A s \in Stores : s # cur.store => mem'[Data(s)] = mem[Data(s)] /\ mem'[Wal(s)] = mem[Wal(s)]
    BY <2>1, <2>4, FileNames
  <2>7. /\ mem'[Wal(cur.store)] = mem[Wal(cur.store)]
        /\ mem'[Data(cur.store)] = [mem[Data(cur.store)] EXCEPT ![cur.row] = cur.val]
    BY <2>1, <2>4, FileNames
  <2>8. depth > 0 => Held(Wal(cur.store)) /\ Held(Data(cur.store))
    BY <1>0, <2>1, <2>2 DEF Phase, Putting, Coverage, InBlock
  <2>9. depth = 0 => \A g : ~Held(g)
    BY <1>0, <2>2, NoneHeld DEF Coverage, InBlock
  <2>10. \A s \in Stores : Base(Wal(s))' = Base(Wal(s)) /\ (Base(Data(s))' = Base(Data(s)) \/ (depth = 0 /\ s = cur.store))
    BY <1>t, <2>1, <2>5, <2>6, <2>7, <2>8, <2>9
  <2>11. depth # 0 => View' = View
    BY <2>10, SameView
  <2>12. depth = 0 => View' = [View EXCEPT ![cur.store][cur.row] = cur.val]
    <3> SUFFICES ASSUME depth = 0 PROVE View' = [View EXCEPT ![cur.store][cur.row] = cur.val]
      OBVIOUS
    <3> DEFINE w == mem[Wal(cur.store)]
               d == mem[Data(cur.store)]
               e == [d EXCEPT ![cur.row] = cur.val]
    <3>1. /\ Base(Data(cur.store)) = d /\ Base(Wal(cur.store)) = w
          /\ Base(Data(cur.store))' = e /\ Base(Wal(cur.store))' = w
      <4> USE DEF w, d, e
      <4>1. ~Held(Data(cur.store)) /\ ~Held(Wal(cur.store)) /\ cur' = cur
        BY <2>1, <2>9
      <4> QED
        BY <2>5, <2>7, <4>1
    <3>2. Closed(w) /\ w \in Seq(Frame) /\ d \in Contents /\ e \in Contents /\ Agrees(e, w)
      BY <1>0, <2>1, <2>3, <3>1 DEF Logs, Contents
    <3>3. Replay(e, w) = e
      BY <3>2, AgreesFix
    <3>4. Replay(d, w) = e \/ Replay(d, w) = d
      <4>1. w = <<>> \/ (Len(w) > 0 /\ w[Len(w)] = PutFrame(cur.row, cur.val))
        BY <1>0, <2>2 DEF Logs
      <4>2. CASE w = <<>>
        BY <3>2, <4>2, EmptyLog
      <4>3. CASE Len(w) > 0 /\ w[Len(w)] = PutFrame(cur.row, cur.val)
        BY <2>1, <2>3, <3>2, <4>3, ReplayLogged
      <4> QED
        BY <4>1, <4>2, <4>3
    <3>5. View[cur.store] = Replay(d, w)
      BY <2>1, <3>1 DEF View
    <3>6. View'[cur.store] = e
      <4>1. View'[cur.store] = Replay(Base(Data(cur.store))', Base(Wal(cur.store))')
        BY <2>1 DEF View
      <4> QED
        BY <3>1, <3>3, <4>1
    <3>7. View'[cur.store] = [View[cur.store] EXCEPT ![cur.row] = cur.val]
      BY <2>1, <3>2, <3>4, <3>5, <3>6 DEF Contents
    <3>8. \A s \in Stores : s # cur.store => View'[s] = View[s]
      BY <2>10 DEF View
    <3>9. View \in [Stores -> Contents] /\ View' = [s \in Stores |-> View'[s]]
      BY <1>t, ViewTyped DEF View
    <3> QED
      BY <2>1, <3>7, <3>8, <3>9
  <2>13. Coverage'
    BY <1>0, <1>t, <1>x, <1>27, <2>1, <2>2, <2>3, <2>4, <2>5, <2>6, <2>7, <2>8, <2>9, <2>10, <2>11, <2>12 DEF Apply, Coverage, Early, InBlock, Ending, Ended, Opening, Putting, journalVars, txnVars
  <2>14. Phase'
    BY <1>0, <1>t, <1>x, <1>27, <2>1, <2>2, <2>3, <2>4, <2>5, <2>6, <2>7, <2>8, <2>9, <2>10, <2>11, <2>12 DEF Apply, Phase, Early, InBlock, Ending, Ended, Opening, Putting, journalVars, txnVars
  <2>15. Restoring'
    BY <1>0, <1>t, <1>x, <1>27, <2>1, <2>2, <2>3, <2>4, <2>5, <2>6, <2>7, <2>8, <2>9, <2>10, <2>11, <2>12 DEF Apply, Restoring, Early, InBlock, Ending, Ended, Opening, Putting, journalVars, txnVars
  <2>16. Logs'
    BY <1>0, <1>t, <1>x, <1>27, <2>1, <2>2, <2>3, <2>4, <2>5, <2>6, <2>7, <2>8, <2>9, <2>10, <2>11, <2>12 DEF Apply, Logs, Early, InBlock, Ending, Ended, Opening, Putting, journalVars, txnVars
  <2>17. Agreement'
    <3>1. Agrees(mem'[Data(cur.store)], mem'[Wal(cur.store)])
      BY <2>3, <2>7
    <3>2. \A s \in Stores : Held(Data(s))' /\ Held(Wal(s))' => Agrees(Base(Data(s))', Base(Wal(s))')
      BY <1>0, <2>2, <2>5, <2>9, <2>10 DEF Agreement, Early
    <3>3. \A s \in open : Agrees(mem'[Data(s)], mem'[Wal(s)])
      BY <1>0, <2>2, <2>6, <3>1 DEF Agreement
    <3> QED
      BY <2>2, <3>2, <3>3 DEF Agreement
  <2>18. Legal'
    <3>1. View \in outcomes /\ outcomes \subseteq [Stores -> Contents]
      BY <1>0 DEF Legal
    <3>2. CASE depth = 0
      <4>1. View' \in WithPut /\ WithPut \subseteq [Stores -> Contents]
        BY <2>1, <2>12, <3>1, <3>2, WithPutTyped DEF WithPut
      <4>2. outcomes' = WithPut \/ (outcomes' = outcomes /\ WithPut \subseteq outcomes)
        BY <1>27, <2>2, <3>2 DEF Apply, SInv, EitherLegal
      <4> QED
        BY <3>1, <4>1, <4>2 DEF Legal
    <3>3. CASE depth # 0
      BY <1>27, <2>11, <3>1, <3>3 DEF Apply, Legal
    <3> QED
      BY <3>2, <3>3
  <2> QED
    BY <1>v, <2>13, <2>14, <2>15, <2>16, <2>17, <2>18 DEF OInv
<1>28. CASE CommitFrameWrite
  <2>1. Held(Head(todo))
    <3>1. Head(todo) \in DOMAIN snap /\ pc \notin Ended
      BY <1>t, <1>28 DEF CommitFrameWrite, StepTypes, Ending, Ended
    <3> QED
      BY <1>t, <3>1 DEF Images, Held
  <2>2. todo' = todo /\ open' = open /\ open \subseteq Stores /\ pc = "cframe" /\ pc' = "cfsync" /\ \A f : InTodo(f)' <=> InTodo(f)
    BY <1>0, <1>28 DEF CommitFrameWrite, InTodo, TInv, TypeOK
  <2>3. Head(todo) \in File /\ \E s \in Stores : Head(todo) = Wal(s)
    <3>1. Head(todo) \in File /\ IsWal(Head(todo))
      BY <1>t, <1>28 DEF CommitFrameWrite, StepTypes, Ending
    <3> QED
      BY <3>1, FileNames
  <2>4. mem' = [mem EXCEPT ![Head(todo)] = Append(mem[Head(todo)], CommitFrame)] /\ jmem' = jmem /\ files' = files /\ DOMAIN mem = File /\ \A g : InFiles(g)' <=> InFiles(g)
    BY <1>t, <1>28, SameFiles DEF CommitFrameWrite, Write, journalVars, txnVars, Typed
  <2>5. \A g : (Held(g)' <=> Held(g)) /\ (Held(g) => Base(g)' = Base(g)) /\ (~Held(g) => Base(g)' = mem'[g] /\ Base(g) = mem[g])
    BY <2>4, SameJournal
  <2>6. (\A g \in File : Base(g)' = Base(g)) /\ View' = View /\ \A s \in Stores : Base(Data(s))' = Base(Data(s)) /\ Base(Wal(s))' = Base(Wal(s))
    <3>1. \A g \in File : Base(g)' = Base(g)
      BY <2>1, <2>4, <2>5
    <3> QED
      BY <3>1, FileNames, SameView
  <2>7. \A s \in Stores : mem'[Data(s)] = mem[Data(s)]
    BY <2>3, <2>4, FileNames
  <2>8. Closed(mem'[Head(todo)])
    <3>1. PICK s \in Stores : Head(todo) = Wal(s)
      BY <2>3
    <3>2. mem[Wal(s)] \in Seq(Frame) /\ mem'[Wal(s)] = Append(mem[Wal(s)], CommitFrame)
      BY <1>t, <2>4, <3>1, FileNames DEF Typed
    <3> QED
      BY <3>1, <3>2, ClosedAppend
  <2>9. \A s \in Stores : Agrees(mem[Data(s)], mem[Wal(s)]) => Agrees(mem'[Data(s)], mem'[Wal(s)])
    <3>1. SUFFICES ASSUME NEW s \in Stores, Agrees(mem[Data(s)], mem[Wal(s)])
                   PROVE  Agrees(mem'[Data(s)], mem'[Wal(s)])
      OBVIOUS
    <3>2. CASE Wal(s) = Head(todo)
      <4>1. CommitFrame \in Frame /\ CommitFrame.op # "put" /\ mem[Wal(s)] \in Seq(Frame)
        BY <1>t, NewFrames DEF CommitFrame, Typed
      <4>2. mem'[Wal(s)] = Append(mem[Wal(s)], CommitFrame)
        BY <2>4, <3>2, FileNames
      <4> QED
        BY <2>7, <3>1, <4>1, <4>2, AgreesFrame
    <3>3. CASE Wal(s) # Head(todo)
      BY <2>4, <2>7, <3>1, <3>3, FileNames
    <3> QED
      BY <3>2, <3>3
  <2>10. Coverage'
    BY <1>0, <1>t, <1>x, <1>28, <2>1, <2>2, <2>3, <2>4, <2>5, <2>6, <2>7, <2>8, <2>9 DEF CommitFrameWrite, Coverage, Early, InBlock, Ending, Ended, Opening, Putting, journalVars, txnVars
  <2>11. Phase'
    BY <1>0, <1>t, <1>x, <1>28, <2>1, <2>2, <2>3, <2>4, <2>5, <2>6, <2>7, <2>8, <2>9 DEF CommitFrameWrite, Phase, Early, InBlock, Ending, Ended, Opening, Putting, journalVars, txnVars
  <2>12. Restoring'
    BY <1>0, <1>t, <1>x, <1>28, <2>1, <2>2, <2>3, <2>4, <2>5, <2>6, <2>7, <2>8, <2>9 DEF CommitFrameWrite, Restoring, Early, InBlock, Ending, Ended, Opening, Putting, journalVars, txnVars
  <2>13. Logs'
    <3>1. \A s \in Stores : Wal(s) # Head(todo) => mem'[Wal(s)] = mem[Wal(s)]
      BY <2>4, FileNames
    <3> QED
      BY <1>0, <2>2, <2>4, <2>6, <2>8, <3>1 DEF Logs
  <2>14. Agreement'
    BY <1>0, <2>2, <2>5, <2>6, <2>9 DEF Agreement, Early
  <2>15. Legal'
    BY <1>0, <1>t, <1>x, <1>28, <2>1, <2>2, <2>3, <2>4, <2>5, <2>6, <2>7, <2>8, <2>9 DEF CommitFrameWrite, Legal, Early, InBlock, Ending, Ended, Opening, Putting, journalVars, txnVars
  <2> QED
    BY <1>v, <2>10, <2>11, <2>12, <2>13, <2>14, <2>15 DEF OInv
<1>29. CASE RecoverRewrite
  <2>1. cur \in Stores /\ cur' = cur /\ open' = open /\ open \subseteq Stores /\ cur \in open
    BY <1>0, <1>t, <1>29 DEF RecoverRewrite, StepTypes, Opening, Phase, TInv, TypeOK
  <2>2. pc = "rewrite" /\ pc' = "rwsync" /\ outcomes' = outcomes /\ ~Held(Data(cur)) /\ ~Held(Wal(cur)) /\ ~InFiles(Data(cur))
    BY <1>0, <1>29, <2>1 DEF RecoverRewrite, Phase, Opening, Coverage, InBlock
  <2>3. mem[Data(cur)] \in Contents /\ mem[Wal(cur)] \in Seq(Frame) /\ Closed(mem[Wal(cur)])
    BY <1>0, <1>t, <2>1, <2>2 DEF Typed, Logs, Base
  <2>4. mem' = [mem EXCEPT ![Data(cur)] = Recovered(cur)] /\ jmem' = jmem /\ files' = files /\ DOMAIN mem = File /\ \A g : InFiles(g)' <=> InFiles(g)
    BY <1>t, <1>29, SameFiles DEF RecoverRewrite, Write, journalVars, txnVars, Typed
  <2>5. \A g : (Held(g)' <=> Held(g)) /\ (Held(g) => Base(g)' = Base(g)) /\ (~Held(g) => Base(g)' = mem'[g] /\ Base(g) = mem[g])
    BY <2>4, SameJournal
  <2>6. \A s \in Stores : (s # cur => mem'[Data(s)] = mem[Data(s)]) /\ mem'[Wal(s)] = mem[Wal(s)]
    BY <2>1, <2>4, FileNames
  <2>7. Recovered(cur) = Replay(mem[Data(cur)], mem[Wal(cur)]) /\ Recovered(cur) \in Contents /\ Agrees(Recovered(cur), mem[Wal(cur)])
    <3>1. Recovered(cur) = Replay(mem[Data(cur)], mem[Wal(cur)])
      BY <1>t, <2>1, <2>3, RecoveredIs
    <3> QED
      BY <2>3, <3>1, ReplayIs, ReplayAgrees
  <2>8. mem'[Data(cur)] = Recovered(cur)
    BY <2>1, <2>4, FileNames
  <2>9. \A s \in Stores : Base(Wal(s))' = Base(Wal(s)) /\ (s # cur => Base(Data(s))' = Base(Data(s)))
    BY <2>5, <2>6
  <2>10. View' = View
    <3>1. ASSUME NEW s \in Stores PROVE Replay(Base(Data(s))', Base(Wal(s))') = Replay(Base(Data(s)), Base(Wal(s)))
      <4>1. CASE s # cur
        BY <2>9, <4>1
      <4>2. CASE s = cur
        <5>1. /\ Base(Data(s)) = mem[Data(cur)] /\ Base(Wal(s)) = mem[Wal(cur)]
              /\ Base(Data(s))' = Recovered(cur) /\ Base(Wal(s))' = mem[Wal(cur)]
          BY <2>1, <2>2, <2>5, <2>6, <2>8, <4>2
        <5>2. Replay(Recovered(cur), mem[Wal(cur)]) = Recovered(cur)
          BY <2>3, <2>7, AgreesFix
        <5> QED
          BY <2>7, <5>1, <5>2
      <4> QED
        BY <4>1, <4>2
    <3> QED
      BY <3>1 DEF View
  <2>11. Coverage'
    BY <1>0, <1>t, <1>x, <1>29, <2>1, <2>2, <2>3, <2>4, <2>5, <2>6, <2>7, <2>8, <2>9, <2>10 DEF RecoverRewrite, Coverage, Early, InBlock, Ending, Ended, Opening, Putting, journalVars, txnVars
  <2>12. Phase'
    BY <1>0, <1>t, <1>x, <1>29, <2>1, <2>2, <2>3, <2>4, <2>5, <2>6, <2>7, <2>8, <2>9, <2>10 DEF RecoverRewrite, Phase, Early, InBlock, Ending, Ended, Opening, Putting, journalVars, txnVars
  <2>13. Restoring'
    BY <1>0, <1>t, <1>x, <1>29, <2>1, <2>2, <2>3, <2>4, <2>5, <2>6, <2>7, <2>8, <2>9, <2>10 DEF RecoverRewrite, Restoring, Early, InBlock, Ending, Ended, Opening, Putting, journalVars, txnVars
  <2>14. Logs'
    BY <1>0, <1>t, <1>x, <1>29, <2>1, <2>2, <2>3, <2>4, <2>5, <2>6, <2>7, <2>8, <2>9, <2>10 DEF RecoverRewrite, Logs, Early, InBlock, Ending, Ended, Opening, Putting, journalVars, txnVars
  <2>15. Agreement'
    <3>1. \A s \in Stores : Held(Data(s))' /\ Held(Wal(s))' => Agrees(Base(Data(s))', Base(Wal(s))')
      BY <1>0, <2>2, <2>5 DEF Agreement, Early
    <3>2. \A s \in open : Agrees(mem'[Data(s)], mem'[Wal(s)])
      BY <1>0, <2>1, <2>2, <2>6, <2>7, <2>8 DEF Agreement
    <3> QED
      BY <2>1, <2>2, <3>1, <3>2 DEF Agreement
  <2>16. Legal'
    BY <1>0, <1>t, <1>x, <1>29, <2>1, <2>2, <2>3, <2>4, <2>5, <2>6, <2>7, <2>8, <2>9, <2>10 DEF RecoverRewrite, Legal, Early, InBlock, Ending, Ended, Opening, Putting, journalVars, txnVars
  <2> QED
    BY <1>v, <2>11, <2>12, <2>13, <2>14, <2>15, <2>16 DEF OInv
<1>30. CASE CheckpointTruncate
  <2>1. cur \in Stores /\ cur' = cur /\ open' = open /\ open \subseteq Stores /\ cur \in open
    BY <1>0, <1>t, <1>30 DEF CheckpointTruncate, StepTypes, Opening, Phase, TInv, TypeOK
  <2>2. pc = "trunc" /\ pc' = "tsync" /\ outcomes' = outcomes /\ jmem = None /\ \A f : ~Held(f)
    BY <1>0, <1>30, NoneHeld DEF CheckpointTruncate, Phase, Coverage, InBlock
  <2>3. mem[Data(cur)] \in Contents /\ mem[Wal(cur)] \in Seq(Frame) /\ Closed(mem[Wal(cur)]) /\ Agrees(mem[Data(cur)], mem[Wal(cur)])
    BY <1>0, <1>t, <2>1, <2>2 DEF Typed, Logs, Base, Agreement
  <2>4. mem' = [mem EXCEPT ![Wal(cur)] = <<>>] /\ jmem' = jmem /\ files' = files /\ DOMAIN mem = File /\ \A g : InFiles(g)' <=> InFiles(g)
    BY <1>t, <1>30, SameFiles DEF CheckpointTruncate, Write, journalVars, txnVars, Typed
  <2>5. \A g : (Held(g)' <=> Held(g)) /\ (Held(g) => Base(g)' = Base(g)) /\ (~Held(g) => Base(g)' = mem'[g] /\ Base(g) = mem[g])
    BY <2>4, SameJournal
  <2>6. \A s \in Stores : (s # cur => mem'[Wal(s)] = mem[Wal(s)]) /\ mem'[Data(s)] = mem[Data(s)]
    BY <2>1, <2>4, FileNames
  <2>7. mem'[Wal(cur)] = <<>> /\ Agrees(mem[Data(cur)], <<>>) /\ Closed(<<>>) /\ <<>> \in Seq(Frame)
    <3>1. mem'[Wal(cur)] = <<>>
      BY <2>1, <2>4, FileNames
    <3> QED
      BY <2>3, <3>1, ClosedAppend DEF Agrees
  <2>8. View' = View
    <3>1. ASSUME NEW s \in Stores PROVE Replay(Base(Data(s))', Base(Wal(s))') = Replay(Base(Data(s)), Base(Wal(s)))
      <4>1. CASE s # cur
        BY <2>2, <2>5, <2>6, <4>1
      <4>2. CASE s = cur
        <5>1. /\ Base(Data(s)) = mem[Data(cur)] /\ Base(Wal(s)) = mem[Wal(cur)]
              /\ Base(Data(s))' = mem[Data(cur)] /\ Base(Wal(s))' = <<>>
          BY <2>1, <2>2, <2>5, <2>6, <2>7, <4>2
        <5> QED
          BY <2>3, <2>7, <5>1, AgreesFix
      <4> QED
        BY <4>1, <4>2
    <3> QED
      BY <3>1 DEF View
  <2>9. \A s \in Stores : Base(Wal(s))' = Base(Wal(s)) \/ Base(Wal(s))' = <<>>
    BY <2>1, <2>2, <2>5, <2>6, <2>7
  <2>10. Coverage'
    BY <1>0, <1>t, <1>x, <1>30, <2>1, <2>2, <2>3, <2>4, <2>5, <2>6, <2>7, <2>8, <2>9 DEF CheckpointTruncate, Coverage, Early, InBlock, Ending, Ended, Opening, Putting, journalVars, txnVars
  <2>11. Phase'
    BY <1>0, <1>t, <1>x, <1>30, <2>1, <2>2, <2>3, <2>4, <2>5, <2>6, <2>7, <2>8, <2>9 DEF CheckpointTruncate, Phase, Early, InBlock, Ending, Ended, Opening, Putting, journalVars, txnVars
  <2>12. Restoring'
    BY <1>0, <1>t, <1>x, <1>30, <2>1, <2>2, <2>3, <2>4, <2>5, <2>6, <2>7, <2>8, <2>9 DEF CheckpointTruncate, Restoring, Early, InBlock, Ending, Ended, Opening, Putting, journalVars, txnVars
  <2>13. Logs'
    BY <1>0, <1>t, <1>x, <1>30, <2>1, <2>2, <2>3, <2>4, <2>5, <2>6, <2>7, <2>8, <2>9 DEF CheckpointTruncate, Logs, Early, InBlock, Ending, Ended, Opening, Putting, journalVars, txnVars
  <2>14. Agreement'
    BY <1>0, <2>1, <2>2, <2>5, <2>6, <2>7 DEF Agreement, Early
  <2>15. Legal'
    BY <1>0, <1>t, <1>x, <1>30, <2>1, <2>2, <2>3, <2>4, <2>5, <2>6, <2>7, <2>8, <2>9 DEF CheckpointTruncate, Legal, Early, InBlock, Ending, Ended, Opening, Putting, journalVars, txnVars
  <2> QED
    BY <1>v, <2>10, <2>11, <2>12, <2>13, <2>14, <2>15 DEF OInv
<1>31. CASE TrackData
  <2>1. cur.store \in Stores /\ cur.row \in Rows /\ cur.val \in Values /\ cur' = cur
    BY <1>t, <1>31 DEF TrackData, StepTypes, Putting
  <2>2. pc = "image" /\ pc' = "wimage" /\ mem' = mem /\ open' = open /\ depth' = depth /\ depth > 0 /\ outcomes' = outcomes
    BY <1>0, <1>31 DEF TrackData, diskVars, Phase
  <2>3. Data(cur.store) \in File /\ Journaled(Data(cur.store)) /\ ~Held(Data(cur.store)) /\ Base(Data(cur.store)) = mem[Data(cur.store)]
    <3>1. Data(cur.store) \in File /\ Journaled(Data(cur.store)) /\ ~Held(Data(cur.store))
      BY <1>0, <1>31, <2>1, <2>2, FileNames DEF TrackData, Coverage, Phase, InBlock, Putting
    <3> QED
      BY <3>1 DEF Base
  <2>4. /\ \A i, j \in DOMAIN jmem' : jmem'[i].file = jmem'[j].file => i = j
        /\ \A g \in File : (Held(g)' <=> Held(g) \/ g = Data(cur.store)) /\ Base(g)' = Base(g)
    BY <1>0, <1>t, <2>2, <2>3, NewImage DEF Coverage
  <2>5. View' = View /\ \A s \in Stores : Base(Data(s))' = Base(Data(s)) /\ Base(Wal(s))' = Base(Wal(s))
    BY <2>4, FileNames, SameView
  <2>6. jmem' # None /\ DOMAIN snap' = DOMAIN snap \cup {Data(cur.store)} /\ snap'[Data(cur.store)] = mem[Data(cur.store)] /\ \A g \in DOMAIN snap : g # Data(cur.store) => snap'[g] = snap[g]
    BY <1>t, <2>3, JournaledImage
  <2>7. \A g \in File : Held(g)' => g \in DOMAIN snap' /\ Base(g)' = snap'[g]
    <3>1. SUFFICES ASSUME NEW g \in File, Held(g)' PROVE g \in DOMAIN snap' /\ Base(g)' = snap'[g]
      OBVIOUS
    <3>2. CASE g = Data(cur.store)
      BY <2>3, <2>4, <2>6, <3>2 DEF Base
    <3>3. CASE g # Data(cur.store)
      BY <1>0, <2>2, <2>4, <2>6, <3>1, <3>3 DEF Coverage, InBlock
    <3> QED
      BY <3>2, <3>3
  <2>8. \A s \in Stores : (Held(Data(s))' <=> Held(Data(s)) \/ s = cur.store) /\ (Held(Wal(s))' <=> Held(Wal(s)))
    BY <2>1, <2>4, FileNames
  <2>9. files' = files /\ \A f : InFiles(f)' <=> InFiles(f)
    BY <1>31, SameFiles DEF TrackData
  <2>10. Coverage'
    BY <1>0, <1>t, <1>x, <1>31, <2>1, <2>2, <2>3, <2>4, <2>5, <2>6, <2>7, <2>8, <2>9 DEF TrackData, Coverage, Early, InBlock, Ending, Ended, Opening, Putting
  <2>11. Phase'
    BY <1>0, <1>t, <1>x, <1>31, <2>1, <2>2, <2>3, <2>4, <2>5, <2>6, <2>7, <2>8, <2>9 DEF TrackData, Phase, Early, InBlock, Ending, Ended, Opening, Putting
  <2>12. Restoring'
    BY <1>0, <1>t, <1>x, <1>31, <2>1, <2>2, <2>3, <2>4, <2>5, <2>6, <2>7, <2>8, <2>9 DEF TrackData, Restoring, Early, InBlock, Ending, Ended, Opening, Putting
  <2>13. Logs'
    BY <1>0, <1>t, <1>x, <1>31, <2>1, <2>2, <2>3, <2>4, <2>5, <2>6, <2>7, <2>8, <2>9 DEF TrackData, Logs, Early, InBlock, Ending, Ended, Opening, Putting
  <2>14. Agreement'
    <3>1. Agrees(mem[Data(cur.store)], mem[Wal(cur.store)])
      BY <1>0, <2>1, <2>2 DEF Agreement, Phase, Putting
    <3>2. \A s \in Stores : Held(Data(s))' /\ Held(Wal(s))' => Agrees(Base(Data(s))', Base(Wal(s))')
      <4>1. SUFFICES ASSUME NEW s \in Stores, Held(Data(s))', Held(Wal(s))' PROVE Agrees(Base(Data(s))', Base(Wal(s))')
        OBVIOUS
      <4>2. CASE Held(Data(s)) /\ Held(Wal(s))
        BY <1>0, <2>2, <2>5, <4>2 DEF Agreement, Early
      <4>3. CASE ~(Held(Data(s)) /\ Held(Wal(s)))
        <5>1. s = cur.store /\ Held(Wal(s))
          BY <2>8, <4>1, <4>3
        <5> QED
          BY <1>0, <2>1, <2>2, <5>1 DEF Coverage, InBlock, Phase, Putting
      <4> QED
        BY <4>2, <4>3
    <3> QED
      BY <1>0, <2>1, <2>2, <3>2, <2>9 DEF Agreement, Early
  <2>15. Legal'
    BY <1>0, <1>t, <1>x, <1>31, <2>1, <2>2, <2>3, <2>4, <2>5, <2>6, <2>7, <2>8, <2>9 DEF TrackData, Legal, Early, InBlock, Ending, Ended, Opening, Putting
  <2> QED
    BY <1>v, <2>10, <2>11, <2>12, <2>13, <2>14, <2>15 DEF OInv
<1>32. CASE TrackWal
  <2>1. cur.store \in Stores /\ cur.row \in Rows /\ cur.val \in Values /\ cur' = cur
    BY <1>t, <1>32 DEF TrackWal, StepTypes, Putting
  <2>2. pc = "wimage" /\ pc' = "begin" /\ mem' = mem /\ open' = open /\ depth' = depth /\ depth > 0 /\ outcomes' = outcomes
    BY <1>0, <1>32 DEF TrackWal, diskVars, Phase
  <2>3. Wal(cur.store) \in File /\ Journaled(Wal(cur.store)) /\ ~Held(Wal(cur.store)) /\ Base(Wal(cur.store)) = mem[Wal(cur.store)]
    <3>1. Wal(cur.store) \in File /\ Journaled(Wal(cur.store)) /\ ~Held(Wal(cur.store))
      BY <1>0, <1>32, <2>1, <2>2, FileNames DEF TrackWal, Coverage, Phase, InBlock, Putting
    <3> QED
      BY <3>1 DEF Base
  <2>4. /\ \A i, j \in DOMAIN jmem' : jmem'[i].file = jmem'[j].file => i = j
        /\ \A g \in File : (Held(g)' <=> Held(g) \/ g = Wal(cur.store)) /\ Base(g)' = Base(g)
    BY <1>0, <1>t, <2>2, <2>3, NewImage DEF Coverage
  <2>5. View' = View /\ \A s \in Stores : Base(Data(s))' = Base(Data(s)) /\ Base(Wal(s))' = Base(Wal(s))
    BY <2>4, FileNames, SameView
  <2>6. jmem' # None /\ DOMAIN snap' = DOMAIN snap \cup {Wal(cur.store)} /\ snap'[Wal(cur.store)] = mem[Wal(cur.store)] /\ \A g \in DOMAIN snap : g # Wal(cur.store) => snap'[g] = snap[g]
    BY <1>t, <2>3, JournaledImage
  <2>7. \A g \in File : Held(g)' => g \in DOMAIN snap' /\ Base(g)' = snap'[g]
    <3>1. SUFFICES ASSUME NEW g \in File, Held(g)' PROVE g \in DOMAIN snap' /\ Base(g)' = snap'[g]
      OBVIOUS
    <3>2. CASE g = Wal(cur.store)
      BY <2>3, <2>4, <2>6, <3>2 DEF Base
    <3>3. CASE g # Wal(cur.store)
      BY <1>0, <2>2, <2>4, <2>6, <3>1, <3>3 DEF Coverage, InBlock
    <3> QED
      BY <3>2, <3>3
  <2>8. \A s \in Stores : (Held(Wal(s))' <=> Held(Wal(s)) \/ s = cur.store) /\ (Held(Data(s))' <=> Held(Data(s)))
    BY <2>1, <2>4, FileNames
  <2>9. \A f : InFiles(f)' <=> InFiles(f) \/ f = Wal(cur.store)
    <3>1. files' = <<Wal(cur.store)>> \o files /\ files \in Seq(File)
      BY <1>t, <1>32 DEF TrackWal, StepTypes
    <3> QED
      BY <2>3, <3>1, PutFirst
  <2>10. \A s \in Stores : (InFiles(Data(s))' <=> InFiles(Data(s))) /\ (InFiles(Wal(s))' <=> InFiles(Wal(s)) \/ s = cur.store)
    BY <2>1, <2>9, FileNames
  <2>11. Coverage'
    BY <1>0, <1>t, <1>x, <1>32, <2>1, <2>2, <2>3, <2>4, <2>5, <2>6, <2>7, <2>8, <2>9, <2>10 DEF TrackWal, Coverage, Early, InBlock, Ending, Ended, Opening, Putting
  <2>12. Phase'
    BY <1>0, <1>t, <1>x, <1>32, <2>1, <2>2, <2>3, <2>4, <2>5, <2>6, <2>7, <2>8, <2>9, <2>10 DEF TrackWal, Phase, Early, InBlock, Ending, Ended, Opening, Putting
  <2>13. Restoring'
    BY <1>0, <1>t, <1>x, <1>32, <2>1, <2>2, <2>3, <2>4, <2>5, <2>6, <2>7, <2>8, <2>9, <2>10 DEF TrackWal, Restoring, Early, InBlock, Ending, Ended, Opening, Putting
  <2>14. Logs'
    BY <1>0, <1>t, <1>x, <1>32, <2>1, <2>2, <2>3, <2>4, <2>5, <2>6, <2>7, <2>8, <2>9, <2>10 DEF TrackWal, Logs, Early, InBlock, Ending, Ended, Opening, Putting
  <2>15. Agreement'
    <3>1. Agrees(mem[Data(cur.store)], mem[Wal(cur.store)])
      BY <1>0, <2>1, <2>2 DEF Agreement, Phase, Putting
    <3>2. \A s \in Stores : Held(Data(s))' /\ Held(Wal(s))' => Agrees(Base(Data(s))', Base(Wal(s))')
      <4>1. SUFFICES ASSUME NEW s \in Stores, Held(Data(s))', Held(Wal(s))' PROVE Agrees(Base(Data(s))', Base(Wal(s))')
        OBVIOUS
      <4>2. CASE Held(Data(s)) /\ Held(Wal(s))
        BY <1>0, <2>2, <2>5, <4>2 DEF Agreement, Early
      <4>3. CASE ~(Held(Data(s)) /\ Held(Wal(s)))
        <5>1. s = cur.store
          BY <1>0, <2>1, <2>2, <2>8, <4>1, <4>3 DEF Coverage, InBlock
        <5>2. Base(Wal(s)) = mem[Wal(s)]
          BY <2>3, <5>1 DEF Base
        <5>3. Base(Data(s)) = mem[Data(s)]
          BY <1>0, <2>1, <2>2, <5>1 DEF Phase, Putting
        <5> QED
          BY <2>5, <3>1, <5>1, <5>2, <5>3
      <4> QED
        BY <4>2, <4>3
    <3> QED
      BY <1>0, <2>1, <2>2, <3>2, <2>10 DEF Agreement, Early
  <2>16. Legal'
    BY <1>0, <1>t, <1>x, <1>32, <2>1, <2>2, <2>3, <2>4, <2>5, <2>6, <2>7, <2>8, <2>9, <2>10 DEF TrackWal, Legal, Early, InBlock, Ending, Ended, Opening, Putting
  <2> QED
    BY <1>v, <2>11, <2>12, <2>13, <2>14, <2>15, <2>16 DEF OInv
<1>33. CASE JournalRestored
  <2>1. jmem' = None /\ mem' = mem /\ pc' = "jgone" /\ open' = open /\ files' = files /\ depth' = depth
    BY <1>33 DEF JournalRestored, diskVars, txnVars
  <2>2. \A f : ~Held(f)' /\ Base(f)' = mem[f] /\ (InFiles(f)' <=> InFiles(f))
    BY <2>1, NoneHeld, SameFiles
  <2>3. View' = View /\ \A s \in Stores : Base(Data(s))' = Base(Data(s)) /\ Base(Wal(s))' = Base(Wal(s))
    <3>1. \A f \in File : Held(f) => Base(f) = mem[f]
      <4>1. jmem # None /\ jmem \in Seq(Image) /\ todo = <<>> /\ \A i \in DOMAIN jmem : mem[jmem[i].file] = jmem[i].img
        BY <1>0, <1>t, <1>33 DEF JournalRestored, Restoring, JournalOK
      <4>2. \A i \in DOMAIN jmem : Base(jmem[i].file) = jmem[i].img
        BY <1>0, <4>1, HeldAt DEF Coverage
      <4> QED
        BY <4>1, <4>2, HeldPosition
    <3>2. \A f \in File : Base(f)' = Base(f)
      BY <2>2, <3>1 DEF Base
    <3> QED
      BY <3>2, FileNames, SameView
  <2>4. open = {} /\ depth = 0 /\ files = <<>>
    BY <1>0, <1>33 DEF JournalRestored, Coverage, Early
  <2>5. Coverage'
    BY <1>0, <1>t, <1>x, <1>33, <2>1, <2>2, <2>3, <2>4 DEF JournalRestored, Coverage, Early, InBlock, Ending, Ended, Opening, Putting
  <2>6. Phase'
    BY <1>0, <1>t, <1>x, <1>33, <2>1, <2>2, <2>3, <2>4 DEF JournalRestored, Phase, Early, InBlock, Ending, Ended, Opening, Putting
  <2>7. Restoring'
    BY <1>0, <1>t, <1>x, <1>33, <2>1, <2>2, <2>3, <2>4 DEF JournalRestored, Restoring, Early, InBlock, Ending, Ended, Opening, Putting
  <2>8. Logs'
    BY <1>0, <1>t, <1>x, <1>33, <2>1, <2>2, <2>3, <2>4 DEF JournalRestored, Logs, Early, InBlock, Ending, Ended, Opening, Putting
  <2>9. Agreement'
    BY <1>0, <1>t, <1>x, <1>33, <2>1, <2>2, <2>3, <2>4 DEF JournalRestored, Agreement, Early, InBlock, Ending, Ended, Opening, Putting
  <2>10. Legal'
    BY <1>0, <1>t, <1>x, <1>33, <2>1, <2>2, <2>3, <2>4 DEF JournalRestored, Legal, Early, InBlock, Ending, Ended, Opening, Putting
  <2> QED
    BY <1>v, <2>5, <2>6, <2>7, <2>8, <2>9, <2>10 DEF OInv
<1>34. CASE UndoUnlink
  <2>1. jmem' = None /\ mem' = mem /\ pc' = "udir" /\ open' = open /\ files' = files /\ depth' = depth
    BY <1>34 DEF UndoUnlink, diskVars, txnVars
  <2>2. \A f : ~Held(f)' /\ Base(f)' = mem[f] /\ (InFiles(f)' <=> InFiles(f))
    BY <2>1, NoneHeld, SameFiles
  <2>3. ASSUME NEW s \in Stores
        PROVE  /\ mem[Data(s)] = Base(Data(s))
               /\ Held(Data(s)) <=> Held(Wal(s))
               /\ mem[Wal(s)] = Base(Wal(s)) \/ (Held(Wal(s)) /\ mem[Wal(s)] = <<>>)
    <3>1. pc = "undo" /\ Data(s) \in File /\ Wal(s) \in File /\ ~IsWal(Data(s)) /\ \A f : ~InTodo(f)
      BY <1>34, FileNames DEF UndoUnlink, InTodo, IsWal, Data
    <3>2. /\ Held(Data(s)) <=> InFiles(Data(s))
          /\ Held(Wal(s)) <=> InFiles(Data(s))
          /\ InFiles(Wal(s)) <=> InFiles(Data(s))
          /\ Held(Data(s)) => Base(Data(s)) = snap[Data(s)]
          /\ Held(Wal(s)) => Base(Wal(s)) = snap[Wal(s)]
      BY <1>0, <3>1 DEF Coverage, Ending
    <3>3. /\ InFiles(Data(s)) => mem[Data(s)] = snap[Data(s)]
          /\ InFiles(Wal(s)) => mem[Wal(s)] = snap[Wal(s)] \/ mem[Wal(s)] = <<>>
      BY <1>0, <3>1 DEF Restoring
    <3> QED
      BY <3>2, <3>3 DEF Base
  <2>4. ASSUME NEW s \in Stores
        PROVE  /\ Closed(mem[Wal(s)])
               /\ Replay(mem[Data(s)], mem[Wal(s)]) = Replay(Base(Data(s)), Base(Wal(s)))
               /\ s \in open => Agrees(mem[Data(s)], mem[Wal(s)])
    <3>1. pc = "undo" /\ mem[Data(s)] \in Contents /\ Closed(Base(Wal(s))) /\ Base(Wal(s)) \in Seq(Frame)
      BY <1>0, <1>t, <1>34, BaseTyped DEF UndoUnlink, Typed, Logs
    <3>2. CASE Held(Wal(s))
      <4>1. Agrees(mem[Data(s)], Base(Wal(s)))
        BY <1>0, <2>3, <3>1, <3>2 DEF Agreement, Early
      <4>2. Replay(mem[Data(s)], Base(Wal(s))) = mem[Data(s)]
        BY <3>1, <4>1, AgreesFix
      <4> QED
        BY <2>3, <3>1, <3>2, <4>1, <4>2, EmptyLog
    <3>3. CASE ~Held(Wal(s))
      <4>1. ~InFiles(Data(s))
        BY <1>0, <3>1, <3>3 DEF Coverage, Ending
      <4> QED
        BY <1>0, <2>3, <3>1, <3>3, <4>1 DEF Agreement
    <3> QED
      BY <3>2, <3>3
  <2>12. View' = View
    <3>1. \A s \in Stores : Replay(Base(Data(s))', Base(Wal(s))') = Replay(Base(Data(s)), Base(Wal(s)))
      BY <2>2, <2>4
    <3> QED
      BY <3>1 DEF View
  <2>13. open \subseteq Stores
    BY <1>0 DEF TInv, TypeOK
  <2>5. Coverage'
    BY <1>0, <1>t, <1>x, <1>34, <2>1, <2>2, <2>12, <2>13 DEF UndoUnlink, Coverage, Early, InBlock, Ending, Ended, Opening, Putting
  <2>6. Phase'
    BY <1>0, <1>t, <1>x, <1>34, <2>1, <2>2, <2>12, <2>13 DEF UndoUnlink, Phase, Early, InBlock, Ending, Ended, Opening, Putting
  <2>7. Restoring'
    BY <1>0, <1>t, <1>x, <1>34, <2>1, <2>2, <2>12, <2>13 DEF UndoUnlink, Restoring, Early, InBlock, Ending, Ended, Opening, Putting
  <2>8. Logs'
    BY <2>1, <2>2, <2>4 DEF Logs
  <2>9. Agreement'
    BY <2>1, <2>2, <2>4, <2>13 DEF Agreement
  <2>10. Legal'
    BY <1>0, <1>t, <1>x, <1>34, <2>1, <2>2, <2>12 DEF UndoUnlink, Legal, Early, InBlock, Ending, Ended, Opening, Putting
  <2> QED
    BY <1>v, <2>5, <2>6, <2>7, <2>8, <2>9, <2>10 DEF OInv
<1>35. CASE CommitUnlink
  <2>1. jmem' = None /\ mem' = mem /\ pc' = "cdir" /\ open' = open /\ files' = files /\ depth' = depth
    BY <1>35 DEF CommitUnlink, diskVars, txnVars
  <2>2. \A f : ~Held(f)' /\ Base(f)' = mem[f] /\ (InFiles(f)' <=> InFiles(f))
    BY <2>1, NoneHeld, SameFiles
  <2>3. pc = "cframe" /\ open \subseteq Stores /\ outcomes' = outcomes \cup Committed /\ \A f : ~InTodo(f)
    BY <1>0, <1>35 DEF CommitUnlink, InTodo, TInv, TypeOK
  <2>4. \A s \in Stores : Tracked(s) <=> InFiles(Data(s))
    BY DEF Tracked, InFiles
  <2>5. \A s \in open : Agrees(mem[Data(s)], mem[Wal(s)])
    BY <1>0, <2>3 DEF Agreement
  <2>6. \A s \in Stores : InFiles(Data(s)) => Closed(mem[Wal(s)]) /\ s \in open
    BY <1>0, <2>3 DEF Logs, Coverage
  <2>7. \A s \in Stores : ~InFiles(Data(s)) => Base(Data(s)) = mem[Data(s)] /\ Base(Wal(s)) = mem[Wal(s)]
    BY <1>0, <2>3 DEF Coverage, Ending, Base
  <2>8. \A s \in Stores : Closed(mem[Wal(s)])
    BY <1>0, <2>6, <2>7 DEF Logs
  <2>9. Coverage'
    BY <1>0, <1>t, <1>x, <1>35, <2>1, <2>2, <2>3, <2>4, <2>5, <2>6, <2>7, <2>8 DEF CommitUnlink, Coverage, Early, InBlock, Ending, Ended, Opening, Putting
  <2>10. Phase'
    BY <1>0, <1>t, <1>x, <1>35, <2>1, <2>2, <2>3, <2>4, <2>5, <2>6, <2>7, <2>8 DEF CommitUnlink, Phase, Early, InBlock, Ending, Ended, Opening, Putting
  <2>11. Restoring'
    BY <1>0, <1>t, <1>x, <1>35, <2>1, <2>2, <2>3, <2>4, <2>5, <2>6, <2>7, <2>8 DEF CommitUnlink, Restoring, Early, InBlock, Ending, Ended, Opening, Putting
  <2>12. Logs'
    BY <2>1, <2>2, <2>8 DEF Logs
  <2>13. Agreement'
    BY <2>1, <2>2, <2>5 DEF Agreement
  <2>14. Legal'
    <3>1. View \in outcomes /\ outcomes \subseteq [Stores -> Contents]
      BY <1>0 DEF Legal
    <3>2. ASSUME NEW s \in Stores PROVE View'[s] = IF s \in Participants THEN mem[Data(s)] ELSE View[s]
      <4>1. View'[s] = Replay(Base(Data(s))', Base(Wal(s))') /\ View[s] = Replay(Base(Data(s)), Base(Wal(s)))
        BY DEF View
      <4>2. CASE s \in Participants
        <5>1. InFiles(Data(s))
          BY <2>4, <4>2 DEF Participants
        <5>2. Replay(mem[Data(s)], mem[Wal(s)]) = mem[Data(s)]
          BY <1>t, <2>5, <2>6, <5>1, AgreesFix DEF Typed
        <5> QED
          BY <2>2, <4>1, <4>2, <5>2
      <4>3. CASE s \notin Participants
        <5>1. ~InFiles(Data(s))
          BY <2>4, <4>3 DEF Participants
        <5> QED
          BY <2>2, <2>7, <4>1, <4>3, <5>1
      <4> QED
        BY <4>2, <4>3
    <3>3. View' = [s \in Stores |-> IF s \in Participants THEN mem[Data(s)] ELSE View[s]]
      <4>1. View' = [s \in Stores |-> View'[s]]
        BY DEF View
      <4> QED
        BY <3>2, <4>1
    <3>4. View' \in Committed
      BY <3>1, <3>3 DEF Committed
    <3>5. Committed \subseteq [Stores -> Contents]
      BY <1>t, <3>1 DEF Committed, Typed
    <3> QED
      BY <2>3, <3>1, <3>4, <3>5 DEF Legal
  <2> QED
    BY <1>v, <2>9, <2>10, <2>11, <2>12, <2>13, <2>14 DEF OInv
<1>36. CASE PowerFailure
  BY <1>36 DEF PowerFailure
<1>37. CASE Others
  <2>1. Saves /\ open \subseteq Stores
    BY <1>0 DEF SInv, TInv, TypeOK
  <2>2. UNCHANGED clientVars
    BY <1>37, <2>1, OtherStep
  <2>3. PICK s \in open :
          \/ mem' = mem
          \/ /\ mem' = [mem EXCEPT ![Wal(s)] = <<>>]
             /\ \E t \in Savers : saving[t] # None /\ saving[t].store = s
    BY <1>37, <2>1, OtherStep
  <2>4. CASE mem' = mem
    BY <1>v, <2>2, <2>4, NothingMoves DEF SInv, clientVars, journalVars, txnVars
  <2>5. CASE mem' # mem
    BY <1>v, <2>2, <2>3, <2>5, TruncateStep
  <2> QED
    BY <2>4, <2>5
<1> QED
  BY <1>u, <1>1, <1>2, <1>3, <1>4, <1>5, <1>6, <1>7, <1>8, <1>9, <1>10, <1>11, <1>12, <1>13, <1>14, <1>15, <1>16, <1>17, <1>18, <1>19, <1>20, <1>21, <1>22, <1>23, <1>24, <1>25, <1>26, <1>27, <1>28, <1>29, <1>30, <1>31, <1>32, <1>33, <1>34, <1>35, <1>36, <1>37 DEF Next, Work, Client

\* The recovery rewrites no store that another task saves, which is open already.
LEMMA ApartStep == SInv /\ [Next]_vars => SavesApart'
<1> SUFFICES ASSUME SInv, [Next]_vars, NEW t \in Savers, saving'[t] # None,
                    pc' \in {"rewrite", "rwsync"}
             PROVE  saving'[t].store # cur'
  BY DEF SavesApart
<1>1. SavesApart /\ (saving[t] # None => saving[t].store \in open)
  BY DEF SInv, Saves, OpenSave
<1>2. CASE UNCHANGED vars
  BY <1>1, <1>2 DEF vars, SavesApart
<1>3. CASE Work /\ UNCHANGED saving
  BY <1>1, <1>3 DEF Work, Start, JournalRestore, JournalRestoreSync, JournalRestored, JournalGone,
       RecoverRewrite, RecoverSync, Checkpoint, CheckpointTruncate, CheckpointSync, TrackData,
       TrackWal, LogBegin, SyncBegin, LogRow, ForceRow, Apply, CommitSync, CommitSynced,
       CommitFrameSkip, CommitFrameWrite, CommitFrameSync, CommitUnlink, CommitDone, Undo,
       UndoSync, UndoUnlink, UndoDone, Release, SavesApart
<1>4. CASE Client /\ UNCHANGED saving
  BY <1>1, <1>4 DEF Client, Open, Save, Mutate, TxnBegin, TxnCommit, TxnRollback
<1>5. CASE Others
  <2>1. UNCHANGED <<pc, cur>> /\ saving \in [Savers -> {None} \cup OpenSave]
    BY <1>5, OtherStep DEF clientVars, SInv, OInv, TInv, TypeOK, Saves
  <2>2. \/ saving'[t] = saving[t] \/ (saving[t] # None /\ saving'[t].store = saving[t].store)
        \/ (saving'[t].store \in Stores /\ ~Recovering(saving'[t].store))
    BY <1>5, <2>1 DEF Others, OtherSave, OtherCheckpoint, OtherTruncate, OtherSync, Goes, At, OpenSave
  <2> QED
    BY <1>1, <2>1, <2>2 DEF SavesApart, Recovering
<1>6. CASE Kill \/ PowerFailure
  BY <1>6 DEF Kill, PowerFailure, ProcessGone
<1> QED
  BY <1>2, <1>3, <1>4, <1>5, <1>6 DEF Next

\* A logged row may be shown or not, until the statement is done.
LEMMA EitherStep == SInv /\ OInv' /\ [Next]_vars => EitherLegal'
<1> SUFFICES ASSUME SInv, OInv', [Next]_vars, pc' \in {"force", "apply"}, depth' = 0
             PROVE  /\ [View EXCEPT ![cur.store] = mem[Data(cur.store)]]' \in outcomes'
                    /\ WithPut' \subseteq outcomes'
  BY DEF EitherLegal
<1>0. TInv /\ Coverage /\ Phase /\ Logs /\ Agreement /\ Legal /\ EitherLegal
  BY DEF SInv, OInv
<1>t. Typed(mem) /\ JournalOK(jmem) /\ StepTypes /\ open \subseteq Stores
  BY <1>0 DEF TInv, TypeOK
<1>1. CASE /\ UNCHANGED <<jmem, cur, outcomes, depth, mem>> /\ pc \in {"force", "apply"}
  <2>1. View' = View
    BY <1>1, Quiet
  <2>2. WithPut' = WithPut
    BY <1>1 DEF WithPut
  <2> QED
    BY <1>0, <1>1, <2>1, <2>2 DEF EitherLegal
<1>2. CASE UNCHANGED vars \/ ForceRow
  BY <1>1, <1>2 DEF vars, diskVars, journalVars, txnVars, ForceRow
<1>3. CASE LogRow
  <2>1. /\ cur.store \in Stores /\ cur.row \in Rows /\ cur.val \in Values /\ cur' = cur
        /\ pc = "log" /\ depth = 0 /\ cur.store \in open
        /\ jmem = None /\ jmem' = None /\ DOMAIN mem = File
        /\ mem' = [mem EXCEPT ![Wal(cur.store)] = Append(mem[Wal(cur.store)], PutFrame(cur.row, cur.val))]
        /\ outcomes' = outcomes \cup WithPut
    BY <1>0, <1>t, <1>3 DEF LogRow, Write, StepTypes, Putting, Phase, Coverage, InBlock, journalVars,
         txnVars, Typed
  <2>2. \A f : Base(f) = mem[f] /\ Base(f)' = mem'[f]
    BY <2>1, NoneHeld
  <2>3. /\ \A s \in Stores : mem'[Data(s)] = mem[Data(s)]
        /\ \A s \in Stores : s # cur.store => mem'[Wal(s)] = mem[Wal(s)]
    BY <2>1, FileNames
  <2>4. View[cur.store] = mem[Data(cur.store)]
    <3>1. /\ mem[Data(cur.store)] \in Contents /\ mem[Wal(cur.store)] \in Seq(Frame)
          /\ Closed(mem[Wal(cur.store)])
      BY <1>0, <1>t, <2>1, <2>2 DEF Typed, Logs
    <3>2. Agrees(mem[Data(cur.store)], mem[Wal(cur.store)])
      BY <1>0, <2>1 DEF Agreement
    <3> QED
      BY <2>1, <2>2, <3>1, <3>2, AgreesFix DEF View
  <2>5. \A s \in Stores : s # cur.store => View'[s] = View[s]
    BY <2>2, <2>3 DEF View
  <2>6. View \in [Stores -> Contents] /\ DOMAIN View' = Stores /\ View' = [s \in Stores |-> View'[s]]
    BY <1>t, ViewTyped DEF View
  <2>7. [View' EXCEPT ![cur.store] = mem'[Data(cur.store)]] = View
    <3>1. mem'[Data(cur.store)] = View[cur.store]
      BY <2>1, <2>3, <2>4
    <3>2. View = [s \in Stores |-> View[s]]
      BY <2>6
    <3> QED
      BY <2>1, <2>5, <2>6, <3>1, <3>2
  <2>8. WithPut' \subseteq WithPut
    <3> DEFINE put(o) == [o EXCEPT ![cur.store][cur.row] = cur.val]
    <3>1. ASSUME NEW o \in outcomes PROVE put(o) \in WithPut
      BY DEF WithPut
    <3>2. ASSUME NEW o \in WithPut PROVE put(o) \in WithPut
      <4>1. PICK q \in outcomes : o = [q EXCEPT ![cur.store][cur.row] = cur.val]
        BY <3>2 DEF WithPut
      <4>2. [o EXCEPT ![cur.store][cur.row] = cur.val] = o
        <5>1. q \in [Stores -> [Rows -> Values]]
          BY <1>0 DEF Legal, Contents
        <5> QED
          BY <2>1, <4>1, <5>1
      <4> QED
        BY <3>2, <4>2
    <3>3. WithPut' = {put(o) : o \in outcomes \cup WithPut}
      BY <2>1 DEF WithPut
    <3> HIDE DEF put
    <3> QED
      BY <3>1, <3>2, <3>3
  <2>9. View \in outcomes' /\ WithPut' \subseteq outcomes'
    BY <1>0, <2>1, <2>8 DEF Legal
  <2>10. [View EXCEPT ![cur.store] = mem[Data(cur.store)]]' = View
    BY <2>1, <2>7
  <2> QED
    BY <2>9, <2>10
<1>4. CASE Others
  <2>1. UNCHANGED clientVars
    BY <1>4, <1>t, OtherStep DEF SInv
  <2>2. /\ jmem' = jmem /\ pc' = pc /\ cur' = cur /\ depth' = depth /\ outcomes' = outcomes
        /\ pc \in {"force", "apply"} /\ depth = 0
    BY <2>1 DEF clientVars, journalVars, txnVars
  <2>3. PICK s \in open :
          mem' = mem \/ (mem' = [mem EXCEPT ![Wal(s)] = <<>>] /\ \E t \in Savers : saving[t] # None)
    BY <1>4, <1>t, OtherStep DEF SInv
  <2>4. CASE mem' = mem
    BY <1>1, <2>2, <2>4
  <2>5. CASE mem' = [mem EXCEPT ![Wal(s)] = <<>>]
    <3>1. s \in Stores /\ cur.store \in Stores /\ DOMAIN mem = File
      BY <1>t, <2>2 DEF StepTypes, Putting, Typed
    <3>2. \A f : Base(f) = mem[f] /\ Base(f)' = mem'[f]
      BY <1>0, <2>2, NoneHeld DEF Coverage, InBlock
    <3>3. /\ \A r \in Stores : mem'[Data(r)] = mem[Data(r)]
          /\ \A r \in Stores : r # s => mem'[Wal(r)] = mem[Wal(r)]
          /\ mem'[Wal(s)] = <<>>
      BY <2>5, <3>1, FileNames
    <3>4. \A r \in Stores : r # cur.store => View'[r] = View[r]
      <4>1. ASSUME NEW r \in Stores, r # cur.store, r = s PROVE View'[r] = View[r]
        <5>1. /\ mem[Data(r)] \in Contents /\ mem[Wal(r)] \in Seq(Frame) /\ Closed(mem[Wal(r)])
              /\ Agrees(mem[Data(r)], mem[Wal(r)])
          BY <1>0, <1>t, <2>2, <3>2, <4>1 DEF Typed, Logs, Agreement
        <5>2. Replay(mem[Data(r)], mem[Wal(r)]) = mem[Data(r)] /\ Replay(mem[Data(r)], <<>>) = mem[Data(r)]
          BY <5>1, AgreesFix, EmptyLog
        <5>3. View'[r] = Replay(mem'[Data(r)], mem'[Wal(r)]) /\ View[r] = Replay(mem[Data(r)], mem[Wal(r)])
          BY <3>2 DEF View
        <5> QED
          BY <3>3, <4>1, <5>2, <5>3
      <4>2. ASSUME NEW r \in Stores, r # s PROVE View'[r] = View[r]
        BY <3>2, <3>3, <4>2 DEF View
      <4> QED
        BY <4>1, <4>2
    <3>5. View' = [r \in Stores |-> View'[r]] /\ View = [r \in Stores |-> View[r]]
      BY DEF View
    <3>6. [View' EXCEPT ![cur.store] = mem'[Data(cur.store)]] = [View EXCEPT ![cur.store] = mem[Data(cur.store)]]
      BY <3>1, <3>3, <3>4, <3>5
    <3>7. WithPut' = WithPut
      BY <2>2 DEF WithPut
    <3> QED
      BY <1>0, <2>2, <3>6, <3>7 DEF EitherLegal
  <2> QED
    BY <2>3, <2>4, <2>5
<1>5. ASSUME ~LogRow, ~ForceRow, Work PROVE FALSE
  BY <1>5 DEF Work, Start, JournalRestore, JournalRestoreSync, JournalRestored, JournalGone,
       RecoverRewrite, RecoverSync, Checkpoint, CheckpointTruncate, CheckpointSync, TrackData,
       TrackWal, LogBegin, SyncBegin, Apply, CommitSync, CommitSynced,
       CommitFrameSkip, CommitFrameWrite, CommitFrameSync, CommitUnlink, CommitDone, Undo,
       UndoSync, UndoUnlink, UndoDone, Release
<1>6. ASSUME Client PROVE FALSE
  BY <1>6 DEF Client, Open, Save, Mutate, TxnBegin, TxnCommit, TxnRollback
<1>7. ASSUME Kill \/ PowerFailure PROVE FALSE
  BY <1>7 DEF Kill, PowerFailure, ProcessGone
<1> QED
  BY <1>2, <1>3, <1>4, <1>5, <1>6, <1>7 DEF Next

\* Blank stores are the first legal outcome.
LEMMA OInit == Init => SInv
<1> SUFFICES ASSUME Init PROVE SInv
  OBVIOUS
<1>0. TInv /\ Saves
  BY TInit DEF FInv
<1>1. /\ jmem = None /\ pc = "down" /\ open = {} /\ depth = 0 /\ files = <<>>
      /\ outcomes = {[s \in Stores |-> Blank(Data(s))]}
      /\ \A s \in Stores : mem[Data(s)] = Blank(Data(s)) /\ mem[Wal(s)] = <<>>
  BY FileNames DEF Init, Blank, Data, Wal
<1>2. \A f : ~Held(f) /\ Base(f) = mem[f] /\ ~InFiles(f)
  BY <1>1, NoneHeld DEF InFiles
<1>3. Coverage /\ Phase /\ Restoring
  BY <1>1, <1>2 DEF Coverage, Phase, Restoring, Early, InBlock, Ending, Ended, Opening, Putting
<1>4. Logs /\ Agreement
  BY <1>1, <1>2, ClosedAppend DEF Logs, Agreement, Early, Closed
<1>5. ASSUME NEW s \in Stores PROVE /\ Blank(Data(s)) \in Contents
                                    /\ Replay(Base(Data(s)), Base(Wal(s))) = Blank(Data(s))
  <2>1. Blank(Data(s)) \in Contents /\ <<>> \in Seq(Frame)
    BY StoreAssumption DEF Blank, Data, Contents
  <2>2. Closed(<<>>) /\ Agrees(Blank(Data(s)), <<>>)
    BY DEF Closed, Agrees
  <2> QED
    BY <1>1, <1>2, <2>1, <2>2, AgreesFix
<1>6. Legal
  BY <1>1, <1>5 DEF Legal, View
<1>7. SavesApart /\ EitherLegal
  BY <1>1 DEF SavesApart, EitherLegal
<1> QED
  BY <1>0, <1>3, <1>4, <1>6, <1>7 DEF OInv, SInv

\* The outcome table of docs/jinn.md when processes are killed at any step, and
\* the power does not fail: between transactions the stores show a legal state.
\* Committed transactions are there as a whole, aborted and interrupted ones not
\* at all, over all stores, any nesting and any number of restarts, those during
\* a recovery included.
THEOREM StoreOutcomeLegal == ASSUME "power" \notin Faults PROVE Spec => []OutcomeLegal
<1>1. Init => SInv
  BY OInit
<1>2. SInv /\ [Next]_vars => SInv'
  BY OStep, SavesStep, ApartStep, EitherStep DEF SInv, OInv, FInv
<1>3. SInv => OutcomeLegal
  <2> SUFFICES ASSUME SInv, pc = "idle", depth = 0 PROVE Shown \in outcomes
    BY DEF OutcomeLegal
  <2>1. Typed(mem) /\ Coverage /\ Logs /\ Agreement /\ Legal /\ open \subseteq Stores
    BY DEF SInv, OInv, TInv, TypeOK
  <2>2. \A f : Base(f) = mem[f]
    BY <2>1, NoneHeld DEF Coverage, InBlock
  <2>3. ASSUME NEW s \in Stores PROVE Shown[s] = View[s]
    <3>1. Closed(mem[Wal(s)]) /\ mem[Data(s)] \in Contents /\ mem[Wal(s)] \in Seq(Frame)
      BY <2>1, <2>2 DEF Logs, Typed
    <3>2. View[s] = Replay(mem[Data(s)], mem[Wal(s)])
      BY <2>2 DEF View
    <3>3. CASE s \in open
      <4>1. Agrees(mem[Data(s)], mem[Wal(s)])
        BY <2>1, <3>3 DEF Agreement
      <4> QED
        BY <3>1, <3>2, <3>3, <4>1, AgreesFix DEF Shown
    <3>4. CASE s \notin open
      BY <2>1, <3>1, <3>2, <3>4, RecoveredIs DEF Shown
    <3> QED
      BY <3>3, <3>4
  <2>4. Shown = View
    BY <2>3 DEF Shown, View
  <2> QED
    BY <2>1, <2>4 DEF Legal
<1> QED
  BY <1>1, <1>2, <1>3, PTL DEF Spec
============================================================================
