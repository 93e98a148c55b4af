------------------------------- MODULE Store -------------------------------
(***************************************************************************)
(* Persistent stores: data file, write-ahead log and transactions          *)
(* (runtime/wal.c), the directory-wide undo journal                        *)
(* (runtime/txn_journal.c), recovery of a store when it is opened          *)
(* (runtime/recover.c), and crashes at every step of them.                 *)
(*                                                                         *)
(* A file has two contents: mem is what the program and its successors     *)
(* read back (page cache), dsk is what the last completed sync made        *)
(* durable.  A killed process loses neither; a power failure leaves of     *)
(* every file something between the two.  A data file is a function from   *)
(* rows to values, a log a sequence of frames.  The writer gate lets one   *)
(* task at a time mutate stores or be in a transaction: the client.  `save`*)
(* takes no gate, so other tasks save at any step of the client's.         *)
(***************************************************************************)
EXTENDS Integers, Sequences, FiniteSets, FiniteSetsExt

CONSTANTS Stores,      \* the stores
          Synced,      \* those whose log is synced per record (not @relaxed, @volatile)
          Rows,        \* the rows (sid) of a store
          Values,      \* what a row can hold
          Zero,        \* what every row holds at first
          Faults,      \* the faults that occur: "kill", "power"
          MaxPuts,     \* bound: mutations
          MaxFaults,   \* bound: faults
          MaxDepth,    \* bound: nesting of transactions
          Savers,      \* the tasks beside the client that save stores
          None

ASSUME StoreAssumption ==
  /\ Synced \subseteq Stores /\ Zero \in Values /\ None \notin Stores
  /\ Faults \subseteq {"kill", "power"}
  /\ MaxPuts \in Nat /\ MaxFaults \in Nat /\ MaxDepth \in Nat

VARIABLES
  mem, dsk,          \* contents of every file: cached, durable
  jmem, jdsk,        \* the journal, a sequence of undo images, or None
  pc,                \* step of the running operation; "idle" between operations,
                     \* "down" when no process runs
  cur,               \* the mutation or store the operation is about
  todo,              \* files or images a loop still has to visit
  open,              \* stores this process has opened
  depth,             \* nesting of transactions
  files,             \* participants of the transaction, latest first
  snap,              \* their undo images in memory
  puts, faults,      \* bounded counters
  saving,            \* the save another task is in: store and next step, or None
  cut,               \* history: rows of synced stores whose frame such a save has
                     \* retired although the data file did not hold them durably
  outcomes           \* history: the states of all stores a reopen may show

diskVars == <<mem, dsk, cut>>
journalVars == <<jmem, jdsk>>
txnVars == <<depth, files, snap>>
vars == <<diskVars, journalVars, txnVars, pc, cur, todo, open, puts, faults, saving, outcomes>>

Data(s) == <<"data", s>>
Wal(s) == <<"wal", s>>
File == {Data(s) : s \in Stores} \cup {Wal(s) : s \in Stores}

PutFrame(k, v) == [op |-> "put", row |-> k, val |-> v]
BeginFrame(img) == [op |-> "begin", img |-> img]
CommitFrame == [op |-> "commit"]

\* What a data file, a log and the journal are made of.
Contents == [Rows -> Values]
Frame == [op : {"put"}, row : Rows, val : Values] \cup [op : {"begin"}, img : Contents]
           \cup [op : {"commit"}]
Image == [file : File, img : Contents \cup Seq(Frame)]

ASSUME NoJournal == None \notin Seq(Image)

Blank(f) == IF f[1] = "data" THEN [k \in Rows |-> Zero] ELSE <<>>

Init ==
  /\ mem = [f \in File |-> Blank(f)] /\ dsk = mem
  /\ jmem = None /\ jdsk = None
  /\ pc = "down" /\ cur = None /\ todo = <<>>
  /\ open = {}
  /\ depth = 0 /\ files = <<>> /\ snap = <<>>
  /\ puts = 0 /\ faults = 0
  /\ saving = [t \in Savers |-> None] /\ cut = {}
  /\ outcomes = {[s \in Stores |-> Blank(Data(s))]}

Write(f, x) == mem' = [mem EXCEPT ![f] = x] /\ UNCHANGED cut

\* The row of the current mutation, logged and not yet written to the data file.
InLogOnly(r) == pc \in {"force", "apply"} /\ r = <<cur.store, cur.row>>

Sync(f) ==
  /\ dsk' = [dsk EXCEPT ![f] = mem[f]]
  /\ cut' = {r \in cut : f # Data(r[1]) \/ InLogOnly(r)}

----------------------------------------------------------------------------
(* Process start: jinn_persistence_prepare and journal_recover             *)

\* The journal is read and every complete image in it is restored, latest first.
Start ==
  /\ pc = "down"
  /\ IF jmem = None
     THEN pc' = "idle" /\ UNCHANGED todo
     ELSE pc' = "jrestore" /\ todo' = jmem
  /\ UNCHANGED <<diskVars, journalVars, txnVars, cur, open, puts, faults, outcomes>>

Last(q) == q[Len(q)]
Front(q) == SubSeq(q, 1, Len(q) - 1)

\* jinn_atomic_rewrite: the new content is on disk before the rename shows it,
\* the rename itself is durable once the directory is synced.
JournalRestore ==
  /\ pc = "jrestore" /\ todo # <<>>
  /\ Write(Last(todo).file, Last(todo).img)
  /\ pc' = "jrsync"
  /\ UNCHANGED <<dsk, journalVars, txnVars, cur, todo, open, puts, faults, outcomes>>

\* Mutant: the loop does not advance.
JournalRestoreStuck ==
  /\ pc = "jrsync"
  /\ Sync(Last(todo).file)
  /\ pc' = "jrestore"
  /\ UNCHANGED <<mem, journalVars, txnVars, cur, todo, open, puts, faults, outcomes>>

JournalRestoreSync ==
  /\ pc = "jrsync"
  /\ Sync(Last(todo).file)
  /\ todo' = Front(todo)
  /\ pc' = "jrestore"
  /\ UNCHANGED <<mem, journalVars, txnVars, cur, open, puts, faults, outcomes>>

\* journal_remove: unlink, then sync of the directory.
JournalRestored ==
  /\ pc = "jrestore" /\ todo = <<>>
  /\ jmem' = None
  /\ pc' = "jgone"
  /\ UNCHANGED <<diskVars, jdsk, txnVars, cur, todo, open, puts, faults, outcomes>>

JournalGone ==
  /\ pc = "jgone"
  /\ jdsk' = None
  /\ pc' = "idle"
  /\ UNCHANGED <<diskVars, jmem, txnVars, cur, todo, open, puts, faults, outcomes>>

----------------------------------------------------------------------------
(* Opening a store: jinn_store_recover.  It happens before the first use,  *)
(* which may be inside a transaction.                                      *)

\* The begin frame of a transaction that has no commit frame, or 0.
PendingBegin(w) ==
  LET Open == {i \in DOMAIN w : w[i].op = "begin" /\
                 \A j \in (i + 1)..Len(w) : w[j].op # "commit"}
  IN  IF Open = {} THEN 0 ELSE Max(Open)

\* jinn_wal_replay upserts every row frame before it, in order: the last frame
\* of a row wins.
Replay(base, w) ==
  LET stop == IF PendingBegin(w) = 0 THEN Len(w) ELSE PendingBegin(w) - 1
      Of(k) == {i \in 1..stop : w[i].op = "put" /\ w[i].row = k}
  IN  [k \in Rows |-> IF Of(k) = {} THEN base[k] ELSE w[Max(Of(k))].val]

Recovered(s) ==
  LET w == mem[Wal(s)] IN
  Replay(IF PendingBegin(w) = 0 THEN mem[Data(s)] ELSE w[PendingBegin(w)].img, w)

Open(s) ==
  /\ pc = "idle" /\ s \notin open
  /\ cur' = s
  /\ open' = open \cup {s}
  /\ pc' = IF mem[Wal(s)] = <<>> THEN "idle"
           ELSE IF Recovered(s) # mem[Data(s)] \/ PendingBegin(mem[Wal(s)]) # 0
           THEN "rewrite" ELSE "ckpt"
  /\ UNCHANGED <<diskVars, journalVars, txnVars, todo, puts, faults, outcomes>>

RecoverRewrite ==
  /\ pc = "rewrite"
  /\ Write(Data(cur), Recovered(cur))
  /\ pc' = "rwsync"
  /\ UNCHANGED <<dsk, journalVars, txnVars, cur, todo, open, puts, faults, outcomes>>

RecoverSync ==
  /\ pc = "rwsync"
  /\ Sync(Data(cur))
  /\ pc' = "ckpt"
  /\ UNCHANGED <<mem, journalVars, txnVars, cur, todo, open, puts, faults, outcomes>>

\* jinn_wal_checkpoint: sync, truncate, sync; nothing inside a transaction.
Checkpoint ==
  /\ pc = "ckpt"
  /\ IF depth > 0
     THEN pc' = "idle" /\ UNCHANGED <<dsk, cut>>
     ELSE pc' = "trunc" /\ Sync(Wal(cur))
  /\ UNCHANGED <<mem, journalVars, txnVars, cur, todo, open, puts, faults, outcomes>>

CheckpointTruncate ==
  /\ pc = "trunc"
  /\ Write(Wal(cur), <<>>)
  /\ pc' = "tsync"
  /\ UNCHANGED <<dsk, journalVars, txnVars, cur, todo, open, puts, faults, outcomes>>

CheckpointSync ==
  /\ pc = "tsync"
  /\ Sync(Wal(cur))
  /\ pc' = "idle"
  /\ UNCHANGED <<mem, journalVars, txnVars, cur, todo, open, puts, faults, outcomes>>

\* Mutant: the log is checkpointed before the data file is durable.
SaveUnsynced(s) ==
  /\ pc = "idle" /\ s \in open
  /\ cur' = s
  /\ pc' = "ckpt"
  /\ UNCHANGED <<diskVars, journalVars, txnVars, todo, open, puts, faults, outcomes>>

\* jinn_store_save: the data file is synced, then the log is checkpointed.
Save(s) ==
  /\ pc = "idle" /\ s \in open
  /\ Sync(Data(s))
  /\ cur' = s
  /\ pc' = "ckpt"
  /\ UNCHANGED <<mem, journalVars, txnVars, todo, open, puts, faults, outcomes>>

----------------------------------------------------------------------------
(* A mutation: track the store (in a transaction), log the row, write it   *)

Tracked(s) == \E i \in DOMAIN files : files[i] = Data(s)

Mutate(s, k, v) ==
  /\ pc = "idle" /\ s \in open /\ puts < MaxPuts
  /\ cur' = [store |-> s, row |-> k, val |-> v]
  /\ puts' = puts + 1
  /\ pc' = IF depth = 0 \/ Tracked(s) THEN "log" ELSE "image"
  /\ UNCHANGED <<diskVars, journalVars, txnVars, todo, open, faults, outcomes>>

\* Mutant: the image is appended but not synced.
JournaledUnsynced(f) ==
  /\ jmem' = Append(IF jmem = None THEN <<>> ELSE jmem, [file |-> f, img |-> mem[f]])
  /\ jdsk' = IF jdsk = None THEN <<>> ELSE jdsk
  /\ snap' = [g \in DOMAIN snap \cup {f} |-> IF g = f THEN mem[f] ELSE snap[g]]

\* jinn_txn_journal_snapshot: the journal is created when it does not exist, the
\* image of the file is appended and synced.  A torn append is ignored by the
\* recovery, so a crash is either before or after it.
Journaled(f) ==
  /\ jmem' = Append(IF jmem = None THEN <<>> ELSE jmem, [file |-> f, img |-> mem[f]])
  /\ jdsk' = jmem'
  /\ snap' = [g \in DOMAIN snap \cup {f} |-> IF g = f THEN mem[f] ELSE snap[g]]

\* jinn_txn_track_impl: the data file, then its log, then the begin frame with
\* the undo image, synced.
TrackData ==
  /\ pc = "image"
  /\ Journaled(Data(cur.store))
  /\ pc' = "wimage"
  /\ UNCHANGED <<diskVars, depth, files, cur, todo, open, puts, faults, outcomes>>

TrackWal ==
  /\ pc = "wimage"
  /\ Journaled(Wal(cur.store))
  /\ files' = <<Wal(cur.store)>> \o files
  /\ pc' = "begin"
  /\ UNCHANGED <<diskVars, depth, cur, todo, open, puts, faults, outcomes>>

LogBegin ==
  /\ pc = "begin"
  /\ Write(Wal(cur.store), Append(mem[Wal(cur.store)], BeginFrame(mem[Data(cur.store)])))
  /\ pc' = "bsync"
  /\ UNCHANGED <<dsk, journalVars, txnVars, cur, todo, open, puts, faults, outcomes>>

SyncBegin ==
  /\ pc = "bsync"
  /\ Sync(Wal(cur.store))
  /\ files' = <<Data(cur.store)>> \o files
  /\ pc' = "log"
  /\ UNCHANGED <<mem, journalVars, depth, snap, cur, todo, open, puts, faults, outcomes>>

\* The outcomes in which the current mutation did take place.
WithPut == {[o EXCEPT ![cur.store][cur.row] = cur.val] : o \in outcomes}

\* jinn_wal_write: the frame is appended and flushed ...
LogRow ==
  /\ pc = "log"
  /\ Write(Wal(cur.store), Append(mem[Wal(cur.store)], PutFrame(cur.row, cur.val)))
  /\ pc' = "force"
  /\ outcomes' = IF depth = 0 THEN outcomes \cup WithPut ELSE outcomes
  /\ UNCHANGED <<dsk, journalVars, txnVars, cur, todo, open, puts, faults>>

\* ... and synced when the store's policy says so (jinn_wal_force).
ForceRow ==
  /\ pc = "force"
  /\ IF cur.store \in Synced THEN Sync(Wal(cur.store)) ELSE UNCHANGED <<dsk, cut>>
  /\ pc' = "apply"
  /\ UNCHANGED <<mem, journalVars, txnVars, cur, todo, open, puts, faults, outcomes>>

\* The row is written to the data file and flushed, not synced; the statement is
\* done and, outside a transaction, acknowledged.
Apply ==
  /\ pc = "apply"
  /\ Write(Data(cur.store), [mem[Data(cur.store)] EXCEPT ![cur.row] = cur.val])
  /\ pc' = "idle"
  /\ outcomes' = IF depth = 0 /\ cur.store \in Synced THEN WithPut ELSE outcomes
  /\ UNCHANGED <<dsk, journalVars, txnVars, cur, todo, open, puts, faults>>

----------------------------------------------------------------------------
(* Transactions                                                            *)

\* jinn_txn_begin: a nested block joins the outermost transaction.
TxnBegin ==
  /\ pc = "idle" /\ depth < MaxDepth
  /\ depth' = depth + 1
  /\ UNCHANGED <<diskVars, journalVars, files, snap, pc, cur, todo, open, puts, faults,
                 outcomes>>

\* jinn_txn_commit: an inner commit decides nothing; the outermost one syncs all
\* participants, ...
TxnCommit ==
  /\ pc = "idle" /\ depth > 0
  /\ depth' = depth - 1
  /\ IF depth > 1
     THEN UNCHANGED <<pc, todo>>
     ELSE pc' = "csync" /\ todo' = files
  /\ UNCHANGED <<diskVars, journalVars, files, snap, cur, open, puts, faults, outcomes>>

CommitSync ==
  /\ pc = "csync" /\ todo # <<>>
  /\ Sync(Head(todo))
  /\ todo' = Tail(todo)
  /\ UNCHANGED <<mem, journalVars, txnVars, pc, cur, open, puts, faults, outcomes>>

CommitSynced ==
  /\ pc = "csync" /\ todo = <<>>
  /\ pc' = "cframe"
  /\ todo' = files
  /\ UNCHANGED <<diskVars, journalVars, txnVars, cur, open, puts, faults, outcomes>>

\* ... then appends and syncs a commit frame to each log, ...
IsWal(f) == f[1] = "wal"

CommitFrameSkip ==
  /\ pc = "cframe" /\ todo # <<>> /\ ~IsWal(Head(todo))
  /\ todo' = Tail(todo)
  /\ UNCHANGED <<diskVars, journalVars, txnVars, pc, cur, open, puts, faults, outcomes>>

CommitFrameWrite ==
  /\ pc = "cframe" /\ todo # <<>> /\ IsWal(Head(todo))
  /\ Write(Head(todo), Append(mem[Head(todo)], CommitFrame))
  /\ pc' = "cfsync"
  /\ UNCHANGED <<dsk, journalVars, txnVars, cur, todo, open, puts, faults, outcomes>>

\* Mutant: the commit frame is not synced before the journal is retired.
CommitFrameUnsynced ==
  /\ pc = "cfsync"
  /\ todo' = Tail(todo)
  /\ pc' = "cframe"
  /\ UNCHANGED <<diskVars, journalVars, txnVars, cur, open, puts, faults, outcomes>>

CommitFrameSync ==
  /\ pc = "cfsync"
  /\ Sync(Head(todo))
  /\ todo' = Tail(todo)
  /\ pc' = "cframe"
  /\ UNCHANGED <<mem, journalVars, txnVars, cur, open, puts, faults, outcomes>>

Participants == {s \in Stores : Tracked(s)}
Committed == {[s \in Stores |-> IF s \in Participants THEN mem[Data(s)] ELSE o[s]] :
                o \in outcomes}

\* ... and retires the journal: the unlink is the decision, the sync of the
\* directory makes it durable, after which the commit is acknowledged.
CommitUnlink ==
  /\ pc = "cframe" /\ todo = <<>>
  /\ jmem' = None
  /\ pc' = "cdir"
  /\ outcomes' = outcomes \cup Committed
  /\ UNCHANGED <<diskVars, jdsk, txnVars, cur, todo, open, puts, faults>>

\* jinn_txn_release
Release ==
  /\ jdsk' = None
  /\ depth' = 0 /\ files' = <<>> /\ snap' = <<>>
  /\ pc' = "idle"

CommitDone ==
  /\ pc = "cdir"
  /\ Release
  /\ outcomes' = Committed
  /\ UNCHANGED <<diskVars, jmem, cur, todo, open, puts, faults>>

\* jinn_txn_rollback abandons the whole nest: every participant is restored
\* (the data file by an atomic rewrite, the log in place) and synced.
TxnRollback ==
  /\ pc = "idle" /\ depth > 0
  /\ depth' = 0
  /\ todo' = files
  /\ pc' = "undo"
  /\ UNCHANGED <<diskVars, journalVars, files, snap, cur, open, puts, faults, outcomes>>

Undo ==
  /\ pc = "undo" /\ todo # <<>>
  /\ Write(Head(todo), snap[Head(todo)])
  /\ pc' = "usync"
  /\ UNCHANGED <<dsk, journalVars, txnVars, cur, todo, open, puts, faults, outcomes>>

UndoSync ==
  /\ pc = "usync"
  /\ Sync(Head(todo))
  /\ todo' = Tail(todo)
  /\ pc' = "undo"
  /\ UNCHANGED <<mem, journalVars, txnVars, cur, open, puts, faults, outcomes>>

UndoUnlink ==
  /\ pc = "undo" /\ todo = <<>>
  /\ jmem' = None
  /\ pc' = "udir"
  /\ UNCHANGED <<diskVars, jdsk, txnVars, cur, todo, open, puts, faults, outcomes>>

UndoDone ==
  /\ pc = "udir"
  /\ Release
  /\ UNCHANGED <<diskVars, jmem, cur, todo, open, puts, faults, outcomes>>

----------------------------------------------------------------------------
(* `save` in another task, outside of any transaction of its own: the same *)
(* steps, at any step of the client, whose transaction it does not see     *)
(* (jinn_txn_active looks at the caller's coroutine).                      *)

clientVars == <<journalVars, txnVars, pc, cur, todo, open, puts, faults, outcomes>>

\* The client is rewriting the data file of the store in its recovery, which others
\* wait for.  (The code publishes the handle a little before: handles.rs.)
Recovering(s) == pc \in {"rewrite", "rwsync"} /\ cur = s

At(t, step) == saving[t] # None /\ saving[t].step = step
Goes(t, x) == saving' = [saving EXCEPT ![t] = x]

OtherSave(t, s) ==
  /\ saving[t] = None /\ s \in open /\ ~Recovering(s)
  /\ Sync(Data(s))
  /\ Goes(t, [store |-> s, step |-> "ckpt"])
  /\ UNCHANGED <<mem, clientVars>>

OtherCheckpoint(t) ==
  /\ At(t, "ckpt")
  /\ Sync(Wal(saving[t].store))
  /\ Goes(t, [saving[t] EXCEPT !.step = "trunc"])
  /\ UNCHANGED <<mem, clientVars>>

\* The rows of a synced store that only its log holds durably.
OnlyLogged(s) ==
  {r \in (Synced \cap {s}) \X Rows :
     InLogOnly(r) \/ Replay(dsk[Data(s)], mem[Wal(s)])[r[2]] # dsk[Data(s)][r[2]]}

OtherTruncate(t) ==
  /\ At(t, "trunc")
  /\ mem' = [mem EXCEPT ![Wal(saving[t].store)] = <<>>]
  /\ cut' = cut \cup OnlyLogged(saving[t].store)
  /\ Goes(t, [saving[t] EXCEPT !.step = "tsync"])
  /\ UNCHANGED <<dsk, clientVars>>

OtherSync(t) ==
  /\ At(t, "tsync")
  /\ Sync(Wal(saving[t].store))
  /\ Goes(t, None)
  /\ UNCHANGED <<mem, clientVars>>

Others == \E t \in Savers :
  (\E s \in Stores : OtherSave(t, s)) \/ OtherCheckpoint(t) \/ OtherTruncate(t) \/ OtherSync(t)

----------------------------------------------------------------------------
(* Faults                                                                  *)

\* What a power failure can leave: of a data file each row old or new, of a log
\* some of the frames appended since the last sync (a torn tail is cut by the next
\* open), or either side of a truncation.
RowsLeft(s) ==
  {r \in [Rows -> Values] : \A k \in Rows : r[k] \in {mem[Data(s)][k], dsk[Data(s)][k]}}

LogsLeft(s) ==
  LET new == mem[Wal(s)]
      old == dsk[Wal(s)]
  IN  IF Len(new) < Len(old) THEN {new, old}
      ELSE {SubSeq(new, 1, n) : n \in Len(old)..Len(new)}

ProcessGone ==
  /\ pc # "down" /\ faults < MaxFaults
  /\ faults' = faults + 1
  /\ pc' = "down"
  /\ cur' = None /\ todo' = <<>> /\ open' = {}
  /\ depth' = 0 /\ files' = <<>> /\ snap' = <<>>
  /\ saving' = [t \in Savers |-> None]
  /\ UNCHANGED puts

\* The process ends (killed, trapped or simply finished).
Kill ==
  /\ "kill" \in Faults
  /\ ProcessGone
  /\ UNCHANGED <<diskVars, journalVars, outcomes>>

\* The rows that are neither in their log, nor in their data file, nor in the
\* journal: another task's save has cut the log between the row's frame and the
\* next sync of the data file.
Exposed == {r \in cut : jdsk = None \/ \A i \in DOMAIN jdsk : jdsk[i].file # Data(r[1])}

\* A power failure may take them back to what the data file holds.
WithoutExposed ==
  {m \in [Stores -> Contents] : \E o \in outcomes : \A s \in Stores, k \in Rows :
     m[s][k] = o[s][k] \/ (<<s, k>> \in Exposed /\ m[s][k] = dsk[Data(s)][k])}

PowerFailure ==
  /\ "power" \in Faults
  /\ ProcessGone
  /\ \E d \in [Stores -> UNION {RowsLeft(s) : s \in Stores}],
        w \in [Stores -> UNION {LogsLeft(s) : s \in Stores}] :
       /\ \A s \in Stores : d[s] \in RowsLeft(s) /\ w[s] \in LogsLeft(s)
       /\ mem' = [f \in File |-> IF f[1] = "data" THEN d[f[2]] ELSE w[f[2]]]
  /\ dsk' = mem' /\ cut' = {}
  /\ jmem' \in {jmem, jdsk}
  /\ jdsk' = jmem'
  /\ outcomes' = WithoutExposed

----------------------------------------------------------------------------

\* The process goes on with what it has begun.
Work ==
  \/ Start \/ JournalRestore \/ JournalRestoreSync \/ JournalRestored \/ JournalGone
  \/ RecoverRewrite \/ RecoverSync
  \/ Checkpoint \/ CheckpointTruncate \/ CheckpointSync
  \/ TrackData \/ TrackWal \/ LogBegin \/ SyncBegin
  \/ LogRow \/ ForceRow \/ Apply
  \/ CommitSync \/ CommitSynced \/ CommitFrameSkip \/ CommitFrameWrite \/ CommitFrameSync
  \/ CommitUnlink \/ CommitDone
  \/ Undo \/ UndoSync \/ UndoUnlink \/ UndoDone

Client ==
  \/ \E s \in Stores : Open(s) \/ Save(s)
  \/ \E s \in Stores, k \in Rows, v \in Values : Mutate(s, k, v)
  \/ TxnBegin \/ TxnCommit \/ TxnRollback

Next ==
  \/ (Work \/ Client) /\ UNCHANGED saving
  \/ Others
  \/ Kill \/ PowerFailure

Spec == Init /\ [][Next]_vars

FairSpec == Spec /\ WF_vars(Work /\ UNCHANGED saving)

----------------------------------------------------------------------------
(* Properties                                                              *)

\* The types of the state; the data files hold a value in every row and the logs
\* whole frames, whatever was lost, undone or replayed.
TypeOK ==
  /\ \A s \in Stores :
       /\ mem[Data(s)] \in Contents /\ dsk[Data(s)] \in Contents
       /\ mem[Wal(s)] \in Seq(Frame) /\ dsk[Wal(s)] \in Seq(Frame)
  /\ open \subseteq Stores
  /\ depth \in 0..MaxDepth
  /\ puts \in 0..MaxPuts /\ faults \in 0..MaxFaults

\* What the stores show when no operation runs, the unopened ones after their
\* recovery.
Shown == [s \in Stores |-> IF s \in open THEN mem[Data(s)] ELSE Recovered(s)]

\* The outcome table of docs/jinn.md: between transactions the stores show one
\* of the legal states.  A committed transaction is there as a whole, an aborted
\* or interrupted one not at all, in all of its stores; an acknowledged row of a
\* synced store is there; faults may hit every step, recovery included.
OutcomeLegal == pc = "idle" /\ depth = 0 => Shown \in outcomes

\* Undo before change: whatever a running transaction has changed in a file, in
\* the cache or on disk, the durable journal holds the file's earlier content.
UndoIsDurable ==
  \A f \in DOMAIN snap : pc # "cdir" /\ pc # "udir" /\ mem[f] # snap[f] =>
    \E i \in DOMAIN jdsk : jdsk[i].file = f /\ jdsk[i].img = snap[f]

\* After the last fault the next process gets through its recovery.
RecoveryEnds == pc = "down" ~> pc = "idle"
============================================================================
