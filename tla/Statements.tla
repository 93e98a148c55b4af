----------------------------- MODULE Statements -----------------------------
(***************************************************************************)
(* The generated code of store statements, run by concurrent tasks.  Each  *)
(* emit_store_* function is the sequence of runtime steps it generates;    *)
(* what a step does to the data file, the index, the version log and a     *)
(* child store is an action.  Steps of different tasks interleave; only    *)
(* the writer gate orders them.  Transactions and crashes are the subject  *)
(* of module Store; here the process does not stop.                        *)
(***************************************************************************)
EXTENDS Query

CONSTANTS Tasks, Keys, Vals,
          Kinds,        \* the store declarations of this instance
          Ops,          \* per declaration, the statements of this instance
          Filters,      \* the filters its reads use
          MaxStatements,\* bound: statements started
          MaxRows,      \* bound: rows of the data file
          Threshold,    \* the argument of @compact(n)
          CompactAlone  \* TRUE: no task uses the store while another compacts it

ASSUME StatementsAssumption ==
  /\ {1, 2} \subseteq Keys /\ Keys \subseteq Nat \ {0} /\ Vals \subseteq Nat
  /\ MaxStatements \in Nat /\ MaxRows \in Nat /\ Threshold \in Nat \ {0}
  /\ CompactAlone \in BOOLEAN
  /\ "no task" \notin Tasks
  /\ \A k \in Kinds : Ops[k] \subseteq {"insert", "delete", "destroy", "set", "rekey", "restore",
                                      "compact", "save", "read", "find", "history", "child"}

VARIABLES
  kind,    \* the declaration of the store: "plain", "unique", "versioned", ...
  fp,      \* the global file handle: "null", "raw" (recovery still running), "ready"
  gate,    \* owner of the writer gate, or NoTask
  rows,    \* the records of the data file, in file order
  idx,     \* the open index of the key column (hash, position), or NoIndex
  vlog,    \* the version log
  kids,    \* rows of a child store whose belongs-to column cascades
  gone,    \* sids whose delete finished
  touched, \* kinds of statements that changed rows so far
  stale,   \* TRUE: a statement that leaves the index alone changed keys or positions
  left,    \* statements that may still be started
  st       \* per task: its statement, its step and its locals

vars == <<kind, fp, gate, rows, idx, vlog, kids, gone, touched, stale, left, st>>

NoTask == "no task"

Abstract == INSTANCE Table WITH table <- rows
Picked(s, I) == Abstract!Picked(s, I)

\* The index handle is null; no entry of an open index has the hash 0.
NoIndex == <<[h |-> 0, off |-> 0]>>
Idle == [op |-> "none", k |-> 0, v |-> 0, at |-> 1, buf |-> <<>>, sids |-> {}]

-----------------------------------------------------------------------------
(* The programs.  `ensure` and `recover` are __store_ensure_<name>; `lock`  *)
(* and `unlock` are store_lock and store_unlock.                            *)

Opened == <<"ensure", "recover">>

emit_store_insert == Opened \o <<"lock", "check", "append", "sidecars", "unlock">>
\* Mutant: the records are read before the gate is taken.
SetLoadsEarly == Opened \o <<"load", "lock", "update", "unlock">>
emit_store_set == Opened \o <<"lock", "load", "update", "unlock">>
\* Mutant: the gate is kept.
RestoreKeepsGate == Opened \o <<"lock", "load", "untomb">>
emit_store_restore == Opened \o <<"lock", "load", "untomb", "unlock">>
emit_store_compact == Opened \o <<"compact_read", "compact_commit">>
emit_store_save == Opened \o <<"sync">>
Scan == Opened \o <<"lock", "load", "unlock", "scan">>
emit_store_query_indexed == Opened \o <<"lock", "lookup", "unlock">>
emit_store_history == Opened \o <<"history">>

\* Mutant: the child stores are not reached.
NoCascade == <<>>
emit_cascade_calls == IF kind = "cascade" THEN <<"lock", "cascade", "unlock">> ELSE <<>>
emit_store_hard_delete == Opened \o <<"lock", "load", "rewrite", "unlock">> \o emit_cascade_calls
emit_store_delete ==
  IF kind = "simple" THEN emit_store_hard_delete
  ELSE Opened \o <<"lock", "load", "tomb", "unlock">>
       \o (IF kind = "compact" THEN <<"compact_if", "compact_commit">> ELSE <<>>)
       \o emit_cascade_calls
ChildInsert == Opened \o <<"lock", "child", "unlock">>

Prog(o) ==
  CASE o = "insert" -> emit_store_insert
    [] o = "delete" -> emit_store_delete
    [] o = "destroy" -> emit_store_hard_delete
    [] o \in {"set", "rekey"} -> emit_store_set
    [] o = "restore" -> emit_store_restore
    [] o = "compact" -> emit_store_compact
    [] o = "save" -> emit_store_save
    [] o = "read" -> Scan
    [] o = "find" -> emit_store_query_indexed
    [] o = "history" -> emit_store_history
    [] o = "child" -> ChildInsert

Compacts(o) == o = "compact" \/ (kind = "compact" /\ o = "delete")
At(t, name) == st[t].op # "none" /\ Prog(st[t].op)[st[t].at] = name

\* The statement goes on at step n, with the locals of x, or ends.
GoTo(t, n, x) ==
  st' = [st EXCEPT ![t] = IF n > Len(Prog(x.op)) THEN Idle ELSE [x EXCEPT !.at = n]]
Step(t, x) == GoTo(t, st[t].at + 1, x)
\* An early exit branches to the unlock of its own path.
Exit(t) == GoTo(t, CHOOSE n \in DOMAIN Prog(st[t].op) : Prog(st[t].op)[n] = "unlock", st[t])

Init ==
  /\ kind \in Kinds
  /\ fp \in IF kind = "plain" THEN {"null"} ELSE {"ready"}
  /\ gate = NoTask /\ left = MaxStatements
  /\ rows = [i \in 1..2 |-> [sid |-> i, key |-> i, val |-> 0, del |-> FALSE, ver |-> 1]]
  /\ idx = NoIndex /\ vlog = <<>> /\ gone = {} /\ touched = {} /\ stale = FALSE
  /\ kids = <<[owner |-> 1, del |-> FALSE, late |-> FALSE]>>
  /\ st = [t \in Tasks |-> Idle]

Alone(t, o) == \A u \in Tasks \ {t} :
                  st[u].op # "none" => ~Compacts(o) /\ ~Compacts(st[u].op)

Start(t) ==
  \E o \in Ops[kind], k \in Keys, v \in Vals :
    /\ st[t] = Idle /\ left > 0
    /\ CompactAlone => Alone(t, o)
    /\ o \notin {"set", "insert", "rekey"} => v = Min(Vals)
    /\ o \in {"compact", "save", "read", "history"} => k = Min(Keys)
    /\ o = "insert" => Len(rows) < MaxRows
    /\ o = "child" => Len(kids) < 2
    /\ left' = left - 1
    /\ st' = [st EXCEPT ![t] = [Idle EXCEPT !.op = o, !.k = k, !.v = v]]
    /\ UNCHANGED <<kind, fp, gate, rows, idx, vlog, kids, gone, touched, stale>>

-----------------------------------------------------------------------------
(* Opening: the fast path reads the global without a lock; the slow path    *)
(* publishes the handle before recovery has run.                            *)

Ensure(t) ==
  /\ At(t, "ensure")
  /\ \/ fp # "null" /\ GoTo(t, 3, st[t]) /\ UNCHANGED <<fp, gate>>
     \/ fp = "null" /\ gate = NoTask /\ gate' = t /\ fp' = "raw" /\ Step(t, st[t])
  /\ UNCHANGED <<kind, rows, idx, vlog, kids, gone, touched, stale, left>>

Recover(t) ==
  /\ At(t, "recover")
  /\ fp' = "ready" /\ gate' = NoTask
  /\ Step(t, st[t])
  /\ UNCHANGED <<kind, rows, idx, vlog, kids, gone, touched, stale, left>>

store_lock(t) ==
  /\ At(t, "lock") /\ gate = NoTask
  /\ gate' = t
  /\ Step(t, st[t])
  /\ UNCHANGED <<kind, fp, rows, idx, vlog, kids, gone, touched, stale, left>>

\* What a statement has finished with when it gives the gate back.
Finished(t) == IF st[t].at = Len(Prog(st[t].op)) THEN st[t].sids ELSE {}

store_unlock(t) ==
  /\ At(t, "unlock") /\ gate = t
  /\ gate' = NoTask
  /\ gone' = gone \cup Finished(t)
  /\ Step(t, st[t])
  /\ UNCHANGED <<kind, fp, rows, idx, vlog, kids, touched, stale, left>>

\* store_read_count and store_load_records: a private copy of the records.
store_load_records(t) ==
  /\ At(t, "load")
  /\ Step(t, [st[t] EXCEPT !.buf = rows])
  /\ UNCHANGED <<kind, fp, gate, rows, idx, vlog, kids, gone, touched, stale, left>>

-----------------------------------------------------------------------------
(* The index: opened on first use, rebuilt from the live rows when its file *)
(* is missing, never told about updates.                                    *)

gen_idx_rebuild(rs) ==
  LET entries == [i \in DOMAIN rs |-> [h |-> Hash[rs[i].key], off |-> i]]
  IN Picked(entries, {i \in DOMAIN rs : ~rs[i].del})

load_store_idx == IF idx = NoIndex THEN gen_idx_rebuild(rows) ELSE idx

\* The position of the first entry with the hash of k, 0 if there is none.
jinn_idx_lookup(ix, k) ==
  LET hits == {i \in DOMAIN ix : ix[i].h = Hash[k]}
  IN IF hits = {} THEN 0 ELSE ix[Min(hits)].off

\* The row behind the entry is returned as it is, a tombstone as a miss.
LookupRow(ix, k) ==
  LET p == jinn_idx_lookup(ix, k)
  IN IF p = 0 \/ p > Len(rows) THEN NoRow
     ELSE IF rows[p].del THEN NoRow ELSE rows[p]

Lookup(t) ==
  /\ At(t, "lookup")
  /\ idx' = load_store_idx
  /\ stale' = (stale /\ idx # NoIndex)
  /\ Step(t, st[t])
  /\ UNCHANGED <<kind, fp, gate, rows, vlog, kids, gone, touched, left>>

-----------------------------------------------------------------------------
(* Insert. *)

\* The count is read (the new sid is count + 1) and the unique index asked;
\* a duplicate leaves through the unlock of its own path.
InsertCheck(t) ==
  LET dup == kind = "unique" /\ jinn_idx_lookup(load_store_idx, st[t].k) # 0
  IN /\ At(t, "check")
     /\ idx' = IF kind = "unique" THEN load_store_idx ELSE idx
     /\ stale' = (stale /\ idx # NoIndex)
     /\ IF dup THEN Exit(t) ELSE Step(t, [st[t] EXCEPT !.buf = rows])
     /\ UNCHANGED <<kind, fp, gate, rows, vlog, kids, gone, touched, left>>

NewRow(t) == [sid |-> Len(st[t].buf) + 1, key |-> st[t].k, val |-> st[t].v,
              del |-> FALSE, ver |-> 1]

\* The record is written at the position of the count, then the count is
\* raised.
InsertAppend(t) ==
  LET p == Len(st[t].buf) + 1
  IN /\ At(t, "append")
     /\ rows' = Append(rows, IF p = Len(rows) + 1 THEN NewRow(t) ELSE NoRow)
     /\ Step(t, st[t])
     /\ touched' = touched \cup {"insert"}
     /\ UNCHANGED <<kind, fp, gate, idx, vlog, kids, gone, stale, left>>

InsertSidecars(t) ==
  /\ At(t, "sidecars")
  /\ idx' = IF kind = "unique"
            THEN Append(load_store_idx, [h |-> Hash[st[t].k], off |-> Len(st[t].buf) + 1])
            ELSE idx
  /\ Step(t, st[t])
  /\ UNCHANGED <<kind, fp, gate, rows, vlog, kids, gone, touched, stale, left>>

-----------------------------------------------------------------------------
(* Statements that write the whole buffer back. *)

Matches(t, r) == r.key = st[t].k
Rewritten(t, F(_)) == [i \in DOMAIN st[t].buf |-> F(st[t].buf[i])]
MatchedSids(t) == {st[t].buf[i].sid : i \in {j \in DOMAIN st[t].buf : Matches(t, st[t].buf[j])}}

Tomb(t) ==
  /\ At(t, "tomb")
  /\ rows' = Rewritten(t, LAMBDA r : IF Matches(t, r) THEN [r EXCEPT !.del = TRUE] ELSE r)
  /\ touched' = touched \cup {"delete"}
  /\ Step(t, [st[t] EXCEPT !.sids = MatchedSids(t), !.buf = <<>>])
  /\ UNCHANGED <<kind, fp, gate, idx, vlog, kids, gone, stale, left>>

\* Mutant: the index of the replaced file stays open.
RewriteKeepsIndex(t) ==
  /\ At(t, "rewrite")
  /\ rows' = Picked(st[t].buf, {i \in DOMAIN st[t].buf : ~Matches(t, st[t].buf[i])})
  /\ touched' = touched \cup {"destroy"}
  /\ Step(t, [st[t] EXCEPT !.sids = MatchedSids(t), !.buf = <<>>])
  /\ UNCHANGED <<kind, fp, gate, idx, vlog, kids, gone, stale, left>>
\* A new file is written and renamed over the old one; the index files are
\* removed and the open index is closed.
Rewrite(t) ==
  /\ At(t, "rewrite")
  /\ rows' = Picked(st[t].buf, {i \in DOMAIN st[t].buf : ~Matches(t, st[t].buf[i])})
  /\ idx' = NoIndex /\ stale' = FALSE
  /\ touched' = touched \cup {"destroy"}
  /\ Step(t, [st[t] EXCEPT !.sids = MatchedSids(t), !.buf = <<>>])
  /\ UNCHANGED <<kind, fp, gate, vlog, kids, gone, left>>

\* A versioned store appends the old row to its log before it changes it.
Updated(t, r) ==
  LET next == IF st[t].op = "rekey" THEN [r EXCEPT !.key = st[t].v] ELSE [r EXCEPT !.val = st[t].v]
  IN IF kind = "versioned" THEN [next EXCEPT !.ver = @ + 1] ELSE next
Live(t, r) == Matches(t, r) /\ ~r.del

\* Mutant: the old row is not logged.
UpdateUnlogged(t) ==
  /\ At(t, "update")
  /\ st[t].op = "rekey" => st[t].v \in Keys
  /\ rows' = Rewritten(t, LAMBDA r : IF Live(t, r) THEN Updated(t, r) ELSE r)
  /\ touched' = touched \cup {st[t].op}
  /\ stale' = (stale \/ st[t].op = "rekey")
  /\ Step(t, [st[t] EXCEPT !.buf = <<>>])
  /\ UNCHANGED <<kind, fp, gate, idx, vlog, kids, gone, left>>
Update(t) ==
  /\ At(t, "update")
  /\ st[t].op = "rekey" => st[t].v \in Keys
  /\ rows' = Rewritten(t, LAMBDA r : IF Live(t, r) THEN Updated(t, r) ELSE r)
  /\ vlog' = IF kind = "versioned"
             THEN vlog \o Picked(st[t].buf, {i \in DOMAIN st[t].buf : Live(t, st[t].buf[i])}) ELSE vlog
  /\ touched' = touched \cup {st[t].op}
  /\ stale' = (stale \/ st[t].op = "rekey")
  /\ Step(t, [st[t] EXCEPT !.buf = <<>>])
  /\ UNCHANGED <<kind, fp, gate, idx, kids, gone, left>>

Untomb(t) ==
  /\ At(t, "untomb")
  /\ rows' = Rewritten(t, LAMBDA r : IF Matches(t, r) THEN [r EXCEPT !.del = FALSE] ELSE r)
  /\ touched' = touched \cup {"restore"} /\ stale' = TRUE
  /\ gone' = gone \ MatchedSids(t)
  /\ Step(t, [st[t] EXCEPT !.buf = <<>>])
  /\ UNCHANGED <<kind, fp, gate, idx, vlog, kids, left>>

-----------------------------------------------------------------------------
(* Compaction, by statement or by the threshold of @compact: it takes no    *)
(* lock and leaves the index alone.                                         *)

Tombs(rs) == Cardinality({i \in DOMAIN rs : rs[i].del})

CompactRead(t) ==
  /\ \/ At(t, "compact_read") /\ Step(t, [st[t] EXCEPT !.buf = rows])
     \/ At(t, "compact_if")
        /\ IF Tombs(rows) < Threshold THEN GoTo(t, st[t].at + 2, st[t])
           ELSE Step(t, [st[t] EXCEPT !.buf = rows])
  /\ UNCHANGED <<kind, fp, gate, rows, idx, vlog, kids, gone, touched, stale, left>>

CompactCommit(t) ==
  /\ At(t, "compact_commit")
  /\ rows' = IF Tombs(st[t].buf) = 0 THEN rows ELSE Picked(st[t].buf, {i \in DOMAIN st[t].buf : ~st[t].buf[i].del})
  /\ touched' = touched \cup {"compact"} /\ stale' = TRUE
  /\ Step(t, [st[t] EXCEPT !.buf = <<>>])
  /\ UNCHANGED <<kind, fp, gate, idx, vlog, kids, gone, left>>

-----------------------------------------------------------------------------
(* The child store: a cascade is a delete of its own, under its own lock,   *)
(* after the parent's lock was given back.                                  *)

Cascade(t) ==
  /\ At(t, "cascade")
  /\ kids' = IF st[t].op = "destroy"
             THEN Picked(kids, {i \in DOMAIN kids : kids[i].owner \notin st[t].sids})
             ELSE [i \in DOMAIN kids |-> IF kids[i].owner \in st[t].sids
                                         THEN [kids[i] EXCEPT !.del = TRUE] ELSE kids[i]]
  /\ Step(t, st[t])
  /\ UNCHANGED <<kind, fp, gate, rows, idx, vlog, gone, touched, stale, left>>

ChildAppend(t) ==
  /\ At(t, "child")
  /\ kids' = Append(kids, [owner |-> st[t].k, del |-> FALSE, late |-> st[t].k \in gone])
  /\ Step(t, st[t])
  /\ UNCHANGED <<kind, fp, gate, rows, idx, vlog, gone, touched, stale, left>>

\* The steps that compute from what was read and change nothing.
Compute(t) ==
  /\ \E n \in {"scan", "sync", "history"} : At(t, n)
  /\ Step(t, st[t])
  /\ UNCHANGED <<kind, fp, gate, rows, idx, vlog, kids, gone, touched, stale, left>>

-----------------------------------------------------------------------------
Work(t) == \/ Ensure(t) \/ Recover(t) \/ store_lock(t) \/ store_unlock(t)
           \/ store_load_records(t) \/ Lookup(t)
           \/ InsertCheck(t) \/ InsertAppend(t) \/ InsertSidecars(t)
           \/ Tomb(t) \/ Rewrite(t) \/ Update(t) \/ Untomb(t)
           \/ CompactRead(t) \/ CompactCommit(t)
           \/ Cascade(t) \/ ChildAppend(t) \/ Compute(t)

Next == \E t \in Tasks : Start(t) \/ Work(t)

\* A task runs its own steps; a task that waits for the gate retries (the CAS
\* loop of the gate yields between attempts).
Fairness == \A t \in Tasks : WF_vars(Work(t))

Spec == Init /\ [][Next]_vars
FairSpec == Spec /\ Fairness

-----------------------------------------------------------------------------
(* Properties *)

\* The data file only ever changes by a whole statement applied to the file as
\* it is: a statement that loads every record, changes its copy and writes the
\* copy back never overwrites what another task wrote in between.
WholeStatements == Abstract!Spec

Eq(fld, x) == [first |-> [field |-> fld, op |-> "eq", value |-> x], extra |-> <<>>]

Unique == \A i, j \in DOMAIN rows :
            (i # j /\ ~rows[i].del /\ ~rows[j].del) => rows[i].key # rows[j].key

\* A query that goes through the index of a @unique column finds the row a scan
\* finds, whenever no statement is running, as long as no statement since the
\* index was built changed a key, restored a row or compacted the file (none of
\* these maintains the index); and two live rows never share a key while no
\* statement changed a key or restored a row (neither asks the index).
IndexAgrees ==
  kind = "unique" =>
    /\ (gate = NoTask /\ ~stale)
         => \A k \in Keys : LookupRow(load_store_idx, k) = emit_store_query(rows, Eq("key", k))
    /\ touched \cap {"rekey", "restore"} = {} => Unique

\* The version log of a row holds each earlier version of it once and in order,
\* and version_count is the version of the row, as long as no row was removed
\* (the sid of a removed row is given out again).
VersionsComplete ==
  (kind = "versioned" /\ touched \cap {"destroy", "compact"} = {}) =>
    \A i \in DOMAIN rows :
      LET log == {j \in DOMAIN vlog : vlog[j].sid = rows[i].sid}
      IN /\ {vlog[j].ver : j \in log} = 1..(rows[i].ver - 1)
         /\ \A j, l \in log : j < l => vlog[j].ver < vlog[l].ver

\* What is kept beside the data file -- the index and the version log -- agrees
\* with it after every statement.
SidecarsAgree == IndexAgrees /\ VersionsComplete

SumVals(S) == FoldSet(LAMBDA x, acc : x[2] + acc, 0, S)
Agg(agg, S) ==
  CASE agg = "count" -> Cardinality(S)
    [] agg = "sum" -> SumVals(S) [] agg = "min" -> Min({x[2] : x \in S})
    [] agg = "max" -> Max({x[2] : x \in S}) [] agg = "avg" -> <<SumVals(S), Cardinality(S)>>

\* What a filter means, said without the loop that evaluates it.
FilterHolds(r, f) ==
  CASE f.extra = <<>> -> CompareCond(r, f.first)
    [] f.extra[1].lop = "and" -> CompareCond(r, f.first) /\ CompareCond(r, f.extra[1].cond)
    [] OTHER -> CompareCond(r, f.first) \/ CompareCond(r, f.extra[1].cond)

\* Every read returns exactly what its reference definition returns for the
\* live rows of the records it loaded: scans, counts, groups and aggregates
\* never see a tombstone, never lose and never repeat a row.
ReadsRight ==
  \A t \in Tasks : At(t, "scan") =>
    LET b == st[t].buf
        liveAt == {i \in DOMAIN b : ~b[i].del}
        group(k) == {<<i, b[i].val>> : i \in {j \in liveAt : b[j].key = k}}
        keys == {b[i].key : i \in liveAt}
    IN /\ \A f \in Filters :
            LET hits == {i \in liveAt : FilterHolds(b[i], f)}
            IN /\ emit_view_count(b, f) = Cardinality(hits)
               /\ emit_view_all(b, f) = emit_store_all_where(b, f)
               /\ {r.sid : r \in Range(emit_view_all(b, f))} = {b[i].sid : i \in hits}
               /\ Len(emit_view_all(b, f)) = Cardinality(hits)
               /\ emit_store_exists(b, f) <=> hits # {}
               /\ hits # {} => emit_store_query(b, f) = b[Min(hits)]
               /\ Range(emit_store_query_group(b, "count", f))
                    = {<<k, Cardinality({i \in hits : b[i].key = k})>> :
                         k \in {b[i].key : i \in hits}}
       /\ emit_store_count(b) = Len(emit_store_all(b))
       /\ emit_ts_latest(b) >= emit_store_count(b)
       /\ \A i \in liveAt : emit_store_get(b, b[i].sid).sid = b[i].sid
       /\ (liveAt = DOMAIN b) =>
            \A k \in Keys : /\ Range(emit_graph_query(b, "from", k)) = {x[2] : x \in group(k)}
                            /\ Len(emit_graph_query(b, "from", k)) = Cardinality(group(k))
       /\ Range(emit_store_distinct(b)) = keys
       /\ Len(emit_store_distinct(b)) = Cardinality(keys)
       /\ \A agg \in {"count", "sum", "min", "max", "avg"} :
            /\ Range(emit_store_group(b, agg)) = {<<k, Agg(agg, group(k))>> : k \in keys}
            /\ Len(emit_store_group(b, agg)) = Cardinality(keys)
       /\ \A agg \in {"sum", "min", "max", "avg"} :
            liveAt # {} => emit_store_agg(b, agg) = Agg(agg, UNION {group(k) : k \in keys})

\* A row of the child store whose owner was deleted is deleted too once the
\* delete has returned, unless it was inserted after that.
CascadeReaches ==
  kind = "cascade" =>
    \A i \in DOMAIN kids : kids[i].owner \in gone => kids[i].del \/ kids[i].late

\* A statement that was started ends: no order of opening, gate and early exits
\* leaves a task waiting for good.
StatementEnds == \A t \in Tasks : st[t].op # "none" ~> st[t].op = "none"
=============================================================================
