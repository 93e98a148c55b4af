------------------------------- MODULE Query -------------------------------
(***************************************************************************)
(* The reading half of the generated store code: what each read operation  *)
(* computes from the record buffer it loaded under the writer lock.  A     *)
(* record is                                                               *)
(*    [sid, key, val, del, ver]                                            *)
(* (the builtin columns the statements use, one key column, one value      *)
(* column); a String column is the sequence Names[key], a sequence of      *)
(* bytes.  The operators keep the names of the functions that emit them.   *)
(***************************************************************************)
EXTENDS Integers, Sequences, FiniteSets, SequencesExt, FiniteSetsExt

CONSTANTS Hash,    \* [Keys -> Nat], jinn_idx_hash_* of a key
          Names,   \* [Keys -> Seq(Byte)], the String column of a row
          BufCap   \* STRING_BUF_SIZE - 8, the bytes a record keeps of a string

\* Two bytes that differ only in their case are c and c + 32.
Lower(c) == IF c >= 65 /\ c <= 90 THEN c + 32 ELSE c

-----------------------------------------------------------------------------
(* Strings in records. *)

\* A string longer than the fixed buffer is cut to the buffer.
copy_string_to_fixed_buf(s) == SubSeq(s, 1, Min({Len(s), BufCap}))

\* The length that was stored is clamped to the buffer before it is used.
read_string_from_fixed_buf(len, bytes) ==
  SubSeq(bytes, 1, Max({0, Min({len, BufCap})}))

\* The sign of the first difference of the first n bytes, 0 if there is none.
memcmp(a, b, n) ==
  LET diff == {i \in 1..n : a[i] # b[i]}
  IN IF diff = {} THEN 0 ELSE a[Min(diff)] - b[Min(diff)]

imemcmp(a, b, n) == memcmp([i \in DOMAIN a |-> Lower(a[i])],
                           [i \in DOMAIN b |-> Lower(b[i])], n)

IntCompare(op, a, b) ==
  CASE op = "eq" -> a = b  [] op = "ne" -> a # b
    [] op = "lt" -> a < b  [] op = "gt" -> a > b
    [] op = "le" -> a <= b [] op = "ge" -> a >= b

\* Equality compares the lengths first; an ordering compares only the bytes
\* the two strings have in common.
store_compare_field(op, a, b) ==
  CASE op = "eq" -> Len(a) = Len(b) /\ memcmp(a, b, Len(a)) = 0
    [] op = "ne" -> Len(a) # Len(b) \/ memcmp(a, b, Len(a)) # 0
    [] OTHER -> IntCompare(op, memcmp(a, b, Min({Len(a), Len(b)})), 0)

store_text_predicate(pred, s, n) ==
  LET cmp(a, b, k) == IF pred \in {"ieq", "icontains", "istarts", "iends"}
                      THEN imemcmp(a, b, k) ELSE memcmp(a, b, k)
      fits == Len(s) >= Len(n)
      At(i) == cmp(SubSeq(s, i + 1, i + Len(n)), n, Len(n)) = 0
  IN CASE pred = "ieq" -> Len(s) = Len(n) /\ At(0)
       [] pred \in {"starts", "istarts"} -> fits /\ At(0)
       [] pred \in {"ends", "iends"} -> fits /\ At(Len(s) - Len(n))
       [] pred \in {"contains", "icontains"} ->
            fits /\ \E i \in 0..(Len(s) - Len(n)) : At(i)

\* A condition is [field, op, value]; a filter a first condition and a sequence
\* of [lop, cond] joined to it from left to right, `and` and `or` alike.
CompareCond(r, c) ==
  CASE c.field = "name" /\ c.op \in {"eq", "ne", "lt", "gt", "le", "ge"} ->
         store_compare_field(c.op, Names[r.key], c.value)
    [] c.field = "name" -> store_text_predicate(c.op, Names[r.key], c.value)
    [] OTHER -> IntCompare(c.op, r[c.field], c.value)

eval_store_filter_pred(r, f) ==
  FoldLeft(LAMBDA acc, e : IF e.lop = "and" THEN acc /\ CompareCond(r, e.cond)
                                            ELSE acc \/ CompareCond(r, e.cond),
           CompareCond(r, f.first), f.extra)

-----------------------------------------------------------------------------
(* Scans of the loaded buffer. *)

NoRow == [sid |-> 0, key |-> 0, val |-> 0, del |-> FALSE, ver |-> 0]

Positions(buf, P(_)) == {i \in DOMAIN buf : ~buf[i].del /\ P(buf[i])}
FirstRow(buf, hits) == IF hits = {} THEN NoRow ELSE buf[Min(hits)]

\* The first live match, or the zeroed record the caller takes for a miss.
emit_store_query(buf, f) == FirstRow(buf, Positions(buf, LAMBDA r : eval_store_filter_pred(r, f)))
emit_store_get(buf, sid) == FirstRow(buf, Positions(buf, LAMBDA r : r.sid = sid))
emit_store_exists(buf, f) == emit_store_query(buf, f) # NoRow

emit_store_count(buf) == Cardinality({i \in DOMAIN buf : ~buf[i].del})
emit_view_count(buf, f) ==
  FoldLeft(LAMBDA n, r : IF ~r.del /\ eval_store_filter_pred(r, f) THEN n + 1 ELSE n,
           0, buf)

emit_store_all(buf) == SelectSeq(buf, LAMBDA r : ~r.del)
emit_view_all(buf, f) ==
  FoldLeft(LAMBDA out, r : IF r.del THEN out
                           ELSE IF eval_store_filter_pred(r, f) THEN Append(out, r) ELSE out,
           <<>>, buf)
emit_store_all_where(buf, f) ==
  SelectSeq(buf, LAMBDA r : ~r.del /\ eval_store_filter_pred(r, f))

\* An edge store: neighbours of a node in file order, tombstones included.
emit_graph_query(buf, dir, node) ==
  LET near(r) == IF dir = "from" THEN r.key ELSE r.val
      far(r) == IF dir = "from" THEN r.val ELSE r.key
      hits == SelectSeq(buf, LAMBDA r : near(r) = node)
  IN [i \in DOMAIN hits |-> far(hits[i])]

emit_ts_latest(buf) == Len(buf)

-----------------------------------------------------------------------------
(* Hash tables of distinct() and group(): open addressing over 4n+16 slots, *)
(* the hash stored with its low bit set, 0 for a free slot.                 *)

Cap(buf) == 4 * Len(buf) + 16
Marked(k) == Hash[k] + (1 - (Hash[k] % 2))

\* The slot where the probe for hash h stops: a free one or its own.
Probe(tbl, h, cap) ==
  LET slot(j) == (h + j) % cap
      stops(j) == tbl[slot(j)].h \in {0, h}
  IN slot(CHOOSE j \in 0..(cap - 1) : stops(j) /\ \A i \in 0..(j - 1) : ~stops(i))

FreeSlot == [h |-> 0, row |-> 0, cnt |-> 0, acc |-> 0]

\* Mutant: min and max start at zero.
CombineFromZero(agg, first, acc, v) ==
  CASE agg = "min" -> Min({v, acc}) [] agg = "max" -> Max({v, acc}) [] OTHER -> acc + v
Combine(agg, first, acc, v) ==
  CASE agg \in {"min", "max"} /\ first -> v
    [] agg = "min" -> Min({v, acc})
    [] agg = "max" -> Max({v, acc})
    [] OTHER -> acc + v

\* One pass over the buffer: each live row that passes the filter is added to
\* the group its probe stops at.
GroupTable(buf, agg, hits) ==
  LET cap == Cap(buf)
      add(tbl, i) ==
        LET r == buf[i]
            s == Probe(tbl, Marked(r.key), cap)
            g == tbl[s]
        IN IF i \notin hits THEN tbl
           ELSE [tbl EXCEPT ![s] =
                  [h |-> Marked(r.key), row |-> IF g.h = 0 THEN i ELSE g.row,
                   cnt |-> g.cnt + 1, acc |-> Combine(agg, g.cnt = 0, g.acc, r.val)]]
  IN FoldLeft(add, [s \in 0..(cap - 1) |-> FreeSlot], [i \in DOMAIN buf |-> i])

\* The groups in slot order: the key of the row that opened the group and its
\* count or its accumulator.
GroupRows(buf, agg, tbl) ==
  LET slots == SelectSeq([i \in 1..Cap(buf) |-> i - 1], LAMBDA s : tbl[s].h # 0)
      out(s) == <<buf[tbl[s].row].key,
                  IF agg = "count" THEN tbl[s].cnt
                  ELSE IF agg = "avg" THEN <<tbl[s].acc, tbl[s].cnt>> ELSE tbl[s].acc>>
  IN [i \in DOMAIN slots |-> out(slots[i])]

emit_store_group(buf, agg) == GroupRows(buf, agg, GroupTable(buf, agg, Positions(buf, LAMBDA r : TRUE)))
emit_store_query_group(buf, agg, f) ==
  GroupRows(buf, agg, GroupTable(buf, agg, Positions(buf, LAMBDA r : eval_store_filter_pred(r, f))))

\* The keys in the order of their first live row.
emit_store_distinct(buf) ==
  LET cap == Cap(buf)
      add(st, r) ==
        LET s == Probe(st.tbl, Marked(r.key), cap)
        IN IF r.del \/ st.tbl[s].h # 0 THEN st
           ELSE [tbl |-> [st.tbl EXCEPT ![s].h = Marked(r.key)],
                 out |-> Append(st.out, r.key)]
  IN FoldLeft(add, [tbl |-> [s \in 0..(cap - 1) |-> FreeSlot], out |-> <<>>], buf).out

\* sum/min/max/avg of the value column over the live rows; min and max start at
\* the extreme values of the type, avg returns the pair it divides.
AggTop == 127
emit_store_agg(buf, op) ==
  LET init == CASE op = "min" -> AggTop [] op = "max" -> -AggTop - 1 [] OTHER -> 0
      live == SelectSeq(buf, LAMBDA r : ~r.del)
      acc == FoldLeft(LAMBDA a, r : CASE op = "min" -> IF r.val < a THEN r.val ELSE a
                                      [] op = "max" -> IF r.val > a THEN r.val ELSE a
                                      [] OTHER -> a + r.val, init, live)
  IN IF op = "avg" THEN <<acc, Len(live)>> ELSE acc
=============================================================================
