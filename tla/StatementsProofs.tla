-------------------------- MODULE StatementsProofs --------------------------
(***************************************************************************)
(* Proofs about the store statements of concurrent tasks: the data file    *)
(* changes by whole statements (the refinement of Table), the index and    *)
(* the version log agree with it (SidecarsAgree), and a cascade reaches    *)
(* every child (CascadeReaches); for any tasks, keys, statements and any   *)
(* number of rows, as long as nobody uses a store while it is compacted.   *)
(***************************************************************************)
EXTENDS Statements, FiniteSetTheorems, WellFoundedInduction, TLAPS

Statement == {"insert", "delete", "destroy", "set", "rekey", "restore",
           "compact", "save", "read", "find", "history", "child"}
StepNames == {"ensure", "recover", "lock", "unlock", "check", "append", "sidecars", "load", "update",
              "untomb", "tomb", "rewrite", "lookup", "cascade", "child", "compact_read", "compact_if",
              "compact_commit", "sync", "scan", "history"}

\* The programs written out, the declaration of the store as a parameter.
HardDelete(kd) ==
  IF kd = "cascade" THEN <<"ensure", "recover", "lock", "load", "rewrite", "unlock", "lock", "cascade", "unlock">>
                    ELSE <<"ensure", "recover", "lock", "load", "rewrite", "unlock">>
SoftDelete(kd) ==
  CASE kd = "cascade" -> <<"ensure", "recover", "lock", "load", "tomb", "unlock", "lock", "cascade", "unlock">>
    [] kd = "compact" -> <<"ensure", "recover", "lock", "load", "tomb", "unlock", "compact_if", "compact_commit">>
    [] OTHER -> <<"ensure", "recover", "lock", "load", "tomb", "unlock">>
Program(kd, o) ==
  CASE o = "insert" -> <<"ensure", "recover", "lock", "check", "append", "sidecars", "unlock">>
    [] o = "delete" -> IF kd = "simple" THEN HardDelete(kd) ELSE SoftDelete(kd)
    [] o = "destroy" -> HardDelete(kd)
    [] o \in {"set", "rekey"} -> <<"ensure", "recover", "lock", "load", "update", "unlock">>
    [] o = "restore" -> <<"ensure", "recover", "lock", "load", "untomb", "unlock">>
    [] o = "compact" -> <<"ensure", "recover", "compact_read", "compact_commit">>
    [] o = "save" -> <<"ensure", "recover", "sync">>
    [] o = "read" -> <<"ensure", "recover", "lock", "load", "unlock", "scan">>
    [] o = "find" -> <<"ensure", "recover", "lock", "lookup", "unlock">>
    [] o = "history" -> <<"ensure", "recover", "history">>
    [] o = "child" -> <<"ensure", "recover", "lock", "child", "unlock">>

\* The step a task is at, and where it is after it.
Here(kd, x) == IF x.op = "none" THEN "none" ELSE Program(kd, x.op)[x.at]
After(kd, x, n) == IF n > Len(Program(kd, x.op)) THEN Idle ELSE [x EXCEPT !.at = n]

\* The steps of a task that owns the writer gate.
Critical == {"recover", "check", "append", "sidecars", "load", "update", "untomb", "tomb", "rewrite",
             "lookup", "cascade", "child", "unlock"}
\* The steps that write back what was read before.
Writing == {"append", "update", "untomb", "tomb", "rewrite", "compact_commit"}

Row == [sid : Nat, key : Keys, val : Nat, del : BOOLEAN, ver : Nat]
Kid == [owner : Nat, del : BOOLEAN, late : BOOLEAN]
Local == [op : Statement \cup {"none"}, k : Nat, v : Nat, at : Nat, buf : Seq(Row), sids : SUBSET Nat]

-----------------------------------------------------------------------------
(* The inductive invariant *)

SType ==
  /\ kind \in Kinds
  /\ rows \in Seq(Row) /\ vlog \in Seq(Row) /\ kids \in Seq(Kid)
  /\ idx \in Seq([h : {0} \cup {Hash[k] : k \in Keys}, off : Nat])
  /\ gone \subseteq Nat /\ stale \in BOOLEAN /\ gate \in Tasks \cup {NoTask}
  /\ st \in [Tasks -> Local]
  /\ \A t \in Tasks : st[t].op # "none" => st[t].k \in Keys /\ st[t].v \in Vals /\ st[t].at \in DOMAIN Program(kind, st[t].op)

\* The gate has the owner whose steps are critical.
GateHeld == \A t \in Tasks : gate = t <=> Here(kind, st[t]) \in Critical

\* Either nobody uses a store while it is compacted, or no store ever is:
\* emit_store_compact takes no lock.
CompactsUndisturbed == CompactAlone \/ \A kd \in Kinds : kd # "compact" /\ "compact" \notin Ops[kd]

Solo ==
  /\ \A t, u \in Tasks : t # u /\ st[t].op # "none" /\ st[u].op # "none" => ~Compacts(st[t].op)
  /\ CompactAlone \/ \A t \in Tasks : ~Compacts(st[t].op)

\* What a statement writes back is what the file holds.
Fresh == \A t \in Tasks :
  /\ Here(kind, st[t]) \in Writing => st[t].buf = rows
  /\ Here(kind, st[t]) = "sidecars" => Len(st[t].buf) + 1 = Len(rows)

\* The row that an insert has appended and not indexed yet.
Pending(p) == \E t \in Tasks : Here(kind, st[t]) = "sidecars" /\ p = Len(rows)

\* An open index that no statement has made stale.
Indexed ==
  (kind = "unique" /\ idx # NoIndex /\ ~stale) =>
    /\ \A e \in DOMAIN idx : idx[e].off \in DOMAIN rows /\ idx[e].h = Hash[rows[idx[e].off].key]
    /\ \A e, f \in DOMAIN idx : e < f => idx[e].off < idx[f].off
    /\ \A p \in DOMAIN rows : ~rows[p].del /\ ~Pending(p) => \E e \in DOMAIN idx : idx[e].off = p
    /\ \A e \in DOMAIN idx : rows[idx[e].off].del =>
         \A p \in DOMAIN rows : ~rows[p].del => rows[p].key # rows[idx[e].off].key

\* An index that is open has the hash of each live key, stale or not.
Covered ==
  (kind = "unique" /\ touched \cap {"rekey", "restore"} = {}) =>
    /\ Unique
    /\ idx # NoIndex => \A p \in DOMAIN rows : ~rows[p].del /\ ~Pending(p) =>
                          \E e \in DOMAIN idx : idx[e].h = Hash[rows[p].key]

\* An insert that goes on has found no entry.
Checked ==
  kind = "unique" => \A t \in Tasks : Here(kind, st[t]) \in {"append", "sidecars"} =>
    /\ idx # NoIndex
    /\ \A e \in DOMAIN idx : idx[e].h # Hash[st[t].k]
    /\ Here(kind, st[t]) = "sidecars" => Len(rows) > 0 /\ rows[Len(rows)].key = st[t].k /\ ~rows[Len(rows)].del
OffsetsPositive == idx # NoIndex => \A e \in DOMAIN idx : idx[e].off > 0

\* The log of a versioned store whose rows were never renumbered.
Versions ==
  (kind = "versioned" /\ touched \cap {"destroy", "compact"} = {}) =>
    /\ \A i \in DOMAIN rows : rows[i].sid = i /\ rows[i].ver > 0
    /\ \A j \in DOMAIN vlog : vlog[j].sid \in DOMAIN rows /\ vlog[j].ver \in 1..(rows[vlog[j].sid].ver - 1)
    /\ \A i \in DOMAIN rows : \A n \in 1..(rows[i].ver - 1) : \E j \in DOMAIN vlog : vlog[j].sid = i /\ vlog[j].ver = n
    /\ \A j, l \in DOMAIN vlog : j < l /\ vlog[j].sid = vlog[l].sid => vlog[j].ver < vlog[l].ver

\* A delete that has reached the children gives the gate back.
Reached == kind = "cascade" =>
  /\ \A t \in Tasks : st[t].sids # {} => st[t].op \in {"delete", "destroy"}
  /\ \A t \in Tasks : st[t].op \in {"delete", "destroy"} /\ st[t].at = Len(Program(kind, st[t].op)) =>
       \A i \in DOMAIN kids : kids[i].owner \in st[t].sids => kids[i].del
  /\ CascadeReaches

SInv == SType /\ GateHeld /\ Solo /\ Fresh /\ Indexed /\ Covered /\ Checked /\ OffsetsPositive /\ Versions /\ Reached

-----------------------------------------------------------------------------
(* The programs and their steps *)

\* A sequence is the tuple of its elements, and two tuples joined are one.
LEMMA Tuple3 ==
  ASSUME NEW S, NEW s \in Seq(S), NEW a1, NEW a2, NEW a3, Len(s) = 3, s[1] = a1, s[2] = a2, s[3] = a3
  PROVE  s = <<a1, a2, a3>>
OBVIOUS
LEMMA Tuple4 ==
  ASSUME NEW S, NEW s \in Seq(S), NEW a1, NEW a2, NEW a3, NEW a4, Len(s) = 4, s[1] = a1, s[2] = a2, s[3] = a3, s[4] = a4
  PROVE  s = <<a1, a2, a3, a4>>
OBVIOUS
LEMMA Tuple5 ==
  ASSUME NEW S, NEW s \in Seq(S), NEW a1, NEW a2, NEW a3, NEW a4, NEW a5, Len(s) = 5, s[1] = a1, s[2] = a2, s[3] = a3, s[4] = a4, s[5] = a5
  PROVE  s = <<a1, a2, a3, a4, a5>>
OBVIOUS
LEMMA Tuple6 ==
  ASSUME NEW S, NEW s \in Seq(S), NEW a1, NEW a2, NEW a3, NEW a4, NEW a5, NEW a6, Len(s) = 6, s[1] = a1, s[2] = a2, s[3] = a3, s[4] = a4, s[5] = a5, s[6] = a6
  PROVE  s = <<a1, a2, a3, a4, a5, a6>>
OBVIOUS
LEMMA Tuple7 ==
  ASSUME NEW S, NEW s \in Seq(S), NEW a1, NEW a2, NEW a3, NEW a4, NEW a5, NEW a6, NEW a7, Len(s) = 7, s[1] = a1, s[2] = a2, s[3] = a3, s[4] = a4, s[5] = a5, s[6] = a6, s[7] = a7
  PROVE  s = <<a1, a2, a3, a4, a5, a6, a7>>
OBVIOUS
LEMMA Tuple8 ==
  ASSUME NEW S, NEW s \in Seq(S), NEW a1, NEW a2, NEW a3, NEW a4, NEW a5, NEW a6, NEW a7, NEW a8, Len(s) = 8, s[1] = a1, s[2] = a2, s[3] = a3, s[4] = a4, s[5] = a5, s[6] = a6, s[7] = a7, s[8] = a8
  PROVE  s = <<a1, a2, a3, a4, a5, a6, a7, a8>>
OBVIOUS
LEMMA Tuple9 ==
  ASSUME NEW S, NEW s \in Seq(S), NEW a1, NEW a2, NEW a3, NEW a4, NEW a5, NEW a6, NEW a7, NEW a8, NEW a9, Len(s) = 9, s[1] = a1, s[2] = a2, s[3] = a3, s[4] = a4, s[5] = a5, s[6] = a6, s[7] = a7, s[8] = a8, s[9] = a9
  PROVE  s = <<a1, a2, a3, a4, a5, a6, a7, a8, a9>>
OBVIOUS
LEMMA Join21 ==
  ASSUME NEW a1, NEW a2, NEW a3
  PROVE  <<a1, a2>> \o <<a3>> = <<a1, a2, a3>>
<1> DEFINE S == {a1, a2, a3}
           s == <<a1, a2>> \o <<a3>>
<1>1. a1 \in S /\ a2 \in S /\ a3 \in S
  OBVIOUS
<1> HIDE DEF S
<1>2. <<a1, a2>> \in Seq(S) /\ Len(<<a1, a2>>) = 2 /\ <<a3>> \in Seq(S) /\ Len(<<a3>>) = 1
  BY <1>1
<1>3. s \in Seq(S) /\ Len(s) = 3
  BY <1>2
<1>4. s[1] = a1 /\ s[2] = a2 /\ s[3] = a3
  BY <1>2
<1> HIDE DEF s
<1>5. s = <<a1, a2, a3>>
  BY <1>3, <1>4, Tuple3
<1> QED
  BY <1>5 DEF s
LEMMA Join22 ==
  ASSUME NEW a1, NEW a2, NEW a3, NEW a4
  PROVE  <<a1, a2>> \o <<a3, a4>> = <<a1, a2, a3, a4>>
<1> DEFINE S == {a1, a2, a3, a4}
           s == <<a1, a2>> \o <<a3, a4>>
<1>1. a1 \in S /\ a2 \in S /\ a3 \in S /\ a4 \in S
  OBVIOUS
<1> HIDE DEF S
<1>2. <<a1, a2>> \in Seq(S) /\ Len(<<a1, a2>>) = 2 /\ <<a3, a4>> \in Seq(S) /\ Len(<<a3, a4>>) = 2
  BY <1>1
<1>3. s \in Seq(S) /\ Len(s) = 4
  BY <1>2
<1>4. s[1] = a1 /\ s[2] = a2 /\ s[3] = a3 /\ s[4] = a4
  BY <1>2
<1> HIDE DEF s
<1>5. s = <<a1, a2, a3, a4>>
  BY <1>3, <1>4, Tuple4
<1> QED
  BY <1>5 DEF s
LEMMA Join23 ==
  ASSUME NEW a1, NEW a2, NEW a3, NEW a4, NEW a5
  PROVE  <<a1, a2>> \o <<a3, a4, a5>> = <<a1, a2, a3, a4, a5>>
<1> DEFINE S == {a1, a2, a3, a4, a5}
           s == <<a1, a2>> \o <<a3, a4, a5>>
<1>1. a1 \in S /\ a2 \in S /\ a3 \in S /\ a4 \in S /\ a5 \in S
  OBVIOUS
<1> HIDE DEF S
<1>2. <<a1, a2>> \in Seq(S) /\ Len(<<a1, a2>>) = 2 /\ <<a3, a4, a5>> \in Seq(S) /\ Len(<<a3, a4, a5>>) = 3
  BY <1>1
<1>3. s \in Seq(S) /\ Len(s) = 5
  BY <1>2
<1>4. s[1] = a1 /\ s[2] = a2 /\ s[3] = a3 /\ s[4] = a4 /\ s[5] = a5
  BY <1>2
<1> HIDE DEF s
<1>5. s = <<a1, a2, a3, a4, a5>>
  BY <1>3, <1>4, Tuple5
<1> QED
  BY <1>5 DEF s
LEMMA Join24 ==
  ASSUME NEW a1, NEW a2, NEW a3, NEW a4, NEW a5, NEW a6
  PROVE  <<a1, a2>> \o <<a3, a4, a5, a6>> = <<a1, a2, a3, a4, a5, a6>>
<1> DEFINE S == {a1, a2, a3, a4, a5, a6}
           s == <<a1, a2>> \o <<a3, a4, a5, a6>>
<1>1. a1 \in S /\ a2 \in S /\ a3 \in S /\ a4 \in S /\ a5 \in S /\ a6 \in S
  OBVIOUS
<1> HIDE DEF S
<1>2. <<a1, a2>> \in Seq(S) /\ Len(<<a1, a2>>) = 2 /\ <<a3, a4, a5, a6>> \in Seq(S) /\ Len(<<a3, a4, a5, a6>>) = 4
  BY <1>1
<1>3. s \in Seq(S) /\ Len(s) = 6
  BY <1>2
<1>4. s[1] = a1 /\ s[2] = a2 /\ s[3] = a3 /\ s[4] = a4 /\ s[5] = a5 /\ s[6] = a6
  BY <1>2
<1> HIDE DEF s
<1>5. s = <<a1, a2, a3, a4, a5, a6>>
  BY <1>3, <1>4, Tuple6
<1> QED
  BY <1>5 DEF s
LEMMA Join25 ==
  ASSUME NEW a1, NEW a2, NEW a3, NEW a4, NEW a5, NEW a6, NEW a7
  PROVE  <<a1, a2>> \o <<a3, a4, a5, a6, a7>> = <<a1, a2, a3, a4, a5, a6, a7>>
<1> DEFINE S == {a1, a2, a3, a4, a5, a6, a7}
           s == <<a1, a2>> \o <<a3, a4, a5, a6, a7>>
<1>1. a1 \in S /\ a2 \in S /\ a3 \in S /\ a4 \in S /\ a5 \in S /\ a6 \in S /\ a7 \in S
  OBVIOUS
<1> HIDE DEF S
<1>2. <<a1, a2>> \in Seq(S) /\ Len(<<a1, a2>>) = 2 /\ <<a3, a4, a5, a6, a7>> \in Seq(S) /\ Len(<<a3, a4, a5, a6, a7>>) = 5
  BY <1>1
<1>3. s \in Seq(S) /\ Len(s) = 7
  BY <1>2
<1>4. s[1] = a1 /\ s[2] = a2 /\ s[3] = a3 /\ s[4] = a4 /\ s[5] = a5 /\ s[6] = a6 /\ s[7] = a7
  BY <1>2
<1> HIDE DEF s
<1>5. s = <<a1, a2, a3, a4, a5, a6, a7>>
  BY <1>3, <1>4, Tuple7
<1> QED
  BY <1>5 DEF s
LEMMA Join62 ==
  ASSUME NEW a1, NEW a2, NEW a3, NEW a4, NEW a5, NEW a6, NEW a7, NEW a8
  PROVE  <<a1, a2, a3, a4, a5, a6>> \o <<a7, a8>> = <<a1, a2, a3, a4, a5, a6, a7, a8>>
<1> DEFINE S == {a1, a2, a3, a4, a5, a6, a7, a8}
           s == <<a1, a2, a3, a4, a5, a6>> \o <<a7, a8>>
<1>1. a1 \in S /\ a2 \in S /\ a3 \in S /\ a4 \in S /\ a5 \in S /\ a6 \in S /\ a7 \in S /\ a8 \in S
  OBVIOUS
<1> HIDE DEF S
<1>2. <<a1, a2, a3, a4, a5, a6>> \in Seq(S) /\ Len(<<a1, a2, a3, a4, a5, a6>>) = 6 /\ <<a7, a8>> \in Seq(S) /\ Len(<<a7, a8>>) = 2
  BY <1>1
<1>3. s \in Seq(S) /\ Len(s) = 8
  BY <1>2
<1>4. s[1] = a1 /\ s[2] = a2 /\ s[3] = a3 /\ s[4] = a4 /\ s[5] = a5 /\ s[6] = a6 /\ s[7] = a7 /\ s[8] = a8
  BY <1>2
<1> HIDE DEF s
<1>5. s = <<a1, a2, a3, a4, a5, a6, a7, a8>>
  BY <1>3, <1>4, Tuple8
<1> QED
  BY <1>5 DEF s
LEMMA Join63 ==
  ASSUME NEW a1, NEW a2, NEW a3, NEW a4, NEW a5, NEW a6, NEW a7, NEW a8, NEW a9
  PROVE  <<a1, a2, a3, a4, a5, a6>> \o <<a7, a8, a9>> = <<a1, a2, a3, a4, a5, a6, a7, a8, a9>>
<1> DEFINE S == {a1, a2, a3, a4, a5, a6, a7, a8, a9}
           s == <<a1, a2, a3, a4, a5, a6>> \o <<a7, a8, a9>>
<1>1. a1 \in S /\ a2 \in S /\ a3 \in S /\ a4 \in S /\ a5 \in S /\ a6 \in S /\ a7 \in S /\ a8 \in S /\ a9 \in S
  OBVIOUS
<1> HIDE DEF S
<1>2. <<a1, a2, a3, a4, a5, a6>> \in Seq(S) /\ Len(<<a1, a2, a3, a4, a5, a6>>) = 6 /\ <<a7, a8, a9>> \in Seq(S) /\ Len(<<a7, a8, a9>>) = 3
  BY <1>1
<1>3. s \in Seq(S) /\ Len(s) = 9
  BY <1>2
<1>4. s[1] = a1 /\ s[2] = a2 /\ s[3] = a3 /\ s[4] = a4 /\ s[5] = a5 /\ s[6] = a6 /\ s[7] = a7 /\ s[8] = a8 /\ s[9] = a9
  BY <1>2
<1> HIDE DEF s
<1>5. s = <<a1, a2, a3, a4, a5, a6, a7, a8, a9>>
  BY <1>3, <1>4, Tuple9
<1> QED
  BY <1>5 DEF s
LEMMA Join60 ==
  ASSUME NEW a1, NEW a2, NEW a3, NEW a4, NEW a5, NEW a6
  PROVE  <<a1, a2, a3, a4, a5, a6>> \o <<>> = <<a1, a2, a3, a4, a5, a6>>
<1> DEFINE S == {a1, a2, a3, a4, a5, a6}
           s == <<a1, a2, a3, a4, a5, a6>> \o <<>>
<1>1. a1 \in S /\ a2 \in S /\ a3 \in S /\ a4 \in S /\ a5 \in S /\ a6 \in S
  OBVIOUS
<1> HIDE DEF S
<1>2. <<a1, a2, a3, a4, a5, a6>> \in Seq(S) /\ Len(<<a1, a2, a3, a4, a5, a6>>) = 6
  BY <1>1
<1>3. s \in Seq(S) /\ Len(s) = 6
  BY <1>2
<1>4. s[1] = a1 /\ s[2] = a2 /\ s[3] = a3 /\ s[4] = a4 /\ s[5] = a5 /\ s[6] = a6
  BY <1>2
<1> HIDE DEF s
<1>5. s = <<a1, a2, a3, a4, a5, a6>>
  BY <1>3, <1>4, Tuple6
<1> QED
  BY <1>5 DEF s
LEMMA Join80 ==
  ASSUME NEW a1, NEW a2, NEW a3, NEW a4, NEW a5, NEW a6, NEW a7, NEW a8
  PROVE  <<a1, a2, a3, a4, a5, a6, a7, a8>> \o <<>> = <<a1, a2, a3, a4, a5, a6, a7, a8>>
<1> DEFINE S == {a1, a2, a3, a4, a5, a6, a7, a8}
           s == <<a1, a2, a3, a4, a5, a6, a7, a8>> \o <<>>
<1>1. a1 \in S /\ a2 \in S /\ a3 \in S /\ a4 \in S /\ a5 \in S /\ a6 \in S /\ a7 \in S /\ a8 \in S
  OBVIOUS
<1> HIDE DEF S
<1>2. <<a1, a2, a3, a4, a5, a6, a7, a8>> \in Seq(S) /\ Len(<<a1, a2, a3, a4, a5, a6, a7, a8>>) = 8
  BY <1>1
<1>3. s \in Seq(S) /\ Len(s) = 8
  BY <1>2
<1>4. s[1] = a1 /\ s[2] = a2 /\ s[3] = a3 /\ s[4] = a4 /\ s[5] = a5 /\ s[6] = a6 /\ s[7] = a7 /\ s[8] = a8
  BY <1>2
<1> HIDE DEF s
<1>5. s = <<a1, a2, a3, a4, a5, a6, a7, a8>>
  BY <1>3, <1>4, Tuple8
<1> QED
  BY <1>5 DEF s
\* The programs of the module, written out.
LEMMA HardDeletes == emit_store_hard_delete = HardDelete(kind)
<1>1. Opened \o <<"lock", "load", "rewrite", "unlock">> = <<"ensure", "recover", "lock", "load", "rewrite", "unlock">>
  BY Join24 DEF Opened
<1>2. CASE kind = "cascade"
  <2>1. <<"ensure", "recover", "lock", "load", "rewrite", "unlock">> \o <<"lock", "cascade", "unlock">>
          = <<"ensure", "recover", "lock", "load", "rewrite", "unlock", "lock", "cascade", "unlock">>
    BY Join63
  <2> QED
    BY <1>1, <1>2, <2>1 DEF HardDelete, emit_store_hard_delete, emit_cascade_calls
<1>3. CASE kind # "cascade"
  <2>1. <<"ensure", "recover", "lock", "load", "rewrite", "unlock">> \o <<>>
          = <<"ensure", "recover", "lock", "load", "rewrite", "unlock">>
    BY Join60
  <2> QED
    BY <1>1, <1>3, <2>1 DEF HardDelete, emit_store_hard_delete, emit_cascade_calls
<1> QED
  BY <1>2, <1>3

LEMMA SoftDeletes == kind # "simple" => emit_store_delete = SoftDelete(kind)
<1> SUFFICES ASSUME kind # "simple" PROVE emit_store_delete = SoftDelete(kind)
  OBVIOUS
<1> DEFINE d == <<"ensure", "recover", "lock", "load", "tomb", "unlock">>
           c == <<"ensure", "recover", "lock", "load", "tomb", "unlock", "compact_if", "compact_commit">>
<1>1. Opened \o <<"lock", "load", "tomb", "unlock">> = d
  BY Join24 DEF Opened
<1>2. d \o <<>> = d /\ c \o <<>> = c
  BY Join60, Join80
<1>3. d \o <<"compact_if", "compact_commit">> = c
  BY Join62
<1>4. d \o <<"lock", "cascade", "unlock">>
        = <<"ensure", "recover", "lock", "load", "tomb", "unlock", "lock", "cascade", "unlock">>
  BY Join63
<1>5. emit_store_delete = (d \o (IF kind = "compact" THEN <<"compact_if", "compact_commit">> ELSE <<>>))
                             \o (IF kind = "cascade" THEN <<"lock", "cascade", "unlock">> ELSE <<>>)
  BY <1>1 DEF emit_store_delete, emit_cascade_calls
<1>6. SoftDelete(kind) = IF kind = "cascade"
         THEN <<"ensure", "recover", "lock", "load", "tomb", "unlock", "lock", "cascade", "unlock">>
         ELSE IF kind = "compact" THEN c ELSE d
  BY DEF SoftDelete
<1> HIDE DEF d, c
<1>7. CASE kind = "cascade"
  BY <1>2, <1>4, <1>5, <1>6, <1>7
<1>8. CASE kind = "compact"
  BY <1>2, <1>3, <1>5, <1>6, <1>8
<1>9. CASE kind # "compact" /\ kind # "cascade"
  BY <1>2, <1>5, <1>6, <1>9
<1> QED
  BY <1>7, <1>8, <1>9

LEMMA Programs ==
  ASSUME NEW o \in Statement PROVE Prog(o) = Program(kind, o)
<1>1. Opened \o <<"lock", "load", "update", "unlock">> = <<"ensure", "recover", "lock", "load", "update", "unlock">>
  BY Join24 DEF Opened
<1>2. CASE o = "set"
  BY <1>1, <1>2 DEF Prog, Program, emit_store_set
<1>3. CASE o = "rekey"
  BY <1>1, <1>3 DEF Prog, Program, emit_store_set
<1>4. CASE o = "restore"
  BY <1>4, Join24 DEF Prog, Program, Opened, emit_store_restore
<1>5. CASE o = "read"
  BY <1>5, Join24 DEF Prog, Program, Opened, Scan
<1>6. CASE o = "find"
  BY <1>6, Join23 DEF Prog, Program, Opened, emit_store_query_indexed
<1>7. CASE o = "child"
  BY <1>7, Join23 DEF Prog, Program, Opened, ChildInsert
<1>8. CASE o = "save"
  BY <1>8, Join21 DEF Prog, Program, Opened, emit_store_save
<1>9. CASE o = "history"
  BY <1>9, Join21 DEF Prog, Program, Opened, emit_store_history
<1>10. CASE o = "compact"
  BY <1>10, Join22 DEF Prog, Program, Opened, emit_store_compact
<1>11. CASE o = "insert"
  BY <1>11, Join25 DEF Prog, Program, Opened, emit_store_insert
<1>12. CASE o = "destroy"
  BY <1>12, HardDeletes DEF Prog, Program
<1>13. CASE o = "delete"
  BY <1>13, HardDeletes, SoftDeletes DEF Prog, Program, emit_store_delete
<1> QED
  BY <1>2, <1>3, <1>4, <1>5, <1>6, <1>7, <1>8, <1>9, <1>10, <1>11, <1>12, <1>13 DEF Statement

-----------------------------------------------------------------------------
(* Positions in order, and the least of them *)

LEMMA SameCardinality ==
  ASSUME NEW S PROVE Abstract!Cardinality(S) = Cardinality(S)
BY DEF Abstract!Cardinality, Cardinality

\* A set of positions of a sequence, by rank.
LEMMA Ranks ==
  ASSUME NEW n \in Nat, NEW I \in SUBSET (1..n)
  PROVE  LET f == Abstract!InOrder(I)
             c == Cardinality(I)
         IN /\ c \in Nat /\ DOMAIN f = 1..c
            /\ \A a \in 1..c : f[a] \in I
            /\ \A a, b \in 1..c : a < b => f[a] < f[b]
            /\ \A i \in I : \E a \in 1..c : f[a] = i
<1> DEFINE c == Cardinality(I)
           Upto(i) == {x \in I : x <= i}
           rank == [i \in I |-> Cardinality(Upto(i))]
<1>1. IsFiniteSet(I) /\ c \in Nat /\ I \subseteq Nat
  <2>1. IsFiniteSet(1..n) /\ I \subseteq Nat
    BY FS_Interval
  <2>2. IsFiniteSet(I)
    BY <2>1, FS_Subset
  <2> QED
    BY <2>1, <2>2, FS_CardinalityType
<1>2. ASSUME NEW i \in I
      PROVE  /\ IsFiniteSet(Upto(i)) /\ Cardinality(Upto(i)) \in Nat
             /\ Cardinality(Upto(i)) <= c /\ Cardinality(Upto(i)) # 0
  <2>1. Upto(i) \in SUBSET I /\ i \in Upto(i)
    BY <1>1
  <2> HIDE DEF Upto
  <2> QED
    BY <1>1, <2>1, FS_Subset, FS_CardinalityType, FS_EmptySet
<1>3. rank \in [I -> 1..c]
  BY <1>1, <1>2
<1>4. ASSUME NEW i \in I, NEW j \in I, i < j PROVE rank[i] < rank[j]
  <2>0. i \in Nat /\ j \in Nat /\ \A x \in I : x \in Nat
    BY <1>1
  <2>3. \A x \in I : x <= i => x <= j
    BY <1>4, <2>0
  <2>4. j <= j /\ ~(j <= i)
    BY <1>4, <2>0
  <2>1. Upto(i) \in SUBSET Upto(j) /\ j \in Upto(j) /\ j \notin Upto(i)
    BY <2>3, <2>4
  <2>2. Cardinality(Upto(i)) <= Cardinality(Upto(j)) /\ Cardinality(Upto(i)) # Cardinality(Upto(j))
    <3> HIDE DEF Upto
    <3> QED
      BY <1>2, <2>1, FS_Subset
  <2> QED
    BY <1>2, <2>2
<1>5. rank \in Injection(I, 1..c)
  <2>1. \A i, j \in I : i # j => i < j \/ j < i
    BY <1>1
  <2>2. \A i \in I : rank[i] \in Nat
    BY <1>2
  <2> HIDE DEF rank, c
  <2>3. ASSUME NEW i \in I, NEW j \in I, rank[i] = rank[j] PROVE i = j
    BY <1>4, <2>1, <2>2, <2>3
  <2> QED
    BY <1>3, <2>3 DEF Injection, IsInjective
<1>6. rank \in Surjection(I, 1..c)
  <2>1. IsFiniteSet(1..c) /\ Cardinality(1..c) = c
    BY <1>1, FS_Interval
  <2> HIDE DEF rank
  <2> QED
    BY <1>5, <2>1, FS_Injection
<1>7. \A a \in 1..c : \E i \in I : rank[i] = a
  <2> HIDE DEF rank, c
  <2> QED
    BY <1>6 DEF Surjection
<1> DEFINE f == Abstract!InOrder(I)
<1>8. /\ DOMAIN f = 1..c
      /\ \A a \in 1..c : f[a] = CHOOSE i \in I : Abstract!Cardinality(Upto(i)) = a
  <2>1. Abstract!Cardinality(I) = c
    BY SameCardinality
  <2>2. f = [j \in 1..Abstract!Cardinality(I) |-> CHOOSE i \in I : Abstract!Cardinality(Upto(i)) = j]
    BY DEF Abstract!InOrder
  <2> HIDE DEF f, c, Upto
  <2> QED
    BY <2>1, <2>2
<1>9. \A a \in 1..c : f[a] \in I /\ rank[f[a]] = a
  <2> SUFFICES ASSUME NEW a \in 1..c PROVE f[a] \in I /\ rank[f[a]] = a
    OBVIOUS
  <2>1. \A i \in I : rank[i] = Abstract!Cardinality(Upto(i))
    BY SameCardinality
  <2>2. \E i \in I : Abstract!Cardinality(Upto(i)) = a
    BY <1>7, <2>1
  <2>3. f[a] = CHOOSE i \in I : Abstract!Cardinality(Upto(i)) = a
    BY <1>8
  <2> HIDE DEF Upto, f, rank
  <2> QED
    BY <2>1, <2>2, <2>3
<1> HIDE DEF f, rank, Upto
<1>10. ASSUME NEW a \in 1..c, NEW b \in 1..c, a < b PROVE f[a] < f[b]
  <2>1. f[a] \in I /\ f[b] \in I /\ f[a] \in Nat /\ f[b] \in Nat /\ rank[f[a]] < rank[f[b]] /\ rank[f[a]] \in Nat /\ rank[f[b]] \in Nat
    <3>1. a \in Nat /\ b \in Nat /\ rank[f[a]] = a /\ rank[f[b]] = b /\ f[a] \in I /\ f[b] \in I
      BY <1>1, <1>9
    <3> QED
      BY <1>1, <1>10, <3>1
  <2>2. f[b] < f[a] => rank[f[b]] < rank[f[a]]
    BY <1>4, <2>1
  <2> QED
    BY <2>1, <2>2
<1>11. ASSUME NEW i \in I PROVE \E a \in 1..c : f[a] = i
  <2>1. rank[i] \in 1..c /\ rank[f[rank[i]]] = rank[i] /\ f[rank[i]] \in I
    BY <1>3, <1>9
  <2> HIDE DEF c
  <2>2. f[rank[i]] = i
    BY <1>5, <2>1 DEF Injection, IsInjective
  <2> QED
    BY <2>1, <2>2
<1> QED
  BY <1>1, <1>8, <1>9, <1>10, <1>11 DEF f

\* The elements at a set of positions: how many, where each is from, and that
\* none is missing.
Origin(I) == Abstract!InOrder(I)
LEMMA PickedFacts ==
  ASSUME NEW S, NEW s \in Seq(S), NEW I \in SUBSET (DOMAIN s)
  PROVE  /\ Picked(s, I) \in Seq(S)
         /\ \A a \in DOMAIN Picked(s, I) : Origin(I)[a] \in I /\ Picked(s, I)[a] = s[Origin(I)[a]]
         /\ \A a, b \in DOMAIN Picked(s, I) : a < b => Origin(I)[a] < Origin(I)[b]
         /\ \A i \in I : \E a \in DOMAIN Picked(s, I) : Origin(I)[a] = i
<1> DEFINE p == Picked(s, I)
           f == Abstract!InOrder(I)
           c == Cardinality(I)
<1>1. Len(s) \in Nat /\ DOMAIN s = 1..Len(s)
  OBVIOUS
<1>2. /\ c \in Nat /\ DOMAIN f = 1..c /\ \A a \in 1..c : f[a] \in I
      /\ \A a, b \in 1..c : a < b => f[a] < f[b]
      /\ \A i \in I : \E a \in 1..c : f[a] = i
  BY <1>1, Ranks
<1>3. p = [j \in 1..c |-> s[f[j]]]
  BY <1>2 DEF Picked, Abstract!Picked
<1>4. p \in Seq(S) /\ DOMAIN p = 1..c
  <2> HIDE DEF f, c
  <2>1. \A j \in 1..c : s[f[j]] \in S
    BY <1>2
  <2>2. p \in [1..c -> S]
    BY <1>3, <2>1
  <2> QED
    BY <1>2, <1>3, <2>2
<1> HIDE DEF f, c, p
<1>5. /\ p \in Seq(S)
      /\ \A a \in DOMAIN p : f[a] \in I /\ p[a] = s[f[a]]
      /\ \A a, b \in DOMAIN p : a < b => f[a] < f[b]
      /\ \A i \in I : \E a \in DOMAIN p : f[a] = i
  BY <1>2, <1>3, <1>4
<1> QED
  BY <1>5 DEF p, f, Origin

\* A set of naturals that is not empty has a least element.
LEMMA Least ==
  ASSUME NEW T, T \subseteq Nat, T # {}
  PROVE  Min(T) \in T /\ \A y \in T : Min(T) <= y
<1>1. PICK n \in T : \A k \in T : ~(<<k, n>> \in OpToRel(<, Nat))
  BY NatLessThanWellFounded, WFMin, Zenon
<1>2. \A k, m \in Nat : k < m => <<k, m>> \in OpToRel(<, Nat)
  BY DEF OpToRel
<1>3. \A k \in T : n <= k
  <2>1. \A k \in T : k \in Nat /\ n \in Nat /\ ~(k < n)
    BY <1>1, <1>2
  <2> QED
    BY <2>1
<1> QED
  BY <1>3 DEF Min

-----------------------------------------------------------------------------
(* The order of the steps of a program *)

\* The name of the step n of the program P, "none" past its end.
StepOf(P, n) == IF n > Len(P) THEN "none" ELSE P[n]

\* What a step of a program is followed by.
Follows(P) ==
  /\ Len(P) \in Nat /\ DOMAIN P = 1..Len(P) /\ Len(P) >= 1 /\ P[1] = "ensure"
  /\ \A n \in 1..Len(P) :
       LET next == StepOf(P, n + 1)
           skip == StepOf(P, n + 2)
       IN /\ P[n] \in StepNames
          /\ P[n] = "ensure" => n = 1 /\ next = "recover" /\ skip \in {"lock", "compact_read", "sync", "history"}
          /\ P[n] = "recover" => next \in {"lock", "compact_read", "sync", "history"}
          /\ P[n] = "lock" => next \in {"check", "load", "lookup", "cascade", "child"}
          /\ P[n] = "check" => next = "append"
          /\ P[n] = "append" => next = "sidecars"
          /\ P[n] = "load" => next \in {"update", "untomb", "unlock", "rewrite", "tomb"}
          /\ P[n] \in {"sidecars", "update", "untomb", "tomb", "rewrite", "lookup", "cascade", "child"} => next = "unlock"
          /\ P[n] = "unlock" => next \in {"scan", "compact_if", "lock", "none"}
          /\ P[n] = "compact_read" => next = "compact_commit"
          /\ P[n] = "compact_if" => next = "compact_commit" /\ skip = "none"
          /\ P[n] \in {"compact_commit", "scan", "sync", "history"} => next = "none"

LEMMA FollowsInsert == Follows(<<"ensure", "recover", "lock", "check", "append", "sidecars", "unlock">>)
BY DEF Follows, StepOf, StepNames
LEMMA FollowsHardDelete == Follows(<<"ensure", "recover", "lock", "load", "rewrite", "unlock">>)
BY DEF Follows, StepOf, StepNames
LEMMA FollowsHardCascade == Follows(<<"ensure", "recover", "lock", "load", "rewrite", "unlock", "lock", "cascade", "unlock">>)
BY DEF Follows, StepOf, StepNames
LEMMA FollowsSoftDelete == Follows(<<"ensure", "recover", "lock", "load", "tomb", "unlock">>)
BY DEF Follows, StepOf, StepNames
LEMMA FollowsSoftCascade == Follows(<<"ensure", "recover", "lock", "load", "tomb", "unlock", "lock", "cascade", "unlock">>)
BY DEF Follows, StepOf, StepNames
LEMMA FollowsSoftCompact == Follows(<<"ensure", "recover", "lock", "load", "tomb", "unlock", "compact_if", "compact_commit">>)
BY DEF Follows, StepOf, StepNames
LEMMA FollowsSet == Follows(<<"ensure", "recover", "lock", "load", "update", "unlock">>)
BY DEF Follows, StepOf, StepNames
LEMMA FollowsRestore == Follows(<<"ensure", "recover", "lock", "load", "untomb", "unlock">>)
BY DEF Follows, StepOf, StepNames
LEMMA FollowsCompact == Follows(<<"ensure", "recover", "compact_read", "compact_commit">>)
BY DEF Follows, StepOf, StepNames
LEMMA FollowsSave == Follows(<<"ensure", "recover", "sync">>)
BY DEF Follows, StepOf, StepNames
LEMMA FollowsRead == Follows(<<"ensure", "recover", "lock", "load", "unlock", "scan">>)
BY DEF Follows, StepOf, StepNames
LEMMA FollowsFind == Follows(<<"ensure", "recover", "lock", "lookup", "unlock">>)
BY DEF Follows, StepOf, StepNames
LEMMA FollowsHistory == Follows(<<"ensure", "recover", "history">>)
BY DEF Follows, StepOf, StepNames
LEMMA FollowsChild == Follows(<<"ensure", "recover", "lock", "child", "unlock">>)
BY DEF Follows, StepOf, StepNames

\* Which statements have a step: a task is at it only while it runs one of these.
StatementsWith(kd, name) ==
  CASE name \in {"check", "append", "sidecars"} -> {"insert"}
    [] name = "tomb" -> {"delete"}
    [] name \in {"rewrite", "cascade"} -> {"delete", "destroy"}
    [] name = "update" -> {"set", "rekey"}
    [] name = "untomb" -> {"restore"}
    [] name = "child" -> {"child"}
    [] name = "compact_read" -> {"compact"}
    [] name = "compact_if" -> IF kd = "compact" THEN {"delete"} ELSE {}
    [] name = "compact_commit" -> IF kd = "compact" THEN {"compact", "delete"} ELSE {"compact"}
    [] OTHER -> Statement

LEMMA ProgramFollows ==
  ASSUME NEW kd, NEW o \in Statement
  PROVE  Follows(Program(kd, o)) /\ \A n \in DOMAIN Program(kd, o) : o \in StatementsWith(kd, Program(kd, o)[n])
<1>1. CASE o = "insert"
  BY <1>1, FollowsInsert DEF Program, StatementsWith, Statement
<1>2. CASE o = "delete"
  <2>1. Follows(Program(kd, o))
    BY <1>2, FollowsHardDelete, FollowsHardCascade, FollowsSoftDelete, FollowsSoftCascade, FollowsSoftCompact DEF Program, HardDelete, SoftDelete
  <2>2. \A n \in DOMAIN Program(kd, o) : o \in StatementsWith(kd, Program(kd, o)[n])
    <3>1. CASE kd = "simple"
      BY <1>2, <3>1 DEF Program, HardDelete, StatementsWith
    <3>2. CASE kd = "cascade"
      BY <1>2, <3>2 DEF Program, SoftDelete, StatementsWith
    <3>3. CASE kd = "compact"
      BY <1>2, <3>3 DEF Program, SoftDelete, StatementsWith
    <3>4. CASE kd \notin {"simple", "cascade", "compact"}
      BY <1>2, <3>4 DEF Program, SoftDelete, StatementsWith
    <3> QED
      BY <3>1, <3>2, <3>3, <3>4
  <2> QED
    BY <2>1, <2>2
<1>3. CASE o = "destroy"
  <2>1. Follows(Program(kd, o))
    BY <1>3, FollowsHardDelete, FollowsHardCascade DEF Program, HardDelete
  <2>2. \A n \in DOMAIN Program(kd, o) : o \in StatementsWith(kd, Program(kd, o)[n])
    <3>1. CASE kd = "cascade"
      BY <1>3, <3>1 DEF Program, HardDelete, StatementsWith
    <3>2. CASE kd # "cascade"
      BY <1>3, <3>2 DEF Program, HardDelete, StatementsWith
    <3> QED
      BY <3>1, <3>2
  <2> QED
    BY <2>1, <2>2
<1>4. CASE o = "set"
  BY <1>4, FollowsSet DEF Program, StatementsWith, Statement
<1>5. CASE o = "rekey"
  BY <1>5, FollowsSet DEF Program, StatementsWith, Statement
<1>6. CASE o = "restore"
  BY <1>6, FollowsRestore DEF Program, StatementsWith, Statement
<1>7. CASE o = "compact"
  BY <1>7, FollowsCompact DEF Program, StatementsWith, Statement
<1>8. CASE o = "save"
  BY <1>8, FollowsSave DEF Program, StatementsWith, Statement
<1>9. CASE o = "read"
  BY <1>9, FollowsRead DEF Program, StatementsWith, Statement
<1>10. CASE o = "find"
  BY <1>10, FollowsFind DEF Program, StatementsWith, Statement
<1>11. CASE o = "history"
  BY <1>11, FollowsHistory DEF Program, StatementsWith, Statement
<1>12. CASE o = "child"
  BY <1>12, FollowsChild DEF Program, StatementsWith, Statement
<1> QED
  BY <1>1, <1>2, <1>3, <1>4, <1>5, <1>6, <1>7, <1>8, <1>9, <1>10, <1>11, <1>12 DEF Statement

\* The statements of a parent store whose deletes cascade.
LEMMA CascadeAtEnd ==
  ASSUME NEW o \in {"delete", "destroy"}
  PROVE  LET P == Program("cascade", o)
         IN Len(P) = 9 /\ P[7] = "lock" /\ P[8] = "cascade" /\ P[9] = "unlock"
BY DEF Program, HardDelete, SoftDelete

\* Where a task is once it has made its step.
LEMMA Afterwards ==
  ASSUME NEW kd, NEW x \in Local, x.op \in Statement, x.at \in DOMAIN Program(kd, x.op), NEW n \in Nat, n >= 1,
         NEW y, y = After(kd, x, n)
  PROVE  /\ Here(kd, y) = StepOf(Program(kd, x.op), n)
         /\ y \in Local
         /\ \/ y = Idle
            \/ /\ y.op = x.op /\ y.k = x.k /\ y.v = x.v /\ y.buf = x.buf /\ y.sids = x.sids
               /\ y.at = n /\ n \in DOMAIN Program(kd, x.op)
<1> DEFINE P == Program(kd, x.op)
<1>1. Len(P) \in Nat /\ DOMAIN P = 1..Len(P)
  BY ProgramFollows DEF Follows
<1>2. x.op # "none"
  BY DEF Statement
<1>4. CASE n > Len(P)
  <2>1. y = Idle
    BY <1>4 DEF After
  <2>2. Idle \in Local /\ Here(kd, Idle) = "none"
    BY DEF Idle, Local, Here
  <2> QED
    BY <1>4, <2>1, <2>2 DEF StepOf
<1>5. CASE ~(n > Len(P))
  <2>1. y = [x EXCEPT !.at = n] /\ n \in 1..Len(P)
    BY <1>1, <1>5 DEF After
  <2>2. y \in Local /\ y.op = x.op /\ y.k = x.k /\ y.v = x.v /\ y.buf = x.buf /\ y.sids = x.sids /\ y.at = n
    BY <2>1 DEF Local
  <2> QED
    BY <1>1, <1>2, <1>5, <2>1, <2>2 DEF StepOf, Here
<1> QED
  BY <1>4, <1>5

-----------------------------------------------------------------------------
(* A step of a task *)

\* The steps that follow a step, and those that follow one that skips the next.
Successors(name) ==
  CASE name = "ensure" -> {"recover"}
    [] name = "recover" -> {"lock", "compact_read", "sync", "history"}
    [] name = "lock" -> {"check", "load", "lookup", "cascade", "child"}
    [] name = "check" -> {"append"}
    [] name = "append" -> {"sidecars"}
    [] name = "load" -> {"update", "untomb", "unlock", "rewrite", "tomb"}
    [] name = "unlock" -> {"scan", "compact_if", "lock", "none"}
    [] name \in {"compact_read", "compact_if"} -> {"compact_commit"}
    [] name \in {"compact_commit", "scan", "sync", "history"} -> {"none"}
    [] OTHER -> {"unlock"}
SkippedTo(name) == IF name = "ensure" THEN {"lock", "compact_read", "sync", "history"} ELSE {"none"}

\* Task t, whose locals have become those of x, is now at a step of S.
Lands(t, x, S) ==
  \E y \in Local :
    /\ st' = [st EXCEPT ![t] = y]
    /\ Here(kind, y) \in S
    /\ \/ y = Idle
       \/ /\ y.op = x.op /\ y.k = x.k /\ y.v = x.v /\ y.buf = x.buf /\ y.sids = x.sids
          /\ y.at \in DOMAIN Program(kind, y.op)
    /\ kind = "cascade" /\ y.op \in {"delete", "destroy"} /\ y.at = 9 => Here(kind, st[t]) = "cascade"

\* The locals of x are those of t but for the buffer and the sids.
SamePlace(t, x) == x \in Local /\ x.op = st[t].op /\ x.k = st[t].k /\ x.v = st[t].v /\ x.at = st[t].at

LEMMA AtFacts ==
  ASSUME SType, NEW t \in Tasks, NEW name, At(t, name)
  PROVE  /\ st[t] \in Local /\ st[t].op \in Statement /\ st[t].at \in DOMAIN Program(kind, st[t].op)
         /\ st[t].k \in Keys /\ st[t].v \in Vals /\ st[t].op # "none"
         /\ Program(kind, st[t].op)[st[t].at] = name /\ Here(kind, st[t]) = name
         /\ st[t].op \in StatementsWith(kind, name)
<1>1. st[t] \in Local /\ st[t].op \in Statement /\ st[t].op # "none" /\ st[t].k \in Keys /\ st[t].v \in Vals
      /\ st[t].at \in DOMAIN Program(kind, st[t].op)
  BY DEF SType, Local, At
<1>2. Program(kind, st[t].op)[st[t].at] = name
  BY <1>1, Programs DEF At
<1> QED
  BY <1>1, <1>2, ProgramFollows DEF Here

LEMMA LandsFromPlace ==
  ASSUME SType, NEW t \in Tasks, NEW name, At(t, name), NEW x, SamePlace(t, x), NEW n,
         n = st[t].at + 1 \/ (n = st[t].at + 2 /\ name \in {"ensure", "compact_if"}), GoTo(t, n, x)
  PROVE  Lands(t, x, {StepOf(Program(kind, st[t].op), n)})
<1> DEFINE y == After(kind, x, n)
<1>1. /\ x \in Local /\ x.op \in Statement /\ x.op # "none" /\ x.at \in DOMAIN Program(kind, x.op)
      /\ Program(kind, x.op)[x.at] = name /\ x.at = st[t].at /\ x.op = st[t].op
      /\ Here(kind, st[t]) = name
  BY AtFacts DEF SamePlace
<1>2. st' = [st EXCEPT ![t] = y]
  BY <1>1, Programs DEF GoTo, After
<1>3. x.at \in Nat /\ n \in Nat /\ n >= 1
  BY <1>1 DEF Local
<1>4. /\ Here(kind, y) = StepOf(Program(kind, x.op), n)
      /\ y \in Local
      /\ \/ y = Idle
         \/ /\ y.op = x.op /\ y.k = x.k /\ y.v = x.v /\ y.buf = x.buf /\ y.sids = x.sids
            /\ y.at = n /\ n \in DOMAIN Program(kind, x.op)
  <2> HIDE DEF y
  <2>1. y = After(kind, x, n)
    BY DEF y
  <2> QED
    BY <1>1, <1>3, <2>1, Afterwards
<1>5. ASSUME kind = "cascade", y.op \in {"delete", "destroy"}, y.at = 9 PROVE name = "cascade"
  <2>1. y # Idle
    BY <1>5 DEF Idle
  <2>2. x.op \in {"delete", "destroy"} /\ n = 9 /\ x.at \in Nat
    BY <1>3, <1>4, <1>5, <2>1
  <2>3. Program(kind, x.op)[7] = "lock" /\ Program(kind, x.op)[8] = "cascade"
    BY <1>5, <2>2, CascadeAtEnd
  <2>4. x.at = 8 \/ (x.at = 7 /\ name \in {"ensure", "compact_if"})
    BY <1>1, <2>2
  <2> HIDE DEF y
  <2> QED
    BY <1>1, <2>3, <2>4
<1> HIDE DEF y
<1> QED
  BY <1>1, <1>2, <1>3, <1>4, <1>5 DEF Lands

\* The next step, and the step after the one that is skipped.
LEMMA Advance ==
  ASSUME SType, NEW t \in Tasks, NEW name, At(t, name), NEW x, SamePlace(t, x), Step(t, x)
  PROVE  Lands(t, x, Successors(name))
<1> DEFINE P == Program(kind, st[t].op)
<1>1. st[t].op \in Statement /\ st[t].at \in 1..Len(P) /\ P[st[t].at] = name /\ Follows(P)
  BY AtFacts, ProgramFollows DEF Follows
<1>2. Lands(t, x, {StepOf(P, st[t].at + 1)})
  <2>1. GoTo(t, st[t].at + 1, x)
    BY DEF Step
  <2> QED
    BY <2>1, LandsFromPlace
<1>3. StepOf(P, st[t].at + 1) \in Successors(name)
  <2> HIDE DEF P
  <2>1. name \in StepNames
    BY <1>1 DEF Follows
  <2> QED
    BY <1>1, <2>1 DEF Follows, Successors, StepNames
<1> HIDE DEF P
<1> QED
  BY <1>2, <1>3 DEF Lands

LEMMA Skips ==
  ASSUME SType, NEW t \in Tasks, NEW name \in {"ensure", "compact_if"}, At(t, name), NEW n,
         n = IF name = "ensure" THEN 3 ELSE st[t].at + 2, GoTo(t, n, st[t])
  PROVE  Lands(t, st[t], SkippedTo(name))
<1> DEFINE P == Program(kind, st[t].op)
<1>1. st[t] \in Local /\ st[t].op \in Statement /\ st[t].at \in 1..Len(P) /\ P[st[t].at] = name /\ Follows(P)
  BY AtFacts, ProgramFollows DEF Follows
<1>2. name = "ensure" => st[t].at = 1
  <2> HIDE DEF P
  <2> QED
    BY <1>1 DEF Follows
<1>3. n = st[t].at + 2
  BY <1>2
<1>4. Lands(t, st[t], {StepOf(P, n)})
  <2>1. SamePlace(t, st[t])
    BY <1>1 DEF SamePlace
  <2> QED
    BY <1>3, <2>1, LandsFromPlace
<1>5. StepOf(P, n) \in SkippedTo(name)
  <2> HIDE DEF P
  <2> QED
    BY <1>1, <1>3 DEF Follows, SkippedTo
<1> HIDE DEF P
<1> QED
  BY <1>4, <1>5 DEF Lands

LEMMA Leaves ==
  ASSUME SType, NEW t \in Tasks, At(t, "check"), Exit(t)
  PROVE  Lands(t, st[t], {"unlock"})
<1>1. st[t] \in Local /\ st[t].op = "insert"
  BY AtFacts DEF StatementsWith
<1> DEFINE P == Program(kind, "insert")
           n == CHOOSE m \in DOMAIN Prog(st[t].op) : Prog(st[t].op)[m] = "unlock"
<1>2. Prog("insert") = P /\ P = <<"ensure", "recover", "lock", "check", "append", "sidecars", "unlock">>
  BY Programs DEF Statement, Program
<1>3. n = 7
  <2>1. \A m \in DOMAIN P : P[m] = "unlock" <=> m = 7
    BY <1>2
  <2>2. 7 \in DOMAIN P
    BY <1>2
  <2> HIDE DEF P
  <2> QED
    BY <1>1, <1>2, <2>1, <2>2
<1>4. Len(P) = 7
  BY <1>2
<1>5. st' = [st EXCEPT ![t] = [st[t] EXCEPT !.at = 7]]
  <2> HIDE DEF P, n
  <2>1. GoTo(t, n, st[t])
    BY DEF Exit, n
  <2> QED
    <3>1. GoTo(t, 7, st[t]) /\ Prog(st[t].op) = P /\ ~(7 > Len(P))
      BY <1>1, <1>2, <1>3, <1>4, <2>1
    <3> QED
      BY <3>1 DEF GoTo
<1> DEFINE y == [st[t] EXCEPT !.at = 7]
<1>6. y \in Local /\ y.op = "insert" /\ y.at = 7 /\ y.k = st[t].k /\ y.v = st[t].v /\ y.buf = st[t].buf /\ y.sids = st[t].sids
  BY <1>1 DEF Local
<1>7. 7 \in DOMAIN P /\ P[7] = "unlock"
  BY <1>2
<1> HIDE DEF y, P
<1>8. Here(kind, y) = "unlock" /\ y.at \in DOMAIN Program(kind, y.op)
  BY <1>6, <1>7 DEF Here, P
<1> QED
  BY <1>1, <1>5, <1>6, <1>8 DEF Lands, y

-----------------------------------------------------------------------------
(* The turn of a task: the step it is at, its locals, the step it goes to *)

Turn(t, name, x, S) == At(t, name) /\ SamePlace(t, x) /\ Lands(t, x, S)
WithRows(t) == [st[t] EXCEPT !.buf = rows]
WithSids(t) == [st[t] EXCEPT !.sids = MatchedSids(t), !.buf = <<>>]
Emptied(t) == [st[t] EXCEPT !.buf = <<>>]

LEMMA Places ==
  ASSUME SType, NEW t \in Tasks
  PROVE  /\ SamePlace(t, st[t]) /\ SamePlace(t, WithRows(t)) /\ SamePlace(t, WithSids(t)) /\ SamePlace(t, Emptied(t))
         /\ WithRows(t).buf = rows /\ WithRows(t).sids = st[t].sids
         /\ WithSids(t).sids = MatchedSids(t) /\ Emptied(t).sids = st[t].sids
<1>1. st[t] \in Local /\ rows \in Seq(Row) /\ <<>> \in Seq(Row)
  BY DEF SType
<1>2. MatchedSids(t) \in SUBSET Nat
  <2>1. \A i \in DOMAIN st[t].buf : st[t].buf[i].sid \in Nat
    <3>1. st[t].buf \in Seq(Row)
      BY <1>1 DEF Local
    <3>2. \A i \in DOMAIN st[t].buf : st[t].buf[i] \in Row
      BY <3>1
    <3> QED
      BY <3>2 DEF Row
  <2> QED
    BY <2>1 DEF MatchedSids
<1>3. SamePlace(t, st[t])
  BY <1>1 DEF SamePlace
<1>4. SamePlace(t, WithRows(t)) /\ WithRows(t).buf = rows /\ WithRows(t).sids = st[t].sids
  BY <1>1 DEF SamePlace, Local, WithRows
<1>5. SamePlace(t, WithSids(t)) /\ WithSids(t).sids = MatchedSids(t)
  BY <1>1, <1>2 DEF SamePlace, Local, WithSids
<1>6. SamePlace(t, Emptied(t)) /\ Emptied(t).sids = st[t].sids
  BY <1>1 DEF SamePlace, Local, Emptied
<1> QED
  BY <1>3, <1>4, <1>5, <1>6

LEMMA Turns ==
  ASSUME SType, NEW t \in Tasks
  PROVE  /\ Ensure(t) => \/ fp = "null" /\ Turn(t, "ensure", st[t], {"recover"})
                         \/ fp # "null" /\ Turn(t, "ensure", st[t], SkippedTo("ensure"))
         /\ Recover(t) => Turn(t, "recover", st[t], Successors("recover"))
         /\ store_lock(t) => Turn(t, "lock", st[t], Successors("lock"))
         /\ store_unlock(t) => Turn(t, "unlock", st[t], Successors("unlock"))
         /\ store_load_records(t) => Turn(t, "load", WithRows(t), Successors("load"))
         /\ Lookup(t) => Turn(t, "lookup", st[t], {"unlock"})
         /\ InsertCheck(t) =>
              IF kind = "unique" /\ jinn_idx_lookup(load_store_idx, st[t].k) # 0
              THEN Turn(t, "check", st[t], {"unlock"})
              ELSE Turn(t, "check", WithRows(t), {"append"})
         /\ InsertAppend(t) => Turn(t, "append", st[t], {"sidecars"})
         /\ InsertSidecars(t) => Turn(t, "sidecars", st[t], {"unlock"})
         /\ Tomb(t) => Turn(t, "tomb", WithSids(t), {"unlock"})
         /\ Rewrite(t) => Turn(t, "rewrite", WithSids(t), {"unlock"})
         /\ Update(t) => Turn(t, "update", Emptied(t), {"unlock"})
         /\ Untomb(t) => Turn(t, "untomb", Emptied(t), {"unlock"})
         /\ CompactRead(t) => \/ Turn(t, "compact_if", st[t], {"none"})
                              \/ \E name \in {"compact_read", "compact_if"} : Turn(t, name, WithRows(t), {"compact_commit"})
         /\ CompactCommit(t) => Turn(t, "compact_commit", Emptied(t), {"none"})
         /\ Cascade(t) => Turn(t, "cascade", st[t], {"unlock"})
         /\ ChildAppend(t) => Turn(t, "child", st[t], {"unlock"})
         /\ Compute(t) => \E name \in {"scan", "sync", "history"} : Turn(t, name, st[t], {"none"})
<1> USE Places
<1>1. Ensure(t) => \/ fp = "null" /\ Turn(t, "ensure", st[t], {"recover"})
                   \/ fp # "null" /\ Turn(t, "ensure", st[t], SkippedTo("ensure"))
  <2>1. At(t, "ensure") /\ Step(t, st[t]) => Turn(t, "ensure", st[t], {"recover"})
    BY Advance DEF Turn, Successors
  <2>2. At(t, "ensure") /\ GoTo(t, 3, st[t]) => Turn(t, "ensure", st[t], SkippedTo("ensure"))
    BY Skips DEF Turn
  <2> QED
    BY <2>1, <2>2 DEF Ensure
<1>2. Recover(t) => Turn(t, "recover", st[t], Successors("recover"))
  BY Advance DEF Turn, Recover
<1>3. store_lock(t) => Turn(t, "lock", st[t], Successors("lock"))
  BY Advance DEF Turn, store_lock
<1>4. store_unlock(t) => Turn(t, "unlock", st[t], Successors("unlock"))
  BY Advance DEF Turn, store_unlock
<1>5. store_load_records(t) => Turn(t, "load", WithRows(t), Successors("load"))
  BY Advance DEF Turn, store_load_records, WithRows
<1>6. Lookup(t) => Turn(t, "lookup", st[t], {"unlock"})
  BY Advance DEF Turn, Lookup, Successors
<1>7. InsertCheck(t) => IF kind = "unique" /\ jinn_idx_lookup(load_store_idx, st[t].k) # 0
                        THEN Turn(t, "check", st[t], {"unlock"}) ELSE Turn(t, "check", WithRows(t), {"append"})
  <2>1. At(t, "check") /\ Exit(t) => Turn(t, "check", st[t], {"unlock"})
    BY Leaves DEF Turn
  <2>2. At(t, "check") /\ Step(t, WithRows(t)) => Turn(t, "check", WithRows(t), {"append"})
    BY Advance DEF Turn, Successors
  <2> QED
    BY <2>1, <2>2 DEF InsertCheck, WithRows
<1>8. InsertAppend(t) => Turn(t, "append", st[t], {"sidecars"})
  BY Advance DEF Turn, InsertAppend, Successors
<1>9. InsertSidecars(t) => Turn(t, "sidecars", st[t], {"unlock"})
  BY Advance DEF Turn, InsertSidecars, Successors
<1>10. Tomb(t) => Turn(t, "tomb", WithSids(t), {"unlock"})
  <2>1. Tomb(t) => At(t, "tomb") /\ Step(t, WithSids(t))
    BY DEF Tomb, WithSids
  <2> QED
    BY <2>1, Advance DEF Turn, Successors
<1>11. Rewrite(t) => Turn(t, "rewrite", WithSids(t), {"unlock"})
  <2>1. Rewrite(t) => At(t, "rewrite") /\ Step(t, WithSids(t))
    BY DEF Rewrite, WithSids
  <2> QED
    BY <2>1, Advance DEF Turn, Successors
<1>12. Update(t) => Turn(t, "update", Emptied(t), {"unlock"})
  BY Advance DEF Turn, Update, Successors, Emptied
<1>13. Untomb(t) => Turn(t, "untomb", Emptied(t), {"unlock"})
  BY Advance DEF Turn, Untomb, Successors, Emptied
<1>14. CompactRead(t) => \/ Turn(t, "compact_if", st[t], {"none"})
                         \/ \E name \in {"compact_read", "compact_if"} : Turn(t, name, WithRows(t), {"compact_commit"})
  <2>1. At(t, "compact_if") /\ GoTo(t, st[t].at + 2, st[t]) => Turn(t, "compact_if", st[t], {"none"})
    BY Skips DEF Turn, SkippedTo
  <2>2. ASSUME NEW name \in {"compact_read", "compact_if"}
        PROVE  At(t, name) /\ Step(t, WithRows(t)) => Turn(t, name, WithRows(t), {"compact_commit"})
    BY Advance DEF Turn, Successors
  <2> QED
    BY <2>1, <2>2 DEF CompactRead, WithRows
<1>15. CompactCommit(t) => Turn(t, "compact_commit", Emptied(t), {"none"})
  BY Advance DEF Turn, CompactCommit, Successors, Emptied
<1>16. Cascade(t) => Turn(t, "cascade", st[t], {"unlock"})
  BY Advance DEF Turn, Cascade, Successors
<1>17. ChildAppend(t) => Turn(t, "child", st[t], {"unlock"})
  BY Advance DEF Turn, ChildAppend, Successors
<1>18. Compute(t) => \E name \in {"scan", "sync", "history"} : Turn(t, name, st[t], {"none"})
  <2>1. ASSUME NEW name \in {"scan", "sync", "history"}
        PROVE  At(t, name) /\ Step(t, st[t]) => Turn(t, name, st[t], {"none"})
    BY Advance DEF Turn, Successors
  <2> QED
    BY <2>1 DEF Compute
<1> QED
  BY <1>1, <1>2, <1>3, <1>4, <1>5, <1>6, <1>7, <1>8, <1>9, <1>10, <1>11, <1>12, <1>13, <1>14, <1>15, <1>16, <1>17, <1>18

-----------------------------------------------------------------------------
(* Control: the gate, the tasks and what they have read *)

LEMMA TurnFacts ==
  ASSUME SType, NEW t \in Tasks, NEW name, NEW x, NEW S, Turn(t, name, x, S)
  PROVE  /\ Here(kind, st[t]) = name /\ st[t] \in Local /\ st[t].op \in Statement /\ st[t].op # "none"
         /\ st[t].op \in StatementsWith(kind, name) /\ st[t].k \in Keys /\ st[t].v \in Vals
         /\ x \in Local /\ x.op = st[t].op /\ x.k = st[t].k /\ x.v = st[t].v
         /\ Lands(t, x, S)
BY AtFacts DEF Turn, SamePlace

LEMMA GateStep ==
  ASSUME SType, GateHeld, NEW t \in Tasks, NEW name, NEW x, NEW S, Turn(t, name, x, S), kind' = kind,
         \/ gate' = gate /\ name \in Critical /\ S \subseteq Critical
         \/ gate' = gate /\ name \notin Critical /\ S \cap Critical = {}
         \/ gate = NoTask /\ gate' = t /\ S \subseteq Critical
         \/ gate' = NoTask /\ name \in Critical /\ S \cap Critical = {}
  PROVE  GateHeld'
<1>1. Here(kind, st[t]) = name
  BY TurnFacts
<1>2. PICK y \in Local : st' = [st EXCEPT ![t] = y] /\ Here(kind, y) \in S
  BY TurnFacts DEF Lands
<1>3. \A u \in Tasks : u # NoTask
  BY StatementsAssumption DEF NoTask
<1>4. st \in [Tasks -> Local]
  BY DEF SType
<1>5. ASSUME NEW u \in Tasks PROVE gate' = u <=> Here(kind, st'[u]) \in Critical
  <2>1. CASE u = t
    <3>1. st'[u] = y
      BY <1>2, <1>4, <2>1
    <3> QED
      BY <1>1, <1>2, <1>3, <2>1, <3>1 DEF GateHeld
  <2>2. CASE u # t
    <3>1. st'[u] = st[u]
      BY <1>2, <1>4, <2>2
    <3>2. gate = u <=> Here(kind, st[u]) \in Critical
      BY DEF GateHeld
    <3>3. name \in Critical => gate = t
      BY <1>1 DEF GateHeld
    <3> QED
      BY <1>3, <2>2, <3>1, <3>2, <3>3
  <2> QED
    BY <2>1, <2>2
<1> QED
  BY <1>5 DEF GateHeld

LEMMA GateKept ==
  ASSUME SType, GateHeld, NEW t \in Tasks, Work(t)
  PROVE  GateHeld'
<1> USE Turns DEF Critical
<1>1. CASE Ensure(t)
  <2>1. CASE fp = "null"
    <3>1. gate = NoTask /\ gate' = t /\ kind' = kind
      BY <1>1, <2>1 DEF Ensure
    <3> QED
      BY <1>1, <2>1, <3>1, GateStep
  <2>2. CASE fp # "null"
    <3>1. gate' = gate /\ kind' = kind
      BY <1>1, <2>2 DEF Ensure
    <3> QED
      BY <1>1, <2>2, <3>1, GateStep DEF SkippedTo
  <2> QED
    BY <2>1, <2>2
<1>2. CASE Recover(t)
  BY <1>2, GateStep DEF Recover, Successors
<1>3. CASE store_lock(t)
  BY <1>3, GateStep DEF store_lock, Successors
<1>4. CASE store_unlock(t)
  BY <1>4, GateStep DEF store_unlock, Successors
<1>5. CASE store_load_records(t)
  BY <1>5, GateStep DEF store_load_records, Successors
<1>6. CASE Lookup(t)
  BY <1>6, GateStep DEF Lookup
<1>7. CASE InsertCheck(t)
  <2>1. gate' = gate /\ kind' = kind
    BY <1>7 DEF InsertCheck
  <2> QED
    BY <1>7, <2>1, GateStep
<1>8. CASE InsertAppend(t)
  BY <1>8, GateStep DEF InsertAppend
<1>9. CASE InsertSidecars(t)
  BY <1>9, GateStep DEF InsertSidecars
<1>10. CASE Tomb(t)
  BY <1>10, GateStep DEF Tomb
<1>11. CASE Rewrite(t)
  BY <1>11, GateStep DEF Rewrite
<1>12. CASE Update(t)
  BY <1>12, GateStep DEF Update
<1>13. CASE Untomb(t)
  BY <1>13, GateStep DEF Untomb
<1>14. CASE CompactRead(t)
  <2>1. gate' = gate /\ kind' = kind
    BY <1>14 DEF CompactRead
  <2> QED
    BY <1>14, <2>1, GateStep
<1>15. CASE CompactCommit(t)
  <2>1. gate' = gate /\ kind' = kind
    BY <1>15 DEF CompactCommit
  <2> QED
    BY <1>15, <2>1, GateStep
<1>16. CASE Cascade(t)
  BY <1>16, GateStep DEF Cascade
<1>17. CASE ChildAppend(t)
  BY <1>17, GateStep DEF ChildAppend
<1>18. CASE Compute(t)
  <2>1. gate' = gate /\ kind' = kind
    BY <1>18 DEF Compute
  <2> QED
    BY <1>18, <2>1, GateStep
<1> QED
  BY <1>1, <1>2, <1>3, <1>4, <1>5, <1>6, <1>7, <1>8, <1>9, <1>10, <1>11, <1>12, <1>13, <1>14, <1>15, <1>16, <1>17, <1>18 DEF Work

LEMMA WorkTurns ==
  ASSUME SType, NEW t \in Tasks, Work(t)
  PROVE  kind' = kind /\ \E name, x, S : Turn(t, name, x, S)
<1>1. kind' = kind
  BY DEF Work, Ensure, Recover, store_lock, store_unlock, store_load_records, Lookup, InsertCheck, InsertAppend,
         InsertSidecars, Tomb, Rewrite, Update, Untomb, CompactRead, CompactCommit, Cascade, ChildAppend, Compute
<1> DEFINE E == \E name, x, S : Turn(t, name, x, S)
<1>5. \A name, x, S : Turn(t, name, x, S) => E
  OBVIOUS
<1> HIDE DEF E
<1>2. CASE Ensure(t) \/ Recover(t) \/ store_lock(t) \/ store_unlock(t) \/ store_load_records(t) \/ Lookup(t)
  BY <1>1, <1>2, <1>5, Turns
<1>3. CASE InsertCheck(t) \/ InsertAppend(t) \/ InsertSidecars(t) \/ Tomb(t) \/ Rewrite(t) \/ Update(t) \/ Untomb(t)
  BY <1>1, <1>3, <1>5, Turns
<1>4. CASE CompactRead(t) \/ CompactCommit(t) \/ Cascade(t) \/ ChildAppend(t) \/ Compute(t)
  BY <1>1, <1>4, <1>5, Turns
<1> QED
  BY <1>1, <1>2, <1>3, <1>4 DEF Work, E

\* What the tasks are after a turn of t.
LEMMA Moved ==
  ASSUME SType, NEW t \in Tasks, NEW name, NEW x, NEW S, Turn(t, name, x, S), kind' = kind
  PROVE  /\ st' \in [Tasks -> Local]
         /\ \A u \in Tasks : u # t => st'[u] = st[u]
         /\ Here(kind', st'[t]) \in S
         /\ \/ st'[t] = Idle
            \/ /\ st'[t].op = st[t].op /\ st'[t].k = st[t].k /\ st'[t].v = st[t].v
               /\ st'[t].buf = x.buf /\ st'[t].sids = x.sids
               /\ st'[t].at \in DOMAIN Program(kind', st'[t].op)
         /\ kind = "cascade" /\ st'[t].op \in {"delete", "destroy"} /\ st'[t].at = 9 => name = "cascade"
<1>1. PICK y \in Local :
        /\ st' = [st EXCEPT ![t] = y]
        /\ Here(kind, y) \in S
        /\ \/ y = Idle
           \/ /\ y.op = x.op /\ y.k = x.k /\ y.v = x.v /\ y.buf = x.buf /\ y.sids = x.sids
              /\ y.at \in DOMAIN Program(kind, y.op)
        /\ kind = "cascade" /\ y.op \in {"delete", "destroy"} /\ y.at = 9 => Here(kind, st[t]) = "cascade"
  BY TurnFacts DEF Lands
<1>2. st \in [Tasks -> Local]
  BY DEF SType
<1>3. st'[t] = y /\ st' \in [Tasks -> Local] /\ \A u \in Tasks : u # t => st'[u] = st[u]
  BY <1>1, <1>2
<1>4. Here(kind, st[t]) = name /\ x.op = st[t].op /\ x.k = st[t].k /\ x.v = st[t].v
  BY TurnFacts
<1> QED
  BY <1>1, <1>3, <1>4

LEMMA TasksTyped ==
  ASSUME SType, NEW t \in Tasks, NEW name, NEW x, NEW S, Turn(t, name, x, S), kind' = kind
  PROVE  /\ st' \in [Tasks -> Local]
         /\ \A u \in Tasks : st'[u].op # "none" =>
              st'[u].k \in Keys /\ st'[u].v \in Vals /\ st'[u].at \in DOMAIN Program(kind', st'[u].op)
<1>1. ASSUME NEW u \in Tasks, st'[u].op # "none"
      PROVE  st'[u].k \in Keys /\ st'[u].v \in Vals /\ st'[u].at \in DOMAIN Program(kind', st'[u].op)
  <2>1. CASE u # t
    BY <1>1, <2>1, Moved DEF SType
  <2>2. CASE u = t
    <3>1. Idle.op = "none"
      BY DEF Idle
    <3> QED
      BY <1>1, <2>2, <3>1, Moved, TurnFacts
  <2> QED
    BY <2>1, <2>2
<1> QED
  BY <1>1, Moved

LEMMA SoloKept ==
  ASSUME SType, Solo, NEW t \in Tasks, Work(t)
  PROVE  Solo'
<1>1. kind' = kind
  BY WorkTurns
<1>2. ASSUME NEW u \in Tasks PROVE st'[u].op = st[u].op \/ st'[u].op = "none"
  <2>1. Idle.op = "none"
    BY DEF Idle
  <2>2. PICK name, x, S : Turn(t, name, x, S)
    BY WorkTurns
  <2> QED
    BY <1>1, <2>1, <2>2, Moved
<1> QED
  BY <1>1, <1>2 DEF Solo, Compacts

\* A step of a running statement is one of its statement's.
LEMMA HereFacts ==
  ASSUME SType, NEW u \in Tasks, Here(kind, st[u]) \in StepNames
  PROVE  st[u].op \in Statement /\ st[u].op # "none" /\ st[u].op \in StatementsWith(kind, Here(kind, st[u]))
         /\ At(u, Here(kind, st[u]))
<1>1. "none" \notin StepNames
  BY DEF StepNames
<1>2. st[u].op # "none"
  BY <1>1 DEF Here
<1>3. st[u].op \in Statement /\ st[u].at \in DOMAIN Program(kind, st[u].op)
  BY <1>2 DEF SType, Local
<1>4. Here(kind, st[u]) = Program(kind, st[u].op)[st[u].at]
  BY <1>2 DEF Here
<1> QED
  BY <1>2, <1>3, <1>4, ProgramFollows, Programs DEF At

\* A task that is about to write, or has appended a row, is the only one.
LEMMA WritesAlone ==
  ASSUME SType, GateHeld, Solo, NEW t \in Tasks, Here(kind, st[t]) \in Writing \cup {"sidecars"},
         NEW u \in Tasks, u # t
  PROVE  Here(kind, st[u]) \notin Writing \cup {"sidecars"}
<1> SUFFICES ASSUME Here(kind, st[u]) \in Writing \cup {"sidecars"} PROVE FALSE
  OBVIOUS
<1>1. Here(kind, st[t]) \in StepNames /\ Here(kind, st[u]) \in StepNames
  BY DEF Writing, StepNames
<1>2. st[t].op # "none" /\ st[u].op # "none"
  BY <1>1, HereFacts
<1>3. CASE Here(kind, st[t]) = "compact_commit"
  <2>1. Compacts(st[t].op)
    BY <1>1, <1>3, HereFacts DEF StatementsWith, Compacts
  <2> QED
    BY <1>2, <2>1 DEF Solo
<1>4. CASE Here(kind, st[u]) = "compact_commit"
  <2>1. Compacts(st[u].op)
    BY <1>1, <1>4, HereFacts DEF StatementsWith, Compacts
  <2> QED
    BY <1>2, <2>1 DEF Solo
<1>5. CASE Here(kind, st[t]) # "compact_commit" /\ Here(kind, st[u]) # "compact_commit"
  <2>1. Here(kind, st[t]) \in Critical /\ Here(kind, st[u]) \in Critical
    BY <1>5 DEF Writing, Critical
  <2>2. gate = t /\ gate = u
    BY <2>1 DEF GateHeld
  <2> QED
    BY <2>2
<1> QED
  BY <1>3, <1>4, <1>5

LEMMA FreshStep ==
  ASSUME SType, GateHeld, Solo, Fresh, NEW t \in Tasks, NEW name, NEW x, NEW S, Turn(t, name, x, S), kind' = kind,
         rows' = rows \/ name \in Writing,
         S \cap Writing = {} \/ x.buf = rows',
         "sidecars" \in S => Len(x.buf) + 1 = Len(rows')
  PROVE  Fresh'
<1>1. Here(kind, st[t]) = name
  BY TurnFacts
<1>2. ASSUME NEW u \in Tasks
      PROVE  /\ Here(kind', st'[u]) \in Writing => st'[u].buf = rows'
             /\ Here(kind', st'[u]) = "sidecars" => Len(st'[u].buf) + 1 = Len(rows')
  <2>1. CASE u = t
    <3>1. Here(kind', Idle) = "none" /\ "none" \notin Writing
      BY DEF Here, Idle, Writing
    <3>2. Here(kind', st'[t]) \in S /\ (st'[t] = Idle \/ st'[t].buf = x.buf)
      BY Moved
    <3> QED
      BY <2>1, <3>1, <3>2
  <2>2. CASE u # t
    <3>1. st'[u] = st[u]
      BY <2>2, Moved
    <3>2. name \in Writing => Here(kind, st[u]) \notin Writing \cup {"sidecars"}
      BY <1>1, <2>2, WritesAlone
    <3> QED
      BY <3>1, <3>2 DEF Fresh
  <2> QED
    BY <2>1, <2>2
<1> QED
  BY <1>2 DEF Fresh

-----------------------------------------------------------------------------
(* What each step does to the rows *)

LEMMA RowsTyped ==
  ASSUME SType
  PROVE  /\ rows \in Seq(Row) /\ DOMAIN rows = 1..Len(rows) /\ Len(rows) \in Nat
         /\ \A i \in DOMAIN rows :
              /\ rows[i] \in Row /\ rows[i].sid \in Nat /\ rows[i].key \in Keys /\ rows[i].val \in Nat
              /\ rows[i].del \in BOOLEAN /\ rows[i].ver \in Nat
<1>1. rows \in Seq(Row) /\ DOMAIN rows = 1..Len(rows) /\ Len(rows) \in Nat
  BY DEF SType
<1>2. \A i \in DOMAIN rows : rows[i] \in Row
  BY <1>1
<1> QED
  BY <1>1, <1>2 DEF Row

LEMMA AppendFacts ==
  ASSUME SType, Fresh, NEW t \in Tasks, InsertAppend(t)
  PROVE  /\ rows' = Append(rows, NewRow(t)) /\ NewRow(t) \in Row
         /\ rows' \in Seq(Row) /\ Len(rows') = Len(rows) + 1 /\ DOMAIN rows' = 1..(Len(rows) + 1)
         /\ \A i \in DOMAIN rows : rows'[i] = rows[i]
         /\ rows'[Len(rows) + 1] = [sid |-> Len(rows) + 1, key |-> st[t].k, val |-> st[t].v, del |-> FALSE, ver |-> 1]
         /\ Len(st[t].buf) = Len(rows)
<1>1. Turn(t, "append", st[t], {"sidecars"})
  BY Turns
<1>2. Here(kind, st[t]) = "append" /\ st[t].k \in Keys /\ st[t].v \in Nat
  BY <1>1, TurnFacts, StatementsAssumption
<1>3. st[t].buf = rows
  BY <1>2 DEF Fresh, Writing
<1>4. rows \in Seq(Row) /\ Len(rows) \in Nat
  BY DEF SType
<1>5. NewRow(t) = [sid |-> Len(rows) + 1, key |-> st[t].k, val |-> st[t].v, del |-> FALSE, ver |-> 1]
  BY <1>3 DEF NewRow
<1>6. NewRow(t) \in Row
  BY <1>2, <1>4, <1>5 DEF Row
<1>7. rows' = Append(rows, NewRow(t))
  BY <1>3 DEF InsertAppend
<1>8. /\ rows' \in Seq(Row) /\ Len(rows') = Len(rows) + 1 /\ DOMAIN rows' = 1..(Len(rows) + 1)
      /\ \A i \in DOMAIN rows : rows'[i] = rows[i]
      /\ rows'[Len(rows) + 1] = NewRow(t)
  BY <1>4, <1>6, <1>7
<1> QED
  BY <1>3, <1>5, <1>6, <1>7, <1>8

\* A statement that changes the rows of its buffer in place.
LEMMA InPlace ==
  ASSUME SType, NEW f, f = [i \in DOMAIN rows |-> f[i]], \A i \in DOMAIN rows : f[i] \in Row
  PROVE  f \in Seq(Row) /\ DOMAIN f = DOMAIN rows /\ Len(f) = Len(rows)
BY RowsTyped

LEMMA TombFacts ==
  ASSUME SType, Fresh, NEW t \in Tasks, Tomb(t)
  PROVE  /\ rows' = [i \in DOMAIN rows |-> IF rows[i].key = st[t].k THEN [rows[i] EXCEPT !.del = TRUE] ELSE rows[i]]
         /\ rows' \in Seq(Row) /\ DOMAIN rows' = DOMAIN rows /\ Len(rows') = Len(rows)
         /\ \A i \in DOMAIN rows :
              /\ rows'[i].sid = rows[i].sid /\ rows'[i].key = rows[i].key /\ rows'[i].ver = rows[i].ver
              /\ rows'[i].del <=> rows[i].del \/ rows[i].key = st[t].k
<1>1. Turn(t, "tomb", WithSids(t), {"unlock"})
  BY Turns
<1>2. st[t].buf = rows
  BY <1>1, TurnFacts DEF Fresh, Writing
<1>3. rows' = [i \in DOMAIN rows |-> IF rows[i].key = st[t].k THEN [rows[i] EXCEPT !.del = TRUE] ELSE rows[i]]
  BY <1>2 DEF Tomb, Rewritten, Matches
<1>4. ASSUME NEW i \in DOMAIN rows
      PROVE  /\ rows'[i] \in Row
             /\ rows'[i].sid = rows[i].sid /\ rows'[i].key = rows[i].key /\ rows'[i].ver = rows[i].ver
             /\ rows'[i].del <=> rows[i].del \/ rows[i].key = st[t].k
  BY <1>3, RowsTyped DEF Row
<1>5. rows' = [i \in DOMAIN rows |-> rows'[i]]
  BY <1>3
<1>6. rows' \in Seq(Row) /\ DOMAIN rows' = DOMAIN rows /\ Len(rows') = Len(rows)
  BY <1>4, <1>5, InPlace
<1> QED
  BY <1>3, <1>4, <1>6

LEMMA UntombFacts ==
  ASSUME SType, Fresh, NEW t \in Tasks, Untomb(t)
  PROVE  /\ rows' = [i \in DOMAIN rows |-> IF rows[i].key = st[t].k THEN [rows[i] EXCEPT !.del = FALSE] ELSE rows[i]]
         /\ rows' \in Seq(Row) /\ DOMAIN rows' = DOMAIN rows /\ Len(rows') = Len(rows)
         /\ \A i \in DOMAIN rows : rows'[i].sid = rows[i].sid /\ rows'[i].key = rows[i].key /\ rows'[i].ver = rows[i].ver
<1>1. Turn(t, "untomb", Emptied(t), {"unlock"})
  BY Turns
<1>2. st[t].buf = rows
  BY <1>1, TurnFacts DEF Fresh, Writing
<1>3. rows' = [i \in DOMAIN rows |-> IF rows[i].key = st[t].k THEN [rows[i] EXCEPT !.del = FALSE] ELSE rows[i]]
  BY <1>2 DEF Untomb, Rewritten, Matches
<1>4. ASSUME NEW i \in DOMAIN rows
      PROVE  /\ rows'[i] \in Row
             /\ rows'[i].sid = rows[i].sid /\ rows'[i].key = rows[i].key /\ rows'[i].ver = rows[i].ver
  BY <1>3, RowsTyped DEF Row
<1>5. rows' = [i \in DOMAIN rows |-> rows'[i]]
  BY <1>3
<1>6. rows' \in Seq(Row) /\ DOMAIN rows' = DOMAIN rows /\ Len(rows') = Len(rows)
  BY <1>4, <1>5, InPlace
<1> QED
  BY <1>3, <1>4, <1>6

LEMMA RowFields ==
  ASSUME NEW r \in Row, NEW k \in Keys, NEW v \in Nat
  PROVE  /\ [r EXCEPT !.key = k] \in Row /\ [r EXCEPT !.key = k].sid = r.sid
         /\ [r EXCEPT !.key = k].del = r.del /\ [r EXCEPT !.key = k].ver = r.ver
         /\ [r EXCEPT !.val = v] \in Row /\ [r EXCEPT !.val = v].sid = r.sid /\ [r EXCEPT !.val = v].key = r.key
         /\ [r EXCEPT !.val = v].del = r.del /\ [r EXCEPT !.val = v].ver = r.ver
         /\ [r EXCEPT !.ver = r.ver + 1] \in Row /\ [r EXCEPT !.ver = r.ver + 1].sid = r.sid
         /\ [r EXCEPT !.ver = r.ver + 1].key = r.key /\ [r EXCEPT !.ver = r.ver + 1].del = r.del
         /\ [r EXCEPT !.ver = r.ver + 1].ver = r.ver + 1
BY DEF Row

\* The rows that an update changes.
Updates(t, i) == rows[i].key = st[t].k /\ ~rows[i].del

LEMMA UpdateFacts ==
  ASSUME SType, Fresh, NEW t \in Tasks, Update(t)
  PROVE  /\ st[t].buf = rows /\ st[t].op \in {"set", "rekey"}
         /\ rows' = [i \in DOMAIN rows |-> IF Updates(t, i) THEN Updated(t, rows[i]) ELSE rows[i]]
         /\ vlog' = IF kind = "versioned" THEN vlog \o Picked(rows, {i \in DOMAIN rows : Updates(t, i)}) ELSE vlog
         /\ rows' \in Seq(Row) /\ DOMAIN rows' = DOMAIN rows /\ Len(rows') = Len(rows)
         /\ \A i \in DOMAIN rows :
              /\ rows'[i].sid = rows[i].sid /\ rows'[i].del = rows[i].del
              /\ st[t].op = "set" => rows'[i].key = rows[i].key
              /\ rows'[i].ver = IF kind = "versioned" /\ Updates(t, i) THEN rows[i].ver + 1 ELSE rows[i].ver
<1>1. Turn(t, "update", Emptied(t), {"unlock"})
  BY Turns
<1>2. st[t].buf = rows /\ st[t].op \in {"set", "rekey"} /\ st[t].k \in Keys /\ st[t].v \in Nat
  BY <1>1, TurnFacts, StatementsAssumption DEF Fresh, Writing, StatementsWith
<1>3. rows' = [i \in DOMAIN rows |-> IF Updates(t, i) THEN Updated(t, rows[i]) ELSE rows[i]]
  BY <1>2 DEF Update, Rewritten, Live, Matches, Updates
<1>4. vlog' = IF kind = "versioned" THEN vlog \o Picked(rows, {i \in DOMAIN rows : Updates(t, i)}) ELSE vlog
  BY <1>2 DEF Update, Live, Matches, Updates
<1>5. st[t].op = "rekey" => st[t].v \in Keys
  BY DEF Update
<1>6. ASSUME NEW i \in DOMAIN rows
      PROVE  /\ Updated(t, rows[i]) \in Row
             /\ Updated(t, rows[i]).sid = rows[i].sid /\ Updated(t, rows[i]).del = rows[i].del
             /\ st[t].op = "set" => Updated(t, rows[i]).key = rows[i].key
             /\ Updated(t, rows[i]).ver = IF kind = "versioned" THEN rows[i].ver + 1 ELSE rows[i].ver
  <2>1. rows[i] \in Row /\ rows[i].ver \in Nat
    BY RowsTyped
  <2> DEFINE next == IF st[t].op = "rekey" THEN [rows[i] EXCEPT !.key = st[t].v] ELSE [rows[i] EXCEPT !.val = st[t].v]
  <2>2. next \in Row /\ next.sid = rows[i].sid /\ next.del = rows[i].del /\ next.ver = rows[i].ver
        /\ (st[t].op = "set" => next.key = rows[i].key)
    BY <1>2, <1>5, <2>1, RowFields
  <2>3. Updated(t, rows[i]) = IF kind = "versioned" THEN [next EXCEPT !.ver = next.ver + 1] ELSE next
    BY DEF Updated
  <2>4. 1 \in Keys
    BY StatementsAssumption
  <2> HIDE DEF next
  <2> QED
    BY <2>2, <2>3, <2>4, RowFields
<1>7. \A i \in DOMAIN rows :
        /\ rows'[i] \in Row /\ rows'[i].sid = rows[i].sid /\ rows'[i].del = rows[i].del
        /\ st[t].op = "set" => rows'[i].key = rows[i].key
        /\ rows'[i].ver = IF kind = "versioned" /\ Updates(t, i) THEN rows[i].ver + 1 ELSE rows[i].ver
  BY <1>3, <1>6, RowsTyped
<1>8. rows' = [i \in DOMAIN rows |-> rows'[i]]
  BY <1>3
<1>9. rows' \in Seq(Row) /\ DOMAIN rows' = DOMAIN rows /\ Len(rows') = Len(rows)
  BY <1>7, <1>8, InPlace
<1> QED
  BY <1>2, <1>3, <1>4, <1>7, <1>9

LEMMA RewriteFacts ==
  ASSUME SType, Fresh, NEW t \in Tasks, Rewrite(t)
  PROVE  LET I == {i \in DOMAIN rows : rows[i].key # st[t].k}
         IN rows' = Picked(rows, I) /\ I \in SUBSET (DOMAIN rows)
<1>1. Turn(t, "rewrite", WithSids(t), {"unlock"})
  BY Turns
<1>2. st[t].buf = rows
  BY <1>1, TurnFacts DEF Fresh, Writing
<1> QED
  BY <1>2 DEF Rewrite, Matches

LEMMA CommitFacts ==
  ASSUME SType, Fresh, NEW t \in Tasks, CompactCommit(t)
  PROVE  LET I == {i \in DOMAIN rows : ~rows[i].del}
         IN (rows' = rows \/ rows' = Picked(rows, I)) /\ I \in SUBSET (DOMAIN rows)
<1>1. Turn(t, "compact_commit", Emptied(t), {"none"})
  BY Turns
<1>2. st[t].buf = rows
  BY <1>1, TurnFacts DEF Fresh, Writing
<1> QED
  BY <1>2 DEF CompactCommit

-----------------------------------------------------------------------------
(* The index *)

Entry == [h : {0} \cup {Hash[k] : k \in Keys}, off : Nat]

\* The entries of the index ix are those of live rows of the file, in file order.
Exact(ix) ==
  /\ \A e \in DOMAIN ix : ix[e].off \in DOMAIN rows /\ ~rows[ix[e].off].del /\ ix[e].h = Hash[rows[ix[e].off].key]
  /\ \A e, f \in DOMAIN ix : e < f => ix[e].off < ix[f].off
  /\ \A p \in DOMAIN rows : ~rows[p].del => \E e \in DOMAIN ix : ix[e].off = p

LEMMA RebuildFacts ==
  ASSUME SType
  PROVE  LET ix == gen_idx_rebuild(rows)
         IN /\ ix \in Seq(Entry) /\ Exact(ix) /\ ix # NoIndex
            /\ \A e \in DOMAIN ix : ix[e].off > 0
<1> DEFINE s == [i \in DOMAIN rows |-> [h |-> Hash[rows[i].key], off |-> i]]
           I == {i \in DOMAIN rows : ~rows[i].del}
           ix == Picked(s, I)
<1>1. s \in Seq(Entry) /\ DOMAIN s = DOMAIN rows
  <2>1. \A i \in DOMAIN rows : s[i] \in Entry
    BY RowsTyped DEF Entry
  <2> HIDE DEF s
  <2>2. s = [i \in DOMAIN rows |-> s[i]]
    BY DEF s
  <2> QED
    BY <2>1, <2>2, RowsTyped
<1>2. gen_idx_rebuild(rows) = ix /\ I \in SUBSET (DOMAIN s)
  BY <1>1 DEF gen_idx_rebuild
<1> DEFINE f == Origin(I)
<1>3. /\ \A a \in DOMAIN ix : f[a] \in I /\ ix[a] = s[f[a]]
      /\ \A a, b \in DOMAIN ix : a < b => f[a] < f[b]
      /\ \A i \in I : \E a \in DOMAIN ix : f[a] = i
  <2> HIDE DEF s, I
  <2> QED
    BY <1>1, <1>2, PickedFacts
<1>4. ix \in Seq(Entry)
  <2> HIDE DEF s, I
  <2> QED
    BY <1>1, <1>2, PickedFacts
<1> HIDE DEF ix, f
<1>5. \A e \in DOMAIN ix : f[e] \in DOMAIN rows /\ ~rows[f[e]].del /\ ix[e].off = f[e] /\ ix[e].h = Hash[rows[f[e]].key]
  <2> SUFFICES ASSUME NEW e \in DOMAIN ix
               PROVE  f[e] \in DOMAIN rows /\ ~rows[f[e]].del /\ ix[e].off = f[e] /\ ix[e].h = Hash[rows[f[e]].key]
    OBVIOUS
  <2>1. f[e] \in I /\ ix[e] = s[f[e]]
    BY <1>3
  <2>2. f[e] \in DOMAIN rows /\ ~rows[f[e]].del
    BY <2>1
  <2>3. s[f[e]] = [h |-> Hash[rows[f[e]].key], off |-> f[e]]
    BY <2>2
  <2> QED
    BY <2>1, <2>2, <2>3
<1>6. \A e \in DOMAIN ix : ix[e].off > 0
  BY <1>5, RowsTyped
<1>7. ix # NoIndex
  <2>1. 1 \in DOMAIN NoIndex /\ NoIndex[1].off = 0
    BY DEF NoIndex
  <2> QED
    BY <1>6, <2>1
<1>8. Exact(ix)
  BY <1>3, <1>5 DEF Exact
<1> QED
  BY <1>2, <1>4, <1>6, <1>7, <1>8

LEMMA LoadFacts ==
  ASSUME SType, OffsetsPositive
  PROVE  /\ load_store_idx \in Seq(Entry) /\ load_store_idx # NoIndex
         /\ \A e \in DOMAIN load_store_idx : load_store_idx[e].off > 0
         /\ idx # NoIndex => load_store_idx = idx
         /\ idx = NoIndex => Exact(load_store_idx)
<1>1. idx \in Seq(Entry)
  BY DEF SType, Entry
<1>2. CASE idx = NoIndex
  BY <1>2, RebuildFacts DEF load_store_idx
<1>3. CASE idx # NoIndex
  BY <1>1, <1>3 DEF load_store_idx, OffsetsPositive
<1> QED
  BY <1>2, <1>3

\* A lookup finds the first entry of the hash, if there is one.
LEMMA LookupFacts ==
  ASSUME NEW ix \in Seq(Entry), \A e \in DOMAIN ix : ix[e].off > 0, NEW k
  PROVE  \/ jinn_idx_lookup(ix, k) = 0 /\ \A e \in DOMAIN ix : ix[e].h # Hash[k]
         \/ \E m \in DOMAIN ix : /\ jinn_idx_lookup(ix, k) = ix[m].off /\ ix[m].h = Hash[k] /\ ix[m].off > 0
                                 /\ \A e \in DOMAIN ix : ix[e].h = Hash[k] => m <= e
<1> DEFINE hits == {i \in DOMAIN ix : ix[i].h = Hash[k]}
<1>1. hits \subseteq Nat
  OBVIOUS
<1>2. jinn_idx_lookup(ix, k) = IF hits = {} THEN 0 ELSE ix[Min(hits)].off
  BY DEF jinn_idx_lookup
<1>3. CASE hits = {}
  BY <1>2, <1>3
<1>4. CASE hits # {}
  <2> HIDE DEF hits
  <2>1. Min(hits) \in hits /\ \A y \in hits : Min(hits) <= y
    BY <1>1, <1>4, Least
  <2> QED
    BY <1>2, <1>4, <2>1 DEF hits
<1> QED
  BY <1>3, <1>4

-----------------------------------------------------------------------------
(* Types *)

DataTyped ==
  /\ rows \in Seq(Row) /\ vlog \in Seq(Row) /\ kids \in Seq(Kid) /\ idx \in Seq(Entry)
  /\ gone \subseteq Nat /\ stale \in BOOLEAN /\ gate \in Tasks \cup {NoTask}

LEMMA DataTypedKept ==
  ASSUME SType, Fresh, OffsetsPositive, NEW t \in Tasks, Work(t)
  PROVE  DataTyped'
<1>1. DataTyped
  BY DEF SType, DataTyped, Entry
<1>2. st[t] \in Local
  BY DEF SType
<1>3. CASE Ensure(t)
  BY <1>1, <1>3 DEF Ensure, DataTyped
<1>4. CASE Recover(t)
  BY <1>1, <1>4 DEF Recover, DataTyped
<1>5. CASE store_lock(t)
  BY <1>1, <1>5 DEF store_lock, DataTyped
<1>6. CASE store_unlock(t)
  <2>1. Finished(t) \subseteq Nat
    BY <1>2 DEF Finished, Local
  <2> QED
    BY <1>1, <1>6, <2>1 DEF store_unlock, DataTyped
<1>7. CASE store_load_records(t)
  BY <1>1, <1>7 DEF store_load_records, DataTyped
<1>8. CASE Lookup(t)
  BY <1>1, <1>8, LoadFacts DEF Lookup, DataTyped
<1>9. CASE InsertCheck(t)
  <2>1. idx' = IF kind = "unique" THEN load_store_idx ELSE idx
    BY <1>9 DEF InsertCheck
  <2>2. stale' = (stale /\ idx # NoIndex) /\ UNCHANGED <<kind, gate, rows, vlog, kids, gone>>
    BY <1>9 DEF InsertCheck
  <2> QED
    BY <1>1, <2>1, <2>2, LoadFacts DEF DataTyped
<1>10. CASE InsertAppend(t)
  BY <1>1, <1>10, AppendFacts DEF InsertAppend, DataTyped
<1>11. CASE InsertSidecars(t)
  <2>1. st[t].k \in Keys /\ Len(st[t].buf) \in Nat
    BY <1>2, <1>11, Turns, TurnFacts DEF Local
  <2>2. [h |-> Hash[st[t].k], off |-> Len(st[t].buf) + 1] \in Entry
    BY <2>1 DEF Entry
  <2>3. Append(load_store_idx, [h |-> Hash[st[t].k], off |-> Len(st[t].buf) + 1]) \in Seq(Entry)
    BY <2>2, LoadFacts
  <2>4. idx' = IF kind = "unique" THEN Append(load_store_idx, [h |-> Hash[st[t].k], off |-> Len(st[t].buf) + 1]) ELSE idx
    BY <1>11 DEF InsertSidecars
  <2>5. UNCHANGED <<kind, gate, rows, vlog, kids, gone, stale>>
    BY <1>11 DEF InsertSidecars
  <2> QED
    BY <1>1, <2>3, <2>4, <2>5 DEF DataTyped
<1>12. CASE Tomb(t)
  BY <1>1, <1>12, TombFacts DEF Tomb, DataTyped
<1>13. CASE Rewrite(t)
  <2>1. rows' \in Seq(Row)
    <3> DEFINE I == {i \in DOMAIN rows : rows[i].key # st[t].k}
    <3>1. rows' = Picked(rows, I) /\ I \in SUBSET (DOMAIN rows)
      BY <1>13, RewriteFacts
    <3> HIDE DEF I
    <3> QED
      BY <1>1, <3>1, PickedFacts DEF DataTyped
  <2>2. NoIndex \in Seq(Entry)
    BY DEF NoIndex, Entry
  <2> QED
    BY <1>1, <1>13, <2>1, <2>2 DEF Rewrite, DataTyped
<1>14. CASE Update(t)
  <2>1. Picked(rows, {i \in DOMAIN rows : Updates(t, i)}) \in Seq(Row)
    BY <1>1, PickedFacts DEF DataTyped
  <2>2. vlog' \in Seq(Row)
    <3> DEFINE new == Picked(rows, {i \in DOMAIN rows : Updates(t, i)})
    <3>1. vlog' = IF kind = "versioned" THEN vlog \o new ELSE vlog
      BY <1>14, UpdateFacts
    <3> HIDE DEF new
    <3>2. new \in Seq(Row)
      BY <2>1 DEF new
    <3> QED
      BY <1>1, <3>1, <3>2 DEF DataTyped
  <2>3. rows' \in Seq(Row)
    BY <1>14, UpdateFacts
  <2> QED
    BY <1>1, <1>14, <2>2, <2>3 DEF Update, DataTyped
<1>15. CASE Untomb(t)
  BY <1>1, <1>15, UntombFacts DEF Untomb, DataTyped
<1>16. CASE CompactRead(t)
  BY <1>1, <1>16 DEF CompactRead, DataTyped
<1>17. CASE CompactCommit(t)
  <2>1. rows' \in Seq(Row)
    <3> DEFINE I == {i \in DOMAIN rows : ~rows[i].del}
    <3>1. (rows' = rows \/ rows' = Picked(rows, I)) /\ I \in SUBSET (DOMAIN rows)
      BY <1>17, CommitFacts
    <3> HIDE DEF I
    <3> QED
      BY <1>1, <3>1, PickedFacts DEF DataTyped
  <2> QED
    BY <1>1, <1>17, <2>1 DEF CompactCommit, DataTyped
<1>18. CASE Cascade(t)
  <2>1. Picked(kids, {i \in DOMAIN kids : kids[i].owner \notin st[t].sids}) \in Seq(Kid)
    BY <1>1, PickedFacts DEF DataTyped
  <2>2. [i \in DOMAIN kids |-> IF kids[i].owner \in st[t].sids THEN [kids[i] EXCEPT !.del = TRUE] ELSE kids[i]] \in Seq(Kid)
    <3>1. kids \in Seq(Kid) /\ DOMAIN kids = 1..Len(kids) /\ Len(kids) \in Nat
      BY <1>1 DEF DataTyped
    <3>2. \A i \in DOMAIN kids : kids[i] \in Kid
      BY <3>1
    <3>3. \A i \in DOMAIN kids : [kids[i] EXCEPT !.del = TRUE] \in Kid
      BY <3>2 DEF Kid
    <3> QED
      BY <3>1, <3>2, <3>3
  <2>3. kids' \in Seq(Kid)
    BY <1>18, <2>1, <2>2 DEF Cascade
  <2> QED
    BY <1>1, <1>18, <2>3 DEF Cascade, DataTyped
<1>19. CASE ChildAppend(t)
  <2>1. [owner |-> st[t].k, del |-> FALSE, late |-> st[t].k \in gone] \in Kid
    BY <1>2 DEF Local, Kid
  <2>2. kids' \in Seq(Kid)
    BY <1>1, <1>19, <2>1 DEF ChildAppend, DataTyped
  <2> QED
    BY <1>1, <1>19, <2>2 DEF ChildAppend, DataTyped
<1>20. CASE Compute(t)
  BY <1>1, <1>20 DEF Compute, DataTyped
<1> QED
  BY <1>3, <1>4, <1>5, <1>6, <1>7, <1>8, <1>9, <1>10, <1>11, <1>12, <1>13, <1>14, <1>15, <1>16, <1>17, <1>18, <1>19, <1>20 DEF Work

LEMMA STypeKept ==
  ASSUME SType, Fresh, OffsetsPositive, NEW t \in Tasks, Work(t)
  PROVE  SType'
<1>1. kind' = kind
  BY WorkTurns
<1>2. PICK name, x, S : Turn(t, name, x, S)
  BY WorkTurns
<1> QED
  BY <1>1, <1>2, TasksTyped, DataTypedKept DEF SType, DataTyped, Entry

-----------------------------------------------------------------------------
(* What is read is what is written back *)

LEMMA FreshKept ==
  ASSUME SType, GateHeld, Solo, Fresh, NEW t \in Tasks, Work(t)
  PROVE  Fresh'
<1> USE Turns, FreshStep DEF Writing
<1>1. CASE Ensure(t)
  <2>1. rows' = rows /\ kind' = kind
    BY <1>1 DEF Ensure
  <2> QED
    BY <1>1, <2>1 DEF SkippedTo
<1>2. CASE Recover(t)
  BY <1>2 DEF Recover, Successors
<1>3. CASE store_lock(t)
  BY <1>3 DEF store_lock, Successors
<1>4. CASE store_unlock(t)
  BY <1>4 DEF store_unlock, Successors
<1>5. CASE store_load_records(t)
  <2>1. WithRows(t).buf = rows
    BY Places
  <2> QED
    BY <1>5, <2>1 DEF store_load_records, Successors
<1>6. CASE Lookup(t)
  BY <1>6 DEF Lookup
<1>7. CASE InsertCheck(t)
  <2>1. rows' = rows /\ kind' = kind
    BY <1>7 DEF InsertCheck
  <2>2. WithRows(t).buf = rows
    BY Places
  <2> QED
    BY <1>7, <2>1, <2>2
<1>8. CASE InsertAppend(t)
  <2>1. kind' = kind
    BY <1>8 DEF InsertAppend
  <2>2. Len(st[t].buf) + 1 = Len(rows')
    BY <1>8, AppendFacts
  <2> QED
    BY <1>8, <2>1, <2>2
<1>9. CASE InsertSidecars(t)
  <2>1. rows' = rows /\ kind' = kind
    BY <1>9 DEF InsertSidecars
  <2> QED
    BY <1>9, <2>1
<1>10. CASE Tomb(t)
  <2>1. kind' = kind
    BY <1>10 DEF Tomb
  <2> QED
    BY <1>10, <2>1
<1>11. CASE Rewrite(t)
  <2>1. kind' = kind
    BY <1>11 DEF Rewrite
  <2> QED
    BY <1>11, <2>1
<1>12. CASE Update(t)
  <2>1. kind' = kind
    BY <1>12 DEF Update
  <2> QED
    BY <1>12, <2>1
<1>13. CASE Untomb(t)
  <2>1. kind' = kind
    BY <1>13 DEF Untomb
  <2> QED
    BY <1>13, <2>1
<1>14. CASE CompactRead(t)
  <2>1. rows' = rows /\ kind' = kind
    BY <1>14 DEF CompactRead
  <2>2. WithRows(t).buf = rows
    BY Places
  <2> QED
    BY <1>14, <2>1, <2>2
<1>15. CASE CompactCommit(t)
  <2>1. kind' = kind
    BY <1>15 DEF CompactCommit
  <2> QED
    BY <1>15, <2>1
<1>16. CASE Cascade(t)
  <2>1. rows' = rows /\ kind' = kind
    BY <1>16 DEF Cascade
  <2> QED
    BY <1>16, <2>1
<1>17. CASE ChildAppend(t)
  <2>1. rows' = rows /\ kind' = kind
    BY <1>17 DEF ChildAppend
  <2> QED
    BY <1>17, <2>1
<1>18. CASE Compute(t)
  <2>1. rows' = rows /\ kind' = kind
    BY <1>18 DEF Compute
  <2> QED
    BY <1>18, <2>1
<1> QED
  BY <1>1, <1>2, <1>3, <1>4, <1>5, <1>6, <1>7, <1>8, <1>9, <1>10, <1>11, <1>12, <1>13, <1>14, <1>15, <1>16, <1>17, <1>18 DEF Work

-----------------------------------------------------------------------------
(* The index agrees with the file *)

\* The steps that leave the rows and the index alone.
Quiet(t) ==
  \/ Ensure(t) \/ Recover(t) \/ store_lock(t) \/ store_unlock(t) \/ store_load_records(t)
  \/ CompactRead(t) \/ Cascade(t) \/ ChildAppend(t) \/ Compute(t)

LEMMA QuietTurns ==
  ASSUME SType, NEW t \in Tasks, Quiet(t)
  PROVE  /\ UNCHANGED <<kind, rows, idx, vlog, touched, stale>>
         /\ \E name, x, S : Turn(t, name, x, S) /\ name \notin {"append", "sidecars"} /\ S \cap {"append", "sidecars"} = {}
<1>1. UNCHANGED <<kind, rows, idx, vlog, touched, stale>>
  BY DEF Quiet, Ensure, Recover, store_lock, store_unlock, store_load_records, CompactRead, Cascade, ChildAppend, Compute
<1> DEFINE E == \E name, x, S : Turn(t, name, x, S) /\ name \notin {"append", "sidecars"} /\ S \cap {"append", "sidecars"} = {}
<1>2. \A name, x, S : Turn(t, name, x, S) /\ name \notin {"append", "sidecars"} /\ S \cap {"append", "sidecars"} = {} => E
  OBVIOUS
<1> HIDE DEF E
<1>3. Ensure(t) => E
  <2>1. {"recover"} \cap {"append", "sidecars"} = {} /\ SkippedTo("ensure") \cap {"append", "sidecars"} = {}
    BY DEF SkippedTo
  <2> QED
    BY <1>2, <2>1, Turns
<1>4. Recover(t) \/ store_lock(t) \/ store_unlock(t) => E
  <2>1. \A name \in {"recover", "lock", "unlock"} : Successors(name) \cap {"append", "sidecars"} = {}
    BY DEF Successors
  <2> QED
    BY <1>2, <2>1, Turns
<1>5. store_load_records(t) => E
  <2>1. Successors("load") \cap {"append", "sidecars"} = {}
    BY DEF Successors
  <2> QED
    BY <1>2, <2>1, Turns
<1>6. CompactRead(t) => E
  <2>1. {"compact_commit"} \cap {"append", "sidecars"} = {} /\ {"none"} \cap {"append", "sidecars"} = {}
    OBVIOUS
  <2> QED
    BY <1>2, <2>1, Turns
<1>7. Cascade(t) \/ ChildAppend(t) \/ Compute(t) => E
  <2>1. {"unlock"} \cap {"append", "sidecars"} = {} /\ {"none"} \cap {"append", "sidecars"} = {}
    OBVIOUS
  <2> QED
    BY <1>2, <2>1, Turns
<1> QED
  BY <1>1, <1>3, <1>4, <1>5, <1>6, <1>7 DEF Quiet, E

\* While a task owns the gate, or commits a compaction, no other inserts.
LEMMA Sole ==
  ASSUME SType, GateHeld, Solo, NEW t \in Tasks, Here(kind, st[t]) \in Critical \cup Writing,
         NEW u \in Tasks, u # t
  PROVE  Here(kind, st[u]) \notin {"append", "sidecars"}
<1>1. CASE Here(kind, st[t]) \in Critical
  <2>1. gate = t /\ (Here(kind, st[u]) \in Critical => gate = u)
    BY <1>1 DEF GateHeld
  <2> QED
    BY <2>1 DEF Critical
<1>2. CASE Here(kind, st[t]) \in Writing
  BY <1>2, WritesAlone DEF Writing
<1> QED
  BY <1>1, <1>2

LEMMA NotPending ==
  ASSUME SType, GateHeld, Solo, NEW t \in Tasks, NEW name, NEW x, NEW S, Turn(t, name, x, S),
         name \in Critical \cup Writing, name # "sidecars"
  PROVE  \A p : ~Pending(p)
<1>1. Here(kind, st[t]) = name
  BY TurnFacts
<1>2. \A u \in Tasks : Here(kind, st[u]) # "sidecars"
  BY <1>1, Sole
<1> QED
  BY <1>2 DEF Pending

LEMMA CheckedStep ==
  ASSUME SType, GateHeld, Solo, Checked, NEW t \in Tasks, NEW name, NEW x, NEW S, Turn(t, name, x, S), kind' = kind,
         S \cap {"append", "sidecars"} = {},
         (idx' = idx /\ rows' = rows) \/ name \in Critical \cup Writing
  PROVE  Checked'
<1>1. Here(kind, st[t]) = name
  BY TurnFacts
<1>2. ASSUME NEW u \in Tasks, Here(kind', st'[u]) \in {"append", "sidecars"}
      PROVE  st'[u] = st[u] /\ idx' = idx /\ rows' = rows
  <2>1. u # t
    BY <1>2, Moved
  <2>2. st'[u] = st[u]
    BY <2>1, Moved
  <2>3. name \in Critical \cup Writing => Here(kind, st[u]) \notin {"append", "sidecars"}
    BY <1>1, <2>1, Sole
  <2> QED
    BY <1>2, <2>2, <2>3
<1> QED
  BY <1>2 DEF Checked

LEMMA PendingKept ==
  ASSUME SType, NEW t \in Tasks, NEW name, NEW x, NEW S, Turn(t, name, x, S), kind' = kind, rows' = rows,
         name # "sidecars", "sidecars" \notin S
  PROVE  \A p : Pending(p)' <=> Pending(p)
<1>1. Here(kind, st[t]) = name
  BY TurnFacts
<1>2. \A u \in Tasks : Here(kind', st'[u]) = "sidecars" <=> Here(kind, st[u]) = "sidecars"
  <2> SUFFICES ASSUME NEW u \in Tasks PROVE Here(kind', st'[u]) = "sidecars" <=> Here(kind, st[u]) = "sidecars"
    OBVIOUS
  <2>1. CASE u = t
    BY <1>1, <2>1, Moved
  <2>2. CASE u # t
    BY <2>2, Moved
  <2> QED
    BY <2>1, <2>2
<1> QED
  BY <1>2 DEF Pending

IndexInv == Indexed /\ Covered /\ Checked /\ OffsetsPositive

LEMMA IndexQuiet ==
  ASSUME SType, GateHeld, Solo, IndexInv, NEW t \in Tasks, Quiet(t)
  PROVE  IndexInv'
<1>1. UNCHANGED <<kind, rows, idx, vlog, touched, stale>>
  BY QuietTurns
<1>2. PICK name, x, S : Turn(t, name, x, S) /\ name \notin {"append", "sidecars"} /\ S \cap {"append", "sidecars"} = {}
  BY QuietTurns
<1>3. \A p : Pending(p)' <=> Pending(p)
  BY <1>1, <1>2, PendingKept
<1>4. Indexed'
  BY <1>1, <1>3 DEF Indexed, IndexInv
<1>5. Covered'
  BY <1>1, <1>3 DEF Covered, Unique, IndexInv
<1>6. Checked'
  BY <1>1, <1>2, CheckedStep DEF IndexInv
<1>7. OffsetsPositive'
  BY <1>1 DEF OffsetsPositive, IndexInv
<1> QED
  BY <1>4, <1>5, <1>6, <1>7 DEF IndexInv

\* An index that was opened is exact, or is the one that was open.
LEMMA OpenStep ==
  ASSUME SType, GateHeld, Solo, IndexInv, NEW t \in Tasks, NEW name, NEW x, NEW S, Turn(t, name, x, S),
         name \in {"lookup", "check"}, S \cap {"sidecars"} = {}, UNCHANGED <<kind, rows, touched>>,
         idx' = load_store_idx \/ (kind # "unique" /\ idx' = idx), stale' = (stale /\ idx # NoIndex)
  PROVE  Indexed' /\ Covered' /\ OffsetsPositive'
<1>1. \A p : ~Pending(p)
  BY NotPending DEF Critical
<1>2. \A p : ~Pending(p)'
  BY <1>1, PendingKept
<1>3. OffsetsPositive'
  BY LoadFacts DEF IndexInv, OffsetsPositive
<1>4. CASE kind # "unique"
  BY <1>3, <1>4 DEF Indexed, Covered
<1>5. CASE kind = "unique" /\ idx = NoIndex
  <2>1. Exact(load_store_idx) /\ idx' = load_store_idx
    BY <1>5, LoadFacts DEF IndexInv
  <2> DEFINE ix == load_store_idx
  <2>2. /\ \A e \in DOMAIN ix : ix[e].off \in DOMAIN rows /\ ~rows[ix[e].off].del /\ ix[e].h = Hash[rows[ix[e].off].key]
        /\ \A e, f \in DOMAIN ix : e < f => ix[e].off < ix[f].off
        /\ \A p \in DOMAIN rows : ~rows[p].del => \E e \in DOMAIN ix : ix[e].off = p
    BY <2>1 DEF Exact
  <2> HIDE DEF ix
  <2>3. idx' = ix
    BY <2>1 DEF ix
  <2>4. Indexed'
    BY <2>2, <2>3 DEF Indexed
  <2>6. Covered'
    BY <1>5, <2>2, <2>3 DEF Covered, Unique, IndexInv
  <2> QED
    BY <1>3, <2>4, <2>6
<1>6. CASE kind = "unique" /\ idx # NoIndex
  <2>1. idx' = idx /\ stale' = stale
    BY <1>6, LoadFacts DEF IndexInv, SType
  <2>2. Indexed'
    BY <1>1, <1>2, <2>1 DEF Indexed, IndexInv
  <2>3. Covered'
    BY <1>1, <1>2, <2>1 DEF Covered, Unique, IndexInv
  <2> QED
    BY <1>3, <2>2, <2>3
<1> QED
  BY <1>4, <1>5, <1>6

LEMMA LookupKeeps ==
  ASSUME SType, GateHeld, Solo, IndexInv, NEW t \in Tasks, Lookup(t)
  PROVE  IndexInv'
<1>1. Turn(t, "lookup", st[t], {"unlock"})
  BY Turns
<1>2. UNCHANGED <<kind, rows, touched>> /\ idx' = load_store_idx /\ stale' = (stale /\ idx # NoIndex)
  BY DEF Lookup
<1>3. Checked'
  BY <1>1, <1>2, CheckedStep DEF IndexInv, Critical
<1>4. Indexed' /\ Covered' /\ OffsetsPositive'
  <2>1. {"unlock"} \cap {"sidecars"} = {}
    OBVIOUS
  <2> QED
    BY <1>1, <1>2, <2>1, OpenStep
<1> QED
  BY <1>3, <1>4 DEF IndexInv

LEMMA CheckKeeps ==
  ASSUME SType, GateHeld, Solo, IndexInv, NEW t \in Tasks, InsertCheck(t)
  PROVE  IndexInv'
<1> DEFINE dup == kind = "unique" /\ jinn_idx_lookup(load_store_idx, st[t].k) # 0
<1>1. IF dup THEN Turn(t, "check", st[t], {"unlock"}) ELSE Turn(t, "check", WithRows(t), {"append"})
  BY Turns
<1>2. /\ UNCHANGED <<kind, rows, touched>> /\ stale' = (stale /\ idx # NoIndex)
      /\ idx' = IF kind = "unique" THEN load_store_idx ELSE idx
  BY DEF InsertCheck
<1>3. Indexed' /\ Covered' /\ OffsetsPositive'
  <2>1. {"unlock"} \cap {"sidecars"} = {} /\ {"append"} \cap {"sidecars"} = {}
    OBVIOUS
  <2>2. PICK x, S : Turn(t, "check", x, S) /\ S \cap {"sidecars"} = {}
    BY <1>1, <2>1
  <2> QED
    BY <1>2, <2>2, OpenStep
<1>4. CASE dup
  <2>1. Checked'
    BY <1>1, <1>2, <1>4, CheckedStep DEF IndexInv, Critical
  <2> QED
    BY <1>3, <2>1 DEF IndexInv
<1>5. CASE ~dup /\ kind # "unique"
  <2>1. Checked'
    BY <1>2, <1>5 DEF Checked
  <2> QED
    BY <1>3, <2>1 DEF IndexInv
<1>6. CASE ~dup /\ kind = "unique"
  <2>1. Turn(t, "check", WithRows(t), {"append"}) /\ idx' = load_store_idx
    BY <1>1, <1>2, <1>6
  <2>2. load_store_idx # NoIndex /\ \A e \in DOMAIN load_store_idx : load_store_idx[e].h # Hash[st[t].k]
    BY <1>6, LoadFacts, LookupFacts DEF IndexInv
  <2>3. Here(kind', st'[t]) = "append" /\ (st'[t] = Idle \/ st'[t].k = st[t].k)
    BY <1>2, <2>1, Moved
  <2>4. st'[t] # Idle
    BY <2>3 DEF Idle, Here
  <2>5. ASSUME NEW u \in Tasks, u # t PROVE Here(kind', st'[u]) \notin {"append", "sidecars"}
    BY <1>2, <2>1, <2>5, Sole, Moved, TurnFacts DEF Critical
  <2>6. Checked'
    BY <2>1, <2>2, <2>3, <2>4, <2>5 DEF Checked
  <2> QED
    BY <1>3, <2>6 DEF IndexInv
<1> QED
  BY <1>4, <1>5, <1>6

LEMMA AppendKeeps ==
  ASSUME SType, GateHeld, Solo, Fresh, IndexInv, NEW t \in Tasks, InsertAppend(t)
  PROVE  IndexInv'
<1>1. Turn(t, "append", st[t], {"sidecars"})
  BY Turns
<1>2. UNCHANGED <<kind, idx, stale>> /\ touched \subseteq touched'
  BY DEF InsertAppend
<1>3. /\ Len(rows') = Len(rows) + 1 /\ DOMAIN rows' = 1..(Len(rows) + 1) /\ DOMAIN rows = 1..Len(rows) /\ Len(rows) \in Nat
      /\ \A i \in DOMAIN rows : rows'[i] = rows[i]
      /\ rows'[Len(rows) + 1].key = st[t].k /\ ~rows'[Len(rows) + 1].del
  <2>1. rows'[Len(rows) + 1] = [sid |-> Len(rows) + 1, key |-> st[t].k, val |-> st[t].v, del |-> FALSE, ver |-> 1]
    BY AppendFacts
  <2>2. rows'[Len(rows) + 1].key = st[t].k /\ ~rows'[Len(rows) + 1].del
    BY <2>1
  <2>3. Len(rows') = Len(rows) + 1 /\ DOMAIN rows' = 1..(Len(rows) + 1) /\ \A i \in DOMAIN rows : rows'[i] = rows[i]
    BY AppendFacts
  <2> QED
    BY <2>2, <2>3, RowsTyped
<1>4. Here(kind, st[t]) = "append"
  BY <1>1, TurnFacts
<1>5. Here(kind', st'[t]) = "sidecars" /\ st'[t].k = st[t].k
  <2>1. Here(kind', Idle) = "none"
    BY DEF Here, Idle
  <2> QED
    BY <1>1, <1>2, <2>1, Moved
<1>6. ASSUME NEW u \in Tasks, u # t PROVE Here(kind', st'[u]) \notin {"append", "sidecars"}
  BY <1>1, <1>2, <1>4, <1>6, Sole, Moved DEF Critical
<1>7. \A p : ~Pending(p)
  BY <1>1, NotPending DEF Critical
<1>8. \A p : Pending(p)' <=> p = Len(rows) + 1
  BY <1>3, <1>5, <1>6 DEF Pending
<1>9. OffsetsPositive'
  BY <1>2 DEF OffsetsPositive, IndexInv
<1>10. CASE kind # "unique"
  BY <1>2, <1>9, <1>10 DEF IndexInv, Indexed, Covered, Checked
<1>11. CASE kind = "unique"
  <2>1. idx # NoIndex /\ \A e \in DOMAIN idx : idx[e].h # Hash[st[t].k]
    BY <1>4, <1>11 DEF IndexInv, Checked
  <2>2. Checked'
    BY <1>2, <1>3, <1>5, <1>6, <2>1 DEF Checked
  <2>3. Indexed'
    <3> SUFFICES ASSUME ~stale PROVE Indexed'
      BY <1>2 DEF Indexed
    <3>1. /\ \A e \in DOMAIN idx : idx[e].off \in DOMAIN rows /\ idx[e].h = Hash[rows[idx[e].off].key]
          /\ \A e, f \in DOMAIN idx : e < f => idx[e].off < idx[f].off
          /\ \A p \in DOMAIN rows : ~rows[p].del => \E e \in DOMAIN idx : idx[e].off = p
          /\ \A e \in DOMAIN idx : rows[idx[e].off].del =>
               \A p \in DOMAIN rows : ~rows[p].del => rows[p].key # rows[idx[e].off].key
      BY <1>7, <1>11, <2>1 DEF Indexed, IndexInv
    <3>2. \A e \in DOMAIN idx : idx[e].off \in DOMAIN rows' /\ rows'[idx[e].off] = rows[idx[e].off]
      BY <1>3, <3>1
    <3>3. \A e \in DOMAIN idx : rows[idx[e].off].key # st[t].k
      BY <2>1, <3>1
    <3>4. \A p \in DOMAIN rows' : p = Len(rows) + 1 \/ (p \in DOMAIN rows /\ rows'[p] = rows[p])
      BY <1>3
    <3>5. \A p \in DOMAIN rows' : ~rows'[p].del /\ ~Pending(p)' => \E e \in DOMAIN idx : idx[e].off = p
      BY <1>8, <3>1, <3>4
    <3>6. \A e \in DOMAIN idx : rows'[idx[e].off].del =>
               \A p \in DOMAIN rows' : ~rows'[p].del => rows'[p].key # rows'[idx[e].off].key
      BY <1>3, <3>1, <3>2, <3>3, <3>4
    <3> QED
      BY <1>2, <3>1, <3>2, <3>5, <3>6 DEF Indexed
  <2>4. Covered'
    <3> SUFFICES ASSUME touched' \cap {"rekey", "restore"} = {} PROVE Covered'
      BY DEF Covered
    <3>1. Unique /\ \A p \in DOMAIN rows : ~rows[p].del => \E e \in DOMAIN idx : idx[e].h = Hash[rows[p].key]
      BY <1>2, <1>7, <1>11, <2>1 DEF Covered, IndexInv
    <3>2. \A p \in DOMAIN rows : ~rows[p].del => rows[p].key # st[t].k
      BY <2>1, <3>1
    <3>3. \A p \in DOMAIN rows' : p = Len(rows) + 1 \/ (p \in DOMAIN rows /\ rows'[p] = rows[p])
      BY <1>3
    <3>4. Unique'
      BY <1>3, <3>1, <3>2, <3>3 DEF Unique
    <3>5. \A p \in DOMAIN rows' : ~rows'[p].del /\ ~Pending(p)' => \E e \in DOMAIN idx : idx[e].h = Hash[rows'[p].key]
      BY <1>8, <3>1, <3>3
    <3> QED
      BY <1>2, <3>4, <3>5 DEF Covered
  <2> QED
    BY <1>9, <2>2, <2>3, <2>4 DEF IndexInv
<1> QED
  BY <1>10, <1>11

LEMMA SidecarsKeep ==
  ASSUME SType, GateHeld, Solo, Fresh, IndexInv, NEW t \in Tasks, InsertSidecars(t)
  PROVE  IndexInv'
<1>1. Turn(t, "sidecars", st[t], {"unlock"})
  BY Turns
<1>2. Here(kind, st[t]) = "sidecars" /\ Len(st[t].buf) + 1 = Len(rows)
  BY <1>1, TurnFacts DEF Fresh
<1>3. UNCHANGED <<kind, rows, touched, stale>>
  BY DEF InsertSidecars
<1>4. \A u \in Tasks : u # t => Here(kind, st[u]) # "sidecars"
  BY <1>2, Sole DEF Critical
<1>5. \A p : ~Pending(p)'
  <2>1. Here(kind', st'[t]) # "sidecars" /\ \A u \in Tasks : u # t => st'[u] = st[u]
    BY <1>1, <1>3, Moved
  <2> QED
    BY <1>3, <1>4, <2>1 DEF Pending
<1>6. \A p : Pending(p) <=> p = Len(rows)
  BY <1>2, <1>4 DEF Pending
<1>7. Checked'
  BY <1>1, <1>3, CheckedStep DEF IndexInv, Critical
<1>8. CASE kind # "unique"
  <2>1. idx' = idx
    BY <1>8 DEF InsertSidecars
  <2> QED
    BY <1>3, <1>7, <1>8, <2>1 DEF IndexInv, Indexed, Covered, OffsetsPositive
<1>9. CASE kind = "unique"
  <2> DEFINE n == Len(rows)
             new == [h |-> Hash[st[t].k], off |-> n]
  <2>1. /\ idx # NoIndex /\ \A e \in DOMAIN idx : idx[e].h # Hash[st[t].k]
        /\ n > 0 /\ rows[n].key = st[t].k /\ ~rows[n].del
    BY <1>2, <1>9 DEF IndexInv, Checked
  <2>2. idx' = Append(idx, new)
    BY <1>2, <1>9, <2>1 DEF InsertSidecars, load_store_idx
  <2>3. idx \in Seq(Entry) /\ new \in Entry /\ n \in Nat /\ DOMAIN rows = 1..n
    <3>1. st[t].k \in Keys
      BY <1>1, TurnFacts
    <3> QED
      BY <3>1, RowsTyped DEF SType, Entry
  <2> HIDE DEF new, n
  <2>4. /\ DOMAIN idx' = 1..(Len(idx) + 1) /\ DOMAIN idx = 1..Len(idx) /\ Len(idx) \in Nat
        /\ \A e \in DOMAIN idx : idx'[e] = idx[e]
        /\ idx'[Len(idx) + 1] = new
    BY <2>2, <2>3
  <2>5. new.h = Hash[st[t].k] /\ new.off = n
    BY DEF new
  <2>6. \A e \in DOMAIN idx' : e = Len(idx) + 1 \/ (e \in DOMAIN idx /\ idx'[e] = idx[e])
    BY <2>4
  <2>7. OffsetsPositive'
    BY <2>1, <2>4, <2>5, <2>6 DEF OffsetsPositive, IndexInv
  <2>8. Indexed'
    <3> SUFFICES ASSUME ~stale PROVE Indexed'
      BY <1>3 DEF Indexed
    <3>1. /\ \A e \in DOMAIN idx : idx[e].off \in DOMAIN rows /\ idx[e].h = Hash[rows[idx[e].off].key]
          /\ \A e, f \in DOMAIN idx : e < f => idx[e].off < idx[f].off
          /\ \A p \in DOMAIN rows : ~rows[p].del /\ p # n => \E e \in DOMAIN idx : idx[e].off = p
          /\ \A e \in DOMAIN idx : rows[idx[e].off].del =>
               \A p \in DOMAIN rows : ~rows[p].del => rows[p].key # rows[idx[e].off].key
      BY <1>6, <1>9, <2>1 DEF Indexed, IndexInv, n
    <3>2. \A e \in DOMAIN idx : idx[e].off < n
      <4>1. \A e \in DOMAIN idx : idx[e].off # n
        BY <2>1, <3>1
      <4> QED
        BY <2>3, <3>1, <4>1
    <3>3. \A e \in DOMAIN idx' : idx'[e].off \in DOMAIN rows /\ idx'[e].h = Hash[rows[idx'[e].off].key]
      BY <2>1, <2>3, <2>4, <2>5, <2>6, <3>1
    <3>4. \A e, f \in DOMAIN idx' : e < f => idx'[e].off < idx'[f].off
      <4> SUFFICES ASSUME NEW e \in DOMAIN idx', NEW f \in DOMAIN idx', e < f PROVE idx'[e].off < idx'[f].off
        OBVIOUS
      <4>1. e \in DOMAIN idx /\ idx'[e] = idx[e]
        BY <2>4, <2>6
      <4> QED
        BY <2>4, <2>5, <2>6, <3>1, <3>2, <4>1
    <3>5. \A p \in DOMAIN rows : ~rows[p].del => \E e \in DOMAIN idx' : idx'[e].off = p
      <4>1. Len(idx) + 1 \in DOMAIN idx' /\ idx'[Len(idx) + 1].off = n
        BY <2>4, <2>5
      <4>2. \A e \in DOMAIN idx : e \in DOMAIN idx' /\ idx'[e] = idx[e]
        BY <2>4
      <4> QED
        BY <3>1, <4>1, <4>2
    <3>6. \A e \in DOMAIN idx' : rows[idx'[e].off].del =>
               \A p \in DOMAIN rows : ~rows[p].del => rows[p].key # rows[idx'[e].off].key
      BY <2>1, <2>4, <2>5, <2>6, <3>1
    <3> QED
      BY <1>3, <3>3, <3>4, <3>5, <3>6 DEF Indexed
  <2>9. Covered'
    <3> SUFFICES ASSUME touched \cap {"rekey", "restore"} = {} PROVE Covered'
      BY <1>3 DEF Covered
    <3>1. Unique /\ \A p \in DOMAIN rows : ~rows[p].del /\ p # n => \E e \in DOMAIN idx : idx[e].h = Hash[rows[p].key]
      BY <1>6, <1>9, <2>1 DEF Covered, IndexInv, n
    <3>2. Len(idx) + 1 \in DOMAIN idx' /\ idx'[Len(idx) + 1].h = Hash[rows[n].key]
      BY <2>1, <2>4, <2>5
    <3>3. \A e \in DOMAIN idx : e \in DOMAIN idx' /\ idx'[e] = idx[e]
      BY <2>4
    <3>4. \A p \in DOMAIN rows : ~rows[p].del => \E e \in DOMAIN idx' : idx'[e].h = Hash[rows[p].key]
      BY <3>1, <3>2, <3>3
    <3> QED
      BY <1>3, <3>1, <3>4 DEF Covered, Unique
  <2> QED
    BY <1>7, <2>7, <2>8, <2>9 DEF IndexInv
<1> QED
  BY <1>8, <1>9

\* A statement that writes the rows back, with or without the index file.
LEMMA WriteStep ==
  ASSUME SType, GateHeld, Solo, NEW t \in Tasks, NEW name, NEW x, NEW S, Turn(t, name, x, S), kind' = kind,
         name \in {"tomb", "rewrite", "update", "untomb", "compact_commit"}, S \cap {"append", "sidecars"} = {},
         IndexInv, OffsetsPositive'
  PROVE  Checked' /\ (\A p : ~Pending(p)) /\ (\A p : ~Pending(p)')
<1>1. Here(kind, st[t]) = name /\ name \in Writing
  BY TurnFacts DEF Writing
<1>2. Checked'
  BY <1>1, CheckedStep DEF IndexInv
<1>3. \A p : ~Pending(p)
  BY <1>1, NotPending
<1>4. Here(kind', st'[t]) # "sidecars" /\ \A u \in Tasks : u # t => st'[u] = st[u]
  BY Moved
<1>5. \A u \in Tasks : u # t => Here(kind, st[u]) # "sidecars"
  BY <1>1, Sole
<1>6. \A p : ~Pending(p)'
  BY <1>4, <1>5 DEF Pending
<1> QED
  BY <1>2, <1>3, <1>6

LEMMA TombKeeps ==
  ASSUME SType, GateHeld, Solo, Fresh, IndexInv, NEW t \in Tasks, Tomb(t)
  PROVE  IndexInv'
<1>1. UNCHANGED <<kind, idx, stale>> /\ touched \subseteq touched'
  BY DEF Tomb
<1>2. OffsetsPositive'
  BY <1>1 DEF OffsetsPositive, IndexInv
<1>3. Checked' /\ (\A p : ~Pending(p)) /\ (\A p : ~Pending(p)')
  <2>1. Turn(t, "tomb", WithSids(t), {"unlock"}) /\ {"unlock"} \cap {"append", "sidecars"} = {}
    BY Turns
  <2> QED
    BY <1>1, <1>2, <2>1, WriteStep
<1>4. /\ DOMAIN rows' = DOMAIN rows
      /\ \A i \in DOMAIN rows : rows'[i].key = rows[i].key /\ (rows'[i].del <=> rows[i].del \/ rows[i].key = st[t].k)
  BY TombFacts
<1>5. Indexed'
  <2> SUFFICES ASSUME kind = "unique", idx # NoIndex, ~stale PROVE Indexed'
    BY <1>1 DEF Indexed
  <2>1. /\ \A e \in DOMAIN idx : idx[e].off \in DOMAIN rows /\ idx[e].h = Hash[rows[idx[e].off].key]
        /\ \A e, f \in DOMAIN idx : e < f => idx[e].off < idx[f].off
        /\ \A p \in DOMAIN rows : ~rows[p].del => \E e \in DOMAIN idx : idx[e].off = p
        /\ \A e \in DOMAIN idx : rows[idx[e].off].del =>
             \A p \in DOMAIN rows : ~rows[p].del => rows[p].key # rows[idx[e].off].key
    BY <1>3 DEF Indexed, IndexInv
  <2>2. \A e \in DOMAIN idx : rows'[idx[e].off].del =>
             \A p \in DOMAIN rows : ~rows'[p].del => rows'[p].key # rows'[idx[e].off].key
    BY <1>4, <2>1
  <2>3. \A e \in DOMAIN idx : idx[e].off \in DOMAIN rows' /\ idx[e].h = Hash[rows'[idx[e].off].key]
    BY <1>4, <2>1
  <2>4. \A p \in DOMAIN rows' : ~rows'[p].del => \E e \in DOMAIN idx : idx[e].off = p
    BY <1>4, <2>1
  <2> QED
    BY <1>1, <1>4, <2>1, <2>2, <2>3, <2>4 DEF Indexed
<1>6. Covered'
  <2> SUFFICES ASSUME kind = "unique", touched \cap {"rekey", "restore"} = {} PROVE Covered'
    BY <1>1 DEF Covered
  <2>1. Unique /\ (idx # NoIndex => \A p \in DOMAIN rows : ~rows[p].del => \E e \in DOMAIN idx : idx[e].h = Hash[rows[p].key])
    BY <1>3 DEF Covered, IndexInv
  <2>2. Unique'
    BY <1>4, <2>1 DEF Unique
  <2> QED
    BY <1>1, <1>4, <2>1, <2>2 DEF Covered
<1> QED
  BY <1>2, <1>3, <1>5, <1>6 DEF IndexInv

\* Rows taken at a set of positions share a key only where the file's did.
LEMMA UniquePicked ==
  ASSUME SType, Unique, NEW I \in SUBSET (DOMAIN rows), rows' = Picked(rows, I)
  PROVE  Unique'
<1> DEFINE f == Origin(I)
<1>1. rows \in Seq(Row)
  BY DEF SType
<1>2. /\ rows' \in Seq(Row)
      /\ \A a \in DOMAIN rows' : f[a] \in I /\ rows'[a] = rows[f[a]]
      /\ \A a, b \in DOMAIN rows' : a < b => f[a] < f[b]
  BY <1>1, PickedFacts
<1>3. \A i \in I : i \in Nat /\ i \in DOMAIN rows
  BY RowsTyped
<1> HIDE DEF f
<1>4. ASSUME NEW a \in DOMAIN rows', NEW b \in DOMAIN rows', a # b PROVE f[a] # f[b]
  <2>1. a \in Nat /\ b \in Nat /\ f[a] \in Nat /\ f[b] \in Nat
    BY <1>2, <1>3
  <2>2. a < b \/ b < a
    BY <1>4, <2>1
  <2>3. f[a] < f[b] \/ f[b] < f[a]
    BY <1>2, <2>2
  <2> QED
    BY <2>1, <2>3
<1> QED
  BY <1>2, <1>3, <1>4 DEF Unique

LEMMA RewriteKeeps ==
  ASSUME SType, GateHeld, Solo, Fresh, IndexInv, NEW t \in Tasks, Rewrite(t)
  PROVE  IndexInv'
<1>1. kind' = kind /\ idx' = NoIndex /\ touched \subseteq touched'
  BY DEF Rewrite
<1>2. OffsetsPositive' /\ Indexed'
  BY <1>1 DEF OffsetsPositive, Indexed
<1>3. Checked'
  <2>1. Turn(t, "rewrite", WithSids(t), {"unlock"}) /\ {"unlock"} \cap {"append", "sidecars"} = {}
    BY Turns
  <2> QED
    BY <1>1, <1>2, <2>1, WriteStep
<1> DEFINE I == {i \in DOMAIN rows : rows[i].key # st[t].k}
<1>4. rows' = Picked(rows, I) /\ I \in SUBSET (DOMAIN rows)
  BY RewriteFacts
<1> HIDE DEF I
<1>5. Unique => Unique'
  BY <1>4, UniquePicked
<1>6. Covered'
  BY <1>1, <1>5 DEF Covered, IndexInv
<1> QED
  BY <1>2, <1>3, <1>6 DEF IndexInv

LEMMA UpdateKeeps ==
  ASSUME SType, GateHeld, Solo, Fresh, IndexInv, NEW t \in Tasks, Update(t)
  PROVE  IndexInv'
<1>1. UNCHANGED <<kind, idx>> /\ touched' = touched \cup {st[t].op} /\ stale' = (stale \/ st[t].op = "rekey")
  BY DEF Update
<1>2. OffsetsPositive'
  BY <1>1 DEF OffsetsPositive, IndexInv
<1>3. Checked' /\ (\A p : ~Pending(p)) /\ (\A p : ~Pending(p)')
  <2>1. Turn(t, "update", Emptied(t), {"unlock"}) /\ {"unlock"} \cap {"append", "sidecars"} = {}
    BY Turns
  <2> QED
    BY <1>1, <1>2, <2>1, WriteStep
<1>4. CASE st[t].op = "rekey"
  <2>1. stale' /\ touched' \cap {"rekey", "restore"} # {}
    BY <1>1, <1>4
  <2> QED
    BY <1>2, <1>3, <2>1 DEF IndexInv, Indexed, Covered
<1>5. CASE st[t].op # "rekey"
  <2>1. /\ DOMAIN rows' = DOMAIN rows
        /\ \A i \in DOMAIN rows : rows'[i].key = rows[i].key /\ rows'[i].del = rows[i].del
    BY <1>5, UpdateFacts
  <2>2. stale' = stale
    BY <1>1, <1>5 DEF SType
  <2>3. Indexed'
    <3> SUFFICES ASSUME kind = "unique", idx # NoIndex, ~stale PROVE Indexed'
      BY <1>1, <2>2 DEF Indexed
    <3>1. /\ \A e \in DOMAIN idx : idx[e].off \in DOMAIN rows /\ idx[e].h = Hash[rows[idx[e].off].key]
          /\ \A e, f \in DOMAIN idx : e < f => idx[e].off < idx[f].off
          /\ \A p \in DOMAIN rows : ~rows[p].del => \E e \in DOMAIN idx : idx[e].off = p
          /\ \A e \in DOMAIN idx : rows[idx[e].off].del =>
               \A p \in DOMAIN rows : ~rows[p].del => rows[p].key # rows[idx[e].off].key
      BY <1>3 DEF Indexed, IndexInv
    <3>2. \A e \in DOMAIN idx : rows'[idx[e].off].del =>
               \A p \in DOMAIN rows : ~rows'[p].del => rows'[p].key # rows'[idx[e].off].key
      BY <2>1, <3>1
    <3>3. \A e \in DOMAIN idx : idx[e].off \in DOMAIN rows' /\ idx[e].h = Hash[rows'[idx[e].off].key]
      BY <2>1, <3>1
    <3>4. \A p \in DOMAIN rows' : ~rows'[p].del => \E e \in DOMAIN idx : idx[e].off = p
      BY <2>1, <3>1
    <3> QED
      BY <1>1, <2>1, <3>1, <3>2, <3>3, <3>4 DEF Indexed
  <2>4. Covered'
    <3> SUFFICES ASSUME kind = "unique", touched \cap {"rekey", "restore"} = {} PROVE Covered'
      BY <1>1 DEF Covered
    <3>1. Unique /\ (idx # NoIndex => \A p \in DOMAIN rows : ~rows[p].del => \E e \in DOMAIN idx : idx[e].h = Hash[rows[p].key])
      BY <1>3 DEF Covered, IndexInv
    <3>2. Unique'
      BY <2>1, <3>1 DEF Unique
    <3> QED
      BY <1>1, <2>1, <3>1, <3>2 DEF Covered
  <2> QED
    BY <1>2, <1>3, <2>3, <2>4 DEF IndexInv
<1> QED
  BY <1>4, <1>5

LEMMA UntombKeeps ==
  ASSUME SType, GateHeld, Solo, Fresh, IndexInv, NEW t \in Tasks, Untomb(t)
  PROVE  IndexInv'
<1>1. UNCHANGED <<kind, idx>> /\ touched' = touched \cup {"restore"} /\ stale' = TRUE
  BY DEF Untomb
<1>2. OffsetsPositive'
  BY <1>1 DEF OffsetsPositive, IndexInv
<1>3. Checked'
  <2>1. Turn(t, "untomb", Emptied(t), {"unlock"}) /\ {"unlock"} \cap {"append", "sidecars"} = {}
    BY Turns
  <2> QED
    BY <1>1, <1>2, <2>1, WriteStep
<1>4. touched' \cap {"rekey", "restore"} # {}
  BY <1>1
<1> QED
  BY <1>1, <1>2, <1>3, <1>4 DEF IndexInv, Indexed, Covered

LEMMA CommitKeeps ==
  ASSUME SType, GateHeld, Solo, Fresh, IndexInv, NEW t \in Tasks, CompactCommit(t)
  PROVE  IndexInv'
<1>1. UNCHANGED <<kind, idx>> /\ touched' = touched \cup {"compact"} /\ stale' = TRUE
  BY DEF CompactCommit
<1>2. OffsetsPositive'
  BY <1>1 DEF OffsetsPositive, IndexInv
<1>3. Checked' /\ \A p : ~Pending(p)
  <2>1. Turn(t, "compact_commit", Emptied(t), {"none"}) /\ {"none"} \cap {"append", "sidecars"} = {}
    BY Turns
  <2> QED
    BY <1>1, <1>2, <2>1, WriteStep
<1>4. Indexed'
  BY <1>1 DEF Indexed
<1>5. Covered'
  <2> DEFINE I == {i \in DOMAIN rows : ~rows[i].del}
  <2>1. (rows' = rows \/ rows' = Picked(rows, I)) /\ I \in SUBSET (DOMAIN rows)
    BY CommitFacts
  <2> HIDE DEF I
  <2> SUFFICES ASSUME kind = "unique", touched \cap {"rekey", "restore"} = {} PROVE Covered'
    BY <1>1 DEF Covered
  <2>2. Unique /\ (idx # NoIndex => \A p \in DOMAIN rows : ~rows[p].del => \E e \in DOMAIN idx : idx[e].h = Hash[rows[p].key])
    BY <1>3 DEF Covered, IndexInv
  <2>3. Unique'
    <3>1. rows' = rows => Unique'
      BY <2>2 DEF Unique
    <3> QED
      BY <2>1, <2>2, <3>1, UniquePicked
  <2>4. \A p \in DOMAIN rows' : \E q \in DOMAIN rows : rows'[p] = rows[q]
    <3>1. rows \in Seq(Row)
      BY DEF SType
    <3> QED
      BY <2>1, <3>1, PickedFacts
  <2>5. idx # NoIndex => \A p \in DOMAIN rows' : ~rows'[p].del => \E e \in DOMAIN idx : idx[e].h = Hash[rows'[p].key]
    BY <2>2, <2>4
  <2> QED
    BY <1>1, <2>3, <2>5 DEF Covered
<1> QED
  BY <1>2, <1>3, <1>4, <1>5 DEF IndexInv

LEMMA IndexKept ==
  ASSUME SType, GateHeld, Solo, Fresh, IndexInv, NEW t \in Tasks, Work(t)
  PROVE  IndexInv'
<1>1. CASE Quiet(t)
  BY <1>1, IndexQuiet
<1>2. CASE Lookup(t) \/ InsertCheck(t) \/ InsertAppend(t) \/ InsertSidecars(t)
  BY <1>2, LookupKeeps, CheckKeeps, AppendKeeps, SidecarsKeep
<1>3. CASE Tomb(t) \/ Rewrite(t) \/ Update(t) \/ Untomb(t) \/ CompactCommit(t)
  BY <1>3, TombKeeps, RewriteKeeps, UpdateKeeps, UntombKeeps, CommitKeeps
<1> QED
  BY <1>1, <1>2, <1>3 DEF Work, Quiet

-----------------------------------------------------------------------------
(* The version log *)

\* The steps that change neither the rows nor the log.
LEMMA VersionsQuiet ==
  ASSUME Versions, UNCHANGED <<kind, rows, vlog>>, touched \subseteq touched'
  PROVE  Versions'
BY DEF Versions

LEMMA VersionsAppend ==
  ASSUME SType, Fresh, Versions, NEW t \in Tasks, InsertAppend(t)
  PROVE  Versions'
<1> SUFFICES ASSUME (kind = "versioned" /\ touched \cap {"destroy", "compact"} = {}) PROVE Versions'
  BY DEF Versions, InsertAppend
<1>1. UNCHANGED <<kind, vlog>>
  BY DEF InsertAppend
<1> DEFINE n == Len(rows)
<1>2. /\ DOMAIN rows = 1..n /\ n \in Nat /\ DOMAIN rows' = 1..(n + 1) /\ \A i \in DOMAIN rows : rows'[i] = rows[i]
      /\ rows'[n + 1] = [sid |-> n + 1, key |-> st[t].k, val |-> st[t].v, del |-> FALSE, ver |-> 1]
  BY AppendFacts, RowsTyped
<1>3. rows'[n + 1].sid = n + 1 /\ rows'[n + 1].ver = 1
  BY <1>2
<1>4. \A i \in DOMAIN rows' : i = n + 1 \/ (i \in DOMAIN rows /\ rows'[i] = rows[i])
  BY <1>2
<1>5. /\ \A i \in DOMAIN rows : rows[i].sid = i /\ rows[i].ver > 0
      /\ \A j \in DOMAIN vlog : vlog[j].sid \in DOMAIN rows /\ vlog[j].ver \in 1..(rows[vlog[j].sid].ver - 1)
      /\ \A i \in DOMAIN rows : \A m \in 1..(rows[i].ver - 1) : \E j \in DOMAIN vlog : vlog[j].sid = i /\ vlog[j].ver = m
      /\ \A j, l \in DOMAIN vlog : j < l /\ vlog[j].sid = vlog[l].sid => vlog[j].ver < vlog[l].ver
  BY DEF Versions
<1> HIDE DEF n
<1>6. \A i \in DOMAIN rows' : rows'[i].sid = i /\ rows'[i].ver > 0
  BY <1>3, <1>4, <1>5
<1>7. \A j \in DOMAIN vlog : vlog[j].sid \in DOMAIN rows' /\ vlog[j].ver \in 1..(rows'[vlog[j].sid].ver - 1)
  BY <1>2, <1>5
<1>8. \A i \in DOMAIN rows' : \A m \in 1..(rows'[i].ver - 1) : \E j \in DOMAIN vlog : vlog[j].sid = i /\ vlog[j].ver = m
  BY <1>3, <1>4, <1>5
<1> QED
  BY <1>1, <1>5, <1>6, <1>7, <1>8 DEF Versions

LEMMA VersionsInPlace ==
  ASSUME Versions, UNCHANGED <<kind, vlog>>, touched \subseteq touched', DOMAIN rows' = DOMAIN rows,
         \A i \in DOMAIN rows : rows'[i].sid = rows[i].sid /\ rows'[i].ver = rows[i].ver
  PROVE  Versions'
BY DEF Versions

LEMMA VersionsUpdate ==
  ASSUME SType, Fresh, Versions, NEW t \in Tasks, Update(t)
  PROVE  Versions'
<1> SUFFICES ASSUME (kind = "versioned" /\ touched \cap {"destroy", "compact"} = {}) PROVE Versions'
  BY DEF Versions, Update
<1>1. kind' = kind
  BY DEF Update
<1> DEFINE I == {i \in DOMAIN rows : Updates(t, i)}
           new == Picked(rows, I)
           f == Origin(I)
           m == Len(vlog)
<1>2. vlog' = vlog \o new
  BY UpdateFacts
<1>3. /\ DOMAIN rows' = DOMAIN rows
      /\ \A i \in DOMAIN rows : rows'[i].sid = rows[i].sid /\ rows'[i].ver = IF i \in I THEN rows[i].ver + 1 ELSE rows[i].ver
  BY UpdateFacts
<1>4. rows \in Seq(Row) /\ vlog \in Seq(Row) /\ \A i \in DOMAIN rows : rows[i].ver \in Nat /\ i \in Nat
  BY RowsTyped DEF SType
<1>5. /\ new \in Seq(Row)
      /\ \A a \in DOMAIN new : f[a] \in I /\ new[a] = rows[f[a]]
      /\ \A a, b \in DOMAIN new : a < b => f[a] < f[b]
      /\ \A i \in I : \E a \in DOMAIN new : f[a] = i
  <2>1. I \in SUBSET (DOMAIN rows)
    OBVIOUS
  <2> HIDE DEF I
  <2> QED
    BY <1>4, <2>1, PickedFacts
<1>6. /\ m \in Nat /\ DOMAIN vlog = 1..m /\ Len(new) \in Nat /\ DOMAIN new = 1..Len(new)
      /\ DOMAIN vlog' = 1..(m + Len(new))
      /\ \A j \in 1..m : vlog'[j] = vlog[j]
      /\ \A a \in 1..Len(new) : vlog'[m + a] = new[a]
  <2> HIDE DEF new
  <2> QED
    BY <1>2, <1>4, <1>5
<1>7. /\ \A i \in DOMAIN rows : rows[i].sid = i /\ rows[i].ver > 0
      /\ \A j \in DOMAIN vlog : vlog[j].sid \in DOMAIN rows /\ vlog[j].ver \in 1..(rows[vlog[j].sid].ver - 1)
      /\ \A i \in DOMAIN rows : \A n \in 1..(rows[i].ver - 1) : \E j \in DOMAIN vlog : vlog[j].sid = i /\ vlog[j].ver = n
      /\ \A j, l \in DOMAIN vlog : j < l /\ vlog[j].sid = vlog[l].sid => vlog[j].ver < vlog[l].ver
  BY DEF Versions
<1>8. \A i \in I : i \in DOMAIN rows
  OBVIOUS
<1> HIDE DEF I, new, f, m
<1>9. ASSUME NEW j \in DOMAIN vlog'
      PROVE  \/ j \in DOMAIN vlog /\ vlog'[j] = vlog[j]
             \/ \E a \in DOMAIN new : /\ j = m + a /\ vlog'[j] = rows[f[a]] /\ f[a] \in I
                                      /\ vlog'[j].sid = f[a] /\ vlog'[j].ver = rows[f[a]].ver
  <2>1. CASE j \in 1..m
    BY <1>6, <2>1
  <2>2. CASE j \notin 1..m
    <3>1. j - m \in 1..Len(new) /\ j = m + (j - m)
      BY <1>6, <2>2
    <3>2. vlog'[j] = new[j - m] /\ new[j - m] = rows[f[j - m]] /\ f[j - m] \in I
      BY <1>5, <1>6, <3>1
    <3> QED
      BY <1>6, <1>7, <1>8, <3>1, <3>2
  <2> QED
    BY <2>1, <2>2
<1>10. \A i \in DOMAIN rows' : rows'[i].sid = i /\ rows'[i].ver > 0
  BY <1>3, <1>4, <1>7
<1>11. \A j \in DOMAIN vlog' : vlog'[j].sid \in DOMAIN rows' /\ vlog'[j].ver \in 1..(rows'[vlog'[j].sid].ver - 1)
  <2> SUFFICES ASSUME NEW j \in DOMAIN vlog' PROVE vlog'[j].sid \in DOMAIN rows' /\ vlog'[j].ver \in 1..(rows'[vlog'[j].sid].ver - 1)
    OBVIOUS
  <2>1. CASE j \in DOMAIN vlog /\ vlog'[j] = vlog[j]
    <3> DEFINE i == vlog[j].sid
    <3>1. i \in DOMAIN rows /\ vlog[j].ver \in 1..(rows[i].ver - 1) /\ rows[i].ver \in Nat
      BY <1>4, <1>7, <2>1
    <3>2. rows'[i].ver = rows[i].ver \/ rows'[i].ver = rows[i].ver + 1
      BY <1>3, <3>1
    <3> HIDE DEF i
    <3> QED
      BY <1>3, <2>1, <3>1, <3>2 DEF i
  <2>2. CASE ~(j \in DOMAIN vlog /\ vlog'[j] = vlog[j])
    <3>1. PICK a \in DOMAIN new : f[a] \in I /\ vlog'[j].sid = f[a] /\ vlog'[j].ver = rows[f[a]].ver
      BY <1>9, <2>2
    <3>2. f[a] \in DOMAIN rows /\ rows'[f[a]].ver = rows[f[a]].ver + 1 /\ rows[f[a]].ver > 0 /\ rows[f[a]].ver \in Nat
      BY <1>3, <1>4, <1>7, <1>8, <3>1
    <3> QED
      BY <1>3, <3>1, <3>2
  <2> QED
    BY <2>1, <2>2
<1>12. \A i \in DOMAIN rows' : \A n \in 1..(rows'[i].ver - 1) : \E j \in DOMAIN vlog' : vlog'[j].sid = i /\ vlog'[j].ver = n
  <2> SUFFICES ASSUME NEW i \in DOMAIN rows, NEW n \in 1..(rows'[i].ver - 1)
               PROVE  \E j \in DOMAIN vlog' : vlog'[j].sid = i /\ vlog'[j].ver = n
    BY <1>3
  <2>1. CASE n \in 1..(rows[i].ver - 1)
    <3>1. PICK j \in DOMAIN vlog : vlog[j].sid = i /\ vlog[j].ver = n
      BY <1>7, <2>1
    <3> QED
      BY <1>6, <3>1
  <2>2. CASE n \notin 1..(rows[i].ver - 1)
    <3>1. i \in I /\ n = rows[i].ver
      BY <1>3, <1>4, <1>7, <2>2
    <3>2. PICK a \in DOMAIN new : f[a] = i
      BY <1>5, <3>1
    <3>3. m + a \in DOMAIN vlog' /\ vlog'[m + a] = rows[i]
      BY <1>5, <1>6, <3>2
    <3> QED
      BY <1>7, <3>1, <3>3
  <2> QED
    BY <2>1, <2>2
<1>13. \A j, l \in DOMAIN vlog' : j < l /\ vlog'[j].sid = vlog'[l].sid => vlog'[j].ver < vlog'[l].ver
  <2> SUFFICES ASSUME NEW j \in DOMAIN vlog', NEW l \in DOMAIN vlog', j < l, vlog'[j].sid = vlog'[l].sid
               PROVE  vlog'[j].ver < vlog'[l].ver
    OBVIOUS
  <2>1. CASE l \in DOMAIN vlog
    <3>1. j \in DOMAIN vlog /\ vlog'[j] = vlog[j] /\ vlog'[l] = vlog[l]
      BY <1>6, <2>1
    <3> QED
      BY <1>7, <2>1, <3>1
  <2>2. CASE l \notin DOMAIN vlog
    <3>1. PICK b \in DOMAIN new : l = m + b /\ f[b] \in I /\ vlog'[l].sid = f[b] /\ vlog'[l].ver = rows[f[b]].ver
      BY <1>9, <2>2
    <3>2. CASE j \in DOMAIN vlog
      <4>1. vlog'[j] = vlog[j] /\ vlog[j].sid = f[b] /\ vlog[j].ver \in 1..(rows[f[b]].ver - 1)
        BY <1>6, <1>7, <3>1, <3>2
      <4> QED
        BY <1>4, <1>8, <3>1, <4>1
    <3>3. CASE j \notin DOMAIN vlog
      <4>1. PICK a \in DOMAIN new : j = m + a /\ vlog'[j].sid = f[a] /\ f[a] \in I
        BY <1>9, <3>3
      <4>2. a < b
        BY <1>6, <3>1, <4>1
      <4>3. f[a] < f[b] /\ f[a] \in Nat
        BY <1>4, <1>5, <1>8, <4>1, <4>2
      <4> QED
        BY <3>1, <4>1, <4>3
    <3> QED
      BY <3>2, <3>3
  <2> QED
    BY <2>1, <2>2
<1> QED
  BY <1>1, <1>10, <1>11, <1>12, <1>13 DEF Versions

LEMMA VersionsKept ==
  ASSUME SType, Fresh, Versions, NEW t \in Tasks, Work(t)
  PROVE  Versions'
<1>1. CASE Quiet(t)
  <2>1. UNCHANGED <<kind, rows, vlog, touched>>
    BY <1>1, QuietTurns
  <2> QED
    BY <2>1, VersionsQuiet
<1>2. CASE Lookup(t) \/ InsertCheck(t) \/ InsertSidecars(t)
  <2>1. UNCHANGED <<kind, rows, vlog, touched>>
    BY <1>2 DEF Lookup, InsertCheck, InsertSidecars
  <2> QED
    BY <2>1, VersionsQuiet
<1>3. CASE InsertAppend(t)
  BY <1>3, VersionsAppend
<1>4. CASE Tomb(t)
  <2>1. UNCHANGED <<kind, vlog>> /\ touched \subseteq touched'
    BY <1>4 DEF Tomb
  <2> QED
    BY <1>4, <2>1, TombFacts, VersionsInPlace
<1>5. CASE Untomb(t)
  <2>1. UNCHANGED <<kind, vlog>> /\ touched \subseteq touched'
    BY <1>5 DEF Untomb
  <2> QED
    BY <1>5, <2>1, UntombFacts, VersionsInPlace
<1>6. CASE Update(t)
  BY <1>6, VersionsUpdate
<1>7. CASE Rewrite(t) \/ CompactCommit(t)
  <2>1. touched' \cap {"destroy", "compact"} # {}
    BY <1>7 DEF Rewrite, CompactCommit
  <2> QED
    BY <2>1 DEF Versions
<1> QED
  BY <1>1, <1>2, <1>3, <1>4, <1>5, <1>6, <1>7 DEF Work, Quiet

-----------------------------------------------------------------------------
(* The children of deleted rows *)

Owed(t) == \A i \in DOMAIN kids : kids[i].owner \in st[t].sids => kids[i].del

\* The steps that leave the child store and the sids of the task alone.
Apart(t) ==
  \/ Ensure(t) \/ Recover(t) \/ store_lock(t) \/ store_load_records(t) \/ Lookup(t)
  \/ InsertCheck(t) \/ InsertAppend(t) \/ InsertSidecars(t) \/ Update(t) \/ Untomb(t)
  \/ CompactRead(t) \/ CompactCommit(t) \/ Compute(t)

LEMMA ApartTurns ==
  ASSUME SType, NEW t \in Tasks, Apart(t)
  PROVE  /\ kind' = kind /\ kids' = kids /\ gone' \subseteq gone
         /\ \E name, x, S : Turn(t, name, x, S) /\ name # "cascade" /\ x.sids = st[t].sids
<1>1. kind' = kind /\ kids' = kids /\ gone' \subseteq gone
  BY DEF Apart, Ensure, Recover, store_lock, store_load_records, Lookup, InsertCheck, InsertAppend,
         InsertSidecars, Update, Untomb, CompactRead, CompactCommit, Compute
<1> DEFINE E == \E name, x, S : Turn(t, name, x, S) /\ name # "cascade" /\ x.sids = st[t].sids
<1>2. \A name, x, S : Turn(t, name, x, S) /\ name # "cascade" /\ x.sids = st[t].sids => E
  OBVIOUS
<1> HIDE DEF E
<1>3. WithRows(t).sids = st[t].sids /\ Emptied(t).sids = st[t].sids
  BY Places
<1>4. Ensure(t) \/ Recover(t) \/ store_lock(t) \/ store_load_records(t) \/ Lookup(t) => E
  BY <1>2, <1>3, Turns
<1>5. InsertCheck(t) \/ InsertAppend(t) \/ InsertSidecars(t) \/ Update(t) \/ Untomb(t) => E
  BY <1>2, <1>3, Turns
<1>6. CompactRead(t) \/ CompactCommit(t) \/ Compute(t) => E
  BY <1>2, <1>3, Turns
<1> QED
  BY <1>1, <1>4, <1>5, <1>6 DEF Apart, E

\* The sids of the tasks after a turn of t that leaves the children alone.
LEMMA SidsStep ==
  ASSUME SType, kind = "cascade", Reached, NEW t \in Tasks, NEW name, NEW x, NEW S, Turn(t, name, x, S), kind' = kind,
         x.sids = st[t].sids \/ st[t].op \in {"delete", "destroy"}
  PROVE  /\ \A u \in Tasks : st'[u].sids # {} => st'[u].op \in {"delete", "destroy"}
         /\ \A u \in Tasks : st'[u].op \in {"delete", "destroy"} /\ st'[u].at = Len(Program(kind', st'[u].op)) =>
              (u # t /\ st'[u] = st[u] /\ st[u].op \in {"delete", "destroy"} /\ Here(kind, st[u]) = "unlock" /\ Owed(u))
              \/ (u = t /\ name = "cascade" /\ st'[t].sids = x.sids)
<1>1. /\ \A u \in Tasks : st[u].sids # {} => st[u].op \in {"delete", "destroy"}
      /\ \A u \in Tasks : st[u].op \in {"delete", "destroy"} /\ st[u].at = Len(Program(kind, st[u].op)) => Owed(u)
  BY DEF Reached, Owed
<1>2. Idle.sids = {} /\ Idle.op = "none"
  BY DEF Idle
<1>3. ASSUME NEW u \in Tasks, st'[u].sids # {} PROVE st'[u].op \in {"delete", "destroy"}
  <2>1. CASE u # t
    BY <1>1, <1>3, <2>1, Moved
  <2>2. CASE u = t
    BY <1>1, <1>2, <1>3, <2>2, Moved
  <2> QED
    BY <2>1, <2>2
<1>4. ASSUME NEW u \in Tasks, st'[u].op \in {"delete", "destroy"}, st'[u].at = Len(Program(kind', st'[u].op))
      PROVE  \/ u # t /\ st'[u] = st[u] /\ st[u].op \in {"delete", "destroy"} /\ Here(kind, st[u]) = "unlock" /\ Owed(u)
             \/ u = t /\ name = "cascade" /\ st'[t].sids = x.sids
  <2>1. st'[u].at = 9
    BY <1>4, CascadeAtEnd
  <2>2. CASE u # t
    <3>1. st'[u] = st[u]
      BY <2>2, Moved
    <3>2. Program(kind, st[u].op)[9] = "unlock"
      BY <1>4, <3>1, CascadeAtEnd
    <3> QED
      BY <1>1, <1>4, <2>1, <2>2, <3>1, <3>2 DEF Here
  <2>3. CASE u = t
    BY <1>2, <1>4, <2>1, <2>3, Moved
  <2> QED
    BY <2>2, <2>3
<1> QED
  BY <1>3, <1>4

LEMMA ReachedKept ==
  ASSUME SType, GateHeld, Reached, NEW t \in Tasks, Work(t)
  PROVE  Reached'
<1>0. kind' = kind
  BY WorkTurns
<1> SUFFICES ASSUME kind = "cascade" PROVE Reached'
  BY <1>0 DEF Reached
<1>1. CascadeReaches
  BY DEF Reached
<1>2. CASE Apart(t)
  <2>1. kids' = kids /\ gone' \subseteq gone
    BY <1>2, ApartTurns
  <2>2. PICK name, x, S : Turn(t, name, x, S) /\ name # "cascade" /\ x.sids = st[t].sids
    BY <1>2, ApartTurns
  <2>3. /\ \A u \in Tasks : st'[u].sids # {} => st'[u].op \in {"delete", "destroy"}
        /\ \A u \in Tasks : st'[u].op \in {"delete", "destroy"} /\ st'[u].at = Len(Program(kind', st'[u].op)) =>
             st'[u] = st[u] /\ Owed(u)
    BY <1>0, <2>2, SidsStep
  <2>4. CascadeReaches'
    BY <1>0, <1>1, <2>1 DEF CascadeReaches
  <2> QED
    BY <2>1, <2>3, <2>4 DEF Reached, Owed
<1>3. CASE Tomb(t) \/ Rewrite(t)
  <2>1. kids' = kids /\ gone' = gone
    BY <1>3 DEF Tomb, Rewrite
  <2>2. PICK name : Turn(t, name, WithSids(t), {"unlock"}) /\ name \in {"tomb", "rewrite"}
    BY <1>3, Turns
  <2>3. st[t].op \in {"delete", "destroy"}
    BY <2>2, TurnFacts DEF StatementsWith
  <2>4. /\ \A u \in Tasks : st'[u].sids # {} => st'[u].op \in {"delete", "destroy"}
        /\ \A u \in Tasks : st'[u].op \in {"delete", "destroy"} /\ st'[u].at = Len(Program(kind', st'[u].op)) =>
             st'[u] = st[u] /\ Owed(u)
    BY <1>0, <2>2, <2>3, SidsStep
  <2>5. CascadeReaches'
    BY <1>0, <1>1, <2>1 DEF CascadeReaches
  <2> QED
    BY <2>1, <2>4, <2>5 DEF Reached, Owed
<1>4. CASE store_unlock(t)
  <2>1. kids' = kids /\ gone' = gone \cup Finished(t) /\ Turn(t, "unlock", st[t], Successors("unlock"))
    BY <1>4, Turns DEF store_unlock
  <2>2. /\ \A u \in Tasks : st'[u].sids # {} => st'[u].op \in {"delete", "destroy"}
        /\ \A u \in Tasks : st'[u].op \in {"delete", "destroy"} /\ st'[u].at = Len(Program(kind', st'[u].op)) =>
             st'[u] = st[u] /\ Owed(u)
    BY <1>0, <2>1, SidsStep
  <2>3. \A i \in DOMAIN kids : kids[i].owner \in Finished(t) => kids[i].del
    <3> SUFFICES ASSUME NEW i \in DOMAIN kids, kids[i].owner \in Finished(t) PROVE kids[i].del
      OBVIOUS
    <3>1. st[t].at = Len(Prog(st[t].op)) /\ kids[i].owner \in st[t].sids
      BY DEF Finished
    <3>2. st[t].op \in {"delete", "destroy"}
      BY <3>1 DEF Reached
    <3>3. Prog(st[t].op) = Program(kind, st[t].op)
      BY <2>1, TurnFacts, Programs
    <3> QED
      BY <3>1, <3>2, <3>3 DEF Reached
  <2>4. CascadeReaches'
    BY <1>0, <1>1, <2>1, <2>3 DEF CascadeReaches
  <2> QED
    BY <2>1, <2>2, <2>4 DEF Reached, Owed
<1>5. CASE Cascade(t)
  <2>1. Turn(t, "cascade", st[t], {"unlock"}) /\ gone' = gone
    BY <1>5, Turns DEF Cascade
  <2>2. kids \in Seq(Kid)
    BY DEF SType
  <2> DEFINE I == {i \in DOMAIN kids : kids[i].owner \notin st[t].sids}
             f == [i \in DOMAIN kids |-> IF kids[i].owner \in st[t].sids THEN [kids[i] EXCEPT !.del = TRUE] ELSE kids[i]]
  <2>3. kids' = Picked(kids, I) \/ kids' = f
    BY <1>5 DEF Cascade
  <2>4. ASSUME NEW i \in DOMAIN kids'
        PROVE  \E j \in DOMAIN kids : /\ kids'[i].owner = kids[j].owner /\ kids'[i].late = kids[j].late
                                      /\ kids[j].del => kids'[i].del
                                      /\ kids'[i].owner \in st[t].sids => kids'[i].del
    <3>1. CASE kids' = Picked(kids, I)
      <4>1. I \in SUBSET (DOMAIN kids) /\ \A j \in I : kids[j].owner \notin st[t].sids
        OBVIOUS
      <4> HIDE DEF I
      <4>2. Origin(I)[i] \in I /\ kids'[i] = kids[Origin(I)[i]]
        BY <2>2, <2>4, <3>1, <4>1, PickedFacts
      <4> QED
        BY <4>1, <4>2
    <3>2. CASE kids' = f
      <4>1. i \in DOMAIN kids /\ kids[i] \in Kid
        BY <2>2, <2>4, <3>2
      <4>2. kids'[i] = IF kids[i].owner \in st[t].sids THEN [kids[i] EXCEPT !.del = TRUE] ELSE kids[i]
        BY <3>2, <4>1
      <4>3. kids'[i].owner = kids[i].owner /\ kids'[i].late = kids[i].late /\ (kids[i].owner \in st[t].sids \/ kids[i].del => kids'[i].del)
        BY <4>1, <4>2 DEF Kid
      <4> QED
        BY <4>1, <4>3
    <3> QED
      BY <2>3, <3>1, <3>2
  <2>5. Here(kind, st[t]) = "cascade"
    BY <2>1, TurnFacts
  <2>6. \A u \in Tasks : Here(kind, st[u]) = "unlock" => u = t
    BY <2>5 DEF GateHeld, Critical
  <2>7. /\ \A u \in Tasks : st'[u].sids # {} => st'[u].op \in {"delete", "destroy"}
        /\ \A u \in Tasks : st'[u].op \in {"delete", "destroy"} /\ st'[u].at = Len(Program(kind', st'[u].op)) =>
             u = t /\ st'[u].sids = st[t].sids
    BY <1>0, <2>1, <2>6, SidsStep
  <2>8. CascadeReaches'
    BY <1>0, <1>1, <2>1, <2>4 DEF CascadeReaches
  <2> QED
    BY <2>4, <2>7, <2>8 DEF Reached
<1>6. CASE ChildAppend(t)
  <2>1. Turn(t, "child", st[t], {"unlock"}) /\ gone' = gone
    BY <1>6, Turns DEF ChildAppend
  <2> DEFINE new == [owner |-> st[t].k, del |-> FALSE, late |-> st[t].k \in gone]
  <2>2. kids' = Append(kids, new) /\ kids \in Seq(Kid)
    BY <1>6 DEF ChildAppend, SType
  <2>3. new.owner = st[t].k /\ new.late = (st[t].k \in gone)
    OBVIOUS
  <2>4. \A i \in DOMAIN kids' : kids'[i] = new \/ (i \in DOMAIN kids /\ kids'[i] = kids[i])
    <3> HIDE DEF new
    <3> QED
      BY <2>2
  <2>5. Here(kind, st[t]) = "child"
    BY <2>1, TurnFacts
  <2>6. \A u \in Tasks : Here(kind, st[u]) = "unlock" => u = t
    BY <2>5 DEF GateHeld, Critical
  <2>7. /\ \A u \in Tasks : st'[u].sids # {} => st'[u].op \in {"delete", "destroy"}
        /\ \A u \in Tasks : ~(st'[u].op \in {"delete", "destroy"} /\ st'[u].at = Len(Program(kind', st'[u].op)))
    BY <1>0, <2>1, <2>5, <2>6, SidsStep
  <2>8. CascadeReaches'
    <3> HIDE DEF new
    <3> QED
      BY <1>0, <1>1, <2>1, <2>3, <2>4 DEF CascadeReaches
  <2> QED
    BY <2>7, <2>8 DEF Reached
<1> QED
  BY <1>2, <1>3, <1>4, <1>5, <1>6 DEF Work, Apart

-----------------------------------------------------------------------------
(* The invariant is inductive *)

LEMMA InitHolds == Init => SInv
<1> SUFFICES ASSUME Init PROVE SInv
  OBVIOUS
<1>1. /\ kind \in Kinds /\ gate = NoTask /\ idx = NoIndex /\ vlog = <<>> /\ gone = {} /\ touched = {} /\ stale = FALSE
      /\ st = [t \in Tasks |-> Idle]
      /\ rows = [i \in 1..2 |-> [sid |-> i, key |-> i, val |-> 0, del |-> FALSE, ver |-> 1]]
      /\ kids = <<[owner |-> 1, del |-> FALSE, late |-> FALSE]>>
  BY DEF Init
<1>2. Idle \in Local /\ Idle.op = "none" /\ Idle.sids = {} /\ Here(kind, Idle) = "none"
  BY DEF Idle, Local, Here
<1>3. \A t \in Tasks : st[t] = Idle
  BY <1>1
<1>4. /\ DOMAIN rows = 1..2
      /\ \A i \in 1..2 : rows[i] \in Row /\ rows[i].sid = i /\ rows[i].key = i /\ ~rows[i].del /\ rows[i].ver = 1
  <2>1. \A i \in 1..2 : rows[i] = [sid |-> i, key |-> i, val |-> 0, del |-> FALSE, ver |-> 1]
    BY <1>1
  <2>2. DOMAIN rows = 1..2
    BY <1>1
  <2>3. \A i \in 1..2 : i \in Keys /\ i \in Nat
    <3>1. \A i \in 1..2 : i \in {1, 2}
      OBVIOUS
    <3> QED
      BY <3>1, StatementsAssumption
  <2>4. ASSUME NEW i \in 1..2
        PROVE  rows[i] \in Row /\ rows[i].sid = i /\ rows[i].key = i /\ ~rows[i].del /\ rows[i].ver = 1
    <3>1. [sid |-> i, key |-> i, val |-> 0, del |-> FALSE, ver |-> 1] \in Row
      BY <2>3 DEF Row
    <3> DEFINE r == [sid |-> i, key |-> i, val |-> 0, del |-> FALSE, ver |-> 1]
    <3>2. rows[i] = r
      BY <2>1
    <3>3. r.sid = i /\ r.key = i /\ ~r.del /\ r.ver = 1
      OBVIOUS
    <3>4. r \in Row
      BY <3>1
    <3> HIDE DEF r
    <3> QED
      BY <3>2, <3>3, <3>4
  <2> QED
    BY <2>2, <2>4
<1>5. rows \in Seq(Row) /\ Len(rows) = 2
  <2>1. rows = [i \in 1..2 |-> rows[i]]
    BY <1>1
  <2> QED
    BY <1>4, <2>1
<1>6. SType
  <2>1. kids \in Seq(Kid) /\ NoIndex \in Seq(Entry) /\ <<>> \in Seq(Row)
    BY <1>1 DEF Kid, NoIndex, Entry
  <2> QED
    BY <1>1, <1>2, <1>3, <1>5, <2>1 DEF SType, Entry
<1>7. GateHeld
  <2>1. \A t \in Tasks : t # NoTask
    BY StatementsAssumption DEF NoTask
  <2> QED
    BY <1>1, <1>2, <1>3, <2>1 DEF GateHeld, Critical
<1>8. Solo /\ Fresh /\ Checked
  BY <1>2, <1>3 DEF Solo, Compacts, Fresh, Checked, Writing
<1>9. Unique
  BY <1>4 DEF Unique
<1>10. Indexed /\ Covered /\ OffsetsPositive
  BY <1>1, <1>9 DEF Indexed, Covered, OffsetsPositive
<1>11. Versions
  BY <1>1, <1>4 DEF Versions
<1>12. Reached
  BY <1>1, <1>2, <1>3 DEF Reached, CascadeReaches
<1> QED
  BY <1>6, <1>7, <1>8, <1>10, <1>11, <1>12 DEF SInv

LEMMA StartKeeps ==
  ASSUME CompactsUndisturbed, SInv, NEW t \in Tasks, Start(t)
  PROVE  SInv'
<1>1. SType /\ GateHeld /\ Solo /\ Fresh /\ Indexed /\ Covered /\ Checked /\ OffsetsPositive /\ Versions /\ Reached
  BY DEF SInv
<1>2. PICK o \in Ops[kind], k \in Keys, v \in Vals :
        /\ st[t] = Idle /\ (CompactAlone => Alone(t, o))
        /\ st' = [st EXCEPT ![t] = [Idle EXCEPT !.op = o, !.k = k, !.v = v]]
        /\ UNCHANGED <<kind, fp, gate, rows, idx, vlog, kids, gone, touched, stale>>
  BY DEF Start
<1> DEFINE y == [Idle EXCEPT !.op = o, !.k = k, !.v = v]
<1>3. o \in Statement /\ o # "none" /\ k \in Nat /\ v \in Nat
  <2>1. o \in Statement /\ k \in Nat /\ v \in Nat
    BY <1>1, StatementsAssumption DEF SType, Statement
  <2> QED
    BY <2>1 DEF Statement
<1>4. y \in Local /\ y.op = o /\ y.k = k /\ y.v = v /\ y.at = 1 /\ y.sids = {}
  <2>1. Idle \in Local /\ Idle = [op |-> Idle.op, k |-> Idle.k, v |-> Idle.v, at |-> Idle.at, buf |-> Idle.buf, sids |-> Idle.sids]
        /\ Idle.at = 1 /\ Idle.sids = {}
    BY DEF Idle, Local
  <2>2. o \in Statement \cup {"none"}
    BY <1>3
  <2>3. y \in Local
    BY <1>3, <2>1, <2>2 DEF Local
  <2>4. y.op = o /\ y.k = k /\ y.v = v /\ y.at = Idle.at /\ y.sids = Idle.sids
    BY <2>1 DEF Local
  <2> QED
    BY <2>1, <2>3, <2>4
<1>5. Follows(Program(kind, o))
  BY <1>3, ProgramFollows
<1>6. Here(kind, y) = "ensure" /\ 1 \in DOMAIN Program(kind, o)
  BY <1>3, <1>4, <1>5 DEF Here, Follows
<1> HIDE DEF y
<1>7. st' = [st EXCEPT ![t] = y]
  BY <1>2 DEF y
<1>8. st' \in [Tasks -> Local] /\ st'[t] = y /\ \A u \in Tasks : u # t => st'[u] = st[u]
  BY <1>1, <1>4, <1>7 DEF SType
<1>9. Here(kind, st[t]) = "none" /\ st[t].op = "none"
  BY <1>2 DEF Here, Idle
<1>10. ASSUME NEW u \in Tasks
       PROVE  st'[u] = st[u] \/ (u = t /\ st'[u] = y /\ Here(kind', st'[u]) = "ensure" /\ Here(kind, st[u]) = "none")
  BY <1>2, <1>6, <1>8, <1>9
<1>11. SType'
  <2>1. \A u \in Tasks : st'[u].op # "none" =>
          st'[u].k \in Keys /\ st'[u].v \in Vals /\ st'[u].at \in DOMAIN Program(kind', st'[u].op)
    BY <1>1, <1>2, <1>4, <1>6, <1>8 DEF SType
  <2> QED
    BY <1>1, <1>2, <1>8, <2>1 DEF SType
<1>12. GateHeld'
  <2>1. "ensure" \notin Critical /\ "none" \notin Critical
    BY DEF Critical
  <2> QED
    BY <1>1, <1>2, <1>10, <2>1 DEF GateHeld
<1>13. Solo'
  <2>1. (CompactAlone /\ \A u \in Tasks : u # t /\ st[u].op # "none" => ~Compacts(o) /\ ~Compacts(st[u].op))
        \/ (~CompactAlone /\ ~Compacts(o) /\ \A u \in Tasks : ~Compacts(st[u].op))
    <3>1. CASE CompactAlone
      BY <1>2, <3>1 DEF Alone
    <3>2. CASE ~CompactAlone
      BY <1>1, <1>3, <3>2 DEF Solo, SType, CompactsUndisturbed, Compacts
    <3> QED
      BY <3>1, <3>2
  <2>2. \A a : Compacts(a)' <=> Compacts(a)
    BY <1>2 DEF Compacts
  <2> QED
    BY <1>1, <1>4, <1>8, <2>1, <2>2 DEF Solo
<1>14. Fresh'
  BY <1>1, <1>2, <1>10 DEF Fresh, Writing
<1>15. \A p : Pending(p)' <=> Pending(p)
  BY <1>2, <1>10 DEF Pending
<1>16. Indexed' /\ Covered' /\ OffsetsPositive'
  BY <1>1, <1>2, <1>15 DEF Indexed, Covered, OffsetsPositive, Unique
<1>17. Checked'
  BY <1>1, <1>2, <1>10 DEF Checked
<1>18. Versions'
  BY <1>1, <1>2 DEF Versions
<1>19. Reached'
  <2> SUFFICES ASSUME kind = "cascade" PROVE Reached'
    BY <1>2 DEF Reached
  <2>1. CascadeReaches'
    BY <1>1, <1>2 DEF Reached, CascadeReaches
  <2>2. \A u \in Tasks : st'[u].sids # {} => st'[u].op \in {"delete", "destroy"}
    BY <1>1, <1>4, <1>8 DEF Reached
  <2>3. ASSUME NEW u \in Tasks, st'[u].op \in {"delete", "destroy"}, st'[u].at = Len(Program(kind', st'[u].op))
        PROVE  \A i \in DOMAIN kids' : kids'[i].owner \in st'[u].sids => kids'[i].del
    <3>1. CASE u = t
      BY <1>4, <1>8, <3>1
    <3>2. CASE u # t
      BY <1>1, <1>2, <1>8, <2>3, <3>2 DEF Reached
    <3> QED
      BY <3>1, <3>2
  <2> QED
    BY <2>1, <2>2, <2>3 DEF Reached
<1> QED
  BY <1>11, <1>12, <1>13, <1>14, <1>16, <1>17, <1>18, <1>19 DEF SInv

LEMMA WorkKeeps ==
  ASSUME SInv, NEW t \in Tasks, Work(t)
  PROVE  SInv'
<1>1. SType /\ GateHeld /\ Solo /\ Fresh /\ IndexInv /\ OffsetsPositive /\ Versions /\ Reached
  BY DEF SInv, IndexInv
<1>2. SType' /\ GateHeld' /\ Solo' /\ Fresh'
  BY <1>1, STypeKept, GateKept, SoloKept, FreshKept
<1>3. IndexInv' /\ Versions' /\ Reached'
  BY <1>1, IndexKept, VersionsKept, ReachedKept
<1> QED
  BY <1>2, <1>3 DEF SInv, IndexInv

LEMMA StutterKeeps ==
  ASSUME SInv, UNCHANGED vars
  PROVE  SInv'
<1>1. UNCHANGED <<kind, gate, rows, idx, vlog, kids, gone, touched, stale, st>>
  BY DEF vars
<1>2. SType' /\ GateHeld' /\ Solo' /\ Fresh'
  BY <1>1 DEF SInv, SType, GateHeld, Solo, Compacts, Fresh
<1>3. Indexed' /\ Covered' /\ Checked' /\ OffsetsPositive'
  BY <1>1 DEF SInv, Indexed, Covered, Checked, OffsetsPositive, Pending, Unique
<1>4. Versions' /\ Reached'
  BY <1>1 DEF SInv, Versions, Reached, CascadeReaches
<1> QED
  BY <1>2, <1>3, <1>4 DEF SInv

\* The gate has one owner whose statement alone writes, and writes back what the
\* file holds, in every state of any tasks and any statements: store_lock and
\* store_unlock as the emit_store_* functions place them.
THEOREM StatementsInvariant == ASSUME CompactsUndisturbed PROVE Spec => []SInv
<1>1. Init => SInv
  BY InitHolds
<1>2. SInv /\ [Next]_vars => SInv'
  BY StartKeeps, WorkKeeps, StutterKeeps DEF Next
<1> QED
  BY <1>1, <1>2, PTL DEF Spec

-----------------------------------------------------------------------------
(* The index and the version log agree with the file *)

\* No two keys of the store have the same hash.
HashesApart == \A k, l \in Keys : Hash[k] = Hash[l] => k = l

LEMMA EqFilter ==
  ASSUME NEW r, NEW k
  PROVE  eval_store_filter_pred(r, Eq("key", k)) <=> r.key = k
<1>1. DOMAIN <<>> = {}
  OBVIOUS
<1>2. CompareCond(r, [field |-> "key", op |-> "eq", value |-> k]) <=> r.key = k
  BY DEF CompareCond, IntCompare
<1>3. eval_store_filter_pred(r, Eq("key", k)) = CompareCond(r, [field |-> "key", op |-> "eq", value |-> k])
  BY <1>1 DEF eval_store_filter_pred, FoldLeft, MapThenFoldSet, Eq
<1> QED
  BY <1>2, <1>3

\* An index that agrees with the file: it has every live row, in file order,
\* and none of its entries hides a live row behind a tombstone.
Faithful(ix) ==
  /\ \A e \in DOMAIN ix : ix[e].off \in DOMAIN rows /\ ix[e].h = Hash[rows[ix[e].off].key]
  /\ \A e, f \in DOMAIN ix : e < f => ix[e].off < ix[f].off
  /\ \A p \in DOMAIN rows : ~rows[p].del => \E e \in DOMAIN ix : ix[e].off = p
  /\ \A e \in DOMAIN ix : rows[ix[e].off].del =>
       \A p \in DOMAIN rows : ~rows[p].del => rows[p].key # rows[ix[e].off].key

LEMMA OpenedFaithful ==
  ASSUME SType, GateHeld, IndexInv, kind = "unique", gate = NoTask, ~stale
  PROVE  Faithful(load_store_idx)
<1>1. \A p : ~Pending(p)
  <2>1. \A t \in Tasks : t # NoTask
    BY StatementsAssumption DEF NoTask
  <2> QED
    BY <2>1 DEF GateHeld, Pending, Critical
<1>2. CASE idx = NoIndex
  <2>1. Exact(load_store_idx)
    BY <1>2, LoadFacts DEF IndexInv
  <2> QED
    BY <2>1 DEF Exact, Faithful
<1>3. CASE idx # NoIndex
  <2>1. load_store_idx = idx
    BY <1>3, LoadFacts DEF IndexInv
  <2> QED
    BY <1>1, <1>3, <2>1 DEF IndexInv, Indexed, Faithful
<1> QED
  BY <1>2, <1>3

LEMMA LookupAgrees ==
  ASSUME SType, HashesApart, NEW ix \in Seq(Entry), \A e \in DOMAIN ix : ix[e].off > 0, Faithful(ix), NEW k \in Keys
  PROVE  LookupRow(ix, k) = emit_store_query(rows, Eq("key", k))
<1> DEFINE H == {i \in DOMAIN rows : ~rows[i].del /\ rows[i].key = k}
           p == jinn_idx_lookup(ix, k)
<1>1. DOMAIN rows = 1..Len(rows) /\ Len(rows) \in Nat /\ \A i \in DOMAIN rows : rows[i].key \in Keys
  BY RowsTyped
<1>2. emit_store_query(rows, Eq("key", k)) = IF H = {} THEN NoRow ELSE rows[Min(H)]
  <2>1. Positions(rows, LAMBDA r : eval_store_filter_pred(r, Eq("key", k))) = H
    BY EqFilter DEF Positions
  <2> QED
    BY <2>1 DEF emit_store_query, FirstRow
<1>3. H \subseteq Nat /\ (H # {} => Min(H) \in H /\ \A y \in H : Min(H) <= y)
  <2>1. H \subseteq Nat
    BY <1>1
  <2> HIDE DEF H
  <2> QED
    BY <2>1, Least
<1>4. LookupRow(ix, k) = IF p = 0 \/ p > Len(rows) THEN NoRow ELSE IF rows[p].del THEN NoRow ELSE rows[p]
  BY DEF LookupRow
<1>5. \A q \in H : \E e \in DOMAIN ix : ix[e].off = q /\ ix[e].h = Hash[k]
  BY DEF Faithful
<1>6. CASE p = 0 /\ \A e \in DOMAIN ix : ix[e].h # Hash[k]
  <2>1. H = {}
    BY <1>5, <1>6
  <2> QED
    BY <1>2, <1>4, <1>6, <2>1
<1>7. CASE \E m \in DOMAIN ix : /\ p = ix[m].off /\ ix[m].h = Hash[k] /\ ix[m].off > 0
                                /\ \A e \in DOMAIN ix : ix[e].h = Hash[k] => m <= e
  <2>1. PICK m \in DOMAIN ix : /\ p = ix[m].off /\ ix[m].h = Hash[k] /\ ix[m].off > 0
                               /\ \A e \in DOMAIN ix : ix[e].h = Hash[k] => m <= e
    BY <1>7
  <2>2. p \in DOMAIN rows /\ Hash[rows[p].key] = Hash[k]
    BY <2>1 DEF Faithful
  <2>3. rows[p].key = k /\ p # 0 /\ ~(p > Len(rows))
    BY <1>1, <2>2 DEF HashesApart
  <2>4. CASE rows[p].del
    <3>1. H = {}
      BY <2>1, <2>3, <2>4 DEF Faithful
    <3> HIDE DEF H, p
    <3> QED
      BY <1>2, <1>4, <2>3, <2>4, <3>1
  <2>5. CASE ~rows[p].del
    <3>1. p \in H /\ Min(H) \in H /\ Min(H) <= p
      BY <1>3, <2>2, <2>3, <2>5
    <3>2. PICK e \in DOMAIN ix : ix[e].off = Min(H) /\ ix[e].h = Hash[k]
      BY <1>5, <3>1
    <3>3. m <= e /\ m \in Nat /\ e \in Nat
      <4>1. DOMAIN ix \subseteq Nat
        OBVIOUS
      <4> QED
        BY <2>1, <3>2, <4>1
    <3>4. m = e \/ ix[m].off < ix[e].off
      BY <3>3 DEF Faithful
    <3>5. p <= Min(H)
      <4>1. p \in Nat /\ Min(H) \in Nat
        BY <1>3, <3>1
      <4> HIDE DEF H, p
      <4> QED
        BY <2>1, <3>2, <3>4, <4>1
    <3>6. p = Min(H) /\ H # {}
      <4>1. p \in Nat /\ Min(H) \in Nat
        BY <1>3, <3>1
      <4> HIDE DEF H, p
      <4> QED
        BY <3>1, <3>5, <4>1
    <3> HIDE DEF H, p
    <3> QED
      BY <1>2, <1>4, <2>3, <2>5, <3>6
  <2> QED
    BY <2>4, <2>5
<1> QED
  BY <1>6, <1>7, LookupFacts

LEMMA SInvIndexAgrees ==
  ASSUME SInv, HashesApart PROVE IndexAgrees
<1> SUFFICES ASSUME kind = "unique" PROVE IndexAgrees
  BY DEF IndexAgrees
<1>1. SType /\ GateHeld /\ IndexInv /\ OffsetsPositive
  BY DEF SInv, IndexInv
<1>2. ASSUME gate = NoTask, ~stale, NEW k \in Keys
      PROVE  LookupRow(load_store_idx, k) = emit_store_query(rows, Eq("key", k))
  <2>1. Faithful(load_store_idx)
    BY <1>1, <1>2, OpenedFaithful
  <2>2. load_store_idx \in Seq(Entry) /\ \A e \in DOMAIN load_store_idx : load_store_idx[e].off > 0
    BY <1>1, LoadFacts
  <2> QED
    BY <1>1, <2>1, <2>2, LookupAgrees
<1>3. touched \cap {"rekey", "restore"} = {} => Unique
  BY DEF SInv, Covered
<1> QED
  BY <1>2, <1>3 DEF IndexAgrees

LEMMA SInvVersionsComplete ==
  ASSUME SInv PROVE VersionsComplete
<1> SUFFICES ASSUME kind = "versioned", touched \cap {"destroy", "compact"} = {}, NEW i \in DOMAIN rows
             PROVE  LET log == {j \in DOMAIN vlog : vlog[j].sid = rows[i].sid}
                    IN /\ {vlog[j].ver : j \in log} = 1..(rows[i].ver - 1)
                       /\ \A j, l \in log : j < l => vlog[j].ver < vlog[l].ver
  BY DEF VersionsComplete
<1> DEFINE log == {j \in DOMAIN vlog : vlog[j].sid = rows[i].sid}
<1>1. /\ rows[i].sid = i
      /\ \A j \in DOMAIN vlog : vlog[j].sid = i => vlog[j].ver \in 1..(rows[i].ver - 1)
      /\ \A n \in 1..(rows[i].ver - 1) : \E j \in DOMAIN vlog : vlog[j].sid = i /\ vlog[j].ver = n
      /\ \A j, l \in DOMAIN vlog : j < l /\ vlog[j].sid = vlog[l].sid => vlog[j].ver < vlog[l].ver
  BY DEF SInv, Versions
<1>2. \A j \in log : vlog[j].ver \in 1..(rows[i].ver - 1)
  BY <1>1
<1>3. \A n \in 1..(rows[i].ver - 1) : \E j \in log : vlog[j].ver = n
  BY <1>1
<1>4. \A j, l \in log : j < l => vlog[j].ver < vlog[l].ver
  BY <1>1
<1> HIDE DEF log
<1>5. {vlog[j].ver : j \in log} = 1..(rows[i].ver - 1)
  BY <1>2, <1>3
<1> QED
  BY <1>4, <1>5 DEF log

\* An indexed lookup of a @unique column returns the row a scan returns, and the
\* version log of a row has its earlier versions, between any two statements and
\* for any tasks: load_store_idx, jinn_idx_lookup, emit_store_insert and
\* emit_store_set.  Keys with equal hashes are set apart: the lookup compares
\* hashes only.
THEOREM StatementsSidecars == ASSUME CompactsUndisturbed, HashesApart PROVE Spec => []SidecarsAgree
<1>1. SInv => SidecarsAgree
  BY SInvIndexAgrees, SInvVersionsComplete DEF SidecarsAgree
<1> QED
  BY <1>1, StatementsInvariant, PTL

\* Once a delete has returned, the children its cascade was to reach are deleted,
\* whatever other tasks did between the parent's lock and the child's:
\* emit_cascade_calls.
THEOREM StatementsCascade == ASSUME CompactsUndisturbed PROVE Spec => []CascadeReaches
<1>1. SInv => CascadeReaches
  BY DEF SInv, Reached, CascadeReaches
<1> QED
  BY <1>1, StatementsInvariant, PTL

-----------------------------------------------------------------------------
(* The data file changes by whole statements *)

\* Writing back what was loaded is the change of the table as it is now.
LEMMA TombIsDelete ==
  ASSUME SType, Fresh, NEW t \in Tasks, Tomb(t)
  PROVE  \E k \in Keys : Abstract!Delete(k)
<1>1. st[t].k \in Keys
  BY Turns, TurnFacts
<1>2. rows' = [i \in DOMAIN rows |-> IF rows[i].key = st[t].k THEN [rows[i] EXCEPT !.del = TRUE] ELSE rows[i]]
  BY TombFacts
<1>3. Abstract!Delete(st[t].k)
  BY <1>2 DEF Abstract!Delete, Abstract!Map, Abstract!Hit
<1> QED
  BY <1>1, <1>3

LEMMA UntombIsRestore ==
  ASSUME SType, Fresh, NEW t \in Tasks, Untomb(t)
  PROVE  \E k \in Keys : Abstract!Restore(k)
<1>1. st[t].k \in Keys
  BY Turns, TurnFacts
<1>2. rows' = [i \in DOMAIN rows |-> IF rows[i].key = st[t].k THEN [rows[i] EXCEPT !.del = FALSE] ELSE rows[i]]
  BY UntombFacts
<1>3. Abstract!Restore(st[t].k)
  BY <1>2 DEF Abstract!Restore, Abstract!Map, Abstract!Hit
<1> QED
  BY <1>1, <1>3

LEMMA RewriteIsDestroy ==
  ASSUME SType, Fresh, NEW t \in Tasks, Rewrite(t)
  PROVE  \E k \in Keys : Abstract!Destroy(k)
<1>1. st[t].k \in Keys
  BY Turns, TurnFacts
<1>2. rows' = Picked(rows, {i \in DOMAIN rows : rows[i].key # st[t].k})
  BY RewriteFacts
<1>3. {i \in DOMAIN rows : ~Abstract!Hit(rows[i], st[t].k)} = {i \in DOMAIN rows : rows[i].key # st[t].k}
  BY DEF Abstract!Hit
<1>4. Abstract!Destroy(st[t].k)
  BY <1>2, <1>3 DEF Abstract!Destroy, Picked
<1> QED
  BY <1>1, <1>4

LEMMA CommitIsCompact ==
  ASSUME SType, Fresh, NEW t \in Tasks, CompactCommit(t)
  PROVE  rows' = rows \/ Abstract!Compact
BY CommitFacts DEF Abstract!Compact, Picked

LEMMA AppendIsInsert ==
  ASSUME SType, Fresh, NEW t \in Tasks, InsertAppend(t)
  PROVE  \E k \in Keys, v \in Vals : Abstract!Insert(k, v)
<1> DEFINE k == st[t].k
           v == st[t].v
           R == [sid : {Len(rows) + 1}, key : {k}, val : {v}, del : {FALSE}, ver : {1}]
<1>1. k \in Keys /\ v \in Vals
  BY Turns, TurnFacts
<1>2. rows' = Append(rows, NewRow(t)) /\ NewRow(t) \in R
  BY AppendFacts DEF NewRow
<1>3. Abstract!Insert(k, v)
  BY <1>2 DEF Abstract!Insert
<1> QED
  BY <1>1, <1>3

\* A record with its version raised by nothing is the record.
LEMMA SameVersion ==
  ASSUME NEW r \in Row PROVE [r EXCEPT !.ver = r.ver + 0] = r
BY DEF Row

LEMMA UpdateIsUpdate ==
  ASSUME SType, Fresh, NEW t \in Tasks, Update(t)
  PROVE  \E k \in Keys, bump \in {0, 1} :
            (\E v \in Vals : Abstract!Update(k, "val", v, bump)) \/ (\E l \in Keys : Abstract!Update(k, "key", l, bump))
<1> DEFINE k == st[t].k
           bump == IF kind = "versioned" THEN 1 ELSE 0
<1>1. st[t].k \in Keys /\ st[t].v \in Vals /\ st[t].v \in Nat
  BY Turns, TurnFacts, StatementsAssumption
<1>2. st[t].op \in {"set", "rekey"} /\ (st[t].op = "rekey" => st[t].v \in Keys)
  BY UpdateFacts DEF Update
<1>3. rows' = [i \in DOMAIN rows |-> IF Updates(t, i) THEN Updated(t, rows[i]) ELSE rows[i]]
  BY UpdateFacts
<1>4. CASE st[t].op = "set"
  <2>1. ASSUME NEW i \in DOMAIN rows
        PROVE  Updated(t, rows[i]) = [[rows[i] EXCEPT !["val"] = st[t].v] EXCEPT !.ver = @ + bump]
    <3>1. [rows[i] EXCEPT !.val = st[t].v] \in Row
      BY <1>1, RowsTyped, RowFields
    <3> QED
      BY <1>4, <3>1, SameVersion DEF Updated
  <2>2. Abstract!Update(k, "val", st[t].v, bump)
    BY <1>3, <2>1 DEF Abstract!Update, Abstract!Map, Abstract!Hit, Updates
  <2> QED
    BY <1>1, <2>2
<1>5. CASE st[t].op = "rekey"
  <2>1. ASSUME NEW i \in DOMAIN rows
        PROVE  Updated(t, rows[i]) = [[rows[i] EXCEPT !["key"] = st[t].v] EXCEPT !.ver = @ + bump]
    <3>1. [rows[i] EXCEPT !.key = st[t].v] \in Row
      BY <1>2, <1>5, RowsTyped, RowFields
    <3> QED
      BY <1>5, <3>1, SameVersion DEF Updated
  <2>2. Abstract!Update(k, "key", st[t].v, bump)
    BY <1>3, <2>1 DEF Abstract!Update, Abstract!Map, Abstract!Hit, Updates
  <2> QED
    BY <1>1, <1>2, <1>5, <2>2
<1> QED
  BY <1>2, <1>4, <1>5

LEMMA StepRefines ==
  ASSUME SInv, [Next]_vars
  PROVE  [Abstract!Next]_rows
<1>1. SType /\ Fresh
  BY DEF SInv
<1>2. CASE UNCHANGED vars
  BY <1>2 DEF vars
<1>3. ASSUME NEW t \in Tasks, Start(t)
      PROVE  rows' = rows
  BY <1>3 DEF Start
<1>4. ASSUME NEW t \in Tasks, Work(t)
      PROVE  [Abstract!Next]_rows
  <2>1. CASE Tomb(t)
    BY <1>1, <2>1, TombIsDelete DEF Abstract!Next
  <2>2. CASE Rewrite(t)
    BY <1>1, <2>2, RewriteIsDestroy DEF Abstract!Next
  <2>3. CASE Update(t)
    BY <1>1, <2>3, UpdateIsUpdate DEF Abstract!Next
  <2>4. CASE Untomb(t)
    BY <1>1, <2>4, UntombIsRestore DEF Abstract!Next
  <2>5. CASE InsertAppend(t)
    BY <1>1, <2>5, AppendIsInsert DEF Abstract!Next
  <2>6. CASE CompactCommit(t)
    BY <1>1, <2>6, CommitIsCompact DEF Abstract!Next
  <2>7. CASE ~(Tomb(t) \/ Rewrite(t) \/ Update(t) \/ Untomb(t) \/ InsertAppend(t) \/ CompactCommit(t))
    <3>1. rows' = rows
      BY <1>4, <2>7 DEF Work, Ensure, Recover, store_lock, store_unlock, store_load_records, Lookup, InsertCheck,
                       InsertSidecars, CompactRead, Cascade, ChildAppend, Compute
    <3> QED
      BY <3>1
  <2> QED
    BY <2>1, <2>2, <2>3, <2>4, <2>5, <2>6, <2>7
<1> QED
  BY <1>2, <1>3, <1>4 DEF Next

\* No statement loses what another wrote: every change of the data file, by any
\* task, is one whole insert, delete, destroy, update, restore or compaction of
\* the file as it is at that moment, although each statement loads the records,
\* changes its copy and writes the copy back (emit_store_set, emit_store_delete).
THEOREM StatementsAreWhole == ASSUME CompactsUndisturbed PROVE Spec => WholeStatements
<1>1. SInv /\ [Next]_vars => [Abstract!Next]_rows
  BY StepRefines
<1> QED
  BY <1>1, StatementsInvariant, PTL DEF Spec, WholeStatements, Abstract!Spec
=============================================================================
