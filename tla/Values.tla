------------------------------- MODULE Values -------------------------------
(* The run-time values of a compiled program and the two operations the      *)
(* compiler generates from a type: clone_value, which gives an independent   *)
(* owner, and drop_value, which gives everything a value owns back; then the *)
(* operations on vectors.                                                    *)
(*                                                                           *)
(* A value carries the shape its type gives it:                              *)
(*   int   a scalar (trivially droppable);                                   *)
(*   str   bytes, inline (Inline), in the program's image (Static) or in a   *)
(*         buffer of its own;                                                *)
(*   vec   a header, a buffer of `cap` cells (null when cap is 0), `len`;    *)
(*   rec   a tuple, an array or a struct: its fields;                        *)
(*   enum  a variant's fields, a field of the enum's own type in a box;      *)
(*   map   a header and its buckets;   chan  a counted reference.            *)
(* The heap is the set of live buffers, whether some buffer was freed when   *)
(* it was not live, and the count of every channel.                          *)
EXTENDS Integers, Sequences, FiniteSets, SequencesExt

CONSTANTS Buffers,     \* identities of heap buffers, a set of positive integers
          GrowthFloor  \* the least capacity of a first growth (16..128)

Inline == 0
Static == -1
NoBuffer   == 0
Junk   == [k |-> "junk"]

Malloc(h) ==
  LET n == CHOOSE b \in Buffers \ h.live : \A c \in Buffers \ h.live : b <= c
  IN  [n |-> n, h |-> [h EXCEPT !.live = @ \cup {n}]]

Free(h, n) ==
  IF n = NoBuffer THEN h
  ELSE [h EXCEPT !.live = @ \ {n}, !.bad = @ \/ n \notin h.live]

EmptyHeap == [live |-> {}, bad |-> FALSE, refs |-> 0]

Scalar(n)      == [k |-> "int", n |-> n]
Str(s, buf)    == [k |-> "str", bytes |-> s, buf |-> buf]
Chan           == [k |-> "chan"]

Elems(v) == [i \in 1..v.len |-> v.data[i]]

RECURSIVE OwnedBy(_), Content(_)
\* the buffers a value answers for
OwnedBy(v) ==
  CASE v.k = "str"  -> {v.buf} \ {Inline, Static}
    [] v.k = "vec"  -> ({v.hdr, v.buf} \ {NoBuffer})
                         \cup UNION {OwnedBy(v.data[i]) : i \in 1..v.len}
    [] v.k = "box"  -> {v.buf} \cup OwnedBy(v.v)
    [] v.k \in {"rec", "enum"} -> UNION {OwnedBy(v.fs[i]) : i \in DOMAIN v.fs}
    [] v.k = "map"  -> {v.hdr, v.buf} \cup UNION {OwnedBy(e.key) \cup OwnedBy(e.val) : e \in v.entries}
    [] OTHER -> {}

\* what the program sees of a value
Content(v) ==
  CASE v.k = "str"  -> v.bytes
    [] v.k = "int"  -> <<v.n>>
    [] v.k = "vec"  -> [i \in 1..v.len |-> Content(v.data[i])]
    [] v.k = "box"  -> Content(v.v)
    [] v.k = "rec"  -> [i \in DOMAIN v.fs |-> Content(v.fs[i])]
    [] v.k = "enum" -> <<v.tag, [i \in DOMAIN v.fs |-> Content(v.fs[i])]>>
    [] OTHER -> <<v.k>>
-----------------------------------------------------------------------------
\* Types::is_trivially_droppable, read off the shape
RECURSIVE is_trivially_droppable(_), is_value_clonable(_)
is_trivially_droppable(v) ==
  \/ v.k = "int"
  \/ v.k = "rec" /\ v.nominal = FALSE /\ \A i \in DOMAIN v.fs : is_trivially_droppable(v.fs[i])

Tuple(fs)  == [k |-> "rec", nominal |-> FALSE, fs |-> fs]
Struct(fs) == [k |-> "rec", nominal |-> TRUE, fs |-> fs]
Enum(t, fs) == [k |-> "enum", tag |-> t, fs |-> fs]
Box(b, v)  == [k |-> "box", buf |-> b, v |-> v]
Vec(hdr, buf, cap, len, data) ==
  [k |-> "vec", hdr |-> hdr, buf |-> buf, cap |-> cap, len |-> len, data |-> data]

\* a map, a closure or a generator cannot be copied, and neither can what holds one
is_value_clonable(v) ==
  CASE v.k = "vec" -> \A i \in 1..v.len : is_value_clonable(v.data[i])
    [] v.k \in {"rec", "enum"} -> \A i \in DOMAIN v.fs : is_value_clonable(v.fs[i])
    [] v.k = "box" -> is_value_clonable(v.v)
    [] OTHER -> v.k \in {"int", "str", "chan"}
-----------------------------------------------------------------------------
\* The runtime's copy of a string: inline and static strings are copied as
\* they are, an owned buffer is duplicated.
clone_string(h, v) ==
  IF v.buf \in {Inline, Static} THEN [h |-> h, v |-> v]
  ELSE LET m == Malloc(h) IN [h |-> m.h, v |-> [v EXCEPT !.buf = m.n]]

RECURSIVE clone_value(_, _)

\* a sequence of values cloned one after the other
CloneAll(h, vs) ==
  FoldLeft(LAMBDA acc, v : LET c == clone_value(acc.h, v)
                           IN  [h |-> c.h, vs |-> Append(acc.vs, c.v)],
           [h |-> h, vs |-> <<>>], vs)

\* a new header of the same len and cap; no buffer when cap is 0
clone_vec(h, v) ==
  LET hd == Malloc(h)
      bf == IF v.cap = 0 THEN [n |-> NoBuffer, h |-> hd.h] ELSE Malloc(hd.h)
      cs == CloneAll(bf.h, Elems(v))
  IN  [h |-> cs.h,
       v |-> Vec(hd.n, bf.n, v.cap, v.len,
                 [i \in 1..v.cap |-> IF i <= v.len THEN cs.vs[i] ELSE Junk])]

\* an array or a tuple, field by field; one of scalars is copied as it is
clone_tuple(h, v) ==
  IF \A i \in DOMAIN v.fs : is_trivially_droppable(v.fs[i]) THEN [h |-> h, v |-> v]
  ELSE LET cs == CloneAll(h, v.fs) IN [h |-> cs.h, v |-> [v EXCEPT !.fs = cs.vs]]

\* a struct, inline or through its own function when the type is recursive
clone_struct(h, v) ==
  IF \A i \in DOMAIN v.fs : is_trivially_droppable(v.fs[i]) THEN [h |-> h, v |-> v]
  ELSE LET cs == CloneAll(h, v.fs) IN [h |-> cs.h, v |-> [v EXCEPT !.fs = cs.vs]]

\* the raw copy first, then every field that owns something is replaced; a
\* boxed field is cloned before the new box is allocated
clone_enum(h, v) ==
  LET Field(acc, f) ==
        IF f.k = "box"
        THEN LET c == clone_value(acc.h, f.v)
                 m == Malloc(c.h)
             IN  [h |-> m.h, vs |-> Append(acc.vs, Box(m.n, c.v))]
        ELSE IF is_trivially_droppable(f) THEN [acc EXCEPT !.vs = Append(@, f)]
        ELSE LET c == clone_value(acc.h, f) IN [h |-> c.h, vs |-> Append(acc.vs, c.v)]
      cs == FoldLeft(Field, [h |-> h, vs |-> <<>>], v.fs)
  IN  [h |-> cs.h, v |-> [v EXCEPT !.fs = cs.vs]]

clone_value(h, v) ==
  CASE is_trivially_droppable(v) -> [h |-> h, v |-> v]
    [] v.k = "str"  -> clone_string(h, v)
    [] v.k = "chan" -> [h |-> [h EXCEPT !.refs = @ + 1], v |-> v]
    [] v.k = "vec"  -> clone_vec(h, v)
    [] v.k = "rec" /\ ~v.nominal -> clone_tuple(h, v)
    [] v.k = "rec" /\ v.nominal  -> clone_struct(h, v)
    [] v.k = "enum" -> clone_enum(h, v)
-----------------------------------------------------------------------------
\* only a heap string with a capacity owns its buffer
drop_string(h, v) == IF v.buf \in {Inline, Static} THEN h ELSE Free(h, v.buf)

RECURSIVE drop_value(_, _)

DropAll(h, vs) == FoldLeft(LAMBDA acc, v : drop_value(acc, v), h, vs)

\* the elements, then the storage; reuse keeps the storage
drop_vec_elements_only(h, v) == DropAll(h, Elems(v))

drop_vec_impl(h, v) == Free(Free(drop_vec_elements_only(h, v), v.buf), v.hdr)

\* the occupied buckets' keys and values, then the buckets and the header
drop_map_deep(h, v) ==
  LET es == SetToSeq(v.entries)
      h1 == FoldLeft(LAMBDA acc, e : drop_value(drop_value(acc, e.key), e.val), h, es)
  IN  Free(Free(h1, v.buf), v.hdr)

drop_tuple(h, v) == DropAll(h, v.fs)

drop_struct_fields(h, v) == DropAll(h, v.fs)

\* the payload of the variant the tag names; a box after what it holds
drop_enum_variants(h, v) ==
  FoldLeft(LAMBDA acc, f : IF f.k = "box" THEN Free(drop_value(acc, f.v), f.buf)
                           ELSE drop_value(acc, f), h, v.fs)

drop_value(h, v) ==
  CASE is_trivially_droppable(v) -> h
    [] v.k = "str"  -> drop_string(h, v)
    [] v.k = "vec"  -> drop_vec_impl(h, v)
    [] v.k = "map"  -> drop_map_deep(h, v)
    [] v.k = "rec" /\ ~v.nominal -> drop_tuple(h, v)
    [] v.k = "rec" /\ v.nominal  -> drop_struct_fields(h, v)
    [] v.k = "enum" -> drop_enum_variants(h, v)
    [] v.k = "chan" -> [h EXCEPT !.refs = @ - 1, !.bad = @ \/ h.refs <= 0]
-----------------------------------------------------------------------------
(* The string operations: what the generated loops do byte by byte, and      *)
(* which buffer they allocate, keep or give back.  A string shorter than     *)
(* SsoLimit bytes (23) is kept inline; indices are those of the code, from 0.*)

CONSTANT SsoLimit

Bytes(v) == v.bytes
ByteAt(s, i) == s[i + 1]

compile_str_literal(s) == Str(s, IF Len(s) < SsoLimit THEN Inline ELSE Static)

\* the number of bytes that do not continue a UTF-8 sequence (10xxxxxx)
string_scalar_count(v) ==
  Cardinality({i \in DOMAIN v.bytes : ~(v.bytes[i] >= 128 /\ v.bytes[i] < 192)})

\* `src` is a buffer the operation built (owns) or memory of another value
finalize_string_sso(h, s, src, owns) ==
  CASE Len(s) < SsoLimit ->
         [h |-> IF owns THEN Free(h, src) ELSE h, v |-> Str(s, Inline)]
    [] Len(s) >= SsoLimit /\ owns -> [h |-> h, v |-> Str(s, src)]
    [] OTHER -> LET m == Malloc(h) IN [h |-> m.h, v |-> Str(s, m.n)]

\* the buffer an operation fills before the result is finalised
Built(h, s) == LET m == Malloc(h) IN finalize_string_sso(m.h, s, m.n, TRUE)

string_eq(l, r) ==
  /\ Len(l.bytes) = Len(r.bytes)
  /\ \A i \in DOMAIN l.bytes : l.bytes[i] = r.bytes[i]

string_concat(h, l, r) ==
  LET s == l.bytes \o r.bytes
  IN  IF Len(s) < SsoLimit THEN [h |-> h, v |-> Str(s, Inline)]
      ELSE LET m == Malloc(h) IN [h |-> m.h, v |-> Str(s, m.n)]

\* memcmp(p + i, d, |d|) = 0, only called with i + |d| <= |p|
MatchAt(p, i, d) == SubSeq(p, i + 1, i + Len(d)) = d

RECURSIVE FindFrom(_, _, _)
FindFrom(p, d, i) ==
  CASE MatchAt(p, i, d) -> i
    [] ~MatchAt(p, i, d) /\ i + 1 >= (Len(p) - Len(d)) + 1 -> -1
    [] OTHER -> FindFrom(p, d, i + 1)

string_find(hay, needle) ==
  CASE Len(needle.bytes) = 0 -> 0
    [] Len(needle.bytes) > Len(hay.bytes) -> -1
    [] OTHER -> FindFrom(hay.bytes, needle.bytes, 0)

string_contains(hay, needle) == string_find(hay, needle) # -1

string_affix_match(hay, part, from_end) ==
  /\ Len(hay.bytes) >= Len(part.bytes)
  /\ MatchAt(hay.bytes, IF from_end THEN Len(hay.bytes) - Len(part.bytes) ELSE 0, part.bytes)

\* traps ([ok |-> FALSE]) outside the string
string_char_at(v, i) ==
  IF i >= 0 /\ i < Len(v.bytes) THEN [ok |-> TRUE, b |-> ByteAt(v.bytes, i)] ELSE [ok |-> FALSE, b |-> 0]

\* traps unless start <= end <= len
SliceOk(v, si, ei) == si <= ei /\ ei >= 0 /\ ei <= Len(v.bytes)
string_slice(h, v, si, ei) ==
  finalize_string_sso(h, SubSeq(v.bytes, si + 1, ei), NoBuffer, FALSE)

is_whitespace(b) == b \in {32, 9, 10, 13}

\* the first index from i that is not white space, or the end
RECURSIVE TrimLeftFrom(_, _), TrimRightFrom(_, _, _)
TrimLeftFrom(s, i) ==
  IF i >= Len(s) \/ ~is_whitespace(ByteAt(s, i)) THEN i ELSE TrimLeftFrom(s, i + 1)
TrimRightFrom(s, i, left) ==
  IF i <= left \/ ~is_whitespace(ByteAt(s, i - 1)) THEN i ELSE TrimRightFrom(s, i - 1, left)

string_trim(h, v, left, right) ==
  LET l == IF left THEN TrimLeftFrom(v.bytes, 0) ELSE 0
      r == IF right THEN TrimRightFrom(v.bytes, Len(v.bytes), l) ELSE Len(v.bytes)
  IN  string_slice(h, v, l, r)

CaseOf(b, upper) ==
  CASE upper /\ b >= 97 /\ b <= 122 -> b - 32
    [] ~upper /\ b >= 65 /\ b <= 90 -> b + 32
    [] OTHER -> b
string_case(h, v, upper) ==
  Built(h, [i \in DOMAIN v.bytes |-> CaseOf(v.bytes[i], upper)])

\* One pass from the left: a match is replaced and skipped as a whole, any
\* other byte is copied.  With an empty `old` the loop does not advance: the
\* operation is only called with a non-empty one.
RECURSIVE ReplaceFrom(_, _, _, _, _)
ReplaceFrom(s, old, new, si, out) ==
  CASE si >= Len(s) -> out
    [] si < Len(s) /\ Len(s) - si >= Len(old) /\ MatchAt(s, si, old) ->
         ReplaceFrom(s, old, new, si + Len(old), out \o new)
    [] OTHER -> ReplaceFrom(s, old, new, si + 1, Append(out, ByteAt(s, si)))
string_replace(h, v, old, new) ==
  Built(h, ReplaceFrom(v.bytes, old.bytes, new.bytes, 0, <<>>))

string_repeat(h, v, n) ==
  Built(h, FoldLeft(LAMBDA acc, i : acc \o v.bytes, <<>>, [i \in 1..n |-> i]))

\* where the pieces of a split start and end
RECURSIVE SplitFrom(_, _, _, _, _)
SplitFrom(s, d, si, start, out) ==
  CASE si >= Len(s) -> Append(out, <<start, Len(s)>>)
    [] si < Len(s) /\ Len(s) - si >= Len(d) /\ MatchAt(s, si, d) ->
         SplitFrom(s, d, si + Len(d), si + Len(d), Append(out, <<start, si>>))
    [] OTHER -> SplitFrom(s, d, si + 1, start, out)
-----------------------------------------------------------------------------
(* Growable vectors: a header [ptr, len, cap] and a buffer of cap cells.     *)
(* Every operation is the loop the compiler emits, on the cells it touches,  *)
(* with the copies (owned_elem_copy) that keep two vectors from answering    *)
(* for the same element.  Indices are those of the code, from 0; an index    *)
(* outside the vector traps, so the operations below are applied inside it.  *)

Cell(v, i) == v.data[i + 1]

vec_alloc_empty(h) == LET m == Malloc(h) IN [h |-> m.h, v |-> Vec(m.n, NoBuffer, 0, 0, <<>>)]

\* realloc: the cells move to a buffer of new_cap cells; the old buffer, if
\* there was one, is given back
Realloc(h, v, new_cap) ==
  LET m  == Malloc(h)
      h1 == Free(m.h, v.buf)
  IN  [h |-> h1,
       v |-> [v EXCEPT !.buf = m.n, !.cap = new_cap,
                       !.data = [i \in 1..new_cap |-> IF i <= v.cap THEN v.data[i] ELSE Junk]]]

vec_push_raw_with_floor(h, v, e) ==
  LET doubled == 2 * v.cap
      g == IF v.len >= v.cap
           THEN Realloc(h, v, IF doubled >= GrowthFloor THEN doubled ELSE GrowthFloor)
           ELSE [h |-> h, v |-> v]
  IN  [h |-> g.h, v |-> [g.v EXCEPT !.data[g.v.len + 1] = e, !.len = @ + 1]]

\* the header keeps its buffer: only the length changes, the value moves out
vec_pop(v) == [v |-> [v EXCEPT !.len = @ - 1], e |-> Cell(v, v.len - 1)]

vec_get_idx_borrow(h, v, i) == clone_value(h, Cell(v, i))

\* the element that was there is overwritten, not dropped
vec_set_val(v, i, e) == [v EXCEPT !.data[i + 1] = e]

\* memmove of the cells behind the removed one
\* mutant: one cell too few is moved
RemoveShort(v, i) ==
  [e |-> Cell(v, i),
   v |-> [v EXCEPT !.len = @ - 1,
                   !.data = [j \in 1..v.cap |-> IF j > i /\ j < v.len - 1 THEN v.data[j + 1] ELSE v.data[j]]]]

vec_remove_val(v, i) ==
  [e |-> Cell(v, i),
   v |-> [v EXCEPT !.len = @ - 1,
                   !.data = [j \in 1..v.cap |-> IF j > i /\ j < v.len THEN v.data[j + 1] ELSE v.data[j]]]]

vec_clear(v) == [v EXCEPT !.len = 0]

InBounds(v, i) == i >= 0 /\ i < v.len
-----------------------------------------------------------------------------
\* mutant: the element's bits are copied
ElemBits(h, e) == [h |-> h, v |-> e]

owned_elem_copy(h, e) ==
  IF ~is_trivially_droppable(e) /\ is_value_clonable(e) THEN clone_value(h, e) ELSE [h |-> h, v |-> e]

PushCopy(acc, e) ==
  LET c == owned_elem_copy(acc.h, e) IN vec_push_raw_with_floor(c.h, acc.v, c.v)

\* a fresh vector of copies of the given elements, in order
CopyOf(h, es) == FoldLeft(PushCopy, vec_alloc_empty(h), es)

\* The callbacks: map answers a value of its own, here a clone of its argument; a
\* predicate is the set of elements it accepts; a sum adds n[e]; fold appends.
vec_map_dynamic(h, v) ==
  FoldLeft(LAMBDA acc, e : LET r == clone_value(acc.h, e) IN vec_push_raw_with_floor(r.h, acc.v, r.v),
           vec_alloc_empty(h), Elems(v))

vec_filter_dynamic(h, v, yes) ==
  FoldLeft(LAMBDA acc, e : IF e \in yes THEN PushCopy(acc, e) ELSE acc, vec_alloc_empty(h), Elems(v))

vec_sum(v, n) == FoldLeft(LAMBDA acc, e : acc + n[e], 0, Elems(v))

vec_fold_dynamic(v, init) == FoldLeft(LAMBDA acc, e : acc \o e.bytes, init, Elems(v))

\* the first match, copied; the zero value when there is none
vec_find_dynamic(h, v, yes) ==
  LET hits == {i \in 1..v.len : v.data[i] \in yes}
  IN  IF hits = {} THEN [h |-> h, v |-> Str(<<>>, Inline)]
      ELSE owned_elem_copy(h, v.data[CHOOSE i \in hits : \A j \in hits : i <= j])

vec_any_all_dynamic(v, yes, any) ==
  IF any THEN \E i \in 1..v.len : v.data[i] \in yes ELSE \A i \in 1..v.len : v.data[i] \in yes

\* take stops at min(n, len); skip starts at n, which is not clamped
vec_take_skip_v(h, v, n, take) ==
  CopyOf(h, IF take THEN SubSeq(Elems(v), 1, IF n < v.len THEN n ELSE v.len)
            ELSE SubSeq(Elems(v), n + 1, v.len))

vec_slice_v(h, v, s, e) == CopyOf(h, SubSeq(Elems(v), s + 1, IF e < v.len THEN e ELSE v.len))

vec_chain_v(h, v, w) == FoldLeft(PushCopy, CopyOf(h, Elems(v)), Elems(w))

\* pairs (index, copy)
vec_enumerate_v(h, v) ==
  FoldLeft(LAMBDA acc, i : LET c == owned_elem_copy(acc.h, v.data[i])
                           IN  vec_push_raw_with_floor(c.h, acc.v, Tuple(<<Scalar(i - 1), c.v>>)),
           vec_alloc_empty(h), [i \in 1..v.len |-> i])

vec_flatten_v(h, vs) ==
  FoldLeft(LAMBDA acc, w : FoldLeft(PushCopy, acc, Elems(w)), vec_alloc_empty(h), vs)

\* as long as the shorter of the two
vec_zip_v(h, v, w) ==
  FoldLeft(LAMBDA acc, i : LET a == owned_elem_copy(acc.h, v.data[i])
                               b == owned_elem_copy(a.h, w.data[i])
                           IN  vec_push_raw_with_floor(b.h, acc.v, Tuple(<<a.v, b.v>>)),
           vec_alloc_empty(h), [i \in 1..(IF v.len < w.len THEN v.len ELSE w.len) |-> i])

vec_reverse(h, v) == CopyOf(h, [i \in 1..v.len |-> v.data[(v.len - i) + 1]])

vec_contains_v(v, needle) == \E i \in 1..v.len : string_eq(v.data[i], needle)

\* The insertion sort of the copy, with the signed comparison of the code
\* (Int64 and Float64 vectors are sorted by the runtime instead).
RECURSIVE SiftBack(_, _, _)
SiftBack(d, j, key) ==
  IF j >= 1 /\ d[j].n > key.n
  THEN SiftBack([d EXCEPT ![j + 1] = d[j]], j - 1, key)
  ELSE [d EXCEPT ![j + 1] = key]
vec_sort(h, v) ==
  LET c == CopyOf(h, Elems(v))
      d == FoldLeft(LAMBDA acc, i : SiftBack(acc, i - 1, acc[i]), c.v.data,
                    [i \in 1..(IF v.len = 0 THEN 0 ELSE v.len - 1) |-> i + 1])
  IN  [h |-> c.h, v |-> [c.v EXCEPT !.data = d]]

\* the elements joined from the left; with one element the result is that
\* element itself, and the intermediate strings are not given back
vec_join_v(h, v, sep) ==
  IF v.len = 0 THEN [h |-> h, v |-> compile_str_literal(<<>>)]
  ELSE FoldLeft(LAMBDA acc, i : LET a == string_concat(acc.h, acc.v, sep)
                                IN  string_concat(a.h, a.v, v.data[i]),
                [h |-> h, v |-> v.data[1]], [i \in 1..(v.len - 1) |-> i + 1])

\* split pushes one slice per piece
string_split(h, s, d) ==
  FoldLeft(LAMBDA acc, p : LET c == string_slice(acc.h, s, p[1], p[2])
                           IN  vec_push_raw_with_floor(c.h, acc.v, c.v),
           vec_alloc_empty(h), SplitFrom(s.bytes, d.bytes, 0, 0, <<>>))
=============================================================================
