------------------------------ MODULE HashMap ------------------------------
(***************************************************************************)
(* The open-addressed table behind Map (codegen/map.rs, runtime/vec.c) and *)
(* the dictionary it stands for.  A bucket is [occ, hash, key, val]; a     *)
(* cleared bucket keeps its old key and value, which nobody reads.  The    *)
(* capacity is a power of two, and `& mask` is the remainder by it.        *)
(***************************************************************************)
EXTENDS Integers, FiniteSets

CONSTANTS Keys, Vals,
          Hash(_),       \* fnv_hash_string of a key
          MapInitCap,    \* 16 in the code
          MaxCap,        \* bound on the capacity
          MaxBroken      \* bound on the operations after a removal that cut a sequence

ASSUME MapAssumption ==
  /\ MapInitCap \in Nat /\ MapInitCap >= 4
  /\ \A k \in Keys : Hash(k) \in Nat

VARIABLES map,        \* [len, cap, b]: the header and the buckets
          growing,    \* the call of __jinn_map_grow that runs, or NotGrowing
          dict,       \* what the program has put into the map
          broken      \* 0, or the operations since a removal cut a probe sequence, and one
map_vars == <<map, growing, dict, broken>>

-----------------------------------------------------------------------------
(* Probing                                                                 *)

Buckets(m) == 0..(m.cap - 1)
Occupied(m) == {i \in Buckets(m) : m.b[i].occ # 0}
Vacant(m) == Buckets(m) \ Occupied(m)
Holding(m, k) == {i \in Occupied(m) : m.b[i].hash = Hash(k) /\ m.b[i].key = k}

\* The bucket d steps after the one that hash h leads to.
After(m, h, d) == (h + d) % m.cap

\* The first bucket of S on the walk from hash h; without one the loop never ends.
NoBucket == -1
FirstOf(m, h, S) ==
  LET D == {d \in Buckets(m) : After(m, h, d) \in S}
  IN  IF D = {} THEN NoBucket ELSE After(m, h, CHOOSE d \in D : \A e \in D : d <= e)

\* The bucket that holds the key, or the first free one.
map_probe(m, k) == FirstOf(m, Hash(k), Vacant(m) \cup Holding(m, k))

map_has_val(m, k) == map_probe(m, k) \in Holding(m, k)

\* Traps, or answers the default, when the key is not found.
map_get_val(m, k, default) == IF map_has_val(m, k) THEN m.b[map_probe(m, k)].val ELSE default

\* The keys in bucket order; the order is not told apart.
map_collect(m) == {m.b[i].key : i \in Occupied(m)}

-----------------------------------------------------------------------------
(* The operations                                                          *)

Zeroed(n) == [i \in 0..(n - 1) |-> [occ |-> 0]]
Filled(k, v) == [occ |-> 1, hash |-> Hash(k), key |-> k, val |-> v]

compile_map_new == [len |-> 0, cap |-> MapInitCap, b |-> Zeroed(MapInitCap)]

NotGrowing == [i |-> -1]
Loaded(m) == m.len * 4 >= m.cap * 3

\* The insertion after the table has room.
Put(m, k, v) ==
  LET i == map_probe(m, k)
  IN  IF i \in Holding(m, k) THEN [m EXCEPT !.b[i].val = v]
      ELSE [m EXCEPT !.b[i] = Filled(k, v), !.len = @ + 1]
Updated(d, k, v) == [x \in DOMAIN d \cup {k} |-> IF x = k THEN v ELSE d[x]]

\* Mutant: an entry is moved to the bucket its hash leads to, taken or not.
RehashHome(t, e) == [t EXCEPT !.b[After(t, e.hash, 0)] = e]
\* One entry moves to the first free bucket of the new table.
Rehash(t, e) == [t EXCEPT !.b[FirstOf(t, e.hash, Vacant(t))] = e]

Busy == growing.i # -1
\* Nothing repairs a table with a cut sequence but clear.
Later == broken' = IF broken = 0 THEN 0 ELSE broken + 1

map_set_val(k, v) ==
  /\ ~Busy /\ Later
  /\ IF Loaded(map)
     THEN /\ growing' = [i |-> 0, key |-> k, val |-> v,
                         t |-> [len |-> map.len, cap |-> 2 * map.cap, b |-> Zeroed(2 * map.cap)]]
          /\ UNCHANGED <<map, dict>>
     ELSE map' = Put(map, k, v) /\ dict' = Updated(dict, k, v) /\ UNCHANGED growing

\* The loop of __jinn_map_grow over the old buckets, and the insertion after it.
map_grow ==
  /\ Busy /\ growing.i < map.cap
  /\ growing' = [growing EXCEPT !.i = @ + 1,
                   !.t = IF map.b[growing.i].occ # 0 THEN Rehash(@, map.b[growing.i]) ELSE @]
  /\ UNCHANGED <<map, dict, broken>>
map_grown ==
  /\ Busy /\ growing.i = map.cap
  /\ map' = Put(growing.t, growing.key, growing.val)
  /\ dict' = Updated(dict, growing.key, growing.val)
  /\ growing' = NotGrowing /\ UNCHANGED broken

\* The walk to bucket j passes bucket i.
OnPathTo(m, i, j) ==
  \E d \in Buckets(m) : After(m, m.b[j].hash, d) = j /\ \E e \in 0..(d - 1) : After(m, m.b[j].hash, e) = i

\* Only the bucket's flag is cleared: nothing is moved back and no mark stays.
map_remove_val(k) ==
  LET i == map_probe(map, k)
  IN  /\ ~Busy
      /\ dict' = [x \in DOMAIN dict \ {k} |-> dict[x]]
      /\ IF i \in Holding(map, k)
         THEN /\ map' = [map EXCEPT !.b[i].occ = 0, !.len = @ - 1]
              /\ IF broken = 0 /\ \E j \in Occupied(map) : OnPathTo(map, i, j) THEN broken' = 1 ELSE Later
         ELSE UNCHANGED map /\ Later
      /\ UNCHANGED growing

map_clear ==
  /\ ~Busy
  /\ map' = [len |-> 0, cap |-> map.cap, b |-> Zeroed(map.cap)]
  /\ dict' = [x \in {} |-> 0] /\ broken' = 0 /\ UNCHANGED growing

-----------------------------------------------------------------------------
NoMap == [len |-> 0, cap |-> 0, b |-> <<>>]
MapStart(m) == map = m /\ growing = NotGrowing /\ dict = [x \in {} |-> 0] /\ broken = 0

MapInit == MapStart(compile_map_new)
MapNext ==
  /\ map # NoMap /\ map.cap <= MaxCap /\ broken <= MaxBroken
  /\ \/ \E k \in Keys, v \in Vals : map_set_val(k, v)
     \/ map_grow \/ map_grown
     \/ \E k \in Keys : map_remove_val(k)
     \/ map_clear
MapSpec == MapInit /\ [][MapNext]_map_vars

-----------------------------------------------------------------------------
\* Through collisions, wrap-around, overwriting, growth and removal every walk
\* ends -- there is always a free bucket, in the table that is being filled
\* too -- and len counts the entries.  As long as no removal has cut the
\* sequence of another key (removal leaves neither a mark nor moves an entry),
\* the table answers exactly like the dictionary and holds no key twice.
MapAgrees ==
  map # NoMap =>
    /\ \A k \in Keys : map_probe(map, k) # NoBucket
    /\ Busy => Vacant(growing.t) # {}
    /\ map.len = Cardinality(Occupied(map))
    /\ broken = 0 =>
         /\ \A k \in Keys : map_has_val(map, k) <=> k \in DOMAIN dict
         /\ \A k \in Keys, v \in Vals : map_get_val(map, k, v) = IF k \in DOMAIN dict THEN dict[k] ELSE v
         /\ map_collect(map) = DOMAIN dict /\ map.len = Cardinality(DOMAIN dict)
=============================================================================
