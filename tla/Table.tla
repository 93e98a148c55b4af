------------------------------- MODULE Table -------------------------------
(***************************************************************************)
(* What a store promises to concurrent statements: the table of rows       *)
(* changes by whole statements only, each applied to the table as it is    *)
(* at that moment.                                                         *)
(***************************************************************************)
EXTENDS Integers, Sequences, FiniteSets

CONSTANTS Keys, Vals

VARIABLE table

\* The elements of s at the positions in I, in their order.
InOrder(I) == [j \in 1..Cardinality(I) |-> CHOOSE i \in I : Cardinality({x \in I : x <= i}) = j]
Picked(s, I) == [j \in DOMAIN InOrder(I) |-> s[InOrder(I)[j]]]

Map(F(_)) == [i \in DOMAIN table |-> F(table[i])]
Hit(r, k) == r.key = k

Insert(k, v) == \E r \in [sid : {Len(table) + 1}, key : {k}, val : {v},
                          del : {FALSE}, ver : {1}] : table' = Append(table, r)
Delete(k) == table' = Map(LAMBDA r : IF Hit(r, k) THEN [r EXCEPT !.del = TRUE] ELSE r)
Destroy(k) == table' = Picked(table, {i \in DOMAIN table : ~Hit(table[i], k)})
Update(k, fld, x, bump) ==
  table' = Map(LAMBDA r : IF Hit(r, k) /\ ~r.del
                          THEN [[r EXCEPT ![fld] = x] EXCEPT !.ver = @ + bump] ELSE r)
Restore(k) == table' = Map(LAMBDA r : IF Hit(r, k) THEN [r EXCEPT !.del = FALSE] ELSE r)
Compact == table' = Picked(table, {i \in DOMAIN table : ~table[i].del})

Next == \/ \E k \in Keys : \/ Delete(k) \/ Destroy(k) \/ Restore(k)
                           \/ \E v \in Vals : Insert(k, v)
                           \/ \E bump \in {0, 1} : \/ \E v \in Vals : Update(k, "val", v, bump)
                                                   \/ \E l \in Keys : Update(k, "key", l, bump)
        \/ Compact

Spec == [][Next]_table
=============================================================================
