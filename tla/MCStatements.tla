---------------------------- MODULE MCStatements ----------------------------
(* Constants of the instances of Statements. *)
EXTENDS Statements

\* Hashes that share the slot 5 of a table of 24 slots, one of them even.
MCHash == 1 :> 5 @@ 2 :> 28 @@ 3 :> 7
MCNames == 1 :> <<97, 98>> @@ 2 :> <<65, 98, 99>> @@ 3 :> <<98>>

Cond(fld, op, x) == [field |-> fld, op |-> op, value |-> x]
One(c) == [first |-> c, extra |-> <<>>]
Two(c, lop, d) == [first |-> c, extra |-> <<[lop |-> lop, cond |-> d]>>]
MCFilters ==
  {One(Cond("key", "eq", 1)), One(Cond("val", "ge", 1)),
   Two(Cond("key", "eq", 1), "or", Cond("val", "gt", 1)),
   Two(Cond("key", "ne", 1), "and", Cond("val", "le", 1)),
   One(Cond("name", "contains", <<98>>)), One(Cond("name", "istarts", <<65, 98>>)),
   One(Cond("name", "ends", <<98>>)), One(Cond("name", "ieq", <<65, 66>>))}

MCOps ==
  [plain |-> {"insert", "set", "delete", "read", "save"},
   unique |-> {"insert", "delete", "destroy", "find", "rekey"},
   versioned |-> {"insert", "set", "delete", "destroy", "history"},
   compact |-> {"insert", "delete", "compact", "read"},
   simple |-> {"insert", "delete", "set", "read"},
   cascade |-> {"delete", "destroy", "child", "restore"}]
=============================================================================
