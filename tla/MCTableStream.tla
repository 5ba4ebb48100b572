---------------------------- MODULE MCTableStream -----------------------------
(* TableStream on a schema of three tables and one reserved slot: a *Ptr   *)
(* table, the table it redirects into, and a keyed table with a simple, a  *)
(* coded and a heap column.  Row counts lie on both sides of the width     *)
(* thresholds, stream lengths cut the header, the counts and every table.  *)
EXTENDS TableStream, TLC

CONSTANTS MaxLength

MCKnown == {0, 1, 2}
MCNoTable == 99

MCSchema ==
  (0 :> <<[kind |-> "rid", to |-> 1]>>) @@
  (1 :> <<[kind |-> "fixed", width |-> 4], [kind |-> "fixed", width |-> 4], [kind |-> "heap", heap |-> "strings"]>>) @@
  (2 :> <<[kind |-> "coded", to |-> {1, 2}, tags |-> 2], [kind |-> "rid", to |-> 1]>>)

MCPtrSource == (0 :> MCNoTable) @@ (1 :> 0) @@ (2 :> MCNoTable)
MCLengths == {HeaderBytes - 1} \cup {2 * n : n \in 12..(MaxLength \div 2)}
===============================================================================
