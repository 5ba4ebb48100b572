---------------------------- MODULE MCHandlerTable ----------------------------
(* HandlerTable on every table of up to two handlers over a code of        *)
(* CodeMax bytes at most, with offsets and lengths that end inside it, at  *)
(* its end, beyond it, and beyond the last offset there is.                *)
EXTENDS HandlerTable

CONSTANTS Offsets, Lengths, Filters

Some == [try_offset : Offsets, try_length : Lengths, handler_offset : Offsets,
         handler_length : Lengths, filter : Filters]
MCTables == UNION {[1..n -> Some] : n \in 0..2}
===============================================================================
