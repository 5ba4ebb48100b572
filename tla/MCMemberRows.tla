------------------------------ MODULE MCMemberRows ----------------------------
(* MemberRows on every list column of up to MaxOwners rows over raw values *)
(* 0..MaxRaw, ascending or not, with values past the end of the target and *)
(* the zero that no conforming image holds.  The *Ptr tables are all       *)
(* permutations of the target, of which the cycles are not their own       *)
(* inverse, and some that are too short, repeat a row or name none.        *)
EXTENDS MemberRows

CONSTANTS MaxOwners, MaxRaw, MaxTarget

MCListColumns == UNION {[1..n -> 0..MaxRaw] : n \in 0..MaxOwners}
MCRowCounts == 0..MaxTarget
MCMembers == 0..(MaxTarget + 1)
MCPtrColumns ==
  {p \in [1..MaxTarget -> 1..MaxTarget] : {p[i] : i \in 1..MaxTarget} = 1..MaxTarget}
  \cup { << >>, <<1>>, <<2, 1>>, <<2, 0>>, <<MaxTarget + 1, 1>>, <<2, 2>> }
MCMaxU32 == MaxOwners + 1
===============================================================================
