------------------------------ MODULE MCHeapScan ------------------------------
(***************************************************************************)
(* To the base 8: all heaps of up to five bytes over bytes that start      *)
(* entries of every form, and heaps written with up to three entries whose *)
(* lengths take one, two or four digits, bare or with garbage behind.      *)
(***************************************************************************)
EXTENDS HeapScan

MCRadix == 8
MCGuidSize == 2
MCTokenSpan == 16
MCOffsetLimit == 40

Arbitrary(kind) ==
  {[kind |-> kind, bytes |-> b, intact |-> FALSE, written |-> << >>, starts |-> << >>] :
     b \in UNION {[1..n -> {0, 1, 4, 6, 7}] : n \in 0..5}}

Content(n) == [i \in 1..n |-> 5]
Blob(n) == write_u32(n) \o Content(n)
UserString(n) == IF n = 0 THEN <<0>> ELSE write_u32(n + 1) \o Content(n + 1)
String(n) == Content(n) \o <<0>>

(* The bytes before each of the entries and behind the last.               *)
Before(encode(_), w) ==
  LET upto[i \in 0..Len(w)] == IF i = 0 THEN << >> ELSE upto[i - 1] \o encode(w[i])
  IN  [i \in 1..Len(w) + 1 |-> upto[i - 1]]

Written(kind, encode(_), sizes) ==
  {LET before == Before(encode, w)
   IN  [kind |-> kind, bytes |-> before[Len(before)] \o garbage, intact |-> TRUE,
        written |-> w, starts |-> [i \in DOMAIN before |-> Len(before[i])]] :
     w \in UNION {[1..k -> sizes] : k \in 0..3}, garbage \in {<< >>, <<7>>}}

MCHeaps == UNION
  ({Arbitrary(k) : k \in {"#Strings", "#Blob", "#US", "#GUID"}}
   \cup {Written("#Blob", Blob, {0, 1, 3, 4, 15, 16, 17}),
         Written("#US", UserString, {0, 2, 4, 14, 16}),
         {h \in Written("#Strings", String, {0, 1, 3}) :
            h.bytes = << >> \/ h.bytes[Len(h.bytes)] = 0}})
===============================================================================
