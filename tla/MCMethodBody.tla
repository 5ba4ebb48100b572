----------------------------- MODULE MCMethodBody -----------------------------
(* MethodBody on intact bodies with up to MaxSections sections, whose      *)
(* writers counted the section header or did not, the same bodies cut      *)
(* short anywhere, and bodies whose sections are arbitrary bytes.          *)
EXTENDS MethodBody, TLC, SequencesExt

CONSTANTS MaxSections, MaxClauses, MaxLength

Fat(code_size, dwords, more, locals) ==
  [len |-> 4 * dwords + code_size, format |-> "fat", code_size |-> code_size,
   header_dwords |-> dwords, more_sects |-> more, local_var_sig |-> locals,
   section |-> << >>, intact |-> TRUE, conforming |-> TRUE, written |-> << >>,
   chain |-> << >>]

(* What a writer puts behind a body: a section of n clauses, or of n raw   *)
(* bytes; omits says whether its DataSize leaves out the header.           *)
Section == [eh : {TRUE}, fat : BOOLEAN, n : 1..MaxClauses, omits : BOOLEAN] \cup
           [eh : {TRUE}, fat : BOOLEAN, n : {0}, omits : {FALSE}] \cup
           [eh : {FALSE}, fat : {FALSE}, n : {3}, omits : {FALSE}]

Payload(s) == IF s.eh THEN s.n * ClauseSize(s) ELSE s.n

(* The sections follow the code; all but the last set the more bit.        *)
Write(b, s, more) ==
  LET start == Aligned(b.len)
      header == [eh |-> s.eh, fat |-> s.fat, more |-> more,
                 data_size |-> Payload(s) + IF s.omits THEN 0 ELSE 4]
  IN  [b EXCEPT !.len = start + 4 + Payload(s),
                !.section = @ @@ (start :> header),
                !.conforming = @ /\ ~s.omits,
                !.chain = Append(@, [start |-> start, size |-> Payload(s),
                                     before |-> Len(b.written), omits |-> s.omits]),
                !.written = IF s.eh THEN @ \o [i \in 1..s.n |->
                                          <<start + 4 + (i - 1) * ClauseSize(s),
                                            start + 4 + i * ClauseSize(s)>>]
                                    ELSE @]

WriteAll(b, s) ==
  FoldLeft(LAMBDA acc, i : Write(acc, s[i], i < Len(s)), b, [i \in 1..Len(s) |-> i])

IntactBodies ==
  {[Fat(code_size, 3, FALSE, "none") EXCEPT !.len = code_size + 1, !.format = "tiny"] :
     code_size \in {0, 4}} \cup
  {Fat(code_size, 3, FALSE, "StandAloneSig") : code_size \in {0, 4}} \cup
  {WriteAll(Fat(code_size, 3, TRUE, "none"), s) :
     code_size \in {1, 4}, s \in UNION {[1..n -> Section] : n \in 1..MaxSections}}

CutShort ==
  UNION {{[b EXCEPT !.len = n, !.intact = FALSE] : n \in {b.len - 1, b.len - 4, b.len - 12, 14} \cap Nat} :
           b \in IntactBodies}

Arbitrary ==
  {[Fat(2, 3, TRUE, "none") EXCEPT !.len = n, !.intact = FALSE] : n \in 14..MaxLength}

Headers ==
  {[Fat(code_size, 3, FALSE, locals) EXCEPT !.len = n, !.format = format, !.header_dwords = dwords,
                                            !.intact = FALSE] :
     code_size \in {0, 2}, locals \in {"none", "StandAloneSig", "other"}, n \in 0..20,
     format \in {"tiny", "fat", "other"}, dwords \in {0, 3, 4}}

MCBodies == IntactBodies \cup CutShort \cup Arbitrary \cup Headers

Hdr(eh, fat, more, data_size) == [eh |-> eh, fat |-> fat, more |-> more, data_size |-> data_size]

(* Empty, raw, exact, omitting, partial and fat sections.                  *)
MCAnySection ==
  { Hdr(FALSE, FALSE, TRUE, 0), Hdr(FALSE, FALSE, FALSE, 7), Hdr(TRUE, FALSE, TRUE, 12),
    Hdr(TRUE, FALSE, TRUE, 16), Hdr(TRUE, FALSE, FALSE, 21), Hdr(TRUE, TRUE, TRUE, 24),
    Hdr(TRUE, TRUE, FALSE, 28) }
===============================================================================
