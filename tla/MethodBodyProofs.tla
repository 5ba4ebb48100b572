---------------------------- MODULE MethodBodyProofs ----------------------------
(***************************************************************************)
(* MethodBody for every body, every chain of sections and every length: no *)
(* byte of a body is read as two clauses, as a clause and a raw section, or*)
(* as a clause and code.  The bytes are consumed in file order, so it is   *)
(* enough to know how far each vector of ranges has come.                  *)
(***************************************************************************)
EXTENDS MethodBody, TLAPS

(* Where the next clause begins: the end of everything already read.       *)
Frontier ==
  IF pc = "clauses" THEN section.start + 4 + clause * ClauseSize(section) ELSE position

(* Raw sections end before the section being read begins.                  *)
RawFrontier == IF pc = "clauses" THEN section.start ELSE position

Behind(ranges, p) == \A k \in DOMAIN ranges : ranges[k][2] <= p
InOrder(ranges) == \A j, k \in DOMAIN ranges : j < k => ranges[j][2] <= ranges[k][1]

(* The section being read lies behind the code and ends at the reader.     *)
SectionPlaced ==
  /\ pc \in {"clauses", "chain"} =>
       /\ position = section.start + 4 + section.size
       /\ CodeEnd <= section.start
  /\ pc = "section" => CodeEnd <= position

Inv ==
  /\ TypeOK
  /\ body \in Bodies
  /\ pc = "header" => handlers = << >> /\ unknown = << >>
  /\ SectionPlaced
  /\ Behind(handlers, Frontier) /\ Behind(unknown, RawFrontier)
  /\ InOrder(handlers) /\ InOrder(unknown)
  /\ \A k \in DOMAIN handlers : CodeEnd <= handlers[k][1]
  /\ \A j \in DOMAIN handlers, k \in DOMAIN unknown :
       handlers[j][2] <= unknown[k][1] \/ unknown[k][2] <= handlers[j][1]

-------------------------------------------------------------------------------
(* Arithmetic                                                              *)

(* Aligning never goes back.                                               *)
LEMMA AlignedIsAhead ==
  ASSUME NEW p \in Nat
  PROVE  Aligned(p) \in Nat /\ p <= Aligned(p)
  BY DEF Aligned

(* Whole clauses fit the section they are counted from.                    *)
LEMMA ClausesFit ==
  ASSUME NEW h, h.fat \in BOOLEAN, NEW size \in Nat, NEW n \in 0..(size \div ClauseSize(h))
  PROVE  n * ClauseSize(h) \in Nat /\ n * ClauseSize(h) <= size
  <1>1. CASE h.fat
    BY <1>1 DEF ClauseSize
  <1>2. CASE ~h.fat
    BY <1>2 DEF ClauseSize
  <1> QED BY <1>1, <1>2

(* The fields of a body.                                                   *)
LEMMA BodyTypes ==
  ASSUME body \in Bodies
  PROVE  body.len \in Nat /\ header_size \in Nat /\ CodeEnd \in Nat
  <1>1. body.len \in Nat /\ body.code_size \in Nat /\ body.header_dwords \in 0..15
    BY BodiesAssumption
  <1> QED BY <1>1 DEF header_size, AtLeast, CodeEnd

(* A section never claims more than what is left of the body.              *)
LEMMA SectionFits ==
  ASSUME body \in Bodies, position \in Nat, remaining >= 0,
         NEW h \in HeadersAt(Aligned(position))
  PROVE  /\ h \in SectionHeaders
         /\ BodySize(h) \in Nat
         /\ Aligned(position) + 4 + BodySize(h) <= body.len
  <1>1. h \in SectionHeaders
    BY BodiesAssumption DEF HeadersAt
  <1>2. remaining \in Nat /\ Aligned(position) + 4 + remaining = body.len
    BY BodyTypes, AlignedIsAhead DEF remaining
  <1>3. h.data_size \in Nat
    BY <1>1 DEF SectionHeaders
  <1>4. DeclaredSize(h) \in Nat
    BY <1>3 DEF DeclaredSize, SpecSize
  <1>5. BodySize(h) \in Nat /\ BodySize(h) <= remaining
    BY <1>2, <1>4 DEF BodySize, Overruns
  <1> QED BY <1>1, <1>2, <1>5, AlignedIsAhead

(* The frontiers are never ahead of the reader.                            *)
LEMMA FrontiersInBody ==
  ASSUME Inv
  PROVE  /\ Frontier \in Nat /\ RawFrontier \in Nat
         /\ Frontier <= position /\ RawFrontier <= position
  <1>1. CASE pc = "clauses"
    <2>1. /\ section.start \in Nat /\ section.size \in Nat /\ section.fat \in BOOLEAN
          /\ position = section.start + 4 + section.size
      BY <1>1 DEF Inv, TypeOK, SectionPlaced
    <2>2. clause * ClauseSize(section) \in Nat /\ clause * ClauseSize(section) <= section.size
      <3>1. clause \in 0..(section.size \div ClauseSize(section))
        BY DEF Inv, TypeOK, count
      <3>2. section.fat \in BOOLEAN /\ section.size \in Nat
        BY <2>1
      <3> HIDE DEF ClauseSize
      <3> QED BY ONLY <3>1, <3>2, ClausesFit
    <2> QED BY <1>1, <2>1, <2>2 DEF Frontier, RawFrontier
  <1>2. CASE pc # "clauses"
    BY <1>2, BodyTypes DEF Inv, TypeOK, Frontier, RawFrontier
  <1> QED BY <1>1, <1>2

(* What lies behind an offset lies behind every later one.                 *)
LEMMA BehindGrows ==
  ASSUME NEW ranges \in Seq(Nat \X Nat), NEW p \in Nat, NEW q \in Nat, p <= q,
         Behind(ranges, p)
  PROVE  Behind(ranges, q)
  <1> SUFFICES ASSUME NEW k \in DOMAIN ranges PROVE ranges[k][2] <= q
    BY DEF Behind
  <1>1. ranges[k] \in Nat \X Nat
    OBVIOUS
  <1>2. ranges[k][2] <= p /\ ranges[k][2] \in Nat
    BY <1>1 DEF Behind
  <1> QED BY <1>2

-------------------------------------------------------------------------------
(* The invariant                                                           *)

(* Nothing is read before the header.                                      *)
LEMMA InvInit == Init => Inv
  BY BodyTypes, BodiesAssumption
     DEF Init, Inv, TypeOK, NoSection, count, ClauseSize, SectionPlaced, Behind, InOrder

(* The header fixes where the code ends; nothing else has been read.       *)
LEMMA HeaderKeepsInv ==
  ASSUME Inv, ParseUnreadable \/ ParseTiny \/ ParseFatStrict \/ ParseFat
  PROVE  Inv'
  <1>1. body' = body /\ handlers' = handlers /\ unknown' = unknown /\ section' = section
        /\ clause' = clause /\ pc = "header"
    BY DEF ParseUnreadable, ParseTiny, ParseFatStrict, ParseFat
  <1>2. pc' \in {"section", "done", "rejected"}
    BY DEF ParseUnreadable, ParseTiny, ParseFatStrict, ParseFat, Reject
  <1>3. position' \in 0..body.len /\ (pc' = "section" => CodeEnd <= position')
    <2>1. CASE ParseUnreadable \/ ParseFatStrict
      BY <2>1 DEF ParseUnreadable, ParseFatStrict, Reject, Inv, TypeOK
    <2>2. CASE ParseTiny
      <3>1. body.code_size \in Nat /\ body.len \in Nat
        BY BodiesAssumption DEF Inv
      <3> QED BY <2>2, <3>1 DEF ParseTiny, Readable
    <2>3. CASE ParseFat
      <3>1. header_size + body.code_size \in Nat /\ body.len \in Nat
        BY BodyTypes DEF Inv, CodeEnd
      <3> QED BY <2>3, <3>1 DEF ParseFat, Readable, CodeEnd
    <2> QED BY <2>1, <2>2, <2>3
  <1>4. TypeOK'
    BY <1>1, <1>2, <1>3
       DEF Inv, TypeOK, count, ClauseSize, ParseUnreadable, ParseTiny, ParseFatStrict, ParseFat, Reject
  <1>5. SectionPlaced'
    BY <1>1, <1>2, <1>3 DEF SectionPlaced, CodeEnd, header_size
  <1>6. handlers = << >> /\ unknown = << >>
    BY <1>1 DEF Inv
  <1> QED BY <1>1, <1>2, <1>4, <1>5, <1>6 DEF Inv, InOrder, Behind, CodeEnd, header_size

(* A step that reads no section and no clause moves neither the reader nor *)
(* the ranges.                                                             *)
LEMMA NothingReadKeepsInv ==
  ASSUME Inv,
         SectionCutShort \/ SectionRejected \/ ReadBadClause \/ ClausesDone \/ Chain
           \/ UNCHANGED vars
  PROVE  Inv'
  <1>1. CASE UNCHANGED vars
    BY <1>1 DEF Inv, vars, TypeOK, count, ClauseSize, SectionPlaced, CodeEnd, header_size,
                Behind, InOrder, Frontier, RawFrontier
  <1>2. ASSUME SectionCutShort \/ SectionRejected \/ ReadBadClause \/ ClausesDone \/ Chain
        PROVE Inv'
    <2>1. /\ body' = body /\ handlers' = handlers /\ unknown' = unknown /\ section' = section
          /\ clause' = clause /\ position' = position /\ strict' = strict
      BY <1>2 DEF SectionCutShort, SectionRejected, ReadBadClause, ClausesDone, Chain
    <2>2. /\ pc \in {"section", "clauses", "chain"}
          /\ pc' \in {"section", "chain", "done", "rejected"}
          /\ pc' = "chain" => pc = "clauses"
          /\ pc' = "section" => pc = "chain"
          /\ error' \in {"none", "Truncated", "OutOfRange", "Malformed"}
      BY <1>2 DEF SectionCutShort, SectionRejected, ReadBadClause, ClausesDone, Chain, Reject,
                  Inv, TypeOK
    <2>3. TypeOK'
      BY <2>1, <2>2 DEF Inv, TypeOK, count, ClauseSize
    <2>4. SectionPlaced'
      <3>1. CodeEnd' = CodeEnd
        BY <2>1 DEF CodeEnd, header_size
      <3>2. pc' = "section" => CodeEnd <= position
        BY <2>2, BodyTypes DEF Inv, SectionPlaced, TypeOK
      <3> QED BY <2>1, <2>2, <3>1, <3>2 DEF Inv, SectionPlaced
    <2>5. Frontier \in Nat /\ RawFrontier \in Nat /\ Frontier <= position /\ RawFrontier <= position
      BY FrontiersInBody
    <2>6. Frontier' = position /\ RawFrontier' = position
      BY <2>1, <2>2 DEF Frontier, RawFrontier
    <2>7. Behind(handlers, position) /\ Behind(unknown, position)
      BY <2>5, BehindGrows DEF Inv, TypeOK
    <2> QED BY <2>1, <2>2, <2>3, <2>4, <2>6, <2>7 DEF Inv, Behind, InOrder, CodeEnd, header_size
  <1> QED BY <1>1, <1>2

(* A range behind all others is appended without disturbing their order.   *)
LEMMA AppendBehind ==
  ASSUME NEW ranges \in Seq(Nat \X Nat), NEW a \in Nat, NEW b \in Nat, NEW p \in Nat,
         Behind(ranges, p), InOrder(ranges), p <= a, a <= b
  PROVE  /\ Append(ranges, <<a, b>>) \in Seq(Nat \X Nat)
         /\ InOrder(Append(ranges, <<a, b>>))
         /\ Behind(Append(ranges, <<a, b>>), b)
  <1> DEFINE longer == Append(ranges, <<a, b>>)
  <1>1. Behind(ranges, a) /\ Behind(ranges, b)
    BY BehindGrows
  <1>2. /\ Len(longer) = Len(ranges) + 1 /\ Len(ranges) \in Nat
        /\ DOMAIN ranges = 1..Len(ranges) /\ DOMAIN longer = 1..(Len(ranges) + 1)
        /\ \A k \in 1..Len(ranges) : longer[k] = ranges[k]
        /\ longer[Len(ranges) + 1] = <<a, b>>
    OBVIOUS
  <1>3. longer \in Seq(Nat \X Nat)
    OBVIOUS
  <1>4. InOrder(longer)
    <2> SUFFICES ASSUME NEW j \in DOMAIN longer, NEW k \in DOMAIN longer, j < k
                 PROVE longer[j][2] <= longer[k][1]
      BY DEF InOrder
    <2> HIDE DEF longer
    <2>1. j \in 1..Len(ranges) /\ longer[j] = ranges[j]
      BY <1>2
    <2>2. CASE k = Len(ranges) + 1
      BY <1>1, <1>2, <2>1, <2>2 DEF Behind
    <2>3. CASE k # Len(ranges) + 1
      <3>1. k \in 1..Len(ranges) /\ longer[k] = ranges[k]
        BY <1>2, <2>3
      <3> QED BY <1>2, <2>1, <3>1 DEF InOrder
    <2> QED BY <2>2, <2>3
  <1>5. Behind(longer, b)
    <2> SUFFICES ASSUME NEW k \in DOMAIN longer PROVE longer[k][2] <= b
      BY DEF Behind
    <2> HIDE DEF longer
    <2>1. CASE k = Len(ranges) + 1
      BY <1>2, <2>1
    <2>2. CASE k # Len(ranges) + 1
      BY <1>1, <1>2, <2>2 DEF Behind
    <2> QED BY <2>1, <2>2
  <1> QED BY <1>3, <1>4, <1>5

(* A section is entered behind everything read so far; a raw one is        *)
(* appended whole.                                                         *)
LEMMA TakeSectionKeepsInv ==
  ASSUME Inv, TakeSection
  PROVE  Inv'
  <1> DEFINE start == Aligned(position)
  <1>1. /\ pc = "section" /\ remaining >= 0 /\ clause' = 0 /\ body' = body /\ strict' = strict
        /\ error' = error /\ handlers' = handlers
    BY DEF TakeSection
  <1>2. PICK h \in HeadersAt(start) :
          /\ position' = start + 4 + BodySize(h)
          /\ section' = [eh |-> h.eh, fat |-> h.fat, more |-> h.more,
                         start |-> start, size |-> BodySize(h)]
          /\ unknown' = IF h.eh THEN unknown ELSE Append(unknown, <<start + 4, position'>>)
          /\ pc' = IF h.eh THEN "clauses" ELSE "chain"
    BY DEF TakeSection
  <1>3. body.len \in Nat /\ CodeEnd \in Nat /\ position \in Nat /\ body \in Bodies
    BY BodyTypes DEF Inv, TypeOK
  <1>4. h \in SectionHeaders /\ BodySize(h) \in Nat /\ start + 4 + BodySize(h) <= body.len
    BY <1>1, <1>3, SectionFits
  <1>5. start \in Nat /\ position <= start
    BY <1>3, AlignedIsAhead
  <1>6. position' \in 0..body.len /\ position' \in Nat /\ start <= position' /\ start + 4 <= position'
    BY <1>2, <1>3, <1>4, <1>5
  <1>7. CodeEnd <= position /\ CodeEnd' = CodeEnd
    BY <1>1 DEF Inv, SectionPlaced, CodeEnd, header_size
  <1> HIDE DEF start
  <1>8. SectionPlaced'
    BY <1>2, <1>3, <1>5, <1>7 DEF SectionPlaced
  <1>9. Behind(handlers, start) /\ Behind(unknown, start) /\ InOrder(unknown) /\ InOrder(handlers)
        /\ handlers \in Seq(Nat \X Nat) /\ unknown \in Seq(Nat \X Nat)
    <2>1. Frontier = position /\ RawFrontier = position
      BY <1>1 DEF Frontier, RawFrontier
    <2>2. Behind(handlers, position) /\ Behind(unknown, position)
      BY <2>1 DEF Inv
    <2> QED BY <1>3, <1>5, <2>2, BehindGrows DEF Inv, TypeOK
  <1>10. (count \in Nat)'
    <2>1. section'.size \in Nat /\ section'.fat \in BOOLEAN
      BY <1>2, <1>4 DEF SectionHeaders
    <2> QED BY <2>1 DEF count, ClauseSize
  <1>11. CASE h.eh
    <2>1. unknown' = unknown /\ pc' = "clauses"
      BY <1>2, <1>11
    <2>2. TypeOK'
      BY <1>1, <1>2, <1>4, <1>5, <1>6, <1>10, <2>1 DEF Inv, TypeOK, SectionHeaders
    <2>3. start <= Frontier' /\ Frontier' = start + 4 /\ RawFrontier' = start
      BY <1>1, <1>2, <1>4, <1>5, <2>1 DEF Frontier, RawFrontier, ClauseSize
    <2>4. Behind(handlers, Frontier)' /\ Behind(unknown, RawFrontier)'
      BY <1>1, <1>5, <1>9, <2>1, <2>3, BehindGrows DEF Behind
    <2> QED BY <1>1, <1>7, <1>8, <2>1, <2>2, <2>4 DEF Inv, InOrder
  <1>12. CASE ~h.eh
    <2>1. unknown' = Append(unknown, <<start + 4, position'>>) /\ pc' = "chain"
      BY <1>2, <1>12
    <2>2. /\ unknown' \in Seq(Nat \X Nat) /\ InOrder(unknown') /\ Behind(unknown', position')
      BY <1>5, <1>6, <1>9, <2>1, AppendBehind
    <2>3. TypeOK'
      BY <1>1, <1>2, <1>4, <1>5, <1>6, <1>10, <2>1, <2>2 DEF Inv, TypeOK, SectionHeaders
    <2>4. Frontier' = position' /\ RawFrontier' = position'
      BY <2>1 DEF Frontier, RawFrontier
    <2>5. Behind(handlers, position')
      BY <1>5, <1>6, <1>9, BehindGrows
    <2>6. ASSUME NEW j \in DOMAIN handlers, NEW k \in DOMAIN unknown'
          PROVE handlers[j][2] <= unknown'[k][1] \/ unknown'[k][2] <= handlers[j][1]
      <3>1. CASE k \in DOMAIN unknown
        <4>1. unknown'[k] = unknown[k]
          BY <1>9, <2>1, <3>1
        <4> QED BY <3>1, <4>1 DEF Inv
      <3>2. CASE k \notin DOMAIN unknown
        <4>1. unknown'[k] = <<start + 4, position'>>
          BY <1>9, <2>1, <3>2
        <4>2. handlers[j][2] <= start /\ handlers[j] \in Nat \X Nat
          BY <1>9 DEF Behind
        <4> QED BY <1>5, <4>1, <4>2
      <3> QED BY <3>1, <3>2
    <2> QED
      BY <1>1, <1>7, <1>8, <1>9, <2>1, <2>2, <2>3, <2>4, <2>5, <2>6 DEF Inv, InOrder, Behind
  <1> QED BY <1>11, <1>12

(* A clause is cut from the section behind the clauses before it.          *)
LEMMA ReadClauseKeepsInv ==
  ASSUME Inv, ReadClause
  PROVE  Inv'
  <1> DEFINE at == section.start + 4 + clause * ClauseSize(section)
             end == at + ClauseSize(section)
  <1>1. /\ pc = "clauses" /\ pc' = pc /\ clause' = clause + 1 /\ body' = body /\ strict' = strict
        /\ error' = error /\ position' = position /\ section' = section /\ unknown' = unknown
        /\ handlers' = Append(handlers, <<at, end>>) /\ clause < count
    BY DEF ReadClause, Clause
  <1>2. /\ section.start \in Nat /\ section.size \in Nat /\ section.fat \in BOOLEAN
        /\ CodeEnd <= section.start /\ CodeEnd \in Nat
    BY <1>1, BodyTypes DEF Inv, TypeOK, SectionPlaced
  <1>3. clause \in Nat /\ clause + 1 \in 0..count /\ clause * ClauseSize(section) \in Nat
        /\ ClauseSize(section) \in Nat
        /\ (clause + 1) * ClauseSize(section) = clause * ClauseSize(section) + ClauseSize(section)
    <2>1. count \in Nat
      BY <1>2 DEF count, ClauseSize
    <2>2. clause \in Nat /\ clause + 1 \in 0..count
      BY <1>1, <2>1 DEF Inv, TypeOK
    <2> QED BY <1>2, <2>2 DEF ClauseSize
  <1>4. at \in Nat /\ end \in Nat /\ at <= end /\ section.start + 4 <= at
    BY <1>2, <1>3
  <1>5. Frontier = at /\ Frontier' = end /\ RawFrontier' = section.start /\ RawFrontier = section.start
    BY <1>1, <1>2, <1>3 DEF Frontier, RawFrontier
  <1> HIDE DEF at, end
  <1>6. /\ Behind(handlers, at) /\ InOrder(handlers) /\ handlers \in Seq(Nat \X Nat)
        /\ unknown \in Seq(Nat \X Nat) /\ Behind(unknown, section.start)
    BY <1>5 DEF Inv, TypeOK
  <1>7. handlers' \in Seq(Nat \X Nat) /\ InOrder(handlers') /\ Behind(handlers', end)
    BY <1>1, <1>4, <1>6, AppendBehind
  <1>8. TypeOK'
    BY <1>1, <1>3, <1>7 DEF Inv, TypeOK, count
  <1>9. SectionPlaced' /\ CodeEnd' = CodeEnd
    BY <1>1 DEF Inv, SectionPlaced, CodeEnd, header_size
  <1>10. ASSUME NEW j \in DOMAIN handlers'
         PROVE /\ CodeEnd <= handlers'[j][1]
               /\ \A k \in DOMAIN unknown :
                    handlers'[j][2] <= unknown[k][1] \/ unknown[k][2] <= handlers'[j][1]
    <2>1. CASE j \in DOMAIN handlers
      <3>1. handlers'[j] = handlers[j]
        BY <1>1, <1>6, <2>1
      <3> QED BY <2>1, <3>1 DEF Inv
    <2>2. CASE j \notin DOMAIN handlers
      <3>1. handlers'[j] = <<at, end>>
        BY <1>1, <1>6, <2>2
      <3>2. ASSUME NEW k \in DOMAIN unknown PROVE unknown[k][2] <= at
        <4>1. unknown[k][2] <= section.start /\ unknown[k] \in Nat \X Nat
          BY <1>6 DEF Behind
        <4> QED BY <1>2, <1>4, <4>1
      <3> QED BY <1>2, <1>4, <3>1, <3>2
    <2> QED BY <2>1, <2>2
  <1> QED BY <1>1, <1>5, <1>6, <1>7, <1>8, <1>9, <1>10 DEF Inv, InOrder, Behind

(* Every step keeps the invariant.                                         *)
LEMMA InvNext == Inv /\ [Next]_vars => Inv'
  BY HeaderKeepsInv, NothingReadKeepsInv, TakeSectionKeepsInv, ReadClauseKeepsInv DEF Next

(* The reader never passes the end of the body, and every vector keeps its *)
(* type.                                                                   *)
THEOREM TypeCorrect == Spec => []TypeOK
  <1>1. Inv => TypeOK
    BY DEF Inv
  <1> QED BY <1>1, InvInit, InvNext, PTL DEF Spec

(* Whatever the section sizes say, no byte is read twice: clauses and raw  *)
(* sections are apart, in file order, behind the code and in the body      *)
(* (body.rs:387-480).                                                      *)
THEOREM NothingIsReadTwice == Spec => []ClausesApart
  <1>1. Inv => ClausesApart
    <2> SUFFICES ASSUME Inv PROVE ClausesApart
      OBVIOUS
    <2>1. Frontier \in Nat /\ Frontier <= position /\ position \in Nat
      BY FrontiersInBody, BodyTypes DEF Inv, TypeOK
    <2>2. Behind(handlers, position)
      BY <2>1, BehindGrows DEF Inv, TypeOK
    <2>3. DOMAIN handlers = 1..Len(handlers) /\ DOMAIN unknown = 1..Len(unknown)
      BY DEF Inv, TypeOK
    <2> QED BY <2>2, <2>3 DEF Inv, ClausesApart, InOrder, Behind
  <1> QED BY <1>1, InvInit, InvNext, PTL DEF Spec

-------------------------------------------------------------------------------
(* Intact bodies                                                           *)

(* Where the parse of an intact body stands: at, in or behind the k-th     *)
(* section its writer put there, with the clauses before it read.          *)
AtChunk(k) ==
  LET c == body.chain[k]
      h == body.section[c.start]
  IN  \/ pc = "section" /\ Aligned(position) = c.start /\ Len(handlers) = c.before
      \/ /\ pc \in {"clauses", "chain"}
         /\ section = [eh |-> h.eh, fat |-> h.fat, more |-> h.more,
                       start |-> c.start, size |-> c.size]
         /\ position = ChunkEnd(c)
         /\ IF pc = "clauses" THEN h.eh /\ Len(handlers) = c.before + clause
            ELSE Len(handlers) = c.before + ClausesIn(body, c)

Recovering ==
  body.intact =>
    /\ \A n \in DOMAIN handlers : handlers[n] = body.written[n]
    /\ pc = "header" => diagnostics = {}
    /\ pc \in {"section", "clauses", "chain"} => \E k \in DOMAIN body.chain : AtChunk(k)
    /\ pc = "done" => Len(handlers) = Len(body.written)
    /\ pc = "rejected" => strict /\ ~body.conforming
    /\ body.conforming => diagnostics = {}

(* What the assumption says of one section of an intact body.              *)
LEMMA ChunkTypes ==
  ASSUME body \in Bodies, body.intact, NEW k \in DOMAIN body.chain
  PROVE  /\ body.chain \in Seq(Chunks) /\ body.chain[k] \in Chunks
         /\ body.section[body.chain[k].start] \in SectionHeaders
         /\ LaidOut(body, k)
  <1>1. body.chain \in Seq(Chunks) /\ Intact(body)
        /\ \A p \in DOMAIN body.section : body.section[p] \in SectionHeaders
    BY BodiesAssumption
  <1>2. LaidOut(body, k)
    BY <1>1 DEF Intact
  <1>3. body.chain[k].start \in DOMAIN body.section
    BY <1>2 DEF LaidOut
  <1> QED BY <1>1, <1>2, <1>3

(* The arithmetic of parse_sections finds the size that was written: four  *)
(* less than whole clauses are never whole clauses.                        *)
LEMMA SizeIsRecovered ==
  ASSUME body \in Bodies, body.intact, NEW k \in DOMAIN body.chain,
         position \in Nat, Aligned(position) = body.chain[k].start
  PROVE  LET c == body.chain[k]
             h == body.section[c.start]
         IN  /\ HeadersAt(Aligned(position)) = {h}
             /\ remaining >= 0 /\ BodySize(h) = c.size
             /\ Inconsistent(h) => c.omits
             /\ ~Overruns(h) /\ ~PartialClause(h)
  <1> DEFINE c == body.chain[k]
             h == body.section[c.start]
  <1>1. /\ c.start \in Nat /\ c.size \in Nat /\ c.omits \in BOOLEAN
        /\ h.eh \in BOOLEAN /\ h.fat \in BOOLEAN /\ h.data_size \in Nat
    BY ChunkTypes DEF Chunks, SectionHeaders
  <1>2. /\ c.start + 4 + c.size <= body.len
        /\ h.data_size = c.size + (IF c.omits THEN 0 ELSE 4)
        /\ h.eh => c.size % ClauseSize(h) = 0
        /\ c.omits => h.eh
        /\ c.start \in DOMAIN body.section
    BY ChunkTypes DEF LaidOut, ChunkEnd
  <1>3. HeadersAt(Aligned(position)) = {h}
    BY <1>2 DEF HeadersAt
  <1>4. body.len \in Nat
    BY BodyTypes
  <1> HIDE DEF c, h
  <1>5. remaining \in Nat /\ c.size <= remaining
    BY <1>1, <1>2, <1>4 DEF remaining, c
  <1>6. CASE ~c.omits
    <2>1. h.data_size = c.size + 4 /\ SpecSize(h) = c.size
      BY <1>1, <1>2, <1>6 DEF SpecSize
    <2>2. ~OmitsHeader(h)
      BY <1>2, <2>1 DEF OmitsHeader
    <2>3. ~Overruns(h) /\ BodySize(h) = c.size
      BY <1>1, <1>5, <2>1, <2>2 DEF DeclaredSize, Overruns, BodySize
    <2>4. ~PartialClause(h)
      BY <1>2, <2>3 DEF PartialClause
    <2> QED BY <1>3, <1>5, <2>2, <2>3, <2>4 DEF Inconsistent, c, h
  <1>7. CASE c.omits
    <2>1. h.data_size = c.size /\ h.eh /\ c.size % ClauseSize(h) = 0
      BY <1>1, <1>2, <1>7
    <2>2. CASE c.size = 0
      <3>1. DeclaredSize(h) = 0
        BY <2>1, <2>2 DEF DeclaredSize, SpecSize
      <3> QED BY <1>3, <1>5, <1>7, <2>1, <2>2, <3>1
              DEF Overruns, BodySize, PartialClause, Inconsistent, c, h
    <2>3. CASE c.size # 0
      <3>1. SpecSize(h) % ClauseSize(h) # 0
        <4>1. CASE h.fat
          BY <1>1, <2>1, <2>3, <4>1 DEF SpecSize, ClauseSize
        <4>2. CASE ~h.fat
          BY <1>1, <2>1, <2>3, <4>2 DEF SpecSize, ClauseSize
        <4> QED BY <4>1, <4>2
      <3>2. OmitsHeader(h)
        BY <1>5, <2>1, <3>1 DEF OmitsHeader
      <3>3. DeclaredSize(h) = c.size
        BY <2>1, <3>2 DEF DeclaredSize
      <3> QED BY <1>1, <1>3, <1>5, <1>7, <2>1, <3>3
              DEF Overruns, BodySize, PartialClause, Inconsistent, c, h
    <2> QED BY <2>2, <2>3
  <1> QED BY <1>1, <1>6, <1>7

(* A body being read is intact as long as it is the same body.             *)
LEMMA RecoveringInit == Init => Recovering
  BY DEF Init, Recovering

(* The header of an intact body is accepted, and the chain begins behind   *)
(* its code.                                                               *)
LEMMA HeaderRecovers ==
  ASSUME Inv, Recovering, ParseUnreadable \/ ParseTiny \/ ParseFatStrict \/ ParseFat
  PROVE  Recovering'
  <1>1. body' = body /\ handlers' = handlers /\ pc = "header" /\ handlers = << >>
        /\ strict' = strict /\ body \in Bodies
    BY DEF ParseUnreadable, ParseTiny, ParseFatStrict, ParseFat, Inv
  <1> SUFFICES ASSUME body.intact PROVE Recovering'
    BY <1>1 DEF Recovering
  <1>2. Intact(body) /\ body.chain \in Seq(Chunks) /\ body.len \in Nat /\ body.code_size \in Nat
        /\ body.written \in Seq(Nat \X Nat)
    BY <1>1, BodiesAssumption
  <1>3. Readable /\ ~(body.format = "fat" /\ FatDeviates)
    <2>1. body.format = "fat" => header_size = 12
      BY <1>2 DEF Intact, header_size, AtLeast
    <2> QED BY <1>2, <2>1 DEF Intact, Readable, FatDeviates
  <1>4. diagnostics = {}
    BY <1>1 DEF Recovering
  <1>5. CASE ParseTiny
    <2>1. pc' = "done" /\ diagnostics' = diagnostics /\ body.chain = << >>
      BY <1>2, <1>5 DEF ParseTiny, Intact
    <2>2. Len(body.written) = 0
      BY <1>2, <2>1 DEF Intact
    <2> QED BY <1>1, <1>4, <2>1, <2>2 DEF Recovering
  <1>6. CASE ParseFat
    <2>1. /\ body.header_dwords = 3 /\ header_size = 12 /\ position' = 12 + body.code_size
          /\ body.more_sects <=> body.chain # << >>
      BY <1>2, <1>6 DEF ParseFat, Intact, header_size, AtLeast
    <2>2. diagnostics' = {}
      BY <1>6, <2>1 DEF ParseFat
    <2>3. CASE body.more_sects
      <3>1. pc' = "section"
        BY <1>6, <2>3 DEF ParseFat
      <3>2. 1 \in DOMAIN body.chain
        BY <1>2, <2>1, <2>3
      <3>3. LaidOut(body, 1)
        BY <1>2, <3>2 DEF Intact
      <3>4. body.chain[1].start = Aligned(12 + body.code_size) /\ body.chain[1].before = 0
        BY <3>3 DEF LaidOut
      <3>5. AtChunk(1)'
        BY <1>1, <2>1, <3>1, <3>4 DEF AtChunk, Aligned
      <3> QED BY <1>1, <2>2, <3>1, <3>2, <3>5 DEF Recovering
    <2>4. CASE ~body.more_sects
      <3>1. pc' = "done"
        BY <1>6, <2>4 DEF ParseFat
      <3>2. Len(body.written) = 0
        BY <1>2, <2>1, <2>4 DEF Intact
      <3> QED BY <1>1, <2>2, <3>1, <3>2 DEF Recovering
    <2> QED BY <2>3, <2>4
  <1>7. ~ParseUnreadable /\ ~ParseFatStrict
    BY <1>3 DEF ParseUnreadable, ParseFatStrict
  <1> QED BY <1>5, <1>6, <1>7

(* Between sections the section is the one written there: it is taken as   *)
(* written, and refused only for what its size leaves out.                 *)
LEMMA SectionRecovers ==
  ASSUME Inv, Recovering, SectionCutShort \/ SectionRejected \/ TakeSection
  PROVE  Recovering'
  <1>1. body' = body /\ handlers' = handlers /\ pc = "section" /\ strict' = strict
        /\ body \in Bodies /\ position \in Nat
    BY BodyTypes DEF SectionCutShort, SectionRejected, TakeSection, Inv, TypeOK
  <1> SUFFICES ASSUME body.intact PROVE Recovering'
    BY <1>1 DEF Recovering
  <1>2. PICK k \in DOMAIN body.chain : AtChunk(k)
    BY <1>1 DEF Recovering
  <1> DEFINE c == body.chain[k]
             h == body.section[c.start]
  <1>3. Aligned(position) = c.start /\ Len(handlers) = c.before
    BY <1>1, <1>2 DEF AtChunk
  <1>4. /\ HeadersAt(Aligned(position)) = {h} /\ remaining >= 0 /\ BodySize(h) = c.size
        /\ Inconsistent(h) => c.omits
    BY <1>1, <1>3, SizeIsRecovered
  <1>5. /\ c \in Chunks /\ h \in SectionHeaders
        /\ c.omits => ~body.conforming
    BY <1>1, ChunkTypes DEF LaidOut
  <1> HIDE DEF c, h
  <1>6. ~SectionCutShort
    <2>1. remaining \in Int
      BY <1>1, BodyTypes, AlignedIsAhead DEF remaining
    <2> QED BY <1>4, <2>1 DEF SectionCutShort
  <1>7. CASE SectionRejected
    <2>1. strict /\ Inconsistent(h) /\ pc' = "rejected" /\ diagnostics' = diagnostics
      BY <1>4, <1>7 DEF SectionRejected, Reject
    <2> QED BY <1>1, <1>4, <1>5, <2>1 DEF Recovering
  <1>8. CASE TakeSection
    <2>1. /\ Diagnose(h) /\ position' = c.start + 4 + c.size /\ clause' = 0
          /\ section' = [eh |-> h.eh, fat |-> h.fat, more |-> h.more,
                         start |-> c.start, size |-> c.size]
          /\ pc' = IF h.eh THEN "clauses" ELSE "chain"
      BY <1>3, <1>4, <1>8 DEF TakeSection
    <2>2. body.conforming => diagnostics' = {}
      <3>1. body.conforming => ~Inconsistent(h) /\ diagnostics = {}
        BY <1>4, <1>5 DEF Recovering
      <3> QED BY <2>1, <3>1 DEF Diagnose, Inconsistent
    <2>3. c.before \in Nat /\ h.eh \in BOOLEAN
      BY <1>5 DEF Chunks, SectionHeaders
    <2>4. ~h.eh => ClausesIn(body, c) = 0
      BY DEF ClausesIn, h
    <2>5. AtChunk(k)'
      <3>1. CASE h.eh
        BY <1>1, <1>3, <2>1, <2>3, <3>1 DEF AtChunk, ChunkEnd, c, h
      <3>2. CASE ~h.eh
        BY <1>1, <1>3, <2>1, <2>3, <2>4, <3>2 DEF AtChunk, ChunkEnd, c, h
      <3> QED BY <3>1, <3>2
    <2>6. pc' \in {"clauses", "chain"}
      BY <2>1
    <2> QED BY <1>1, <2>2, <2>5, <2>6 DEF Recovering
  <1> QED BY <1>6, <1>7, <1>8

(* Every clause read is the next one written.                              *)
LEMMA ClausesRecover ==
  ASSUME Inv, Recovering, ReadClause \/ ReadBadClause \/ ClausesDone
  PROVE  Recovering'
  <1>1. /\ body' = body /\ pc = "clauses" /\ strict' = strict /\ diagnostics' = diagnostics
        /\ section' = section /\ position' = position /\ body \in Bodies
        /\ handlers \in Seq(Nat \X Nat) /\ clause \in 0..count
    BY DEF ReadClause, ReadBadClause, ClausesDone, Inv, TypeOK
  <1> SUFFICES ASSUME body.intact PROVE Recovering'
    BY <1>1 DEF Recovering
  <1>2. PICK k \in DOMAIN body.chain : AtChunk(k)
    BY <1>1 DEF Recovering
  <1> DEFINE c == body.chain[k]
             h == body.section[c.start]
  <1>3. /\ section = [eh |-> h.eh, fat |-> h.fat, more |-> h.more,
                      start |-> c.start, size |-> c.size]
        /\ position = ChunkEnd(c) /\ h.eh /\ Len(handlers) = c.before + clause
    BY <1>1, <1>2 DEF AtChunk
  <1>4. c \in Chunks /\ h \in SectionHeaders /\ LaidOut(body, k)
    BY <1>1, ChunkTypes
  <1>5. c.start \in Nat /\ c.size \in Nat /\ c.before \in Nat
    BY <1>4 DEF Chunks
  <1>6. ClauseSize(section) = ClauseSize(h) /\ count = ClausesIn(body, c) /\ count \in Nat
    BY <1>3, <1>4, <1>5 DEF ClauseSize, count, ClausesIn, SectionHeaders
  <1>7. \A n \in 1..ClausesIn(body, c) :
          body.written[c.before + n] = <<c.start + 4 + (n - 1) * ClauseSize(h),
                                         c.start + 4 + n * ClauseSize(h)>>
    BY <1>4 DEF LaidOut
  <1> HIDE DEF c, h
  <1>8. CASE ReadClause
    <2>1. /\ pc' = pc /\ clause' = clause + 1 /\ clause + 1 \in 1..count /\ clause \in Nat
          /\ handlers' = Append(handlers, Clause)
      BY <1>1, <1>6, <1>8 DEF ReadClause
    <2>2. section.start = c.start
      BY <1>3
    <2>3. Clause = body.written[c.before + (clause + 1)]
      <3>1. clause * ClauseSize(h) + ClauseSize(h) = (clause + 1) * ClauseSize(h)
            /\ clause * ClauseSize(h) \in Nat /\ ClauseSize(h) \in Nat
        BY <2>1 DEF ClauseSize
      <3>2. Clause = <<c.start + 4 + clause * ClauseSize(h),
                       c.start + 4 + clause * ClauseSize(h) + ClauseSize(h)>>
        BY <1>6, <2>2 DEF Clause
      <3>3. body.written[c.before + (clause + 1)]
              = <<c.start + 4 + ((clause + 1) - 1) * ClauseSize(h),
                  c.start + 4 + (clause + 1) * ClauseSize(h)>>
        BY <1>6, <1>7, <2>1
      <3>4. (clause + 1) - 1 = clause
        BY <2>1
      <3> QED BY <1>5, <3>1, <3>2, <3>3, <3>4
    <2>4. /\ Len(handlers') = Len(handlers) + 1 /\ DOMAIN handlers' = 1..(Len(handlers) + 1)
          /\ DOMAIN handlers = 1..Len(handlers) /\ Len(handlers) \in Nat
          /\ handlers'[Len(handlers) + 1] = Clause
          /\ \A n \in 1..Len(handlers) : handlers'[n] = handlers[n]
      BY <1>1, <2>1
    <2>5. Len(handlers) + 1 = c.before + (clause + 1)
      BY <1>3, <1>5, <2>1
    <2>6. \A n \in DOMAIN handlers' : handlers'[n] = body.written[n]
      BY <2>3, <2>4, <2>5 DEF Recovering
    <2>7. AtChunk(k)'
      BY <1>1, <1>3, <2>1, <2>4, <2>5 DEF AtChunk, c, h
    <2> QED BY <1>1, <2>1, <2>6, <2>7 DEF Recovering
  <1>9. CASE ClausesDone
    <2>1. pc' = "chain" /\ clause = count /\ handlers' = handlers /\ clause' = clause
      BY <1>9 DEF ClausesDone
    <2>2. AtChunk(k)'
      BY <1>1, <1>3, <1>6, <2>1 DEF AtChunk, c, h
    <2> QED BY <1>1, <2>1, <2>2 DEF Recovering
  <1>10. ~ReadBadClause
    BY DEF ReadBadClause
  <1> QED BY <1>8, <1>9, <1>10

(* The more bit leads to the next section written, or to the end.          *)
LEMMA ChainRecovers ==
  ASSUME Inv, Recovering, Chain
  PROVE  Recovering'
  <1>1. /\ body' = body /\ pc = "chain" /\ strict' = strict /\ diagnostics' = diagnostics
        /\ section' = section /\ position' = position /\ handlers' = handlers
        /\ body \in Bodies
    BY DEF Chain, Inv
  <1> SUFFICES ASSUME body.intact PROVE Recovering'
    BY <1>1 DEF Recovering
  <1>2. PICK k \in DOMAIN body.chain : AtChunk(k)
    BY <1>1 DEF Recovering
  <1> DEFINE c == body.chain[k]
             h == body.section[c.start]
  <1>3. /\ section.more = h.more /\ position = ChunkEnd(c)
        /\ Len(handlers) = c.before + ClausesIn(body, c)
    BY <1>1, <1>2 DEF AtChunk
  <1>4. /\ LaidOut(body, k) /\ body.chain \in Seq(Chunks) /\ Intact(body)
    BY <1>1, ChunkTypes, BodiesAssumption
  <1>5. (h.more <=> k < Len(body.chain)) /\ (h.more => ChunkEnd(c) < body.len)
    BY <1>4 DEF LaidOut
  <1> HIDE DEF c, h
  <1>6. CASE h.more
    <2>1. pc' = "section"
      BY <1>1, <1>3, <1>5, <1>6 DEF Chain
    <2>2. k + 1 \in DOMAIN body.chain /\ (k + 1) - 1 = k /\ k + 1 # 1
      BY <1>4, <1>5, <1>6
    <2>3. LaidOut(body, k + 1)
      BY <1>4, <2>2 DEF Intact
    <2>4. /\ body.chain[k + 1].start = Aligned(ChunkEnd(c))
          /\ body.chain[k + 1].before = c.before + ClausesIn(body, c)
      BY <2>2, <2>3 DEF LaidOut, c
    <2>5. AtChunk(k + 1)'
      BY <1>1, <1>3, <2>1, <2>4 DEF AtChunk, Aligned
    <2> QED BY <1>1, <2>1, <2>2, <2>5 DEF Recovering
  <1>7. CASE ~h.more
    <2>1. pc' = "done"
      BY <1>3, <1>7 DEF Chain
    <2>2. k = Len(body.chain) /\ body.chain # << >>
      BY <1>4, <1>5, <1>7
    <2>3. Len(body.written) = c.before + ClausesIn(body, c)
      BY <1>4, <2>2 DEF Intact, c
    <2> QED BY <1>1, <1>3, <2>1, <2>3 DEF Recovering
  <1> QED BY <1>6, <1>7

(* Every step keeps both invariants.                                       *)
LEMMA RecoveringNext == Inv /\ Recovering /\ [Next]_vars => Recovering'
  <1>1. Recovering /\ UNCHANGED vars => Recovering'
    BY DEF vars, Recovering, AtChunk, Aligned
  <1> QED
    BY <1>1, HeaderRecovers, SectionRecovers, ClausesRecover, ChainRecovers DEF Next

(* An intact body of any number of sections, counted either way, yields    *)
(* the clauses written, in order; only a size that leaves out its header is*)
(* refused, in strict mode, and a conforming body is not diagnosed         *)
(* (body.rs:422-446).                                                      *)
THEOREM IntactBodiesAreRecovered == Spec => []ClausesRecovered
  <1>1. Inv /\ Recovering => ClausesRecovered
    <2> SUFFICES ASSUME Inv, Recovering, body.intact, pc = "done" PROVE handlers = body.written
      BY DEF ClausesRecovered, Recovering
    <2>1. handlers \in Seq(Nat \X Nat) /\ body.written \in Seq(Nat \X Nat)
      BY BodiesAssumption DEF Inv, TypeOK
    <2>2. Len(handlers) = Len(body.written)
          /\ \A n \in DOMAIN handlers : handlers[n] = body.written[n]
      BY DEF Recovering
    <2> QED BY <2>1, <2>2
  <1>2. Init => Inv /\ Recovering
    BY InvInit, RecoveringInit
  <1>3. (Inv /\ Recovering) /\ [Next]_vars => (Inv /\ Recovering)'
    BY InvNext, RecoveringNext
  <1> QED BY <1>1, <1>2, <1>3, PTL DEF Spec
===============================================================================
