------------------------------ MODULE MethodBody ------------------------------
(***************************************************************************)
(* MethodBody::parse_with: the tiny or fat header, the code range, and the *)
(* chain of data sections behind it, of which the exception sections are   *)
(* cut into clauses.  A section's DataSize may count its own header or,    *)
(* in files some compilers wrote, leave it out; parse_sections tells the   *)
(* two apart by arithmetic.                                                *)
(*                                                                         *)
(* One step is the header, one section, or one clause.  A body is the      *)
(* header fields and the section headers found at the offsets its writer   *)
(* put them at.  What is read at any other offset is arbitrary; no offset  *)
(* is read twice.                                                          *)
(***************************************************************************)
EXTENDS Integers, Sequences

CONSTANTS
  Bodies,          \* the bodies
  AnySection       \* the section headers arbitrary bytes may amount to

(* What a section header says: bits of Kind, and DataSize.                 *)
SectionHeaders == [eh : BOOLEAN, fat : BOOLEAN, more : BOOLEAN, data_size : Nat]

Aligned(p) == 4 * ((p + 3) \div 4)
ClauseSize(h) == IF h.fat THEN 24 ELSE 12

(* The data sections of an intact body as their writer laid them out: each *)
(* aligned behind the one before it, all but the last with the more bit,   *)
(* the clauses whole; DataSize counts the section header unless omits.     *)
(* before is the number of clauses in earlier sections.                    *)
Chunks == [start : Nat, size : Nat, before : Nat, omits : BOOLEAN]
ChunkEnd(c) == c.start + 4 + c.size
ClausesIn(b, c) ==
  IF b.section[c.start].eh THEN c.size \div ClauseSize(b.section[c.start]) ELSE 0

LaidOut(b, k) ==
  LET c == b.chain[k]
      h == b.section[c.start]
      last == b.chain[k - 1]
  IN  /\ c.start = Aligned(IF k = 1 THEN 12 + b.code_size ELSE ChunkEnd(last))
      /\ c.before = IF k = 1 THEN 0 ELSE last.before + ClausesIn(b, last)
      /\ c.start \in DOMAIN b.section
      /\ ChunkEnd(c) <= b.len
      /\ h.more <=> k < Len(b.chain)
      /\ h.more => ChunkEnd(c) < b.len
      /\ h.data_size = c.size + (IF c.omits THEN 0 ELSE 4)
      /\ h.eh => c.size % ClauseSize(h) = 0
      /\ c.omits => h.eh /\ ~b.conforming
      /\ \A n \in 1..ClausesIn(b, c) :
           b.written[c.before + n] = <<c.start + 4 + (n - 1) * ClauseSize(h),
                                       c.start + 4 + n * ClauseSize(h)>>

Intact(b) ==
  /\ \/ b.format = "tiny" /\ 1 + b.code_size <= b.len /\ b.chain = << >>
     \/ /\ b.format = "fat" /\ b.header_dwords = 3 /\ b.local_var_sig # "other"
        /\ 12 + b.code_size <= b.len
        /\ b.more_sects <=> b.chain # << >>
  /\ \A k \in DOMAIN b.chain : LaidOut(b, k)
  /\ LET last == b.chain[Len(b.chain)]
     IN  Len(b.written) = IF b.chain = << >> THEN 0 ELSE last.before + ClausesIn(b, last)

(* written: where the writer of an intact body put its clauses;            *)
(* conforming: whether every DataSize counts the section header.           *)
ASSUME BodiesAssumption ==
  /\ AnySection \subseteq SectionHeaders
  /\ \A b \in Bodies :
       /\ b.len \in Nat /\ b.code_size \in Nat
       /\ b.format \in {"tiny", "fat", "other"}
       /\ b.header_dwords \in 0..15
       /\ b.more_sects \in BOOLEAN
       /\ b.local_var_sig \in {"none", "StandAloneSig", "other"}
       /\ \A p \in DOMAIN b.section : b.section[p] \in SectionHeaders
       /\ b.intact \in BOOLEAN /\ b.conforming \in BOOLEAN
       /\ b.written \in Seq(Nat \X Nat) /\ b.chain \in Seq(Chunks)
       /\ b.intact => Intact(b)

VARIABLES
  body,          \* the bytes
  strict,        \* the Strictness asked for
  pc,            \* "header", "section", "clauses", "chain", "done", "rejected"
  error,         \* the error of a rejected body
  position,      \* the reader's position
  section,       \* the section being read: header, start and body size
  clause,        \* how many of its clauses have been read
  handlers,      \* the byte ranges of the clauses pushed to exception_handlers
  unknown,       \* the byte ranges pushed to unknown_sections
  diagnostics    \* the codes pushed, with the offset they are about

vars == <<body, strict, pc, error, position, section, clause, handlers, unknown, diagnostics>>

NoSection == [eh |-> FALSE, fat |-> FALSE, more |-> FALSE, start |-> 0, size |-> 0]

Init ==
  /\ body \in Bodies
  /\ strict \in BOOLEAN
  /\ pc = "header"
  /\ error = "none"
  /\ position = 0
  /\ section = NoSection
  /\ clause = 0
  /\ handlers = << >>
  /\ unknown = << >>
  /\ diagnostics = {}

Reject(why) == pc' = "rejected" /\ error' = why

-------------------------------------------------------------------------------
(* The header and the code                                                 *)

AtLeast(n, m) == IF n < m THEN m ELSE n
header_size == 4 * AtLeast(body.header_dwords, 3)

(* The first byte names a format, and header and code are all there.       *)
Readable ==
  \/ body.format = "tiny" /\ 1 + body.code_size <= body.len
  \/ body.format = "fat" /\ header_size + body.code_size <= body.len

(* A header or a code range that is cut short, in the order of the reads.  *)
ParseUnreadable ==
  /\ pc = "header"
  /\ ~Readable
  /\ Reject(IF body.len = 0 \/ body.format = "tiny" THEN "Truncated"
            ELSE IF body.format = "other" THEN "Malformed"
            ELSE IF body.len < 12 THEN "Truncated"
            ELSE IF body.header_dwords # 3 /\ strict THEN "Malformed"
            ELSE IF body.len < header_size THEN "OutOfRange"
            ELSE "Truncated")
  /\ UNCHANGED <<body, strict, position, section, clause, handlers, unknown, diagnostics>>

ParseTiny ==
  /\ pc = "header" /\ Readable /\ body.format = "tiny"
  /\ position' = 1 + body.code_size
  /\ pc' = "done"
  /\ UNCHANGED <<body, strict, error, section, clause, handlers, unknown, diagnostics>>

FatDeviates == body.header_dwords # 3 \/ body.local_var_sig = "other"

ParseFatStrict ==
  /\ pc = "header" /\ Readable /\ body.format = "fat"
  /\ strict /\ FatDeviates
  /\ Reject("Malformed")
  /\ UNCHANGED <<body, strict, position, section, clause, handlers, unknown, diagnostics>>

ParseFat ==
  /\ pc = "header" /\ Readable /\ body.format = "fat"
  /\ strict => ~FatDeviates
  /\ position' = header_size + body.code_size
  /\ diagnostics' = IF body.header_dwords # 3 THEN {<<"FatHeaderSize", 0>>} ELSE {}
  /\ pc' = IF body.more_sects THEN "section" ELSE "done"
  /\ UNCHANGED <<body, strict, error, section, clause, handlers, unknown>>

-------------------------------------------------------------------------------
(* One data section                                                        *)

(* What is found at the aligned offset.                                    *)
HeadersAt(p) == IF p \in DOMAIN body.section THEN {body.section[p]} ELSE AnySection

(* remaining, once the four bytes of the section header are read.          *)
remaining == body.len - (Aligned(position) + 4)

SectionCutShort ==
  /\ pc = "section"
  /\ remaining < 0
  /\ Reject(IF Aligned(position) > body.len THEN "OutOfRange" ELSE "Truncated")
  /\ UNCHANGED <<body, strict, position, section, clause, handlers, unknown, diagnostics>>

(* DataSize without the header, when it counts the header.                 *)
SpecSize(h) == IF h.data_size < 4 THEN 0 ELSE h.data_size - 4

(* Mutant: the header is always taken to be counted.                       *)
OmitsHeaderNever(h) == FALSE

(* The size must leave out the section header: only that reading leaves no *)
(* partial clause.                                                         *)
OmitsHeader(h) ==
  /\ h.eh
  /\ SpecSize(h) % ClauseSize(h) # 0
  /\ h.data_size % ClauseSize(h) = 0
  /\ h.data_size <= remaining

DeclaredSize(h) == IF OmitsHeader(h) THEN h.data_size ELSE SpecSize(h)
Overruns(h) == DeclaredSize(h) > remaining

BodySize(h) == IF Overruns(h) THEN remaining ELSE DeclaredSize(h)
PartialClause(h) == h.eh /\ BodySize(h) % ClauseSize(h) # 0

Inconsistent(h) == OmitsHeader(h) \/ Overruns(h) \/ PartialClause(h)

SectionRejected ==
  /\ pc = "section"
  /\ remaining >= 0
  /\ strict
  /\ \E h \in HeadersAt(Aligned(position)) :
       /\ Inconsistent(h)
       /\ Reject(IF ~OmitsHeader(h) /\ Overruns(h) THEN "Truncated" ELSE "Malformed")
  /\ UNCHANGED <<body, strict, position, section, clause, handlers, unknown, diagnostics>>

Diagnose(h) ==
  diagnostics' = IF OmitsHeader(h) \/ Overruns(h) \/ PartialClause(h)
                 THEN diagnostics \cup {<<"EhSectionSize", Aligned(position)>>}
                 ELSE diagnostics

TakeSection ==
  /\ pc = "section"
  /\ remaining >= 0
  /\ \E h \in HeadersAt(Aligned(position)) :
       LET start == Aligned(position) IN
       /\ strict => ~Inconsistent(h)
       /\ Diagnose(h)
       /\ position' = start + 4 + BodySize(h)
       /\ section' = [eh |-> h.eh, fat |-> h.fat, more |-> h.more,
                      start |-> start, size |-> BodySize(h)]
       /\ unknown' = IF h.eh THEN unknown ELSE Append(unknown, <<start + 4, position'>>)
       /\ pc' = IF h.eh THEN "clauses" ELSE "chain"
  /\ clause' = 0
  /\ UNCHANGED <<body, strict, error, handlers>>

-------------------------------------------------------------------------------
(* Its clauses                                                             *)

(* Mutant: a partial clause is counted.                                    *)
count_rounding_up == (section.size + ClauseSize(section) - 1) \div ClauseSize(section)

count == section.size \div ClauseSize(section)

(* The bytes of the current clause.                                        *)
Clause == LET at == section.start + 4 + clause * ClauseSize(section)
          IN  <<at, at + ClauseSize(section)>>

ReadClause ==
  /\ pc = "clauses"
  /\ clause < count
  /\ clause' = clause + 1
  /\ handlers' = Append(handlers, Clause)
  /\ UNCHANGED <<body, strict, pc, error, position, section, unknown, diagnostics>>

(* The kind bits name no kind of clause.  The clauses of an intact body    *)
(* have one.                                                               *)
ReadBadClause ==
  /\ pc = "clauses"
  /\ clause < count
  /\ ~body.intact
  /\ Reject("Malformed")
  /\ UNCHANGED <<body, strict, position, section, clause, handlers, unknown, diagnostics>>

ClausesDone ==
  /\ pc = "clauses"
  /\ clause = count
  /\ pc' = "chain"
  /\ UNCHANGED <<body, strict, error, position, section, clause, handlers, unknown, diagnostics>>

(* Mutant: the end of the body does not end the chain.                     *)
ChainUnended ==
  /\ pc = "chain"
  /\ pc' = IF section.more THEN "section" ELSE "done"
  /\ position' = IF section.more THEN section.start ELSE position
  /\ UNCHANGED <<body, strict, error, section, clause, handlers, unknown, diagnostics>>

Chain ==
  /\ pc = "chain"
  /\ IF section.more /\ position < body.len
     THEN pc' = "section" /\ UNCHANGED error
     ELSE IF section.more /\ strict
     THEN Reject("Truncated")
     ELSE pc' = "done" /\ UNCHANGED error
  /\ UNCHANGED <<body, strict, position, section, clause, handlers, unknown, diagnostics>>

-------------------------------------------------------------------------------

Next ==
  \/ ParseUnreadable \/ ParseTiny \/ ParseFatStrict \/ ParseFat
  \/ SectionCutShort \/ SectionRejected \/ TakeSection
  \/ ReadClause \/ ReadBadClause \/ ClausesDone \/ Chain

Spec == Init /\ [][Next]_vars
FairSpec == Spec /\ WF_vars(Next)

-------------------------------------------------------------------------------
(* Properties                                                              *)

(* The reader and the vectors keep their types; total_size is the position *)
(* of the finished parse and never exceeds the bytes given.                *)
TypeOK ==
  /\ strict \in BOOLEAN
  /\ pc \in {"header", "section", "clauses", "chain", "done", "rejected"}
  /\ error \in {"none", "Truncated", "OutOfRange", "Malformed"}
  /\ position \in 0..body.len
  /\ section \in [eh : BOOLEAN, fat : BOOLEAN, more : BOOLEAN, start : Nat, size : Nat]
  /\ clause \in 0..count
  /\ handlers \in Seq(Nat \X Nat)
  /\ unknown \in Seq(Nat \X Nat)

CodeEnd == header_size + body.code_size

(* Clauses are read from bytes of their own, in file order: behind the     *)
(* code, before the end, no two sharing a byte with each other or with a   *)
(* section handed out raw.                                                 *)
ClausesApart ==
  /\ \A i \in 1..Len(handlers) : CodeEnd <= handlers[i][1] /\ handlers[i][2] <= position
  /\ \A i, j \in 1..Len(handlers) : i < j => handlers[i][2] <= handlers[j][1]
  /\ \A i \in 1..Len(handlers), j \in 1..Len(unknown) :
       handlers[i][2] <= unknown[j][1] \/ unknown[j][2] <= handlers[i][1]
  /\ \A i, j \in 1..Len(unknown) : i < j => unknown[i][2] <= unknown[j][1]

(* Whichever way its writer counted, an intact body yields exactly the     *)
(* clauses written, in the order they were declared; it is refused only in *)
(* strict mode, and only if a size left out the section header, and a body *)
(* that conforms leaves no diagnostic.                                     *)
ClausesRecovered ==
  body.intact =>
    /\ pc = "done" => handlers = body.written
    /\ pc = "rejected" => strict /\ ~body.conforming
    /\ body.conforming => diagnostics = {}

(* Every chain of sections ends, whatever the more bits say.               *)
ParseEnds == <>(pc \in {"done", "rejected"})

===============================================================================
