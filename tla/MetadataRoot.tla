----------------------------- MODULE MetadataRoot -----------------------------
(***************************************************************************)
(* Metadata::parse_at: the metadata root, the directory of streams behind  *)
(* it, and the choice of the stream each heap and the tables are read      *)
(* from.  Both loops take one stream per step.                             *)
(*                                                                         *)
(* A region is the sizes that place its parts: the directory lists what a  *)
(* reader finds entry after entry, however far the region reaches.         *)
(***************************************************************************)
EXTENDS Integers, Sequences, FiniteSets

CONSTANTS
  Names,         \* the stream names
  NameLength,    \* the number of bytes of each
  Regions        \* the metadata regions

HeapNames == {"#Strings", "#US", "#Blob", "#GUID"}
TableNames == {"#~", "#-"}

Entries == [name : Names, offset : Nat, size : Nat]

ASSUME RegionsAssumption ==
  /\ NameLength \in [Names -> Nat]
  /\ \A r \in Regions :
       /\ {r.len, r.version_length, r.stream_count} \subseteq Nat
       /\ {r.magic, r.version_terminated} \subseteq BOOLEAN
       /\ r.directory \in Seq(Entries)
       /\ r.stream_count <= Len(r.directory)

VARIABLES
  region, strict,
  pc,             \* "root", "directory", "dispatch", "parsed" or "failed"
  error,
  position,       \* the reader's position
  streams,        \* the streams listed: name, stated range, data
  dispatched,     \* how many of them the second loop has seen
  heap_stream,    \* the stream each heap is read from, 0 for none
  table_stream,   \* the stream the tables are read from, 0 for none
  has_pdb_stream,
  diagnostics     \* codes, each with the stream it is about, 0 for the root

root_vars == <<region, strict, pc, error, position, streams, dispatched, heap_stream,
               table_stream, has_pdb_stream, diagnostics>>
chosen == <<heap_stream, table_stream, has_pdb_stream>>

RootInit ==
  /\ region \in Regions /\ strict \in BOOLEAN
  /\ pc = "root" /\ error = "none"
  /\ position = 0
  /\ streams = << >> /\ dispatched = 0
  /\ heap_stream = [h \in HeapNames |-> 0]
  /\ table_stream = 0
  /\ has_pdb_stream = FALSE
  /\ diagnostics = {}

Reject(why) == pc' = "failed" /\ error' = why

-------------------------------------------------------------------------------
(* The root                                                                *)

version_end == 16 + region.version_length
directory_at == version_end + 4
RootReadable == region.magic /\ directory_at <= region.len

RejectRoot ==
  /\ pc = "root"
  /\ RootReadable => strict /\ ~region.version_terminated
  /\ Reject(CASE region.len < 4 -> "Truncated"
              [] region.len >= 4 /\ ~region.magic -> "Malformed"
              [] region.magic /\ 4 <= region.len /\ region.len < version_end -> "Truncated"
              [] OTHER -> IF strict /\ ~region.version_terminated THEN "Malformed"
                          ELSE "Truncated")
  /\ UNCHANGED <<region, strict, position, streams, dispatched, chosen, diagnostics>>

ReadRoot ==
  /\ pc = "root"
  /\ RootReadable
  /\ strict => region.version_terminated
  /\ position' = directory_at
  /\ diagnostics' = IF region.version_terminated THEN {} ELSE {<<"VersionStringPadding", 0>>}
  /\ pc' = "directory"
  /\ UNCHANGED <<region, strict, error, streams, dispatched, chosen>>

-------------------------------------------------------------------------------
(* The stream directory                                                    *)

Lower(a, b) == IF a < b THEN a ELSE b
next_multiple_of_4(n) == 4 * ((n + 3) \div 4)

index == Len(streams) + 1
entry == region.directory[index]
name_start == position + 8
rest == region.len - name_start
Listing == pc = "directory" /\ Len(streams) < region.stream_count
EntryThere == name_start <= region.len

terminated == NameLength[entry.name] < rest
name_length == Lower(NameLength[entry.name], rest)
(* A name that is cut in the middle is no name the code looks for.         *)
name_bytes == IF NameLength[entry.name] <= rest THEN entry.name ELSE "fragment"

(* Mutant: names are taken to be terminated but not padded.                *)
advance_unpadded == IF terminated THEN name_length + 1 ELSE rest

advance == IF terminated THEN next_multiple_of_4(name_length + 1) ELSE rest
PaddingThere == name_start + advance <= region.len

(* The bytes of the region that the stream is given.                       *)
data == <<Lower(entry.offset, region.len), Lower(entry.offset + entry.size, region.len)>>
Clamped == data[2] - data[1] # entry.size

(* Mutant: long names pass.                                                *)
NameErrorShort == strict /\ ~terminated

NameError == strict /\ (~terminated \/ name_length > 32)

EntryError ==
  CASE ~EntryThere -> "Truncated"
    [] EntryThere /\ NameError -> "Malformed"
    [] EntryThere /\ ~NameError /\ ~PaddingThere -> "OutOfRange"
    [] OTHER -> "Truncated"

(* A cut entry fails a strict parse; cut padding fails any.                *)
RejectEntry ==
  /\ Listing
  /\ IF EntryThere THEN NameError \/ ~PaddingThere \/ (strict /\ Clamped) ELSE strict
  /\ Reject(EntryError)
  /\ UNCHANGED <<region, strict, position, streams, dispatched, chosen, diagnostics>>

ListStream ==
  /\ Listing
  /\ EntryThere /\ PaddingThere
  /\ strict => ~NameError /\ ~Clamped
  /\ streams' = Append(streams, [name |-> name_bytes, offset |-> entry.offset,
                                 size |-> entry.size, data |-> data])
  /\ position' = name_start + advance
  /\ diagnostics' = diagnostics
       \cup (IF terminated THEN {} ELSE {<<"StreamNamePadding", index>>})
       \cup (IF Clamped THEN {<<"StreamRangeClamped", index>>} ELSE {})
  /\ UNCHANGED <<region, strict, pc, error, dispatched, chosen>>

(* All streams are listed, or a permissive parse finds an entry cut.       *)
EndDirectory ==
  /\ pc = "directory"
  /\ \/ Len(streams) = region.stream_count
     \/ ~EntryThere /\ ~strict
  /\ pc' = "dispatch"
  /\ UNCHANGED <<region, strict, error, position, streams, dispatched, chosen, diagnostics>>

-------------------------------------------------------------------------------
(* The dispatch by name                                                    *)

current == dispatched + 1
name == streams[current].name
Dispatching == pc = "dispatch" /\ dispatched < Len(streams)

(* Mutant: names are compared with the stream before only.                 *)
SeenLast == dispatched > 0 /\ streams[dispatched].name = name

Seen == \E i \in 1..dispatched : streams[i].name = name

(* The name is pushed to seen and its stream put to its use.               *)
TakeStream ==
  /\ Dispatching
  /\ ~Seen
  /\ heap_stream' = [h \in HeapNames |-> IF h = name THEN current ELSE heap_stream[h]]
  /\ table_stream' = IF name \in TableNames /\ table_stream = 0 THEN current ELSE table_stream
  /\ has_pdb_stream' = (has_pdb_stream \/ name = "#Pdb")
  /\ dispatched' = current
  /\ UNCHANGED <<region, strict, pc, error, position, streams, diagnostics>>

SkipDuplicate ==
  /\ Dispatching
  /\ Seen /\ ~strict
  /\ diagnostics' = diagnostics \cup {<<"DuplicateStreamName", current>>}
  /\ dispatched' = current
  /\ UNCHANGED <<region, strict, pc, error, position, streams, chosen>>

RejectDuplicate ==
  /\ Dispatching
  /\ Seen /\ strict
  /\ diagnostics' = diagnostics \cup {<<"DuplicateStreamName", current>>}
  /\ Reject("Malformed")
  /\ UNCHANGED <<region, strict, position, streams, dispatched, chosen>>

-------------------------------------------------------------------------------
(* The table stream: Tables::parse may fail, and does in less than 24 bytes*)

Dispatched == pc = "dispatch" /\ dispatched = Len(streams)
DataLength(i) == streams[i].data[2] - streams[i].data[1]

ParseTables ==
  /\ Dispatched
  /\ table_stream # 0
  /\ \/ DataLength(table_stream) >= 24 /\ pc' = "parsed" /\ UNCHANGED error
     \/ Reject("tables")
  /\ UNCHANGED <<region, strict, position, streams, dispatched, chosen, diagnostics>>

NoTables ==
  /\ Dispatched
  /\ table_stream = 0
  /\ IF strict THEN Reject("Malformed") ELSE pc' = "parsed" /\ UNCHANGED error
  /\ UNCHANGED <<region, strict, position, streams, dispatched, chosen, diagnostics>>

RootNext ==
  \/ ReadRoot \/ RejectRoot
  \/ ListStream \/ RejectEntry \/ EndDirectory
  \/ TakeStream \/ SkipDuplicate \/ RejectDuplicate
  \/ ParseTables \/ NoTables

RootSpec == RootInit /\ [][RootNext]_root_vars

-------------------------------------------------------------------------------
(* Properties                                                              *)

Listed == pc \in {"dispatch", "parsed"}

(* Where entry i of the directory stands when every name is terminated and *)
(* padded.                                                                 *)
EntryAt[i \in Nat] ==
  IF i <= 1 THEN directory_at
  ELSE EntryAt[i - 1] + 8 + next_multiple_of_4(NameLength[region.directory[i - 1].name] + 1)

(* The list stops where the bytes stop (metadata.rs:121-158): a directory  *)
(* that is accepted yields every entry, in order, whose two numbers lie in *)
(* the region, at the place padding gives it, and the reader ends behind   *)
(* the last one or at the end of the region.                               *)
ListIsLongestPrefix ==
  Listed =>
    /\ \A i \in 1..region.stream_count :
         i <= Len(streams) <=> EntryAt[i] + 8 <= region.len
    /\ \A i \in 1..Len(streams) :
         /\ streams[i].offset = region.directory[i].offset
         /\ streams[i].name # region.directory[i].name =>
              i = Len(streams) /\ <<"StreamNamePadding", i>> \in diagnostics
    /\ position = Lower(EntryAt[Len(streams) + 1], region.len)

(* Streams hand out bytes of the region only (metadata.rs:160-174), and    *)
(* all the bytes they state unless the stream is reported as clamped.      *)
DataIsStatedOrReported ==
  \A i \in 1..Len(streams) :
    LET s == streams[i] IN
    /\ 0 <= s.data[1] /\ s.data[1] <= s.data[2] /\ s.data[2] <= region.len
    /\ \/ s.size = 0 /\ s.data[1] = s.data[2]
       \/ s.data = <<s.offset, s.offset + s.size>>
       \/ <<"StreamRangeClamped", i>> \in diagnostics

StreamsNamed(names) == {i \in 1..Len(streams) : streams[i].name \in names}
IsFirst(i, ss) == IF ss = {} THEN i = 0 ELSE i \in ss /\ \A j \in ss : i <= j

(* Each heap is read from the first stream of its name and the tables from *)
(* the first of either name, whatever follows (metadata.rs:185-217), and   *)
(* each later stream of a name is reported.                                *)
FirstNameWins ==
  pc = "parsed" =>
    /\ \A h \in HeapNames : IsFirst(heap_stream[h], StreamsNamed({h}))
    /\ IsFirst(table_stream, StreamsNamed(TableNames))
    /\ has_pdb_stream <=> StreamsNamed({"#Pdb"}) # {}
    /\ \A i \in 1..Len(streams) :
         <<"DuplicateStreamName", i>> \in diagnostics
           <=> ~IsFirst(i, StreamsNamed({streams[i].name}))

(* Strict parsing accepts conforming roots only: the whole directory in    *)
(* terminated names of at most 32 bytes, none twice, ranges in the region, *)
(* a table stream, and nothing to diagnose.                                *)
StrictIsConforming ==
  strict /\ pc = "parsed" =>
    /\ diagnostics = {}
    /\ Len(streams) = region.stream_count
    /\ EntryAt[region.stream_count + 1] <= region.len
    /\ \A i \in 1..Len(streams) :
         /\ NameLength[streams[i].name] <= 32
         /\ streams[i].offset + streams[i].size <= region.len \/ streams[i].size = 0
         /\ \A j \in 1..i - 1 : streams[j].name # streams[i].name
    /\ table_stream # 0

(* metadata.rs:122-123 promises that a truncated directory ends the list   *)
(* and not the parse: a permissive parse that has read a root goes on to   *)
(* the dispatch.                                                           *)
TruncationEndsTheList ==
  ~strict /\ RootReadable /\ pc = "failed" => dispatched = Len(streams) /\ table_stream # 0
===============================================================================
