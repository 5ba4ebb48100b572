------------------------------- MODULE HeapScan -------------------------------
(***************************************************************************)
(* The metadata heaps: random access by index (bytes, get, get_at) and the *)
(* iterators over all entries, which compute their entries themselves.     *)
(* One step is one call of next().                                         *)
(*                                                                         *)
(* Bytes are digits to the base Radix, 256 in the code, so that the three  *)
(* lengths a compressed integer has are within reach of a small heap.      *)
(***************************************************************************)
EXTENDS Integers, Sequences

CONSTANTS
  Radix,        \* 256
  GuidSize,     \* 16
  TokenSpan,    \* offsets a user string token can carry: 2^24
  OffsetLimit,  \* offsets the other indexes can carry: 2^32
  Heaps         \* heaps: kind, bytes, and what was written to one that is intact

ASSUME RadixAssumption == Radix \in {8 * k : k \in 1..32}

Radix2 == Radix * Radix
Radix3 == Radix * Radix2

(* The encoder of sizes, for values up to MAX_COMPRESSED_U32.              *)
MaxCompressed == (Radix \div 8) * Radix3 - 1
write_u32(v) ==
  IF v < Radix \div 2 THEN <<v>>
  ELSE IF v < (Radix \div 4) * Radix THEN <<Radix \div 2 + v \div Radix, v % Radix>>
  ELSE <<3 * (Radix \div 4) + v \div Radix3, (v \div Radix2) % Radix,
         (v \div Radix) % Radix, v % Radix>>

(* What a writer puts down for entry i of a heap, between starts[i] and    *)
(* starts[i + 1]: a string and its NUL, or the size of a blob and the blob.*)
(* That of a user string is its UTF-16 units and a flag byte.              *)
BodySize(h, i) == h.written[i] + (IF h.kind = "#US" /\ h.written[i] > 0 THEN 1 ELSE 0)

StringWritten(h, i) ==
  /\ h.starts[i + 1] = h.starts[i] + h.written[i] + 1
  /\ \A j \in h.starts[i] + 1..h.starts[i + 1] - 1 : h.bytes[j] # 0
  /\ h.bytes[h.starts[i + 1]] = 0

BlobWritten(h, i) ==
  LET size == BodySize(h, i)
      prefix == write_u32(size)
  IN  /\ size <= MaxCompressed
      /\ h.kind = "#US" => h.written[i] % 2 = 0
      /\ h.starts[i + 1] = h.starts[i] + Len(prefix) + size
      /\ \A j \in 1..Len(prefix) : h.bytes[h.starts[i] + j] = prefix[j]

(* A heap as a writer leaves it.  Behind the last blob garbage may follow  *)
(* that no size begins with.                                               *)
Intact(h) ==
  LET n == Len(h.written)
      end == h.starts[n + 1]
  IN  /\ h.kind # "#GUID"
      /\ Len(h.starts) = n + 1 /\ h.starts[1] = 0
      /\ \A i \in 1..n : /\ h.starts[i + 1] <= Len(h.bytes)
                         /\ IF h.kind = "#Strings" THEN StringWritten(h, i) ELSE BlobWritten(h, i)
      /\ IF h.kind = "#Strings" THEN end = Len(h.bytes)
         ELSE end < Len(h.bytes) => h.bytes[end + 1] >= 7 * (Radix \div 8)

ASSUME HeapsAssumption ==
  /\ GuidSize \in Nat \ {0} /\ TokenSpan \in Nat \ {0} /\ OffsetLimit \in Nat \ {0}
  /\ \A h \in Heaps :
       /\ h.kind \in {"#Strings", "#Blob", "#US", "#GUID"}
       /\ h.bytes \in Seq(0..Radix - 1)
       /\ h.intact \in BOOLEAN
       /\ h.written \in Seq(Nat)
       /\ h.starts \in Seq(Nat)
       /\ h.intact => Intact(h)

VARIABLES
  heap,
  pos,      \* the iterator's position
  items,    \* the entries yielded: index and range
  status    \* "open", or "ended" once next() has returned None

vars == <<heap, pos, items, status>>

Init == heap \in Heaps /\ pos = 0 /\ items = << >> /\ status = "open"

len == Len(heap.bytes)
byte(i) == heap.bytes[i + 1]

-------------------------------------------------------------------------------
(* Compressed integers                                                     *)

Failed == <<0, 0>>

(* Mutant: the marker of a two-byte integer is left in its value.          *)
read_marked(at) ==
  IF at >= len THEN Failed
  ELSE IF byte(at) < Radix \div 2 THEN <<byte(at), 1>>
  ELSE IF byte(at) < 3 * (Radix \div 4) THEN
    IF at + 2 > len THEN Failed ELSE <<byte(at) * Radix + byte(at + 1), 2>>
  ELSE Failed

(* The integer at an offset and the bytes it takes; none taken is an error.*)
read_u32(at) ==
  IF at >= len THEN Failed
  ELSE IF byte(at) < Radix \div 2 THEN <<byte(at), 1>>
  ELSE IF byte(at) < 3 * (Radix \div 4) THEN
    IF at + 2 > len THEN Failed
    ELSE <<(byte(at) - Radix \div 2) * Radix + byte(at + 1), 2>>
  ELSE IF byte(at) < 7 * (Radix \div 8) THEN
    IF at + 4 > len THEN Failed
    ELSE <<(byte(at) - 3 * (Radix \div 4)) * Radix3 + byte(at + 1) * Radix2
             + byte(at + 2) * Radix + byte(at + 3), 4>>
  ELSE Failed

(* Mutant: the sign weighs the same in all three forms.                    *)
SignBitOfShort(width) == Radix \div 4

SignBit(width) ==
  CASE width = 1 -> Radix \div 4
    [] width = 2 -> Radix2 \div 8
    [] width = 4 -> (Radix * Radix3) \div 16

rotate(raw, sign_bit) == raw \div 2 - (IF raw % 2 # 0 THEN sign_bit ELSE 0)

(* The same three forms, with the sign in the lowest bit.                  *)
read_i32(at) ==
  LET raw == read_u32(at)
  IN  IF raw = Failed THEN Failed ELSE <<rotate(raw[1], SignBit(raw[2])), raw[2]>>

-------------------------------------------------------------------------------
(* Random access: the range of bytes an entry stands for                   *)

NoRange == <<-1, -1>>
NoEntry == [at |-> -1, range |-> NoRange, size |-> 0]

NextNul(at) ==
  CHOOSE e \in at..len :
    /\ e = len \/ byte(e) = 0
    /\ \A i \in at..e - 1 : byte(i) # 0

(* Mutant: an unterminated string is an error.                             *)
string_bytes_terminated(index) ==
  IF index > len \/ NextNul(index) = len THEN NoRange ELSE <<index, NextNul(index)>>

(* StringsHeap::bytes; an unterminated entry is the rest of the heap.      *)
string_bytes(index) == IF index > len THEN NoRange ELSE <<index, NextNul(index)>>

(* The bytes a length prefix at an offset announces, if they are there.    *)
Prefixed(at) ==
  LET prefix == read_u32(at) first == at + prefix[2] last == first + prefix[1]
  IN  IF prefix = Failed \/ last > len THEN NoRange ELSE <<first, last>>

(* Mutant: the announced bytes include the prefix.                         *)
blob_get_inclusive(index) ==
  IF Prefixed(index) = NoRange THEN NoRange ELSE <<Prefixed(index)[1], index + read_u32(index)[1]>>

blob_get(index) == Prefixed(index)

(* The code units of a user string: without the flag byte, and without the *)
(* odd byte that an even length leaves.                                    *)
split_user_string(body) ==
  IF body[1] = body[2] THEN body
  ELSE <<body[1], body[1] + 2 * ((body[2] - 1 - body[1]) \div 2)>>

get_at(offset) ==
  IF Prefixed(offset) = NoRange THEN NoRange ELSE split_user_string(Prefixed(offset))

(* GuidHeap::get at a 1-based index.                                       *)
guid_get(index) ==
  IF index = 0 \/ index * GuidSize > len THEN NoRange
  ELSE <<(index - 1) * GuidSize, index * GuidSize>>

(* What a caller gets for an index or token an iterator yielded.           *)
Get(index) == CASE heap.kind = "#Strings" -> string_bytes(index % OffsetLimit)
                [] heap.kind = "#Blob" -> blob_get(index % OffsetLimit)
                [] heap.kind = "#US" -> get_at(index % TokenSpan)
                [] heap.kind = "#GUID" -> guid_get(index)

-------------------------------------------------------------------------------
(* The iterators.  An entry is its index, its range and the bytes it takes.*)

Yield(entry) ==
  /\ pos' = pos + entry.size
  /\ items' = Append(items, [at |-> entry.at, range |-> entry.range])
  /\ UNCHANGED <<heap, status>>

StringsNext ==
  /\ status = "open" /\ heap.kind = "#Strings"
  /\ pos < len
  /\ Yield([at |-> pos, range |-> <<pos, NextNul(pos)>>, size |-> NextNul(pos) + 1 - pos])

(* Mutant: the bytes of the prefix are not counted.                        *)
blob_with_size_bare(at) ==
  IF Prefixed(at) = NoRange THEN NoEntry
  ELSE [at |-> at, range |-> Prefixed(at), size |-> read_u32(at)[1]]

(* BlobHeap::get_with_size.                                                *)
blob_with_size(at) ==
  IF Prefixed(at) = NoRange THEN NoEntry
  ELSE [at |-> at, range |-> Prefixed(at), size |-> Prefixed(at)[2] - at]

(* UserStringsHeap::get_with_size.                                         *)
user_string_with_size(at) ==
  IF Prefixed(at) = NoRange THEN NoEntry
  ELSE [at |-> at, range |-> split_user_string(Prefixed(at)), size |-> Prefixed(at)[2] - at]

(* An entry is there and the position behind it can be represented.        *)
Steps(entry) == pos < len /\ entry # NoEntry /\ pos + entry.size < OffsetLimit

BlobNext ==
  /\ status = "open" /\ heap.kind = "#Blob"
  /\ Steps(blob_with_size(pos))
  /\ Yield(blob_with_size(pos))

UserStringsNext ==
  /\ status = "open" /\ heap.kind = "#US"
  /\ Steps(user_string_with_size(pos))
  /\ Yield(user_string_with_size(pos))

guid_count == len \div GuidSize
GuidNext ==
  /\ status = "open" /\ heap.kind = "#GUID"
  /\ Len(items) < guid_count
  /\ LET index == Len(items) + 1
     IN  Yield([at |-> index, range |-> guid_get(index), size |-> GuidSize])

(* The bytes are used up, or no entry can be had at the position.          *)
IterEnd ==
  /\ status = "open"
  /\ CASE heap.kind = "#Strings" -> pos >= len
       [] heap.kind = "#Blob" -> ~Steps(blob_with_size(pos))
       [] heap.kind = "#US" -> ~Steps(user_string_with_size(pos))
       [] heap.kind = "#GUID" -> Len(items) = guid_count
  /\ status' = "ended"
  /\ UNCHANGED <<heap, pos, items>>

Next == StringsNext \/ BlobNext \/ UserStringsNext \/ GuidNext \/ IterEnd

Spec == Init /\ [][Next]_vars

-------------------------------------------------------------------------------
(* Properties                                                              *)

(* What an iterator yields is what random access returns at the index it   *)
(* yields (heaps.rs:178-188, 252-261, 302-307, 414-422), as far as the     *)
(* index or token can carry the offset.                                    *)
YieldsWhatGetReturns ==
  \A i \in 1..Len(items) :
    LET e == items[i] IN
    /\ 0 <= e.range[1] /\ e.range[1] <= e.range[2] /\ e.range[2] <= len
    /\ e.at < (IF heap.kind = "#US" THEN TokenSpan ELSE OffsetLimit) => Get(e.at) = e.range

(* An index into a string is legal anywhere (heaps.rs:161-162): once all   *)
(* strings have been yielded, access at any byte returns the tail of the   *)
(* string around it, and at the byte behind a string the empty one.        *)
TailsOfStrings ==
  heap.kind = "#Strings" /\ status = "ended" =>
    \A o \in {n \in 0..len - 1 : n < OffsetLimit} :
      \E i \in 1..Len(items) :
        /\ items[i].at <= o /\ o <= items[i].range[2]
        /\ Get(o) = <<o, items[i].range[2]>>

(* The iterator and random access read one heap.                           *)
IterationAgrees == YieldsWhatGetReturns /\ TailsOfStrings

(* read_i32 inverts the encoding of II.23.2 at every offset: a value fits  *)
(* the two's complement of its form, one bit short of the unsigned one, and*)
(* rotating its sign back into the lowest bit gives the unsigned reading.  *)
SignedIsRotated ==
  \A at \in 0..len - 1 :
    LET raw == read_u32(at) signed == read_i32(at)
        half == IF raw[2] = 1 THEN Radix \div 2 ELSE IF raw[2] = 2 THEN (Radix \div 4) * Radix
                ELSE MaxCompressed + 1
    IN  IF raw = Failed THEN signed = Failed
        ELSE /\ signed[2] = raw[2]
             /\ 2 * signed[1] \in -half..half - 1
             /\ raw[1] = ((2 * signed[1]) % half) + (IF signed[1] < 0 THEN 1 ELSE 0)

(* A heap somebody wrote is read back: every entry with the size it was    *)
(* written with, in order, and nothing more (heaps.rs:233-236), whatever   *)
(* garbage that no size begins with may follow.                            *)
WrittenIsRead ==
  heap.intact /\ len < OffsetLimit /\ status = "ended" =>
    [i \in 1..Len(items) |-> items[i].range[2] - items[i].range[1]] = heap.written

(* The iterators are scans: they always advance, skip nothing, and stop    *)
(* before the last byte only where no entry can be decoded or, in a heap   *)
(* beyond OffsetLimit, located.                                            *)
Undecodable ==
  IF heap.kind = "#GUID" THEN pos + GuidSize > len /\ pos < len
  ELSE heap.kind # "#Strings" /\ pos < len /\ Prefixed(pos) = NoRange
Scan == INSTANCE ForwardScan WITH
  Addressable <- OffsetLimit,
  limit <- len,
  at <- IF pos > len THEN len ELSE pos,
  taken <- Len(items),
  status <- IF status = "ended" /\ Undecodable THEN "failed" ELSE status
RefinesScan == Scan!Spec
===============================================================================
