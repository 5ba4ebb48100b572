-------------------------------- MODULE PeImage --------------------------------
(***************************************************************************)
(* A PE container: PeImage::parse reads the headers, the data directories  *)
(* and the section table, clamping what the file does not hold; afterwards *)
(* RVAs are translated, the CLI header is read and the metadata region is  *)
(* located through them.  An image is what its header fields say.          *)
(***************************************************************************)
EXTENDS Integers, Sequences, SequencesExt

CONSTANTS
  Images,       \* the files
  Rvas,         \* the RVAs the properties look at
  MaxRva        \* u32::MAX

SectionHeaders == [virtual_address : 0..MaxRva, virtual_size : 0..MaxRva,
                   pointer_to_raw_data : 0..MaxRva, size_of_raw_data : 0..MaxRva]

(* The data directories and section headers stated may be more than the    *)
(* file holds.  directories counts the declared ones, cli is the one at    *)
(* CLI_HEADER_DIRECTORY, cli_header what a complete CLI header says.       *)
ASSUME ImagesAssumption ==
  /\ MaxRva \in Nat /\ Rvas \subseteq 0..MaxRva
  /\ \A i \in Images :
       /\ {i.len, i.pe_offset, i.optional_size, i.directories, i.sections_stated,
           i.size_of_headers} \subseteq Nat
       /\ {i.signatures, i.pe32_plus} \subseteq BOOLEAN
       /\ i.cli \in [rva : 0..MaxRva, size : Nat]
       /\ i.cli_header \in [size : Nat, metadata : [rva : 0..MaxRva, size : Nat]]
       /\ i.sections \in Seq(SectionHeaders)
       /\ i.sections_stated <= Len(i.sections)

None == -1
CliHeaderDirectory == 14

VARIABLES
  image, strict,
  pc,            \* "headers", "sections", "open" or "failed"
  count,         \* section_count
  directories,   \* how many data directories were read
  sections,      \* the section table as parsed
  diagnostics,   \* the positions in it of the sections reported as clamped
  region         \* the metadata region, once located

vars == <<image, strict, pc, count, directories, sections, diagnostics, region>>
(* offset is None unless the region was located.                           *)
NoRegion(error) == [error |-> error, offset |-> None, len |-> 0]

Init ==
  /\ image \in Images /\ strict \in BOOLEAN
  /\ pc = "headers"
  /\ count = 0 /\ directories = 0
  /\ sections = << >> /\ diagnostics = {}
  /\ region = NoRegion("none")

-------------------------------------------------------------------------------
(* parse_with                                                              *)

optional_start == image.pe_offset + 24
directories_at == optional_start + (IF image.pe32_plus THEN 108 ELSE 92) + 4
sections_at == optional_start + image.optional_size

(* How many records of a size fit behind an offset of the file.            *)
Fitting(at, size) == IF at > image.len THEN 0 ELSE (image.len - at) \div size
SetMin(a, b) == IF a < b THEN a ELSE b

(* The fixed fields, the signatures and the magic; then the seeks.         *)
HeadersReadable ==
  /\ image.signatures
  /\ 64 <= image.len
  /\ directories_at <= image.len
  /\ sections_at <= image.len

section_count == SetMin(image.sections_stated, Fitting(sections_at, 40))

ReadHeaders ==
  /\ pc = "headers"
  /\ HeadersReadable
  /\ strict => section_count = image.sections_stated
  /\ directories' = SetMin(SetMin(image.directories, 16), Fitting(directories_at, 8))
  /\ count' = section_count
  /\ pc' = "sections"
  /\ UNCHANGED <<image, strict, sections, diagnostics, region>>

RejectHeaders ==
  /\ pc = "headers"
  /\ HeadersReadable => strict /\ section_count # image.sections_stated
  /\ pc' = "failed"
  /\ UNCHANGED <<image, strict, count, directories, sections, diagnostics, region>>

stated == image.sections[Len(sections) + 1]
raw_end(s) == s.pointer_to_raw_data + s.size_of_raw_data
ReadingSections == pc = "sections" /\ Len(sections) < count

Clamped(s) ==
  [s EXCEPT !.size_of_raw_data =
     IF s.pointer_to_raw_data > image.len THEN 0
     ELSE SetMin(image.len - s.pointer_to_raw_data, MaxRva)]

ReadSection ==
  /\ ReadingSections
  /\ raw_end(stated) <= image.len
  /\ sections' = Append(sections, stated)
  /\ UNCHANGED <<image, strict, pc, count, directories, diagnostics, region>>

ClampSection ==
  /\ ReadingSections
  /\ raw_end(stated) > image.len /\ ~strict
  /\ sections' = Append(sections, Clamped(stated))
  /\ diagnostics' = diagnostics \cup {Len(sections) + 1}
  /\ UNCHANGED <<image, strict, pc, count, directories, region>>

RejectSection ==
  /\ ReadingSections
  /\ raw_end(stated) > image.len /\ strict
  /\ pc' = "failed"
  /\ UNCHANGED <<image, strict, count, directories, sections, diagnostics, region>>

Opened ==
  /\ pc = "sections" /\ Len(sections) = count
  /\ pc' = "open"
  /\ UNCHANGED <<image, strict, count, directories, sections, diagnostics, region>>

-------------------------------------------------------------------------------
(* RVA translation                                                         *)

mapped_size(s) == IF s.virtual_size = 0 THEN s.size_of_raw_data ELSE s.virtual_size

contains_rva(s, rva) ==
  s.virtual_address <= rva /\ rva < SetMin(s.virtual_address + mapped_size(s), MaxRva)

(* The first section that maps an RVA, or 0.                               *)
Containing(rva) ==
  SelectInSeq(sections, LAMBDA s : contains_rva(s, rva))

rva_to_offset(rva) ==
  LET k == Containing(rva)
      delta == rva - sections[k].virtual_address
      offset == sections[k].pointer_to_raw_data + delta
  IN IF k # 0
     THEN IF delta >= sections[k].size_of_raw_data \/ offset > image.len THEN None ELSE offset
     ELSE IF rva < image.size_of_headers /\ rva < image.len THEN rva ELSE None

(* Mutant: bytes are counted from the start of the section.                *)
rva_available_whole(rva) ==
  LET k == Containing(rva)
      delta == rva - sections[k].virtual_address
  IN IF k # 0
     THEN IF delta >= sections[k].size_of_raw_data THEN None ELSE sections[k].size_of_raw_data
     ELSE IF rva < image.size_of_headers
          THEN LET limit == SetMin(image.size_of_headers, image.len)
               IN IF rva > limit THEN None ELSE limit - rva
          ELSE None

(* Mutant: only the end of the file bounds a slice.                        *)
rva_available_file(rva) ==
  LET k == Containing(rva)
      delta == rva - sections[k].virtual_address
  IN IF k # 0
     THEN IF delta >= sections[k].size_of_raw_data THEN None
          ELSE image.len - (sections[k].pointer_to_raw_data + delta)
     ELSE None

rva_available(rva) ==
  LET k == Containing(rva)
      delta == rva - sections[k].virtual_address
      in_section == sections[k].size_of_raw_data - delta
      in_file == image.len - (sections[k].pointer_to_raw_data + delta)
      limit == SetMin(image.size_of_headers, image.len)
  IN IF k # 0
     THEN IF delta >= sections[k].size_of_raw_data \/ in_file < 0 THEN None
          ELSE SetMin(in_section, in_file)
     ELSE IF rva >= image.size_of_headers \/ rva > limit THEN None ELSE limit - rva

(* What unwrap_or(0) makes of an unmapped RVA.                             *)
AvailableOrZero(rva) == IF rva_available(rva) = None THEN 0 ELSE rva_available(rva)

(* "ok", or the kind of error rva_slice returns.                           *)
rva_slice(rva, len) ==
  IF rva_to_offset(rva) = None \/ len > AvailableOrZero(rva) THEN "OutOfRange"
  ELSE IF rva_to_offset(rva) + len > image.len THEN "Truncated" ELSE "ok"

-------------------------------------------------------------------------------
(* cli_header and metadata                                                 *)

CliDirectory ==
  IF directories > CliHeaderDirectory THEN image.cli ELSE [rva |-> 0, size |-> 0]
IsEmpty(directory) == directory.rva = 0 /\ directory.size = 0

CliHeaderLen == SetMin(72, AvailableOrZero(CliDirectory.rva))

CliHeaderError ==
  IF IsEmpty(CliDirectory) THEN "Malformed"
  ELSE IF rva_slice(CliDirectory.rva, CliHeaderLen) # "ok"
       THEN rva_slice(CliDirectory.rva, CliHeaderLen)
  ELSE IF CliHeaderLen < 72 THEN "Truncated"
  ELSE IF image.cli_header.size # 72 /\ strict THEN "Malformed"
  ELSE "none"

metadata_rva == image.cli_header.metadata.rva

(* Mutant: the region is the rest of the section.                          *)
region_len_rest == rva_available(metadata_rva)
region_len == SetMin(image.cli_header.metadata.size, rva_available(metadata_rva))

MetadataError ==
  IF CliHeaderError # "none" THEN CliHeaderError
  ELSE IF IsEmpty(image.cli_header.metadata) THEN "Malformed"
  ELSE IF rva_available(metadata_rva) = None THEN "OutOfRange"
  ELSE IF rva_slice(metadata_rva, region_len) # "ok" THEN rva_slice(metadata_rva, region_len)
  ELSE "none"

Locate ==
  /\ pc = "open" /\ region = NoRegion("none")
  /\ MetadataError = "none"
  /\ region' = [error |-> "none", offset |-> rva_to_offset(metadata_rva), len |-> region_len]
  /\ UNCHANGED <<image, strict, pc, count, directories, sections, diagnostics>>

LocateFails ==
  /\ pc = "open" /\ region = NoRegion("none")
  /\ MetadataError # "none"
  /\ region' = NoRegion(MetadataError)
  /\ UNCHANGED <<image, strict, pc, count, directories, sections, diagnostics>>

Next ==
  \/ ReadHeaders \/ RejectHeaders
  \/ ReadSection \/ ClampSection \/ RejectSection \/ Opened
  \/ Locate \/ LocateFails

Spec == Init /\ [][Next]_vars

-------------------------------------------------------------------------------
(* Properties                                                              *)

Errors == {"none", "Malformed", "OutOfRange", "Truncated"}

(* What was read is part of what was stated.                               *)
TypeOK ==
  /\ strict \in BOOLEAN
  /\ pc \in {"headers", "sections", "open", "failed"}
  /\ count \in 0..image.sections_stated /\ directories \in 0..16
  /\ Len(sections) \in 0..count
  /\ diagnostics \subseteq DOMAIN sections
  /\ region.error \in Errors /\ region.offset \in {None} \cup 0..image.len

(* The raw range of every section of the table lies in the file: all later *)
(* arithmetic on it relies on the clamp of parse (pe.rs:294-304).          *)
SectionsInFile ==
  \A s \in Range(sections) : s.size_of_raw_data = 0 \/ raw_end(s) <= image.len

(* rva_to_offset and rva_available search the sections on their own and    *)
(* agree: from a translated RVA the available bytes are all in the file, an*)
(* RVA not translated has none, so rva_slice never runs past the file.     *)
TranslationBacked ==
  pc = "open" =>
    \A rva \in Rvas :
      IF rva_to_offset(rva) = None
      THEN AvailableOrZero(rva) = 0
      ELSE /\ rva_available(rva) # None
           /\ rva_to_offset(rva) + rva_available(rva) <= image.len

(* The bytes a section occupies, mapped or in the file.                    *)
Extent(s) ==
  LET size == IF mapped_size(s) < s.size_of_raw_data THEN s.size_of_raw_data ELSE mapped_size(s)
  IN s.virtual_address .. (s.virtual_address + size - 1)

(* As a linker lays sections out: behind the headers, apart, below the     *)
(* last RVA.                                                               *)
LaidOut ==
  /\ \A s \in Range(sections) :
       /\ image.size_of_headers <= s.virtual_address
       /\ s.virtual_address + mapped_size(s) <= MaxRva
  /\ \A j, k \in DOMAIN sections : j # k => Extent(sections[j]) \cap Extent(sections[k]) = {}

(* In such an image a slice is what the loader would map there: the RVAs   *)
(* behind its first translate, where they are mapped at all, to the bytes  *)
(* behind its first byte (pe.rs:443-458).                                  *)
SlicesAreMapped ==
  pc = "open" /\ LaidOut =>
    \A rva, other \in Rvas :
      /\ rva_to_offset(rva) # None
      /\ rva <= other /\ other < rva + AvailableOrZero(rva)
      => rva_to_offset(other) \in {None, rva_to_offset(rva) + (other - rva)}

(* The metadata region lies in the file and is no longer than stated, also *)
(* when the section that holds it is cut off (pe.rs:576-583).              *)
RegionInFile ==
  region.offset # None =>
    /\ region.offset + region.len <= image.len
    /\ region.len <= image.cli_header.metadata.size

===============================================================================
