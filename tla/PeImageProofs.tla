----------------------------- MODULE PeImageProofs -----------------------------
(***************************************************************************)
(* PeImage for every file and every section table: what RVA translation    *)
(* and the slices built on it may rely on.                                 *)
(***************************************************************************)
EXTENDS PeImage, WellFoundedInduction, TLAPS

(* The sections read so far are records whose raw range is in the file.    *)
SectionsRead ==
  /\ sections \in Seq(SectionHeaders)
  /\ count \in Nat /\ Len(sections) <= count
  /\ count <= Len(image.sections)
  /\ SectionsInFile

HeadersUnread == pc = "headers" => sections = << >>

(* A region is only located in a parsed image, where its RVA translates.   *)
RegionLocated ==
  region.offset # None =>
    /\ pc = "open" /\ MetadataError = "none"
    /\ region = [error |-> "none", offset |-> rva_to_offset(metadata_rva), len |-> region_len]

Inv ==
  /\ image \in Images
  /\ TypeOK
  /\ HeadersUnread
  /\ SectionsRead
  /\ RegionLocated

-------------------------------------------------------------------------------
(* The first section that maps an RVA                                      *)

NatLess == {ss \in Nat \X Nat : ss[1] < ss[2]}

(* Sections are numbered, so of some of them one is the first.             *)
LEMMA LeastNumber ==
  ASSUME NEW T \in SUBSET Nat, T # {}
  PROVE  \E x \in T : \A y \in T : x <= y
  <1>1. IsWellFoundedOn(NatLess, Nat)
    BY NatLessThanWellFounded DEF OpToRel, NatLess
  <1>2. PICK x \in T : \A y \in T : ~(<<y, x>> \in NatLess)
    BY <1>1, WFMin
  <1>3. ASSUME NEW y \in T PROVE x <= y
    <2>1. x \in Nat /\ y \in Nat
      OBVIOUS
    <2>2. ~(y < x)
      BY <1>2, <2>1 DEF NatLess
    <2> QED BY <2>1, <2>2
  <1> QED BY <1>3

(* Containing is 0, and then no section maps the RVA, or the number of one *)
(* that does.                                                              *)
LEMMA ContainingMaps ==
  ASSUME NEW rva, sections \in Seq(SectionHeaders)
  PROVE  \/ /\ Containing(rva) = 0
            /\ \A k \in DOMAIN sections : ~contains_rva(sections[k], rva)
         \/ /\ Containing(rva) \in DOMAIN sections /\ Containing(rva) # 0
            /\ contains_rva(sections[Containing(rva)], rva)
  <1> DEFINE I == {k \in 1..Len(sections) : contains_rva(sections[k], rva)}
  <1>1. Containing(rva) = IF I # {} THEN Min(I) ELSE 0
    BY DEF Containing, SelectInSeq
  <1>2. DOMAIN sections = 1..Len(sections)
    OBVIOUS
  <1>3. CASE I = {}
    BY <1>1, <1>2, <1>3
  <1>4. CASE I # {}
    <2>1. I \in SUBSET Nat
      OBVIOUS
    <2>2. \E x \in I : \A y \in I : x <= y
      BY <1>4, <2>1, LeastNumber
    <2>3. Min(I) \in I
      BY <2>2 DEF Min
    <2> QED BY <1>1, <1>2, <1>4, <2>3
  <1> QED BY <1>3, <1>4

(* The fields of an image and of a section are natural numbers.            *)
LEMMA ImageTypes ==
  ASSUME image \in Images
  PROVE  /\ image.len \in Nat /\ image.size_of_headers \in Nat /\ MaxRva \in Nat
         /\ image.sections_stated \in Nat /\ image.sections_stated <= Len(image.sections)
         /\ image.sections \in Seq(SectionHeaders)
         /\ image.cli_header.metadata.rva \in 0..MaxRva /\ image.cli_header.metadata.size \in Nat
         /\ image.directories \in Nat /\ image.pe_offset \in Nat /\ image.optional_size \in Nat
  <1>1. /\ {image.len, image.pe_offset, image.optional_size, image.directories,
             image.sections_stated, image.size_of_headers} \subseteq Nat
        /\ image.cli_header \in [size : Nat, metadata : [rva : 0..MaxRva, size : Nat]]
    BY ImagesAssumption
  <1> QED BY <1>1, ImagesAssumption

LEMMA SectionTypes ==
  ASSUME image \in Images, sections \in Seq(SectionHeaders), NEW k \in DOMAIN sections
  PROVE  LET s == sections[k]
         IN  /\ s \in SectionHeaders
             /\ s.virtual_address \in Nat /\ s.virtual_size \in Nat
             /\ s.pointer_to_raw_data \in Nat /\ s.size_of_raw_data \in Nat
             /\ mapped_size(s) \in Nat
  <1>1. sections[k] \in SectionHeaders /\ MaxRva \in Nat
    BY ImageTypes
  <1> QED BY <1>1 DEF SectionHeaders, mapped_size

-------------------------------------------------------------------------------
(* Translation                                                             *)

(* rva_to_offset and rva_available find the same section, and what the one *)
(* translates the other backs with bytes of the file.                      *)
LEMMA Backed ==
  ASSUME image \in Images, sections \in Seq(SectionHeaders), NEW rva \in Nat
  PROVE  /\ rva_to_offset(rva) = None => AvailableOrZero(rva) = 0
         /\ rva_to_offset(rva) # None =>
              /\ rva_to_offset(rva) \in Nat
              /\ rva_available(rva) \in Nat
              /\ rva_to_offset(rva) + rva_available(rva) <= image.len
  <1>1. image.len \in Nat /\ image.size_of_headers \in Nat
    BY ImageTypes
  <1>2. CASE Containing(rva) = 0
    BY <1>1, <1>2 DEF rva_to_offset, rva_available, AvailableOrZero, None, SetMin
  <1>3. CASE Containing(rva) # 0
    <2> DEFINE s == sections[Containing(rva)]
    <2>1. /\ s.virtual_address \in Nat /\ s.pointer_to_raw_data \in Nat
          /\ s.size_of_raw_data \in Nat /\ s.virtual_address <= rva
      BY <1>3, ContainingMaps, SectionTypes DEF contains_rva
    <2> HIDE DEF s
    <2>2. CASE rva - s.virtual_address >= s.size_of_raw_data
      <3>1. rva_to_offset(rva) = None /\ rva_available(rva) = None
        BY <1>3, <2>2 DEF rva_to_offset, rva_available, s
      <3> QED BY <3>1 DEF AvailableOrZero
    <2>3. CASE ~(rva - s.virtual_address >= s.size_of_raw_data)
      <3> DEFINE offset == s.pointer_to_raw_data + (rva - s.virtual_address)
      <3>1. /\ rva_to_offset(rva) = IF offset > image.len THEN None ELSE offset
            /\ rva_available(rva) = IF image.len - offset < 0 THEN None
                                   ELSE SetMin(s.size_of_raw_data - (rva - s.virtual_address),
                                               image.len - offset)
        BY <1>3, <2>3 DEF rva_to_offset, rva_available, s
      <3>2. offset \in Nat /\ s.size_of_raw_data - (rva - s.virtual_address) \in Nat
        BY <2>1, <2>3
      <3> HIDE DEF offset
      <3> QED BY <1>1, <3>1, <3>2 DEF AvailableOrZero, SetMin, None
    <2> QED BY <2>2, <2>3
  <1> QED BY <1>2, <1>3

(* Behind a translated RVA of an image laid out as linkers do, translation *)
(* is a shift.                                                             *)
LEMMA ShiftsAlike ==
  ASSUME image \in Images, sections \in Seq(SectionHeaders), LaidOut,
         NEW rva \in Nat, NEW other \in Nat, rva_to_offset(rva) # None,
         rva <= other, other < rva + AvailableOrZero(rva)
  PROVE  rva_to_offset(other) \in {None, rva_to_offset(rva) + (other - rva)}
  <1> DEFINE k == Containing(rva)
             m == Containing(other)
  <1>1. image.len \in Nat /\ image.size_of_headers \in Nat
    BY ImageTypes
  <1>2. rva_available(rva) \in Nat /\ rva_available(rva) # None
    BY Backed DEF None
  <1>3. other < rva + rva_available(rva)
    BY <1>2 DEF AvailableOrZero
  <1>4. m # 0 => /\ m \in DOMAIN sections /\ image.size_of_headers <= other
                 /\ sections[m].virtual_address <= other
                 /\ other < sections[m].virtual_address + mapped_size(sections[m])
                 /\ sections[m].virtual_address \in Nat /\ mapped_size(sections[m]) \in Nat
                 /\ sections[m].size_of_raw_data \in Nat
    <2> SUFFICES ASSUME m # 0
                 PROVE /\ m \in DOMAIN sections /\ image.size_of_headers <= other
                       /\ sections[m].virtual_address <= other
                       /\ other < sections[m].virtual_address + mapped_size(sections[m])
                       /\ sections[m].virtual_address \in Nat
                       /\ mapped_size(sections[m]) \in Nat
                       /\ sections[m].size_of_raw_data \in Nat
      OBVIOUS
    <2>1. m \in DOMAIN sections /\ contains_rva(sections[m], other)
      BY ContainingMaps
    <2>2. image.size_of_headers <= sections[m].virtual_address
          /\ sections[m].virtual_address + mapped_size(sections[m]) <= MaxRva
      BY <2>1 DEF LaidOut, Range
    <2>3. /\ sections[m].virtual_address \in Nat /\ mapped_size(sections[m]) \in Nat
          /\ sections[m].size_of_raw_data \in Nat /\ MaxRva \in Nat
      BY <2>1, SectionTypes, ImageTypes
    <2> QED BY <1>1, <2>1, <2>2, <2>3 DEF contains_rva, SetMin
  <1>5. CASE k = 0
    <2>1. /\ rva_available(rva) = SetMin(image.size_of_headers, image.len) - rva
          /\ rva_to_offset(rva) = rva
      BY <1>2, <1>5 DEF rva_available, rva_to_offset
    <2>2. other < image.size_of_headers
      BY <1>1, <1>3, <2>1 DEF SetMin
    <2>3. m = 0
      BY <1>1, <1>4, <2>2
    <2>4. rva_to_offset(other) \in {None, other}
      BY <2>3 DEF rva_to_offset
    <2> QED BY <2>1, <2>4
  <1>6. CASE k # 0
    <2> DEFINE s == sections[k]
    <2>1. k \in DOMAIN sections /\ contains_rva(s, rva)
      BY <1>6, ContainingMaps
    <2>2. /\ s.virtual_address \in Nat /\ s.size_of_raw_data \in Nat
          /\ s.pointer_to_raw_data \in Nat /\ mapped_size(s) \in Nat
          /\ s.virtual_address <= rva
      BY <2>1, SectionTypes DEF contains_rva
    <2>3. image.size_of_headers <= s.virtual_address
      BY <2>1 DEF LaidOut, Range
    <2>4. rva_available(rva) <= s.size_of_raw_data - (rva - s.virtual_address)
          /\ rva_to_offset(rva) = s.pointer_to_raw_data + (rva - s.virtual_address)
      BY <1>1, <1>2, <1>6, <2>2 DEF rva_available, rva_to_offset, SetMin
    <2>5. other - s.virtual_address < s.size_of_raw_data
      BY <1>2, <1>3, <2>2, <2>4
    <2>6. other \in Extent(s)
      BY <2>2, <2>5 DEF Extent
    <2>7. CASE m = 0
      <3>1. ~(other < image.size_of_headers)
        BY <1>1, <2>2, <2>3
      <3> QED BY <2>7, <3>1 DEF rva_to_offset
    <2>8. CASE m # 0
      <3>1. other \in Extent(sections[m])
        BY <1>4, <2>8 DEF Extent
      <3>2. m = k
        BY <1>4, <2>1, <2>6, <2>8, <3>1 DEF LaidOut
      <3>3. rva_to_offset(other) \in {None, s.pointer_to_raw_data + (other - s.virtual_address)}
        BY <2>8, <3>2 DEF rva_to_offset
      <3> QED BY <2>2, <2>4, <3>3
    <2> QED BY <2>7, <2>8
  <1> QED BY <1>5, <1>6

-------------------------------------------------------------------------------
(* The invariant                                                           *)

(* Nothing has been read.                                                  *)
LEMMA InvInit == Init => Inv
  <1> SUFFICES ASSUME Init PROVE Inv
    OBVIOUS
  <1>1. image \in Images /\ sections = << >> /\ region = NoRegion("none")
    BY DEF Init
  <1>2. image.sections_stated \in Nat /\ image.sections_stated <= Len(image.sections)
        /\ image.sections \in Seq(SectionHeaders)
    BY <1>1, ImageTypes
  <1>3. TypeOK
    BY <1>1, <1>2 DEF Init, TypeOK, NoRegion, Errors
  <1>6. HeadersUnread
    BY <1>1 DEF HeadersUnread
  <1>4. SectionsRead
    BY <1>1, <1>2 DEF Init, SectionsRead, SectionsInFile, Range
  <1>5. RegionLocated
    BY <1>1 DEF RegionLocated, NoRegion
  <1> QED BY <1>1, <1>3, <1>4, <1>5, <1>6 DEF Inv

(* What is translated depends on the image and its table alone.            *)
LEMMA TranslationFixed ==
  ASSUME UNCHANGED <<image, strict, directories, sections>>
  PROVE  /\ MetadataError' = MetadataError
         /\ rva_to_offset(metadata_rva)' = rva_to_offset(metadata_rva)
         /\ region_len' = region_len
  <1>1. \A rva : Containing(rva)' = Containing(rva)
    BY DEF Containing, SelectInSeq
  <1>2. \A rva : rva_to_offset(rva)' = rva_to_offset(rva)
    BY <1>1 DEF rva_to_offset
  <1>3. \A rva : rva_available(rva)' = rva_available(rva)
    BY <1>1 DEF rva_available
  <1>4. \A rva, len : rva_slice(rva, len)' = rva_slice(rva, len)
    BY <1>2, <1>3 DEF rva_slice, AvailableOrZero
  <1>5. metadata_rva' = metadata_rva /\ region_len' = region_len
    BY <1>3 DEF metadata_rva, region_len
  <1>6. CliHeaderError' = CliHeaderError
    BY <1>3, <1>4 DEF CliHeaderError, CliDirectory, CliHeaderLen, AvailableOrZero
  <1> QED BY <1>2, <1>3, <1>4, <1>5, <1>6 DEF MetadataError

(* Reading the headers fixes how many sections there are.                  *)
LEMMA HeadersKeepInv ==
  ASSUME Inv, ReadHeaders \/ RejectHeaders
  PROVE  Inv'
  <1>1. /\ image' = image /\ image \in Images /\ strict' = strict /\ sections' = sections
        /\ diagnostics' = diagnostics /\ region' = region /\ pc = "headers"
        /\ pc' \in {"headers", "sections", "open", "failed"}
    BY DEF ReadHeaders, RejectHeaders, Inv
  <1>2. /\ image.len \in Nat /\ image.directories \in Nat /\ image.sections_stated \in Nat
        /\ image.sections_stated <= Len(image.sections) /\ image.sections \in Seq(SectionHeaders)
        /\ image.pe_offset \in Nat /\ image.optional_size \in Nat
    BY <1>1, ImageTypes
  <1>3. sections = << >>
    BY <1>1 DEF Inv, HeadersUnread
  <1>4. count' \in 0..image.sections_stated /\ directories' \in 0..16
    <2>1. CASE RejectHeaders
      BY <2>1 DEF RejectHeaders, Inv, TypeOK
    <2>2. CASE ReadHeaders
      <3>1. directories_at \in Nat /\ sections_at \in Nat
        <4>1. optional_start \in Nat
          BY <1>2 DEF optional_start
        <4>2. (IF image.pe32_plus THEN 108 ELSE 92) \in Nat
          OBVIOUS
        <4> QED BY <1>2, <4>1, <4>2 DEF directories_at, sections_at
      <3>2. ASSUME NEW at \in Nat PROVE Fitting(at, 8) \in Nat /\ Fitting(at, 40) \in Nat
        <4>1. at <= image.len => image.len - at \in Nat
          BY <1>2
        <4> QED BY <1>2, <4>1 DEF Fitting
      <3>3. count' = SetMin(image.sections_stated, Fitting(sections_at, 40))
            /\ directories' = SetMin(SetMin(image.directories, 16), Fitting(directories_at, 8))
        BY <2>2 DEF ReadHeaders, section_count
      <3>4. Fitting(sections_at, 40) \in Nat /\ Fitting(directories_at, 8) \in Nat
        BY <3>1, <3>2
      <3> DEFINE a == Fitting(sections_at, 40)
                 b == Fitting(directories_at, 8)
                 stated_number == image.sections_stated
                 directory_number == image.directories
      <3>5. a \in Nat /\ b \in Nat /\ stated_number \in Nat /\ directory_number \in Nat
        BY <1>2, <3>4
      <3>6. /\ count' = SetMin(stated_number, a)
            /\ directories' = SetMin(SetMin(directory_number, 16), b)
        BY <3>3
      <3> HIDE DEF a, b, stated_number, directory_number
      <3>7. count' \in 0..stated_number /\ directories' \in 0..16
        BY <3>5, <3>6 DEF SetMin
      <3> QED BY <3>7 DEF stated_number
    <2> QED BY <2>1, <2>2
  <1>5. TypeOK'
    BY <1>1, <1>3, <1>4 DEF Inv, TypeOK
  <1>6. SectionsRead'
    BY <1>1, <1>2, <1>3, <1>4 DEF Inv, SectionsRead, SectionsInFile, Range
  <1>7. RegionLocated'
    BY <1>1 DEF Inv, RegionLocated
  <1> QED BY <1>1, <1>3, <1>5, <1>6, <1>7 DEF Inv, HeadersUnread, ReadHeaders, RejectHeaders

(* A section is kept as stated only if the file holds it, and clamped to   *)
(* what the file holds otherwise.                                          *)
LEMMA SectionsKeepInv ==
  ASSUME Inv, ReadSection \/ ClampSection
  PROVE  Inv'
  <1>1. /\ image' = image /\ image \in Images /\ strict' = strict /\ count' = count
        /\ directories' = directories /\ region' = region /\ pc' = pc /\ pc = "sections"
        /\ Len(sections) < count /\ sections \in Seq(SectionHeaders) /\ count \in Nat
        /\ count <= Len(image.sections)
    BY DEF ReadSection, ClampSection, ReadingSections, Inv, SectionsRead
  <1>2. image.len \in Nat /\ MaxRva \in Nat /\ image.sections \in Seq(SectionHeaders)
    BY <1>1, ImageTypes
  <1>3. /\ stated \in SectionHeaders
        /\ stated.pointer_to_raw_data \in Nat /\ stated.size_of_raw_data \in Nat
    <2>1. stated \in SectionHeaders
      BY <1>1, <1>2 DEF stated
    <2> QED BY <1>2, <2>1 DEF SectionHeaders
  <1>4. PICK s \in SectionHeaders :
          /\ sections' = Append(sections, s)
          /\ s.size_of_raw_data = 0 \/ raw_end(s) <= image.len
    <2>1. CASE ReadSection
      BY <1>3, <2>1 DEF ReadSection
    <2>2. CASE ClampSection
      <3> DEFINE size == IF stated.pointer_to_raw_data > image.len THEN 0
                         ELSE SetMin(image.len - stated.pointer_to_raw_data, MaxRva)
      <3>1. size \in 0..MaxRva
            /\ (size = 0 \/ stated.pointer_to_raw_data + size <= image.len)
        BY <1>2, <1>3 DEF SetMin
      <3>2. Clamped(stated) = [stated EXCEPT !.size_of_raw_data = size]
        BY DEF Clamped
      <3> HIDE DEF size
      <3>3. Clamped(stated) \in SectionHeaders
        BY <1>3, <3>1, <3>2 DEF SectionHeaders
      <3>4. /\ Clamped(stated).size_of_raw_data = size
            /\ Clamped(stated).pointer_to_raw_data = stated.pointer_to_raw_data
        BY <1>3, <3>2 DEF SectionHeaders
      <3> QED BY <2>2, <3>1, <3>3, <3>4 DEF ClampSection, raw_end
    <2> QED BY <2>1, <2>2
  <1>5. /\ sections' \in Seq(SectionHeaders) /\ Len(sections') = Len(sections) + 1
        /\ Len(sections) \in Nat /\ DOMAIN sections' = 1..(Len(sections) + 1)
        /\ DOMAIN sections = 1..Len(sections)
        /\ \A k \in DOMAIN sections : sections'[k] = sections[k]
        /\ sections'[Len(sections) + 1] = s
    BY <1>1, <1>4
  <1>6. diagnostics' \subseteq DOMAIN sections'
    BY <1>5 DEF ReadSection, ClampSection, Inv, TypeOK
  <1>7. TypeOK'
    BY <1>1, <1>5, <1>6 DEF Inv, TypeOK
  <1>8. SectionsInFile'
    <2> SUFFICES ASSUME NEW k \in DOMAIN sections'
                 PROVE sections'[k].size_of_raw_data = 0 \/ raw_end(sections'[k]) <= image.len
      BY <1>1 DEF SectionsInFile, Range, raw_end
    <2>1. CASE k \in DOMAIN sections
      BY <1>5, <2>1 DEF Inv, SectionsRead, SectionsInFile, Range
    <2>2. CASE k \notin DOMAIN sections
      BY <1>4, <1>5, <2>2
    <2> QED BY <2>1, <2>2
  <1>9. SectionsRead'
    BY <1>1, <1>5, <1>8 DEF Inv, SectionsRead
  <1>10. RegionLocated'
    BY <1>1 DEF Inv, RegionLocated
  <1> QED BY <1>1, <1>7, <1>9, <1>10 DEF Inv, HeadersUnread

(* The other steps leave the table alone; a region is located through it.  *)
LEMMA OpenKeepsInv ==
  ASSUME Inv, RejectSection \/ Opened \/ Locate \/ LocateFails \/ UNCHANGED vars
  PROVE  Inv'
  <1>1. UNCHANGED <<image, strict, count, directories, sections, diagnostics>>
    BY DEF RejectSection, Opened, Locate, LocateFails, vars
  <1>2. SectionsRead'
    BY <1>1 DEF Inv, SectionsRead, SectionsInFile
  <1>3. image \in Images /\ sections \in Seq(SectionHeaders)
        /\ metadata_rva \in Nat /\ image.len \in Nat
    BY ImageTypes DEF Inv, SectionsRead, metadata_rva
  <1>4. rva_to_offset(metadata_rva) \in {None} \cup 0..image.len
    BY <1>3, Backed
  <1>5. TypeOK' /\ RegionLocated'
    <2>1. CASE RejectSection \/ Opened
      <3>1. region' = region /\ pc = "sections" /\ pc' \in {"open", "failed"}
        BY <2>1 DEF RejectSection, ReadingSections, Opened
      <3> QED BY <1>1, <3>1 DEF Inv, TypeOK, RegionLocated
    <2>2. CASE LocateFails
      <3>1. pc' = pc /\ region' = NoRegion(MetadataError)
        BY <2>2 DEF LocateFails
      <3>2. \A rva, len : rva_slice(rva, len) \in {"ok", "OutOfRange", "Truncated"}
        BY DEF rva_slice
      <3>3. CliHeaderError \in Errors
        <4>1. rva_slice(CliDirectory.rva, CliHeaderLen) \in {"ok", "OutOfRange", "Truncated"}
          BY <3>2
        <4> QED BY <4>1 DEF CliHeaderError, Errors
      <3>4. MetadataError \in Errors
        <4>1. rva_slice(metadata_rva, region_len) \in {"ok", "OutOfRange", "Truncated"}
          BY <3>2
        <4> QED BY <3>3, <4>1 DEF MetadataError, Errors
      <3> QED BY <1>1, <3>1, <3>4 DEF Inv, TypeOK, RegionLocated, NoRegion
    <2>3. CASE Locate
      <3>1. /\ pc' = pc /\ pc = "open" /\ MetadataError = "none"
            /\ region' = [error |-> "none", offset |-> rva_to_offset(metadata_rva),
                         len |-> region_len]
        BY <2>3 DEF Locate
      <3>2. RegionLocated'
        BY <1>1, <3>1, TranslationFixed DEF RegionLocated
      <3> QED BY <1>1, <1>4, <3>1, <3>2 DEF Inv, TypeOK, Errors
    <2>4. CASE UNCHANGED vars
      <3>1. RegionLocated'
        BY <2>4, TranslationFixed DEF vars, Inv, RegionLocated
      <3> QED BY <2>4, <3>1 DEF vars, Inv, TypeOK
    <2> QED BY <2>1, <2>2, <2>3, <2>4
  <1>6. HeadersUnread'
    BY <1>1 DEF Inv, HeadersUnread, RejectSection, Opened, Locate, LocateFails, vars
  <1> QED BY <1>1, <1>2, <1>5, <1>6 DEF Inv

(* Every step keeps the invariant.                                         *)
LEMMA InvNext == Inv /\ [Next]_vars => Inv'
  BY HeadersKeepInv, SectionsKeepInv, OpenKeepsInv DEF Next

(* The state of the parse keeps its type.                                  *)
THEOREM TypeCorrect == Spec => []TypeOK
  <1>1. Inv => TypeOK
    BY DEF Inv
  <1> QED BY <1>1, InvInit, InvNext, PTL DEF Spec

(* Every section kept has its raw bytes in the file or has none: read as   *)
(* stated, or clamped by parse (pe.rs:294-304).                            *)
THEOREM RawRangesAreInFile == Spec => []SectionsInFile
  <1>1. Inv => SectionsInFile
    BY DEF Inv, SectionsRead
  <1> QED BY <1>1, InvInit, InvNext, PTL DEF Spec

(* What rva_to_offset translates, rva_available backs with bytes of the    *)
(* file; what it does not, has none (pe.rs:405-458).                       *)
THEOREM TranslationsAreBacked == Spec => []TranslationBacked
  <1>1. Inv => TranslationBacked
    <2> SUFFICES ASSUME Inv, NEW rva \in Rvas
                 PROVE IF rva_to_offset(rva) = None THEN AvailableOrZero(rva) = 0
                       ELSE /\ rva_available(rva) # None
                            /\ rva_to_offset(rva) + rva_available(rva) <= image.len
      BY DEF TranslationBacked
    <2>1. rva \in Nat /\ image \in Images /\ sections \in Seq(SectionHeaders)
      BY ImagesAssumption DEF Inv, SectionsRead
    <2> QED BY <2>1, Backed DEF None
  <1> QED BY <1>1, InvInit, InvNext, PTL DEF Spec

(* In an image laid out as linkers do, whatever its sections, a slice is   *)
(* what the loader would map (pe.rs:443-458).                              *)
THEOREM SlicesAreAsMapped == Spec => []SlicesAreMapped
  <1>1. Inv => SlicesAreMapped
    <2> SUFFICES ASSUME Inv, LaidOut, NEW rva \in Rvas, NEW other \in Rvas,
                        rva_to_offset(rva) # None, rva <= other,
                        other < rva + AvailableOrZero(rva)
                 PROVE rva_to_offset(other) \in {None, rva_to_offset(rva) + (other - rva)}
      BY DEF SlicesAreMapped
    <2>1. rva \in Nat /\ other \in Nat /\ image \in Images /\ sections \in Seq(SectionHeaders)
      BY ImagesAssumption DEF Inv, SectionsRead
    <2> QED BY <2>1, ShiftsAlike
  <1> QED BY <1>1, InvInit, InvNext, PTL DEF Spec

(* The metadata region lies in the file and is no longer than stated       *)
(* (pe.rs:576-583).                                                        *)
THEOREM RegionIsInFile == Spec => []RegionInFile
  <1>1. Inv => RegionInFile
    <2> SUFFICES ASSUME Inv, region.offset # None
                 PROVE /\ region.offset + region.len <= image.len
                       /\ region.len <= image.cli_header.metadata.size
      BY DEF RegionInFile
    <2>1. /\ region = [error |-> "none", offset |-> rva_to_offset(metadata_rva), len |-> region_len]
          /\ image \in Images /\ sections \in Seq(SectionHeaders)
      BY DEF Inv, RegionLocated, SectionsRead
    <2>2. metadata_rva \in Nat /\ image.cli_header.metadata.size \in Nat /\ image.len \in Nat
      BY <2>1, ImageTypes DEF metadata_rva
    <2>3. /\ rva_to_offset(metadata_rva) \in Nat /\ rva_available(metadata_rva) \in Nat
          /\ rva_to_offset(metadata_rva) + rva_available(metadata_rva) <= image.len
      BY <2>1, <2>2, Backed
    <2>4. region_len \in Nat /\ region_len <= rva_available(metadata_rva)
          /\ region_len <= image.cli_header.metadata.size
      BY <2>2, <2>3 DEF region_len, SetMin
    <2> QED BY <2>1, <2>2, <2>3, <2>4
  <1> QED BY <1>1, InvInit, InvNext, PTL DEF Spec
===============================================================================
