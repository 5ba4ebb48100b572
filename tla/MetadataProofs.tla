----------------------------- MODULE MetadataProofs -----------------------------
(***************************************************************************)
(* MetadataRoot for every region, and HeapScan for every heap, every radix *)
(* a byte may have and every number of offsets: the stream directory and   *)
(* the choice of streams, and the heaps behind the streams chosen.         *)
(*                                                                         *)
(* The root comes first.  EntryAt, which says where the entries of a       *)
(* directory stand, is shown to satisfy the equation that defines it; the  *)
(* invariant of parse_at then ties the reader's position to it.  Of the    *)
(* heaps it is shown that what an iterator yields is what random access    *)
(* returns, that a heap somebody wrote is read back, and that the          *)
(* iterators are forward scans.                                            *)
(***************************************************************************)
EXTENDS MetadataRoot, HeapScan, SequenceTheorems, WellFoundedInduction, TLAPS

(* Numbers by size.                                                        *)
NatLess == {ss \in Nat \X Nat : ss[1] < ss[2]}

(* Of some positions one is the first.                                     *)
LEMMA LeastNumber ==
  ASSUME NEW T \in SUBSET Nat, T # {}
  PROVE  \E x \in T : \A y \in T : x <= y
  <1>1. IsWellFoundedOn(NatLess, Nat)
    BY NatLessThanWellFounded DEF OpToRel, NatLess
  <1>2. PICK x \in T : \A y \in T : ~(<<y, x>> \in NatLess)
    BY <1>1, WFMin
  <1>3. ASSUME NEW y \in T PROVE x <= y
    <2>1. x \in Nat /\ y \in Nat
      OBVIOUS
    <2>2. ~(y < x)
      BY <1>2, <2>1 DEF NatLess
    <2> QED BY <2>1, <2>2
  <1> QED BY <1>3

-------------------------------------------------------------------------------
(* Where the entries of the directory stand                                *)

(* What a name takes when it is terminated and padded.                     *)
PaddedName(i) == next_multiple_of_4(NameLength[region.directory[i].name] + 1)

(* The equation that defines EntryAt, for a function on part of Nat.       *)
Follows(f, i) ==
  f[i] = IF i <= 1 THEN directory_at
         ELSE f[i - 1] + 8 + next_multiple_of_4(NameLength[region.directory[i - 1].name] + 1)

(* It can be met up to any number.                                         *)
LEMMA FollowsUpTo ==
  ASSUME NEW n \in Nat
  PROVE  \E f : \A i \in 0..n : Follows(f, i)
  <1> DEFINE P(m) == \E f : \A i \in 0..m : Follows(f, i)
             T == {m \in Nat : ~P(m)}
  <1> SUFFICES ASSUME T # {} PROVE FALSE
    OBVIOUS
  <1>1. PICK m \in T : \A y \in T : m <= y
    BY LeastNumber
  <1>2. m \in Nat /\ ~P(m)
    OBVIOUS
  <1>3. CASE m = 0
    <2> DEFINE f == [i \in {0} |-> directory_at]
    <2>1. ASSUME NEW i \in 0..m PROVE Follows(f, i)
      <3>1. i = 0
        BY <1>3
      <3>2. f[0] = directory_at
        OBVIOUS
      <3> HIDE DEF f
      <3> QED BY <3>1, <3>2 DEF Follows
    <2> QED BY <1>2, <2>1
  <1>4. CASE m # 0
    <2>1. m - 1 \in Nat /\ m - 1 \notin T
      BY <1>1, <1>2, <1>4
    <2>2. PICK g : \A i \in 0..m - 1 : Follows(g, i)
      BY <2>1
    <2> DEFINE v == IF m <= 1 THEN directory_at
                    ELSE g[m - 1] + 8 + next_multiple_of_4(NameLength[region.directory[m - 1].name] + 1)
               f == [i \in 0..m |-> IF i = m THEN v ELSE g[i]]
    <2>3. ASSUME NEW i \in 0..m PROVE Follows(f, i)
      <3>1. f[i] = (IF i = m THEN v ELSE g[i]) /\ i \in Nat
        BY <1>2
      <3>2. ~(i <= 1) => f[i - 1] = g[i - 1]
        BY <1>2
      <3> HIDE DEF f
      <3>3. CASE i = m
        BY <3>1, <3>2, <3>3 DEF Follows
      <3>4. CASE i # m
        <4>1. i \in 0..m - 1
          BY <1>2, <3>4
        <4>2. Follows(g, i)
          BY <2>2, <4>1
        <4> QED BY <3>1, <3>2, <3>4, <4>2 DEF Follows
      <3> QED BY <3>3, <3>4
    <2> QED BY <1>2, <2>3
  <1> QED BY <1>3, <1>4

(* In one way only.                                                        *)
LEMMA FollowsOnce ==
  ASSUME NEW f, NEW g, NEW n \in Nat, \A i \in 0..n : Follows(f, i) /\ Follows(g, i)
  PROVE  f[n] = g[n]
  <1> DEFINE T == {m \in 0..n : f[m] # g[m]}
  <1> SUFFICES ASSUME T # {} PROVE FALSE
    <2>1. n \in 0..n
      OBVIOUS
    <2> QED BY <2>1
  <1>1. PICK m \in T : \A y \in T : m <= y
    <2>1. T \in SUBSET Nat
      OBVIOUS
    <2> HIDE DEF T
    <2> QED BY <2>1, LeastNumber
  <1>2. m \in 0..n /\ f[m] # g[m] /\ Follows(f, m) /\ Follows(g, m)
    OBVIOUS
  <1>3. ~(m <= 1)
    BY <1>2 DEF Follows
  <1>4. m - 1 \in 0..n /\ m - 1 \notin T
    BY <1>1, <1>2, <1>3
  <1>5. f[m - 1] = g[m - 1]
    BY <1>4
  <1> QED BY <1>2, <1>3, <1>5 DEF Follows

(* So there is a function that meets it everywhere, and EntryAt is one.    *)
LEMMA EntryAtFollows ==
  ASSUME NEW n \in Nat
  PROVE  Follows(EntryAt, n)
  <1> DEFINE Upto(m) == CHOOSE f : \A i \in 0..m : Follows(f, i)
             F == [m \in Nat |-> Upto(m)[m]]
             G(f) == [i \in Nat |-> IF i <= 1 THEN directory_at
                        ELSE f[i - 1] + 8 + next_multiple_of_4(NameLength[region.directory[i - 1].name] + 1)]
  <1>1. ASSUME NEW m \in Nat PROVE \A i \in 0..m : Follows(Upto(m), i)
    BY FollowsUpTo
  <1> HIDE DEF Upto
  <1>2. ASSUME NEW m \in Nat PROVE Follows(F, m)
    <2>1. Follows(Upto(m), m)
      BY <1>1
    <2>2. F[m] = Upto(m)[m]
      OBVIOUS
    <2>3. ~(m <= 1) => F[m - 1] = Upto(m)[m - 1]
      <3> SUFFICES ASSUME ~(m <= 1) PROVE F[m - 1] = Upto(m)[m - 1]
        OBVIOUS
      <3>1. m - 1 \in Nat /\ \A i \in 0..m - 1 : i \in 0..m
        OBVIOUS
      <3>2. F[m - 1] = Upto(m - 1)[m - 1]
        BY <3>1
      <3>3. \A i \in 0..m - 1 : Follows(Upto(m - 1), i) /\ Follows(Upto(m), i)
        BY <1>1, <3>1
      <3>4. Upto(m - 1)[m - 1] = Upto(m)[m - 1]
        BY <3>1, <3>3, FollowsOnce
      <3> QED BY <3>2, <3>4
    <2> HIDE DEF F
    <2> QED BY <2>1, <2>2, <2>3 DEF Follows
  <1>3. F = G(F)
    <2>1. \A m \in Nat : F[m] = G(F)[m]
      BY <1>2 DEF Follows
    <2> QED BY <2>1
  <1>4. EntryAt = CHOOSE f : f = G(f)
    BY DEF EntryAt
  <1> HIDE DEF F
  <1>5. EntryAt = G(EntryAt)
    <2>1. \E f : f = G(f)
      BY <1>3
    <2> HIDE DEF G
    <2> QED BY <1>4, <2>1
  <1> QED BY <1>5 DEF Follows

(* The equation in two cases.                                              *)
LEMMA EntriesFollow ==
  /\ EntryAt[1] = directory_at
  /\ \A i \in Nat \ {0} : EntryAt[i + 1] = EntryAt[i] + 8 + PaddedName(i)
  <1>1. EntryAt[1] = directory_at
    BY EntryAtFollows DEF Follows
  <1>2. ASSUME NEW i \in Nat \ {0} PROVE EntryAt[i + 1] = EntryAt[i] + 8 + PaddedName(i)
    <2>1. i + 1 \in Nat /\ ~(i + 1 <= 1) /\ (i + 1) - 1 = i
      OBVIOUS
    <2> QED BY <2>1, EntryAtFollows DEF Follows, PaddedName
  <1> QED BY <1>1, <1>2

(* What the assumptions say of a region.                                   *)
LEMMA RegionTyped ==
  ASSUME region \in Regions
  PROVE  /\ region.len \in Nat /\ region.version_length \in Nat /\ region.stream_count \in Nat
         /\ Len(region.directory) \in Nat /\ region.stream_count <= Len(region.directory)
         /\ directory_at \in Nat
         /\ region.version_terminated \in BOOLEAN /\ region.magic \in BOOLEAN
         /\ \A i \in 1..region.stream_count :
              /\ region.directory[i] \in Entries
              /\ region.directory[i].name \in Names
              /\ NameLength[region.directory[i].name] \in Nat
              /\ region.directory[i].offset \in Nat /\ region.directory[i].size \in Nat
  <1>1. /\ region.len \in Nat /\ region.version_length \in Nat /\ region.stream_count \in Nat
        /\ region.version_terminated \in BOOLEAN /\ region.magic \in BOOLEAN
        /\ region.directory \in Seq(Entries) /\ region.stream_count <= Len(region.directory)
        /\ NameLength \in [Names -> Nat]
    BY RegionsAssumption
  <1>2. directory_at \in Nat
    BY <1>1 DEF directory_at, version_end
  <1>3. Len(region.directory) \in Nat
    BY <1>1
  <1>4. ASSUME NEW i \in 1..region.stream_count
        PROVE  region.directory[i] \in Entries
    <2>1. i \in 1..Len(region.directory)
      BY <1>1, <1>3
    <2> QED BY <1>1, <2>1
  <1> QED BY <1>1, <1>2, <1>3, <1>4 DEF Entries

(* Padding adds less than four bytes.                                      *)
LEMMA Padded ==
  ASSUME NEW n \in Nat
  PROVE  /\ next_multiple_of_4(n) \in Nat /\ n <= next_multiple_of_4(n)
         /\ next_multiple_of_4(n) < n + 4
  BY DEF next_multiple_of_4

(* Every entry takes its bytes, so they stand one behind the other.        *)
LEMMA EntriesAscend ==
  ASSUME region \in Regions
  PROVE  /\ \A i \in 1..region.stream_count : PaddedName(i) \in Nat /\ PaddedName(i) > NameLength[region.directory[i].name]
         /\ \A i \in 1..region.stream_count + 1 : EntryAt[i] \in Nat
         /\ \A i \in 1..region.stream_count + 1 : \A j \in 1..i : EntryAt[j] <= EntryAt[i]
  <1> DEFINE k == region.stream_count
  <1>1. k \in Nat /\ directory_at \in Nat
    BY RegionTyped
  <1>2. ASSUME NEW i \in 1..k PROVE PaddedName(i) \in Nat /\ PaddedName(i) > NameLength[region.directory[i].name]
    <2> DEFINE a == NameLength[region.directory[i].name]
    <2>1. a \in Nat
      BY RegionTyped
    <2> HIDE DEF a
    <2>2. next_multiple_of_4(a + 1) \in Nat /\ a + 1 <= next_multiple_of_4(a + 1)
      BY <2>1, Padded
    <2>3. next_multiple_of_4(a + 1) > a
      BY <2>1, <2>2
    <2> QED BY <2>2, <2>3 DEF PaddedName, a
  <1> DEFINE Good(i) == EntryAt[i] \in Nat /\ \A j \in 1..i : EntryAt[j] <= EntryAt[i]
             T == {i \in 1..k + 1 : ~Good(i)}
  <1>3. T = {}
    <2> SUFFICES ASSUME T # {} PROVE FALSE
      OBVIOUS
    <2>1. T \in SUBSET Nat
      BY <1>1
    <2>2. PICK m \in T : \A y \in T : m <= y
      <3> HIDE DEF T
      <3> QED BY <2>1, LeastNumber
    <2>3. m \in 1..k + 1 /\ ~Good(m)
      OBVIOUS
    <2>4. CASE m = 1
      <3>1. EntryAt[m] = directory_at
        BY <2>4, EntriesFollow
      <3>2. \A j \in 1..m : j = m
        BY <2>4
      <3>3. Good(m)
        BY <1>1, <3>1, <3>2
      <3> QED BY <2>3, <3>3
    <2>5. CASE m # 1
      <3> DEFINE p == m - 1
      <3>1. p \in 1..k /\ p \in 1..k + 1 /\ m = p + 1 /\ p \in Nat \ {0}
        BY <1>1, <2>3, <2>5
      <3>2. p \notin T
        BY <1>1, <2>2, <3>1
      <3>3. Good(p)
        BY <3>1, <3>2
      <3>4. EntryAt[m] = EntryAt[p] + 8 + PaddedName(p) /\ PaddedName(p) \in Nat
        BY <1>2, <3>1, EntriesFollow
      <3> HIDE DEF p
      <3>5. EntryAt[m] \in Nat /\ EntryAt[p] <= EntryAt[m]
        BY <3>3, <3>4
      <3>6. ASSUME NEW j \in 1..m PROVE EntryAt[j] <= EntryAt[m]
        <4>1. CASE j = m
          BY <3>5, <4>1
        <4>2. CASE j # m
          <5>1. j \in 1..p
            BY <2>3, <3>1, <4>2
          <5>2. EntryAt[j] <= EntryAt[p] /\ EntryAt[p] \in Nat
            BY <3>3, <5>1
          <5>3. EntryAt[j] \in Nat
            <6>1. j \in 1..k + 1 /\ ~(m <= j)
              BY <1>1, <2>3, <3>1, <5>1
            <6>2. j \notin T
              BY <2>2, <6>1
            <6> QED BY <6>1, <6>2
          <5> QED BY <3>5, <5>2, <5>3
        <4> QED BY <4>1, <4>2
      <3> QED BY <2>3, <3>5, <3>6
    <2> QED BY <2>4, <2>5
  <1>4. \A i \in 1..k + 1 : Good(i)
    BY <1>3
  <1> HIDE DEF T
  <1> QED BY <1>2, <1>4

(* They stay where they are.                                               *)
LEMMA EntryAtFixed ==
  ASSUME UNCHANGED region
  PROVE  EntryAt' = EntryAt
  BY DEF EntryAt, directory_at, version_end

-------------------------------------------------------------------------------
(* What is listed                                                          *)

Streams ==
  [name : Names \cup {"fragment"}, offset : Nat, size : Nat, data : Nat \X Nat]

Listable ==
  /\ region \in Regions /\ strict \in BOOLEAN
  /\ pc \in {"root", "directory", "dispatch", "parsed", "failed"}
  /\ streams \in Seq(Streams)
  /\ Len(streams) <= region.stream_count
  /\ dispatched \in 0..Len(streams)
  /\ pc = "root" => streams = << >> /\ diagnostics = {}
  /\ pc \in {"root", "directory"} => dispatched = 0

(* The reader stands where padding puts the next entry, if there is room.  *)
InPlace ==
  /\ directory_at <= region.len
  /\ position = Lower(EntryAt[Len(streams) + 1], region.len)
  /\ \A i \in 1..Len(streams) : EntryAt[i] + 8 <= region.len

(* A stream has the bytes of its range that are there.                     *)
Backed ==
  \A i \in 1..Len(streams) :
    /\ streams[i].data = <<Lower(streams[i].offset, region.len),
                           Lower(streams[i].offset + streams[i].size, region.len)>>
    /\ streams[i].data[2] - streams[i].data[1] # streams[i].size =>
         <<"StreamRangeClamped", i>> \in diagnostics

(* A stream is what its entry says; a name can only be cut at the end of   *)
(* the region.                                                             *)
AsStated ==
  \A i \in 1..Len(streams) :
    /\ streams[i].offset = region.directory[i].offset
    /\ streams[i].size = region.directory[i].size
    /\ streams[i].name # region.directory[i].name =>
         /\ i = Len(streams) /\ position = region.len
         /\ <<"StreamNamePadding", i>> \in diagnostics

(* What a strict parse lets pass.                                          *)
Conforming ==
  strict =>
    /\ diagnostics = {}
    /\ position = EntryAt[Len(streams) + 1]
    /\ \A i \in 1..Len(streams) :
         /\ NameLength[streams[i].name] <= 32
         /\ streams[i].data[2] - streams[i].data[1] = streams[i].size

(* Lower is the lower of the two.                                          *)
LEMMA LowerOf ==
  ASSUME NEW a \in Nat, NEW b \in Nat
  PROVE  /\ Lower(a, b) \in Nat /\ Lower(a, b) <= a /\ Lower(a, b) <= b
         /\ a <= b => Lower(a, b) = a
         /\ b <= a => Lower(a, b) = b
  BY DEF Lower

(* The entry that is read stands in its place.                             *)
LEMMA EntryFound ==
  ASSUME Listable, InPlace, Listing, EntryThere
  PROVE  /\ index \in 1..region.stream_count /\ position = EntryAt[index]
         /\ position \in Nat /\ rest \in Nat /\ position + 8 + rest = region.len
         /\ name_start = position + 8
  <1>1. region \in Regions /\ Len(streams) \in Nat /\ Len(streams) < region.stream_count
    BY DEF Listable, Listing
  <1>2. region.len \in Nat /\ region.stream_count \in Nat
    BY <1>1, RegionTyped
  <1>3. index \in 1..region.stream_count /\ index = Len(streams) + 1
    BY <1>1, <1>2 DEF index
  <1>4. EntryAt[index] \in Nat
    BY <1>1, <1>2, <1>3, EntriesAscend
  <1> DEFINE a == EntryAt[index]
             l == region.len
  <1>5. a \in Nat /\ l \in Nat /\ position = Lower(a, l) /\ position + 8 <= l
    BY <1>2, <1>3, <1>4 DEF InPlace, EntryThere, name_start
  <1> HIDE DEF a, l
  <1>6. position = a /\ position \in Nat /\ (l - (position + 8)) \in Nat
        /\ position + 8 + (l - (position + 8)) = l
    BY <1>5 DEF Lower
  <1> QED BY <1>3, <1>6 DEF a, l, rest, name_start

(* Behind it the next one, unless its name is cut.                         *)
LEMMA NextEntryFound ==
  ASSUME Listable, InPlace, Listing, EntryThere
  PROVE  /\ terminated =>
              /\ name_start + advance = EntryAt[index + 1]
              /\ name_length = NameLength[entry.name] /\ name_bytes = entry.name
         /\ ~terminated =>
              /\ name_start + advance = region.len /\ region.len < EntryAt[index + 1]
         /\ EntryAt[index + 1] \in Nat /\ region.len \in Nat
  <1>1. /\ index \in 1..region.stream_count /\ position = EntryAt[index]
        /\ position \in Nat /\ rest \in Nat /\ position + 8 + rest = region.len
        /\ name_start = position + 8
    BY EntryFound
  <1>2. region \in Regions
    BY DEF Listable
  <1>3. region.stream_count \in Nat /\ region.len \in Nat /\ NameLength[entry.name] \in Nat
    BY <1>1, <1>2, RegionTyped DEF entry
  <1>4. index \in Nat \ {0} /\ index + 1 \in 1..region.stream_count + 1
    BY <1>1, <1>3
  <1>5. /\ EntryAt[index + 1] = EntryAt[index] + 8 + PaddedName(index)
        /\ PaddedName(index) \in Nat /\ PaddedName(index) > NameLength[entry.name]
        /\ EntryAt[index + 1] \in Nat
    BY <1>1, <1>2, <1>4, EntriesFollow, EntriesAscend DEF entry
  <1> DEFINE a == NameLength[entry.name]
  <1>6. ASSUME terminated
        PROVE  /\ name_start + advance = EntryAt[index + 1]
               /\ name_length = a /\ name_bytes = entry.name
    <2>1. a < rest /\ a <= rest
      BY <1>1, <1>3, <1>6 DEF terminated
    <2>2. name_length = a /\ name_bytes = entry.name
      BY <2>1 DEF name_length, name_bytes, Lower
    <2>3. advance = PaddedName(index)
      BY <1>6, <2>2 DEF advance, PaddedName, entry
    <2> QED BY <1>1, <1>5, <2>2, <2>3
  <1>7. ASSUME ~terminated
        PROVE  name_start + advance = region.len /\ region.len < EntryAt[index + 1]
    <2>1. ~(a < rest)
      BY <1>7 DEF terminated
    <2>2. advance = rest
      BY <1>7 DEF advance
    <2> HIDE DEF a
    <2>3. rest <= a /\ a < PaddedName(index)
      BY <1>1, <1>3, <1>5, <2>1 DEF a
    <2>4. a \in Nat
      BY <1>3 DEF a
    <2> QED BY <1>1, <1>3, <1>5, <2>2, <2>3, <2>4
  <1> QED BY <1>3, <1>5, <1>6, <1>7

(* The bytes of a stream that stays in the region are all those stated.    *)
LEMMA Unclamped ==
  ASSUME NEW o \in Nat, NEW s \in Nat, NEW l \in Nat
  PROVE  /\ Lower(o, l) \in Nat /\ Lower(o + s, l) \in Nat
         /\ Lower(o + s, l) - Lower(o, l) = s => o + s <= l \/ s = 0
  BY DEF Lower

(* One stream more.                                                        *)
LEMMA OneListed ==
  ASSUME Listable, InPlace, AsStated, Conforming, Backed, ListStream
  PROVE  Listable' /\ InPlace' /\ AsStated' /\ Conforming' /\ Backed'
  <1> DEFINE n == Len(streams)
             x == [name |-> name_bytes, offset |-> entry.offset, size |-> entry.size, data |-> data]
             t == Append(streams, x)
  <1>1. /\ Listing /\ EntryThere /\ PaddingThere /\ (strict => ~NameError /\ ~Clamped)
        /\ streams' = t /\ position' = name_start + advance
        /\ diagnostics' = (diagnostics
             \cup (IF terminated THEN {} ELSE {<<"StreamNamePadding", index>>}))
             \cup (IF Clamped THEN {<<"StreamRangeClamped", index>>} ELSE {})
        /\ UNCHANGED <<region, strict, pc, error, dispatched>>
    BY DEF ListStream, chosen
  <1>2. /\ index \in 1..region.stream_count /\ position = EntryAt[index]
        /\ position \in Nat /\ position + 8 <= region.len /\ name_start = position + 8
    BY <1>1, EntryFound DEF EntryThere
  <1>3. /\ region \in Regions /\ streams \in Seq(Streams) /\ n \in Nat /\ index = n + 1
        /\ pc = "directory" /\ n < region.stream_count /\ strict \in BOOLEAN
    BY <1>1 DEF Listable, Listing, index
  <1>4. /\ region.len \in Nat /\ region.stream_count \in Nat
        /\ entry.name \in Names /\ entry.offset \in Nat /\ entry.size \in Nat
    BY <1>2, <1>3, RegionTyped DEF entry
  <1>5. x \in Streams
    <2>1. data \in Nat \X Nat
      <3> DEFINE o == entry.offset
                 e == entry.offset + entry.size
                 l == region.len
      <3>1. o \in Nat /\ e \in Nat /\ l \in Nat /\ data = <<Lower(o, l), Lower(e, l)>>
        BY <1>4 DEF data
      <3> HIDE DEF o, e, l
      <3> QED BY <3>1, LowerOf
    <2>2. name_bytes \in Names \cup {"fragment"}
      BY <1>4 DEF name_bytes
    <2> QED BY <1>4, <2>1, <2>2 DEF Streams
  <1> HIDE DEF x
  <1>6. /\ t \in Seq(Streams) /\ Len(t) = n + 1 /\ t[n + 1] = x
        /\ \A i \in 1..n : t[i] = streams[i]
    BY <1>3, <1>5
  <1>7. /\ x.name = name_bytes /\ x.offset = entry.offset /\ x.size = entry.size /\ x.data = data
    BY DEF x
  <1> HIDE DEF t
  <1>8. /\ terminated => /\ name_start + advance = EntryAt[index + 1]
                         /\ name_length = NameLength[entry.name] /\ name_bytes = entry.name
        /\ ~terminated => /\ name_start + advance = region.len
                          /\ region.len < EntryAt[index + 1]
        /\ EntryAt[index + 1] \in Nat
    BY <1>1, NextEntryFound
  <1>9. EntryAt' = EntryAt /\ directory_at' = directory_at
    BY <1>1, EntryAtFixed DEF directory_at, version_end
  <1>10. Len(streams') = n + 1 /\ Len(streams') \in Nat
    BY <1>1, <1>3, <1>6
  <1>11. Listable'
    <2>1. dispatched' \in 0..Len(streams') /\ dispatched' = 0
      BY <1>1, <1>3, <1>10 DEF Listable
    <2> QED BY <1>1, <1>3, <1>4, <1>6, <1>10, <2>1 DEF Listable
  <1>12. InPlace'
    <2>1. position' = Lower(EntryAt[index + 1], region.len)
      <3>1. name_start + advance <= region.len
        BY <1>1 DEF PaddingThere
      <3> QED BY <1>1, <1>4, <1>8, <3>1, LowerOf DEF Lower
    <2>2. ASSUME NEW i \in 1..n + 1 PROVE EntryAt[i] + 8 <= region.len
      <3>1. i \in 1..n \/ i = n + 1
        BY <1>3
      <3> QED BY <1>2, <1>3, <3>1 DEF InPlace
    <2>3. directory_at <= region.len
      BY DEF InPlace
    <2> QED BY <1>1, <1>3, <1>9, <1>10, <2>1, <2>2, <2>3 DEF InPlace
  <1>13. AsStated'
    <2>1. ASSUME NEW i \in 1..n + 1
          PROVE  /\ t[i].offset = region.directory[i].offset
                 /\ t[i].size = region.directory[i].size
                 /\ t[i].name # region.directory[i].name =>
                      /\ i = n + 1 /\ position' = region.len
                      /\ <<"StreamNamePadding", i>> \in diagnostics'
      <3>1. CASE i \in 1..n
        <4>1. t[i] = streams[i]
          BY <1>6, <3>1
        <4>2. streams[i].name = region.directory[i].name
          <5>1. position # region.len
            BY <1>2, <1>4
          <5> QED BY <3>1, <5>1 DEF AsStated
        <4> QED BY <3>1, <4>1, <4>2 DEF AsStated
      <3>2. CASE i = n + 1
        <4>1. t[i] = x /\ region.directory[i] = entry
          BY <1>3, <1>6, <3>2 DEF entry
        <4>2. x.name # entry.name => ~terminated
          BY <1>7, <1>8
        <4>3. ~terminated => position' = region.len /\ <<"StreamNamePadding", i>> \in diagnostics'
          BY <1>1, <1>3, <1>8, <3>2
        <4> QED BY <1>7, <3>2, <4>1, <4>2, <4>3
      <3>3. i \in 1..n \/ i = n + 1
        BY <1>3
      <3> QED BY <3>1, <3>2, <3>3
    <2> QED BY <1>1, <1>10, <2>1 DEF AsStated
  <1>14. Conforming'
    <2> SUFFICES ASSUME strict PROVE Conforming'
      BY <1>1 DEF Conforming
    <2>1. diagnostics = {} /\ ~NameError /\ ~Clamped
      BY <1>1 DEF Conforming
    <2>2. terminated /\ ~(name_length > 32)
      BY <2>1 DEF NameError
    <2>3. diagnostics' = {} /\ position' = EntryAt[index + 1]
      BY <1>1, <1>8, <2>1, <2>2
    <2>4. ASSUME NEW i \in 1..n + 1
          PROVE  NameLength[t[i].name] <= 32 /\ t[i].data[2] - t[i].data[1] = t[i].size
      <3>1. CASE i \in 1..n
        BY <1>6, <3>1 DEF Conforming
      <3>2. CASE i = n + 1
        <4>1. NameLength[entry.name] \in Nat
          BY <1>2, <1>3, RegionTyped DEF entry
        <4>2. t[i] = x /\ NameLength[x.name] <= 32
          BY <1>6, <1>7, <1>8, <2>2, <3>2, <4>1
        <4>3. x.data[2] - x.data[1] = x.size
          BY <1>7, <2>1 DEF Clamped
        <4> QED BY <4>2, <4>3
      <3>3. i \in 1..n \/ i = n + 1
        BY <1>3
      <3> QED BY <3>1, <3>2, <3>3
    <2> QED BY <1>1, <1>3, <1>9, <1>10, <2>3, <2>4 DEF Conforming
  <1>15. Backed'
    <2>1. ASSUME NEW i \in 1..n + 1
          PROVE  /\ t[i].data = <<Lower(t[i].offset, region.len),
                                  Lower(t[i].offset + t[i].size, region.len)>>
                 /\ t[i].data[2] - t[i].data[1] # t[i].size =>
                      <<"StreamRangeClamped", i>> \in diagnostics'
      <3>1. CASE i \in 1..n
        <4>1. t[i] = streams[i] /\ diagnostics \subseteq diagnostics'
          BY <1>1, <1>6, <3>1
        <4> QED BY <3>1, <4>1 DEF Backed
      <3>2. CASE i = n + 1
        <4>1. t[i] = x /\ x.data = data
          BY <1>6, <1>7, <3>2
        <4>2. x.data[2] - x.data[1] # x.size => <<"StreamRangeClamped", i>> \in diagnostics'
          BY <1>1, <1>3, <1>7, <3>2 DEF Clamped
        <4> QED BY <1>7, <4>1, <4>2 DEF data
      <3>3. i \in 1..n \/ i = n + 1
        BY <1>3
      <3> QED BY <3>1, <3>2, <3>3
    <2> QED BY <1>1, <1>10, <2>1 DEF Backed
  <1> QED BY <1>11, <1>12, <1>13, <1>14, <1>15

(* Only listing is about the bytes.                                        *)
LEMMA StillBacked ==
  ASSUME Backed, UNCHANGED <<region, streams>>, diagnostics \subseteq diagnostics'
  PROVE  Backed'
  BY DEF Backed

(* The reader is where it was.                                             *)
LEMMA StillListed ==
  ASSUME Listable, InPlace, AsStated, Conforming,
         UNCHANGED <<region, strict, streams, position>>,
         diagnostics \subseteq diagnostics', strict => diagnostics' = diagnostics
  PROVE  InPlace' /\ AsStated' /\ Conforming'
  <1>1. EntryAt' = EntryAt /\ directory_at' = directory_at
    BY EntryAtFixed DEF directory_at, version_end
  <1>2. InPlace' /\ Conforming'
    BY <1>1 DEF InPlace, Conforming
  <1>3. AsStated'
    BY DEF AsStated
  <1> QED BY <1>2, <1>3

-------------------------------------------------------------------------------
(* What is dispatched                                                      *)

(* The streams of some name among those seen.                              *)
SeenNamed(names) == {i \in 1..dispatched : streams[i].name \in names}

(* The choices are right for the streams seen, and the others reported.    *)
Chosen ==
  /\ \A h \in HeapNames : IsFirst(heap_stream[h], SeenNamed({h}))
  /\ IsFirst(table_stream, SeenNamed(TableNames))
  /\ has_pdb_stream <=> SeenNamed({"#Pdb"}) # {}
  /\ \A i \in 1..region.stream_count :
       <<"DuplicateStreamName", i>> \in diagnostics
         <=> i \in 1..dispatched /\ \E j \in 1..i - 1 : streams[j].name = streams[i].name
  /\ strict => \A i \in 1..dispatched : \A j \in 1..i - 1 : streams[j].name # streams[i].name

(* A stream that is no longer seen is not chosen.                          *)
LEMMA OneMoreSeen ==
  ASSUME Listable, Dispatching, UNCHANGED streams, dispatched' = current, NEW names
  PROVE  /\ current \in 1..Len(streams) /\ current = dispatched + 1
         /\ SeenNamed(names) \subseteq 1..current - 1
         /\ name \in names => SeenNamed(names)' = SeenNamed(names) \cup {current}
         /\ name \notin names => SeenNamed(names)' = SeenNamed(names)
  <1>1. dispatched \in Nat /\ Len(streams) \in Nat /\ dispatched < Len(streams)
    BY DEF Listable, Dispatching
  <1>2. current = dispatched + 1 /\ current \in 1..Len(streams)
    BY <1>1 DEF current
  <1>3. \A i : i \in 1..current <=> i \in 1..dispatched \/ i = current
    BY <1>1, <1>2
  <1>4. SeenNamed(names)' = {i \in 1..current : streams[i].name \in names}
    BY DEF SeenNamed
  <1>5. name = streams[current].name
    BY DEF name
  <1>6. SeenNamed(names) \subseteq 1..current - 1
    BY <1>1, <1>2 DEF SeenNamed
  <1>7. current \notin SeenNamed(names)
    BY <1>1, <1>2 DEF SeenNamed
  <1> QED BY <1>2, <1>3, <1>4, <1>5, <1>6 DEF SeenNamed

(* A later stream changes nothing, unless it is the only one.              *)
LEMMA FirstStays ==
  ASSUME NEW k \in Nat, NEW ss \in SUBSET (1..k - 1), NEW i, IsFirst(i, ss)
  PROVE  /\ ss # {} => IsFirst(i, ss \cup {k})
         /\ ss = {} => i = 0 /\ IsFirst(k, ss \cup {k})
         /\ ss # {} => i # 0
  <1>1. ASSUME ss # {} PROVE IsFirst(i, ss \cup {k}) /\ i # 0
    <2>1. i \in ss /\ \A j \in ss : i <= j
      BY <1>1 DEF IsFirst
    <2>2. i \in Nat /\ i < k /\ i > 0
      BY <2>1
    <2> QED BY <2>1, <2>2 DEF IsFirst
  <1>2. ASSUME ss = {} PROVE i = 0 /\ IsFirst(k, ss \cup {k})
    BY <1>2 DEF IsFirst
  <1> QED BY <1>1, <1>2

(* The first stream of a name is put to its use.                           *)
LEMMA Taken ==
  ASSUME Listable, Chosen, TakeStream
  PROVE  Chosen'
  <1>1. /\ Dispatching /\ ~Seen /\ UNCHANGED <<region, streams, strict, diagnostics>> /\ dispatched' = current
        /\ heap_stream' = [h \in HeapNames |-> IF h = name THEN current ELSE heap_stream[h]]
        /\ table_stream' = IF name \in TableNames /\ table_stream = 0 THEN current ELSE table_stream
        /\ has_pdb_stream' = (has_pdb_stream \/ name = "#Pdb")
    BY DEF TakeStream
  <1>2. dispatched \in Nat /\ current = dispatched + 1 /\ current \in Nat
    BY <1>1 DEF Listable, current
  <1>3. ASSUME NEW j \in 1..current - 1 PROVE streams[j].name # name
    <2>1. j \in 1..dispatched
      BY <1>2
    <2> QED BY <1>1, <2>1 DEF Seen
  <1>4. ASSUME NEW h \in HeapNames PROVE IsFirst(heap_stream'[h], SeenNamed({h})')
    <2>1. /\ SeenNamed({h}) \subseteq 1..current - 1
          /\ name \in {h} => SeenNamed({h})' = SeenNamed({h}) \cup {current}
          /\ name \notin {h} => SeenNamed({h})' = SeenNamed({h})
      BY <1>1, OneMoreSeen
    <2>2. IsFirst(heap_stream[h], SeenNamed({h}))
      BY DEF Chosen
    <2>3. CASE h = name
      <3>1. SeenNamed({h}) = {}
        BY <1>3, <2>1, <2>3 DEF SeenNamed
      <3>2. SeenNamed({h})' = {current}
        BY <2>1, <2>3, <3>1
      <3>3. heap_stream'[h] = current
        BY <1>1, <2>3
      <3> QED BY <1>2, <3>2, <3>3 DEF IsFirst
    <2>4. CASE h # name
      BY <1>1, <2>1, <2>2, <2>4
    <2> QED BY <2>3, <2>4
  <1>5. IsFirst(table_stream', SeenNamed(TableNames)')
    <2>1. /\ SeenNamed(TableNames) \subseteq 1..current - 1
          /\ name \in TableNames => SeenNamed(TableNames)' = SeenNamed(TableNames) \cup {current}
          /\ name \notin TableNames => SeenNamed(TableNames)' = SeenNamed(TableNames)
      BY <1>1, OneMoreSeen
    <2>2. IsFirst(table_stream, SeenNamed(TableNames))
      BY DEF Chosen
    <2>3. CASE name \in TableNames
      <3> DEFINE ss == SeenNamed(TableNames)
      <3>1. ss \in SUBSET (1..current - 1) /\ IsFirst(table_stream, ss)
            /\ SeenNamed(TableNames)' = ss \cup {current}
        BY <2>1, <2>2, <2>3
      <3> HIDE DEF ss
      <3>2. IsFirst(table_stream', ss \cup {current})
        BY <1>1, <1>2, <2>3, <3>1, FirstStays
      <3> QED BY <3>1, <3>2
    <2>4. CASE name \notin TableNames
      BY <1>1, <2>1, <2>2, <2>4
    <2> QED BY <2>3, <2>4
  <1>6. has_pdb_stream' <=> SeenNamed({"#Pdb"})' # {}
    <2>1. /\ name \in {"#Pdb"} => SeenNamed({"#Pdb"})' = SeenNamed({"#Pdb"}) \cup {current}
          /\ name \notin {"#Pdb"} => SeenNamed({"#Pdb"})' = SeenNamed({"#Pdb"})
      BY <1>1, OneMoreSeen
    <2>2. has_pdb_stream <=> SeenNamed({"#Pdb"}) # {}
      BY DEF Chosen
    <2> QED BY <1>1, <2>1, <2>2
  <1>7. ASSUME NEW i \in 1..region.stream_count
        PROVE  <<"DuplicateStreamName", i>> \in diagnostics'
                 <=> i \in 1..dispatched' /\ \E j \in 1..i - 1 : streams'[j].name = streams'[i].name
    <2>1. CASE i = current
      <3>1. \A j \in 1..i - 1 : streams[j].name # streams[i].name
        BY <1>3, <2>1 DEF name
      <3>2. i \notin 1..dispatched
        BY <1>2, <2>1
      <3> QED BY <1>1, <3>1, <3>2 DEF Chosen
    <2>2. CASE i # current
      <3>1. i \in 1..dispatched' <=> i \in 1..dispatched
        BY <1>1, <1>2, <2>2
      <3> QED BY <1>1, <3>1 DEF Chosen
    <2> QED BY <2>1, <2>2
  <1>8. ASSUME strict', NEW i \in 1..dispatched', NEW j \in 1..i - 1
        PROVE  streams'[j].name # streams'[i].name
    <2>1. CASE i = current
      BY <1>1, <1>3, <2>1 DEF name
    <2>2. CASE i # current
      <3>1. i \in 1..dispatched
        BY <1>1, <1>2, <2>2
      <3> QED BY <1>1, <1>8, <3>1 DEF Chosen
    <2> QED BY <2>1, <2>2
  <1>9. region' = region
    BY <1>1
  <1> QED BY <1>4, <1>5, <1>6, <1>7, <1>8, <1>9 DEF Chosen

(* Any other is reported and otherwise ignored.                            *)
LEMMA Skipped ==
  ASSUME Listable, Chosen, SkipDuplicate
  PROVE  Chosen'
  <1>1. /\ Dispatching /\ Seen /\ ~strict /\ UNCHANGED <<region, streams, strict>> /\ dispatched' = current
        /\ diagnostics' = diagnostics \cup {<<"DuplicateStreamName", current>>}
        /\ UNCHANGED <<heap_stream, table_stream, has_pdb_stream>>
    BY DEF SkipDuplicate, chosen
  <1>2. dispatched \in Nat /\ current = dispatched + 1 /\ current \in Nat
    BY <1>1 DEF Listable, current
  <1>3. PICK k \in 1..dispatched : streams[k].name = name
    BY <1>1 DEF Seen
  <1>4. ASSUME NEW names
        PROVE  /\ \A i : IsFirst(i, SeenNamed(names)) => IsFirst(i, SeenNamed(names)')
               /\ SeenNamed(names)' # {} <=> SeenNamed(names) # {}
    <2>1. /\ SeenNamed(names) \subseteq 1..current - 1
          /\ name \in names => SeenNamed(names)' = SeenNamed(names) \cup {current}
          /\ name \notin names => SeenNamed(names)' = SeenNamed(names)
      BY <1>1, OneMoreSeen
    <2>2. name \in names => k \in SeenNamed(names)
      BY <1>3 DEF SeenNamed
    <2> QED BY <1>2, <2>1, <2>2, FirstStays
  <1>5. /\ \A h \in HeapNames : IsFirst(heap_stream'[h], SeenNamed({h})')
        /\ IsFirst(table_stream', SeenNamed(TableNames)')
        /\ has_pdb_stream' <=> SeenNamed({"#Pdb"})' # {}
    BY <1>1, <1>4 DEF Chosen
  <1>6. ASSUME NEW i \in 1..region.stream_count
        PROVE  <<"DuplicateStreamName", i>> \in diagnostics'
                 <=> i \in 1..dispatched' /\ \E j \in 1..i - 1 : streams'[j].name = streams'[i].name
    <2>1. CASE i = current
      <3>1. k \in 1..i - 1 /\ streams[k].name = streams[i].name
        BY <1>2, <1>3, <2>1 DEF name
      <3>2. i \in 1..dispatched'
        BY <1>1, <1>2, <2>1
      <3> QED BY <1>1, <2>1, <3>1, <3>2
    <2>2. CASE i # current
      <3>1. i \in 1..dispatched' <=> i \in 1..dispatched
        BY <1>1, <1>2, <2>2
      <3>2. <<"DuplicateStreamName", i>> \in diagnostics' <=> <<"DuplicateStreamName", i>> \in diagnostics
        BY <1>1, <2>2
      <3> QED BY <1>1, <3>1, <3>2 DEF Chosen
    <2> QED BY <2>1, <2>2
  <1> QED BY <1>1, <1>5, <1>6 DEF Chosen

-------------------------------------------------------------------------------
(* The parse                                                               *)

RootInv ==
  /\ Listable /\ Backed
  /\ pc # "failed" => Chosen
  /\ pc \in {"directory", "dispatch", "parsed"} => InPlace /\ AsStated /\ Conforming
  /\ pc \in {"dispatch", "parsed"} =>
       Len(streams) = region.stream_count \/ (~strict /\ ~(position + 8 <= region.len))
  /\ pc = "parsed" => dispatched = Len(streams) /\ (strict => table_stream # 0)

(* Before the first call nothing is listed or chosen.                      *)
LEMMA RootInitInv == RootInit => RootInv
  <1> SUFFICES ASSUME RootInit PROVE RootInv
    OBVIOUS
  <1>1. /\ region \in Regions /\ strict \in BOOLEAN /\ pc = "root" /\ streams = << >>
        /\ dispatched = 0 /\ heap_stream = [h \in HeapNames |-> 0] /\ table_stream = 0
        /\ has_pdb_stream = FALSE /\ diagnostics = {}
    BY DEF RootInit
  <1>2. region.stream_count \in Nat
    BY <1>1, RegionTyped
  <1>3. Listable
    BY <1>1, <1>2 DEF Listable
  <1>4. \A names : SeenNamed(names) = {}
    BY <1>1 DEF SeenNamed
  <1>5. Chosen
    BY <1>1, <1>4 DEF Chosen, IsFirst
  <1>6. Backed
    <2>1. 1..Len(streams) = {}
      BY <1>1
    <2> QED BY <2>1 DEF Backed
  <1> QED BY <1>1, <1>3, <1>5, <1>6 DEF RootInv

(* What the choices are about does not change while streams are listed.    *)
LEMMA StillChosen ==
  ASSUME Listable, Chosen, dispatched = 0, dispatched' = 0, UNCHANGED <<chosen, strict, region>>,
         \A i \in 1..region.stream_count : <<"DuplicateStreamName", i>> \notin diagnostics'
  PROVE  Chosen'
  <1>1. \A names : SeenNamed(names) = {} /\ SeenNamed(names)' = {}
    BY DEF SeenNamed
  <1>2. 1..dispatched' = {}
    OBVIOUS
  <1> QED BY <1>1, <1>2 DEF Chosen, chosen

(* A parse that fails leaves the list as it is.                            *)
LEMMA FailedIsListable ==
  ASSUME Listable, Backed, UNCHANGED <<region, strict, streams, dispatched>>, pc' = "failed",
         diagnostics \subseteq diagnostics'
  PROVE  RootInv'
  BY StillBacked DEF Listable, RootInv

(* Every step of the parse keeps the list and the choices.                 *)
LEMMA RootStepInv == RootInv /\ [RootNext]_root_vars => RootInv'
  <1> SUFFICES ASSUME RootInv, [RootNext]_root_vars PROVE RootInv'
    OBVIOUS
  <1>1. Listable /\ Backed
    BY DEF RootInv
  <1>2. CASE RejectRoot \/ RejectEntry \/ RejectDuplicate
    BY <1>1, <1>2, FailedIsListable DEF RejectRoot, RejectEntry, RejectDuplicate, Reject
  <1>3. CASE ReadRoot
    <2>1. /\ pc = "root" /\ RootReadable /\ (strict => region.version_terminated)
          /\ position' = directory_at /\ pc' = "directory"
          /\ diagnostics' = IF region.version_terminated THEN {} ELSE {<<"VersionStringPadding", 0>>}
          /\ UNCHANGED <<region, strict, error, streams, dispatched, chosen>>
      BY <1>3 DEF ReadRoot
    <2>2. streams = << >> /\ dispatched = 0 /\ region \in Regions /\ streams \in Seq(Streams)
      BY <1>1, <2>1 DEF Listable
    <2>3. directory_at \in Nat /\ region.len \in Nat /\ directory_at <= region.len
      BY <2>1, <2>2, RegionTyped DEF RootReadable
    <2>4. EntryAt' = EntryAt /\ directory_at' = directory_at /\ EntryAt[1] = directory_at
      BY <2>1, EntryAtFixed, EntriesFollow DEF directory_at, version_end
    <2>5. Len(streams) = 0 /\ 1..0 = {}
      BY <2>2
    <2>6. InPlace'
      BY <2>1, <2>3, <2>4, <2>5, LowerOf DEF InPlace
    <2>7. AsStated' /\ Conforming'
      BY <2>1, <2>4, <2>5 DEF AsStated, Conforming
    <2>8. Listable'
      BY <1>1, <2>1, <2>2 DEF Listable
    <2>9. Chosen'
      <3>1. Chosen
        BY <2>1 DEF RootInv
      <3> QED BY <1>1, <2>1, <2>2, <3>1, StillChosen
    <2>10. Backed'
      BY <2>1, <2>5 DEF Backed
    <2> QED BY <2>1, <2>6, <2>7, <2>8, <2>9, <2>10 DEF RootInv
  <1>4. CASE ListStream
    <2>1. pc = "directory" /\ dispatched = 0 /\ dispatched' = 0 /\ UNCHANGED <<pc, chosen, strict, region>>
      BY <1>1, <1>4 DEF ListStream, Listing, Listable
    <2>2. Chosen /\ InPlace /\ AsStated /\ Conforming
      BY <2>1 DEF RootInv
    <2>3. Listable' /\ InPlace' /\ AsStated' /\ Conforming' /\ Backed'
      BY <1>1, <1>4, <2>2, OneListed
    <2>4. \A i \in 1..region.stream_count : <<"DuplicateStreamName", i>> \notin diagnostics'
      <3>1. \A i \in 1..region.stream_count : <<"DuplicateStreamName", i>> \notin diagnostics
        <4>1. 1..dispatched = {}
          BY <2>1
        <4> QED BY <2>2, <4>1 DEF Chosen
      <3>2. diagnostics' \subseteq
              diagnostics \cup {<<"StreamNamePadding", index>>, <<"StreamRangeClamped", index>>}
        BY <1>4 DEF ListStream
      <3> QED BY <3>1, <3>2
    <2>5. Chosen'
      BY <1>1, <2>1, <2>2, <2>4, StillChosen
    <2> QED BY <2>1, <2>3, <2>5 DEF RootInv
  <1>5. CASE EndDirectory
    <2>1. /\ pc = "directory" /\ pc' = "dispatch"
          /\ Len(streams) = region.stream_count \/ (~EntryThere /\ ~strict)
          /\ UNCHANGED <<region, strict, error, position, streams, dispatched, chosen, diagnostics>>
      BY <1>5 DEF EndDirectory
    <2>2. Chosen /\ InPlace /\ AsStated /\ Conforming
      BY <2>1 DEF RootInv
    <2>3. InPlace' /\ AsStated' /\ Conforming'
      BY <1>1, <2>1, <2>2, StillListed
    <2>4. Chosen' /\ Listable'
      BY <1>1, <2>1, <2>2 DEF Chosen, SeenNamed, chosen, Listable
    <2>5. Backed'
      BY <1>1, <2>1, StillBacked
    <2> QED BY <2>1, <2>3, <2>4, <2>5 DEF RootInv, EntryThere, name_start
  <1>6. CASE TakeStream \/ SkipDuplicate
    <2>1. /\ Dispatching /\ dispatched' = current /\ UNCHANGED <<region, strict, pc, streams, position>>
          /\ diagnostics \subseteq diagnostics' /\ (strict => diagnostics' = diagnostics)
      BY <1>6 DEF TakeStream, SkipDuplicate
    <2>2. pc = "dispatch"
      BY <2>1 DEF Dispatching
    <2>3. Chosen /\ InPlace /\ AsStated /\ Conforming
      BY <2>2 DEF RootInv
    <2>4. Chosen'
      BY <1>1, <1>6, <2>3, Taken, Skipped
    <2>5. InPlace' /\ AsStated' /\ Conforming'
      BY <1>1, <2>1, <2>3, StillListed
    <2>6. Listable'
      <3>1. dispatched \in Nat /\ Len(streams) \in Nat /\ dispatched < Len(streams)
        BY <1>1, <2>1 DEF Listable, Dispatching
      <3>2. dispatched' \in 0..Len(streams)
        BY <2>1, <3>1 DEF current
      <3> QED BY <1>1, <2>1, <2>2, <3>2 DEF Listable
    <2>7. Backed'
      BY <1>1, <2>1, StillBacked
    <2> QED BY <2>1, <2>2, <2>4, <2>5, <2>6, <2>7 DEF RootInv
  <1>7. CASE ParseTables \/ NoTables
    <2>1. /\ pc = "dispatch" /\ dispatched = Len(streams) /\ pc' \in {"parsed", "failed"}
          /\ UNCHANGED <<region, strict, position, streams, dispatched, chosen, diagnostics>>
          /\ pc' = "parsed" => (strict => table_stream # 0)
      BY <1>7 DEF ParseTables, NoTables, Dispatched, Reject
    <2>2. CASE pc' = "failed"
      BY <1>1, <2>1, <2>2, FailedIsListable
    <2>3. CASE pc' = "parsed"
      <3>1. Chosen /\ InPlace /\ AsStated /\ Conforming
        BY <2>1 DEF RootInv
      <3>2. InPlace' /\ AsStated' /\ Conforming'
        BY <1>1, <2>1, <3>1, StillListed
      <3>3. Chosen' /\ Listable' /\ table_stream' = table_stream
        BY <1>1, <2>1, <2>3, <3>1 DEF Chosen, SeenNamed, chosen, Listable
      <3>4. Backed'
        BY <1>1, <2>1, StillBacked
      <3> QED BY <2>1, <2>3, <3>2, <3>3, <3>4 DEF RootInv
    <2> QED BY <2>1, <2>2, <2>3
  <1>8. CASE UNCHANGED root_vars
    <2>1. UNCHANGED <<region, strict, pc, position, streams, dispatched, chosen, diagnostics>>
      BY <1>8 DEF root_vars, chosen
    <2>2. Listable' /\ (Chosen => Chosen')
      BY <1>1, <2>1 DEF Listable, Chosen, SeenNamed, chosen
    <2>3. InPlace /\ AsStated /\ Conforming => InPlace' /\ AsStated' /\ Conforming'
      BY <1>1, <2>1, StillListed
    <2>4. table_stream' = table_stream
      BY <2>1 DEF chosen
    <2>5. Backed'
      BY <1>1, <2>1, StillBacked
    <2> QED BY <2>1, <2>2, <2>3, <2>4, <2>5 DEF RootInv
  <1> QED BY <1>2, <1>3, <1>4, <1>5, <1>6, <1>7, <1>8 DEF RootNext

LEMMA RootInvariance == RootSpec => []RootInv
  BY RootInitInv, RootStepInv, PTL DEF RootSpec

-------------------------------------------------------------------------------
(* The theorems about the root                                             *)

(* Whatever the directory holds and wherever the region ends, the list     *)
(* stops where the bytes stop: it has every entry whose two numbers lie in *)
(* the region and no other (metadata.rs:121-158).                          *)
THEOREM ListIsThePrefix == RootSpec => []ListIsLongestPrefix
  <1>1. RootInv => ListIsLongestPrefix
    <2> SUFFICES ASSUME RootInv, Listed
                 PROVE  /\ \A i \in 1..region.stream_count :
                             i <= Len(streams) <=> EntryAt[i] + 8 <= region.len
                        /\ \A i \in 1..Len(streams) :
                             /\ streams[i].offset = region.directory[i].offset
                             /\ streams[i].name # region.directory[i].name =>
                                  i = Len(streams) /\ <<"StreamNamePadding", i>> \in diagnostics
                        /\ position = Lower(EntryAt[Len(streams) + 1], region.len)
      BY DEF ListIsLongestPrefix
    <2>1. /\ Listable /\ InPlace /\ AsStated
          /\ Len(streams) = region.stream_count \/ ~(position + 8 <= region.len)
      BY DEF RootInv, Listed
    <2>2. /\ region \in Regions /\ Len(streams) \in Nat /\ region.len \in Nat
          /\ region.stream_count \in Nat /\ Len(streams) <= region.stream_count
      BY <2>1, RegionTyped DEF Listable
    <2>3. ASSUME NEW i \in 1..region.stream_count
          PROVE  i <= Len(streams) <=> EntryAt[i] + 8 <= region.len
      <3>1. CASE i <= Len(streams)
        BY <2>1, <2>2, <3>1 DEF InPlace
      <3>2. CASE ~(i <= Len(streams))
        <4> DEFINE k == Len(streams) + 1
                   a == EntryAt[k]
                   b == EntryAt[i]
        <4>1. k \in 1..i /\ i \in 1..region.stream_count + 1 /\ k \in 1..region.stream_count + 1
          BY <2>2, <3>2
        <4>2. a \in Nat /\ b \in Nat /\ a <= b
          BY <2>2, <4>1, EntriesAscend
        <4>3. ~(position + 8 <= region.len) /\ position = Lower(a, region.len)
          BY <2>1, <2>2, <3>2 DEF InPlace
        <4> HIDE DEF a
        <4>4. ~(a + 8 <= region.len)
          BY <2>2, <4>2, <4>3 DEF Lower
        <4> HIDE DEF b
        <4>5. ~(b + 8 <= region.len)
          BY <2>2, <4>2, <4>4
        <4> QED BY <3>2, <4>5 DEF b
      <3> QED BY <3>1, <3>2
    <2>4. position = Lower(EntryAt[Len(streams) + 1], region.len)
      BY <2>1 DEF InPlace
    <2> QED BY <2>1, <2>3, <2>4 DEF AsStated
  <1> QED BY <1>1, RootInvariance, PTL

(* However many streams share a name, each heap is read from the first of  *)
(* its name and the tables from the first of either, and every later one   *)
(* of a name is reported (metadata.rs:185-217).                            *)
THEOREM FirstOfANameWins == RootSpec => []FirstNameWins
  <1>1. RootInv => FirstNameWins
    <2> SUFFICES ASSUME RootInv, pc = "parsed"
                 PROVE  /\ \A h \in HeapNames : IsFirst(heap_stream[h], StreamsNamed({h}))
                        /\ IsFirst(table_stream, StreamsNamed(TableNames))
                        /\ has_pdb_stream <=> StreamsNamed({"#Pdb"}) # {}
                        /\ \A i \in 1..Len(streams) :
                             <<"DuplicateStreamName", i>> \in diagnostics
                               <=> ~IsFirst(i, StreamsNamed({streams[i].name}))
      BY DEF FirstNameWins
    <2>1. Listable /\ Chosen /\ dispatched = Len(streams) /\ Len(streams) \in Nat
      BY DEF RootInv, Listable
    <2>2. \A names : StreamsNamed(names) = SeenNamed(names)
      BY <2>1 DEF StreamsNamed, SeenNamed
    <2>3. ASSUME NEW i \in 1..Len(streams)
          PROVE  (\E j \in 1..i - 1 : streams[j].name = streams[i].name)
                   <=> ~IsFirst(i, StreamsNamed({streams[i].name}))
      <3> DEFINE ss == StreamsNamed({streams[i].name})
      <3>1. i \in ss /\ \A j : j \in ss <=> j \in 1..Len(streams) /\ streams[j].name = streams[i].name
        BY DEF StreamsNamed
      <3> HIDE DEF ss
      <3>2. ss # {}
        BY <3>1
      <3>3. IsFirst(i, ss) <=> \A j \in ss : i <= j
        BY <3>1, <3>2 DEF IsFirst
      <3>4. ASSUME NEW j \in 1..i - 1, streams[j].name = streams[i].name PROVE ~IsFirst(i, ss)
        <4>1. j \in ss /\ ~(i <= j)
          BY <2>1, <3>1, <3>4
        <4> QED BY <3>3, <4>1
      <3>5. ASSUME NEW j \in ss, ~(i <= j) PROVE j \in 1..i - 1 /\ streams[j].name = streams[i].name
        BY <2>1, <3>1, <3>5
      <3> QED BY <3>3, <3>4, <3>5 DEF ss
    <2>4. \A i \in 1..Len(streams) :
            <<"DuplicateStreamName", i>> \in diagnostics
              <=> \E j \in 1..i - 1 : streams[j].name = streams[i].name
      <3>1. \A i \in 1..Len(streams) : i \in 1..region.stream_count
        BY <2>1, RegionTyped DEF Listable
      <3> QED BY <2>1, <3>1 DEF Chosen
    <2>5. /\ \A h \in HeapNames : IsFirst(heap_stream[h], StreamsNamed({h}))
          /\ IsFirst(table_stream, StreamsNamed(TableNames))
          /\ has_pdb_stream <=> StreamsNamed({"#Pdb"}) # {}
      BY <2>1, <2>2 DEF Chosen
    <2> QED BY <2>3, <2>4, <2>5
  <1> QED BY <1>1, RootInvariance, PTL

(* Strict parsing accepts conforming roots only, of any size.              *)
THEOREM StrictRootsConform == RootSpec => []StrictIsConforming
  <1>1. RootInv => StrictIsConforming
    <2> SUFFICES ASSUME RootInv, strict, pc = "parsed"
                 PROVE  /\ diagnostics = {}
                        /\ Len(streams) = region.stream_count
                        /\ EntryAt[region.stream_count + 1] <= region.len
                        /\ \A i \in 1..Len(streams) :
                             /\ NameLength[streams[i].name] <= 32
                             /\ streams[i].offset + streams[i].size <= region.len
                                  \/ streams[i].size = 0
                             /\ \A j \in 1..i - 1 : streams[j].name # streams[i].name
                        /\ table_stream # 0
      BY DEF StrictIsConforming
    <2>1. /\ Listable /\ Backed /\ Chosen /\ InPlace /\ AsStated /\ Conforming
          /\ dispatched = Len(streams) /\ Len(streams) = region.stream_count /\ table_stream # 0
      BY DEF RootInv
    <2>2. /\ region.len \in Nat /\ region.stream_count \in Nat /\ streams \in Seq(Streams)
          /\ EntryAt[region.stream_count + 1] \in Nat
      <3>1. region \in Regions
        BY <2>1 DEF Listable
      <3>2. region.stream_count + 1 \in 1..region.stream_count + 1
        BY <3>1, RegionTyped
      <3> QED BY <2>1, <3>1, <3>2, RegionTyped, EntriesAscend DEF Listable
    <2>3. EntryAt[region.stream_count + 1] <= region.len
      <3> DEFINE a == EntryAt[region.stream_count + 1]
      <3>1. a = Lower(a, region.len)
        BY <2>1 DEF InPlace, Conforming
      <3>2. a \in Nat
        BY <2>2
      <3> HIDE DEF a
      <3>3. a <= region.len
        BY <2>2, <3>1, <3>2 DEF Lower
      <3> QED BY <3>3 DEF a
    <2>4. ASSUME NEW i \in 1..Len(streams)
          PROVE  streams[i].offset + streams[i].size <= region.len \/ streams[i].size = 0
      <3> DEFINE o == streams[i].offset
                 s == streams[i].size
      <3>1. streams[i] \in Streams
        BY <2>2
      <3>2. /\ o \in Nat /\ s \in Nat
            /\ Lower(o + s, region.len) - Lower(o, region.len) = s
        <4>1. streams[i].data[2] - streams[i].data[1] = s
          BY <2>1 DEF Conforming
        <4>2. streams[i].data = <<Lower(o, region.len), Lower(o + s, region.len)>>
          BY <2>1 DEF Backed
        <4>3. o \in Nat /\ s \in Nat
          BY <3>1 DEF Streams
        <4> HIDE DEF o, s
        <4> QED BY <4>1, <4>2, <4>3
      <3> HIDE DEF o, s
      <3>3. o + s <= region.len \/ s = 0
        BY <2>2, <3>2, Unclamped
      <3> QED BY <3>3 DEF o, s
    <2> QED BY <2>1, <2>3, <2>4 DEF Conforming, Chosen
  <1> QED BY <1>1, RootInvariance, PTL

(* No stream hands out a byte outside the region, and each has all the     *)
(* bytes it states unless it is reported (metadata.rs:160-174).            *)
THEOREM StreamsAreBacked == RootSpec => []DataIsStatedOrReported
  <1>1. RootInv => DataIsStatedOrReported
    <2> SUFFICES ASSUME RootInv, NEW i \in 1..Len(streams)
                 PROVE  LET s == streams[i]
                        IN  /\ 0 <= s.data[1] /\ s.data[1] <= s.data[2] /\ s.data[2] <= region.len
                            /\ \/ s.size = 0 /\ s.data[1] = s.data[2]
                               \/ s.data = <<s.offset, s.offset + s.size>>
                               \/ <<"StreamRangeClamped", i>> \in diagnostics
      BY DEF DataIsStatedOrReported
    <2> DEFINE o == streams[i].offset
               z == streams[i].size
               d == streams[i].data
               l == region.len
    <2>1. Listable /\ Backed
      BY DEF RootInv
    <2>2. streams[i] \in Streams /\ l \in Nat
      BY <2>1, RegionTyped DEF Listable
    <2>3. /\ o \in Nat /\ z \in Nat /\ d = <<Lower(o, l), Lower(o + z, l)>>
          /\ d[2] - d[1] # z => <<"StreamRangeClamped", i>> \in diagnostics
      BY <2>1, <2>2 DEF Streams, Backed
    <2>4. /\ 0 <= d[1] /\ d[1] <= d[2] /\ d[2] <= l
          /\ \/ z = 0 /\ d[1] = d[2]
             \/ d = <<o, o + z>>
             \/ <<"StreamRangeClamped", i>> \in diagnostics
      <3> HIDE DEF o, z, d, l
      <3>1. d[1] = Lower(o, l) /\ d[2] = Lower(o + z, l)
        BY <2>3
      <3>2. 0 <= d[1] /\ d[1] <= d[2] /\ d[2] <= l
        BY <2>2, <2>3, <3>1 DEF Lower
      <3>3. ASSUME d[2] - d[1] = z PROVE (z = 0 /\ d[1] = d[2]) \/ d = <<o, o + z>>
        <4>1. CASE z = 0
          BY <2>2, <2>3, <3>1, <4>1 DEF Lower
        <4>2. CASE z # 0
          <5>1. o + z <= l
            BY <2>2, <2>3, <3>1, <3>3, <4>2, Unclamped
          <5>2. Lower(o, l) = o /\ Lower(o + z, l) = o + z
            BY <2>2, <2>3, <5>1 DEF Lower
          <5> QED BY <2>3, <5>2
        <4> QED BY <4>1, <4>2
      <3> QED BY <2>3, <3>2, <3>3
    <2> QED BY <2>4
  <1> QED BY <1>1, RootInvariance, PTL

-------------------------------------------------------------------------------
(* Compressed integers                                                     *)

(* A quotient and a remainder make up the number, in one way only.         *)
LEMMA Quotient ==
  ASSUME NEW b \in Nat \ {0}, NEW q \in Nat, NEW m \in 0..b - 1
  PROVE  (q * b + m) \div b = q /\ (q * b + m) % b = m
  OBVIOUS

(* Every number has them.                                                  *)
LEMMA Division ==
  ASSUME NEW b \in Nat \ {0}, NEW n \in Nat
  PROVE  n \div b \in Nat /\ n % b \in 0..b - 1 /\ n = (n \div b) * b + (n % b)
  OBVIOUS

(* The parts of the radix that mark the forms.                             *)
LEMMA RadixParts ==
  \E k \in Nat \ {0} : /\ Radix = 8 * k /\ Radix \div 2 = 4 * k /\ Radix \div 4 = 2 * k
                       /\ Radix \div 8 = k
  <1>1. PICK k \in 1..32 : Radix = 8 * k
    BY RadixAssumption
  <1>2. k \in Nat \ {0}
    OBVIOUS
  <1>3. Radix \div 2 = 4 * k /\ Radix \div 4 = 2 * k /\ Radix \div 8 = k
    BY <1>1, <1>2
  <1> QED BY <1>1, <1>2, <1>3

(* Its powers are positive.                                                *)
LEMMA Powers ==
  /\ Radix \in Nat \ {0} /\ Radix2 \in Nat \ {0} /\ Radix3 \in Nat \ {0}
  /\ Radix2 = Radix * Radix /\ Radix3 = Radix * Radix2
  <1>1. Radix \in Nat \ {0}
    BY RadixParts
  <1>2. Radix2 \in Nat \ {0}
    BY <1>1 DEF Radix2
  <1> QED BY <1>1, <1>2 DEF Radix2, Radix3

(* Values of a form of so many bytes are below its bound.                  *)
Bound(width) ==
  IF width = 1 THEN Radix \div 2 ELSE IF width = 2 THEN (Radix \div 4) * Radix
  ELSE MaxCompressed + 1

(* A heap's bytes are digits.                                              *)
LEMMA HeapTyped ==
  ASSUME heap \in Heaps
  PROVE  /\ heap.bytes \in Seq(0..Radix - 1) /\ len \in Nat
         /\ \A i \in 0..len - 1 : byte(i) \in 0..Radix - 1
         /\ heap.kind \in {"#Strings", "#Blob", "#US", "#GUID"}
         /\ GuidSize \in Nat \ {0} /\ TokenSpan \in Nat \ {0} /\ OffsetLimit \in Nat \ {0}
  <1>1. heap.bytes \in Seq(0..Radix - 1)
    BY HeapsAssumption
  <1>2. len \in Nat
    BY <1>1 DEF len
  <1>3. \A i \in 0..len - 1 : byte(i) \in 0..Radix - 1
    <2> SUFFICES ASSUME NEW i \in 0..len - 1 PROVE byte(i) \in 0..Radix - 1
      OBVIOUS
    <2>1. i + 1 \in 1..len
      BY <1>2
    <2>2. i + 1 \in 1..Len(heap.bytes)
      BY <2>1 DEF len
    <2>3. heap.bytes[i + 1] \in 0..Radix - 1
      BY <1>1, <2>2, ElementOfSeq
    <2> QED BY <2>3 DEF byte
  <1> QED BY <1>1, <1>2, <1>3, HeapsAssumption

(* What read_u32 returns is in the blob and below the bound of its form.   *)
LEMMA ReadTyped ==
  ASSUME heap \in Heaps, NEW at \in Nat, read_u32(at) # Failed
  PROVE  \E v \in Nat, w \in {1, 2, 4} :
           read_u32(at) = <<v, w>> /\ at + w <= len /\ v < Bound(w)
  <1>1. PICK k \in Nat \ {0} : /\ Radix = 8 * k /\ Radix \div 2 = 4 * k /\ Radix \div 4 = 2 * k
                              /\ Radix \div 8 = k
    BY RadixParts
  <1>2. len \in Nat /\ \A i \in 0..len - 1 : byte(i) \in 0..Radix - 1
    BY HeapTyped
  <1>3. at < len
    BY <1>2 DEF read_u32
  <1>4. byte(at) \in 0..Radix - 1
    BY <1>2, <1>3
  <1>5. CASE byte(at) < Radix \div 2
    <2>1. read_u32(at) = <<byte(at), 1>>
      BY <1>3, <1>5 DEF read_u32
    <2>2. byte(at) \in Nat /\ at + 1 <= len /\ byte(at) < Bound(1)
      BY <1>1, <1>2, <1>3, <1>4, <1>5 DEF Bound
    <2> QED BY <2>1, <2>2
  <1>6. CASE ~(byte(at) < Radix \div 2) /\ byte(at) < 3 * (Radix \div 4)
    <2> DEFINE v == (byte(at) - Radix \div 2) * Radix + byte(at + 1)
    <2>1. read_u32(at) = <<v, 2>> /\ ~(at + 2 > len)
      BY <1>3, <1>6 DEF read_u32
    <2>2. byte(at + 1) \in 0..Radix - 1 /\ at + 2 <= len
      BY <1>2, <2>1
    <2> DEFINE a == byte(at) - 4 * k
               b == byte(at + 1)
    <2>3. a \in Nat /\ a + 1 <= 2 * k /\ b \in Nat /\ b < Radix /\ v = a * Radix + b
      BY <1>1, <1>4, <1>6, <2>2
    <2> HIDE DEF a, b, v
    <2>4. (a + 1) * Radix <= (2 * k) * Radix
      BY <1>1, <2>3
    <2>5. a * Radix \in Nat /\ (a + 1) * Radix = a * Radix + Radix
      BY <1>1, <2>3
    <2>6. v \in Nat /\ v < (2 * k) * Radix
      BY <1>1, <2>3, <2>4, <2>5
    <2> QED BY <1>1, <2>1, <2>2, <2>6 DEF Bound
  <1>7. CASE ~(byte(at) < Radix \div 2) /\ ~(byte(at) < 3 * (Radix \div 4))
    <2> DEFINE v == (byte(at) - 3 * (Radix \div 4)) * Radix3 + byte(at + 1) * Radix2
                    + byte(at + 2) * Radix + byte(at + 3)
    <2>1. read_u32(at) = <<v, 4>> /\ ~(at + 4 > len) /\ byte(at) < 7 * (Radix \div 8)
      BY <1>3, <1>7 DEF read_u32
    <2>2. /\ byte(at + 1) \in 0..Radix - 1 /\ byte(at + 2) \in 0..Radix - 1
          /\ byte(at + 3) \in 0..Radix - 1 /\ at + 4 <= len
      BY <1>2, <2>1
    <2> DEFINE a == byte(at) - 6 * k
               b == byte(at + 1)
               c == byte(at + 2)
               d == byte(at + 3)
    <2>3. /\ a \in Nat /\ a + 1 <= k /\ b \in 0..Radix - 1 /\ c \in 0..Radix - 1 /\ d \in 0..Radix - 1
          /\ v = a * Radix3 + b * Radix2 + c * Radix + d
      BY <1>1, <1>4, <1>7, <2>1, <2>2
    <2> HIDE DEF a, b, c, d, v
    <2>4. c * Radix \in Nat /\ c * Radix + d < Radix2
      <3>1. (c + 1) * Radix <= Radix * Radix
        BY Powers, <2>3
      <3>2. (c + 1) * Radix = c * Radix + Radix /\ c * Radix \in Nat
        BY Powers, <2>3
      <3> QED BY Powers, <2>3, <3>1, <3>2
    <2>5. b * Radix2 \in Nat /\ b * Radix2 + Radix2 <= Radix3
      <3>1. (b + 1) * Radix2 <= Radix * Radix2
        BY Powers, <2>3
      <3>2. (b + 1) * Radix2 = b * Radix2 + Radix2 /\ b * Radix2 \in Nat
        BY Powers, <2>3
      <3> QED BY Powers, <3>1, <3>2
    <2>6. a * Radix3 \in Nat /\ a * Radix3 + Radix3 <= k * Radix3
      <3>1. (a + 1) * Radix3 <= k * Radix3
        BY Powers, <2>3
      <3>2. (a + 1) * Radix3 = a * Radix3 + Radix3 /\ a * Radix3 \in Nat
        BY Powers, <2>3
      <3> QED BY <3>1, <3>2
    <2>7. v \in Nat /\ v < k * Radix3
      <3> DEFINE x == a * Radix3
                 y == b * Radix2
                 z == c * Radix
                 m == k * Radix3
      <3>1. /\ x \in Nat /\ y \in Nat /\ z \in Nat /\ v = x + y + z + d /\ m \in Nat
            /\ z + d < Radix2 /\ y + Radix2 <= Radix3 /\ x + Radix3 <= m
        BY Powers, <1>1, <2>3, <2>4, <2>5, <2>6
      <3> HIDE DEF x, y, z, m
      <3>2. v \in Nat /\ v < m
        BY Powers, <2>3, <3>1
      <3> QED BY <3>2 DEF m
    <2>8. Bound(4) = k * Radix3
      BY Powers, <1>1 DEF Bound, MaxCompressed
    <2> QED BY <2>1, <2>2, <2>7, <2>8
  <1> QED BY <1>5, <1>6, <1>7

(* The sign of a form weighs half of the form's bound.                     *)
LEMMA SignWeighs ==
  ASSUME NEW w \in {1, 2, 4}
  PROVE  SignBit(w) \in Nat \ {0} /\ Bound(w) = 2 * SignBit(w)
  <1>1. PICK k \in Nat \ {0} : /\ Radix = 8 * k /\ Radix \div 2 = 4 * k /\ Radix \div 4 = 2 * k
                              /\ Radix \div 8 = k
    BY RadixParts
  <1>2. CASE w = 1
    BY <1>1, <1>2 DEF SignBit, Bound
  <1>3. CASE w = 2
    <2>1. Radix2 = 8 * (8 * (k * k)) /\ (2 * k) * Radix = 2 * (8 * (k * k)) /\ 8 * (k * k) \in Nat \ {0}
      BY <1>1 DEF Radix2
    <2>2. SignBit(w) = Radix2 \div 8 /\ Bound(w) = (2 * k) * Radix
      BY <1>1, <1>3 DEF SignBit, Bound
    <2> DEFINE n == 8 * (k * k)
    <2>3. Radix2 = 8 * n /\ (2 * k) * Radix = 2 * n /\ n \in Nat \ {0}
      BY <2>1
    <2> HIDE DEF n
    <2>4. Radix2 \div 8 = n
      BY <2>3
    <2> QED BY <2>2, <2>3, <2>4
  <1>4. CASE w = 4
    <2> DEFINE n == k * Radix3
    <2>1. SignBit(w) = (Radix * Radix3) \div 16 /\ Bound(w) = n
      BY <1>1, <1>4, Powers DEF SignBit, Bound, MaxCompressed
    <2>2. Radix * Radix3 = 8 * n /\ n \in Nat \ {0}
      BY <1>1, Powers
    <2>3. n = 2 * (256 * (k * (k * (k * k))))
      <3>1. Radix3 = 512 * (k * (k * k))
        <4>1. Radix2 = 64 * (k * k)
          BY <1>1 DEF Radix2
        <4> DEFINE kk == k * k
        <4>2. kk \in Nat /\ Radix2 = 64 * kk
          BY <1>1, <4>1
        <4> HIDE DEF kk
        <4>3. Radix3 = 512 * (k * kk)
          BY <1>1, <4>2 DEF Radix3
        <4> QED BY <4>3 DEF kk
      <3> DEFINE c == k * (k * k)
      <3>2. c \in Nat /\ Radix3 = 512 * c
        BY <1>1, <3>1
      <3> HIDE DEF c
      <3>3. n = 2 * (256 * (k * c))
        BY <1>1, <3>2
      <3> QED BY <3>3 DEF c
    <2> DEFINE m == 256 * (k * (k * (k * k)))
    <2>4. m \in Nat /\ n = 2 * m
      BY <1>1, <2>3
    <2> HIDE DEF n, m
    <2>5. (Radix * Radix3) \div 16 = m /\ m # 0
      BY <2>2, <2>4
    <2> QED BY <2>1, <2>4, <2>5
  <1> QED BY <1>2, <1>3, <1>4

(* Rotating the sign back gives the number.                                *)
LEMMA RotatedBack ==
  ASSUME NEW s \in Nat \ {0}, NEW raw \in Nat, raw < 2 * s
  PROVE  /\ 2 * rotate(raw, s) \in -(2 * s)..2 * s - 1
         /\ raw = ((2 * rotate(raw, s)) % (2 * s)) + (IF rotate(raw, s) < 0 THEN 1 ELSE 0)
  <1>1. PICK q \in Nat : /\ raw \div 2 = q
                      /\ \/ raw = 2 * q /\ raw % 2 = 0
                         \/ raw = 2 * q + 1 /\ raw % 2 # 0
    <2> DEFINE q == raw \div 2
               r == raw % 2
    <2>1. q \in Nat /\ r \in 0..1 /\ raw = 2 * q + r
      OBVIOUS
    <2> HIDE DEF q, r
    <2>2. (raw = 2 * q /\ r = 0) \/ (raw = 2 * q + 1 /\ r # 0)
      BY <2>1
    <2> QED BY <2>1, <2>2 DEF q, r
  <1>2. CASE raw % 2 = 0
    <2>1. rotate(raw, s) = q /\ raw = 2 * q
      BY <1>1, <1>2 DEF rotate
    <2>2. 2 * q \in 0..2 * s - 1 /\ (2 * q) % (2 * s) = 2 * q
      BY <2>1
    <2> QED BY <2>1, <2>2
  <1>3. CASE raw % 2 # 0
    <2>1. rotate(raw, s) = q - s /\ raw = 2 * q + 1
      BY <1>1, <1>3 DEF rotate
    <2>2. q < s /\ q - s < 0
      BY <2>1
    <2>3. (2 * (q - s)) % (2 * s) = 2 * q
      <3> DEFINE h == 2 * s
                 x == 2 * q
      <3>1. h \in Nat \ {0} /\ x \in 0..h - 1 /\ 2 * (q - s) = x - h
        BY <2>2
      <3> HIDE DEF h, x
      <3>2. (x - h) % h = x
        BY <3>1
      <3> QED BY <3>1, <3>2 DEF h, x
    <2> QED BY <2>1, <2>2, <2>3
  <1> QED BY <1>2, <1>3

(* read_i32 is the unsigned reading with its sign rotated back.            *)
LEMMA SignsRotate ==
  ASSUME heap \in Heaps
  PROVE  SignedIsRotated
  <1> SUFFICES ASSUME NEW at \in 0..len - 1
               PROVE  LET raw == read_u32(at) signed == read_i32(at)
                          half == Bound(raw[2])
                      IN  IF raw = Failed THEN signed = Failed
                          ELSE /\ signed[2] = raw[2]
                               /\ 2 * signed[1] \in -half..half - 1
                               /\ raw[1] = ((2 * signed[1]) % half) + (IF signed[1] < 0 THEN 1 ELSE 0)
    BY DEF SignedIsRotated, Bound
  <1>1. CASE read_u32(at) = Failed
    BY <1>1 DEF read_i32
  <1>2. CASE read_u32(at) # Failed
    <2>1. at \in Nat
      BY HeapTyped
    <2>2. PICK v \in Nat, w \in {1, 2, 4} : read_u32(at) = <<v, w>> /\ v < Bound(w)
      BY <1>2, <2>1, ReadTyped
    <2>3. read_i32(at) = <<rotate(v, SignBit(w)), w>>
      BY <1>2, <2>2 DEF read_i32
    <2> DEFINE s == SignBit(w)
               r == rotate(v, s)
    <2>4. s \in Nat \ {0} /\ Bound(w) = 2 * s
      BY SignWeighs
    <2> HIDE DEF s
    <2>5. 2 * r \in -(2 * s)..2 * s - 1 /\ v = ((2 * r) % (2 * s)) + (IF r < 0 THEN 1 ELSE 0)
      BY <2>2, <2>4, RotatedBack
    <2>6. read_i32(at) = <<r, w>>
      BY <2>3 DEF s
    <2> HIDE DEF r
    <2> QED BY <1>2, <2>2, <2>4, <2>5, <2>6
  <1> QED BY <1>1, <1>2

(* Dividing twice is dividing by the product.                              *)
LEMMA QuotientOfQuotient ==
  ASSUME NEW a \in Nat \ {0}, NEW b \in Nat \ {0}, NEW v \in Nat
  PROVE  v \div (a * b) = (v \div a) \div b
  <1> DEFINE q == v \div a
             r == v % a
             p == q \div b
             t == q % b
  <1>1. q \in Nat /\ r \in 0..a - 1 /\ v = q * a + r
    BY Division
  <1> HIDE DEF q, r
  <1>2. p \in Nat /\ t \in 0..b - 1 /\ q = p * b + t
    BY <1>1, Division
  <1> HIDE DEF p, t
  <1> DEFINE c == a * b
             m == t * a + r
  <1>3. c \in Nat \ {0}
    BY SMT
  <1>4. m \in 0..c - 1
    <2>1. (t + 1) * a <= b * a
      BY <1>2
    <2>2. (t + 1) * a = t * a + a /\ t * a \in Nat /\ b * a = a * b
      BY <1>2
    <2> QED BY <1>1, <2>1, <2>2
  <1>5. v = p * c + m
    <2>1. q * a = (p * b) * a + t * a
      BY <1>2
    <2>2. (p * b) * a = p * (a * b)
      BY <1>2
    <2>3. (p * b) * a \in Nat /\ t * a \in Nat
      BY <1>2
    <2> QED BY <1>1, <2>1, <2>2, <2>3
  <1> HIDE DEF c, m
  <1>6. v \div c = p
    BY <1>2, <1>3, <1>4, <1>5, Quotient
  <1> QED BY <1>6 DEF c, p, q

(* The four digits of a number make it up.                                 *)
LEMMA Digits ==
  ASSUME NEW v \in Nat
  PROVE  /\ v \div Radix3 \in Nat /\ (v \div Radix2) % Radix \in 0..Radix - 1
         /\ (v \div Radix) % Radix \in 0..Radix - 1 /\ v % Radix \in 0..Radix - 1
         /\ v = (v \div Radix3) * Radix3 + ((v \div Radix2) % Radix) * Radix2
                + ((v \div Radix) % Radix) * Radix + (v % Radix)
  <1> DEFINE q1 == v \div Radix
             q2 == v \div Radix2
             q3 == v \div Radix3
             d == v % Radix
             c == q1 % Radix
             b == q2 % Radix
  <1>1. q1 \in Nat /\ d \in 0..Radix - 1 /\ v = q1 * Radix + d
    BY Powers, Division
  <1>2. q2 = q1 \div Radix
    BY Powers, QuotientOfQuotient
  <1>3. q2 \in Nat /\ c \in 0..Radix - 1 /\ q1 = q2 * Radix + c
    <2> HIDE DEF q1, q2
    <2> QED BY <1>1, <1>2, Powers, Division
  <1>4. q3 = q2 \div Radix
    <2>1. Radix3 = Radix2 * Radix
      BY Powers
    <2> QED BY Powers, <2>1, QuotientOfQuotient
  <1>5. q3 \in Nat /\ b \in 0..Radix - 1 /\ q2 = q3 * Radix + b
    <2> HIDE DEF q2, q3
    <2> QED BY <1>3, <1>4, Powers, Division
  <1> HIDE DEF q1, q2, q3, b, c, d
  <1>6. q2 * Radix2 = q3 * Radix3 + b * Radix2
    <2>1. (q3 * Radix + b) * Radix2 = q3 * (Radix * Radix2) + b * Radix2
      BY <1>5, Powers
    <2> QED BY <1>5, <2>1, Powers
  <1>7. q1 * Radix = q2 * Radix2 + c * Radix
    <2>1. (q2 * Radix + c) * Radix = q2 * (Radix * Radix) + c * Radix
      BY <1>3, Powers
    <2> QED BY <1>3, <2>1, Powers
  <1>8. v = q3 * Radix3 + b * Radix2 + c * Radix + d
    <2>1. /\ q3 * Radix3 \in Nat /\ b * Radix2 \in Nat /\ c * Radix \in Nat
          /\ q1 * Radix \in Nat /\ q2 * Radix2 \in Nat
      BY <1>1, <1>3, <1>5, Powers
    <2> QED BY <1>1, <1>6, <1>7, <2>1
  <1> QED BY <1>1, <1>3, <1>5, <1>8 DEF q1, q2, q3, b, c, d

(* read_u32 inverts write_u32, whatever follows in the heap.               *)
LEMMA ReadInvertsWrite ==
  ASSUME heap \in Heaps, NEW at \in Nat, NEW v \in Nat, v <= MaxCompressed,
         at + Len(write_u32(v)) <= len,
         \A j \in 1..Len(write_u32(v)) : heap.bytes[at + j] = write_u32(v)[j]
  PROVE  Len(write_u32(v)) \in {1, 2, 4} /\ read_u32(at) = <<v, Len(write_u32(v))>>
  <1>1. PICK k \in Nat \ {0} : /\ Radix = 8 * k /\ Radix \div 2 = 4 * k /\ Radix \div 4 = 2 * k
                              /\ Radix \div 8 = k
    BY RadixParts
  <1>2. len \in Nat
    BY HeapTyped
  <1>3. CASE v < Radix \div 2
    <2>1. write_u32(v) = <<v>>
      BY <1>3 DEF write_u32
    <2>2. Len(write_u32(v)) = 1 /\ at < len /\ heap.bytes[at + 1] = v
      BY <1>2, <2>1
    <2>3. byte(at) = v
      BY <2>2 DEF byte
    <2> QED BY <1>2, <1>3, <2>2, <2>3 DEF read_u32
  <1>4. CASE ~(v < Radix \div 2) /\ v < (Radix \div 4) * Radix
    <2> DEFINE q == v \div Radix
               r == v % Radix
    <2>1. write_u32(v) = <<Radix \div 2 + q, r>>
      BY <1>4 DEF write_u32
    <2>2. q \in Nat /\ r \in 0..Radix - 1 /\ v = q * Radix + r
      BY Powers, Division
    <2> HIDE DEF q, r
    <2>3. q < 2 * k
      <3>1. SUFFICES ASSUME q >= 2 * k PROVE FALSE
        BY <1>1, <2>2
      <3>2. q * Radix >= (2 * k) * Radix
        BY <1>1, <2>2, <3>1
      <3>3. q * Radix \in Nat /\ (2 * k) * Radix \in Nat
        BY <1>1, <2>2
      <3>4. v < (2 * k) * Radix
        BY <1>1, <1>4
      <3> QED BY <2>2, <3>2, <3>3, <3>4
    <2>4. Len(write_u32(v)) = 2
      BY <2>1
    <2>5. at + 2 <= len /\ heap.bytes[at + 1] = 4 * k + q /\ heap.bytes[at + 2] = r
      BY <1>1, <2>1, <2>4
    <2>6. byte(at) = 4 * k + q /\ byte(at + 1) = r
      <3>1. (at + 1) + 1 = at + 2
        OBVIOUS
      <3> QED BY <2>5, <3>1 DEF byte
    <2>7. /\ ~(at >= len) /\ ~(byte(at) < Radix \div 2) /\ byte(at) < 3 * (Radix \div 4)
          /\ ~(at + 2 > len) /\ byte(at) - Radix \div 2 = q
      BY <1>1, <1>2, <2>2, <2>3, <2>5, <2>6
    <2>8. read_u32(at) = <<q * Radix + r, 2>>
      BY <2>6, <2>7 DEF read_u32
    <2> QED BY <2>2, <2>4, <2>8
  <1>5. CASE ~(v < Radix \div 2) /\ ~(v < (Radix \div 4) * Radix)
    <2> DEFINE a == v \div Radix3
               b == (v \div Radix2) % Radix
               c == (v \div Radix) % Radix
               d == v % Radix
    <2>1. write_u32(v) = <<3 * (Radix \div 4) + a, b, c, d>>
      BY <1>5 DEF write_u32
    <2>2. /\ a \in Nat /\ b \in 0..Radix - 1 /\ c \in 0..Radix - 1 /\ d \in 0..Radix - 1
          /\ v = a * Radix3 + b * Radix2 + c * Radix + d
      BY Digits
    <2> HIDE DEF a, b, c, d
    <2>3. a < k
      <3>1. SUFFICES ASSUME a >= k PROVE FALSE
        BY <1>1, <2>2
      <3>2. a * Radix3 >= k * Radix3
        BY <1>1, <2>2, <3>1, Powers
      <3>3. a * Radix3 \in Nat /\ k * Radix3 \in Nat /\ b * Radix2 \in Nat /\ c * Radix \in Nat
        BY <1>1, <2>2, Powers
      <3>4. v >= k * Radix3
        BY <2>2, <3>2, <3>3
      <3>5. MaxCompressed = k * Radix3 - 1
        BY <1>1 DEF MaxCompressed
      <3> QED BY <3>3, <3>4, <3>5
    <2>4. Len(write_u32(v)) = 4
      BY <2>1
    <2>5. /\ at + 4 <= len /\ heap.bytes[at + 1] = 6 * k + a /\ heap.bytes[at + 2] = b
          /\ heap.bytes[at + 3] = c /\ heap.bytes[at + 4] = d
      BY <1>1, <2>1, <2>4
    <2>6. byte(at) = 6 * k + a /\ byte(at + 1) = b /\ byte(at + 2) = c /\ byte(at + 3) = d
      <3>1. (at + 1) + 1 = at + 2 /\ (at + 2) + 1 = at + 3 /\ (at + 3) + 1 = at + 4
        OBVIOUS
      <3> QED BY <2>5, <3>1 DEF byte
    <2>7. /\ ~(at >= len) /\ ~(byte(at) < Radix \div 2) /\ ~(byte(at) < 3 * (Radix \div 4))
          /\ byte(at) < 7 * (Radix \div 8)
          /\ ~(at + 4 > len) /\ byte(at) - 3 * (Radix \div 4) = a
      BY <1>1, <1>2, <2>2, <2>3, <2>5, <2>6
    <2>8. read_u32(at) = <<a * Radix3 + b * Radix2 + c * Radix + d, 4>>
      BY <2>6, <2>7 DEF read_u32
    <2> QED BY <2>2, <2>4, <2>8
  <1> QED BY <1>3, <1>4, <1>5

-------------------------------------------------------------------------------
(* Entries                                                                 *)

(* A string ends at e: at its NUL or with the heap.                        *)
StringEnds(at, e) ==
  /\ e \in at..len
  /\ e = len \/ byte(e) = 0
  /\ \A i \in at..e - 1 : byte(i) # 0

(* Every string ends.                                                      *)
LEMMA StringsEnd ==
  ASSUME heap \in Heaps, NEW at \in 0..len
  PROVE  StringEnds(at, NextNul(at))
  <1> DEFINE T == {e \in at..len : e = len \/ byte(e) = 0}
  <1>1. len \in Nat /\ at \in Nat
    BY HeapTyped
  <1>2. T \in SUBSET Nat
    BY <1>1
  <1>3. len \in T
    BY <1>1
  <1>4. PICK e \in T : \A y \in T : e <= y
    BY <1>2, <1>3, LeastNumber
  <1>5. e \in at..len /\ (e = len \/ byte(e) = 0)
    OBVIOUS
  <1>6. ASSUME NEW i \in at..e - 1 PROVE byte(i) # 0
    <2>1. i \in at..len /\ ~(e <= i)
      BY <1>1, <1>5
    <2>2. i \notin T
      BY <1>4, <2>1
    <2> QED BY <2>1, <2>2
  <1>7. \E x \in at..len : (x = len \/ byte(x) = 0) /\ \A i \in at..x - 1 : byte(i) # 0
    BY <1>5, <1>6
  <1> HIDE DEF T
  <1> QED BY <1>7 DEF NextNul, StringEnds

(* In one place only.                                                      *)
LEMMA EndsOnce ==
  ASSUME heap \in Heaps, NEW at \in 0..len, NEW e, StringEnds(at, e)
  PROVE  NextNul(at) = e
  <1> DEFINE d == NextNul(at)
  <1>1. StringEnds(at, d)
    BY StringsEnd
  <1>2. len \in Nat /\ at \in Nat
    BY HeapTyped
  <1> HIDE DEF d
  <1>3. d \in at..len /\ e \in at..len
    BY <1>1 DEF StringEnds
  <1>4. ~(d < e)
    <2> SUFFICES ASSUME d < e PROVE FALSE
      OBVIOUS
    <2>1. d \in at..e - 1 /\ d # len
      BY <1>2, <1>3
    <2> QED BY <1>1, <2>1 DEF StringEnds
  <1>5. ~(e < d)
    <2> SUFFICES ASSUME e < d PROVE FALSE
      OBVIOUS
    <2>1. e \in at..d - 1 /\ e # len
      BY <1>2, <1>3
    <2> QED BY <1>1, <2>1 DEF StringEnds
  <1> QED BY <1>2, <1>3, <1>4, <1>5 DEF d

(* The tail of a string ends where the string does.                        *)
LEMMA TailsEnd ==
  ASSUME heap \in Heaps, NEW at \in 0..len, NEW o \in at..NextNul(at)
  PROVE  NextNul(o) = NextNul(at)
  <1>1. StringEnds(at, NextNul(at))
    BY StringsEnd
  <1>2. len \in Nat /\ at \in Nat
    BY HeapTyped
  <1> DEFINE e == NextNul(at)
  <1>3. StringEnds(at, e) /\ o \in at..e
    BY <1>1
  <1> HIDE DEF e
  <1>4. o \in 0..len /\ e \in o..len
    BY <1>2, <1>3 DEF StringEnds
  <1>5. StringEnds(o, e)
    <2>1. \A i \in o..e - 1 : i \in at..e - 1
      BY <1>2, <1>3, <1>4
    <2> QED BY <1>3, <1>4, <2>1 DEF StringEnds
  <1> QED BY <1>4, <1>5, EndsOnce DEF e

(* The bytes a length prefix announces are behind it and in the heap.      *)
LEMMA PrefixedInside ==
  ASSUME heap \in Heaps, NEW at \in Nat
  PROVE  \/ Prefixed(at) = NoRange
         \/ \E v \in Nat, w \in {1, 2, 4} :
              /\ read_u32(at) = <<v, w>> /\ at + w + v <= len
              /\ Prefixed(at) = <<at + w, at + w + v>> /\ Prefixed(at) # NoRange
  <1>1. CASE read_u32(at) = Failed
    BY <1>1 DEF Prefixed
  <1>2. CASE read_u32(at) # Failed
    <2>1. PICK v \in Nat, w \in {1, 2, 4} : read_u32(at) = <<v, w>>
      BY <1>2, ReadTyped
    <2>2. len \in Nat
      BY HeapTyped
    <2>3. Prefixed(at) = IF at + w + v > len THEN NoRange ELSE <<at + w, at + w + v>>
      BY <1>2, <2>1 DEF Prefixed
    <2>4. <<at + w, at + w + v>> # NoRange
      BY DEF NoRange
    <2>5. CASE at + w + v > len
      BY <2>3, <2>5
    <2>6. CASE ~(at + w + v > len)
      <3>1. at + w + v <= len /\ Prefixed(at) = <<at + w, at + w + v>>
        BY <2>2, <2>3, <2>6
      <3> QED BY <2>1, <2>4, <3>1
    <2> QED BY <2>5, <2>6
  <1> QED BY <1>1, <1>2

(* The code units of a user string are in its body.                        *)
LEMMA UnitsInBody ==
  ASSUME NEW f \in Nat, NEW n \in Nat
  PROVE  \E m \in 0..n : /\ split_user_string(<<f, f + n>>) = <<f, f + m>>
                         /\ n = 0 => m = 0
                         /\ n > 0 => m = 2 * ((n - 1) \div 2)
  <1>1. CASE n = 0
    BY <1>1 DEF split_user_string
  <1>2. CASE n # 0
    <2> DEFINE m == 2 * ((n - 1) \div 2)
    <2>1. m \in 0..n
      BY <1>2
    <2>2. f + n - 1 - f = n - 1 /\ f # f + n
      BY <1>2
    <2>3. split_user_string(<<f, f + n>>) = <<f, f + m>>
      BY <2>2 DEF split_user_string
    <2> HIDE DEF m
    <2> QED BY <1>2, <2>1, <2>3 DEF m
  <1> QED BY <1>1, <1>2

-------------------------------------------------------------------------------
(* The iterators                                                           *)

HeapEntries == [at : Nat, range : Nat \X Nat]

(* The entry is what random access finds there.                            *)
Found(e) ==
  /\ heap.kind = "#Strings" => e.at < len /\ e.range = <<e.at, NextNul(e.at)>>
  /\ heap.kind = "#Blob" => Prefixed(e.at) # NoRange /\ e.range = Prefixed(e.at)
  /\ heap.kind = "#US" => Prefixed(e.at) # NoRange /\ e.range = split_user_string(Prefixed(e.at))
  /\ heap.kind = "#GUID" => e.at \in 1..guid_count /\ e.range = guid_get(e.at)

(* Every byte before p is in a string that was yielded, or is its NUL.     *)
CoveredTo(entries, p) ==
  \A o \in 0..p - 1 : \E i \in 1..Len(entries) : entries[i].at <= o /\ o <= entries[i].range[2]

(* The iterator is where its kind of heap lets it be.                      *)
Placed ==
  /\ heap.kind = "#Strings" => pos <= len + 1 /\ CoveredTo(items, pos)
  /\ heap.kind \in {"#Blob", "#US"} => pos <= len
  /\ heap.kind = "#GUID" => pos = Len(items) * GuidSize /\ Len(items) <= guid_count

(* Why it has ended.                                                       *)
EndedForGood ==
  status = "ended" =>
    /\ heap.kind = "#Strings" => pos >= len
    /\ heap.kind = "#Blob" => ~Steps(blob_with_size(pos))
    /\ heap.kind = "#US" => ~Steps(user_string_with_size(pos))
    /\ heap.kind = "#GUID" => Len(items) = guid_count

Inv ==
  /\ heap \in Heaps /\ pos \in Nat /\ items \in Seq(HeapEntries) /\ status \in {"open", "ended"}
  /\ \A i \in 1..Len(items) : Found(items[i])
  /\ Placed
  /\ EndedForGood

(* A step changes the heap as little as it changes what is found in it.    *)
LEMMA HeapFixed ==
  ASSUME UNCHANGED heap
  PROVE  len' = len /\ guid_count' = guid_count
  BY DEF len, guid_count

(* The ends of strings among it.                                           *)
LEMMA NulFixed ==
  ASSUME UNCHANGED heap, NEW at
  PROVE  NextNul(at)' = NextNul(at)
  BY DEF NextNul, len, byte

(* And the bodies of blobs.                                                *)
LEMMA PrefixFixed ==
  ASSUME UNCHANGED heap, NEW at
  PROVE  Prefixed(at)' = Prefixed(at)
  BY DEF Prefixed, read_u32, len, byte

(* And the GUIDs.                                                          *)
LEMMA GuidFixed ==
  ASSUME UNCHANGED heap, NEW at
  PROVE  guid_get(at)' = guid_get(at)
  BY DEF guid_get, len

(* So an entry stays found.                                                *)
LEMMA FoundFixed ==
  ASSUME UNCHANGED heap, NEW e, Found(e)
  PROVE  Found(e)'
  <1>1. /\ len' = len /\ guid_count' = guid_count /\ NextNul(e.at)' = NextNul(e.at)
        /\ Prefixed(e.at)' = Prefixed(e.at) /\ guid_get(e.at)' = guid_get(e.at)
    BY HeapFixed, NulFixed, PrefixFixed, GuidFixed
  <1> QED BY <1>1 DEF Found, NoRange, split_user_string

(* The number of GUIDs is a number, and as many fit in the heap.           *)
LEMMA GuidsFit ==
  ASSUME heap \in Heaps
  PROVE  guid_count \in Nat /\ guid_count * GuidSize <= len /\ (guid_count + 1) * GuidSize > len
  <1>1. len \in Nat /\ GuidSize \in Nat \ {0}
    BY HeapTyped
  <1> DEFINE q == len \div GuidSize
             r == len % GuidSize
  <1>2. q \in Nat /\ r \in 0..GuidSize - 1 /\ len = q * GuidSize + r
    BY <1>1, Division
  <1> HIDE DEF q, r
  <1>3. q * GuidSize \in Nat /\ (q + 1) * GuidSize = q * GuidSize + GuidSize
    BY <1>1, <1>2
  <1>4. q * GuidSize <= len /\ (q + 1) * GuidSize > len
    BY <1>1, <1>2, <1>3
  <1> QED BY <1>2, <1>4 DEF q, guid_count

(* The GUID at an index of the heap is there.                              *)
LEMMA GuidInside ==
  ASSUME heap \in Heaps, NEW n \in 1..guid_count
  PROVE  /\ guid_get(n) = <<(n - 1) * GuidSize, n * GuidSize>>
         /\ (n - 1) * GuidSize \in Nat /\ n * GuidSize \in Nat
         /\ n * GuidSize = (n - 1) * GuidSize + GuidSize /\ n * GuidSize <= len
  <1>1. guid_count \in Nat /\ guid_count * GuidSize <= len /\ GuidSize \in Nat \ {0} /\ len \in Nat
    BY GuidsFit, HeapTyped
  <1>2. n \in Nat /\ n >= 1 /\ n <= guid_count
    BY <1>1
  <1>3. n * GuidSize <= guid_count * GuidSize
    BY <1>1, <1>2
  <1>4. /\ (n - 1) * GuidSize \in Nat /\ n * GuidSize \in Nat /\ guid_count * GuidSize \in Nat
        /\ n * GuidSize = (n - 1) * GuidSize + GuidSize
    BY <1>1, <1>2
  <1>5. n * GuidSize <= len
    BY <1>1, <1>3, <1>4
  <1>6. ~(n * GuidSize > len) /\ n # 0
    BY <1>1, <1>2, <1>4, <1>5
  <1> QED BY <1>4, <1>5, <1>6 DEF guid_get

(* What is found is in the heap.                                           *)
LEMMA FoundInside ==
  ASSUME heap \in Heaps, NEW e, e.at \in Nat, Found(e)
  PROVE  \E a \in Nat, b \in Nat : e.range = <<a, b>> /\ a <= b /\ b <= len
  <1>1. len \in Nat
    BY HeapTyped
  <1>2. CASE heap.kind = "#Strings"
    <2>1. e.at \in 0..len /\ e.range = <<e.at, NextNul(e.at)>>
      BY <1>1, <1>2 DEF Found
    <2>2. NextNul(e.at) \in e.at..len
      BY <2>1, StringsEnd DEF StringEnds
    <2> DEFINE b == NextNul(e.at)
    <2>3. b \in Nat /\ e.at <= b /\ b <= len /\ e.range = <<e.at, b>>
      BY <1>1, <2>1, <2>2
    <2> HIDE DEF b
    <2> QED BY <2>3
  <1>3. CASE heap.kind \in {"#Blob", "#US"}
    <2>1. Prefixed(e.at) # NoRange
      BY <1>3 DEF Found
    <2>2. PICK v \in Nat, w \in {1, 2, 4} :
            e.at + w + v <= len /\ Prefixed(e.at) = <<e.at + w, e.at + w + v>>
      BY <2>1, PrefixedInside
    <2> DEFINE f == e.at + w
    <2>3. f \in Nat /\ f + v <= len /\ Prefixed(e.at) = <<f, f + v>>
      BY <2>2
    <2> HIDE DEF f
    <2>4. CASE heap.kind = "#Blob"
      <3>1. e.range = <<f, f + v>> /\ f + v \in Nat /\ f <= f + v
        BY <2>3, <2>4 DEF Found
      <3> QED BY <2>3, <3>1
    <2>5. CASE heap.kind = "#US"
      <3>1. PICK m \in 0..v : split_user_string(<<f, f + v>>) = <<f, f + m>>
        BY <2>3, UnitsInBody
      <3>2. e.range = <<f, f + m>> /\ f + m \in Nat /\ f <= f + m /\ f + m <= len
        BY <1>1, <2>3, <2>5, <3>1 DEF Found
      <3> QED BY <2>3, <3>2
    <2> QED BY <1>3, <2>4, <2>5
  <1>4. CASE heap.kind = "#GUID"
    <2>1. e.at \in 1..guid_count /\ e.range = guid_get(e.at)
      BY <1>4 DEF Found
    <2> DEFINE a == (e.at - 1) * GuidSize
               b == e.at * GuidSize
    <2>2. e.range = <<a, b>> /\ a \in Nat /\ b \in Nat /\ b = a + GuidSize /\ b <= len
      BY <2>1, GuidInside
    <2>3. GuidSize \in Nat
      BY HeapTyped
    <2> HIDE DEF a, b
    <2>4. a <= b
      BY <2>2, <2>3
    <2> QED BY <2>2, <2>4
  <1> QED BY <1>2, <1>3, <1>4, HeapTyped

(* A yielded entry is one more found.                                      *)
LEMMA YieldKeepsInv ==
  ASSUME Inv, status = "open", NEW x \in HeapEntries, Found(x), NEW size \in Nat,
         pos' = pos + size, items' = Append(items, x), UNCHANGED <<heap, status>>,
         heap.kind = "#Strings" =>
           x.at = pos /\ x.range[2] + 1 = pos + size /\ pos + size <= len + 1,
         heap.kind \in {"#Blob", "#US"} => pos + size <= len,
         heap.kind = "#GUID" => size = GuidSize /\ Len(items) < guid_count
  PROVE  Inv'
  <1> DEFINE n == Len(items)
             t == Append(items, x)
  <1>1. /\ items \in Seq(HeapEntries) /\ n \in Nat /\ t \in Seq(HeapEntries) /\ Len(t) = n + 1
        /\ t[n + 1] = x /\ \A i \in 1..n : t[i] = items[i]
    BY DEF Inv
  <1>2. heap \in Heaps /\ pos \in Nat /\ \A i \in 1..n : Found(items[i])
    BY DEF Inv
  <1>3. items' = t /\ len' = len /\ guid_count' = guid_count /\ heap' = heap /\ pos' = pos + size
    BY HeapFixed
  <1>4. len \in Nat /\ guid_count \in Nat /\ GuidSize \in Nat \ {0}
    BY <1>2, HeapTyped, GuidsFit
  <1> HIDE DEF n, t
  <1>5. \A i \in 1..Len(items') : Found(items[i])'
    <2> SUFFICES ASSUME NEW i \in 1..Len(items') PROVE Found(items[i])'
      OBVIOUS
    <2>1. Found(t[i])
      <3>1. i = n + 1 \/ i \in 1..n
        BY <1>1, <1>3
      <3> QED BY <1>1, <1>2, <3>1
    <2>2. ASSUME NEW e, e = t[i] PROVE Found(e)'
      BY <1>3, <2>1, <2>2, FoundFixed
    <2>3. PICK e : e = items'[i]
      OBVIOUS
    <2>4. Found(e)'
      BY <1>3, <2>2, <2>3
    <2> QED BY <2>3, <2>4 DEF Found
  <1>6. Placed'
    <2>1. ASSUME heap.kind = "#Strings"
          PROVE  pos + size <= len + 1 /\ CoveredTo(t, pos + size)
      <3>1. CoveredTo(items, pos)
        BY <2>1 DEF Inv, Placed
      <3>2. x.at = pos /\ x.range[2] + 1 = pos + size /\ pos + size <= len + 1
        BY <2>1
      <3>3. x.range[2] \in Nat
        BY DEF HeapEntries
      <3>4. ASSUME NEW o \in 0..(pos + size) - 1
            PROVE  \E i \in 1..Len(t) : t[i].at <= o /\ o <= t[i].range[2]
        <4>1. CASE o <= pos - 1
          <5>1. o \in 0..pos - 1
            BY <1>2, <4>1
          <5>2. PICK i \in 1..n : items[i].at <= o /\ o <= items[i].range[2]
            BY <3>1, <5>1 DEF CoveredTo, n
          <5>3. i \in 1..Len(t) /\ t[i] = items[i]
            BY <1>1
          <5> QED BY <5>2, <5>3
        <4>2. CASE ~(o <= pos - 1)
          <5>1. x.at <= o /\ o <= x.range[2]
            BY <1>2, <3>2, <3>3, <4>2
          <5>2. n + 1 \in 1..Len(t) /\ t[n + 1] = x
            BY <1>1
          <5> QED BY <5>1, <5>2
        <4> QED BY <4>1, <4>2
      <3>5. CoveredTo(t, pos + size)
        BY <3>4 DEF CoveredTo
      <3> QED BY <3>2, <3>5
    <2>2. ASSUME heap.kind = "#GUID"
          PROVE  pos + size = Len(t) * GuidSize /\ Len(t) <= guid_count
      <3>1. pos = n * GuidSize /\ size = GuidSize /\ n < guid_count
        BY <2>2 DEF Inv, Placed, n
      <3>2. (n + 1) * GuidSize = n * GuidSize + GuidSize
        BY <1>1, <1>4
      <3> QED BY <1>1, <1>4, <3>1, <3>2
    <2> QED BY <1>3, <2>1, <2>2 DEF Placed, CoveredTo
  <1>7. EndedForGood'
    <2>1. status' # "ended"
      OBVIOUS
    <2> QED BY <2>1 DEF EndedForGood
  <1> QED BY <1>1, <1>2, <1>3, <1>5, <1>6, <1>7 DEF Inv

(* Every step of every iterator keeps the invariant.                       *)
LEMMA InvNext ==
  ASSUME Inv, [Next]_vars
  PROVE  Inv'
  <1>1. heap \in Heaps /\ pos \in Nat /\ items \in Seq(HeapEntries)
    BY DEF Inv
  <1>2. len \in Nat /\ OffsetLimit \in Nat
    BY <1>1, HeapTyped
  <1>3. CASE StringsNext
    <2> DEFINE e == NextNul(pos)
               x == [at |-> pos, range |-> <<pos, e>>]
               size == e + 1 - pos
    <2>1. /\ status = "open" /\ heap.kind = "#Strings" /\ pos < len
          /\ pos' = pos + size /\ items' = Append(items, x) /\ UNCHANGED <<heap, status>>
      BY <1>3 DEF StringsNext, Yield
    <2>2. e \in pos..len
      <3>1. pos \in 0..len
        BY <1>1, <1>2, <2>1
      <3> QED BY <1>1, <3>1, StringsEnd DEF StringEnds
    <2>3. Found(x)
      BY <2>1 DEF Found
    <2> HIDE DEF e
    <2>4. x \in HeapEntries /\ size \in Nat /\ x.at = pos /\ x.range[2] + 1 = pos + size /\ pos + size <= len + 1
      BY <1>1, <1>2, <2>2 DEF HeapEntries
    <2> HIDE DEF x, size
    <2> QED BY <2>1, <2>3, <2>4, YieldKeepsInv
  <1>4. ASSUME NEW found, found # NoEntry, Prefixed(pos) # NoRange,
               found.at = pos, found.size = Prefixed(pos)[2] - pos,
               status = "open", heap.kind \in {"#Blob", "#US"},
               Found([at |-> pos, range |-> found.range]), Yield(found)
        PROVE  Inv'
    <2> DEFINE x == [at |-> pos, range |-> found.range]
               size == found.size
    <2>1. PICK v \in Nat, w \in {1, 2, 4} : pos + w + v <= len /\ Prefixed(pos) = <<pos + w, pos + w + v>>
      BY <1>1, <1>4, PrefixedInside
    <2>2. size \in Nat /\ pos + size <= len
      BY <1>1, <1>2, <1>4, <2>1
    <2>3. x.at = pos /\ Found(x) /\ pos' = pos + size /\ items' = Append(items, x)
          /\ UNCHANGED <<heap, status>>
      BY <1>4 DEF Yield
    <2>4. x \in HeapEntries
      <3>1. x.at \in Nat /\ x = [at |-> pos, range |-> x.range]
        BY <1>1
      <3> HIDE DEF x
      <3>2. PICK a \in Nat, b \in Nat : x.range = <<a, b>>
        BY <1>1, <2>3, <3>1, FoundInside
      <3>3. x.range \in Nat \X Nat
        BY <3>2
      <3> DEFINE r == x.range
      <3>4. x = [at |-> pos, range |-> r] /\ r \in Nat \X Nat
        BY <3>1, <3>3
      <3> HIDE DEF r
      <3> QED BY <1>1, <3>4 DEF HeapEntries
    <2> HIDE DEF x, size
    <2> QED BY <1>4, <2>2, <2>3, <2>4, YieldKeepsInv
  <1>5. CASE BlobNext
    <2> DEFINE found == blob_with_size(pos)
    <2>1. status = "open" /\ heap.kind = "#Blob" /\ found # NoEntry /\ Yield(found)
      BY <1>5 DEF BlobNext, Steps
    <2>2. Prefixed(pos) # NoRange
      BY <2>1 DEF blob_with_size
    <2>3. found = [at |-> pos, range |-> Prefixed(pos), size |-> Prefixed(pos)[2] - pos]
      BY <2>2 DEF blob_with_size
    <2>4. Found([at |-> pos, range |-> found.range])
      BY <2>1, <2>2, <2>3 DEF Found
    <2> HIDE DEF found
    <2> QED BY <1>4, <2>1, <2>2, <2>3, <2>4
  <1>6. CASE UserStringsNext
    <2> DEFINE found == user_string_with_size(pos)
    <2>1. status = "open" /\ heap.kind = "#US" /\ found # NoEntry /\ Yield(found)
      BY <1>6 DEF UserStringsNext, Steps
    <2>2. Prefixed(pos) # NoRange
      BY <2>1 DEF user_string_with_size
    <2>3. found = [at |-> pos, range |-> split_user_string(Prefixed(pos)),
                   size |-> Prefixed(pos)[2] - pos]
      BY <2>2 DEF user_string_with_size
    <2>4. Found([at |-> pos, range |-> found.range])
      BY <2>1, <2>2, <2>3 DEF Found
    <2> HIDE DEF found
    <2> QED BY <1>4, <2>1, <2>2, <2>3, <2>4
  <1>7. CASE GuidNext
    <2> DEFINE which == Len(items) + 1
               x == [at |-> which, range |-> guid_get(which)]
    <2>1. /\ status = "open" /\ heap.kind = "#GUID" /\ Len(items) < guid_count
          /\ pos' = pos + GuidSize /\ items' = Append(items, x) /\ UNCHANGED <<heap, status>>
      BY <1>7 DEF GuidNext, Yield
    <2>2. which \in 1..guid_count /\ which \in Nat /\ GuidSize \in Nat
      BY <1>1, <2>1, GuidsFit, HeapTyped
    <2>3. Found(x)
      BY <2>1, <2>2 DEF Found
    <2>4. x \in HeapEntries
      <3>1. guid_get(which) \in Nat \X Nat
        BY <1>1, <2>2, GuidInside
      <3> QED BY <2>2, <3>1 DEF HeapEntries
    <2> HIDE DEF x
    <2> QED BY <2>1, <2>2, <2>3, <2>4, YieldKeepsInv
  <1>8. CASE IterEnd
    <2>1. status' = "ended" /\ UNCHANGED <<heap, pos, items>>
      BY <1>8 DEF IterEnd
    <2>2. len' = len /\ guid_count' = guid_count /\ Prefixed(pos)' = Prefixed(pos)
      BY <2>1, HeapFixed, PrefixFixed
    <2>3. /\ heap.kind = "#Strings" => pos >= len
          /\ heap.kind = "#Blob" => ~Steps(blob_with_size(pos))
          /\ heap.kind = "#US" => ~Steps(user_string_with_size(pos))
          /\ heap.kind = "#GUID" => Len(items) = guid_count
      BY <1>8 DEF IterEnd
    <2>4. EndedForGood'
      BY <2>1, <2>2, <2>3 DEF EndedForGood, Steps, blob_with_size, user_string_with_size, NoEntry,
         NoRange, split_user_string
    <2>5. \A i \in 1..Len(items) : Found(items[i])'
      BY <2>1, FoundFixed DEF Inv
    <2> QED BY <2>1, <2>2, <2>4, <2>5 DEF Inv, Placed, CoveredTo
  <1>9. CASE UNCHANGED vars
    <2>1. UNCHANGED <<heap, pos, items, status>>
      BY <1>9 DEF vars
    <2>2. len' = len /\ guid_count' = guid_count /\ Prefixed(pos)' = Prefixed(pos)
      BY <2>1, HeapFixed, PrefixFixed
    <2>3. EndedForGood'
      BY <2>1, <2>2 DEF Inv, EndedForGood, Steps, blob_with_size, user_string_with_size, NoEntry,
         NoRange, split_user_string
    <2>4. \A i \in 1..Len(items) : Found(items[i])'
      BY <2>1, FoundFixed DEF Inv
    <2> QED BY <2>1, <2>2, <2>3, <2>4 DEF Inv, Placed, CoveredTo
  <1> QED BY <1>3, <1>5, <1>6, <1>7, <1>8, <1>9 DEF Next

(* An iterator that has not been called has yielded nothing.               *)
LEMMA InvInit ==
  ASSUME Init
  PROVE  Inv
  <1>1. heap \in Heaps /\ pos = 0 /\ items = << >> /\ status = "open"
    BY DEF Init
  <1>2. len \in Nat /\ guid_count \in Nat /\ GuidSize \in Nat
    BY <1>1, HeapTyped, GuidsFit
  <1>3. Placed
    BY <1>1, <1>2 DEF Placed, CoveredTo
  <1> QED BY <1>1, <1>3 DEF Inv, EndedForGood

(* Every iterator, over any heap, keeps the invariant.                     *)
LEMMA InvHolds == Spec => []Inv
  BY InvInit, InvNext, PTL DEF Spec

-------------------------------------------------------------------------------
(* Random access                                                           *)

(* The invariant says of entries what random access says.                  *)
LEMMA AccessAgrees ==
  ASSUME Inv
  PROVE  YieldsWhatGetReturns
  <1>1. heap \in Heaps /\ items \in Seq(HeapEntries)
    BY DEF Inv
  <1>2. len \in Nat /\ OffsetLimit \in Nat \ {0} /\ TokenSpan \in Nat \ {0}
    BY <1>1, HeapTyped
  <1> SUFFICES ASSUME NEW i \in 1..Len(items)
               PROVE  /\ 0 <= items[i].range[1] /\ items[i].range[1] <= items[i].range[2]
                      /\ items[i].range[2] <= len
                      /\ items[i].at < (IF heap.kind = "#US" THEN TokenSpan ELSE OffsetLimit)
                           => Get(items[i].at) = items[i].range
    BY DEF YieldsWhatGetReturns
  <1> DEFINE e == items[i]
  <1>3. e \in HeapEntries /\ Found(e)
    BY <1>1, ElementOfSeq DEF Inv
  <1> HIDE DEF e
  <1>4. e.at \in Nat
    BY <1>3 DEF HeapEntries
  <1>5. PICK a \in Nat, b \in Nat : e.range = <<a, b>> /\ a <= b /\ b <= len
    BY <1>1, <1>3, <1>4, FoundInside
  <1>6. \A m \in Nat \ {0} : e.at < m => e.at % m = e.at
    BY <1>4
  <1>7. ASSUME e.at < (IF heap.kind = "#US" THEN TokenSpan ELSE OffsetLimit)
        PROVE  Get(e.at) = e.range
    <2>1. CASE heap.kind = "#Strings"
      <3>1. Get(e.at) = string_bytes(e.at) /\ ~(e.at > len)
        <4>1. e.at % OffsetLimit = e.at
          BY <1>2, <1>6, <1>7, <2>1
        <4>2. ~(e.at > len)
          BY <1>2, <1>3, <1>4, <2>1 DEF Found
        <4> QED BY <2>1, <4>1, <4>2 DEF Get
      <3> QED BY <1>3, <2>1, <3>1 DEF Found, string_bytes
    <2>2. CASE heap.kind = "#Blob"
      <3>1. e.at % OffsetLimit = e.at
        BY <1>2, <1>6, <1>7, <2>2
      <3> QED BY <1>3, <2>2, <3>1 DEF Get, Found, blob_get
    <2>3. CASE heap.kind = "#US"
      <3>1. e.at % TokenSpan = e.at
        BY <1>2, <1>6, <1>7, <2>3
      <3> QED BY <1>3, <2>3, <3>1 DEF Get, Found, get_at
    <2>4. CASE heap.kind = "#GUID"
      BY <1>3, <2>4 DEF Get, Found
    <2> QED BY <1>1, <2>1, <2>2, <2>3, <2>4, HeapTyped
  <1> QED BY <1>5, <1>7 DEF e

(* An index into a string returns its tail, wherever in the heap it points *)
(* (heaps.rs:161-162).                                                     *)
THEOREM EveryIndexIsInAString == Spec => []TailsOfStrings
  <1>1. ASSUME Inv PROVE TailsOfStrings
    <2> SUFFICES ASSUME heap.kind = "#Strings", status = "ended", NEW o \in 0..len - 1, o < OffsetLimit
                 PROVE  \E i \in 1..Len(items) :
                          /\ items[i].at <= o /\ o <= items[i].range[2]
                          /\ Get(o) = <<o, items[i].range[2]>>
      BY DEF TailsOfStrings
    <2>1. heap \in Heaps /\ items \in Seq(HeapEntries) /\ pos \in Nat
      BY <1>1 DEF Inv
    <2>2. len \in Nat /\ OffsetLimit \in Nat \ {0}
      BY <2>1, HeapTyped
    <2>3. o \in 0..pos - 1
      BY <1>1, <2>1, <2>2 DEF Inv, EndedForGood
    <2>4. PICK i \in 1..Len(items) : items[i].at <= o /\ o <= items[i].range[2]
      BY <1>1, <2>3 DEF Inv, Placed, CoveredTo
    <2> DEFINE e == items[i]
    <2>5. e \in HeapEntries /\ Found(e) /\ e.at <= o /\ o <= e.range[2]
      BY <1>1, <2>1, <2>4, ElementOfSeq DEF Inv
    <2> HIDE DEF e
    <2>6. e.at \in 0..len /\ e.range[2] = NextNul(e.at)
      BY <2>2, <2>5 DEF HeapEntries, Found
    <2>7. o \in e.at..NextNul(e.at)
      <3>1. NextNul(e.at) \in e.at..len
        BY <2>1, <2>6, StringsEnd DEF StringEnds
      <3> QED BY <2>2, <2>5, <2>6, <3>1
    <2>8. NextNul(o) = NextNul(e.at)
      BY <2>1, <2>6, <2>7, TailsEnd
    <2>9. Get(o) = <<o, NextNul(o)>>
      <3>1. o % OffsetLimit = o /\ ~(o > len)
        BY <2>2
      <3> QED BY <3>1 DEF Get, string_bytes
    <2> QED BY <2>4, <2>6, <2>8, <2>9 DEF e
  <1> QED BY <1>1, InvHolds, PTL

(* What an iterator yields is in the heap and is what random access returns*)
(* at its index, and an index into a string returns the string's tail, for *)
(* every heap and radix (heaps.rs:161-162, 178-188, 252-261, 302-307,      *)
(* 414-422).                                                               *)
THEOREM IterationMatchesAccess == Spec => []IterationAgrees
  <1>1. Spec => []YieldsWhatGetReturns
    BY AccessAgrees, InvHolds, PTL
  <1>2. YieldsWhatGetReturns /\ TailsOfStrings => IterationAgrees
    BY DEF IterationAgrees
  <1> QED BY <1>1, <1>2, EveryIndexIsInAString, PTL

(* read_i32 inverts the encoding of signed integers at every offset of     *)
(* every heap.                                                             *)
THEOREM SignsAreRotated == Spec => []SignedIsRotated
  <1>1. Inv => SignedIsRotated
    BY SignsRotate DEF Inv
  <1> QED BY <1>1, InvHolds, PTL

-------------------------------------------------------------------------------
(* A heap somebody wrote                                                   *)

(* Its entries lie one behind the other, from the first byte on.           *)
LEMMA IntactTyped ==
  ASSUME heap \in Heaps, heap.intact
  PROVE  /\ Intact(heap)
         /\ heap.kind \in {"#Strings", "#Blob", "#US"}
         /\ heap.written \in Seq(Nat) /\ Len(heap.written) \in Nat
         /\ heap.starts \in Seq(Nat) /\ Len(heap.starts) = Len(heap.written) + 1
         /\ heap.starts[1] = 0
         /\ \A i \in 1..Len(heap.written) : heap.written[i] \in Nat
         /\ \A i \in 1..Len(heap.written) + 1 : heap.starts[i] \in Nat /\ heap.starts[i] <= len
  <1>1. Intact(heap) /\ heap.written \in Seq(Nat) /\ heap.starts \in Seq(Nat)
    BY HeapsAssumption
  <1> DEFINE n == Len(heap.written)
  <1>2. n \in Nat /\ len \in Nat
    BY <1>1, HeapTyped
  <1>3. /\ heap.kind # "#GUID" /\ Len(heap.starts) = n + 1 /\ heap.starts[1] = 0
        /\ \A i \in 1..n : heap.starts[i + 1] <= len
    BY <1>1 DEF Intact, len
  <1>4. \A i \in 1..n : heap.written[i] \in Nat
    BY <1>1, ElementOfSeq
  <1>5. \A i \in 1..n + 1 : heap.starts[i] \in Nat
    BY <1>1, <1>3, ElementOfSeq
  <1> HIDE DEF n
  <1>6. ASSUME NEW i \in 1..n + 1 PROVE heap.starts[i] <= len
    <2>1. CASE i = 1
      BY <1>2, <1>3, <2>1
    <2>2. CASE i # 1
      <3>1. i - 1 \in 1..n /\ (i - 1) + 1 = i
        BY <1>2, <2>2
      <3> QED BY <1>3, <3>1
    <2> QED BY <2>1, <2>2
  <1> QED BY <1>1, <1>2, <1>3, <1>4, <1>5, <1>6, HeapTyped DEF n

(* A blob that was written is decoded to its size.                         *)
LEMMA BlobRead ==
  ASSUME heap \in Heaps, heap.intact, heap.kind # "#Strings", NEW k \in 1..Len(heap.written)
  PROVE  LET at == heap.starts[k] size == BodySize(heap, k)
         IN  \E f \in Nat : /\ at < f /\ size \in Nat /\ heap.starts[k + 1] = f + size
                            /\ Prefixed(at) = <<f, f + size>> /\ Prefixed(at) # NoRange
  <1> DEFINE at == heap.starts[k]
             size == BodySize(heap, k)
             w == Len(write_u32(size))
  <1>1. /\ BlobWritten(heap, k) /\ at \in Nat /\ heap.starts[k + 1] <= len
        /\ heap.written[k] \in Nat /\ len \in Nat
    <2>1. k + 1 \in 1..Len(heap.written) + 1 /\ k \in 1..Len(heap.written) + 1
      BY IntactTyped
    <2> QED BY <2>1, IntactTyped, HeapTyped DEF Intact
  <1>2. size \in Nat
    BY <1>1 DEF BodySize
  <1>3. /\ size <= MaxCompressed /\ heap.starts[k + 1] = at + w + size
        /\ \A j \in 1..w : heap.bytes[at + j] = write_u32(size)[j]
    BY <1>1 DEF BlobWritten
  <1>4. w \in Nat
    <2>1. size < Radix \div 2 \/ ~(size < Radix \div 2)
      OBVIOUS
    <2> HIDE DEF size
    <2> QED BY DEF write_u32
  <1> HIDE DEF at, size
  <1>5. at + w <= len
    BY <1>1, <1>2, <1>3, <1>4
  <1>6. w \in {1, 2, 4} /\ read_u32(at) = <<size, w>>
    BY <1>1, <1>2, <1>3, <1>5, ReadInvertsWrite
  <1> HIDE DEF w
  <1>7. read_u32(at) # Failed
    BY <1>6 DEF Failed
  <1> DEFINE f == at + w
  <1>8. ~(f + size > len) /\ f \in Nat /\ at < f /\ heap.starts[k + 1] = f + size
    BY <1>1, <1>2, <1>3, <1>6
  <1>9. Prefixed(at) = <<f, f + size>>
    BY <1>6, <1>7, <1>8 DEF Prefixed
  <1> HIDE DEF f
  <1>10. <<f, f + size>> # NoRange
    BY <1>8 DEF NoRange
  <1> QED BY <1>2, <1>8, <1>9, <1>10 DEF at, size

(* An entry that was written is found with its size, and the next behind it.*)
LEMMA EntryRead ==
  ASSUME heap \in Heaps, heap.intact, NEW k \in 1..Len(heap.written)
  PROVE  LET at == heap.starts[k] next == heap.starts[k + 1] size == heap.written[k]
         IN  /\ at < len /\ next <= len
             /\ heap.kind = "#Strings" => NextNul(at) = at + size /\ next = NextNul(at) + 1
             /\ heap.kind # "#Strings" => Prefixed(at) # NoRange /\ Prefixed(at)[2] = next
             /\ heap.kind = "#Blob" => Prefixed(at)[2] - Prefixed(at)[1] = size
             /\ heap.kind = "#US" =>
                  split_user_string(Prefixed(at))[2] - split_user_string(Prefixed(at))[1] = size
  <1> DEFINE at == heap.starts[k]
             next == heap.starts[k + 1]
             size == heap.written[k]
  <1>1. at \in Nat /\ next \in Nat /\ next <= len /\ size \in Nat /\ len \in Nat
    <2>1. k + 1 \in 1..Len(heap.written) + 1 /\ k \in 1..Len(heap.written) + 1
      BY IntactTyped
    <2> QED BY <2>1, IntactTyped, HeapTyped
  <1>2. CASE heap.kind = "#Strings"
    <2>1. StringWritten(heap, k)
      BY <1>2, IntactTyped DEF Intact
    <2>2. /\ next = at + size + 1
          /\ \A j \in at + 1..next - 1 : heap.bytes[j] # 0
          /\ heap.bytes[next] = 0
      BY <2>1 DEF StringWritten
    <2> HIDE DEF at, next, size
    <2> DEFINE e == at + size
    <2>3. e \in at..len /\ e + 1 = next /\ at \in 0..len /\ at < len
      BY <1>1, <2>2
    <2> HIDE DEF e
    <2>4. byte(e) = 0
      BY <2>2, <2>3 DEF byte
    <2>5. ASSUME NEW i \in at..e - 1 PROVE byte(i) # 0
      <3>1. i + 1 \in at + 1..next - 1
        BY <1>1, <2>3
      <3> QED BY <2>2, <3>1 DEF byte
    <2>6. NextNul(at) = e
      BY <2>3, <2>4, <2>5, EndsOnce DEF StringEnds
    <2> QED BY <1>1, <1>2, <2>3, <2>6 DEF at, next, size, e
  <1>3. CASE heap.kind # "#Strings"
    <2> DEFINE body == BodySize(heap, k)
    <2>1. PICK f \in Nat : /\ at < f /\ body \in Nat /\ next = f + body
                           /\ Prefixed(at) = <<f, f + body>> /\ Prefixed(at) # NoRange
      BY <1>3, BlobRead
    <2>2. /\ heap.kind = "#US" => size % 2 = 0
          /\ body = size + (IF heap.kind = "#US" /\ size > 0 THEN 1 ELSE 0)
      BY <1>3, IntactTyped DEF Intact, BlobWritten, BodySize
    <2> HIDE DEF at, next, size, body
    <2>3. at < len /\ Prefixed(at)[2] = next /\ Prefixed(at)[2] - Prefixed(at)[1] = body
      BY <1>1, <2>1
    <2>4. ASSUME heap.kind = "#Blob" PROVE body = size
      BY <1>1, <2>2, <2>4
    <2>5. ASSUME heap.kind = "#US"
          PROVE  split_user_string(Prefixed(at))[2] - split_user_string(Prefixed(at))[1] = size
      <3>1. PICK m \in 0..body : /\ split_user_string(<<f, f + body>>) = <<f, f + m>>
                                 /\ body = 0 => m = 0
                                 /\ body > 0 => m = 2 * ((body - 1) \div 2)
        BY <2>1, UnitsInBody
      <3>2. m = size
        <4>1. CASE size = 0
          BY <1>1, <2>2, <3>1, <4>1
        <4>2. CASE size # 0
          <5>1. body = size + 1 /\ body > 0 /\ body - 1 = size
            BY <1>1, <2>2, <2>5, <4>2
          <5>2. m = 2 * (size \div 2) /\ size % 2 = 0
            BY <2>2, <2>5, <3>1, <5>1
          <5> QED BY <1>1, <5>2
        <4> QED BY <4>1, <4>2
      <3>3. split_user_string(Prefixed(at)) = <<f, f + m>>
        BY <2>1, <3>1
      <3>4. <<f, f + m>>[2] - <<f, f + m>>[1] = m
        BY <2>1, <3>1
      <3> QED BY <3>2, <3>3, <3>4
    <2> QED BY <1>1, <1>3, <2>1, <2>3, <2>4, <2>5 DEF at, next, size
  <1> QED BY <1>2, <1>3

(* Behind the last entry there is nothing to read.                         *)
LEMMA NothingBehind ==
  ASSUME heap \in Heaps, heap.intact
  PROVE  LET end == heap.starts[Len(heap.written) + 1]
         IN  /\ heap.kind = "#Strings" => end = len
             /\ heap.kind # "#Strings" => Prefixed(end) = NoRange
  <1> DEFINE end == heap.starts[Len(heap.written) + 1]
  <1>1. end \in Nat /\ end <= len /\ len \in Nat
    BY IntactTyped, HeapTyped
  <1>2. IF heap.kind = "#Strings" THEN end = len
        ELSE end < len => heap.bytes[end + 1] >= 7 * (Radix \div 8)
    BY IntactTyped DEF Intact, len
  <1> HIDE DEF end
  <1>3. ASSUME heap.kind # "#Strings" PROVE read_u32(end) = Failed
    <2>1. CASE end = len
      BY <1>1, <2>1 DEF read_u32
    <2>2. CASE end # len
      <3>1. PICK k \in Nat \ {0} : /\ Radix = 8 * k /\ Radix \div 2 = 4 * k /\ Radix \div 4 = 2 * k
                                   /\ Radix \div 8 = k
        BY RadixParts
      <3>2. end \in 0..len - 1
        BY <1>1, <2>2
      <3>3. byte(end) \in 0..Radix - 1 /\ byte(end) >= 7 * (Radix \div 8)
        BY <1>1, <1>2, <1>3, <2>2, <3>2, HeapTyped DEF byte
      <3>4. /\ ~(end >= len) /\ ~(byte(end) < Radix \div 2) /\ ~(byte(end) < 3 * (Radix \div 4))
            /\ ~(byte(end) < 7 * (Radix \div 8))
        BY <1>1, <3>1, <3>2, <3>3
      <3> QED BY <3>4 DEF read_u32
    <2> QED BY <2>1, <2>2
  <1> QED BY <1>2, <1>3 DEF end, Prefixed

(* As many entries were yielded as the position says, each with the size   *)
(* it was written with.                                                    *)
Recovering ==
  heap.intact =>
    /\ Len(items) <= Len(heap.written)
    /\ pos = heap.starts[Len(items) + 1]
    /\ \A i \in 1..Len(items) : items[i].range[2] - items[i].range[1] = heap.written[i]

(* The next entry is the next that was written.                            *)
LEMMA YieldRecovers ==
  ASSUME Inv, Recovering, heap.intact, NEW x, NEW size \in Nat,
         pos' = pos + size, items' = Append(items, x), UNCHANGED heap,
         heap.kind = "#Strings" =>
           pos < len /\ x.range = <<pos, NextNul(pos)>> /\ pos + size = NextNul(pos) + 1,
         heap.kind # "#Strings" => Prefixed(pos) # NoRange /\ pos + size = Prefixed(pos)[2],
         heap.kind = "#Blob" => x.range = Prefixed(pos),
         heap.kind = "#US" => x.range = split_user_string(Prefixed(pos))
  PROVE  Recovering'
  <1> DEFINE n == Len(items)
             k == n + 1
             t == Append(items, x)
  <1>1. heap \in Heaps /\ items \in Seq(HeapEntries) /\ pos \in Nat
    BY DEF Inv
  <1>2. n \in Nat /\ Len(t) = k /\ t[k] = x /\ \A i \in 1..n : t[i] = items[i]
    <2> DEFINE S == HeapEntries \cup {x}
    <2>1. items \in Seq(S) /\ x \in S
      BY <1>1, SeqDef
    <2> HIDE DEF S
    <2> QED BY <2>1
  <1>3. n <= Len(heap.written) /\ pos = heap.starts[k]
        /\ \A i \in 1..n : items[i].range[2] - items[i].range[1] = heap.written[i]
    BY DEF Recovering
  <1>4. Len(heap.written) \in Nat /\ len \in Nat
    BY <1>1, IntactTyped, HeapTyped
  <1>5. k \in 1..Len(heap.written)
    <2>1. SUFFICES ASSUME n = Len(heap.written) PROVE FALSE
      BY <1>2, <1>3, <1>4
    <2>2. /\ heap.kind = "#Strings" => pos = len
          /\ heap.kind # "#Strings" => Prefixed(pos) = NoRange
      BY <1>1, <1>3, <2>1, NothingBehind
    <2> QED BY <1>1, <1>4, <2>2
  <1> HIDE DEF n, k, t
  <1>6. /\ heap.kind = "#Strings" =>
             /\ NextNul(pos) = pos + heap.written[k] /\ heap.starts[k + 1] = NextNul(pos) + 1
        /\ heap.kind # "#Strings" => Prefixed(pos)[2] = heap.starts[k + 1]
        /\ heap.kind = "#Blob" => Prefixed(pos)[2] - Prefixed(pos)[1] = heap.written[k]
        /\ heap.kind = "#US" =>
             split_user_string(Prefixed(pos))[2] - split_user_string(Prefixed(pos))[1] = heap.written[k]
    BY <1>1, <1>3, <1>5, EntryRead
  <1>7. pos + size = heap.starts[k + 1]
    BY <1>6
  <1>8. x.range[2] - x.range[1] = heap.written[k]
    <2>1. CASE heap.kind = "#Strings"
      <3>1. heap.written[k] \in Nat
        BY <1>1, <1>5, IntactTyped
      <3>2. x.range[2] - x.range[1] = NextNul(pos) - pos
        BY <2>1
      <3> QED BY <1>1, <1>6, <2>1, <3>1, <3>2
    <2>2. CASE heap.kind \in {"#Blob", "#US"}
      BY <1>6, <2>2
    <2> QED BY <1>1, <2>1, <2>2, IntactTyped
  <1>9. \A i \in 1..k : t[i].range[2] - t[i].range[1] = heap.written[i]
    <2> SUFFICES ASSUME NEW i \in 1..k PROVE t[i].range[2] - t[i].range[1] = heap.written[i]
      OBVIOUS
    <2>1. i \in 1..n \/ i = k
      BY <1>2 DEF k
    <2>2. CASE i = k
      BY <1>2, <1>8, <2>2
    <2>3. CASE i \in 1..n
      BY <1>2, <1>3, <2>3
    <2> QED BY <2>1, <2>2, <2>3
  <1>10. items' = t /\ pos' = heap.starts[k + 1] /\ heap' = heap /\ k <= Len(heap.written)
    BY <1>4, <1>5, <1>7 DEF t
  <1> QED BY <1>2, <1>9, <1>10 DEF Recovering

(* Every step of every iterator reads on.                                  *)
LEMMA RecoveringNext ==
  ASSUME Inv, Recovering, [Next]_vars
  PROVE  Recovering'
  <1>1. heap \in Heaps /\ pos \in Nat
    BY DEF Inv
  <1>2. len \in Nat
    BY <1>1, HeapTyped
  <1>3. ASSUME UNCHANGED <<heap, pos, items>> PROVE Recovering'
    BY <1>3 DEF Recovering
  <1>4. CASE StringsNext
    <2> SUFFICES ASSUME heap.intact PROVE Recovering'
      BY <1>4 DEF Recovering, StringsNext, Yield
    <2> DEFINE e == NextNul(pos)
               x == [at |-> pos, range |-> <<pos, e>>]
               size == e + 1 - pos
    <2>1. /\ heap.kind = "#Strings" /\ pos < len
          /\ pos' = pos + size /\ items' = Append(items, x) /\ UNCHANGED heap
      BY <1>4 DEF StringsNext, Yield
    <2>2. e \in pos..len
      <3>1. pos \in 0..len
        BY <1>1, <1>2, <2>1
      <3> QED BY <1>1, <3>1, StringsEnd DEF StringEnds
    <2>3. x.range = <<pos, e>>
      OBVIOUS
    <2> HIDE DEF x
    <2>4. size \in Nat /\ pos + size = e + 1
      <3> HIDE DEF e
      <3> QED BY <1>1, <1>2, <2>2
    <2> HIDE DEF size
    <2> QED BY <2>1, <2>3, <2>4, YieldRecovers
  <1>5. ASSUME NEW found, Prefixed(pos) # NoRange, found.at = pos,
               found.size = Prefixed(pos)[2] - pos, heap.kind \in {"#Blob", "#US"},
               heap.kind = "#Blob" => found.range = Prefixed(pos),
               heap.kind = "#US" => found.range = split_user_string(Prefixed(pos)),
               Yield(found)
        PROVE  Recovering'
    <2> SUFFICES ASSUME heap.intact PROVE Recovering'
      BY <1>5 DEF Recovering, Yield
    <2> DEFINE x == [at |-> pos, range |-> found.range]
               size == found.size
    <2>1. PICK v \in Nat, w \in {1, 2, 4} : Prefixed(pos) = <<pos + w, pos + w + v>>
      BY <1>1, <1>5, PrefixedInside
    <2>2. size \in Nat /\ pos + size = Prefixed(pos)[2]
      BY <1>1, <1>5, <2>1
    <2>3. pos' = pos + size /\ items' = Append(items, x) /\ UNCHANGED heap
      BY <1>5 DEF Yield
    <2>4. x.range = found.range
      OBVIOUS
    <2> HIDE DEF x, size
    <2> QED BY <1>5, <2>2, <2>3, <2>4, YieldRecovers
  <1>6. CASE BlobNext
    <2> DEFINE found == blob_with_size(pos)
    <2>1. heap.kind = "#Blob" /\ found # NoEntry /\ Yield(found)
      BY <1>6 DEF BlobNext, Steps
    <2>2. Prefixed(pos) # NoRange
      BY <2>1 DEF blob_with_size
    <2>3. found = [at |-> pos, range |-> Prefixed(pos), size |-> Prefixed(pos)[2] - pos]
      BY <2>2 DEF blob_with_size
    <2>4. found.at = pos /\ found.range = Prefixed(pos) /\ found.size = Prefixed(pos)[2] - pos
      BY <2>3
    <2> HIDE DEF found
    <2> QED BY <1>5, <2>1, <2>2, <2>4
  <1>7. CASE UserStringsNext
    <2> DEFINE found == user_string_with_size(pos)
    <2>1. heap.kind = "#US" /\ found # NoEntry /\ Yield(found)
      BY <1>7 DEF UserStringsNext, Steps
    <2>2. Prefixed(pos) # NoRange
      BY <2>1 DEF user_string_with_size
    <2>3. found = [at |-> pos, range |-> split_user_string(Prefixed(pos)),
                   size |-> Prefixed(pos)[2] - pos]
      BY <2>2 DEF user_string_with_size
    <2>4. /\ found.at = pos /\ found.range = split_user_string(Prefixed(pos))
          /\ found.size = Prefixed(pos)[2] - pos
      BY <2>3
    <2> HIDE DEF found
    <2> QED BY <1>5, <2>1, <2>2, <2>4
  <1>8. CASE GuidNext
    <2>1. heap.kind = "#GUID" /\ UNCHANGED heap
      BY <1>8 DEF GuidNext, Yield
    <2>2. ~heap.intact
      BY <1>1, <2>1, IntactTyped
    <2> QED BY <2>1, <2>2 DEF Recovering
  <1>9. CASE IterEnd
    BY <1>3, <1>9 DEF IterEnd
  <1>10. CASE UNCHANGED vars
    BY <1>3, <1>10 DEF vars
  <1> QED BY <1>4, <1>6, <1>7, <1>8, <1>9, <1>10 DEF Next

(* An iterator over a heap somebody wrote yields every entry with the size *)
(* it was written with, in order, and nothing more (heaps.rs:233-236).     *)
THEOREM WrittenHeapsAreRead == Spec => []WrittenIsRead
  <1>1. Init => Recovering
    <2> SUFFICES ASSUME Init PROVE Recovering
      OBVIOUS
    <2>1. heap \in Heaps /\ pos = 0 /\ items = << >>
      BY DEF Init
    <2>2. heap.intact => heap.starts[1] = 0 /\ Len(heap.written) \in Nat
      BY <2>1, IntactTyped
    <2> QED BY <2>1, <2>2 DEF Recovering
  <1>2. ASSUME Inv, Recovering PROVE WrittenIsRead
    <2> SUFFICES ASSUME heap.intact, len < OffsetLimit, status = "ended"
                 PROVE  [i \in 1..Len(items) |-> items[i].range[2] - items[i].range[1]] = heap.written
      BY DEF WrittenIsRead
    <2> DEFINE n == Len(items)
               k == n + 1
    <2>1. heap \in Heaps /\ pos \in Nat /\ items \in Seq(HeapEntries)
      BY <1>2 DEF Inv
    <2>2. /\ n <= Len(heap.written) /\ pos = heap.starts[k]
          /\ \A i \in 1..n : items[i].range[2] - items[i].range[1] = heap.written[i]
      BY <1>2 DEF Recovering
    <2>3. /\ Len(heap.written) \in Nat /\ heap.written \in Seq(Nat) /\ len \in Nat /\ n \in Nat
          /\ OffsetLimit \in Nat /\ heap.kind \in {"#Strings", "#Blob", "#US"}
      BY <2>1, IntactTyped, HeapTyped
    <2> HIDE DEF n
    <2>4. n = Len(heap.written)
      <3>1. SUFFICES ASSUME k \in 1..Len(heap.written) PROVE FALSE
        BY <2>2, <2>3
      <3>2. /\ pos < len /\ heap.starts[k + 1] <= len
            /\ heap.kind # "#Strings" => Prefixed(pos) # NoRange /\ Prefixed(pos)[2] = heap.starts[k + 1]
        BY <2>1, <2>2, <3>1, EntryRead
      <3>3. CASE heap.kind = "#Strings"
        BY <1>2, <2>1, <2>3, <3>2, <3>3 DEF Inv, EndedForGood
      <3>4. ASSUME NEW found, found.at = pos, found.size = Prefixed(pos)[2] - pos,
                   heap.kind # "#Strings"
            PROVE  Steps(found)
        <4>1. PICK v \in Nat, w \in {1, 2, 4} : Prefixed(pos) = <<pos + w, pos + w + v>>
          BY <2>1, <3>2, <3>4, PrefixedInside
        <4>2. Prefixed(pos)[2] \in Nat /\ Prefixed(pos)[2] <= len
          BY <2>1, <3>2, <3>4, <4>1
        <4>3. pos + found.size < OffsetLimit
          BY <2>1, <2>3, <3>4, <4>2
        <4>4. found # NoEntry
          BY <2>1, <3>4 DEF NoEntry
        <4> QED BY <3>2, <4>3, <4>4 DEF Steps
      <3>5. CASE heap.kind = "#Blob"
        <4>1. ~Steps(blob_with_size(pos))
          BY <1>2, <3>5 DEF Inv, EndedForGood
        <4>2. /\ blob_with_size(pos).at = pos
              /\ blob_with_size(pos).size = Prefixed(pos)[2] - pos
          BY <3>2, <3>5 DEF blob_with_size
        <4> QED BY <3>4, <3>5, <4>1, <4>2
      <3>6. CASE heap.kind = "#US"
        <4>1. ~Steps(user_string_with_size(pos))
          BY <1>2, <3>6 DEF Inv, EndedForGood
        <4>2. /\ user_string_with_size(pos).at = pos
              /\ user_string_with_size(pos).size = Prefixed(pos)[2] - pos
          BY <3>2, <3>6 DEF user_string_with_size
        <4> QED BY <3>4, <3>6, <4>1, <4>2
      <3> QED BY <2>3, <3>3, <3>5, <3>6
    <2>5. heap.written = [i \in 1..n |-> heap.written[i]]
      BY <2>3, <2>4
    <2>6. [i \in 1..n |-> items[i].range[2] - items[i].range[1]] = [i \in 1..n |-> heap.written[i]]
      BY <2>2
    <2> QED BY <2>5, <2>6 DEF n
  <1>3. Spec => []Recovering
    BY <1>1, RecoveringNext, InvHolds, PTL DEF Spec
  <1> QED BY <1>2, <1>3, InvHolds, PTL

-------------------------------------------------------------------------------
(* The iterators are scans                                                 *)

atBar == IF pos > len THEN len ELSE pos
statusBar == IF status = "ended" /\ Undecodable THEN "failed" ELSE status

(* An entry that advances the iterator is an item of the scan.             *)
LEMMA ItemIsScanned ==
  ASSUME Inv, Inv', status = "open", UNCHANGED <<heap, status>>, pos < len, pos < pos',
         Len(items') = Len(items) + 1
  PROVE  Scan!Next
  <1>1. /\ pos \in Nat /\ pos' \in Nat /\ len \in Nat /\ len' = len
    BY HeapTyped, HeapFixed DEF Inv
  <1>2. statusBar = "open" /\ statusBar' = statusBar
    BY DEF statusBar
  <1>3. atBar' \in Nat /\ atBar < atBar' /\ atBar' <= len
    BY <1>1 DEF atBar
  <1>4. Scan!Item
    BY <1>1, <1>2, <1>3 DEF Scan!Item, atBar, statusBar
  <1> QED BY <1>4 DEF Scan!Next

(* The end of an iterator is the end of the scan, or its failure.          *)
LEMMA EndIsScanned ==
  ASSUME Inv, status = "open", status' = "ended", UNCHANGED <<heap, pos, items>>,
         Undecodable \/ pos >= len \/ len >= OffsetLimit
  PROVE  Scan!Next
  <1>1. pos \in Nat /\ len \in Nat /\ len' = len /\ atBar' = atBar
    BY HeapTyped, HeapFixed DEF Inv, atBar
  <1>2. Undecodable' = Undecodable
    <2>1. Prefixed(pos)' = Prefixed(pos)
      BY PrefixFixed
    <2> QED BY <1>1, <2>1 DEF Undecodable, NoRange
  <1>3. statusBar = "open"
    BY DEF statusBar
  <1>4. CASE Undecodable
    <2>1. statusBar' = "failed"
      BY <1>2, <1>4 DEF statusBar
    <2>2. Scan!Fail
      BY <1>1, <1>3, <2>1 DEF Scan!Fail, atBar, statusBar
    <2> QED BY <2>2 DEF Scan!Next
  <1>5. CASE ~Undecodable
    <2>1. statusBar' = "ended"
      BY <1>2, <1>5 DEF statusBar
    <2>2. atBar = len \/ len >= OffsetLimit
      BY <1>1, <1>5 DEF atBar
    <2>3. Scan!Finish
      BY <1>1, <1>3, <2>1, <2>2 DEF Scan!Finish, atBar, statusBar
    <2> QED BY <2>3 DEF Scan!Next
  <1> QED BY <1>4, <1>5

(* Where no entry can be had and bytes are left, none can be decoded or    *)
(* the position behind it cannot be represented.                           *)
LEMMA StopsForAReason ==
  ASSUME Inv, heap.kind \in {"#Blob", "#US"}, NEW found, ~Steps(found),
         Prefixed(pos) = NoRange => found = NoEntry,
         Prefixed(pos) # NoRange => found.at = pos /\ found.size = Prefixed(pos)[2] - pos
  PROVE  Undecodable \/ pos >= len \/ len >= OffsetLimit
  <1>1. heap \in Heaps /\ pos \in Nat /\ len \in Nat /\ OffsetLimit \in Nat
    BY HeapTyped DEF Inv
  <1>2. CASE Prefixed(pos) = NoRange
    <2>1. pos < len \/ pos >= len
      BY <1>1
    <2> QED BY <1>2, <2>1 DEF Undecodable
  <1>3. CASE Prefixed(pos) # NoRange
    <2>1. PICK v \in Nat, w \in {1, 2, 4} : pos + w + v <= len /\ Prefixed(pos) = <<pos + w, pos + w + v>>
      BY <1>1, <1>3, PrefixedInside
    <2>2. found # NoEntry
      BY <1>1, <1>3 DEF NoEntry
    <2>3. pos + found.size \in Nat /\ pos + found.size <= len
      BY <1>1, <1>3, <2>1
    <2>4. pos >= len \/ pos + found.size >= OffsetLimit
      BY <1>1, <2>2, <2>3 DEF Steps
    <2> QED BY <1>1, <2>3, <2>4
  <1> QED BY <1>2, <1>3

(* Every call of next() is a step of the scan, or none once it has ended.  *)
LEMMA StepRefines ==
  ASSUME Inv, Inv', [Next]_vars
  PROVE  Scan!Next \/ UNCHANGED <<len, atBar, Len(items), statusBar>>
  <1>1. heap \in Heaps /\ pos \in Nat /\ items \in Seq(HeapEntries) /\ pos' \in Nat
    BY DEF Inv
  <1>2. len \in Nat /\ OffsetLimit \in Nat /\ GuidSize \in Nat \ {0}
    BY <1>1, HeapTyped
  <1>3. ASSUME NEW x, items' = Append(items, x) PROVE Len(items') = Len(items) + 1
    <2> DEFINE S == HeapEntries \cup {x}
    <2>1. items \in Seq(S) /\ x \in S
      BY <1>1, SeqDef
    <2> HIDE DEF S
    <2> QED BY <1>3, <2>1
  <1>4. CASE StringsNext
    <2>1. /\ status = "open" /\ heap.kind = "#Strings" /\ pos < len
          /\ pos' = pos + (NextNul(pos) + 1 - pos) /\ UNCHANGED <<heap, status>>
      BY <1>4 DEF StringsNext, Yield
    <2>2. NextNul(pos) \in pos..len
      <3>1. pos \in 0..len
        BY <1>1, <1>2, <2>1
      <3> QED BY <1>1, <3>1, StringsEnd DEF StringEnds
    <2>3. pos < pos'
      <3> DEFINE e == NextNul(pos)
      <3>1. e \in pos..len /\ pos' = pos + (e + 1 - pos)
        BY <2>1, <2>2
      <3> HIDE DEF e
      <3> QED BY <1>1, <1>2, <3>1
    <2>4. Len(items') = Len(items) + 1
      BY <1>3, <1>4 DEF StringsNext, Yield
    <2> QED BY <2>1, <2>3, <2>4, ItemIsScanned
  <1>5. ASSUME NEW found, status = "open", pos < len, Prefixed(pos) # NoRange,
               found.size = Prefixed(pos)[2] - pos, Yield(found)
        PROVE  Scan!Next
    <2>1. PICK v \in Nat, w \in {1, 2, 4} : Prefixed(pos) = <<pos + w, pos + w + v>>
      BY <1>1, <1>5, PrefixedInside
    <2>2. pos < pos'
      BY <1>1, <1>5, <2>1 DEF Yield
    <2>3. Len(items') = Len(items) + 1
      BY <1>3, <1>5 DEF Yield
    <2> QED BY <1>5, <2>2, <2>3, ItemIsScanned DEF Yield
  <1>6. CASE BlobNext
    <2> DEFINE found == blob_with_size(pos)
    <2>1. status = "open" /\ pos < len /\ found # NoEntry /\ Yield(found)
      BY <1>6 DEF BlobNext, Steps
    <2>2. Prefixed(pos) # NoRange
      BY <2>1 DEF blob_with_size
    <2>3. found.size = Prefixed(pos)[2] - pos
      BY <2>2 DEF blob_with_size
    <2> HIDE DEF found
    <2> QED BY <1>5, <2>1, <2>2, <2>3
  <1>7. CASE UserStringsNext
    <2> DEFINE found == user_string_with_size(pos)
    <2>1. status = "open" /\ pos < len /\ found # NoEntry /\ Yield(found)
      BY <1>7 DEF UserStringsNext, Steps
    <2>2. Prefixed(pos) # NoRange
      BY <2>1 DEF user_string_with_size
    <2>3. found.size = Prefixed(pos)[2] - pos
      BY <2>2 DEF user_string_with_size
    <2> HIDE DEF found
    <2> QED BY <1>5, <2>1, <2>2, <2>3
  <1>8. CASE GuidNext
    <2>1. /\ status = "open" /\ heap.kind = "#GUID" /\ Len(items) < guid_count
          /\ pos' = pos + GuidSize /\ UNCHANGED <<heap, status>>
      BY <1>8 DEF GuidNext, Yield
    <2>2. Len(items) + 1 \in 1..guid_count /\ pos = Len(items) * GuidSize
      BY <1>1, <2>1, GuidsFit DEF Inv, Placed
    <2>3. /\ (Len(items) + 1) * GuidSize = ((Len(items) + 1) - 1) * GuidSize + GuidSize
          /\ (Len(items) + 1) * GuidSize <= len
      BY <1>1, <2>2, GuidInside
    <2>4. (Len(items) + 1) - 1 = Len(items)
      BY <1>1
    <2>5. pos < len /\ pos < pos'
      BY <1>1, <1>2, <2>1, <2>2, <2>3, <2>4
    <2>6. Len(items') = Len(items) + 1
      BY <1>3, <1>8 DEF GuidNext, Yield
    <2> QED BY <2>1, <2>5, <2>6, ItemIsScanned
  <1>9. CASE IterEnd
    <2>1. status = "open" /\ status' = "ended" /\ UNCHANGED <<heap, pos, items>>
      BY <1>9 DEF IterEnd
    <2>2. /\ heap.kind = "#Strings" => pos >= len
          /\ heap.kind = "#Blob" => ~Steps(blob_with_size(pos))
          /\ heap.kind = "#US" => ~Steps(user_string_with_size(pos))
          /\ heap.kind = "#GUID" => Len(items) = guid_count
      BY <1>9 DEF IterEnd
    <2>3. Undecodable \/ pos >= len \/ len >= OffsetLimit
      <3>1. CASE heap.kind = "#Strings"
        BY <2>2, <3>1
      <3>2. CASE heap.kind = "#Blob"
        <4>1. /\ Prefixed(pos) = NoRange => blob_with_size(pos) = NoEntry
              /\ Prefixed(pos) # NoRange => /\ blob_with_size(pos).at = pos
                                            /\ blob_with_size(pos).size = Prefixed(pos)[2] - pos
          BY DEF blob_with_size
        <4> QED BY <2>2, <3>2, <4>1, StopsForAReason
      <3>3. CASE heap.kind = "#US"
        <4>1. /\ Prefixed(pos) = NoRange => user_string_with_size(pos) = NoEntry
              /\ Prefixed(pos) # NoRange => /\ user_string_with_size(pos).at = pos
                                            /\ user_string_with_size(pos).size = Prefixed(pos)[2] - pos
          BY DEF user_string_with_size
        <4> QED BY <2>2, <3>3, <4>1, StopsForAReason
      <3>4. CASE heap.kind = "#GUID"
        <4>1. /\ guid_count \in Nat /\ (guid_count + 1) * GuidSize > len
              /\ pos = guid_count * GuidSize
          BY <1>1, <2>2, <3>4, GuidsFit DEF Inv, Placed
        <4>2. (guid_count + 1) * GuidSize = guid_count * GuidSize + GuidSize
          BY <1>2, <4>1
        <4>3. pos + GuidSize > len
          BY <4>1, <4>2
        <4>4. pos < len \/ pos >= len
          BY <1>1, <1>2
        <4> QED BY <3>4, <4>3, <4>4 DEF Undecodable
      <3> QED BY <1>1, <3>1, <3>2, <3>3, <3>4, HeapTyped
    <2> QED BY <2>1, <2>3, EndIsScanned
  <1>10. CASE UNCHANGED vars
    <2>1. UNCHANGED <<heap, pos, items, status>>
      BY <1>10 DEF vars
    <2>2. len' = len /\ Prefixed(pos)' = Prefixed(pos)
      BY <2>1, HeapFixed, PrefixFixed
    <2> QED BY <2>1, <2>2 DEF atBar, statusBar, Undecodable, NoRange
  <1> QED BY <1>4, <1>6, <1>7, <1>8, <1>9, <1>10 DEF Next

(* Over every heap of any size the iterators are forward scans: each entry *)
(* takes at least one byte and begins where the last ended, and the end    *)
(* comes only when all bytes are accounted for, no entry can be decoded or *)
(* none can be located (heaps.rs:178-189, 249-262, 302-307, 410-423).      *)
THEOREM IteratorsScan == Spec => RefinesScan
  <1>1. Init => Scan!Init
    <2> SUFFICES ASSUME Init PROVE Scan!Init
      OBVIOUS
    <2>1. heap \in Heaps /\ pos = 0 /\ items = << >> /\ status = "open"
      BY DEF Init
    <2>2. len \in Nat
      BY <2>1, HeapTyped
    <2> QED BY <2>1, <2>2 DEF Scan!Init
  <1>2. Inv /\ Inv' /\ [Next]_vars =>
          Scan!Next \/ UNCHANGED <<len, IF pos > len THEN len ELSE pos, Len(items),
                                   IF status = "ended" /\ Undecodable THEN "failed" ELSE status>>
    BY StepRefines DEF atBar, statusBar
  <1> QED BY <1>1, <1>2, InvHolds, PTL DEF Spec, RefinesScan, Scan!Spec

=================================================================================
