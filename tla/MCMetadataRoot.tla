---------------------------- MODULE MCMetadataRoot ----------------------------
(***************************************************************************)
(* Regions with a root of 24 bytes and directories of up to three streams, *)
(* whole and cut in every field of the last entry.  Ranges lie in, across  *)
(* and behind the end of the region.                                       *)
(***************************************************************************)
EXTENDS MetadataRoot

MCNames == {"#~", "#-", "#Blob", "#Pdb", "long"}
MCNameLength == [n \in MCNames |-> CASE n \in TableNames -> 2
                                     [] n = "#Blob" -> 5
                                     [] n = "#Pdb" -> 4
                                     [] n = "long" -> 33]

Region(len, count, directory) ==
  [len |-> len, magic |-> TRUE, version_length |-> 4, version_terminated |-> TRUE,
   stream_count |-> count, directory |-> directory]

Stream(n, o, s) == [name |-> n, offset |-> o, size |-> s]

(* Behind the directory of any three short names: 24 + 3 * 16 = 72.        *)
Directories ==
  {<<Stream(m, 8, 24), Stream(n, o, s), Stream(l, 8, 20)>> :
     m \in MCNames, n \in MCNames, l \in {"#~", "#Blob", "long"},
     o \in {8, 60, 140}, s \in {0, 24}}

MCRegions ==
  {Region(len, n, d) : len \in {24, 30, 32, 34, 35, 36, 40, 47, 48, 50, 55, 56, 64, 68, 71, 72, 100, 160},
                       n \in {0, 2, 3}, d \in Directories}
  \cup {[Region(len, 0, << >>) EXCEPT !.magic = m, !.version_terminated = FALSE] :
          len \in {3, 4, 15, 19, 23, 24}, m \in BOOLEAN}
===============================================================================
