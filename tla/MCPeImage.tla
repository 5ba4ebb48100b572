------------------------------- MODULE MCPeImage -------------------------------
(***************************************************************************)
(* Images with up to two section headers whose raw ranges lie in, across or*)
(* behind the end of the file and whose mapped ranges are apart, overlap or*)
(* reach the last RVA; a file long enough for both headers, or for one.    *)
(* The CLI header is in the first section's range.                         *)
(***************************************************************************)
EXTENDS PeImage

MCMaxRva == 1000

(* The section table starts at 24 + 64 + 224 = 312 and ends at 392.        *)
Header(len, headers, number, metadata, dirs) ==
  [len |-> len, pe_offset |-> 64, signatures |-> TRUE, pe32_plus |-> FALSE,
   optional_size |-> 224, directories |-> dirs,
   sections_stated |-> number, sections |-> headers, size_of_headers |-> 400,
   cli |-> [rva |-> 400, size |-> 72],
   cli_header |-> [size |-> 72, metadata |-> metadata]]

Sections(vas) ==
  [virtual_address : vas, virtual_size : {0, 80}, pointer_to_raw_data : {380, 440, 600},
   size_of_raw_data : {0, 80, 160}]

Metadata == [rva |-> 460, size |-> 60]

MCImages ==
  {Header(len, <<s, t>>, 2, Metadata, 16) : len \in {380, 480, 600},
      s \in Sections({400}), t \in Sections({440, 480, 960})}
  \cup {Header(560, <<s>>, 1, Metadata, 16) : s \in Sections({0, 400})}
  \cup {[Header(560, <<s>>, 1, [rva |-> 0, size |-> 0], 16) EXCEPT !.cli_header.size = 71] :
          s \in Sections({0, 400})}
  \cup {Header(560, << >>, 0, Metadata, 20), Header(560, << >>, 0, Metadata, 10),
        Header(300, << >>, 0, Metadata, 16),
        [Header(560, << >>, 0, Metadata, 16) EXCEPT !.signatures = FALSE]}

MCRvas == {0, 379, 380, 399, 400, 401, 439, 440, 479, 480, 481, 520, 559, 560, 960, 999, 1000}
===============================================================================
