------------------------------ MODULE Layout ------------------------------
(***************************************************************************)
(* P10 deflateSections and P11 calculateSectionOffsets of                  *)
(* tools/elf2rpl/main.cpp.                                                 *)
(*                                                                         *)
(* A deflated payload is the 4-byte big-endian inflated size followed by  *)
(* the zlib stream of the original payload; the stream is kept as the      *)
(* payload it decompresses to, its length is DeflateSize of it.            *)
(***************************************************************************)
EXTENDS ElfFile

Deflatable(s) ==
  /\ s.data.len >= DeflateMinSectionSize
  /\ s.type \notin {"RPL_CRCS", "RPL_FILEINFO"}

(* Mutant: the header word holds the compressed instead of the inflated   *)
(* size.                                                                   *)
DeflateStoresStreamSize(p) ==
  [len |-> 4 + DeflateSize(p), body |-> <<[inflatedSize |-> U32(DeflateSize(p)), stream |-> p]>>]

Deflate(p) ==
  [len |-> 4 + DeflateSize(p), body |-> <<[inflatedSize |-> U32(p.len), stream |-> p]>>]

(* The loop over the sections up to, not including, index n.              *)
deflateSectionsBefore(f, n) ==
  [f EXCEPT !.sections =
     [i \in DOMAIN f.sections |->
        LET s == f.sections[i]
        IN  IF i <= n /\ Deflatable(s)
            THEN [s EXCEPT !.data = Deflate(@), !.flags = @ \cup {"DEFLATED"}]
            ELSE s]]

deflateSections(f) == deflateSectionsBefore(f, Len(f.sections))

-----------------------------------------------------------------------------
(* P11.                                                                    *)

(* getSectionByType as a 0- or 1-element sequence of indices.             *)
FirstOfType(f, type) ==
  LET k == getSectionByType(f, type) IN IF k = -1 THEN <<>> ELSE <<k>>

(* Mutant: the loop over the relocation sections missing.                 *)
offsetOrderNoReloc(f) ==
  FirstOfType(f, "RPL_CRCS") \o FirstOfType(f, "RPL_FILEINFO")
  \o IndicesWhere(f, IsData) \o IndicesWhere(f, IsExports)
  \o IndicesWhere(f, IsImports) \o IndicesWhere(f, IsSymStr)
  \o IndicesWhere(f, IsCode)

offsetOrder(f) ==
  FirstOfType(f, "RPL_CRCS") \o FirstOfType(f, "RPL_FILEINFO")
  \o IndicesWhere(f, IsData) \o IndicesWhere(f, IsExports)
  \o IndicesWhere(f, IsImports) \o IndicesWhere(f, IsSymStr)
  \o IndicesWhere(f, IsCode) \o IndicesWhere(f, IsReloc)

(* header.offset = offset; header.size = data.size(); offset += size.      *)
PlaceStep(st, k) ==
  LET len == Sec(st.f, k).data.len
  IN  [f      |-> [st.f EXCEPT !.sections[k + 1].offset = st.offset,
                               !.sections[k + 1].size   = U32(len)],
       offset |-> U32(st.offset + len)]

SectionDataStart(f) ==
  U32(f.header.shoff + AlignUp(Len(f.sections) * SectionHeaderSize, 64))

calculateSectionOffsets(f) ==
  Loop(PlaceStep, [f |-> f, offset |-> SectionDataStart(f)], offsetOrder(f)).f

=============================================================================
