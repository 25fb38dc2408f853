---------------------------- MODULE RplSections ----------------------------
(***************************************************************************)
(* The RPL-specific parts of tools/elf2rpl/main.cpp: P7                    *)
(* generateFileInfoSection, P8 generateCrcSection and P9 fixFileHeader.    *)
(*                                                                         *)
(* Of RplFileInfo only the four computed fields are kept; the others are   *)
(* constants the code writes and no pass reads.                            *)
(***************************************************************************)
EXTENDS ElfFile

TextAlign == 32
DataAlign == 4096
LoadAlign == 4

(* A section the code synthesises: every header field 0 but type and       *)
(* addralign.                                                              *)
NewSection(id, type, align, data) ==
  [id |-> id, name |-> "", type |-> type, flags |-> {}, addr |-> 0,
   offset |-> 0, size |-> 0, link |-> 0, info |-> 0, align |-> align,
   data |-> data]

(* Mutant: each segment size is the last section's end, not the maximum.  *)
FileInfoStepLastWins(info, s) ==
  LET size == IF s.type = "NOBITS" THEN s.size ELSE s.data.len
  IN  CASE CodeBaseAddress <= s.addr /\ s.addr < DataBaseAddress ->
             [info EXCEPT !.textSize = U32(s.addr + s.size - CodeBaseAddress)]
        [] DataBaseAddress <= s.addr /\ s.addr < LoadBaseAddress ->
             [info EXCEPT !.dataSize = U32(s.addr + s.size - DataBaseAddress)]
        [] LoadBaseAddress <= s.addr ->
             [info EXCEPT !.loadSize = U32(s.addr + s.size - LoadBaseAddress)]
        [] s.addr = 0 /\ s.type \notin {"RPL_CRCS", "RPL_FILEINFO"} ->
             [info EXCEPT !.tempSize = U32(@ + size + 128)]
        [] OTHER -> info

(* One iteration of the loop that counts textSize, dataSize, loadSize and  *)
(* tempSize.  The three maxima use header.size; tempSize uses the payload  *)
(* length, or header.size for NOBITS.                                      *)
FileInfoStep(info, s) ==
  LET size      == IF s.type = "NOBITS" THEN s.size ELSE s.data.len
      Grow(cur, base) == LET val == U32(s.addr + s.size - base)
                         IN  IF val > cur THEN val ELSE cur
  IN  CASE CodeBaseAddress <= s.addr /\ s.addr < DataBaseAddress ->
             [info EXCEPT !.textSize = Grow(@, CodeBaseAddress)]
        [] DataBaseAddress <= s.addr /\ s.addr < LoadBaseAddress ->
             [info EXCEPT !.dataSize = Grow(@, DataBaseAddress)]
        [] LoadBaseAddress <= s.addr ->
             [info EXCEPT !.loadSize = Grow(@, LoadBaseAddress)]
        [] s.addr = 0 /\ s.type \notin {"RPL_CRCS", "RPL_FILEINFO"} ->
             [info EXCEPT !.tempSize = U32(@ + size + 128)]
        [] OTHER -> info

generateFileInfoSection(f) ==
  LET raw  == Loop(FileInfoStep,
                       [textSize |-> 0, dataSize |-> 0, loadSize |-> 0, tempSize |-> 0],
                       f.sections)
      info == [textSize |-> AlignUp(raw.textSize, TextAlign),
               dataSize |-> AlignUp(raw.dataSize, DataAlign),
               loadSize |-> AlignUp(raw.loadSize, LoadAlign),
               tempSize |-> raw.tempSize]
  IN  [f EXCEPT !.sections =
         Append(@, NewSection("FILEINFO", "RPL_FILEINFO", 4,
                              Records(<<info>>, FileInfoSize)))]

(* Mutant: the extra 0 appended after the last CRC.                       *)
generateCrcSectionZeroLast(f) ==
  LET crcs == [i \in DOMAIN f.sections |->
                 IF f.sections[i].data.len > 0 THEN Crc32(f.sections[i].data) ELSE ZeroCrc]
  IN  [f EXCEPT !.sections =
         InsertAt(@, Len(@), NewSection("CRCS", "RPL_CRCS", 4,
                                        Records(Append(crcs, ZeroCrc), CrcSize)))]

(* Mutant: the CRC section inserted at the front of the section list.      *)
generateCrcSectionAtFront(f) ==
  LET crcs == [i \in DOMAIN f.sections |->
                 IF f.sections[i].data.len > 0 THEN Crc32(f.sections[i].data) ELSE ZeroCrc]
  IN  [f EXCEPT !.sections =
         <<NewSection("CRCS", "RPL_CRCS", 4, Records(<<ZeroCrc>> \o crcs, CrcSize))>> \o @]

(* P8: one CRC per section, an extra 0 inserted one slot before the last  *)
(* entry, and the CRC section inserted one slot before the last section.   *)
generateCrcSection(f) ==
  LET crcs  == [i \in DOMAIN f.sections |->
                  IF f.sections[i].data.len > 0 THEN Crc32(f.sections[i].data)
                                                ELSE ZeroCrc]
      table == InsertAt(crcs, Len(crcs), ZeroCrc)
  IN  [f EXCEPT !.sections =
         InsertAt(@, Len(@), NewSection("CRCS", "RPL_CRCS", 4, Records(table, CrcSize)))]

(* P9: the fields of the RPL header a later pass or the loader reads.      *)
fixFileHeader(f) ==
  [f EXCEPT !.header =
     [ident    |-> "RPL",
      shoff    |-> AlignUp(HeaderSize, 64),
      shnum    |-> U16(Len(f.sections)),
      shstrndx |-> U16(getSectionIndex(f, ".shstrtab"))]]

=============================================================================
