------------------------------ MODULE ElfFile ------------------------------
(***************************************************************************)
(* The in-memory file model of tools/elf2rpl/main.cpp (struct ElfFile),    *)
(* its lookups, and the two I/O passes that fill and empty it: readElf     *)
(* (P1) and writeRpl (P12).                                                *)
(*                                                                         *)
(* A section is a record: the header fields the passes read or write, the *)
(* resolved name, and the payload (section->data).  A payload is a record  *)
(* [len, body]: len is data.size() in bytes, body is the sequence of the   *)
(* fixed-size records the code reinterpret_casts the bytes to (symbols,    *)
(* relocations, CRCs, the file-info record) or, for opaque bytes, one      *)
(* record naming the content.  The field `id` is a ghost identity (the     *)
(* unique_ptr the section lives in); no code reads it.                     *)
(*                                                                         *)
(* Addresses are uint32 values.  TLC integers are 31-bit, so the address   *)
(* space is scaled: Word stands for 2^32 and the three base addresses are  *)
(* scaled with it.  Alignments and record sizes keep their real values.    *)
(***************************************************************************)
EXTENDS Integers, Sequences, SequencesExt

CONSTANTS
  Word,             \* the modulus of uint32_t arithmetic (2^32, scaled)
  CodeBaseAddress,  \* 0x02000000, scaled
  DataBaseAddress,  \* 0x10000000, scaled
  LoadBaseAddress,  \* 0xC0000000, scaled
  DeflateSize(_)    \* byte length of the DEFLATE stream of a payload

ASSUME /\ Word \in Nat \ {0}
       /\ 0 < CodeBaseAddress /\ CodeBaseAddress < DataBaseAddress
       /\ DataBaseAddress < LoadBaseAddress /\ LoadBaseAddress < Word

-----------------------------------------------------------------------------
(* Record sizes (sizeof) and numeric constants of elf.h.                   *)

DeflateMinSectionSize == 24
SHN_LORESERVE == 65280            \* 0xFF00
HeaderSize        == 52           \* sizeof(elf::Header)
SectionHeaderSize == 40           \* sizeof(elf::SectionHeader)
SymbolSize        == 16           \* sizeof(elf::Symbol)
RelaSize          == 12           \* sizeof(elf::Rela)
CrcSize           == 4            \* sizeof(be_val<uint32_t>)
FileInfoSize      == 96           \* sizeof(elf::RplFileInfo)

U32(x) == x % Word
U16(x) == x % 65536

(* align_up of utils.h, for power-of-two alignments.                       *)
AlignUp(v, a) == U32(((v + a - 1) \div a) * a)

(* A loop over seq carrying st from one iteration to the next: FoldLeft,   *)
(* with each intermediate st bound to a value before the next iteration    *)
(* reads it (under ENABLED, TLC would otherwise re-evaluate the whole      *)
(* prefix at every read of st).                                            *)
RECURSIVE Loop(_, _, _)
Loop(op(_, _), st, seq) ==
  IF seq = <<>> THEN st
  ELSE CHOOSE r \in {Loop(op, nx, Tail(seq)) : nx \in {op(st, Head(seq))}} : TRUE

-----------------------------------------------------------------------------
(* Payloads.                                                               *)

NoData == [len |-> 0, body |-> <<>>]
Blob(n, tag) == [len |-> n, body |-> IF n = 0 THEN <<>> ELSE <<[blob |-> tag]>>]
Records(body, size) == [len |-> size * Len(body), body |-> body]

(* zlib crc32 over the payload bytes: an uninterpreted hash of the bytes;  *)
(* the CRC of no bytes is 0.                                               *)
Crc32(p) == [crc32 |-> p]
ZeroCrc == Crc32(NoData)

NumRecords(s, size) == s.data.len \div size

-----------------------------------------------------------------------------
(* Lookups.  Section indices are the code's 0-based ones.                  *)

Sec(f, k) == f.sections[k + 1]
Indices(f) == [i \in 1..Len(f.sections) |-> i - 1]

getSectionIndex(f, name) == SelectInSeq(f.sections, LAMBDA s : s.name = name) - 1

getSectionByType(f, type) == SelectInSeq(f.sections, LAMBDA s : s.type = type) - 1

(* The indices of the sections satisfying P, in index order: the body of   *)
(* each `for (i ...) if (P) push_back(i)` loop.                            *)
IndicesWhere(f, P(_)) == SelectSeq(Indices(f), LAMBDA k : P(Sec(f, k)))

IsCode(s)         == s.type = "PROGBITS" /\ "EXECINSTR" \in s.flags
IsReadOnlyData(s) == s.type = "PROGBITS" /\ "EXECINSTR" \notin s.flags /\ "WRITE" \notin s.flags
IsWritableData(s) == s.type = "PROGBITS" /\ "EXECINSTR" \notin s.flags /\ "WRITE" \in s.flags
IsData(s)         == s.type = "PROGBITS" /\ "EXECINSTR" \notin s.flags
IsBss(s)          == s.type = "NOBITS"
IsReloc(s)        == s.type \in {"REL", "RELA"}
IsExports(s)      == s.type = "RPL_EXPORTS"
IsImports(s)      == s.type = "RPL_IMPORTS"
IsSymStr(s)       == s.type \in {"SYMTAB", "STRTAB"}

-----------------------------------------------------------------------------
(* P1: readElf.  The input is the file on disk: its header, and for each   *)
(* section header the bytes found at header.offset.  The five identity     *)
(* checks (magic, class, encoding, machine, version) are one field.        *)

ValidIdent == "ELF32-MSB-PPC-CURRENT"

readElfOk(in) == in.header.ident = ValidIdent

readElf(in) ==
  [header   |-> in.header,
   sections |-> [i \in DOMAIN in.sections |->
                   LET s == in.sections[i]
                   IN  IF s.size = 0 \/ s.type = "NOBITS"
                       THEN [s EXCEPT !.data = NoData]
                       ELSE s]]

(* P12: writeRpl.  The output is the header, the section header table at  *)
(* shoff, and one write per section with a non-empty payload, at the      *)
(* offset its header holds, in index order.                                *)
writeRpl(f) ==
  [header |-> f.header,
   table  |-> [i \in DOMAIN f.sections |->
                 [f.sections[i] EXCEPT !.data = NoData]],
   writes |-> LET written == SelectSeq(f.sections, LAMBDA s : s.data.len > 0)
              IN  [i \in DOMAIN written |->
                     [at |-> written[i].offset, data |-> written[i].data]]]

=============================================================================
