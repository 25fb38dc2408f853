------------------------------ MODULE Elf2Rpl ------------------------------
(***************************************************************************)
(* The elf2rpl pipeline (main() of tools/elf2rpl/main.cpp): twelve passes  *)
(* run in a fixed order over one ElfFile; the first pass that returns      *)
(* false ends the program with exit status -1.                             *)
(*                                                                         *)
(* pc is the pass about to run, or how the program ended: "done" (exit 0), *)
(* "usage" (fewer than two arguments), "failed" (a pass returned false on  *)
(* its input), "ioError" (a file could not be opened), "zlibError" (zlib   *)
(* failed in P10; the exit is that of "failed") or "crashed" (a null       *)
(* section pointer was dereferenced).                                      *)
(* input is the file on disk; it never changes and lets the properties     *)
(* compare the result with what was read.                                  *)
(***************************************************************************)
EXTENDS Reorder, Relocations, RplSections, Layout, FiniteSets

CONSTANT Inputs        \* the ELF files the program may be given
CONSTANT WriteMayFail  \* whether the output device may fill up

ASSUME WriteMayFail \in BOOLEAN

VARIABLES pc, input, file, out

vars == <<pc, input, file, out>>

Passes == <<"main", "readElf", "fixBssNoBits", "reorderSectionIndex", "fixRelocations",
            "fixSectionAlign", "fixLoaderVirtualAddresses",
            "generateFileInfoSection", "generateCrcSection", "fixFileHeader",
            "deflateSections", "calculateSectionOffsets", "writeRpl", "done">>

Terminal == {"done", "usage", "failed", "ioError", "zlibError", "crashed"}

NoFile   == [header |-> [ident |-> "none", shoff |-> 0, shnum |-> 0, shstrndx |-> 0],
             sections |-> <<>>]
NoOutput == [header |-> NoFile.header, table |-> <<>>, writes |-> <<>>]

(* The pass after p.                                                       *)
After(p) == Passes[SelectInSeq(Passes, LAMBDA q : q = p) + 1]

(* A pass that always returns true.                                        *)
Step(p, f2) ==
  /\ pc = p
  /\ file' = f2
  /\ pc' = After(p)
  /\ UNCHANGED <<input, out>>

(* A pass that may return false: on failure the program stops.            *)
Checked(p, ok, f2) ==
  /\ pc = p
  /\ \/ ok  /\ file' = f2 /\ pc' = After(p)
     \/ ~ok /\ file' = f2 /\ pc' = "failed"
  /\ UNCHANGED <<input, out>>

Init ==
  /\ pc = "main"
  /\ input \in Inputs
  /\ file = NoFile
  /\ out = NoOutput

(* if (argc < 3) { print usage; return -1; }: the caller gave the paths or *)
(* did not.                                                                *)
CheckArgs ==
  /\ pc = "main"
  /\ pc' \in {"readElf", "usage"}
  /\ UNCHANGED <<input, file, out>>

ReadElfOpenFails ==
  /\ pc = "readElf"
  /\ pc' = "ioError"
  /\ UNCHANGED <<input, file, out>>

ReadElf ==
  /\ pc = "readElf"
  /\ \/ readElfOk(input)  /\ file' = readElf(input) /\ pc' = After(pc)
     \/ ~readElfOk(input) /\ file' = [readElf(input) EXCEPT !.sections = <<>>]
                          /\ pc' = "failed"
  /\ UNCHANGED <<input, out>>

FixBssNoBits ==
  /\ pc = "fixBssNoBits"
  /\ \/ fixBssNoBitsOk(file)  /\ file' = fixBssNoBits(file) /\ pc' = After(pc)
     \/ ~fixBssNoBitsOk(file) /\ pc' = "failed" /\ UNCHANGED file
  /\ UNCHANGED <<input, out>>

ReorderSectionIndex ==
  /\ pc = "reorderSectionIndex"
  /\ \/ ~reorderSectionIndexOk(file) /\ pc' = "failed" /\ UNCHANGED file
     \/ /\ reorderSectionIndexOk(file)
        /\ sectionMapIsPermutation(file)
        /\ file' = reorderSectionIndex(file)
        /\ pc' = After(pc)
     \/ /\ reorderSectionIndexOk(file)
        /\ ~sectionMapIsPermutation(file)
        /\ pc' = "crashed" /\ UNCHANGED file
  /\ UNCHANGED <<input, out>>

FixRelocations ==
  Checked("fixRelocations", fixRelocationsOk(file), fixRelocations(file))

FixSectionAlign == Step("fixSectionAlign", fixSectionAlign(file))

FixLoaderVirtualAddresses ==
  Step("fixLoaderVirtualAddresses", fixLoaderVirtualAddresses(file))

GenerateFileInfoSection ==
  Step("generateFileInfoSection", generateFileInfoSection(file))

GenerateCrcSection == Step("generateCrcSection", generateCrcSection(file))

FixFileHeader == Step("fixFileHeader", fixFileHeader(file))

(* deflate() returns Z_STREAM_ERROR when deflateInit, whose result the    *)
(* code ignores, could not allocate the stream: the pass returns false     *)
(* with the sections before this one already replaced.                     *)
DeflateSections ==
  /\ pc = "deflateSections"
  /\ \/ file' = deflateSections(file) /\ pc' = After(pc)
     \/ \E k \in 0..Len(file.sections) - 1 :
          /\ Deflatable(Sec(file, k))
          /\ file' = deflateSectionsBefore(file, k)
          /\ pc' = "zlibError"
  /\ UNCHANGED <<input, out>>

CalculateSectionOffsets ==
  Step("calculateSectionOffsets", calculateSectionOffsets(file))

(* What the device holds after writeRpl: the whole file, or, when it can   *)
(* fill up, the file as far as the first write that failed, a prefix of    *)
(* the section header writes or of the payload writes (later writes on the *)
(* failed stream do nothing).                                              *)
Written(o) ==
  {o} \cup
  IF WriteMayFail
  THEN {[o EXCEPT !.table = SubSeq(@, 1, k), !.writes = <<>>] : k \in 0..Len(o.table) - 1}
       \cup {[o EXCEPT !.writes = SubSeq(@, 1, n)] : n \in 0..Len(o.writes) - 1}
  ELSE {}

(* writeRpl checks only that the file opened, so whatever the device took  *)
(* the pass returns true and the program exits 0.                          *)
WriteRpl ==
  /\ pc = "writeRpl"
  /\ \/ \E w \in Written(writeRpl(file)) : out' = w /\ pc' = "done"
     \/ pc' = "ioError" /\ UNCHANGED out
  /\ UNCHANGED <<input, file>>

Next ==
  \/ CheckArgs \/ ReadElfOpenFails \/ ReadElf \/ FixBssNoBits \/ ReorderSectionIndex
  \/ FixRelocations \/ FixSectionAlign \/ FixLoaderVirtualAddresses
  \/ GenerateFileInfoSection \/ GenerateCrcSection \/ FixFileHeader
  \/ DeflateSections \/ CalculateSectionOffsets \/ WriteRpl

(* The program is one thread running the passes back to back.  No        *)
(* liveness is checked: pc only moves forward through a fixed list of      *)
(* passes, so the program exits by the shape of Next.                     *)
Spec == Init /\ [][Next]_vars

-----------------------------------------------------------------------------
(***************************************************************************)
(* What the properties read.                                               *)
(***************************************************************************)

IdAt(f, k) == IF 0 <= k /\ k < Len(f.sections) THEN Sec(f, k).id ELSE "none"
IndexOfId(f, x) == SelectInSeq(f.sections, LAMBDA s : s.id = x) - 1
SecById(f, x) == Sec(f, IndexOfId(f, x))

(* The payload the loader gets back: the stream a DEFLATED section holds,  *)
(* decompressed, or the payload itself.                                    *)
Content(s) == IF "DEFLATED" \in s.flags THEN s.data.body[1].stream ELSE s.data

(* The in-memory size of a section once loaded.                            *)
MemSize(s) == IF s.type = "NOBITS" THEN s.size ELSE Content(s).len

InputFile == readElf(input)
Reached(p) ==
  pc \notin Terminal \ {"done"} /\
  SelectInSeq(Passes, LAMBDA q : q = pc) > SelectInSeq(Passes, LAMBDA q : q = p)

(* Every section-index field of f, as the identities it designates.         *)
References(f) ==
  {<<"shstrndx", IdAt(f, f.header.shstrndx)>>}
  \cup {<<s.id, "link", IdAt(f, s.link)>> : s \in Range(f.sections)}
  \cup {<<s.id, "info", IdAt(f, s.info)>> : s \in {t \in Range(f.sections) : IsReloc(t)}}
  \cup UNION {{<<s.id, "sym", i, IdAt(f, Content(s).body[i].shndx)>> :
                 i \in {j \in DOMAIN Content(s).body : Content(s).body[j].shndx < SHN_LORESERVE}} :
               s \in {t \in Range(f.sections) : t.type = "SYMTAB"}}

-----------------------------------------------------------------------------
(***************************************************************************)
(* The program implements RplConverter: the exit status is that of a      *)
(* terminal pc (a crash is no status the converter may end with), and the *)
(* output is out once writeRpl has run.                                   *)
(***************************************************************************)
ExitStatus ==
  CASE pc = "done"                                       -> "exit0"
    [] pc \in {"usage", "failed", "ioError", "zlibError"} -> "exitError"
    [] pc = "crashed"                                    -> "crashed"
    [] OTHER                                             -> "running"

Converter == INSTANCE RplConverter WITH
               status <- ExitStatus,
               src    <- input,
               dst    <- IF pc = "done" THEN out ELSE NoOutput

Acceptable(in) == Converter!Acceptable(in)

-----------------------------------------------------------------------------
Flags == {"ALLOC", "WRITE", "EXECINSTR", "INFO_LINK", "DEFLATED"}

TypeOK ==
  /\ pc \in Range(Passes) \cup Terminal
  /\ input \in Inputs
  /\ file.header.shstrndx \in 0..65535
  /\ \A i \in DOMAIN file.sections :
       LET s == file.sections[i]
       IN  /\ s.flags \subseteq Flags
           /\ s.addr \in 0..Word - 1 /\ s.offset \in 0..Word - 1
           /\ s.link \in 0..Len(file.sections) - 1
           /\ s.data.len \in Nat
  /\ \A w \in Range(out.writes) : w.at \in 0..Word - 1

(***************************************************************************)
(* Reordering the sections (P3), and inserting FILEINFO and CRCS behind    *)
(* them (P7, P8), never changes which section an index field designates:   *)
(* every link, the info of every relocation section (RELA or REL), every  *)
(* symbol's shndx below SHN_LORESERVE and the header's shstrndx still name *)
(* the section they named on disk (spec 8.3).                              *)
(* reorderSectionIndex must rewrite them through the inverse of            *)
(* sectionMap, and generateCrcSection must insert before the last section. *)
(***************************************************************************)
ReferencesPreserved ==
  file # NoFile /\ pc # "failed" => References(InputFile) \subseteq References(file)

(***************************************************************************)
(* Every R_PPC_REL32 record of a relocation section ends up as a           *)
(* R_PPC_GHS_REL16_HI in its place with the same symbol and addend, plus  *)
(* one R_PPC_GHS_REL16_LO appended to the same section that patches the   *)
(* next halfword (offset + 2) with addend + 2; no other record is added,   *)
(* and the pair stays adjacent after P6 has rebased the offsets.           *)
(***************************************************************************)
REL32Lowered ==
  pc = "done" =>
    \A x \in {s.id : s \in {t \in Range(InputFile.sections) : t.type = "RELA"}} :
      LET orig == SecById(InputFile, x).data.body
          fin  == Content(SecById(file, x)).body
          low  == {i \in DOMAIN orig : orig[i].rtype = "REL32"}
      IN  /\ Len(fin) = Len(orig) + Cardinality(low)
          /\ \A i \in DOMAIN orig \ low : fin[i].rtype = orig[i].rtype
          /\ \A i \in low :
               /\ fin[i].rtype = "GHS_REL16_HI"
               /\ fin[i].sym = orig[i].sym /\ fin[i].addend = orig[i].addend
               /\ \E j \in Len(orig) + 1..Len(fin) :
                    fin[j] = [offset |-> U32(fin[i].offset + 2), sym |-> orig[i].sym,
                              rtype |-> "GHS_REL16_LO", addend |-> orig[i].addend + 2]

(***************************************************************************)
(* The segment sizes FILEINFO announces cover every section the loader    *)
(* places in that segment, at its final address and its inflated size:    *)
(* textSize, dataSize and loadSize are maxima over all sections, taken    *)
(* after P6 has moved the loader sections.                                 *)
(***************************************************************************)
FileInfoCoversSegments ==
  pc = "done" =>
    LET info == Sec(file, getSectionByType(file, "RPL_FILEINFO")).data.body[1]
    IN  \A s \in Range(file.sections) :
          LET end == s.addr + MemSize(s)
          IN  /\ CodeBaseAddress <= s.addr /\ s.addr < DataBaseAddress =>
                   end - CodeBaseAddress <= info.textSize
              /\ DataBaseAddress <= s.addr /\ s.addr < LoadBaseAddress =>
                   end - DataBaseAddress <= info.dataSize
              /\ LoadBaseAddress <= s.addr =>
                   end - LoadBaseAddress <= info.loadSize

(***************************************************************************)
(* The CRC table has one entry per section header; the entry of the CRC   *)
(* section itself is 0 and every other entry is the CRC-32 of what the    *)
(* loader gets when it inflates that section (0 for an empty one).  The   *)
(* table is computed in P8, before P10 compresses, and its extra 0 and    *)
(* the CRC section are inserted by two separate insert calls.             *)
(***************************************************************************)
CrcOf(p) == IF p.len > 0 THEN Crc32(p) ELSE ZeroCrc

CrcTableMatchesContent ==
  pc = "done" =>
    LET c     == getSectionByType(file, "RPL_CRCS")
        table == Sec(file, c).data.body
    IN  /\ Len(table) = file.header.shnum
        /\ table[c + 1] = ZeroCrc
        /\ \A i \in DOMAIN file.sections \ {c + 1} :
             table[i] = CrcOf(Content(file.sections[i]))

(***************************************************************************)
(* In the written file every section with a payload can be read back     *)
(* through its header: the bytes at [offset, offset + size) are exactly   *)
(* its payload, written after the header table, and no other section's   *)
(* payload overlaps them.                                                  *)
(***************************************************************************)
WrittenSectionsReadBack ==
  pc = "done" =>
    LET w        == out.writes
        tableEnd == out.header.shoff + Len(out.table) * SectionHeaderSize
        Disjoint(a, b) == a.at + a.data.len <= b.at \/ b.at + b.data.len <= a.at
    IN  /\ \A i \in DOMAIN w : tableEnd <= w[i].at
        /\ \A i, j \in DOMAIN w : i # j => Disjoint(w[i], w[j])
        /\ \A i \in DOMAIN file.sections :
             file.sections[i].data.len > 0 =>
               \E j \in DOMAIN w : /\ w[j].at = out.table[i].offset
                                   /\ w[j].data = file.sections[i].data
                                   /\ out.table[i].size = w[j].data.len

(***************************************************************************)
(* After P6 the sections it moved occupy disjoint address ranges in the   *)
(* loader area, each at an address aligned to its addralign.              *)
(***************************************************************************)
LoaderSections(f) ==
  {s \in Range(f.sections) :
     s.name \in Range(LoaderNames) \/ s.type = "RPL_IMPORTS"}

LoaderSectionsDisjoint ==
  Reached("fixLoaderVirtualAddresses") =>
    \A s, t \in LoaderSections(file) :
      /\ LoadBaseAddress <= s.addr
      /\ s.addr % s.align = 0
      /\ s.id # t.id => s.addr + MemSize(s) <= t.addr \/ t.addr + MemSize(t) <= s.addr

(***************************************************************************)
(* Symbols defined inside a loader section, and relocations applying to    *)
(* one, keep their offset within that section when P6 moves it.           *)
(***************************************************************************)
Inside(v, s) == s.addr <= v /\ v < s.addr + MemSize(s)

LoaderReferencesFollowSection ==
  pc = "done" =>
    LET in    == InputFile
        ids   == {s.id : s \in LoaderSections(in)}
        symIn == SecById(in, "symtab").data.body
        symFn == Content(SecById(file, "symtab")).body
    IN  /\ \A i \in DOMAIN symIn :
             LET y == symIn[i]
             IN  y.stype \in RelocatedSymbolTypes /\ y.shndx < SHN_LORESERVE
                 /\ IdAt(in, y.shndx) \in ids /\ Inside(y.value, Sec(in, y.shndx)) =>
                   symFn[i].value - SecById(file, IdAt(in, y.shndx)).addr
                     = y.value - Sec(in, y.shndx).addr
        /\ \A r \in {t \in Range(in.sections) : t.type = "RELA" /\ IdAt(in, t.info) \in ids} :
             LET target == IdAt(in, r.info)
                 fin    == Content(SecById(file, r.id)).body
             IN  \A i \in DOMAIN r.data.body :
                   Inside(r.data.body[i].offset, SecById(in, target)) =>
                     fin[i].offset - SecById(file, target).addr
                       = r.data.body[i].offset - SecById(in, target).addr

(***************************************************************************)
(* Spec 8.1: a symbol of type OBJECT, FUNC or SECTION whose value lay in   *)
(* the [addr, addr + size] window of a section P6 moved is shifted by that *)
(* section's delta, (old_value - old_addr) + new_addr, and a symbol in no  *)
(* such window keeps its value.  relocateSection rewrites the symbols in   *)
(* place one section after another, so a symbol already shifted can land  *)
(* in the old window of a section moved later.                             *)
(***************************************************************************)
Window(s) == LET size == IF s.data.len > 0 THEN s.data.len ELSE s.size
             IN  s.addr .. s.addr + size

SymbolsShiftedOnce ==
  pc = "done" =>
    LET symIn  == SecById(InputFile, "symtab").data.body
        symFn  == Content(SecById(file, "symtab")).body
        moved  == LoaderSections(InputFile)
    IN  \A i \in DOMAIN symIn :
          LET v  == symIn[i].value
              In == {s \in moved : v \in Window(s)}
          IN  symIn[i].stype \in {"OBJECT", "FUNC", "SECTION"} =>
                IF In = {} THEN symFn[i].value = v
                ELSE symFn[i].value \in {v - s.addr + SecById(file, s.id).addr : s \in In}

(***************************************************************************)
(* Spec 8.2: a RELA record that pointed into a relocated section is        *)
(* shifted by that section's delta, and the others are unchanged.  A       *)
(* record points into the section its RELA section's info names, so after  *)
(* P6 (relocateSection's offset loop) every record of the input has moved  *)
(* by exactly the delta of that section.                                   *)
(***************************************************************************)
RelocationsFollowTarget ==
  pc = "done" =>
    \A r \in {s \in Range(InputFile.sections) : s.type = "RELA"} :
      LET target == IdAt(InputFile, r.info)
          delta  == SecById(file, target).addr - SecById(InputFile, target).addr
          now    == Content(SecById(file, r.id)).body
      IN  \A i \in DOMAIN r.data.body :
            now[i].offset = U32(r.data.body[i].offset + delta)

(***************************************************************************)
(* The program rejects exactly the inputs the spec says it rejects (bad   *)
(* identity, non-zero .bss, a section no bucket of P3 takes, an           *)
(* unsupported relocation, a REL32 naming a missing symbol), and it       *)
(* rejects them by failing a pass, never by crashing.                     *)
(***************************************************************************)
RejectsExactlyBadInputs ==
  pc \in {"done", "failed", "crashed"} =>
    IF Acceptable(input) THEN pc = "done" ELSE pc = "failed"

(***************************************************************************)
(* main() implements the safety part of RplConverter: every step of the   *)
(* passes is a stutter or one exit, it exits 0 only for an acceptable      *)
(* input and only after writeRpl wrote a file that reads back as that      *)
(* input in RPL form, and it never ends by crashing.                       *)
(***************************************************************************)
ImplementsConverter == Converter!Safety
=============================================================================
