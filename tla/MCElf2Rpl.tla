----------------------------- MODULE MCElf2Rpl -----------------------------
(***************************************************************************)
(* Model-checking instance of Elf2Rpl.  The inputs are the ELF files the   *)
(* wut linker script produces for a small RPX: code, read-only and         *)
(* writable data, .bss, an export table and one import table in the       *)
(* loader address space, a non-allocated .comment, two relocation         *)
(* sections kept by --emit-relocs, and the three string/symbol tables.     *)
(* They vary in the order of the section headers, in how .bss was         *)
(* emitted, and in the one relocation of .rela.text; two more inputs are   *)
(* rejected (bad identity, an unknown section type).                       *)
(*                                                                         *)
(* Addresses are scaled by 2^-16: 0x0200 stands for 0x02000000, 0xC000    *)
(* for 0xC0000000.                                                         *)
(***************************************************************************)
EXTENDS Elf2Rpl

MCWord     == 65536
MCCodeBase == 512      \* 0x0200
MCDataBase == 4096     \* 0x1000
MCLoadBase == 49152    \* 0xC000

(* Payloads of these sizes compress to about half.                         *)
MCDeflateSize(p) == p.len \div 2 + 8

-----------------------------------------------------------------------------
(* Section templates: link, info and symbol shndx name sections by id.     *)

Sym(v, t, d)    == [value |-> v, stype |-> t, def |-> d]
Rel(o, s, t, a) == [offset |-> o, sym |-> s, rtype |-> t, addend |-> a]

InputSymbols ==
  << Sym(0,     "NOTYPE",  "UNDEF"),
     Sym(512,   "FUNC",    "text"),       \* main
     Sym(49152, "OBJECT",  "fexports"),   \* the export table
     Sym(49168, "FUNC",    "fimport"),    \* the first import stub
     Sym(4128,  "OBJECT",  "data"),
     Sym(0,     "SECTION", "comment") >>

T(id, name, type, flags, addr, size, align, link, info, data) ==
  [id |-> id, name |-> name, type |-> type, flags |-> flags, addr |-> addr,
   offset |-> HeaderSize, size |-> size, link |-> link, info |-> info,
   align |-> align, data |-> data]

Template(bss, rel) ==
  [null     |-> T("null", "", "NULL", {}, 0, 0, 0, "null", 0, NoData),
   text     |-> T("text", ".text", "PROGBITS", {"ALLOC", "EXECINSTR"}, 512, 256, 32,
                  "null", 0, Blob(256, "code")),
   relatext |-> T("relatext", ".rela.text", "RELA", {"INFO_LINK"}, 0, 12, 4,
                  "symtab", "text", Records(<<rel>>, RelaSize)),
   fexports |-> T("fexports", ".fexports", "RPL_EXPORTS", {"ALLOC"}, 49152, 16, 4,
                  "null", 0, Blob(16, "exports")),
   relafexports |-> T("relafexports", ".rela.fexports", "RELA", {"INFO_LINK"}, 0, 12, 4,
                  "symtab", "fexports", Records(<<Rel(49152, 1, "ADDR32", 0)>>, RelaSize)),
   fimport  |-> T("fimport", ".fimport_coreinit", "RPL_IMPORTS", {"ALLOC", "EXECINSTR"},
                  49168, 32, 4, "null", 0, Blob(32, "imports")),
   rodata   |-> T("rodata", ".rodata", "PROGBITS", {"ALLOC"}, 4096, 32, 8,
                  "null", 0, Blob(32, "rodata")),
   data     |-> T("data", ".data", "PROGBITS", {"ALLOC", "WRITE"}, 4128, 24, 8,
                  "null", 0, Blob(24, "data")),
   bss      |-> T("bss", ".bss", bss.type, {"ALLOC", "WRITE"}, 4160, 64, 64,
                  "null", 0, bss.data),
   comment  |-> T("comment", ".comment", "PROGBITS", {}, 0, 16, 1,
                  "null", 0, Blob(16, "comment")),
   symtab   |-> T("symtab", ".symtab", "SYMTAB", {}, 0, 96, 4, "strtab", 5,
                  Records(InputSymbols, SymbolSize)),
   strtab   |-> T("strtab", ".strtab", "STRTAB", {}, 0, 45, 1, "null", 0,
                  Blob(45, "strtab")),
   shstrtab |-> T("shstrtab", ".shstrtab", "STRTAB", {}, 0, 92, 1, "null", 0,
                  Blob(92, "shstrtab")),
   debuginfo |-> T("debuginfo", ".debug_info", "PROGBITS", {}, 0, 32, 1, "null", 0,
                  Blob(32, "dwarf")),
   reladebuginfo |-> T("reladebuginfo", ".rela.debug_info", "RELA", {"INFO_LINK"}, 0, 12, 4,
                  "symtab", "debuginfo", Records(<<Rel(8, 5, "ADDR32", 0)>>, RelaSize)),
   reldata  |-> T("reldata", ".rel.data", "REL", {"INFO_LINK"}, 0, 8, 4,
                  "symtab", "data", Blob(8, "rel")),
   note     |-> T("note", ".note.gnu.build-id", "NOTE", {"ALLOC"}, 0, 36, 4,
                  "null", 0, Blob(36, "note"))]

(* The file whose section header table lists the templates in `order`.     *)
Build(ident, order, tmpl) ==
  LET Pos(x) == IF x \in Range(order) THEN CHOOSE k \in 0..Len(order) - 1 : order[k + 1] = x
                ELSE 0
      Shndx(d) == IF d = "UNDEF" THEN 0 ELSE Pos(d)
      Resolve(t) ==
        [t EXCEPT !.link = Pos(@),
                  !.info = IF IsReloc(t) THEN Pos(@) ELSE @,
                  !.data = IF t.type = "SYMTAB"
                           THEN [@ EXCEPT !.body =
                                   [i \in DOMAIN @ |->
                                      [value |-> @[i].value, stype |-> @[i].stype,
                                       shndx |-> Shndx(@[i].def)]]]
                           ELSE @]
  IN  [header   |-> [ident |-> ident, shoff |-> 1024, shnum |-> Len(order),
                     shstrndx |-> Pos("shstrtab")],
       sections |-> [j \in DOMAIN order |-> Resolve(tmpl[order[j]])]]

BssVariants ==
  { [type |-> "NOBITS",   data |-> NoData],
    [type |-> "PROGBITS", data |-> Blob(64, "zero")],
    [type |-> "PROGBITS", data |-> Blob(64, "nonzero")] }

RelaTextVariants ==
  { Rel(528, 1, "ADDR32", 0),
    Rel(528, 1, "REL32", 4),
    Rel(528, 9, "REL32", 0),       \* symbol index past the end of .symtab
    Rel(528, 1, "ADDR24", 0) }     \* not supported by the loader

Orders ==
  { <<"null", "text", "relatext", "fexports", "relafexports", "fimport", "rodata",
      "data", "bss", "comment", "symtab", "strtab", "shstrtab">>,
    <<"null", "text", "fexports", "fimport", "rodata", "data", "bss", "comment",
      "relatext", "relafexports", "shstrtab", "symtab", "strtab">>,
    <<"null", "text", "fexports", "rodata", "comment", "data", "bss", "relatext",
      "relafexports", "fimport", "symtab", "strtab", "shstrtab">> }

FirstOrder == <<"null", "text", "relatext", "fexports", "relafexports", "fimport",
                "rodata", "data", "bss", "comment", "symtab", "strtab", "shstrtab">>

DefaultTemplate ==
  Template([type |-> "NOBITS", data |-> NoData], Rel(528, 1, "REL32", 4))

MCInputs ==
  { Build(ValidIdent, o, Template(b, r)) : o \in Orders, b \in BssVariants,
                                          r \in RelaTextVariants }
  \cup { Build("ELF64", FirstOrder, DefaultTemplate),
         Build(ValidIdent, FirstOrder \o <<"note">>, DefaultTemplate) }

(* A malformed file: its first section header is not SHT_NULL but code,    *)
(* and a SHT_NOTE section no bucket of P3 takes makes up the count.        *)
MCMalformedInputs ==
  { Build(ValidIdent, <<"text", "relatext", "fexports", "relafexports", "fimport",
                        "rodata", "data", "bss", "comment", "symtab", "strtab",
                        "shstrtab", "note">>, DefaultTemplate) }

(* A file with every loader section P6 places: both export tables and     *)
(* three import tables.  The loader area is laid out by the linker script: *)
(* .fexports, .dexports, then the imports from the next 4-byte boundary.   *)
(* .dexports (entries and their names) is dsize bytes long; an odd size    *)
(* leaves the P6 cursor unaligned before .symtab.                          *)
LoaderSymbols ==
  << Sym(0,     "NOTYPE",  "UNDEF"),
     Sym(512,   "FUNC",    "text"),
     Sym(49152, "OBJECT",  "fexports"),
     Sym(49168, "OBJECT",  "dexports"),
     Sym(49180, "FUNC",    "fimport"),      \* OSReport stub
     Sym(49212, "FUNC",    "fimportsys"),   \* first stub of the second library
     Sym(49236, "OBJECT",  "dimport"),
     Sym(4128,  "OBJECT",  "data"),
     Sym(0,     "SECTION", "comment") >>

LoaderTemplate(dsize) ==
  [dexports |-> T("dexports", ".dexports", "RPL_EXPORTS", {"ALLOC"}, 49168, dsize, 4,
                  "null", 0, Blob(dsize, "dexports")),
   reladexports |-> T("reladexports", ".rela.dexports", "RELA", {"INFO_LINK"}, 0, 12, 4,
                  "symtab", "dexports", Records(<<Rel(49168, 7, "ADDR32", 0)>>, RelaSize)),
   fimport  |-> T("fimport", ".fimport_coreinit", "RPL_IMPORTS", {"ALLOC", "EXECINSTR"},
                  49180, 32, 4, "null", 0, Blob(32, "imports")),
   fimportsys |-> T("fimportsys", ".fimport_sysapp", "RPL_IMPORTS", {"ALLOC", "EXECINSTR"},
                  49212, 24, 4, "null", 0, Blob(24, "imports_sysapp")),
   dimport  |-> T("dimport", ".dimport_coreinit", "RPL_IMPORTS", {"ALLOC", "WRITE"},
                  49236, 16, 4, "null", 0, Blob(16, "dimports")),
   symtab   |-> T("symtab", ".symtab", "SYMTAB", {}, 0, 144, 4, "strtab", 7,
                  Records(LoaderSymbols, SymbolSize))]
  @@ DefaultTemplate

LoaderOrders ==
  { <<"null", "text", "relatext", "fexports", "relafexports", "dexports", "reladexports",
      "fimport", "fimportsys", "dimport", "rodata", "data", "bss", "comment",
      "symtab", "strtab", "shstrtab">>,
    <<"null", "text", "fexports", "dexports", "fimport", "fimportsys", "dimport", "rodata",
      "data", "bss", "comment", "relatext", "relafexports", "reladexports", "shstrtab",
      "symtab", "strtab">> }

MCLoaderInputs == { Build(ValidIdent, o, LoaderTemplate(12)) : o \in LoaderOrders }

MCPipelineInputs == MCInputs \cup MCLoaderInputs

MCUnalignedLoaderInputs == { Build(ValidIdent, o, LoaderTemplate(10)) : o \in LoaderOrders }

(* The default file with DWARF kept by --emit-relocs: a non-allocated      *)
(* .debug_info at address 0 and its relocations, whose offsets are small  *)
(* addresses within .debug_info.                                           *)
MCDebugInputs ==
  { Build(ValidIdent, FirstOrder \o <<"debuginfo", "reladebuginfo">>, DefaultTemplate) }

(* The default file with an SHT_REL section (records without addends) for  *)
(* .data, as a toolchain other than the PowerPC one would emit.            *)
MCRelInputs ==
  { Build(ValidIdent, FirstOrder \o <<"reldata">>, DefaultTemplate) }

=============================================================================
