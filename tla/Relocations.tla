---------------------------- MODULE Relocations ----------------------------
(***************************************************************************)
(* P4 fixRelocations, P5 fixSectionAlign and P6 fixLoaderVirtualAddresses  *)
(* (with its helper relocateSection) of tools/elf2rpl/main.cpp.            *)
(*                                                                         *)
(* A symbol record is [value, stype, shndx]; a relocation record is        *)
(* [offset, sym, rtype, addend], its info field split into the symbol     *)
(* index (info >> 8) and the type (info & 0xFF) exactly as the code does.  *)
(***************************************************************************)
EXTENDS ElfFile

(* The relocation types the loader accepts unchanged.                      *)
SupportedRelocations ==
  {"NONE", "ADDR32", "ADDR16_LO", "ADDR16_HI", "ADDR16_HA", "REL24", "REL14",
   "DTPMOD32", "DTPREL32", "EMB_SDA21", "EMB_RELSDA",
   "DIAB_SDA21_LO", "DIAB_SDA21_HI", "DIAB_SDA21_HA",
   "DIAB_RELSDA_LO", "DIAB_RELSDA_HI", "DIAB_RELSDA_HA"}

getSymbol(symSec, index) == index < NumRecords(symSec, SymbolSize)

(* A R_PPC_REL32 record whose symbol exists in the linked symbol table.    *)
Lowered(f, s, r) == r.rtype = "REL32" /\ getSymbol(Sec(f, s.link), r.sym)

(* Mutant: the LO half keeps the HI half's addend.                        *)
LowerRelocationsSameAddend(f, s) ==
  LET rels == s.data.body
      hi   == [i \in DOMAIN rels |->
                IF Lowered(f, s, rels[i])
                THEN [rels[i] EXCEPT !.rtype = "GHS_REL16_HI"]
                ELSE rels[i]]
      sel  == SelectSeq(rels, LAMBDA r : Lowered(f, s, r))
      lo   == [i \in DOMAIN sel |->
                [sel[i] EXCEPT !.offset = U32(@ + 2), !.rtype = "GHS_REL16_LO"]]
  IN  Records(hi \o lo, RelaSize)

(* One RELA section after the loop over its records and the trailing      *)
(* insert of newRelocations at the end of its data.                        *)
LowerRelocations(f, s) ==
  LET rels == s.data.body
      hi   == [i \in DOMAIN rels |->
                IF Lowered(f, s, rels[i])
                THEN [rels[i] EXCEPT !.rtype = "GHS_REL16_HI"]
                ELSE rels[i]]
      sel  == SelectSeq(rels, LAMBDA r : Lowered(f, s, r))
      lo   == [i \in DOMAIN sel |->
                [offset |-> U32(sel[i].offset + 2), sym |-> sel[i].sym,
                 rtype  |-> "GHS_REL16_LO",        addend |-> sel[i].addend + 2]]
  IN  Records(hi \o lo, RelaSize)

(* Mutant: only the REL32 symbol check makes the pass fail.               *)
fixRelocationsOkTypesUnchecked(f) ==
  \A k \in 0..Len(f.sections) - 1 :
    Sec(f, k).type = "RELA" =>
      \A i \in DOMAIN Sec(f, k).data.body :
        LET r == Sec(f, k).data.body[i]
        IN  r.rtype # "REL32" \/ Lowered(f, Sec(f, k), r)

(* result && unsupportedTypes.size() == 0                                  *)
fixRelocationsOk(f) ==
  \A k \in 0..Len(f.sections) - 1 :
    Sec(f, k).type = "RELA" =>
      \A i \in DOMAIN Sec(f, k).data.body :
        LET r == Sec(f, k).data.body[i]
        IN  r.rtype \in SupportedRelocations \/ Lowered(f, Sec(f, k), r)

fixRelocations(f) ==
  [f EXCEPT !.sections =
     [i \in DOMAIN f.sections |->
        LET s == f.sections[i]
        IN  IF s.type = "RELA"
            THEN [s EXCEPT !.flags = {}, !.data = LowerRelocations(f, s)]
            ELSE s]]

-----------------------------------------------------------------------------
(* P5.                                                                     *)

fixSectionAlign(f) ==
  [f EXCEPT !.sections =
     [i \in DOMAIN f.sections |->
        LET s == f.sections[i]
        IN  CASE s.type = "PROGBITS"    -> [s EXCEPT !.align = 32]
              [] s.type = "NOBITS"      -> [s EXCEPT !.align = 64]
              [] s.type = "RPL_IMPORTS" -> [s EXCEPT !.align = 4]
              [] OTHER                  -> s]]

-----------------------------------------------------------------------------
(* P6.                                                                     *)

RelocatedSymbolTypes == {"OBJECT", "FUNC", "SECTION"}

(* Mutant: the loop over the symbol tables missing.                       *)
relocateSectionNoSymbols(f, k, newAddr) ==
  LET s        == Sec(f, k)
      size     == IF s.data.len > 0 THEN s.data.len ELSE s.size
      Rel(r)   == IF s.addr <= r.offset /\ r.offset <= s.addr + size
                  THEN [r EXCEPT !.offset = U32(@ - s.addr + newAddr)] ELSE r
      fixed    == [i \in DOMAIN f.sections |->
                    IF f.sections[i].type = "RELA"
                    THEN [f.sections[i] EXCEPT !.data.body = [j \in DOMAIN @ |-> Rel(@[j])]]
                    ELSE f.sections[i]]
  IN  [f EXCEPT !.sections = [fixed EXCEPT ![k + 1].addr = newAddr]]

(* relocateSection(file, section k, newSectionAddress).  The window end is *)
(* computed in size_t and so never wraps; the new value is uint32.         *)
relocateSection(f, k, newAddr) ==
  LET s        == Sec(f, k)
      size     == IF s.data.len > 0 THEN s.data.len ELSE s.size
      InWindow(v) == s.addr <= v /\ v <= s.addr + size
      Move(v)  == U32(v - s.addr + newAddr)
      Sym(y)   == IF y.stype \in RelocatedSymbolTypes /\ InWindow(y.value)
                  THEN [y EXCEPT !.value = Move(@)] ELSE y
      Rel(r)   == IF InWindow(r.offset) THEN [r EXCEPT !.offset = Move(@)] ELSE r
      Fix(t)   == CASE t.type = "SYMTAB" ->
                         [t EXCEPT !.data.body = [i \in DOMAIN @ |-> Sym(@[i])]]
                    [] t.type = "RELA" ->
                         [t EXCEPT !.data.body = [i \in DOMAIN @ |-> Rel(@[i])]]
                    [] OTHER -> t
      fixed    == [i \in DOMAIN f.sections |-> Fix(f.sections[i])]
  IN  [f EXCEPT !.sections = [fixed EXCEPT ![k + 1].addr = newAddr]]

(* The sections P6 moves into the loader address space, in the order it    *)
(* moves them.                                                             *)
LoaderNames == <<".fexports", ".dexports", ".symtab", ".strtab", ".shstrtab">>
AllocNames  == {".symtab", ".strtab", ".shstrtab"}

loaderOrder(f) ==
  SelectSeq([i \in DOMAIN LoaderNames |-> getSectionIndex(f, LoaderNames[i])],
            LAMBDA k : k # -1)
  \o IndicesWhere(f, IsImports)

LoaderStep(st, k) ==
  LET s     == Sec(st.f, k)
      moved == relocateSection(st.f, k, AlignUp(st.addr, s.align))
  IN  [f    |-> IF s.name \in AllocNames
                THEN [moved EXCEPT !.sections[k + 1].flags = @ \cup {"ALLOC"}]
                ELSE moved,
       addr |-> U32(st.addr + s.data.len)]

fixLoaderVirtualAddresses(f) ==
  Loop(LoaderStep, [f |-> f, addr |-> LoadBaseAddress], loaderOrder(f)).f

=============================================================================
