------------------------------ MODULE Reorder ------------------------------
(***************************************************************************)
(* P2 fixBssNoBits and P3 reorderSectionIndex of tools/elf2rpl/main.cpp.   *)
(*                                                                         *)
(* reorderSectionIndex builds sectionMap (new index -> old index) from one *)
(* pass over the sections per bucket, checks only that it has as many     *)
(* entries as there are sections, applies it, and rewrites every field    *)
(* that holds a section index through mapOldToNew (old -> new).           *)
(***************************************************************************)
EXTENDS ElfFile

(* P2: a section named .bss that holds only zero bytes becomes NOBITS.     *)
fixBssNoBitsOk(f) ==
  LET k == getSectionIndex(f, ".bss")
  IN  IF k = -1 THEN TRUE
      ELSE \A i \in DOMAIN Sec(f, k).data.body : Sec(f, k).data.body[i].blob = "zero"

fixBssNoBits(f) ==
  LET k == getSectionIndex(f, ".bss")
  IN  IF k = -1 THEN f
      ELSE [f EXCEPT !.sections[k + 1] =
              [@ EXCEPT !.type = "NOBITS", !.offset = 0, !.data = NoData]]

-----------------------------------------------------------------------------
(* P3.                                                                     *)

sectionMap(f) ==
  <<0>> \o IndicesWhere(f, IsCode) \o IndicesWhere(f, IsExports)
        \o IndicesWhere(f, IsReadOnlyData) \o IndicesWhere(f, IsWritableData)
        \o IndicesWhere(f, IsBss) \o IndicesWhere(f, IsReloc)
        \o IndicesWhere(f, IsImports) \o IndicesWhere(f, IsSymStr)

(* The only check the code makes before applying the map.                  *)
reorderSectionIndexOk(f) == Len(sectionMap(f)) = Len(f.sections)

(* Mutant: the position written one past the entry's index.              *)
mapOldToNewShifted(f) ==
  LET m == sectionMap(f)
      n == Len(f.sections)
  IN  [k \in 0..n - 1 |->
         LET J == {i \in 0..n - 1 : m[i + 1] = k}
         IN  IF J = {} THEN 0 ELSE Max(J) + 1]

(* mapOldToNew[sectionMap[i]] = i for each i in turn, over a vector of     *)
(* zeroes: an old index no entry names stays 0, a repeated one keeps the   *)
(* last write.                                                             *)
mapOldToNew(f) ==
  LET m == sectionMap(f)
      n == Len(f.sections)
  IN  [k \in 0..n - 1 |->
         LET J == {i \in 0..n - 1 : m[i + 1] = k}
         IN  IF J = {} THEN 0 ELSE Max(J)]

RemapSymbols(body, inv) ==
  [i \in DOMAIN body |->
     IF body[i].shndx < SHN_LORESERVE
     THEN [body[i] EXCEPT !.shndx = inv[@]]
     ELSE body[i]]

(* Mutant: the loop over RELA info fields missing.                        *)
RemapSectionNoInfo(s, inv) ==
  [s EXCEPT !.link = inv[@],
            !.data = IF s.type = "SYMTAB"
                     THEN [@ EXCEPT !.body = RemapSymbols(@, inv)]
                     ELSE @]

RemapSection(s, inv) ==
  [s EXCEPT !.link = inv[@],
            !.info = IF s.type = "RELA" THEN inv[@] ELSE @,
            !.data = IF s.type = "SYMTAB"
                     THEN [@ EXCEPT !.body = RemapSymbols(@, inv)]
                     ELSE @]

(* The code moves each unique_ptr out of the old vector; an index that     *)
(* sectionMap repeats yields a null pointer the remapping loops then       *)
(* dereference.  sectionMapIsPermutation tells the two cases apart.        *)
sectionMapIsPermutation(f) ==
  \A k \in 0..Len(f.sections) - 1 : \E i \in DOMAIN sectionMap(f) : sectionMap(f)[i] = k

reorderSectionIndex(f) ==
  LET m   == sectionMap(f)
      inv == mapOldToNew(f)
  IN  [header   |-> [f.header EXCEPT !.shstrndx = inv[@]],
       sections |-> [j \in DOMAIN m |-> RemapSection(Sec(f, m[j]), inv)]]

=============================================================================
