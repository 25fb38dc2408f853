----------------------------- MODULE MCReorder -----------------------------
(***************************************************************************)
(* Model-checking instance of Elf2Rpl for the index rewriting of P3 and    *)
(* the insertions of P7 and P8: every order of five sections behind the   *)
(* null section (code, its relocations, data, .symtab and .shstrtab,     *)
(* with .strtab last), so that links, RELA info, symbol shndx and        *)
(* shstrndx take every position; and the malformed file whose first      *)
(* header is not SHT_NULL.                                                 *)
(***************************************************************************)
EXTENDS MCElf2Rpl

Permuted == {"text", "relatext", "data", "symtab", "shstrtab"}

MCReorderInputs ==
  { Build(ValidIdent, <<"null">> \o o \o <<"strtab">>, DefaultTemplate) :
      o \in SetToSeqs(Permuted) }
  \cup MCMalformedInputs

=============================================================================
