---------------------------- MODULE RplConverter ----------------------------
(***************************************************************************)
(* What elf2rpl promises the build that runs it, stated on the files only: *)
(* the program exits exactly once; it exits with status 0 only for an     *)
(* input the loader format can represent, and then the file it wrote reads *)
(* back, through its own section header table, as that input in RPL form. *)
(* Any run may instead exit with an error (a rejected input, or a file or *)
(* zlib failure of the environment).                                      *)
(*                                                                         *)
(* status is "running" until the program exits; src is the input file,   *)
(* dst the output file (NoRpl while none was written).                     *)
(***************************************************************************)
EXTENDS Relocations, FiniteSets

CONSTANT Inputs

VARIABLES status, src, dst

avars == <<status, src, dst>>

(* The empty output: no header read, no table, nothing written.            *)
NoRpl == [header |-> [ident |-> "none", shoff |-> 0, shnum |-> 0, shstrndx |-> 0],
          table  |-> <<>>, writes |-> <<>>]

-----------------------------------------------------------------------------
(* The inputs the spec says the converter accepts: an ELF32 MSB PowerPC   *)
(* file, a .bss of zeros, a null first section, only section types the    *)
(* reordering takes, and relocations the loader supports or REL32 ones    *)
(* naming an existing symbol.                                              *)
KnownTypes == {"PROGBITS", "RPL_EXPORTS", "NOBITS", "REL", "RELA",
               "RPL_IMPORTS", "SYMTAB", "STRTAB"}

Acceptable(in) ==
  LET f   == readElf(in)
      bss == {s \in Range(f.sections) : s.name = ".bss"}
  IN  /\ in.header.ident = ValidIdent
      /\ \A s \in bss : \A e \in Range(s.data.body) : e.blob = "zero"
      /\ Sec(f, 0).type = "NULL"
      /\ \A k \in 1..Len(f.sections) - 1 : Sec(f, k).type \in KnownTypes
      /\ \A s \in Range(f.sections) : s.type = "RELA" =>
           \A r \in Range(s.data.body) :
             \/ r.rtype \in SupportedRelocations
             \/ r.rtype = "REL32" /\ r.sym < Len(Sec(f, s.link).data.body)

-----------------------------------------------------------------------------
(* Reading an RPL back the way the loader does: header i of the table,    *)
(* the bytes at [offset, offset + size), inflated when DEFLATED is set.    *)

IdIn(secs, k) == IF 0 <= k /\ k < Len(secs) THEN secs[k + 1].id ELSE "none"

Written(o, i) ==
  SelectSeq(o.writes, LAMBDA w : w.at = o.table[i].offset /\ w.data.len = o.table[i].size)

ReadBack(o, i) ==
  IF o.table[i].type = "NOBITS" \/ Written(o, i) = <<>> THEN NoData
  ELSE Head(Written(o, i)).data

Inflated(o, i) ==
  IF "DEFLATED" \in o.table[i].flags THEN ReadBack(o, i).body[1].stream ELSE ReadBack(o, i)

CrcOfPayload(p) == IF p.len > 0 THEN Crc32(p) ELSE ZeroCrc

(* dst is in RPL form and carries every section of src, each still       *)
(* referring to the sections it referred to, its bytes recoverable, the   *)
(* CRC table and FILEINFO last.                                            *)
IsRplOf(in, o) ==
  LET f     == readElf(in)
      n     == Len(o.table)
      ids   == {s.id : s \in Range(f.sections)}
      Orig(i) == CHOOSE s \in Range(f.sections) : s.id = o.table[i].id
      body  == 1..n - 2
      symIn == CHOOSE s \in Range(f.sections) : s.type = "SYMTAB"
      symO  == CHOOSE i \in body : o.table[i].type = "SYMTAB"
      Disjoint(a, b) == a.at + a.data.len <= b.at \/ b.at + b.data.len <= a.at
  IN  /\ o.header.ident = "RPL"
      /\ o.header.shnum = n /\ n = Len(f.sections) + 2
      /\ o.table[n - 1].type = "RPL_CRCS" /\ o.table[n].type = "RPL_FILEINFO"
      /\ {o.table[i].id : i \in body} = ids
      (* every payload is in the file where its header says, unshared     *)
      /\ \A w \in Range(o.writes) : o.header.shoff + n * SectionHeaderSize <= w.at
      /\ \A i, j \in DOMAIN o.writes : i # j => Disjoint(o.writes[i], o.writes[j])
      /\ \A i \in 1..n : o.table[i].type # "NOBITS" /\ o.table[i].size > 0 =>
           Len(Written(o, i)) = 1
      (* a compressed payload says how long it inflates                   *)
      /\ \A i \in 1..n : "DEFLATED" \in o.table[i].flags =>
           ReadBack(o, i).body[1].inflatedSize = Inflated(o, i).len
      (* sections the passes do not rewrite keep their bytes (P2 drops the  *)
      (* zeros of a .bss it turns into NOBITS)                              *)
      /\ \A i \in body : Orig(i).type \notin {"RELA", "SYMTAB"} /\ o.table[i].type # "NOBITS" =>
           Inflated(o, i) = Orig(i).data
      (* index fields name the same sections as in src                     *)
      /\ IdIn(o.table, o.header.shstrndx) = IdIn(f.sections, f.header.shstrndx)
      /\ \A i \in body :
           /\ IdIn(o.table, o.table[i].link) = IdIn(f.sections, Orig(i).link)
           /\ Orig(i).type = "RELA" =>
                IdIn(o.table, o.table[i].info) = IdIn(f.sections, Orig(i).info)
      /\ \A k \in DOMAIN symIn.data.body :
           symIn.data.body[k].shndx < SHN_LORESERVE =>
             IdIn(o.table, Inflated(o, symO).body[k].shndx)
               = IdIn(f.sections, symIn.data.body[k].shndx)
      (* the CRC table describes the inflated payloads                     *)
      /\ LET crcs == Inflated(o, n - 1).body
         IN  /\ Len(crcs) = n /\ crcs[n - 1] = ZeroCrc
             /\ \A i \in 1..n \ {n - 1} : crcs[i] = CrcOfPayload(Inflated(o, i))

-----------------------------------------------------------------------------
Init ==
  /\ status = "running"
  /\ src \in Inputs
  /\ dst = NoRpl

(* Exit status 0, the output written.                                      *)
Succeed ==
  /\ status = "running"
  /\ status' = "exit0"
  /\ UNCHANGED src
  /\ Acceptable(src)
  /\ IsRplOf(src, dst')

(* A non-zero exit with no output.                                         *)
Fail ==
  /\ status = "running"
  /\ status' = "exitError"
  /\ UNCHANGED <<src, dst>>

Next == Succeed \/ Fail

Safety == Init /\ [][Next]_avars

=============================================================================
