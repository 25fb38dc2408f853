# TLA+ models of elf2rpl

`src/tools/elf2rpl/main.cpp` converts a 32-bit big-endian PowerPC ELF into
the RPL container of the console loader. It is one thread. `main()` runs
twelve passes over one in-memory `ElfFile`, and the first pass that returns
`false` ends the program with exit status -1. The other files under `src/`
are header declarations of console libraries; they hold no code that runs.

## The system

| pass | function | state it changes |
|------|----------|------------------|
| P1 | `readElf` | file header, sections (header, payload, name) |
| P2 | `fixBssNoBits` | `.bss`: type, offset, payload |
| P3 | `reorderSectionIndex` | section order, `shstrndx`, every `link`, RELA `info`, symbol `shndx` |
| P4 | `fixRelocations` | RELA flags, records (REL32 → GHS_REL16_HI + appended LO) |
| P5 | `fixSectionAlign` | `addralign` |
| P6 | `fixLoaderVirtualAddresses` / `relocateSection` | loader sections' `addr`, ALLOC flag, symbol values, relocation offsets |
| P7 | `generateFileInfoSection` | appends FILEINFO |
| P8 | `generateCrcSection` | inserts CRCS before the last section |
| P9 | `fixFileHeader` | file header |
| P10 | `deflateSections` | payloads, DEFLATED flag |
| P11 | `calculateSectionOffsets` | `offset`, `size` |
| P12 | `writeRpl` | the output file |

The passes interact only through the file. What makes the code hard is that
later passes depend on the indices, addresses and sizes earlier passes
rewrite:

- P3 renumbers sections. P7 and P8 insert sections behind them.
- P6 moves sections and rebases symbols and relocations in place, one
  section after another.
- P8 hashes the payloads before P10 compresses them.
- P11 lays out payloads whose length P4 and P10 changed after their header
  `size` was read.

Things can go wrong where the code meets the outside: open failures (P1,
P12), bad input (P1, P2, P3, P4), a zlib failure (P10), and a crash in P3 on
a malformed section table.

## Modules

| module | models | state and actions |
|--------|--------|-------------------|
| `ElfFile` | `struct ElfFile`, lookups, `readElf`, `writeRpl` | A section is a record holding the header fields the passes use, the name, and a payload `[len, body]`. The body is the sequence of records the code `reinterpret_cast`s the bytes to (symbols, relocations, CRCs, file info), or one tag naming opaque bytes. `id` is a ghost identity for properties. |
| `Reorder` | P2, P3 | `sectionMap` is the eight bucket loops. `mapOldToNew` replays the code's writes: a repeated index keeps the last write, and a missing one stays 0. `sectionMapIsPermutation` separates the crash case. |
| `Relocations` | P4, P5, P6 | `LowerRelocations` is the record loop plus the trailing append. `relocateSection` uses the code's inclusive window and rewrites in place. `LoaderStep` is one `if (auto section = …)` block, and `fixLoaderVirtualAddresses` folds it over the loader order. |
| `RplSections` | P7, P8, P9 | `FileInfoStep` is one iteration of the size loop. The CRC table and the CRC section are built by the code's two `insert(end() - 1, …)` calls. |
| `Layout` | P10, P11 | A DEFLATE stream is kept as the payload it inflates to, with length `DeflateSize(p)`. `deflateSectionsBefore(f, n)` is the loop cut short by a zlib error. `PlaceStep` is one `offset/size/offset +=` block. |
| `Elf2Rpl` | `main()` | Variables: `pc` (`main` for the argument check, the next pass, or `done` / `usage` / `failed` / `ioError` / `zlibError` / `crashed`), `input` (the file on disk), `file` (the `ElfFile`), `out` (what was written). There is one action for the argument check and one per pass, with a disjunct for each way the pass can end. The constant `WriteMayFail` lets the output device fill up during the header or payload writes of P12. |
| `RplConverter` | what `main()` promises | An abstract spec with variables `status` (`running`, `exit0`, `exitError`), `src` and `dst`. `Succeed` exits 0 for an `Acceptable` input with a `dst` that `IsRplOf` it: reading each header's `[offset, size)` back and inflating it gives the input's sections, with the same index references and a matching CRC table. `Fail` exits with an error and writes nothing. |
| `MCElf2Rpl` | model values | The constants, 38 input files, two files with every loader section (`MCLoaderInputs`) and their variant with an odd-sized `.dexports`, the malformed file, a file with `.debug_info` and its relocations, and one with a `.rel.data`. |
| `MCReorder` | model values | Every order of five sections behind the null section. |

Integer width: addresses are `uint32_t`, and TLC integers have 31 bits. The
address space is therefore scaled by 2^-16: `Word = 65536` stands for 2^32,
and CodeBase, DataBase and LoadBase become 0x0200, 0x1000 and 0xC000.
Alignments, record sizes and payload lengths keep their real values. Every
uint32 result is taken `% Word`, and `shnum`/`shstrndx` are taken `% 65536`.

## Runs

| run | cfg | result | what it shows |
|-----|-----|--------|---------------|
| `pipeline` | `MCElf2Rpl.cfg` | pass, 526 states | All nine invariants below hold over all 40 inputs, including the failure exits. `Elf2Rpl` implements `RplConverter`. |
| `short_write` | `MCShortWrite.cfg` | violation | A full device during the section header or payload writes: `writeRpl` still returns true and the program exits 0 with a short file (spec 6). TLC reports the first such branch it meets; every branch exits 0. |
| `rel_info` | `MCRelInfo.cfg` | violation | A `.rel.data` (SHT_REL) keeps its `info` when P3 moves `.data`, so it names another section (spec 8.3; spec 9 lists only the RELA `info`). |
| `unaligned_loader` | `MCUnalignedLoader.cfg` | violation | With a 10-byte `.dexports`, P6 places `.symtab` at the aligned cursor but advances the unaligned one, so `.strtab` starts 2 bytes inside `.symtab` (spec 4.6). |
| `reorder_permutations` | `MCReorder.cfg` | pass, 2767 states | P3 and the P7/P8 insertions keep every index field pointing at the same section, for every order of five section headers. The malformed file crashes. |
| `malformed_reorder` | `MCMalformed.cfg` | violation | A file with section 0 of type PROGBITS and a NOTE section crashes in P3 instead of being rejected (spec 4.3, 7). |
| `debug_relocations` | `MCDebugRela.cfg` | violation | The record of `.rela.debug_info` at offset 8 lies in the old window of `.symtab` (address 0). P6 rebases it into the loader area, although `.debug_info` does not move (spec 8.2 against 4.6.1). |
| `double_shift` | `MCDoubleShift.cfg` | violation | The SECTION symbol of `.comment` (value 0) is moved twice by P6 and ends at `.fimport_coreinit`'s address (spec 8.1). |

Properties (`Elf2Rpl.tla`):

- `TypeOK` (pipeline only): the shape of the state, with every `link` inside
  the section table.
- `ReferencesPreserved`: every `shstrndx`, `link`, RELA or REL `info` and symbol
  `shndx` names, by identity, the section it named on disk. This is checked
  in every state after P1.
- `REL32Lowered`: each REL32 becomes HI in place with the same symbol and
  addend, and a matching LO is appended at `offset + 2` with `addend + 2`.
  No other record changes type. This is read through the deflated payload.
- `FileInfoCoversSegments`: every section placed in the text, data or load
  area ends within the size FILEINFO announces for that area.
- `CrcTableMatchesContent`: the table has `shnum` entries, and the entry of
  the CRCS section itself is 0. Every other entry is the CRC of what the
  loader inflates.
- `WrittenSectionsReadBack`: the payloads are written after the header table,
  they are pairwise disjoint, and each one is found at its header's
  `offset` with its header's `size`.
- `LoaderSectionsDisjoint`: after P6 the loader sections are aligned, lie at
  or above LoadBase, and do not overlap.
- `LoaderReferencesFollowSection`: symbols and relocations that point into a
  loader section keep their offset within it.
- `RejectsExactlyBadInputs`: the program ends with `done` exactly for the
  inputs the spec accepts, and with `failed` for the others. It never
  crashes.
- `ImplementsConverter`: `Converter!Safety` under the refinement mapping
  `status <- ExitStatus` (`done` is `exit0`; `failed`, `ioError` and
  `zlibError` are `exitError`; `crashed` matches no abstract state),
  `src <- input`, and `dst <- out` once `writeRpl` ran (else the empty
  output). Every pass is a stutter of the abstract spec. The exit-0 step must
  produce a file that reads back as the input, and a zlib or open failure
  must leave nothing written.
- `SymbolsShiftedOnce` (violation run only): spec 8.1.
- `RelocationsFollowTarget` (violation run only): spec 8.2. Every RELA record
  moves by the delta of the section its `info` names.

Each property of a passing run has a mutant in `PROJECT.json`: a plausible
bug in the definition it depends on, and TLC finds the property violated
under that mutant.

## Bounds

The inputs follow what the wut linker script produces:

- `.text`, `.fexports` with its `.rela`, `.fimport_coreinit`, `.rodata`,
  `.data`, `.bss`, a non-allocated `.comment`, and the three tables.
- Six symbols:
  - one undefined;
  - one in code;
  - one at the start of the export table;
  - one at the first import stub, which is also the end of the inclusive
    export window;
  - one in data;
  - one SECTION symbol of value 0.
- `.strtab` has an odd size (45), so the P6 cursor becomes unaligned before
  `.shstrtab` and the imports.

Three things vary:

- the section header order: linker order, tables before relocations, and a
  mixed order;
- `.bss`: NOBITS, zero PROGBITS, or non-zero PROGBITS;
- the one `.rela.text` record: ADDR32, REL32, REL32 with an out-of-range
  symbol, or the unsupported ADDR24.

Two more files (`MCLoaderInputs`, two section orders) carry every section
P6 places: `.fexports`, `.dexports` with its `.rela`, and
`.fimport_coreinit`, `.fimport_sysapp` and `.dimport_coreinit`, with nine
symbols. With a 12-byte `.dexports` each section starts at the cursor, and
the run passes. With a 10-byte one (`unaligned_loader`), `.symtab` is
placed 2 bytes past the cursor. An overlap needs a section whose size leaves
the cursor before an alignment boundary, followed by a section with larger
alignment and then one with smaller alignment. These files are the smallest
that have that shape.

Between them these inputs reach every exit of every pass. The permutation
run covers every relative position of the index-bearing sections: code, its
RELA, data, `.symtab` and `.shstrtab`.

## Fairness and termination

`Spec` has no fairness and no liveness property is checked. The program is
one thread, and `pc` only moves forward through a fixed list of 13 steps
with an exit enabled at every step, so that every run exits follows from the
shape of `Next` whatever the passes compute; a property saying so would
check nothing about the code. Every behaviour ends after at most 13 steps,
and `CHECK_DEADLOCK FALSE` marks those final states; the program has exited
there.

The passes are folds over section lists (`Loop` in `ElfFile`). `Loop` is
`FoldLeft` with each intermediate result bound to a value, which keeps TLC
from re-evaluating the prefix of a fold at every read of the accumulator.

## Faults

The program runs where its environment can fail, and the model lets it:

- the arguments are missing (`usage`);
- either file cannot be opened (`ioError`);
- zlib cannot allocate its stream in P10 (`zlibError`);
- with `WriteMayFail`, the output device fills up during P12, after any
  number of section header writes (`main.cpp:893`) or payload writes
  (`main.cpp:900`). `Written` is the set of files the device can hold, and
  `WriteRpl` picks one.

The code checks the first three and exits non-zero. It does not check the
last one: `short_write` shows the exit 0 that results. With `WriteMayFail`
the passes before P12 behave as without it (the fault happens after every
check), so no passing run repeats them under write faults.

## What is not modelled

- Byte layout: endianness, string tables, FILEINFO constant fields and the
  header fields no pass reads. Names are read from the input, not parsed.
- zlib: CRC-32 is an uninterpreted hash of the payload, and DEFLATE is an
  abstract length.
- Inputs with out-of-range `link`, `info` or `shstrndx` (undefined
  behaviour in the code), and truncated files (unchecked `ifstream::read`). SHT_REL
  sections appear only in `rel_info`; P4 and P6 leave them alone, as the
  code does. See the hazards without properties in `PROJECT.json`.
- `src/include/gx2/state.h`, `src/include/nn/nim/nim_cpp.h` and
  `src/src/libwhb/include/whb/log_cafe.h`: declarations only.

## Plan for further work

1. `RelocationsFollowTarget` as a passing property. Every realistic input
   has a delta of 0 for every RELA target, so no mutant could break it yet.
2. P3 is not given an abstract specification of its own: what it promises
   (every reference follows its section) is already `ReferencesPreserved`,
   stated over section identities, and a refinement would restate it.
