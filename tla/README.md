# Verification of parallel-zip

`parallel-zip` is a Gradle plugin that builds zip archives on several threads, with the same
bytes whatever the number of threads. Its core is `ParallelZipWriter` (Java); deflating goes
through a JNI shim to a vendored libdeflate where that is available, and through the JDK's
`Deflater` otherwise.

This directory holds TLA+ models of it, the TLC runs that check them on small instances, and
theorems about them that TLAPS checks for every instance. `PROJECT.json` lists the runs, for each
property a mutation of the code that the property notices, for each definition the source lines it
stands for, the disagreements found, the hazards and the theorems.

Java file names below are relative to `src/main/java/com/ljarocki/parallelzip/`; `W` is
`internal/ParallelZipWriter.java`. C file names are relative to
`src/main/native/libdeflate/lib/`.

## 1. Inventory

| component | source | state | operations | hard because |
|---|---|---|---|---|
| Pipeline | `W` `Sink` 237-466 | pending batch, two semaphores, the writer's queue, futures, thread-local compressors, the error of the writer | `add`, `flushBatch`, `submit`, `finish`, `compressBatch` on the pool, `runWriter` | one producer, N workers and a writer block on each other; any of them may fail |
| Compression of a unit | `W` 466-940, `native/jni/pzip_libdeflate.c` | buffers, replies, results, temporary files | `compressBatch`, `compressBatchNative`, `compressBytes`, `compressLarge`, `tryMmapNativeDeflate`, `deflateToFile`, `writePayload` | a file is opened again for each question asked of it; every path falls back to another |
| Zip format | `W` 1018-1130 | order and offsets, directory buffer | local headers, central directory, ZIP64 and end records | fields of 16 and 32 bits, an `int` capacity, optional fields known by sentinels |
| Front ends | `W` entries, `write`, `enumerate`, names, attributes, dates 138-235, 942-1016, 1130-1162; `internal/ParallelZipCopyAction.java` | listing, names seen, buffer of a filtered stream, spill directory | `enumerate`, `processFile`, `materialize`, `deleteRecursively`, names, DOS dates, modes | the spill directory is shared with threads that `finish()` may not have waited for |
| Match finders and parsers | `{ht,hc,bt}_matchfinder.h`, `matchfinder_common.h`, `deflate_compress.c` 2000-3870 | hash tables, chains, trees, sequences, match cache, block statistics, costs | searching, skipping, sliding the window, choosing items, ending a block, the passes over a block | positions of 16 bits that grow old, hashes computed ahead, a parser that goes back |
| Writing blocks | `deflate_compress.c` 650-1960, 4060-4150 | frequencies, code lengths, bit buffer | Huffman codes, precode items, costs, the kind of a block, its bits, stored blocks, the bound | one bit too many in a word is lost; the cost has to be exact; only the start of a block looks at the room |
| Decompressor | `deflate_decompress.c`, `decompress_template.h` | bit buffer, decode tables kept between streams, tables that share memory | block headers, decode tables, the fast and the generic loop, match copies | untrusted input; words read ahead and copied too far; what differs with the machine |
| Containers and checksums | `{zlib,gzip}_{compress,decompress}.c`, `adler32.c`, `crc32.c` | none | headers, footers, Adler-32, CRC-32 | optional fields; reductions that are put off |
| CPU dispatch, vector code | `x86/`, `arm/`, `riscv/` | function pointers | detection, folding, copying | instructions |
| Native library | `internal/LibdeflateNative.java` | whether it is loaded | platform classifier, extraction, `System.load` | names of platforms are matched by substring |
| Task and plugin | `ParallelZip.java`, `ParallelZipPlugin.java` | task properties | declarations, `createCopyAction` | nothing of its own |

How they interact. The task creates a `ParallelZipCopyAction`, which opens a `Sink` and calls
`add` for every element Gradle's copy walk yields, then `finish`; `ParallelZipWriter.write` does
the same with a list it has sorted. `Sink` groups small entries into batches, takes permits for
the heap they need, runs them on a fixed pool and queues their futures. The writer thread takes
the futures in the order of submission, gives the permits back and writes local headers and
payloads; a payload is in memory, or in a file of the spill directory, or is streamed from the
input. The poison item makes it write the central directory.

The shim calls libdeflate's compressor. A parser of libdeflate asks a match finder for matches,
chooses literals and matches, ends blocks by its statistics, and hands each block's items to the
block writer, which makes the codes and writes the bits. What it writes any inflater must read;
libdeflate has one, with containers around it, and the two are checked against each other.

What makes each of them correct:

- Pipeline: the order of the archive is that of the list; a normal return means a complete
  archive; permits are conserved; `put` never blocks; no compressor is freed in use; the call and
  the threads end; a failed unit ends the archive.
- Compression: whatever path an entry takes, its headers describe its payload and the payload is
  the entry; batching changes nothing; no file is deleted before its last reader, and only a unit
  that fails leaves a spill file, for the removal of the spill directory to take away.
- Zip format: from the last 22 bytes a reader finds the directory, from it every header and
  payload, whichever values exceed their fields; ZIP64 only where needed.
- Front ends: names are relative and unique, the first source wins; filtered contents are whole;
  stamps and modes read back; the spill directory outlives its users and is then deleted.
- Match finders: what is reported is a match inside the window, and what must be found is found.
- Parsers: the blocks give the text back, are not too short and fit their arrays; the
  near-optimal parser writes the cheapest path of its best pass.
- Writing blocks: codes are complete, within their limits and optimal where no limit binds; a block
  has the bits that were counted; nothing is stored outside the output; the bound is enough.
- Decompressor: it decodes what the format means, or refuses; nothing is touched outside the
  buffers, no bit is used before it is there, nothing of an earlier stream matters.
- Containers and checksums: damage is noticed; the checksums are what their definitions say.

The hazards this comes from are listed with their lines in `PROJECT.json`.

## 2. Plan

The modules in the order in which they matter; all of them are written.

1. `Sink`, against the abstract `OrderedArchive`. Proofs: inductive invariant, its safety
   properties, refinement.
2. `Compress`, which also models the shim. Proofs: inductive invariant, all its properties.
3. `ZipFormat`. Proofs: inductive invariant, the reader's properties.
4. `Attributes`, `FrontEnds`, which has the pipeline by its contract. Proofs: three inductive
   invariants, all its properties.
5. libdeflate's writing and reading of blocks: `Huffman`, `DecodeTable`, `DeflateBlock`,
   `Inflate`, `Checksums`, `Containers`, composed by `Codec`; the decompressor against the
   abstract `AbstractInflate`. Proofs: both checksums, complete codes, precode items.
6. The bit budgets of both sides, `BitWriter` and `BitReader`. Proofs: for every machine.
7. libdeflate's choice of what to write: `MatchFinders`, `Parsers`, `NearOptimal`.

Composition is by contract where the state would be too large: `FrontEnds` uses of the pipeline
what `Sink` and `Compress` show about it (a unit is collected in order, a temporary input is
deleted only by its last reader); `Sink` uses of a unit only that it ends, normally or not;
`Compress` uses of libdeflate that a call returns a length, gives up or fails; `Codec` takes the
items of a block as given, and what `NearOptimal` shows of a parser's items is what `Codec`
assumes of them (they give the data of the block). `BitBudget` takes the cost of a block as exact,
which `Codec` checks.

## 3. The models

Each component has a module with its state and actions, a `...Properties` module (`Compress`,
`BitBudget`, `HuffmanCodes` and `Codec` have theirs in themselves) and an `MC...` module with the instances for TLC
(`BitBudget`'s constants fit in its .cfg). Where there are proofs, a `...Proofs` module has the
inductive invariant and the theorems; `Induction` has what they share. Definitions commented
"mutant" are plausible slips; no specification uses them.

TLC evaluates a parameter again at each use of it; `With` of `Loops` evaluates it once and is
used where an algorithm hands a large value on. `Loops` also has the loops: `Loop` gives the values
of all rounds as a function of the round, `Repeat` the value after at most n steps, halving the
distance, so that TLC does not recurse n deep.

### Sink, OrderedArchive

| in the code | in `Sink` |
|---|---|
| thread that calls `add` and `finish` | `ppc`, one action per blocking call: `AcquireBytes`, `AcquireCount`, `SubmitTask`, `PutItem`, `PutPoison`, `Join` |
| `add` of a batchable / of any other entry | `AddBatchable`, `AddAlone` (flush and submission are in `outbox`) |
| `finish` with its `finally` | `BeginFinish` ... `FreeHandles` |
| pool threads, `HandleHolder` | `worker`, `handle`: `StartTask`, `FinishTask`, `FailTask` |
| `byteFlight`, `countFlight`, `queue` | the same |
| `runWriter` | `wpc`: `OpenArchive`, `TakeItem`, `GetResult`, `WriteEntry`, `WriteTail`, `CloseArchive`, `WriterDies` |

An entry is its position in the list; its contents are a unit that completes or throws. Faults are
members of `Faults`: the archive cannot be created, an I/O error, an `Error` in the writer, a unit
that throws, a compressor that is not allocated, a walk that throws, an interrupt. Units start in
any order, because a new pool thread begins with the unit it was created for.

`OrderedArchive` appends the entries in order and returns only when the archive is complete; a
call that throws may leave any prefix. `ImplementsOrderedArchive` maps `ppc` to its outcome.

### Compress

One unit from its files to the archive. `pc` names the next read of the file; each read is an
action (`ReadBatched`, `CompressBatchNative`, `CompressSmall`, `BeginLarge`, `ReadMagic`, `Probe`,
`CrcOf`, `TryMmapNativeDeflate`, `DeflateToFile`, `WritePayload`), so `Rewrite` can replace the
file in between. A content is a number that is also its CRC-32; `Trait` tells its size, what the
probes say of it and what the deflaters make of it. `Replies` is the shim: a length and a CRC-32,
or neither when an array cannot be pinned or memory is short. The indices of the native call are
a set; `PlaceOf` and `EntryAt` lead from an entry to its place in the call's arrays and back.
Three actions fail: `WorkerFails` (a read), `DeflateToFileFails`, which may leave its temp file
(`Abandoned`) since nothing catches its error, and `WriterFails`, which stops before, during or
instead of a payload. `FilesDisposed` says what files may remain after each: a spill file only of a
unit that failed, a temp input only if that or nothing was streamed. What a failed unit leaves is
taken away with the spill directory (`SpillDirGone` in `FrontEnds`).

### ZipFormat

Headers and records that know where they start, with their fields modulo their width (`MAX16`,
`MAX32`; the source's 16rFFFF and 16rFFFFFFFF). `WriteEntry` is the writer's loop body,
`BeginDirectory`, `AddToCap`, `Allocate`, `PutCentral` and `PutEnd` are
`buildCentralDirectoryAndEnd` with its `int` capacity. `ZipProperties` has the reader: what a
record means by its sentinels and its ZIP64 field, and how the end of the archive leads to the
directory. It is written from the format's rules, not from the writer.

### Attributes, FrontEnds

`Attributes` has the pure computations: entry names, DOS dates, external attributes. An attribute
is a pair of 16-bit words, since TLC's integers have 32 bits. `FrontEnds` has `enumerate` (in any
order of the walk), the copy walk with `materialize` reading in pieces of any size, and the
spill directory: `ListSpillDir`, `DeleteTemp` and `DeleteSpillDir` are `deleteRecursively`, which
workers and the writer may run against.

### Huffman, HuffmanCodes, DecodeTable, HuffmanTables, DeflateTables

`Huffman` is the way from frequencies to codewords: `sort_symbols`, `build_tree`,
`compute_length_counts`, `gen_codewords`, the precode items. `DecodeTable` is `build_decode_table`
with its subtables, what it leaves unwritten being `Uninit`. `DeflateTables` has the format's
slots, bases and extra bits as both sides have them in tables of their own. `HuffmanCodes` turns
the algorithms into a state machine whose states are inputs: symbols being counted, untrusted
lengths being read, lengths with long runs; its properties compare the codes with Kraft sums and
Huffman's merging and the precode items with what they are read back as. `HuffmanTables` adds the
properties that need a decode table: which lengths are accepted (`LensJudged`), and that the tables
decode the compressor's codes and every accepted one (`TablesDecode`), with the canonical code of
RFC 1951. All of these compute with loops (`Loops`) and nothing recursive, so that they can be
proved about.

### DeflateBlock, Inflate, AbstractInflate, Checksums, Containers, Codec

`DeflateBlock` is `deflate_finish_block` and `deflate_flush_block`: the costs of the three kinds
of block, the choice, the bits, level 0 and the bound. An output stream is the list of all bits.
`Inflate` is `decompress_template.h`: a block's header with its tables is one action, then one
action per literal, match and end of block, in the fast and in the generic loop; bit buffer,
refills, tables kept between streams, copies that write too much and bytes read too far are all
in it, for the word sizes of `Machine`. `AbstractInflate` is what the format means, with positions
of bits, codeword lengths and byte-wise copies only; `Codec!Implements` maps the one to
the other. `Checksums` has the portable Adler-32 and CRC-32 next to their definitions; registers
are the sets of their one bits, and loops are recursive functions of the number of steps.
`Containers` puts zlib or gzip around a stream and takes it off. `Codec` sends the blocks of a job through
all of it, with the stream damaged and the decompressor used before.

### Machine, BitWriter, BitReader, BitBudget

The counts of bits without the bits, with the real sizes of codewords and tables. In `BitWriter`
an action is the group of `ADD_BITS` between two `FLUSH_BITS`; in `BitReader` a step is what the
fast or the generic loop does between two table lookups, with the refills that `Machine` says
the build has. `BitBudget` runs either side, or sends one match through the slots of both.

### MatchFinders, BlockSplit, Parsers, MinCostPath, NearOptimal

`MatchFinders` has the hash table with two entries, the hash chains and the binary trees, with
positions relative to a base that slides and uninitialised tables. `BlockSplit` has the
observations that end a block and the shortest match worth taking. `Parsers` are the fastest,
greedy, lazy and lazy2 loops: an action is one search and what is decided by it, a look whether to
end the block, or the end of one. `MinCostPath` is one block of the near-optimal parser, from the
match cache to the items: costs, paths, passes, the choice among them. `NearOptimal` is its outer
loop, which goes back to the last place where the block could end.

## 4. The runs

| run | instance | what it shows |
|---|---|---|
| `sink_order` | 2 pool threads, five lists, units that fail, no compressor; fairness | no compressor freed in use, nothing left behind, a failed unit ends the archive, refinement of `OrderedArchive` (order, completeness), termination; no deadlock |
| `sink_faults` | 1 pool thread, six units for four count permits, every fault | `put` never blocks; permits are conserved |
| `compress_unit` | singletons, pairs and triples over ten contents; no or a live compressor; failing maps, an archive that cannot be written, or I/O errors with files replaced | what is archived is readable and is the entry; batches change nothing; nothing fails by itself; which files are left, by a unit that is written and by one that fails |
| `zip_archive` | up to four entries, sizes and offsets one below, at and above `MAX32`, a directory as large | the reader finds everything, ZIP64 exactly where needed, the buffer suffices unless its `int` overflows |
| `front_ends` | two trees with colliding names, five forms and orders of prefixes, seven copy walks, contents of 0 to 4 units around a threshold of 2; caller, unit or writer failing | listing, contents, stamps and modes, spill directory, no failure of its own making |
| `huffman` | counts of up to six symbols with limits of 2 to 4 bits that bind; all lists of six lengths up to 4; runs at and around the borders of the precode items | codes complete, optimal and decodable; untrusted lengths judged rightly; items read back |
| `bit_budget` | both word sizes, with and without fast access; a room of 19 bytes; every way to copy a match; both ends of every offset slot | no bit lost, stores and the fast loop inside their margins, no bit used too early, matches read back |
| `codec` | eleven jobs: stored (one and two parts), static and dynamic blocks alone and behind each other, another encoder's codes of 14 bits, all gzip fields; room around the exact need; cut, padded and flipped streams; a used decompressor | the bound suffices, costs are exact, streams read back, damage is noticed, nothing outside the buffers, checksums, refinement of `AbstractInflate` |
| `lz_parse` | texts of ten words out of five, 30 to 60 bytes, window 16, eight levels over all five parsers | what each search reports and must not miss, blocks that give the text back, the cheapest path |

Bounds. For `Sink`, two threads suffice to run and to finish units out of order and to allocate or
fail to allocate a compressor each; lists of up to six entries give a batch closed by count, by
bytes, by a lone entry and by `finish`, a unit clamped to the budget, units that do not fit
the budget together and more units than count permits. One permit stands for two bytes. For
`Compress`, three entries are the fewest in which the batch's indices and the native call's
differ on both sides; each limit is met from both sides. For `ZipFormat`, four entries reach the
count limit of 3 and pass it. For `FrontEnds`, two sources are the fewest that collide; contents
are at most the threshold plus two, and a read returns one or two units, so the threshold is met
exactly, crossed inside a read and passed in steps. `MaxEntries` is the one bound in a guard.

For `huffman`, counts around 1, 1, 1, 3, 4, 7 make a tree two levels too deep, and lengths of up to
four bits with tables of two or three give subtables of one and two bits. `codec` has the real
alphabets, tables and codewords; `MaxStored` (40 for 65535), `MinBlock` (16 for 5000) and
`MAX_CHUNK_LEN` (23 for 5552) are smaller so that a stored block needs two parts, a short last
block is allowed for by the bound, and Adler-32 is reduced in between. Streams and rooms are long
enough for the fast loop of every machine to be entered and left by either margin. In `lz_parse`
the window is 16 (32768), blocks are 7 to 24 bytes, or 15 for the fastest parser (5000 to 300000,
65535), the longest match is 8 (258) and the stores and the cache have three, four and 42 places:
each text slides the window once to three times and has several blocks, ended by every one of their
conditions. Frequencies have only the literals that occur. `MakeCodes`, the parameter that stands for
`deflate_make_huffman_codes` there, gives the lengths by rounding up the entropy; `Huffman` and
`DeflateBlock` have the real ones.

`CHECK_DEADLOCK FALSE` is in the three `Sink` runs with faults that end the writer or the caller,
where the code itself stops, see below, and in `huffman` and `bit_budget`, whose states are
inputs and streams that may end anywhere. In all other runs whatever stops is in a final state: so in `codec` every stream gets an
answer, and in `lz_parse` every text is parsed to its end.

Fairness (`Sink!FairSpec`): the JVM runs every thread that can run, so weak fairness of the
producer's, of each pool thread's and of the writer's steps. Semaphores and queue have one waiter
each, so nothing stronger is needed. Faults are never forced. The other components are
sequential.

### Where the code and its texts disagree

Three are runs that TLC ends with a counterexample to what a comment or test says.

- `sink_write_fault`: an I/O error while writing ends the writer; permits of the units in the
  queue never come back and `add` blocks for ever.
- `sink_writer_error`: an `Error` in the writer is not recorded; `finish` returns normally with
  a truncated archive.
- `compress_crc`: when the native call cannot pin an array, the JDK's output is archived under
  CRC-32 0.

Others were met on the way:

- After an I/O error in the writer `finish` frees compressors that units are using (`W`:413);
  the theorem `HandlesSafe` has that fault as an exception.
- Permits go back before the unit is written (`W`:437), so what is held exceeds the budget by up
  to the unit being written, where the comments at `W`:253 and `W`:375 promise it for everything not
  yet written.
- The mmap threshold depends on the heap, so the choice of the deflater, and the bytes, do.
- A large file found to have changed by the mapped path is then archived with the size it had
  (`W`:746).
- The lazy parsers look at the end of a block only when they have taken a match, and take literals as
  long as each next match is better. Blocks can therefore exceed `MAX_BLOCK_LENGTH`, which the
  comment at `deflate_compress.c`:182-190 deduces and the assertion at :1741, compiled in only in
  debug builds, states. The bound that does hold, from the scores of the matches, is
  `LzProperties!MaxBlock`; nothing is sized by the smaller one on these levels. With a window of 64,
  blocks of 32, matches of up to 8 and the words `abcd bcdef cdefgh defghij efghijkl
  abcdefghijkl aa`, a block of 42 bytes exceeds 41.
- The branch of `matchfinder_rebase` for windows of other sizes than 32768 adds where it has to
  subtract. It is never compiled in; the model has the branch that is.

## 5. The proofs

`Induction` makes induction over data possible: the library's theorems take an operator as their
parameter, these take a set of numbers. `Induction` itself comes from cardinalities (if a number
were missing, adding one would map the members below it injectively to one less); `Recursion` says
that what is defined by its first value and a step exists and follows its definition, for values of
one type; `Increasing` that what never decreases from one index to the next never decreases. Sums and
concatenations that the properties need are therefore functions on `0..n` (`Needed`, `Totals`).

`SinkProofs` (for every list, number of threads, budget, batch limits and set of faults). From the
bare properties nothing follows inductively: that the archive is a prefix of the list depends on
what is in every buffer before it. `IInv` says so: units are runs of consecutive
positions, and pending batch, outbox, submitted units, queue, results and archive are consecutive
stretches of the list (`ProducerInv`, `QueueInv`, `WriterInv`); for every count permit that is out
there is a place in the queue (`FlightInv`); the writer reaches its end without an error only
behind the poison item (`OutcomeInv`); units the writer has passed have run (`PoolInv`).
`Invariance` proves it, action by action; then follow `TypeCorrect`, `InOrder`, `QueueHasRoom`,
`FailureStops`, and, unless an `Error` hits the writer, `ReturnsComplete` and the refinement
`Refines`; without I/O errors, `Error`s and interrupts, `HandlesSafe`. The exceptions are exactly
the faults of `sink_writer_error` and of the first disagreement without a run.

Permits are a matter of sums. `PermitsInv` says that, until an interrupt, every unit behind the
writer is in the queue, so that the permits that are out are the sum from the first unit that the
writer has not collected to the last that was submitted (`Spent`), and what `submit` is about to
use. A step adds a unit at the end or takes the first away; `TotalsAgree`, `TotalsShift` and
`MaskedTotal` say what that does to a sum. `PermitsBalance` follows for every set of faults: no
path of the accounting loses permits, in `sink_write_fault` it is only that nobody collects any more.
`AllGivenBack` is about the end of a call in which nothing but units and the allocation of compressors
fails (`Quiet`): the writer has ended behind an empty queue, so every unit has been collected, and the
handles are freed (`LeftInv`). Assumptions: those in `Sink` (types of the constants, at least
one thread, positive permit size and batch limits).

`CompressProofs` (for every table of contents, set of units, setting and limit). `IInv` has the
length of the buffers, records and archive at each step (`StageInv`); what each record says of the
content it came from (`RecordsInv`), of which one in memory is always complete and one of a file only
while nobody replaces the file; and for how long a file and a spill file have to be there
(`FilesInv`: until the last step that still opens them, and longer only if the unit fails), without
which a failing writer could not be excluded. Most steps deliver one entry's record, so
`DeliverKeeps` does their common part, as `FailingKeeps` does for those that fail. For the batch
call, `ReplyOfEntry` says that each entry is judged by the reply to its own content; it rests on
`PlaceInCall`, by cardinalities. Then follow `ThrowsOnlyOnFaults` and
`FilesEndAsTheyShould`, whatever goes wrong; `BatchesChangeNothing` unless the batch call lacks
memory; and `ArchivesFaithfully` unless a native call fails before it has a CRC-32, which is the
disagreement `compress_crc` shows. Assumptions: types of the constants, and `UnitsAssumption`, that
`add` puts directories and large files into units of their own.

`ZipProofs` (for every width of the fields, size of an `int` of at least 162, and set of entries).
`IInv` says that every header and record is the one its entry asks for and that they
lie next to each other; `RecordsCorrect`, `LocalsCorrect` and `DirectoryCorrect` decode them
arithmetically. `PlainIfItFits` needs one more fact (`OffsInv`): no header lies behind the end of
the archive, so offsets fit where the end does. `BufferSuffices` needs `BufferInv`: `cap` is what the
entries counted so far need (`Needed`), unless that has passed the largest `int`, and a record never takes more
than its entry's share, so what is written stays 162 bytes, the end records, below. Assumptions: `LimitsAssumption`,
`EntriesAssumption`, and `NamesAssumption`, that the bytes one record adds to the capacity fit an
`int` by themselves.

`BitBudgetProofs`, the compressor's side (for every machine, room and cost of a block). `WInv`: what is left of the
block's cost and the bits in the buffer fit in the room behind `next` (`CountsInv`), and the place up
to which whole words are stored leaves room for one (`FastEndInv`). So every group of `ADD_BITS`
fits behind the seven bits a flush may leave, and no store passes the end.

The decompressor's side (for every machine, length and offset of a match). That no bit is used too early
and the loop stays inside its margins follows from nothing less than the state of the
buffer at each place of the loop. `RInv` has, for each of them, what is left of the last refill
(`SinceRefill`), how many bits this iteration has consumed, which bounds the bytes it has read
(`Iteration`: they are paid for by bits consumed or still in the buffer), and how many literals it
has written. A refill gives at least `CONSUMABLE_NBITS` and may look a word beyond what it takes (`InLoop`);
`CopyMargin` bounds every kind of copy. The rest is one lemma for each step of the loop.
The module then composes the two: `Spec` implies the specification of either side, hence `BitsKept`,
`OutputBounded`, `MarginsKept`. `MatchesAgree` is about the tables (for every length and offset): a map
that repeats slots gives an index the one slot between whose totals it lies (`StepFound`, `SlotOf`);
the totals are the bases of the compressor's tables (`LengthTable`, `OffsetTable`), from offset 257 on
in steps of 128 (`FarRuns`); no slot is wider than its extra bits, and each begins where
the one before it ends, so an offset is in one slot only (`SlotFull`). Assumptions:
`WriterAssumption`, `ReaderAssumption`, `OffsetsAssumption` (types).

`FrontEndsProofs` (for every list of source trees, copy walk, spill threshold and size of a read,
and whatever throws). Three invariants, one on top of the other. `EnumInv` is about the listing:
the names seen are those of the sources done and of the files walked, every name is listed once and
its entry comes from the first source that has the name (`FromFirst`). Sorting keeps all that
(`Reordered`), and since no two names are equal the sorted list is strictly increasing:
`ListingCorrect`. That names are relative rests on `NormalizedPrefix` and `NameOfEntry`, which say
what the operators on names give for any path. `HandInv` is about what has been handed
over: while a stream is open, what was read followed by what is left is the whole of it
(`ReadInv`), and every entry handed over is the one its element of the list or of the walk asks for
(`HandedFrom`); so `StreamsMaterialized`, and `AttributesSurvive` by arithmetic on the fields.
`FilesInv` is about the spill directory, as long as the caller has not given up and the archive can
be written (`Calm`): while entries are handed over the directory is there, and so is every file that
a unit, the writer or `materialize` will still ask for (`UnitServed`, for each stage of a unit);
once the directory is being deleted every unit is written, so no file appears that
`deleteRecursively` has not listed. `SpillDirRemoved` and `NothingFailsAlone` follow. It needs of
`HandInv` that a temporary input is a large file (`TempIsLarge`): one that is compressed in memory
would stay, and a unit that deletes its input would take it from the writer. Assumptions:
`SpillAssumption`, `FaultsAssumption` and `InputsAssumption`, of which two are about the inputs: no
path or prefix has two separators in a row, and no file's path begins or ends with one.

`ChecksumsProofs` (for all data, every alignment of the buffer, and every `MAX_CHUNK_LEN` of at
least 4): `ChecksumsAreRight` says of all data what `ChecksumsAgree` says of the streams of an
instance. `LoopFacts`, from `Recursion`, makes a loop something that can be reasoned about step by
step. Adler-32: the four lanes and the sums collected from them come to what adding the bytes one
by one gives (`FourSteps`), reducing only at the end of a chunk leaves the same residues
(`LateReduction`), and chunk follows chunk until the data is used up (`AdlerIs`). That no sum reaches 2^32
on the way is a theorem of its own, `ChunkFits`, for chunks of at most 5552 bytes. CRC-32: pushing
a zero bit into the register is linear over exclusive or (`ZeroesXor`) and a mere shift as long as
only zeros leave it (`ZeroesShift`), so a register comes apart into bytes, each with a table of its own
(`FourApart`, `EightIs`); `CrcIs` puts the bytes before, in and behind the aligned words together.
Assumption: `ChunkAssumption`.

`HuffmanProofs` (for every alphabet, limit and counts of symbols, and for all lists of lengths).
`Types` is what the other two need of a state; the states are inputs, so the substance is in what
the algorithms compute of them, loop by loop.

`CodesAlwaysComplete` follows the way of `make_huffman_code`. Heapify and heapsort only swap
(`Swapped`), so `sort_symbols` lists every used symbol once, with its count (`SortLists`; nothing is
claimed there about the order, which completeness does not need). `build_tree` keeps a forest
(`ForestGrows`): a node's parent is a later one, parents never decrease along the array, and none has
more than two children; in the end every node but the last has one of the n - 1 inner nodes as
parent, so each has exactly two (`TwoChildren`). `compute_length_counts` goes from the root down.
Its invariant (`NodeCounted`) is that the codewords counted so far fill the codespace exactly, that
there are as many as the nodes taken so far call for, and that for the deepest level there is still a
codeword to split: where the limit binds, the loop that looks for a shorter length always finds one,
because not all codewords can have the longest length while their number is below 2^max
(`AllLongest`, `LimitExists`). Splitting keeps the sum (`CodewordSplit`). `LensAssigned`: handing
the counts out to the sorted symbols gives each length as often as it was counted. Fewer than two
used symbols are `TwoComplete`. Assumption: `CodesAssumption`: an alphabet has at least three symbols
(the code's have 19, 32 and 288) and at most 2^max, so that a code within the limit exists at all.

`ItemsAlwaysReadBack`: an item `Stands` for the lengths behind a position, and a list of items
`Writes` a stretch of the list if positions exist that lead through it (`Marks`); stretches are
joined (`WritesBoth`), a run is written whatever its length, and each round of the loop takes the
longest run there is, so that the last round reaches the end. Reading back follows the same positions.
Assumption: `LensAssumption`, that lengths are at most 15.

`LensAlwaysJudged`: the codespace is counted up to the longest length in use only (`LongestUsed`).
Doubling and adding gives the sum of the codewords' shares (`CodespaceShares`), and behind that
length only doubles, so it is full there exactly if it is full at the limit (`CodespaceFull`). The
two exceptions are told by the same number: 0 means no codeword (`CodespaceEmpty`), and half of the
codespace with a codeword of one bit means no other, since any other would take more
(`CodespaceBusy`). `LensAreCounted` and the lemmas behind it go from the counts to the symbols.
Assumption: `LensAssumption`, that a codeword may have one bit at least.

Only model-checked:

- liveness and deadlock (fairness and `ENABLED` are beyond the prover);
- `CodesOptimal`: that merging in place costs what Huffman's merging costs takes an exchange
  argument over all trees, and an induction over a set of nodes that changes in both its size and
  its weights;
- `TablesDecode`: what filling the table with its doublings and subtables leads to takes an
  invariant about bit-reversed canonical codewords for each entry, which is not written yet;
- the refinement of `AbstractInflate`, `BoundSuffices`, `ReadsBack`, `DamageNoticed`, `InBounds`
  and `ChecksumsAgree` of `Codec` (for the checksums themselves see above), and the searches and
  blocks of `LzProperties`: their modules compute with `RECURSIVE` operators, which take
  tlapm's SMT backend away. To prove about them is to write these as loops first, as `Huffman` has
  been, and then to use `Induction`.

## 6. Not modelled

- CPU dispatch and vector code: without a model of the instructions nothing would be checked but
  the dispatch, where threads may race to store the same pointer.
- `LibdeflateNative`: one read of the system properties at class initialisation; its outcome is
  the parameter `NativeAvailable`.
- A file changing *during* one native call: a call is one step.
- In `Compress`, contents and signatures of compressed formats; in `ZipFormat`, versions, flags and
  fixed zero fields of the headers and names of more than 65535 bytes; the wording of errors.
- libdeflate's levels as numbers: the parameters they select are those of the instances. How
  codes are made inside `lz_parse` is a parameter, see above.
- Allocation of compressors and decompressors; garbage collection of `Deflater`s; Gradle's own
  up-to-date checks, the task and plugin classes.
- Entries of the spill directory that cannot be listed while it is deleted.
