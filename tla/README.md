# A TLA+ model of XADMaster

XADMaster reads archives of about sixty formats and extracts them. This
directory holds TLA+ modules for the part of it that is the same for every
format (the handles data is read through, the bit buffer above them, the base
class of the parsers, and the three layers that extract) and for two of the
decoders written in C: the memory of the PPMd models and the WinZip JPEG
decompressor. TLC checks them on small instances, and TLAPS proves some of what
it checks for every instance.

`PROJECT.json` lists the components, the runs, for every definition the lines
it stands for, the hazards and the theorems. Line numbers are those of the
sources in `src/`.

## The system

| Component | State it keeps | Operations | Talks to |
|---|---|---|---|
| `CSHandle` and its primitive subclasses | a position, left-over bits | reads, seeks, end of file, copying | the file, or a parent handle |
| `CSStreamHandle`, `CSBlockStreamHandle`, `CSByteStreamHandle` | position, end flag, one byte of lookahead, the current block | the same, over a decoder that only runs forwards | a decompressor, by `produceBlockAtOffset:` |
| address-mapping handles (`CSSubHandle`, `CSSegmentedHandle`, `XADSkipHandle`, `XADBlockHandle`, ...) | an offset map | the same, at translated offsets | a parent handle, whose position they share |
| `CSInputBuffer` | a byte window and a bit buffer | get, peek, skip bits | a handle; used by decompressors |
| PPMd sub-allocators | free lists by size, the text area, the gap between contexts and tables | allocate, expand, shrink, free, move, glue | the PPMd models, which keep their trees there |
| WinZip JPEG decompressor | the slice of decoded blocks, the bit writer, the restart markers | read a bundle, read a slice, encode a buffer | `XADWinZipJPEGHandle` or `RawDecoder.c` |
| other decompressors, decryptors, checksum handles | dictionaries, models, sums | one block or byte after another | an input handle |
| `XADArchiveParser` | the current entry number, the current solid run, the cached solid handle, a password, a stop latch | `parse`, `addEntryWithDictionary:`, `handleForEntryWithDictionary:`, `setPassword:` | a format parser (a subclass), a delegate |
| format parsers | where they are in the headers | `parse`, making handles | the base class |
| `XADUnarchiver` | deferred links, deferred directories, a stop latch | `parseAndUnarchive`, `extractEntryWithDictionary:`, `finishExtractions` | a parser, a delegate, the platform |
| `XADSimpleUnarchiver` | answers to collisions (`renames`), destinations, the solo test | `parse`, `unarchive` | one or two `XADUnarchiver`s, a delegate, the platform |
| `XADArchive` | the entries with their forks paired, the last error | `extractTo:`, `extractEntry:`, immediate extraction | a parser, an `XADUnarchiver`, a delegate |
| platform layer | the disk | make, move, remove, attributes | the operating system |
| `unar`, `lsar` | options | | `XADSimpleUnarchiver`, `XADArchiveParser` |

Everything runs in the caller's thread; nothing in the library is concurrent.
What is hard in it is *re-entrance* (a delegate called in the middle of a
parser's loop opens entries, sets passwords, asks to stop), *failure half way*
(almost every call can raise; links, directories and moves are done in several
steps), *order* (what must be put off until the end, what a later entry does to
an earlier one), and *state that survives a call* (lookahead bytes, end flags,
cached handles, remembered answers).

What makes each component correct:

* **handles**: a client cannot tell a handle from a plain file: reads deliver
  the bytes at the position, seeks arrive, the end is reported at the end, and
  every call returns;
* **parser core**: the links between entries describe the solid runs; an entry
  is read from its own stream, decrypted with the password in force; the
  parser's position survives the delegate; a stop is final;
* **unarchiver**: what is reported as extracted is as complete as the archive
  lets one tell; what was put off is done, once, after everything it depends on;
  a stop is not a success;
* **simple unarchiver**: no old file is replaced without consent, no new file
  disappears without an error, directories stay together, nothing temporary is
  left;
* **old API**: every fork found is in one entry; success means the forks were
  written or left out by the client, and a failure says why;
* **address maps and bit buffers**: every bit handed out is the bit of the
  mapped contents at the client's place, and the end is where they end, however
  reads, seeks and refills are mixed;
* **sub-allocators**: at every moment each unit belongs to one owner, what a
  model keeps is where it looks for it, and the stamps gluing relies on are true;
* **JPEG decompressor**: the re-coded scan is the original one to the byte, for
  every way it is cut into slices and buffers.

## The modules

| Module | What it is |
|---|---|
| `ByteFile` | abstract: what a client of a handle may rely on |
| `BlockStream` | `CSBlockStreamHandle` with `CSStreamHandle`; implements `ByteFile` |
| `BlockStream_proofs` | theorems about `BlockStream` |
| `BlockStreamFile_proofs` | the theorem that `BlockStream` implements `ByteFile` |
| `ArchiveParser` | `XADArchiveParser`, between a format parser and a delegate |
| `ArchiveParser_proofs` | theorems about `ArchiveParser` |
| `Unarchiver` | `XADUnarchiver`, one archive |
| `Unarchiver_proofs` | theorems about `Unarchiver` |
| `SimpleUnarchiver` | `XADSimpleUnarchiver`, one archive or sub-archive |
| `SimpleUnarchiver_proofs` | theorems about `SimpleUnarchiver` |
| `Archive` | `XADArchive`, an archive of either kind: the client's or one inside it |
| `Archive_proofs` | theorems about `Archive` |
| `MappedHandle` | operators: `CSSubHandle`, `XADBlockHandle`, `XADPaddedBlockHandle`, `XADSkipHandle` over a file, `CSMultiHandle` over several, and the contents each stands for |
| `InputBuffer` | `CSInputBuffer` over each of those handles, or over memory |
| `InputBuffer_proofs` | theorems about the handles of `MappedHandle` and about `InputBuffer` |
| `SubAllocator` | the four allocators in `PPMd/`, driven as the models drive them |
| `WinZipJPEG` | `WinZipJPEG/Decompressor.c` and its two callers |
| `MC...` | the instances TLC checks |

Each module leaves the layer below it to the environment, with the outcomes the
layer below can have: `BlockStream` chooses what the decoder does,
`ArchiveParser` what the format parser finds and the delegate does, `Unarchiver`
what is read and what fails, `SimpleUnarchiver` what becomes of each entry, `Archive` what writing a fork or
extracting an inner archive comes to.

### ByteFile and BlockStream

`ByteFile` has a size, a position and the last reply. The byte at position *p*
is *p*, so a byte from the wrong place shows. Its two flags are part of the
promise, because callers can observe both: `short` (a seek past the end was
refused; until a rewind the file may look exhausted although its position is
not the end, since `endofstream` is set and `streampos` is not moved) and
`broken` (the decoder raised; nothing is promised until a rewind).

`BlockStream` has the instance variables of the two classes under their own
names, a `decoder` counter for what the decompressor will produce next, and `pc`
for the loop a call is in. The loops of `streamAtMost:toBuffer:` and
`seekToFileOffset:` take one step per block; other calls are one step. The
decoder may announce its end with the last block or with an empty one, and may
raise at every block.

`File!FileSpec` under the refinement mapping is the property `IsAFile`. During a
call the mapping shows the position the client last saw, so a call is one step
of `ByteFile` however many blocks it takes.

### ArchiveParser

The actions are `AddEntry` and `DiscardEntry` (all of
`addEntryWithDictionary:retainPosition:` up to the delegate), the two ways the
delegate returns, the two ways the parse ends, the five outcomes of
`subHandleFromSolidStreamForEntryWithDictionary:`, and `setPassword:`. While the
delegate is called back (`scan = "callback"`), and when the parse is over, the
client may open entries and set passwords in any order. `srcpos` abstracts the
position of the archive's handle to "before header *i*" or "elsewhere".

`OffsetInOwnStream` is false of the code: see the findings. `FromOwnStream` is
the same statement without the entries opened while `poisoned`.

### Unarchiver

A run goes through `pc`: `parse` finds the next entry and asks whether to stop;
`extract` makes the directory the entry goes into, tries embedded archives, and
then branches by kind in `plain`; `copy` is the loop of
`runExtractorWithDictionary:`; `update` sets attributes or defers them; `links`,
`dirs` and `checksum` are `finishExtractions` and what follows it. The disk maps
every path to what is there, of which entry, and whether it has the attributes
the archive gives it; putting something into a directory takes that away.
`Variant` selects the method with an `XADError` result or the one with an
`NSError`, which are separate code and differ. `finishExtractions` sorts the
deferred directories, the deeper ones first, and the directories of one depth
before the resource forks of directories (`DeepestFirst`).

`done` counts the reads the handle has answered and `written` those that are in
the file; the verdict of `CopyEnd` is on the former, what a report says of the
contents on the latter: `partial` if the file has not the entry's length, `full`
if it has it but something in it is damaged, else `complete`.
`CompleteIfReported` says of an entry reported without an error that it has its
length if its dictionary has a size, and is complete if its handle has a
checksum. A resource fork without a size is never read (XADUnarchiver.m:728-757)
and the property excepts it from the second; of an entry with neither size nor
checksum nothing is promised, and it can lose data unnoticed.

`SealedDirectoriesRest` says that nothing changes in a directory that has got
the attributes of the archive. It has an exception, `SealedEarly`, because the
code has one: a fork that is ignored, or a link the delegate does not want, makes
nothing but still has its attributes set (XADUnarchiver.m:240, 643, 292-295). If a
directory of another entry has the same path, that directory gets attributes, which
may forbid writing, before later entries are written into it. The run has such an
archive (a directory, an ignored fork at its path, a file in it), and without the
exception TLC refutes the property there.

### SimpleUnarchiver

A run goes through `begin` (destinations), `next` and `walk` (one component of
an entry's path a step, through `renames`), `extract`, and at the end `solo`,
`place`, `replace` and `move`, the recursive move with one item a step. `sub`
says whether the entries come from an archive in the archive; then the solo test
runs while entries are found, as in the code. `agreed` records the existing
paths a delegate has allowed to be replaced.

A name is its text, the number `_findUniquePathForOriginalPath:` adds, and
whether it is a separate fork file. Texts come from the constant `Texts`, which holds the names the
unarchiver makes up itself; the number is not bounded: the unique path has the
least number that is not taken. An archive has at least one entry, no path is
empty or begins with the temporary name, and the disk is a finite tree
(`ArchivesAssumption`, `DisksAssumption`). The exceptions `_checkPath:` makes for forks
in extended attributes and for HFV fork files are not modelled. `raised` is what
Foundation does with a path component that is nil.

### Archive

A behaviour is one `XADArchive`. In `parse` the parser hands over dictionaries,
and `Place` pairs the forks of a name into entries through `namedict`. The
client's archive is then extracted entry by entry (`next`); an archive inside
another is extracted while it is parsed (`immediate`), and `Finished` is where
the two ways differ. An entry passes `archive` (extracted as an archive of its
own), `name`, `directory`, `collide` and `write`, one fork a step; the client
may be asked at each of them. `checksum` and `settle` end the extraction.

Archives nest to any depth, so an inner one is not run but has one of the
outcomes in `SubOutcomes`; `ReturnsAsAssumed` checks that an archive extracted
immediately returns nothing else, which closes the argument by induction over
the depth. `placed`, `unpacked`, `declined` and `agreed` record what became of
each dictionary and what the client consented to, `unexplained` that a failure
came without an error, and `finishfailed` that `finishExtractions` failed.

Directories have resource forks too (XADMacArchiveParser.m:258, 269, 328-329). An
entry is a directory if its data fork says so, or, if it has none, its resource
fork (`IsDir`); of the resource fork of a directory nothing is written but
attributes (`DirectoryFork`, XADUnarchiver.m:243-246), which wait in `deferred`
like those of the directory.

`CleanSuccess` says what a success is worth after anything that failed and was
retried or skipped: every fork that was found is in its place, or its entry was
extracted as an archive, or the client has left it out or given up its place. If
`lasterror` is none besides, everything in the archive was found. There is one
thing a success does not say: `updateAttributesForDeferredDirectories` drops the
error of `finishExtractions` (XADArchive.m:933, 1136-1139), so that directories may be left
without their attributes. The property has that exception (`finishfailed`) and no
other for what is deferred.

Left out: accessors, reading an entry's contents without extracting it, the
initialisers for data and sub-archives of the client, extracting a single entry
(the same steps without the loop, but `extractContentsOfEntry:toPath:`, which
does not look for a collision), `clearLastError` by the client, and links,
which are put off like the attributes of directories. Forks are as on macOS,
where the AppleDouble style is not used; elsewhere `XADArchive` passes the same
path for both forks (XADArchive.m:1129). A resource fork whose name is that of a
directory on the disk is dropped without an error (XADArchive.m:1095), which
`CleanSuccess` therefore exempts. The client does not rename to an empty name.

### MappedHandle and InputBuffer

A byte of the file is its number, so a byte from the wrong place shows. Each
method of a handle is an operator from the state before to the state after, the
bytes read and whether it raised. A loop of the code is a round of it (`BlockRound`,
`PaddedRound`, `SkipRound`, `MultiRound`, `Halve`) taken as often as it can be
needed (`After`); a round that finds the loop over changes nothing.
`Contents(kind)` says directly which bytes a handle presents; nothing in the
methods uses it.

`InputBuffer` puts a `CSInputBuffer` on one of the handles (or on a block of
memory). The 32-bit word is a function from the weight of a bit to the number
of the stream bit it holds, so that a bit in the wrong place, two in one place,
or a zero shifted in is seen when it is handed out. One action is one call of
the interface, with the refills it causes; `pos` is where the client thinks it
is, and `last` what it was told. Bits are read in either order, but a behaviour
keeps to one, as the clients do. `FillWord` adds the bits of all bytes to `numbits`
at once, where the loop for the little-endian order (CSInputBuffer.m:250) counts
them byte by byte; nothing looks at the word in between.

What the callers guarantee and the model assumes: the parent delivers what is
asked for, except at its end; byte calls are made with no bits left over;
strings of more than 25 bits are read with `CSInputNextLongBitString`;
`CSInputNextUIntXX`, which has no check for the end, is called inside the stream; a
memory buffer is not sought in, because flushing would lose it; gaps are added to
an `XADSkipHandle` from front to back (XADALZipParser.m:97,
XADStuffItSplitParser.m:117), for the loop at XADSkipHandle.m:156 counts the wrong
way and would not end otherwise; and the buffer is larger than the lookahead of
four bytes. The proofs found four more, now named in the modules: the blocks of a
chain are all in the file and of more than one byte (seeking to 0 in blocks of one
byte reads `blockoffsets[-1]`, XADBlockHandle.m:105); a chain has no cycle, which
`setBlockChain:` would follow forever; a skip is of at least one bit; and a buffer is
set up where the handle can stand. A `CSSubHandle` does accept seeks up to its start offset beyond its
end; the model has them, and the buffer then is at the end.

### SubAllocator

The heap is counted in units. A unit holds what the properties tell apart: the
data of an owner (`Data(id, k)`, so that data at the wrong place shows), a stamp
with its `NU`, or nothing that matters. The four variants share their operators
where the code is the same and differ where it differs: the stamp in a listed
block (variant I), gluing (H and I), the blocks held back (G), the text area (H
and I). `MaxUnits`, the increments of the sizes and `GlueReset` are constants.
The actions are the calls the models make: contexts and tables are allocated,
tables grow, shrink and go, symbols are stored in the text area and taken back;
when memory runs out the model restarts, or in variant I is restored by
`CutOffContext` (drop, move up, expand the text area until a quarter is free) or
`RemoveBinConts` (`"freeze"`). Which of these `RestoreModel` does is a choice
here, because it depends on the model's statistics. A restart begins with the
memory as the last run left it, as the code does; stale stamps in it are the
point of `StampsTrue`.

Three facts about the models are assumed: what a model stores never reads as a
stamp (its frequencies stay small), nor does the unit behind the heap that
gluing looks at; the root's table is never shrunk or freed (rescaling after an
escape rounds up, and order 0 is not cut), without which `ExpandTextArea` could
read a stale stamp at `UnitsStart`; the text area is filled in whole units.

### WinZipJPEG

A file is a few bundles with a scan, then one with the end of the image.
`ReadNextSlice` begins a slice and `DecodeBlock` decodes the next of its blocks
over those of the slice before; a block in the buffer is its place in the image,
and `neighbours` records what each was decoded with. `EncodeToBuffer` begins a
call of `EncodeWinZipJPEGBlocksToBuffer`; `EncodeStep` is once round its loop,
which writes a stuffed zero, a byte, a marker, padding, or the next coefficient,
whichever is due; `ReturnBuffer` returns. `TheScan` says directly what the bytes
of a scan are. The Huffman codes are those of the instance; what the arithmetic
decoder yields is the image, chosen at the start.

Excluded by assumption: an image of no rows (`SliceHeight` divides by it,
Decompressor.c:235).

A slice may be a single row of blocks of a component: the header accepts a slice
value of 1, and with more than 64 MCUs in a row that is one row of MCUs
(Decompressor.c:229-236), of one row of blocks each if the vertical factor is 1.
Then `northblock` (Decompressor.c:390) is `currblock`, and the block above is not
in the buffer any more when it is needed: `DecodeBlock` sets the block's `eob`
and clears the rest of it first (445-448). The model does as the code does and
records such a neighbour as `"begun"`; `NeighboursAreAdjacent` states it
(`OneBlockRow`) as the exception to the block above being the one above. It is a
defect of the code unless the encoder makes the same mistake, which only a file of
WinZip's with such slices could tell. What the arithmetic decoder yields with
whatever neighbours it is given is the image, so that `ScanIsReproduced` is
independent of it.

## Runs

| Run | Checks | Bounds |
|---|---|---|
| `block_stream` | types; bytes in order; end only at the end; refinement of `ByteFile`; every call returns | 3 blocks of 2, 1 and 2 bytes, length 4 (inside a block) or 7 (beyond the end), reads of up to 4 |
| `archive_parser` | types; chains; streams; password; position; stop | 5 entries, runs *a a - a b*, *b* encrypted, 2 passwords, 3 handles, 1 failure |
| `unarchiver` | types; completeness; deferred work; stop; sealed directories; end | 9 archives of up to 4 entries, 2 setbacks |
| `simple_unarchiver` | types; old files; confinement; loss; directories; temporaries; end | 6 archives of up to 3 entries, 4 disks, all policies and settings, 1 setback |
| `archive` | types; pairing of forks; success; what is returned; errors; old files; end | 8 archives of up to 4 dictionaries, 2 old files, 2 new names, 3 setbacks, both kinds, with and without a delegate |
| `sub_allocator` | types; data kept; every unit accounted for; stamps | the four variants, blocks of 1 and 3 units, a heap of 10 units (3 for text), 3 contexts, 3 tables, gluing every 2 failures |
| `input_buffer` | types; reads are the stream; the end | 11 bytes, a buffer of 6, 6 handles and memory, both orders, codes of 1 to 32 bits, three gaps, a chain of three blocks, four segments (one empty) |
| `winzip_jpeg` | the scan is reproduced; neighbours | 9 layouts of up to 10 MCUs, two with slices of one row of blocks, all their images of 1 to 3 kinds of block, two scans, buffers of 1, 2 and 5 bytes |
| `stale_solid_handle`, `archive_twice`, `solo_with_fork`, `empty_block` | one violated property each | as the run of the same module |

The bounds are chosen for the cases. Blocks: a single-byte block can be
all lookahead; a length inside a block and one past the end exercise both ends.
Entries: a stream that begins, continues, is interrupted and begins again needs
four entries, another stream a fifth. Archives for the unarchivers are those in
which entries get in each other's way: a file where a directory should be, a
link inside a directory with attributes, two entries at one path, a fork before
its file, and for the old interface forks in either order and two files of one
name, and resource forks of directories with and without the directory. One to
three setbacks suffice because after a failure either the run is
over or the failed entry is out of the way. Heap: a table of 3 units does not fit
in what shrinking to 1 leaves in one piece, so blocks are split and re-listed in
parts; 10 units are full after a few calls, so that gluing, restarting and
restoring happen in almost every behaviour. Buffer: 6 bytes against 11 need two refills,
one with bytes left and one without; the borders of the handles fall inside it.
JPEG: five coefficients with runs of one stand for 64 with runs of 15, ten
markers exhaust their eight numbers, and buffers of 1 byte end everywhere a
buffer can end. Every action is taken in some run.
`CHECK_DEADLOCK FALSE` is set where a run of the code ends and the model stops.

### Fairness

The code is sequential. A call that has begun is continued by its thread, which
is weak fairness of the steps of a loop (`WF_vars(Loop)`), never of the client's
choice to call. In `Unarchiver` fairness is of `Undisturbed` only: no error, no
refusal and no stop has to happen for a run to end. In `SimpleUnarchiver` it is
of `Next`, all of whose steps lead towards the end; so it is in `Archive`, where
retries and renames count as setbacks, because a client that retries forever
does keep the code from returning. Delegates, decoders and the
platform are assumed to return.

### What the code does otherwise than it says

* `stale_solid_handle`: `currsolidobj` is set before the handle is made
  (XADArchiveParser.m:985). If making it raises, the next entry of that stream
  is read from the previous stream's handle.
* `archive_twice`: the NSError variant extracts an embedded archive and then
  writes the archive over the result (XADUnarchiver.m:365), where the comment
  says everything else is skipped.
* `solo_with_fork`: a file with a separate resource-fork file looks like a
  single item, has no `soloItem`, and a nil path component is used
  (XADSimpleUnarchiver.m:579).
* `empty_block`: `XADWinZipJPEGHandle` answers an empty block when what is left of
  a slice codes to less than a byte; `CSBlockStreamHandle` takes that for the end,
  and the JPEG is cut short (XADWinZipJPEGHandle.m:96).

Stated in a property as an exception to it, and reached in its run:

* attributes of a directory are set early by an ignored fork or an unwanted link
  at its path (`SealedDirectoriesRest`, XADUnarchiver.m:240, 643, 292-295);
* the error of `finishExtractions` is dropped, so that a success may leave
  directories without attributes (`CleanSuccess`, XADArchive.m:933, 1136-1139);
* in slices of one row of blocks a block is decoded with itself as the block above
  (`NeighboursAreAdjacent`, Decompressor.c:229-236, 390, 445-448).

Also seen while modelling, and not the subject of a run:

* after merging into an existing enclosing directory the one at the unique path
  is left (XADSimpleUnarchiver.m:640);
* an inner archive stops its own parser after a failure, which makes `lasterror`
  `XADErrorBreak` although no user has stopped anything (XADArchive.m:310); the
  else at XADArchive.m:401 causes it even after a success;
* an entry that no parser recognises is to be extracted as a regular file, which
  is done for `XADErrorDataFormat`; but the initialiser for an inner archive
  reports `XADErrorSubArchive` (XADArchive.m:226);
* a scan of one component of a subsampled image is read in the order of MCUs,
  while JPEG has its blocks in rows (Decompressor.c:380);
* at the end of a scan that is on a byte border already, `PushBitString` shifts a
  zero by 64, which no build gives a visible result (Decompressor.c:1014).

Limits of what is promised that the modules make explicit: an entry without a
size or a checksum (and a fork without a size, which AppleDouble output drops
silently) can lose data unnoticed (`CompleteIfReported`); after the decoder raised, a handle's bytes
are unreliable until it is rewound; a deferred link that fails keeps the rest of
the deferred work from being done, which is reported.

## Proofs

`BlockStream_proofs` proves for every number of blocks, every division into
blocks and every stream length:

* `TypeCorrect`: `Spec => []TypeOK`;
* `ReadsInOrder`: `Spec => []BytesInOrder`;
* `EndHonest`: `Spec => []EndIsTheEnd`.

None of these is inductive. `Inductive` proves `IInv`, which adds what ties the
variables together: the block in memory is the one before `decoder` and starts
at its place unless the decoder raised; between calls the position is in the
block, at its end, or one behind it when a byte is looked ahead; a read in
progress stands at the position it began plus what it has copied. The proofs
have a step per action and a part per group of conjuncts.

The assumptions are those of the module: blocks are not empty and follow each
other.

`BlockStreamFile_proofs` proves the refinement: `ImplementsFile`,
`Spec => IsAFile`. Every step of the loops over blocks is a stutter of
`ByteFile`, and the step that returns from a call is the operation of the file.
`FileInductive` adds `MemoryInv` to `IInv`: what a call remembers of the handle
its client last saw (a seek may have rewound it, but only for a target within the
data). Fairness is no part of `IsAFile`.

`ArchiveParser_proofs` proves for every number of entries, every division of
them into solid streams, every set of encrypted streams and passwords, and
without regard to how many handles are made or opens raise:

* `TypeCorrect`: `Spec => []TypeOK`. `TypeOK` is inductive; the proof takes its
  parts (the scan, the chain keys, the entries, the handles) one by one.
* `ChainsDescribeRuns`: `Spec => []ChainsFollowRuns`. What the dictionaries say
  is not enough to know what the next one will: `ChainInv` adds `RunEnd`, that
  `parsersolidobj`, `prevsoliddict` and `firstsoliddict` describe the last
  entry recorded. `AddEntryShape` says once what the two assignments of
  `addEntryWithDictionary:` leave in every entry, old and new; a chain is then
  followed one entry at a time.
* `EntriesFromOwnStream`: `Spec => []FromOwnStream`. `HandleInv` adds
  `HandleFits`, that the cached handle is of the stream cached with it unless
  making it has raised. Without the exception the statement is false:
  `stale_solid_handle` shows it.
* `HandlesUsePassword`: `Spec => []PasswordInForce`, inductive as it stands.
* `HeadersInPlace`: `Spec => []HeaderInPlace`, from `PositionInv`, which adds
  that the position saved for the length of the callback is the next header's.
* `StopsAreFinal`: `Spec => StopIsFinal`, from `NotStoppedAndDone`.

They rest on `EntriesAssumption` (the markers of "no object", "the source" and
"no password" are none of the objects and passwords) and `LimitsAssumption`
(the two bounds are numbers; nothing depends on which).

`Unarchiver_proofs` proves for every set of archives of any length, every set of
paths of one or two names, both variants of `extractEntryWithDictionary:` and any
number of setbacks:

* `TypeCorrect`, `ReportsAreTrue` (`CompleteIfReported`), `NothingIsLeft`
  (`NothingLeftDeferred`) and `StopIsHeard` (`StopIsReported`), all from
  `Inductive`. `IInv` adds what the state remembers of work that is still to be
  done: what was read has been written, and what passed the checks at the end of a
  copy has the length and the soundness they can tell (`CopyInv`; `TruthfulReport`
  then takes that to the report), every placeholder is on the list of deferred links until its link is made
  (`LinksInv`), every directory reported, and every fork of one, is on the list of deferred directories
  until it has its attributes (`DirsInv`). The sort of the deferred directories
  rearranges the list (`Rearranged`, `Orders`): nothing else about it is used.
* `ArchiveInsteadOfFileXADError`: in the variant with an `XADError` result an
  embedded archive is not written over what was extracted from it. It is the
  property that `archive_twice` refutes for the other variant.

`SimpleUnarchiver_proofs` proves for every set of names, every archive with at
least one entry whose paths are not empty, every disk that is a finite tree, all
policies and settings and any number of setbacks:

* `TypeCorrect`. A path on the disk is any sequence of names; that everything has
  a directory around it (`Closed`) needs to know of every answer in `renames`
  which path of the archive it is for, and that the directories around it are
  answers too (`TreeInv`).
* `FoldersWhole` (`FoldersStayWhole`): follows from `TreeInv`, whose `Chained`
  says that an answer extends the answer for the directory around it.
* `TemporaryGone` (`NoTemporaryLeft`): `TemporaryInv` says in which states
  something may have the temporary name.
* `OldFilesSafe` (`OldFilesSurvive`): `OldInv` adds that no answer is the path of
  a protected file, and that no job that has been checked would overwrite one.
* `OutsideSafe` (`OutsideUntouched`): from `FreshInv`, that the directory picked for
  a sub-archive is not on the disk the run began with.
* `FilesArrive` (`NothingLost`): `CollectInv` says that what was extracted is where
  `written` has it; `NewInv`, that in a new directory no name had to be changed, so
  that different entries are in different places; `TransitInv`, that during the
  moves every file has a job that will move it or has arrived, and `Aimed`, that
  every job moves something to the place of the same name below the destination.

That the search of `_findUniquePathForOriginalPath:` ends with a free path is
proved from the finiteness of the disk (`CHOOSE` of a number that is not taken),
not assumed. The names a directory can be made under (`"enclosing"`, the temporary
one) are among the texts, and no path of an archive or of the disk begins with the
temporary name, which is made unique by the process id.

`Archive_proofs` proves for every set of archives, names, old files and any number
of setbacks:

* `TypeCorrect`. `TypeInv` says of every entry that it has a fork, and that a
  fork is where its dictionary says; that the entry at work exists; and that
  `todo` is what is due of it. Its parts are proved one by one.
* `PairedAsFound` (`ForksPaired`): `NameInv` adds that a dictionary is in one
  entry, an entry is of one name, and the entry a name stands for holds the latest
  dictionary of that name. Then a dictionary that is found is paired exactly with
  the latest one, and exactly if the slot is free (`Completing`); what was paired
  before stays so (`TogetherStays`). `PairInv` also says that there is a latest
  dictionary before each, so that the `CHOOSE` in `ForksPaired` has one.
* `FailuresExplained` (`FailureHasReason`) and `AssumptionMet`
  (`ReturnsAsAssumed`), from `ReasonInv`: an error that is a break is only left by
  an archive that has failed; before the first entry there is no error. `WorkEffect`
  says once what any action of an entry at work comes to. With `AssumptionMet` an
  archive extracted immediately keeps what is assumed of those inside it,
  `SubOutcomes`, which is the step of the induction over the nesting; the
  induction is the reader's.
* `OldFilesKept` (`OldFilesSurvive`): `AgreedInv` adds that forks are written to
  the path of an old file only if the client has agreed to that path.
* `SuccessIsClean` (`CleanSuccess`): as long as the extraction may still be a success
  (`Alive`), whatever is in `lasterror`, every fork found is waiting for its turn,
  at work, or settled (`ForkInv`). A failure either ends that (`FailureKills`) or
  the client has the entry retried or skipped, and then its forks are at work
  again or declined; a fork that is settled stays so whatever is written later,
  or is being written again, for which `NodeInv` says what a directory on the disk
  can be and `OneEntry` that only its own entry takes a fork up. Extraction without
  an error goes beyond the parser only when all is found (`FoundInv`).

They rest on `ArchivesAssumption`: archives are sequences of dictionaries, the old
files have paths, and the client does not rename to nothing.

`WinZipJPEG_proofs` proves for every size of image, sampling, slice, every image
and every size of the caller's buffer:

* `NeighboursFound` (`NeighboursAreAdjacent`): `DecodeInv` says which places of the
  buffer are of the slice being decoded (those before the next block) and that
  the last row is still that of the slice before, as long as the first row is at
  work. The arithmetic of places (`SplitUnique`, `SplitInRange`) says that two
  blocks never have one place. Where a slice is one row of blocks, the place of the
  block above is that of the block itself, by the same arithmetic, which is the
  exception in the property.
* `ScanReproduced` (`ScanIsReproduced`): `ScanInv` adds where the writer is (which
  restart interval, MCU, component, block and coefficient) and what that means for
  the bits coded so far (`AtBlock`, `InBlock`): they are the code of the blocks
  before this one, and of the block up to this coefficient. `Written` relates them
  to what has been delivered: whole bytes stuffed with zeros, less the zero still
  owed, with the bits that wait being the rest. An interval is in one of four
  stages: being coded (`Coding`), padded with its marker owed (`Due`), the marker
  half written (`HalfMarked`), or the last one padded (`Closing`). Each action keeps
  its stage or goes to the next; that nothing is missed where a buffer or a slice
  ends is the stages `Due` and `HalfMarked` and the owed zero. The lemmas about the
  operators of the scan (`FlattenMore`, `BytesMore`, `CodedACsMore`, `NextPart`,
  `CodedListMore`, `DoneMore`) say how each grows by one step of the coder. This is
  induction over data without the induction theorems: a sequence flattened is the
  last value of a function (`FlattenIsFlattening`), the function exists and is
  unique by the least number at which it would not be (`LeastNumber`).

`InputBuffer_proofs` proves for every file, range, chain of blocks, padding, list of
gaps and list of segments, every size of the buffer, both orders of bits, and all
lengths and offsets a client may ask for:

* `Promises`: each of the handles keeps `Promise`, which is the contract of a
  handle written down: its contents are bytes; from a state it can be in (`Good`) a
  read hands out what stands at its offset, as much as is asked for or all there is,
  and moves the offset by that; a seek moves to the offset asked for, or is refused
  only beyond the contents. `BlockPromise`, `PaddedPromise`, `SkipPromise` and
  `MultiPromise` are the four whose loops have to be followed. `LoopEnds` says that a
  loop is over once what it has left to do has shrunk to nothing; what a round does
  to the bytes so far is a lemma for each (for example `SkipRoundKeeps`).
  For the handles that pick bytes out (a range, padding, gaps) `Contents` is defined
  by counting: `InOrderIs` finds it from a map that is one to one and keeps the
  order, so that the arithmetic of offsets need only give such a map. The binary
  search of `XADSkipHandle` ends in the region of the offset (`RegionFound`).
* `TypesOK` (`TypeOK`), `StreamRead` (`ReadsAreTheStream`) and `EndFound`
  (`EndIsTheEnd`), all from `IInv`. It says of a buffer no exception has left: the
  handle below stands behind the bytes of the buffer, which are those of the
  contents (`Bytes`); and the word is the next bits of the stream, the whole bytes
  among them still before `currbyte` (`Word`). A word may hold bits of bytes that are
  not there, because `_CSInputFillBits` takes what fits and what is left each as a
  number of bytes from different places; `Word` has `Junk` for these, and that they
  are never handed out is what ties `numbits` to the end (`AtEnd`). A refill
  (`Fills`) leaves the client in its place with more bytes than it may look ahead,
  or with all there are. Of a buffer that was left `IInv` says that the client needed
  a bit beyond the end. The proof never opens a handle: it uses `Promise`.

They rest on `FileAssumption`, `ChainAssumption`, `BlocksAssumption` and
`BufferAssumption`, which say what is written above under the module.

### What stays with TLC

* Liveness (`CallsReturn`, `RunReturns`, `Returns`), which needs fairness and
  `ENABLED`.
* `SealedDirectoriesRest`, checked for the archives of the run. A proof would have to
  follow every attribute set early by an entry that makes nothing back to its
  report.
* `SubAllocator`: `Pieces`, `MergeI`, `MergeH` and `ExpandTextArea` are `RECURSIVE`,
  which the prover does not read. Its four invariants are checked for the heap of
  the run only.

## Not modelled, and the plan

Not modelled for good: arithmetic on data (the statistics of decompressors,
ciphers, checksums), text conversion, vendored libraries (`libxad`, `lzma`,
`wavpack`, `Crypto`, `Windows`, whose C code is most of the C in the repository),
the command-line interface, dates and progress. Of PPMd the models and the range
coder are left out, of WinZip JPEG the metadata, the header parser and the
arithmetic decoder; of the address-mapping handles

* `CSMultiFileHandle`, which differs from `CSMultiHandle` in that a segment may
  fail to open. Then `currindex` is already that of the segment
  (CSSegmentedHandle.m:204), and the handle later reads on in the next volume;
* `XADCABBlockReader`, a source of blocks for `CSBlockStreamHandle` and not a handle;
* `XADTarSparseHandle`, whose `readAtMost:` looks up `regions[currentOffset]`, a
  region by an offset (XADTarSparseHandle.m:252): what it then reads is whatever
  lies behind the array.

The plan, in the order of importance:

1. `BlockStream` and its proofs (done), `ArchiveParser` (done), `Unarchiver`
   (done), `SimpleUnarchiver` (done).
2. Theorems about `ArchiveParser`: type correctness, chains, own stream,
   password, position, stop (done).
3. `Archive`, the old API: pairing of forks, immediate extraction, the error
   reported (done).
4. `MappedHandle` and `InputBuffer`: handles with an address map and the bit
   buffer, against the bits of the contents (done).
5. `SubAllocator`: the memory of the PPMd models (done).
6. `WinZipJPEG`: re-coding by slices and buffers (done).
7. The refinement `IsAFile` as a theorem; the safety of `Unarchiver`,
   `SimpleUnarchiver` and `Archive` proved (done).
8. The operators of `MappedHandle` written without `RECURSIVE`, and the theorems
   about `InputBuffer` and `WinZipJPEG` (done).
9. The operators of `SubAllocator` written without `RECURSIVE`, with an inductive
   invariant about the lists and the gluing.
10. `XADCABBlockReader`, the RAR filter queue, the LZSS window, and parsers with
    more control than a loop over headers.
