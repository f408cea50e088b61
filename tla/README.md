# A verification project for the system programming assignments

The repository holds six independent C programs, one per directory: a decoder of
bit strings (`assignment1`), a patcher of ELF files (`assignment2`), a ring of
processes (`assignment3`), an allocator (`assignment4`), buffered streams with
two test drivers (`assignment5`) and user-level threads (`assignment6`).  This
directory has TLA+ modules for all of them, TLC configurations that check them on
small instances, and TLAPS proofs of their safety properties.

Run `tlc -config X.cfg M` with the module and configuration of the tables
below, and `tlapm M_proofs.tla` for the proofs.

## 1. Inventory

| Component | State | Operations | Interaction | What is hard |
|---|---|---|---|---|
| `assignment3` ring | `graph` (pipes), `node`, file offset, locals of `inNode` | `initProgram`, `printOneLine`, `sendSignal`, `rcvSignal`, `closePipeExcept`, `closePipeAll` | five processes, ten pipes, one shared file offset | every interleaving of five processes; shutdown; pipes whose other end is gone |
| `assignment6/20170286.h` threads | `thread_queue`, `curr_thread`, the link `next` of each tcb, `counter`, `sem_q` | `addQueue`, `delQueue`, `create_thread`, `run`, `yield`, `sem_create`, `P`, `V` | called by the threads of a program | one link serves two queues; `P` polls |
| `assignment6/20170286.c` readers and writer | `fp`, `str` | `reader`, `writer`, `main` | uses the thread library | order of the output, end of the program |
| `assignment4` allocator | `mem`, `varlist` | menu, `allocate_*`, `deallocate` | dialogue with a user | compaction, structs that fail half way, widths of sizes |
| `assignment5/mystdio.h` | a `FILE`, the descriptor's offset, the file | `fopen` `fread` `fwrite` `fgetc` `fputc` `fflush` `fseek` `feof` `fclose` | called by a program, calls the kernel | the buffer against the file offset in mixed reads and writes; end of file |
| `assignment5/*테케.c` | the script of a test | 6 and 15 tests | call mystdio, look at the file with a second stream | each test starts from what the one before left; the drivers want different buffer sizes |
| `assignment2` ELF patcher | a file, the array `buff` on the stack | `read_elf_header`, `print_section_headers`, `software2Hackers` | changes its input in place, may be started again | the search runs past the end of the array; files that end early |
| `assignment1` bit decoder | a file, `memorySpace`, `tmpStr`, the allocator | `readFile` (seven times), `stringToBit`, `printResult` | reads through the C library's stdio and heap | the `feof` loop stores one element too many; widths |

What makes each component correct:

* ring: lines are read by one node at a time and in cyclic order, nobody reads
  on after the end of the file, all nodes end, the last one first;
* threads: the semaphore lets in as many threads as it should, no thread is
  lost, threads take turns;
* readers and writer: the output is the file, in order; the program ends;
* allocator: values keep their bytes, whatever is allocated or removed, and a removal
  takes the bytes of its variable out of the memory and no others;
* streams: a buffered stream cannot be told from an unbuffered file;
* tests: both drivers run to their end;
* patcher: the word is replaced wherever it is in a .rodata section, nothing
  else changes, and a broken file is left alone;
* decoder: what is shown is what the file says, for every type.

`PROJECT.json` lists the hazards of the code at their lines, with the
properties that would catch them going wrong.

## 2. Modules

| Module | What it is |
|---|---|
| `TurnTaking` | abstract: nodes read lines in turn until the end of the file, then leave from the last one down |
| `PipeRing` | `assignment3`: one action per system call that another process can observe |
| `PipeRingInv` | its inductive invariant `RingInv`, and `ShutdownInv` on top of it |
| `PipeRing_proofs` | its theorems |
| `Sums` | sums of sequences of numbers |
| `Sums_proofs` | facts about them, and the principles that other proofs need: a set of numbers has a smallest one, induction over a set of numbers, functions defined by recursion exist |
| `TcbQueue` | the linked lists of `assignment6`, as a head and a function of links |
| `UThread` | the thread library and its semaphore, with arbitrary clients |
| `RoundRobin` | abstract: the scheduler as a FIFO list |
| `ReadWrite` | the program on top of `UThread` (it EXTENDS it and conjoins the library's actions with its own) |
| `UThread_proofs`, `ReadWrite_proofs` | their theorems |
| `MemAlloc` | `assignment4` |
| `MemAlloc_proofs` | its theorems |
| `PlainFile` | abstract: a stream with no buffer |
| `MyStdio` | `assignment5` |
| `MyStdio_proofs` | its theorems |
| `StdioScripts` | the two test drivers of `assignment5` as lists of calls and assertions |
| `StdioTests` | a driver that makes these calls (EXTENDS `MyStdio` and uses its actions) |
| `ElfPatcher` | `assignment2` |
| `ElfPatcher_proofs` | its theorems |
| `BitDecoder` | `assignment1` |
| `BitDecoder_proofs` | its theorems |
| `MCOneShot` | the four programs that run once and alone, one of them in each behaviour |
| `MC*` | values of the constants for TLC |

Definitions whose comment calls them a *fault* are not part of a model.  Each is
the definition behind it with a plausible slip, and shows that some property
depends on that line of the code; `PROJECT.json` says which.

### How state and actions correspond to the code

**PipeRing.** `pipe[<<i, j>>]` is what is written to and not yet read from
`graph[i][j]`, and `rd` and `wr` are the processes that hold its ends open, so
that the kernel's rules can be stated: a read of an empty pipe blocks while
somebody holds the write end and returns 0 otherwise, a write without a reader
kills (`BrokenPipe`).  `readBy` is a history of the calls of `printOneLine`.  A
handler of the `switch` is split at its system calls: `Receive` is the read and
everything computed up to the first write, and leaves the writes in `todo`;
`Deliver` and `BrokenPipe` are one write; `ClosePipeAll` is the rest up to
`exit`.  `printOneLine` is one step although it reads a character at a time.
That is sound because of `OnePrinter`, which holds for the model and does not
depend on how long the step takes: `pc` stays `"print"` until it ends.

**UThread.** Threads are not preempted, so a call is one step.  `pc` is where a
thread's saved context goes on: outside (`"out"`), in the loop of `P` (`"P"`),
or between `P` and `V` (`"in"`).  `hung` becomes true when `addQueue` would walk
round in a circle of links; then nothing else happens any more.

**ReadWrite.** A line is its number; `str` and `out` are sequences of lines.
`fgets` sets the end-of-file indicator behind a last line that has no newline.
`writer` leaving its loop ends the process, because the contexts have no
successor.

**MemAlloc.** Each line typed by the user is a step; a line that only repeats a
question is a stuttering step.  A byte of `mem` is the variable it was written
for and its place in it.  `size` is the field of `varinfo`, an unsigned char
(`UnsignedChar`); `bytes` is the size the code computed before it stored it.
`memcpy` with overlapping operands, undefined in ISO C, is modelled as the
ascending copy that glibc performs for a move to lower addresses.  The tokens of
`parseLine`, which point into a stack frame that is gone, are taken as they were
read.

**MyStdio.** The record `f` is the file, the descriptor's offset and the
`FILE`.  The loops of `fread_sub_program1` and `fwrite_sub_program1` are two
passes: a pass that does not reach the end of the loop leaves less than a buffer
to do, and the next one ends it (`ReadLoopFacts` and `TwoPassesWriteAll` prove
this for buffers and requests of any size).  `buffer` is full of `JUNK` after `malloc`; the refinement shows that
none of it is ever read or written.  A `fseek` that succeeds has no return
statement: it may return 0 or the offset that `lseek` left behind.  `fread` and
`fwrite` are asked for elements of one or more bytes; `fgetc` and `fputc` are
the same steps for one byte with another result.  The file may be missing.

**StdioTests.** `todo` is what the driver has still to call.  A row of a script
is a call, its arguments, and what the driver asserts of the result; a row
without the latter is a call whose result nobody looks at.  `Sees` is a second
stream that is opened, read and closed: it sees the file and not the first
stream's buffer.  A test that returns without closing its stream (`Leaves`)
loses what is in the buffer.

**ElfPatcher.** `elf` is what the headers say; it does not change, because a
.rodata section lies between the headers and does not hold the names
(`ImageAssumption`: this is how linkers and assemblers lay out a file).  `buff` is the
array of `software2Hackers` followed by what lies behind it on the stack up to
the next zero byte, any member of `Behind`: the loop and `strstr` read that, and
`strncpy` may overwrite it.  `RunAgain` starts the program on its own output.

**BitDecoder.** A step is a pass of the loop of `readFile`.  `memory` is the
block of `calloc` with the bytes behind it, byte by byte, little-endian.  The element stored
behind the block harms nothing if the block has room left (`Usable`: glibc gives out
24, 40, 56 .. bytes); if it has none, `heap` is `"corrupt"` and the program may
abort at its next use of the allocator, or not (`AbortInFree`, `AbortInMalloc`).
Real runs do abort for a file of 24 * 8 characters and show all types for others.

## 3. Runs

| Run | Instance | Result |
|---|---|---|
| `ring` | 5 nodes, files of 0..11 lines | 5,072 states, all properties hold |
| `ring_signal` | the same | `SignalHasReceiver` violated |
| `uthread` | 5 threads, semaphore of 2 | 551 states, all hold |
| `uthread_blocked` | the same | `WaitingThreadIsBlocked` violated |
| `readwrite` | 3 readers, 1 writer, 1,022 files | 27,790 states, all hold |
| `alloc` | 3 names, 8 bytes, sizes 1, 2, 4, structs of up to 3 | 1,182,860 states up to symmetry, all hold |
| `alloc_report` | the same | `ReportedBytesAreFree` violated |
| `stdio` | buffer of 3, modes r r+ w w+ a, elements of 1 and 2 bytes | 127,998 states, all hold |
| `stdio_count` | mode r, reads of 4 | `CountIsBytesRead` violated |
| `stdio_append` | mode a+ | `AppendsReachTheFile` violated |
| `stdio_eof` | mode r+ | `FullReadIsNotEOF` violated |
| `oneshot` | decoder: bytes of 2 bits, files of 0..24 characters; patcher: a word of 3 bytes, sections of up to 6; drivers: buffers of 300 and 4 | 471,820 states, all hold |

What the passing runs show:

* `ring`.  With five nodes, as in the source, and up to 11 lines the turn goes
  round twice and the end of the file is met by every node, in the first round
  and in later ones (0 lines: by node 0 at once).  `ImplementsTurnTaking` says
  that, whatever the scheduler does, every line is read, by the right node, and
  that every node then ends, the last one first, by GOOD_BYE or by SIGPIPE.
* `uthread`.  Five threads are more than the semaphore lets in, so that several
  wait; all interleavings of `yield`, `P` and `V` are explored, including those
  in which the queues are spoilt by sharing links.
* `readwrite`.  Lines have 1 or 3 characters with their newline, on either side
  of the 3 in the condition of `writer`; 8 lines are two batches of three and a
  rest of two, and all shorter files.  `AtMostTwoLinesLost` is tight: with the
  six newlines of `assignment6/input` and text behind the last one, the seventh line is
  read and not printed.
* `alloc`.  A memory of 8 bytes with sizes 1, 2 and 4 has the proportions that
  matter: a struct can fill it exactly (the size that becomes 0), and three
  variables can be removed in every order.  A struct that fails for want of memory
  leaves bytes behind the list; `OneCopy` and `RemovalTakesItsBytes` say what
  becomes of them.  A compaction that moved only what the list accounts for
  would break both, after such a struct, a removal in front of what it left, and a new
  variable of its name.
  Of a struct that fills the memory a removal takes nothing, because its size is
  0: that is the error which `alloc_report` shows.
* `stdio`.  A buffer of 3 with writes of 1, 4 and 6 meets every boundary: within
  the buffer, across its end, and a multiple of it; files of 0, 2 and 6 bytes
  are empty, shorter than the buffer, and a multiple of it, and may be missing;
  a pair of bytes may be cut in two by the end of the file.  Seeks go backwards, to the
  position itself and beyond the end of the file.  `BufferInPlace` is what is in the
  buffer of a stream that only reads or only appends, where the refinement is
  decided.

* `oneshot`.  *Decoder*: all files of 8 characters, files of 16 and 24 that
  contain every 8 characters, the empty file, and wrong lengths.  With bytes of
  2 bits and types of 1, 2 and 4 bytes every type still has several bytes and a
  sign bit, and a file of 24 fills its block.  `ShowsTheBits` compares what is
  printed with the digits of the file, without `stringToBit`.  *Patcher*: all
  contents of four letters (the word, a zero byte) in a section of 6, in two
  sections of 3 and 1 with another one between them, and in one of 4; files cut off at every byte, some of them in the table of names;
  behind the array nothing, the end of the word, or more of it.  Only what begins
  as the word at the very end of a section may be replaced beyond the definition
  of replacing every word (`Allowed`).  *Drivers*: one wants a buffer of more
  than 100 bytes and has the 300 of the source; the other one only passes with the 4
  it was written for (with 300 its second test fails, as the real one does).
  Deadlock is checked, so that each driver comes to its end.

`Terminates`, `ShowsAllTypes` and the liveness of `TurnTaking` are checked under weak fairness.
In the ring every node is a process, and the operating system runs each of them
(`WF` of each `Step(n)`).  The other programs are one process (`WF` of `Next`,
`WF` of `DecoderNext`).

### Bounds

`FileLines`, `MaxLines`, `MaxMembers`, `MaxLength`, `Inputs`, `Images` and `Behind`
bound the inputs; they are
constants and appear in guards that are marked as bounds or in the sets that
inputs are taken from.  `FlushModes` leaves out `fflush` on a stream that cannot
write, which ISO C does not define (mystdio clears the buffer and then returns
the cleared bytes).  `ReadSizes` of the run `stdio` are below the buffer's size:
for larger ones the property fails, see `stdio_count`.

### Findings

1. `assignment3`: signals are sent to nodes that have exited, and SIGPIPE kills
   the sender.  The causes are the missing `break` at `20170286.h:226` and the
   GOOD_BYE that node 0 sends to the last node, which was told to go before and
   has normally exited by then.  All nodes do end, and nothing that matters is left unread
   (`OnlyFarewellsUnread`).
2. `assignment6`: `P` does not block the thread; it polls.
3. `assignment4`: a struct of exactly 256 bytes gets size 0.
4. `assignment5`: the count of a long read at the end of the file is too small.
5. `assignment5`: writes to an a+ stream that was read first are lost.
6. `assignment5`: a stale `eof_seen` makes `feof` true after a full read.

## 4. Proofs

TLAPS checks all proofs; they assume only the named ASSUMEs of the modules.

**PipeRing** (`MAX_NODE >= 3`, any set of file lengths).  The invariants that
are checked are not inductive; `RingInv` is.  Its core is `PhaseInv`: before the
end of the file exactly one node has the turn, or is about to pass it on, or the
turn is in the pipe to it, and the number of calls of `printOneLine` tells
which; after it, no turn is left anywhere.  For the shutdown it needs who has
been told what: GOOD_BYE is only sent when all later nodes have left
(`GoodByeInv`, `LeftInv`), node 0 turns round before anyone is told to exit
(`RoundInv`), FINISHED_JOB travels upwards only (`FinishedJobInv`), and who holds
which pipe end (`EndsInv`).  There is one lemma per action.  From it follow
`OnePrinter`, `TurnsInOrder`, `EndOfPipeOnlyAfterKill`, `FinishedJobNeverReturns`
and the safety part of the refinement of `TurnTaking`.  Three nodes are needed:
with two, the next node is also the previous one, and the two pipes of an edge
fall together.

What the pipes hold during the shutdown takes a second invariant, `ShutdownInv`.
From the end of the file until node 0 turns round there is one signal in the
ring (`OneSignalInv`).  Then the nodes turn round in order, and behind the one
whose turn it is nobody sends (`FrontierInv`).  FINISHED_JOB_AFTER_LAST is the
first thing a node hears of the one before it and does not get past the node
that met the end of the file (`AfterLastInv`).  A node killed by SIGPIPE may
leave its neighbour handling one signal several times because of the missing
`break`; nobody hears what it sends then, which is why several parts speak of
`Heard` pipes only.  From it follow `PipesStayShort` and `OnlyFarewellsUnread`.

**UThread** (any threads, any positive semaphore value).  `TypeOK` and
`SemaphoreCounts` are inductive together: the counter and the threads inside add
up, so the counter cannot exceed `SemValue`.  `NoThreadLost` is about links that
serve two queues.  The members of a queue are the smallest set that contains its
head and is closed under `next`, and `Walk`, which follows as many links as
there are threads, visits all of them because it cannot visit a new one each time
(a pigeonhole).  While main creates the threads the queue is a plain list
(`CreationPhase`); later all that is needed is that the running thread has no
link (`RunningPhase`): then `addQueue` and `delQueue` may lose the order of the
threads and put a thread into both queues, but none gets out of both.

**ReadWrite** (any readers, any files).  Each step of the program is a step of
the library or leaves it alone (`LibraryStep`), so that the library's invariants
carry over.  `NobodyWaits` needs `OnlyRunnerInside`: only the running thread can
be between `P` and `V`, so the next one finds the counter positive.  Since nobody
waits, the queue stays a plain list (`Tidy`), and each `yield` is the step of
`RoundRobin`: this is `ImplementsRoundRobin`.  `AtMostTwoLinesLost` and
`ThreeLinesAtATime` say something of the program main starts and are proved for
it: three readers, then a writer (`ProgramThreads`, which the run's instance is
an example of), any file.  Their invariant `RoundInv` is that the k-th thread
runs when k - 1 lines are buffered, unless the file has ended.

**MemAlloc** (any names, sizes and memory).  `TypeOK`, `UniqueNames`, `ListFits` and
`ValuesIntact` are inductive together with `AskedInv`: a name is found to be new,
and a value to fit, several questions before the node is added, and a struct's
bytes are written behind the list before it belongs to it.  A new node starts
where the sum of the others ends, so the proofs are about sums of lists; a removal
moves every later value down by the size that was taken out.  `OneCopy` is inductive
together with `LeftBehind`: a byte that a failed struct left behind the list is as
far from the end of the list as it was from the start of its struct, or nearer,
since allocations come closer and removals move both.  So a struct that
is written there again reaches each byte of its name that it would repeat
(`WritingKeepsCopyInv`); bytes in front of the end of the list are those of
variables (`BytesInList`), which have other names.  `RemovalTakesItsBytes` rests on
`OneCopy` and `ValuesIntact`: without the first, a byte of the variable
could remain elsewhere, without the second, another one's be taken.

**MyStdio** (any buffer size, any requests, any files).  The invariant `Sound` is
the type of the stream, a buffer that is absent or whole, and a cursor that is not
beyond `buffer_end`.  The helpers are followed
one by one with the bytes that a read has got so far, and a pass of a
loop either ends it or leaves less than a buffer (`Finished`, `GoesOn` and
`TwoPassesWriteAll`).  From it follow `TypeOK`, `CursorInBuffer` and
`ShortReadIsEOF`.

That the buffer cannot be noticed (`PlainFileRefinement`: `Spec =>
ImplementsPlainFile`) is proved for the callers of `PlainCaller`: none opens a file with
a+, flushes a stream it can only read, or reads a buffer or more in one call.  The run
`stdio` is an instance.  None of the three can be dropped: the first is what
`stdio_append` shows; a flush of an input stream is undefined in ISO C, and
mystdio then returns the cleared bytes; a long read has a wrong count
(`stdio_count`) and may leave `buffer_end` behind a buffer that is cleared.  That
a buffer has more than one byte is a further condition, for `fgetc`.  File,
offsets and sizes of writes are arbitrary, and so is the order of the calls.

* *The mapping.*  `Shown` is the file a caller sees: the file with what waits in
  the buffer (`Held`) written over it.  `At` is the position in it.
* *The invariant.*  `Sound` does not say what is in the buffer.  `InOrder`
  (the run checks it as `BufferInPlace`) adds that it is the file, from the
  descriptor's offset on, if the stream only reads (what is in such a buffer is
  never written, so nothing else ties it to the file); that it ends at the cursor and
  `write_start` is set, if the stream appends (otherwise a later write would go
  to the end of the file and not to the cursor, or be dropped); and that nothing
  is left after `fclose`.  Streams that read and write need no more: their buffer
  is written back as a whole, so that it *is* the file a caller sees, whatever it
  holds.
* *The steps.*  A read in parts is one read (`ReadOn`, `IsRead` is what a read
  must return), and a write in parts is one write (`PutOn`, `IsPut`), which
  rests on `OverwriteTwice`: to write the buffer and then more bytes at the cursor
  is to write the buffer with these bytes in it.  A refill, a drain and a flush
  leave `Shown` and `At` alone (`RefillRefines`, `DrainRefines`, `FlushRefines`).
  One pass of the loop of fread is then enough, and two of that of fwrite
  (`FreadRefines`, `FwriteRefines`); `StepRefines` puts the calls together.

For these callers the two properties that `stdio_count` and `stdio_append` refute
hold as well (`ShortReadsAreCounted`, `PlainAppendsReachTheFile`, the latter
because the file a caller sees is as long as `due` says).  So does the one that
`stdio_eof` refutes, if they flush no stream that can be read (`OutputFlushes`,
`FullReadsAreNotEOF`): where `eof_seen` is set, the file does not reach beyond
the buffer (`EofAt`), until `fflush` empties the buffer and leaves `eof_seen` as
it is.  The conditions are where the errors are.

**ElfPatcher** (any files, any word, anything behind the array on the stack).
`PatcherInv` adds to `OnlyRodataChanges` that sections are only looked at when
the headers and the names lie in the file (`Accepted`) and that the section in the loop is a
`.rodata` section.  The search may run behind the array, but the array keeps its
length, and only as many bytes as the section has are written back
(`WriteKeeps`).  `SectionsPatched` needs `PatchInv`: in file and array, words are
replaced as a whole or untouched (`Partial`), none is left where the loop has
come past (`NoneBefore`) or in a section behind which the program has come.  This
rests on two things that `WordAssumption` says of the word of the source: it
does not overlap itself, and its replacement begins and ends with bytes that it
does not have.  Only the end of a section is an exception, where the word may begin in the
section and end behind the array.  That one section does not change another is
`ImageAssumption`, which the other theorems do without.

**BitDecoder** (any file, any size of a byte, any sizes of the types that divide
the largest).  `LoopOK` says where `readFile` is after n passes of its loop: what
it has read, that the first n elements of the block are those of the file, byte
by byte (`Holds`), and that behind the block only the pass that finds the end of
the file has stored something, which is the last element again.  `stringToBit`
loses nothing in 64 bits (`StringToBit`), the bytes that `Store` cuts a number into
are the number again in `Load` (`LoadHeld`), and the top bit is the sign
(`SignedFacts`).  From it follow `OneElementBehind` and `ShowsTheBits`.  The powers of
two are the recursive function `Power`: of `2 ^ n` the prover knows nothing.  TLC
checks that they are the same (`PowersOfTwo`).

**Sums** has what the library offers only with operators as parameters, in terms
of sets: induction (`SetInduction`) and the existence of a function that is
defined by recursion (`RecursionExists`).

Model-checked only: liveness (`Terminates`, `ShowsAllTypes`, the fairness part of
`ImplementsTurnTaking`), which the prover cannot do; the scripts of the test
drivers (`TestsPass`), which are two executions, not a family of them.

## 5. What is not modelled

* System calls that fail (`pipe`, `fork`, `open` of a file that exists, `read`,
  `write`, `malloc`).  None of the programs has a way to go on then: the ring
  is built without looking at the results, and a buffer that mystdio could not write is gone.
* `assignment1`: how `printf` writes a float or a double (their bits are), and a
  missing input file, which crashes the program.
* `assignment2`: printing of the headers; files whose sections overlap each
  other or the headers.
* `assignment3`: the characters of a line and the output on the terminal.
* `assignment4`: the values typed by the user, names longer than their array, and the end of
  stdin (the program asks its question again for ever).
* `assignment5`: `do_allocate_write_buffer`, which uses a field that does not
  exist and is never called; four assertions of the second driver that read
  behind the end of an array (its author meant the file, where they fail for
  the reason that `stdio_append` shows).
* `assignment6`: stacks and contexts; lines longer than a third of `str`.
* Build files, editor settings, `assignment2/editro` (the program's input).

## 6. Plan

Done: models and runs of all six programs, proofs of their safety properties.
Left: what a long read that meets no end of file leaves in the buffer (the
theorems about the contents of a file are for reads shorter than a buffer).
