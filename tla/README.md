# Verification of xjtu-os-project

The repository holds the course projects of an operating systems class, in C:
`project1` (processes, threads, locks), `project2` (signals, pipes, memory
allocation) and `project3`, `mini_ext2`, a small ext2-like file system in an
image file. This directory models the programs in TLA+, checks the models with
TLC, and proves theorems about them with TLAPS.

## The system

| Part | State it keeps | Operations | Hard behaviour |
|---|---|---|---|
| `bitmap.c` | block and inode bitmap, free counters in superblock and group descriptor | `alloc_block`, `free_block`, `alloc_inode`, `free_inode` | three block writes per operation, ended by a kill anywhere; counters unguarded; fewer bits than blocks |
| `inode.c` | inode table | `read_inode`, `write_inode`, `inode_truncate` | bits are cleared before the inode is; stale tables |
| `dir.c` | directories: 64-byte entries in direct blocks | `dir_lookup`, `dir_add`, `dir_remove`, `namei` | never shrink, names cut to 55 characters |
| `file.c` | files: 10 direct pointers, one indirect block; descriptors | `fs_open`, `fs_read`, `fs_write`, mapping | ENOSPC half way, the caller's copy of the inode |
| `fs.c`, `dev.c` | the mounted image, `g_sb` and `g_gd` | `fs_format`, `fs_mount`, block I/O | structures shorter than the blocks read into them |
| `cli.c` | nothing: one process per command | `mkdir`, `create`, `writef`, `readf`, `writefile`, `delete`, `chmod`, `login`, `open`, `cd`, ... | failures ignored half way, kills, two commands at once on an image nobody locks |
| `security.c` | `/.users`, `/.session` | bootstrap, login, useradd, password, session save and restore | rewrite after truncation, saved as the new user |
| `memsim.c` | free list, allocated list | allocate, free, compact, change of algorithm | long histories of splits and merges |
| `softint.c` | two children, a flag set by handlers | signals, `pause`, `wait` | a signal before `pause` |
| `pipe_communication.c` | pipe, `lockf` | two writers, one reader | capacity, waiting before reading |
| `step1_race.c`, `step2_semaphore.c`, `spinlock.c` | a shared counter, a semaphore, a lock | two threads each | lost updates, mutual exclusion |
| `1-1.c` ... `1-5-2.c`, `system_call.c`, `exec_helper.c`, `step3_*.c` | none | fork, wait, exec, print | none worth a module |

Within `mini_ext2` a command is a process: `main` mounts the image (`fs_mount`),
which creates `/.users` if it is missing and restores the user from `/.session`,
calls one `cmd_` function and exits. Commands share the image only. What makes
the parts correct:

- allocation: a block or inode has one owner; bitmaps and counters agree; a
  free block is reached by nobody;
- directories: entries name allocated inodes of their type, and they are a tree until
  something is deleted that leaves its name, or a child, behind;
- commands: together they are a store of named files (`FileStore`); one that
  fails leaves what it did not reach, leaks a bounded number of blocks and fails
  for a limit only;
- after a kill: at most leaked blocks, and commands that can be repeated; what was
  reported as done is there;
- two commands at once: a file neither is given stays as it is;
- accounts: distinct names and uids, and `password` changes one password, as long as
  no word has a `:` in it; only `login` changes who runs the next command.

## Modules

| Module | Models |
|---|---|
| `CallContext` | how a C function is written as an operator; error codes and the permission rules of `file.c` |
| `Ext2Image` | the image, and `bitmap.c`, `inode.c`, `dir.c`, `file.c` as operators on it |
| `MiniExt2` | `fs.c` and `cli.c`: the commands as actions on the image, with kills |
| `Fsck` | the properties of the image and of the commands |
| `FsckProofs` | the theorems about `MiniExt2` and `Fsck` |
| `FileStore` | what the commands promise their user: a tree of named files |
| `TwoCommands` | commands that overlap, one block read or written per step |
| `TwoCommandsProofs` | the theorems about `TwoCommands` |
| `BlockAlloc` | data blocks only, one `dev_write_block` per step, with crashes |
| `BlockAllocProofs` | the theorems about `BlockAlloc` |
| `Session` | `security.c` and the account commands, with kills |
| `SessionProofs` | the theorems about `Session` |
| `MemoryPool` | what `memsim.c` promises: a pool without addresses |
| `MemSim` | `memsim.c`, shown to implement `MemoryPool` |
| `MemSimProofs` | the theorems about `MemSim` |
| `SharedCounter` | `step1_race.c`, `step2_semaphore.c`, `spinlock.c` |
| `SoftInt`, `SoftIntProofs` | `softint.c` and the theorem about it |
| `PipePair` | `pipe_communication.c` |
| `LockProofs` | the theorems about `SharedCounter` and `PipePair` |
| `SetLemmas` | least and greatest elements, sums over sets: lemmas the proofs share |
| `MCMiniExt2`, `MCTwoCommands`, `MCBlockAlloc`, `MCSession` | instances for TLC |

**`CallContext`.** A C function becomes an operator from a call context to a call
context. The context is the list of the images after each `dev_write_block` so
far, and the value returned. So one operator gives the effect of a command that
runs to its end (the last image) and of one that is killed (an earlier one),
and a property can speak of every moment of a command (`OthersUntouched`).

**`Ext2Image`, `MiniExt2`.** The image is a record: bitmaps are sets, `sb` and
`gd` the free counters, an inode a record with its pointers, a block a function
from cells to what lies in the cell. A cell is 64 bytes, the size of a
directory entry; a name, a text or a pointer is one value. `Width` is the number
of cells in a block and the number of pointers in an indirect block. A path is
the sequence of its segments, `Stem` cuts a name to the 55 characters that are
stored. Every operator carries the name of the C function it models. `Execute`
lets a command run to its end or ends it after any of its writes. `format` writes
zeros to every block first; killed before it writes the superblock for good, it
leaves an image that does not mount, or one that mounts with a `g_sb` of zeros
(`MountOfZeros`). `open`, `read`, `write`, `seek`, `close` and `cd` act on what
`fs_mount` cleared a moment before and `main` forgets a moment later: their
effect on the image is that of the mount, and of `fs_open` for `open`.

The block bitmap is one block of 4096 bits, the device has 4611 blocks.
`NBits` of the `NBlocks` data blocks have a bit (`Recorded`). For the others
`alloc_block` and `free_block` read and write the stack behind their copy of the
bitmap, which is undefined behaviour: `ReadClear` is the set of blocks that look
free there, any set. What is done to these bits is not kept. The program as gcc
builds it from the `Makefile` hands out block 4096 again and again once the first
4096 blocks are used. All runs but `last_blocks` take the other outcome, in which
the bits behind the bitmap read as used (`ReadClear = {}`) and the disk is full
then: what they show holds until the first 4096 blocks are used up.

`sb` is `g_sb`, the copy the next write puts on the device. `fs_mount` reads 512
bytes to `&g_sb` and then 512 bytes to `&g_gd`, and both structures are shorter.
`SbBehindGd` says which of the two layouts the linker chose: with gcc as in the
`Makefile` `g_sb` lies behind `g_gd`, so each write of the group descriptor
takes a copy of `g_sb` along (`tail`) and each mount reads that copy back.

**`FileStore`.** A node is a path with the text of a file or the number of names a
directory was ever given; a command maps the tree to one of the trees it may
leave. A full disk shows as a write that stopped after some of its text, or a
command that did nothing. `Fsck!Implements` maps the image to the tree that
lookups reach. What a `mkdir` of a path already taken leaves is in the store as
well ("behind"): it comes forth when the first is deleted.

**`TwoCommands`.** `create`, `writef`, `readf` and `delete` in the root directory as
lists of steps, each one `dev_read_block` or `dev_write_block` and what the code
computes from it. `todo` is what a process still has to do; branches (`namei` found
the name or not, a block is missing, `bmap_test`) choose how it goes on. Bitmap,
inode table and directory are read as a block, changed and written as a
block, so a process also writes back its neighbours as they were. Four inodes
share a block of the table: the root, one file that no command is given (it may
be `/.users`) and the two that are. Indirect blocks, subdirectories, a second
directory block and the free counters, which decide nothing, are left out, and so
is `/.session`: with one, every mount also writes that file's inode back.

**`BlockAlloc`.** The same code, one block write at a time, with everything but
blocks left out: which inode holds which blocks directly and in its indirect
block, the copy of the inode a function works on (`mdir`, `mind`), and where the
function stands (`op`, `pc`). `Blocks` are the data blocks that have a bit. The
`Unrecorded` others (515 in the program) look used to `alloc_block`; but `fs_format` counts
them as free, so the counters start and stay that much above the clear bits. A crash
loses the copy. Which pointer slot is used is left open, so the model allows more
than the code; the contents of a block matter only when some inode takes it for an
indirect block.

**`Session`.** `/.users` and `/.session` as lists of lines, in the order of the
writes of `security.c`. A line is written `name:pass:uid` and split again at the first two
`:`, and the uid is what `atoi` makes of the rest. A word that is entered is one value, and
`Split` gives the fields between the `:` in it, one for most words; `Line` says what
`parse_line` reads of the line that is put together from them. `useradd bob a:0` writes
`bob:a:0:1`, which is read as the password `a` and the uid 0. Fields in `Long` have 16
characters or more and texts in `LongThird` are as long after the second `:`; a line with
one of these `parse_line` refuses. A line takes the room of its words
(`Weight`), and a file the blocks its lines fill and never fewer (`held`). Any two
words fit into a block (`InputAssumption`), so a line takes one block more at most: the
buffers lines are put together in have 256 bytes (`security.c:203`), a block has 512. Words
that do not fit into that buffer are left out, and so are empty ones, those with blanks or
line ends, and those in which `atoi` would read a negative number or one that does not fit. `Picks`
says how a list can be what is left of another: by a strictly increasing map from the
lines that are there to the places they had. `NewLines` is the list that `password`
sets out to write, `RewriteKeepsAccounts` compares each image on the way with it.
`OtherFiles` is any other command: it takes or gives back blocks, and the last
inode or directory slot (`room`).

**`MemSim`, `MemoryPool`.** An action is a choice from the menu with valid input. A list
is the set of its blocks and `order`, the algorithm it was last sorted for: `rearrange`
sorts by a total order, so both determine the list. `FirstFitting` is the loop of
`allocate_mem`, and `Packings` the moves of `compact_memory`. The loop of
`merge_free_adjacent` takes a step for each round: `cur` is the pointer that goes along
the list sorted by address (`NextInList`), which swallows the block behind it (`Swallow`)
or moves on (`MoveOn`); `NULL` is the end, where the list is sorted for the algorithm
again (`rearrange`), and only then comes the next choice of the menu. So the properties of
the list say that `cur` is `NULL`. `kill_process` frees the process's own record after the
loop, in the model before it: the loop does not look at that list. A failing `malloc` is
an alternative of each action whose code tests for it, including those whose caller
ignores the result. `MemoryPool` knows only who holds how much; the refinement mapping
forgets addresses and lists. What it promises: what a process gets is what it asked for,
plus at most a remainder below `MIN_SLICE`; and with compaction a request is refused only
when less than that is free.

**`SharedCounter`.** The three programs differ in the lock, so one module has
them all and `prog` says which one runs. Load and store of the counter are steps
of their own; `P`, `V`, the test-and-set and the release are atomic, as POSIX and
the compiler say. In `step1_race.c` a thread may keep its register copy instead
of loading again, which gcc does with `-O2`.

**`SoftInt`.** One program counter per process; between any two of its steps a
process may run the handler of a pending signal. The test of the flag and the
call of `pause` are two steps ("test" and "call"), as in `wait_flag`.

**`PipePair`.** The pipe is a sequence of at most `capacity` bytes, each known by
its writer. `lockf` locks the pipe, as Linux does. A read takes any part of what
is there.

## Runs

| Run | Instance | Shows |
|---|---|---|
| `commands` | 9 blocks, 8 of them with a bit, 2 direct pointers, 3 cells per block, 5 inodes; two files, one of them also as if it were a directory, and a directory; 23 800 states | `TypeOK`, `Ownership`, `CountersExact` after every sequence of commands; `DeleteOrphans`, `OthersUntouched`, `LeakBound`, `FailsAtALimit`, `WritingOverDirectory`, `StaleNameAnswers` for every command in every reachable image; `Implements` (`FileStore`) |
| `kills` | 7 blocks, 1 direct pointer, 5 cells; two users, `chmod`, `readf`, `delete` of one file, `format`, one kill; 65 000 states | `KillTolerant`, `SuccessSurvives`, `RetryDelete`, `ProtectedFilesKept` |
| `two_commands` | 2 processes, 2 commands on one file and 1 on another, a third file; 1.7 million states | `BystandersSafe`, `OneWriterOwns` |
| `blocks` | 3 blocks with a bit and one without, 2 inodes, one crash; 2.5 million states | `Ownership`, `CounterDrift`, `ReuseOnlyAfterTornTruncate`, `TablesKept` |
| `accounts` | 2 names, 4 passwords, one too long and one with a `:`, 2 lines, blocks of 4 fields, 1 free block, one kill; 60 700 states | `AccountsDistinct`, `RewriteKeepsAccounts`, `IdentityChangesByLogin`, `SessionIsAccount` |
| `memory` | memory of 5 or 6 units, requests of 1 to 3, `MIN_SLICE` 0 or 2, 4 requests, 2 failing `malloc`s; 285 300 states | `Disjoint`, `NothingLost`, `Coalesced`, `FirstIsBest`; `MovedOnlyByNeed`; `Implements` (`MemoryPool`) |
| `counters` | 4 iterations; 2 200 states | `MutualExclusion`, `NoLostUpdate`, `RaceLosesOnly`; `Terminates` |
| `signals` | 2 keys; 4 200 states | `NobodyKilled`; `EndsUnlessMissed`, `AlarmWakes` |
| `pipe` | 4 characters each, a pipe of 5 or 8; 1 800 states | `LockedRuns`, `AllRead`; `EndsIfPipeHoldsAll` |
| `last_blocks`, `login_persists`, `signal_missed` | small | the code does not do what a document says; see below |

*Why these bounds.* In `commands` a file of 7 cells needs two direct blocks and an
indirect one with its table, and together with the directory the two files exhaust the
blocks: ENOSPC comes at each of the allocations of a write, before and after the indirect
block exists, and every block is reused. The root, the user table, the two files and the
directory take exactly the five inodes, so the first orphan of a failed command makes
inodes scarce as well. The ninth block has no bit. `FailsAtALimit` also tries a text of
one cell more than a file can hold on each of these paths. Nothing is claimed of paths
whose parent does not fit into the 256 bytes `fs_open` and `cmd_mkdir` have for it
(`file.c:102`, `cli.c:47`). In `kills` one direct pointer keeps the log of a command
short; all kill points of all commands are tried, in every image reached, followed by any
commands. In `two_commands` the second command on the first file lets one command begin
and end while another is under way, or one command follow two that overlapped; the command
on the other file makes both use the same bitmap, table and directory. In `blocks`, three
blocks are what an inode with one direct and one indirect block holds; the theorems cover
every number. With one block without a bit the counters can fall below the clear bits and
do not wrap; that they are right modulo 2^32 when they do is `CounterDriftHolds`, for any
word size. In `accounts` two lines with a long word need a second block, which other files
may have taken; a rewrite is cut at each line, by a kill or by the missing block. Accounts
are added while all uids are 0 (`MaxUid`), also to a list that a kill left empty. The
password `x:0` gives a line one field more, and its account the uid of root; with it
entered, `RewriteKeepsAccounts` still speaks of each later command for plain words, and
`IdentityChangesByLogin` of all.

In `memory` four requests of at most half the memory are enough for holes on
both sides of a process, for a request that only compaction satisfies, for each
order of the list to differ from the others, and for memory lost by `kill_process`
and found again. `signals` needs one key before and one after the first test; keys are
alike for the code. In `pipe` 5 bytes hold one writer's characters and not both, 8 hold
both; the program's own 4000 bytes fit into the 65 536 of Linux.
`counters` is proved for every number of iterations.

*Fairness.* The commands of `mini_ext2` and the choices of `memsim.c` end by
themselves and nobody has to give another one, so their specifications have no
fairness and only safety properties. The other programs assume weak fairness
of each process or thread: the operating system runs whatever can run. It is
enough: a thread that loses the semaphore or the spinlock again and again gets it
when the other's finite loop is over. `SoftInt` also assumes that a pending
signal is handled at last and that the alarm rings; nobody has to press a key.
`spinlock_lock` is one round of busy waiting, so the waiting thread always can run
and has no effect while the flag is 1.

*History variables.* `cut` (which commands were killed), `cuts`, `spoiled` (a word too
long was entered, or a password changed with no block left), `colons` (a word with `:`
was), `calm` and `since` (the image when no command was running last, and the commands
since), `crashes`, `torn`, `reused`, `fails`, `lossy`, `reply` and `missed` are read by
properties and bounds only.

## Proofs

`BlockAllocProofs` proves, for every finite set of blocks that have a bit, every set
of inodes, any number of blocks without one, every bound on the crashes, both layouts and
every word size above the number of blocks plus crashes (`BlocksAssumption`, `WordAssumption`,
`LayoutAssumption`):

- `TypeCorrect`, `OwnershipHolds`, `CounterDriftHolds`: `Spec => []` of
  `TypeOK`, `Ownership`, `CounterDrift`;
- `ReuseHolds`, `TablesKeptHolds`: the action properties
  `ReuseOnlyAfterTornTruncate` and `TablesKept`.

All follow from one inductive invariant, `IInv == TypeOK /\ Phase /\ Ownership /\
Copy /\ CounterDrift`. `Ownership` alone is not inductive: a step of `fs_write`
enters blocks in its own copy of the inode, which reaches the image only with
the last write. `Copy` says how the copy relates to the image: it extends the
inode on disk, is disjoint from every other inode, what it adds is marked in
the bitmap, and the block being allocated is in nobody's hands. `Phase` says
which function runs at which point. `CounterDrift` needs `Before`, the number of
free blocks the counter is still to catch up with between the write of the bit
and that of the counter, and arithmetic modulo `Word` (`CountWraps`).
`Ownership` is conditional on `~reused`, and `ReuseHolds` says when that ends: an
inode's truncate was cut, was not run again, and one of its blocks was handed
out. So the order of writes in `map_bn_for_write`, `dir_add` and `fs_write` is
safe against crashes, the one of `inode_truncate` is not.

`MemSimProofs` proves all safety properties of the run `memory`, for all sizes, requests,
values of `MIN_SLICE` and failures of `malloc` (`SizesAssumption`). The invariant is `IInv
== TypeOK /\ Sound /\ Passed /\ EmptyUntilLocked`. `Sound` is `Disjoint` of any two lists,
so that the lemmas can speak of the lists before and after each operation (`CutSound`,
`SwallowSound`, `PackSound`). `Passed` is the invariant of the loop that merges: no block
behind `cur` touches another, and when the loop is over no block at all. `CoalescedHolds`
follows; `MergeKeeps` is the argument that one pass is enough. A block that swallows the
next keeps its start, so it cannot come to touch one the loop has passed, and `cur` moves
on only when the next block does not touch, which, since the list is sorted and disjoint,
no later one can. `EmptyUntilLocked` says why `set_mem_size` may build the list anew:
`lock_set_size` is set before anything is allocated. On top of `IInv`:

- `NothingLostHolds`: each operation turns lists that cover the memory into lists that
  cover it (`Covers`, `CutCovers`, `SwallowCovers` and their fellows); `lossy` says from
  when on they need not;
- `FirstIsBestHolds`: the list is sorted for the algorithm chosen last (`Sorted`);
- `MovedOnlyByNeedHolds`: an action property, from `IInv`;
- `ImplementsHolds`: the refinement. The sums of the mapping are the cardinality of
  the units that the blocks of a list hold (`AllUnits`); disjointness makes the two equal.
  Then every choice of the menu is a step of `MemoryPool` or leaves it alone.

`SoftIntProofs` proves `NobodyKilledHolds` for any number of keys. A process dies of a
signal that comes before its handler is set. `IInv` follows the bytes of
`ready_pipe`: a child sets its handler before anything else (`HandlerFirst`), what is in
the pipe or read is one byte per child that has reported (`BothBytes`), and no child is
sent a signal before the parent has read two (`SignalledLate`).

`LockProofs` proves `LockedRunsHolds` and `AllReadHolds` for any `WRITE_COUNT` and any
pipe that holds something, however the bytes are cut into reads. The invariant says that the
characters in the pipe and those read are together those written, each child's as many
as its counter says (`NoneLost`), that with the lock one child's come first, all of them
before the other's (`OneHolder`, `Runs`), and that the parent reads after both children
are gone (`ParentWaits`).

`TwoCommandsProofs` proves `TypesHold`, `BystandersSafeHolds` and `OneWriterOwnsHolds` for
any finite set of names, any processes, any bounds on the commands, and as many inodes,
slots and blocks as the files need at least (`InputAssumption`). A process writes back
blocks of which it read its copy long before, so the invariant speaks of the memory of
every process:

- `Types` has `Control`: which copy a process has, and for which inode it acts, whenever it
  comes to a step. It follows from the lists of steps alone (`Follows`, `Chain`): each
  block is read just before it is written back.
- `Epoch == Clean(calm) => Kept(calm, Untouched)`. `Untouched` are the names given to no
  command since no command was running last. `Kept` says that the image has their
  slots, inodes, blocks and bits as `calm` had them (`Keeps`), and that no process is about
  to change them: its inode and block are not theirs, and the copy it will write back has their
  part of the block as it was (`Harmless`).

The proof attempt with `Sound(calm)` in place of `Clean(calm)` failed for a reason, see
below. The images that TLC begins with are clean; that those are which commands leave that
ran one after the other is not proved.

`OneWriterOwnsHolds` has to face readers that put back an inode, or a whole block of the
inode table, as old as they like, in any order. Its invariant therefore speaks not of the
image but of all images the memories can still make of it:

- A `Version` of an inode is what is on disk, in some copy of an inode, or in some copy of
  the table that is about to be written back. A step of a reader is `Quiet`: it shows no
  version that was not there and leaves bitmaps and directory alone (`ReaderStep`).
- `AnyMix` says that the image is sound whichever versions come together; `MixSound` takes
  the property from it. The table alone being sound would not be inductive.
- The one command that changes something is in a `Stage`: `Early` (nothing is changed),
  `Making` (an inode is marked that nothing names), `Freeing` (the versions of the inode
  are the old one and the empty one, the name is still there, and bits are cleared before
  it is removed), or `Keeping` (`AnyMix`; only blocks of its own file follow). While it
  frees, `AnyMix` is false, so soundness cannot be the invariant; `SameBut` keeps the
  other inodes as in `calm` until the name is gone. A bitmap or directory that it writes
  back is as it is on disk (`Current`), for no reader writes one.
- `OwnEpoch` puts these together: before it, while it runs and after it (`Held`).

`SessionProofs` proves all properties of the run `accounts`, for all names, passwords and
words too long, any weights, any room on the device, any number of lines and of kills. A
command is a context, a list of images; `Contexts(I)` are the contexts whose images
all lie in `I`, and a lemma about a function of `security.c` says that it leads from
`Contexts(I)` to `Contexts(I)`. So one lemma covers the command that runs to its end and the
one killed after any of its writes.

- `GoodHolds`: every image has the right types, no session before there are accounts, and,
  while no word with a `:` was entered (`colons`), distinct accounts of plain fields. That
  useradd's uid is fresh needs that the uids are a finite set (`FreshUid`); that a rewrite
  keeps accounts distinct needs that each line of the new list comes from a line of the
  old one (`Built`), since a shorter list is on the disk at each moment.
- `AccountsDistinctHolds` follows, with the same condition, and
  `IdentityChangesByLoginHolds`, without it, from what each command does to the identity
  (`SameId`, `LoginShows`).
- `RewriteKeepsAccountsHolds`, for commands with plain words and whatever is in the file:
  the loop of `users_change_password` is a fold over
  the lines. `LoopSteps` gives the contexts it goes through, and `Picked` says of each which
  lines of the new list are there: all up to there when the new list fits, because a list
  of which each line is in another takes no more blocks (`BlocksPicked`). For
  that a line's weight is counted in units (`Units`), and `SumIsUnion` of `SetLemmas` says that
  the fold `SumFunction` computes their number.
- `SessionIsAccountHolds` needs the invariant `AccountsWhole`: while nothing was killed or
  spoiled and no `:` entered, all lines parse, root and the user of the session are among
  them, and the file has the blocks for its lines (`Whole`). The last part is why one free
  block is enough for `password` to lose no line (`OneBlockFits`).

`LockProofs` also proves `CounterTypes`, `MutualExclusionHolds`,
`NoLostUpdateHolds`, `RaceLosesOnlyHolds` and `FinalValue` (0 after
`step2_semaphore.c`, `2N` after `spinlock.c`) for every number of iterations.
`MutualExclusion` needs to know that the value of the semaphore, or the flag,
tells whether a thread is inside (`LockTellsHolder`); `NoLostUpdate` that the
register copy of the thread inside is current (`LoadedIsCurrent`);
`RaceLosesOnly` that the register copies lie within bounds of the same kind
(`RegistersBounded`).

`FsckProofs` proves what holds of the whole of `mini_ext2`, commands and kills included, for
every geometry and all paths, texts, modes and users (`GeometryAssumption`,
`ReadClear = {}`: blocks without a bit look used, otherwise `last_blocks` is the
counterexample). The invariant is `IInv`: as long as no delete was killed the image
is `Sound`, and as long as nothing was killed its counters are exact. `Sound` says

- the types (`Images`): an indirect block that an inode has holds pointers, though it is
  a block of cells as any other; a new one comes cleared and only `set_block_ptr` writes to it;
- `Owns`: `Ptr` gives the pointer at each of the `Places` of an inode, the direct ones, those
  in the table and the table itself; no two places have the same block, and every block
  at a place has its bit;
- `Full`: below the size of a file each place has a block, and no block of a file holds
  directory entries.

A function of `inode.c`, `dir.c` or `file.c` works on a copy of the inode that reaches the
image with its last write. `Holds` relates the two, as `Copy` does in
`BlockAllocProofs`: the copy has the inode's places and perhaps more, and those are
nobody else's. Each function leads from `Contexts(Safe(O, K))` to itself. `Safe(O, K)`
are the good images that have the inodes in `K`, their blocks and their bits as one
of the images in `O` has them (`Untouched`), so each lemma is about every write of
the command, killed there or not, and about whatever it must leave alone: `K = {}` for
`IInv`, one file for the two theorems below. Loops (`FoldLeft`) go through contexts of
which `Turn`, `Through` and `RunOn` speak, one turn at a time. `delete` gives its blocks
free before it clears the inode, so it goes through images that are not sound. `Freed` is
what holds on the way, and why a killed delete is left out: `KillTolerant`, by TLC, says
what it may leave.

- `AlwaysSound`: `Spec => []IInv`. From it `KillsKeepOwnership`, `CountersStayExact` and,
  when nothing is killed, `UndisturbedImage`.
- `ProtectionHolds`: the inode that a `writef` of somebody without the right reaches by its
  path is not written to (`Avoids`), and no block of it is at a place of another.
- `OthersLeftAlone`: `OthersUntouched`, at every write of a command. The argument needs
  to know that a path that leads to a file after `mount` led there before it (`SameWay`).
  `mount` may create `/.users`, which takes a free inode `j` and an entry, and a name that
  a `delete` left behind (item 5 below) may lead to that same `j`. `Sees` says that in every
  other directory a lookup finds what it found before, or `j`; `j` is a file, so that no
  path goes on from there (`Leads`).

`UnsetParent`, the inode that `namei_parent` leaves when it fails before it has set one, is
any value in all of this.

None of this is induction over data with a theorem of the library, which would need an
operator as a parameter. `LeastElement` (`SetLemmas`) takes its place: the set of the
numbers for which a claim fails is empty, since it would have a least element. In
this way the recursive functions inside `FoldLeft` and `SumFunction` are shown to exist
(`RewriteExists`, `SumExists`) before anything is said of their values.

Only model-checked:

- liveness, which is beyond the prover as `ENABLED` is;
- the tree (`TreeShaped`, a part of `KillTolerant`) and `StaleNameAnswers`. That the image is a
  tree is checked in the instance of `kills`, and it is not so for all constants: a
  directory made on a full device (item 6 below) can be deleted with files in it, which
  then have no name, and so can one with directories in it that then have no parent;
- `DeleteOrphans`, which says that this is the only way: what a `delete` leaves without a
  name are children of a directory without entries of its own. It happens in `commands`;
- `LeakBound`, `FailsAtALimit`, `WritingOverDirectory`, `RetryDelete` and
  `SuccessSurvives`, which compare the results of whole commands, and say that a command
  gets through when nothing stands in its way; `FsckProofs` says what commands leave
  alone, whether they get through or not;
- `Implements` (`FileStore`), which rests on the tree as well: what it maps to is the set of
  all paths.

Some theorems are about types (`TypeCorrect`, `MemSimTypes`, `CounterTypes`, `TypesHold`) and
some about invariants (`Invariance`, `GoodHolds`, `AlwaysSound`) that are part of no run.

## Two commands at once

`BystandersSafe` says how far the damage of overlapping commands can reach: a file that
none of them is given keeps its name, inode, blocks and contents, though they write back
the blocks in which its bit, its inode and its name lie. For this the image has to be
`Clean` when they begin: `Sound` (no inode has two names, no block two inodes, and what is
named is marked used), `Cleared` (an inode without a name lists no block) and
`NothingBehind` (no entry behind the size of the root directory). The last two were found
by the attempt to prove it without them. Commands that overlapped before can leave an
entry behind that size, and the next name entered uncovers a file; or an inode that lists
a block that is not its own, and the next file that gets this inode then writes to it.
`OneWriterOwns` says that readers count: `fs_read` writes its inode back for the access
time, so a reader that began before a writer can undo what the writer did to the table,
and make a finished `create` or `writef` vanish. It never makes two names lead to one
inode, or two inodes hold one block. With two writers that fails: with one allocation
each, both can take the same block (TLC finds it at once when the bound on writers is 2).
The code promises nothing about this, so it is no run. A reader that overlaps a `delete`
may also leave a free inode with its old block in it; from such an image (`Cleared` is
false) one more reader and one `create` make the freed block part of the new file, so
`OneWriterOwns` is about images without such inodes.

## Where the code and its documents differ

Each of the first three is a run that TLC ends with a counterexample.

1. `last_blocks`: `alloc_block` (`bitmap.c:29`) goes on to block 4610 with a bitmap of
   4096 bits. When the first 4096 blocks are used, it hands out one block again and
   again; a file then reads back as something else, against `file.c:30` ("the newly
   allocated block is cleared") and `README.md:115-116`.
2. `login_persists`: once root has logged in, the logins of others are not saved
   (`security.c:169`), against `README.md:231`.
3. `signal_missed`: a signal between the test of the flag and `pause`
   (`softint.c:68`) leaves its receiver waiting for ever, against
   `softint.c:11-12`. It can be the parent, at the alarm, or a child.
4. `README.md:86` says delete removes an empty directory; a directory that ever
   held a file is refused for good (`cli.c:115`, `dir.c:51-65`).
5. A file with a name of 56 characters or more is freed by delete and keeps its
   entry (`cli.c:122` against `dir.c:58`), which then leads to the next file that
   gets its inode (`StaleNameAnswers`).
6. A directory made on a full device has no entries of its own (`cli.c:56-57`)
   and is later deleted with up to two files in it (`cli.c:115`), against
   `README.md:86`.
7. Blocks of a write that ended with ENOSPC stay marked for good (`file.c:224`),
   against `README.md:225`.
8. `writef` on a directory overwrites its entries (`file.c:131`), against
   `dir.c:4`.
9. `useradd` accepts names and passwords that can never log in (`security.c:57`,
   `204`), against `README.md:126-140`. It also accepts words with a `:`, and so does
   `password` (`security.c:204`, `239`), which `parse_line` takes for the next field
   (`security.c:47-66`): `useradd bob a:0` makes an account with uid 0, the uid of root, and
   `password ann x:0` changes ann's uid to 0, though `README.md:127` says it changes a
   password. So `AccountsDistinct`, `RewriteKeepsAccounts` and `SessionIsAccount`
   are about words without one.
10. `format` does not create `/.session` (`README.md:68`); `cd` and descriptors do
   not outlive the command that made them (`fs.c:53-54`), against
   `README.md:85` and `103-105`; `password` takes a name and the new password,
   not the old and the new one (`README.md:127`).
11. Only root can change a password, since `/.users` belongs to root
    (`security.c:215`), against `security.c:208`.
12. The comment at `pipe_communication.c:57` says a child sleeps to let the
    reader read; the reader begins when both children are gone (lines 91-92).
13. `mount` of a device whose `format` was killed can print `[OK] mounted` and use a
    superblock of zeros (`fs.c:50-52`), which it then writes back: no image is left.
14. `FS_EISDIR` (`fs.h:40`) is never returned.
15. `delete` asks for no permission (`cli.c:111-123`): any user can delete any file, one with
    mode 0600 of another as well, against `README.md:285` (permissions as in UNIX) and
    `README.md:308` (users can only reach files of their own). `ProtectedFilesKept` is about
    `writef` and `writefile`.

(`README.md`, `cli.c`, `dir.c`, `file.c`, `fs.c` and `security.c` are those of
`project3`.)

## Not modelled

- In `mini_ext2`: timestamps, link counts and what `ls` and `readf` print (nothing
  else reads them); host I/O that fails in `dev.c`; an image after a directory block
  was taken for an indirect block (`DirBlockAsTable`, after a torn truncate
  only); a process that dies of its write behind the bitmap (it is then a kill);
  `/.users` and `/.session` read or written by file commands; `ls` of a directory of
  more than 10 blocks, which `dir_add` never makes but `writef` on it can.
- In the other programs: failing `fork`, `pipe`, `pthread_create` and reads; what
  is printed; leaving `memsim.c` (`do_exit`); sizes near the limit of `int`.
- `util.c`: formatting. The `fork`/`exec` exercises: no state.

## Plan

Done: `BlockAlloc`, `MemSim` and `SharedCounter` with their proofs, `MiniExt2` with
`FileStore` and the proofs about the image; `TwoCommands`, `Session`, `SoftInt` and
`PipePair` with theirs.

1. An abstract block pool that `BlockAlloc` implements.
2. `Session` on the files of `MiniExt2`.
