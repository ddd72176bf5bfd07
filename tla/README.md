# Models of NJU-OS-Lab

TLA+ models of the kernel of this repository and of its two libraries with state
worth modelling, `libkvdb` and `libco`; TLC configurations that check small
instances, and TLAPS proofs for every size. `PROJECT.json` lists, for each
definition, the lines it stands for; the properties are stated in words above
their formulas.

    tlc -config MCSpinlock.cfg MCSpinlock      # one run; the others likewise
    tlapm SpinlockProofs.tla                   # the proofs; also of Semaphore, Kmt,
                                               # Pmm, Input, Tty, Libco and Vfs

## The system

An operating-systems course project. `kernel/` is a kernel for several processors
over an abstract machine (AM, here on QEMU's x86); the other directories are
programs of their own.

| part | state | operations | uses |
|---|---|---|---|
| spinlocks, `kmt.c` | `cpu_cli[]`: nesting count and `hasIF` of each CPU; `locked`, `cpu` of each lock | `pushcli`, `popcli`, `spin_lock`, `spin_unlock` | `_atomic_xchg`, the interrupt flag |
| semaphores, `kmt.c` | `value`, a spinlock | `sem_wait` (polls and yields), `sem_signal` (also from traps) | spinlocks, `_yield` |
| tasks, `kmt.c`, `os.c` | `tasks[]`, `currents[]`, each task's state and context | `create`, `context_save`, `context_switch`, `trap` | `trap_lock`, AM's `iret` |
| heap, `pmm.c` | free list in the memory itself, magic numbers | `alloc`, `free` | `pmm_lock` |
| keyboard, `input.c` | the controller's queue, modifiers, the ring of events | `input_notify` in a trap, `input_task`, `pop_event` | two semaphores, a spinlock |
| terminals, `tty.c`, frame buffer, `video.c` | of each terminal: cook queue, `cooked`, text window, `lock`; the current one; the screen | `tty_task` with cook and switch, `tty_read`, `tty_write`, `tty_render`, `fb_write` | keyboard, semaphores |
| block file system, `blkfs.c` | inode blocks, block types, directories; a copy of the inode in each file | `fs_mkdir`, `fs_rm`, `fs_link`, `fs_readdir`, `fs_lookup`, `inode_open`, `inode_read`, `inode_write`, `inode_lseek` | ramdisk, `info->lock` |
| VFS, `vfs.c` | mount list, each task's `fildes`, list of files, `vfs_lock` | `open`, `close`, `read`, `write`, `lseek`, `mkdir`, `rm`, `link`, `readdir`, `access`, `mount` | file systems |
| procfs, devfs | of an open file: its text, its place | lookup, open, read, write, readdir | task list, devices |
| streams, `io.c`, `buffer.c` | a buffer for each open file | `fsOpen`, `fsClose`, `fsGetLine`, `fsPutChar`, `fsFlush` and others | VFS |
| paths, `path.c`, `string.c` | none | join, directory, name, walk | |
| shell, `shell.c` | `cwd`; of each command that runs: words, redirections, streams | fourteen commands, `sh` scripts, redirection | streams, VFS |
| AM, `am/src/x86/qemu` | interrupt flag, stacks, `apboot_done` | `_cte_init`, traps, `_mpe_init` | hardware |
| libkvdb | a file of records; a handle with a mutex | `kvdb_open`, `kvdb_close`, `kvdb_put`, `kvdb_get` | stdio, `flock`, `sync` |
| libco | `coroutines[]`, `current_co`, contexts | `co_start`, `co_yield`, `co_wait` | `swapcontext` |
| pstree, sperf, crepl, frecov, amgame, AM's apps and libraries | none that outlives a call, or third-party | | |

They meet in a few places. Everything takes spinlocks, from tasks and from traps.
A semaphore is a counter under a spinlock and gives up the CPU through the
scheduler; the keyboard's trap signals one. `tty_task` reads the keyboard's ring;
programs read the terminal through the VFS. Traps interrupt a task anywhere its
interrupt flag is set, and save it on one CPU to resume it later. The shell finds a
command by reading its handler's number from a file in /bin, and some commands are
lines for the same shell: `cp` is a `cat` with redirections, `mv` an `ln` and an `rm`.

What is hard here: traps between any two instructions of a lock (nesting counts
and flags are shared by a task and its trap); a CPU that is still on the stack of a
task that others see as free; a heap whose bookkeeping lies among the data;
a terminal that is drawn while it is written and switched; counters and rings that
several tasks move; records that a crash tears, behind two layers of buffers;
contexts that may be used once; copies of inodes that outlive the lock under which
they were made; and commands that execute commands, each with files of the task and
buffers of its own, of which any may fail half way. `PROJECT.json` has the hazards by line, and for each the
properties that would show it, or why none does.

## The modules

Each takes its parameters as CONSTANTS, with named assumptions; an `MC` module and
a `.cfg` give them values. Operators named after a definition with a suffix
(`delete_filedir_Last`) are that definition with a plausible error; no
specification uses them. They are there to show that the property fails with them.

**Spinlock** (kmt.c 10-50, 281-340; mpe.c, cte.c for the instructions). For each CPU
the interrupt flag, `count`, `hasIF`, and a program counter for the task and one for
the trap that may interrupt it; for each lock `locked` and `owner` (`lk->cpu`). One
action per instruction another CPU or a trap could see: reading the flag, `cli`,
the increment, the exchange, the write of `lk->cpu`, its erasure, the release, and
`popcli`'s decrement and `sti`. `is_holding_spin` runs with interrupts off and is
part of its caller's step. Clients take locks in a fixed order and a trap returns
with none, as in the kernel. **LockAbs** is the abstract lock.

**Semaphore** (kmt.c 342-401). A process that waits or signals is at one of the
steps of the code; the value is loaded and stored in two. The semaphore's spinlock
is a variable that one process holds, which is what module Spinlock shows of it.

**Kmt** (kmt.c 54-274; os.c trap and its handlers; cte.c and cte_trap.S). A trap takes
`trap_lock`, saves the context, perhaps notifies, switches, gives the lock back and
only then leaves the old stack. A context is how far its task had come. `create`
runs before the processors start; `NTask >= NCPU`, or the search in
`context_switch` would not end.

**Pmm** (pmm.c). Memory is an array of cells with a mark for node headers, block
headers and data; `alloc` searches first fit and splits, `free` merges with both
neighbours; owners write to their blocks. **HeapAbs** is what callers are promised.

**Input** (input.c, keymaps.c, AM's input.c). The controller's queue and its one
pending interrupt; `input_task`, which drains the queue, and readers, each with the
steps between which others run. A ghost, `typed`, is what an observer of the keys
would have written down.

**Screen** and **Tty** (tty.c, video.c). Screen has the operators on text: what a
character does to the window, and `Tape`, the independent definition of what the
window should show. Tty has the tasks: a critical section of `tty->lock` is a step,
but rendering is a step for each cell. **LineAbs** is the line discipline.

**Kvdb** (kvdb.c). Threads of processes, the file as pieces, what stdio holds, what
is on the disk, `flock` and the mutex, which `kvdb_put` and `kvdb_open` keep when they
fail; a crash keeps any prefix of what was not synced. `find_db` is a fold over the lines of the file. **KvAbs** is the map.

**Libco** (co.c). Each action is a library call up to where user code goes on;
`swapcontext` uses a context up, and going to a used one sets `wild`. A handle is a slot
with the number of the coroutine that was started there, and may be older than the one
there now. `Below` is the stack of resumes; `WaitBelow` says whether a thread may wait
for a coroutine in it.

**Blkfs** and **Vfs** (blkfs.c, vfs.c). Blkfs has the file system as operators from a
disk image to the image after a call and, if an assertion failed, which. Vfs has the
tasks with their tables of files; a file keeps the copy of its inode that `fs_lookup`
made, and `inode_write` stores the whole copy back, as the code does. Between
`fs_lookup` and the making of a new file another task can step in; of other opens
everything after `fs_lookup` is the task's own, so they are one step. Data is a
sequence of units, each known by the inode through which it was written. The disk
is that of /mnt, which start-up formats and leaves empty. `lost`,
a ghost, counts the names that were removed with their directory.

**Paths** (path.c, `get_mount_fs` of vfs.c). A text is a sequence of symbols, of which
one is the slash; the functions cut and join it as the code does, which treats a slash
at the end, the root and a relative name each in its own way. Blkfs takes the names of
a path one by one, as `path_next_name` gives them.

**Pseudofs** (procfs.c, devfs.c). The two file systems without a disk, each with a root
and files in it. The text of a file of /proc is one line; it is shorter than a stream's
buffer, as the 128 bytes of the code are.

**Io** (vfs.c, io.c, buffer.c). What one task sees: the mount list and a disk for each
block file system, its table of files, a buffer for each stream. These are operators
from the record `sys` to what follows a call, so a call that fails leaves what it did
before it failed. Text is units (the words before a line's end, or the end), so a buffer
holds a number of units. What a terminal shows is not kept.

**Shell** (shell.c, the start-up in vfs.c). The state is a stack of commands, the topmost
in one of the stages of `execute_command`: find the handler, open the redirections, run,
free. A step is a stage, or a character of `cat`, or a line of `sh`; a command that
executes another pushes it and goes on with its result. Between two steps the
others of the stack wait, as in the code's recursion. /bin holds the fourteen commands;
of start-up's other files and directories there is none. `where`, a ghost, is the
directory a user thinks to be in, as a sequence of names.

Spinlock shows what Semaphore assumes of its lock; Semaphore what Input and Tty
assume of theirs (counters, waited for and signalled at once); Input delivers the
events that Tty takes. These are not composed in one state space: each is a small
interface, checked on one side and assumed, by name, on the other. Pmm's calls run
under a spinlock, and Kmt's under `trap_lock`, and so are steps there. Tty extends
Screen, Vfs extends Blkfs, Io extends Blkfs and Pseudofs (which extends Paths), and Shell
extends Io: that is one state space from a typed line down to the blocks of two disks.
Vfs has several tasks on one disk, with single calls; Shell has one task on all mount
points, with the long sequences of calls that commands make.

## The runs

| run | instance | states | shows |
|---|---|---|---|
| spinlock | 2 CPUs with task and trap, 2 nested locks | 40,992 | exclusion, accurate owner, no panic, interrupts restored, LockAbs, the innermost lock is freed |
| semaphore | 2 users, 1 producer, 1 consumer, value up to 2 | 127,868 | no signal lost or used twice, never negative, some waiter passes |
| kmt | 2 CPUs, 4 tasks, 2 steps of progress | 137,381 | no shared stack, no stale context, Working is current, round robin |
| pmm | 9 cells, requests of 0 to 3, headers of 1 | 21,787 | nodes, in order and apart, and blocks tile the heap, magic is truthful, alloc fails only for want of a gap, HeapAbs |
| input | ring of 3, 2 readers, 4 scan codes | 306,620 | keys in order under their modifiers, halt only for a full ring, delivery |
| tty | 2 terminals of 2 by 2, 2 programs, queue of 4, 5 events | 245,087 | `cooked` agrees, LineAbs, the window is the text, the screen settles |
| kvdb | 2 threads, 2 keys, a small and a big value, 3 puts, 1 crash | 1,029,616 | KvAbs, completed puts are found, a crash loses at most the last put |
| libco | 4 slots, 5 coroutines, 2 calls each, no wait for one below | 719,843 | no context used twice, each saved where it will be needed, waits end with what they wait for |
| vfs | 2 tasks, 3 inodes, 2 blocks, 2 entries, 2 names, data of 2 | 384,912 | entries name inodes in use, counts are the names, blocks have one owner, data is the file's own, sizes shrink only through old copies |
| shell | 4 lines of 39; 2 disks, /proc, /dev; 5 files a task, files of up to 8 units, buffers of 3, lines of 2 | 339,969 | files are given back, paths lead where their names say, a copy has the text, `mv` moves, every line comes to an end |
| kmt_early_key | 2 CPUs, 2 tasks | violation | kmt.c:387's assertion: a key pressed during boot makes the first trap a signal with no current task |
| vfs_link_open | as vfs, links to open files allowed | violation | blkfs.c:641's assertion: a write through an old copy undoes a link's count |

The instances are small, but the interesting cases fit. Two CPUs and two locks
have every nesting and every place for a trap; a third lock or CPU adds only
repetition, and the proofs cover it. Four tasks on two CPUs give each CPU a task to
leave and one to go to, so round robin has a meaning. Nine cells fit three blocks
with gaps of every size on both sides, so all four merges and the exact fit
happen. A ring of three wraps and overflows within four codes; a cook queue of four
fills with a line of three. A 2 by 2 window scrolls at its end. Three puts are
enough for an old record, a new one and one torn between them. Four coroutines nest
so that an inner one yields past the middle one, and a fifth takes a slot again. In vfs there are more inodes than
blocks, as on the real disk (4080 and 3984), directories two deep, in each other and
in themselves, two names for an inode, paths of two names, and inodes and blocks that are used
again. Four
lines are enough to write a script, make it call itself or name it as a command, and run
it; five files, two of them the terminal's, run out at the third level. A list of
the root has eight units and just fits a block, so `cp` of it reads in three parts, onto
another file and onto itself; with one more directory it has nine, and the shell
stops in `fsFlush`. The 39 lines meet each other on the same
few names, also below a second disk, /proc and /dev.

Each bound on a counter is a constant that appears in a guard: `MaxValue`, `MaxWork`,
`MaxRequest`, `MaxCodes`, `MaxEvents`, `MaxPuts`, `MaxCrashes`, `MaxCalls`,
`MaxStarts`, `MaxRef`, `MaxPath`, `MaxLines`; `MaxSize` is
what a block of data holds, and `CAP` and `LINE` are sizes of buffers. `CHECK_DEADLOCK FALSE` is there where the program really
stops: when it halts, when the bounded calls are used up, and in vfs when `link`
leaves `vfs_lock` held.

**Symmetry** is over programs in tty, threads in kvdb, and tasks and names in vfs;
no action tells them apart, and none of these runs checks liveness.

**Fairness.** Spinlock: weak, for what a CPU does in a section, while it spins and
when a trap returns (CPUs run); none for taking a lock or for a trap to arrive.
Semaphore: weak, for each process inside a call: after `_yield` a task is switched
to again, which is RoundRobin in kmt. It is enough for NoLostWakeup, not for every
waiter: there is no queue, and the code promises none. Input: weak, for the
interrupt to be taken, `input_task` and the readers. Nothing is assumed of users of a
keyboard, a disk or a library. Shell: `Scheduled`, weak fairness of the steps where the code
goes on without the user (`Ready`), because the scheduler switches to the task again and
again; some step is possible there, or TLC would find a deadlock (`Rest` steps where it
is not Ready, and nowhere else). Nobody has to type.

## What is proved

SpinlockProofs, for any finite set of CPUs and any number of locks: `TypeCorrect`,
`Exclusion`, `OwnerIsHolder`, `PanicFree`, `InterruptsBalance`, and `Refinement`, that
Spec implies LockAbs. The properties are not inductive: that no two hold a lock
needs that a held lock is taken and names its holder, except between the exchange
and the next line; that no assertion fails needs that the count of a CPU is the
number of locks of the code that runs, plus the push or pop in progress, which in
turn fixes both flags. `IInv` adds these (`LocksOK`, `FlagsOK`). There is a
lemma per action, under it a step per conjunct it can disturb, and the cardinality of
`held` is counted by FiniteSetTheorems. The assumptions are those of the module: a
finite set of CPUs and at least one lock.

SemaphoreProofs, for any users, producers and consumers, pairwise disjoint, and any
initial value: `Conservation` and `Nonnegative`. The invariant says who is in the
section, that its loaded value is the current one, and that a process past the test
has seen a positive value.

KmtProofs, for any number of CPUs and of tasks, at least one task for each CPU:
`TypeCorrect`, `StacksExclusive`, `ContextsFresh`, `RoundRobins`. That two CPUs are never on
one stack needs more than the states of the tasks, because the old task is Free while its
CPU is still on its stack: it holds because a task that was current is current only
on that CPU again (`CurrentPinned`), and a CPU is on the stack of its own task or of one
pinned to it (`StackPinned`). `Loaded` and `Saved` say that
a saved context is as far as its task, except between a trap's entry and its save;
`Turns` relates the search's start to who ran last; `BootAlone` and
`LockHeld` say who may be where before the processors start and under `trap_lock`.
`WorkingAreCurrent` and `SignalsHaveTask` have the hypothesis `~EarlyKeys`, that no key
interrupts before CPU 0's first switch. The code does not ensure it; the run kmt_early_key
shows that without it the second one is false, so the theorem says that
this is the only way.

PmmProofs, for any size of heap and of headers and any requests: `HeapIsTiled`,
`HeadersStayIntact`, `FailsForWantOfRoom` and `RefinesHeap`, that Spec implies HeapAbs.
`HeapIsTiled` has in it that the list is in order and that no two of its nodes touch.
Inductive is: the list is in order and no two of its nodes touch, blocks are apart, the
nodes cover exactly the cells of no block, and a magic is in the headers of blocks and
nowhere else. First fit and the search for a position are least and greatest elements of
sets of indices, whose existence follows from the well-foundedness of finite subsets; the
lemmas `FindSize`, `FindPosition`, `InsertAtIs`, `RemoveAtIs` and `CombineIs` say what the
operators on the list return, and `MergedIs` what `free` leaves after its two
merges. That `alloc` fails only for want of room follows because a run of free
cells lies in one node, or two nodes would touch.

InputProofs, for any ring, readers and keys: `HaltsForFullRing` and `KeysStayInOrder`. The
invariant has three parts while the machine runs. `RingOK`: events popped, in the ring and being
pushed are those typed. `CountOK`: the semaphore, the readers past it and a signal
still to come add up to what the ring holds; this is why a reader never finds
it empty. `Replayed`: replaying the codes that are still in the controller from the
modifiers that `input_task` has gives the modifiers of the keyboard and the rest of
what was typed; a key's translation is then that of the moment it was pressed.

TtyProofs, for any terminals and programs, any length of the ring and any size of the window:
`ScreenSettles`, `WindowsShowText`, and, for keyboards without shift-return
(`"nul" \notin Char`; with it they are false, below), `CookedCounts` and `LinesAreKept`, that
Spec implies LineAbs. The proof of the lines has two layers. The ring is related to the sequence
of characters between its ends: `Enqueue`, `PopBack` and `ReadLine` say that the operations of tty.c append,
take off the last and take off the first line, from `QueueOK`, that there is a 0 at the rear and
one before the front; that is why `tty_pop_back` cannot leave the queue. The sequence is
related to its lines: `AppendChar`, `AppendEnd`, `EraseLast` and `DeliverFirst` count and shift
the 0s. `Agree` then says that `cooked` and the readers that passed it are as many as the 0s, so a
reader's line is there. Settled needs that the current display is `tty_task`'s terminal except
during a switch, and that each cell is right or about to be drawn by somebody (`Drawn`); it does not
need the lock. ShowsText is a simulation of the tape (`Sim`, `StepSim`): the window's top is a
multiple of the columns and nothing is written below it. What the characters of a string do
one by one is a recursive function; that it exists (`Iterates`), and that the simulation holds
at each of its values (`WriteSim`), is shown from the least place where it would not.

LibcoProofs, for any slots, calls and coroutines, under the hypothesis `~WaitBelow`:
`NoStaleSwitches`, `ContextsAreSound`, `WaitsForTheEnd`. The invariant orders the stack of
resumes (`ResumesOK`, `NoCircle`): a coroutine on it has a resumer on it, or main, no two have the same,
and the running thread is the one that resumed nobody. `SlotsOK` ties the states to it: RUN and BEWAIT
are on it, SUSPEND has a saved context, FREE has returned. `HandlesOK` says that a handle leads to its
coroutine until that has returned, `WaitsOK` that a wait that is not over keeps its coroutine BEWAIT and
resumed by the thread that waits. The hypothesis is about callers and is needed (below).
`MainAlone` shows that nothing is below the main program while it runs, so its waits meet
the hypothesis; libco/tests/main.c waits nowhere else.

VfsProofs, for any tasks, files, names and lengths of paths, and any numbers of inodes, blocks,
entries and units of data, under the hypotheses `~LinkWhileOpen` and `~RmWhileOpen`, that no name
of an open file is made or removed: `EntriesAreSound`, `RefcntIsExact`, `BlocksAreSound`, `DataIsOwn`,
`SizesAreKept`. The code ensures neither hypothesis, and both are needed (below). `EntriesAreSound` has in it that
the assertion of `get_path_inode` (blkfs.c:641), which the run vfs_link_open shows violated,
does not fail. None of the properties is inductive. The counts
say nothing if entries do not name inodes in use, entries name inodes in use only because an inode
goes with its last name, and neither survives a write through a copy that is wrong about the inode. So `IInv`
has all of it together. `Sound` is about an image: each block in use is one inode's (`Owned`), the root is a directory
and directories are in order (`Tree`), the data of a file is its own and a directory has none (`Written`). `Counts` has
the numbers of names, and `Kept` is what stays true of an open file's copy: the file is there,
with the same type, block and count, and what it can read by its own size is its own data; only the
size may be old. The hypotheses are needed for the count in `Kept`, and for the file's being there at all.

Beneath the steps there is a lemma for each operator of Blkfs (`AllocIs`, `CreateIs`, `DeleteIs`, `PathEnds`,
`MkdirIs`, `FsLinkIs`, `RmIs`, `WriteIs` and others): from a sound image it leaves a sound one with the right counts, and
fails only for want of a block or an inode, or of a directory. What creating, entering, striking
out and freeing do to the number of names is counted with FiniteSetTheorems, also where a directory
is freed that names itself (`FreedCounts`). `get_path_inode` is a recursive function; that it
exists (`Iterates`), and that each of its values is an inode in use (`PathIs`), is shown from the
least place where it would not.

Only model-checked: Kvdb, Shell, and what is out of the prover's reach:
EventuallyFree, NoLostWakeup, Delivered and PromptReturns (liveness under fairness). Visible of
Kvdb has no proof yet: it holds for the threads of one process, and needs what the two recursions of `find_db`
give after each append to the file; the way of `Iterates` should do for that. FilesReturned and PathsSound of Shell
have none either: they are about the stack of commands and about Io, whose calls fold over texts and
streams, and nothing is proved about these.

## What the models leave out, and what was seen on the way

- Vfs assumes that calls on blkfs do not overlap. `inode_open` and `inode_write`
  change directories and inode blocks without `info->lock`, read-modify-write; two of
  them at once lose updates.
- Vfs also assumes that no name of a file is made or removed while a file refers to its inode. Neither
  vfs.c nor blkfs.c asks. `vfs_link_open` shows what a new name does. With RmWhileOpen = TRUE in MCVfs.cfg TLC
  finds RefcntExact and BlocksSound false by `open` of a new file, `rm` of it and a `write` that makes the old copy
  longer: the inode is in use again, with no name, and its block is not; and OwnData, when the block
  of a removed file that is still open is given to a directory. With three blocks, and calls on files
  in the root alone, two such files lead to the assertion of `block_free` (blkfs.c:216): the first one's write
  brings its inode back, so a new file takes the inode of the second; the second one's write puts its own
  old block, which is free, into that inode, and `rm` of the new file stops there. Such a write can also put data where a directory's
  entries were; what the code reads there is not modelled, and TLC stops with an error where it is
  evaluated. Hence no run with that value.
- `link` across mount points returns with `vfs_lock` held (vfs.c:581). Vfs has it as an
  action after which no call begins; in Shell `mv` to another disk stops the system.
- The shell's paths: `rm` and `mkdir` put the current directory before any path, `ln`,
  `cp` and `cd` take an absolute one as it is, so `mv /f g` from elsewhere copies the
  name and does not remove the old one; ".." as a new name makes an entry without a
  name. MovesFile leaves these two out by name.
- "/mntx" belongs to the file system at /mnt (vfs.c:282), with the rest "tx", which an
  assertion refuses: `cd /mntx` stops the system, in the model too.
- A script that runs itself takes a file at each level until the table is full and
  `fsGetLine` asserts; `fsClose` writes what a stream still holds, so `sh` that ends
  before its script does (a command failed) stops in `fsFlush`'s assertion. The model
  stops there too; PromptReturns counts it as an end.
- A put that returned may be lost in a crash, although README.md:46 of the repository
  calls the store persistent: `sync` is called
  while the record is still in stdio's buffer.
  CrashToPrefix bounds the loss to the last put.
- `rm` of a directory with entries leaves them counted for ever (`lost`), and a link to
  "/" makes an entry without a name, which nothing can remove. Paths through a file
  and operations without a block end in assertions; the model stops there.
- Shift-return is the character 0 (keymaps.c), a second end of line that `cooked` does
  not count. The run's keyboard has no shift-return; with it CookedAgree fails, so
  two theorems of Tty have it as a hypothesis.
- `dirty[]` in tty.c begins set and is never cleared: every render draws all cells.
- After a crash that leaves a header alone, libkvdb takes the next two lines for value
  and END, so a later put can stay unseen; and since the lock goes before the buffer
  is written, two processes' large records can mix. So Visible is stated without
  crashes and for the threads of a process.
- `co_wait` writes BEWAIT over the state of what it waits for, so `resume_co`'s check of the
  state passes (co.c:98) even if that one is below the caller on the stack of resumes,
  and its context is used up. With WaitBelow = TRUE TLC finds NoStaleSwitch false, in two ways. An old handle: main starts
  `a`; `a` starts `b`, which returns, and yields; main starts another in the slot of `b`, which yields; main waits for it, its
  yield resumes `a`, and `a` waits with the handle it has. Good handles: main starts `a`, `a` starts `b`, `b` starts
  `c`, each of them yields; main waits for a fourth, whose yield resumes `b`; `b` waits for
  `c`, whose yield resumes `a`; `a` waits for `b`. The run and the proofs are for callers that wait for nothing below them.
- `teardown` of tasks does nothing to the scheduler; `mount` and `unmount` after start-up
  and the unused list of files are in no module. In Shell, words, lines and numbers of
  arguments fit their arrays, messages are not cut, there is one shell (its three
  sisters have terminals and tables of their own and share the disks), and no device but
  the terminal is opened.

## Not modelled

The reasons are in `PROJECT.json`: the boot loader and the kernel's start-up code, fonts, the
ramdisk, klib, AM on Linux, AM's applications and third-party libraries, pstree, sperf,
crepl, frecov and amgame. Most lines of the repository are among these: imgui, the
tables of fixmath, the emulator and its ROM, benchmarks. Of the kernel's own files and the two libraries
with state, every one with operations that change state is modelled at least in part.

## Plan

The order was: what everything rests on (Spinlock with its proofs, Kmt, Pmm), then what
uses it (Semaphore, Input, Tty), the libraries, the file system, and the shell with its
streams and paths over it. What is next:

1. The overlapping calls of blkfs at the grain of block reads and writes, for what still
   holds then; two shells whose commands interleave; `mount` and `unmount`.
2. With the lemmas of VfsProofs about Blkfs: FilesReturned and PathsSound of Shell; then
   Visible of Kvdb as far as its recursions allow.
