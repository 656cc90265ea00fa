# A TLA+ model of JOS

The repository is JOS, a teaching operating system for one x86 CPU: an exokernel-style kernel
(`src/kern`), a user library that builds fork, descriptors, pipes, IPC and process creation
from a few system calls (`src/lib`), a file server that runs as an ordinary environment
(`src/fs`), and user programs. This directory holds a model of it in TLA+, model-checked with
TLC and in part proved with TLAPS.

What makes this system hard to test, and what the modules follow:

* the kernel hands out, shares and takes back physical pages by reference counts while
  environments create and destroy each other (`Pmap`, `Kernel`);
* the library builds messages, fork, descriptors and pipes from single system calls, and the
  clock may interrupt it between any two of them (`Ipc`, `CowFork`, `FsServer`, `Pipe`);
* the file server keeps a write-back cache of the disk in pages whose dirty bits tell what must
  be written, and the power may fail (`FileSystem`);
* devices, the real-time clock and page faults cut in where nobody expects them (`Interrupts`,
  `Console`, `Clock`, `Upcall`);
* the rest is algorithms with many edges: loaders, formats, names, symbol search, the layout of
  memory and of the disk at boot.

Contents: [Inventory](#inventory), [Modules](#modules), [Runs](#runs), [Bounds](#bounds),
[Fairness](#fairness), [Proofs](#proofs), [What the checks found](#what-the-checks-found),
[Not modelled](#not-modelled), [Plan](#plan).

## Inventory

The build modelled is the default one: `CONFIG_KSPACE=n`, `LAB=12`. There is one CPU; the kernel
runs with interrupts off, so everything between a trap and the return to user mode is one step.
Environments run in user mode with interrupts on and are switched by the clock.

| Component | State | Operations | Interacts by | What makes it correct | Module |
|---|---|---|---|---|---|
| Physical pages, address spaces (`kern/pmap.c`) | `pp_ref`, free list, page directories and tables | `page_alloc`, `page_free`, `page_decref`, `pgdir_walk`, `page_insert`, `page_lookup`, `page_remove` | called by env and syscall code | counts equal pointers, no page freed in use, tables never user-writable | `Pmap` |
| Memory at boot (`mem_init`, `entry_pgdir`) | the size of memory, `nextfree`, free list, `kern_pgdir` | `boot_alloc`, `page_init`, `boot_map_region`, `lcr3` | what `Pmap` starts from | the list is what nobody uses, the map is that of `memlayout.h` | `BootMemory` |
| Environments (`kern/env.c`) | `envs[]`: status, id, parent, free-list ring; `curenv` | `env_alloc`, `env_free`, `env_destroy`, `env_run`, `envid2env` | system calls and traps | free slots first, ids name one life of a slot, teardown returns every page | `Kernel` |
| Scheduler (`kern/sched.c`) | `curenv`, `env_status` | `sched_yield`, `sched_halt` | every trap | exactly one running, never idle with work, no starvation | `Kernel` |
| System calls, traps (`kern/syscall.c`, `trap.c`) | the above | fork, destroy, status, trap frame, page, IPC calls; faults; clock | user programs | permission checks, all-or-nothing effects | `Kernel` |
| Page fault upcall (`trap.c`, `lib/pfentry.S`) | registers, the two stacks | `page_fault_handler`, `_pgfault_upcall` | processor, handlers | the program does not notice | `Upcall` |
| Device interrupts (`trap.c`, `picirq.c`) | the controllers' requests and masks | `trap_dispatch`, `pic_send_eoi`, `irq_setmask_8259A` | devices | nothing is held back | `Interrupts` |
| Copy-on-write fork (`lib/fork.c`, `pgfault.c`, `user/dumbfork.c`) | page tables and contents of parent and child | `fork`, `duppage`, `pgfault`, `dumbfork` | system calls, page faults | parent and child do not see each other's writes | `CowFork`, `PrivateMemory`; shared pages in `Pipe` |
| IPC and waiting (`lib/ipc.c`, `wait.c`, `exit.c`) | arguments, delivered value, sender, permission | `ipc_recv`, `ipc_send`, `wait` | kernel rendezvous | a message arrives whole and once; a wait ends, and not too early | `Ipc` on `Kernel` |
| Descriptors (`lib/fd.c`) | a descriptor page and a data page per open file, shared by mapping | `fd_alloc`, `fd_lookup`, `close`, `dup`, `read`, `write`, `seek` | device tables, shared pages | sharing by fork and dup, last close frees | `FsServer`, `Descriptors`; `Pipe` |
| Pipes (`lib/pipe.c`, `pageref.c`) | ring buffer and two positions in a shared page | `pipe`, `devpipe_read/write/close`, `_pipeisclosed` | reference counts, clock | first-in first-out, end of file exactly when all writers are gone | `Pipe`, `Channel` |
| File server (`fs/serv.c`, `lib/file.c`) | open-file table, descriptor pages, request page | `serve_*`, `openfile_alloc/lookup`; client `open`, `devfile_*` | IPC with pages | a client's file id names its file; one answer for each request | `FsServer`, `Descriptors` |
| File system (`fs/fs.c`) | superblock, bitmap, `struct File`, indirect blocks | `alloc_block`, `file_block_walk`, `file_read/write/set_size/flush` | block cache | no block shared or leaked, contents survive | `FileSystem` |
| Names (`fs/fs.c`) | the root directory | `walk_path`, `dir_lookup`, `dir_alloc_file`, `file_create`, `file_set_size` | file blocks | a name stands for one file | `Directory` |
| Block cache (`fs/bc.c`) | pages of the disk map, dirty bits | `bc_pgfault`, `flush_block`, `check_bc` | page faults, disk | a flush writes what is dirty | `FileSystem` |
| Disk image (`fs/fsformat.c`) | the disk, `diskpos`, bitmap | `alloc`, `writefile`, `finishfile`, `finishdir`, `finishdisk` | what the server starts from | the server finds every file | `Image` |
| spawn and load_icode (`lib/spawn.c`, `kern/env.c`) | child's address space | `init_stack`, `map_segment`, `copy_shared_pages` | system calls | the child has its arguments, program and descriptors | `Loader` |
| Shell (`user/sh.c`) | processes, descriptors, a line | `gettoken`, `runcmd`, `umain` | fork, spawn, pipe, dup, wait | every command gets what was typed, every line ends | `Shell`, `Lexer` |
| Console (`kern/console.c`, `lib/readline.c`) | modifiers, input ring, screen | `kbd_proc_data`, `cons_intr`, `cons_getc`, `cga_putc`, `readline` | interrupts | characters in order, the screen shows the line | `Console`, `LossyQueue`, `Terminal` |
| Clock and time (`kern/kclock.c`, `lib/vsyscall.c`, `inc/time.h`) | CMOS registers, time page | `gettime`, `timestamp`, `mktime` | update in progress | no torn time | `Clock`, `Calendar` |
| Formats, strings, arguments (`lib/printfmt.c`, `string.c`, `args.c`) | none | pure functions, `argnext` | | as in C | `Printfmt`, `Strings`, `Args` |
| Symbol search (`kern/kdebug.c`) | stabs | `stab_binsearch`, `debuginfo_eip` | monitor | shows where the code is | `Kdebug` |
| Kernel heap, spin lock (`kern/alloc.c`, `spinlock.c`) | K&R free list | `test_alloc`, `test_free` | KSPACE build only | | see [Not modelled](#not-modelled) |
| Disk driver, boot loader, monitor, other user programs | | | | | see [Not modelled](#not-modelled) |

`PROJECT.json` lists the components with their files, and under `hazards` every place where
this code is hard to test, with the properties that watch it.

## Modules

| Module | Lines of the system it stands for |
|---|---|
| `Pmap` | `kern/pmap.c` and the address-space parts of `kern/env.c`, as operators from a memory to a memory |
| `Kernel` | `kern/env.c`, `sched.c`, `syscall.c`, `trap.c`: a state machine over one `Pmap` memory |
| `Ipc` | extends `Kernel` by messages and by the library routines that use them |
| `Pipe`, `Channel` | `lib/pipe.c`, `lib/pageref.c`, and close, dup, fork and spawn where they touch a pipe; the abstract channel |
| `CowFork`, `PrivateMemory` | `lib/fork.c`, `lib/pgfault.c`, `user/dumbfork.c`; what fork promises |
| `FsServer`, `Descriptors` | `fs/serv.c`, `lib/file.c`, `lib/fd.c`; what descriptors promise |
| `FileSystem` | `fs/fs.c` below the directories, `fs/bc.c`, and the handlers of `fs/serv.c` that change files |
| `Directory` | `fs/fs.c` above the blocks |
| `BootMemory`, `Image` | `mem_init`; `fs/fsformat.c` |
| `Upcall`, `Interrupts` | `page_fault_handler` and `lib/pfentry.S`; `kern/picirq.c` and the device part of `trap_dispatch` |
| `Console`, `LossyQueue`, `Terminal` | the input half of `kern/console.c`; the abstract queue; the screen with `lib/readline.c` |
| `Clock`, `Calendar` | `kern/kclock.c`, `lib/vsyscall.c`; `inc/time.h` |
| `Shell`, `Lexer`, `Loader`, `Args` | `user/sh.c`, its `gettoken`, `lib/spawn.c` with `load_icode`, `lib/args.c` |
| `Strings`, `Printfmt`, `Kdebug` | `lib/string.c`, `lib/printfmt.c`, `kern/kdebug.c` |
| `MCKernel`, `MCIpc`, `MCPipe`, `MCCow`, `MCFsServer`, `MCFileSystem`, `MCDirectory`, `MCParts` | instances for TLC: sub-specifications, constants, symmetry, fairness |
| `KernelProofs`, `PagesProofs`, `IpcProofs`, `PipeProofs`, `CowProofs`, `PartsProofs`, `FsProofs`, `BlocksProofs` | theorems and proofs; each extends what it is about |

**Pmap** is the functions of `pmap.c` on a record: `pp_ref`, the free list, and for each slot the
directory, the page tables it points to, and their entries. `page_insert` counts the new mapping
before it removes the old one; `page_remove` drops the count and returns the page at 0;
`panic` says where the kernel has panicked, in `page_free` or for a reason a program gave it. Two details are abstracted. The free list is a set, and
`FreePage` picks any page of it: which free page comes next is never observed, and the symmetry
of the runs relies on that. `FreeVm` drops the references of a whole address space at once;
`EnvFreeByPage` is what the loops of `env_free` do page by page, and `FreeVmIsEnvFree`, checked and
proved, says that in every reachable state the two leave the same memory. `pp_ref` is an unsigned 16-bit counter and wraps at `RefMax`.

**Kernel** has one action for each system call that changes state, for the clock (`Yield`) and for
a trap nobody handles (`Fault`). An action is the whole trap: the checks, the effect, and what `trap()`
does at its end (`Return`), which may run the scheduler. A call that fails leaves the state alone and is a
stuttering step, except `SysPageAlloc`, which takes a page and gives it back,
`SysEnvSetTrapframe`, which destroys or panics, and `SysUnknown`, a call number the kernel does not know, which
panics (`kern/syscall.c:455-456`). The scheduler is `NextToRun`: the candidate at the least
distance from the environment that ran last. `clobbered` and `orphans` are history variables:
`env_alloc` has reused a slot in use; slots whose creator is gone.

**Pipe** starts with a program that has just called `pipe()`. A step is one system call
or one access to shared memory; `pc` and `call` are the point and the locals of the library function
each environment is in, and steps of environments interleave freely, which is what the
clock does. `switched` stands for `env_runs`: it is set for all others when an environment runs. Fork
and spawn copy the shared pages in the order of their addresses, one `sys_page_map` a step. A destroyed
environment loses all its mappings at once, as in `Kernel`. The bytes are numbered in the order
they are written; `Channel` is a bounded queue, and `IsChannel` is the refinement: the queue
is what lies in the ring between the two positions.

**FileSystem** is the disk, the cache (`cache[b] = NULL` when block `b` is not mapped), the dirty blocks,
and the queue of disk writes a request has issued. The server handles one request at a time, so
its work in memory is one step, `Serve`; its writes then reach the disk one block a step, and a power failure can
fall between them. `Touch` is the first access to a block (`bc_pgfault`), `Modify` an access that sets the
dirty bit. The operators carry the names of the functions, pass a panic or an error on, and do
what the code does after it. A word of a block is data or a block number, whichever the
reader takes it for, so that a stale block used as an indirect block would show. `Boot` is `fs_init`, with `check_bc`,
which smashes the superblock on the disk and puts it back. The directory and its `struct File`s are one
block, already allocated, and the files exist.

**Ipc** gives `Kernel`'s receive and send their message (value, sender, permission) and runs the library
on it: `lib[e]` is the routine environment `e` is in and how far it is. `ipc_send` retries until it gets
through or an error makes it panic; `ipc_recv` reads the sender, the permission and the value in three
steps; `wait` reads `env_id` and `env_status` in two. Kernel and library share all state, so a slot that is
freed and used again under a waiting or sending environment is in the model. `delivered` is a history
variable, the message `Result` is compared with.

**CowFork** has page contents, and mappings that a system call at a time changes. A program reads and
writes, and every write to a copy-on-write page is a run of `pgfault` in four steps (allocate, copy,
map, unmap), during which others run. The forking environment writes to its own stack between any two
steps of its fork, as C code does. Page tables are had when a page is mapped, and memory may run out at every call: `fork` and the
handler then panic (`NoMemory`; `lib/fork.c:71`, `74-77`), but a failing map of a read-only page is ignored (`lib/fork.c:78`), and the child
starts without that page. `ForksAreCopies` is a refinement: what the environments can
read are the private memories of `PrivateMemory`, where a child may lack read-only pages: those that come before the first page of
their table that could be passed on.

**FsServer** has the open table, the pages with `struct Fd`, the clients' descriptor tables and the server's
loop in the steps that others can see: receive, carry out, move the offset, answer. `serve_write` reads the shared offset three times, for
its test, for the new size and for the bytes (`fs/serv.c:247-249`), each in a step of its own (`serve_write`, `Extend`, `file_write`), since a client's
`seek` may come between; a write may so set the size for one offset and put its bytes at another, and `Descriptors` says as much. A client may be killed
between any two steps, and its descriptors go at once. `ServesDescriptors` is a refinement to
`Descriptors`, where a number stands for a description that lives as long as somebody has it. That the
server takes a page with one reference for free is the point: the two tables agree only if nobody
else can come to share an entry.

**Upcall** is words and instructions, because a single swapped instruction of `pfentry.S` matters only
when the stack it works on faults too. **Interrupts** has the two 8259A with edges, in-service bits and the cascade,
devices that raise lines while handlers drain them, and spurious interrupts. **Console** decodes the
scancodes; `InOrder` is a refinement to `LossyQueue`. **Terminal** is `readline` and the screen, a
character at a time. **Clock** reads six registers while the clock ticks with all carries.

**Shell** is a state machine of processes that fork, spawn, close, dup and wait; a line is one of
`CommandLines`, and spawn, fork and open may fail. **Loader** builds a child page by page through `UTEMP`, with
every system call that may fail, and has `load_icode` beside it. A failing call destroys the child, but `spawn` panics when it cannot map
what it has read (`lib/spawn.c:290-291`); a file that ends before its segments do is read as far as it goes (`lib/spawn.c:288`), and
the rest of the page is zero.

**Directory** makes each request one step on a small disk; files grow, shrink and are truncated. `stale` is a history variable: the directory has
grown by a block that held the text of a file. What the server makes of such a block is not followed further.

**BootMemory** counts addresses in pages and has directory and tables of `NPT` entries each. `mem_init` is a
sequence of steps, one for each array, check and turn of `boot_map_region`; a step that would touch memory which
`entry_pgdir` does not map stops the machine. **Image** is `fsformat` with one step for each file.

**Strings**, **Printfmt**, **Lexer**, **Args**, **Calendar** and **Kdebug** are functions, and a behaviour looks at
one call (or line, or program); the properties compare with a definition that does not work like the code. Where the code does
something else than its comments say, the property says what it does and names the comment: in `Calendar` and `Printfmt` the whole of it,
in `Kdebug` where it leaves the result open.

## Runs

`tlc -config X.cfg M` in this directory. All runs say `CHECK_DEADLOCK FALSE`: the kernel really stops
(`sched_halt` enters the monitor when nothing can run, and `panic` never returns), programs need not make
calls, and the file server stops when it panics.

| Run | Module, cfg | Properties | What it asks |
|---|---|---|---|
| `kernel` | `MCKernel` | `PagesExact` `NoPanicInPageFree` `FreeVmIsEnvFree` `NoWriteFromNothing` `TypeOK` `SchedulerConsistent` `LiveHasDirectory` `FreeSlotsFirst` `FileServerRuns` | The kernel in two instances. `memory`: two environments fork, exit, allocate, map and unmap in each other, with two page tables each, down to the last free page. Do counts, free list and tables stay exact, also after calls that fail half way? `life`: every interleaving of fork, destroy, status changes, messages and clock. Is the scheduler's state consistent, and does the file server, in slot 0, always run again? |
| `ipc` | `MCIpc` | `IpcOK` `RefCountExact` `WaitMeansGone` `ParentWaitEnds` `ServerMeetsChild` | A server, a parent and children that come and go: is what `ipc_recv` returns one whole message, does `wait` return when and only when its environment is gone, and do a receiver and a sender that want each other meet? |
| `pipe_pages` | `MCPipePages` | `ClosedMeansGoneUnlessCopying` | Three environments dup, close, fork, check and die in every order: when does a pipe look closed that is open? |
| `pipe_data` | `MCPipeData` | `IsChannel` `LastEndReturns` | One reader, one writer, a fork, closes and deaths at any point: does the pipe implement the channel, and does a wait on a pipe nobody else has end? |
| `cow_fork` | `MCCow` | `ForksAreCopies` `PagesOK` | Two forks by anybody, copy-on-write or copying, with writes and faults in between and memory that runs out: are the memories private? |
| `fs_server` | `MCFsServer` | `ServesDescriptors` | A parent and a child that open, share, use and lose descriptors, against a table of two: does the server implement descriptors? |
| `fs_blocks` | `MCFileSystem` | `DiskOK` `ReadsWhatWasWritten` `FlushedIsOnDisk` | Two files on a disk that fills up: reads, writes, holes, truncations, flushes and reboots in every order. |
| `parts` | `MCParts` | `FaultsAreInvisible` `ControllersOK` `KeyboardOK` `InOrder` `ScreenOK` `TimeIsRight` `LibraryIsRight` `ConversionsAreRight` `DirectoryOK` `CommandIsAsTyped` `ShellOK` `ComesToRest` `ChildIsComplete` `BootOK` `BacktraceIsRight` `OrphansAreSafe` `NoDanglingPointer` | Sixteen parts that share no state, one of them in each behaviour. A seventeenth, `orphans`, is `Kernel` again: a creator dies and its slot is reused while its children live. Can the newcomer touch them? Does a table that was full (see below) leave dangling pages or only lost ones? |
| `kernel_full_table` | `MCKernelFullTable` | `NeverReusesLiveSlot` | *violated*, see below |
| `fs_crash` | `MCFileSystemCrash` | `BlocksStayInUse` | *violated* |
| `directory_text` | `MCDirectory` | `ListsTheFiles` | *violated* |
| `symbol_search` | `Kdebug` | `SearchFinds` | *violated* |

Some properties are conjunctions of named parts, one question each: `PagesExact` is
`RefCountExact`, `FreeListExact` and `TablesArePrivate`; `SchedulerConsistent` is `RunningIsCurrent` and
`ParkedOnlyWhenIdle`; `DiskOK` is `TypeOK`, `BlocksExact` and `PanicOnlyWhenFull`; those of `MCParts` name
theirs there, with the part of the behaviour each speaks of.

Each property of a passing run is broken by a plausible slip in a definition: the operators named `X_Y`
beside `X`, paired with the properties in `PROJECT.json` under `mutants`.

## Bounds

* **Kernel.** Two or three slots of 1024. Three are needed for a parent, a child and a third party (an IPC partner,
  or a newcomer in a dead parent's slot); with two, the table is full after one fork. Seven pages: an environment
  needs a directory, a page table and a page, so two run out of memory and page allocation fails in the middle
  of a call. One or two addresses: two, in two page tables, for mappings across tables and the
  removal of tables; one where only ids and messages matter. `Perms` is the two legal arguments.
  `MCKernel` has two instances, of which the initial state chooses one (`mode`), and `MCParts` has a third one among its parts. Each takes the calls
  that matter to its questions (`MemoryNext`, `LifeNext`, `OrphansNext`); the calls left out do not
  change the state its properties speak of except through the ones kept. `memory` uses two of the three slots. The two ways in which
  a program makes the kernel panic are in `orphans`, where only the first environment takes them.
* **NotClobbered** is the constraint of `kernel`. It stops it once a live slot has been handed out, because the code makes no promise
  after that. `orphans` goes on beyond it, and so does the proof; **GenBound**, the constraint of `parts`, stops it before generations come
  round (2^19 uses of a slot in the code, 3 here) and does not touch the other parts. `GenMax = 1` in `kernel` makes them come round at once.
* **RefMax** is 100 where the code has 65535: no run comes near, and none overflows. A count that wraps
  is in the model (`Incref`); see below.
* **Ipc.** Three slots with a role each: a server that receives and answers, a parent that creates, waits for, sends to and kills the
  child, and a child that sends. `GenMax = 2`: a child dies and another one takes its slot under
  everything that still names the first; a third does not come. Two values, so that one message
  can be told from another.
* **Pipe.** Two descriptors in each environment (the two ends), three environments for the descriptor races (a parent that forks, a
  child, and another child), two for the data. `PIPEBUFSIZ = 2` of 32, with 5 bytes, so the ring wraps twice and fills. One environment writes and one reads
  in `pipe_data`: two readers sharing a descriptor may read a byte twice, and nothing in the code says otherwise.
* **CowFork.** Three environments and two forks: two children of one parent, or a child and a grandchild. One page of each
  kind (text, private data, shared data, stack, exception stack, the two temporary addresses), in four page tables, and two
  values of data. Memory has no size in `CowFork`: that a page or a table cannot be had is possible at every step. The run's constraint `FewPages` stops at
  thirteen pages, a directory and a table for each slot included, which one fork and most of a second one need. The two slots that are not the first program's are interchangeable.
* **FsServer.** Two clients with two descriptors, a table of two entries (so it fills), one file,
  ids that come round after 4 (two uses of an entry; 2^32 in the code), offsets to 1, so that a seek can take the offset on and back between
  the reads of a write. The parent and the child have a role each
  (`MCFsServer`), which between them make every request.
* **FileSystem.** One direct block of 10, two words in a block (so also two slots in an indirect block), seven blocks of which three
  are free: a file with a direct block and one behind the indirect block fills the disk, and a block has a middle. `Reads`, `Writes` and
  `Sizes` are a few requests that between them fill holes, cross blocks, use both sides of the border between direct and
  indirect blocks, keep and drop the indirect block in a truncation, and run past the largest file.
  A request covers at most one block's worth of words, as `serve_read` and `serve_write` cut it to a page.
  All words written are the same number, which is no block's: what tells a lost word is that it is missing.
  In `fs_blocks` the power fails only when nothing is dirty: what the code promises after
  another power failure is little, and `fs_crash` shows why. A disk write of a block is atomic.
* **MCParts**, part by part (the numbers are in `MCParts.cfg`):
  * `Upcall`: pages of two words, two stack pages, two other pages, and an exception stack with room for four frames of which the
    last one's upcall runs out of it in its first calls; a fault, faults of the handler inside each other, and a fault of the return.
  * `Interrupts`: bursts of two bytes from keyboard and serial port, any number of clock events.
  * `Console`: a ring of 3, three keys (a lock, a modifier with an escape, a character with one), at most two scancodes that
    wait. `Terminal`: a screen of 3 by 3, lines of 6 characters, so lines wrap and the screen scrolls twice under them.
  * `Clock`: four seconds around a new year, with a tick that carries into all six registers. `Calendar`: years to 2004, with a century that is a leap year.
  * `Strings`: 12 bytes of memory, strings of 4 characters. `Printfmt`: all ints of 8 bits, so the smallest negative one is among
    them, with every width and flag. `Lexer`: all lines of 5 characters. `Args`: ten command lines that have every case of `inc/args.h`.
  * `Shell`: lines of up to three stages with redirections before and behind, missing files, empty stages and no
    command; two lines one after the other; pipes of one item, so writers block.
  * `Loader`: pages of 16 bytes; all lengths of arguments around the page's size, segments that begin and end around a page's border, and files that
    end before a segment, within it, and behind all of them.
  * `Kdebug`: all tables of 5 stabs, several at one address or one byte apart among them; all programs of 3 functions of one byte or three, in two
    files. `Directory`: blocks of 2 entries, three blocks (four in `directory_text`); sizes of a file set to 0, 1 or 4 entries, and 2 or 4 when it is written: the directory grows to two blocks and the disk fills.
  * `BootMemory`: tables of 16 entries, machines with 0 to 40 pages of extended memory, of which `entry_pgdir` maps 32: the
    largest have memory it does not map, the smallest cannot boot. `Image`: files of 0 bytes to the
    largest, in every pair, with disks they fill and do not; directories of up to all entries and one more.

## Fairness

* `MCSpec` of `MCKernel`: `WF(Yield)`. The clock interrupts whatever runs (interrupts are on in user mode), and the handler calls
  `sched_yield`. Programs are not fair: they may loop, or never make a call.
* `MCSpec` of `MCIpc`: `WF(Clock)` for the same reason, and `SF(Continue(e))`: an environment in a library routine that gets the CPU
  again and again makes its next step in one of its time slices. A slice is 10 ms, a step an instruction or a system call; weak
  fairness would let every slice end before it. It is strong because an environment is enabled only
  while it is on the CPU. This holds for two partners; two senders that compete for one receiver can
  starve each other, see below.
* `Fairness` of `Pipe`: `WF(Proceed(e))` says that an environment inside a library call gets the CPU again and goes on. `SF(Compare(e) /\ ~switched[e])`
  says that when again and again an environment has just read `env_runs` in `_pipeisclosed`, it is sometime not
  interrupted before it reads it again: a time slice is 10 ms and the two reads are a few instructions apart.
  Weak fairness alone would let the clock hit exactly there for ever. That every environment is scheduled is an
  assumption here; `FileServerRuns` shows it in `Kernel` for slot 0 only, and for other slots it is not always so
  (see below).
* `MCSpec` of `MCParts`: `WF(GoesOn)`, which is weak fairness of the one part that runs: the processor executes the next
  instruction of the upcall, a handler goes on and a request that the processor accepts is delivered, and
  some process of the shell that can go on does. The devices, the user and programs outside the library are not fair.

## Proofs

Checked by `tlapm` for every value of the constants that satisfies the named assumptions (`NENVAssumption`,
`PagesAssumption` and so on; for instance at least two slots and six pages, which boot needs).

* `KernelInvariant`: `Spec => []KernelInv`, where `KernelInv` is `TypeOK`, `SchedulerConsistent` and
  `LiveHasDirectory` together. They need each other: an id names a live slot only if the caller's slot is
  live, and the caller is live because the current environment is the running one; `Return` looks at the status of
  `curenv`, which must not be NULL. The heart is `SchedYieldCorrect` (from any status table in which at
  most the old `curenv` is running, the scheduler leaves one running environment, or none and nothing runnable) with
  `LeastNumber` for the nearest candidate, and one lemma per system call. `TypeCorrect`, `SchedulerCorrect` and `DirectoryCorrect` follow.
  The lemmas before them show that each operator of `Pmap` returns a memory, including the 16-bit wrap.
* `PagesInvariant`: `Spec /\ []CountsFit => [](KernelInv /\ PagesInv)`. `CountsFit` says that no `pp_ref` has reached the largest value of its
  16 bits. It is needed: `page_incref` does not look, and 65536 mappings of one page bring its count to 0 with the page in use. Between
  `page_alloc` and `page_insert` a page is neither free nor counted, and a call may fail there, so the lemmas speak of `Booked(m, taken)`:
  a page is on the free list or in `taken` if and only if its count is 0, tables and directories have one reference, and no count is
  below the number of its pointers. `Balance(m, p)`, the difference of the two, is what no operator of `Pmap` changes but by a page it says. It is 0 until a slot in use is
  handed out again, which loses the pointers of the old address space and none of the counts. So `PagesAreExact` (`PagesExact`) speaks of the time before, and
  `NothingDangles` (`NoDanglingPointer`) of all time.
* `EnvFreeIsFreeVm`: `Spec /\ []CountsFit => []FreeVmIsEnvFree`. `EntriesFit` is the invariant it adds to `PagesInv`: an entry without a page, or without a
  table to be in, is all zeroes, so the loops of `env_free` lose nothing by passing over it. `Dropped(m, e, E, D)` is the memory in which the entries `E` and
  the tables `D` are dropped, and each round of a loop leads from one such memory to the next (`EntryDropped`, `OneTableDropped`); a page is freed when
  the last of its references goes, in whatever round that is (`DecrefDropped`). The loops are folds over finite sets. `SameOnSubsets` carries what one round
  does over to all of them: two functions on the subsets of a finite set that start alike and do alike when an element comes in are the same.
* `FreeSlotsCorrect`: `Spec => []FreeSlotsFirst`. The list of slots is a walk along `env_link` from its head (`NthFreeWalks`), and the walk passes every slot that is not in use before
  any other (`Passes`): to push a slot puts it before the walk, to take the first one takes the walk's first step away. When no slot is free the claim is empty, and the ring
  hands out a slot in use.
* `ReadOnlyStaysReadOnly`: `Spec /\ []CountsFit => NoWriteFromNothing`, since a mapping is made writable only with a writable one as its source, or for a page
  just taken from the free list, which by the invariant nobody maps.
* `PageFreeNeverPanics`: `Spec /\ []CountsFit => []NoPanicInPageFree`: `page_free` meets no page in use and none that is free already. The kernel does
  panic when a program makes an unknown system call, and in `sys_env_set_trapframe` (see below): both are steps of `Kernel`, which end it with another `panic`.
* `OrphansStaySafe`: `Spec /\ []GenerationsFit => OrphansAreSafe`. `GenerationsFit` says that no slot has been used 2^19 times, after which ids come round and a stranger
  may get the id of a dead creator. `OrphanInv`: the id by which an orphan knows its creator is older than
  the id of anybody now in that slot, so `envid2env` never takes one for the other.
* `IpcRunsTheKernel`: `IpcSpec => Spec`, a refinement whose mapping is the identity: all theorems about the kernel hold of the kernel with
  messages and library, `MessagesKeepTheBooks` for instance. It takes an invariant, `IpcInv`, for the types of what routines pass to the kernel.
* `MessagesAreWhole` (`IpcOK`) and `WaitIsRight` (`WaitMeansGone`), from `IpcInv`: an environment that the kernel holds as receiving
  is in `ipc_recv`, before its first read (`OnlyReceiversWait`); a message that came in is in `struct Env` until the last read, for the kernel gives nothing to
  who is not receiving (`MessagesUnread`); an id names its slot (`IdsNameSlots`), so that `wait` looks where its environment was.
* `CowInvariant`: `Spec => []CowInv`, wherever memory runs out. `SharingOK` lists when two addresses may map one page: at the same shared place; at one place in two environments that
  both cannot write; or for a moment between two system calls of `fork`, `dumbfork` or the handler, and it says which (`Giving`, `Filling`, `Moved`). `CopiesOK` says how far a fork is: what is
  below the address it is at is in the child, with the contents of the parent's page (but for the stack, which the parent goes on
  writing), what is above is not. That needs `FaultOK` (only the parent's stack can fault while it forks, and the handler's copy is a copy), `OneParent` (nobody else writes into the child) and
  `SharedIsOne` (a place that spawn shares is one page). The proof goes address by address: a frame lemma says what a step leaves alone, one
  lemma each step of a program or of the handler what it changes.
* `WritablePagesArePrivate` (`PagesOK`) and `MemoriesArePrivate` (`ForksAreCopies`): the refinement of `PrivateMemory` step by step. A write of a program is
  `Private!Write`, the last step of a fork is `Private!Start`, an exit is `Private!Exit`; every other step, those of the handler
  and of a fork under way among them, changes nothing that a program can read.
* `PipeIsAChannel`: `OneEach => (Spec => IsChannel)`. With one reader and one writer, what a routine found when it tested the ring stays true until it uses it,
  because only the reader moves `p_rpos` and only the writer `p_wpos`; `ChannelInv` says so for each place in the two routines, with `RingPlaces` (positions
  less than `PIPEBUFSIZ` apart are different places of the ring). `OneEach` is needed: with two readers a byte is read twice.
* `ControllersAreFreed` (`ControllersOK`): `IntInv` says which requests are in service when (`InService`) and how the bursts of a device are
  counted (`Bursts`), so that the end-of-interrupt commands of every path through `trap_dispatch` meet the controller that waits for them.
* `ConsoleIsAQueue` (`InOrder`): the characters between the two positions of the ring, as a sequence (`Between`), are the queue.
* `ModifiersAreRight` (`KeyboardOK`): `KbdInv` says that the scancodes not read yet lead from the flags of `kbd_proc_data` to the modifiers that the keys
  should give. Because flags cannot be computed forwards without an induction, the flags between the scancodes (`run`) are a function that exists: a key appends to it, a
  read takes its first value away. That only one of two keys that give the same modifier is down at a time (`Alone`) is needed: `kbd_proc_data` forgets
  the left Shift when the right one goes up.
* `FaultsStayInvisible` (`FaultsAreInvisible`): `UpInv` says for every instruction of the upcall what is in registers and frame when it is reached (`AtPlace`),
  for the fault that is handled and, since a handler may fault, for each one that waits below it (`WhoWaits`). Two facts keep the levels apart: what a fault found on its
  stack is still there (`Kept`), because every step writes only words that no fault has found in use (`Fresh`); and the frames lie one below the other, with
  room for the handler's call between them (`Chain`). The one frame that takes the place of another is that of a fault at the push of the return address; it can come
  only on the program's own stack (`PushFaults`), and then the registers of the first fault are lost, as `RegistersReturn` allows. That the
  page below the exception stack is never there (`inc/memlayout.h`) is needed: the upcall that runs out of its stack faults, finds no room and is destroyed (`BelowTheStack`).
* `LinesAreShown` (`ScreenOK`): `TermInv` says for each moment between two characters how much of the line stands on the screen (`Editing`). A backspace goes back
  over the end of a row, so all behind the cursor must be blank; output may go back in its row with a carriage return, and then all behind the end of the
  row is, until a newline comes (`NewRow`). When the screen scrolls, the beginning of the line moves up a row; it has one above it, because `readline` takes at most
  `BUFLEN` characters, and a row more fits on the screen (1024 and 80 of 2000 cells). This and what prompts may contain are assumptions of `Terminal`.
* `TimesAreShown` (`TimeIsRight`): `gettime` takes less than a second, so one tick at most comes between its reads, and it spoils the first time or the
  second; the other one was read within one second (`Disturbed`). If the first is spoiled, the two timestamps agree only when the first one is that of
  a second as well. When the loop gives up because an update is announced, no tick has come yet.
* `DescriptorsAreServed` (`ServesDescriptors`): `FsInv` is the agreement of three tables kept by different environments. For every entry that a client refers to, the
  id in `opentab`, the id in the page and the page the client maps agree (`TablesAgree`); a request under way names
  an entry that its client maps, so nobody can give the entry away before the server gets to it (`Waits`); and the server knows whom it answers
  and with which page (`ServerOK`). That an entry is free when `pageref` is at most 1 is a fact about the size of a set of mappings, here for any number of
  clients. Then every step is one of `Descriptors` or changes nothing it shows.
* `BlocksInvariant`: `CleanSpec => []BlocksInv`, for any number of files and blocks and any requests, with power failures when everything is on the
  disk. `Good` says what the server keeps: `Typed` (a block of the cache that is not dirty is on the disk, or the last of its writes on the way
  brings it there) and `Tree` (every block is free or has one owner, a slot of a file or of its indirect block, and no file has a block behind its end).
  A request is a chain of small operators, and each has a lemma that says what it does to the tree and what it leaves alone: of other files everything
  (`Elsewhere`), of the file itself what was there before (`Grown`, `Kept`), or all but what was cut off (`Less`). The tree is whole between the calls, and within
  `alloc_block` and `free_block` but for the one block in hand (`Allocated`, `Freed`). A loop over the blocks of a file is a fold. What its rounds
  preserve holds after the last one by `UpTo`, whose argument is the least round that breaks it; `FoldExists` and `FoldRuns` show by it that a fold is
  the function that the community module's definition chooses, and the end of a row of states, each made from the one before.
  When the disk is full the server has stopped for good with a block number that is none in a slot (`Full`), and nothing is claimed but that the bitmap is empty.
* From it `DiskIsRight` (`DiskOK`), `WritesAreRead` (`ReadsWhatWasWritten`) and `FlushesReachTheDisk` (`FlushedIsOnDisk`): the word written last at a place is the one that its
  block has (`Shown`), and no block of a file that was flushed is dirty until a request changes that file (`OnDisk`).

* `ChildStartsComplete` (`ChildIsComplete`): `LoaderSpec` is the part of `MCParts` that has the loader's steps alone. `LdInv` says what is there at each step of `spawn`: the stack page
  (`StackHolds`), the segments before the one that is being loaded, and of that one all bytes below the offset (`LoadedTo`). The stack page is the
  hard part. `init_stack` makes 2n + 3 stores in it; `SlotsAre` and `StringsAre` place them (the words aligned and below the strings, the strings one after the
  other up to the end of the page), so no store overwrites another (`StoresApart`), and what `main` reads is what was stored
  (`LastStore`, `ArgumentsAreRead`). `StringSize`, `WithStores` and `LoadIcode` are folds and go by `FoldRuns`. `PageIs` and `LoadsOne` are the arithmetic of segments that begin and
  end within a page, for `map_segment` and for `load_icode`; `CopiesShared` shows that skipping a page table skips no shared page. What is assumed of
  programs is `CallsAssumption`: no two segments on one page, as the comments at `lib/spawn.c:79` and `kern/env.c:418` have it, none on the stack's page, and not more of a segment in the file than in memory.

Only model-checked:

* liveness (`FileServerRuns`, `ParentWaitEnds`, `ServerMeetsChild`, `LastEndReturns`, `ComesToRest`), which the prover does not do;
* the parts of `MCParts` that have no theorem. The recursive functions of `Strings`, `Printfmt`, `Lexer`, `Kdebug` and
  `Calendar` are again inductions over data.

## What the checks found

Four are runs that end in a counterexample, with the line of the repository they contradict in `PROJECT.json`:

* `kernel_full_table`: the free list of environments is a ring (`kern/env.c:130`), so `env_alloc` never
  reports `-E_NO_FREE_ENV`; the 1025th environment takes the slot of a live one.
* `fs_crash`: `alloc_block` flushes the new block instead of the bitmap, so after a power failure blocks in use are free.
* `directory_text`: `dir_alloc_file` does not clear a new block of the directory (`fs/fs.c:245`). Create two files, write text in one, truncate it and create a
  third: the directory grows by the block of the text, which lists entries nobody created, and the new file begins with a size and blocks of the text.
* `symbol_search`: `stab_binsearch` goes on with `addr + 1` after an exact match (`kern/kdebug.c:89`), so with functions at 0 and 1 the search for 0 ends at 1,
  against the comment at 39-43. The backtrace then shows the wrong function, file or line; `InfoIsRight` says that this is the only case (`OneByteApart`).
  If all stabs begin behind the address, `left` need not be above `right`, but is no stab of the type.

The others were met on the way and are described here. "In the model" means that the module has the behaviour
and its properties leave it open.

Kernel and library:

* After an exit the scheduler's search restarts at slot 0 (`kern/sched.c:32`, `env_destroy` clears `curenv`), not "just after the env
  was last running" (`kern/sched.c:16-18`): an environment in slot 0 that keeps creating children that exit keeps higher slots from running.
* `sys_env_set_status` accepts `ENV_FREE` (`kern/syscall.c:122`, against lines 99-100). In the model.
* `sys_env_set_trapframe` checks the pointer in the target's address space and reads it in the caller's
  (`kern/syscall.c:146-147`). In the model, with both outcomes.
* `pp_ref` has 16 bits and no check (`kern/pmap.c:493`): 65536 mappings of one page bring it back to 0.
* A receiver that asked for no page is told a permission all the same when the sender offered one (`kern/syscall.c:364`; `lib/ipc.c:12` says it is
  0 then). In the model.
* `ipc_send` retries after a `sys_yield`. Two clients that send to one server again and again can be in step with it so
  that one of them never gets through.
* A panic of a user program is a breakpoint (`lib/panic.c`), which enters the kernel's monitor: the
  whole machine stops. So an `ipc_send` to an environment that dies stops it.
* A pipe can give a false end of file. `_pipeisclosed` tests `pageref(fd) == pageref(p)` (`lib/pipe.c:82`); fork and
  spawn map all descriptors before any data page (`lib/fork.c:114`, `lib/spawn.c:298-320`, `lib/fd.c:8-11`). With both ends open in the parent and the
  read end in a child, a fork brings the counts from 2 and 3 to 3 and 3 for a moment, and a reader sees
  a pipe without writers. (`user/testpiperace.c:33-35` calls the same order "a no-no" for dup.) In the model;
  `ClosedMeansGoneUnlessCopying` says that this is the only time.
* A pipe can lose its last bytes: `devpipe_read` finds the buffer empty (`lib/pipe.c:118`), a writer fills it and closes, and the
  test at 124 ("if all the writers are gone, note eof") returns 0 with bytes in the buffer. In the model.
* Two readers, or two writers, that share a descriptor can read or overwrite a byte twice, and after 2^31
  bytes the index into the ring is negative (`lib/pipe.c:168`).
* `sync()` right after a fork sends `fsipcbuf` (`lib/file.c:15`), copy-on-write by then, with `PTE_W`, and panics.
* spawn leaks the program file or the child's slot on some of its failures (`lib/spawn.c:102-111`), panics on others, and starts a program whose file is
  too short, with zeroes for what is missing (`lib/spawn.c:288`). In the model.
* `duppage` ignores a failing `sys_page_map` of a read-only page (`lib/fork.c:78`), so a child can start without part of its program. In the model.
* An unknown system call panics the kernel (`kern/syscall.c:455-456`), which stops the machine. In the model (`SysUnknown`).
* `sys_gettime` says "UNIX timestamp" (`kern/syscall.c:406`) and is one day ahead, since days are counted from 1 (`TimestampIsADayAhead`). `mktime` shows midnight as
  24:00:00 of the day before, which may be day 0, and the last day of a month as day 0 of the next, against `inc/time.h:11-12` (`DateIsShown`). Seconds overflow an int in 2038.
* `gettime` leaves its loop while the clock announces an update. The first of its two times is then still one that the clock showed.

Devices and programs:

* The IDT has no gate for the spurious interrupt (vector 39), though `trap_dispatch` handles it ("We don't care"): a spurious
  interrupt is a general protection fault, which destroys whoever runs. In the model (`destroyed`).
* `readline` stores a DEL that it gets on an empty line, and `cga_putc` sends the blanks of a tab to the serial port too.
* The shell: `runcmd` is said not to return until the command is finished (`user/sh.c:16-17`), but `| filter` prompts before the filter has ended; the right
  side of `|` inherits what the left side redirected with `>`; `;`, `&`, `(` and `)` panic and so
  stop the machine; a command of exactly `MAXARGS` words writes behind `argv` (`user/sh.c:143`).
* `"%-5d"` fills a number with `-` on the left, where `lib/printfmt.c:116` has a "flag to pad on the right", and padding stands between a sign and its digits (`NumbersArePrinted`).
  Strings are padded too, against `lib/printfmt.c:12-13` (`StringsArePadded`).
* `mem_init` clears `pages` a second time where it means `envs` (`kern/pmap.c:167`). The number of bytes is that of `envs`, which lies behind `pages`, so
  nothing else is overwritten; `env_init` sets the fields it needs.

File system:

* `bc_pgfault` gives an unaligned address to `sys_page_map` (`fs/bc.c:50` says "round addr", but line 60 passes it as it is), which
  refuses it (`kern/syscall.c:263-265`): the first access to a block must be at its start, or the server panics.
* On a full disk `alloc_block` returns `-E_NO_DISK`, which is stored as a block number where the callers test
  for 0 (`fs/fs.c:154`, `184`): the server panics where `file_get_block` documents an error. `PanicOnlyWhenFull` says it happens only then.
* `flush_block` reads the page table entry of a block before it knows that there is a page table (`fs/bc.c:82`): `fs_sync` would fault on a
  disk of more than 1024 blocks, the most `fsformat` makes.
* A power failure between the two writes of `check_bc` leaves a disk without a superblock.
* The size of the directory grows before its block is found, and stays when there is none.
* Opening `/` with `O_TRUNC`, or `ftruncate` on it, gives it a size that `dir_lookup` asserts not to exist (`fs/fs.c:206-208`), and the server panics.
* File ids turn negative after 2^21 opens of one entry (`fs/serv.c:78`).
* A `seek` goes to the shared `struct Fd` without the server: between a transfer and the server's
  `fd_offset +=` (`fs/serv.c:225`) the two add up, and between the reads of the offset in `serve_write` (`fs/serv.c:247-249`) a file is enlarged for one
  offset and written at another. In the model (`moving`, `writing`).
* The directory of an image without any file claims a block that is free in the bitmap, since `ROUNDUP(0)` of an int is a whole
  block (`fs/fsformat.c:34`, `175`). In the model.

## Not modelled

* `kern/alloc.c`, `kern/spinlock.c`, `src/prog`: the KSPACE build, another kernel that is chosen when configuring and is not
  the one modelled here. Its lock is one that nobody can take: it is initialised as held.
* The boot loader, `entry.S`, `rtc_init`, `pic_init`, `tsc.c`, `fs/ide.c`: straight-line port I/O whose meaning is in the hardware.
* The TLB: every change of a mapping of the current address space is followed by its invalidation in one step.
* The monitor's commands, `printf` buffers, `random`: nothing depends on them.
* Register contents outside `Upcall`, and the contents of pages in `Kernel`: `CowFork`, `Loader` and `FileSystem` have those that
  properties speak of.
* Subdirectories: `walk_path` can follow them, nothing can create them.
* User programs other than the shell: clients and tests. Their behaviour is every sequence of calls.
* The server in one piece: `FsServer` abstracts blocks and messages, `FileSystem` and `Directory` abstract the clients, `Ipc` abstracts what messages
  mean. All of it at once is out of TLC's reach.

## Plan

The model covers what the code keeps state in. What is left are proofs, in this order:

1. The last part of `MCParts` whose steps are not recursive: `BootOK` of `BootMemory`.
