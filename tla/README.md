# TLA+ models of weenix (GodlyDog/weenix)

This directory holds TLA+ models of the weenix teaching kernel's C sources under
`src/`, with TLC configurations that check them. Each module is translated from
the code: its variables are the fields the code keeps, and each action is a whole
function or a whole branch of one. `PROJECT.json` maps every definition to the
source lines it models and lists the runs, the mutants that show each property
can fail, the findings and the hazards.

## The system and its parts

weenix runs on one CPU and its kernel is not preemptible. A kernel thread runs
until it blocks (it sleeps on a queue or yields), exits or is cancelled.
Interrupt handlers run between the steps of threads, with the interrupts of a
spinlock-protected section masked. The repository has these parts:

| part | source | state it keeps | operations |
|---|---|---|---|
| tty line discipline | `src/unnamed/part_000` (ldisc.c) | a circular buffer of `LDISC_BUFFER_SIZE` bytes, the cursors `tail <= cooked <= head` (mod N), the `full` flag and a read wait queue | `ldisc_init`; `ldisc_key_pressed` (the keyboard interrupt: newline, ctrl-d/EOT, ctrl-c/ETX, backspace, other key); `ldisc_wait_read` (a cancellable sleep); `ldisc_read` |
| address-space map | `src/kernel/vm/mmap.c` (vmmap.c part) | a sorted list of virtual areas `[start,end)` with offset, protection, flags and a memory object | `vmmap_create/destroy`, `vmmap_insert`, `vmmap_find_range`, `vmmap_lookup`, `vmmap_map`, `vmmap_remove`, `vmmap_is_range_empty`, `vmmap_clone`, `vmmap_collapse`, `vmmap_read/write` |
| mmap/munmap/brk syscalls | `src/kernel/vm/mmap.c`, `src/kernel/vm/brk.c` | the process's map and its `p_brk`, `p_start_brk` | argument checks, then `vmmap_map` / `vmmap_remove`; `do_brk` grows or shrinks the heap area |
| shadow objects (copy-on-write) | `src/kernel/vm/shadow.c` | a chain of shadow objects over a bottom object, each with a refcount and resident pages | `shadow_create`, `shadow_collapse`, `shadow_get_pframe`, `shadow_fill_pframe`, `shadow_destructor` |
| page faults | `src/kernel/vm/mmap.c` (pagefault.c part) | the faulting process's map and page table | `handle_pagefault`: look up the area, check the access against its protection, get the page (for write when the fault is a write) and map it |
| fork and threads | `src/kernel/proc/fork.c`, `src/kernel/proc/kthread.c` | thread state, cancellation flag, return value | `do_fork`, `kthread_create/clone/destroy/cancel/exit` |
| path name resolution | `src/kernel/fs/namev.c` | vnode references taken and released while walking a path | `namev_lookup`, `namev_tokenize`, `namev_dir`, `namev_open`, `namev_resolve` |
| VFS system calls | `src/kernel/fs/vfs_syscall.c` | the process's file descriptor table, file and vnode reference counts, file positions | `do_read/write/close/dup/dup2/mknod/mkdir/rmdir/unlink/link/rename/chdir/getdent/lseek/stat` |
| memory devices | `src/kernel/drivers/memdevs.c` | the ops tables `memdevs_init` registers | `/dev/null` and `/dev/zero` read, write and mmap, reached through character-device vnodes |
| tests | `src/kernel/test/*.c` | | the kernel's own tests; they show how the code is meant to be used |

How they interact: the keyboard interrupt feeds `ldisc_key_pressed` while reader
threads sleep in `ldisc_wait_read`; the interrupt wakes them with
`sched_wakeup_on`, and `kthread_cancel` ends their sleep with `-EINTR`.
`do_mmap`, `do_munmap` and `do_brk` change the map through `vmmap_map` and
`vmmap_remove`; `do_fork` should clone the map with `vmmap_clone`, which puts a
new shadow object in front of each private area in both processes; a write fault
in `handle_pagefault` then asks the area's object for a page for writing, which
a shadow object must copy up from the chain below it. The VFS calls resolve
paths with `namev_*`, which hands out vnode references that every path through
the call, error paths included, must give back.

### What makes each part hard and what makes it correct

- **Line discipline.** The buffer is shared by an interrupt handler and any
  number of reader threads. The hard cases are the full buffer, the wrap of the
  cursors, ctrl-c and backspace at the edges, a read asking for fewer bytes than
  the line holds, readers that sleep, are woken and are cancelled, and more than
  one reader. It is correct when the cursors stay ordered, the bytes between tail
  and cooked are exactly the committed and unread lines, every read returns a
  prefix of the next line of at most `count` bytes, and a sleeping reader is
  woken when a line is there.
- **Address-space map.** The areas must stay sorted and disjoint after every
  insert, map and remove; a remove that splits an area must keep the offsets of
  both halves so that the same virtual page still maps the same object page; the
  free-range search must return a range that is free and in the user range; and
  every memory-object reference an area holds must be given back exactly once.
- **Shadow objects.** After a fork, the parent's and child's private pages must
  be equal when shared and independent after either writes: a write must go to
  the top shadow object of the writer, reads must see the nearest copy in the
  chain, and collapse must not change what any page reads. Reference counts must
  reach zero exactly when nothing points to an object.
- **VFS and namev.** Every call must leave the file and vnode reference counts as
  it found them apart from the references it means to create, on every error
  path, and the descriptor table must point only to live files.

## Modules

| module | models | status |
|---|---|---|
| `LineDiscipline` | the abstract line discipline: the committed unread lines `pending` and the line being edited `editing`, bounded by the buffer's capacity | done |
| `Ldisc` | ldisc.c and the reader side of `tty_read` | done |
| `MC_Ldisc` | the model values TLC needs for `Ldisc` | done |
| `VMMap` | the vmmap.c part of `mmap.c` with `do_mmap`, `do_munmap` and `do_brk` | anonymous mappings done |
| `MC_VMMap` | the flag sets TLC needs for `VMMap` | done |
| `PrivateMemory` | the abstract promise of fork: each process has private pages and the child starts with a copy | done |
| `CowFork` | `shadow.c`, `vmmap_clone/destroy/collapse`, `handle_pagefault`, `do_fork`, `kthread_clone/exit/destroy` | one-page areas done |
| `MC_CowFork` | the process model values for `CowFork` (three slots, and four for `cow_refs`) | done |
| `Vfs` | `namev.c`, every call of `vfs_syscall.c` for one process, and the null and zero devices of `memdevs.c` | done |
| `MC_Vfs` | the paths and modes tried by `Vfs` | done |

### Ldisc

State: `buffer` (a function `0..N-1 -> bytes`), `tail`, `cooked`, `head`, `full`
(the fields of `ldisc_t`); `rq`, the read wait queue as a sequence of readers in
sleep order; `rstate[r]` in `idle | sleeping | woken`; `rcount[r]`, the count a
sleeping reader will read with; and `lastRead`, the result of the last read,
kept so that the properties can talk about what a read returned.

Actions: one per branch of `ldisc_key_pressed` (`KeyNewline`, `KeyEOT`, `KeyETX`,
`KeyBS`, `KeyChar`), each with the full and no-room guards the code tests before
it. `ldisc_read` is a recursive operator `ReadLoop` over the copy loop, so the
whole read is one step, as it is in the code (it runs under the tty lock with
interrupts off). `TtyRead(r)` is a reader entering `read(2)`: one pass of
`ldisc_wait_read`, which either sleeps it on the queue or goes on to
`ldisc_read`. `Resume(r)` is a woken reader running the loop again, and
`Cancel(r)` is `kthread_cancel` ending a sleep with `-EINTR`. A cancelled
reader's slot stands for the next thread that reads the tty, so the set of
readers stays small and the model keeps going. `sched_wakeup_on` wakes the first
thread of the queue only (the kernel's tests rely on this: `proctest.c` passes a
thread pointer back out of it).

`InitMode` selects the initial state: `"ldisc_init"` is what `ldisc_init` does,
and `"test_reset"` is the state the driver tests reset to before each test
(`head = cooked = tail = 0`, `driverstest.c`). With `"ldisc_init"` the
refinement fails in the first state (`cooked = N-1` makes N-1 NUL bytes
readable); the runs start from the test reset state so that everything else is
checked. That bug is listed as a hazard in `PROJECT.json`.

Refinement: `pendingBar` is the bytes from tail to cooked (all N of them when
`full`) and `editingBar` the bytes from cooked to head. `LineDiscRefinement`
checks that `Ldisc` with this mapping implements `LineDiscipline`: typing adds to
the line being edited, backspace removes its last byte, newline and ctrl-d
commit it with the terminator, ctrl-c commits a newline, and a read consumes a
prefix of the pending bytes.

### VMMap

State: the intrusive list of areas at the level of its links (`nx`, `pv`, with
`HEAD` the list head and `NIL` a NULL link), because `vmmap_insert` can link an
area that is already on the list; `area[n]` (start, end, offset and object of
slab slot `n`) and `used` (the vmarea slab); the memory objects' `rc`, `otype`,
`osh` (shadowed) and `obot` (bottom object); `p_brk`; `fault` (a NULL
dereference or a walk that never returns to the head, after which the kernel
stops); and `lastCall`, the arguments and result of the last call, for the
properties about what a call did.

Every operation is an operator over a record `S` of the whole state, so a call
nested in another (`vmmap_remove` inside `vmmap_map`, `vmmap_insert` inside
`vmmap_remove`) is the same operator; `vmmap_map` is split into one operator
per stage of its body (`MapRange`, `MapStart`, `MapArea`, `MapObj`,
`MapShadow`, `MapRemove`, `MapFixed`, `MapUndo`). The actions are the three
system calls: `Mmap` (`do_mmap`'s argument checks, then `vmmap_map`), `Munmap`
(`do_munmap`, then `vmmap_remove`) and `Brk` (`do_brk`). Page numbers are held
modulo `PNMod`, so `vmmap_find_range`'s `-1` is `PNMod - 1`, as in a `size_t`.

Properties: `NoRefcountUnderflow` (no object is freed or under-counted while an
area or a shadow still refers to it), `ListIntact` (the list is a proper
doubly linked cycle through the used slots), `MapWellFormed` (spec 4's
vmmap invariant: `ListIntact`, and the areas on the list are non-empty, inside
user memory, ascending and disjoint), `MunmapExact` (a successful munmap
unmaps exactly its range and leaves every other page mapped to the same object
page), `RefcountsExact` (every refcount equals the references held to it),
`HeapMapped` (every page from the start of the heap to `p_brk` is mapped) and
`NoKernelFault`.

### CowFork and PrivateMemory

`CowFork` has a set of process slots, each with `NAreas` private one-page
areas and one kernel thread. State: `alive`; `zombie`, the processes whose
thread has exited and which wait to be reaped; `kt[p]`, the `kt_state` of p's
thread (`"none"` when the slot has no thread; the kthread slab holds
`MaxThreads` threads); `forkret`, what the step's `do_fork` returned (`"none"`
for any other step), kept so that an action property can speak of failed forks; `amap[p][a]`, the object of p's area a (`None` when p has no
area a, `NoObj` a NULL `vma_obj`); `nx[p]` and `pv[p]`, the `l_next` and
`l_prev` links of p's area list (as in `VMMap`, because `vmmap_insert` can
relink an area already on the list); `nvma`, the vmareas allocated from the
slab of `MaxVmas`; `pt[p][a]`, the page table entry (the
object whose frame is mapped and whether it is writable); the mobj slab
(`olive`, `otype`, `rc`, `osh`, `obot`); `res[o]` and `data[o]`, whether o has
its page resident and what the page holds; `uaf`, set when freed memory is read;
and `fault`. Freed objects keep their fields (the slab keeps its free-list link
outside the object), so a read after free returns the stale fields: the model
takes the outcome the build produces and records that it happened.

Area a covers page `Start(a)`, with `Gap` free pages between neighbouring
areas. `vmmap_lookup`, `vmmap_destroy` and `vmmap_collapse` walk the list as
`list_iterate` does, with the next link read before the body, so an area that
fell off the list is not found, not freed and not collapsed.
`vmmap_clone` walks the parent's list; for each area it allocates a vmarea
(a full slab destroys the half-built child map and returns NULL, leaving the
parent's areas already visited on their new shadows), makes the two shadows
and puts the new area on the child's list with `vmmap_insert`.

Actions: `Fork(p, c)` is `do_fork` with c the slot `proc_create` takes:
`proc_create` fails with `-ENOMEM` when no slot is free or `vmmap_clone`
returns NULL; `kthread_clone` fails
when the kthread slab is full, and then `proc_destroy` destroys the child and
its map and `do_fork` returns `-ENOMEM`; otherwise the thread joins the child,
the parent's user page table is unmapped (after `kthread_clone`, as in the
code) and the thread is made runnable. `PageFault(p, a, write)` is
`handle_pagefault` (lookup, the object's `get_pframe` with `forwrite`, and the
mapping, writable when the fault is a write; no area exits the process);
`UserWrite(p, a, v)` is a user store through a writable entry; `Exit(p)` is
`do_exit`: `kthread_exit`, after which the thread is `KT_EXITED`, the process
a zombie and its map destroyed (spec 3: the map is destroyed after thread
exit). `Reap(p)` is `do_waitpid` reaping a dead child: `kthread_destroy`,
which panics unless the thread has exited, then `proc_destroy`.
`proc_create`, `proc_destroy` and `do_waitpid` are in `proc.c`, which is not
in the repository; they are modelled from the spec. `Collapse(p)` is `vmmap_collapse`, used only by
`SpecCollapse`, under the contract `shadow_collapse` asserts (every shadow below
has refcount 1).

`ForkMode` selects what `proc_create` does with memory. `do_fork` itself
never calls `vmmap_clone`, and nothing else in the repository does; the
`proc_create` of `proc.c` (not in the repository) would have to. `"code"` gives
the child an empty map, as if it does not; `"clone"` gives the child
`vmmap_clone` of the parent's map, as the spec's fork requires, so that the
clone, shadow and fault code is checked as the fork would use it.

Refinement: `memBar[p][a]` is what a user read of p's page a returns, found as
the code finds it (the mapped frame if the page table maps one, else the
`shadow_get_pframe` read walk, `EFAULT` with no area).
`PrivateMemRefinement` checks that `CowFork` implements `PrivateMemory` with
`live <- alive, mem <- memBar`: a write changes the writer's page only, and fork
gives the child a copy of the parent's pages.

### Vfs

State: `vtype[v]` (free, dir, reg, chr, blk), `ent[v]` (a directory's entries,
a function from names to vnodes), `dotdot[v]` (the parent, `NoV` once a
directory is removed), `vcount[v]` (`vn_refcount`), `fvn[f]` and `frc[f]` (a
`file_t`'s vnode and `f_refcount`), `fds[fd]` (`curproc->p_files`), `cwd`
(`curproc->p_cwd`), `fpos[f]` and `fmode[f]` (`f_pos` and `f_mode`),
`vlen[v]` (`vn_len` of a regular file; a directory's length is `DirentSize`
bytes per entry, `.` and `..` included), `dev[v]` (the device a character
device vnode stands for: `mknod` passes its `devid` down through `namev_open`
to the file system), and `last`, the arguments and result of the last `dup2`,
`read`, `write`, `lseek` or `getdent`.
The root holds two references at the start: the file system's and the cwd's.

A path is a record of its components, whether it starts with `/` and whether it
ends with `/`: the tokenizer of `namev.c` turns runs of slashes into one
separator, so these three are all that `namev_dir` and `namev_open` look at.
`namev_lookup`, `namev_dir` (the loops `DirLoop` and `DirStep`), `namev_open`
and `namev_resolve` are operators that return the new state, the vnode reached
and the last name; every `vref` and `vput` of the code is in them. Each
system call is one action (`Open`, `Close`, `Dup`, `Dup2`, `Mknod`, `Mkdir`,
`Rmdir`, `Unlink`, `Link`, `Rename`, `Chdir`, `Stat`; `Read`, `Write`,
`Lseek`, `Getdent`) taking its
arguments from small sets, and its stage operators (`MkdirDir`, `MkdirLookup`,
`MkdirMade`, ...) follow the code's early returns in order.

The file system's own operations (s5fs, not in the repository) are modelled
from the spec: a vnode is freed when its last reference is put and no
directory links it; `rmdir` of a non-empty directory fails; a removed directory
(its `dotdot` cleared) accepts no new entries. Each call is one step: the
kernel is not preemptive, and a call that sleeps on a lock or the disk already
holds references to what it uses, so the counts it depends on cannot change
under it. `do_rmdir(".")` reads the byte before the string; the model takes
both values of it (`before`). `do_open` is in `open.c`, which is not in the
repository, and is modelled from the spec, with `-EISDIR` for a directory
opened for writing.

The data path has its own specification, `IOSpec` (`IONext`: open, close, dup,
mknod, unlink, read, write, lseek, getdent), so that `vfs_refs` keeps its state
space. `do_read`, `do_write`, `do_lseek` and `do_getdent` follow the code's
tests in order: `do_lseek` tests `whence` before the descriptor, and `do_write`
moves `f_pos` to `vn_len` under `FMODE_APPEND` before calling the write op.
`(int) f_pos` and `(int) vn_len` are `IntOf`, the low `IntBits` bits read as a
two's complement number. The vnode ops dispatch on the vnode's type: a regular
file uses s5fs's read (up to the end of the file) and write (extending it),
from the spec; a character device uses the ops `memdevs_init` registers,
`null_read` (0), `null_write` (`count`, for both devices) and `zero_read`
(`count`). Bytes are not modelled, so `zero_read` filling the buffer with the
character `'0'` instead of zero bytes is not visible to a property.
Positions and lengths are bounded by `MaxPos`: a call that would go past it is
not taken.

## Runs

Ldisc runs use `N = 4` (`LDISC_BUFFER_SIZE` is 128 in the kernel), two letters,
two readers and read counts `{1, 2}`. Four slots are enough to fill the buffer,
to wrap every cursor, to reach the no-room state with a line half typed, and to
have a read of count 1 stop in the middle of a line; two readers are the fewest
with which a wake-one can leave someone behind.

VMMap runs use user pages 1..5 of 2-byte pages, three area slots and seven
object slots. `mmap` is tried with no hint and with a hint (`0` and `6`),
lengths of one and three pages, and private, shared and fixed anonymous flags;
`munmap` at two addresses; `brk` below and above the first heap page. This
reaches every overlap case of `vmmap_remove`, a split, slab exhaustion of both
slabs, and the fixed map over existing areas.

The CowFork violation runs use values `{1, 2}`, one area, seven object slots
and three vmarea slots (never exhausted), which give short counterexamples.
`cow_refs` writes the one value `1` (any value other than `Zero` shows whose
write a process sees), and has two areas per process one page apart
(`Gap = 1`), 13 object slots and five vmarea slots (439,144 states, about two
minutes): enough for a
fork of a fork over both areas (chains of two shadows), two children sharing
a chain, exits and reaps in any order, `vmmap_clone` and `vmmap_destroy`
looping over more than one area, and the shadow slab running out in the middle
of a third clone, and the vmarea slab running out on the second area of a
clone, after the first area of the parent has moved to its new shadow. It
has four process slots and three kthread slots, so that a
fork with three threads in use fails in `kthread_clone` after `proc_create`
has cloned the map, and zombies hold their slots until reaped. A fork failing
in `proc_create` needs every slot in use, hence as many threads as slots; the
two violation runs have three slots and three threads and reach it.

With adjacent areas (`Gap = 0`) and the same bounds, `RefcountsExact` fails in
three steps: the fork's `vmmap_insert` of the child's second area links it
before the first and then again at the tail, which leaves the first area off
the child's list (the list corruption `vmmap_wellformed` reports, since both
go through the same `vmmap_insert`); the child's fault on that page finds no
area and the child exits, and `vmmap_destroy` never puts that area's shadow.
`cow_refs` keeps the areas apart so that its properties speak of the fork,
fault, exit and reap code rather than repeat that bug.

The `vfs_refs` run (`Spec`) uses three vnodes (the root and two more: a directory inside a
directory, or a file and a directory), names `a` and `b`, two descriptors, two
`file_t` slots, and 13 paths: empty, `/`, `a`, `b`, `/a`, `a/`, `a/b`,
`/a/b/`, `.`, `..`, `a/.`, `a/./`, `a/..`. These reach every error path of
every modelled call: a missing component, a component that is not a directory,
an existing name, a full descriptor table and file slab, a full inode table,
rmdir of the cwd and of a non-empty directory, rename into its own subtree, and
dup2 onto itself and onto an open descriptor.

The data path run `vfs_io` uses two vnodes (the root and one file or device
named `a`), the paths `a` and `.`, two descriptors and two `file_t` slots
(so two open files of the same vnode, one of them appending), the modes
`O_RDWR` and `O_WRONLY|O_APPEND`, both devices, counts `{1, 2}`, offsets
`{-1, 2}`, every `whence` and an invalid one, `MaxPos = 4` and `IntBits = 3`.
With a 3-bit int, a position of 4 reads as -4 under `(int)`, as a position of
2^31 does in the kernel; the run reaches it, so `lseek`'s casts wrap.

| run | expect | what it checks and shows |
|---|---|---|
| `ldisc_core` | pass | Without ctrl-c, from the test reset state: the cursors stay ordered (`CursorOrder`); each read returns at most `count` bytes with a newline only as the last (`ReadResultWellFormed`); and `Ldisc` implements `LineDiscipline` (`LineDiscRefinement`). |
| `ldisc_ctrl_c` | pass | With ctrl-c as well: the cooked region always ends in a newline or EOT (`CookedEndsWithTerminator`), so a read can never run into cooked in the middle of a line and leave tail behind. |
| `ldisc_etx_overwrite` | violation | EOT, newline, newline, newline fills the buffer; ctrl-c then writes a newline over the unread byte at tail. |
| `ldisc_lone_wakeup` | violation | Type `a`; readers 1 and 2 sleep; EOT wakes only reader 1, which reads `a`; reader 2 sleeps on with the EOT buffered. |
| `ldisc_full_stuck` | violation | Under fair readers, a buffer filled by a newline never drains (`FullBufferDrains`). |
| `vmmap_refs` | pass | Over every sequence of mmap, munmap and brk in the bounds (6,876 states), no object is freed while referenced (`NoRefcountUnderflow`). |
| `vmmap_wellformed` | violation | One mmap without a hint: `vmmap_find_range`'s HILO search starts at `USER_MEM_HIGH`'s page, so the new area is the page just above user memory (`MapWellFormed`). The same property catches `find_range`'s `-1` accepted as a start, the list corruption of `vmmap_insert`, overlapping areas left by `vmmap_remove`'s first branch and the heap grown over an area `is_range_empty` misses. |
| `cow_refs` | pass | With fork cloning the map, each area put on the child's list by `vmmap_insert`, over every interleaving of forks (some failing in `vmarea_alloc` half-way through the clone, some in `kthread_clone`), faults, writes, exits and reaps of up to three processes in four slots, each with two areas (439,144 states), every refcount equals the references held (`RefcountsExact`), every chain ends at the object its `bottom_mobj` names (`ChainsEndAtBottom`), each used slot has exactly one thread, runnable if the process lives and exited if it is a zombie (`ThreadsMatchProcs`), and a failed fork leaves the processes, threads, page tables and every process's contents as they were (`ForkAtomic`, spec 5). |
| `cow_write_shared` | violation | Fork (with clone), then a write fault in the parent: `shadow_get_pframe` gives the bottom object's page for writing and the child reads the parent's write. |
| `cow_collapse_uaf` | violation | Fork, the child exits, the parent collapses: `shadow_collapse` frees the shadow below and reads its `shadowed` field. |
| `vfs_refs` | pass | Over every sequence of the name space and descriptor calls (63,206 states), each vnode's count equals the references the fs, the cwd and the open files hold (`VnodeRefsExact`); each file's count equals the descriptors pointing to it (`FileRefsExact`); the cwd and every open file's vnode are allocated (`HeldVnodesLive`); and `dup2(fd, fd)` returns `fd` and leaves the table as it was (`Dup2SameFd`). |
| `vfs_io` | pass | Over every sequence of the data path calls (170,047 states): a read, write or getdent moves only its own file's position, by exactly what the op consumed, an appending write starting at the end the file has when it runs even after the other open file grew it (`PosAdvance`); a successful lseek sets and returns the base its `whence` names plus the offset, never a negative position, even where the int casts wrap, and a failed one changes nothing (`LseekSound`); getdent's `fget`/`fput` keep the file counts exact (`FileRefsExact`). |

Deadlock: `vmmap_refs` and the `cow_*` runs set `CHECK_DEADLOCK FALSE`. After a
kernel fault (`fault # "none"`) nothing more happens, as the kernel has
panicked; and `vmmap_refs` also stops when the slabs are exhausted and every
call fails without a change. The `ldisc` runs, `vfs_refs` and `vfs_io` check deadlock (a system call can always be made).

Fairness: `Ldisc`'s `FairSpec` puts weak fairness on each reader's steps. The
scheduler runs every runnable thread eventually, and a reader that keeps reading
the tty, like a shell's input loop, calls `read` again. Keystrokes get no
fairness, since the user may stop typing. Only `ldisc_full_stuck` uses
`FairSpec`; the VMMap and CowFork properties are safety properties.

Each property of a passing run has a mutant in `PROJECT.json`: a definition
changed the way a plausible bug in the code would change it (the wrap dropped
from `ldisc_increment` or from an area's end page, the empty-line guard dropped
from backspace, the no-room check dropped from a plain key, the count check
dropped from the copy loop, ctrl-c not writing its newline, a split not taking a
reference for the new area, `vmmap_clone` not putting the parent's object,
`do_fork` not calling `proc_destroy` when `kthread_clone` fails, `do_fork`
unmapping the parent before `kthread_clone`, a
shadow of a shadow taking the shadowed object as its bottom, `dup2` not closing
the target or closing it before `fget`, `mkdir` not putting the existing vnode,
`unlink` putting the found vnode twice, `chdir` not checking for a directory,
`getdent` not putting the file on `-ENOTDIR`, `write` ignoring `FMODE_APPEND`,
`SEEK_END` counting from `f_pos`),
and TLC finds the property violated.

Bugs found but not kept as runs (the number of runs is kept small); each is a
hazard in `PROJECT.json` with the bounds that show it: `ldisc_init`'s
`cooked = N-1`; a read of count 0 copying a line; `vmmap_insert` linking the
new area before every later area and again at the tail, so that an older
area falls off the forward list (`ListIntact` alone, with the bounds of
`vmmap_wellformed`: two mmaps without a hint); `vmmap_find_range`'s `-1`
passing `vmmap_map`'s test and `vmmap_is_range_empty` missing an area that
contains the range (both would break `MapWellFormed`, whose run stops at the
shorter HILO counterexample); munmap leaking
areas it removes whole (`RefcountsExact`); the NULL shadow dereferenced in
`vmmap_map` (`NoKernelFault`); the first `brk` mapping only `addr`'s page
(`HeapMapped`); no code in the repository calling `vmmap_clone`, so that,
unless `proc_create` clones the map, the child has no areas (`ForkMode =
"code"` of `CowFork`, where `PrivateMemRefinement` fails);
`vmmap_remove`'s first branch growing an area that lies wholly above the
unmapped range down to the range's end (`MunmapExact` with the bounds of
`vmmap_refs` but `MmapAddrs = {0, 6}`, `MmapLens = {2, 6}`, `MunmapAddrs =
{6, 8}`, `MunmapLens = {2}`, `BrkAddrs = {5, 8}`, `CHECK_DEADLOCK FALSE`).

Bugs found by reading the code while modelling, which no property of the model
can show: `zero_read` fills the buffer with the character `'0'` rather than
zero bytes; `memdevs_init` gives the null device `zero_mmap` as its mmap op
(the spec says it has none, and the code marks it `// ??`); `zero_mmap` is not
implemented and returns -1, and `vmmap_map` ignores the mmap op's result and
fails with `-ENOMEM` on the NULL object; `do_mmap` indexes `p_files` with any
non-negative `fd`, with no test against `NFILES`; `vmmap_read` and
`vmmap_write` loop to `ADDR_TO_PN(vaddr + count)` inclusive and pass the
virtual page number to `mobj_get_pframe` instead of the object's page.

## What is not modelled

- `ldisc_get_current_line_raw` only copies bytes for the virtual terminal and
  changes nothing; the virtual terminal output is layout only.
- `tty_read` itself is not in the repository; its reader loop is modelled from
  the spec (`TtyRead`, marked `spec_modelled`).
- File-backed mappings, `vmmap_read/write` (copies through page frames) and the
  LOHI direction of `vmmap_find_range` (no caller uses it).
- `brk.c` holds a second `do_brk`. Both define the same symbol, so a kernel
  links only one; the version in `mmap.c` is modelled, next to the `vmmap.c`
  code it calls. A second `Brk` action would be checked only in a run of its
  own. Reading `brk.c` shows these bugs:
  - `endpage` is `ADDR_TO_PN(PAGE_ALIGN_UP(addr)) + 1`, one page more than the
    heap needs when `addr` is page-aligned;
  - it tells "no heap yet" by `p_brk == p_start_brk`. With a page-aligned
    `p_start_brk`, `brk(p_start_brk)` creates a one-page heap and leaves
    `p_brk == p_start_brk`, so every later `brk` takes the creation path,
    finds the heap in the range and fails with `-ENOMEM`;
  - once the user has unmapped the heap, `vmmap_lookup` returns NULL and
    `KASSERT(heap)` panics.
- In `CowFork`: areas of more than one page, shared areas (the `MAP_SHARED`
  test in `vmmap_clone` is a hazard), protection checks in `handle_pagefault`
  (every area is read-write), pframe locking (the kernel is not preemptible and
  no step blocks in the modelled paths), `fork_setup_stack` and the register
  set-up (data no property reads), and `alloc_stack` failing (its result is
  not checked by `kthread_clone`, but the page allocator is not modelled).
- `kthread_create` (used only to start the first process, which `Init`
  stands for). `kthread_cancel` is modelled in `Ldisc` only, on a tty reader
  in its cancellable sleep: no other cancellation point is in the
  repository. Note that
  `kthread_cancel` ignores its `retval` although its comment says it sets the
  thread's return value, and `kthread_exit` does not store it either.
- In `Vfs`: the bytes of files (only lengths and positions are kept); block
  devices' read and write (no block device is in the repository, and `vfs_io`
  makes only regular files and character devices); readdir failing, which the
  s5fs of the spec never does; `namev_get_parent`
  and `namev_is_descendant` serve only the `__GETCWD__` code, which is not
  compiled; a second process (descriptor tables are per process and the calls
  are atomic, so one process reaches the same reference counting).
- `zero_mmap` (not implemented) and mmap of files in general.

## Plan for the remaining parts

1. **vmmap_clone failing**: a property of what a fork failing in the shadow
   slab leaves behind, once the NULL dereference before the test is separated
   from the leak.
2. **More of CowFork**: two-page areas with offsets, and shared areas.
3. **vmmap_read/write** as operators over `VMMap`'s areas, checked against the
   bytes a page walk should reach.
