# A TLA+ verification project for the MTX/WANIX kernel on ARM

This directory models the kernel of `mtx_arm_operating_system` (KC Wang's MTX
for the ARM versatilepb board, C and ARM assembler) and checks it with TLC and
TLAPS. Paths below are relative to the repository (`src/`).

What is modelled is what is *built*: `kernel/mkk`, `driver/mk` and `fs/mk` name
the sources that are linked. `kernel/threads.c`, `kernel/elf.c`,
`kernel/mtxlib.c`, `driver/kbd.pv.c`, the `*.ori` files and `edited_kernel/` (a
second copy of the kernel directory) are in the repository but not in the image, and
`fs/buffer.c`'s block functions are commented out in favour of
`driver/disk.c`'s.

## 1. How the system runs

One CPU. User programs run in USR mode, the kernel in SVC mode, interrupt handlers
in IRQ mode (and, for the timer, on the kernel stack of the interrupted process).

* The kernel is **not preemptible**. A process in the kernel gives up the CPU only in
  `tswitch()` (ts.s:202), which it reaches through `ksleep`, `P`, `kexit` or
  `kswitch`. The timer takes the CPU away only from a process that it
  interrupted in user mode (timer.c:176-198).
* **Interrupt handlers** run between any two instructions of the kernel unless
  IRQs are masked (`int_off` ... `int_on`). `svc_handler` enables IRQs on entry;
  `ksleep`, `kwakeup`, `P`, `V`, `wV` and `kitimer` mask them for their duration.
  Handlers call `kwakeup` and `V`, post signals (Control-C, SIGALRM) and walk the
  sleep list.
* After every interrupt `irq_handler` calls `kpsig()` (ts.s:129), whatever was
  interrupted, so a pending signal can end a process in the middle of a system
  call.

A model therefore uses one action per stretch of code that nothing else can
observe half-way: from one `tswitch` to the next, cut where an interrupt handler or
another process could tell the difference.

## 2. Inventory

| Component | Source | State | Operations | Talks to | What is hard |
|---|---|---|---|---|---|
| Process core | kernel/kernel.c, queue.c, ts.s, t.c | `proc[]`, `freeList`, `readyQueue`, `running` | `init`, `scheduler`, `tswitch`, `getproc`/`putproc`, `enqueue`/`dequeue`, `kswitch`, `ksetpri` | everything | lists changed by handlers and by processes; priorities changed while linked |
| fork / exit / wait | kernel/fork.c, wait.c | `ppid`, `parent`, `status`, `exitCode` | `fork`, `vfork`, `kexit`, `kwait` | process core, pipes, files, signals | wakeup lost between scan and sleep, orphans, being killed half-way |
| Sleep/wakeup, semaphores | kernel/wait.c, driver/pv.c | `sleepList`, semaphore queues | `ksleep`, `kwakeup`, `P`, `V`, `wV` | all drivers, minodes | lost wakeups; `wV` on a process that did not get the semaphore |
| Signals | kernel/signal.c | `res->signal`, `res->sig[]` | `kkill`, `ksignal`, `cksig`, `kpsig` | process core, semaphores | handled mid-kernel; wakes bystanders |
| Timer | driver/timer.c | `tick`, timer queue, `PROC.pause`, `time` slice | `timer0_handler`, `kitimer`, `kpause` | scheduler, signals | delta list edited by handler and calls |
| Pipes | kernel/pipe.c | `pipe[]`, OFT entries, `fd[]` | `kpipe`, `read_pipe`, `write_pipe`, `close_pipe`; `kdup`, `kdup2`, fork, exit | fork/exit, open files | counts kept by five operations; end of file and broken pipe; ring wrap |
| Keyboard, UARTs | driver/kbd.c, uart.c | ring buffers, `inchar` semaphores, counters | handlers, `kgetc`, `kgetline`, `sgetc` | sleep/wakeup, signals | handler racing the reader, full ring |
| SD card and blocks | driver/sdc.c, disk.c | `rxbuf`, `rxcount`, `rxsem`, `txsem`, one `readbuf` | `getblock`, `putblock`, `sdc_handler`, `getblk`/`bread`/`brelse` | file system | one shared transfer state for all callers |
| Minode cache | fs/util.c, alloc_dealloc.c | `minode[]`: `refCount`, `lock`, `dirty` | `iget`, `iput`, `mialloc`, `ilock` | block layer | two processes on one inode, blocking between check and use |
| Open files | fs/open_close.c, read.c, write.c | `oft[]`, `fd[]`, offsets, block numbers of a file | open, close, lseek, dup, read, write, truncate | minodes, block bitmap, pipes | shared offsets, reference counts, three kinds of blocks, a full disk |
| Directories, link, mount | fs/di.c, mkdir_creat.c, link_unlink.c, rmdir.c, cd_pwd.c, mount_umount.c | directory blocks, link counts, mount table, mount points | mkdir, creat, link, unlink, rmdir, chdir, pwd, mount, umount | minodes, bitmaps | record lengths and slots; one step of several failing; entries of the mount table that are no longer mounted |
| Threads, mutexes | kernel/thread.c | threads of a `res`, `mutex[]`, `PROC.next` | `kthread`, `ktexit`, `ktjoin`, `mutex_create`, `mutex_lock`, `mutex_unlock`, `mutex_destroy` | process core | a hand-written queue through the link that the ready queue uses |
| Messages | kernel/mes.c | `mbuf[]`, `mlock`, `mqueue`, `res->message` | `ksend`, `krecv` | semaphores, signals | `mbuf_init` is never called; `kkill` lets a blocked sender past the semaphore |
| Exec and load | kernel/exec.c, load.c, fork.c | user images, `buf1`, `buf2` | `fork`'s copy, `kexec`, `load` | block layer | sleeps for every block with buffers that all callers share; argument string at the end of the image |
| Video | driver/vid.c | `row`, `col`, frame buffer | `kputc`, `scroll`, the clock | printf, all handlers | handlers print in the middle of a character |
| System-call layer | kernel/svc.c, ts.s, except.c, user/ucode.c | registers on the user and kernel stacks, `res->signal`, `res->sig[]` | the library's stubs, `svc_entry`, `svc_handler`, `f[]`, `goUmode`, `kpsig`, abort handlers | every call | numbers that have to agree in two files; a catcher run from the middle of a call |
| Session programs | user/siinit.c, si_login.c, si_sh.c | the process table as these programs fill it | `init`, `login`, the shell's loop | process core, signals, keyboard | Control-C for everybody on the tty; a command that cannot be loaded |
| Filters | user/sicat.c, sicp.c, sil2u.c, sigrep.c, simore.c, ucode.c | what has been read of the input | `getline`, `gets`, each program's loop | read, write | the end of the input in `getc` |

What makes each one correct:

* **Process core**: every PROC is in exactly the list its status names; nobody twice;
  the scheduler never dequeues null; the highest priority runs; equals take turns.
* **fork/exit/wait**: every child has a parent that will reap it; a ZOMBIE is
  never overlooked by a sleeping parent; init reaps orphans.
* **Signals**: a signal ends its target, at the return to user mode, and nobody else.
* **Pipes**: a FIFO channel; counts equal to the descriptors that exist; end of
  file exactly when there is no writer; nobody asleep at a pipe that is ready.
* **Shell pipelines**: deliver all bytes in order, end, and leave nothing behind.
* **Timer**: an alarm not before and not long after its time.
* **Drivers**: every byte typed and every block asked for reaches the process
  that waits for it, once.
* **Files**: a minode's and an open file's `refCount` is the number of its users; an
  inode's link count that of its names; the directories are a tree; a block has one
  owner; a file that is open for writing is open once.
* **Minodes**: at most one minode per inode; locked by one process at a time; a
  dirty one is written before its slot is reused.
* **File contents**: what is read at a place is what was last written there, in
  whichever block it lies; the bitmap and its count agree with the files.
* **Directory blocks**: the records fill a block; a name is found until it is removed.
* **Mounts**: nobody is in a file system that is not mounted; `pwd` leads to where one is.
* **Mutexes**: one thread inside; whoever is blocked will be found by an unlock.
* **Images**: a process runs the program it asked for, all of it and nothing else.
* **System-call layer**: a library function does what its name says; signal 9 ends a process.
* **Session**: one login or shell on the console, and after each end of one the next.
* **Filters**: every complete line of the input, once and in order.
* **Video**: the screen shows what was written to it.
## 3. Modules

### ProcQueue (kernel/queue.c, `outSleep` of wait.c)

The singly linked lists as sequences of pids: `Enqueue` (behind every PROC of the
same or a higher priority), `First`/`Rest` (dequeue), `PutLast` (the free list),
`Unlinked` (out of the middle). Priorities are passed as a function, because the code
reads them from the PROCs at the time of the call.

### Process (kernel.c, fork.c, wait.c, signal.c, syscall.c, pv.c, timer.c, ts.s)

State: the PROC fields `status`, `ppid`, `parent`, `priority`, `event`, `pause`, a
pending fatal signal `sig`, and `pc`, where the process stands in the kernel; `running` and
the four lists; `newborn`, the child of a `fork()` that has not enqueued it yet;
`waking`/`unwoken`, the state of `kwakeup`'s loop (the list `tmp`); `ticking`,
that of the timer's loop over paused processes. While one of the two loops runs, IRQs
are masked and nothing else happens (`Unmasked`).

| Action | Code |
|---|---|
| `Fork`, `ForkEnqueue` | `fork()` before and after the copy of the image; the child is READY and unlinked in between |
| `Wait`, `WaitReap`, `WaitSleep` | `kwait()`: the check for children, one scan that finds a ZOMBIE, one that does not |
| `Exit`, `Die`, `ExitBlock`, `ExitFinal`, `ExitWakeP1`, `ExitSwitch` | `kexit()` up to its `tswitch()`; `Die` is `kpsig()` |
| `Pause`, `DevSleep`, `Read`, `SetPri`, `Switch`, `KillReady`, `KillSleep`, `KillBlock` | the other calls that touch a list; `DevSleep` stands for terminal and pipe reads, `Read` for a file call that waits for a locked minode |
| `Preempt`, `PostSignal`, `WakeDev`, `Unblock`, `TickSecond`, `TickStep` | interrupt handlers (`Unblock` is also the `V` of a process that releases a minode) |
| `WakeStep`, `WakeEnd` | `kwakeup()`, one PROC at a time |

`KillPoints` says at which points inside the kernel the IRQ path may find a signal
pending. `SafePoints` of MCProcess are those where it does no harm; the run
`kill_in_fork` has the other one and shows what happens.

Left out: P1 as the target of a signal (a kill of P1 makes init run at address 0;
nothing meaningful follows); caught signals; thread slots; exit codes.

### PipeChannel, Pipe (kernel/pipe.c, fs/open_close.c, fork.c, wait.c)

`Pipe` has the descriptors of each process, the open file table, and the pipe table
with its ring (`buf`, `head`, `tail`, `data`, `room`) and counts (`nreader`,
`nwriter`). `MakePipe`, `Close`, `Dup`, `Dup2`, `Fork`, `Read`/`ReadLoop`,
`Write`/`WriteLoop`, `Exit`/`ExitClose`/`ExitDone` are the system calls; no
interrupt handler touches a pipe, so a call is one action up to its `ksleep`.
`Kill` wakes a sleeper as `kkill` does. `PipeChannel` is the abstract promise, a
bounded FIFO channel: it has the bytes in each pipe, whether anybody holds each end, the call
each process is in and what its last read returned. A channel is empty when it is made and
emptied only when both ends are gone; what goes in are the next bytes of the write in
progress (`Put`), as many as fit; what comes out are the oldest (`Take`), all that there are if
as many were asked for; a read comes back without any only from an empty pipe that nobody can
write to (`EndOfFile`). `FifoChannel` says that `Pipe` implements it: `InRing` is the
ring's content from `tail` on, `Held` who has descriptors of an end, by the descriptors and not by
`nreader` and `nwriter`, and `InPipe` the call that a process is in with the bytes it has yet to put.

### ShellPipe (user/si_sh.c)

`do_pipe()` on top of `Pipe`: which process forks, closes and dup2s what, in which
order, and then the commands (external: the first writes, the others copy). It shows
that the shell's own discipline keeps clear of the miscounting of `kdup2`.

`SInit` leaves it open (`quitEarly`) whether the last command reads to the end, as `cat`
does, or may exit before, as `more` can.

### TimerQueue (driver/timer.c)

`tq` is the list of time differences, each node with the seconds that its process should still
have to wait (`left`, not in the code) beside them. `Itimer` is `kitimer()`, `Second` the handler's loop
at a full second, `Handle` the end of the signal. A time may be negative, as `kitimer()` takes any `int`: the
request is due at the next second, and the node behind it says by how much more it is later, so that
`itimer(-5)` puts an alarm asked for afterwards off by five seconds. `PutOff` is what it puts off,
and `left` counts it, so that `NeverLate` allows for that much and no more. `NoNode` is a request when all nodes are in the list:
`get_tnode()` hands out its null pointer, `wild` becomes true and nothing is said of what follows.

### Keyboard, ScanCodes (driver/kbd.c)

Two halves of one driver that meet in the character a key yields. `Keyboard` has the
ring and its readers: a reader's `pc` is "window" between `kgetc()`'s `unlock()` and its
`ksleep()`, where the handler (`Key`, `ControlC`, `Arrow`) can come in between, and
"woken" between `kwakeup()` and its next look. `Kill` and `KillOther` are `kkill()`,
which advances `head` and `data` for every sleeper. Two history variables say what has
gone wrong so far, so that the properties hold for the rest: `late` (a character came in
the window) and `spoilt` (the ring was overrun, or a kill added a character nobody typed).

`ScanCodes` has the keyboard (external: what codes a press and a release send) and
the two handlers' state between codes; `asked` is what the pressed keys stand for. `defect`
becomes true when a key has been used whose release the handler misreads.

### Uart (driver/uart.c, pv.c)

The same for a serial line, where a counting semaphore takes the place of `kwakeup`:
`P` and `V` are translated with their queue, `Take` is `sgetc()` after `P`, `usgets()`
does it until the end of the line, `DieInKernel` is a signal handled between the two.

### AtomicDisk, Sdc (driver/sdc.c, pv.c)

`Sdc` has the globals that a call sets up and the handler uses (`drv`, once for reading
and once for writing) and the card's side of the transfer (external). A block takes N
interrupts instead of 16. `AtomicDisk` is what the callers expect: a whole block, at one
instant between call and return; `WholeBlocks` says that `Sdc` implements it. Nothing in the
code keeps a process out of the driver while another waits in it: `getblock()` resets `rxsem` and
`rxcount` for all, and one of the two never returns. Nor does anything keep `kkill()` from ending the
wait (`Kill`), which leaves a process with half a block. Both are steps of the model, after which
`disturbed` is true; `WholeBlocks` covers the steps until then, and `AllReturn` the calls.

### Files (fs/, fork.c, wait.c)

The inodes and directory blocks on the disk with the two bitmaps (`inode`, `dir`,
`imap`, `bmap`), the minodes (`ref`, `lock`, `dirty` and the inode as it is in
memory), the open file table, and the descriptors and current directory of each
process. A system call is one action: the SD driver bears only one caller at a time
(see Sdc), so calls that touch the disk do not overlap. What a call does to
minodes and disk is composed, in the code's order, of `Iget`, `Iput`, `Lock` and
`Unlock`, functions from one `[mem, disk]` to the next; `Becomes` makes the result the
next state. A call that fails in the code and puts back what it took is no step. An `open` with
a flag that `myopen()` does not know (`Invalid`) is one: it gives back the minode and leaves its
open file table entry counted, with a pointer to that minode (`Left`); an entry that is
`Leaked` is nobody's, for ever, and while that minode slot is used no inode in it can be opened: `OpenInode`
leaves open which that is.

| Action | Code |
|---|---|
| `OpenOld`, `OpenNew` | `kopen`, `myopen`, without and with `ocreat`; `OpenInode` is the part from `iget` on, with its two failures and `truncate` |
| `Creat`, `Mkdir`, `Rmdir`, `Link`, `Unlink` | `ocreat`/`mycreat`, `kmkdir`/`mymkdir`, `krmdir`, `klink`, `kunlink`, each with `enter_name` or `rm_child` |
| `Close`, `Dup`, `Dup2`, `Write` | `myclose`, `kdup`, `kdup2`, `kwrite`/`mywrite` |
| `Chdir`, `Touch`, `Stat`, `Sync` | `kchdir`; `kchmod`, `kchown`, `ktouch`; `kstat`; `ksync` |
| `Fork`, `Exit` | what `fork` and `kexit` do to descriptors and current directory |

A minode stands for the inode it holds, since one call at a time never loads an
inode twice; the size of `minode[]` is therefore no bound (the code searches 100
entries of an array of 20). What a free inode or block holds is set to a fixed value:
it is written before it is read. Presumed of programs: nobody writes to a directory,
links below a file, or `dup2`s a descriptor onto itself; and, with `Careful`, nobody
unlinks an open file, removes a directory that has files in it, or removes one as the `.` or
`..` of a path: `krmdir("/usr/.")` passes every check, takes the `.` out of the root and frees
the inode and the block of `usr`, whose name stays. The code refuses none
of these; `Rmdir` has them all, and the run's paths have `/usr/.`; with `Careful` off
`NamesCounted` and `DirectoryTree` do not hold, and `BlocksOwned` is not promised. An inode or block that `mkdir` or `unlink` loses stays allocated, as in the
code; the parent's link count that `mkdir` does not mark dirty is modelled as it is, and
no property speaks of a directory's own count.

### ByteFile, FileData (fs/read.c, write.c, open_close.c, alloc_dealloc.c, disk.c)

`ByteFile` is what the calls promise: a file is a sequence of bytes and a descriptor a
place in it. `FileData` has the blocks behind it: `ptr` is `i_block[]` with its direct,
indirect and doubly indirect numbers, `disk` what each block holds, `used` and `free` the
bitmap and the count in the group descriptor, `theirs` the blocks of a second file.

| Definition | Code |
|---|---|
| `Direct`, `Indirect`, `Double`, `Locate` | the three branches of `mywrite`'s search for a block, which make blocks as they go |
| `Turn`, `Mywrite`, `Write` | one turn of its loop, the loop, and `kwrite` |
| `Myread`, `Read` | `myread`, `kread` |
| `Truncated`, `Freed`, `Zalloc` | `truncate`, `zdalloc`, `zalloc` |
| `Lseek`, `Open`, `Close` | `klseek`, `kopen`, `kclose` |
| `Others` | another process's write or truncation of its own file |

`wild` is the point from which nothing is said: a write that needs a new block under a
doubly indirect one puts its number into the group descriptor, because `zalloc()` has
meanwhile read that into the one `readbuf` (write.c:203, disk.c:48), and a write that finds
the disk full before any buffer was taken releases an unset pointer. `Beyond` allows a seek
past the end, after which the size is wrong (it grows by the bytes written); it is off in
the run.

### DirBlocks (fs/di.c, user/sils.c)

How the names that `Files` has as a function lie in a directory's blocks: a sequence of
entries per block with `rec_len` in words. `Enter` is `enter_name()`, `RmChild`
`rm_child()`, `Ls` what `ls` reads, `Others` other files that take and free blocks. `held`
(history) is what has been entered and not removed. `lost` are the names for which there was
no room: `enter_name()` returns 1 all the same. `overfull` says that a block was
given back when all slots were in use: `rm_child()` moves the slots behind it forward and
leaves the last one as it was, so that two slots have one block.

### Mount (fs/mount_umount.c, mount_root.c, util.c, cd_pwd.c)

`mtab`, with the entry behind its end that the test for a full table lets in
(`Overrun`), `over`, the mount points' pointers, `ref`, `held`, the minodes whose lock
is not given back, and the current directories. `KMount`, `MountRefused`, `KUmount` and
`KChdir` are the calls; `Getino` walks over mount points in both directions; `Upwd` is `pwd`, whose `upwd()` calls itself
`Calls` times at most where it returns at all.
`kept` counts what refused mounts leave; `stale` says that an entry was unmounted that was no
longer mounted (`kumount` searches by name only).

### MCFiles

Seven instances, of which `instance` chooses one at the start: processes that open and
share a file; a file whose names come and go; processes that move about in a tree; the bytes of a file in direct and
indirect blocks; the same with a doubly indirect one; mounts; the names in a directory's
blocks. They are views of one system at different levels and share no variables: `Files`
has no bytes, `FileData` one inode, `DirBlocks` one directory. The module extends `Files`; the first three
are `Files` itself, with one set of constants and each with a restriction of its own (`OneFile`,
`OneProcess`, `NothingOpen`) that keeps it small. `SizesHold` is the condition of the theorems about
`Files`, which so are about what the run checks; `MountsHold` the one of those about mounts, for which the walkers, the
directories, the names of the special file, the paths and the table's size are left to constants.

### Video (driver/vid.c, fs/dev.c)

A cell of the screen is the set of glyphs drawn over each other; `kputc()` is the actions
`Begin`, `Draw`, `Move` and `Show`, between any two of which a handler may print
(`HandlerPrints`, which then sets `disturbed`) and the timer may draw the clock (`Tick`). Any character may
come at any time: `conwrite()` passes on what it is given, and a handler may print between
`printf()`'s newline and its carriage return. `text` is
what a terminal told the same characters would show, one that blanks the cell under its cursor when that moves off
without a letter being written there: `kputc()` takes the cursor away by clearing its cell, so that a `\r` over a letter
blanks it. `hidden` says that a backspace in column
0 has taken the cursor off.

### MCDevices

The drivers share no state, so one run checks them all: `device` chooses at the start
which of them runs, and the others rest. `readers` is the keyboard again, with several readers. What the
theorems in `Devices_proofs` are about is left to constants: the readers, the keys, the rings, the timer's nodes,
the card's callers, blocks and chunks, the screen. `BlocksMoved` is `WholeBlocks` of `Sdc`; `CallsEnd` is
`AllReturn` of `Sdc` and `SignalledReaderDies` of `Keyboard`.

### Mutex (kernel/thread.c, queue.c)

One mutex, with `next` as the pointer field that it is, through which both the mutex's queue
and `readyQueue` are chained. `Lock`, `LockBlock`, `Locked` are `mutex_lock()` up to and after
its `tswitch()`, `Unlock`, `UnlockWake` `mutex_unlock()`, `Creat`, `Destroy` the others.
`Enqueued` is `enqueue()` on these links: where the code would walk a closed chain for
ever, there is no step (`CanEnqueue`). `sem` are the threads whose `PROC.sem` is left over from a `P()` in the disk's
driver (`Reads`), for `V()` does not clear it: `kkill()` takes such a thread, when it is blocked in `mutex_lock()`, for one that
waits on a semaphore and makes it ready (`Kill`), and it goes on as owner beside the real one. `pushed` says that this
has happened. `Follow` goes along a chain as often as there are PROCs, which is
enough to come to its end if it has one.

### Messages (kernel/mes.c, pv.c)

`ksend` and `krecv` with the state they have at boot. `Send` and `Receive` block;
`Kill` takes a process off its semaphore as `wV()` does; `NoBuffer` and `Take` are what a
process that survives finds: no buffer, and a list whose first element is at address 0.

### Session (user/siinit.c, si_login.c, si_sh.c)

The slots of the process table as the console's programs fill it: `prog` (what runs
in the slot), `at` (where in its loop), `sig` (a Control-C not yet handled), `ignores`,
`tty`, `parent`. `console` is init's variable of that name. `InitFork`/`InitWait`,
`LoginTty`/`Login`, `ShellStart`/`ShellFork`/`ShellWait`/`ShellExit`,
`Exec`/`DoPipe`/`Mistyped`/`CmdExit` are stretches of these programs between system
calls; `ControlC` is the keyboard's handler, `Ignore` and `Die` are `kpsig()`. `typo` says that
a command did not exist: its child goes on in `do_pipe()` as if there had been a pipe, forks
for the empty command and stays behind.

### Tools (user/sicat.c, sicp.c, sil2u.c, sigrep.c, simore.c, ucode.c)

`Filter` is one turn of the loops of `cat`, `cp`, `l2u` and `grep`, `Screen` and the `Key`
actions those of `more`. A line is what `getline()` makes of a file's bytes or `gets()` of a
terminal's. `more` waits for a key after each full screen, whether there is a line left or not, and the line
that it read to find out is lost. `Zeroed` is the nondeterminism of `getc()`: it reads one byte into an
uninitialised `int` and compares that with Control-D.

### Images (kernel/fork.c, exec.c, load.c)

Each process's megabyte as a few places for blocks of program files; `Exec`, `ReadIndirect`,
`LoadDirect`, `LoadIndirect`, `Loaded` are `kexec` and `load` from one `getblock()` to the
next. `crossed` says that two processes have been in `load()` at once, `overrun` that a
command line longer than 32 bytes was copied to the end of an image and so into the next.

### Calls (kernel/svc.c, ts.s, signal.c, except.c, user/ucode.c)

One process. `Number` has the library's numbers, `Table` is the kernel's `f[]`; `Enter`,
`Serve`, `Leave` and `Return` are a call's way through `svc_entry`, `svc_handler` and
`goUmode`, with `Kpsig` at the places where it is called and after every interrupt (`Irq`);
`Fault` and `KernelFault` are the abort handlers, `Kill` is another process. A call of another subsystem may
fall asleep (`Sleep`); it goes on when it is woken (`Wake`), if it ever is, and may sleep again with a signal pending, as
`read_pipe()` and `write_pipe()` do. While it sleeps, interrupts handle the signals of whoever runs, not its own. `upc`, `kpc`
and `stack` are the return addresses that a catcher changes. A catcher that returns finds the
link register of the library's stub and goes "astray": it never comes back to the program
(`CatcherReturns`).

### MCServices

It extends `Session`, whose constants it keeps, and instantiates the mutex, the messages, the filters,
the images and the calls beside it; `which` chooses the one that runs. What the theorems are
general in is a constant here (`Thread`; `Tool`, `Text`, `Pattern`, `Page`; `Signals`, `Value`, `MaxSent`; `Mailer`, `MaxKills`; `Image`,
`Program`, `Blocks`, `Place`, `Direct`, `Room`) with `ThreadSizes`, `FilterSizes`, `LayerSizes`, `MailSizes` and
`ImageSizes` as assumptions.
## 4. Runs

| Run | Module / cfg | What it shows |
|---|---|---|
| process_core | MCProcess / MCProcess.cfg | list membership, family tree, no lost wakeup in wait/exit, highest priority runs |
| process_fair | MCProcess / MCProcessFair.cfg | init's `wait` returns over every ZOMBIE; round robin |
| kill_in_fork | MCProcess / MCProcessKill.cfg | *violation*: a process is killed in the middle of `fork()` |
| pipe_ends | MCPipe / MCPipe.cfg | descriptor counts, no lost wakeup, with dup |
| pipe_fifo | MCPipe / MCPipeFifo.cfg | the ring implements PipeChannel; end of file and broken pipe are delivered |
| pipe_dup2 | MCPipe / MCPipeDup2.cfg | *violation*: end of file although a descriptor made by `dup2` can still write |
| shell_pipeline | MCShellPipe / MCShellPipe.cfg | a three-command pipeline delivers everything and ends, also when the last command stops early |
| devices | MCDevices / MCDevices.cfg | each driver with its handler at every point: alarms in time, characters once and in order, keys decoded, blocks whole, calls that return, a screen that shows what was written |
| files | MCFiles / MCFiles.cfg | reference counts of minodes and open files, link counts, the tree of directories, owners of blocks, one writer per file; a file's bytes as a refinement of `ByteFile`; mounts; names in directory blocks |
| rmdir_nonempty | MCFiles / MCRmdir.cfg | *violation*: a directory with a file in it is removed |
| services | MCServices / MCServices.cfg | mutual exclusion, one session on the console that always comes back, filters, images, library calls that do what they are named for, signal 9 |
| mutex_waiters | MCServices / MCMutex.cfg | *violation*: a thread blocked in `mutex_lock()` is in no queue |

**Bounds.** Process: four slots (P0, init, two more): one child to be orphaned
and its parent, while init waits, is the smallest family in which every clause
of `kexit` and `kwait` is used. Two priorities, one above and one equal to
the default, and a pause of one second, reach every branch of `enqueue` and of the
timer's loop. `process_core` explores about 550,000 states. Pipes: three
processes with two descriptors each and a one-byte pipe make "full", "empty" and
"last close" happen with another reader or writer asleep; `pipe_fifo` has a two-byte
pipe and writes of two bytes, so that a write into a pipe that holds one byte sleeps
half-way and the ring wraps. Its two processes are enough for FIFO order and for the
end of the other side, which concern one reader and one writer. `MaxBytes` bounds a write and a read, `MaxPause` a pause; nothing else is bounded. The
shell runs one process per command, two pipes of two bytes and three bytes of text.
`process_fair` has five slots, because only a process that is not init's child makes
`kexit` wake init for the children it leaves behind.

Devices: a keyboard ring of three with one reader and four keys, or of two with two
readers and three keys, overruns and wraps; `InTime` (nobody types a whole ring between a
look and its sleep) keeps the lost wakeup and the overrun apart. Three codes on the
wire let the presses and releases of two keys overlap. The serial ring has two slots
for three characters and two readers. A block of two interrupts has a first and a last;
three processes, one of them P0, which polls, use one block. Three alarms of three seconds
forwards and back (`MaxTime`; a negative one only comes when nobody has to wait for more than that) include
equal ones, ones a second apart, negative ones before and behind others, and one too many. A screen of two by two
scrolls, wraps, and has the clock in its first row; six characters are enough to do
each twice. 376,000 states in all.

Files: two processes, three inodes, three blocks, two descriptors each and two entries. The first
instance keeps to one name in the root directory, one inode besides the root's and two
blocks (`OneFile`): enough for a file
that is shared by fork and by dup, opened twice, truncated and reused by a directory,
and for a table or descriptors that are used up. The second has one process, one
descriptor and two names for up to two files (`OneProcess`), so that names come and go while a file is
open. In the third nothing is opened (`NothingOpen`); two inodes besides
the root's make nested directories, a file below a directory, and a process
in a directory that the other wants to remove. A file has at most one block
(`MaxBlocks`), an inode at most three links (`MaxLinks`).

File contents: blocks of two places, one direct block and five bytes reach the second
block behind the indirect one; blocks of one place and three bytes reach the doubly indirect
one. Four or five data blocks, some of them another file's, run out at each stage. A second descriptor is not needed, since
`Compatible` and the offsets it would share are in `Files`. Directory blocks: blocks that hold two
or three names, two of them, and a disk of three, make a name move into a new block, the first
block empty before the second, and the disk and the slots full. Mounts: three names of the one
device that can be mounted, on two directories, with room for three entries, fill and
overrun the table and mount one below another. 253,000 states in all.

Services: three threads are the fewest of which two wait behind an owner; messages have three
processes and two kills (`MaxKills`), so that two senders can be let past the semaphore at
once. The session has init, a login or shell, and two commands (`MaxPipes` 1): a pipeline
fills the table. Texts of five letters and newlines let `grep`'s pattern of two overlap
itself and `more` fill its page of two lines twice. Two processes, with two programs of which
one has an indirect block, are the fewest that mix in `load()`. The call layer has one signal of
the process's own faults (4) and 9; a process is sent one signal (`MaxSent`) beside those, and
catchers nest once (`MaxDepth`). 374,000 states in all.

`CHECK_DEADLOCK FALSE` in the pipe runs: readers and writers of a pipe they hold
both ends of may all sleep for ever (as they do in the real system), and a finished
pipeline does nothing. In `devices` the drivers stop when what may be typed has been, or
when the card has failed or been disturbed, or a timer node is missing; in `files` when the disk's own tables have been hit (`wild`, `overfull`)
or the mount table is overrun; in `services` when the last process is dead, a filter is done, or
threads block each other for ever.

**Fairness.** *Process*: weak fairness of the kernel's own steps (code that
has the CPU goes on), of masked loops, of P0's loop and of init's system calls
(`siinit.c` loops over `wait`); strong fairness of preemption, since the timer ticks
for ever and a user-mode process cannot avoid all ticks. Signals eventually stop
(`sig` is not set again and again): a process that is killed whenever it
is in `kexit` never leaves it. In `process_fair` the kill point after the
ZOMBIE status is left out: there `kpsig` runs `kexit` a second time on a ZOMBIE, which
may block and so turn it into a BLOCK'd process that its parent no longer finds.
*Pipe*: a process in the kernel that is not asleep gets on with its loop.
*Keyboard*, *Sdc*: a process that is ready in the kernel gets the CPU and goes on, and the
card, while it has not failed, goes on with a transfer; nobody has to type.
*ShellPipe*: every process of the pipeline gets the CPU again and again (its
priority is that of the others, and `RoundRobin` is what Process shows of that).
*Session*: init goes on with its loop; every process gets the CPU again and again and so its
next system call (strong fairness of `Calls`, for a Control-C may come in between each
time and be ignored), and handles a signal that stays pending. Commands end and somebody logs in;
nobody has to type a command.
*Calls*: the timer interrupts for ever whoever is not asleep, and a call that is not asleep goes on or
falls asleep. That a sleeper is ever woken is not assumed, since the code does not give it: `read_pipe()` and
`write_pipe()` sleep again after `kkill()`'s wakeup, and a thread in `mutex_lock()` gets none. So `NineKills` lets the process be
asleep, and speaks again of one that is woken. A program need not make
any call: signal 9 must reach it all the same.

**Conditions.** Some modules have a variable that becomes true when the code has gone wrong in a
way listed under Findings, and their properties speak of behaviours until then, so that one
defect does not hide all others: `wild` (timer), `late`, `spoilt`, `defect`, `disturbed` (console; of
the card it is called `mixed` in `MCDevices`), `wild`,
`overfull`, `stale`, `Overrun` (files), `pushed`, `typo`, `crossed`, `overrun` (services). Each of them is
reached in its run. `wild` of the timer and `disturbed` of the card end the behaviour. Of `Files`, an entry that is
`Leaked` is counted as what it is and ends nothing. Since the parts in `devices`, `files` and `services` run one at a time,
those runs show nothing about interference between parts; where two parts share state, they are
modelled together (pipes with the shell, signals with calls and with sleepers).
## 5. Proofs

`ListFacts` has the lemmas about lists (what `Enqueue`, `Rest`, `Unlinked` and
`PutLast` do to the elements, to their uniqueness and to the length);
`Process_proofs` uses them through short restatements for lists of pids, so that
no later step has to reason about sequences. It also says what the library's `Min` returns on sets of
naturals, and that induction and
recursion go along an interval (the library's theorems for them take an operator as a parameter).
Of the others, `Process_proofs`, `Pipe_proofs`, `Files_proofs` and `Services_proofs` are about what they are
named for, where `Pipe_proofs` goes on to the shell's pipelines, and `Mount_proofs` about `Mount` as `MCFiles` has it; `Handlers_proofs` is about
the drivers whose handlers keep a queue (`Uart`, `Keyboard`, `TimerQueue`), and `Devices_proofs` about the codes, the SD card and
the screen, and about all the drivers side by side in `MCDevices`.

### What is proved

For every number of slots, every set of priorities, every set of system calls:

* `TypeCorrect`: `Spec => []TypeOK`.
* `ListsCorrect`: `[]ListInv`, under `HarmlessKills` (no signal strikes in `fork()`
  before the child is enqueued or in `kexit()` before P1 is woken: the two points
  where the code is wrong). `ListInv` adds to `StatusIsPlace` and `NoDuplicates`
  the part `SwitchState`: who may run, that a newborn child exists only while
  its parent is in `fork`, and that the two masked loops never overlap. Without it
  neither is inductive: `LeaveCPU` would make a PROC that is not READY run.
* `PlaceOfStatus`, `NobodyTwice`, `SchedulerFinds` follow from it.
* `FamilyTree`: `[]FamilyInv`, under the same condition: the parent of every process in
  use exists and is not a ZOMBIE, `ppid` and `parent` name the same one, and P1, who gets
  the orphans, never dies.
* `NoWakeupLost`: `[]NoMissedZombie`, under the same condition.
* `HighestFirst`: the action property `HighestRuns`, under the same condition.

For every finite set of processes and any sizes of the tables of pipes and open files, under no
condition but that `dup2` is not among the calls, which miscounts:

* `EndsCounted`: `Spec => []CountsExact`.
* `NoSleeperForgotten`: `Spec => []NoMissedWakeup`.
* `PipeTypes`: `Spec => []TypeOK`; `PipeIsFifo`: `Spec => FifoChannel`, which is the refinement
  of `PipeChannel`, an abstract bounded channel with its calls and what they were given, under the mapping in `Pipe`.

And with `dup2`, the miscounting one, under no condition at all:

* `PipelineInOrder`: `SSpec => []OutInOrder`, for a pipeline of any number of commands, any text and any sizes.
* `PipelineLeavesNothing`: `SSpec => []NothingLeft`, for a pipeline of any number of commands;
  `DupLeavesNothing`: `SpecDup2 => []NothingLeft`, whatever processes do with pipes.

For every finite set of processes, inodes and names, every set of blocks, tables of any size and
at least two links a file may have (`Sizes` in `Files`; TLC evaluates it on the run `files`, as
`SizesHold` in `MCFiles`):

* `FilesTyped`: `Spec => []TypeOK`; `UsersCounted`: `[]UsersExact`; `BlocksHaveOneOwner`:
  `[]BlocksOwned`; `LinksCounted`: `[]NamesCounted`; `TreeOfDirectories`: `[]DirectoryTree`.
  One part of `Sizes` is a condition on the programs and not on the sizes, `Careful`: they remove
  no file that is open, no directory that has names in it, and none by a path that ends in `.` or `..`. `krmdir` and `kunlink` do not notice, and
  `rmdir_nonempty` shows what becomes of a directory then. Flags that `open` does not know are among the calls: the entries they
  leave are counted as what they are.

For every finite set of processes, any directories of the root's and any paths of them, and a mount table of two entries
or more (`Sizes` in `Mount`, which TLC evaluates as `MountsHold`):

* `NobodyLost`: `MCSpec => []MountsSound`, of the run `files`.

Of the drivers and the session, for every size of a ring or list and every finite set of readers, and
of slots:

* `LineTypes`, `LineInOrder`: `[]TypeOK`, `[]InOrder` of a serial line.
* `KeyTypes`, `KeysInOrder`, `SleepOnEmpty`: `[]TypeOK`, `[]InOrder`, `[]SleepsOnEmpty` of the
  keyboard, under `Marked` (`Old`, which stands for whatever a slot
  held before, is no character).
* `TimerTypes`, `AlarmsInTime`: `[]TypeOK`, `[]NeverLate` of the timer queue, for any times, also negative ones, until a request
  finds no node (`wild`).
* `DevicesTyped`: `Spec => []TypeOK` of the run `devices`, all the drivers' types together.
* `NoneLate`, `ReadInOrder`, `NoneSleepsBeside`: `NeverLate`, `InOrder` and `SleepsOnEmpty` of the run
  `devices`, where the drivers stand side by side.
* `KeysUnderstood`: `Spec => KeysDecoded` of the same run, for both sets of codes, any ordinary keys
  (`KeyNames`: none is named like a modifier or a prefix) and any bound on the codes under way, until a key is
  used whose release the handlers miss (`defect`).
* `CardIsAtomic`: `Spec => BlocksMoved`, the refinement of `AtomicDisk` by the SD card's driver, for any
  set of callers, any blocks, chunks and number of chunks in a block (`CardSizes`), with errors of the card, until a call
  comes while another waits or a kill ends a wait (`disturbed`).
* `ConsoleLegible`: `Spec => []Legible`, for a screen of any size with room for the clock (`ScreenSizes`) and any
  characters in any order, until a handler prints in the middle of a `kputc()` (`disturbed`).
* `OneLogin`: `[]OneSession`, one login or shell at most on the console.
* `SendersCount`: `[]SendersCounted` of `Messages`, for every finite set of processes and any bound on
  the kills (`MailSizes`).
* `ProgramsWhole`: `[]OwnProgram` of the run `services`, for every number of images and any programs
  that fit into one and have their inodes at places of their own (`ImageSizes`).
* `OneInMutex`: `[]CriticalAlone` of the run `services`, for every finite set of threads that has one and does not have
  PROC 0 (`ThreadSizes`), until a kill takes a thread blocked in `mutex_lock()` for one that waits in `P()` (`pushed`).
* `CallsAsNamed`: `EffectAsNamed` of that run, for any signals in use and any priorities, uids and terminals (`LayerSizes`),
  whether a call sleeps or not.
* `FiltersWork`: `[]Filtered` of that run, for any input, any pattern and any size of the screen (`FilterSizes`).
* `ServicesTypes`: `[]ServicesTyped` of that run, under all these assumptions, `FilterSizes` (a screen has a line, the
  pattern a letter)
  and the session's own `Sizes` (there is a slot for init).

### How

The argument in the list proofs: every action moves a PROC by one of five moves
(leave the CPU for the sleep list, for a semaphore, for nothing; enter
readyQueue; yield), each a lemma (`SleepPlaces`, `BlockPlaces`, `LeaveFor`,
`EnterReady`, `YieldPlaces`), and `NextPlaces` goes through the actions once.

`NoMissedZombie` is kept by most actions because they make no ZOMBIE and put nobody to
sleep in `kwait`; `MissedFrame` says so once. What is left: `WaitSleep`, whose scan found no
ZOMBIE, with nobody in between since a process in the kernel is not preempted; `ExitFinal`,
after which the new ZOMBIE's parent is the one that `kwakeup` is about to find (by `FamilyInv`
the pointer names whom the pid names, and by `ListInv` a sleeper is in `sleepList` when no
other wakeup is under way); `ExitWakeP1`, which does for P1 what `kexit` owed him; and the
loop of `kwakeup`, which leaves nobody of its event asleep.

For `HighestRuns` it is enough that `readyQueue` is sorted (`ReadySorted`), and that whoever leaves it
leaves from its head. `Enqueue` keeps a sorted list sorted by the priorities of the moment; so what has to
be seen is that nobody's priority changes while he is in the list. `kchpri()` changes that of who runs,
`TickStep` that of a sleeper on his way in, `fork()` that of a child that is in no list yet: by `ListInv`
none of them is in `readyQueue`.

For the pipes the count of an end is a cardinality, `Count(fd, S)`: the descriptors of all
processes that point into a set `S` of open file table entries. Two lemmas say all
about it: `SetCount` (one descriptor is set, which is pipe, dup and close) and `CountCopy` (a
process gets another's descriptors, which is fork). `PipeInv` adds to the counts that an
entry in use is one end of a pipe and the only such entry (`EntriesInv`: without it `nreader`
could be right for the pipe and wrong for the entry, and `refCount = 1` would not mean the
last descriptor), and that who is in `read_pipe()` or `write_pipe()`, asleep or not, has that
end open (`UseInv`). This last part is what keeps sleepers safe: `close_pipe()` wakes nobody
when it frees the pipe, and a sleeper's own end shows that this cannot be then.

What a pipe carries is in `RingInv`: for each pipe `RingOf`, that `head` is `data` places before
`tail` around the ring, that `data` and `room` add up to its size while it is in use, and that every
place between holds a byte; for each process `UserOf`, what its call was given. The step of
the proof is that `Oldest`, what the ring holds as a sequence, loses its head with a byte that is read
and gets a byte at its end with one that is written. `Oldest` goes by position and needs no induction.
The abstract channel knows who holds an end by the descriptors; `ToldTrue` says that this is what `nreader` and `nwriter` say, by
`CountsInv`, so that the end of file comes only when nobody can write, and a pipe that is made again is empty, because it was
emptied with its last end. The lemmas `Show...` have one step of the channel each in terms of the ring.

With `dup2` the counts are no longer right, but they err to one side: `LeftInv` says that a pipe has no more
readers and writers counted than descriptors lead to it, and that one in use has a descriptor left. The
last `close_pipe()` of a pipe finds `refCount = 1` and the other end's count at 0 or below; so it frees it.

**Pipelines.** `OutInOrder` is about bytes, but what could break it is the miscounting: a pipe that is freed, or whose
reader is told that there is no writer, while the line still uses it, would give its bytes to nobody or to somebody else.
`LeftInv` does not exclude this, for it bounds the counts from one side only. So the proof goes in two layers.

* `LineInv` is the shape of the line. Exactly one process is at each stage that has been forked (`OnePerStage`); `StepOf` and
  `EndsOf` say for each step of `do_pipe()` and of a command which end of which pipe each of its descriptors leads to; and as
  long as somebody still lays the line (`Building`), the pipes laid so far are in use and empty, and in none of them are
  more than one writer's descriptors left out of `nwriter` (`PipeLaid`). The others then wait: no one has written or closed yet but
  the last command, which may have left without reading.
* `FlowInv` says which part of the text is where: there are places `w[s]` and `r[s]`, how far stage `s` has written
  and how far the next has read what it wrote, such that the pipe between them holds the text from `r[s]` to `w[s]`, and
  what a command has in hand is the text from where it has read to where it has written. The output is then
  the text up to `w` of the last stage. Each step of a ring moves one of the two places by one byte (`RingsInv`, which is
  `RingInv` without the condition that excludes `dup2`), and every other step moves none.

`AllInv` is `LeftInv`, the types of the shell's descriptors, `RingsInv` and `LineInv`. No theorem states that the whole text
arrives: that is liveness, and left to TLC (`AllArrives`).

**Files.** All five properties come from one inductive invariant, `FilesInv`. It was first
given to TLC as an invariant (two processes, three inodes, 690,000 states). Its four parts:

* `Counted`: a minode's count is the number of its users (current directories and open
  file table entries), and it is not locked. Each call works on a value `fs` that goes through
  `iget`, changes and `iput`, sometimes by half before it fails, so the lemmas are about
  *moves*: `Moves(fs, g, i, r, l)` says that `g` is `fs` with `r` more references to
  `i` and `l` more locks on it, and nothing else that a user of another inode could see. A call is a
  chain of moves that add up to the change in users (`Users...` and `Fd...`, which are lemmas about
  cardinalities).
* `TablesOk`: an entry's count is the number of descriptors that lead there, and 1 for one that an unknown flag has left
  (`Gone`), a free entry is
  blank, and a writer has its file alone (`Alone`).
* `DiskOk`: blocks have one owner, which is in the bitmap (`BlocksOk`), and the names make a tree
  (`TreeOk`). `TreeOk` has a part that no property states, `Rooted`: every set of inodes that
  has the root and, with a directory, all that is named in it, has every directory. `rmdir`
  must not take out a directory that is somebody's current directory or an ancestor of it, and a
  walk by `..` stays in the tree, only because of it; stated as a walk of so many steps it would
  need an induction for each call. `DirectoryTree` speaks of `InUse`, which is the reach of the root
  after as many steps as there are inodes; `ReachesAll` and `InUseIs` show that by then nothing is
  missing, since each step that is not the last adds an inode.
* `PlacesOk`: current directories are directories of the tree, what is open has a name or is a
  directory, and nobody writes to a directory.

An inode is on the disk or newer in its minode. `Shapes` is what is true of it wherever that is, and
leaves out the link count of a directory: `mymkdir()` counts up its parent's without
marking it dirty, so that the count on the disk is not right, and no property says that it is.

**Mounts** (`MountInv`, also given to TLC first: 83,850 states). `MountsSound` says what holds until the table is overrun, or an
entry is unmounted a second time (`stale`). Some of what it rests on has to hold even after that.

* `TableInv`: the first entry stays the root's, and any other that has ever had a name is FD's, mounted on a directory that is
  no root. `EnteredInv`: who is in FD, or would get there over a mount point, has an entry of FD's for `getmountp()` to find,
  and until the table is overrun one that is mounted. Without it `..` out of FD would look for the least of no entries.
* `Referred`, that counts are the numbers of users, fails once something is `stale`: then `kumount()` sets the count of a
  mount point to 0 that others may use. But `InDevice` says that those in FD are counted there in any case: `kumount()` goes no
  further while any count in FD is above 0, so that nobody is in FD when it takes an entry out, and a mount point it resets
  lies in the root's device or has nobody to forget. This is what keeps `NobodyStranded` true of a stale table.
* `Owned` and `Pointed` are the two directions between a mount point and its entry; the second ends with `stale`.

A walk along a path is a function of the place in it (`AlongSteps`), and so is `pwd` of the number of its calls (`UpwdTells`),
of which there are two at most: a directory's, and that of the mount point of the one above it.

**Serial line** (`LineInv`): whoever is blocked is in the semaphore's queue, once, and a negative
value says how many (`Places`); until a reader is killed between `P` and its character, the value is
what the ring holds less one for each reader that was let through or is in the queue (`Counted`), and the ring holds
what was typed and not yet read (`Ring`). `InOrder` alone is not inductive, for a reader does not
look whether there is anything: only the semaphore's count says so.

**Keyboard** (`KeysInv`): the same ring, whose length is in `data` (`KeyRing`), and `Sleepers`.
The handlers that do not look whether the ring is full set `spoilt` when it was, and so does a kill;
what the types need is true even then. Who is about to sleep is as good as asleep in `Sleepers`:
between the look and the sleep is where a key is late.

**Codes** (`CodeInv`): what the handlers will have made of the codes that are still on the wire is what the
keys stand for, and the modifiers they will then take for held are those that are. `Decodes` says so with the
trace of the handlers' states along the wire (`Run`), a function of the place on it, which needs
no induction: a code put on the wire adds a state at its end (`OneMore`), one that is handled takes the
first away (`FirstCode`). Left are the handlers as functions of one code (`After`, `Yielded`; `HandlerDecodes`
shows that they are the actions) and one lemma for each way to use a key (`PressSettles`, `ReleaseSettles`,
`TapSettles`). An arrow's four codes leave `esc` at 0 again; the right Control key's leave it at 2, and from
then on `defect` holds.

**Timer** (`TimerInv`): the list keeps differences, so that a node is due after the sum of those up
to it (`Until`). `Promised` says that this is never later than what its process has to wait for. `NeverLate`, that whatever is in
the list has time left, is not inductive by itself: the handler takes a second from one node on
behalf of all behind it, and what keeps these in time is the sum. A node put into the middle takes
from the next what it adds before it, and a negative one gives it. Only the first node can have a negative time: the place
for a new one is before the first that is due later than it.

**SD card** (`CardInv`, until `disturbed`): one call at a time is under way (`OneCall`), since another would disturb it; its process' semaphore is
1 only after the last chunk and before its `P()` (`Waits`), so that who is back from `P()` has all of
his block; and what the handler and the card have moved so far agrees, chunk by chunk (`Under`). The abstract disk
moves its block at the instant of the last chunk's interrupt: until then a read's buffer and a
written block are, under the mapping, what they were at the call. Each of the driver's actions is
mapped by a lemma of its own (`StartMaps`, `GoMaps`, `ChunkMaps`, `RxMaps`, `TxMaps`).

**Console** (`Steady`): the screen shows the text (`Shows`), and while `kputc()` is under way the text from
before its character, or that with the character drawn and the place not moved. A letter is drawn over what is
in its cell, which after a carriage return may be another; but `kputc()` clears the cell before it draws (`Cleared`), and so the text has
the new letter alone (`Inked`). The terminal blanks what `kputc()` blanks.

**Drivers side by side**: a step of `MCDevices` is a step of one driver and leaves the others alone
(`TimerStep`, `LineStep`, `ReaderStep`, `ReadersStep`), so that a behaviour of the whole is one
of each driver, and each driver's theorem holds of it. The lemmas `Same...` say that a driver as
`MCDevices` instantiates it is the one that the proofs instantiate. For the types of all of them (`DevicesTyped`) the
drivers' invariants lack two facts: that the count of what has been printed keeps its bound (`Bounded`), and
that a semaphore of the card has as many in its queue as its value says (`Semaphores`: an interrupt raises
it only with the last chunk of a call that is under way, so that it never exceeds 1; `disturbed` ends that).

**Session** (`SessionInv`): `InitKnows` says that when init forks a login, nobody leads the console, and
when init waits, nobody does but the one whose pid it remembers. Without it nothing would keep init from
forking a second login beside the first.

**Messages** (`MailInv`): the lock's value, those in its queue and those inside add up to the kills, and
the queue is as long as a negative value says (`LockCounts`); so that while anybody is
blocked exactly as many are inside as have been killed. `SendersCounted` has only the sum, from which nothing
says whom `NoBuffer` would find in the queue.

**Images** (`ImageInv`): while nobody crosses, at most one process is in `load()` and both of its
buffers hold what belongs to the file it wants (`LoaderKnows`): its inode's block is in
`buf1`, where no other inode is at the same place, and the indirect block in `buf2` once it has been read. What
has been loaded so far is then the beginning of that file, and `Loaded` finds it complete.

**Mutex** (`MutexInv`, until `pushed`; the types hold after it, and `ThreadsInv` is both). What one would expect to hold does not: a mutex's queue and `readyQueue` share
their links, and with them a blocked thread may run, one that waits may be in no queue, and one that runs may also be in
`readyQueue`. What keeps a second thread out is how the links can look, and this is the invariant:

* `Chain(next, readyQueue, R, z)`: from `readyQueue` on are the threads of `R`, each once, the last of them `z`, and then PROC 0 or,
  if `enqueue()` was given `z` when it was the last one already, `z` again (`Closed`). Such a chain takes nobody any
  more, and `z` is then all that ever runs (`ThreadQueued` has what `enqueue()` does to a chain in each case; if the thread is in the
  middle of it, those behind him are out of it for good).
* `HoldsAlone`: of the threads that run or are in `R`, who are the only ones that can go on, at most one is inside or
  about to return from `tswitch()` in `mutex_lock()`, and he is the owner if there is one. The lost ones may have any place.
* `Twice`: if the running thread is in `R`, he is the last, and the mutex is free or his alone; `Closed(z)` says much the same of `z`.

It was first given to TLC (four threads: 32,820 states). `Follow`, a loop along the links, is a function of the number of its
steps; that it stays in a set that each step stays in (`FollowStays`) is all that is needed of it: on a chain, `enqueue()`
ends at `z`.

**Calls** (`LayerInv`): a call in progress, asleep or not, has a function. `NumbersFit` compares the two tables, name by name; what the calls do to
their process then follows from one case each (`EffectTyped`). **Filters**: `FilterInv` says that what is not read is
the end of the input (`Unread`), and `WorkInv` what has been written when the text has been read up to some place: for `cat`, `cp`
and `l2u` the lines that end up to there (`CopiedTo`); for `grep` those that it should find (`GreppedTo`); for `more` all but so
many that each has cost a full screen, of which the one in hand is left out (`PagedTo`). Lines are told by the places where
they end and numbered by how many end up to there, so that no induction over a sequence of lines is needed: the next line's
number is one more (`NextLine`). `Searched` is how `grep`'s search of a line stands after some of its characters, and the one
induction is along these (`IntervalInduction`). What may be taken for the end of a file, since a Control-D may be, is in `EndsAt`.

Only model-checked: the refinement of `FileData`; `DirBlocks`; and liveness (out of the prover's reach, like `ENABLED`).
## 6. Findings

Shown by a run:

* A signal is handled in the middle of the kernel (ts.s:129), not "about [to] return to Umode"
  (signal.c:140): `kill_in_fork`.
* `kdup2` does not count the pipe end it copies (open_close.c:455): `pipe_dup2`.
* `krmdir` does not notice the names in a directory (rmdir.c:100; the comment at 121):
  `rmdir_nonempty`.
* `mutex_lock()` loses a waiter or ties its queue to the ready queue (thread.c:231):
  `mutex_waiters`.

Kept as conditions under which the properties hold:

* `kgetc()` unmasks interrupts before `ksleep()`, so a key in between wakes nobody
  (kbd.c:417): `late`.
* `kkill` of any sleeper makes the keyboard's next reader get a character nobody typed, and
  `head` and `inhead` are advanced without wrapping (signal.c:63-87): `spoilt`.
* The branch for the release of Control (kbd.c:354) is never reached, being behind that for
  any other release (331); and after the right Control key's release `esc` stays at 2
  (kbd.c:160): `defect`.
* A reader of a serial line that dies between `P` and its character leaves that to the
  next one's count (uart.c:177): `spoilt`.
* After an error of the card nobody is woken (sdc.c:99): `Failed`; and nothing enforces "one at
  a time" in the driver (sdc.c:181), nor keeps a kill from ending the wait: `disturbed`. The comment in fs/read.c:56-58, which
  explains why special files are read without a lock, says that "the device driver will enforce one at a time"; it does not.
* `get_tnode()` does not look whether there is a node (timer.c:258): `wild`. A request with a negative time puts off the
  alarms behind it (timer.c:308): `PutOff`.
* `V()` leaves `p->sem` as it was (pv.c:41), so that `kkill()` makes a thread that is blocked in `mutex_lock()` ready
  (signal.c:97), which then takes the mutex beside its owner: `pushed`.
* `krmdir("/usr/.")` takes the `.` of the parent out and frees `usr`, whose name stays (rmdir.c:142): `Careful`.
* An open with an unknown flag keeps its table entry, whose minode is put back (open_close.c:322): `Leaked`.
* `read_pipe()` and `write_pipe()` sleep again after a kill without a look at the signal (pipe.c:65, 100): `Sleep` in `Calls`.
* A handler that prints in the middle of another `kputc()` (vid.c:219): `disturbed`.
* A new block's number is put into the group descriptor instead of the second indirect
  block (write.c:203), and a full disk makes `mywrite` release an unset pointer
  (write.c:153): `wild`.
* `rm_child()` moves slots forward and leaves the last (di.c:123): `overfull`; `enter_name()`
  returns 1 without having found room: `lost`.
* `kumount` finds entries that are no longer mounted, by name: `stale`; a refused mount keeps its
  reference (mount_umount.c:165): `kept`; the table can be overrun by one: `Overrun`.
* A mistyped command leaves processes behind (si_sh.c:156): `typo`.
* Two processes in `load()` share its buffers (load.c:64): `crossed`; a long command line runs
  over the end of the image (exec.c:66): `overrun`.
* Five library functions have the numbers of others (ucode.c): `Misnumbered`.

Seen, and not the subject of a run:

* `kkill` of a paused process wakes every paused process (signal.c:64). An alarm one second after
  another one comes with it, because the handler's loop takes the same second off the next
  node (timer.c:155; so `NeverLate` has no counterpart).
* `ksymlink` gives the parent's minode back twice (link_unlink.c:258, 284); the test for a
  symbolic link in `kunlink` is always false, so that no block of an unlinked file is freed
  (176); `mkdir` does not mark its parent dirty and leaks on failure (mkdir_creat.c:126, 154).
* `kread` refuses
  descriptors open for reading and writing; the test in `klseek` (405) binds other than it reads,
  so that positions are not checked.
* Signal 32 is accepted by `ksignal`. A catcher does not return to the program it interrupted.
* `load()` returns 0 for a file that does not exist only because its search falls off its
  end with 0 in the register that holds its result.
* `mbuf_init()` is called nowhere, so that no message is ever delivered; `ksend` looks for the
  receiver one PROC off (mes.c:108).
* `printf` writes the carriage return after the newline: between them a handler's text starts in the middle of the row;
  a `\r` alone blanks the letter it is on. `more` loses a line per screen;
  the filters drop a last line without a newline, and `login` the last user.
* `do_ioredirection` looks at the first redirection of a command only and takes the rest of the
  line as the file's name. `pwd` does not end where a device is mounted below itself.

## 7. Plan

Done, in this order: the process core and its proofs; pipes, the FIFO refinement and the
shell's pipelines; the drivers; files under one call at a time; file contents, directory
blocks, mounts; mutexes, messages, session, filters, images, the call layer, the console; the
proofs of `FamilyInv` and `NoMissedZombie`, of the counts, sleepers and the FIFO of pipes, of
everything the run `files` asks of `Files`, of the serial lines, the keyboard, its codes and the timer queue,
of the session, the messages and the images, of the priorities, of the SD card's refinement, of the
console, of pipelines, mounts and the mutex, of the layer of system calls and of the filters.

Left, in order of importance:

1. Minodes when calls overlap: `iget`/`iput`/`mialloc` with the lock semaphores and
   blocking disk reads. The code's lock guards little (`iget` of a minode in memory does not
   wait), so this means stating first what it does promise.
2. Symbolic links, redirection, permissions, an unlink of an open file.
3. The stores inside `enqueue` with an interrupt between them (fork.c:349).
4. Compositions: exit and timer queue (an alarm for a slot's next owner); what a disturbed SD card
   does to the file system.
5. Proofs: the refinement of `FileData`.

## 8. Not modelled

* `fs/buffer.c`, whose functions are commented out or not linked in favour of
  `driver/disk.c`; `kernel/threads.c`, `kernel/elf.c`, `driver/kbd.pv.c`, `edited_kernel/`: not
  built.
* Permissions: a call that is refused puts back what it took. Symbolic links; redirection of a
  command's input and output by the shell.
* Output to the serial lines (a polling loop), the boot assembler, page tables, the string
  and formatting functions.
* `kthread`, `ktexit`, `ktjoin`: `Mutex` begins when the threads exist.
* The lists of `queue.c` at the level of stores, except for `Mutex`, where they are shared.
