# Owindy-S in TLA+

Owindy-S is a small teaching kernel for the i386: a boot loader, a kernel with
preemptive processes and synchronous messages, and servers that are ordinary
processes (system task, terminal, process manager). This directory holds TLA+
models of its parts, configurations that check them with TLC, and proofs that
TLAPS checks. Paths below are relative to `src/`.

## 1. The system

| Component | Source | State | Operations | Works with |
|---|---|---|---|---|
| Message passing | `kernel/proc.c:55-258`, `kernel/kernel.asm:185-252`, `kernel/syscall.asm` | per slot: `p_flags`, `p_msg`, `p_recvfrom`, `p_sendto`, `q_sending`, `next_sending`; message buffers | `sendrec` (SEND, RECEIVE), `send_recv` (also BOTH) | every process; calls `schedule()` |
| Scheduler and clock | `kernel/proc.c:14-51`, `kernel/clock.c` | `ticks`, `priority`, `p_proc_ready`, `k_reenter`, `ticks` (global) | `schedule`, `clock_handler` | clock interrupt, also nested in system calls |
| Process manager | `mm/main.c`, `mm/fork.c`, `mm/waitexit.c` | `p_parent`, `exit_status`, `p_flags` of all slots, memory and LDT of children, `mm_msg` | `do_fork`, `do_exit`, `do_wait`, `cleanup`; library `fork`, `exit`, `wait` | messages; writes the process table that the kernel reads |
| exec | `mm/exec.c` | – | `do_exec` (empty), library `exec`, `execl`, `execv` | process manager |
| Boot and demonstration | `kernel/main.c`, `kernel/start.c` | the process table, `Init`'s program | `kernel_main`, `Init`, `TestA..C` | everything |
| System task | `kernel/main.c:216-236`, `kernel/clock.c` | – | `task_sys` (GET_TICKS), `get_ticks`, `milli_delay` | messages |
| Keyboard and terminal | `kernel/keyboard.c`, `kernel/tty.c` | `kb_in`, shift/ctrl/alt/lock flags, `tty_table` rings | `keyboard_handler`, `keyboard_read`, `in_process`, `put_key`, `tty_do_read/write`, `task_tty` | keyboard interrupt, console |
| Console output | `kernel/vga.c` | caret position, video memory | `put_char`, `scroll_frame`, `kprintf` | called by processes and interrupt handlers |
| Interrupts and descriptors | `kernel/protect.c`, `kernel/kernel.asm:1-180`, `lib/alib.asm` | 8259A masks, `irq_table`, IDT, GDT, LDTs | `init_8259A`, `init_prot`, `enable_irq`, `put_irq_handler`, `exception_handler` | all handlers |
| Library | `lib/util.c`, `lib/alib.asm` | – | string and memory functions, number formatting | everything |
| Boot loader | `bootloader/` | FAT12 disk, load address, page tables | find the kernel file, follow its FAT chain, page tables, protected mode | BIOS |
| Hard disk driver | `kernel/hd.c` | – | not in the Makefile | none |

**What is hard here.** System calls run with interrupts enabled: a clock tick
falls anywhere into `schedule()`, into the message code, between the two halves
of `send_recv(BOTH)`, and into the middle of `do_fork`. Blocked processes leave
pointers in their slots that other processes' calls use later. The process
manager edits `p_flags` of other slots while the kernel and the clock read them.
`exit` and `wait` may come in either order, and parents may die before
children. The keyboard handler and the terminal share a ring and a controller
port; a key's codes come byte by byte. Whoever prints may lose the cpu with a
stale caret. The boot programs read a disk that may fail, with 16-bit
addresses.

**What makes each part correct.**

- Message passing: flags and partner fields agree; nobody waits for somebody who
  already waits for him; blocked processes never run; a message arrives as it
  was stamped; a process is woken only by a partner.
- Scheduler: a best process is picked in spite of ticks that fall into the
  search; slices are renewed only when all are used up; who can run gets the cpu.
- Process manager: exit and wait meet, whatever the order; zombies have a parent
  that can still reap them; only genuine requests are served, and each request
  taken is answered or waits for a child; a slot is not reused under a living
  process; a child runs in its own memory.
- Boot: `Init`'s program reaches its end and prints what it should.
- Keyboard and terminal: no code is invented or reordered, rings stay inside
  their bounds, modifiers follow the keys, nobody waits for an acknowledge for
  ever.
- Console: the caret stays inside the screen with interrupts printing too.
- Interrupts, descriptors: no interrupt arrives before its handler is set;
  encoded descriptors decode to what was asked for; children's segments are
  disjoint.
- Loader: the name search finds exactly the file, the FAT decoding is right for
  odd and even clusters, the clusters do not overwrite each other.

## 2. Modules and how they match the code

```
Ipc ──────────── IpcClients ── MCIpc          (general clients, TLC)
 │                    └─────── IpcProofs      (TLAPS)
 └── ProcMgr ─── ProcClients ─ MCProcClients, ProcProofs
        └─────── InitDemo ──── MCInitDemo, DemoProofs (uses ProcProofs)
Slices ──┴────── Sched ─────── MCSched, SchedProofs
Dispatch (abstract) ──┘  (INSTANCE in Sched)

ByteQueue (abstract) ── KbBuffer ── Keyboard ─┐
                            │        Console ─┴─ Terminal ── MCTerminal
                            └─ KbBufferProofs ───────┴────── TerminalProofs ── EchoProofs
Descriptors ─┐
BootLoader ──┴─ Boot ── MCBoot, BootProofs
```

**`Ipc`** is `proc.c` with the entry and exit of the system call. One system
call is one action: a tick inside it does not reschedule (`proc.c:42`), so no
other process runs in between. (The kernel's data is not touched by the nested
tick except for `ticks`, which is `Sched`'s matter.)
`SysSend` is `msg_send`, split into the branch that hands over (`SendDeliver`) and
the one that blocks; `SysReceive` is `msg_receive`, split in the same way with one
action more for the trap. Details that are kept because the code's behaviour
depends on them:

- the address arithmetic of `va2la`: a buffer is a pair of segment base and
  virtual address (`Loc`), and a null pointer is an address like others;
- `sys_sendrec` stamps `source` into the *caller's* buffer first (`Stamp`);
- `proc.c:105`: for an empty queue the code stores through the uninitialised `p`.
  What that hits is the constant `StrayStores`; compiled with `gcc -O2 -m32` the
  store goes to a fixed low address outside the table, hence `{NULL}` in the runs;
- `proc.c:177`: a store through the null `prev`. `NullStores` says what it does:
  nothing that matters ("ignored": page 0 is mapped), or the `ud2` the compiler
  may put there ("trapped");
- `kernel.asm:249`: the result of a call is stored 28 bytes *below* the caller's
  slot, which is `p_msg` of the slot before it (`SysReturn`);
- `proc.c:182` copies with `va2la(src, ...)`, where `src` may be ANY.

`has_int_msg` (`proc.c:130-144`) is never set by the code that is built, and is
left out. The scheduler is "any runnable process", which includes every choice
of the real one.

**`IpcClients`** lets each running process make any call to any slot at any
time. Every program in the repository is an instance of it.

**`Sched`** is `schedule()` and `clock_handler()`, one action per loop
iteration. `ClockNested` is the tick inside a system call and may fall between
any two iterations; under `clock_handler` (`scan!`, `refill!`) the clock is
masked (`kernel.asm:90-111`), so it may not. What the system calls do is reduced
to their effect on who can run. **`Dispatch`** is the abstract scheduler that
`Sched` is shown to implement; **`Slices`** is `schedule()` as a function.

**`ProcMgr`** is `task_mm` with its handlers and the library calls of the
clients, over `Ipc`. An action is the code between two system calls, because
user mode code of one process is atomic for the others except where they share
the process table. `do_fork` is cut after `*p = proc_table[parent]`
(`ForkCopy`, `ForkMemory`), the point from which the scheduler may choose the
child. `do_exit` is cut at each message of `cleanup`, and its loop continues
where it left off (`mvar.i`). The library half of a call is `CallSend`,
`CallReceive`, `CallReturn`: the clock may fall between them. Memory is one set
of named buffers per segment: `mm` (`mm_msg`), `c` (`msg2parent`), `m` (the
message of `do_fork`), `u` (the `msg` of a library call), `s` (of `task_sys`).

**`ProcClients`** lets `INIT` and its descendants make the library calls of a
menu in any order under any scheduling. **`InitDemo`** is the system as
`kernel_main` starts it: the program of `Init`, the pick rule of `Slices`, the
real slot numbers, ticks anywhere: in a program (`Clock`), in a system call
(`ClockNested`), and in the loops of a `schedule()` that a call has ended in
(`Disturbed`). The last ones take ticks from the slots the search holds for a
while (`Slices!Tentative`); the pick is the same, for `greatest_ticks` keeps what a
slot was picked for. The history variable `calm` says that so far ticks fell
only into programs.

**`KbBuffer`** is `kb_in`: the handler is one action, since nothing preempts it
but what leaves `kb_in` alone, and `get_byte_from_kbuf` past its loop is one,
since it turns interrupts off. **`ByteQueue`** is the bounded queue that the
ring implements.

**`Keyboard`** is the rest of `keyboard.c` with the hardware it talks to: the
bytes the keyboard has yet to send (`wire`), the data port (`latch`, which keeps
its byte after a read) and the interrupt line (`full`). As in Bochs, for which
`.bochsrc` is, a read of the port takes the pending interrupt back; that makes
the races of `kb_ack` with the handler what they are. Also as in Bochs, the keyboard
queues all the codes of a key at once, so that an acknowledge never comes between two
of them. The code relies on it: `keyboard_read` would take an FA after E0 for the
rest of the key.
`task_tty` is a program counter: one action per byte taken from the ring, per
round of `kb_ack` and per branch of the decoder. `keymap` has one key of each
kind, with its real codes and columns. `EmptyWaits` says what the loop of
`get_byte_from_kbuf` may do: `count` is not volatile, and `gcc -O2 -m32`, the
Makefile's options, reads it once and then loops for ever. So a `task_tty` that
finds the buffer empty within the codes of a key may hang; at the start of a key
it looks at `count` again in each call of `keyboard_read`.

**`Console`** is `vga.c`. `put_char` is cut where its compiled code (`gcc -O2`)
reads the caret into registers and writes it back. `int` and `long` have `Wrap`
values (2 to the power of 32 in the code), and what is printed is made of `Items`: any `int` as `%d`, `%x`
or `%X`, a character, a string. Two history variables say what the screen should show: `printed`
has, per printer, the characters `put_char` has done for it, and `page` is typing
on paper without end, of which the screen shows the last rows. Both go on as
`put_char` finishes a character.

**`Terminal`** composes the two with a user and with other processes that print.
`want` is the history of what the user expects to see. The history variables
`mishap` (an interrupt before the handler is set, a byte dropped by the full
buffer, a byte read by `kb_ack` instead of the handler) and `overlap` (one
printer has read the caret while another held it) are the exact conditions under
which the properties may fail: all are races of the code.

**`Descriptors`** has the descriptor functions, byte by byte. `limit_low` is
declared with 8 bits: the compiler pads the struct, so that the sizes agree with
the hardware's, and the padding byte is the high half of the limit.

**`BootLoader`** is both boot programs, which share their code; `stage` says
which runs. Memory is the disk sector at each address. `Retry` is a read
that fails. The disk is a directory and chains of clusters; the FAT is packed
into 12-bit entries and decoded by the code's arithmetic, over two sectors.
What the BIOS knows of the memory is a list of ranges, looked at one by one; with
no list, or with no usable range in it, the boot ends.
**`Boot`** goes on from the jump to the kernel: the copy of the
GDT, the gates, the LDT descriptors, the process table.

Definitions named `XyzAlways`, `XyzNone` and so on, marked "Mutant of", are
plausible wrong versions of the definition that follows them. The specifications
never use them; each property of a run has one that breaks it.

## 3. Runs

| Run | Instance | What it shows |
|---|---|---|
| `ipc` | slots 0, 2, 3, 4; slot 0 starts as `p_proc_ready` with UNSTARTED set | flags and partners agree, specific rendezvous are not lost, the cpu is never on a blocked process, wake-ups come from partners, messages are intact unless the slot above the blocked side runs |
| `ipc_queue` | the same | *violated*: a blocked sender is never on a queue |
| `ipc_result` | the same | *violated*: a blocked process loses its message pointer |
| `sched` | 3 slots, priorities 2, 1, 1, lag 2 | picks and refills are right with nested ticks; `Dispatch` is implemented; a process that can run gets the cpu, with the two exceptions named below |
| `procs` | `INIT` and slots 7, 8, 9 | exit and wait meet, zombies are adopted, slots are not reused; every call is answered or waits for a child, unless `task_mm` was busy when it was sent |
| `wait_forever` | `INIT` and slots 7, 8 | *violated*: a process waits with no child |
| `early_child` | the same | *violated*: a child runs in its parent's memory |
| `fork_full` | `INIT`, no free slot | *violated*: `fork` returns neither a pid nor -1 |
| `demo` | `kernel_main`'s slots 0, 2, 3, 7 | the wait of `Init` gives the child and its status wherever ticks fall; if none falls into a call or a server, `Init` finishes and no child takes the parent's branch |
| `terminal` | ring of 4 bytes, screen of 2 x 2, 16 kinds of keys in 6 menus of 1 or 2 presses, 2 other printers | what is typed is echoed in order with the right case; the ring is a queue; modifier flags follow the keys; the screen shows what was printed; numbers read back; nothing stops for ever but in the three ways named |
| `boot` | 8 floppies with sectors of 16 bytes, memories of 128, 130 and 3071 MB and one with no usable range | the right files are loaded whole, memory is mapped, segments and interrupts are as they should be, booting ends |
| `boot_64k` | the same, one with a kernel of 5 sectors in a segment of 4 | *violated*: a kernel larger than 64 KB overwrites itself |

**Bounds.** `ipc` has four slots because a chain of two blocked processes and a
third that acts reaches every branch of `msg_send` and `msg_receive`, and
adjacent slots (2, 3, 4) are needed for the misplaced result while slot 0 has no
slot above it that runs; calls are unbounded. `sched` needs a slot before, at
and after the one picked; `MaxLag` bounds how far ticks inside calls take
`ticks` below 0, and 2 is one more than needed to make the wrong sign matter.
`procs` bounds the calls per slot (`MaxCalls`); the menus form a chain
`INIT` – 7 – 8 – 9 in which 8 can die after its child 9, the only way into the
inner part of `do_exit`'s loop. Slots 5 and 6 are `TestB` and `TestC`, which are
never started. `demo` divides the priorities 15 and 5 by 5, keeps their order,
and scales the slice of a forked child likewise. `MaxLag = 0` there: a tick
inside a call may empty a slice but takes it no lower, and each search robs a
tentative pick of one tick at most.
`Garbage` is one value an unset `int` may have; `StalePids` of `demo` also holds
0, the worst one.
`terminal`: a ring of 4 fills up while `task_tty` waits for a printer, so codes are dropped (`Drained`
and `mishap` bound what is claimed then), and wraps in the middle of a key.
Each menu has the keys whose order matters to each other (shift with caps lock,
the two shifts, NumLock with the number pad). The user stops after a mishap,
since nothing is claimed afterwards. A screen of 2 x 2 wraps, scrolls and
erases within three characters. `Wrap` is 64 (6 bits), so -32 is the most negative number.
`boot`: with 16 bytes to a sector the FAT entry of cluster 10 lies across two
sectors, as that of cluster 341 does with 512; the segment holds 4 sectors, as
the real one holds 128. At most `MaxErrors` reads fail. The floppies have fragmented
files, names that differ in one of the last two letters, a directory of two
sectors, missing files, both ends of the marks for the last cluster, and a
kernel that exactly fills its segment.

**Deadlock** is not checked: a kernel that spins in `schedule()` or has halted
has no step, and the bounded clients of `procs` and `terminal` and the boot end.

**Fairness.**

- `sched`: the clock ticks again and again, and not every time inside a call
  (`SF(ClockUser)`); calls and loops go on (`WF`): the processor does not stop.
  Nothing is assumed of forks and kills, of where nested ticks fall, or of the
  ticks a slot holds: `do_fork` gives a child 15 with the priority 5 of its
  parent (`fork.c:47`), and a slot keeps what a dead child has left.
  `NoStarvation` names the two ways to starve that this leaves, and TLC finds
  a run for each if it is taken out. One: a tick nested in the scan goes to the tentative
  pick (`Robbed`), a later slot wins the round all the same, and in the end the
  one robbed has spent its ticks without having run. Two:
  children with `ForkTicks` are forked without end (`ForksForEver`), each ahead
  of the process that waits.
- `terminal`: the keyboard sends what it has and an interrupt is taken (`WF` of
  the hardware), and each process gets the cpu again (`WF` of its steps). By
  `Sched!NoStarvation` this takes that no nested tick robs it in every search; nobody
  forks beside the terminal. Nobody has to press a key.
- `boot`: the only program goes on (`WF(BootNext)`); reads fail at most
  `MaxErrors` times, for the code would retry for ever.
- `demo`: the processor goes on (`WF(Work)`), and ticks do not only fall into
  system calls (`SF(Clock)`), or an `Init` in `while (1) {}` would keep the cpu.

## 4. Where the code and what it says differ

1. **No queue has a head** (`proc.c:105`, run `ipc_queue`). The comment at
   `proc.c:159` says the queue cannot be empty. It always is. Two consequences:
   a receiver of ANY blocks although a sender waits for it, and for ever if no
   other message comes; a receiver of that very sender stores through a null
   pointer (`proc.c:177`). `SpecificRendezvous` is what remains true. For
   `task_mm`, which receives from ANY, the first means: a request sent while it is busy
   is lost, and its caller may be blocked for ever. `CallsAccountedFor` says
   that no call is lost in any other way.
2. **The result of a call goes to the wrong place** (`kernel.asm:249`, run
   `ipc_result`). The result is 0, so a blocked neighbour's message is later
   read from or written to address 0 of its segment. `BufferLostOnlyBelowCaller`
   is how far the damage reaches: slots right below one that runs. So a child in
   slot 8 that makes a call while its parent in slot 7 is blocked for a reply
   sends that reply to address 0, and a call of `INIT` (3) does the same to
   `task_mm` (2) while that is blocked sending to somebody else. A request that is
   handed to a waiting `task_mm` directly is not affected: the pointer is used
   before it is overwritten. That is why `RequestIsGenuine` holds all the same.
3. **wait for nobody** (`waitexit.c:92`, run `wait_forever`). `do_wait` counts
   EMPTY slots whose `p_parent` was never reset by `cleanup`.
4. **A child is born early** (`fork.c:42`, run `early_child`). If the parent was
   preempted between SEND and RECEIVE of `fork`, the copied `p_flags` are 0: the
   child runs in the parent's memory, on its stack, before `fork.c:96`.
   In the demonstration a tick at the wrong place makes the child take the
   parent's branch: `task_mm` has to wait with the 0 for the child, a call of `Init`
   overwrites where that message is (2. above), and the child goes on to `wait` and
   to print a status that nothing has set (`main.c:175-179`). Or it leaves everybody blocked,
   so that `schedule()` loops for ever. Hence `calm` in `OnlyInitReports`,
   `CalmIsSafe` and `Completes`; what `Init` itself is told is right in any case
   (`StatusIsReported`).
5. **fork loses its error** (`fork.c:21,36`, run `fork_full`). `fork()` returns
   `msg.PID`; the -1 of `do_fork` is put into `RETVAL`.
6. **A kernel of more than 64 KB** (`loader.asm:144`, run `boot_64k`) is loaded over
   its own beginning, for `es` is never advanced. `boot.inc:2` allows for 512 KB.

What the new properties are weakened for, and the code behind it:

- `kb_ack` and the handler share the port. If the handler takes the acknowledge
  and another byte follows, `kb_ack` waits for ever (`AckIsGone`). If `task_tty` were
  started and the acknowledge of its first command taken as an interrupt,
  `hwint01` would call address 0, because `init_8259A` lets the keyboard in
  (`protect.c:190`) and `put_irq_handler` comes after `set_leds`
  (`keyboard.c:302-304`).
- a key that the keyboard wraps in a shift code of its own (arrows under
  NumLock) types a NUL first: E0 2A is read as the beginning of PrintScreen, and
  what was read on is dropped (`keyboard.c:126-133`).
- the right Alt key sets `alt_l` (`keyboard.c:189`); nobody reads either flag.
- a printer that is preempted in `put_char` writes back an old caret. Both
  tests are for equality (`vga.c:145,154`), so a caret that is once beyond the
  frame never comes back. `main.c:62` says that user processes may use `kprintf`.
- a name that differs only in its last letter is taken for the file (`jcxz`,
  `loader.asm:87`), hence the condition of `RightFile`.
- `Init` gets its privilege by luck: priority 5 shifted by 5 is 0xA0, of which
  the field keeps 1.

Two smaller ones: `task_sys` runs first although it is UNSTARTED, because
`p_proc_ready` starts as `proc_table` (`main.c:132`), and `exec` returns what
happens to be in a register since `do_exec` has no return statement.

## 5. Proofs

`IpcProofs`, for any set of slots, any started slots, any payloads and addresses
under the assumptions of `Ipc` and `IpcClients`, and either effect of the
undefined stores: `TypeCorrect`, `BlockedIsConsistent`, `NoLostRendezvous`,
`CpuIsNeverOnBlocked`, `BufferLossIsLocal`, `OnlyPeersWake`,
`MessagesAreIntact`. The invariant `IInv` adds to the five invariants:
`NoQueue` (every `q_sending` is null, so a receiver of ANY never takes from the
queue and the null-`prev` case is the only one for a specific receiver),
`OnlyCallersRun` (the cpu is on a started slot or on the boot slot, which
bounds the reach of the misplaced result) and `MessageWaits` (the buffer of a
blocked sender holds the stamped message until it is taken, because nobody else
owns it). None of the five is inductive alone: the rendezvous needs the flag
consistency, that needs to know the caller is not blocked, and the buffers need
`OnlyCallersRun`. There is one lemma per action, then one case split.

`SchedProofs`, for any number of slots, priorities, `ForkTicks` and `MaxLag`:
`SchedTypeCorrect`, `PickIsFirst`, `PickStaysBest`, `NoEarlyRefill`,
`TicksAccounted`, `SchedImplementsDispatch`. `SchedInv` conjoins the type
invariant with the two facts about the loops; the refinement needs from it that
a finished scan with a greatest value above 0 left a process that can run.
`PickIsFirst` needs one conjunct more: while the tick that began the scan came in
a program, the pick so far is the first of the best slots the scan has passed.

`ProcProofs`, for any slots, menus, numbers of calls, exit statuses and unset
pids, and either effect of the undefined stores: `ProcTypeCorrect`,
`ZombiesMeetWaiters`, `ZombiesHaveParents`, `RequestsAreGenuine`,
`ReportsReachWaiters`, `CallsAreAccountedFor`, `ExitFinal`. Each is about what
`task_mm` does now for a call made long ago, while the kernel's flags, the
library half of each call and the server's locals all have changed since. `PInv`
ties them: what a process is in the middle of determines its flags, and whom it
waits for; for what `task_mm` has in hand (`JobInHand`) its source is still
blocked; of the processes blocked on `task_mm` each is either on its way in, or
owed exactly one message (`Owed`, `To`), or waits for a child; and after
`do_exit`'s loop has passed a child (`LeftBehind`) that child has a parent that
can reap it. Without the debts `CallsAreAccountedFor` is not inductive: nothing
would forbid `task_mm` to come back to its receive with an answer forgotten. The
buffers matter only where `RequestIsGenuine` reads them. The assumptions are the numbers that `main.c` and
`proc.h` fix: the tasks come before the processes, the children after `Init`,
`Init` itself never exits.

`DemoProofs`, for any table, priorities, `ForkTicks` and `MaxLag`, any values
the request of `fork` may hold before it is answered, and either effect of the
undefined stores: `StatusIsRight`, which
is `StatusIsReported` with ticks anywhere, inside `task_mm` and between the
halves of a library call too. Among these executions are those of `early_child`: a
tick between the two halves of `do_fork` lets the child run in Init's memory,
and the proof shows that it then does no more than wait there for its answer,
which leaves the body of Init's message alone. `DemoInv` is
`PInv` and four parts: where Init is in its program and its call (`InitWhere`),
what is in its buffer when the call returns (`InitHears`), that a child never
forks and shares Init's memory only while `do_fork` is before its second half
(`ChildWhere`), and that whatever `task_mm` is blocked sending to Init, or has
in hand for it, is the right answer (`InitServed`). A status of 7 in Init's
buffer alone is not inductive: it was put into the child's buffer, `exit_status`,
`msg2parent` and Init's buffer in turn, and between any two of them others run.
The lemmas of `ProcProofs` carry `PInv`, the four parts have one lemma per
action (`...Rest`). Assumed (`InitAssumption`), as `main.c` and `proc.h` have it:
`task_mm` comes before Init, there is a free slot, none right above Init's (the
misplaced result of a system call of a child would then fall on Init), and 7 is
the status of the only `exit`.

`CalmStaysSafe` is `CalmIsSafe` for any table: while ticks fall only into programs,
no child can run in Init's memory and `schedule()` always finds somebody. It holds by
the order in which the cpu is handed over, so its invariant (`CalmRest`, while
`calm`) adds to `DemoInv` whose turn it is: nobody ever blocks sending, a process
between the halves of a call has the cpu and `task_mm` its request, and when
`task_mm` can run, only such a process, or `task_sys` at the start, can have the cpu
in its place (`Turns`); it keeps its whole slice, and no other
slice is longer (`TicksKept`); only Init is a parent (`Lineage`); and until Init is
back from `wait` the slot of its child is in use (`ChildLives`), without which
`task_mm` might wait with everybody blocked. Assumed besides (`PriorityAssumption`):
nobody has a greater priority than `task_mm`, nor a forked child more ticks
(`main.c:58`, `main.c:69`, `fork.c:47`).

`InitReports` is `OnlyInitReports`, on top of that invariant: a child in the call of
`fork` it was born in keeps the copy of Init's pointer to the message until it has been
answered, and what it has been answered when it can run again is the pid 0
(`Told`). That is a fact about the child's own memory, which it gets only in the second half
of `do_fork`, and about the buffer `task_mm` sends from; other calls might overwrite either,
and while `calm` none comes between.

`KbBufferProofs`, for every capacity and every set of bytes: `RingCorrect` (head,
tail and count agree, which is the inductive invariant) and
`RingRefinesQueue`, under the ring's own specification. The
refinement compares sequences index by index: `GetIsHead` and `HandlerPuts`
say that a step of the ring is a step of the queue, and need from the invariant
that `count` tells the full ring from the empty one.

`TerminalProofs`, for a frame of every size, every set of printers and texts, every
capacity and every user: `ScreenIsRight`, `TerminalRingIsQueue`,
`TerminalTypeCorrect`, `NumbersAreRead`. The invariant `TerminalInv` says for the console that, as
long as no two printers have overlapped, at most one is inside `put_char`, and at
each of its stages (`Within`) what the screen holds is the page with that
character half done: stored but the caret not moved, past the end of
the last row, the first k rows already copied up (`Scrolled`). The screen's
property alone says nothing in these states, and they are where one printer's
progress must be remembered. `AdvanceEffect` and the lemmas before it relate a
cell of video memory to a row and a column of the page; the division involved is
done once in `FrameCell`, `OffsetCell` and `BelowCell`. For the ring,
`TerminalUsesRing` shows that every step of the terminal is one of the ring's or leaves it
alone, so that the queue's refinement carries over. The types need that only
modifier keys reach the code that sets flags. `NumbersAreRead` is for every width of
`int` and every value of it. It needs induction over the digits, and the library's
theorems for that take an operator as a parameter; so `LeastNat` and `SetInduction`
derive induction for a SET of naturals from the well-foundedness of finite sets.
With them the recursive functions are shown to exist and to obey their equations
(`DigitsLoop`, `NumberLoop`, `FlatUpToExist`), and then the digits to read back
(`DigitsRead`: the smallest number that did not would have a quotient that does not).
Assumed (`TerminalAssumption`, `BytesAssumption`): key codes are bytes, and what others
print is made of `Items`; that its text is a sequence of characters is proved (`FormatIsText`).

`EchoProofs`, under the same assumptions and for any number of keys: `EchoIsRight` and
`FlagsAreRight`. Between a key pressed and its echo there may be bytes still in the
keyboard, one in the port, some in the ring, some of a code that `keyboard_read` is
in the middle of, a character in `in_buf` and one in `put_char`; and answers of
the keyboard to `set_leds` among them. The invariant `EchoInv` says where all this
leads: `Reaches(s, a, c)` is a run of `keyboard_read`'s decisions over the bytes `s`,
and the run over the bytes under way (`Stream`) from where the reader stands
(`Now`) ends with the flags the user takes to be set (`Agree`) and the characters
the user expects. Pressing a key puts a run at the end (`KeysEnd`: what
the codes of each key do to the reader, with `CodeRows` and `Rows` for the table);
taking a byte removes the first step; an interrupt, a delivery and the console
move bytes and characters along and change no run; `kb_ack` takes an acknowledge out of the
middle, which is sound because a run never has one inside a key's code
(`AckWithout`). `EchoMatchesKeys` alone says nothing of what is under way, and any
step could then spoil it. `mishap` is what the run has to exclude: a byte that
`kb_ack` throws away or that the ring has no room for is missing in `Stream`.

Descriptors, in `BootProofs`, for every 32-bit base: `BaseReadsBack`;
`SmallLimitReadsBack` (limits of 8 bits with a clear padding byte, which is what
`Init` and its descendants have), and from both `ChildrenApart`: no two slots of
`do_fork`'s children share a byte, and none reaches below 10 MB.

`BootProofs`, for every set of floppies and memories, sizes of the sector, the
FAT, the directory and the segment, and every number of failing reads:
`LoadsIntact`, `FindsFile`, `MapsMemory`, `SegmentsAreRight`,
`InterruptsDoArrive`, `BootTypeCorrect`. `BootInv` says where the programs are:
`Searched` (no entry before the one looked at was the file, or one that differs in its last letter
only), `OnWay` (with k sectors loaded, `At(k)`: the next cluster is
the k-th of the chain and the address is k sectors on; `InPlace`: the sectors
so far lie in order, if the file fits), `Measured` and `Found` (the greatest end of
the usable ranges seen so far), `RamMapped`, and for the tables `Copied`,
`Prepared` and what `kernel_main` wrote. Three lemmas carry the arithmetic: `FATDecoded`
(the code's shifts and masks yield the 12-bit entry for odd and even
clusters, also across two sectors), `ReadsAsked` (cylinder, head and sector
lead to the sector meant), `PutWrites` (a sector written leaves the earlier ones
alone while the address has not wrapped). Assumed: the floppies hold a consistent
file system (`WellFormed`: chains without repetition, of clusters on the disk),
the sector and the one after it that a FAT entry may need lie on one track, a
segment is a whole number of sectors, and the kernel's tables lie below 2 GB.

Only model-checked:

- liveness, beyond the proof system: `NoStarvation`, `Completes`,
  `KeysGetThrough`, `PrintingEnds`, `BootEnds`. Every invariant and
  every action property of the passing runs has a theorem.

## 6. Plan and what is not modelled

Done: all modules of section 2 and their proofs.

Left: the liveness properties for every value of the constants, which are beyond
the proof system.

Not modelled:

- `kernel/hd.c` with `include/hd.h`: not in the Makefile, does not compile.
- `task_sys` past its first receive, `get_ticks`, `milli_delay`: TASK_SYS is
  never started and nobody asks it.
- `printf.c`, `sprintf.c`, `tty_write`, `sys_write`, the accessors of `vga.c` and
  most of `util.c`: no caller in what is built.
- `exception_handler` and `spurious_irq`: they print and return.
- messages of the boot programs, the switch to protected mode, register moves.
