# A verification project for onix (learn_os)

TLA+ models, TLC runs and TLAPS proofs of the kernel in this repository: a
32-bit x86 teaching kernel with one CPU, a preemptive scheduler, a mutex with a
reentrant spinlock around it, two page allocators, linked lists, bitmaps, a
text console with a bell, a real-time clock and formatted output. Paths below
are relative to the repository (`src/kernel/...` is `src/src/kernel/...` in the
map of PROJECT.json).

1. [Inventory](#1-inventory)
2. [Modules and how they correspond to the code](#2-modules-and-how-they-correspond-to-the-code)
3. [Runs: what is checked, bounds, fairness](#3-runs)
4. [Proofs](#4-proofs)
5. [Where the code and its documents disagree](#5-where-the-code-and-its-documents-disagree)
6. [What is not modelled](#6-what-is-not-modelled)
7. [Plan](#7-plan)

## 1. Inventory

| component | code | state | operations |
|---|---|---|---|
| scheduler | `kernel/task.c`, `schedule.asm` | `task_table`, per task `state`, `ticks`, `jiffies`, `priority`, list node; `block_list`, `sleep_list`; the running task is the page `esp` is in | `task_search`, `schedule`, `task_yield`, `task_block`, `task_unblock`, `task_sleep`, `task_wakeup` |
| clock interrupt | `kernel/clock.c` | `jiffies`, `beeping` | `clock_handler`: EOI, wake-ups, accounting of the slice, `schedule` |
| trap path, system calls | `handler.asm`, `interrupt.c`, `gate.c` | IF, the PIC's in-service bit, the frame on each stack; the `task` slot of `sys_test` | interrupt entry and exit, `int 0x80`, `yield`, `sleep`, `test` |
| mutex and spinlock | `kernel/mutex.c` | `value`, `waiters`; `holder`, `repeat` | `mutex_lock/unlock`, `spin_lock/unlock` |
| threads and logging | `thread.c`, `debug.c`, `printk.c` | the global `lock`, two static text buffers | `idle_thread`, `init_thread`, `test_thread`, `LOGK` |
| page allocators | `kernel/memory.c`, `lib/bitmap.c` | `memory_map` (a count per page), `kernel_map` (a bitmap), `free_pages`, the page directory and its two tables | `memory_init`, `memory_map_init`, `mapping_init`, `get_page/put_page`, `alloc_kpage/free_kpage` |
| linked list | `lib/list.c` | `prev`, `next` of the nodes and of the two sentinels of a list | insertion at both ends and in order, removal, pop |
| console | `kernel/console.c` | video memory, `screen`, `pos`, `x`, `y` | `console_write`, `scroll_up`, the control characters |
| speaker | `kernel/clock.c` | `beeping` (when the beep is to end, 0 for none), bits 0 and 1 of port 0x61 | `start_beep` from `console_write`, `stop_beep` from the clock handler |
| interrupt controllers | `interrupt.c`, `handler.asm` | mask, request and in-service bits of the two 8259A, `handler_table`, IF | `pic_init`, `set_interrupt_handler/mask`, `send_eoi`, interrupt entry and exit |
| real-time clock, calendar | `kernel/rtc.c`, `kernel/time.c` | the chip's time and alarm registers and flags, the CMOS index, `startup_time`, `century` | `time_init`, `time_read`, `rtc_init`, `set_alarm`, `rtc_handler`, `mktime` |
| formatted output | `lib/vsprintf.c` | the pointer into the format, the buffer, flags, width and precision of the directive | `vsprintf`, `number` |
| others | `string.c`, `stdlib.c`, boot code, GDT, `assert.c` | | see section 6 |

**How they interact.** `clock_handler` calls the scheduler, and so does every
blocking call; the scheduler, the mutex and `sys_test` share the one list node
of a task; the mutex is built on `task_block`, `task_unblock` and on IF; the
threads print under a spinlock through `debugk`, `printk` and `console_write`,
which have no protection of their own; a BEL on the console starts the speaker that
the clock handler stops; the two allocators keep separate books of overlapping
memory, of which the page tables map a part; the handler of the real-time clock
comes through both interrupt controllers and uses the CMOS ports, and one
global variable, that `kernel_init` uses outside it.

**What is hard.** All concurrency comes from one place, the clock interrupt,
and all of the protection from IF, which `task_switch` carries over from one
stack to the next. A handler or a system call runs with IF = 0 up to the
switch; code outside is interrupted anywhere. The behaviours hardly reachable
by a test are therefore switches between two accesses (the spinlock's unlocked
reads, the test and the update of `mutex->value`, the static buffers), the
order of EOI and switch, wake-ups that could be lost, fields with two meanings
(`ticks`), wrap-around of `jiffies`, and books that are kept twice (`state` and
lists, `pos` and `x`, `y`, the two page maps, the page tables). To these the
devices add their own: the chip counts while its registers are read one by one,
an alarm may fire while its handler runs, an edge may be latched before its
handler is in the table. Nothing is persisted and
nothing is sent over a network, so crash recovery and message loss do not
arise. PROJECT.json lists the hazards at their lines.

**What makes each component correct.**

* scheduler: the stack the CPU is on belongs to the one running task; a task is
  on a list exactly when its state says so, once; no sleeper is woken late or
  never.
* mutex and spinlock: mutual exclusion; the unlocked reads of `holder` and
  `repeat` never mislead; no lost wake-up; IF comes back as it was in each
  thread.
* threads: the lock is initialised before it is used; log lines do not mix;
  every waiter is woken.
* allocators: no page is in two hands; the bitmap marks what is held; the scan
  is first fit.
* list: both directions agree; the lists are sequences.
* console: the screen shows what a terminal would show; the three records of
  the cursor agree.
* speaker: every beep ends.
* page tables: the kernel reaches its own pages at their own address, no page
  of `get_page` and not page 0; the self-map leads to the directory and its
  tables.
* interrupt controllers: nothing stays in service; no interrupt meets
  `default_handler`.
* real-time clock: a time read is one the chip has shown; `mktime` counts the
  seconds since 1970; the alarm is the next second, and is answered.
* formatted output: a field is as wide as the format and its content demand and
  padded on the right side; the pointer never passes the end of the format.

## 2. Modules and how they correspond to the code

    Task <- Mutex <- Threads        Bitmap <- Memory
            Mutex implements ReentrantLock
    Console <- Speaker              List, Format <- Library
            Console implements Terminal, List implements ListSpec
    Calendar, Pic <- Rtc

    Proofs:  KernelLemmas <- TaskProofs <- MutexProofs <- ThreadsProofs
             KernelLemmas <- MemoryProofs, LibraryProofs, RtcProofs
             Speaker <- ConsoleProofs

An arrow points from a module to the one it extends. Each run has an MC
module and a `.cfg` of its own or shares the module with runs of the same
component.

* **Task** is the machine with its scheduler. `current` is `running_task()`,
  `trap[t]` what the stack of an interrupted or calling thread returns through
  (`"irq"`: the clock's handler has yet to run on it; `"iret"`: only
  `interrupt_exit` is left), `pc[t]` the place in the thread's own code. The
  granularity is justified by the hardware: a stretch of code that runs with
  IF = 0 and does not switch stacks cannot be observed half done, so
  `ClockHandler`, `TaskSleep`, `TestBlock` and the others are one action each;
  `Schedule` is the part shared by all. A switch may end in a thread that was
  never started, that waits in `interrupt_exit`, or that sits inside
  `mutex_lock`; each goes on from its own `trap` and `pc`. `Boot` is the
  context of `kernel_init`: it runs until the first `schedule()` and is in no
  table. Constants: `NTASKS`, the priorities, `WORD` (the modulus of u32),
  `MaxJiffies` (when no more clock interrupts are taken), the sleep arguments,
  and the hooks for other modules (`WaitLists`, `UserLabels`).
* **Mutex** extends Task with `mutex.c`. `mutex_lock` and `mutex_unlock` run
  with IF = 0, but switch stacks in the middle, so they have labels before and
  after the switch; `spin_lock` and `spin_unlock` run with IF = 1 and have a
  label for each access to `holder` and `repeat`, the asserts' reads included:
  `SpinTest`, `SpinOwn`, `SpinAssert`, `SpinFirst`, and `SpinUnlock`,
  `SpinCount`, `SpinLast`, `SpinDisown`, `SpinReset`. `repeat++` and `repeat--`
  are a read and a write (`SpinAgain`, `SpinAgainStore`; `SpinDown`,
  `SpinDownStore`), with `read[t]` as the register in between. `depth[t]` is not
  in the code: it is what the caller knows, how many of its `spin_lock` calls it
  has not undone (a caller unlocks only what it has locked). **ReentrantLock**
  is what the callers rely on.
* **Threads** composes Task and Mutex into the program the kernel boots into:
  `idle`, `init` and `test`, with `init` initialising the global lock in its
  first statements. Of the text of a log line only its author is kept: each
  buffer holds the thread whose line it contains.
* **Bitmap** has `bitmap_scan` and `bitmap_set` as operators on the set of 1
  bits, and first fit by definition. **Memory** has the boot steps as
  phases and the two allocators; an assert or panic ends in the phase
  `"halted"` (the magic number, the base, the alignment and the size of the
  memory; exhaustion). Pages are counted, not addressed, with the bytes of a zone
  that fill no page as `rest`; sizes are cut to u32 by `% PAGES32` where the code
  casts. `kernel_refs` and `page_refs` are not in the code: they count, page by
  page, the callers that each allocator has given it to and who have not given it
  back, so that a page given twice, by one allocator or by both, counts as 2. The page directory and its tables are
  functions from index to page; `Translate` is the CPU's walk through them, and
  `GetPde` and `GetPte` are the addresses at the top of memory under which the
  code finds them again.
* **List** has the pointers as two functions; **ListSpec** has the sequences
  that Task uses. **Format** walks a format string stage by stage of a
  directive, as `vsprintf` does, with `Number` for what `number` lays out;
  `va_arg` is a choice. A double is an integer number of its smallest printed
  parts. The assert that the text has stayed below `BUFFER` characters, which comes
  when all of it is written, ends in the stage `"halted"`. What a field should look like is stated apart from `Number`, by the
  room its content needs and by reading the number back. **Library** puts the
  two, which share nothing, into one run.
* **Console** counts addresses in character cells. `scroll_up` erases through
  a u32 pointer: each of its WIDTH stores covers two cells, an ERASE and a
  ZERO, and the model keeps that. **Terminal** is a grid. **Speaker** extends
  it with `start_beep`, one action per access to `beeping`, `jiffies` and the
  port, beside the tick: `console_write` runs with IF = 1, so a tick may come
  anywhere in between. One thread writes at a time, which Threads shows.
* **Calendar** has the arithmetic of `time.c` and, beside it, the calendar by
  definition: `NextSecond`, and `SecondsTo`, which counts years, months and
  days. **Pic** has the two 8259A controllers with their masks, latched
  requests, priorities and in-service bits. **Rtc** composes them with the chip
  and the code of `rtc.c` and `time.c`: each port access is a step (`Select` for
  the index, then the data), between which the chip may count (`Tick`) and an
  interrupt may be accepted. The order of the routines is `BootOrder` for
  `kernel_init` and `HandlerOrder` for `rtc_handler`. `kernel_init` has the two
  calls commented out (`main.c:37-38`); the model has them where they stand. A
  clock interrupt ends the context of `kernel_init` wherever it is, since the
  scheduler switches to a task and has no task for it: this is the code, not a
  simplification, and one of the ways in which the sequence may break off.

The operators commented as "Fault: ..." are not part of any behaviour: each is
a plausible mistake in the definition after it, put in its place to
see that a property notices.

## 3. Runs

Every run explores its state space completely.

| run | what it shows | bounds |
|---|---|---|
| task | `OneRunning`, `ListsMatchStates`, `SlotIsBlocked`, `NoOverdueSleeper` and the types; `DueSleepersWake`: a tick leaves nobody asleep who is due; `SleeperWakes`: every sleeper is woken; no state is without successor | two tasks and idle that yield, sleep (0 and 25 ms) and call `test` in any order, slices 1 and 2, u32 modulo 5 and no limit on interrupts: `jiffies` goes round |
| mutex | the six invariants of the lock and the refinement of ReentrantLock | 3 users and idle, re-entry up to depth 2, 5 clock interrupts |
| threads | exclusion, initialisation order, unmixed log lines, every waiter is woken | the three tasks of the source, slices 1 and 2 for its 1 and 5; u32 modulo 4, unlimited interrupts |
| memory | the books of both allocators agree with the pages handed out and with the page tables, first fit, `free_pages` never too small | six memory maps (one too small, one with a zone above 4G, one with an invalid larger zone, two with a zone that ends within a page) and a wrong magic number, 1M in 4 pages, the kernel's 8M in 12, page tables of 6 entries, a bitmap of 8 bits, runs of up to 3 pages, until memory is exhausted |
| console | the screen is a terminal; the cursor agrees; every beep ends | 2 x 2 screen in 9 cells: two scrolls before the wrap, and an odd rest; beeps of one tick, 5 ticks |
| library | both links of a list agree and the lists implement sequences; fields are laid out right and the format is read once | two lists, four nodes, two with equal keys; all formats of a character and one directive with one of 6 sets of flags, 3 widths, 4 precisions and 20 endings, the unfinished directive among them; u32 modulo 256, a buffer of 40 characters, which four wide numbers of an address exceed |
| rtc | times are read exactly, the alarm is the next second and answered, both controllers stay open, no interrupt finds its handler missing | up to 3 seconds from the end of a century, of a February in a leap year and in a common one, and of an hour; a clock interrupt anywhere |
| slice, idle, sleep_wrap, mutex_fifo, console_end | the disagreements of section 5 | as task (u32 modulo 16, 6 interrupts; modulo 8 for sleep_wrap), mutex, and a 3 x 2 screen in 13 cells |

**Why the bounds are enough.** The scheduler compares tasks pairwise, so two
tasks next to idle meet every outcome of `task_search`; a third matters for the
mutex, where one thread holds, one waits and one arrives. A slice of 2 lets a
thread be interrupted with and without a switch. The 5 of the task run is the
least modulus that holds the longest sleep (2 ticks and one) and a slice
together (`SleepAssumption`), so that wake-up times wrap at every second sleep;
`MaxJiffies = WORD` makes the guard on interrupts never false, and TLC checks
for deadlock. The runs with `CHECK_DEADLOCK FALSE` really stop: at the last
interrupt of the bound, in a panic of the allocators or in the assert of
`vsprintf`, or the run is one that looks for a violation. The 9 cells of the console hold two screens and a cell,
so that the wrap is reached after two scrolls and again from every later state.
5 ticks hold a beep of one tick, a deadline stored up to 3 ticks late, and a
second bell. A directive of `vsprintf` leaves nothing behind but the text and
the pointer, so one directive per format meets all of its paths. The reads of
`time_read` are 9; with at most three seconds passing in them and in the alarm's
five accesses, each may fall before, between or after. `age` counts the seconds
since a loop of `time_read_bcd` has read the seconds; `MaxAge < 60` is what makes
their comparison sufficient, and the CPU needs microseconds. It is no bound on
the run, which `MaxSeconds` alone is.

**Fairness.** `FairSpec` of Task (run task) assumes that the CPU executes the next
kernel instruction (`WF` on `CpuStep`) and that the PIC delivers a latched
timer request when it is enabled again and again (`SF` on `AcceptInterrupt`:
IF goes off and on). Nothing is assumed of the tasks, which may compute for
ever; preemption has to come from the clock. `ThreadsSpec` adds that a thread
that gets the CPU again and again executes its next instruction (`SF` per
thread): in the source ten milliseconds lie between two ticks, while the model
would allow an interrupt before every instruction for ever. `FairSpec` of Rtc
assumes that a handler runs to its end (`WF`), and that the controllers deliver
the clock's request (`WF`) and, `SF`, that of the real-time clock, which the
clock's higher priority delays: the timer's period is far longer than its
handler. Nothing is assumed of `kernel_init`, nor that the chip counts.

## 4. Proofs

TLC's answers hold for the instances above. The theorems below hold for every
number of tasks, lists, nodes and pages, every priority and slice, every width
of the counters, every size of the screen, every length of a beep, every memory
map, every format string and every date the clock may start with. They rest on
the assumptions that the modules name, which TLC evaluates in the runs:

| assumption | says of the constants |
|---|---|
| `TaskAssumption`, `SleepAssumption` | there is an idle task; priorities, `WORD` and sleeps are numbers of their C types; the longest sleep and the largest priority fit into u32 together |
| `MutexAssumption` | the labels of mutex.c are among those of the threads; the re-entries of one caller do not wrap `repeat` |
| `ThreadsAssumption` | the three tasks of `task_init`, idle's priority the lowest and test's not above init's |
| `MemoryAssumption`, `MapFitsAssumption` | 1M lies above the page directory and its tables; a directory has room for two tables, whose pages are the kernel's 8M; the `memory_map` of all that a u32 can address fits into `kernel_map` |
| `ListAssumption` | nodes are finitely many and are not the ends of a list; keys are integers |
| `FormatAssumption` | u32 is even and not empty; formats and strings are sequences of characters, the values of a double and of a `*` are integers, those of an address bytes |
| `ConsoleAssumption`, `CharsAssumption` | the memory holds a screen and the two rows past it; no character is the u16 that is 0 |
| `SpeakerAssumption` | a beep lasts a tick or more |
| `RtcAssumption` | the chip starts with a date of the calendar; less than a minute passes in any one turn of the loop of `time_read_bcd` (and any time in all) |

**KernelLemmas** has what the other modules cite: insertion, push, removal and
dropping a prefix in sequences without duplicates; the least element of a set
of naturals; and `BoundedInduction`, induction over a *set* of numbers, which
stands in for the induction theorems of the library (their parameter is an
operator, which the provers cannot instantiate). A recursive function, and the
fold of a sum over a set, is shown to solve its own equation with it, and then to
have its closed form. `DivisionInduction` is the same along the divisions by a
base, which is the way `number` goes from digit to digit; `DivisionRecursion` says
that a function defined by recursion along them exists and solves its equation.

**TaskProofs.** `TaskSearchResult`: the loop of `task_search` yields a ready
task other than the current one that is a `Winner`: it is preferred to a candidate
before it in the table, if there is one, and none after it is preferred to it. Idle
may be that task (run `idle`); it is the fallback only when there is no candidate. Then
`Spec => []TypeOK`, `[]OneRunning`, `[]ListsMatchStates` and `[]SlotIsBlocked`,
from the inductive invariant

    TaskInv == TypeOK /\ OneRunning /\ ListsMatchStates /\ SlotIsBlocked /\ IdleCanRun

None of its parts is inductive alone. `OneRunning` would be broken by
`task_wakeup` or `task_unblock` if a list could hold the running task, so it
needs `ListsMatchStates`; that would be broken by a `schedule()` that falls
back on an idle that waits, so it needs `IdleCanRun`; and `TestUnblock` is safe
only because of `SlotIsBlocked`. Its second half has `[]NoOverdueSleeper` and
`Spec => DueSleepersWake`, from

    SleepInv == TaskInv /\ SleepOrder /\ NoOverdueSleeper

`task_wakeup` may stop at the first sleeper that is not due because `sleep_list`
is sorted, which after a wrap of `jiffies` it is not: a wrapped time is inserted
in front although it is meant to come last. `SleepOrder` is what remains: of
two sleepers the one in front has the earlier time *or is due at once*. A second
disturbance is `schedule()`, which takes a wake-up time of 0 for a used-up slice
and puts the priority in its place; that this time is due as well is where
`SleepAssumption` comes in.

Two of the disagreements of section 5 are bounded by proof. `Spec => WokenWhenDue`:
only a tick ends a sleep, and only one that has reached the time stored for it
(`WokenAreDue`: those that `task_wakeup` takes off lie in front of the first that is
not due). So a sleep that is cut short (`sleep_wrap`) is one whose time had wrapped
when it was stored. And `SliceWithoutSleep`: if `sleep` is not among the system
calls in use, `Spec => []SliceWithinPriority`, the very property that the run
`slice` refutes, since then `schedule()` refills every slice that is used up
(`SliceInv`). So the wake-up is its only cause.

**MutexProofs.** `MutexSpec => []LockTypeOK`, `[]MutualExclusion`,
`[]ValueMatchesOwner`, `[]HolderAgrees`, `[]InterruptsRestored`, from

    MutexInv == LockTypeOK /\ TaskInv /\ InterruptInv /\ LockInv

`InterruptInv` says where a thread that does not run was left: in a trap,
before its first statement, or at one of the two switches of mutex.c; and that
IF is off exactly at the labels of the closed sections. It is what makes the
test of `value` and its update atomic: only the current thread can be at
`m_take`. `LockInv` says of each label of `spin_lock` and `spin_unlock` what
`holder` and `repeat` are there, and between the read and the write of `repeat++`
and `repeat--` that `repeat` is still what was read: only the thread inside writes it.

`MutexSpec => []NoLostWakeup` follows with `WakeupInv`: who waits stands at the
test of `value` inside the loop, so that the thread `mutex_unlock` takes off the
list is on its way there, and it stays awake until it has made the test, since no
system call but its own could put it to sleep. What the scheduler does to the
other lists is shown not to reach `waiters`.

`MutexSpec => ImplementsReentrantLock`: the mapping takes the thread with
calls to undo as the owner and those between the read of `holder` and the write
of `repeat` as wanting; the first read of `spin_lock` is the request, `repeat =
1` the acquisition, the write of `repeat++` the re-entry, that of `repeat--` or the
last assert of `spin_unlock` the release, everything else (each interrupt, switch and step of the mutex) a
stutter.

**ThreadsProofs.** `ThreadsSpec => []LockInitialisedBeforeUse`, `[]MutualExclusion`
and `[]LogIntact`, from `MutexInv /\ StartInv /\ LogInv`. That the lock is ready in
time is a matter of the scheduler: `StartInv` holds the fields of the tasks as
`task_init` left them until init has run, `FirstChoice` computes what
`task_search` then chooses (init beats idle by its ticks, test does not beat
init), and `BootIsPreempted` that the boot context ends with the first tick.
With the priorities the other way round it would be false. `LogInv` says that
LOGK runs under the lock and that each buffer holds the text of the thread in it.

The results on the lock that MutexProofs has for `MutexSpec` hold of this program
as well: `ThreadsSpec => []HolderAgrees`, `[]NoLostWakeup` and `ImplementsReentrantLock`.
`ThreadsStep` splits a step of the program into a step of the mutex and a step of
LOGK or `spin_init`; the former is what MutexProofs is about, and the latter touches
nothing that the lock's properties speak of, with `spin_init` leaving the lock as it
found it because nobody has used it yet (`LockInitialisedBeforeUse`).

**MemoryProofs.** `FindIsFirstFit`: `BitmapFind`, the search loop of
`bitmap_scan`, is `FirstFit` for every bitmap, length and count, because its
counter is the length of the run of clear bits that ends at the bit just read
(`RunCounts`). Then `[]TypeOK`, `[]NoPageTwice`, `[]BitmapMatchesHolders`,
`[]ScanIsFirstFit`, `[]FreePagesSuffice`, `[]KernelPagesMapped` and `[]AssertsHold`
(the asserts of `put_page` and `bitmap_set`, for callers that give back what
they have), from `MemoryInv`: `OneCaller` (each allocator has given a page to one
caller at most) and `Boots`, a disjunct for each phase of the boot, and for the rest

    Books == memory_map marks [0, KPAGES) and what get_page has given,
             kernel_map marks [BASE, start_page) and what alloc_kpage has given,
             free_pages is off by what mapping_init took, page_tables are KernelTables

(the module has it in full). The two allocators never meet because of the marks
that `mapping_init` leaves in `memory_map` for all of the kernel's part, not because
either looks at the other's book; that the `memory_map` itself lies below what
`alloc_kpage` gives is where `MapFitsAssumption` is needed.

**LibraryProofs.** For the lists: `Spec => []WellLinked` and
`Spec => ImplementsSequences`, from

    ListInv == \E S : Chains(S) /\ Linked(S)

there are sequences, no node in two places, whose links the pointers are. Every
operation of list.c is an insertion between two places that are neighbours or
the removal of one place, so two lemmas (`InsertionLinks`, `RemovalLinks`) give
the new sequences; `WalkIsChain` says that the mapping of the refinement, which
walks along `next`, yields them, and needs the number of nodes as its bound. For
vsprintf: `LibrarySpec => []FormatReadOnce`, since each stage that passes a
character has found that it is not the NUL. `ListsBesideFormat` carries the
results over to the composition.

`LibrarySpec => []FieldsAreRight` is proved from

    FieldsInv == FormatInv /\ FieldsAreRight
                 /\ flags hold what Flag can put in them, width and precision are integers

and rests on what `number` does with any number, base, size, precision and set of
flags. `DigitsAreRight`: the digits it writes are as many as the number has, none is
a sign, a prefix or a blank, and they read back as the number, by induction along the
divisions. `NumberFieldIsRight`: around the digits stand a front (blanks, sign,
prefix, zeros) and a back (blanks), whose lengths add up to the size or to nothing,
because `number` takes each from the one counter it keeps of the room that is left;
reading skips every character of both but zeros in front, which add nothing, and the
minus sign. `TextFieldIsRight` is the same for `%s` and `%c`. Every directive then writes
fields of these two kinds only (`FieldsInvStep`). Of a `%f` the width and the padding
are proved; its digits are not meant to be right (section 5).

**ConsoleProofs.** `Spec => []TypeOK` and `[]CursorInStep`, together inductive:
`pos` stays in the memory because it agrees with `x` and `y`, and these stay on
the screen because `scroll_up` keeps a screen's room in front of the end.
`Spec => ShowsTerminal`, the refinement of Terminal, takes the grid to be what
the cells from `screen` on show. It needs one more invariant, `BlankBelow`: the
rows below the cursor are empty. A DEL behind the last column clears the first
cell of the next row in the code and none on the terminal; the two agree only
because there is nothing to clear. (`StoreShows` and `LineFeedShows`: what a
store and a scroll with its stores of half the step do to the grid.) For the
composition with the bell: `TerminalBesideBell`, and `SpeakerSpec => []BeepEnds`
from `DeadlineInv`: a deadline is at most a beep ahead when it is computed, may be
past when it is stored, is never 0, and a speaker that sounds outside
`start_beep` has one.

**RtcProofs.** `MkTimeCountsSeconds`: `mktime` is 0 at the start of 1970 and grows
by one from each second to the next, by way of the days, one lemma for the next
day of a month, of a year and of the range. The invariants of the machine are

    RtcInv == BootInv /\ RegisterInv /\ ServiceInv /\ SnapshotInv /\ TypeOK

`BootInv` gives `[]NoCmosInterference` and `[]OwnHandler`: whoever has written the
index is the one to use it, because `rtc_handler` can only run when the cascade
is unmasked, which the last step of `rtc_init` does. `RegisterInv` says that what
each context has read is a number in BCD of its range, and what it has written
of the alarm so far is what the carry of the time it holds demands, place by
place; it gives `[]AlarmIsNextSecond`. `ServiceInv` ties the in-service bits of both
chips to the routine the CPU is in (`[]NothingLeftInService`). `SnapshotInv` says of
a context in `time_read` that the seconds it holds are those of `age` seconds ago,
which is below 60, and that with an age of 0 all else that it has read is what the
chip still shows. The loop ends when the seconds it holds are those of now, which
leaves an age of 0 only: `Spec => TimeReadIsExact`, and `StartupTimeIsMkTime` follows.
Last, `MkTimeIsSecondsTo`: `mktime` is the sum of the days, counted year by year
and month by month, for every date. The sums are folds over sets, of which
KernelLemmas shows that the order does not matter (`SumTakesAny`) and that over an
interval they are what counting along it yields. So `Spec => StartupTimeIsTrue`.

**Only model-checked.** Liveness: `SleeperWakes` (run task), `WaiterWoken` (threads),
`AlarmAnswered` (rtc). The prover has no rule for
fairness or ENABLED. Every other property of a passing run is proved for all
values of the constants.

## 5. Where the code and its documents disagree

* **slice** (`task.c:261`): a woken sleeper has `ticks = 0` and `schedule()`
  refills only the task it leaves, so the first tick after the wake-up takes
  `ticks` to 2^32 - 1 and the task is not preempted any more, until it calls
  the kernel. It takes a task that sleeps, and none does in the kernel as it is:
  without one the comment holds (`SliceWithoutSleep`, section 4).
* **idle** (`task.c:65`): `task_search` prefers a task with more ticks *or* an
  earlier last interrupt; so idle, a ready task like any other, is switched to
  although another task is ready. The note on kernel threads describes idle as
  the task for the case that all others are blocked.
* **sleep_wrap** (`task.c:253`): a sleep across the wrap of `jiffies` ends at
  the next tick. No sleep ends early in any other way (`SleepersAreWokenWhenDue`).
* **mutex_fifo** (`mutex.c:19`): a newcomer can take the mutex ahead of the
  waiter just woken, which queues again at the end; the comment promises first
  in, first out.
* **console_end** (`console.c:101`): the u32 stores of `scroll_up` write
  one row too many, behind the end of video memory in the last scroll before
  the wrap. The `console` run shows that the surplus zeros never become visible
  as anything but blanks.

The following observations have no run, for the reason given with each.

* `free_pages` counts too many pages for good, since `mapping_init` does not
  subtract what it marks. No document says it is exact; `FreePagesSuffice` is
  what its users need.
* With several ready tasks one can be passed over again and again; no document
  promises otherwise.
* `rtc.c:47` says that setting the alarm anew keeps it firing every second. If
  the second it is set to passes between the end of `time_read` and the read of
  register C, the alarm is next met a day later. Only the speed of the CPU
  excludes it; the behaviour is one of the model (`AlarmAnswered` is about
  alarms that do fire), and a counterexample would be one of timing alone.
* `rtc_init` writes `outb(CMOS_A, ...)` to I/O port 0x0a, not to register A of the
  chip. The port is the mask register of the first DMA controller; nothing the
  kernel uses, and the periodic interrupt whose rate it would set is off. In Rtc
  it is a step of the boot (`RtcSetRate`) that changes nothing else.
* With `rtc_init` called where it is commented out, the first clock interrupt
  ends `kernel_init` in it, and its tail may never run.
* A bell whose store of the deadline comes just after `stop_beep` has switched
  the speaker off is silent; no document promises that each bell is heard. A
  deadline that is 0 because `jiffies` wraps would leave the speaker on; Speaker
  stops short of the wrap, 497 days on.
* In `vsprintf`, a precision of `*` does not advance the pointer, so the `*` is
  read again as the conversion and printed; and `%f` prints the digits of the
  fraction without its leading zeros (1.05 comes out as 1.50000). The kernel uses
  neither. Format does as the code does.
* `YEAR * year` in `mktime` is a product of ints that overflows from 2039 on; the
  build wraps, and the result is right as a u32 up to 2069.
* `list_insert_sort` compares keys as int; no code calls it yet. The allocators
  are not protected against each other's interruption; they are called before
  interrupts are enabled only.

## 6. What is not modelled

* The string library (`string.c`): loops over their arguments without state.
  Of `stdlib.c`, `bcd_to_bin` and `bin_to_bcd` are in Calendar and
  `div_round_up` in Memory; `delay` and `hang` do nothing but pass time.
* The boot sector and loader: sequential set-up; the memory map they collect is
  an input of Memory. Descriptors and port I/O: one-time copies and single
  instructions. Assertions and panic: an assert is a guard or a property of the
  action it stands in, a panic of the allocators the phase `"halted"`.
* Of the modelled parts: register contents, the attribute bits of page-table
  entries and the TLB, the PIT's programming, the CRT registers (they repeat
  `screen` and `pos`), the exception printer, the check of the system call
  number, the wrap of `jiffies` beside the speaker, the memory behind the buffer
  of a text that is too long, the rounding of floating point in `%f`, `list_test` and the other test code.
* Of the clock chip: the update in progress. The model's chip changes all of its
  registers at once, while for up to 2 ms of each second the real one's may be
  read half changed; `time_read_bcd` does not look at the bit that says so. The
  properties of Rtc hold outside this window.

## 7. Plan

Done: Task, Mutex with its abstraction, Threads, Memory with Bitmap and the page
tables, List with its abstraction, Console with its abstraction and the Speaker,
Calendar, Pic and Rtc, Format; the runs; every safety and action property of the
passing runs and every refinement proved.

Whoever changes the code finds here what has to change with it. When tasks start
to sleep, `slice` and `sleep_wrap` can happen in the kernel that boots; when
`rtc_init` is called, so can what section 5 observes of it; when an interrupt
handler allocates pages or prints, Memory and Console need the interleavings that
Task has.
