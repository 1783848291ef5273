# A TLA+ model of yuan-rtos

yuan-rtos is a small preemptive real-time kernel for one Cortex-M3 core: tasks
with 32 fixed priorities and time slices, software timers driven by the SysTick
interrupt, semaphores, recursive mutexes with priority inheritance and message
queues. The kernel proper is about 1900 lines of C under `src/src`, its headers
under `src/include`, and a port of 210 lines under `src/libcpu/CM3`.

These modules model the kernel proper, all of its communication objects and the
context switch of the port, check them with TLC on small instances and prove with
TLAPS, for every instance: the main invariants of the kernel, the whole of its timers, the
order of service, the safety of semaphores, mutexes and queues down to their
refinement of abstract objects, and the whole context switch.

Paths below are relative to the repository.

## The system

| Part | State | Operations | Talks to |
| --- | --- | --- | --- |
| lists (`src/list.c`) | two pointers per node, one list node per task and one per timer | init, isempty, insert_before, delete_self | everything |
| timers (`src/timer.c`) | `yr_current_ticks`, `yr_timer_list`, per timer `init_ticks`, `timeout_ticks` | start, stop, set_ticks, check | tick handler, tasks, IPC |
| tick handler (`src/timer.c`) | the local `timeout_list` | `yr_tick_update`, `yr_timeout_default_func` | charges the slice, yields, readies sleepers, switches |
| scheduler (`src/scheduler.c`) | `yr_current_task`, 32 ready queues, bitmap, defunct list | insert, remove, yield, switch, start | everything that readies or blocks a task |
| tasks (`src/task.c`) | status, initial and current priority, mask, slice, `hold_mutex_count`, `msg_info` | init/create, start, sleep_ticks, sleep_until, suspend, delete, exit, cleanup_defunct, set_priority | scheduler, timers, IPC reordering |
| idle, start (`src/kernel.c`) | the idle task | kernel_init, kernel_start, idle entry | cleanup_defunct |
| IPC base (`src/ipc.c`) | validity, flag, blocked list | block_task, resume_all, reorder | scheduler, timers |
| semaphores (`src/semaphore.c`) | current and maximal count, IPC base | take, give, delete, `take_from_isr`, `give_from_isr` | IPC base, scheduler |
| mutexes (`src/mutex.c`) | owner, recursion depth, IPC base | take, give, delete | IPC base; priority, mask and `hold_mutex_count` of tasks |
| queues (`src/queue.c`) | ring buffer, two IPC bases | send, receive, reset, delete, `send_from_isr`, `receive_from_isr` | IPC bases, scheduler, `yr_get_current_ticks` |
| port (`libcpu/CM3`) | PRIMASK, `yr_switch_flag`, the two stack pointer slots | irq_disable/enable, task_switch, PendSV, first switch | scheduler |

What makes this code hard:

* Atomicity is by critical sections (PRIMASK). An API function usually has two:
  one for its effect, and the one of `yr_sched_switch`. The tick handler, and
  through it any other task, may run between them.
* A task carries *one* list node for ready queue, defunct list and blocked
  lists. Its status must say at all times where that node is.
* The bitmap duplicates the emptiness of the queues.
* Expired timers sit in a list on the handler's stack, where callbacks may still
  delete them; tick values wrap around.
* A timeout, a resumption, a suspension and a deletion may race for one task.
* A mutex changes the priority of a task that is in any state, and on any list.
* A queue wakes a task that must then look again: another one may have taken its
  item, and its time may be over.
* A switch that was asked for happens later, in PendSV; more may be asked for
  before it runs.

What makes each part correct, as properties:

* lists: pointers stay in pairs (`WellLinked`, `ListsIntact`).
* timers: every timer is called at its tick, in order, unless it was stopped
  (`CountsDown`), nobody wakes early (`NeverEarly`).
* scheduler: `BitmapExact`/`BitmapCovers`, `HighestRuns`, `OnlyCurrentRuns`,
  `FifoWithinPriority`, `RoundRobin`.
* tasks: `NodesMatchStatus`, `TimersMatchSleepers`, `DeletionIsFinal`,
  `StartIsAtomic`, `SleeperWakes`, `DefunctIsCleaned`.
* semaphores: every unit goes to exactly one taker, who is told so
  (`UnitsConserved`), to the right one (`ServesBest`), none lies idle while somebody waits (`NoIdleUnit`),
  and a wait leaves no timer behind (`TimersMatchWaits`).
* mutexes: one owner, who is known to be one (`IsLock`, `TakeIsTruthful`), who
  runs at least at the priority of its waiters (`OwnerInherits`), and no longer
  than it owns a mutex (`InheritanceEnds`, `HoldsCounted`).
* queues: items arrive once and in order, and results are true (`IsChannel`,
  `RingOK`), nobody is left
  waiting beside an item but for a reason (`StallsOnlyByGivingUp`), and a wait is
  not cut short (`NeverEarly`).
* port: a task executes only while the scheduler wants it, and continues where it
  was (`IsProcessor`, `OwnFrames`); a request is served (`SwitchHappens`).

## The modules

**`YrList`** is `list.c` on a heap of pointers. It does what the code does on
broken lists too: the stores follow one another.

**`RunQueue`** has the same lists as values: `lists` maps every list head to the
sequence of tasks behind it. It holds `yr_sched_insert_task`,
`yr_sched_remove_task`, the rotation of `yr_sched_yield`, the choice of the next
task, and the sorted insertions of `ipc.c` and `timer.c`. No recursion, so that
theorems can use it. `SchedRemove` takes the priority whose queue it examines as
an argument, because `yr_task_ctrl_current` changes it before the call.

**`Kernel`** is the core state machine. One action is one critical section:

| Variable | Code |
| --- | --- |
| `sched.lists`, `sched.group` | ready queues, defunct list, blocked lists; `yr_thread_ready_priority_group` |
| `current` | `yr_current_task` |
| `status`, `initPrio`, `curPrio`, `slice`, `holds`, `msg` | fields of `yr_task_t` |
| `mask` | `priority_mask`, as the priority whose bit it is |
| `timerList`, `left` | `yr_timer_list`, `timeout_ticks - yr_current_ticks` |
| `tick`, `due`, `firing` | where SysTick is, its `timeout_list`, its `param` |
| `pc`, `arg` | where a task is inside an API function, the task it starts |
| `prioIpc` | the IPC objects created with `YR_IPC_FLAG_PRIO`; the kernel only reads it |
| `idleDone` | idle has passed its only clean-up |
| `fault` | the code took a list head for a task, or linked a linked node |

`pc[t] = "switch"` is the window before `yr_sched_switch`, `pc[t] = "start"` the
one between the status check and the critical section of `yr_task_start`. The
tick handler is `TickBegin`, `TickYield`, `TickSwitch`, `TickCheck`, `TickPop`,
`TickTimeout`, `TickEnd`; it is not interrupted by tasks. A task executes only
while it is current and no handler is active (`Executes`): the PendSV exception
that performs a switch has the lowest priority and is pending until the handler
returns. After a fault nothing more is said of the system (`Halted`): in the code
a list head is then read as a task, or a node that is already in a list is linked
again, and the other lists have lost nodes in a way that sequences do not express.
`StartRelinks` stops the model there. Hence, for workloads in which two tasks start
others, `NodesMatchStatus`, `BitmapCovers` and `OnlyCurrentRuns` say what holds up to
that point, and that the point is not reached needs a condition (`OneStarter`, below).

`mask` is apart from `curPrio` because the code has both: every function of the
scheduler works on the queue of the one and the bit of the other, and
`yr_task_start` restores only the one (`task.c:78`).

Arguments come from small sets: `Calls` gives each task the API functions it
uses, so that one module serves coordinated and uncoordinated workloads. Tasks
act on user tasks only; the idle task is not suspended or deleted, as
`task.c:163-166` and `222-225` demand. `Kernel` by itself blocks no task at an IPC
object, but its operations already act on tasks that are blocked there, and the
theorems cover lists that hold some.

**`Ipc`** adds what all IPC objects share: `yr_ipc_block_task`,
`yr_ipc_resume_all`, the resumption of the first waiter with its choice
(`ServesBest`), the place of a task inside an IPC function (`call`), and interrupt handlers that call `from_isr`
functions; `isr = "switch"` is the point where a handler has seen `need_switch`
and is about to call `yr_sched_switch`, as the examples in the docs do.
`KernelStep` is the whole of `Kernel`'s next-state relation beside such calls.

**`Semaphore`** is `semaphore.c` on top of it. The parameter checks read
`is_valid` and `max_count` before interrupts are disabled, so a take or a give is
`Enter`, then its critical section, then its switch; a take that waited reads its
result in a third section, `TakeReturn`. `count` is `current_count`, `valid` is
`is_valid`; `Limit` is `max_count`, which a deletion resets to 0. `ret` is the value
that the take or give decided in this step returns to its caller, and empty after
any other step.

**`UnitPool`** states what a semaphore promises, without lists, timers or
priorities: a pool of units, takers that wait, takers that were granted a unit
(`granted`) or whose wait ended without one (`refused`) and that have not returned,
and the result of each call. A take returns success exactly if it took a unit out
of the pool or was granted one; it fails at once only while the pool is empty. A
give returns success exactly if its unit was counted or granted to a waiter, and
fails only at the limit or on a closed pool. A granted taker leaves that set only
by returning with success, or because its task is deleted: a timeout, a suspension
or a deletion of the semaphore that came second and changed `notify` would be no
step of the pool, nor would a give that says success and does nothing, or a unit
that vanishes, since every change of `avail` goes with its result. The refinement
mapping reads `granted` and `refused` off `notify` once the task is out of the blocked
list. It lets a task wait on a closed pool, because a take that passed its check
before `yr_semaphore_delete` does.

**`Mutex`** is `mutex.c`, for any number of mutexes. `owner` and `hold` are the
fields of the mutex, `holds` (in `Kernel`) is `hold_mutex_count`, `obj` the mutex a
call is about. A take that must wait first raises the priority of the owner with
`Reprioritised`, the list work of `yr_task_ctrl_current` that `Kernel` has for
`yr_task_set_priority` too, and then blocks; both happen on the same lists one
after the other, hence `BlockFrom` and `ResumeFrom` in `Ipc`. `Release` is the last
give: end of the inheritance, then the hand-over to the first waiter.

**`Lock`** states what a mutex promises: one holder, who may take it again up to a
depth, hands it to a waiter with the last give, and is never overtaken by a
client that did not wait. Its `Grab` does not ask whether the lock is open: a
take that passed its check before the deletion still gets the deleted mutex.

**`Queue`** is `queue.c`. `item_size` and `memcpy` are one slot of `buffer`; the slot
keeps its old item after it has been read, as the bytes do. The loop of
`yr_queue_send` and `yr_queue_receive` is the cycle of the labels `send`,
`sendWait` and `receive`, `receiveWait`; `remain` is `wait_ticks`, and `since` is
`yr_get_current_ticks() - start_ticks`, which is all the code uses of the two.
`budget` is no variable of the code: it is what is left of the time the caller
asked for, and `NeverEarly` compares the loop with it. `ret` is the result of the
send or receive that is decided in this step, with the item that `memcpy` has
copied in or out and the caller it belongs to.

**`Channel`** states what a queue promises: a bounded FIFO of items, clients that wait
only on finding it full or empty, and one of them called for each item or slot.
A receiver that is told success has the oldest item, a sender that is told success
has put its own in, and an error changes nothing. A client that has been called has
no claim on the item; it looks again, or gives up.

**`Port`** is `port_gcc.s`: the two stack pointer slots, `yr_switch_flag`, the PendSV
pending bit, PendSV in three parts (before `cpsid`, masked, after `msr`), nested
handlers as a depth, the context in the registers (`cpu`) and the one each
`task->sp` points to (`saved`). What the scheduler chooses is left open:
`Request(t)` is `yr_sched_switch` with any `t`. `SchedStart` and `SVC` start the
first task; between them interrupts are enabled (`cpsie i` before `svc`). A swap in
that window pushes `r4-r11` at a PSP that was never set: what `saved` then has for the
first task is `NoFrame`, the frame of no task. `OwnFrames` names that one exception,
and only the first task can have it.

**`Processor`** states what `Kernel` assumes of the port: a task executes only while
it is the current one and continues where it stopped. There is one exception, of
the start window, stated as such (`early`), where the first task loses its context.

**`Timer`** has `timer.c` at the level of pointers and of a counter that wraps around
(`HalfRange`, half the number of its values, is 2^31 in the code), with `yr_task_sleep_until` as a caller. **`Countdown`** states what `Kernel`
assumes of timers: numbers that count down, a sorted sequence, callbacks in
order. `Timer` implements it under the refinement mapping at its end (property
`CountsDown`). `Items` reads a list: the sequence of timers through which the
pointers lead from a head back to it.

**`MCKernel`**, **`MCSemaphore`**, **`MCMutex`**, **`MCQueue`**, **`MCPort`** and
**`MCTimer`** hold the workloads and names for TLC, the modules that end in
`_proofs` the theorems. `Kernel` rests on `RunQueue`; `Semaphore`, `Mutex` and
`Queue` each rest on `Ipc`, which rests on `Kernel`: every IPC run contains the
whole kernel with its tick handler.

The definitions between "Faulty variants" comments are the code with a plausible
mistake; substituted for the original, each makes TLC report the property that
`PROJECT.json` names for it.

## The runs

| Run | Config | Instance | States |
| --- | --- | --- | --- |
| managed | `MCKernel_managed.cfg` | manager at priority 0, two workers at 1, idle at 2; slices and sleeps of up to 2 ticks | 1.1 million |
| unmanaged | `MCKernel_unmanaged.cfg` | the same tasks start, suspend, delete and re-prioritise each other freely; slice and sleep of 1 tick | 210 000 |
| liveness | `MCKernel_liveness.cfg` | two peers that sleep, yield and manage each other, fair tick | 17 000 |
| timers | `MCTimer_wrap.cfg` | three timers, one of them periodic, 3-bit counter from all eight values | 270 000 |
| semaphore | `MCSemaphore_workloads.cfg` | two workers at 1 take and give a binary semaphore, interrupts take and give; FIFO: a manager at 0 sleeps, suspends and starts the workers, deletes one of them and the semaphore; priority flag: it gives, gives the workers any priority and itself 0 or 1 | 610 000 |
| mutex | `MCMutex_nested.cfg` | one task at 0 that sleeps, takes X and deletes it, two at 1 that take X, one of them Y too; depth 2 | 1.7 million |
| queue | `MCQueue_channel.cfg` | two tasks and interrupts send, receive, reset and delete; two slots, waits of 0 to 2 ticks and for ever | 1.1 million |
| port | `MCPort_switch.cfg` | three tasks of two steps each, two nested handlers, also before the start | 37 000 |
| starvation | `MCKernel_starvation.cfg` | as liveness | counterexample |
| defunct | `MCKernel_defunct.cfg` | a task that may sleep before it ends | counterexample |
| start_race | `MCKernel_start.cfg` | as unmanaged, sleeps of up to 2 ticks | counterexample |
| stale_bitmap | `MCMutex_crash.cfg` | three tasks that take and give one mutex, one sleeps | counterexample |

`managed` shows that the kernel keeps its promises when one task starts, suspends,
deletes and re-creates the others. `unmanaged` shows what is left without such
discipline: status and lists agree as long as no start links a linked node (where the model
stops, see below), no
ready task is hidden, and nobody but the current task is RUNNING. The properties
that fail there (`BitmapExact`, `NoFault`, and with them `HighestRuns`) do so for
the reasons of the next section.

`semaphore` lets everything that can end a wait race for it: give by a task or an
interrupt, timeout, suspension, deletion of the task or of the semaphore, also
between any two critical sections of the take. Its action constraint
(`MCSemaphore!Workload`) gives each flag its own workload. The stale-bitmap fault
lies inside the priority part; `ServesBest` says that the order of service is right until the
kernel declares that fault. In the priority part all waits are for ever: that timeouts do
not disturb the order either is shown by the theorem `SemaphoreServesBest` only. The
manager does not suspend or delete itself.

`mutex` has nested ownership (two mutexes in any order, also deadlocked against
each other), recursion up to the limit, a timeout against the hand-over, and the
deletion of a mutex that is owned and waited for. `OwnerInherits` is about mutexes that serve by
priority and about waiters that hold no mutex themselves: inheritance is not
transitive in the code, and a FIFO mutex may go to a task below other waiters. The run has the stale-bitmap fault too:
like `unmanaged` it shows what holds up to it.

`queue` shows that the retry loop keeps its promises with waits that are woken,
find nothing and wait again, against timeouts, handlers, reset and deletion.

`port` and its theorem are the bridge from "the current task executes", which the
other modules assume, to the assembly.

`defunct` has one user task. Idle cleans up while it sleeps, it wakes, ends, and idle
runs on for ever beside it. With idle cleaning again and again the property
holds in the same workload: it is the single call that breaks it, not the scheduling.

**Bounds.** Three priorities give one above, one shared and one below; two tasks
of equal priority are the least for round robin and a third task preempts them.
Slices of two ticks make "charged" and "used up" differ; two ticks of sleep make
timers with different and with equal expiry times. `SliceTicks`, `MaxSleep` and
the task set are the only bounds of `Kernel`: it has no unbounded counter. In
`Timer`, `MaxTicks` is below `HalfRange`, the range in which signed differences
order tick values; every wrap-around of the counter is reached because it starts
from every value and runs on. `MaxDelay` bounds the ticks between the two
critical sections of `yr_task_sleep_until`, and `InTime` keeps a periodic task
from falling half a counter range behind, where the code no longer tells past
from future. The semaphore run uses one unit (`MaxCount`) and
waits of at most one tick (`MaxWait`): with one unit the limit, the empty pool
and the hand-over all happen, and a wait of one tick already expires between any
two sections. Its manager keeps the FIFO flag while it manages, since with
workers of equal priority both flags order alike, and it deletes one of the two workers,
which are alike there except that only that one gives. `HoldMax` is 2 for the code's
255 (`YR_MUTEX_HOLD_MAX`): the depth is only compared with the limit and with 1,
and 2 has a depth on both sides. Two mutexes are the least that distinguish
"gave a mutex" from "gave the last mutex". A queue of two slots is empty, partly
filled and full, and wraps around; waits of two ticks leave a remainder after a
first wake-up. Queue items: tasks send x, handlers send y (`MCQueue!Workload`), so that two
items are told apart; the tasks are interchangeable, hence the symmetry set
(a permutation of the two tasks changes no property of that run, none of which is
a liveness property; constants differ between them in nothing but their names). In the mutex and queue runs main() starts all
tasks before the kernel. `MaxNest` 2 lets a handler be interrupted by another,
`MaxWork` 2 tells a task that continues from one that starts again, and three
tasks make "the last request", "the first request" and "the task that runs"
three different ones. Deadlock is checked in all runs: there is always a tick, a
handler or a halted system.

**Fairness.** `main` reaches `yr_kernel_start`, SysTick keeps arriving and its
handler, which has no loop but the one over expired timers, returns
(`TickFairness`, weak). A task that is current again and again inside a kernel
function gets to its next critical section, and idle to its clean-up
(`KernelFairness`); this is strong fairness, because every tick disables those
steps for a while, and the handler takes far less than a tick. Nothing is assumed
of a task's own code: it may run for ever without calling the kernel. In `Port`
handlers return (weak fairness, and strong for the last active one), and
PendSV and the SVC, which every handler delays, get their turn (strong
fairness): handlers that never leave time for tasks would be an overload that no
kernel survives.

## What the runs found

* **Starvation** (`starvation`). A sleep that ends by a tick before the sleeper
  has reached `yr_sched_switch` leaves the task current with status READY
  (`scheduler.c:75` returns early). `timer.c:143` charges only RUNNING tasks, so
  the task keeps the processor from a peer of the same priority until it calls
  the kernel. `RoundRobinUnlessOverlooked` shows that this is the only way.
* **Stale bitmap** (`stale_bitmap`). `task.c:300-306` changes priority and mask
  before the removal from the old queue. The old bit stays; if it is the highest
  one, the next switch reads a list head as a task. No unusual use is needed: in
  the run tasks take and give one mutex, the highest of them sleeps now and then
  (or no owner would ever be boosted), and the end of an inherited priority
  leaves the bit behind. `BitmapCovers` still holds.
* **Start race** (`start_race`). The status check of `yr_task_start` is outside
  the critical section: a task started, or deleted, in between is inserted again.
* **Clean-up** (`defunct`). Idle calls `yr_task_cleanup_defunct` once, before its loop: a
  task that ends later stays TERMINATED, and can never be created again.

Seen while modelling, not stated as runs:

* A queue wake-up can be spent on a task that gives up. A receiver with a timeout
  is woken for an item but gets the processor only when its time is over; it
  returns an error without looking (`queue.c:174`) while the item lies there, and
  another receiver waits on. `docs/tutorial/api/queue.md` says a task blocks
  "若队列为空且允许等待，则当前任务阻塞直到有数据或等待超时". `StallsOnlyByGivingUp` shows that this is
  the only way.
* The first task can be lost. A tick between `cpsie i` and `svc` (`port_gcc.s:50-51`)
  that asks for a switch makes PendSV save a PSP that was never set as the stack
  pointer of the first task (`early` in `Processor`).
* `task.h:69` says of `priority_mask` that it always equals `1 << current_priority`.
  `yr_task_start` restores only the latter (`task.c:78`): a task that was deleted while it
  owned a mutex, created anew, and boosted as its owner before it is started, has
  the mask of the boost. It then sits in one queue and sets the bit of another, and
  `BitmapCovers` fails: TLC finds the sequence in `MutexSpec` with two tasks, of which one
  deletes, creates and starts the other and waits for its mutex before the start.
* A take that passed its validity check before the deletion acquires the deleted
  mutex, and no give accepts it back; on a deleted semaphore it waits.
* Raising the priority of a waiter with `yr_task_set_priority` does not raise the
  owner of the mutex.

Also: `yr_task_sleep_ticks(0)` switches
without rotating its queue, so that a peer of equal priority does not run;
`yr_task_delete` and `yr_task_suspend` document NULL as "the current task" and
reject it; lowering the priority of a current task that is READY requests no
switch (`task.c:324-331`).

## The proofs

All theorems hold for arbitrary constants under the named assumptions of the modules.
Those of `Kernel` are four: the idle and the null task are none of the user tasks;
there is at least one priority, a slice has at least one tick; list heads are
distinct; idle has the lowest priority. `Ipc` adds that `Forever` is no number of
ticks, `Semaphore`, `Mutex`, `Queue` and `Port` what their constants are (a limit of at
least one, objects that are IPC objects, a positive capacity). TLC evaluates all of
them. A theorem that needs more says so in its statement:

| Hypothesis | Meaning | Runs that satisfy it |
| --- | --- | --- |
| `OneStarter` | no two tasks start or delete others | managed, liveness, defunct, semaphore, mutex, queue |
| `FixedPriorities` | no task calls `yr_task_set_priority` | managed, liveness, mutex, queue |
| `NoRecreation` | no task creates another anew | all but managed |
| `IsFiniteSet(User)` | there are finitely many tasks | all |

The proof modules build on each other like the modules: `Lists_proofs`, then
`Kernel_proofs`, `Ipc_proofs`, and on it one module for each of semaphore, mutex and
queue. `Timer_proofs` needs the lists only, `Port_proofs` stands alone.

`Lists_proofs` shows that `yr_list_delete_self` of any node of well-linked
lists, linked or not, and `yr_list_insert_before` of an unlinked one keep all
pointers in pairs, for any number of nodes. The sequences of `RunQueue` rest on
this: the unlinked precondition is what `fault = "relinked"` watches. The module also
has the lemmas on those sequences: removing a task removes exactly it and keeps an
injective sequence injective, appending, insertion in the middle, what a
resumption of all waiters (`Kept`) leaves where, and what `SchedInsert` and
`SchedRemove` do to membership and bitmap.

`Kernel_proofs` proves `TypeCorrect`, action by action. The point that is not a
formality is `slice`: it stays in `1 .. SliceTicks`, the code's unsigned
`--remaining_ticks` never wraps. It also proves `NoTimeoutMissed`
(`NoMissedTimeout`), for every workload. Its invariant `TimerOrder` adds to the
order of the list that no task is in it twice (else the count that a stop resets
would belong to a timer that is still armed) and what is left of the timers at each
stage of the handler: at least one tick, except between the decrement and
`yr_timer_check`, where it may be none.

The lists rest on one inductive invariant of the same module,

    Inv == IType /\ SchedInv /\ RunInv

from which follow `OneRunningTask` (`OnlyCurrentRuns`) and `NodesMatchStatus`. `NodesMatchStatus`
alone is not inductive. A removal deletes the node from whatever list it is in,
so one needs that the lists have no duplicates and that the status determines the
list; a rotation by the tick handler puts the current task at the end of the queue
of its priority, so one needs that it was in that queue, which is what `RunInv`
says of the current task in each stage of the handler and at each label. The
invariant was checked with TLC before it was proved. `FirstComeFirstServed`
(`FifoWithinPriority`) is about steps: every operation only takes a task out of the
ready queues, or puts one last that was not in that queue, but for the rotation
of the current task.
`BitmapNeverHides` (`BitmapCovers`) needs in addition that the mask of a task is that
of its priority (`CoverInv`, with `Masked`): `yr_task_start` may restore the priority
alone because in the kernel without mutexes an INIT task has its initial priority.
These theorems also hold for the unmanaged workload, up to the second link of a
node that run `start_race` makes possible: no cooperation of the tasks is assumed.

The second part of `Kernel_proofs` assumes `OneStarter`: no two tasks call `yr_task_start` or
`yr_task_delete`. The workloads of `managed` and `semaphore` satisfy it; the
counterexample of `start_race` needs two such tasks. Then what `yr_task_start`
has checked stays true until it acts (`StartInv`), so that

* `ListsMatchStatus`: status and lists agree (`NodesMatchStatus`) in every reachable
  state of the code, since no start meets a linked node (`fault # "relinked"`,
  lemma `NoRelink`);
* `StartAtomicIfManaged`: the start is atomic (`StartIsAtomic`);
* `DeletionFinalIfManaged`: nothing revives a deleted task (`DeletionIsFinal`): a
  timeout finds BLOCKED tasks only, a dispatch ready ones only (`Transition`, the
  steps a status may take);
* `TimersMatchIfManaged`: timers and sleepers correspond (`TimersMatchSleepers`).
  The invariant says that a timer is in at most one of three places, the timer list,
  the expired timers of the handler and the one that is firing, and that a place
  other than the first is used only in the stages of the handler that have one.

Its last part assumes `FixedPriorities`: nobody calls `yr_task_set_priority`,
as in `managed` (the counterexample of `stale_bitmap` needs a change
of priority). Then

* `BitmapExactIfFixed`: no bit is left behind (`BitmapExact`), since a node is in no
  other ready queue than the one its removal looks at;
* `HighestRunsIfFixed`: the highest ready task runs (`HighestRuns`). The invariant
  `LeadInv` keeps this through the stages of the handler and the middle of
  `yr_task_start`, except where a switch is on its way: an insertion at a priority
  that does not preempt leaves the head of the highest queue alone, and
  every other operation is followed by a switch;
* `NoFaultIfManaged`, with `OneStarter` too: the kernel dispatches a task, never a
  list head, and links no node twice (`NoFault`). It needs the exact bitmap, that
  idle is always ready, and that a startable task is in no list.

`Ipc_proofs` has no theorem of its own. Its lemmas show that blocking a task and
resuming one or all keep the kernel's invariant, that the kernel's own steps only
take waiters away and give nobody an answer, and that an object of `prioIpc` has
its waiters in the order of their current priorities (`SortedLists`): `yr_ipc_reorder`,
the sorted insertion and the inheritance keep it. With `Untold` (who is BLOCKED has
no answer yet) the head of the list is the right one to serve: `SemaphoreServesBest`,
`MutexServesBest`, `QueueServesBest` (`ServesBest`), for every workload.

`Semaphore_proofs` is about `SemSpec`, the semaphore with the whole kernel under it.
`NoUnitBesideAWaiter` (`NoIdleUnit`) and `SemTypeCorrect` hold for every workload: `NoIdleUnit` by itself is not inductive,
since a give that finds the blocked list empty counts its unit, and only the
kernel's invariant says that a task waits for the semaphore exactly if it is in that
list. With `OneStarter`: `WaitersMatchStatus` (`NodesMatchStatus`, and no node linked
twice), `TimersMatchWaitsIfManaged` (`TimersMatchWaits`) and
`SemaphoreIsUnitPool`: `SemSpec` implements `UnitPool` (`UnitsConserved`), the results
of all calls included. The
invariant `WaitInv` relates each task's place in a take to its status and message:
who waits for the semaphore is in a take that waits, and nobody is BLOCKED who has
been answered, so that no later timeout can take a granted unit back. `OneStarter` is
needed here because a task that was started late, after its deletion, would return
from a take that the pool has forgotten. Each
kernel step, give, take, return, deletion and handler then maps to a step of the
pool or to none (one lemma `...Refined` each).

`Queue_proofs` proves of the composed system, for any capacity and any number of
tasks and handlers, that the write position follows the last item
(`RingCorrect`) and that every step leaves the contents alone, appends one item
to fewer than `Capacity`, takes the oldest away or drops all (`FirstInFirstOut`,
an action property). The invariant `RInv` adds what a step needs: a task at label
`send` has an item to send, also after rounds that waited. The arithmetic is in
`Around`: one subtraction, as in the code, which equals the remainder only
because positions stay below the capacity. Four results about the waiting lie on top:

* `QueueIsChannel`: `QueueSpec` implements `Channel` (`IsChannel`), for every workload,
  results and received items included.
  `WaitInv` ties each task's place in its call to its status and message, so
  that the blocked lists and the called tasks never overlap and each put or get
  calls exactly one waiter.
* `QueueTypeCorrect` (`QueueTypeOK`): what is left of a wait stays between 0 and
  `MaxWait`. `Counting` says that a bounded wait has its start time, without which
  the loop would subtract nothing sensible.
* `QueueNeverEarly` (`NeverEarly`). The invariant `BudgetInv` says, while a budget is
  left, that it and the ticks since the last round do not exceed `remain`, that an armed timer
  has at least the budget to run, and that neither an expired timer nor a TIMEOUT
  message is there; only an expired timer times a task out.
* `QueueStallsOnlyByGivingUp` (`StallsOnlyByGivingUp`), with `NoRecreation` and finitely
  many tasks: items are compared with the number of tasks on their way to
  one. A put adds one item and calls one receiver, a task that goes away without an
  item was not called or found the queue empty, and the kernel takes
  nobody off his way. A task that is created anew would take its call with it,
  hence the hypothesis; one that is deleted or suspended on its way still counts as
  coming.

`Mutex_proofs` is about `MutexSpec`, any number of mutexes with the kernel. For every
workload, also one that deletes tasks and mutexes: `MutexTypeCorrect`
(`MutexTypeOK`), `TakeTellsTheTruth` (`TakeIsTruthful`) and `MutexIsLock`: it implements `Lock` (`IsLock`). The invariant
`MutexInv` has the kernel's, and for each task in a take what its place, status
and message say about the owner (`CallOK`): who waits is not the owner, who was told
OK is, and who was told anything else is not. With further hypotheses:

* `HoldsCountedIfNotRecreated` and `InheritanceEndsIfNotRecreated` (`HoldsCounted`,
  `InheritanceEnds`) with `NoRecreation`. A task that is deleted while it owns a
  mutex and created again has a count of 0 and still owns it, so the
  hypothesis is needed. `HoldInv`: the count is the number of the task's
  mutexes, and at 0 the priority is the initial one.
* `BitmapNeverHidesIfNotRecreated` (`BitmapCovers`), also with `NoRecreation`: a task in
  status INIT then owns nothing, so that no take raises it and its priority and mask stay
  what they were at its creation. Without the hypothesis the theorem is false, by
  the sequence described for `task.c:78` above.
* `OwnerInheritsIfFixed` (`OwnerInherits`) with `FixedPriorities` in addition. The
  invariant (`InheritInv`) compares the owner with the *initial* priority of each waiter: a
  waiter may itself be raised while it waits, which does not raise the owner again.
  For a waiter that owns nothing, which is what the property is about, the two
  priorities are the same by `HoldInv`.

`Port_proofs` proves the whole of `Port`: its type invariant, `OwnFrames`, and the
refinement `Spec => IsProcessor`. The inductive invariant `IInv` says what the
slots name in each stage of PendSV: while a request is open, `nextSlot` is the
current task and `prevSlot` the one whose context the processor has (or the first
task, in the start window), and PendSV is pending or about to look; without one,
the processor has the context of the current task. `OwnFrames` alone is not
inductive, since a swap stores what `cpu` holds under what `prevSlot` names. That the
exception is the first task alone follows because `prevSlot` names it as long as the
processor still has the context of `main()`.

`Timer_proofs` proves the whole of `Timer`: `TimerListsIntact` (`ListsIntact`),
`SleepNeverEarly` (`NeverEarly`) and `TimerCountsDown`, the refinement of `Countdown`
(`CountsDown`). Their assumptions (`TimerAssumption`) are a finite set of timers,
delays below half the range of the counter, and, by the guard of `Tick`, periodic tasks
that are in time (`InTime`). The argument has three layers.

* *The counter.* Two numbers are `Congruent` if they differ by a multiple of the
  range; `Signed` of a number is the one congruent to it in `-HalfRange .. HalfRange - 1`.
  Hence the signed difference of two expiry times is the difference of what is left of
  them, which is why `Later` sorts right on both sides of the wrap-around.
* *The lists.* `Represents` says that the pointers lead through given
  sequences of timers and back, in both directions, and that every other timer points to
  itself. At most one sequence fits a head, so `Items` is that sequence;
  `yr_list_delete_self` and `yr_list_insert_before` act on it as `Without` and as
  the insertion at a place.
* *The invariant* `ITimer`: the heap represents the two lists, the timer list is in the
  order of what is left, at least 0 for each timer (-1 while `yr_timer_check` collects
  what has expired), and each periodic task sleeps for its target, is about to, or has
  reached it (`PeriodicOK`). `ListsIntact` alone is not inductive: that no timer is in
  two lists depends on what each pointer walk returns.

Each action then maps to one of `Countdown` or to a stutter. What `Countdown` promises is
what the theorems about `Kernel` assume of timers.

Only model-checked: the liveness properties (`RoundRobinUnlessOverlooked`, `SleeperWakes`,
`SwitchHappens`), since fairness and ENABLED are out of reach of the prover.

## Not modelled

* Initialising a deleted semaphore, mutex or queue again.
* Interrupt handlers that nest in each other or in SysTick, in the IPC modules: a
  handler and the tick run one after the other, although the code would allow
  nesting where `yr_timer_check` walks its expired timers with interrupts enabled.
  (`Port` has nested handlers.)
* A direct application call of `yr_task_ctrl_current`.
* No run deletes or suspends the owner of a mutex. The modules allow it, and the
  theorems about mutexes without `NoRecreation` cover it.
* The kernel after a node has been linked twice, or a list head dispatched: the model
  stops (`Halted`).
* Time slices of 0 ticks, timers of 2^31 ticks or more; `start_ticks == 0` as "not
  started" when the counter wraps to 0 (`queue.c:155`).
* The words of a stack frame and `yr_find_first_set`; stack overflow.
* `list.c`: `insert_after`, `delete_before`, `delete_after`, which nobody calls.
* `service.c` (formatted output), `bsp` (demonstration program, generated start-up
  code and the vendored HAL). The vendored drivers are by far the largest part of
  the repository by lines; they hold no logic of this kernel, so the share of all
  lines that these modules cover is small, although they cover most functions of
  `src/src` and the context switch of the port.

## Plan

1. Lists, run queues, `Kernel`, `Timer` and their first theorems: done.
2. `Ipc` and `Semaphore`, refining `UnitPool`: done.
3. `Mutex`, refining `Lock`, with `priority_mask` as a variable: done. Left: a run that
   deletes and re-creates an owner; and a client of `Lock` whose take fails.
4. `Queue`, refining `Channel`: done.
5. `Port`, refining `Processor`: done, with proof.
6. Proofs: every safety property that a passing run checks is a theorem of its
   specification: done. Liveness stays with the model checker.
