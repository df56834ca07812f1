# LightDMXController: models and proofs

LightDMXController drives DMX lamps from an ATSAMD21 (Cortex-M0+, one core) under
FreeRTOS 10.0.0, preemptive, with a kernel tick of 5 ms. A radio module receives the packets
of a remote control; a task turns them into commands; a second task computes the colours of
the lamps and renders them into one of two frame buffers; a third task sends the other buffer
as a DMX frame, about 33 times a second. This directory holds TLA+ models of that program,
the TLC configurations that check them on small instances and TLAPS proofs for all values of
the constants.

Paths below are relative to `src/LightDMXController/src/`.

## 1. The system

### Components, their state and their operations

| component | code | state | operations |
|---|---|---|---|
| start-up | `main.c`, `core/taskhost.c` | handles of tasks, queue, event group | create the objects, set the bits RUNNING and SWAPPED, start the scheduler |
| render/output cycle, output side | `dmx/dmx_output_task.c` | `frameBuffer[2][]`, `frameStatus`, `startCode` | suspend, wait for FINISHED, stop the cycle, swap, break, send start code and buffer, set SWAPPED |
| render/output cycle, render side | `core/programs_task.c` | `currentPrg`, `renderTransition[]` (`Pos`, `nextColorIndex`), `tmpFrame` | wait for a command, apply and free it, wait for SWAPPED, render every lamp, set FINISHED |
| DMX transmitter | `ASF/sam0/drivers/sercom/usart/usart_interrupt.c` | remaining length, pointer, status; INTENSET, TXC, DATA, shift register | claim and arm a job, serve the DRE and TXC interrupts |
| timers | `core/time_controller.c`, tick of `config/FreeRTOSConfig.h` | counter of the DMX timer, tick count | every 124/4096 s resume the output task; every 5 ms end the waits that are due |
| remote receiver | `core/recv_remote_task.c` | `remoteDataAvailable`, packet buffer, `lastCount` | packet interrupt; wait, read, listen again, validate, build a command on the heap, send it |
| command queue | `core/taskhost.c`, `queue.c`, `heap_4.c` | 8 pointers; allocated blocks | allocate, send, receive, free |
| radio driver | `core/LT89xx.c` | registers and FIFO of the LT8910 | initialise, read a packet, start listening |
| debug output | `ASF/common/services/freertos/dbg_print/dbg_print.c` | ring buffer of 128 bytes, mutex, semaphore for space | lock, put a string, wait for space, transmit interrupt |
| status LED | `core/taskhost.c` | a pin | blink |
| kernel | FreeRTOS `tasks.c`, `queue.c`, `list.c`, `event_groups.c`, `heap_4.c` | tick count, lists of waiting tasks, locks of scheduler and queues, list of free blocks | delay, receive, send, suspend, resume, the tick, abort a delay, give from an interrupt, allocate, free |

Priorities: Recv_Remote_Task 3, DMX_Output_Task 2, Programs_Task 1, status LED 0. On one core
this decides most interleavings: a task runs only while those above it wait, and an interrupt
comes before every task.

### Interaction

    radio --IRQ: flag, xTaskAbortDelay--> Recv_Remote_Task --queue of pointers--> Programs_Task
                                                              |   ^
                                    FINISHED (event group)    |   |  SWAPPED (event group)
                                                              v   |
    DMX timer --IRQ: xTaskResumeFromISR--> DMX_Output_Task --two jobs--> USART --IRQ--> pin

Programs_Task writes the back buffer and reads the front buffer, DMX_Output_Task swaps them,
the USART interrupt reads the front buffer. All tasks write to the debug output, whose
mutex and space semaphore can block any of them.

### What is hard here

* Two event bits are the only thing that keeps the tasks from the same buffer. The bits are
  taken at three places, two of the waits have timeouts, a stop may come at any time, and
  RUNNING is never set again.
* Both USART jobs are started without looking at their status; the first one must have left
  the driver before the second is tried, although nothing waits for it.
* The waits depend on each other: the renderer waits 10 ticks for a command while the
  output waits 100 ms for the renderer and the timer ticks every 30 ms.
* The packet interrupt aborts whatever wait the receiver is in. It may come when the task is
  in none, or in one for the debug output.
* A read from the radio may fail without a word and leave the previous packet in the buffer.
* The results of `pvPortMalloc` and `xQueueSend` are not looked at; a command is read once
  more after it was given away.
* The kernel lets interrupts come while the scheduler is suspended or a queue is locked, and
  makes up for what they had to leave. This program calls `xTaskAbortDelay` from one, which
  leaves nothing and takes the task out of its list at once, also when another task is in the
  middle of that list.
* The radio decides how many bytes are stored; the check of a message looks at the places that
  this number names.

### What makes each component correct

* Cycle: one owner of the buffers at a time, the right to them is never lost, every rendered
  frame is shown once and in order, rendering starts from the frame that is shown, nothing is
  swapped after a stop.
* Transmitter: what leaves the pin is the start code and the front buffer, in order, complete.
* Timing: the waits do not make each other time out, the output is refreshed at bounded
  intervals, a frame is not cut by the next one.
* Receiver and queue: a packet that was announced is read; only a freshly read packet is acted
  upon; commands take effect once each and in order; heap blocks have one owner, none leaks.
* Radio driver: it listens again after every packet and every failure; what it stores stays
  near the buffer, and a message is stored by one reading.
* Kernel: a task links its item into the list it has searched; as long as that is so, no wake-up
  is lost, no wait ends too early or too late, across any overflow of the tick counter; the free
  blocks of the heap stay merged and suffice for the program.

The full list of hazards, each at its line, is in `PROJECT.json`.

## 2. Modules

| module | what it is |
|---|---|
| `UsartTx` | the transmit half of the USART driver and the hardware below it |
| `RenderOutputCycle` | the two tasks of the cycle, the timer and the timeouts, over an instance of `UsartTx` |
| `FrameHandoff` | what the cycle promises: rendering and showing alternate until it stops |
| `TimedCycle` | the cycle with its clocks; every action is one of `RenderOutputCycle` with a time condition |
| `KernelWaits` | the kernel's delays, receives with timeouts, lists, tick and locks, under the interrupts of this program |
| `PortHeap` | the kernel's heap, as functions of its list of free blocks |
| `RadioRead` | reading a packet word by word and judging it |
| `RemoteMemory` | both memories of the way of a command: `RadioRead`'s buffer and a `PortHeap` from the start of the program on |
| `RemoteReceiver` | radio, packet interrupt, Recv_Remote_Task, heap, queue, and the part of Programs_Task that takes the commands |
| `LightCommands` | what the remote control promises: accepted commands take effect once, in order |
| `DbgPrint` | the debug output: tasks with priorities, mutex with inheritance, ring buffer, request for space, transmit interrupt, aborted waits |
| `ByteStream` | what the debug output promises: strings go out whole and in order |
| `ProgramRenderer` | the light programs: commands, transitions between colours, the four ways of rendering |
| `ProgramPresets` | the colour lists and programs of `core/programm_presets.h` |
| `MC...` | the instances that TLC checks |
| `..._proofs` | theorems and TLAPS proofs |

`PROJECT.json` gives, under `map`, the lines of code each definition stands for.

How they fit together: `RenderOutputCycle` instantiates `UsartTx`, `TimedCycle` extends
`RenderOutputCycle`. `RemoteReceiver` reduces the whole cycle to one step of Programs_Task
(`PrgCycle`), `RenderOutputCycle` reduces the queue to a wait that ends (`QueueWaitEnds`), and
`ProgramRenderer` reduces both: a command is applied or not, the wait for the buffer succeeds
or not, and the swap is one step. What it takes from the cycle is what the cycle's theorems
say: the renderer reads the frame before (`RendererSeesPreviousFrame`), the next swap shows the
frame just rendered (`FramesInOrder`), and it renders again and again (`ImplementsFairHandoff`).

`RemoteMemory` looks at two assumptions of `RemoteReceiver`: that a reading stores a packet or
leaves the one before alone (`RemRead`), and that there is a block for every command (`Cells`).
`KernelWaits` looks at what the others take the kernel to do: a wait ends when it is due, is
aborted, or gets what it waits for.

## 3. From the code to the models

### RenderOutputCycle, UsartTx, FrameHandoff

`dmxPc` and `prgPc` are places in the loops of the two tasks, one for every point at which an
interrupt or the other task can make a difference: `xEventGroupWaitBits` is split where it
tests the bits, blocks, is woken and times out, and `usart_write_buffer_job` into claiming the
length (in a critical section) and setting pointer and interrupt. Interrupts come before
tasks, DMX_Output_Task before Programs_Task (`DmxAt`, `PrgAt`). A timeout may strike at any
time its wait is blocked. A lamp holds the number of the rendering that wrote it, so that a
torn, stale or repeated frame can be told from a right one.

`UsartTx` has the driver's `remaining_tx_buffer_length`, `tx_buffer_ptr` and `tx_status` and
the hardware's interrupt enables, TXC flag, data register and shift register. `intact` and
`wire` are history: what has left the pin of a frame that began on an idle transmitter.

*Token.* The right to touch the buffers is in one of four places: the bit SWAPPED, the
renderer between its wait and its signal, the bit FINISHED, and the output task between its
wait and its signal. `FrameHandoff` knows only whether rendering or showing comes next and
which frames there are; the mapping reads it from the place of the token.

### TimedCycle

A unit of time is a kernel tick of 5 ms. The clocks bound when the timer interrupts (6 or 7
ticks), when the waits end (10, 20 and 200 ticks, a wait of n ending between n - 1 and n), and
how long a frame of 129 characters takes at 250 kbaud (1 to 2 ticks). Code takes no time, but a
ready task may be held up for `regime.slack` ticks in a row, which stands for Recv_Remote_Task,
its reading of the radio with the scheduler suspended, and the debug output.

### RemoteReceiver, LightCommands

`remPc` and `prgPc` are places in the two loops. Recv_Remote_Task has the highest priority:
Programs_Task moves only while it waits (`PrgGoes`), a packet interrupt may come at any step. A
packet is what the code tests in it; `Garbage` is any that fails the tests of its form. A read
may fail and leave the buffer alone (`RemRead`). The heap is a set of `Cells` that keep their
content when freed; the queue holds cells. A wait for the debug output that a packet ends makes
`debugOutput` `aborted`: the code looks at the result of neither wait, so the task prints without
the mutex. That goes well (`PrintEnds`; the debug output is `unsound` from then on) or ends in
the failed assertion that `DbgPrint` shows (`PrintFails`; nothing runs any more). `LightCommands`
is a queue of commands and the light they act upon; the mapping reads the pending commands
through the pointers.

### DbgPrint, ByteStream

A call prints one string; a byte is known by its task and by how many follow it. Every step of
`_dbg_putstr` is an action and a write of one byte is one, so that tasks preempt each other in
the middle of a string; the ready task with the highest current priority runs (`Runs`), and
priority inheritance is that of FreeRTOS (`WaitForLock`, `Unlock`). `QuietSpec` is the debug
output without packets. `Spec` adds `PacketInterrupt`, which aborts the remote task's wait for
the mutex or for space; the code looks at neither result and goes on. A failed assertion of the
kernel is `halted`.

### KernelWaits

A task is in a delay, in a receive, in a call that keeps the scheduler suspended, or runs. `list`
and `event` say which lists its two items are in, `wake` and `EventItemValue` what they are sorted
by. The model has one queue and lets every ready task run: a superset of what the priorities
allow. A critical section is one action. What runs with only the scheduler suspended or the queue
locked is one action for each place where an interrupt makes a difference; `vListInsert` is its
search (`PlaceIn`) and its insertion (`Enlist`, `Link`), and `place` remembers the list as it was
searched. Interrupts are the tick, a give to the queue, a resume and an aborted delay
(`TickInterrupt`, `GiveFromISR`, `ResumeFromISR`, `AbortDelay`); the ticks that came meanwhile
are made up for one by one (`CatchUp`). `asked` and `elapsed` are history: what a wait was asked
to last and what it has lasted. `Abortable` are the tasks the radio interrupt aborts. It does so
with the scheduler suspended too, and between the search and the insertion. If the item it
removes is the one the new item is to be linked behind, or a neighbour of that place, the new
item ends up behind one that is in a ready list, with container and count of the list that was
searched; `LinkAstray` marks it as `stray`, whichever of these it is. What the kernel does after
that is not modelled: it takes the entries of one list for another's, a task may be passed over,
wake early, or be missed at the head of an event list. So the model ends there (`Stray`), and
`NoLostWakeup`, `NeverLate`, `NeverEarly` and `SwitchedListEmpty` are stated until then.
`NeverEarly` speaks of the tasks that are not aborted, because an abort that comes after a wait
leaves a flag (`ucDelayAborted`) that ends the next receive at once. An abort of a task that is
not blocked changes nothing.

### PortHeap, RadioRead, RemoteMemory

`PortHeap` is a heap as a record: sizes and links of the blocks by address, which of them have
the allocated bit, the two counters. The two walks along the list are recursive functions of
the places that have a next block (`Linked`). Sizes are those of this port: headers of 8 bytes,
alignment 8.

`RadioRead` has one action for each word read from the FIFO. A byte has one bit; leader and
trailer are the byte 1, the checksum is a sum modulo 2. The length is any the radio may give up
to one that is refused. What lies around the buffer is not known: `_IsMessageValid` reads
anything there, and a byte written behind the buffer may have changed the length (`damaged`).
What else it may change, and what the locals of a task that has been damaged do, is not modelled.

`RemoteMemory` takes the objects of the start-up from the heap in the order of the code
(`StartUp`), a task as a stack and a control block, and lets commands be taken and freed
after that. A failed allocation sets `starved` and ends the model. `RoomAssumption` is how large
the heap must be: larger than the blocks for all requests of the start-up (9928 bytes in this
program) and 32 bytes for each place of the queue (256 for the code's 8) together. At the worst
place, 14984 of the 15000 bytes of `ucHeap` are for blocks.

### ProgramRenderer, ProgramPresets

A colour is a function from channels to bytes; the arithmetic of the linear interpolation in
Programs_Task is in `Interpolate`, with the cut to a byte. `ColorsAt` returns an arbitrary colour
for an index beyond the list, because the code reads whatever is stored there. Commands are
applied at the place where the loop takes them from the queue. `changed` is history: a command
came since the last frame. `ProgramPresets` takes the constants through the byte order of
`tRgbwColor`.

## 4. What TLC checks

| run | states | what it asks |
|---|---|---|
| `cycle` | 191,000 | every interleaving of the cycle: token, order of frames, what leaves the pin, `FrameHandoff` with its liveness |
| `timed` | 8,104,000 | three regimes: with commands and hold-ups of 20 ms no wait times out and the output pauses at most 10 ticks and two hold-ups; without commands no frame is cut by the next; with hold-ups of 25 ms the waits do time out, and the cycle is stopped only after 95 ms without output |
| `timed_overlap` | violation | with commands, a frame can be shown while the one before is on the wire |
| `remote` | 3,059,000 (by symmetry) | packets at any time: ownership of blocks, room, freshness, `LightCommands` |
| `remote_live` | 511,000 | until a packet comes during a wait for the debug output: the radio listens again and again, announced packets are read, accepted commands take effect |
| `memory` | 763,000 | packets of every length: what is stored where, from which reading a message is; the heap from the start of the program on, and the smallest one that is enough |
| `kernel` | 3,299,000 | delays and receives of two tasks under every interrupt, until an item goes astray: lost wake-ups, early and late ends, the switch of the delayed lists |
| `kernel_place` | violation | the radio interrupt changes the list between the search of `vListInsert` and the insertion |
| `debug` | 330,000 | three tasks, no packets: mutex, room, requests, inheritance, `ByteStream` with its liveness |
| `debug_assert` | violation | with packets, an assertion of the kernel fails |
| `colors` | 387,000 | commands in every phase of small programs: between the two colours, no jumps, every colour is shown after the last command |
| `colors_index` | violation | with the real programs, a change of program makes the renderer read behind the list |

Each property of a passing run has a mutant in `PROJECT.json`: a plausible mistake in a mapped
definition (the operators called "Faulty variant" in the modules) that violates it.

### Bounds and why they are enough

* *cycle*: 2 rendered lamps of 3 sent, so that rendering can be interrupted between lamps and
  the rest of the buffer differs from the rendered part; 3 frame numbers, the fewest that tell
  a frame from its predecessor and its successor. The proofs hold for any number of lamps and
  frames.
* *timed*: 1 lamp of 2 (the timing does not depend on them). The regimes (`MCTimedCycle`) hold a
  task up for 4 ticks where nothing may time out (the largest hold-up for which that is so), for
  5 where the 100 ms wait can, for 1 without commands, where frames are not cut, and not at all
  for the violation.
  `ClockLimit` only stops a clock that nothing reads any more beyond it; `TimingAssumption` says
  from which value on that is so (19).
* *remote*: a queue of 2 and 3 blocks, so that order, a full queue and the reuse of a block
  with another still queued occur; the code's 8 adds only longer queues, and the proofs hold
  for every length. Counters 0 and 1 (equal to the last or not); the speed 43, the first to
  wrap, the program 12, beyond the limit, and the white key, which makes no command. Blocks are
  interchangeable (symmetry), except under liveness, where there is only the key that is logged.
  A stopped controller is a deadlock of the model, so deadlocks are not looked for.
* *memory*: a buffer of 4 bytes, so that there are lengths below 2, those of whole messages, the
  two that reach behind the buffer and one that is refused. The heap of 15000 bytes at each
  place it may have in memory; and one of 72 bytes for 3 commands, 8 bytes more than two commands
  can occupy (a block of 16 is not split from one of 32), where the last one fails with 64. It is
  the smallest that `RoomAssumption` allows.
* *kernel*: 2 tasks, a queue of 2, waits of 1 and 2 ticks, a tick counter that overflows after
  4 ticks and an overflow counter of 2 values, so that every wait may cross an overflow; one
  pended tick, and the end of a wait up to 2 ticks behind. A wait and its delay together stay
  below one round of the counter (`TickAssumption`), which takes 8 months on the chip. The
  model ends with an item astray, so deadlocks are not looked for.
* *debug*: room for 2 bytes, a character and a string of 3, which needs two rounds and a
  request; the three tasks with their real priorities. The violation needs two tasks only.
* *colors*: one channel, bytes to 3, 3 steps, two programs of 2 and 3 colours, with all lamps
  alike and with offsets, a speed that divides the steps, one that does not, and 0; commands
  whenever the code takes them. With a speed of 1 a colour is near (`Near`) at one step, so that
  the two colours of the second program cannot be taken for one another. For the violation: 2
  lamps, 4 channels, the five programs of the code and the speed 252, the largest the remote can
  set, with 64 steps instead of 4096, which is quicker to the end of a transition and the same
  there.

### Fairness and why the code justifies it

* *cycle*: both tasks, the timer interrupt, the end of the queue wait, the end of a debug
  message, and the USART. Ready tasks run because those above them wait: DMX_Output_Task
  suspends itself once per frame and Recv_Remote_Task sleeps between packets. No fairness is
  given to the 100 ms and 1000 ms timeouts: progress must not need them.
* *remote*: Recv_Remote_Task and its waits (weak), the queue timeout (weak), Programs_Task
  (strong, because it is preempted again and again, but runs again and again). Packets and
  failures of the radio have none. All of it holds only while `Sound`, until a wait for the debug
  output has been aborted: with two tasks in the ring buffer, or a semaphore left over, a
  request for space may never be answered and the mutex never be given back, so nothing can
  be promised even where no assertion fails. The properties promise nothing then either.
* *debug*: tasks in a call, and the transmit interrupt. Nobody has to call.
* *colors*: commands may come for ever; the loop goes on (weak) and the wait for the buffer
  succeeds again and again (strong), which follows from `ImplementsFairHandoff` of the cycle.

## 5. Disagreements found

Checked as violations (`findings` in `PROJECT.json` quotes the lines):

1. `timed_overlap`: both USART jobs return STATUS_BUSY unseen when a frame is shown while the
   previous one is still transmitted; its content is then not sent. It takes a command just
   after a swap.
2. `debug_assert`: the packet interrupt aborts the wait for the debug mutex, the remote task
   prints without it and gives it back; `configASSERT( pxTCB == pxCurrentTCB )` fails and the
   controller stops. In `RemoteReceiver` this is `PrintFails`, and the reason why its liveness
   ends with the first such packet.
3. `kernel_place`: "An interrupt won't touch the xStateListItem because the scheduler is
   suspended" (tasks.c:2530) and "the queue that contains the event list is locked, preventing
   simultaneous access from interrupts" (tasks.c:2919). The radio interrupt calls
   `xTaskAbortDelay` (recv_remote_task.c:168), which does change the list that another task is
   about to link its item into. It takes a task in the few instructions between search and
   insertion when a packet arrives.
4. `colors_index`: a change to a program with fewer colours in the middle of a transition reads
   behind the list of colours until the transition ends.

Seen in the models and not part of the runs; each can be repeated with the formula given:

* `_dbg_putstr` promises not to exceed the free space (dbg_print.c:257). With packets it does:
  `FitsInFreeSpace` under `Spec` with the constants of `MCDbgPrintAssert.cfg`.
* "rxBuffer to small" (LT89xx.c:254) refuses what does not fit, but the limit is one too high and
  the loop stores two bytes at a time: packets of 32 and 33 bytes write one byte behind the buffer
  of 32 (recv_remote_task.c:68): `position <= bufferSize` in `RemoteMemory`. `AtMostOneBehind` says
  that there is no more.
* "Task resumed from _RemoteDataAvailableCallback ISR" (recv_remote_task.c:84). A packet that is
  announced while the task is not blocked finds no wait to abort, and the task sleeps up to 5 s
  on it: `remPc = "delaying" => remoteDataAvailable = 0` in `RemoteReceiver`.
* "Render Task is called every ~33ms" (programs_task.c:120). Without commands the queue wait of
  10 ticks sets the pace, 50 ms: `wire # << >> => outClock <= 8` in `TimedCycle` with
  `commands = FALSE`, `slack = 0` in the regime.
* "multiple color rendering" (programs_task.c:169). The positions are spread once, for the first
  program, which has no offsets; all lamps may then show one colour for ever:
  `(<>[][~Command]_vars /\ <>[](Dynamic /\ ~currentPrg.simultan)) => <>(\E l, m \in Lamps : front[l] # front[m])`
  under `FairSpec` with the constants of `MCProgramRenderer.cfg`.
* "warm colors" (programm_presets.h:18). The lists are written with red in the highest byte, but
  the lowest is red (types.h:17), so that 0xff9966 is a light blue.

## 6. What is proved

All theorems hold for every value of the constants that satisfies the assumptions, which TLC
evaluates in the runs: `LampsAssumption` (the rendered lamps fit in the frame),
`FramesAssumption` (3 frame numbers or more), `SymbolsAssumption`, `PacketAssumption`,
`CapacityAssumption` (one block more than the queue holds), `TasksAssumption`,
`SizeAssumption` (room for a byte, strings not empty), `ParameterAssumption`,
`ProgramAssumption` (lists not empty; a program that is neither static nor the same for all
lamps has an offset for each lamp, as those of the code have), `TimingAssumption`,
`BufferAssumption` (an even size), `LayoutAssumption` (room for a block and the end marker),
`RoomAssumption` (section 3), `TaskAssumption` and `TickAssumption`.

* `RenderOutputCycle_proofs`: `TypeCorrect`, `BuffersNeverShared`, `TokenKept`,
  `PreviousFrameSeen`, `FramesStayInOrder`, `StopIsFinal`, `CycleImplementsHandoff`,
  `FramesLeaveInOrder`, `FramesLeaveWhole`. The inductive invariant `CycleInv` has three parts.
  `TokenInv`: the token is in one place, and past its wait the output task runs only while
  RUNNING is set, without which a stop in the middle of a frame could lose the token. `TypeInv`:
  while the data-register-empty interrupt is enabled there is something to send and the pointer
  is inside its buffer; the types of the driver are not inductive without it. `FrameInv`: what
  each buffer holds for each place of the token. For what leaves the pin, `WireInv` is inductive
  with it: `JobInFlight` says for each place of the output task which job the driver has and how
  far it is, `Pipeline` that the wire, the shift register and the data register hold, one behind
  the other, what the driver has handed out, and that these are the first characters of start
  code and front buffer.
* `TimedCycle_proofs`: `TimedCycleIsACycle`, so that all of the above holds with clocks; and
  for every hold-up that is allowed, `CycleStaysRunning`, `OutputGoesOn`, `FramesNotCut`,
  `StopAfterSilence`. `TimedInv` is about `CycleInv`'s places and how long the tasks can be there.
  `SilenceInv`: the wait for FINISHED lies within the time since the last swap. `OnTimeInv`: with
  hold-ups of at most 4 ticks each place has a latest time, and no wait has timed out; the
  latest time of the output task depends on that of the renderer and the reverse, so the two
  bounds are one invariant. `TransmitterInv`: a frame is gone three ticks after its break.
  `PeriodInv`: without commands and with hold-ups of a tick, either the timer or the queue wait is
  still far enough away, or the swap is already four ticks old.
* `RemoteReceiver_proofs`: `TypeCorrect`, `FailedReadsHarmless`, `LogTruthful`,
  `CommandsHaveOneOwner`, `RoomIsThere`, `CommandsImplement`. `FreshInv` adds to the property
  that the message in the buffer, unless it was read a moment ago, has the counter that was judged
  last: that is what makes a message left behind harmless. `LogInv` begins before the property,
  when the command is built. `OwnInv` adds to `OneOwner` that the queue keeps the place that was
  seen free, and that a command is built only from a key that has one.
* `DbgPrint_proofs`, for `QuietSpec`: `TypeCorrect`, `HolderHasMutex`, `StringsFit`,
  `WaitsAreAnswered`, `NoPriorityInversion`, `RefinesByteStream`. `DbgInv` says for each place
  of the holder what request, semaphore and interrupt are (`PutInv`) and that a free mutex means
  no request; `InheritInv` that every waiting task has a task of at least its priority that
  holds the mutex or was woken for it; `StreamInv` that an incomplete string is the holder's.
* `ProgramRenderer_proofs`: `TypeCorrect`, `FramesBetweenColors`, `LampsAreSmooth`. `ProgramInv`
  adds the offsets of the program; `ContinuesInv` says that as long as no command came, the frame
  rendered last is the one the program makes of the transitions one step before. Under it are
  lemmas about the division and the cut to a byte (`MixedBetween`, `MixedSmooth`).

* `KernelWaits_proofs`: `WellStructured`, `WakeupsNeverLost`, `SwitchedListAlwaysEmpty`,
  `NeverTooLate`, `NeverTooEarly`, `OnlyAbortsDisturb`, for any number of tasks and any width of
  the counters. All but the last hold until an item goes astray. `OnlyAbortsDisturb` says when that
  cannot happen: if no task's delay is aborted by the radio interrupt (`Abortable = {}`), no other
  interrupt changes a list between search and insertion, and the other theorems hold without
  condition. `Structure` is the invariant the rest is built on: one task has
  the
  scheduler suspended, waiting tasks are in the lists they should be in with the right values, a
  locked queue is locked by a task in a receive, and the pending list is empty unless the
  scheduler is suspended. `NoLostWakeup` is inductive with it: each step changes messages,
  receivers on their way and the count of the lock together (lemmas on cardinalities). For the
  times, `Waiting` says of every task that its wake time is that of its call, in the list for
  that round (`Delayed`); that the time noted in the receive and the ticks since make up what is
  left (`Noted`); and that nothing that is over was over too early (`Over`).
* `RemoteMemory_proofs`: `ReadingStaysNear`, `MessagesAreOfOneReading`, for any even size of the
  buffer. `Rejected` is the strengthening: what is in the buffer between two readings would not
  be accepted (again), because it was judged then and the judgement of a message that fits looks
  at the buffer only (`OnlyTheBuffer`). `HeapStaysWellFormed`: `Sound` (see below) holds because
  nobody frees what is not theirs (`CommandsOwned`: the commands on their way are distinct
  allocated blocks). `MemoryIsEnough`, for every heap that satisfies `RoomAssumption`: `RoomInv`
  says that the free bytes and the bytes of the commands on their way are together more than what
  the start-up has still to take and 32 bytes for each place of the queue, that no command has
  more than 32, and that no block is smaller than the smallest worth making. So there is a free
  byte when there is space in the queue, and then a free block that is large enough, however the
  memory is divided. During the start-up there is one free block, from which all is cut.
* `PortHeap_proofs` (lemmas only), for every size of the heap: `prvHeapInit`, `pvPortMalloc` and
  `vPortFree` keep a heap `Sound`. That is: the blocks fill the memory (`Tiling`), the list
  visits exactly the free ones in the order of their addresses (`Sorted`), none beside another,
  and the count of free bytes is theirs (`Accounted`). In between, a block may be out of the list
  (`WellFormedBut`). The walks along the list and the sum of the sizes are recursive; that they
  have a value (`WalkExists`, `SumsExist`) and what it is (`WalkEnds`, `SumsAgree`, `SumsRemove`)
  is shown with the least place, or the smallest set of blocks, that would be an exception. No
  bytes are lost between blocks (`BytesOfTiling`), and a refusal means that no free block is
  large enough (`NoneFits`).

### Only model-checked

* Liveness under fairness (`ListensForever`, `PacketsAreRead`, `RemotePrints`,
  `EveryColorIsShown` and the fair halves of the abstract specifications): beyond the prover.

Every other property of a passing run is a theorem, for all values of the constants.

## 7. Limits

* A model's step is a statement or a short run of statements that no other task or interrupt
  can tell apart. Instructions below that are atomic.
* The stack and the chip's registers other than those named are not modelled.
* `KernelWaits`: which ready task runs is left open, and the ready lists have no order; one
  queue, whose senders do not wait. A semaphore is the same receive. The lists are sets with the
  values they are sorted by; which neighbour of the new item an aborted delay has removed is left
  open (`LinkAstray` and a link that goes well are both possible), and the model ends with the
  first item astray.
* The other modules take the kernel's lists to be intact, so what they say holds until an
  item goes astray (run `kernel_place`), the liveness properties above all.
* `RemoteReceiver`: the bytes of a packet are not modelled. A message of correct form that is
  shorter than its command, so that the rest comes from the previous one, appears as one more
  packet, and lengths of 0, 1, 32 and 33 are in `RadioRead` only. A debug message is one
  wait there, which may be aborted. After that the safety properties are still checked, for every
  continuation in which the messages end or the assertion fails; what two tasks in the ring
  buffer print is left to `DbgPrint`.
* `RemoteMemory`: what the program does with a null pointer is not modelled, nor what is damaged
  behind the buffer besides the length. Sizes of structures are those of the compiler's usual
  layout on this chip.
* `DbgPrint`: the conversion of a request to `uint8_t` (dbg_print.c:219) is left out: it is one
  of at most the size of the buffer, and no caller has a string of 256 bytes or more. The write
  of a byte, with its index, is one step. Empty strings are excluded: no caller prints one. The
  theorems are about runs without packets; with packets they do not hold, as section 5 says.
* `ProgramRenderer`: `Smooth` and `BetweenColors` say nothing of a lamp whose index is beyond
  the list. `brightness` is never read by the code.
* Not modelled: the status LED, `printf`, SPI and pins, the receive half of the USART, the
  general timer, and the drivers that are configured once or never called.

## 8. Plan

Written in this order: the cycle with its transmitter and abstract specification; its clocks;
the way of a command; the debug output; the colours; the waits of the kernel; the memory of the
way of a command. Next:

1. `KernelWaits` with priorities and more than one queue, the event group with any number of
   waiting tasks, and the steps used in the other modules shown to be what these implement.
2. The debug output after an aborted wait: which properties survive a packet, and under which
   repair all of them do.
3. Proofs: `FitsInFreeSpace` and the others under the repair of 2; the liveness of the cycle
   as bounds on its clocks, which are safety properties and within reach of the prover.
