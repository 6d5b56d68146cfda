# BlueSaab in TLA+

BlueSaab is firmware for an STM32F103 that sits on the instrument bus (I-Bus, CAN
at 47.6 kbit/s) of a Saab 9-3 or 9-5. It plays the CD changer the head unit (IHU)
expects, writes track data on the information display (SID), and drives an RN52
Bluetooth module over a serial line. It is some 3,900 lines of C and C++ on mbed
and the RTX kernel: about ten threads, all of one priority but the log's, which is lower
(`main.cpp:38`), two interrupt handlers
that do real work (CAN receive, GPIO2), a ticker, two hardware queues and a dozen
kernel ones, and timing rules the other nodes of the bus hold it to.

What goes wrong in such a program goes wrong in an order of steps nobody tried.
These modules are about that: what each component does step by step, what the
others and the interrupts may do in between, and what must hold all the same.
Contents:

1. [The system](#the-system): components, state, operations, interactions
2. [The modules](#the-modules): how each corresponds to the code
3. [The runs](#the-runs): what TLC checks, with which bounds
4. [Fairness](#fairness)
5. [The proofs](#the-proofs)
6. [Where code and comments disagree](#where-code-and-comments-disagree)
7. [Assumptions](#assumptions), [not modelled](#not-modelled), [plan](#plan)

To check everything: `tlc -config X.cfg M` for each row of [the runs](#the-runs), and
`tlapm M.tla` for `RtxLemmas` and the seven modules `...Proofs`.

## The system

| Component | Source | State it keeps | Operations | Hard part |
|---|---|---|---|---|
| RN52 command queue | `common/RN52.cpp`, `.h` | RTX mailbox of 20 pointers, the counter `queued` | `queueCommand`, `adjustQueued`; `get` in `run` | posted to from threads and nested handlers; a handler's post is deferred by the kernel, which stops the unit when the mailbox is full by then |
| RN52 driver, serial receive | `common/RN52.cpp`, `common/SerialRX.cpp` | `a2dpConnected`, the session it is in, lines gathered, 4 receive boxes | `run`, `initialize`, `reboot`, `onGPIO2`, `parseQResponse`, `onRX` | a module that answers in its own time, boots, and reports changes by a pulse that may be missed |
| CAN transmit | `SaabCan.cpp`, `common/can_api.c` | mail pool of 16, mail queue of 16, 3 hardware mailboxes, counters | `sendCanFrame`, `sendFunc`, `can_write` | callers are threads and the receive handler; ignored results; retries on a stalled bus |
| Node status | `CDCStatus.cpp` | signals, `lastFrameSent` | `onIhuStatusFrame`, `NodeStatusSender::run` | polls at any time against a sequence of 420 ms; spacing across the seam |
| CDC status and commands | `CDCStatus.cpp` | `cdcActive`, signals | `onCDCControlFrame`, the status loop | a command at any point of a loop with two waits |
| SID requests | `SidResource.cpp` | wanted, breakthrough flag, three signals, `lastRequest`, `lastTextSend` | `run`, `activate`, `deactivate`, `onRx...`, the buttons' `requestDriverBreakthrough` | two nested wait loops, signals that cut waits short, flags read and cleared |
| SID texts, scroller | `SidResource.cpp`, `Scroller.cpp`, `.h` | temporary text and its grants, event mark, scrolled text, position, semaphore | `showTemporary`, `writeGrantedText`, `set_info`, `clear`, `get` | three contexts; masking of interrupts on one side and a semaphore on the other |
| SID text groups | `SidResource.cpp`, `MessageSender.cpp` | `sidMessageGroup`, unlocked | fill, signal, `MessageSender::run` | one thread writes the buffer another is sending from; only pacing keeps them apart |
| Spacing on the bus | `MessageSender.cpp` and the transmit path | | | spacing is made before a queue shared with other threads |
| Kernel objects | `mbed-rtos` | mailboxes, pools, delay list, the request FIFO `os_psq` of 16 | | what a post from a handler does, when, and how it fails |
| CAN receive, attach | `SaabCan.cpp` | callback table of 10 | `initialize`, `attach`, `onRx` | table filled, in two stores per entry, while interrupts read it |
| CAN set-up, receive FIFO | `common/can_api.c` | mode and timing registers, FIFO of 3, `can_rx_overruns` | `can_init_freq`, `can_frequency`, `can_mode`, `can_speed`, `can_read` | handshakes with timeouts on a bus that may be stuck; overrun |
| Buttons, console | `Buttons.cpp`, `Bluetooth.cpp` | none of note | `decode`, `onFrame`, `handleDebugChar` | several posts of one frame into one small FIFO |
| Text conversion | `utf_convert.cpp` | none | UTF-8 or Latin-1 to the SID's letters | invalid and cut-off sequences, the buffer's end |
| Serial log | `SerialLog.cpp` | mail queue | `log` from anywhere | shares the request FIFO |
| Start-up, clock, HAL, host tests | | | | see [Not modelled](#not-modelled) |

**Interactions.** CAN frames arrive in the receive interrupt, which calls the
attached handlers. `onIhuStatusFrame` and `onCDCControlFrame` signal the
node-status and CDC-status threads; the latter also switches the SID resource on
and off, queues Bluetooth commands and sends a beep. `SidResource`'s handlers
signal its thread. The RN52 thread fetches commands, talks to the module, and
with its answers sets the scroller and the temporary texts. All threads and the
beep send through `sendCanFrame`. A handler reaches any queue through the one
request FIFO of the kernel, which PendSV empties after the last handler.

**What makes each part correct**, in a sentence each:
the command queue is a FIFO channel that never stops the unit and loses nothing it
accepted; the driver sends each command once, in order, in command mode, and knows
whether a phone is connected; the transmit path loses no block and keeps order;
every poll is answered whole and in pace; every command is reported soon and the
status never stays stale; requests keep their spacing and their schedule; texts on
the display are whole; the controller is never on the bus at a wrong rate unnoticed and
never off it for good; each handler gets its frames once, in order, and losses show.

## The modules

```
BoundedChannel          a FIFO channel of at most Bound values    (abstract)
  ^ implemented by
RN52Queue ............. MCRN52Queue, RN52QueueProofs      HandlerPosts: its scripts
SaabCanTx ............. MCSaabCanTx, SaabCanTxProofs
  used as a channel by
RN52Driver ............ RN52DriverProofs
BusSpacing ............ CanControllerProofs

CanController ......... MCCanController, CanControllerProofs
SidText ............... MCSidText, SidResourceProofs      UtfConvert: its letters

RtxTime ...............                                   units and ticks
  ^ extended by (besides BusSpacing)
TextGroup ............. TextGroupProofs
RtxThread .............                                   a thread's clocks
  ^ extended by
CdcStatus ............. MCCdcStatus, CdcStatusProofs      RtxLists: the scheduler's lists
NodeStatus ............ CdcStatusProofs
SidResource ........... SidResourceProofs

RtxLemmas                                                 sequences, ticks, products
```

The composition is by contract. `RN52Queue` and `SaabCanTx` are each shown to
implement `BoundedChannel`; `RN52Driver` and `BusSpacing` take their queue to be
such a channel, so that their own state stays small. `SidResource` (when a text is
written), `SidText` (which) and `TextGroup` (how it gets out) cut the SID thread
along `writeGrantedText`. What a handler posts is stated once, in `HandlerPosts`, and
`RN52Queue`'s handlers post it. What the timed modules take from the kernel (a wait is
a count of ticks, a ready thread gets its turn) is stated of the kernel's lists in
`RtxLists`.

A proof module may hold the theorems of two modules: those of `NodeStatus` are with
`CdcStatus`'s, those of `SidText` with `SidResource`'s, those of `BusSpacing` with
`CanController`'s. The names of the second (`NodeSpec`, `TextNext`, `BusInit`) say whose they
are.

**RN52Queue.** `queued`, `rtosQueue` and `psq` are the driver's count, the kernel's
mailbox and its request FIFO; `posting` the callers of `queueCommand` between their
successful `adjustQueued(1)` and their `put`. `active` is the stack of running
handlers, a handler of higher priority preempting one of lower. `Reserve` is
`adjustQueued(1)` with its check, which masks interrupts and is one step; `Put` is
`put`, which from a thread changes the mailbox and from a handler enters `psq` - or
stops the unit (`halted`) when the FIFO is full. `PendSV`, possible only with no
handler active and before any thread goes on, moves one request, and stops the unit on a full mailbox. `Get`,
`CountDown`, `Processed` and `GetTimeout` are the thread in `run`: it takes a
message, then counts it down, and is busy with it for as long as it takes.
`psqOther` and the "other" posts of `Script` stand for the signals and log entries
that handlers also post and that fill the same FIFO. The scripts of the CAN handler are
all that `HandlerPosts` finds in the code for any frame: `Decode` is `Buttons::decode`,
`OnButton` and `OnControl` the two handlers a control frame goes to, with the posts of
every call they make, in order; `OnRx` the others.

**SaabCanTx.** `free` is the pool's list, `box` what each caller holds; a call is
`Alloc` (or a dropped frame), `Fill`, `Put`. The handler's calls interrupt the
threads' at each of these points. `sendFunc` is `Get`, `Write` (into a mailbox, or
not), `Wake` after the millisecond, `Free`; `Transmit` is the controller, first in
first out (TXFP). `stall` counts how many retries in a row the bus has refused, and
`maxStall`, which never changes, is how many it promises at most - 0 for a bus that
promises nothing.

**CanController.** `pc` walks the main thread through the three calls that configure the
controller (`call`: the constructor's `can_init_freq`, `can_frequency` in
`SaabCan::initialize`, `can_mode`), each a request for initialization mode, a wait
that ends with `Entered` or, when the bus was stuck (`slow`), with the timeout
`Withdraw`; then `AttachIrq` and the handlers one by one. `attach` stores an entry's id
and Callback in either order, as a compiler may (`half`). `FollowRequest` is the
hardware entering and leaving the mode (leaving only on a well bus), `Arrive` a frame
from the bus: into the FIFO, or over its last place. `onRx` is `EnterIsr`,
`CheckOverrun`, `ReadFrame`, `ReleaseFifo`, `Dispatch`, between any two steps of the
main thread, with frames arriving between any two of its own. The release's
read-modify-write of `RF0R`, which clears an overrun flag set since the check, is as in
the code. `CanSpeed` is `can_speed` with its search. `since`, `before`, `missed` and
`handled` record what happened, for the properties.

**RN52Driver.** `at` walks `RN52::run`: pin low, `CMD` awaited, the session with its
`gather` and `answer`, the `get` with its 500 ms, pin high, `END` awaited. Each
`waitForLine` has a step for the line and one for the timeout. `main` walks
`initialize`. `mail` is the mail of `SerialRX`, `rx` the line into the unit, `wire`
the line out of it together with the edges of the command pin, which the module
obeys in order. The module is external: `mode`, `connected`, `pulse`.

**BusSpacing.** One `MessageSender` among other callers of `sendCanFrame`, on the way from
their calls to the wire: `queue`, the frame `sendFunc` has (`message`, with its `tries` and the
wait before the next), the mailboxes (`hw`), the frame on the bus. `SendFirst` and `SendNext`
put a frame at any unit of a tick and `wait(interval)` sets `sdelay`, so that the wait may be
short by all but a unit of a tick (`ShortWait`); nothing hurries the sender, which may be as late
as it likes. `Get` and `Write` are the send thread, which may be late by `MaxLag` each time it is
ready, and retries and gives up as the code does; `Begin` and `Done` are the controller and the
bus, a frame taking between `ShortFrame` and `LongFrame` units, which stuffed bits make of it, and
other nodes coming first for up to `MaxBusy`.

**NodeStatus, CdcStatus, SidResource, TextGroup, BusSpacing** are timed. `RtxTime`
steps time by a unit, `Grain` of which make a kernel tick. RTX counts ticks, not
time, so that a wait of n may be short by up to a tick: `delay` goes down only where
`phase` wraps. A thread that is ready must run within `MaxLag` units. Clocks read
with `us_ticker_read()` are kept in their width (`Wrap`), so that their wrap-around
is among the behaviours. `RtxThread` has what three of them share: the thread's place, the
clocks of its wait, its lateness and its last frame. The rest is `at`, one value per place the thread can stand
or be interrupted, and signals as sets: setting one twice is setting it once.

**RtxLists** has the ready list (by priority, then age), the delay list (each entry
only the ticks after the one before), the tick, blocking with a timeout, release and
the round robin, as operators on a record of the running task and the lists.

**UtfConvert** is `utf_convert`'s loop as a recursive function of position and room; the
tables are a constant. `SidText` calls it where `Scroller::set_info` and `get` do.

**SidText.** The snapshot that `writeGrantedText` takes of the temporary text is
three steps (two halves and the count) under `masked`; `showTemporary` writes the
halves one at a time as well. The scroller's `set_info`, `clear` and `get` are under
`info_lock`. `StringBuffer`'s arithmetic (`to_cut`, `text_len`, `position`) is kept
character for character, since the properties are about it. What the driver should
see is kept beside it (`left`, `last`, `expected`), computed without that arithmetic.

## The runs

| Run | Module, cfg | Distinct states | Shows |
|---|---|---|---|
| rn52_queue | MCRN52Queue | 33 k | count exact, mailbox and request FIFO never overflow, FIFO channel, each accepted command fetched |
| saabcan_tx | MCSaabCanTx | 280 k | no block lost or doubled, the ignored `put` cannot fail, order, no frame given up in a short stall, FIFO channel, blocks come back on a dead bus |
| can_controller | MCCanController | 336 k | never active at a wrong rate unnoticed, on the bus in the end, frames handled once and in order during and after `attach`, losses counted |
| rn52_driver | RN52Driver | 633 k | commands sent once, in order, in command mode; the connection known |
| rn52_driver_reboot | RN52Driver, `...Reboot` | - | counterexample, see below |
| node_status | NodeStatus | 2.8 M | each poll answered in time by a whole sequence; pace; spacing |
| cdc_status | MCCdcStatus | 4.5 k | base time, hold, each command reported, no status stays stale; the kernel's lists |
| sid_resource | SidResource | 3.1 M | request spacing and schedule, breakthroughs served, texts end |
| sid_text | MCSidText | 107 k | temporary texts whole and counted, one event mark, the scroller's window; every grant leads to a text; `utf_convert` |
| text_group | TextGroup | 21 k | no torn group, spacing across the seam |
| bus_spacing | BusSpacing | 227 k | spacing on the bus is the sender's shortest wait less what the first frame was held up |
| bus_spacing_rule | BusSpacing, `...Rule` | - | counterexample, see below |

**Assumptions that TLC evaluates.** Pure functions are checked as ASSUMEs of the MC modules,
over all inputs of a bounded size:

- `MCRN52Queue`: `BurstFits`, one activation of each interrupt source, the longest control
  frame and the console's longest answer among them, fits the kernel's FIFO of 16 (and
  two such frames would not, see [below](#where-code-and-comments-disagree)); `OneMeaning`, no control
  frame is both a button and a switch.
- `MCCanController`: `SpeedExact`, what `can_speed` finds for the usual bit rates is exact
  to the width of a bit and samples between 2/3 and 5/6 of it, and the I-Bus has one.
- `MCCdcStatus`: `DelaysCountDown`, the delay list is a set of independent countdowns
  whoever enters or leaves it; `ReadyThreadsTakeTurns`, a ready thread runs within a
  round robin's time for each thread before it; `TimeoutsEnd`, a wait ends by release or
  timeout, and once.
- `MCSidText`: `ConvertsCharacters`, `utf_convert` against a reference that converts
  character by character; `DropsCutCharacter`, a character cut off after its second byte or
  later shows nothing; `KeepsAscii`, whatever bytes come, ASCII is neither swallowed nor made up
  and the buffer is kept.

**Bounds, and why they are enough.**

- *rn52_queue*: `Limit` 3 and `Capacity` 4 for 18 and 20; two handlers, one of which
  preempts the other, and two threads. Five commands (two from the CAN handler, one from each
  other poster) against three places, so that the limit is reached, refused, and
  reached again; a refused command is not counted against `MaxPosts`. `FifoSize` is the largest
  burst of the scripts, 6, with nothing to spare. The environment's bound
  is `raised`: a source interrupts at most once until PendSV has emptied the FIFO. At
  47.6 kbit/s frames are over a millisecond apart and PendSV takes microseconds;
  without this bound no size of the FIFO is enough.
- *saabcan_tx*: two blocks and two mailboxes against two threads and the handler, with five
  calls in all: the pool runs empty, the queue fills, the mailboxes fill, blocks are used
  again. The queue has as many slots as the pool has blocks, as in the code. `Stalls`
  has both buses, one that frees a mailbox in time and one that need never do so.
- *can_controller*: a table of two with three handlers, two of one ID, so that it fills and
  one is turned away; a FIFO of two, three frames (a data frame of that ID, a remote
  frame, one of ID 0), so that it overruns before, while and after one is read; the bus is
  stuck twice, at any time. The bit rates are the real ones.
- *rn52_driver*: two changes of the connection, one button, one reboot, one garbled
  answer, in any order. One of each is what a scenario takes (a change while booting,
  while a Q is answered, while one garbled answer is repeated), two changes make the
  state come back to an old value. `Limit` 3 is reached. `RxBoxes` counts one box less
  in `mail`: the box being read.
- The inputs of these three are bounded, so the system may come to rest and
  `CHECK_DEADLOCK` is off.
- *timed runs*: the proportions of the constants are the code's, their size is not:
  a guard shorter than an interval, a hold shorter than the base time, a wrap longer
  than both that is still reached. `Grain` 2 gives calls off the tick. `MaxLag` is
  not 0, so that a wait is long as well as short. TextGroup keeps 4 : 14 for 10 : 35.
  `Period`, `ReportTime`, `RequestTime` and `BreakthroughTime` are tight: with one unit less TLC
  finds a run. `AnswerTime` and `OffTime` are upper bounds that are not reached.
- *sid_text*: a window of three; songs that fill it exactly, exceed it, lack an
  artist, are empty, or are longer than their buffer of five; characters of two and three bytes and
  of Latin-1; titles cut off in a dash of three bytes and in a note of four, one that fits and one
  that scrolls. Texts shown once and twice.
- *bus_spacing*: half a tick a unit, frames of 1.5 to 2 ticks, an interval of 9, two mailboxes
  (they fill), two retries (they are used up, and a frame is given up),
  two frames of others under way, a unit of other nodes before each frame, a send thread late
  by a unit. The bound is 5 units of 18 there and tight: with 6 TLC finds a run.

Of the type invariants only RN52Queue's is checked by a run, where it says something of the
counter's width; the types of the other modules are part of their inductive invariants.

Each property has been seen to fail on a plausible mistake in the code (a dropped
reset, a missing mask, a limit off by one, a swapped order); PROJECT.json lists one
for each, as a changed definition.

## Fairness

- **Handlers** (WF): once entered a handler runs to its end, being preempted only by
  handlers, which end as well. That a handler is *entered* is never assumed.
- **PendSV**: taken when no handler is active. In RN52Queue weak fairness is enough: each
  source can interrupt it only once while the FIFO holds anything (`raised`), so that it
  stays enabled in the end. SaabCanTx has it strong: pended, it is taken whenever the
  last handler has returned, however many come before.
- **Threads** (SF): those of the models have the same priority, osPriorityNormal (the log's alone is
  lower, and has no fairness assumed), and RTX switches round robin (`OS_ROBIN`), so that a thread which is ready again and again runs: `ReadyThreadsTakeTurns`
  says it of the kernel's lists. Interrupts, or a semaphore another holds,
  disable a thread's step for a while, hence strong. In `RN52Driver` there are no
  such interruptions and weak does. In `SaabCanTx` the fairness is of a thread's steps
  together: it is at one of them at a time.
- **The controller's hardware**: `FollowRequest` (SF) enters or leaves initialization mode
  as asked, though the bus may be stuck for a while, again and again; a mailbox is freed
  (WF) only on a bus that promises it (`maxStall`). In `CanController` the receive handler runs on (WF) and the
  main thread is interrupted but comes on (SF).
- **The module** (WF): obeys, answers and boots. Needed for `EveryCommandSent` and
  `ConnectionNoticed` only.
- **The text threads** (SF): in `SidText` the SID thread (`Writes`) and the RN52 thread (`Shows`,
  `Sets`) come on, though each may be at the semaphore the other holds, or stopped by masked
  interrupts, again and again.
- **Nothing is assumed** of the bus, of the IHU, of a phone or of the driver's hands.
- The timed modules need no fairness: their deadlines are invariants over `age` and
  `gap`, and time cannot pass a thread that is late by `MaxLag`.

## The proofs

TLC checks one instance; the theorems hold for every value of the constants, under the named
assumptions of each module (sizes in the code's order, disjoint sets, no name twice). Each
proof is one invariant that is inductive, checked by TLC first, with one lemma per action
for what it keeps.

### RN52QueueProofs

For every set of handlers and threads, every priority assignment and scripts, and every
size, from `PostersAssumption` (finite, disjoint sets; the RN52 thread is one of the
threads) and `SizesAssumption` (`Limit <= Capacity`; 18 and 20 in the code). The rest of
the sizes are arbitrary, that of the request FIFO included. Of the environment they take
what `Enter` says: preemption by priority, and that no handler is entered again while it
is on the stack (`raised`, whose elements every active handler is among).

| Theorem | Statement |
|---|---|
| `InvariantHolds` | `Safe => []IInv` |
| `TypeCorrect` | `Safe => []TypeOK` |
| `CountExact` | `queued` is what is in hand, in mailbox, in FIFO and reserved |
| `MailboxSafe` | the kernel never meets a full mailbox in PendSV |
| `FifoSafe` | the request FIFO never overflows, for any `most` posts a handler makes that fit it together (`BurstsFit(most)`) |
| `PutNeverFails` | a holder of a reservation finds room: the branch of `queueCommand` that drops a command after counting it is dead |
| `QueueIsChannel` | `Safe => ImplementsChannel`: every step is one of `BoundedChannel`, or none |

*The argument.* That the mailbox never overflows is not inductive: whether PendSV's
move fits depends on how many requests are behind it, and those were let in by a
counter. `CountInv` ties the counter to the places a command can be, and bounds it by
`Limit`: each term is at most `Limit` minus the others, so what is in the FIFO always
fits what is free in the mailbox. To carry `CountInv` over a step one must know that a
reservation is given up exactly once: `HandlersInv` says that a handler with a
reservation is on the stack, with the command it reserved for next in its script (so
that leaving, or posting something else, cannot lose it), and `WaitingInv` that a
thread waits only on an empty mailbox (so that delivering to the waiter overtakes
nothing). `IInv` is `TypeOK /\ HandlersInv /\ WaitingInv /\ CountInv`.

`QueueIsChannel` maps the channel to `evt \o rtosQueue \o psq`: fetched and not counted
down, then mailbox, then requests. With `IInv` each action appends to it (`Put`, from
a thread only with an empty `psq`, since PendSV precedes any thread), removes
its head (`CountDown`), or leaves it alone (`PopRequest` and `Get` move the seam).
`RtxLemmas` has the facts about sequences this and the others need: concatenation,
sequences without repetition, how often a value is in one.

*The request FIFO.* How many posts a handler has left depends on its script, and which
handlers fired since PendSV last emptied the FIFO on the order of everything. `FifoInv` keeps
a slot for each post that may still come before the FIFO is empty: what a handler that fired
has left of its script, the longest script of one that did not (`Pending`); these slots
and the requests in the FIFO are together no more than it has. A post
takes one of its own handler's slots, and a handler may fire again only when the FIFO is
empty, when all slots are there anew. The theorem's hypothesis is that the longest scripts
fit together; that they do for `MCRN52Queue`'s scripts, taken from the code,
is its ASSUME `LongestBurstsFit`, and for all the sources of the unit and a FIFO of 16 `BurstFits`.

### SaabCanTxProofs

For every finite set of threads, pool, number of mailboxes and retries, and bus (`Stalls`).

| Theorem | Statement |
|---|---|
| `TypeCorrect` | `Spec => []TypeOK` |
| `NoBoxLostOrShared` | each block is in exactly one place |
| `PutFindsRoom` | the `put` whose result `sendCanFrame` ignores cannot fail, nor PendSV meet a full queue |
| `RetriesBridgeStalls` | a stall shorter than the retries costs no frame |
| `OrderIsKept` | a caller's frames reach the bus in the order of its calls |
| `PathIsChannel` | the path from `put` to `free` is a `BoundedChannel` of the pool's size |

*The argument.* `PlacesInv` says that pool, callers and the way to the controller have no
block twice and none in common, and all blocks between them. A sequence without
repetition is no longer than the set it is drawn from (`DistinctLength`): whoever holds a block finds
room, in a queue as long as the pool is large. `HoldInv` ties the block to the place its caller is
at. `StallInv` compares the driver's count of tries with the bus's count of refusals; a
refusal is counted between two tries, so that in the sleep the first may be ahead by one.
`OrderInv` reads the frames under way as one line, mailboxes first, and says
that each caller's are numbered upwards in it, above what has been sent and up to
what that caller has put.

### RN52DriverProofs

For every number of lines, boxes and places in the queue, and however often phones come and
go, buttons are pressed, answers are garbled and the module is rebooted.

| Theorem | Statement |
|---|---|
| `DriverInvariance` | `Spec => []DriverInv`, the types among it |
| `NothingStrays` | no command goes down the data channel |
| `StateFollows` | with no news under way or lost, the driver's idea of the connection is the module's |
| `SendsInOrder` | commands go out once each, in the order they were asked for |

*The argument.* Each of the two ends knows the other only through what is on the line, so the
invariant says what that can be at each place the thread is at (`LineInv`): one
command or one line at most, and the one awaited, but for a response that is gathered, of which
the lines received and on their way are counted together. With it `ModeInv` says that the module
is in command mode whenever the thread takes it to be, or has gone down since, and `FollowInv`
that of four things one holds: a pulse is not yet seen, a Q with no reboot behind it is still to be
sent (`Fresh`), the Q in hand will be answered truly or by something garbled, which asks
again, or the driver has it right already. A reboot under way counts as the last: what it makes
of the module, `reboot()` has already written down.

### CanControllerProofs

For every number of handlers, table, FIFO of at least two places, timing and kind of frames.

| Theorem | Statement |
|---|---|
| `SilentUnlessLogged` | at a wrong rate the controller is silent, or the log says that setting the rate failed |
| `FramesHandledOnceInOrder` | a handler is called for its ID's frames only, each once, in order, and for none from before the first `attach` |
| `LossesShow` | a frame that came after its handler was attached and is not handled is still in the unit, or was overwritten, and that is counted unless it was during the reading of another |

*The argument.* `SilenceInv` follows the three calls over the places where the controller is
held in initialization mode. `RxInv` says what the table, the FIFO and the frame in hand are
at each place of the handler: entries whole but for the one `attach` is at; frames
numbered upwards; the frame in hand older than what is behind it; what was handled older still.
`LossInv` adds where each frame of an attached handler is (`TraceInv`), that the frame in hand is
the one the release will remove (`HeadInv`; a FIFO of one would
overwrite it, hence at least two) and that an overrun's flag stands until the next check
(`CountInv`).

**BusSpacing**, for every interval, `Grain`, length of frames, lateness of the send thread, number of
mailboxes, retries and frames of others, from `BusSpacingAssumption` and `MailboxesOutlastRetry`:

| Theorem | Statement |
|---|---|
| `SpacedOnBus` | two frames of a sender are on the bus no closer than its shortest wait, less what the first was held up |

*The argument.* `Path` is the way to the bus as one line: mailboxes, the frame the send thread
has, queue. A frame i places from the wire is on it within i frame times (`FrameTime`, other nodes
included) and what the bus may still stand idle for it, which is `Late` if it is not in a
mailbox yet. `DelayInv` says of each frame of the sender that this is soon
enough: the time since it was put and what its place still costs are together no more than
`Longest` and one lateness, the most a frame can be held up. Hence it has ended before the sender's
wait is over (`WaitInv`: no frame of a group follows within less than `ShortWait`), there
is one of them at a time, and what the first was late is all the second can gain. That one
lateness is enough, though the send thread may be late for every frame, is what `PathInv` and `Late`
are for. A send thread that is late costs the bus nothing until the mailboxes have run empty (`Mailed`
is the least they still take), and the time it has been ready is not spent twice. A retry begins with full mailboxes, which outlast the
millisecond and the lateness after it (`Mailed >= ToGo(1, phase) + MaxLag`). Where the delays
leave no room for a frame within the wait the bound is the trivial one, that frames do not overlap
(`GapInv`).

### CdcStatusProofs, SidResourceProofs, TextGroupProofs

The timed modules, for every interval, `Grain` and `MaxLag` within the assumptions: `Hold < Base`;
`Guard <= Interval` and a clock longer than the guard; `0 < Pace < Spacing < Base` and one period of the clock longer than the longest time
between two requests; `PaceCoversGroup`.

| Theorem | Statement |
|---|---|
| `BaseTimeKept`, `BusNotFlooded` | a status frame at least every base time, and no two closer than the hold |
| `CommandsReported`, `NoStatusStaysStale` | each command is in a frame within `ReportTime`; a frame that is not up to date is followed by one that is |
| `NodeInvariance` | the invariant of the node-status thread |
| `FramesApart`, `AnswersPaced` | 0x6A2 frames are at least the guard less a tick apart, also across the seam; within a sequence at most the interval and the lateness |
| `PollsAnswered` | each poll is answered by a sequence of its kind within `AnswerTime` |
| `SpacingHolds` | requests are at least the spacing apart |
| `RequestsRepeat` | a request at least every `RequestTime` while the display is wanted |
| `ActionsServed` | a driver's action is in a request within `BreakthroughTime` |
| `TextsEnd` | no text is written later than `OffTime` after `deactivate` |
| `BufferIsSafe` | no group goes out with frames of two texts |
| `FramesAreSpaced` | frames of the ID are spaced, across groups too |
| `SenderIsIdleWhenSignalled` | no signal to the `MessageSender` is merged with the one before |
| `TemporaryTextExact` | the temporary text last asked for is there, whole, for its grants less those it was shown for |
| `FirstTextIsEvent` | the first text after an activation is an event write, and no other |
| `OneSongShown` | what is shown is cut from one whole song, a character further each time, if `TextsConverted` |
| `TypeCorrect`, `NodeTypeCorrect` | type correctness of the timed modules |

*The argument.* `RtxLemmas` has the two measures of a wait of n ticks of which d are
left at a place in the tick: `Elapsed`, more than which a tick later has
passed, and `ToGo`, the units it still takes; a unit of time raises the one and lowers the
other by one, also where the tick wraps. Every invariant bounds each clock of the
properties by these at each place the thread can stand. *CdcStatus*: how long ago the last frame was sent,
from below and above (`ShortInv`, `LongInv`), and where a command not reported is
(`NewsInv`). *SidResource*: `RepeatInv` bounds the time to the next request over all loops (`OnTime`), a wait
cut short by a grant and begun anew included; `ServedInv` says that an action not
yet served is a signal pending or in hand whenever the thread is in the base loop, and either
the thread is on time for the spacing or the action is no older than two texts; `OffInv` that a
grant which came before `deactivate` can be one pending behind one in
hand. *TextGroup*: `lastTextSend` is never older than the group it stamps can take (`PaceInv`,
`Behind`), so that when the pace is over the sender is idle and its last frame far enough back.

*NodeStatus* (in CdcStatusProofs): `NodeGaps` bounds how old the last frame is within each wait,
from both sides; `NodePlaces` says where a wait can be, `NodeOwed` that a poll not answered is pending,
fetched or being answered. `EachPollAnswered` needs a variant: `TimeLeft` counts what is left of
the sequence in hand, a whole sequence for each kind that may go out before the awaited one, and
its seam. No step of the thread raises it, each unit of time lowers it, a new poll finds it
within `AnswerTime`; `NodeAges` is `age + TimeLeft <= AnswerTime`.

*SidText* (in SidResourceProofs) has two invariants. `SnapshotInv` is about masked interrupts: who
has them masked is where in its critical section that thread is (`MaskInv`); outside
the RN52 thread's copying both halves of the temporary text are the last one asked for, and what the
SID thread took in its section is what is there (`TempInv`); the mark stands exactly while the
display was activated and no text begun (`EventInv`). `ScrollInv` is about the semaphore:
it is held exactly in `set_info`, `clear` and `get`, and never in two of them (`LockInv`);
between two calls of `set_info` text, length and position are a whole song's (`FilledInv`);
and what `StringBuffer` has taken at each step of `get` is that part of what should be seen
(`ReadInv`; `SeenWithin`, `SeenAround` for a window within the text and one around its
end, `AddWindow`, `AddWhole`, `AddAround` for what `add` makes of them). What
`utf_convert` makes of a text is recursive, so that `OneSongShown` has it as its hypothesis
`TextsConverted`: of each song's two texts, the letters it says, as many as fit. TLC evaluates it for the
run's songs (`SongsConverted`), and `ConvertsCharacters` is the same over all short texts.

Bounds are the sharpest the model has for `Period`, `ReportTime`, `RequestTime` and
`BreakthroughTime`.

### Only model-checked

All liveness (`EveryCommandFetched`, `BoxesComeBack`, `JoinsTheBus`, `EveryCommandSent`,
`ConnectionNoticed`, `TextWritten`): fairness and ENABLED are beyond the prover. What a recursive
function computes for every input (`Convert`, `CanSpeed`, the lists of the kernel) cannot be proved
either, the induction theorems of the library taking an operator: these are checked
over bounded inputs, by the ASSUMEs above. Every safety property and every action property of the
passing runs is a theorem.

## Where code and comments disagree

1. **A stale connection after a reboot** (rn52_driver_reboot). `reboot()` clears
   `a2dpConnected` (`common/RN52.cpp:358`), "don't leave a2dpConnected stale-true until the
   next GPIO2 pulse" (`:356`), and queues the reboot. A Q whose answer is still on its way
   sets it again, from before the reboot; then the module goes down and stays
   disconnected, and no Q follows until the next pulse.
2. **10 ms between frames of one ID** (bus_spacing_rule). `docs/IBUS_PROTOCOL.md:44` asks
   for it on the bus; `MessageSender` waits 10 ms between its calls of `sendCanFrame`
   (`MessageSender.cpp:31`). A frame of another thread in the queue ahead of the first
   delays it and not the second. bus_spacing says how far the gap can shrink: by the frames
   ahead, by other nodes, by one lateness of the send thread, and by the tick that the wait
   itself may be short.

Seen while modelling, and kept in the models as the code has it:

- Every wait may be up to a tick short (RTX counts ticks), so "10 ms" before the queue is more
  than 9; and a wait that a signal cuts short and that is begun again is rounded to ticks
  again, so that a schedule may be late by most of a tick (`RequestTime`, `BreakthroughTime`).
- `SaabCan::initialize` asks for normal mode also when setting the frequency has failed
  (`SaabCan.cpp`). On a bus that was stuck just then, the controller may become active at
  the constructor's placeholder of 1.2 Mbit/s, which silent mode is there to prevent
  (`common/can_api.c:88`); it is logged. `WrongRateStaysSilent` therefore says "silent, or logged".
- `can_read` clears the overrun flag (`common/can_api.c:301`), and releases the FIFO by a
  read-modify-write of the same register, which clears the flag again: an
  overrun between the two is lost without being counted. `LossesCounted` leaves out exactly these
  (`missed.reading`).
- A frame of ID 0 that is received while `attach` has stored an entry's Callback and not yet its
  ID is handed to that handler. `HandledOnceInOrder` has this one exception.
- `utf_convert` drops a two-byte character that is cut off after its first byte
  (`test/host_tests.cpp:154`, for `\xc6`); but a lone `\xc3` at the end is a letter of
  Latin-1 and shows as "A". Titles are cut by bytes before they are converted.
- Two of the longest control frames handled in one `onRx` (interrupts held off for longer than
  two frames take) and all other sources at once would need more than the 16 requests
  of the kernel's FIFO (`BurstFits`).

## Assumptions

- The RN52 module is *punctual*: its lines come before the driver's timeouts, and a boot
  is over within the driver's 5 s. A module that is late leaves an answer that is taken
  for that of the next command; the code has no defence, and a hazard records it.
- `SidText`'s separator is a text, not empty; `RN52Driver` reads at least one line.
- A response has at most `Lines` (40) lines. With a longer one TLC finds
  `StateFollowsModule` violated.
- `StateFollowsModule` and `ConnectionNoticed` exempt the time after a Q that was lost
  (`doubtful`: refused by a full queue, or sent as the module went down).
- A ready thread runs within `MaxLag`. In TextGroup `PaceCoversGroup` says what the 35 ms pace
  leaves for it: three frames, 10 ms and their lateness each, in 35 ms, so that the three are
  late by 5 ms together. It is an assumption of the theorems too.
- In BusSpacing other nodes hold up a frame of ours by at most `MaxBusy`: the bus is not overloaded.
  `MailboxesOutlastRetry`: when all mailboxes are found full, the frames behind the one on the bus
  take at least a tick and the send thread's lateness. Two frames take 4.7 ms at 47.6 kbit/s, so that it has over 3 ms. The first frame of a group comes no sooner
  after the last of the one before than `SpacingKept` of TextGroup says, a theorem there
  (`FramesAreSpaced`). A frame that the controller sends again after an error on the bus is left out.
- A thread's access to an aligned word is one step; a `memcpy`, a string or a pair of fields is
  not. Critical sections that mask interrupts are one step.
- The kernel is modelled from its sources where they are in the repository (`mbed-rtos`)
  and from the code's use of it otherwise; such definitions are marked external.

## Not modelled

- *Serial log*: a mail queue with one consumer, as the transmit path is; what it
  does to others, its entries in the request FIFO, is in RN52Queue's scripts.
- *Start-up*: a fixed sequence; its one hazard, commands accepted before the RN52
  thread runs, is in RN52Queue (the thread starts idle).
- *System clock*: register set-up without interaction.
- *mbed drivers, HAL, C++ wrappers of the kernel*: vendored headers over binary libraries; what the
  code uses of them is external to the models. They are most of the
  repository's lines.
- *The RTX kernel in part*: creation, deletion and priorities of tasks (all are created once and, but
  for the log's, with one priority; a thread of lower priority takes no time from them), mutexes,
  kernel timers, stacks.
- *`can_monitor`, `can_reset` and the test modes of `can_mode`*: nothing calls them.
- *Host tests*: of pure functions; read as documentation.
- In modelled parts: the wording of texts and logs, payload bytes no property
  distinguishes, counters shown on the console, framing errors of the UART.

## Plan

Done, in this order: `BoundedChannel`, `RN52Queue` and its proofs, `SaabCanTx`, `NodeStatus`,
`CdcStatus`, `TextGroup`, `BusSpacing`, `RN52Driver`, `SidResource`, `SidText`; then
`CanController`, `HandlerPosts`, `UtfConvert`, `RtxLists`, and the proofs of `SaabCanTx`,
`CanController`, `CdcStatus`, `SidResource` and `TextGroup`; then those of `RN52Driver`, `NodeStatus`,
`BusSpacing`, `SidText` and of the request FIFO.

Left:

1. `CdcStatus`'s handler composed with `SidResource` and `SidText`: activation and
   deactivation reach three threads, and each model has its own part of the handler.
2. The serial log as a module of its own, a second use of `SaabCanTx`'s structure.
3. `LongestBurstsFit` as a theorem: `HandlerPosts` has no recursion, so that the length of each of its
   scripts can be proved instead of evaluated.
4. That `AnswerTime` and `OffTime` are reached: both are proved as upper bounds, neither is known
   to be the least.
5. `RtxLists`' delay list as a state machine, to prove of it what `DelaysCountDown` evaluates.
