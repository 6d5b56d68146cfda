------------------------------ MODULE RN52Queue ------------------------------
(***************************************************************************)
(* The command queue of the RN52 driver (common/RN52.cpp) on the RTX       *)
(* mailbox underneath it.  Commands are posted by threads and by interrupt *)
(* handlers and fetched by the one RN52 thread.                            *)
(*                                                                         *)
(* A thread's post reaches the mailbox at once.  A handler's post only     *)
(* enters the kernel's request FIFO (os_psq); PendSV moves it to the       *)
(* mailbox after the last handler has returned, and halts the unit for     *)
(* good if the mailbox is full by then.  queueCommand() therefore keeps a  *)
(* count of its own, `queued', and refuses a command above Limit.          *)
(***************************************************************************)
EXTENDS Naturals, Sequences, FiniteSets

CONSTANTS
  Isrs,       \* interrupt sources whose handlers post
  Threads,    \* threads that post
  RN52Thread, \* the one of them that also fetches
  Prio,       \* NVIC priority of each source, a greater number preempts
  Script,     \* the sequences of posts a handler of the source may make
  Capacity,   \* Queue<const char, 20>
  Limit,      \* 18, the bound of queueCommand
  FifoSize,   \* OS_FIFOSZ, 16
  MaxPosts    \* bound of the model: commands each poster gets accepted

Posters == Isrs \cup Threads

ASSUME PostersAssumption ==
  /\ IsFiniteSet(Isrs) /\ IsFiniteSet(Threads)
  /\ Isrs \cap Threads = {}
  /\ RN52Thread \in Threads
  /\ Prio \in [Isrs -> Nat]
  /\ \A i \in Isrs : Script[i] \subseteq Seq({"command", "other"})
ASSUME SizesAssumption ==
  /\ Capacity \in Nat /\ Limit \in Nat /\ FifoSize \in Nat
  /\ MaxPosts \in [Posters -> Nat]
  /\ Limit <= Capacity

Command == [from : Posters, n : Nat]

VARIABLES
  queued,    \* RN52::queued
  posting,   \* posters between the reservation and the return of put()
  rtosQueue, \* the commands in the kernel's mailbox, oldest first
  psq,       \* the commands in the kernel's request FIFO, oldest first
  psqOther,  \* the FIFO's entries for other objects: signals, mails
  active,    \* handlers entered and not returned, the running one last
  todo,      \* the posts each active handler has still to make
  raised,    \* sources that fired since the FIFO was last empty
  run,       \* where the RN52 thread stands
  evt,       \* the commands it was handed and has not counted yet
  posted,    \* commands accepted so far, per poster
  fetched,   \* commands fetched and counted so far, per poster
  halted     \* os_error(): nothing runs any more

isrVars == <<active, todo, raised>>
runVars == <<run, evt, fetched>>
vars == <<queued, posting, rtosQueue, psq, psqOther, isrVars, runVars, posted, halted>>

Init ==
  /\ queued = 0 /\ posting = {} /\ rtosQueue = <<>> /\ psq = <<>> /\ psqOther = 0
  /\ active = <<>> /\ todo = [i \in Isrs |-> <<>>] /\ raised = {}
  /\ run = "idle" /\ evt = <<>>
  /\ posted = [p \in Posters |-> 0] /\ fetched = [p \in Posters |-> 0]
  /\ halted = "no"

-----------------------------------------------------------------------------
(* Who may execute.  PendSV has the lowest exception priority and is       *)
(* pending while the FIFO holds anything, so a thread instruction runs     *)
(* only with no handler active and the FIFO empty.                         *)

PsqEmpty == psq = <<>> /\ psqOther = 0
PsqLength == Len(psq) + psqOther

Running(p) ==
  /\ halted = "no"
  /\ IF p \in Isrs THEN active # <<>> /\ active[Len(active)] = p
                   ELSE active = <<>> /\ PsqEmpty

ThreadRuns == Running(RN52Thread)
PendSVRuns == halted = "no" /\ active = <<>>

(* Bound of the environment: a source interrupts at most once until the    *)
(* FIFO has been emptied again.                                            *)
Enter(i) ==
  /\ halted = "no"
  /\ i \notin raised
  /\ active # <<>> => Prio[active[Len(active)]] < Prio[i]
  /\ posted[i] < MaxPosts[i]
  /\ \E s \in Script[i] : todo' = [todo EXCEPT ![i] = s]
  /\ active' = Append(active, i)
  /\ raised' = raised \cup {i}
  /\ UNCHANGED <<queued, posting, rtosQueue, psq, psqOther, runVars, posted, halted>>

Leave(i) ==
  /\ Running(i)
  /\ todo[i] = <<>>
  /\ active' = SubSeq(active, 1, Len(active) - 1)
  /\ raised' = IF active' = <<>> /\ PsqEmpty THEN {} ELSE raised
  /\ UNCHANGED <<queued, posting, rtosQueue, psq, psqOther, todo, runVars, posted, halted>>

(* A signal or a mail posted by a handler: isr_evt_set, isr_mbx_send.      *)
PostOther(i) ==
  /\ Running(i)
  /\ todo[i] # <<>> /\ Head(todo[i]) = "other"
  /\ IF PsqLength < FifoSize
     THEN psqOther' = psqOther + 1 /\ UNCHANGED halted
     ELSE halted' = "fifo" /\ UNCHANGED psqOther
  /\ todo' = [todo EXCEPT ![i] = Tail(@)]
  /\ UNCHANGED <<queued, posting, rtosQueue, psq, active, raised, runVars, posted>>

-----------------------------------------------------------------------------
(* RN52::queueCommand *)

WantsToPost(p) ==
  /\ p \notin posting
  /\ IF p \in Isrs THEN todo[p] # <<>> /\ Head(todo[p]) = "command"
                   ELSE posted[p] < MaxPosts[p] /\ (p = RN52Thread => run = "busy")

RoomUnchecked == TRUE
RoomOfTooLargeQueue == queued <= Capacity
Room == queued < Limit

(* What a refused command leaves for a handler to post: the log entry is a *)
(* mail, dropped in turn when the log's pool is empty.                     *)
LogTwice == {<<"other", "other">>}
RefusalLog == {<<>>, <<"other">>}

(* The critical section. *)
Reserve(p) ==
  /\ Running(p)
  /\ WantsToPost(p)
  /\ IF Room
     THEN /\ queued' = queued + 1
          /\ posting' = posting \cup {p}
          /\ UNCHANGED todo
     ELSE /\ UNCHANGED <<queued, posting>>
          /\ IF p \in Isrs
             THEN \E log \in RefusalLog : todo' = [todo EXCEPT ![p] = log \o Tail(@)]
             ELSE UNCHANGED todo
  /\ UNCHANGED <<rtosQueue, psq, psqOther, active, raised, runVars, posted, halted>>

StoreOnly(c) ==
  IF Len(rtosQueue) < Capacity
  THEN rtosQueue' = Append(rtosQueue, c) /\ UNCHANGED <<run, evt, halted>>
  ELSE halted' = "mailbox" /\ UNCHANGED <<rtosQueue, run, evt>>
(* rt_mbx_send and rt_mbx_psh: a waiting thread is handed the message.     *)
Deliver(c) ==
  IF run = "waiting"
  THEN run' = "got" /\ evt' = <<c>> /\ UNCHANGED <<rtosQueue, halted>>
  ELSE StoreOnly(c)

AdjustSkipped == UNCHANGED queued
AdjustTwice == queued' = queued - 2
AdjustDown == queued' = queued - 1

PutReturns(p) ==
  /\ posting' = posting \ {p}
  /\ todo' = IF p \in Isrs THEN [todo EXCEPT ![p] = Tail(@)] ELSE todo

(* put() and, when it fails, adjustQueued(-1).  A handler's put looks at   *)
(* the mailbox alone (rt_mbx_check), not at what the FIFO already holds    *)
(* for it.  A thread's put has no timeout and fails on a full mailbox.     *)
Put(p) ==
  /\ Running(p)
  /\ p \in posting
  /\ LET c == [from |-> p, n |-> posted[p] + 1]
     IN IF Len(rtosQueue) = Capacity
        THEN /\ AdjustDown /\ PutReturns(p)
             /\ UNCHANGED <<rtosQueue, psq, run, evt, posted, halted>>
        ELSE IF p \in Isrs /\ PsqLength >= FifoSize
        THEN /\ halted' = "fifo"
             /\ UNCHANGED <<queued, posting, todo, rtosQueue, psq, run, evt, posted>>
        ELSE /\ PutReturns(p)
             /\ posted' = [posted EXCEPT ![p] = @ + 1]
             /\ IF p \in Isrs
                THEN psq' = Append(psq, c) /\ UNCHANGED <<rtosQueue, run, evt, halted>>
                ELSE Deliver(c) /\ UNCHANGED psq
             /\ UNCHANGED queued
  /\ UNCHANGED <<psqOther, active, raised, fetched>>

-----------------------------------------------------------------------------
(* PendSV: rt_pop_req.  The order between entries for different objects is *)
(* not visible to this queue, so it is left open.                          *)

PopRequest ==
  /\ PendSVRuns
  /\ psq # <<>>
  /\ Deliver(Head(psq))
  /\ psq' = Tail(psq)
  /\ raised' = IF psq' = <<>> /\ psqOther = 0 THEN {} ELSE raised
  /\ UNCHANGED <<queued, posting, psqOther, active, todo, fetched, posted>>

PopOther ==
  /\ PendSVRuns
  /\ psqOther > 0
  /\ psqOther' = psqOther - 1
  /\ raised' = IF psq = <<>> /\ psqOther' = 0 THEN {} ELSE raised
  /\ UNCHANGED <<queued, posting, rtosQueue, psq, active, todo, runVars, posted, halted>>

-----------------------------------------------------------------------------
(* The fetching side of RN52::run.  What is done with a command is         *)
(* "busy"; in it the thread may itself post (a repeated Q, track data).    *)

TakeNewest ==
  /\ run' = "got"
  /\ evt' = <<rtosQueue[Len(rtosQueue)]>>
  /\ rtosQueue' = SubSeq(rtosQueue, 1, Len(rtosQueue) - 1)
(* rt_mbx_wait with a message there *)
TakeOldest ==
  /\ run' = "got"
  /\ evt' = <<Head(rtosQueue)>>
  /\ rtosQueue' = Tail(rtosQueue)

Get ==
  /\ ThreadRuns
  /\ run = "idle"
  /\ IF rtosQueue # <<>> THEN TakeOldest
                         ELSE run' = "waiting" /\ UNCHANGED <<evt, rtosQueue>>
  /\ UNCHANGED <<queued, posting, psq, psqOther, isrVars, fetched, posted, halted>>

(* get(500) timed out: command mode is left, the thread comes back to      *)
(* fetch.  The kernel's tick handler has PendSV's priority.                *)
GetTimeout ==
  /\ ThreadRuns
  /\ run = "waiting"
  /\ run' = "idle"
  /\ UNCHANGED <<queued, posting, rtosQueue, psq, psqOther, isrVars, evt, fetched, posted, halted>>

(* adjustQueued(-1) once the message is out *)
CountDown ==
  /\ ThreadRuns
  /\ run = "got"
  /\ AdjustDown
  /\ run' = "busy"
  /\ fetched' = [fetched EXCEPT ![evt[1].from] = @ + 1]
  /\ evt' = <<>>
  /\ UNCHANGED <<posting, rtosQueue, psq, psqOther, isrVars, posted, halted>>

Processed ==
  /\ ThreadRuns
  /\ run = "busy" /\ RN52Thread \notin posting
  /\ run' = "idle"
  /\ UNCHANGED <<queued, posting, rtosQueue, psq, psqOther, isrVars, evt, fetched, posted, halted>>

-----------------------------------------------------------------------------
Handler(i) == Enter(i) \/ PostOther(i) \/ Leave(i)
QueueCommand(p) == Reserve(p) \/ Put(p)
PendSV == PopRequest \/ PopOther
Fetch == Get \/ CountDown \/ Processed

Next ==
  \/ \E i \in Isrs : Handler(i)
  \/ \E p \in Posters : QueueCommand(p)
  \/ PendSV
  \/ Fetch
  \/ GetTimeout

Safe == Init /\ [][Next]_vars

(* Handlers finish, PendSV is taken once they have, and round robin gives  *)
(* every ready thread the processor; interrupts and new posts by threads   *)
(* are not promised.                                                       *)
Fairness ==
  /\ \A i \in Isrs : WF_vars(PostOther(i)) /\ WF_vars(Leave(i)) /\ WF_vars(QueueCommand(i))
  /\ \A p \in Threads : SF_vars(Put(p))
  /\ WF_vars(PendSV)
  /\ SF_vars(Get) /\ SF_vars(CountDown) /\ SF_vars(Processed)

Spec == Safe /\ Fairness
-----------------------------------------------------------------------------
TypeOK ==
  /\ queued \in Nat
  /\ posting \subseteq Posters
  /\ rtosQueue \in Seq(Command) /\ psq \in Seq(Command) /\ psqOther \in Nat
  /\ active \in Seq(Isrs) /\ raised \subseteq Isrs
  /\ todo \in [Isrs -> Seq({"command", "other"})]
  /\ run \in {"idle", "waiting", "got", "busy"}
  /\ evt \in Seq(Command) /\ Len(evt) = IF run = "got" THEN 1 ELSE 0
  /\ posted \in [Posters -> Nat] /\ fetched \in [Posters -> Nat]
  /\ halted \in {"no", "mailbox", "fifo"}

(* The count is exactly what is under way: the commands in the mailbox and *)
(* in the request FIFO, the reservations not used yet and the message that *)
(* is out but not counted down.  A leak would shrink the queue for good, a *)
(* count too low would let the kernel overflow (adjustQueued's comment:    *)
(* "never lower than the kernel's").                                       *)
CountIsExact ==
  queued = Len(evt) + Len(rtosQueue) + Len(psq) + Cardinality(posting)

(* No interleaving of handlers, nested or in a row, with threads overflows *)
(* the mailbox inside the kernel, which would stop the unit for good       *)
(* (os_error(OS_ERR_MBX_OVF) in rt_mbx_psh).                               *)
MailboxNeverOverflows == halted # "mailbox"

(* The posts of all handlers between two runs of PendSV fit the kernel's   *)
(* request FIFO (os_error(OS_ERR_FIFO_OVF) in rt_psq_enq).                 *)
FifoNeverOverflows == halted # "fifo"

(* One slot for every post that bursts of these lengths make.  They all    *)
(* fit if no handler of a source posts more than its burst and the bursts  *)
(* of all sources together take no more slots than the FIFO has.           *)
BurstSlots(burst) == {s \in Isrs \X (1 .. FifoSize) : s[2] <= burst[s[1]]}
BurstsFit(burst) ==
  /\ burst \in [Isrs -> 0 .. FifoSize]
  /\ \A i \in Isrs : \A s \in Script[i] : Len(s) <= burst[i]
  /\ Cardinality(BurstSlots(burst)) <= FifoSize

(* Whoever holds a reservation finds room in the mailbox: queueCommand's   *)
(* "put failed" branch, after which the caller's command is lost, is never *)
(* taken although other posts land between the reservation and the put.    *)
ReservationHolds == posting # {} => Len(rtosQueue) < Capacity

(* The whole arrangement is one FIFO channel of at most Limit commands,    *)
(* whoever posts: nothing accepted is lost, repeated or overtaken.         *)
Channel == INSTANCE BoundedChannel WITH
             Value <- Command, Bound <- Limit, chan <- evt \o rtosQueue \o psq
ImplementsChannel == Channel!Spec

(* A command queueCommand accepted is fetched by the RN52 thread, in the   *)
(* end: "held in the RN52 command queue and sent once its thread starts".  *)
EveryCommandFetched ==
  \A p \in Posters : \A n \in 1 .. MaxPosts[p] : posted[p] >= n ~> fetched[p] >= n
=============================================================================
