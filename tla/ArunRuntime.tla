----------------------------- MODULE ArunRuntime -----------------------------
(***************************************************************************)
(* The arun executor (arun/src/lib.rs) as ppsmc runs it                   *)
(* (property_driven/async_worker.rs): every lace worker thread passes the *)
(* start barrier of AsyncWorker::sync and then loops on                   *)
(* async_worker_run, which try_locks the receiver of the one ready queue, *)
(* takes a task, locks the task's future slot, takes the future out and  *)
(* polls it, and puts it back if it is pending.  A waker sends the task   *)
(* to the queue again (ArcWake::wake_by_ref).                             *)
(*                                                                         *)
(* A future is a program of steps run during a poll: spawn a task         *)
(* (async_spawn), send on a channel and wake its receiver, await a        *)
(* message (Pending with the waker registered if there is none), await   *)
(* the JoinHandler of a task.  The channels and the oneshot are tokio's:  *)
(* checking for a value and registering the waker is one step.            *)
(***************************************************************************)
EXTENDS Naturals, Sequences, FiniteSets

CONSTANTS
  Workers,   \* the lace worker threads (--parallel)
  Tasks,     \* the futures of the program
  Main,      \* the future passed to async_block_on
  Chans,     \* the tokio channels between tasks
  Prog,      \* Prog[t]: the steps of task t, [op, arg]
  None

VARIABLES
  barrier,   \* AsyncWorker.sync: workers not yet arrived
  notified,  \* condvar.notify_all has been called
  wpc,       \* worker: "start", "wait", "idle", "recv", "lock", "poll",
             \* "pending", "release"
  wtask,     \* the task a worker took from the queue
  rxLock,    \* the holder of RUNTIME.receiver
  queue,     \* the ready queue (std::sync::mpsc), oldest first
  slotLock,  \* the holder of task.future
  slot,      \* task.future is Some
  spawned,   \* the task has been sent to the queue once
  fpc,       \* the next step of the task's future
  chan,      \* messages in each channel
  waiter,    \* the waker registered on a channel, or None
  joiner,    \* the waker registered on a task's JoinHandler, or None
  finished,  \* the task's future returned Ready
  mainDone   \* receiver.recv() in async_block_on has returned

vars == <<barrier, notified, wpc, wtask, rxLock, queue, slotLock, slot,
          spawned, fpc, chan, waiter, joiner, finished, mainDone>>

workerVars == <<barrier, notified, wpc, wtask, rxLock>>
taskVars == <<slotLock, slot, spawned, fpc, chan, waiter, joiner, finished, mainDone>>

(* Variant of Wake that sends whatever waker slot it is given. *)
WakeAlways(q, t) == Append(q, t)

(* ArcWake::wake_by_ref: send a clone of the task to the ready queue. *)
Wake(q, t) == IF t = None THEN q ELSE Append(q, t)

Init ==
  /\ barrier = Cardinality(Workers)
  /\ notified = FALSE
  /\ wpc = [w \in Workers |-> "start"]
  /\ wtask = [w \in Workers |-> None]
  /\ rxLock = None
  /\ queue = << Main >>
  /\ slotLock = [t \in Tasks |-> None]
  /\ slot = [t \in Tasks |-> TRUE]
  /\ spawned = [t \in Tasks |-> t = Main]
  /\ fpc = [t \in Tasks |-> 1]
  /\ chan = [c \in Chans |-> 0]
  /\ waiter = [c \in Chans |-> None]
  /\ joiner = [t \in Tasks |-> None]
  /\ finished = [t \in Tasks |-> FALSE]
  /\ mainDone = FALSE

-----------------------------------------------------------------------------
(* Variant of Arrive that tests the count before decrementing it. *)
ArriveTestFirst(w) ==
  /\ wpc[w] = "start"
  /\ barrier' = barrier - 1
  /\ IF barrier = 0
       THEN notified' = TRUE /\ wpc' = [wpc EXCEPT ![w] = "idle"]
       ELSE UNCHANGED notified /\ wpc' = [wpc EXCEPT ![w] = "wait"]
  /\ UNCHANGED <<wtask, rxLock>> /\ UNCHANGED taskVars /\ UNCHANGED queue

(* AsyncWorker::sync: decrement under the mutex; the last one notifies   *)
(* all, the others wait on the condvar.                                   *)
Arrive(w) ==
  /\ wpc[w] = "start"
  /\ barrier' = barrier - 1
  /\ IF barrier' = 0
       THEN notified' = TRUE /\ wpc' = [wpc EXCEPT ![w] = "idle"]
       ELSE UNCHANGED notified /\ wpc' = [wpc EXCEPT ![w] = "wait"]
  /\ UNCHANGED <<wtask, rxLock>> /\ UNCHANGED taskVars /\ UNCHANGED queue

(* condvar.wait returns after notify_all. *)
Resume(w) ==
  /\ wpc[w] = "wait"
  /\ notified
  /\ wpc' = [wpc EXCEPT ![w] = "idle"]
  /\ UNCHANGED <<barrier, notified, wtask, rxLock>> /\ UNCHANGED taskVars
  /\ UNCHANGED queue

(* condvar.wait returns spuriously (the code does not loop on the count). *)
SpuriousWake(w) ==
  /\ wpc[w] = "wait"
  /\ ~notified
  /\ wpc' = [wpc EXCEPT ![w] = "idle"]
  /\ UNCHANGED <<barrier, notified, wtask, rxLock>> /\ UNCHANGED taskVars
  /\ UNCHANGED queue

(* async_worker_run: RUNTIME.receiver.try_lock() succeeds.  When it fails *)
(* the call returns and the loop calls it again: a stutter.              *)
LockReceiver(w) ==
  /\ wpc[w] = "idle"
  /\ rxLock = None
  /\ rxLock' = w
  /\ wpc' = [wpc EXCEPT ![w] = "recv"]
  /\ UNCHANGED <<barrier, notified, wtask>> /\ UNCHANGED taskVars
  /\ UNCHANGED queue

(* lock.try_recv(), then the guard is dropped; Empty returns. *)
TryRecv(w) ==
  /\ wpc[w] = "recv"
  /\ rxLock' = None
  /\ IF queue = << >>
       THEN wpc' = [wpc EXCEPT ![w] = "idle"] /\ UNCHANGED <<queue, wtask>>
       ELSE /\ wtask' = [wtask EXCEPT ![w] = Head(queue)]
            /\ queue' = Tail(queue)
            /\ wpc' = [wpc EXCEPT ![w] = "lock"]
  /\ UNCHANGED <<barrier, notified>> /\ UNCHANGED taskVars

(* Variant of LockSlot that gives the task up when its slot is locked. *)
LockSlotTry(w) ==
  LET t == wtask[w] IN
  /\ wpc[w] = "lock"
  /\ IF slotLock[t] = None
       THEN /\ slotLock' = [slotLock EXCEPT ![t] = w]
            /\ slot' = [slot EXCEPT ![t] = FALSE]
            /\ wpc' = [wpc EXCEPT ![w] = IF slot[t] THEN "poll" ELSE "release"]
       ELSE /\ wpc' = [wpc EXCEPT ![w] = "idle"]
            /\ UNCHANGED <<slotLock, slot>>
  /\ UNCHANGED <<barrier, notified, wtask, rxLock, queue, spawned, fpc, chan,
                 waiter, joiner, finished, mainDone>>

(* task.future.lock() blocks until the slot is free; then take() it. *)
LockSlot(w) ==
  LET t == wtask[w] IN
  /\ wpc[w] = "lock"
  /\ slotLock[t] = None
  /\ slotLock' = [slotLock EXCEPT ![t] = w]
  /\ slot' = [slot EXCEPT ![t] = FALSE]
  /\ wpc' = [wpc EXCEPT ![w] = IF slot[t] THEN "poll" ELSE "release"]
  /\ UNCHANGED <<barrier, notified, wtask, rxLock, queue, spawned, fpc, chan,
                 waiter, joiner, finished, mainDone>>

(* Steps of the polled future. *)
Op(w) == Prog[wtask[w]][fpc[wtask[w]]]
Running(w) == wpc[w] = "poll" /\ fpc[wtask[w]] <= Len(Prog[wtask[w]])
Advance(w) == fpc' = [fpc EXCEPT ![wtask[w]] = @ + 1]

(* async_spawn: the new task is sent to the ready queue. *)
PollSpawn(w) ==
  /\ Running(w) /\ Op(w).op = "spawn"
  /\ queue' = Append(queue, Op(w).arg)
  /\ spawned' = [spawned EXCEPT ![Op(w).arg] = TRUE]
  /\ Advance(w)
  /\ UNCHANGED workerVars
  /\ UNCHANGED <<slotLock, slot, chan, waiter, joiner, finished, mainDone>>

(* Sender::send: the message is queued and the receiver's waker woken. *)
PollSend(w) ==
  /\ Running(w) /\ Op(w).op = "send"
  /\ chan' = [chan EXCEPT ![Op(w).arg] = @ + 1]
  /\ queue' = Wake(queue, waiter[Op(w).arg])
  /\ waiter' = [waiter EXCEPT ![Op(w).arg] = None]
  /\ Advance(w)
  /\ UNCHANGED workerVars
  /\ UNCHANGED <<slotLock, slot, spawned, joiner, finished, mainDone>>

(* Receiver::recv().await with a message: Ready. *)
PollRecv(w) ==
  /\ Running(w) /\ Op(w).op = "recv"
  /\ chan[Op(w).arg] > 0
  /\ chan' = [chan EXCEPT ![Op(w).arg] = @ - 1]
  /\ Advance(w)
  /\ UNCHANGED workerVars
  /\ UNCHANGED <<queue, slotLock, slot, spawned, waiter, joiner, finished,
                 mainDone>>

(* JoinHandler::poll on a finished task: Ready. *)
PollJoin(w) ==
  /\ Running(w) /\ Op(w).op = "join"
  /\ finished[Op(w).arg]
  /\ Advance(w)
  /\ UNCHANGED workerVars
  /\ UNCHANGED <<queue, slotLock, slot, spawned, chan, waiter, joiner,
                 finished, mainDone>>

(* Nothing to receive, or the task is not finished: the waker is         *)
(* registered and poll returns Pending.                                   *)
PollPending(w) ==
  /\ Running(w)
  /\ \/ Op(w).op = "recv" /\ chan[Op(w).arg] = 0
        /\ waiter' = [waiter EXCEPT ![Op(w).arg] = wtask[w]]
        /\ UNCHANGED joiner
     \/ Op(w).op = "join" /\ ~finished[Op(w).arg]
        /\ joiner' = [joiner EXCEPT ![Op(w).arg] = wtask[w]]
        /\ UNCHANGED waiter
  /\ wpc' = [wpc EXCEPT ![w] = "pending"]
  /\ UNCHANGED <<barrier, notified, wtask, rxLock>>
  /\ UNCHANGED <<queue, slotLock, slot, spawned, fpc, chan, finished, mainDone>>

(* The future has run to its end: the wrapper of async_spawn sends the   *)
(* result on the oneshot and wakes the JoinHandler; the one of           *)
(* async_block_on sends it to the blocked thread.                        *)
PollReady(w) ==
  /\ wpc[w] = "poll" /\ fpc[wtask[w]] > Len(Prog[wtask[w]])
  /\ finished' = [finished EXCEPT ![wtask[w]] = TRUE]
  /\ queue' = Wake(queue, joiner[wtask[w]])
  /\ joiner' = [joiner EXCEPT ![wtask[w]] = None]
  /\ mainDone' = (mainDone \/ wtask[w] = Main)
  /\ wpc' = [wpc EXCEPT ![w] = "release"]
  /\ UNCHANGED <<barrier, notified, wtask, rxLock>>
  /\ UNCHANGED <<slotLock, slot, spawned, fpc, chan, waiter>>

(* Pending: *future_slot = Some(future), then the guard is dropped. *)
PutBack(w) ==
  /\ wpc[w] = "pending"
  /\ slot' = [slot EXCEPT ![wtask[w]] = TRUE]
  /\ slotLock' = [slotLock EXCEPT ![wtask[w]] = None]
  /\ wpc' = [wpc EXCEPT ![w] = "idle"]
  /\ UNCHANGED <<barrier, notified, wtask, rxLock, queue>>
  /\ UNCHANGED <<spawned, fpc, chan, waiter, joiner, finished, mainDone>>

(* Ready, or the slot was empty: the guard is dropped. *)
Release(w) ==
  /\ wpc[w] = "release"
  /\ slotLock' = [slotLock EXCEPT ![wtask[w]] = None]
  /\ wpc' = [wpc EXCEPT ![w] = "idle"]
  /\ UNCHANGED <<barrier, notified, wtask, rxLock, queue>>
  /\ UNCHANGED <<slot, spawned, fpc, chan, waiter, joiner, finished, mainDone>>

Worker(w) ==
  \/ Arrive(w) \/ Resume(w) \/ LockReceiver(w) \/ TryRecv(w) \/ LockSlot(w)
  \/ PollSpawn(w) \/ PollSend(w) \/ PollRecv(w) \/ PollJoin(w)
  \/ PollPending(w) \/ PollReady(w) \/ PutBack(w) \/ Release(w)

Next == \E w \in Workers : Worker(w) \/ SpuriousWake(w)

(* The worker threads loop forever (AsyncWorker::start): each is weakly  *)
(* fair.  A spurious wake-up may happen but is not assumed to.            *)
Spec == Init /\ [][Next]_vars /\ \A w \in Workers : WF_vars(Worker(w))

-----------------------------------------------------------------------------
TypeOK ==
  /\ wpc \in [Workers -> {"start", "wait", "idle", "recv", "lock", "poll",
                           "pending", "release"}]
  /\ queue \in Seq(Tasks)
  /\ rxLock \in Workers \cup {None}
  /\ slotLock \in [Tasks -> Workers \cup {None}]
  /\ waiter \in [Chans -> Tasks \cup {None}]
  /\ joiner \in [Tasks -> Tasks \cup {None}]

(* The await a task's future is blocked on can now complete. *)
CanProgress(t) ==
  /\ spawned[t] /\ ~finished[t]
  /\ LET s == Prog[t][fpc[t]]
     IN  \/ s.op \in {"spawn", "send"}
         \/ s.op = "recv" /\ chan[s.arg] > 0
         \/ s.op = "join" /\ finished[s.arg]

Range(q) == { q[k] : k \in DOMAIN q }

(* No lost wake-up: a parked future (in its slot, unlocked) whose await  *)
(* can complete is in the ready queue, or a worker has taken it from the  *)
(* queue and is about to lock its slot.  A wake that comes while another *)
(* worker polls the task re-queues it, and the second worker blocks on   *)
(* task.future until the first has put the future back.                  *)
NoLostWakeup ==
  \A t \in Tasks :
    (slot[t] /\ slotLock[t] = None /\ CanProgress(t)) =>
      \/ t \in Range(queue)
      \/ \E w \in Workers : wpc[w] = "lock" /\ wtask[w] = t

(* async_block_on returns: every worker passes the start barrier, and    *)
(* the block_on future and the tasks it spawns and joins all complete.    *)
MainReturns == <>mainDone

=============================================================================
