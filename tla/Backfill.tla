------------------------------ MODULE Backfill ------------------------------
(***************************************************************************)
(* The backfill ExEx (backfill/src/main.rs, rpc.rs): RPC handlers, one     *)
(* event loop and one task per backfill job, which run concurrently and    *)
(* talk through an unbounded queue of messages, a oneshot channel per RPC  *)
(* call, a oneshot channel per job that carries the cancellation (and in   *)
(* it the sender of its acknowledgement), and a semaphore.                 *)
(*                                                                         *)
(* The tokio parts (external) are modelled by what the code relies on: a   *)
(* send fails when the receiver is gone, a receive fails when the sender   *)
(* is dropped, and a select! drops the futures of all its branches before  *)
(* it runs the handler of the branch that won.                             *)
(***************************************************************************)
EXTENDS Integers, Sequences, FiniteSets

CONSTANTS
  StartCalls,        \* RPC calls of backfill_start, numbered as they are made
  CancelCalls,       \* RPC calls of backfill_cancel
  BackfillLimit,     \* permits of the semaphore
  MaxNotifications   \* BOUND: notifications of the node

ASSUME BackfillConstants ==
  /\ IsFiniteSet(StartCalls) /\ StartCalls \subseteq Nat
  /\ StartCalls \cap CancelCalls = {}
  /\ BackfillLimit \in Nat \ {0}
  /\ MaxNotifications \in Nat

RpcCalls == StartCalls \cup CancelCalls

\* Every successful start takes a fresh u64; there is one per call at most.
JobIds == 0..(Cardinality(StartCalls) - 1)

Messages ==
  [type : {"Start"}, call : StartCalls]
    \cup [type : {"Cancel"}, call : CancelCalls, job : JobIds]
    \cup [type : {"Finish"}, job : JobIds]

VARIABLES
  reply,          \* per RPC call: unsent, waiting, ok, error, gone
  job_of,         \* per RPC call: the job it started or wants to cancel
  queue,          \* backfill_rx
  exex,           \* starting, idle, cancelling, stopped
  current,        \* the Cancel message being handled, if cancelling
  next_job_id,    \* next_backfill_job_id
  jobs,           \* keys of backfill_jobs
  permits,        \* free permits of backfill_semaphore
  task,           \* per job: none, running, finished, cancelled, exiting, done
  cancel,         \* per job, its cancel channel: open, sent, answered, closed
  pending         \* notifications not handled yet

vars == <<reply, job_of, queue, exex, current, next_job_id, jobs, permits,
          task, cancel, pending>>

NoMessage == [type |-> "None"]

TypeOK ==
  /\ reply \in [RpcCalls -> {"unsent", "waiting", "ok", "error", "gone"}]
  /\ job_of \in [RpcCalls -> JobIds \cup {-1}]
  /\ queue \in Seq(Messages)
  /\ exex \in {"starting", "idle", "cancelling", "stopped"}
  /\ current \in Messages \cup {NoMessage}
  /\ next_job_id \in 0..Cardinality(StartCalls)
  /\ jobs \subseteq JobIds
  /\ permits \in 0..BackfillLimit
  /\ task \in [JobIds -> {"none", "running", "finished", "cancelled",
                          "exiting", "done"}]
  /\ cancel \in [JobIds -> {"open", "sent", "answered", "closed"}]
  /\ pending \in 0..MaxNotifications

\* BackfillExEx::new; `starting` covers the backfill of the command line.
Init ==
  /\ reply = [c \in RpcCalls |-> "unsent"]
  /\ job_of = [c \in RpcCalls |-> -1]
  /\ queue = <<>>
  /\ exex = "starting"
  /\ current = NoMessage
  /\ next_job_id = 0
  /\ jobs = {}
  /\ permits = BackfillLimit
  /\ task = [j \in JobIds |-> "none"]
  /\ cancel = [j \in JobIds |-> "open"]
  /\ pending = MaxNotifications

\* response_tx.send: the answer is lost if the caller went away.
Answer(c, r) ==
  reply' = [reply EXCEPT ![c] = IF @ = "waiting" THEN r ELSE @]

-----------------------------------------------------------------------------
(***************************************************************************)
(* RPC handlers.                                                           *)
(***************************************************************************)
taskVars == <<permits, task, cancel>>

\* send_backfill_message: the request is queued, or fails at once when the
\* receiver of the ExEx is gone.
SendMessage(c, message) ==
  /\ reply[c] = "unsent"
  /\ reply' = [reply EXCEPT ![c] = IF exex = "stopped" THEN "error" ELSE "waiting"]
  /\ queue' = IF exex = "stopped" THEN queue ELSE Append(queue, message)
  /\ UNCHANGED <<exex, current, next_job_id, jobs, taskVars, pending>>

RpcStart(c) ==
  /\ \A d \in StartCalls : d < c => reply[d] # "unsent"
  /\ SendMessage(c, [type |-> "Start", call |-> c])
  /\ UNCHANGED job_of

RpcCancel(c, j) ==
  /\ SendMessage(c, [type |-> "Cancel", call |-> c, job |-> j])
  /\ job_of' = [job_of EXCEPT ![c] = j]

\* The client disconnects and the handler's future is dropped.
RpcDropped(c) ==
  /\ reply[c] = "waiting"
  /\ reply' = [reply EXCEPT ![c] = "gone"]
  /\ UNCHANGED <<job_of, queue, exex, current, next_job_id, jobs, taskVars,
                 pending>>

-----------------------------------------------------------------------------
(***************************************************************************)
(* The ExEx: the command-line backfill, then the select! loop of `start`.  *)
(***************************************************************************)
StartupDone ==
  /\ exex = "starting"
  /\ exex' = "idle"
  /\ UNCHANGED <<reply, job_of, queue, current, next_job_id, jobs, taskVars,
                 pending>>

\* Mutant of Stop: the receiver outlives the ExEx, with the requests in it.
StopKeepsReceiver ==
  /\ exex' = "stopped"
  /\ cancel' = [j \in JobIds |-> IF j \in jobs THEN "closed" ELSE cancel[j]]
  /\ jobs' = {}
  /\ UNCHANGED <<reply, queue, job_of, current, next_job_id, permits, task>>

\* Mutant of Stop: the cancel channels are leaked instead of closed.
StopLeaksChannels ==
  /\ exex' = "stopped"
  /\ reply' = [c \in RpcCalls |->
                 IF reply[c] = "waiting" THEN "error" ELSE reply[c]]
  /\ queue' = <<>>
  /\ jobs' = {}
  /\ UNCHANGED <<cancel, job_of, current, next_job_id, permits, task>>

\* The ExEx returns an error and is dropped: the queued requests lose their
\* response channels, the jobs their cancel channels.
Stop ==
  /\ exex' = "stopped"
  /\ reply' = [c \in RpcCalls |->
                 IF reply[c] = "waiting" THEN "error" ELSE reply[c]]
  /\ queue' = <<>>
  /\ cancel' = [j \in JobIds |-> IF j \in jobs THEN "closed" ELSE cancel[j]]
  /\ jobs' = {}
  /\ UNCHANGED <<job_of, current, next_job_id, permits, task>>

StartupFails ==
  /\ exex = "starting"
  /\ Stop
  /\ UNCHANGED pending

\* handle_notification: process the chain, send FinishedHeight.
HandleNotification ==
  /\ exex = "idle"
  /\ pending > 0
  /\ pending' = pending - 1
  /\ UNCHANGED <<reply, job_of, queue, exex, current, next_job_id, jobs,
                 taskVars>>

\* The notification is an error, or the node no longer takes events.
NotificationFails ==
  /\ exex = "idle"
  /\ pending > 0
  /\ pending' = pending - 1
  /\ Stop

Receive(type) ==
  /\ exex = "idle"
  /\ queue # <<>>
  /\ Head(queue).type = type
  /\ queue' = Tail(queue)
  /\ UNCHANGED pending

\* Mutant of Acquire: the permit is not moved into the task but dropped.
AcquireAndDrop == permits > 0 /\ permits' = permits

\* try_acquire_owned.
Acquire == permits > 0 /\ permits' = permits - 1

\* start_backfill with a permit: the job gets an id, a cancel channel and a
\* task.
StartBackfill ==
  /\ Receive("Start")
  /\ Acquire
  /\ task' = [task EXCEPT ![next_job_id] = "running"]
  /\ jobs' = jobs \cup {next_job_id}
  /\ next_job_id' = next_job_id + 1
  /\ job_of' = [job_of EXCEPT ![Head(queue).call] = next_job_id]
  /\ Answer(Head(queue).call, "ok")
  /\ UNCHANGED <<exex, current, cancel>>

\* try_acquire_owned fails: the limit is reached.
StartBackfillLimit ==
  /\ Receive("Start")
  /\ permits = 0
  /\ Answer(Head(queue).call, "error")
  /\ UNCHANGED <<job_of, exex, current, next_job_id, jobs, taskVars>>

\* cancel_backfill: the job is taken out of the map and, if its task still
\* listens, told to stop; the loop then waits for the acknowledgement.
CancelBackfill ==
  LET j == Head(queue).job
  IN  /\ Receive("Cancel")
      /\ j \in jobs
      /\ task[j] = "running"
      /\ jobs' = jobs \ {j}
      /\ cancel' = [cancel EXCEPT ![j] = "sent"]
      /\ exex' = "cancelling"
      /\ current' = Head(queue)
      /\ UNCHANGED <<reply, job_of, next_job_id, permits, task>>

\* "backfill job not found", or the task has dropped its end of the channel.
CancelBackfillFails ==
  LET j == Head(queue).job
  IN  /\ Receive("Cancel")
      /\ j \in jobs => task[j] # "running"
      /\ jobs' = jobs \ {j}
      /\ cancel' = IF j \in jobs THEN [cancel EXCEPT ![j] = "closed"] ELSE cancel
      /\ Answer(Head(queue).call, "error")
      /\ UNCHANGED <<job_of, exex, current, next_job_id, permits, task>>

\* Mutant of Acknowledged: the loop does not wait for the task.
NotAwaited(j) == cancel[j] \in {"sent", "answered"}

\* rx.await returns, with the acknowledgement or because its sender was
\* dropped.
Acknowledged(j) == cancel[j] = "answered"

\* The caller is answered and the job removed once more.
CancelAnswered ==
  /\ exex = "cancelling"
  /\ Acknowledged(current.job)
  /\ Answer(current.call, "ok")
  /\ jobs' = jobs \ {current.job}
  /\ exex' = "idle"
  /\ current' = NoMessage
  /\ UNCHANGED <<job_of, queue, next_job_id, taskVars, pending>>

HandleFinish ==
  /\ Receive("Finish")
  /\ jobs' = jobs \ {Head(queue).job}
  /\ cancel' = IF Head(queue).job \in jobs
               THEN [cancel EXCEPT ![Head(queue).job] = "closed"] ELSE cancel
  /\ UNCHANGED <<reply, job_of, exex, current, next_job_id, permits, task>>

-----------------------------------------------------------------------------
(***************************************************************************)
(* The task of job j (`backfill`).                                         *)
(***************************************************************************)
exexVars == <<job_of, exex, current, next_job_id, jobs, pending>>

TaskGoes(j, from, to) ==
  /\ task[j] = from
  /\ task' = [task EXCEPT ![j] = to]

\* The cancel channel's receiver is dropped: a cancellation that is in it, or
\* comes with it, takes the sender of its acknowledgement along.
CancelAnswer(j) ==
  cancel' = [cancel EXCEPT ![j] = IF @ = "sent" THEN "answered" ELSE @]

\* Mutant of TaskBackfillDone: the acknowledgement is kept, never answered.
TaskBackfillDoneHolding(j) ==
  /\ TaskGoes(j, "running", "finished")
  /\ UNCHANGED <<reply, queue, exexVars, permits, cancel>>

\* The backfill branch of the select! wins: every block of the range is
\* processed ...
TaskBackfillDone(j) ==
  /\ TaskGoes(j, "running", "finished")
  /\ CancelAnswer(j)
  /\ UNCHANGED <<reply, queue, exexVars, permits>>

\* Mutant of TaskBackfillFails: the error returns before Finish is sent.
TaskBackfillReturns(j) ==
  /\ TaskGoes(j, "running", "exiting")
  /\ CancelAnswer(j)
  /\ UNCHANGED <<reply, queue, exexVars, permits>>

\* ... or a block could not be executed: the error is logged, and the same
\* handler follows.
TaskBackfillFails(j) ==
  /\ TaskGoes(j, "running", "finished")
  /\ CancelAnswer(j)
  /\ UNCHANGED <<reply, queue, exexVars, permits>>

\* Mutant of TaskSendsFinish: the send is retried until it succeeds.
TaskSendsFinishRetrying(j) ==
  /\ exex # "stopped"
  /\ TaskGoes(j, "finished", "exiting")
  /\ queue' = Append(queue, [type |-> "Finish", job |-> j])
  /\ UNCHANGED <<reply, exexVars, permits, cancel>>

\* Its handler: Finish is sent, unless the ExEx is gone.
TaskSendsFinish(j) ==
  /\ TaskGoes(j, "finished", "exiting")
  /\ queue' = IF exex = "stopped" THEN queue
              ELSE Append(queue, [type |-> "Finish", job |-> j])
  /\ UNCHANGED <<reply, exexVars, permits, cancel>>

\* The cancel branch wins: a cancellation, or the channel closed.
TaskCancelled(j) ==
  /\ TaskGoes(j, "running", "cancelled")
  /\ cancel[j] \in {"sent", "closed"}
  /\ UNCHANGED <<reply, queue, exexVars, permits, cancel>>

\* Mutant of TaskAcknowledges: the handler gives a permit back as well.
TaskAcknowledgesReleasing(j) ==
  /\ TaskGoes(j, "cancelled", "exiting")
  /\ CancelAnswer(j)
  /\ permits' = permits + 1
  /\ UNCHANGED <<reply, queue, exexVars>>

\* Its handler: the cancellation is acknowledged.
TaskAcknowledges(j) ==
  /\ TaskGoes(j, "cancelled", "exiting")
  /\ CancelAnswer(j)
  /\ UNCHANGED <<reply, queue, exexVars, permits>>

\* The task returns and its permit is released.
TaskExits(j) ==
  /\ TaskGoes(j, "exiting", "done")
  /\ permits' = permits + 1
  /\ UNCHANGED <<reply, queue, exexVars, cancel>>

TaskStep(j) ==
  \/ TaskBackfillDone(j)
  \/ TaskSendsFinish(j)
  \/ TaskCancelled(j)
  \/ TaskAcknowledges(j)
  \/ TaskExits(j)

-----------------------------------------------------------------------------
HandleMessage ==
  \/ StartBackfill
  \/ StartBackfillLimit
  \/ CancelBackfill
  \/ CancelBackfillFails
  \/ HandleFinish

Next ==
  \/ \E c \in StartCalls : RpcStart(c)
  \/ \E c \in CancelCalls, j \in JobIds : RpcCancel(c, j)
  \/ \E c \in RpcCalls : RpcDropped(c)
  \/ StartupDone
  \/ StartupFails
  \/ HandleNotification
  \/ NotificationFails
  \/ HandleMessage
  \/ CancelAnswered
  \/ \E j \in JobIds : TaskStep(j) \/ TaskBackfillFails(j)

\* The runtime polls every task and the ExEx, whose select! picks among its
\* ready branches at random; a command-line backfill ends.  Nobody has to call
\* or to fail.
Fairness ==
  /\ WF_vars(StartupDone)
  /\ WF_vars(HandleNotification)
  /\ WF_vars(HandleMessage)
  /\ WF_vars(CancelAnswered)
  /\ \A j \in JobIds : WF_vars(TaskStep(j))

Spec == Init /\ [][Next]_vars /\ Fairness

-----------------------------------------------------------------------------
(***************************************************************************)
(* Safety.                                                                 *)
(***************************************************************************)
Holding == {j \in JobIds : task[j] \notin {"none", "done"}}

\* "Semaphore to limit the number of concurrent backfills": the tasks that
\* have not returned and the free permits together are the limit, so no
\* interleaving of starts, cancellations and ends leaks or duplicates one.
PermitsConserved == Cardinality(Holding) + permits = BackfillLimit

\* A successful backfill_cancel means that the job has stopped: its task is no
\* longer in the select!, so it will process no further block.
CancelledJobStopped ==
  \A c \in CancelCalls :
    reply[c] = "ok" => task[job_of[c]] \in {"finished", "exiting", "done"}

\* No job runs that nobody can stop: as long as a task runs, its cancel
\* channel is in the map, or it has been used, or it was closed.
RunningJobIsCancellable ==
  \A j \in JobIds :
    task[j] = "running" => j \in jobs \/ cancel[j] \in {"sent", "closed"}

FinishQueued(j) ==
  \E i \in DOMAIN queue : queue[i].type = "Finish" /\ queue[i].job = j

\* The map does not leak: an entry belongs to a task that still runs, or that
\* has ended and whose Finish will come or is queued.
NoStaleJobEntry ==
  \A j \in jobs : task[j] \in {"running", "finished"} \/ FinishQueued(j)

-----------------------------------------------------------------------------
(***************************************************************************)
(* Liveness.                                                               *)
(***************************************************************************)

\* Every RPC call is answered, whichever way cancellation, completion and
\* failure race, the end of the ExEx included.
EveryCallAnswered ==
  \A c \in RpcCalls :
    reply[c] = "waiting" ~> reply[c] \in {"ok", "error", "gone"}

\* The event loop always comes back from waiting for a cancelled task, so the
\* notifications of the node are handled.
NotificationsHandled ==
  (pending > 0) ~> (pending = 0 \/ exex = "stopped")

\* When the ExEx ends its jobs end too, and every permit comes back.
StoppedJobsEnd ==
  (exex = "stopped") ~> (Holding = {} /\ permits = BackfillLimit)
=============================================================================
