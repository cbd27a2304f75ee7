---------------------------- MODULE BackfillProofs ---------------------------
(***************************************************************************)
(* Theorems about Backfill, for any number of RPC calls, any limit of the  *)
(* semaphore and any number of notifications.  All of them rest on one     *)
(* inductive invariant, BackfillInv.                                       *)
(***************************************************************************)
EXTENDS Backfill, FiniteSetTheorems, SequenceTheorems, TLAPS

-----------------------------------------------------------------------------
(***************************************************************************)
(* The inductive invariant.                                                *)
(***************************************************************************)

\* A queued request comes from a call that was made.  One that starts a job
\* is queued once and has no job yet; one that cancels names the job that its
\* call wants to cancel.
QueueInv ==
  /\ \A i \in DOMAIN queue : queue[i].type = "Start" =>
       reply[queue[i].call] # "unsent" /\ job_of[queue[i].call] = -1
  /\ \A i \in DOMAIN queue : queue[i].type = "Cancel" =>
       reply[queue[i].call] # "unsent" /\ job_of[queue[i].call] = queue[i].job
  /\ \A i, k \in DOMAIN queue :
       /\ queue[i].type = "Start" /\ queue[k].type = "Start"
       /\ queue[i].call = queue[k].call
       => i = k

\* While the loop waits for a task, it holds the request of a cancelling call.
CurrentInv ==
  exex = "cancelling" =>
    /\ current.type = "Cancel"
    /\ reply[current.call] # "unsent"
    /\ job_of[current.call] = current.job

StartedCalls == {c \in StartCalls : job_of[c] # -1}

\* Ids are given out in order, one per call that started a job.
IdsInv ==
  /\ next_job_id = Cardinality(StartedCalls)
  /\ \A c \in StartCalls : reply[c] = "unsent" => job_of[c] = -1

\* What the cancel channel of a job tells about its entry and its task.
ChannelInv ==
  /\ \A j \in JobIds : task[j] = "none" <=> j >= next_job_id
  /\ \A j \in JobIds : task[j] = "none" => cancel[j] = "open" /\ j \notin jobs
  /\ \A j \in jobs : cancel[j] = "open"
  /\ \A j \in JobIds :
       cancel[j] = "answered" => task[j] \in {"finished", "exiting", "done"}
  /\ exex = "stopped" => jobs = {}

\* The job of a call that was told "cancelled" is known and has stopped.
CancelledInv ==
  \A c \in CancelCalls :
    reply[c] = "ok" => /\ job_of[c] \in JobIds
                       /\ task[job_of[c]] \in {"finished", "exiting", "done"}

BackfillInv ==
  /\ TypeOK
  /\ QueueInv
  /\ CurrentInv
  /\ IdsInv
  /\ ChannelInv
  /\ CancelledInv
  /\ PermitsConserved
  /\ RunningJobIsCancellable
  /\ NoStaleJobEntry

-----------------------------------------------------------------------------
(***************************************************************************)
(* The queue of messages.                                                  *)
(***************************************************************************)

\* What a message names belongs to its type.
LEMMA MessageTypes ==
  ASSUME NEW m \in Messages
  PROVE  /\ m.type \in {"Start", "Cancel", "Finish"}
         /\ m.type = "Start" => m.call \in StartCalls
         /\ m.type = "Cancel" => m.call \in CancelCalls /\ m.job \in JobIds
         /\ m.type = "Finish" => m.job \in JobIds
  BY DEF Messages

\* The first message and the others.
LEMMA QueueHead ==
  ASSUME TypeOK, queue # <<>>
  PROVE  /\ Head(queue) \in Messages /\ Head(queue) = queue[1] /\ 1 \in DOMAIN queue
         /\ Tail(queue) \in Seq(Messages)
         /\ \A i \in DOMAIN Tail(queue) :
              i + 1 \in DOMAIN queue /\ Tail(queue)[i] = queue[i + 1] /\ i \in Nat \ {0}
         /\ \A i \in DOMAIN queue : i # 1 =>
              i - 1 \in DOMAIN Tail(queue) /\ Tail(queue)[i - 1] = queue[i]
  <1>1. queue \in Seq(Messages)
    BY DEF TypeOK
  <1>2. Len(queue) \in Nat \ {0} /\ DOMAIN queue = 1 .. Len(queue)
    BY <1>1, EmptySeq, LenProperties
  <1>3. /\ Head(queue) \in Messages /\ Tail(queue) \in Seq(Messages)
        /\ Len(Tail(queue)) = Len(queue) - 1
        /\ \A i \in 1 .. Len(Tail(queue)) : Tail(queue)[i] = queue[i + 1]
    BY <1>1, HeadTailProperties
  <1>4. DOMAIN Tail(queue) = 1 .. Len(queue) - 1
    BY <1>3, LenProperties
  <1>5. Head(queue) = queue[1]
    BY <1>1
  <1> QED
    BY <1>2, <1>3, <1>4, <1>5

\* Taking the first message keeps the queue in order, if no call of another
\* message changes.
LEMMA QueueTaken ==
  ASSUME TypeOK, QueueInv, queue # <<>>, queue' = Tail(queue),
         \A c \in RpcCalls : reply[c] # "unsent" => reply'[c] # "unsent",
         \A c \in RpcCalls : job_of'[c] = job_of[c] \/ /\ Head(queue).type = "Start"
                                                       /\ c = Head(queue).call
  PROVE  /\ QueueInv' /\ queue' \in Seq(Messages)
         /\ \A j \in JobIds :
              FinishQueued(j) => \/ FinishQueued(j)'
                                 \/ Head(queue).type = "Finish" /\ Head(queue).job = j
  <1>1. \A i \in DOMAIN queue : queue[i] \in Messages
    BY ElementOfSeq, LenProperties DEF TypeOK
  <1>2. \A i \in DOMAIN queue' :
          /\ i + 1 \in DOMAIN queue /\ queue'[i] = queue[i + 1] /\ i \in Nat \ {0}
          /\ i + 1 # 1
    BY QueueHead
  <1>3. \A i \in DOMAIN queue :
          i # 1 /\ (queue[i].type = "Start" \/ queue[i].type = "Cancel") =>
          /\ queue[i].call \in RpcCalls
          /\ job_of'[queue[i].call] = job_of[queue[i].call]
    <2> SUFFICES ASSUME NEW i \in DOMAIN queue, i # 1,
                        queue[i].type = "Start" \/ queue[i].type = "Cancel"
                 PROVE  /\ queue[i].call \in RpcCalls
                        /\ job_of'[queue[i].call] = job_of[queue[i].call]
      OBVIOUS
    <2>1. queue[i].call \in RpcCalls
      BY <1>1, MessageTypes DEF RpcCalls
    <2>2. ~(Head(queue).type = "Start" /\ queue[i].call = Head(queue).call)
      <3>1. Head(queue) = queue[1] /\ 1 \in DOMAIN queue
        BY QueueHead
      <3>2. CASE queue[i].type = "Start"
        BY <3>1, <3>2 DEF QueueInv
      <3>3. CASE queue[i].type = "Cancel"
        BY <1>1, <3>1, <3>3, MessageTypes, BackfillConstants
      <3> QED
        BY <3>2, <3>3
    <2> QED
      BY <2>1, <2>2
  <1>4. QueueInv'
    BY <1>2, <1>3 DEF QueueInv
  <1>5. ASSUME NEW j \in JobIds, FinishQueued(j)
        PROVE  \/ FinishQueued(j)'
               \/ Head(queue).type = "Finish" /\ Head(queue).job = j
    <2>1. PICK i \in DOMAIN queue : queue[i].type = "Finish" /\ queue[i].job = j
      BY <1>5 DEF FinishQueued
    <2> QED
      BY <2>1, QueueHead DEF FinishQueued
  <1> QED
    BY <1>4, <1>5, QueueHead

\* A message at the end of the queue leaves the others where they are.
LEMMA QueueAppended ==
  ASSUME TypeOK, NEW m \in Messages, queue' = Append(queue, m)
  PROVE  /\ queue' \in Seq(Messages)
         /\ \A i \in DOMAIN queue : i \in DOMAIN queue' /\ queue'[i] = queue[i]
         /\ \A i \in DOMAIN queue' : i \in DOMAIN queue \/ queue'[i] = m
         /\ \A i, k \in DOMAIN queue' : i \in DOMAIN queue \/ k \in DOMAIN queue \/ i = k
         /\ \A j \in JobIds : FinishQueued(j) => FinishQueued(j)'
         /\ m.type = "Finish" => FinishQueued(m.job)'
  <1>1. queue \in Seq(Messages)
    BY DEF TypeOK
  <1>2. Len(queue) \in Nat /\ DOMAIN queue = 1 .. Len(queue)
    BY <1>1, LenProperties
  <1>3. /\ queue' \in Seq(Messages)
        /\ Len(queue') = Len(queue) + 1
        /\ \A i \in 1 .. Len(queue) : queue'[i] = queue[i]
        /\ queue'[Len(queue) + 1] = m
    BY <1>1, AppendProperties
  <1>4. DOMAIN queue' = 1 .. Len(queue) + 1
    BY <1>3, LenProperties
  <1>5. /\ \A i \in DOMAIN queue : i \in DOMAIN queue' /\ queue'[i] = queue[i]
        /\ \A i \in DOMAIN queue' : i \in DOMAIN queue \/ i = Len(queue) + 1
        /\ Len(queue) + 1 \in DOMAIN queue'
    BY <1>2, <1>3, <1>4
  <1>6. \A j \in JobIds : FinishQueued(j) => FinishQueued(j)'
    BY <1>5 DEF FinishQueued
  <1>7. m.type = "Finish" => FinishQueued(m.job)'
    BY <1>3, <1>5 DEF FinishQueued
  <1> QED
    BY <1>3, <1>5, <1>6, <1>7
-----------------------------------------------------------------------------
(***************************************************************************)
(* Every step keeps the invariant: the calls.                              *)
(***************************************************************************)

\* A call that is made for the first time, with message m if the ExEx is there.
LEMMA SendStep ==
  ASSUME BackfillInv, NEW c \in RpcCalls, NEW m \in Messages, SendMessage(c, m),
         m.type \in {"Start", "Cancel"}, m.call = c,
         job_of' \in [RpcCalls -> JobIds \cup {-1}],
         \A d \in RpcCalls : d # c => job_of'[d] = job_of[d],
         m.type = "Start" => c \in StartCalls /\ job_of'[c] = job_of[c],
         m.type = "Cancel" => c \in CancelCalls /\ job_of'[c] = m.job
  PROVE  BackfillInv'
  <1> USE DEF BackfillInv
  <1>1. /\ reply[c] = "unsent" /\ reply'[c] \in {"error", "waiting"}
        /\ \A d \in RpcCalls : d # c => reply'[d] = reply[d]
        /\ reply' \in [RpcCalls -> {"unsent", "waiting", "ok", "error", "gone"}]
        /\ UNCHANGED <<exex, current, next_job_id, jobs, permits, task, cancel, pending>>
    BY DEF SendMessage, TypeOK, taskVars
  <1>2. \A i \in DOMAIN queue : queue[i] \in Messages
    BY ElementOfSeq, LenProperties DEF TypeOK
  <1>3. \A i \in DOMAIN queue : queue[i].type \in {"Start", "Cancel"} =>
          queue[i].call \in RpcCalls /\ queue[i].call # c
    BY <1>1, <1>2, MessageTypes DEF QueueInv, RpcCalls
  <1>4. /\ queue' \in Seq(Messages)
        /\ \A j \in JobIds : FinishQueued(j) => FinishQueued(j)'
    BY QueueAppended DEF SendMessage, TypeOK, FinishQueued
  <1>5. TypeOK'
    BY <1>1, <1>4 DEF TypeOK
  <1>6. QueueInv'
    <2>1. CASE queue' = queue
      BY <2>1, <1>1, <1>3 DEF QueueInv
    <2>2. CASE queue' = Append(queue, m)
      <3>1. /\ \A i \in DOMAIN queue' : queue'[i] = m \/ i \in DOMAIN queue
            /\ \A i \in DOMAIN queue : queue'[i] = queue[i]
            /\ \A i, k \in DOMAIN queue' : i \in DOMAIN queue \/ k \in DOMAIN queue \/ i = k
        BY <2>2, QueueAppended
      <3>2. m.type = "Start" => reply'[c] # "unsent" /\ job_of'[c] = -1
        BY <1>1 DEF IdsInv
      <3>3. m.type = "Cancel" => reply'[c] # "unsent" /\ job_of'[c] = m.job
        BY <1>1
      <3> QED
        BY <3>1, <3>2, <3>3, <1>1, <1>3 DEF QueueInv
    <2> QED
      BY <2>1, <2>2 DEF SendMessage
  <1>7. CurrentInv'
    <2>1. exex = "cancelling" => current \in Messages
      BY DEF CurrentInv, TypeOK, NoMessage
    <2> QED
      BY <1>1, <2>1, MessageTypes DEF CurrentInv, RpcCalls
  <1>8. StartCalls \cap CancelCalls = {}
    BY BackfillConstants
  <1>9. IdsInv'
    <2>1. StartedCalls' = StartedCalls
      BY <1>1, <1>8, MessageTypes DEF StartedCalls, RpcCalls, IdsInv
    <2> QED
      BY <2>1, <1>1, <1>8 DEF IdsInv, RpcCalls
  <1>10. CancelledInv'
    BY <1>1 DEF CancelledInv, RpcCalls
  <1>11. ChannelInv'
    BY <1>1 DEF ChannelInv
  <1>12. PermitsConserved' /\ RunningJobIsCancellable'
    BY <1>1 DEF PermitsConserved, Holding, RunningJobIsCancellable
  <1>13. NoStaleJobEntry'
    BY <1>1, <1>4 DEF NoStaleJobEntry, TypeOK
  <1> QED
    BY <1>5, <1>6, <1>7, <1>9, <1>10, <1>11, <1>12, <1>13

LEMMA RpcSteps ==
  ASSUME BackfillInv,
         \/ \E c \in StartCalls : RpcStart(c)
         \/ \E c \in CancelCalls, j \in JobIds : RpcCancel(c, j)
  PROVE  BackfillInv'
  <1>1. ASSUME NEW c \in StartCalls, RpcStart(c)
        PROVE  BackfillInv'
    <2> DEFINE m == [type |-> "Start", call |-> c]
    <2>1. m \in Messages /\ m.type = "Start" /\ m.call = c /\ c \in RpcCalls
      BY DEF Messages, RpcCalls
    <2> HIDE DEF m
    <2>2. SendMessage(c, m) /\ job_of' = job_of
      BY <1>1 DEF RpcStart, m
    <2> QED
      BY <2>1, <2>2, SendStep DEF BackfillInv, TypeOK
  <1>2. ASSUME NEW c \in CancelCalls, NEW j \in JobIds, RpcCancel(c, j)
        PROVE  BackfillInv'
    <2> DEFINE m == [type |-> "Cancel", call |-> c, job |-> j]
    <2>1. m \in Messages /\ m.type = "Cancel" /\ m.call = c /\ m.job = j /\ c \in RpcCalls
      BY DEF Messages, RpcCalls
    <2> HIDE DEF m
    <2>2. SendMessage(c, m) /\ job_of' = [job_of EXCEPT ![c] = j]
      BY <1>2 DEF RpcCancel, m
    <2> QED
      BY <2>1, <2>2, SendStep DEF BackfillInv, TypeOK
  <1> QED
    BY <1>1, <1>2

\* Steps that change at most the answers, from waiting to something else, and
\* what no part of the invariant but TypeOK speaks about.
LEMMA QuietStep ==
  ASSUME BackfillInv, TypeOK',
         \A c \in RpcCalls :
           \/ reply'[c] = reply[c]
           \/ reply[c] # "unsent" /\ reply'[c] \in {"error", "gone"},
         UNCHANGED <<job_of, queue, next_job_id, jobs, permits, task, cancel>>,
         \/ UNCHANGED <<exex, current>>
         \/ exex' = "idle" /\ exex = "starting"
  PROVE  BackfillInv'
  <1> USE DEF BackfillInv
  <1>1. \A i \in DOMAIN queue : queue[i] \in Messages
    BY ElementOfSeq, LenProperties DEF TypeOK
  <1>2. \A i \in DOMAIN queue : queue[i].type \in {"Start", "Cancel"} => queue[i].call \in RpcCalls
    BY <1>1, MessageTypes DEF RpcCalls
  <1>3. QueueInv'
    BY <1>2 DEF QueueInv
  <1>4. CurrentInv'
    <2>1. exex = "cancelling" => current \in Messages
      BY DEF CurrentInv, TypeOK, NoMessage
    <2> QED
      BY <2>1, MessageTypes DEF CurrentInv, RpcCalls
  <1>5. IdsInv' /\ CancelledInv'
    BY DEF IdsInv, StartedCalls, CancelledInv, RpcCalls
  <1>6. ChannelInv' /\ PermitsConserved' /\ RunningJobIsCancellable' /\ NoStaleJobEntry'
    BY DEF ChannelInv, PermitsConserved, Holding, RunningJobIsCancellable, NoStaleJobEntry,
           FinishQueued
  <1> QED
    BY <1>3, <1>4, <1>5, <1>6

LEMMA QuietSteps ==
  ASSUME BackfillInv,
         \/ \E c \in RpcCalls : RpcDropped(c)
         \/ StartupDone
         \/ HandleNotification
         \/ UNCHANGED vars
  PROVE  BackfillInv'
  <1>1. ASSUME NEW c \in RpcCalls, RpcDropped(c)
        PROVE  BackfillInv'
    BY <1>1, QuietStep DEF RpcDropped, BackfillInv, TypeOK, taskVars
  <1>2. CASE StartupDone
    BY <1>2, QuietStep DEF StartupDone, BackfillInv, TypeOK, taskVars
  <1>3. CASE HandleNotification
    BY <1>3, QuietStep, BackfillConstants DEF HandleNotification, BackfillInv, TypeOK, taskVars
  <1>4. CASE UNCHANGED vars
    BY <1>4, QuietStep DEF vars, BackfillInv, TypeOK
  <1> QED
    BY <1>1, <1>2, <1>3, <1>4
-----------------------------------------------------------------------------
(***************************************************************************)
(* The event loop.                                                         *)
(***************************************************************************)

\* The ExEx is dropped with its queue, its map and its cancel channels.
LEMMA StopStep ==
  ASSUME BackfillInv, Stop, pending' \in 0 .. MaxNotifications
  PROVE  BackfillInv'
  <1> USE DEF BackfillInv
  <1>1. /\ exex' = "stopped" /\ queue' = <<>> /\ jobs' = {}
        /\ UNCHANGED <<job_of, current, next_job_id, permits, task>>
        /\ \A c \in RpcCalls :
             reply'[c] = reply[c] \/ (reply[c] = "waiting" /\ reply'[c] = "error")
        /\ \A j \in JobIds : cancel'[j] = IF j \in jobs THEN "closed" ELSE cancel[j]
    BY DEF Stop
  <1>2. TypeOK'
    <2>1. queue' \in Seq(Messages)
      BY <1>1, EmptySeq
    <2>2. reply' \in [RpcCalls -> {"unsent", "waiting", "ok", "error", "gone"}]
      BY DEF Stop, TypeOK
    <2>3. cancel' \in [JobIds -> {"open", "sent", "answered", "closed"}]
      BY DEF Stop, TypeOK
    <2> QED
      BY <1>1, <2>1, <2>2, <2>3 DEF TypeOK
  <1>3. QueueInv' /\ CurrentInv'
    BY <1>1 DEF QueueInv, CurrentInv
  <1>4. IdsInv' /\ CancelledInv'
    BY <1>1 DEF IdsInv, StartedCalls, CancelledInv, RpcCalls
  <1>5. ChannelInv' /\ RunningJobIsCancellable'
    BY <1>1 DEF ChannelInv, RunningJobIsCancellable
  <1>6. PermitsConserved' /\ NoStaleJobEntry'
    BY <1>1 DEF PermitsConserved, Holding, NoStaleJobEntry
  <1> QED
    BY <1>2, <1>3, <1>4, <1>5, <1>6

LEMMA StopSteps ==
  ASSUME BackfillInv, StartupFails \/ NotificationFails
  PROVE  BackfillInv'
  BY StopStep, BackfillConstants DEF StartupFails, NotificationFails, BackfillInv, TypeOK

\* What a task holds is one of finitely many permits.
LEMMA HoldingFinite ==
  /\ IsFiniteSet(JobIds)
  /\ IsFiniteSet(Holding) /\ Cardinality(Holding) \in Nat
  /\ Cardinality(StartCalls) \in Nat
  <1>1. Cardinality(StartCalls) \in Nat
    BY BackfillConstants, FS_CardinalityType
  <1>2. IsFiniteSet(JobIds)
    BY <1>1, FS_Interval DEF JobIds
  <1>3. Holding \in SUBSET JobIds
    BY DEF Holding
  <1> QED
    BY <1>1, <1>2, <1>3, FS_Subset, FS_CardinalityType

\* The answer to a call goes to a caller that waits, or is lost.
LEMMA AnswerFacts ==
  ASSUME TypeOK, NEW c \in RpcCalls, NEW r \in {"ok", "error"}, Answer(c, r)
  PROVE  /\ reply' \in [RpcCalls -> {"unsent", "waiting", "ok", "error", "gone"}]
         /\ \A d \in RpcCalls : reply[d] # "unsent" <=> reply'[d] # "unsent"
         /\ \A d \in RpcCalls : d # c => reply'[d] = reply[d]
         /\ reply'[c] = "ok" => r = "ok" \/ reply[c] = "ok"
  BY DEF Answer, TypeOK

\* The first message is a request that its caller has sent.
LEMMA ReceivedFacts ==
  ASSUME BackfillInv, NEW type, Receive(type)
  PROVE  /\ exex = "idle" /\ queue # <<>> /\ queue' = Tail(queue) /\ pending' = pending
         /\ Head(queue) \in Messages /\ Head(queue).type = type
         /\ type = "Start" => /\ Head(queue).call \in StartCalls
                              /\ Head(queue).call \in RpcCalls
                              /\ job_of[Head(queue).call] = -1
         /\ type = "Cancel" => /\ Head(queue).call \in CancelCalls
                               /\ Head(queue).call \in RpcCalls
                               /\ Head(queue).job \in JobIds
                               /\ reply[Head(queue).call] # "unsent"
                               /\ job_of[Head(queue).call] = Head(queue).job
         /\ type = "Finish" => Head(queue).job \in JobIds
  BY QueueHead, MessageTypes DEF Receive, BackfillInv, QueueInv, RpcCalls

\* A call that gets a job is one of the calls without one, so there is an id
\* for it.
LEMMA FreshJob ==
  ASSUME BackfillInv, Receive("Start"),
         job_of' = [job_of EXCEPT ![Head(queue).call] = next_job_id]
  PROVE  /\ next_job_id \in JobIds
         /\ next_job_id + 1 = Cardinality(StartedCalls')
         /\ next_job_id + 1 \in 0 .. Cardinality(StartCalls)
  <1> DEFINE c == Head(queue).call
  <1>1. c \in StartCalls /\ c \in RpcCalls /\ job_of[c] = -1
    BY ReceivedFacts
  <1>2. next_job_id \in Nat /\ next_job_id = Cardinality(StartedCalls)
    BY HoldingFinite DEF BackfillInv, TypeOK, IdsInv
  <1>3. StartedCalls' = StartedCalls \cup {c} /\ c \notin StartedCalls
    <2>1. \A d \in StartCalls : job_of'[d] = IF d = c THEN next_job_id ELSE job_of[d]
      BY DEF BackfillInv, TypeOK, RpcCalls
    <2>2. next_job_id # -1
      BY <1>2
    <2> QED
      BY <1>1, <2>1, <2>2 DEF StartedCalls
  <1>4. IsFiniteSet(StartCalls) /\ StartedCalls \in SUBSET StartCalls
        /\ StartedCalls' \in SUBSET StartCalls
    BY <1>1, <1>3, BackfillConstants DEF StartedCalls
  <1>5. IsFiniteSet(StartedCalls)
    BY <1>4, FS_Subset
  <1>6. Cardinality(StartedCalls') = Cardinality(StartedCalls) + 1
    BY <1>3, <1>5, FS_AddElement
  <1>7. Cardinality(StartedCalls') <= Cardinality(StartCalls)
    BY <1>4, FS_Subset
  <1> QED
    BY <1>2, <1>6, <1>7, HoldingFinite DEF JobIds

LEMMA StartBackfillStep ==
  ASSUME BackfillInv, StartBackfill
  PROVE  BackfillInv'
  <1> USE DEF BackfillInv
  <1> DEFINE c == Head(queue).call
             j == next_job_id
  <1>1. /\ Receive("Start") /\ Answer(c, "ok") /\ c \in StartCalls /\ c \in RpcCalls
        /\ job_of' = [job_of EXCEPT ![c] = j]
        /\ task' = [task EXCEPT ![j] = "running"]
        /\ jobs' = jobs \cup {j} /\ next_job_id' = j + 1
        /\ permits > 0 /\ permits' = permits - 1
        /\ UNCHANGED <<exex, current, cancel, pending>>
        /\ queue # <<>> /\ queue' = Tail(queue) /\ exex = "idle"
        /\ Head(queue).type = "Start"
    BY ReceivedFacts DEF StartBackfill, Acquire
  <1>2. j \in JobIds /\ j + 1 = Cardinality(StartedCalls') /\ j + 1 \in 0 .. Cardinality(StartCalls)
    BY <1>1, FreshJob
  <1>3. /\ reply' \in [RpcCalls -> {"unsent", "waiting", "ok", "error", "gone"}]
        /\ \A d \in RpcCalls : reply[d] # "unsent" <=> reply'[d] # "unsent"
        /\ \A d \in RpcCalls : d # c => reply'[d] = reply[d]
    BY <1>1, AnswerFacts
  <1>4. task[j] = "none" /\ cancel[j] = "open" /\ j \notin jobs
    BY <1>2 DEF ChannelInv, JobIds
  <1>5. QueueInv' /\ queue' \in Seq(Messages)
        /\ \A k \in JobIds : FinishQueued(k) => FinishQueued(k)'
    BY <1>1, <1>3, QueueTaken DEF TypeOK
  <1>6. TypeOK'
    <2>1. /\ job_of' \in [RpcCalls -> JobIds \cup {-1}]
          /\ jobs' \subseteq JobIds
          /\ permits' \in 0 .. BackfillLimit
          /\ task' \in [JobIds -> {"none", "running", "finished", "cancelled", "exiting", "done"}]
      BY <1>1, <1>2, BackfillConstants DEF TypeOK
    <2> QED
      BY <2>1, <1>1, <1>2, <1>3, <1>5 DEF TypeOK
  <1>7. CurrentInv'
    BY <1>1 DEF CurrentInv
  <1>8. IdsInv'
    BY <1>1, <1>2, <1>3, ReceivedFacts DEF IdsInv, TypeOK, RpcCalls, QueueInv
  <1>9. ChannelInv'
    BY <1>1, <1>2, <1>4, HoldingFinite DEF ChannelInv, TypeOK, JobIds
  <1>10. CancelledInv'
    <2> SUFFICES ASSUME NEW d \in CancelCalls, reply'[d] = "ok"
                 PROVE  /\ job_of'[d] \in JobIds
                        /\ task'[job_of'[d]] \in {"finished", "exiting", "done"}
      BY DEF CancelledInv
    <2>1. d # c /\ d \in RpcCalls
      BY <1>1, BackfillConstants DEF RpcCalls
    <2>2. reply[d] = "ok" /\ job_of'[d] = job_of[d]
      BY <2>1, <1>1, <1>3 DEF TypeOK
    <2> QED
      BY <2>2, <1>1, <1>4 DEF CancelledInv, TypeOK
  <1>11. PermitsConserved'
    <2>1. Holding' = Holding \cup {j} /\ j \notin Holding
      BY <1>1, <1>2, <1>4 DEF Holding, TypeOK
    <2>2. Cardinality(Holding') = Cardinality(Holding) + 1
      BY <2>1, HoldingFinite, FS_AddElement
    <2> QED
      BY <2>2, <1>1, HoldingFinite DEF PermitsConserved, TypeOK
  <1>12. RunningJobIsCancellable'
    BY <1>1 DEF RunningJobIsCancellable, TypeOK
  <1>13. NoStaleJobEntry'
    BY <1>1, <1>2, <1>5 DEF NoStaleJobEntry, TypeOK
  <1> QED
    BY <1>6, <1>5, <1>7, <1>8, <1>9, <1>10, <1>11, <1>12, <1>13
\* The steps of the event loop that start no job: at most entries leave the
\* map, with their channels closed or used for a cancellation, and at most the
\* caller of the first message is answered.
LEMMA LoopStep ==
  ASSUME BackfillInv, TypeOK', NEW type, Receive(type),
         \A c \in RpcCalls : reply[c] # "unsent" => reply'[c] # "unsent",
         \A c \in StartCalls : reply'[c] = "unsent" => reply[c] = "unsent",
         \A c \in CancelCalls : reply'[c] = "ok" => reply[c] = "ok",
         UNCHANGED <<job_of, next_job_id, permits, task>>,
         jobs' \subseteq jobs,
         \A j \in JobIds : \/ cancel'[j] = cancel[j] /\ (j \in jobs => j \in jobs')
                           \/ cancel'[j] = cancel[j] /\ j \notin jobs
                           \/ /\ j \in jobs /\ j \notin jobs'
                              /\ cancel'[j] \in {"sent", "closed"},
         type = "Finish" => Head(queue).job \notin jobs',
         exex' \in {"idle", "cancelling"},
         CurrentInv'
  PROVE  BackfillInv'
  <1> USE DEF BackfillInv
  <1>1. exex = "idle" /\ queue # <<>> /\ queue' = Tail(queue) /\ Head(queue).type = type
    BY DEF Receive
  <1>2. QueueInv' /\ \A j \in JobIds :
          FinishQueued(j) => \/ FinishQueued(j)'
                             \/ type = "Finish" /\ Head(queue).job = j
    BY <1>1, QueueTaken DEF TypeOK
  <1>3. IdsInv'
    BY DEF IdsInv, StartedCalls
  <1>4. ChannelInv'
    BY DEF ChannelInv, TypeOK
  <1>5. CancelledInv'
    BY DEF CancelledInv
  <1>6. PermitsConserved' /\ RunningJobIsCancellable'
    BY DEF PermitsConserved, Holding, RunningJobIsCancellable
  <1>7. NoStaleJobEntry'
    BY <1>2 DEF NoStaleJobEntry, TypeOK
  <1> QED
    BY <1>2, <1>3, <1>4, <1>5, <1>6, <1>7

LEMMA LoopSteps ==
  ASSUME BackfillInv,
         StartBackfillLimit \/ CancelBackfill \/ CancelBackfillFails \/ HandleFinish
  PROVE  BackfillInv'
  <1> USE DEF BackfillInv
  <1>1. ASSUME NEW type, Receive(type)
        PROVE  /\ queue' \in Seq(Messages) /\ pending' = pending
               /\ exex = "idle" /\ Head(queue) \in Messages /\ Head(queue).type = type
    BY <1>1, QueueHead, ReceivedFacts
  <1>2. CASE StartBackfillLimit
    <2>1. /\ Receive("Start") /\ Answer(Head(queue).call, "error")
          /\ Head(queue).call \in RpcCalls
          /\ UNCHANGED <<job_of, exex, current, next_job_id, jobs, permits, task, cancel>>
      BY <1>2, ReceivedFacts DEF StartBackfillLimit, taskVars
    <2>2. /\ reply' \in [RpcCalls -> {"unsent", "waiting", "ok", "error", "gone"}]
          /\ \A d \in RpcCalls : reply[d] # "unsent" <=> reply'[d] # "unsent"
          /\ \A d \in RpcCalls : reply'[d] = "ok" => reply[d] = "ok"
      BY <2>1, AnswerFacts
    <2>3. TypeOK' /\ CurrentInv' /\ exex' = "idle"
      BY <1>1, <2>1, <2>2 DEF TypeOK, CurrentInv
    <2> QED
      BY <2>1, <2>2, <2>3, LoopStep DEF RpcCalls
  <1>3. CASE CancelBackfill
    <2> DEFINE j == Head(queue).job
    <2>1. /\ Receive("Cancel") /\ j \in jobs /\ task[j] = "running" /\ j \in JobIds
          /\ jobs' = jobs \ {j} /\ cancel' = [cancel EXCEPT ![j] = "sent"]
          /\ exex' = "cancelling" /\ current' = Head(queue)
          /\ UNCHANGED <<reply, job_of, next_job_id, permits, task>>
      BY <1>3, ReceivedFacts DEF CancelBackfill
    <2>2. TypeOK'
      BY <1>1, <2>1 DEF TypeOK
    <2>3. CurrentInv'
      BY <2>1, ReceivedFacts DEF CurrentInv
    <2> QED
      BY <2>1, <2>2, <2>3, LoopStep DEF TypeOK
  <1>4. CASE CancelBackfillFails
    <2> DEFINE j == Head(queue).job
    <2>1. /\ Receive("Cancel") /\ j \in JobIds /\ Head(queue).call \in RpcCalls
          /\ jobs' = jobs \ {j} /\ Answer(Head(queue).call, "error")
          /\ cancel' = IF j \in jobs THEN [cancel EXCEPT ![j] = "closed"] ELSE cancel
          /\ UNCHANGED <<job_of, exex, current, next_job_id, permits, task>>
      BY <1>4, ReceivedFacts DEF CancelBackfillFails
    <2>2. /\ reply' \in [RpcCalls -> {"unsent", "waiting", "ok", "error", "gone"}]
          /\ \A d \in RpcCalls : reply[d] # "unsent" <=> reply'[d] # "unsent"
          /\ \A d \in RpcCalls : reply'[d] = "ok" => reply[d] = "ok"
      BY <2>1, AnswerFacts
    <2>3. TypeOK' /\ CurrentInv' /\ exex' = "idle"
      BY <1>1, <2>1, <2>2 DEF TypeOK, CurrentInv
    <2> QED
      BY <2>1, <2>2, <2>3, LoopStep DEF TypeOK, RpcCalls
  <1>5. CASE HandleFinish
    <2> DEFINE j == Head(queue).job
    <2>1. /\ Receive("Finish") /\ j \in JobIds /\ jobs' = jobs \ {j}
          /\ cancel' = IF j \in jobs THEN [cancel EXCEPT ![j] = "closed"] ELSE cancel
          /\ UNCHANGED <<reply, job_of, exex, current, next_job_id, permits, task>>
      BY <1>5, ReceivedFacts DEF HandleFinish
    <2>2. TypeOK' /\ CurrentInv' /\ exex' = "idle"
      BY <1>1, <2>1 DEF TypeOK, CurrentInv
    <2> QED
      BY <2>1, <2>2, LoopStep DEF TypeOK
  <1> QED
    BY <1>2, <1>3, <1>4, <1>5

\* The loop returns from waiting for the task of a cancelled job.
LEMMA CancelAnsweredStep ==
  ASSUME BackfillInv, CancelAnswered
  PROVE  BackfillInv'
  <1> USE DEF BackfillInv
  <1> DEFINE c == current.call
             j == current.job
  <1>1. /\ exex = "cancelling" /\ cancel[j] = "answered" /\ Answer(c, "ok")
        /\ jobs' = jobs \ {j} /\ exex' = "idle" /\ current' = NoMessage
        /\ UNCHANGED <<job_of, queue, next_job_id, permits, task, cancel, pending>>
    BY DEF CancelAnswered, Acknowledged, taskVars
  <1>2. /\ current \in Messages /\ c \in CancelCalls /\ c \in RpcCalls /\ j \in JobIds
        /\ job_of[c] = j /\ reply[c] # "unsent"
    BY <1>1, MessageTypes DEF CurrentInv, TypeOK, NoMessage, RpcCalls
  <1>3. task[j] \in {"finished", "exiting", "done"}
    BY <1>1, <1>2 DEF ChannelInv
  <1>4. /\ reply' \in [RpcCalls -> {"unsent", "waiting", "ok", "error", "gone"}]
        /\ \A d \in RpcCalls : reply[d] # "unsent" <=> reply'[d] # "unsent"
        /\ \A d \in RpcCalls : d # c => reply'[d] = reply[d]
    BY <1>1, <1>2, AnswerFacts
  <1>5. TypeOK'
    BY <1>1, <1>4 DEF TypeOK
  <1>6. QueueInv'
    <2>1. \A i \in DOMAIN queue : queue[i] \in Messages
      BY ElementOfSeq, LenProperties DEF TypeOK
    <2>2. \A i \in DOMAIN queue : queue[i].type \in {"Start", "Cancel"} =>
            queue[i].call \in RpcCalls
      BY <2>1, MessageTypes DEF RpcCalls
    <2> QED
      BY <2>2, <1>1, <1>4 DEF QueueInv
  <1>7. IdsInv' /\ CurrentInv'
    BY <1>1, <1>4 DEF IdsInv, StartedCalls, RpcCalls, CurrentInv
  <1>8. ChannelInv'
    BY <1>1 DEF ChannelInv, TypeOK
  <1>9. CancelledInv'
    BY <1>1, <1>2, <1>3, <1>4 DEF CancelledInv, RpcCalls
  <1>10. PermitsConserved' /\ RunningJobIsCancellable'
    BY <1>1, <1>3 DEF PermitsConserved, Holding, RunningJobIsCancellable
  <1>11. NoStaleJobEntry'
    BY <1>1 DEF NoStaleJobEntry, FinishQueued
  <1> QED
    BY <1>5, <1>6, <1>7, <1>8, <1>9, <1>10, <1>11

-----------------------------------------------------------------------------
(***************************************************************************)
(* The tasks.                                                              *)
(***************************************************************************)

\* A task goes on; it may answer the cancellation that is in its channel, and
\* may send its Finish.
LEMMA TaskKeepsInv ==
  ASSUME BackfillInv, NEW j \in JobIds, NEW from, NEW to, TaskGoes(j, from, to),
         \/ from = "running" /\ to = "finished" /\ CancelAnswer(j) /\ queue' = queue
         \/ /\ from = "running" /\ to = "cancelled" /\ cancel[j] \in {"sent", "closed"}
            /\ UNCHANGED <<cancel, queue>>
         \/ from = "cancelled" /\ to = "exiting" /\ CancelAnswer(j) /\ queue' = queue
         \/ /\ from = "finished" /\ to = "exiting" /\ cancel' = cancel
            /\ queue' = IF exex = "stopped" THEN queue
                        ELSE Append(queue, [type |-> "Finish", job |-> j])
         \/ from = "exiting" /\ to = "done" /\ UNCHANGED <<cancel, queue>>,
         permits' = IF to = "done" THEN permits + 1 ELSE permits,
         UNCHANGED <<reply, exexVars>>
  PROVE  BackfillInv'
  <1> USE DEF BackfillInv
  <1> DEFINE m == [type |-> "Finish", job |-> j]
  <1>1. /\ task[j] = from /\ task' = [task EXCEPT ![j] = to] /\ task'[j] = to
        /\ from # "none" /\ to # "none" /\ to # "running" /\ from # "done"
        /\ to \in {"finished", "cancelled", "exiting", "done"}
        /\ \A k \in JobIds : k # j => task'[k] = task[k]
        /\ UNCHANGED <<reply, job_of, exex, current, next_job_id, jobs, pending>>
    BY DEF TaskGoes, TypeOK, exexVars
  <1>2. /\ cancel' \in [JobIds -> {"open", "sent", "answered", "closed"}]
        /\ \A k \in JobIds : \/ cancel'[k] = cancel[k]
                             \/ /\ k = j /\ cancel[k] = "sent" /\ cancel'[k] = "answered"
                                /\ to \in {"finished", "exiting"}
    BY DEF CancelAnswer, TypeOK
  <1>3. m \in Messages /\ m.type = "Finish" /\ m.job = j
    BY DEF Messages
  <1>4. queue' = queue \/ (queue' = Append(queue, m) /\ from = "finished" /\ to = "exiting")
    OBVIOUS
  <1> HIDE DEF m
  <1>5. queue' \in Seq(Messages) /\ \A k \in JobIds : FinishQueued(k) => FinishQueued(k)'
    <2>1. CASE queue' = queue
      BY <2>1 DEF FinishQueued, TypeOK
    <2>2. CASE queue' = Append(queue, m)
      BY <1>3, <2>2, QueueAppended
    <2> QED
      BY <1>4, <2>1, <2>2
  <1>6. QueueInv'
    <2>1. CASE queue' = queue
      BY <1>1, <2>1 DEF QueueInv
    <2>2. CASE queue' = Append(queue, m)
      BY <1>1, <1>3, <2>2, QueueAppended DEF QueueInv
    <2> QED
      BY <1>4, <2>1, <2>2
  <1>7. CurrentInv' /\ IdsInv'
    BY <1>1 DEF CurrentInv, IdsInv, StartedCalls
  <1>8. ChannelInv'
    <2>1. cancel[j] = "answered" => task'[j] \in {"finished", "exiting", "done"}
      BY <1>1 DEF ChannelInv
    <2> QED
      BY <2>1, <1>1, <1>2 DEF ChannelInv, TypeOK
  <1>9. CancelledInv'
    <2>1. from \in {"finished", "exiting", "done"} => to \in {"finished", "exiting", "done"}
      OBVIOUS
    <2> QED
      BY <2>1, <1>1 DEF CancelledInv
  <1>10. TypeOK' /\ PermitsConserved'
    <2>1. CASE to # "done"
      <3>1. Holding' = Holding
        BY <1>1, <2>1 DEF Holding
      <3>2. PermitsConserved' /\ permits' = permits
        BY <2>1, <3>1 DEF PermitsConserved
      <3> QED
        BY <3>2, <1>1, <1>2, <1>5 DEF TypeOK
    <2>2. CASE to = "done"
      <3>1. Holding' = Holding \ {j} /\ j \in Holding
        BY <1>1, <2>2 DEF Holding
      <3>2. Cardinality(Holding') = Cardinality(Holding) - 1 /\ IsFiniteSet(Holding')
        BY <3>1, HoldingFinite, FS_RemoveElement
      <3>3. Cardinality(Holding') \in Nat /\ Cardinality(Holding) \in Nat
        BY <3>2, HoldingFinite, FS_CardinalityType
      <3>4. permits' = permits + 1 /\ permits \in Nat /\ BackfillLimit \in Nat
        BY <2>2, BackfillConstants DEF TypeOK
      <3>5. Cardinality(Holding) + permits = BackfillLimit
        BY DEF PermitsConserved
      <3>6. permits' \in 0 .. BackfillLimit /\ Cardinality(Holding') + permits' = BackfillLimit
        BY <3>2, <3>3, <3>4, <3>5
      <3> QED
        BY <3>6, <1>1, <1>2, <1>5 DEF TypeOK, PermitsConserved
    <2> QED
      BY <2>1, <2>2
  <1>11. RunningJobIsCancellable'
    BY <1>1, <1>2 DEF RunningJobIsCancellable
  <1>12. NoStaleJobEntry'
    <2> SUFFICES ASSUME NEW k \in jobs'
                 PROVE  task'[k] \in {"running", "finished"} \/ FinishQueued(k)'
      BY DEF NoStaleJobEntry
    <2>1. k \in jobs /\ k \in JobIds
      BY <1>1 DEF TypeOK
    <2>2. CASE k # j
      BY <2>1, <2>2, <1>1, <1>5 DEF NoStaleJobEntry
    <2>3. CASE k = j
      <3>1. cancel[j] = "open" /\ exex # "stopped"
        BY <2>1, <2>3 DEF ChannelInv
      <3>2. CASE from = "finished"
        BY <3>1, <3>2, <2>3, <1>3, QueueAppended DEF m
      <3>3. CASE from # "finished"
        BY <3>1, <3>3, <2>1, <2>3, <1>1, <1>5 DEF NoStaleJobEntry
      <3> QED
        BY <3>2, <3>3
    <2> QED
      BY <2>2, <2>3
  <1> QED
    BY <1>6, <1>7, <1>8, <1>9, <1>10, <1>11, <1>12

LEMMA TaskSteps ==
  ASSUME BackfillInv, NEW j \in JobIds, TaskStep(j) \/ TaskBackfillFails(j)
  PROVE  BackfillInv'
  <1>1. CASE TaskBackfillDone(j) \/ TaskBackfillFails(j)
    BY <1>1, TaskKeepsInv DEF TaskBackfillDone, TaskBackfillFails
  <1>2. CASE TaskSendsFinish(j)
    BY <1>2, TaskKeepsInv DEF TaskSendsFinish
  <1>3. CASE TaskCancelled(j)
    BY <1>3, TaskKeepsInv DEF TaskCancelled
  <1>4. CASE TaskAcknowledges(j)
    BY <1>4, TaskKeepsInv DEF TaskAcknowledges
  <1>5. CASE TaskExits(j)
    BY <1>5, TaskKeepsInv DEF TaskExits
  <1> QED
    BY <1>1, <1>2, <1>3, <1>4, <1>5 DEF TaskStep
-----------------------------------------------------------------------------
(***************************************************************************)
(* The theorems.                                                           *)
(***************************************************************************)
LEMMA BackfillInit == Init => BackfillInv
  <1> SUFFICES ASSUME Init
               PROVE  BackfillInv
    OBVIOUS
  <1>1. Cardinality(StartCalls) \in Nat /\ BackfillLimit \in Nat /\ MaxNotifications \in Nat
    BY HoldingFinite, BackfillConstants
  <1>2. queue = <<>> /\ queue \in Seq(Messages)
    BY EmptySeq DEF Init
  <1>3. TypeOK
    BY <1>1, <1>2 DEF Init, TypeOK, RpcCalls
  <1>4. QueueInv /\ CurrentInv
    BY <1>2 DEF Init, QueueInv, CurrentInv
  <1>5. IdsInv
    <2>1. StartedCalls = {}
      BY DEF Init, StartedCalls, RpcCalls
    <2> QED
      BY <2>1, FS_EmptySet DEF Init, IdsInv, RpcCalls
  <1>6. ChannelInv /\ RunningJobIsCancellable
    BY <1>1 DEF Init, ChannelInv, RunningJobIsCancellable, JobIds
  <1>7. CancelledInv /\ NoStaleJobEntry
    BY DEF Init, CancelledInv, NoStaleJobEntry, RpcCalls
  <1>8. PermitsConserved
    <2>1. Holding = {}
      BY DEF Init, Holding
    <2> QED
      BY <2>1, <1>1, FS_EmptySet DEF Init, PermitsConserved
  <1> QED
    BY <1>3, <1>4, <1>5, <1>6, <1>7, <1>8 DEF BackfillInv

LEMMA BackfillNext == BackfillInv /\ [Next]_vars => BackfillInv'
  <1> SUFFICES ASSUME BackfillInv, [Next]_vars
               PROVE  BackfillInv'
    OBVIOUS
  <1>1. CASE \/ \E c \in StartCalls : RpcStart(c)
             \/ \E c \in CancelCalls, j \in JobIds : RpcCancel(c, j)
    BY <1>1, RpcSteps
  <1>2. CASE \/ \E c \in RpcCalls : RpcDropped(c)
             \/ StartupDone
             \/ HandleNotification
             \/ UNCHANGED vars
    BY <1>2, QuietSteps
  <1>3. CASE StartupFails \/ NotificationFails
    BY <1>3, StopSteps
  <1>4. CASE HandleMessage
    BY <1>4, StartBackfillStep, LoopSteps DEF HandleMessage
  <1>5. CASE CancelAnswered
    BY <1>5, CancelAnsweredStep
  <1>6. CASE \E j \in JobIds : TaskStep(j) \/ TaskBackfillFails(j)
    BY <1>6, TaskSteps
  <1> QED
    BY <1>1, <1>2, <1>3, <1>4, <1>5, <1>6 DEF Next

LEMMA BackfillInvariant == Spec => []BackfillInv
  BY BackfillInit, BackfillNext, PTL DEF Spec

\* Every reachable state of the backfill ExEx is well typed: there is an id for
\* every job that is started, and no permit is given back twice
\* (BackfillExEx of main.rs).
THEOREM BackfillTypeCorrect == Spec => []TypeOK
  <1>1. BackfillInv => TypeOK
    BY DEF BackfillInv
  <1> QED
    BY <1>1, BackfillInvariant, PTL

\* "Semaphore to limit the number of concurrent backfills": in every
\* interleaving of starts, cancellations, ends, failures and the end of the ExEx,
\* the tasks that have not returned and the free permits are the limit.
THEOREM PermitsCorrect == Spec => []PermitsConserved
  <1>1. BackfillInv => PermitsConserved
    BY DEF BackfillInv
  <1> QED
    BY <1>1, BackfillInvariant, PTL

\* Whoever is told that a job was cancelled can rely on it: the task of the job
\* has left its select! (cancel_backfill of main.rs).
THEOREM CancelCorrect == Spec => []CancelledJobStopped
  <1>1. BackfillInv => CancelledJobStopped
    BY DEF BackfillInv, CancelledInv, CancelledJobStopped
  <1> QED
    BY <1>1, BackfillInvariant, PTL

\* No job runs that nobody can stop, whoever removes entries from the map.
THEOREM CancellableCorrect == Spec => []RunningJobIsCancellable
  <1>1. BackfillInv => RunningJobIsCancellable
    BY DEF BackfillInv
  <1> QED
    BY <1>1, BackfillInvariant, PTL

\* The map of jobs does not leak: the entry of a job outlives its task only
\* as long as the Finish of the task is in the queue.
THEOREM EntriesCorrect == Spec => []NoStaleJobEntry
  <1>1. BackfillInv => NoStaleJobEntry
    BY DEF BackfillInv
  <1> QED
    BY <1>1, BackfillInvariant, PTL
=============================================================================
