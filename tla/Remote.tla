------------------------------- MODULE Remote -------------------------------
(***************************************************************************)
(* The remote ExEx (remote/bin/exex.rs) and its consumers                  *)
(* (remote/bin/consumer.rs).  The ExEx broadcasts each notification on a   *)
(* channel that holds one; for each consumer a task of the gRPC service    *)
(* receives, encodes and forwards it to the response stream; the consumer  *)
(* decodes it.  The steps of all of them interleave.                       *)
(*                                                                         *)
(* The state holds the positions of notifications: what is at position i   *)
(* is Payload[i], on the wire Encode(Payload[i]) (module Codec).           *)
(*                                                                         *)
(* External: the broadcast channel of tokio keeps the last Capacity values *)
(* and tells a receiver that is further behind that it lags; a bounded     *)
(* mpsc channel hands over in order and fails to send once the receiver is *)
(* dropped; the transport takes messages from the response stream as long  *)
(* as its window allows and loses them with the connection.                *)
(***************************************************************************)
EXTENDS Codec, SequencesExt

CONSTANTS
  Consumers,     \* runs of the consumer
  Fair,          \* the consumers that keep reading while they run
  Payload,       \* BOUND: the notifications of the node, in order
  MaxQueued,     \* BOUND: notifications waiting for the ExEx
  Capacity,      \* broadcast::channel(1)
  ChannelSize,   \* mpsc::channel(1)
  Window         \* BOUND: messages the transport holds for a consumer

ASSUME RemoteConstants ==
  /\ Fair \subseteq Consumers
  /\ Payload \in Seq(NotificationType)
  /\ MaxQueued \in Nat \ {0}
  /\ Capacity \in Nat \ {0}
  /\ ChannelSize \in Nat \ {0}
  /\ Window \in Nat \ {0}

VARIABLES
  emitted,    \* notifications the node has handed to the ExEx
  exex,       \* idle, reported (height sent, broadcast next), ended
  finished,   \* position of the last FinishedHeight
  sent,       \* position of the last broadcast
  consumer,   \* per consumer: idle, reading, ended, failed, gone
  task,       \* per consumer: its forwarding task: none, recv, send, ended, panicked
  first,      \* per consumer: sent when it subscribed
  pos,        \* per consumer: position its task has received last
  open,       \* per consumer: the response stream holds the receiver
  chan,       \* per consumer: positions in the mpsc channel
  wire,       \* per consumer: positions in the transport
  got         \* per consumer: positions of what it has decoded

exexVars == <<emitted, exex, finished, sent>>
streamVars == <<consumer, task, first, pos, open, chan, wire, got>>
vars == <<exexVars, streamVars>>

Positions == 1 .. Len(Payload)

Committing == {i \in Positions : Payload[i].new # None}

TypeOK ==
  /\ emitted \in {0} \cup Positions
  /\ exex \in {"idle", "reported", "ended"}
  /\ finished \in {0} \cup Positions
  /\ sent \in 0 .. emitted
  /\ consumer \in [Consumers -> {"idle", "reading", "ended", "failed", "gone"}]
  /\ task \in [Consumers -> {"none", "recv", "send", "ended", "panicked"}]
  /\ first \in [Consumers -> 0 .. sent]
  /\ pos \in [Consumers -> 0 .. sent]
  /\ open \in [Consumers -> BOOLEAN]
  /\ chan \in [Consumers -> Seq(Positions)]
  /\ wire \in [Consumers -> Seq(Positions)]
  /\ got \in [Consumers -> Seq(Positions)]
  /\ \A c \in Consumers : Len(chan[c]) <= ChannelSize /\ Len(wire[c]) <= Window

Init ==
  /\ emitted = 0 /\ exex = "idle" /\ finished = 0 /\ sent = 0
  /\ consumer = [c \in Consumers |-> "idle"]
  /\ task = [c \in Consumers |-> "none"]
  /\ first = [c \in Consumers |-> 0]
  /\ pos = [c \in Consumers |-> 0]
  /\ open = [c \in Consumers |-> FALSE]
  /\ chan = [c \in Consumers |-> <<>>]
  /\ wire = [c \in Consumers |-> <<>>]
  /\ got = [c \in Consumers |-> <<>>]

-----------------------------------------------------------------------------
(***************************************************************************)
(* The ExEx.                                                               *)
(***************************************************************************)

\* The node hands over its next notification.
NodeNotifies ==
  /\ exex # "ended"
  /\ emitted + 1 \in Positions /\ emitted - sent < MaxQueued
  /\ emitted' = emitted + 1
  /\ UNCHANGED <<exex, finished, sent, streamVars>>

\* A notification with a committed chain: its tip is reported first.
ReportHeight ==
  /\ exex = "idle" /\ sent < emitted
  /\ sent + 1 \in Committing
  /\ exex' = "reported"
  /\ finished' = sent + 1
  /\ UNCHANGED <<emitted, sent, streamVars>>

BroadcastIsNext ==
  \/ exex = "reported"
  \/ exex = "idle" /\ sent < emitted /\ sent + 1 \notin Committing

\* Mutant of Broadcast: the send waits until no task is behind.
BroadcastWaits ==
  /\ BroadcastIsNext
  /\ \A c \in Consumers : task[c] \in {"recv", "send"} => task[c] = "recv" /\ pos[c] = sent
  /\ exex' = "idle"
  /\ sent' = sent + 1
  /\ UNCHANGED <<emitted, finished, streamVars>>

\* The broadcast never waits; without a receiver the value is dropped.
Broadcast ==
  /\ BroadcastIsNext
  /\ exex' = "idle"
  /\ sent' = sent + 1
  /\ UNCHANGED <<emitted, finished, streamVars>>

\* The stream of notifications ends or fails, or the event cannot be sent:
\* nothing is broadcast any more, and the service keeps the streams open.
ExExEnds ==
  /\ exex = "idle"
  /\ exex' = "ended"
  /\ UNCHANGED <<emitted, finished, sent, streamVars>>

-----------------------------------------------------------------------------
(***************************************************************************)
(* The service: subscribe and the forwarding task of consumer c.           *)
(***************************************************************************)
Subscribe(c) ==
  /\ consumer[c] = "idle"
  /\ consumer' = [consumer EXCEPT ![c] = "reading"]
  /\ task' = [task EXCEPT ![c] = "recv"]
  /\ first' = [first EXCEPT ![c] = sent]
  /\ pos' = [pos EXCEPT ![c] = sent]
  /\ open' = [open EXCEPT ![c] = TRUE]
  /\ UNCHANGED <<exexVars, chan, wire, got>>

Lags(c) == sent - pos[c] > Capacity

TaskRecv(c) ==
  /\ task[c] = "recv" /\ pos[c] < sent /\ ~Lags(c)
  /\ task' = [task EXCEPT ![c] = "send"]
  /\ pos' = [pos EXCEPT ![c] = @ + 1]
  /\ UNCHANGED <<exexVars, consumer, first, open, chan, wire, got>>

\* Mutant of TaskLagged: the task goes on with the oldest value that is left.
TaskLaggedContinues(c) ==
  /\ task[c] = "recv" /\ Lags(c)
  /\ pos' = [pos EXCEPT ![c] = sent - Capacity]
  /\ UNCHANGED <<exexVars, consumer, task, first, open, chan, wire, got>>

\* recv() is Err(Lagged): `while let Ok` ends the task, which drops its sender.
TaskLagged(c) ==
  /\ task[c] = "recv" /\ pos[c] < sent /\ Lags(c)
  /\ task' = [task EXCEPT ![c] = "ended"]
  /\ UNCHANGED <<exexVars, consumer, first, pos, open, chan, wire, got>>

\* Mutant of TaskSend: try_send instead of send; the task ends when it fails.
TaskTrySend(c) ==
  /\ task[c] = "send" /\ open[c]
  /\ IF Len(chan[c]) < ChannelSize
     THEN /\ chan' = [chan EXCEPT ![c] = Append(@, pos[c])]
          /\ task' = [task EXCEPT ![c] = "recv"]
     ELSE task' = [task EXCEPT ![c] = "ended"] /\ UNCHANGED chan
  /\ UNCHANGED <<exexVars, consumer, first, pos, open, wire, got>>

\* Mutant of TaskSend: an unbounded channel.
TaskSendUnbounded(c) ==
  /\ task[c] = "send" /\ open[c]
  /\ chan' = [chan EXCEPT ![c] = Append(@, pos[c])]
  /\ task' = [task EXCEPT ![c] = "recv"]
  /\ UNCHANGED <<exexVars, consumer, first, pos, open, wire, got>>

\* tx.send: waits for room in the channel.
TaskSend(c) ==
  /\ task[c] = "send" /\ open[c]
  /\ Len(chan[c]) < ChannelSize
  /\ chan' = [chan EXCEPT ![c] = Append(@, pos[c])]
  /\ task' = [task EXCEPT ![c] = "recv"]
  /\ UNCHANGED <<exexVars, consumer, first, pos, open, wire, got>>

\* Mutant of TaskPanics: `let _ = tx.send(..)`, the error is ignored and the
\* task goes on receiving for nobody.
TaskIgnoresError(c) ==
  /\ task[c] = "send" /\ ~open[c]
  /\ task' = [task EXCEPT ![c] = "recv"]
  /\ UNCHANGED <<exexVars, consumer, first, pos, open, chan, wire, got>>

\* expect("failed to send notification to client").
TaskPanics(c) ==
  /\ task[c] = "send" /\ ~open[c]
  /\ task' = [task EXCEPT ![c] = "panicked"]
  /\ UNCHANGED <<exexVars, consumer, first, pos, open, chan, wire, got>>

Task(c) == TaskRecv(c) \/ TaskLagged(c) \/ TaskSend(c) \/ TaskPanics(c)

-----------------------------------------------------------------------------
(***************************************************************************)
(* External: the response stream and the transport.                        *)
(***************************************************************************)
Transport(c) ==
  /\ open[c] /\ consumer[c] = "reading"
  /\ chan[c] # <<>> /\ Len(wire[c]) < Window
  /\ wire' = [wire EXCEPT ![c] = Append(@, Head(chan[c]))]
  /\ chan' = [chan EXCEPT ![c] = Tail(@)]
  /\ UNCHANGED <<exexVars, consumer, task, first, pos, open, got>>

\* The server notices that the consumer has left.
DropStream(c) ==
  /\ open[c] /\ consumer[c] # "reading"
  /\ open' = [open EXCEPT ![c] = FALSE]
  /\ chan' = [chan EXCEPT ![c] = <<>>]
  /\ UNCHANGED <<exexVars, consumer, task, first, pos, wire, got>>

-----------------------------------------------------------------------------
(***************************************************************************)
(* The consumer.                                                           *)
(***************************************************************************)
Received(i) == DecodeNotification(EncodeNotification(Payload[i]))

Undecodable == {i \in Positions : Received(i) = Err}

\* A message is decoded; when that fails the consumer ends with the error.
ConsumerReads(c) ==
  LET i == Head(wire[c])
  IN  /\ consumer[c] = "reading" /\ wire[c] # <<>>
      /\ wire' = [wire EXCEPT ![c] = Tail(@)]
      /\ IF i \in Undecodable
         THEN consumer' = [consumer EXCEPT ![c] = "failed"] /\ UNCHANGED got
         ELSE got' = [got EXCEPT ![c] = Append(@, i)] /\ UNCHANGED consumer
      /\ UNCHANGED <<exexVars, task, first, pos, open, chan>>

\* Mutant of ConsumerEnds: a stream whose sender is dropped stays open.
ConsumerEndsOnPanic(c) ==
  /\ consumer[c] = "reading" /\ wire[c] = <<>> /\ chan[c] = <<>>
  /\ task[c] = "panicked"
  /\ consumer' = [consumer EXCEPT ![c] = "ended"]
  /\ UNCHANGED <<exexVars, task, first, pos, open, chan, wire, got>>

\* The stream is drained and its sender is dropped: message() is None and the
\* consumer returns Ok.
ConsumerEnds(c) ==
  /\ consumer[c] = "reading" /\ wire[c] = <<>> /\ chan[c] = <<>>
  /\ task[c] = "ended"
  /\ consumer' = [consumer EXCEPT ![c] = "ended"]
  /\ UNCHANGED <<exexVars, task, first, pos, open, chan, wire, got>>

\* The consumer is killed or its connection breaks.
ConsumerLeaves(c) ==
  /\ consumer[c] = "reading"
  /\ consumer' = [consumer EXCEPT ![c] = "gone"]
  /\ wire' = [wire EXCEPT ![c] = <<>>]
  /\ UNCHANGED <<exexVars, task, first, pos, open, chan, got>>

-----------------------------------------------------------------------------
Next ==
  \/ NodeNotifies
  \/ ReportHeight
  \/ Broadcast
  \/ ExExEnds
  \/ \E c \in Consumers :
       \/ Subscribe(c)
       \/ Task(c)
       \/ Transport(c)
       \/ DropStream(c)
       \/ ConsumerReads(c)
       \/ ConsumerEnds(c)
       \/ ConsumerLeaves(c)

\* The runtime polls what has been woken and the transport goes on; only the
\* consumers in Fair are known to read.
Spec ==
  /\ Init /\ [][Next]_vars
  /\ WF_vars(ReportHeight \/ Broadcast)
  /\ \A c \in Consumers : WF_vars(Task(c)) /\ WF_vars(Transport(c) \/ DropStream(c))
  /\ \A c \in Fair : WF_vars(ConsumerReads(c) \/ ConsumerEnds(c))

-----------------------------------------------------------------------------
(***************************************************************************)
(* Properties.                                                             *)
(***************************************************************************)

\* The positions from .. to, in order.
Segment(from, to) == [i \in 1 .. to - from + 1 |-> from + i - 1]

Held(c) == IF task[c] = "send" THEN <<pos[c]>> ELSE <<>>

\* What a consumer has decoded, what the transport and the channel hold for it
\* and what its task is about to send are, in this order, exactly the
\* notifications from its subscription to the last its task has received:
\* none is skipped, doubled or out of order on any hop.
StreamIsContiguous ==
  \A c \in Consumers :
    /\ got[c] = Segment(first[c] + 1, first[c] + Len(got[c]))
    /\ consumer[c] = "reading" =>
         got[c] \o wire[c] \o chan[c] \o Held(c) = Segment(first[c] + 1, pos[c])

\* A consumer that returns Ok because its stream ended has all that was sent
\* before the end and has missed the notification after it: the stream ends
\* for no other reason than that a newer broadcast has overwritten it.
CleanEndMeansOverwritten ==
  \A c \in Consumers : consumer[c] = "ended" =>
    /\ first[c] + Len(got[c]) = pos[c]
    /\ sent > pos[c] + Capacity

Faithful == {i \in Positions : Received(i) = Kept(Payload[i])}

\* Every notification of the node decodes at a consumer, to what the node sent
\* but for the fields that have no place in the messages.
ReceivedAsSent ==
  \A c \in Consumers : consumer[c] # "failed" /\ Range(got[c]) \subseteq Faithful

\* A consumer that reads catches up with the broadcasts since its
\* subscription, or its stream is over, whatever the other consumers do: a slow consumer costs
\* nobody else a notification, and nobody waits forever on a stream that its
\* task has given up.
DeliveredOrEnded ==
  \A c \in Fair :
    (consumer[c] = "reading" /\ first[c] + Len(got[c]) < sent)
      ~> (first[c] + Len(got[c]) = sent \/ consumer[c] # "reading")

\* Consumers that do not read never hold up the ExEx: each notification of the
\* node is broadcast unless the ExEx ends.
ExExKeepsUp ==
  (sent < emitted) ~> (sent = emitted \/ exex = "ended")

\* The task of a consumer that has left does not outlive the next broadcast.
TaskReleased ==
  \A c \in Consumers :
    (~open[c] /\ (task[c] = "send" \/ (task[c] = "recv" /\ pos[c] < sent)))
      ~> task[c] \in {"ended", "panicked"}
=============================================================================
