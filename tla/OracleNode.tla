----------------------------- MODULE OracleNode -----------------------------
(***************************************************************************)
(* The future of the oracle (oracle/src/oracle.rs): each poll drains the   *)
(* network (network/mod.rs, discovery.rs), then the data feed              *)
(* (offchain_data/binance), then the ExEx (exex.rs, module InMemoryState). *)
(*                                                                         *)
(* A step takes one item or finds a source Pending and goes on to the next *)
(* one.  Between polls the oracle sleeps: it is polled again when a source *)
(* with its waker has something, or when it has woken itself.              *)
(*                                                                         *)
(* Left out: what is only logged (the protocol events, other discovery     *)
(* events); a signed ticker is fed to the connections of OracleGossip.        *)
(***************************************************************************)
EXTENDS InMemoryState

CONSTANTS
  MaxRetries,     \* max_retries of connect_with_retries
  MaxFeedInputs,  \* BOUND: messages of the feed and breaks of its connection
  MaxDiscovered   \* BOUND: nodes discovered

ASSUME NodeConstants ==
  /\ MaxRetries \in Nat \ {0}
  /\ MaxFeedInputs \in Nat /\ MaxDiscovered \in Nat

VARIABLES
  at,           \* where the poll is: idle, network, feed, exex, or for good:
                \* spinning (see DiscoverySpins), failed, gave_up
                \* (MaxRetriesExceeded)
  scheduled,    \* the oracle has been woken and will be polled
  registered,   \* the sources that hold its waker
  discovery,    \* Discovered events not read, and whether more can come
  socket,       \* up, broken (the next read is an error), ended (it is None)
  inbox,        \* messages of the socket not read: ticker, junk
  retry,        \* the reconnection future: none, ready, connecting,
                \* connected, refused, sleeping
  attempts,     \* its local `attempts`
  stream,       \* the notifications: open, ended, failed (next is an error)
  feed_inputs,  \* messages received and breaks of the connection so far
  refusals      \* history: connection attempts refused since the socket was up

netVars == <<discovery>>
feedVars == <<socket, inbox, retry, attempts, refusals>>
feedEnvVars == <<feed_inputs>>
taskVars == <<at, scheduled, registered>>
vars == <<exexVars, taskVars, netVars, feedVars, feedEnvVars, stream>>

Sources == {"discovery", "socket", "retry", "exex"}

Stopped == at \in {"spinning", "failed", "gave_up"}

TypeOK ==
  /\ StateTypeOK
  /\ at \in {"idle", "network", "feed", "exex", "spinning", "failed", "gave_up"}
  /\ scheduled \in BOOLEAN
  /\ registered \subseteq Sources
  /\ discovery \in [nodes : 0 .. MaxDiscovered, left : 0 .. MaxDiscovered, open : BOOLEAN]
  /\ discovery.nodes + discovery.left <= MaxDiscovered
  /\ socket \in {"up", "broken", "ended"}
  /\ inbox \in Seq({"ticker", "junk"}) /\ Len(inbox) <= feed_inputs
  /\ retry \in {"none", "ready", "connecting", "connected", "refused", "sleeping"}
  /\ attempts \in 0 .. MaxRetries - 1
  /\ stream \in {"open", "ended", "failed"}
  /\ feed_inputs \in 0 .. MaxFeedInputs
  /\ refusals \in 0 .. MaxRetries

\* `start`: the feed is connected and the oracle is spawned.
Init ==
  /\ StateInit
  /\ at = "idle" /\ scheduled = TRUE /\ registered = {}
  /\ discovery = [nodes |-> 0, left |-> MaxDiscovered, open |-> TRUE]
  /\ socket = "up" /\ inbox = <<>> /\ retry = "none" /\ attempts = 0
  /\ stream = "open"
  /\ feed_inputs = 0 /\ refusals = 0

\* Source s has something for the oracle: its waker fires and is used up.
Wake(s) ==
  /\ ~Stopped
  /\ scheduled' = (scheduled \/ s \in registered)
  /\ registered' = registered \ {s}
  /\ UNCHANGED at

-----------------------------------------------------------------------------
(***************************************************************************)
(* External: the sources.                                                  *)
(***************************************************************************)
NodeDiscovered ==
  /\ discovery.open /\ discovery.left > 0
  /\ discovery' = [discovery EXCEPT !.nodes = @ + 1, !.left = @ - 1]
  /\ Wake("discovery")
  /\ UNCHANGED <<exexVars, feedVars, feedEnvVars, stream>>

\* The discv5 service ends.
DiscoveryCloses ==
  /\ discovery.open
  /\ discovery' = [discovery EXCEPT !.open = FALSE]
  /\ Wake("discovery")
  /\ UNCHANGED <<exexVars, feedVars, feedEnvVars, stream>>

MessageArrives ==
  /\ socket = "up" /\ retry = "none" /\ feed_inputs < MaxFeedInputs
  /\ feed_inputs' = feed_inputs + 1
  /\ \E m \in {"ticker", "junk"} : inbox' = Append(inbox, m)
  /\ Wake("socket")
  /\ UNCHANGED <<exexVars, netVars, socket, retry, attempts, refusals, stream>>

\* The connection fails, or the server closes it in order.
SocketCloses ==
  /\ socket = "up"
  /\ \/ socket' = "broken" /\ feed_inputs < MaxFeedInputs /\ feed_inputs' = feed_inputs + 1
     \/ socket' = "ended" /\ UNCHANGED feed_inputs
  /\ Wake("socket")
  /\ UNCHANGED <<exexVars, netVars, inbox, retry, attempts, refusals, stream>>

\* An attempt to connect succeeds or is refused.
ConnectReturns ==
  /\ retry = "connecting"
  /\ \/ retry' = "connected" /\ UNCHANGED refusals
     \/ retry' = "refused" /\ refusals' = refusals + 1
  /\ Wake("retry")
  /\ UNCHANGED <<exexVars, netVars, socket, inbox, attempts, feedEnvVars, stream>>

\* The two seconds between two attempts are over.
SleepEnds ==
  /\ retry = "sleeping"
  /\ retry' = "ready"
  /\ Wake("retry")
  /\ UNCHANGED <<exexVars, netVars, socket, inbox, attempts, refusals, feedEnvVars,
                 stream>>

Notify ==
  /\ stream = "open"
  /\ NodeChanges
  /\ Wake("exex")
  /\ UNCHANGED <<netVars, feedVars, feedEnvVars, stream>>

\* The node closes the channel, or an error ends the stream.
NotificationsEnd ==
  /\ stream = "open"
  /\ stream' \in {"ended", "failed"}
  /\ Wake("exex")
  /\ UNCHANGED <<exexVars, netVars, feedVars, feedEnvVars>>

-----------------------------------------------------------------------------
(***************************************************************************)
(* The poll: network.                                                      *)
(***************************************************************************)
StartPoll ==
  /\ at = "idle" /\ scheduled
  /\ at' = "network"
  /\ scheduled' = FALSE
  /\ UNCHANGED <<exexVars, registered, netVars, feedVars, feedEnvVars, stream>>

\* add_node(enr)? may fail, which ends the oracle.
AddNode ==
  /\ at = "network" /\ discovery.nodes > 0
  /\ discovery' = [discovery EXCEPT !.nodes = @ - 1]
  /\ at' \in {"network", "failed"}
  /\ UNCHANGED <<exexVars, scheduled, registered, feedVars, feedEnvVars, stream>>

\* Discovery is Ready(Ok) for good, and the loop around it polls it again.
\* The closed channel yields None until the cooperative budget of tokio is
\* spent; then it is Pending and the task is scheduled anew, but whatever is
\* polled after it finds the budget spent too.  So it goes in every poll from
\* then on: nothing that arrives behind discovery is served again.
DiscoverySpins ==
  /\ at = "network" /\ discovery.nodes = 0 /\ ~discovery.open
  /\ at' = "spinning"
  /\ UNCHANGED <<exexVars, scheduled, registered, netVars, feedVars, feedEnvVars, stream>>

NetworkPending ==
  /\ at = "network" /\ discovery.nodes = 0 /\ discovery.open
  /\ at' = "feed"
  /\ registered' = registered \cup {"discovery"}
  /\ UNCHANGED <<exexVars, scheduled, netVars, feedVars, feedEnvVars, stream>>

-----------------------------------------------------------------------------
(***************************************************************************)
(* The poll: data feed.  First the reconnection future, if there is one.   *)
(***************************************************************************)
ReconnectStep ==
  /\ at = "feed"
  /\ UNCHANGED <<exexVars, netVars, feedEnvVars, stream>>

\* The new connection replaces the old one, which is then polled.
Reconnected ==
  /\ ReconnectStep
  /\ retry = "connected"
  /\ retry' = "none"
  /\ socket' = "up" /\ inbox' = <<>> /\ refusals' = 0
  /\ UNCHANGED <<taskVars, attempts>>

\* Mutant of ReconnectRefused: one attempt more than max_retries.
ReconnectRefusedOnceMore ==
  /\ ReconnectStep
  /\ retry = "refused" /\ attempts < MaxRetries
  /\ attempts' = attempts + 1
  /\ retry' = "sleeping"
  /\ at' = "exex"
  /\ registered' = registered \cup {"retry"}
  /\ UNCHANGED <<scheduled, socket, inbox, refusals>>

\* Attempts are left: the future sleeps.
ReconnectRefused ==
  /\ ReconnectStep
  /\ retry = "refused" /\ attempts + 1 < MaxRetries
  /\ attempts' = attempts + 1
  /\ retry' = "sleeping"
  /\ at' = "exex"
  /\ registered' = registered \cup {"retry"}
  /\ UNCHANGED <<scheduled, socket, inbox, refusals>>

\* MaxRetriesExceeded ends the oracle.
ReconnectGivesUp ==
  /\ ReconnectStep
  /\ retry = "refused" /\ attempts + 1 >= MaxRetries
  /\ retry' = "none"
  /\ at' = "gave_up"
  /\ UNCHANGED <<scheduled, registered, socket, inbox, attempts, refusals>>

\* Mutant of ReconnectPending: a pending future is not put back.
ReconnectDropped ==
  /\ ReconnectStep
  /\ retry \in {"ready", "connecting", "sleeping"}
  /\ retry' = "none"
  /\ at' = "exex"
  /\ registered' = registered \cup {"retry"}
  /\ UNCHANGED <<scheduled, socket, inbox, attempts, refusals>>

\* The future is Pending and is put back; its first poll, and the one after a
\* sleep, start to connect.
ReconnectPending ==
  /\ ReconnectStep
  /\ retry \in {"ready", "connecting", "sleeping"}
  /\ retry' = IF retry = "ready" THEN "connecting" ELSE retry
  /\ at' = "exex"
  /\ registered' = registered \cup {"retry"}
  /\ UNCHANGED <<scheduled, socket, inbox, attempts, refusals>>

-----------------------------------------------------------------------------
(***************************************************************************)
(* The poll: data feed, the connection.                                    *)
(***************************************************************************)
ReadSocket ==
  /\ at = "feed" /\ retry = "none"
  /\ UNCHANGED <<exexVars, netVars, socket, feedEnvVars, refusals, stream>>

\* A ticker is signed and broadcast, and the feed polled again.
SignTicker ==
  /\ ReadSocket
  /\ inbox # <<>> /\ Head(inbox) = "ticker"
  /\ inbox' = Tail(inbox)
  /\ UNCHANGED <<taskVars, retry, attempts>>

\* Mutant of SkipMessage: nothing wakes the oracle again.
SkipMessageAsleep ==
  /\ ReadSocket
  /\ inbox # <<>> /\ Head(inbox) = "junk"
  /\ inbox' = Tail(inbox)
  /\ at' = "exex"
  /\ UNCHANGED <<scheduled, registered, retry, attempts>>

\* A message that does not decode: Pending without a waker in the socket, but
\* the caller wakes the oracle.
SkipMessage ==
  /\ ReadSocket
  /\ inbox # <<>> /\ Head(inbox) = "junk"
  /\ inbox' = Tail(inbox)
  /\ at' = "exex" /\ scheduled' = TRUE
  /\ UNCHANGED <<registered, retry, attempts>>

\* Mutant of SocketError: the count of attempts goes on from the last time.
SocketErrorCountsOn ==
  /\ ReadSocket
  /\ inbox = <<>> /\ socket = "broken"
  /\ retry' = "ready"
  /\ at' = "exex" /\ scheduled' = TRUE
  /\ UNCHANGED <<registered, inbox, attempts>>

\* The socket is broken: a new reconnection future, which counts from 0.
SocketError ==
  /\ ReadSocket
  /\ inbox = <<>> /\ socket = "broken"
  /\ retry' = "ready" /\ attempts' = 0
  /\ at' = "exex" /\ scheduled' = TRUE
  /\ UNCHANGED <<registered, inbox>>

\* Mutant of FeedEnded: the end of the feed is taken for Pending.
FeedEndedReturns ==
  /\ ReadSocket
  /\ inbox = <<>> /\ socket = "ended"
  /\ at' = "idle"
  /\ UNCHANGED <<scheduled, registered, inbox, retry, attempts>>

\* None: the loop over the feed breaks, here and in every later poll.
FeedEnded ==
  /\ ReadSocket
  /\ inbox = <<>> /\ socket = "ended"
  /\ at' = "exex"
  /\ UNCHANGED <<scheduled, registered, inbox, retry, attempts>>

\* Nothing to read: the oracle wakes itself all the same.
FeedPending ==
  /\ ReadSocket
  /\ inbox = <<>> /\ socket = "up"
  /\ at' = "exex" /\ scheduled' = TRUE
  /\ registered' = registered \cup {"socket"}
  /\ UNCHANGED <<inbox, retry, attempts>>

-----------------------------------------------------------------------------
(***************************************************************************)
(* The poll: ExEx.                                                         *)
(***************************************************************************)

\* A notification is handled; the event of a commit may fail to be sent.
ExExHandles ==
  /\ at = "exex"
  /\ HandleNotification
  /\ at' \in IF notification.new # <<>> THEN {"exex", "failed"} ELSE {"exex"}
  /\ UNCHANGED <<scheduled, registered, netVars, feedVars, feedEnvVars, stream>>

ExExStep ==
  /\ at = "exex" /\ notification = NoNotification
  /\ UNCHANGED <<exexVars, netVars, feedVars, feedEnvVars, stream>>

\* Pending: the poll returns.
ExExPending ==
  /\ ExExStep
  /\ stream = "open"
  /\ at' = "idle"
  /\ registered' = registered \cup {"exex"}
  /\ UNCHANGED scheduled

\* An error of the notifications ends the ExEx and the oracle.
ExExFails ==
  /\ ExExStep
  /\ stream = "failed"
  /\ at' = "failed"
  /\ UNCHANGED <<scheduled, registered>>

\* The stream has ended, and the loop around the ExEx polls it until the
\* budget is spent: then it is Pending and the oracle is scheduled anew.  The
\* sources polled before the ExEx are still served, in a busy loop.
ExExEnded ==
  /\ ExExStep
  /\ stream = "ended"
  /\ at' = "idle" /\ scheduled' = TRUE
  /\ UNCHANGED registered

-----------------------------------------------------------------------------
Poll ==
  \/ StartPoll
  \/ AddNode
  \/ DiscoverySpins
  \/ NetworkPending
  \/ Reconnected
  \/ ReconnectRefused
  \/ ReconnectGivesUp
  \/ ReconnectPending
  \/ SignTicker
  \/ SkipMessage
  \/ SocketError
  \/ FeedEnded
  \/ FeedPending
  \/ ExExHandles
  \/ ExExPending
  \/ ExExFails
  \/ ExExEnded

Next ==
  \/ NodeDiscovered
  \/ DiscoveryCloses
  \/ MessageArrives
  \/ SocketCloses
  \/ ConnectReturns
  \/ SleepEnds
  \/ Notify
  \/ NotificationsEnd
  \/ Poll

\* The runtime polls what is scheduled; a connection attempt and a sleep end.
\* Nothing has to arrive, and nothing has to break.
Spec ==
  Init /\ [][Next]_vars /\ WF_vars(Poll) /\ WF_vars(ConnectReturns) /\ WF_vars(SleepEnds)

-----------------------------------------------------------------------------
(***************************************************************************)
(* Properties.                                                             *)
(***************************************************************************)

\* The oracle never sleeps on what its sources hold: messages of the feed are
\* read, also behind one that does not decode and while notifications come.
MessagesRead == (inbox # <<>>) ~> (inbox = <<>> \/ Stopped)

\* Notifications are handled whatever the feed does: up, silent, reconnecting
\* or ended for good.
NotificationsHandled ==
  (notification # NoNotification) ~> (notification = NoNotification \/ Stopped)

\* A broken connection comes back, unless the oracle stops.
FeedRecovers == (socket = "broken") ~> (socket = "up" \/ Stopped)

\* The oracle gives up only after max_retries refusals in a row, however often
\* the connection broke and came back before.
GivesUpAfterRetries == at = "gave_up" => refusals = MaxRetries
=============================================================================
