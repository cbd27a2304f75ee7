---------------------------- MODULE OracleGossip ----------------------------
(***************************************************************************)
(* The oracle's gossip (oracle/src/oracle.rs, network/proto): two peers,   *)
(* joined by one RLPx session, broadcast signed tickers to each other and  *)
(* answer each with the list of signers they know for it.  A local caller  *)
(* may ask a connection for attestations.                                  *)
(*                                                                         *)
(* One step of a connection is one turn of the loop of poll_next: it takes *)
(* one item from its sources, in the order of the code, or it parks.  A    *)
(* parked connection is woken by the sources whose last poll was Pending,  *)
(* which registers the waker.  External: the session delivers messages in  *)
(* order and polls again after every message that poll_next returns, and   *)
(* at times of its own (other protocols share its task); the broadcast     *)
(* channel drops its oldest ticker when it is full and tells the receiver  *)
(* once that it lags.  Both peers run this code, so messages decode and    *)
(* signatures are their signer's.                                          *)
(***************************************************************************)
EXTENDS Integers, Sequences, FiniteSets, SequencesExt

CONSTANTS
  Peers,       \* the two ends of the session
  Dialer,      \* the peer whose connection is outgoing
  Tickers,     \* tickers; a ticker stands for its hash, the id, as well
  Requests,    \* calls of OracleCommand::Attestation
  Capacity,    \* BROADCAST_CHANNEL_SIZE
  MaxTicks,    \* BOUND: tickers in the feed of a peer
  None

ASSUME GossipConstants ==
  /\ Dialer \in Peers
  /\ \E listener \in Peers \ {Dialer} : Peers = {Dialer, listener}
  /\ Capacity \in Nat \ {0}
  /\ MaxTicks \in Nat
  /\ None \notin Tickers \cup Requests
  /\ None \notin [peer : Peers, ticker : Tickers]

Other(p) == CHOOSE q \in Peers : q # p

VARIABLES
  open,       \* the session is up
  ping,       \* initial_ping
  fed,        \* per peer: tickers signed so far, in order
  backlog,    \* per peer: tickers the connection has not read from to_peers
  lagging,    \* per peer: the next read reports Lagged
  commands,   \* per peer: requests queued for the connection
  pending,    \* per peer: pending_att
  known,      \* per peer: attestations, signers per ticker
  wire,       \* per peer: encoded messages on their way to it
  wakers,     \* per peer: running, or the sources that wake the connection
  asked,      \* per request: the peer and the ticker asked for, or None
  answer,     \* per request: none, waiting, dropped, got
  overrun     \* per peer, history: the connection has lagged

vars == <<open, ping, fed, backlog, lagging, commands, pending, known, wire,
          wakers, asked, answer, overrun>>

Sources == {"commands", "ticks", "conn"}

Running == {"running"}

MessageId == [Ping |-> 0, Pong |-> 1, SignedTicker |-> 2, Attestations |-> 3]

Signed == [ticker : Tickers, signer : Peers]

\* A list of signers; the message does not say of which ticker.
Lists == [signers : Seq(Peers)]

Encodings ==
  [id : {0, 1}, data : {None}] \cup [id : {2}, data : Signed]
    \cup [id : {3}, data : Lists]

TypeOK ==
  /\ open \in BOOLEAN
  /\ ping \in [Peers -> BOOLEAN]
  /\ fed \in [Peers -> Seq(Tickers)]
  /\ backlog \in [Peers -> Seq(Signed)]
  /\ \A p \in Peers : Len(backlog[p]) <= Capacity
  /\ lagging \in [Peers -> BOOLEAN]
  /\ commands \in [Peers -> Seq(Requests)]
  /\ pending \in [Peers -> Requests \cup {None}]
  /\ known \in [Peers -> [Tickers -> Seq(Peers)]]
  /\ wire \in [Peers -> Seq(Encodings)]
  /\ wakers \in [Peers -> (SUBSET Sources) \cup {Running}]
  /\ asked \in [Requests -> [peer : Peers, ticker : Tickers] \cup {None}]
  /\ answer \in [Requests -> {"none", "waiting", "dropped", "got"}]
  /\ overrun \in [Peers -> BOOLEAN]

\* into_connection on both sides.
Init ==
  /\ open = TRUE
  /\ ping = [p \in Peers |-> p = Dialer]
  /\ fed = [p \in Peers |-> <<>>]
  /\ backlog = [p \in Peers |-> <<>>]
  /\ lagging = [p \in Peers |-> FALSE]
  /\ commands = [p \in Peers |-> <<>>]
  /\ pending = [p \in Peers |-> None]
  /\ known = [p \in Peers |-> [t \in Tickers |-> <<>>]]
  /\ wire = [p \in Peers |-> <<>>]
  /\ wakers = [p \in Peers |-> Running]
  /\ asked = [r \in Requests |-> None]
  /\ answer = [r \in Requests |-> "none"]
  /\ overrun = [p \in Peers |-> FALSE]

\* The waker of p fires if source s holds it.
Woken(w, p, s) == [w EXCEPT ![p] = IF s \in @ THEN Running ELSE @]

-----------------------------------------------------------------------------
(***************************************************************************)
(* The surroundings of a connection.                                       *)
(***************************************************************************)

\* Oracle::poll: the next ticker of the feed is signed and broadcast.
Feed(p, t) ==
  LET all == Append(backlog[p], [ticker |-> t, signer |-> p])
      full == Len(backlog[p]) = Capacity
  IN  /\ Len(fed[p]) < MaxTicks
      /\ fed' = [fed EXCEPT ![p] = Append(@, t)]
      /\ IF open
         THEN /\ backlog' = [backlog EXCEPT ![p] = IF full THEN Tail(all) ELSE all]
              /\ lagging' = [lagging EXCEPT ![p] = @ \/ full]
              /\ overrun' = [overrun EXCEPT ![p] = @ \/ full]
              /\ wakers' = Woken(wakers, p, "ticks")
         ELSE UNCHANGED <<backlog, lagging, overrun, wakers>>
      /\ UNCHANGED <<open, ping, commands, pending, known, wire, asked, answer>>

\* A caller sends a command; to_connection fails once the connection is gone.
\* OracleNetwork drops to_connection, so that the callers are the tests.
Request(p, r, t) ==
  /\ asked[r] = None
  /\ asked' = [asked EXCEPT ![r] = [peer |-> p, ticker |-> t]]
  /\ answer' = [answer EXCEPT ![r] = IF open THEN "waiting" ELSE "dropped"]
  /\ commands' = IF open THEN [commands EXCEPT ![p] = Append(@, r)] ELSE commands
  /\ wakers' = Woken(wakers, p, "commands")
  /\ UNCHANGED <<open, ping, fed, backlog, lagging, pending, known, wire, overrun>>

\* The session polls a sleeping connection because of something else.
SessionPolls(p) ==
  /\ open /\ wakers[p] # Running
  /\ wakers' = [wakers EXCEPT ![p] = Running]
  /\ UNCHANGED <<open, ping, fed, backlog, lagging, commands, pending, known, wire,
                 asked, answer, overrun>>

\* The session ends and both connections are dropped with all they hold.
Close ==
  /\ open
  /\ open' = FALSE
  /\ answer' = [r \in Requests |->
                  IF answer[r] = "waiting" THEN "dropped" ELSE answer[r]]
  /\ commands' = [p \in Peers |-> <<>>]
  /\ pending' = [p \in Peers |-> None]
  /\ backlog' = [p \in Peers |-> <<>>]
  /\ lagging' = [p \in Peers |-> FALSE]
  /\ wire' = [p \in Peers |-> <<>>]
  /\ UNCHANGED <<ping, fed, known, wakers, asked, overrun>>

-----------------------------------------------------------------------------
(***************************************************************************)
(* OracleProtoMessage::encoded and decode_message.                         *)
(***************************************************************************)

\* Mutant of Encoded: a list of signers gets the id of a ticker.
EncodedAsTick(kind, data) ==
  [id |-> IF kind = "Attestations" THEN 2 ELSE MessageId[kind], data |-> data]

Encoded(kind, data) == [id |-> MessageId[kind], data |-> data]

Decoded(message) ==
  CHOOSE kind \in DOMAIN MessageId : MessageId[kind] = message.id

\* w with a message to q at its end.
Sent(w, q, kind, data) == [w EXCEPT ![q] = Append(@, Encoded(kind, data))]

-----------------------------------------------------------------------------
(***************************************************************************)
(* OracleConnection::poll_next of peer p.                                  *)
(***************************************************************************)
Polled(p) == open /\ wakers[p] = Running

\* The initial ping is the first message of the dialing side.
SendPing(p) ==
  /\ Polled(p)
  /\ ping[p]
  /\ ping' = [ping EXCEPT ![p] = FALSE]
  /\ wire' = Sent(wire, Other(p), "Ping", None)
  /\ wakers' = Woken(wakers, Other(p), "conn")
  /\ UNCHANGED <<open, fed, backlog, lagging, commands, pending, known, asked,
                 answer, overrun>>

\* A command: p's own list for the ticker is sent to the peer, and the caller
\* takes the place of an earlier one, whose channel is dropped.
HandleCommand(p) ==
  LET r == Head(commands[p])
      t == asked[r].ticker
  IN  /\ Polled(p)
      /\ ~ping[p]
      /\ commands[p] # <<>>
      /\ commands' = [commands EXCEPT ![p] = Tail(@)]
      /\ answer' = [x \in Requests |->
                      IF x = pending[p] THEN "dropped" ELSE answer[x]]
      /\ pending' = [pending EXCEPT ![p] = r]
      /\ wire' = Sent(wire, Other(p), "Attestations",
                      [signers |-> known[p][t]])
      /\ wakers' = Woken(wakers, Other(p), "conn")
      /\ UNCHANGED <<open, ping, fed, backlog, lagging, known, asked, overrun>>

\* Mutant of SendTick: a ticker read while a caller is pending is lost.
SendTickUnlessPending(p) ==
  /\ Polled(p)
  /\ ~ping[p] /\ commands[p] = <<>>
  /\ backlog[p] # <<>> /\ ~lagging[p]
  /\ backlog' = [backlog EXCEPT ![p] = Tail(@)]
  /\ wire' = IF pending[p] # None THEN wire
             ELSE Sent(wire, Other(p), "SignedTicker", Head(backlog[p]))
  /\ wakers' = Woken(wakers, Other(p), "conn")
  /\ UNCHANGED <<open, ping, fed, lagging, commands, pending, known, asked,
                 answer, overrun>>

SendTick(p) ==
  /\ Polled(p)
  /\ ~ping[p] /\ commands[p] = <<>>
  /\ backlog[p] # <<>> /\ ~lagging[p]
  /\ backlog' = [backlog EXCEPT ![p] = Tail(@)]
  /\ wire' = Sent(wire, Other(p), "SignedTicker", Head(backlog[p]))
  /\ wakers' = Woken(wakers, Other(p), "conn")
  /\ UNCHANGED <<open, ping, fed, lagging, commands, pending, known, asked,
                 answer, overrun>>

\* Neither a command nor a ticker: Pending, or the one report of Lagged.
NothingToSend(p) ==
  /\ Polled(p)
  /\ ~ping[p] /\ commands[p] = <<>>
  /\ backlog[p] = <<>> \/ lagging[p]
  /\ lagging' = [lagging EXCEPT ![p] = FALSE]

Receive(p, kind) ==
  /\ NothingToSend(p)
  /\ wire[p] # <<>>
  /\ Decoded(Head(wire[p])) = kind
  /\ UNCHANGED <<open, ping, fed, backlog, commands, asked, overrun>>

Taken(p) == [wire EXCEPT ![p] = Tail(@)]

HandlePing(p) ==
  /\ Receive(p, "Ping")
  /\ wire' = Sent(Taken(p), Other(p), "Pong", None)
  /\ wakers' = Woken(wakers, Other(p), "conn")
  /\ UNCHANGED <<pending, known, answer>>

HandlePong(p) ==
  /\ Receive(p, "Pong")
  /\ wire' = Taken(p)
  /\ UNCHANGED <<pending, known, wakers, answer>>

\* Whatever list comes next is sent to the caller that is pending; with no
\* caller it is dropped.
HandleAttestations(p) ==
  /\ Receive(p, "Attestations")
  /\ answer' = [r \in Requests |-> IF r = pending[p] THEN "got" ELSE answer[r]]
  /\ pending' = [pending EXCEPT ![p] = None]
  /\ wire' = Taken(p)
  /\ UNCHANGED <<known, wakers>>

\* A ticker whose signature is the signer's: the signer is added to the list
\* and the list is sent back.
HandleTicker(p) ==
  LET signed == Head(wire[p]).data
      list   == Append(known[p][signed.ticker], signed.signer)
  IN  /\ Receive(p, "SignedTicker")
      /\ known' = [known EXCEPT ![p][signed.ticker] = list]
      /\ wire' = Sent(Taken(p), Other(p), "Attestations",
                      [signers |-> list])
      /\ wakers' = Woken(wakers, Other(p), "conn")
      /\ UNCHANGED <<pending, answer>>

\* Mutant of Park: only the session wakes the connection.
ParkOnConn(p) ==
  /\ NothingToSend(p)
  /\ wire[p] = <<>>
  /\ wakers' = [wakers EXCEPT ![p] = {"conn"}]
  /\ UNCHANGED <<open, ping, fed, backlog, commands, pending, known, wire, asked,
                 answer, overrun>>

\* Poll::Pending.  A report of Lagged has left no waker with the tickers.
Park(p) ==
  /\ NothingToSend(p)
  /\ wire[p] = <<>>
  /\ wakers' = [wakers EXCEPT ![p] = {s \in Sources : s = "ticks" => ~lagging[p]}]
  /\ UNCHANGED <<open, ping, fed, backlog, commands, pending, known, wire, asked,
                 answer, overrun>>

PollNext(p) ==
  \/ SendPing(p)
  \/ HandleCommand(p)
  \/ SendTick(p)
  \/ HandlePing(p)
  \/ HandlePong(p)
  \/ HandleAttestations(p)
  \/ HandleTicker(p)
  \/ Park(p)

Next ==
  \/ \E p \in Peers, t \in Tickers : Feed(p, t)
  \/ \E p \in Peers, r \in Requests, t \in Tickers : Request(p, r, t)
  \/ Close
  \/ \E p \in Peers : SessionPolls(p)
  \/ \E p \in Peers : PollNext(p)

\* The session polls a connection that has been woken; nothing rests on its
\* other polls.
Spec == Init /\ [][Next]_vars /\ \A p \in Peers : WF_vars(PollNext(p))

-----------------------------------------------------------------------------
(***************************************************************************)
(* Properties.                                                             *)
(***************************************************************************)
Count(seq, x) == Cardinality({i \in DOMAIN seq : seq[i] = x})

\* Every ticker that p has signed is, exactly once, in its channel, on the
\* wire, or counted in the peer's list of signers, whatever commands, lists
\* and pings go between, as long as the session lasts and nothing was dropped.
TickersConserved ==
  open => \A p \in Peers, t \in Tickers : ~overrun[p] =>
    LET signed == [ticker |-> t, signer |-> p]
    IN  Count(fed[p], t) =
          Count(backlog[p], signed)
            + Count(wire[Other(p)], Encoded("SignedTicker", signed))
            + Count(known[Other(p)][t], p)

\* No command stays in the queue of a sleeping connection.
CommandsHandled ==
  \A p \in Peers : commands[p] # <<>> ~> commands[p] = <<>>

\* Every ticker reaches the peer, which then lists its signer, unless the
\* session ends or the connection lagged.
TickersReachPeer ==
  \A p \in Peers, t \in Tickers :
    t \in ToSet(fed[p]) ~>
      p \in ToSet(known[Other(p)][t]) \/ overrun[p] \/ ~open
=============================================================================
