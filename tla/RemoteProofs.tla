---------------------------- MODULE RemoteProofs ----------------------------
(***************************************************************************)
(* Proofs about the remote ExEx, for any number of consumers, any          *)
(* notifications and all sizes of the channels.                            *)
(***************************************************************************)
EXTENDS Remote, SequenceTheorems, TLAPS

-----------------------------------------------------------------------------
(***************************************************************************)
(* Sequences of consecutive positions.                                     *)
(***************************************************************************)

\* The sequence s counts on from k.
CountsFrom(s, k) == \A i \in 1 .. Len(s) : s[i] = k + i

\* A sequence that counts from k is a segment.
LEMMA CountsSegment ==
  ASSUME NEW S, NEW s \in Seq(S), NEW k \in Nat, CountsFrom(s, k)
  PROVE  s = Segment(k + 1, k + Len(s))
  <1> DEFINE t == Segment(k + 1, k + Len(s))
  <1>1. Len(s) \in Nat
    BY LenProperties
  <1>2. (k + Len(s)) - (k + 1) + 1 = Len(s)
    BY <1>1
  <1>3. t = [i \in 1 .. Len(s) |-> k + 1 + i - 1]
    BY <1>2 DEF Segment
  <1>4. /\ s \in [1 .. Len(s) -> S]
        /\ \A i \in 1 .. Len(s) : s[i] = k + 1 + i - 1
    BY <1>1, LenProperties DEF CountsFrom
  <1> QED
    BY <1>3, <1>4

\* Its head is the next position and its tail counts from there.
LEMMA CountsTail ==
  ASSUME NEW S, NEW s \in Seq(S), s # <<>>, NEW k \in Nat, CountsFrom(s, k)
  PROVE  /\ Head(s) \in S /\ Head(s) = k + 1
         /\ Tail(s) \in Seq(S) /\ CountsFrom(Tail(s), k + 1)
         /\ Len(Tail(s)) = Len(s) - 1
  <1>1. Len(s) \in Nat \ {0}
    BY EmptySeq
  <1>2. /\ Head(s) \in S /\ Tail(s) \in Seq(S)
        /\ Len(Tail(s)) = Len(s) - 1
        /\ \A i \in 1 .. Len(Tail(s)) : Tail(s)[i] = s[i + 1]
    BY HeadTailProperties
  <1>3. Head(s) = s[1]
    OBVIOUS
  <1>4. s[1] = k + 1
    BY <1>1 DEF CountsFrom
  <1>5. \A i \in 1 .. Len(Tail(s)) : s[i + 1] = k + 1 + i
    BY <1>1, <1>2 DEF CountsFrom
  <1> QED
    BY <1>2, <1>3, <1>4, <1>5 DEF CountsFrom

\* Appending the next position keeps the count.
LEMMA CountsAppend ==
  ASSUME NEW S, NEW s \in Seq(S), NEW k \in Nat, CountsFrom(s, k),
         NEW x \in S, x = k + Len(s) + 1
  PROVE  /\ Append(s, x) \in Seq(S) /\ Len(Append(s, x)) = Len(s) + 1
         /\ CountsFrom(Append(s, x), k)
  <1>1. Len(s) \in Nat
    BY LenProperties
  <1>2. /\ Append(s, x) \in Seq(S)
        /\ Len(Append(s, x)) = Len(s) + 1
        /\ \A i \in 1 .. Len(s) : Append(s, x)[i] = s[i]
        /\ Append(s, x)[Len(s) + 1] = x
    BY AppendProperties
  <1>3. \A i \in 1 .. Len(s) + 1 : Append(s, x)[i] = k + i
    <2> SUFFICES ASSUME NEW i \in 1 .. Len(s) + 1
                 PROVE  Append(s, x)[i] = k + i
      OBVIOUS
    <2>1. CASE i <= Len(s)
      BY <1>1, <1>2, <2>1 DEF CountsFrom
    <2>2. CASE i = Len(s) + 1
      BY <1>1, <1>2, <2>2
    <2> QED
      BY <1>1, <2>1, <2>2
  <1> QED
    BY <1>2, <1>3 DEF CountsFrom

\* Two counts that meet are one.
LEMMA CountsConcat ==
  ASSUME NEW S, NEW s \in Seq(S), NEW t \in Seq(S), NEW k \in Nat,
         CountsFrom(s, k), CountsFrom(t, k + Len(s))
  PROVE  /\ s \o t \in Seq(S) /\ Len(s \o t) = Len(s) + Len(t)
         /\ CountsFrom(s \o t, k)
         /\ k + Len(s \o t) = k + Len(s) + Len(t)
  <1>1. Len(s) \in Nat /\ Len(t) \in Nat
    BY LenProperties
  <1>2. /\ s \o t \in Seq(S)
        /\ Len(s \o t) = Len(s) + Len(t)
        /\ \A i \in 1 .. Len(s) + Len(t) :
             (s \o t)[i] = IF i <= Len(s) THEN s[i] ELSE t[i - Len(s)]
    BY ConcatProperties
  <1>3. \A i \in 1 .. Len(s) + Len(t) : (s \o t)[i] = k + i
    <2> SUFFICES ASSUME NEW i \in 1 .. Len(s) + Len(t)
                 PROVE  (s \o t)[i] = k + i
      OBVIOUS
    <2>1. CASE i <= Len(s)
      BY <1>1, <1>2, <2>1 DEF CountsFrom
    <2>2. CASE i > Len(s)
      <3>1. i - Len(s) \in 1 .. Len(t)
        BY <1>1, <2>2
      <3>2. t[i - Len(s)] = k + Len(s) + (i - Len(s))
        BY <3>1 DEF CountsFrom
      <3> QED
        BY <1>1, <1>2, <2>2, <3>2
    <2> QED
      BY <1>1, <2>1, <2>2
  <1>4. k + Len(s \o t) = k + Len(s) + Len(t)
    BY <1>1, <1>2
  <1> QED
    BY <1>2, <1>3, <1>4 DEF CountsFrom

-----------------------------------------------------------------------------
(***************************************************************************)
(* The invariant.                                                          *)
(***************************************************************************)

\* Positions on the way to a consumer: how many are behind its task.
Decoded(c) == first[c] + Len(got[c])
Carried(c) == Decoded(c) + Len(wire[c])
Queued(c)  == Carried(c) + Len(chan[c])

\* A running consumer: each hop goes on where the one before ends.
ReadingInv(c) ==
  /\ open[c]
  /\ task[c] \in {"recv", "send", "ended"}
  /\ CountsFrom(wire[c], Decoded(c))
  /\ CountsFrom(chan[c], Carried(c))
  /\ pos[c] = IF task[c] = "send" THEN Queued(c) + 1 ELSE Queued(c)

ConsumerInv(c) ==
  /\ CountsFrom(got[c], first[c])
  /\ consumer[c] = "idle" =>
       task[c] = "none" /\ ~open[c] /\ got[c] = <<>> /\ wire[c] = <<>> /\ chan[c] = <<>>
  /\ consumer[c] = "reading" => ReadingInv(c)
  /\ consumer[c] = "ended" => task[c] = "ended" /\ Decoded(c) = pos[c]
  /\ task[c] = "ended" => sent > pos[c] + Capacity
  /\ task[c] = "send" => pos[c] > 0

RemoteInv ==
  /\ TypeOK
  /\ exex = "reported" => sent < emitted
  /\ \A c \in Consumers : ConsumerInv(c)

\* The types of what belongs to one consumer.
LEMMA ConsumerTypes ==
  ASSUME TypeOK, NEW c \in Consumers
  PROVE  /\ sent \in Nat /\ emitted \in Nat /\ sent <= emitted /\ emitted <= Len(Payload)
         /\ first[c] \in Nat /\ first[c] <= sent /\ pos[c] \in Nat /\ pos[c] <= sent
         /\ chan[c] \in Seq(Positions) /\ wire[c] \in Seq(Positions)
         /\ got[c] \in Seq(Positions)
         /\ Len(chan[c]) \in Nat /\ Len(wire[c]) \in Nat /\ Len(got[c]) \in Nat
         /\ Decoded(c) \in Nat /\ Carried(c) \in Nat /\ Queued(c) \in Nat
  <1>1. /\ chan[c] \in Seq(Positions) /\ wire[c] \in Seq(Positions)
        /\ got[c] \in Seq(Positions)
    BY DEF TypeOK
  <1>2. emitted \in Nat /\ emitted <= Len(Payload) /\ sent \in Nat /\ sent <= emitted
    BY RemoteConstants DEF TypeOK, Positions
  <1>3. first[c] \in 0 .. sent /\ pos[c] \in 0 .. sent
    BY DEF TypeOK
  <1>4. Len(chan[c]) \in Nat /\ Len(wire[c]) \in Nat /\ Len(got[c]) \in Nat
    BY <1>1, LenProperties
  <1>5. first[c] \in Nat /\ first[c] <= sent /\ pos[c] \in Nat /\ pos[c] <= sent
    BY <1>2, <1>3
  <1>6. Decoded(c) \in Nat
    BY <1>4, <1>5 DEF Decoded
  <1>7. Carried(c) \in Nat
    BY <1>4, <1>6 DEF Carried
  <1>8. Queued(c) \in Nat
    BY <1>4, <1>7 DEF Queued
  <1> QED
    BY <1>1, <1>2, <1>4, <1>5, <1>6, <1>7, <1>8

\* A later broadcast, or a step of another consumer, changes nothing for c.
LEMMA SameConsumer ==
  ASSUME TypeOK, NEW c \in Consumers, ConsumerInv(c), sent' \in Nat, sent <= sent',
         /\ consumer'[c] = consumer[c] /\ task'[c] = task[c] /\ first'[c] = first[c]
         /\ pos'[c] = pos[c] /\ open'[c] = open[c] /\ chan'[c] = chan[c]
         /\ wire'[c] = wire[c] /\ got'[c] = got[c]
  PROVE  ConsumerInv(c)'
  <1>1. sent \in Nat /\ pos[c] \in Nat /\ Capacity \in Nat
    BY ConsumerTypes, RemoteConstants
  <1>2. ReadingInv(c) => ReadingInv(c)'
    BY DEF ReadingInv, Decoded, Carried, Queued, CountsFrom
  <1>3. CountsFrom(got[c], first[c])'
    BY DEF ConsumerInv, CountsFrom
  <1> QED
    BY <1>1, <1>2, <1>3 DEF ConsumerInv, Decoded

\* The steps of the node and of the ExEx.
LEMMA ExExSteps ==
  ASSUME RemoteInv, NodeNotifies \/ ReportHeight \/ Broadcast \/ ExExEnds
  PROVE  RemoteInv'
  <1>1. UNCHANGED streamVars
    BY DEF NodeNotifies, ReportHeight, Broadcast, ExExEnds
  <1>2. emitted \in Nat /\ sent \in Nat /\ sent <= emitted /\ emitted <= Len(Payload)
    BY RemoteConstants DEF RemoteInv, TypeOK, Positions
  <1>3. /\ emitted' \in {0} \cup Positions /\ emitted' \in Nat
        /\ sent' \in Nat /\ sent <= sent' /\ sent' <= emitted'
        /\ exex' \in {"idle", "reported", "ended"}
        /\ finished' \in {0} \cup Positions
        /\ exex' = "reported" => sent' < emitted'
    <2>1. CASE NodeNotifies
      BY <1>2, <2>1, RemoteConstants DEF NodeNotifies, RemoteInv, TypeOK, Positions
    <2>2. CASE ReportHeight
      BY <1>2, <2>2, RemoteConstants
         DEF ReportHeight, RemoteInv, TypeOK, Positions, Committing
    <2>3. CASE Broadcast
      BY <1>2, <2>3 DEF Broadcast, BroadcastIsNext, RemoteInv, TypeOK
    <2>4. CASE ExExEnds
      BY <1>2, <2>4 DEF ExExEnds, RemoteInv, TypeOK
    <2> QED
      BY <2>1, <2>2, <2>3, <2>4
  <1>4. TypeOK'
    <2>1. /\ first' \in [Consumers -> 0 .. sent'] /\ pos' \in [Consumers -> 0 .. sent']
      BY <1>1, <1>2, <1>3 DEF RemoteInv, TypeOK, streamVars
    <2> QED
      BY <1>1, <1>3, <2>1 DEF RemoteInv, TypeOK, streamVars
  <1>5. ASSUME NEW c \in Consumers PROVE ConsumerInv(c)'
    BY <1>1, <1>3, SameConsumer DEF RemoteInv, streamVars
  <1> QED
    BY <1>3, <1>4, <1>5 DEF RemoteInv

\* A step of consumer c or of its task: what it has to show.
StepOf(c) ==
  /\ UNCHANGED exexVars
  /\ \A d \in Consumers \ {c} :
       /\ consumer'[d] = consumer[d] /\ task'[d] = task[d] /\ first'[d] = first[d]
       /\ pos'[d] = pos[d] /\ open'[d] = open[d] /\ chan'[d] = chan[d]
       /\ wire'[d] = wire[d] /\ got'[d] = got[d]

LEMMA ConsumerStep ==
  ASSUME RemoteInv, TypeOK', NEW c \in Consumers, StepOf(c), ConsumerInv(c)'
  PROVE  RemoteInv'
  <1>1. sent' = sent /\ sent \in Nat /\ exex' = exex /\ emitted' = emitted
    BY ConsumerTypes DEF StepOf, exexVars, RemoteInv
  <1>2. ASSUME NEW d \in Consumers \ {c} PROVE ConsumerInv(d)'
    BY <1>1, SameConsumer DEF RemoteInv, StepOf
  <1> QED
    BY <1>1, <1>2 DEF RemoteInv

LEMMA SubscribeStep ==
  ASSUME RemoteInv, NEW c \in Consumers, Subscribe(c)
  PROVE  RemoteInv'
  <1> USE DEF RemoteInv
  <1>1. StepOf(c)
    BY DEF Subscribe, StepOf, TypeOK
  <1>2. TypeOK'
    BY ConsumerTypes DEF Subscribe, TypeOK, exexVars
  <1>3. /\ got[c] = <<>> /\ wire[c] = <<>> /\ chan[c] = <<>> /\ sent \in Nat
        /\ UNCHANGED <<got, wire, chan, sent>>
        /\ consumer'[c] = "reading" /\ task'[c] = "recv" /\ open'[c] = TRUE
        /\ first'[c] = sent /\ pos'[c] = sent
    BY ConsumerTypes DEF Subscribe, ConsumerInv, TypeOK, exexVars
  <1>4. ConsumerInv(c)'
    <2>1. /\ got'[c] = <<>> /\ wire'[c] = <<>> /\ chan'[c] = <<>> /\ Len(<<>>) = 0
          /\ \A k \in Nat : CountsFrom(<<>>, k)
      BY <1>3, EmptySeq DEF CountsFrom
    <2>2. Decoded(c)' = sent /\ Carried(c)' = sent /\ Queued(c)' = sent
      <3>1. Decoded(c)' = sent
        BY <1>3, <2>1 DEF Decoded
      <3>2. Carried(c)' = sent
        BY <1>3, <2>1, <3>1 DEF Carried
      <3>3. Queued(c)' = sent
        BY <1>3, <2>1, <3>2 DEF Queued
      <3> QED
        BY <3>1, <3>2, <3>3
    <2>3. /\ CountsFrom(got[c], first[c])' /\ CountsFrom(wire[c], Decoded(c))'
          /\ CountsFrom(chan[c], Carried(c))'
      BY <1>3, <2>1, <2>2 DEF CountsFrom
    <2>4. ReadingInv(c)'
      BY <1>3, <2>2, <2>3 DEF ReadingInv
    <2> QED
      BY <1>3, <2>3, <2>4 DEF ConsumerInv
  <1> QED
    BY <1>1, <1>2, <1>4, ConsumerStep

LEMMA TaskStep ==
  ASSUME RemoteInv, NEW c \in Consumers, Task(c)
  PROVE  RemoteInv'
  <1> USE DEF RemoteInv
  <1>1. StepOf(c)
    BY DEF Task, TaskRecv, TaskLagged, TaskSend, TaskPanics, StepOf, TypeOK
  <1>2. Capacity \in Nat /\ ChannelSize \in Nat
    BY RemoteConstants
  <1>3. CASE TaskRecv(c)
    <2>1. /\ UNCHANGED <<exexVars, consumer, first, open, chan, wire, got>>
          /\ task'[c] = "send" /\ pos'[c] = pos[c] + 1 /\ pos[c] < sent
          /\ task[c] = "recv"
      BY <1>3 DEF TaskRecv, TypeOK
    <2>2. TypeOK'
      <3>1. pos[c] + 1 \in 0 .. sent
        BY <2>1, ConsumerTypes
      <3> QED
        BY <1>3, <3>1 DEF TaskRecv, TypeOK, exexVars
    <2>3. consumer[c] # "idle" /\ consumer[c] # "ended"
      BY <2>1 DEF ConsumerInv
    <2>4. ReadingInv(c) => ReadingInv(c)'
      BY <2>1 DEF ReadingInv, CountsFrom, Decoded, Carried, Queued
    <2>5. ConsumerInv(c)'
      BY <2>1, <2>3, <2>4, ConsumerTypes DEF ConsumerInv, CountsFrom
    <2> QED
      BY <1>1, <2>2, <2>5, ConsumerStep
  <1>4. CASE TaskLagged(c)
    <2>1. /\ UNCHANGED <<exexVars, consumer, first, pos, open, chan, wire, got>>
          /\ task'[c] = "ended" /\ task[c] = "recv" /\ sent - pos[c] > Capacity
      BY <1>4 DEF TaskLagged, TypeOK, Lags
    <2>2. TypeOK'
      BY <1>4 DEF TaskLagged, TypeOK, exexVars
    <2>3. consumer[c] # "idle" /\ consumer[c] # "ended"
      BY <2>1 DEF ConsumerInv
    <2>4. ReadingInv(c) => ReadingInv(c)'
      BY <2>1 DEF ReadingInv, CountsFrom, Decoded, Carried, Queued
    <2>5. sent > pos[c] + Capacity /\ sent' = sent /\ pos'[c] = pos[c]
      BY <1>2, <2>1, ConsumerTypes DEF exexVars
    <2>6. ConsumerInv(c)'
      BY <2>1, <2>3, <2>4, <2>5 DEF ConsumerInv, CountsFrom
    <2> QED
      BY <1>1, <2>2, <2>6, ConsumerStep
  <1>5. CASE TaskSend(c)
    <2>1. /\ UNCHANGED <<exexVars, consumer, first, pos, open, wire, got>>
          /\ chan'[c] = Append(chan[c], pos[c]) /\ task'[c] = "recv" /\ task[c] = "send"
          /\ Len(chan[c]) < ChannelSize
      BY <1>5 DEF TaskSend, TypeOK
    <2>2. pos[c] \in Positions
      BY <2>1, ConsumerTypes, RemoteConstants DEF ConsumerInv, Positions
    <2>3. /\ chan'[c] \in Seq(Positions) /\ Len(chan'[c]) = Len(chan[c]) + 1
      BY <2>1, <2>2, ConsumerTypes, AppendProperties
    <2>4. TypeOK'
      <3>1. chan' = [chan EXCEPT ![c] = chan'[c]] /\ task' = [task EXCEPT ![c] = "recv"]
        BY <1>5, <2>1 DEF TaskSend
      <3>2. chan' \in [Consumers -> Seq(Positions)]
        BY <2>3, <3>1 DEF TypeOK
      <3>3. \A d \in Consumers : Len(chan'[d]) <= ChannelSize
        <4>1. Len(chan'[c]) <= ChannelSize
          BY <1>2, <2>1, <2>3, ConsumerTypes
        <4>2. \A d \in Consumers \ {c} : chan'[d] = chan[d]
          BY <1>1 DEF StepOf
        <4> QED
          BY <4>1, <4>2 DEF TypeOK
      <3> QED
        BY <2>1, <3>1, <3>2, <3>3 DEF TypeOK, exexVars
    <2>5. consumer[c] # "idle" /\ consumer[c] # "ended"
      BY <2>1 DEF ConsumerInv
    <2>6. ReadingInv(c) => ReadingInv(c)'
      <3> SUFFICES ASSUME ReadingInv(c) PROVE ReadingInv(c)'
        OBVIOUS
      <3>1. pos[c] = Carried(c) + Len(chan[c]) + 1
        BY <2>1, ConsumerTypes DEF ReadingInv, Queued
      <3>2. CountsFrom(chan'[c], Carried(c))
        <4>1. /\ chan[c] \in Seq(Positions) /\ Carried(c) \in Nat
              /\ CountsFrom(chan[c], Carried(c))
          BY ConsumerTypes DEF ReadingInv
        <4>2. CountsFrom(Append(chan[c], pos[c]), Carried(c))
          BY <2>2, <3>1, <4>1, CountsAppend
        <4> QED
          BY <2>1, <4>2
      <3>3. Decoded(c)' = Decoded(c) /\ Carried(c)' = Carried(c)
        BY <2>1 DEF Decoded, Carried
      <3>4. Queued(c)' = Queued(c) + 1
        BY <2>3, <3>3, ConsumerTypes DEF Queued
      <3>5. pos[c] = Queued(c)'
        BY <2>1, <3>4 DEF ReadingInv
      <3> QED
        BY <2>1, <3>2, <3>3, <3>5 DEF ReadingInv, CountsFrom
    <2>7. ConsumerInv(c)'
      BY <2>1, <2>5, <2>6 DEF ConsumerInv, CountsFrom
    <2> QED
      BY <1>1, <2>4, <2>7, ConsumerStep
  <1>6. CASE TaskPanics(c)
    <2>1. /\ UNCHANGED <<exexVars, consumer, first, pos, open, chan, wire, got>>
          /\ task'[c] = "panicked" /\ task[c] = "send" /\ ~open[c]
      BY <1>6 DEF TaskPanics, TypeOK
    <2>2. TypeOK'
      BY <1>6 DEF TaskPanics, TypeOK, exexVars
    <2>3. consumer[c] \notin {"idle", "ended", "reading"}
      BY <2>1 DEF ConsumerInv, ReadingInv
    <2>4. ConsumerInv(c)'
      BY <2>1, <2>3 DEF ConsumerInv, CountsFrom
    <2> QED
      BY <1>1, <2>2, <2>4, ConsumerStep
  <1> QED
    BY <1>3, <1>4, <1>5, <1>6 DEF Task

LEMMA TransportStep ==
  ASSUME RemoteInv, NEW c \in Consumers, Transport(c)
  PROVE  RemoteInv'
  <1> USE DEF RemoteInv
  <1>1. StepOf(c)
    BY DEF Transport, StepOf, TypeOK
  <1>2. Window \in Nat /\ ChannelSize \in Nat
    BY RemoteConstants
  <1>3. /\ UNCHANGED <<exexVars, consumer, task, first, pos, open, got>>
        /\ consumer[c] = "reading" /\ chan[c] # <<>> /\ Len(wire[c]) < Window
        /\ wire'[c] = Append(wire[c], Head(chan[c])) /\ chan'[c] = Tail(chan[c])
        /\ wire' = [wire EXCEPT ![c] = wire'[c]] /\ chan' = [chan EXCEPT ![c] = chan'[c]]
    BY DEF Transport, TypeOK
  <1>4. ReadingInv(c)
    BY <1>3 DEF ConsumerInv
  <1>5. /\ CountsFrom(chan[c], Carried(c)) /\ CountsFrom(wire[c], Decoded(c))
        /\ Carried(c) = Decoded(c) + Len(wire[c])
    BY <1>4 DEF ReadingInv, Carried
  <1>6. /\ Head(chan[c]) \in Positions /\ Head(chan[c]) = Carried(c) + 1
        /\ chan'[c] \in Seq(Positions) /\ CountsFrom(chan'[c], Carried(c) + 1)
        /\ Len(chan'[c]) = Len(chan[c]) - 1
    <2>1. chan[c] \in Seq(Positions) /\ Carried(c) \in Nat
      BY ConsumerTypes
    <2> QED
      BY <1>3, <1>5, <2>1, CountsTail
  <1>7. /\ wire'[c] \in Seq(Positions) /\ Len(wire'[c]) = Len(wire[c]) + 1
        /\ CountsFrom(wire'[c], Decoded(c))
    <2>1. wire[c] \in Seq(Positions) /\ Decoded(c) \in Nat
      BY ConsumerTypes
    <2>2. Head(chan[c]) = Decoded(c) + Len(wire[c]) + 1
      BY <1>5, <1>6
    <2> QED
      <3>1. LET s == Append(wire[c], Head(chan[c]))
            IN  s \in Seq(Positions) /\ Len(s) = Len(wire[c]) + 1 /\ CountsFrom(s, Decoded(c))
        BY <1>5, <1>6, <2>1, <2>2, CountsAppend
      <3> QED
        BY <1>3, <3>1
  <1>8. TypeOK'
    <2>1. /\ wire' \in [Consumers -> Seq(Positions)] /\ chan' \in [Consumers -> Seq(Positions)]
      BY <1>3, <1>6, <1>7 DEF TypeOK
    <2>2. Len(wire'[c]) <= Window /\ Len(chan'[c]) <= ChannelSize
      <3>1. Len(wire[c]) \in Nat /\ Len(chan[c]) \in Nat
        BY ConsumerTypes
      <3>2. Len(chan[c]) <= ChannelSize
        BY DEF RemoteInv, TypeOK
      <3>3. Window \in Nat /\ ChannelSize \in Nat
        BY RemoteConstants
      <3> QED
        BY <1>3, <1>6, <1>7, <3>1, <3>2, <3>3
    <2>3. \A d \in Consumers \ {c} : chan'[d] = chan[d] /\ wire'[d] = wire[d]
      BY <1>1 DEF StepOf
    <2>4. \A d \in Consumers : Len(wire'[d]) <= Window /\ Len(chan'[d]) <= ChannelSize
      BY <2>2, <2>3 DEF TypeOK
    <2> QED
      BY <1>3, <2>1, <2>4 DEF TypeOK, exexVars
  <1>9. /\ Decoded(c)' = Decoded(c) /\ Carried(c)' = Carried(c) + 1 /\ Queued(c)' = Queued(c)
    <2>1. Decoded(c)' = Decoded(c)
      BY <1>3 DEF Decoded
    <2>2. Carried(c)' = Carried(c) + 1
      BY <1>5, <1>7, <2>1, ConsumerTypes DEF Carried
    <2>3. Queued(c)' = Queued(c)
      BY <1>6, <2>2, ConsumerTypes DEF Queued
    <2> QED
      BY <2>1, <2>2, <2>3
  <1>10. ReadingInv(c)'
    BY <1>3, <1>4, <1>6, <1>7, <1>9 DEF ReadingInv, CountsFrom
  <1>11. ConsumerInv(c)'
    BY <1>3, <1>10 DEF ConsumerInv, CountsFrom, exexVars
  <1> QED
    BY <1>1, <1>8, <1>11, ConsumerStep

LEMMA DropStreamStep ==
  ASSUME RemoteInv, NEW c \in Consumers, DropStream(c)
  PROVE  RemoteInv'
  <1> USE DEF RemoteInv
  <1>1. StepOf(c)
    BY DEF DropStream, StepOf, TypeOK
  <1>2. /\ UNCHANGED <<exexVars, consumer, task, first, pos, wire, got>>
        /\ consumer[c] # "reading" /\ open'[c] = FALSE /\ chan'[c] = <<>>
        /\ chan' = [chan EXCEPT ![c] = <<>>] /\ open' = [open EXCEPT ![c] = FALSE]
    BY DEF DropStream, TypeOK
  <1>3. TypeOK'
    <2>1. chan' \in [Consumers -> Seq(Positions)] /\ Len(chan'[c]) <= ChannelSize
      BY <1>2, EmptySeq, RemoteConstants DEF TypeOK
    <2>2. \A d \in Consumers \ {c} : chan'[d] = chan[d]
      BY <1>1 DEF StepOf
    <2> QED
      BY <1>2, <2>1, <2>2 DEF TypeOK, exexVars
  <1>4. ConsumerInv(c)'
    BY <1>2 DEF ConsumerInv, CountsFrom, exexVars, Decoded
  <1> QED
    BY <1>1, <1>3, <1>4, ConsumerStep

LEMMA ConsumerReadsStep ==
  ASSUME RemoteInv, NEW c \in Consumers, ConsumerReads(c)
  PROVE  RemoteInv'
  <1> USE DEF RemoteInv
  <1> DEFINE i == Head(wire[c])
  <1>1. StepOf(c)
    BY DEF ConsumerReads, StepOf, TypeOK
  <1>2. /\ UNCHANGED <<exexVars, task, first, pos, open, chan>>
        /\ consumer[c] = "reading" /\ wire[c] # <<>>
        /\ wire'[c] = Tail(wire[c]) /\ wire' = [wire EXCEPT ![c] = Tail(wire[c])]
        /\ \/ /\ consumer'[c] = "failed" /\ consumer' = [consumer EXCEPT ![c] = "failed"]
              /\ got' = got
           \/ /\ got'[c] = Append(got[c], i) /\ got' = [got EXCEPT ![c] = Append(got[c], i)]
              /\ consumer' = consumer
    BY DEF ConsumerReads, TypeOK
  <1>3. ReadingInv(c)
    BY <1>2 DEF ConsumerInv
  <1>4. /\ i \in Positions /\ i = Decoded(c) + 1
        /\ wire'[c] \in Seq(Positions) /\ CountsFrom(wire'[c], Decoded(c) + 1)
        /\ Len(wire'[c]) = Len(wire[c]) - 1
    <2>1. wire[c] \in Seq(Positions) /\ Decoded(c) \in Nat /\ CountsFrom(wire[c], Decoded(c))
      BY <1>3, ConsumerTypes DEF ReadingInv
    <2> QED
      BY <1>2, <2>1, CountsTail
  <1>5. /\ Append(got[c], i) \in Seq(Positions) /\ Len(Append(got[c], i)) = Len(got[c]) + 1
        /\ CountsFrom(Append(got[c], i), first[c])
    <2>1. got[c] \in Seq(Positions) /\ first[c] \in Nat /\ CountsFrom(got[c], first[c])
      BY ConsumerTypes DEF ConsumerInv
    <2>2. i = first[c] + Len(got[c]) + 1
      BY <1>4 DEF Decoded
    <2> QED
      BY <1>4, <2>1, <2>2, CountsAppend
  <1> HIDE DEF i
  <1>6. TypeOK'
    <2>1. wire' \in [Consumers -> Seq(Positions)] /\ got' \in [Consumers -> Seq(Positions)]
      BY <1>2, <1>4, <1>5 DEF TypeOK
    <2>2. Len(wire'[c]) <= Window
      BY <1>4, ConsumerTypes, RemoteConstants DEF TypeOK
    <2>3. \A d \in Consumers \ {c} : wire'[d] = wire[d]
      BY <1>1 DEF StepOf
    <2>4. consumer' \in [Consumers -> {"idle", "reading", "ended", "failed", "gone"}]
      BY <1>2 DEF TypeOK
    <2> QED
      BY <1>2, <2>1, <2>2, <2>3, <2>4 DEF TypeOK, exexVars
  <1>7. ASSUME consumer'[c] = "failed", got' = got
        PROVE  ConsumerInv(c)'
    BY <1>2, <1>7 DEF ConsumerInv, CountsFrom, exexVars
  <1>8. ASSUME got'[c] = Append(got[c], i), consumer' = consumer
        PROVE  ConsumerInv(c)'
    <2>1. Decoded(c)' = Decoded(c) + 1
      <3>1. Len(got'[c]) = Len(got[c]) + 1 /\ first'[c] = first[c]
        BY <1>2, <1>5, <1>8
      <3> QED
        BY <3>1, ConsumerTypes DEF Decoded
    <2>2. Carried(c)' = Carried(c)
      BY <1>4, <2>1, ConsumerTypes DEF Carried
    <2>3. Queued(c)' = Queued(c)
      BY <1>2, <2>2 DEF Queued
    <2>4. ReadingInv(c)'
      BY <1>2, <1>3, <1>4, <2>1, <2>2, <2>3 DEF ReadingInv, CountsFrom
    <2> QED
      <3>1. CountsFrom(got[c], first[c])'
        BY <1>2, <1>5, <1>8 DEF CountsFrom
      <3> QED
        BY <1>2, <1>8, <2>4, <3>1 DEF ConsumerInv, exexVars
  <1> QED
    BY <1>1, <1>2, <1>6, <1>7, <1>8, ConsumerStep

LEMMA ConsumerStopsStep ==
  ASSUME RemoteInv, NEW c \in Consumers, ConsumerEnds(c) \/ ConsumerLeaves(c)
  PROVE  RemoteInv'
  <1> USE DEF RemoteInv
  <1>1. StepOf(c)
    BY DEF ConsumerEnds, ConsumerLeaves, StepOf, TypeOK
  <1>2. consumer[c] = "reading" /\ UNCHANGED <<exexVars, task, first, pos, open, chan, got>>
    BY DEF ConsumerEnds, ConsumerLeaves
  <1>3. ReadingInv(c)
    BY <1>2 DEF ConsumerInv
  <1>4. CASE ConsumerEnds(c)
    <2>1. /\ wire[c] = <<>> /\ chan[c] = <<>> /\ task[c] = "ended" /\ wire' = wire
          /\ consumer'[c] = "ended" /\ consumer' = [consumer EXCEPT ![c] = "ended"]
      BY <1>4 DEF ConsumerEnds, TypeOK
    <2>2. Decoded(c) = pos[c]
      BY <1>3, <2>1, ConsumerTypes, EmptySeq DEF ReadingInv, Queued, Carried
    <2>3. TypeOK'
      BY <1>2, <2>1 DEF TypeOK, exexVars
    <2>4. ConsumerInv(c)'
      BY <1>2, <2>1, <2>2 DEF ConsumerInv, CountsFrom, Decoded, exexVars
    <2> QED
      BY <1>1, <2>3, <2>4, ConsumerStep
  <1>5. CASE ConsumerLeaves(c)
    <2>1. /\ consumer'[c] = "gone" /\ consumer' = [consumer EXCEPT ![c] = "gone"]
          /\ wire' = [wire EXCEPT ![c] = <<>>]
      BY <1>5 DEF ConsumerLeaves, TypeOK
    <2>2. TypeOK'
      <3>1. /\ wire' \in [Consumers -> Seq(Positions)]
            /\ \A d \in Consumers : Len(wire'[d]) <= Window
        BY <2>1, EmptySeq, RemoteConstants DEF TypeOK
      <3> QED
        BY <1>2, <2>1, <3>1 DEF TypeOK, exexVars
    <2>3. ConsumerInv(c)'
      BY <1>2, <2>1 DEF ConsumerInv, CountsFrom, exexVars
    <2> QED
      BY <1>1, <2>2, <2>3, ConsumerStep
  <1> QED
    BY <1>4, <1>5

LEMMA RemoteInvariant == Spec => []RemoteInv
  <1>1. Init => RemoteInv
    <2> SUFFICES ASSUME Init PROVE RemoteInv
      OBVIOUS
    <2>1. <<>> \in Seq(Positions) /\ Len(<<>>) = 0
      BY EmptySeq
    <2>2. TypeOK
      BY <2>1, RemoteConstants DEF Init, TypeOK, Positions
    <2>3. ASSUME NEW c \in Consumers PROVE ConsumerInv(c)
      BY <2>1 DEF Init, ConsumerInv, CountsFrom
    <2> QED
      BY <2>2, <2>3 DEF Init, RemoteInv
  <1>2. RemoteInv /\ [Next]_vars => RemoteInv'
    <2> SUFFICES ASSUME RemoteInv, [Next]_vars PROVE RemoteInv'
      OBVIOUS
    <2>1. CASE NodeNotifies \/ ReportHeight \/ Broadcast \/ ExExEnds
      BY <2>1, ExExSteps
    <2>2. ASSUME NEW c \in Consumers,
                 \/ Subscribe(c) \/ Task(c) \/ Transport(c) \/ DropStream(c)
                 \/ ConsumerReads(c) \/ ConsumerEnds(c) \/ ConsumerLeaves(c)
          PROVE  RemoteInv'
      BY <2>2, SubscribeStep, TaskStep, TransportStep, DropStreamStep, ConsumerReadsStep,
         ConsumerStopsStep
    <2>3. CASE UNCHANGED vars
      BY <2>3 DEF vars, exexVars, streamVars, RemoteInv, TypeOK, ConsumerInv, ReadingInv,
                  CountsFrom, Decoded, Carried, Queued
    <2> QED
      BY <2>1, <2>2, <2>3 DEF Next
  <1> QED
    BY <1>1, <1>2, PTL DEF Spec

-----------------------------------------------------------------------------
(***************************************************************************)
(* The codec: what Err and None differ from.                               *)
(***************************************************************************)

\* None and Err are neither records nor sequences, nor sets of entries: they
\* differ from everything that the conversions build.
Atom(v) ==
  /\ v # [x \in DOMAIN v |-> v[x]]
  /\ v \notin SUBSET (BundleAccountType \cup ContractType \cup [SlotFields -> Values])

Atoms == Atom(None) /\ Atom(Err)

\* A record, a sequence or another function.
IsFcn(f) == f = [x \in DOMAIN f |-> f[x]]

\* Nothing that is built by the conversions is None or Err.
LEMMA FcnFacts ==
  ASSUME Atoms, NEW f, IsFcn(f)
  PROVE  f # None /\ f # Err
  BY DEF Atoms, Atom, IsFcn

\* A message without an Err is the result.
LEMMA TryFacts ==
  ASSUME NEW r, \A f \in DOMAIN r : r[f] # Err
  PROVE  Try(r) = r
  BY DEF Try

\* Bytes of a fixed width come back as the value they were made of.
LEMMA BytesFacts ==
  ASSUME Atoms, NEW v, NEW w \in Nat
  PROVE  /\ Bytes(w, v) # None /\ Bytes(w, v) # Err
         /\ Fixed(w, Bytes(w, v)) = v
         /\ w <= 32 => LeSlice(Bytes(w, v)) = v
  <1>1. IsFcn(Bytes(w, v))
    BY DEF IsFcn, Bytes
  <1> QED
    BY <1>1, FcnFacts DEF Bytes, Fixed, LeSlice

\* Contents of fields, names of variants and numbers are not Err.
LEMMA ValueFacts ==
  /\ \A v \in Values : v # None /\ v # Err
  /\ \A v \in Variants \cup BOOLEAN \cup Nat : v # Err
  /\ None # Err
  BY CodecConstants DEF Opt

\* The names of variants are not Err.
LEMMA VariantFacts ==
  /\ \A i \in DOMAIN AccountStatus : AccountStatus[i] # Err
  /\ \A i \in DOMAIN TxType : TxType[i] # Err
  /\ \A v \in {"Create", "Call", "LegacyAnalyzed", "Some", "DoNothing", "DeleteIt", "RevertTo",
               "ChainCommitted", "ChainReorged", "ChainReverted",
               "Legacy", "Eip2930", "Eip1559", "Eip4844", "Eip7702", "Destroyed"} : v # Err
  <1>1. /\ \A i \in DOMAIN AccountStatus : AccountStatus[i] \in Variants
        /\ \A i \in DOMAIN TxType : TxType[i] \in Variants
    BY DEF Variants, ToSet
  <1>2. /\ \A v \in {"Legacy", "Eip2930", "Eip1559", "Eip4844", "Eip7702"} : v \in Variants
        /\ "Destroyed" \in Variants
    <2>1. /\ 1 \in DOMAIN TxType /\ 2 \in DOMAIN TxType /\ 3 \in DOMAIN TxType
          /\ 4 \in DOMAIN TxType /\ 5 \in DOMAIN TxType /\ 6 \in DOMAIN AccountStatus
      BY DEF TxType, AccountStatus
    <2>2. /\ TxType[1] = "Legacy" /\ TxType[2] = "Eip2930" /\ TxType[3] = "Eip1559"
          /\ TxType[4] = "Eip4844" /\ TxType[5] = "Eip7702" /\ AccountStatus[6] = "Destroyed"
      BY DEF TxType, AccountStatus
    <2> QED
      BY <1>1, <2>1, <2>2
  <1> QED
    BY <1>1, <1>2, ValueFacts DEF Variants

-----------------------------------------------------------------------------
(***************************************************************************)
(* The codec: headers.                                                     *)
(***************************************************************************)

\* Which conversion a field of a header takes.
LEMMA HeaderArms ==
  ASSUME NEW f, NEW v, NEW b
  PROVE  /\ f \in HashFields =>
              EncodeHeaderField(f, v) = Hash(v) /\ DecodeHeaderField(f, b) = TryHash(b)
         /\ f \in OptHashFields =>
              /\ EncodeHeaderField(f, v) = OptHash(v)
              /\ DecodeHeaderField(f, b) = TryOptHash(b)
         /\ f \in PlainFields =>
              EncodeHeaderField(f, v) = v /\ DecodeHeaderField(f, b) = b
         /\ f = "beneficiary" =>
              EncodeHeaderField(f, v) = Address(v) /\ DecodeHeaderField(f, b) = TryAddress(b)
         /\ f = "logs_bloom" =>
              EncodeHeaderField(f, v) = Bytes(256, v) /\ DecodeHeaderField(f, b) = Fixed(256, b)
         /\ f = "difficulty" =>
              EncodeHeaderField(f, v) = Bytes(32, v) /\ DecodeHeaderField(f, b) = LeSlice(b)
         /\ f = "nonce" =>
              EncodeHeaderField(f, v) = Bytes(8, v) /\ DecodeHeaderField(f, b) = Fixed(8, b)
  <1>1. ASSUME f \in HashFields
        PROVE  EncodeHeaderField(f, v) = Hash(v) /\ DecodeHeaderField(f, b) = TryHash(b)
    <2>1. /\ f \notin OptHashFields /\ f \notin PlainFields /\ f # "beneficiary"
          /\ f # "logs_bloom" /\ f # "difficulty" /\ f # "nonce"
      BY <1>1 DEF HashFields, OptHashFields, PlainFields
    <2> QED
      BY <1>1, <2>1, Zenon DEF EncodeHeaderField, DecodeHeaderField
  <1>2. ASSUME f \in OptHashFields
        PROVE  EncodeHeaderField(f, v) = OptHash(v) /\ DecodeHeaderField(f, b) = TryOptHash(b)
    <2>1. /\ f \notin HashFields /\ f \notin PlainFields /\ f # "beneficiary"
          /\ f # "logs_bloom" /\ f # "difficulty" /\ f # "nonce"
      BY <1>2 DEF HashFields, OptHashFields, PlainFields
    <2> QED
      BY <1>2, <2>1, Zenon DEF EncodeHeaderField, DecodeHeaderField
  <1>3. ASSUME f \in PlainFields
        PROVE  EncodeHeaderField(f, v) = v /\ DecodeHeaderField(f, b) = b
    <2>1. /\ f \notin HashFields /\ f \notin OptHashFields /\ f # "beneficiary"
          /\ f # "logs_bloom" /\ f # "difficulty" /\ f # "nonce"
      BY <1>3 DEF HashFields, OptHashFields, PlainFields
    <2> QED
      BY <1>3, <2>1, Zenon DEF EncodeHeaderField, DecodeHeaderField
  <1>4. ASSUME f = "beneficiary"
        PROVE  EncodeHeaderField(f, v) = Address(v) /\ DecodeHeaderField(f, b) = TryAddress(b)
    <2>1. /\ f \notin HashFields /\ f \notin OptHashFields /\ f \notin PlainFields
          /\ f # "logs_bloom" /\ f # "difficulty" /\ f # "nonce"
      BY <1>4 DEF HashFields, OptHashFields, PlainFields
    <2> QED
      BY <1>4, <2>1, Zenon DEF EncodeHeaderField, DecodeHeaderField
  <1>5. ASSUME f = "logs_bloom"
        PROVE  EncodeHeaderField(f, v) = Bytes(256, v) /\ DecodeHeaderField(f, b) = Fixed(256, b)
    <2>1. /\ f \notin HashFields /\ f \notin OptHashFields /\ f \notin PlainFields
          /\ f # "beneficiary" /\ f # "difficulty" /\ f # "nonce"
      BY <1>5 DEF HashFields, OptHashFields, PlainFields
    <2> QED
      BY <1>5, <2>1, Zenon DEF EncodeHeaderField, DecodeHeaderField
  <1>6. ASSUME f = "difficulty"
        PROVE  EncodeHeaderField(f, v) = Bytes(32, v) /\ DecodeHeaderField(f, b) = LeSlice(b)
    <2>1. /\ f \notin HashFields /\ f \notin OptHashFields /\ f \notin PlainFields
          /\ f # "beneficiary" /\ f # "logs_bloom" /\ f # "nonce"
      BY <1>6 DEF HashFields, OptHashFields, PlainFields
    <2> QED
      BY <1>6, <2>1, Zenon DEF EncodeHeaderField, DecodeHeaderField
  <1>7. ASSUME f = "nonce"
        PROVE  EncodeHeaderField(f, v) = Bytes(8, v) /\ DecodeHeaderField(f, b) = Fixed(8, b)
    <2>1. /\ f \notin HashFields /\ f \notin OptHashFields /\ f \notin PlainFields
          /\ f # "beneficiary" /\ f # "logs_bloom" /\ f # "difficulty"
      BY <1>7 DEF HashFields, OptHashFields, PlainFields
    <2> QED
      BY <1>7, <2>1, Zenon DEF EncodeHeaderField, DecodeHeaderField
  <1> QED
    BY <1>1, <1>2, <1>3, <1>4, <1>5, <1>6, <1>7

\* Headers.
LEMMA HeaderSame ==
  ASSUME Atoms, NEW h \in HeaderType
  PROVE  /\ DecodeHeader(EncodeHeader(h)) = KeptHeader(h)
         /\ EncodeHeader(h) # None /\ KeptHeader(h) # Err
  <1> DEFINE p == EncodeHeader(h)
             k == KeptHeader(h)
             all == HeaderFields \cup {"requests_hash"}
             D(f) == IF f = "requests_hash" THEN None ELSE DecodeHeaderField(f, p[f])
  <1>1. /\ IsFcn(p) /\ IsFcn(k)
        /\ DOMAIN k = all
        /\ \A f \in HeaderFields :
             k[f] = h[f] /\ h[f] \in Opt(Values) /\ p[f] = EncodeHeaderField(f, h[f])
        /\ k["requests_hash"] = None
    BY DEF EncodeHeader, KeptHeader, IsFcn, HeaderType, HeaderFields, HashFields,
           OptHashFields, PlainFields
  <1>2. \A f \in HeaderFields : DecodeHeaderField(f, EncodeHeaderField(f, h[f])) = h[f]
    <2> SUFFICES ASSUME NEW f \in HeaderFields
                 PROVE  DecodeHeaderField(f, EncodeHeaderField(f, h[f])) = h[f]
      OBVIOUS
    <2>1. CASE f \in OptHashFields
      <3>1. TryOptHash(OptHash(h[f])) = h[f]
        BY BytesFacts DEF OptHash, TryOptHash, OptMap, Hash, TryHash
      <3> QED
        BY <2>1, <3>1, HeaderArms
    <2>2. CASE f \notin OptHashFields
      <3>1. /\ TryHash(Hash(h[f])) = h[f] /\ TryAddress(Address(h[f])) = h[f]
            /\ Fixed(256, Bytes(256, h[f])) = h[f] /\ Fixed(8, Bytes(8, h[f])) = h[f]
            /\ LeSlice(Bytes(32, h[f])) = h[f]
        BY BytesFacts DEF Hash, TryHash, Address, TryAddress
      <3> QED
        BY <2>2, <3>1, HeaderArms DEF HeaderFields
    <2> QED
      BY <2>1, <2>2
  <1>3. \A f \in all : D(f) = k[f] /\ k[f] # Err
    BY <1>1, <1>2, ValueFacts DEF HeaderFields, HashFields, OptHashFields, PlainFields, Opt
  <1>4. /\ [f \in all |-> D(f)] = k
        /\ \A f \in all : [g \in all |-> D(g)][f] # Err
    BY <1>1, <1>3 DEF IsFcn
  <1>5. Try([f \in all |-> D(f)]) = k
    BY <1>4, TryFacts
  <1> QED
    BY <1>1, <1>5, FcnFacts DEF DecodeHeader

-----------------------------------------------------------------------------
(***************************************************************************)
(* The codec: transactions.                                                *)
(***************************************************************************)

\* A list of hashes.
LEMMA HashesSame ==
  ASSUME Atoms, NEW s \in Seq(Values)
  PROVE  /\ TryEach(TryHash, Each(Hash, s)) = s
         /\ s # Err
  <1>1. \A i \in DOMAIN s : TryHash(Hash(s[i])) = s[i] /\ s[i] # Err
    BY BytesFacts, ValueFacts DEF Hash, TryHash
  <1>2. IsFcn(s)
    BY DEF IsFcn
  <1>3. Each(TryHash, Each(Hash, s)) = s
    BY <1>1, <1>2 DEF Each, IsFcn
  <1> QED
    BY <1>1, <1>2, <1>3, FcnFacts, TryFacts DEF TryEach, Each

\* A list of addresses.
LEMMA AddressesSame ==
  ASSUME Atoms, NEW s \in Seq(Values)
  PROVE  /\ TryEach(TryAddress, Each(Address, s)) = s
         /\ s # Err
  <1>1. \A i \in DOMAIN s : TryAddress(Address(s[i])) = s[i] /\ s[i] # Err
    BY BytesFacts, ValueFacts DEF Address, TryAddress
  <1>2. IsFcn(s)
    BY DEF IsFcn
  <1>3. Each(TryAddress, Each(Address, s)) = s
    BY <1>1, <1>2 DEF Each, IsFcn
  <1> QED
    BY <1>1, <1>2, <1>3, FcnFacts, TryFacts DEF TryEach, Each

\* Access lists.
LEMMA AccessListItemSame ==
  ASSUME Atoms, NEW x \in AccessListItemType
  PROVE  DecodeAccessListItem(EncodeAccessListItem(x)) = x /\ x # Err
  <1> DEFINE p == EncodeAccessListItem(x)
             d == [address |-> TryAddress(p.address),
                   storage_keys |-> TryEach(TryHash, p.storage_keys)]
  <1>1. /\ x.address \in Values /\ x.storage_keys \in Seq(Values) /\ IsFcn(x)
        /\ x = [address |-> x.address, storage_keys |-> x.storage_keys]
    BY DEF AccessListItemType, IsFcn
  <1>2. TryAddress(p.address) = x.address
    BY BytesFacts DEF EncodeAccessListItem, TryAddress, Address
  <1>3. TryEach(TryHash, p.storage_keys) = x.storage_keys /\ x.storage_keys # Err
    BY HashesSame, <1>1 DEF EncodeAccessListItem, TryEach, Each
  <1>4. d = x
    BY <1>1, <1>2, <1>3 DEF TryEach, Each
  <1>5. \A f \in DOMAIN x : x[f] # Err
    BY <1>1, <1>3, ValueFacts
  <1> QED
    BY <1>1, <1>4, <1>5, FcnFacts, TryFacts DEF DecodeAccessListItem

\* An access list.
LEMMA AccessListSame ==
  ASSUME Atoms, NEW s \in Seq(AccessListItemType)
  PROVE  /\ TryEach(DecodeAccessListItem, Each(EncodeAccessListItem, s)) = s
         /\ s # Err
  <1>1. \A i \in DOMAIN s : DecodeAccessListItem(EncodeAccessListItem(s[i])) = s[i] /\ s[i] # Err
    BY AccessListItemSame
  <1>2. IsFcn(s)
    BY DEF IsFcn
  <1>3. Each(DecodeAccessListItem, Each(EncodeAccessListItem, s)) = s
    BY <1>1, <1>2 DEF Each, IsFcn
  <1> QED
    BY <1>1, <1>2, <1>3, FcnFacts, TryFacts DEF TryEach, Each

\* Authorizations: y_parity is a u8, so that cutting it back changes nothing.
LEMMA AuthorizationSame ==
  ASSUME Atoms, NEW a \in AuthorizationType
  PROVE  DecodeAuthorization(EncodeAuthorization(a)) = a /\ a # Err
  <1> DEFINE p == EncodeAuthorization(a)
             auth == p.authorization
             sig == p.signature
             d == [chain_id |-> Fixed(32, auth.chain_id), address |-> TryAddress(auth.address),
                   nonce |-> auth.nonce, r |-> LeSlice(sig.r), s |-> LeSlice(sig.s),
                   y_parity |-> sig.y_parity % 256]
  <1>1. /\ a.chain_id \in Values /\ a.address \in Values /\ a.nonce \in Values
        /\ a.r \in Values /\ a.s \in Values /\ a.y_parity \in 0 .. 255
        /\ IsFcn(a)
        /\ a = [chain_id |-> a.chain_id, address |-> a.address, nonce |-> a.nonce,
                r |-> a.r, s |-> a.s, y_parity |-> a.y_parity]
    BY DEF AuthorizationType, IsFcn
  <1>2. /\ auth = [chain_id |-> Bytes(32, a.chain_id), address |-> Address(a.address),
                   nonce |-> a.nonce]
        /\ sig = [r |-> Bytes(32, a.r), s |-> Bytes(32, a.s), y_parity |-> a.y_parity]
    BY DEF EncodeAuthorization
  <1>3. IsFcn(auth) /\ IsFcn(sig)
    BY <1>2 DEF IsFcn
  <1>4. a.y_parity % 256 = a.y_parity
    BY <1>1
  <1>5. d = a
    BY <1>1, <1>2, <1>4, BytesFacts DEF Address, TryAddress
  <1>6. \A f \in DOMAIN a : a[f] # Err
    <2>1. a.y_parity # Err
      BY <1>1, ValueFacts
    <2> QED
      BY <1>1, <2>1, ValueFacts
  <1>7. AuthorizationOf(sig, auth) = a
    BY <1>5, <1>6, TryFacts DEF AuthorizationOf
  <1> QED
    BY <1>1, <1>3, <1>7, FcnFacts DEF DecodeAuthorization, Require

\* An authorization list.
LEMMA AuthorizationsSame ==
  ASSUME Atoms, NEW s \in Seq(AuthorizationType)
  PROVE  /\ TryEach(DecodeAuthorization, Each(EncodeAuthorization, s)) = s
         /\ s # Err
  <1>1. \A i \in DOMAIN s : DecodeAuthorization(EncodeAuthorization(s[i])) = s[i] /\ s[i] # Err
    BY AuthorizationSame
  <1>2. IsFcn(s)
    BY DEF IsFcn
  <1>3. Each(DecodeAuthorization, Each(EncodeAuthorization, s)) = s
    BY <1>1, <1>2 DEF Each, IsFcn
  <1> QED
    BY <1>1, <1>2, <1>3, FcnFacts, TryFacts DEF TryEach, Each

\* The recipient of a transaction, or its creation.
LEMMA TxKindSame ==
  ASSUME Atoms, NEW k \in TxKindType
  PROVE  Require(DecodeTxKind, EncodeTxKind(k)) = k /\ k # Err
  <1> DEFINE p == EncodeTxKind(k)
  <1>1. IsFcn(k) /\ IsFcn(p)
    BY DEF IsFcn, TxKindType, EncodeTxKind
  <1>2. CASE k.kind = "Create"
    BY <1>1, <1>2, FcnFacts DEF EncodeTxKind, DecodeTxKind, Require
  <1>3. CASE k.kind # "Create"
    <2>1. k.address \in Values /\ k = [kind |-> "Call", address |-> k.address]
      BY <1>3 DEF TxKindType
    <2>2. p = [kind |-> "Call", address |-> Address(k.address)]
      BY <1>3 DEF EncodeTxKind
    <2>3. [kind |-> "Call", address |-> TryAddress(p.address)] = k
      BY <2>1, <2>2, BytesFacts DEF Address, TryAddress
    <2>4. \A f \in DOMAIN k : k[f] # Err
      BY <2>1, ValueFacts, VariantFacts
    <2>5. DecodeTxKind(p) = k
      BY <2>2, <2>3, <2>4, TryFacts DEF DecodeTxKind
    <2> QED
      BY <1>1, <2>5, FcnFacts DEF Require
  <1> QED
    BY <1>2, <1>3

\* The signature of a transaction.
LEMMA SignatureSame ==
  ASSUME Atoms, NEW g \in SignatureType
  PROVE  Require(DecodeSignature, EncodeSignature(g)) = g /\ g # Err
  <1> DEFINE p == EncodeSignature(g)
             d == [r |-> LeSlice(p.r), s |-> LeSlice(p.s), v |-> p.y_parity = 1]
  <1>1. /\ g.r \in Values /\ g.s \in Values /\ g.v \in BOOLEAN
        /\ g = [r |-> g.r, s |-> g.s, v |-> g.v] /\ IsFcn(g)
    BY DEF SignatureType, IsFcn
  <1>2. p = [r |-> Bytes(32, g.r), s |-> Bytes(32, g.s), y_parity |-> IF g.v THEN 1 ELSE 0]
    BY DEF EncodeSignature
  <1>3. IsFcn(p)
    BY <1>2 DEF IsFcn
  <1>4. p.y_parity <= 1 /\ (p.y_parity = 1) = g.v
    BY <1>1, <1>2
  <1>5. d = g
    BY <1>1, <1>2, <1>4, BytesFacts
  <1>6. \A f \in DOMAIN g : g[f] # Err
    <2>1. g.v # Err
      BY <1>1, ValueFacts
    <2> QED
      BY <1>1, <2>1, ValueFacts
  <1>7. DecodeSignature(p) = g
    BY <1>2, <1>4, <1>5, <1>6, TryFacts DEF DecodeSignature
  <1> QED
    BY <1>1, <1>3, <1>7, FcnFacts DEF Require

\* What the fields of a transaction hold, whatever its variant.
TxFieldsOK(kind, tx) ==
  /\ IsFcn(tx)
  /\ \A f \in DOMAIN tx :
       \/ f \in OpaqueFields /\ tx[f] \in Opt(Values)
       \/ f \in FeeFields \cup {"gas_limit", "value"} /\ tx[f] \in Values
       \/ f = "to" /\ tx[f] \in IF kind \in WithTxKind THEN TxKindType ELSE Values
       \/ f = "access_list" /\ tx[f] \in Seq(AccessListItemType)
       \/ f = "blob_versioned_hashes" /\ tx[f] \in Seq(Values)
       \/ f = "authorization_list" /\ tx[f] \in Seq(AuthorizationType)

\* The fields of a legacy transaction.
LEMMA LegacyFields ==
  ASSUME NEW tx \in LegacyType
  PROVE  TxFieldsOK("Legacy", tx)
  <1>1. /\ IsFcn(tx)
        /\ DOMAIN tx = {"chain_id", "nonce", "gas_limit", "value", "input", "gas_price", "to"}
        /\ tx["to"] \in TxKindType
        /\ tx["chain_id"] \in Opt(Values)
        /\ \A f \in DOMAIN tx \ {"to", "chain_id"} : tx[f] \in Values
    BY DEF IsFcn, LegacyType
  <1> QED
    BY <1>1 DEF TxFieldsOK, OpaqueFields, FeeFields, WithTxKind, Opt

\* The fields of an EIP-2930 transaction.
LEMMA Eip2930Fields ==
  ASSUME NEW tx \in Eip2930Type
  PROVE  TxFieldsOK("Eip2930", tx)
  <1>1. /\ IsFcn(tx)
        /\ DOMAIN tx = {"chain_id", "nonce", "gas_limit", "value", "input", "gas_price", "to",
                        "access_list"}
        /\ tx["to"] \in TxKindType
        /\ tx["access_list"] \in Seq(AccessListItemType)
        /\ \A f \in DOMAIN tx \ {"to", "access_list"} : tx[f] \in Values
    BY DEF IsFcn, Eip2930Type
  <1> QED
    BY <1>1 DEF TxFieldsOK, OpaqueFields, FeeFields, WithTxKind, Opt

\* The fields of an EIP-1559 transaction.
LEMMA Eip1559Fields ==
  ASSUME NEW tx \in Eip1559Type
  PROVE  TxFieldsOK("Eip1559", tx)
  <1>1. /\ IsFcn(tx)
        /\ DOMAIN tx = {"chain_id", "nonce", "gas_limit", "value", "input", "max_fee_per_gas",
                        "max_priority_fee_per_gas", "to", "access_list"}
        /\ tx["to"] \in TxKindType
        /\ tx["access_list"] \in Seq(AccessListItemType)
        /\ \A f \in DOMAIN tx \ {"to", "access_list"} : tx[f] \in Values
    BY DEF IsFcn, Eip1559Type
  <1> QED
    BY <1>1 DEF TxFieldsOK, OpaqueFields, FeeFields, WithTxKind, Opt

\* The fields of an EIP-4844 transaction.
LEMMA Eip4844Fields ==
  ASSUME NEW tx \in Eip4844Type
  PROVE  TxFieldsOK("Eip4844", tx)
  <1>1. /\ IsFcn(tx)
        /\ DOMAIN tx = {"chain_id", "nonce", "gas_limit", "value", "input", "max_fee_per_gas",
                        "max_priority_fee_per_gas", "to", "access_list",
                        "blob_versioned_hashes", "max_fee_per_blob_gas"}
        /\ tx["access_list"] \in Seq(AccessListItemType)
        /\ tx["blob_versioned_hashes"] \in Seq(Values)
        /\ \A f \in DOMAIN tx \ {"access_list", "blob_versioned_hashes"} : tx[f] \in Values
    BY DEF IsFcn, Eip4844Type
  <1> QED
    BY <1>1 DEF TxFieldsOK, OpaqueFields, FeeFields, WithTxKind, Opt

\* The fields of an EIP-7702 transaction.
LEMMA Eip7702Fields ==
  ASSUME NEW tx \in Eip7702Type
  PROVE  TxFieldsOK("Eip7702", tx)
  <1>1. /\ IsFcn(tx)
        /\ DOMAIN tx = {"chain_id", "nonce", "gas_limit", "value", "input", "max_fee_per_gas",
                        "max_priority_fee_per_gas", "to", "access_list", "authorization_list"}
        /\ tx["access_list"] \in Seq(AccessListItemType)
        /\ tx["authorization_list"] \in Seq(AuthorizationType)
        /\ \A f \in DOMAIN tx \ {"access_list", "authorization_list"} : tx[f] \in Values
    BY DEF IsFcn, Eip7702Type
  <1> QED
    BY <1>1 DEF TxFieldsOK, OpaqueFields, FeeFields, WithTxKind, Opt

\* The fields of a transaction of any variant.
LEMMA TransactionFields ==
  ASSUME NEW t \in TransactionType
  PROVE  /\ t = [hash |-> t.hash, kind |-> t.kind, tx |-> t.tx, signature |-> t.signature]
         /\ t.hash \in Values /\ t.signature \in SignatureType
         /\ t.kind \in {"Legacy", "Eip2930", "Eip1559", "Eip4844", "Eip7702"}
         /\ TxFieldsOK(t.kind, t.tx)
  <1>1. ASSUME NEW kind, NEW type, t \in [hash : Values, kind : {kind}, tx : type,
                                         signature : SignatureType]
        PROVE  /\ t = [hash |-> t.hash, kind |-> t.kind, tx |-> t.tx, signature |-> t.signature]
               /\ t.hash \in Values /\ t.signature \in SignatureType
               /\ t.kind = kind /\ t.tx \in type
    BY <1>1
  <1>2. \/ t \in [hash : Values, kind : {"Legacy"}, tx : LegacyType, signature : SignatureType]
        \/ t \in [hash : Values, kind : {"Eip2930"}, tx : Eip2930Type, signature : SignatureType]
        \/ t \in [hash : Values, kind : {"Eip1559"}, tx : Eip1559Type, signature : SignatureType]
        \/ t \in [hash : Values, kind : {"Eip4844"}, tx : Eip4844Type, signature : SignatureType]
        \/ t \in [hash : Values, kind : {"Eip7702"}, tx : Eip7702Type, signature : SignatureType]
    BY DEF TransactionType
  <1> QED
    BY <1>1, <1>2, LegacyFields, Eip2930Fields, Eip1559Fields, Eip4844Fields, Eip7702Fields

\* The fields of a transaction are converted there and back.
LEMMA TxFieldSame ==
  ASSUME Atoms, NEW kind, NEW f, NEW v,
         \/ f \in OpaqueFields /\ v \in Opt(Values)
         \/ f \in FeeFields \cup {"gas_limit", "value"} /\ v \in Values
         \/ f = "to" /\ v \in IF kind \in WithTxKind THEN TxKindType ELSE Values
         \/ f = "access_list" /\ v \in Seq(AccessListItemType)
         \/ f = "blob_versioned_hashes" /\ v \in Seq(Values)
         \/ f = "authorization_list" /\ v \in Seq(AuthorizationType)
  PROVE  DecodeTxField(kind, f, EncodeTxField(kind, f, v)) = v /\ v # Err
  <1> DEFINE b == EncodeTxField(kind, f, v)
             Same == DecodeTxField(kind, f, b) = v /\ v # Err
  <1>1. ASSUME f \in OpaqueFields, v \in Opt(Values)
        PROVE  Same
    <2>1. /\ f \notin FeeFields /\ f # "access_list" /\ f # "blob_versioned_hashes" /\ f # "authorization_list"
          /\ f # "gas_limit" /\ f # "value" /\ f # "to"
      BY <1>1 DEF OpaqueFields, FeeFields
    <2>2. b = v
      BY <1>1, <2>1, Zenon DEF EncodeTxField
    <2>3. DecodeTxField(kind, f, b) = b
      BY <1>1, <2>1, Zenon DEF DecodeTxField
    <2> QED
      BY <1>1, <2>2, <2>3, ValueFacts DEF Opt
  <1>2. ASSUME f \in FeeFields, v \in Values
        PROVE  Same
    <2>1. /\ f \notin OpaqueFields /\ f # "access_list" /\ f # "blob_versioned_hashes" /\ f # "authorization_list"
          /\ f # "gas_limit" /\ f # "value" /\ f # "to"
      BY <1>2 DEF OpaqueFields, FeeFields
    <2>2. b = Bytes(16, v)
      BY <1>2, <2>1, Zenon DEF EncodeTxField
    <2>3. DecodeTxField(kind, f, b) = Fixed(16, b)
      BY <1>2, <2>1, Zenon DEF DecodeTxField
    <2> QED
      BY <1>2, <2>2, <2>3, BytesFacts, ValueFacts
  <1>3. ASSUME f = "access_list", v \in Seq(AccessListItemType)
        PROVE  Same
    <2>1. /\ f \notin OpaqueFields /\ f \notin FeeFields /\ f # "blob_versioned_hashes" /\ f # "authorization_list"
          /\ f # "gas_limit" /\ f # "value" /\ f # "to"
      BY <1>3 DEF OpaqueFields, FeeFields
    <2>2. b = Each(EncodeAccessListItem, v)
      BY <1>3, <2>1, Zenon DEF EncodeTxField
    <2>3. DecodeTxField(kind, f, b) = TryEach(DecodeAccessListItem, b)
      BY <1>3, <2>1, Zenon DEF DecodeTxField
    <2> QED
      BY <1>3, <2>2, <2>3, AccessListSame DEF TryEach, Each
  <1>4. ASSUME f = "blob_versioned_hashes", v \in Seq(Values)
        PROVE  Same
    <2>1. /\ f \notin OpaqueFields /\ f \notin FeeFields /\ f # "access_list" /\ f # "authorization_list"
          /\ f # "gas_limit" /\ f # "value" /\ f # "to"
      BY <1>4 DEF OpaqueFields, FeeFields
    <2>2. b = Each(Hash, v)
      BY <1>4, <2>1, Zenon DEF EncodeTxField
    <2>3. DecodeTxField(kind, f, b) = TryEach(TryHash, b)
      BY <1>4, <2>1, Zenon DEF DecodeTxField
    <2> QED
      BY <1>4, <2>2, <2>3, HashesSame DEF TryEach, Each
  <1>5. ASSUME f = "authorization_list", v \in Seq(AuthorizationType)
        PROVE  Same
    <2>1. /\ f \notin OpaqueFields /\ f \notin FeeFields /\ f # "access_list" /\ f # "blob_versioned_hashes"
          /\ f # "gas_limit" /\ f # "value" /\ f # "to"
      BY <1>5 DEF OpaqueFields, FeeFields
    <2>2. b = Each(EncodeAuthorization, v)
      BY <1>5, <2>1, Zenon DEF EncodeTxField
    <2>3. DecodeTxField(kind, f, b) = TryEach(DecodeAuthorization, b)
      BY <1>5, <2>1, Zenon DEF DecodeTxField
    <2> QED
      BY <1>5, <2>2, <2>3, AuthorizationsSame DEF TryEach, Each
  <1>6. ASSUME f = "gas_limit", v \in Values
        PROVE  Same
    <2>1. /\ f \notin OpaqueFields /\ f \notin FeeFields /\ f # "access_list" /\ f # "blob_versioned_hashes"
          /\ f # "authorization_list" /\ f # "value" /\ f # "to"
      BY <1>6 DEF OpaqueFields, FeeFields
    <2>2. b = Bytes(8, v)
      BY <1>6, <2>1, Zenon DEF EncodeTxField
    <2>3. DecodeTxField(kind, f, b) = Fixed(8, b)
      BY <1>6, <2>1, Zenon DEF DecodeTxField
    <2> QED
      BY <1>6, <2>2, <2>3, BytesFacts, ValueFacts
  <1>7. ASSUME f = "value", v \in Values
        PROVE  Same
    <2>1. /\ f \notin OpaqueFields /\ f \notin FeeFields /\ f # "access_list" /\ f # "blob_versioned_hashes"
          /\ f # "authorization_list" /\ f # "gas_limit" /\ f # "to"
      BY <1>7 DEF OpaqueFields, FeeFields
    <2>2. b = Bytes(32, v)
      BY <1>7, <2>1, Zenon DEF EncodeTxField
    <2>3. DecodeTxField(kind, f, b) = LeSlice(b)
      BY <1>7, <2>1, Zenon DEF DecodeTxField
    <2> QED
      BY <1>7, <2>2, <2>3, BytesFacts, ValueFacts
  <1>8. ASSUME f = "to", v \in IF kind \in WithTxKind THEN TxKindType ELSE Values
        PROVE  Same
    <2>1. /\ f \notin OpaqueFields /\ f \notin FeeFields /\ f # "access_list" /\ f # "blob_versioned_hashes"
          /\ f # "authorization_list" /\ f # "gas_limit" /\ f # "value"
      BY <1>8 DEF OpaqueFields, FeeFields
    <2>2. b = IF kind \in WithTxKind THEN EncodeTxKind(v) ELSE Address(v)
      BY <1>8, <2>1, Zenon DEF EncodeTxField
    <2>3. DecodeTxField(kind, f, b) = IF kind \in WithTxKind THEN Require(DecodeTxKind, b) ELSE TryAddress(b)
      BY <1>8, <2>1, Zenon DEF DecodeTxField
    <2> QED
      BY <1>8, <2>2, <2>3, TxKindSame, BytesFacts, ValueFacts DEF Require, Address, TryAddress
  <1> QED
    BY <1>1, <1>2, <1>3, <1>4, <1>5, <1>6, <1>7, <1>8

\* The fields of a transaction together.
LEMMA TxSame ==
  ASSUME Atoms, NEW kind, NEW tx, TxFieldsOK(kind, tx)
  PROVE  DecodeTx(kind, EncodeTx(kind, tx)) = tx /\ tx # Err
  <1> DEFINE p == EncodeTx(kind, tx)
  <1>1. /\ DOMAIN p = DOMAIN tx
        /\ \A f \in DOMAIN tx : p[f] = EncodeTxField(kind, f, tx[f])
    BY DEF EncodeTx
  <1>2. \A f \in DOMAIN tx :
          DecodeTxField(kind, f, EncodeTxField(kind, f, tx[f])) = tx[f] /\ tx[f] # Err
    BY TxFieldSame DEF TxFieldsOK
  <1>3. [f \in DOMAIN p |-> DecodeTxField(kind, f, p[f])] = tx
    BY <1>1, <1>2 DEF TxFieldsOK, IsFcn
  <1> QED
    BY <1>2, <1>3, TryFacts, FcnFacts DEF DecodeTx, TxFieldsOK

\* Transactions.
LEMMA TransactionSame ==
  ASSUME Atoms, NEW t \in TransactionType
  PROVE  DecodeTransaction(EncodeTransaction(t)) = t /\ t # Err
  <1> DEFINE p == EncodeTransaction(t)
             d == [hash |-> TryHash(p.hash), kind |-> p.kind, tx |-> DecodeTx(p.kind, p.tx),
                   signature |-> Require(DecodeSignature, p.signature)]
  <1>1. /\ t = [hash |-> t.hash, kind |-> t.kind, tx |-> t.tx, signature |-> t.signature]
        /\ t.hash \in Values /\ t.signature \in SignatureType
        /\ t.kind \in {"Legacy", "Eip2930", "Eip1559", "Eip4844", "Eip7702"}
        /\ TxFieldsOK(t.kind, t.tx)
    BY TransactionFields
  <1>2. IsFcn(t)
    BY <1>1 DEF IsFcn
  <1>3. DecodeTx(t.kind, EncodeTx(t.kind, t.tx)) = t.tx /\ t.tx # Err
    BY <1>1, TxSame
  <1>4. /\ Require(DecodeSignature, EncodeSignature(t.signature)) = t.signature
        /\ t.signature # Err
    BY <1>1, SignatureSame
  <1>5. TryHash(Hash(t.hash)) = t.hash
    BY BytesFacts DEF TryHash, Hash
  <1>6. d = t
    BY <1>1, <1>3, <1>4, <1>5 DEF EncodeTransaction, Require
  <1>7. \A f \in DOMAIN t : t[f] # Err
    BY <1>1, <1>3, <1>4, ValueFacts, VariantFacts
  <1> QED
    BY <1>2, <1>6, <1>7, TryFacts, FcnFacts DEF DecodeTransaction

-----------------------------------------------------------------------------
(***************************************************************************)
(* The codec: accounts, contracts and reverts.                             *)
(***************************************************************************)

\* Statuses: a number names one status and each status has a number.
LEMMA StatusSame ==
  ASSUME NEW s \in ToSet(AccountStatus)
  PROVE  DecodeStatus(EncodeStatus(s)) = s /\ s # Err
  <1>1. DOMAIN AccountStatus \subseteq Int
    BY DEF AccountStatus
  <1>2. PICK i \in DOMAIN AccountStatus : AccountStatus[i] = s
    BY DEF ToSet
  <1> DEFINE k == CHOOSE j \in DOMAIN AccountStatus : AccountStatus[j] = s
  <1>3. k \in DOMAIN AccountStatus /\ AccountStatus[k] = s
    BY <1>2
  <1>4. EncodeStatus(s) = k - 1
    BY DEF EncodeStatus
  <1> HIDE DEF k
  <1>5. k - 1 + 1 = k
    BY <1>1, <1>3
  <1> QED
    BY <1>3, <1>4, <1>5, VariantFacts DEF DecodeStatus

\* The types of transactions, likewise.
LEMMA TxTypeSame ==
  ASSUME NEW t \in ToSet(TxType)
  PROVE  DecodeTxType(EncodeTxType(t)) = t /\ t # Err
  <1>1. DOMAIN TxType \subseteq Int
    BY DEF TxType
  <1>2. PICK i \in DOMAIN TxType : TxType[i] = t
    BY DEF ToSet
  <1> DEFINE k == CHOOSE j \in DOMAIN TxType : TxType[j] = t
  <1>3. k \in DOMAIN TxType /\ TxType[k] = t
    BY <1>2
  <1>4. EncodeTxType(t) = k - 1
    BY DEF EncodeTxType
  <1> HIDE DEF k
  <1>5. k - 1 + 1 = k
    BY <1>1, <1>3
  <1> QED
    BY <1>3, <1>4, <1>5, VariantFacts DEF DecodeTxType

\* Bytecodes.
LEMMA BytecodeSame ==
  ASSUME Atoms, NEW b \in BytecodeType
  PROVE  /\ DecodeBytecode(EncodeBytecode(b)) = b
         /\ b # Err /\ b # None /\ EncodeBytecode(b) # None
  <1> DEFINE p == EncodeBytecode(b)
  <1>1. IsFcn(b)
    BY DEF IsFcn, BytecodeType
  <1>2. CASE b.kind # "Eip7702"
    BY <1>1, <1>2, FcnFacts DEF EncodeBytecode, DecodeBytecode
  <1>3. CASE b.kind = "Eip7702"
    <2>1. b.address \in Values /\ b = [kind |-> "Eip7702", address |-> b.address]
      BY <1>3 DEF BytecodeType
    <2>2. p = [kind |-> "Eip7702", delegated_address |-> Address(b.address),
               raw |-> Bytes(23, b.address), version |-> 0]
      BY <1>3 DEF EncodeBytecode
    <2>3. IsFcn(p)
      BY <2>2 DEF IsFcn
    <2>4. [kind |-> "Eip7702", address |-> TryAddress(p.delegated_address)] = b
      BY <2>1, <2>2, BytesFacts DEF Address, TryAddress
    <2>5. \A f \in DOMAIN b : b[f] # Err
      BY <2>1, ValueFacts, VariantFacts
    <2>6. DecodeBytecode(p) = b
      BY <2>2, <2>4, <2>5, TryFacts DEF DecodeBytecode
    <2> QED
      BY <1>1, <2>3, <2>6, FcnFacts
  <1> QED
    BY <1>2, <1>3

\* An optional bytecode.
LEMMA CodeSame ==
  ASSUME Atoms, NEW c \in Opt(BytecodeType)
  PROVE  OptMap(DecodeBytecode, OptMap(EncodeBytecode, c)) = c /\ c # Err
  BY BytecodeSame, ValueFacts DEF Opt, OptMap

\* Accounts: account_id is lost.
LEMMA AccountInfoSame ==
  ASSUME Atoms, NEW a \in AccountInfoType
  PROVE  /\ DecodeAccountInfo(EncodeAccountInfo(a)) = [a EXCEPT !.account_id = None]
         /\ [a EXCEPT !.account_id = None] \in AccountInfoType
         /\ [a EXCEPT !.account_id = None] # Err
         /\ a # None /\ EncodeAccountInfo(a) # None
  <1> DEFINE p == EncodeAccountInfo(a)
             k == [account_id |-> None, balance |-> a.balance, nonce |-> a.nonce,
                   code_hash |-> a.code_hash, code |-> a.code]
             d == [account_id |-> None, balance |-> LeSlice(p.balance), nonce |-> p.nonce,
                   code_hash |-> TryHash(p.code_hash), code |-> OptMap(DecodeBytecode, p.code)]
  <1>1. /\ a.balance \in Values /\ a.nonce \in Values /\ a.code_hash \in Values
        /\ a.code \in Opt(BytecodeType)
        /\ [a EXCEPT !.account_id = None] = k
        /\ IsFcn(a) /\ IsFcn(p) /\ IsFcn(k)
    BY DEF AccountInfoType, EncodeAccountInfo, IsFcn
  <1>2. k \in AccountInfoType
    BY <1>1 DEF AccountInfoType, Opt
  <1>3. /\ LeSlice(p.balance) = a.balance /\ TryHash(p.code_hash) = a.code_hash
        /\ p.nonce = a.nonce
    BY BytesFacts DEF EncodeAccountInfo, TryHash, Hash
  <1>4. OptMap(DecodeBytecode, p.code) = a.code /\ a.code # Err
    BY <1>1, CodeSame DEF EncodeAccountInfo, OptMap
  <1>5. d = k
    BY <1>3, <1>4 DEF OptMap
  <1>6. \A f \in DOMAIN k : k[f] # Err
    BY <1>1, <1>4, ValueFacts
  <1>7. DecodeAccountInfo(p) = k
    BY <1>5, <1>6, TryFacts DEF DecodeAccountInfo
  <1> QED
    BY <1>1, <1>2, <1>7, FcnFacts

\* An optional account.
LEMMA InfoSame ==
  ASSUME Atoms, NEW a \in Opt(AccountInfoType)
  PROVE  /\ OptMap(DecodeAccountInfo, OptMap(EncodeAccountInfo, a)) = KeptInfo(a)
         /\ KeptInfo(a) \in Opt(AccountInfoType)
         /\ KeptInfo(a) # Err
  BY AccountInfoSame, ValueFacts DEF Opt, OptMap, KeptInfo

\* A slot of storage.
LEMMA SlotSame ==
  ASSUME Atoms, NEW s \in [SlotFields -> Values]
  PROVE  DecodeSlot(EncodeSlot(s)) = s /\ s # Err
  <1> DEFINE p == EncodeSlot(s)
  <1>1. \A f \in SlotFields : s[f] \in Values /\ LeSlice(p[f]) = s[f]
    BY BytesFacts DEF EncodeSlot
  <1>2. [f \in SlotFields |-> LeSlice(p[f])] = s /\ IsFcn(s)
    BY <1>1 DEF IsFcn
  <1>3. \A f \in DOMAIN s : s[f] # Err
    BY <1>1, ValueFacts
  <1> QED
    BY <1>2, <1>3, TryFacts, FcnFacts DEF DecodeSlot

\* The storage of an account.
LEMMA StorageSame ==
  ASSUME Atoms, NEW S \in SUBSET [SlotFields -> Values]
  PROVE  /\ TryEachEntry(DecodeSlot, EachEntry(EncodeSlot, S)) = S
         /\ S # Err
  <1>1. \A x \in S : DecodeSlot(EncodeSlot(x)) = x /\ x # Err /\ x \in [SlotFields -> Values]
    BY SlotSame
  <1>2. EachEntry(DecodeSlot, EachEntry(EncodeSlot, S)) = S
    BY <1>1 DEF EachEntry
  <1>3. Err \notin EachEntry(DecodeSlot, EachEntry(EncodeSlot, S))
    BY <1>1 DEF EachEntry
  <1>4. S \in SUBSET [SlotFields -> Values]
    BY <1>1
  <1> QED
    BY <1>2, <1>3, <1>4 DEF TryEachEntry, Atoms, Atom

\* An account of the bundle.
LEMMA BundleAccountSame ==
  ASSUME Atoms, NEW a \in BundleAccountType
  PROVE  /\ DecodeBundleAccount(EncodeBundleAccount(a)) = KeptAccount(a)
         /\ KeptAccount(a) \in BundleAccountType
         /\ KeptAccount(a) # Err
  <1> DEFINE p == EncodeBundleAccount(a)
             k == [address |-> a.address, info |-> KeptInfo(a.info),
                   original_info |-> KeptInfo(a.original_info), storage |-> a.storage,
                   status |-> a.status]
             d == [address |-> TryAddress(p.address), info |-> OptMap(DecodeAccountInfo, p.info),
                   original_info |-> OptMap(DecodeAccountInfo, p.original_info),
                   storage |-> TryEachEntry(DecodeSlot, p.storage),
                   status |-> DecodeStatus(p.status)]
  <1>1. /\ a.address \in Values /\ a.info \in Opt(AccountInfoType)
        /\ a.original_info \in Opt(AccountInfoType)
        /\ a.storage \in SUBSET [SlotFields -> Values] /\ a.status \in ToSet(AccountStatus)
        /\ a = [address |-> a.address, info |-> a.info, original_info |-> a.original_info,
                storage |-> a.storage, status |-> a.status]
    BY DEF BundleAccountType
  <1>2. KeptAccount(a) = k /\ IsFcn(k)
    <2> DEFINE u == [a EXCEPT !.info = KeptInfo(a.info)]
    <2>1. u = [address |-> a.address, info |-> KeptInfo(a.info),
               original_info |-> a.original_info, storage |-> a.storage, status |-> a.status]
      BY <1>1
    <2>2. KeptAccount(a) = [u EXCEPT !.original_info = KeptInfo(a.original_info)]
      BY DEF KeptAccount
    <2> HIDE DEF u
    <2> QED
      BY <2>1, <2>2 DEF IsFcn
  <1>3. k \in BundleAccountType
    BY <1>1, InfoSame DEF BundleAccountType
  <1>4. TryAddress(p.address) = a.address
    BY BytesFacts DEF EncodeBundleAccount, TryAddress, Address
  <1>5. /\ OptMap(DecodeAccountInfo, p.info) = KeptInfo(a.info)
        /\ OptMap(DecodeAccountInfo, p.original_info) = KeptInfo(a.original_info)
        /\ KeptInfo(a.info) # Err /\ KeptInfo(a.original_info) # Err
    BY <1>1, InfoSame DEF EncodeBundleAccount, OptMap
  <1>6. TryEachEntry(DecodeSlot, p.storage) = a.storage /\ a.storage # Err
    BY <1>1, StorageSame DEF EncodeBundleAccount, TryEachEntry, EachEntry
  <1>7. DecodeStatus(p.status) = a.status /\ a.status # Err
    BY <1>1, StatusSame DEF EncodeBundleAccount
  <1>8. d = k
    BY <1>4, <1>5, <1>6, <1>7 DEF OptMap, TryEachEntry, EachEntry
  <1>9. \A f \in DOMAIN k : k[f] # Err
    BY <1>1, <1>5, <1>6, <1>7, ValueFacts
  <1>10. DecodeBundleAccount(p) = k
    BY <1>8, <1>9, TryFacts DEF DecodeBundleAccount
  <1> QED
    BY <1>1, <1>2, <1>3, <1>10, FcnFacts

\* A slot to revert.
LEMMA RevertToSlotSame ==
  ASSUME Atoms, NEW s \in RevertToSlotType
  PROVE  DecodeRevertToSlot(EncodeRevertToSlot(s)) = s /\ s # Err
  <1> DEFINE p == EncodeRevertToSlot(s)
             d == [key |-> LeSlice(p.key), kind |-> p.kind, value |-> OptMap(LeSlice, p.value)]
  <1>1. /\ s.key \in Values /\ s.kind \in {"Some", "Destroyed"} /\ s.value \in Opt(Values)
        /\ s = [key |-> s.key, kind |-> s.kind, value |-> s.value] /\ IsFcn(s)
    BY DEF RevertToSlotType, IsFcn
  <1>2. OptMap(LeSlice, p.value) = s.value
    BY BytesFacts DEF EncodeRevertToSlot, OptMap
  <1>3. d = s
    BY <1>1, <1>2, BytesFacts DEF EncodeRevertToSlot, OptMap
  <1>4. \A f \in DOMAIN s : s[f] # Err
    BY <1>1, ValueFacts, VariantFacts DEF Opt
  <1> QED
    BY <1>1, <1>3, <1>4, TryFacts, FcnFacts DEF DecodeRevertToSlot

\* The slots to revert.
LEMMA RevertToSlotsSame ==
  ASSUME Atoms, NEW s \in Seq(RevertToSlotType)
  PROVE  /\ TryEach(DecodeRevertToSlot, Each(EncodeRevertToSlot, s)) = s
         /\ s # Err
  <1>1. \A i \in DOMAIN s : DecodeRevertToSlot(EncodeRevertToSlot(s[i])) = s[i] /\ s[i] # Err
    BY RevertToSlotSame
  <1>2. IsFcn(s)
    BY DEF IsFcn
  <1>3. Each(DecodeRevertToSlot, Each(EncodeRevertToSlot, s)) = s
    BY <1>1, <1>2 DEF Each, IsFcn
  <1> QED
    BY <1>1, <1>2, <1>3, FcnFacts, TryFacts DEF TryEach, Each

\* What happens to an account when it is reverted.
LEMMA AccountRevertSame ==
  ASSUME Atoms, NEW a \in AccountRevertType
  PROVE  /\ Require(DecodeAccountRevert, EncodeAccountRevert(a)) = KeptAccountRevert(a)
         /\ KeptAccountRevert(a) # Err
  <1> DEFINE p == EncodeAccountRevert(a)
             k == [kind |-> a.kind, info |-> KeptInfo(a.info)]
             d == [kind |-> p.kind, info |-> OptMap(DecodeAccountInfo, p.info)]
  <1>1. /\ a.kind \in {"DoNothing", "DeleteIt", "RevertTo"} /\ a.info \in Opt(AccountInfoType)
        /\ KeptAccountRevert(a) = k
    BY DEF AccountRevertType, KeptAccountRevert
  <1>2. IsFcn(k) /\ IsFcn(p)
    BY DEF IsFcn, EncodeAccountRevert
  <1>3. OptMap(DecodeAccountInfo, p.info) = KeptInfo(a.info) /\ KeptInfo(a.info) # Err
    BY <1>1, InfoSame DEF EncodeAccountRevert, OptMap
  <1>4. d = k
    BY <1>3 DEF EncodeAccountRevert, OptMap
  <1>5. \A f \in DOMAIN k : k[f] # Err
    BY <1>1, <1>3, VariantFacts
  <1>6. DecodeAccountRevert(p) = k
    BY <1>4, <1>5, TryFacts DEF DecodeAccountRevert
  <1> QED
    BY <1>1, <1>2, <1>6, FcnFacts DEF Require

\* The revert of an account.
LEMMA RevertSame ==
  ASSUME Atoms, NEW r \in RevertType
  PROVE  DecodeRevert(EncodeRevert(r)) = KeptRevert(r) /\ KeptRevert(r) # Err
  <1> DEFINE p == EncodeRevert(r)
             account == KeptAccountRevert(r.account)
             k == [address |-> r.address, account |-> account, storage |-> r.storage,
                   previous_status |-> r.previous_status, wipe_storage |-> r.wipe_storage]
             d == [address |-> TryAddress(p.address),
                   account |-> Require(DecodeAccountRevert, p.account),
                   storage |-> TryEach(DecodeRevertToSlot, p.storage),
                   previous_status |-> DecodeStatus(p.previous_status),
                   wipe_storage |-> p.wipe_storage]
  <1>1. /\ r.address \in Values /\ r.account \in AccountRevertType
        /\ r.storage \in Seq(RevertToSlotType) /\ r.previous_status \in ToSet(AccountStatus)
        /\ r.wipe_storage \in BOOLEAN
        /\ KeptRevert(r) = k
    BY DEF RevertType, KeptRevert
  <1>2. IsFcn(k)
    BY DEF IsFcn
  <1>3. TryAddress(p.address) = r.address
    BY BytesFacts DEF EncodeRevert, TryAddress, Address
  <1>4. Require(DecodeAccountRevert, p.account) = account /\ account # Err
    BY <1>1, AccountRevertSame DEF EncodeRevert, Require
  <1>5. TryEach(DecodeRevertToSlot, p.storage) = r.storage /\ r.storage # Err
    BY <1>1, RevertToSlotsSame DEF EncodeRevert, TryEach, Each
  <1>6. DecodeStatus(p.previous_status) = r.previous_status /\ r.previous_status # Err
    BY <1>1, StatusSame DEF EncodeRevert
  <1>7. p.wipe_storage = r.wipe_storage
    BY DEF EncodeRevert
  <1>8. d = k
    BY <1>3, <1>4, <1>5, <1>6, <1>7 DEF Require, TryEach, Each
  <1>9. \A f \in DOMAIN k : k[f] # Err
    <2>1. r.wipe_storage # Err
      BY <1>1, ValueFacts
    <2> QED
      BY <1>1, <2>1, <1>4, <1>5, <1>6, ValueFacts
  <1>10. DecodeRevert(p) = k
    BY <1>8, <1>9, TryFacts DEF DecodeRevert
  <1> QED
    BY <1>1, <1>2, <1>10, FcnFacts

\* The reverts of a block.
LEMMA RevertsSame ==
  ASSUME Atoms, NEW s \in Seq(RevertType)
  PROVE  /\ TryEach(DecodeRevert, Each(EncodeRevert, s)) = Each(KeptRevert, s)
         /\ Each(KeptRevert, s) # Err
  <1>1. \A i \in DOMAIN s : DecodeRevert(EncodeRevert(s[i])) = KeptRevert(s[i]) /\ KeptRevert(s[i]) # Err
    BY RevertSame
  <1>2. IsFcn(s) /\ IsFcn(Each(KeptRevert, s))
    BY DEF IsFcn, Each
  <1>3. Each(DecodeRevert, Each(EncodeRevert, s)) = Each(KeptRevert, s)
    BY <1>1, <1>2 DEF Each, IsFcn
  <1> QED
    BY <1>1, <1>2, <1>3, FcnFacts, TryFacts DEF TryEach, Each

-----------------------------------------------------------------------------
(***************************************************************************)
(* The codec: receipts.                                                    *)
(***************************************************************************)

\* Logs.
LEMMA LogSame ==
  ASSUME Atoms, NEW l \in LogType
  PROVE  DecodeLog(EncodeLog(l)) = l /\ l # Err
  <1> DEFINE p == EncodeLog(l)
             d == [address |-> TryAddress(p.address), topics |-> TryEach(TryHash, p.data.topics),
                   data |-> p.data.data]
  <1>1. /\ l.address \in Values /\ l.topics \in Seq(Values) /\ l.data \in Values
        /\ l = [address |-> l.address, topics |-> l.topics, data |-> l.data] /\ IsFcn(l)
    BY DEF LogType, IsFcn
  <1>2. p.data = [topics |-> Each(Hash, l.topics), data |-> l.data] /\ p.address = Address(l.address)
    BY DEF EncodeLog
  <1>3. IsFcn(p.data)
    BY <1>2 DEF IsFcn
  <1>4. TryAddress(p.address) = l.address
    BY <1>2, BytesFacts DEF TryAddress, Address
  <1>5. TryEach(TryHash, p.data.topics) = l.topics /\ l.topics # Err
    BY <1>1, <1>2, HashesSame DEF TryEach, Each
  <1>6. d = l
    BY <1>1, <1>2, <1>4, <1>5 DEF TryEach, Each
  <1>7. \A f \in DOMAIN l : l[f] # Err
    BY <1>1, <1>5, ValueFacts
  <1>8. LogOf(p, p.data) = l
    BY <1>6, <1>7, TryFacts DEF LogOf
  <1> QED
    BY <1>1, <1>3, <1>8, FcnFacts DEF DecodeLog, Require

\* The logs of a receipt.
LEMMA LogsSame ==
  ASSUME Atoms, NEW s \in Seq(LogType)
  PROVE  /\ TryEach(DecodeLog, Each(EncodeLog, s)) = s
         /\ s # Err
  <1>1. \A i \in DOMAIN s : DecodeLog(EncodeLog(s[i])) = s[i] /\ s[i] # Err
    BY LogSame
  <1>2. IsFcn(s)
    BY DEF IsFcn
  <1>3. Each(DecodeLog, Each(EncodeLog, s)) = s
    BY <1>1, <1>2 DEF Each, IsFcn
  <1> QED
    BY <1>1, <1>2, <1>3, FcnFacts, TryFacts DEF TryEach, Each

\* Receipts.
LEMMA ReceiptSame ==
  ASSUME Atoms, NEW r \in ReceiptType
  PROVE  DecodeReceipt(EncodeReceipt(r)) = r /\ r # Err
  <1> DEFINE p == EncodeReceipt(r)
             q == p.receipt
             d == [tx_type |-> DecodeTxType(q.tx_type), success |-> q.success,
                   cumulative_gas_used |-> q.cumulative_gas_used,
                   logs |-> TryEach(DecodeLog, q.logs)]
  <1>1. /\ r.tx_type \in ToSet(TxType) /\ r.success \in BOOLEAN
        /\ r.cumulative_gas_used \in Values /\ r.logs \in Seq(LogType)
        /\ r = [tx_type |-> r.tx_type, success |-> r.success,
                cumulative_gas_used |-> r.cumulative_gas_used, logs |-> r.logs]
        /\ IsFcn(r)
    BY DEF ReceiptType, IsFcn
  <1>2. /\ p.kind = "NonEmpty"
        /\ q = [tx_type |-> EncodeTxType(r.tx_type), success |-> r.success,
                cumulative_gas_used |-> r.cumulative_gas_used, logs |-> Each(EncodeLog, r.logs)]
    BY DEF EncodeReceipt
  <1>3. DecodeTxType(q.tx_type) = r.tx_type /\ r.tx_type # Err
    BY <1>1, <1>2, TxTypeSame
  <1>4. TryEach(DecodeLog, q.logs) = r.logs /\ r.logs # Err
    BY <1>1, <1>2, LogsSame DEF TryEach, Each
  <1>5. d = r
    BY <1>1, <1>2, <1>3, <1>4 DEF TryEach, Each
  <1>6. \A f \in DOMAIN r : r[f] # Err
    <2>1. r.success # Err
      BY <1>1, ValueFacts
    <2> QED
      BY <1>1, <1>3, <1>4, <2>1, ValueFacts
  <1>7. DecodeReceipt(p) = r
    BY <1>2, <1>5, <1>6, TryFacts DEF DecodeReceipt
  <1> QED
    BY <1>1, <1>7, FcnFacts

\* The receipts of a block.
LEMMA ReceiptsSame ==
  ASSUME Atoms, NEW s \in Seq(ReceiptType)
  PROVE  /\ TryEach(DecodeReceipt, Each(EncodeReceipt, s)) = s
         /\ s # Err
  <1>1. \A i \in DOMAIN s : DecodeReceipt(EncodeReceipt(s[i])) = s[i] /\ s[i] # Err
    BY ReceiptSame
  <1>2. IsFcn(s)
    BY DEF IsFcn
  <1>3. Each(DecodeReceipt, Each(EncodeReceipt, s)) = s
    BY <1>1, <1>2 DEF Each, IsFcn
  <1> QED
    BY <1>1, <1>2, <1>3, FcnFacts, TryFacts DEF TryEach, Each

-----------------------------------------------------------------------------
(***************************************************************************)
(* The codec: blocks, chains and notifications.                            *)
(***************************************************************************)

\* The transactions of a block.
LEMMA TransactionsSame ==
  ASSUME Atoms, NEW s \in Seq(TransactionType)
  PROVE  /\ TryEach(DecodeTransaction, Each(EncodeTransaction, s)) = s
         /\ s # Err
  <1>1. \A i \in DOMAIN s : DecodeTransaction(EncodeTransaction(s[i])) = s[i] /\ s[i] # Err
    BY TransactionSame
  <1>2. IsFcn(s)
    BY DEF IsFcn
  <1>3. Each(DecodeTransaction, Each(EncodeTransaction, s)) = s
    BY <1>1, <1>2 DEF Each, IsFcn
  <1> QED
    BY <1>1, <1>2, <1>3, FcnFacts, TryFacts DEF TryEach, Each

\* The ommers of a block.
LEMMA OmmersSame ==
  ASSUME Atoms, NEW s \in Seq(HeaderType)
  PROVE  /\ TryEach(DecodeHeader, Each(EncodeHeader, s)) = Each(KeptHeader, s)
         /\ Each(KeptHeader, s) # Err
  <1>1. \A i \in DOMAIN s : DecodeHeader(EncodeHeader(s[i])) = KeptHeader(s[i]) /\ KeptHeader(s[i]) # Err
    BY HeaderSame
  <1>2. IsFcn(s) /\ IsFcn(Each(KeptHeader, s))
    BY DEF IsFcn, Each
  <1>3. Each(DecodeHeader, Each(EncodeHeader, s)) = Each(KeptHeader, s)
    BY <1>1, <1>2 DEF Each, IsFcn
  <1> QED
    BY <1>1, <1>2, <1>3, FcnFacts, TryFacts DEF TryEach, Each

\* Blocks: the withdrawals are lost.
LEMMA BlockSame ==
  ASSUME Atoms, NEW b \in BlockType
  PROVE  DecodeBlock(EncodeBlock(b)) = KeptBlock(b) /\ KeptBlock(b) # Err
  <1> DEFINE p == EncodeBlock(b)
             sealed == p.header
             k == [hash |-> b.hash, header |-> KeptHeader(b.header),
                   transactions |-> b.transactions, ommers |-> Each(KeptHeader, b.ommers),
                   withdrawals |-> None, senders |-> b.senders]
             d == [hash |-> TryHash(sealed.hash), header |-> Require(DecodeHeader, sealed.header),
                   transactions |-> TryEach(DecodeTransaction, p.body),
                   ommers |-> TryEach(DecodeHeader, p.ommers), withdrawals |-> None,
                   senders |-> TryEach(TryAddress, p.senders)]
  <1>1. /\ b.hash \in Values /\ b.header \in HeaderType
        /\ b.transactions \in Seq(TransactionType) /\ b.ommers \in Seq(HeaderType)
        /\ b.senders \in Seq(Values)
        /\ b = [hash |-> b.hash, header |-> b.header, transactions |-> b.transactions,
                ommers |-> b.ommers, withdrawals |-> b.withdrawals, senders |-> b.senders]
    BY DEF BlockType
  <1>2. KeptBlock(b) = k /\ IsFcn(k)
    <2> DEFINE u == [b EXCEPT !.header = KeptHeader(b.header)]
               v == [u EXCEPT !.ommers = Each(KeptHeader, b.ommers)]
    <2>1. u = [hash |-> b.hash, header |-> KeptHeader(b.header),
               transactions |-> b.transactions, ommers |-> b.ommers,
               withdrawals |-> b.withdrawals, senders |-> b.senders]
      BY <1>1
    <2>2. KeptBlock(b) = [v EXCEPT !.withdrawals = None]
      BY DEF KeptBlock
    <2> HIDE DEF u
    <2>3. v = [hash |-> b.hash, header |-> KeptHeader(b.header),
               transactions |-> b.transactions, ommers |-> Each(KeptHeader, b.ommers),
               withdrawals |-> b.withdrawals, senders |-> b.senders]
      BY <2>1 DEF Each
    <2> HIDE DEF v
    <2> QED
      BY <2>2, <2>3 DEF IsFcn, Each
  <1>3. /\ sealed = [hash |-> Hash(b.hash), header |-> EncodeHeader(b.header)]
        /\ p.body = Each(EncodeTransaction, b.transactions)
        /\ p.ommers = Each(EncodeHeader, b.ommers) /\ p.senders = Each(Address, b.senders)
    BY DEF EncodeBlock, Each
  <1>4. IsFcn(sealed)
    BY <1>3 DEF IsFcn
  <1>5. TryHash(sealed.hash) = b.hash
    BY <1>3, BytesFacts DEF TryHash, Hash
  <1>6. Require(DecodeHeader, sealed.header) = KeptHeader(b.header) /\ KeptHeader(b.header) # Err
    BY <1>1, <1>3, HeaderSame DEF Require
  <1>7. TryEach(DecodeTransaction, p.body) = b.transactions /\ b.transactions # Err
    BY <1>1, <1>3, TransactionsSame DEF TryEach, Each
  <1>8. /\ TryEach(DecodeHeader, p.ommers) = Each(KeptHeader, b.ommers)
        /\ Each(KeptHeader, b.ommers) # Err
    BY <1>1, <1>3, OmmersSame DEF TryEach, Each
  <1>9. TryEach(TryAddress, p.senders) = b.senders /\ b.senders # Err
    BY <1>1, <1>3, AddressesSame DEF TryEach, Each
  <1>10. d = k
    BY <1>5, <1>6, <1>7, <1>8, <1>9 DEF Require, TryEach, Each
  <1>11. \A f \in DOMAIN k : k[f] # Err
    BY <1>1, <1>6, <1>7, <1>8, <1>9, ValueFacts DEF Each
  <1>12. BlockOf(sealed, p) = k
    BY <1>10, <1>11, TryFacts DEF BlockOf
  <1> QED
    BY <1>2, <1>4, <1>12, FcnFacts DEF DecodeBlock, Require

\* The blocks of a chain.
LEMMA BlocksSame ==
  ASSUME Atoms, NEW s \in Seq(BlockType)
  PROVE  /\ TryEach(DecodeBlock, Each(EncodeBlock, s)) = Each(KeptBlock, s)
         /\ Each(KeptBlock, s) # Err
  <1>1. \A i \in DOMAIN s : DecodeBlock(EncodeBlock(s[i])) = KeptBlock(s[i]) /\ KeptBlock(s[i]) # Err
    BY BlockSame
  <1>2. IsFcn(s) /\ IsFcn(Each(KeptBlock, s))
    BY DEF IsFcn, Each
  <1>3. Each(DecodeBlock, Each(EncodeBlock, s)) = Each(KeptBlock, s)
    BY <1>1, <1>2 DEF Each, IsFcn
  <1> QED
    BY <1>1, <1>2, <1>3, FcnFacts, TryFacts DEF TryEach, Each

\* A contract of the bundle.
LEMMA ContractSame ==
  ASSUME Atoms, NEW e \in ContractType
  PROVE  DecodeContract(EncodeContract(e)) = e /\ e # Err
  <1> DEFINE p == EncodeContract(e)
             d == [hash |-> TryHash(p.hash), bytecode |-> Require(DecodeBytecode, p.bytecode)]
  <1>1. /\ e.hash \in Values /\ e.bytecode \in BytecodeType
        /\ e = [hash |-> e.hash, bytecode |-> e.bytecode] /\ IsFcn(e)
    BY DEF ContractType, IsFcn
  <1>2. TryHash(p.hash) = e.hash
    BY BytesFacts DEF EncodeContract, TryHash, Hash
  <1>3. Require(DecodeBytecode, p.bytecode) = e.bytecode /\ e.bytecode # Err
    BY <1>1, BytecodeSame DEF EncodeContract, Require
  <1>4. d = e
    BY <1>1, <1>2, <1>3 DEF Require
  <1>5. \A f \in DOMAIN e : e[f] # Err
    BY <1>1, <1>3, ValueFacts
  <1> QED
    BY <1>1, <1>4, <1>5, TryFacts, FcnFacts DEF DecodeContract

\* The contracts of the bundle.
LEMMA ContractsSame ==
  ASSUME Atoms, NEW S \in SUBSET ContractType
  PROVE  /\ TryEachEntry(DecodeContract, EachEntry(EncodeContract, S)) = S
         /\ S # Err
  <1>1. \A x \in S : DecodeContract(EncodeContract(x)) = x /\ x # Err /\ x \in ContractType
    BY ContractSame
  <1>2. EachEntry(DecodeContract, EachEntry(EncodeContract, S)) = S
    BY <1>1 DEF EachEntry
  <1>3. Err \notin EachEntry(DecodeContract, EachEntry(EncodeContract, S))
    BY <1>1 DEF EachEntry
  <1>4. S \in SUBSET ContractType
    BY <1>1
  <1> QED
    BY <1>2, <1>3, <1>4 DEF TryEachEntry, Atoms, Atom

\* The accounts of the bundle.
LEMMA AccountsSame ==
  ASSUME Atoms, NEW S \in SUBSET BundleAccountType
  PROVE  /\ TryEachEntry(DecodeBundleAccount, EachEntry(EncodeBundleAccount, S)) = EachEntry(KeptAccount, S)
         /\ EachEntry(KeptAccount, S) # Err
  <1>1. \A x \in S : DecodeBundleAccount(EncodeBundleAccount(x)) = KeptAccount(x) /\ KeptAccount(x) # Err /\ KeptAccount(x) \in BundleAccountType
    BY BundleAccountSame
  <1>2. EachEntry(DecodeBundleAccount, EachEntry(EncodeBundleAccount, S)) = EachEntry(KeptAccount, S)
    BY <1>1 DEF EachEntry
  <1>3. Err \notin EachEntry(DecodeBundleAccount, EachEntry(EncodeBundleAccount, S))
    BY <1>1 DEF EachEntry
  <1>4. EachEntry(KeptAccount, S) \in SUBSET BundleAccountType
    BY <1>1 DEF EachEntry
  <1> QED
    BY <1>2, <1>3, <1>4 DEF TryEachEntry, Atoms, Atom

\* The reverts of all blocks.
LEMMA AllRevertsSame ==
  ASSUME Atoms, NEW s \in Seq(Seq(RevertType))
  PROVE  /\ TryEach(DecodeReverts, Each(EncodeReverts, s)) = Each(KeptReverts, s)
         /\ Each(KeptReverts, s) # Err
  <1>1. \A i \in DOMAIN s : DecodeReverts(EncodeReverts(s[i])) = KeptReverts(s[i]) /\ KeptReverts(s[i]) # Err
    BY RevertsSame DEF DecodeReverts, EncodeReverts, KeptReverts, TryEach, Each
  <1>2. IsFcn(s) /\ IsFcn(Each(KeptReverts, s))
    BY DEF IsFcn, Each
  <1>3. Each(DecodeReverts, Each(EncodeReverts, s)) = Each(KeptReverts, s)
    BY <1>1, <1>2 DEF Each, IsFcn
  <1> QED
    BY <1>1, <1>2, <1>3, FcnFacts, TryFacts DEF TryEach, Each

\* The receipts of all blocks.
LEMMA AllReceiptsSame ==
  ASSUME Atoms, NEW s \in Seq(Seq(ReceiptType))
  PROVE  /\ TryEach(DecodeReceipts, Each(EncodeReceipts, s)) = s
         /\ s # Err
  <1>1. \A i \in DOMAIN s : DecodeReceipts(EncodeReceipts(s[i])) = s[i] /\ s[i] # Err
    BY ReceiptsSame DEF DecodeReceipts, EncodeReceipts, TryEach, Each
  <1>2. IsFcn(s)
    BY DEF IsFcn
  <1>3. Each(DecodeReceipts, Each(EncodeReceipts, s)) = s
    BY <1>1, <1>2 DEF Each, IsFcn
  <1> QED
    BY <1>1, <1>2, <1>3, FcnFacts, TryFacts DEF TryEach, Each

\* The bundle.
LEMMA BundleSame ==
  ASSUME Atoms, NEW b \in BundleType
  PROVE  /\ Require(DecodeBundle, EncodeBundle(b)) = KeptBundle(b)
         /\ KeptBundle(b) # Err
  <1> DEFINE p == EncodeBundle(b)
             es == EachEntry(EncodeBundleAccount, b.state)
             ec == EachEntry(EncodeContract, b.contracts)
             er == Each(EncodeReverts, b.reverts)
             state == EachEntry(KeptAccount, b.state)
             reverts == Each(KeptReverts, b.reverts)
             k == [state |-> state, contracts |-> b.contracts, reverts |-> reverts,
                   state_size |-> b.state_size, reverts_size |-> b.reverts_size]
             d == [state |-> TryEachEntry(DecodeBundleAccount, p.state),
                   contracts |-> TryEachEntry(DecodeContract, p.contracts),
                   reverts |-> TryEach(DecodeReverts, p.reverts),
                   state_size |-> p.state_size, reverts_size |-> p.reverts_size]
  <1>1. /\ b.state \in SUBSET BundleAccountType /\ b.contracts \in SUBSET ContractType
        /\ b.reverts \in Seq(Seq(RevertType))
        /\ b.state_size \in Values /\ b.reverts_size \in Values
        /\ b = [state |-> b.state, contracts |-> b.contracts, reverts |-> b.reverts,
                state_size |-> b.state_size, reverts_size |-> b.reverts_size]
    BY DEF BundleType
  <1>2. KeptBundle(b) = k /\ IsFcn(k)
    <2> DEFINE u == [b EXCEPT !.state = state]
    <2>1. KeptBundle(b) = [u EXCEPT !.reverts = reverts]
      BY DEF KeptBundle
    <2> HIDE DEF state, reverts
    <2>2. u = [state |-> state, contracts |-> b.contracts, reverts |-> b.reverts,
               state_size |-> b.state_size, reverts_size |-> b.reverts_size]
      BY <1>1
    <2> HIDE DEF u
    <2> QED
      BY <2>1, <2>2 DEF IsFcn
  <1>3. /\ p.state = es /\ p.contracts = ec /\ p.reverts = er
        /\ p.state_size = b.state_size /\ p.reverts_size = b.reverts_size /\ IsFcn(p)
    BY DEF EncodeBundle, EachEntry, Each, IsFcn
  <1>4. TryEachEntry(DecodeBundleAccount, es) = state /\ state # Err
    BY <1>1, AccountsSame DEF TryEachEntry, EachEntry
  <1>5. TryEachEntry(DecodeContract, ec) = b.contracts /\ b.contracts # Err
    BY <1>1, ContractsSame DEF TryEachEntry, EachEntry
  <1>6. TryEach(DecodeReverts, er) = reverts /\ reverts # Err
    BY <1>1, AllRevertsSame DEF TryEach, Each
  <1>7. d = k
    <2> HIDE DEF p, es, ec, er, state, reverts
    <2> QED
      BY <1>3, <1>4, <1>5, <1>6, Zenon
  <1>8. \A f \in DOMAIN k : k[f] # Err
    <2> HIDE DEF state, reverts
    <2> QED
      BY <1>1, <1>4, <1>5, <1>6, ValueFacts
  <1>9. DecodeBundle(p) = k
    BY <1>7, <1>8, TryFacts DEF DecodeBundle
  <1> QED
    BY <1>2, <1>3, <1>9, FcnFacts DEF Require

\* The execution outcome: the requests are lost.
LEMMA OutcomeSame ==
  ASSUME Atoms, NEW o \in OutcomeType
  PROVE  /\ Require(DecodeOutcome, EncodeOutcome(o)) = KeptOutcome(o)
         /\ KeptOutcome(o) # Err
  <1> DEFINE p == EncodeOutcome(o)
             er == Each(EncodeReceipts, o.receipts)
             k == [bundle |-> KeptBundle(o.bundle), receipts |-> o.receipts,
                   first_block |-> o.first_block, requests |-> <<>>]
             d == [bundle |-> Require(DecodeBundle, p.bundle),
                   receipts |-> TryEach(DecodeReceipts, p.receipts),
                   first_block |-> p.first_block, requests |-> <<>>]
  <1>1. /\ o.bundle \in BundleType /\ o.receipts \in Seq(Seq(ReceiptType))
        /\ o.first_block \in Values
        /\ o = [bundle |-> o.bundle, receipts |-> o.receipts, first_block |-> o.first_block,
                requests |-> o.requests]
    BY DEF OutcomeType
  <1>2. KeptOutcome(o) = k /\ IsFcn(k)
    <2> DEFINE u == [o EXCEPT !.bundle = KeptBundle(o.bundle)]
    <2>1. KeptOutcome(o) = [u EXCEPT !.requests = <<>>]
      BY DEF KeptOutcome
    <2>2. u = [bundle |-> KeptBundle(o.bundle), receipts |-> o.receipts,
               first_block |-> o.first_block, requests |-> o.requests]
      BY <1>1
    <2> HIDE DEF u
    <2> QED
      BY <2>1, <2>2 DEF IsFcn
  <1>3. /\ p.bundle = EncodeBundle(o.bundle) /\ p.receipts = er
        /\ p.first_block = o.first_block /\ IsFcn(p)
    BY DEF EncodeOutcome, Each, IsFcn
  <1>4. Require(DecodeBundle, p.bundle) = KeptBundle(o.bundle) /\ KeptBundle(o.bundle) # Err
    BY <1>1, <1>3, BundleSame DEF Require
  <1>5. TryEach(DecodeReceipts, er) = o.receipts /\ o.receipts # Err
    BY <1>1, AllReceiptsSame DEF TryEach, Each
  <1>6. <<>> # Err
    <2>1. <<>> \in Seq(Values)
      OBVIOUS
    <2>2. \A s \in Seq(Values) : s # Err
      BY FcnFacts DEF IsFcn
    <2> QED
      BY <2>1, <2>2
  <1>7. d = k
    <2> HIDE DEF p, er
    <2> QED
      BY <1>3, <1>4, <1>5, Zenon
  <1>8. \A f \in DOMAIN k : k[f] # Err
    BY <1>1, <1>4, <1>5, <1>6, ValueFacts
  <1>9. DecodeOutcome(p) = k
    BY <1>7, <1>8, TryFacts DEF DecodeOutcome
  <1> QED
    BY <1>2, <1>3, <1>9, FcnFacts DEF Require

\* Chains: the trie data are lost.
LEMMA ChainSame ==
  ASSUME Atoms, NEW c \in ChainType
  PROVE  /\ Require(DecodeChain, EncodeChain(c)) = KeptChain(c)
         /\ KeptChain(c) # Err /\ c # None
  <1> DEFINE p == EncodeChain(c)
             eb == Each(EncodeBlock, c.blocks)
             blocks == Each(KeptBlock, c.blocks)
             k == [blocks |-> blocks, execution_outcome |-> KeptOutcome(c.execution_outcome),
                   trie |-> <<>>]
             d == [blocks |-> TryEach(DecodeBlock, p.blocks),
                   execution_outcome |-> Require(DecodeOutcome, p.execution_outcome),
                   trie |-> <<>>]
  <1>1. /\ c.blocks \in Seq(BlockType) /\ c.execution_outcome \in OutcomeType
        /\ c = [blocks |-> c.blocks, execution_outcome |-> c.execution_outcome,
                trie |-> c.trie]
    BY DEF ChainType
  <1>2. KeptChain(c) = k /\ IsFcn(k) /\ IsFcn(c)
    <2> DEFINE u == [c EXCEPT !.blocks = blocks]
               v == [u EXCEPT !.trie = <<>>]
    <2>1. KeptChain(c) = [v EXCEPT !.execution_outcome = KeptOutcome(c.execution_outcome)]
      BY DEF KeptChain
    <2> HIDE DEF blocks
    <2>2. u = [blocks |-> blocks, execution_outcome |-> c.execution_outcome, trie |-> c.trie]
      BY <1>1
    <2> HIDE DEF u
    <2>3. v = [blocks |-> blocks, execution_outcome |-> c.execution_outcome, trie |-> <<>>]
      BY <2>2
    <2> HIDE DEF v
    <2> QED
      BY <1>1, <2>1, <2>3 DEF IsFcn
  <1>3. /\ p.blocks = eb /\ p.execution_outcome = EncodeOutcome(c.execution_outcome)
        /\ IsFcn(p)
    BY DEF EncodeChain, Each, IsFcn
  <1>4. TryEach(DecodeBlock, eb) = blocks /\ blocks # Err
    BY <1>1, BlocksSame DEF TryEach, Each
  <1>5. /\ Require(DecodeOutcome, p.execution_outcome) = KeptOutcome(c.execution_outcome)
        /\ KeptOutcome(c.execution_outcome) # Err
    BY <1>1, <1>3, OutcomeSame DEF Require
  <1>6. <<>> # Err
    <2>1. <<>> \in Seq(Values)
      OBVIOUS
    <2>2. \A s \in Seq(Values) : s # Err
      BY FcnFacts DEF IsFcn
    <2> QED
      BY <2>1, <2>2
  <1>7. d = k
    <2> HIDE DEF p, eb, blocks
    <2> QED
      BY <1>3, <1>4, <1>5, Zenon
  <1>8. \A f \in DOMAIN k : k[f] # Err
    <2> HIDE DEF blocks
    <2> QED
      BY <1>1, <1>4, <1>5, <1>6
  <1>9. DecodeChain(p) = k
    BY <1>7, <1>8, TryFacts DEF DecodeChain
  <1> QED
    BY <1>2, <1>3, <1>9, FcnFacts DEF Require

\* An optional chain.
LEMMA OptChainSame ==
  ASSUME Atoms, NEW c \in ChainType
  PROVE  /\ Require(DecodeChain, OptMap(EncodeChain, c)) = OptMap(KeptChain, c)
         /\ OptMap(KeptChain, c) # Err
  BY ChainSame DEF OptMap, Require

\* Every notification of the node comes out of the conversions as it went in,
\* but for the fields that have no place in the messages: each of the `TryFrom`
\* of codec.rs inverts its counterpart and none of them fails.
THEOREM CodecRoundTrip ==
  ASSUME Atoms, NEW n \in NotificationType
  PROVE  DecodeNotification(EncodeNotification(n)) = Kept(n) /\ Kept(n) # Err
  <1> DEFINE p == EncodeNotification(n)
             old == OptMap(KeptChain, n.old)
             new == OptMap(KeptChain, n.new)
             k == [kind |-> n.kind, old |-> old, new |-> new]
             dold == IF p.kind = "ChainCommitted" THEN None ELSE Require(DecodeChain, p.old)
             dnew == IF p.kind = "ChainReverted" THEN None ELSE Require(DecodeChain, p.new)
  <1>1. /\ n.kind \in {"ChainCommitted", "ChainReorged", "ChainReverted"}
        /\ IF n.kind = "ChainCommitted" THEN n.old = None ELSE n.old \in ChainType
        /\ IF n.kind = "ChainReverted" THEN n.new = None ELSE n.new \in ChainType
        /\ n = [kind |-> n.kind, old |-> n.old, new |-> n.new]
    BY DEF NotificationType
  <1>2. Kept(n) = k /\ IsFcn(k)
    <2> DEFINE u == [n EXCEPT !.old = old]
    <2>1. Kept(n) = [u EXCEPT !.new = new]
      BY DEF Kept
    <2> HIDE DEF old, new
    <2>2. u = [kind |-> n.kind, old |-> old, new |-> n.new]
      BY <1>1
    <2> HIDE DEF u
    <2> QED
      BY <2>1, <2>2 DEF IsFcn
  <1>3. p = [kind |-> n.kind, old |-> OptMap(EncodeChain, n.old),
             new |-> OptMap(EncodeChain, n.new)]
    BY DEF EncodeNotification, OptMap
  <1>4. dold = old /\ old # Err
    BY <1>1, <1>3, OptChainSame, ValueFacts DEF OptMap, Require
  <1>5. dnew = new /\ new # Err
    BY <1>1, <1>3, OptChainSame, ValueFacts DEF OptMap, Require
  <1>6. DecodeNotification(p) = Try([kind |-> p.kind, old |-> dold, new |-> dnew])
    BY DEF DecodeNotification, Require
  <1>7. p.kind = n.kind
    BY <1>3
  <1> HIDE DEF dold, dnew, old, new
  <1>8. \A f \in DOMAIN k : k[f] # Err
    BY <1>1, <1>4, <1>5, VariantFacts
  <1> QED
    BY <1>2, <1>4, <1>5, <1>6, <1>7, <1>8, TryFacts, FcnFacts

-----------------------------------------------------------------------------
(***************************************************************************)
(* Theorems.                                                               *)
(***************************************************************************)

\* Every reachable state of the remote ExEx is well typed: no channel holds
\* more than its size (subscribe of bin/exex.rs).
THEOREM RemoteTypeCorrect == Spec => []TypeOK
  <1>1. RemoteInv => TypeOK
    BY DEF RemoteInv
  <1> QED
    BY <1>1, RemoteInvariant, PTL

\* With any number of consumers and any sizes of the channels, no hop between
\* the broadcast and a consumer skips, doubles or reorders a notification
\* (subscribe of bin/exex.rs, main of bin/consumer.rs).
THEOREM StreamCorrect == Spec => []StreamIsContiguous
  <1>1. RemoteInv => StreamIsContiguous
    <2> SUFFICES ASSUME RemoteInv, NEW c \in Consumers
                 PROVE  /\ got[c] = Segment(first[c] + 1, first[c] + Len(got[c]))
                        /\ consumer[c] = "reading" =>
                             got[c] \o wire[c] \o chan[c] \o Held(c)
                               = Segment(first[c] + 1, pos[c])
      BY DEF StreamIsContiguous
    <2>1. TypeOK /\ ConsumerInv(c)
      BY DEF RemoteInv
    <2>2. /\ got[c] \in Seq(Positions) /\ wire[c] \in Seq(Positions)
          /\ chan[c] \in Seq(Positions) /\ first[c] \in Nat /\ CountsFrom(got[c], first[c])
          /\ Decoded(c) \in Nat /\ Carried(c) \in Nat /\ Queued(c) \in Nat
      BY <2>1, ConsumerTypes DEF ConsumerInv
    <2>3. got[c] = Segment(first[c] + 1, first[c] + Len(got[c]))
      BY <2>2, CountsSegment
    <2>4. ASSUME consumer[c] = "reading"
          PROVE  got[c] \o wire[c] \o chan[c] \o Held(c) = Segment(first[c] + 1, pos[c])
      <3> DEFINE a == got[c] \o wire[c]
                 b == a \o chan[c]
                 h == Held(c)
                 s == b \o h
      <3>1. ReadingInv(c)
        BY <2>1, <2>4 DEF ConsumerInv
      <3>2. /\ a \in Seq(Positions) /\ CountsFrom(a, first[c])
            /\ first[c] + Len(a) = Carried(c)
        <4>1. CountsFrom(wire[c], first[c] + Len(got[c]))
          BY <3>1 DEF ReadingInv, Decoded
        <4>2. a \in Seq(Positions) /\ CountsFrom(a, first[c])
          BY <2>2, <4>1, CountsConcat
        <4>3. \A g, w \in Seq(Positions), k \in Nat :
                CountsFrom(g, k) /\ CountsFrom(w, k + Len(g)) =>
                  k + Len(g \o w) = k + Len(g) + Len(w)
          BY CountsConcat
        <4>4. first[c] + Len(a) = first[c] + Len(got[c]) + Len(wire[c])
          BY <2>2, <4>1, <4>3, Zenon
        <4> QED
          BY <4>2, <4>4 DEF Carried, Decoded
      <3> HIDE DEF a
      <3>3. /\ b \in Seq(Positions) /\ CountsFrom(b, first[c])
            /\ first[c] + Len(b) = Queued(c)
        <4>1. CountsFrom(chan[c], first[c] + Len(a))
          BY <3>1, <3>2 DEF ReadingInv
        <4>2. /\ b \in Seq(Positions) /\ Len(b) = Len(a) + Len(chan[c])
              /\ CountsFrom(b, first[c])
          BY <2>2, <3>2, <4>1, CountsConcat
        <4>3. Len(a) \in Nat
          BY <3>2, LenProperties
        <4> QED
          BY <2>1, <2>2, <3>2, <4>2, <4>3, ConsumerTypes DEF Queued
      <3> HIDE DEF b
      <3>4. /\ h \in Seq(Positions) /\ CountsFrom(h, first[c] + Len(b))
            /\ pos[c] = first[c] + Len(b) + Len(h)
        <4>1. CASE task[c] = "send"
          <5>1. h = <<pos[c]>> /\ pos[c] = Queued(c) + 1
            BY <3>1, <4>1 DEF ReadingInv, Held
          <5>2. pos[c] \in Positions
            BY <2>1, <2>2, <5>1, ConsumerTypes, RemoteConstants DEF Positions
          <5> QED
            BY <2>2, <3>3, <5>1, <5>2 DEF CountsFrom
        <4>2. CASE task[c] # "send"
          <5>1. h = <<>> /\ pos[c] = Queued(c)
            BY <3>1, <4>2 DEF ReadingInv, Held
          <5> QED
            BY <2>2, <3>3, <5>1, EmptySeq DEF CountsFrom
        <4> QED
          BY <4>1, <4>2
      <3> HIDE DEF h
      <3>5. /\ s \in Seq(Positions) /\ Len(s) = Len(b) + Len(h) /\ CountsFrom(s, first[c])
        BY <2>2, <3>3, <3>4, CountsConcat
      <3>6. s = Segment(first[c] + 1, first[c] + Len(s))
        <4> HIDE DEF s
        <4> QED
          BY <2>2, <3>5, CountsSegment
      <3>7. first[c] + Len(s) = pos[c]
        <4>1. Len(b) \in Nat /\ Len(h) \in Nat
          BY <3>3, <3>4, LenProperties
        <4> QED
          BY <2>2, <3>4, <3>5, <4>1
      <3>8. s = got[c] \o wire[c] \o chan[c] \o Held(c)
        BY DEF a, b, h
      <3> HIDE DEF s
      <3> QED
        BY <3>6, <3>7, <3>8
    <2> QED
      BY <2>3, <2>4
  <1> QED
    BY <1>1, RemoteInvariant, PTL

\* A consumer whose stream ends in order has everything its task received and
\* has missed what came after it (`while let Ok` in subscribe, bin/exex.rs).
THEOREM CleanEndCorrect == Spec => []CleanEndMeansOverwritten
  <1>1. RemoteInv => CleanEndMeansOverwritten
    BY DEF RemoteInv, ConsumerInv, CleanEndMeansOverwritten, Decoded
  <1> QED
    BY <1>1, RemoteInvariant, PTL

\* No consumer ever fails to decode, and what it decodes is what the node sent
\* but for the fields that have no place in the messages (main of
\* bin/consumer.rs, codec.rs), for every sequence of notifications.
THEOREM ReceivedCorrect ==
  ASSUME Atoms
  PROVE  Spec => []ReceivedAsSent
  <1>1. Faithful = Positions /\ Undecodable = {}
    <2>1. ASSUME NEW i \in Positions
          PROVE  Received(i) = Kept(Payload[i]) /\ Received(i) # Err
      <3>1. Payload[i] \in NotificationType
        BY RemoteConstants DEF Positions
      <3> QED
        BY <3>1, CodecRoundTrip DEF Received
    <2> QED
      BY <2>1 DEF Faithful, Undecodable
  <1> DEFINE NoneFails == \A c \in Consumers : consumer[c] # "failed"
  <1>2. Init => NoneFails
    BY DEF Init
  <1>3. TypeOK /\ NoneFails /\ [Next]_vars => NoneFails'
    <2> SUFFICES ASSUME TypeOK, NoneFails, [Next]_vars
                 PROVE  NoneFails'
      OBVIOUS
    <2>1. CASE UNCHANGED consumer
      BY <2>1
    <2>2. ASSUME NEW d \in Consumers, ConsumerReads(d)
          PROVE  UNCHANGED consumer
      <3>1. wire[d] \in Seq(Positions) /\ wire[d] # <<>>
        BY <2>2 DEF TypeOK, ConsumerReads
      <3>2. Head(wire[d]) \in Positions
        BY <3>1, HeadTailProperties
      <3> QED
        BY <1>1, <2>2, <3>2 DEF ConsumerReads
    <2>3. ASSUME NEW d \in Consumers, Subscribe(d) \/ ConsumerEnds(d) \/ ConsumerLeaves(d)
          PROVE  NoneFails'
      BY <2>3 DEF TypeOK, Subscribe, ConsumerEnds, ConsumerLeaves
    <2>4. ASSUME NEW d \in Consumers, Task(d) \/ Transport(d) \/ DropStream(d)
          PROVE  UNCHANGED consumer
      BY <2>4 DEF Task, TaskRecv, TaskLagged, TaskSend, TaskPanics, Transport, DropStream
    <2>5. CASE NodeNotifies \/ ReportHeight \/ Broadcast \/ ExExEnds \/ UNCHANGED vars
      <3>1. UNCHANGED consumer
        BY <2>5 DEF NodeNotifies, ReportHeight, Broadcast, ExExEnds, vars, streamVars
      <3> QED
        BY <3>1
    <2> QED
      BY <2>1, <2>2, <2>3, <2>4, <2>5 DEF Next
  <1>4. TypeOK /\ NoneFails => ReceivedAsSent
    BY <1>1 DEF ReceivedAsSent, TypeOK, Range
  <1> QED
    BY <1>2, <1>3, <1>4, RemoteTypeCorrect, PTL DEF Spec
=============================================================================
