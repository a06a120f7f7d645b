--------------------------- MODULE TcpLinkProofs ----------------------------
(***************************************************************************)
(* Proofs about TcpLink, for any protocols, any number of sessions and     *)
(* polls and any size of the socket buffer: the link keeps its types, it   *)
(* implements the channel of whole commands in order, an answer is one of  *)
(* the session whose socket its worker has, in lock-step and while no      *)
(* other worker has that socket it is about the poll it is counted for,    *)
(* what the client of a stream takes for a frame is one, and whatever data *)
(* are framed are understood.                                              *)
(***************************************************************************)
EXTENDS TcpLink, SequenceProofs

-----------------------------------------------------------------------------
(* Types. *)

LEMMA PartsKnown == /\ Parts \in {1, 2}
                    /\ proto = "UDP" => Parts = 1
                    /\ proto # "UDP" => Parts = 2
BY DEF Parts

LEMMA Bounds == MaxSessions \in Nat \ {0} /\ MaxPolls \in Nat \ {0} /\ Session \subseteq Nat \ {0}
BY LinkAssumption DEF Session

LEMMA FrameType ==
  ASSUME NEW c \in Command
  PROVE  /\ FrameOf(c) \in Seq(Part)
         /\ Len(FrameOf(c)) = Parts
         /\ DOMAIN FrameOf(c) = 1 .. Parts
         /\ \A k \in 1 .. Parts : FrameOf(c)[k] = <<c, k>>
<1>1. FrameOf(c) \in [1 .. Parts -> Part]
  <2>1. \A k \in 1 .. Parts : <<c, k>> \in Part
    BY PartsKnown DEF Part
  <2> QED
    BY <2>1 DEF FrameOf
<1>2. Parts \in Nat
  BY PartsKnown
<1>3. FrameOf(c) \in Seq(Part) /\ Len(FrameOf(c)) = Parts
  BY <1>1, <1>2
<1> QED
  BY <1>1, <1>3 DEF FrameOf

LEMMA CommandType ==
  ASSUME NEW c \in Command
  PROVE  c[1] \in Nat /\ c[2] \in Nat /\ c = <<c[1], c[2]>>
<1>1. CASE c \in Session \X (1 .. MaxPolls)
  <2>1. c[1] \in Session /\ c[2] \in 1 .. MaxPolls /\ c = <<c[1], c[2]>>
    BY <1>1
  <2> QED
    BY <2>1, Bounds
<1>2. CASE c = <<0, 0>>
  BY <1>2
<1> QED
  BY <1>1, <1>2 DEF Command, Nothing

LEMMA PartType ==
  ASSUME NEW x \in Part
  PROVE  /\ x[1] \in Command /\ x[2] \in {1, 2} /\ x = <<x[1], x[2]>>
         /\ x[1][1] \in Nat /\ x[1][2] \in Nat /\ x[1] = <<x[1][1], x[1][2]>>
<1>1. x[1] \in Command /\ x[2] \in 1 .. 2 /\ x = <<x[1], x[2]>>
  BY DEF Part
<1> QED
  BY <1>1, CommandType

LEMMA InputsType ==
  ASSUME LinkTypeOK
  PROVE  /\ Inputs \in Seq(Part) /\ Len(Inputs) = Parts
         /\ \E c \in Command : Inputs = FrameOf(c)
<1>1. Nothing \in Command
  BY DEF Command
<1>2. ASSUME applied # <<>> PROVE applied[1][1] \in Command
  <2>1. applied \in Seq(Part) /\ Len(applied) \in Nat \ {0}
    BY <1>2, EmptySeq DEF LinkTypeOK
  <2>2. applied[1] \in Part
    BY <2>1, ElementOfSeq
  <2> QED
    BY <2>2, PartType
<1> QED
  BY <1>1, <1>2, FrameType DEF Inputs

LEMMA RemovedAt ==
  ASSUME NEW S, NEW q \in Seq(S), NEW i \in 1 .. Len(q)
  PROVE  /\ RemoveAt(q, i) \in Seq(S) /\ Len(RemoveAt(q, i)) = Len(q) - 1
         /\ \A k \in 1 .. Len(RemoveAt(q, i)) : \E l \in 1 .. Len(q) : RemoveAt(q, i)[k] = q[l]
<1> DEFINE a == SubSeq(q, 1, i - 1)
           b == SubSeq(q, i + 1, Len(q))
<1>1. Len(q) \in Nat /\ i \in Nat /\ \A k \in 1 .. Len(q) : q[k] \in S
  BY LenProperties, ElementOfSeq
<1>2. a \in Seq(S) /\ Len(a) = i - 1 /\ \A k \in 1 .. Len(a) : a[k] = q[k]
  BY <1>1, SubSeqProperties
<1>3. b \in Seq(S) /\ Len(b) = Len(q) - i /\ \A k \in 1 .. Len(b) : b[k] = q[k + i]
  BY <1>1, SubSeqProperties
<1>4. RemoveAt(q, i) = a \o b
  BY DEF RemoveAt
<1> HIDE DEF a, b
<1>5. /\ a \o b \in Seq(S) /\ Len(a \o b) = Len(q) - 1
      /\ \A k \in 1 .. Len(q) - 1 : (a \o b)[k] = IF k <= i - 1 THEN a[k] ELSE b[k - (i - 1)]
  <2>1. Len(a) + Len(b) = Len(q) - 1
    BY <1>1, <1>2, <1>3
  <2>2. /\ a \o b \in Seq(S) /\ Len(a \o b) = Len(a) + Len(b)
        /\ \A k \in 1 .. Len(a) + Len(b) :
             (a \o b)[k] = IF k <= Len(a) THEN a[k] ELSE b[k - Len(a)]
    BY <1>2, <1>3, ConcatProperties
  <2> QED
    BY <2>1, <2>2, <1>2
<1>6. ASSUME NEW k \in 1 .. Len(q) - 1 PROVE \E l \in 1 .. Len(q) : (a \o b)[k] = q[l]
  <2>1. CASE k <= i - 1
    <3>1. k \in 1 .. Len(a) /\ k \in 1 .. Len(q)
      BY <2>1, <1>1, <1>2
    <3> QED
      BY <3>1, <2>1, <1>2, <1>5
  <2>2. CASE ~(k <= i - 1)
    <3>1. k - (i - 1) \in 1 .. Len(b) /\ k + 1 \in 1 .. Len(q) /\ k - (i - 1) + i = k + 1
      BY <2>2, <1>1, <1>3
    <3>2. (a \o b)[k] = b[k - (i - 1)]
      BY <2>2, <1>5
    <3> QED
      BY <3>1, <3>2, <1>3
  <2> QED
    BY <2>1, <2>2
<1> QED
  BY <1>4, <1>5, <1>6

Steps == {"none", "begin", "loop", "recv", "ended", "gone"}
Loops == [at : Steps, sock : Session \union {0}, poll : 0 .. MaxPolls, got : Seq(Part),
          late : BOOLEAN]
Answers == [poll : 0 .. MaxPolls, frame : Seq(Part)]

LEMMA GotoEffect ==
  ASSUME LinkTypeOK, NEW s \in Session, NEW step \in Steps, Goto(s, step)
  PROVE  /\ worker' \in [Session -> Loops]
         /\ \A t \in Session :
              /\ worker'[t].at = IF t = s THEN step ELSE worker[t].at
              /\ worker'[t].sock = worker[t].sock
              /\ worker'[t].poll = worker[t].poll
              /\ worker'[t].got = worker[t].got
              /\ worker'[t].late = worker[t].late
<1>1. worker \in [Session -> Loops]
  BY DEF LinkTypeOK, Loops, Steps
<1>2. worker' = [worker EXCEPT ![s].at = step]
  BY DEF Goto
<1> QED
  BY <1>1, <1>2 DEF Loops

\* What Close does.
LEMMA CloseEffect ==
  ASSUME LinkTypeOK, Close
  PROVE  /\ current' = 0 /\ closed \subseteq closed' /\ closed' \subseteq Session
         /\ \A s \in Session : s \in closed' => s \in closed \/ s = current
         /\ down' \in [Session -> Seq(Part)]
         /\ \A s \in Session : down'[s] = down[s] \/ (s = current /\ down'[s] = <<>>)
<1>1. down \in [Session -> Seq(Part)] /\ current \in Session \union {0} /\ closed \subseteq Session
  BY DEF LinkTypeOK
<1>2. <<>> \in Seq(Part)
  BY EmptySeq
<1> QED
  BY <1>1, <1>2 DEF Close

LEMMA DeliverEffect ==
  ASSUME LinkTypeOK, NEW s \in Session, NEW frames \in Seq(Part), Deliver(s, frames)
  PROVE  /\ down' \in [Session -> Seq(Part)]
         /\ \A t \in Session : t # s => down'[t] = down[t]
         /\ down'[s] = IF s \in closed THEN <<>> ELSE frames
<1>1. down \in [Session -> Seq(Part)] /\ <<>> \in Seq(Part)
  BY EmptySeq DEF LinkTypeOK
<1> QED
  BY <1>1 DEF Deliver

LEMMA TypeInit == LinkInit => LinkTypeOK
<1> SUFFICES ASSUME LinkInit PROVE LinkTypeOK
  OBVIOUS
<1>1. <<>> \in Seq(Part) /\ Len(<<>>) = 0 /\ <<>> \in Seq(Session)
  BY EmptySeq
<1>2. /\ 0 \in 0 .. MaxPolls /\ 0 < Parts /\ 0 \notin closed /\ 0 <= Parts
  BY Bounds, PartsKnown DEF LinkInit
<1>3. \A s \in Session : Len(worker[s].got) < Parts
  BY <1>1, <1>2 DEF LinkInit
<1>4. /\ worker \in [Session -> Loops] /\ answer \in [Session -> Answers]
      /\ polls \in [Session -> 0 .. MaxPolls]
  BY <1>1, <1>2 DEF LinkInit, Loops, Steps, Answers, NoAnswer
<1> QED
  BY <1>1, <1>2, <1>3, <1>4 DEF LinkInit, LinkTypeOK, Loops, Steps, Answers

\* The parts of LinkTypeOK that the threads change one by one.
ClientTypeOK ==
  /\ current \in Session \union {0} /\ closed \subseteq Session /\ current \notin closed
  /\ polls \in [Session -> 0 .. MaxPolls]
  /\ worker \in [Session -> Loops]
  /\ \A s \in Session : Len(worker[s].got) < Parts
  /\ answer \in [Session -> Answers]

GatewayTypeOK ==
  /\ queue \in Seq(Session) /\ conn \in Session \union {0}
  /\ rbuf \in Seq(Part) /\ Len(rbuf) <= Parts
  /\ due \in BOOLEAN /\ tx \in BOOLEAN /\ reset \subseteq Session
  /\ applied \in Seq(Part) /\ Len(applied) \in {0, Parts}
  /\ dropped \in BOOLEAN

WiresTypeOK ==
  proto \in Protocols /\ up \in [Session -> Seq(Part)] /\ down \in [Session -> Seq(Part)]

LEMMA TypeParts == LinkTypeOK <=> ClientTypeOK /\ GatewayTypeOK /\ WiresTypeOK
BY DEF LinkTypeOK, ClientTypeOK, GatewayTypeOK, WiresTypeOK, Loops, Steps, Answers

LEMMA TypePartsNext == ClientTypeOK' /\ GatewayTypeOK' /\ WiresTypeOK' => LinkTypeOK'
BY DEF LinkTypeOK, ClientTypeOK, GatewayTypeOK, WiresTypeOK, Loops, Steps, Answers

LEMMA PartsKept == ASSUME UNCHANGED proto PROVE Parts' = Parts
BY DEF Parts

LEMMA ClientKeeps ==
  ASSUME LinkTypeOK, UNCHANGED <<proto, gatewayVars>>,
         ClientTypeOK', up' \in [Session -> Seq(Part)], down' \in [Session -> Seq(Part)]
  PROVE  LinkTypeOK'
<1>1. GatewayTypeOK' /\ WiresTypeOK'
  BY TypeParts, PartsKept DEF GatewayTypeOK, WiresTypeOK, gatewayVars
<1> QED
  BY <1>1, TypePartsNext

LEMMA GatewayKeeps ==
  ASSUME LinkTypeOK, UNCHANGED <<proto, clientVars>>,
         GatewayTypeOK', up' \in [Session -> Seq(Part)], down' \in [Session -> Seq(Part)]
  PROVE  LinkTypeOK'
<1>1. ClientTypeOK /\ WiresTypeOK /\ Parts' = Parts
  BY TypeParts, PartsKept
<1>2. ClientTypeOK'
  BY <1>1 DEF ClientTypeOK, clientVars
<1>3. WiresTypeOK'
  BY <1>1 DEF WiresTypeOK
<1> QED
  BY <1>2, <1>3, TypePartsNext

\* A worker that only goes on keeps its type.
LEMMA GotoType ==
  ASSUME LinkTypeOK, NEW s \in Session, NEW step \in Steps, Goto(s, step), UNCHANGED proto
  PROVE  worker' \in [Session -> Loops] /\ \A t \in Session : Len(worker'[t].got) < Parts'
<1>1. /\ worker' \in [Session -> Loops]
      /\ \A t \in Session : worker'[t].got = worker[t].got
  BY GotoEffect
<1>2. Parts' = Parts
  BY PartsKept
<1>3. \A t \in Session : Len(worker[t].got) < Parts
  BY TypeParts DEF ClientTypeOK
<1> QED
  BY <1>1, <1>2, <1>3

\* A session that has not been opened is nobody's, and who polls has a socket.
NotOpened ==
  /\ \A s \in Session : worker[s].at = "none" =>
       s \notin closed /\ s # current /\ \A w \in Session : worker[w].sock # s
  /\ \A w \in Session : worker[w].at \in {"loop", "recv"} => worker[w].sock \in Session

\* A worker that only goes on opens nothing.
LEMMA GoesOn ==
  ASSUME LinkTypeOK, NotOpened, worker' \in [Session -> Loops],
         \A w \in Session :
           /\ worker'[w].sock = worker[w].sock
           /\ worker'[w].at = "none" => worker[w].at = "none"
           /\ worker'[w].at \in {"loop", "recv"} => worker[w].at \in {"loop", "recv"},
         current' \in {0, current}, \A s \in Session : s \in closed' => s \in closed \/ s = current
  PROVE  NotOpened'
BY Bounds DEF NotOpened

LEMMA ConnectType == ASSUME LinkTypeOK, NotOpened, Connect PROVE LinkTypeOK' /\ NotOpened'
<1>1. PICK s \in Session :
        /\ current' = s /\ Goto(s, "begin") /\ worker[s].at = "none"
        /\ queue' = IF proto = "UDP" THEN queue ELSE Append(queue, s)
  BY DEF Connect
<1>2. UNCHANGED <<proto, up, down, conn, rbuf, due, tx, reset, applied, dropped, closed, polls, answer>>
  BY DEF Connect
<1>3. queue' \in Seq(Session)
  BY <1>1, AppendProperties DEF LinkTypeOK
<1>4. GatewayTypeOK' /\ WiresTypeOK'
  BY <1>2, <1>3, TypeParts, PartsKept DEF GatewayTypeOK, WiresTypeOK
<1>5. ClientTypeOK'
  BY <1>1, <1>2, GotoType, TypeParts DEF ClientTypeOK, NotOpened, Steps
<1>6. NotOpened'
  BY <1>1, <1>2, GotoEffect DEF NotOpened, Steps
<1> QED
  BY <1>4, <1>5, <1>6, TypePartsNext

LEMMA DisconnectType ==
  ASSUME LinkTypeOK, NotOpened, UserDisconnect \/ \E s \in Session : DeferredDisconnect(s)
  PROVE  LinkTypeOK' /\ NotOpened'
<1>1. Close /\ UNCHANGED <<proto, up, gatewayVars, polls, answer>>
  BY DEF UserDisconnect, DeferredDisconnect, Close
<1>2. /\ worker' \in [Session -> Loops] /\ \A t \in Session : Len(worker'[t].got) < Parts'
      /\ \A t \in Session :
           /\ worker'[t].sock = worker[t].sock
           /\ worker'[t].at = "none" => worker[t].at = "none"
           /\ worker'[t].at \in {"loop", "recv"} => worker[t].at \in {"loop", "recv"}
  <2>1. CASE UserDisconnect
    BY <2>1, <1>1, TypeParts, PartsKept DEF UserDisconnect, ClientTypeOK
  <2>2. CASE \E s \in Session : DeferredDisconnect(s)
    <3>1. PICK s \in Session : Goto(s, "gone") /\ worker[s].at = "ended"
      BY <2>2 DEF DeferredDisconnect
    <3> QED
      BY <3>1, <1>1, GotoType, GotoEffect DEF Steps
  <2> QED
    BY <2>1, <2>2
<1>3. /\ current' = 0 /\ closed' \subseteq Session /\ down' \in [Session -> Seq(Part)]
      /\ \A s \in Session : s \in closed' => s \in closed \/ s = current
  BY <1>1, CloseEffect
<1>4. 0 \notin Session
  BY Bounds
<1>5. ClientTypeOK'
  BY <1>1, <1>2, <1>3, <1>4, TypeParts DEF ClientTypeOK
<1>6. up' \in [Session -> Seq(Part)]
  BY <1>1 DEF LinkTypeOK
<1>7. NotOpened'
  BY <1>2, <1>3, GoesOn
<1> QED
  BY <1>1, <1>3, <1>5, <1>6, <1>7, ClientKeeps

\* What Begin does: the socket is taken, or the worker gives up without one.
LEMMA BeginEffect ==
  ASSUME LinkTypeOK, NEW w \in Session, Begin(w)
  PROVE  /\ UNCHANGED <<proto, gatewayVars, current, closed, polls, up, down, answer>>
         /\ worker[w].at = "begin" /\ worker' \in [Session -> Loops]
         /\ \A v \in Session \ {w} : worker'[v] = worker[v]
         /\ worker'[w].poll = worker[w].poll /\ worker'[w].got = worker[w].got
         /\ worker'[w].late = worker[w].late
         /\ \/ worker'[w].at = "gone" /\ worker'[w].sock = worker[w].sock
            \/ worker'[w].at = "ended" /\ worker'[w].sock = 0 /\ current = 0
            \/ worker'[w].at = "loop" /\ worker'[w].sock = current /\ current \in Session
<1>1. /\ UNCHANGED <<proto, gatewayVars, current, closed, polls, up, down, answer>>
      /\ worker[w].at = "begin"
  BY DEF Begin, LoopVars
<1>2. worker \in [Session -> Loops] /\ current \in Session \union {0}
  BY TypeParts DEF ClientTypeOK
<1>3. CASE Goto(w, "gone")
  BY <1>1, <1>2, <1>3 DEF Goto, Loops, Steps
<1>4. CASE worker' = [worker EXCEPT ![w].at = IF current = 0 THEN "ended" ELSE "loop",
                                    ![w].sock = current]
  BY <1>1, <1>2, <1>4 DEF Loops, Steps
<1> QED
  BY <1>3, <1>4 DEF Begin

LEMMA BeginType ==
  ASSUME LinkTypeOK, NotOpened, NEW w \in Session, Begin(w)
  PROVE  LinkTypeOK' /\ NotOpened'
<1>1. /\ UNCHANGED <<proto, gatewayVars, current, closed, polls, up, down, answer>>
      /\ worker' \in [Session -> Loops] /\ \A v \in Session : worker'[v].got = worker[v].got
  BY BeginEffect
<1>2. ClientTypeOK' /\ up' \in [Session -> Seq(Part)] /\ down' \in [Session -> Seq(Part)]
  BY <1>1, TypeParts, PartsKept DEF ClientTypeOK, WiresTypeOK
<1>3. NotOpened'
  <2>1. \A v \in Session : worker'[v].at = "none" <=> worker[v].at = "none"
    BY BeginEffect
  <2>2. \A v \in Session : worker'[v].sock \in {0, current, worker[v].sock}
    BY BeginEffect
  <2>3. \A v \in Session : worker'[v].at \in {"loop", "recv"} => worker'[v].sock \in Session
    BY BeginEffect DEF NotOpened
  <2> QED
    BY <2>1, <2>2, <2>3, <1>1, Bounds DEF NotOpened
<1> QED
  BY <1>1, <1>2, <1>3, ClientKeeps

Polled(loop, p) == [loop EXCEPT !.at = "recv", !.poll = p, !.got = <<>>]

LEMMA PolledType ==
  ASSUME NEW loop \in Loops, NEW p \in 0 .. MaxPolls
  PROVE  Polled(loop, p) \in Loops
BY EmptySeq DEF Polled, Loops, Steps

\* What Poll does, over socket s.
LEMMA PollEffect ==
  ASSUME LinkTypeOK, NotOpened, NEW w \in Session, Poll(w), NEW s, s = worker[w].sock
  PROVE  /\ UNCHANGED <<proto, gatewayVars, current, closed, down>>
         /\ worker[w].at = "loop" /\ s \in Session /\ s \notin closed /\ polls[s] + 1 \in 1 .. MaxPolls
         /\ polls' = [polls EXCEPT ![s] = @ + 1] /\ polls'[s] = polls[s] + 1
         /\ polls' \in [Session -> 0 .. MaxPolls]
         /\ up' \in [Session -> Seq(Part)] /\ FrameOf(<<s, polls[s] + 1>>) \in Seq(Part)
         /\ up'[s] = up[s] \o FrameOf(<<s, polls[s] + 1>>)
         /\ answer' \in [Session -> Answers] /\ answer'[w] = NoAnswer
         /\ worker' \in [Session -> Loops] /\ worker'[w].at = "recv" /\ worker'[w].sock = s
         /\ worker'[w].poll = polls[s] + 1 /\ worker'[w].got = <<>> /\ worker'[w].late = worker[w].late
         /\ \A t \in Session \ {s} : up'[t] = up[t] /\ polls'[t] = polls[t]
         /\ \A v \in Session \ {w} : worker'[v] = worker[v] /\ answer'[v] = answer[v]
<1> DEFINE p == polls[s] + 1
<1>1. /\ UNCHANGED <<proto, gatewayVars, current, closed, down>>
      /\ worker[w].at = "loop" /\ p <= MaxPolls /\ s \notin closed
      /\ polls' = [polls EXCEPT ![s] = p]
      /\ worker' = [worker EXCEPT ![w].at = "recv", ![w].poll = p, ![w].got = <<>>]
      /\ up' = [up EXCEPT ![s] = @ \o FrameOf(<<s, p>>)]
      /\ answer' = [answer EXCEPT ![w] = NoAnswer]
  BY DEF Poll, LoopVars
<1>2. /\ worker \in [Session -> Loops] /\ up \in [Session -> Seq(Part)] /\ s \in Session
      /\ polls \in [Session -> 0 .. MaxPolls] /\ answer \in [Session -> Answers]
  BY <1>1, TypeParts DEF ClientTypeOK, WiresTypeOK, NotOpened
<1>3. p \in 1 .. MaxPolls /\ p \in 0 .. MaxPolls
  <2>1. polls[s] \in 0 .. MaxPolls /\ p <= MaxPolls
    BY <1>1, <1>2
  <2>2. \A n \in 0 .. MaxPolls : n + 1 <= MaxPolls => n + 1 \in 1 .. MaxPolls /\ n + 1 \in 0 .. MaxPolls
    BY Bounds
  <2> QED
    BY <2>1, <2>2
<1>4. FrameOf(<<s, p>>) \in Seq(Part)
  BY <1>2, <1>3, FrameType DEF Command
<1>5. NoAnswer \in Answers
  BY EmptySeq, Bounds DEF NoAnswer, Answers
<1>6. polls' = [polls EXCEPT ![s] = @ + 1]
  BY <1>1, <1>2
<1> HIDE DEF p
<1>7. worker' = [worker EXCEPT ![w] = Polled(worker[w], p)] /\ Polled(worker[w], p) \in Loops
  BY <1>1, <1>2, <1>3, PolledType DEF Polled
<1>8. /\ worker' \in [Session -> Loops] /\ worker'[w].at = "recv" /\ worker'[w].sock = s
      /\ worker'[w].poll = p /\ worker'[w].got = <<>> /\ worker'[w].late = worker[w].late
      /\ \A v \in Session \ {w} : worker'[v] = worker[v]
  BY <1>7, <1>2 DEF Polled, Loops
<1>9. up[s] \o FrameOf(<<s, p>>) \in Seq(Part)
  BY <1>2, <1>4, ConcatProperties
<1>10. /\ up' \in [Session -> Seq(Part)] /\ up'[s] = up[s] \o FrameOf(<<s, p>>)
       /\ \A t \in Session \ {s} : up'[t] = up[t]
  <2> DEFINE whole == up[s] \o FrameOf(<<s, p>>)
  <2>1. up' = [up EXCEPT ![s] = whole] /\ whole \in Seq(Part)
    BY <1>1, <1>2, <1>9
  <2> HIDE DEF whole
  <2>2. /\ up' \in [Session -> Seq(Part)] /\ up'[s] = whole
        /\ \A t \in Session \ {s} : up'[t] = up[t]
    BY <2>1, <1>2
  <2> QED
    BY <2>2 DEF whole
<1>11. /\ answer' \in [Session -> Answers] /\ answer'[w] = NoAnswer
       /\ \A v \in Session \ {w} : answer'[v] = answer[v]
  BY <1>1, <1>2, <1>5
<1>12. /\ polls' \in [Session -> 0 .. MaxPolls] /\ polls'[s] = p
       /\ \A t \in Session \ {s} : polls'[t] = polls[t]
  BY <1>1, <1>2, <1>3
<1>13. p = polls[s] + 1
  BY DEF p
<1>14. /\ UNCHANGED <<proto, gatewayVars, current, closed, down>>
       /\ worker[w].at = "loop" /\ s \in Session /\ s \notin closed
       /\ polls' = [polls EXCEPT ![s] = @ + 1]
  BY <1>1, <1>2, <1>6
<1>15. /\ p \in 1 .. MaxPolls /\ polls'[s] = p /\ FrameOf(<<s, p>>) \in Seq(Part)
       /\ up'[s] = up[s] \o FrameOf(<<s, p>>) /\ worker'[w].poll = p
  BY <1>3, <1>4, <1>8, <1>10, <1>12
<1> QED
  BY <1>8, <1>10, <1>11, <1>12, <1>13, <1>14, <1>15

\* What a poll leaves to the others, and starts with.
LEMMA PollOthers ==
  ASSUME LinkTypeOK, NotOpened, NEW w \in Session, Poll(w)
  PROVE  /\ UNCHANGED <<proto, gatewayVars, current, closed, down>>
         /\ worker[w].at = "loop" /\ worker'[w].got = <<>> /\ answer'[w] = NoAnswer
         /\ \A t \in Session : t # worker[w].sock => up'[t] = up[t] /\ polls'[t] = polls[t]
         /\ \A v \in Session : v # w => worker'[v] = worker[v] /\ answer'[v] = answer[v]
<1> DEFINE s == worker[w].sock
<1>1. /\ UNCHANGED <<proto, gatewayVars, current, closed, down>>
      /\ worker[w].at = "loop" /\ worker'[w].got = <<>> /\ answer'[w] = NoAnswer
  BY PollEffect
<1>2. \A t \in Session \ {s} : up'[t] = up[t] /\ polls'[t] = polls[t]
  BY PollEffect
<1>3. \A v \in Session \ {w} : worker'[v] = worker[v] /\ answer'[v] = answer[v]
  BY PollEffect
<1> QED
  BY <1>1, <1>2, <1>3
LEMMA PollType ==
  ASSUME LinkTypeOK, NotOpened, NEW w \in Session, Poll(w)
  PROVE  LinkTypeOK' /\ NotOpened'
<1>1. /\ UNCHANGED <<proto, gatewayVars, current, closed, down>>
      /\ polls' \in [Session -> 0 .. MaxPolls] /\ up' \in [Session -> Seq(Part)]
      /\ answer' \in [Session -> Answers] /\ worker' \in [Session -> Loops]
      /\ worker[w].at = "loop" /\ worker'[w].at = "recv" /\ worker'[w].sock = worker[w].sock
      /\ worker'[w].got = <<>> /\ \A v \in Session \ {w} : worker'[v] = worker[v]
  BY PollEffect
<1>2. \A t \in Session : Len(worker'[t].got) < Parts'
  <2>1. Len(worker'[w].got) = 0 /\ 0 < Parts /\ Parts' = Parts
    BY <1>1, PartsKnown, PartsKept
  <2>2. \A v \in Session : Len(worker[v].got) < Parts
    BY TypeParts DEF ClientTypeOK
  <2> QED
    BY <1>1, <2>1, <2>2
<1>3. ClientTypeOK' /\ down' \in [Session -> Seq(Part)]
  BY <1>1, <1>2, TypeParts DEF ClientTypeOK, WiresTypeOK
<1>4. NotOpened'
  BY <1>1, GoesOn
<1> QED
  BY <1>1, <1>3, <1>4, ClientKeeps

\* What ends a poll without an answer.
LEMMA LoopEffect ==
  ASSUME LinkTypeOK, NEW w \in Session, LoopEnds(w) \/ PollAgain(w)
  PROVE  /\ UNCHANGED <<proto, gatewayVars, current, closed, polls, up, down, answer>>
         /\ worker[w].at \in {"loop", "recv"} /\ worker'[w].at \in {"loop", "ended"}
         /\ worker' \in [Session -> Loops]
         /\ \A v \in Session \ {w} : worker'[v] = worker[v]
         /\ worker'[w].sock = worker[w].sock /\ worker'[w].poll = worker[w].poll
         /\ worker'[w].got = worker[w].got
         /\ worker[w].late => worker'[w].late
         /\ worker'[w].at = "loop" => worker'[w].late
<1>1. UNCHANGED <<proto, gatewayVars, current, closed, polls, up, down, answer>>
  BY DEF LoopEnds, PollAgain, LoopVars
<1>2. worker \in [Session -> Loops] /\ worker[w].at \in {"loop", "recv"}
  BY TypeParts DEF ClientTypeOK, LoopEnds, PollAgain
<1>3. CASE LoopEnds(w)
  <2>1. worker' = [worker EXCEPT ![w].at = "ended"]
    BY <1>3 DEF LoopEnds, Goto
  <2> QED
    BY <2>1, <1>1, <1>2 DEF Loops, Steps
<1>4. CASE PollAgain(w)
  <2>1. worker' = [worker EXCEPT ![w].at = "loop", ![w].late = TRUE]
    BY <1>4 DEF PollAgain
  <2> QED
    BY <2>1, <1>1, <1>2 DEF Loops, Steps
<1> QED
  BY <1>3, <1>4

LEMMA LoopType ==
  ASSUME LinkTypeOK, NotOpened, NEW w \in Session, LoopEnds(w) \/ PollAgain(w)
  PROVE  LinkTypeOK' /\ NotOpened'
<1>1. /\ UNCHANGED <<proto, gatewayVars, current, closed, polls, up, down, answer>>
      /\ worker' \in [Session -> Loops] /\ \A v \in Session : worker'[v].got = worker[v].got
  BY LoopEffect
<1>2. ClientTypeOK' /\ up' \in [Session -> Seq(Part)] /\ down' \in [Session -> Seq(Part)]
  BY <1>1, TypeParts, PartsKept DEF ClientTypeOK, WiresTypeOK
<1>3. NotOpened'
  BY <1>1, LoopEffect, GoesOn
<1> QED
  BY <1>1, <1>2, <1>3, ClientKeeps

\* What Receive does, over socket s.
LEMMA ReceiveEffect ==
  ASSUME LinkTypeOK, NotOpened, NEW w \in Session, Receive(w), NEW s, s = worker[w].sock
  PROVE  /\ UNCHANGED <<proto, gatewayVars, current, closed, polls, up>>
         /\ worker[w].at = "recv" /\ s \in Session /\ s \notin closed /\ down[s] # <<>>
         /\ Head(down[s]) \in Part /\ Len(Append(worker[w].got, Head(down[s]))) = Len(worker[w].got) + 1
         /\ Append(worker[w].got, Head(down[s])) \in Seq(Part)
         /\ down' \in [Session -> Seq(Part)] /\ down'[s] = Tail(down[s])
         /\ \A t \in Session \ {s} : down'[t] = down[t]
         /\ \A v \in Session \ {w} : worker'[v] = worker[v] /\ answer'[v] = answer[v]
         /\ worker' \in [Session -> Loops] /\ worker'[w].sock = s
         /\ worker'[w].poll = worker[w].poll /\ worker'[w].late = worker[w].late
         /\ Len(worker[w].got) + 1 = Parts =>
              /\ worker'[w].at = "loop" /\ worker'[w].got = <<>>
              /\ answer' = [answer EXCEPT ![w] =
                   [poll |-> worker[w].poll, frame |-> Append(worker[w].got, Head(down[s]))]]
         /\ Len(worker[w].got) + 1 # Parts =>
              /\ worker'[w].at = "recv" /\ answer' = answer
              /\ worker'[w].got = Append(worker[w].got, Head(down[s]))
<1> DEFINE got == Append(worker[w].got, Head(down[s]))
<1>1. /\ UNCHANGED <<proto, gatewayVars, current, closed, polls, up>>
      /\ worker[w].at = "recv" /\ s \notin closed /\ down[s] # <<>>
      /\ down' = [down EXCEPT ![s] = Tail(@)]
  BY DEF Receive, LoopVars
<1>2. /\ worker \in [Session -> Loops] /\ down \in [Session -> Seq(Part)]
      /\ answer \in [Session -> Answers] /\ s \in Session
  BY <1>1, TypeParts DEF ClientTypeOK, WiresTypeOK, NotOpened
<1>3. Head(down[s]) \in Part /\ Tail(down[s]) \in Seq(Part)
  BY <1>1, <1>2, HeadTailProperties
<1>4. worker[w].got \in Seq(Part)
  BY <1>2 DEF Loops
<1>5. got \in Seq(Part) /\ Len(got) = Len(worker[w].got) + 1
  BY <1>3, <1>4, AppendProperties
<1>6. /\ Len(got) = Parts =>
           /\ worker' = [worker EXCEPT ![w].at = "loop", ![w].got = <<>>]
           /\ answer' = [answer EXCEPT ![w] = [poll |-> worker[w].poll, frame |-> got]]
      /\ Len(got) # Parts => worker' = [worker EXCEPT ![w].got = got] /\ answer' = answer
  BY DEF Receive
<1>7. <<>> \in Seq(Part)
  BY EmptySeq
<1>8. down' \in [Session -> Seq(Part)] /\ down'[s] = Tail(down[s])
      /\ \A t \in Session \ {s} : down'[t] = down[t]
  BY <1>1, <1>2, <1>3
<1> HIDE DEF got
<1>9. CASE Len(got) = Parts
  <2>1. /\ worker' = [worker EXCEPT ![w].at = "loop", ![w].got = <<>>]
        /\ answer' = [answer EXCEPT ![w] = [poll |-> worker[w].poll, frame |-> got]]
    BY <1>6, <1>9
  <2>2. /\ worker' \in [Session -> Loops] /\ worker'[w].sock = s
        /\ worker'[w].poll = worker[w].poll /\ worker'[w].late = worker[w].late
        /\ worker'[w].at = "loop" /\ worker'[w].got = <<>>
        /\ \A v \in Session \ {w} : worker'[v] = worker[v]
    BY <2>1, <1>2, <1>7 DEF Loops, Steps
  <2>3. \A v \in Session \ {w} : answer'[v] = answer[v]
    BY <2>1, <1>2
  <2>4. answer' = [answer EXCEPT ![w] =
                     [poll |-> worker[w].poll, frame |-> Append(worker[w].got, Head(down[s]))]]
    BY <2>1 DEF got
  <2>5. /\ Append(worker[w].got, Head(down[s])) \in Seq(Part)
        /\ Len(Append(worker[w].got, Head(down[s]))) = Len(worker[w].got) + 1
    BY <1>5 DEF got
  <2>6. Len(worker[w].got) + 1 = Parts
    BY <1>5, <1>9
  <2> QED
    BY <1>1, <1>2, <1>3, <1>8, <2>2, <2>3, <2>4, <2>5, <2>6
<1>10. CASE Len(got) # Parts
  <2>1. worker' = [worker EXCEPT ![w].got = got] /\ answer' = answer
    BY <1>6, <1>10
  <2>2. /\ worker' \in [Session -> Loops] /\ worker'[w].sock = s
        /\ worker'[w].poll = worker[w].poll /\ worker'[w].late = worker[w].late
        /\ worker'[w].at = worker[w].at /\ worker'[w].got = got
        /\ \A v \in Session \ {w} : worker'[v] = worker[v]
    BY <2>1, <1>2, <1>5 DEF Loops, Steps
  <2>3. /\ got = Append(worker[w].got, Head(down[s]))
        /\ Append(worker[w].got, Head(down[s])) \in Seq(Part)
        /\ Len(Append(worker[w].got, Head(down[s]))) = Len(worker[w].got) + 1
    BY <1>5 DEF got
  <2>4. Len(worker[w].got) + 1 # Parts
    BY <1>5, <1>10
  <2> QED
    BY <1>1, <1>2, <1>3, <1>8, <2>1, <2>2, <2>3, <2>4
<1> QED
  BY <1>9, <1>10

LEMMA ReceiveType ==
  ASSUME LinkTypeOK, NotOpened, NEW w \in Session, Receive(w)
  PROVE  LinkTypeOK' /\ NotOpened'
<1>1. /\ UNCHANGED <<proto, gatewayVars, current, closed, polls, up>>
      /\ down' \in [Session -> Seq(Part)] /\ worker' \in [Session -> Loops]
      /\ \A v \in Session \ {w} : worker'[v] = worker[v]
      /\ worker[w].at = "recv" /\ worker'[w].at # "none" /\ worker'[w].sock = worker[w].sock
  BY ReceiveEffect
<1>2. /\ \A t \in Session : Len(worker[t].got) < Parts /\ Len(worker[t].got) \in Nat
      /\ answer \in [Session -> Answers]
      /\ worker[w].poll \in 0 .. MaxPolls
  BY TypeParts, LenProperties DEF ClientTypeOK, Loops
<1>3. Len(worker'[w].got) < Parts
  <2>1. CASE Len(worker[w].got) + 1 = Parts
    BY <2>1, ReceiveEffect, PartsKnown, EmptySeq
  <2>2. CASE Len(worker[w].got) + 1 # Parts
    BY <2>2, <1>2, ReceiveEffect, PartsKnown
  <2> QED
    BY <2>1, <2>2
<1>4. answer' \in [Session -> Answers]
  <2>1. CASE Len(worker[w].got) + 1 = Parts
    <3>1. PICK frame \in Seq(Part) :
            answer' = [answer EXCEPT ![w] = [poll |-> worker[w].poll, frame |-> frame]]
      BY <2>1, ReceiveEffect
    <3> QED
      BY <3>1, <1>2 DEF Answers
  <2>2. CASE Len(worker[w].got) + 1 # Parts
    BY <2>2, <1>2, ReceiveEffect
  <2> QED
    BY <2>1, <2>2
<1>5. \A t \in Session : Len(worker'[t].got) < Parts'
  BY <1>1, <1>2, <1>3, PartsKept
<1>6. ClientTypeOK' /\ up' \in [Session -> Seq(Part)]
  BY <1>1, <1>4, <1>5, TypeParts DEF ClientTypeOK, WiresTypeOK
<1>7. NotOpened'
  BY <1>1, GoesOn
<1> QED
  BY <1>1, <1>6, <1>7, ClientKeeps

\* What a handler that ends leaves behind.
LEMMA HandlerEndsType ==
  ASSUME LinkTypeOK, HangUp \/ StopServer
  PROVE  LinkTypeOK'
<1>1. /\ UNCHANGED <<proto, clientVars, down, applied, dropped>>
      /\ conn' = 0 /\ tx' = FALSE /\ due' = FALSE /\ rbuf' = <<>>
      /\ queue' = queue \/ queue' = <<>>
      /\ \/ reset' = reset \union {conn} /\ conn \in Session
         \/ reset' = reset \union ({conn} \ {0}) \union ToSet(queue)
  BY TypeParts DEF HangUp, StopServer, HandlerEnds, ServerVars, GatewayTypeOK
<1>2. <<>> \in Seq(Part) /\ <<>> \in Seq(Session) /\ Len(<<>>) = 0
  BY EmptySeq
<1>3. ToSet(queue) \subseteq Session
  BY TypeParts, ElementOfSeq, LenProperties DEF GatewayTypeOK, ToSet
<1>4. /\ rbuf' \in Seq(Part) /\ Len(rbuf') <= Parts' /\ conn' \in Session \union {0}
      /\ applied' \in Seq(Part) /\ Len(applied') \in {0, Parts'} /\ dropped' \in BOOLEAN
  BY <1>1, <1>2, TypeParts, PartsKept, PartsKnown DEF GatewayTypeOK
<1>5. queue' \in Seq(Session) /\ reset' \subseteq Session
  BY <1>1, <1>2, <1>3, TypeParts DEF GatewayTypeOK
<1>6. GatewayTypeOK'
  BY <1>1, <1>4, <1>5 DEF GatewayTypeOK
<1>7. up' \in [Session -> Seq(Part)] /\ down' \in [Session -> Seq(Part)]
  BY <1>1, <1>2, TypeParts DEF WiresTypeOK, HangUp, StopServer
<1> QED
  BY <1>1, <1>6, <1>7, GatewayKeeps

LEMMA AcceptType ==
  ASSUME LinkTypeOK, Accept
  PROVE  LinkTypeOK'
<1>1. /\ UNCHANGED <<proto, clientVars, up, down, rbuf, due, reset, applied, dropped>>
      /\ queue # <<>> /\ conn' = Head(queue) /\ queue' = Tail(queue) /\ tx' \in BOOLEAN
  BY DEF Accept, ServerVars
<1>2. conn' \in Session /\ queue' \in Seq(Session)
  BY <1>1, TypeParts, HeadTailProperties DEF GatewayTypeOK
<1>3. GatewayTypeOK' /\ up' \in [Session -> Seq(Part)] /\ down' \in [Session -> Seq(Part)]
  BY <1>1, <1>2, TypeParts, PartsKept DEF GatewayTypeOK, WiresTypeOK
<1> QED
  BY <1>1, <1>3, GatewayKeeps

LEMMA ReadType ==
  ASSUME LinkTypeOK, Read \/ Stall \/ Apply
  PROVE  LinkTypeOK'
<1>1. /\ UNCHANGED <<proto, clientVars, down, queue, conn, tx, reset>> /\ conn \in Session
  BY TypeParts DEF Read, Stall, Apply, ServerVars, GatewayTypeOK
<1>2. /\ rbuf \in Seq(Part) /\ Len(rbuf) \in Nat /\ up \in [Session -> Seq(Part)]
      /\ applied \in Seq(Part) /\ Len(applied) \in {0, Parts} /\ down \in [Session -> Seq(Part)]
      /\ due \in BOOLEAN /\ dropped \in BOOLEAN /\ Len(rbuf) <= Parts
  BY TypeParts, LenProperties DEF GatewayTypeOK, WiresTypeOK
<1>3. /\ rbuf' \in Seq(Part) /\ Len(rbuf') <= Parts /\ up' \in [Session -> Seq(Part)]
      /\ applied' \in Seq(Part) /\ Len(applied') \in {0, Parts}
      /\ due' \in BOOLEAN /\ dropped' \in BOOLEAN
  <2>1. <<>> \in Seq(Part) /\ Len(<<>>) = 0
    BY EmptySeq
  <2>2. CASE Read
    <3>1. /\ Len(rbuf) < Parts /\ up[conn] # <<>>
          /\ rbuf' = Append(rbuf, Head(up[conn])) /\ up' = [up EXCEPT ![conn] = Tail(@)]
          /\ UNCHANGED <<due, applied, dropped>>
      BY <2>2 DEF Read
    <3>2. Head(up[conn]) \in Part /\ Tail(up[conn]) \in Seq(Part)
      BY <3>1, <1>1, <1>2, HeadTailProperties
    <3>3. rbuf' \in Seq(Part) /\ Len(rbuf') = Len(rbuf) + 1
      BY <3>1, <3>2, <1>2, AppendProperties
    <3>4. Len(rbuf) + 1 <= Parts
      BY <3>1, <1>2, PartsKnown
    <3>5. up' \in [Session -> Seq(Part)]
      BY <3>1, <3>2, <1>2
    <3> QED
      BY <3>1, <3>3, <3>4, <3>5, <1>2
  <2>3. CASE Stall
    BY <2>1, <2>3, <1>2, PartsKnown DEF Stall
  <2>4. CASE Apply
    BY <2>1, <2>4, <1>2, PartsKnown DEF Apply
  <2> QED
    BY <2>2, <2>3, <2>4
<1>4. GatewayTypeOK' /\ down' \in [Session -> Seq(Part)]
  BY <1>1, <1>2, <1>3, TypeParts, PartsKept DEF GatewayTypeOK
<1> QED
  BY <1>1, <1>3, <1>4, GatewayKeeps

\* Inputs, or the beginning of them, sent down.
LEMMA DownType ==
  ASSUME LinkTypeOK, UNCHANGED <<proto, clientVars, up, queue, conn, rbuf, reset, applied, dropped>>,
         due' \in BOOLEAN, tx' \in BOOLEAN,
         NEW s \in Session, NEW q \in Seq(Part), Deliver(s, down[s] \o q)
  PROVE  LinkTypeOK'
<1>1. down[s] \o q \in Seq(Part)
  BY TypeParts, ConcatProperties DEF WiresTypeOK
<1>2. down' \in [Session -> Seq(Part)] /\ up' \in [Session -> Seq(Part)]
  BY <1>1, DeliverEffect, TypeParts DEF WiresTypeOK
<1>3. GatewayTypeOK'
  BY TypeParts, PartsKept DEF GatewayTypeOK
<1> QED
  BY <1>2, <1>3, GatewayKeeps

LEMMA ReplyType ==
  ASSUME LinkTypeOK, Reply \/ Transmit \/ TransmitEnds
  PROVE  LinkTypeOK'
<1>1. /\ UNCHANGED <<proto, clientVars, up, queue, conn, rbuf, reset, applied, dropped>>
      /\ conn \in Session /\ due \in BOOLEAN /\ tx \in BOOLEAN
  BY TypeParts DEF Reply, Transmit, TransmitEnds, ServerVars, GatewayTypeOK
<1>2. Inputs \in Seq(Part) /\ Len(Inputs) = Parts
  BY InputsType
<1>3. CASE Reply
  <2>1. Deliver(conn, down[conn] \o Inputs) /\ due' \in BOOLEAN /\ tx' \in BOOLEAN
    BY <1>1, <1>3 DEF Reply
  <2> QED
    BY <2>1, <1>1, <1>2, DownType
<1>4. CASE Transmit
  <2>1. Deliver(conn, down[conn] \o Inputs) /\ due' \in BOOLEAN /\ tx' \in BOOLEAN
    BY <1>1, <1>4 DEF Transmit
  <2> QED
    BY <2>1, <1>1, <1>2, DownType
<1>5. CASE TransmitEnds
  <2>1. PICK k \in 0 .. Parts - 1 : Deliver(conn, down[conn] \o SubSeq(Inputs, 1, k))
    BY <1>5 DEF TransmitEnds
  <2>2. SubSeq(Inputs, 1, k) \in Seq(Part)
    <3>1. k \in Nat /\ 1 \in Int /\ k \in Int /\ k <= Parts
      BY PartsKnown
    <3>2. \A l \in 1 .. k : l \in 1 .. Len(Inputs)
      BY <3>1, <1>2, PartsKnown
    <3> QED
      BY <3>1, <3>2, <1>2, ElementOfSeq, SubSeqProperties
  <2>3. due' \in BOOLEAN /\ tx' \in BOOLEAN
    BY <1>1, <1>5 DEF TransmitEnds
  <2> QED
    BY <2>1, <2>2, <2>3, <1>1, DownType
<1> QED
  BY <1>3, <1>4, <1>5

LEMMA ServeType ==
  ASSUME LinkTypeOK, NEW s \in Session, Serve(s)
  PROVE  LinkTypeOK'
<1>1. /\ UNCHANGED <<proto, clientVars, queue, conn, rbuf, due, tx, reset, dropped>>
      /\ proto = "UDP"
  BY DEF Serve, ServerVars
<1>2. PICK i \in DOMAIN up[s], later \in BOOLEAN :
        /\ applied' = <<up[s][i]>>
        /\ up' = [up EXCEPT ![s] = RemoveAt(@, i)]
        /\ Deliver(s, IF later THEN Append(down[s], up[s][i]) ELSE <<up[s][i]>> \o down[s])
  BY DEF Serve
<1>3. up \in [Session -> Seq(Part)] /\ down \in [Session -> Seq(Part)] /\ i \in 1 .. Len(up[s])
  BY TypeParts, LenProperties DEF WiresTypeOK
<1>4. up[s][i] \in Part /\ RemoveAt(up[s], i) \in Seq(Part)
  BY <1>3, ElementOfSeq, RemovedAt
<1>5. up' \in [Session -> Seq(Part)]
  BY <1>2, <1>3, <1>4
<1>6. <<up[s][i]>> \in Seq(Part) /\ Len(<<up[s][i]>>) = 1
  BY <1>4
<1>7. Append(down[s], up[s][i]) \in Seq(Part) /\ <<up[s][i]>> \o down[s] \in Seq(Part)
  BY <1>3, <1>4, <1>6, AppendProperties, ConcatProperties
<1>8. down' \in [Session -> Seq(Part)]
  BY <1>2, <1>7, DeliverEffect
<1>9. GatewayTypeOK'
  BY <1>1, <1>2, <1>6, TypeParts, PartsKept, PartsKnown DEF GatewayTypeOK
<1> QED
  BY <1>1, <1>5, <1>8, <1>9, GatewayKeeps

LEMMA LoseType ==
  ASSUME LinkTypeOK, NEW s \in Session, Lose(s)
  PROVE  LinkTypeOK'
<1>1. /\ UNCHANGED <<proto, clientVars, queue, conn, rbuf, due, tx, reset, applied, dropped>>
  BY DEF Lose, ServerVars
<1>2. up \in [Session -> Seq(Part)] /\ down \in [Session -> Seq(Part)]
      /\ DOMAIN up[s] = 1 .. Len(up[s]) /\ DOMAIN down[s] = 1 .. Len(down[s])
  BY TypeParts, LenProperties DEF WiresTypeOK
<1>3. /\ \A i \in DOMAIN up[s] : RemoveAt(up[s], i) \in Seq(Part)
      /\ \A i \in DOMAIN down[s] : RemoveAt(down[s], i) \in Seq(Part)
  BY <1>2, RemovedAt
<1>4. up' \in [Session -> Seq(Part)] /\ down' \in [Session -> Seq(Part)]
  <2>1. CASE \E i \in DOMAIN up[s] : up' = [up EXCEPT ![s] = RemoveAt(@, i)] /\ UNCHANGED down
    BY <2>1, <1>2, <1>3
  <2>2. CASE \E i \in DOMAIN down[s] : down' = [down EXCEPT ![s] = RemoveAt(@, i)] /\ UNCHANGED up
    BY <2>2, <1>2, <1>3
  <2> QED
    BY <2>1, <2>2 DEF Lose
<1>5. GatewayTypeOK'
  BY <1>1, TypeParts, PartsKept DEF GatewayTypeOK
<1> QED
  BY <1>1, <1>4, <1>5, GatewayKeeps

\* What a thread of the gateway, or the network, leaves alone.
LEMMA GatewayLeaves ==
  ASSUME \/ GatewayStep \/ Stall \/ StopServer \/ \E s \in Session : Lose(s)
  PROVE  UNCHANGED <<proto, clientVars>>
BY DEF GatewayStep, Accept, HangUp, Read, Apply, Reply, Transmit, TransmitEnds, Serve, Stall,
       StopServer, Lose, ServerVars

LEMMA TypeStep ==
  ASSUME LinkTypeOK, NotOpened, [LinkNext]_linkVars
  PROVE  LinkTypeOK' /\ NotOpened'
<1>1. CASE Connect
  BY <1>1, ConnectType
<1>2. CASE UserDisconnect \/ \E s \in Session : DeferredDisconnect(s)
  BY <1>2, DisconnectType
<1>3. ASSUME NEW s \in Session, Begin(s) \/ Poll(s) PROVE LinkTypeOK' /\ NotOpened'
  BY <1>3, BeginType, PollType
<1>4. ASSUME NEW s \in Session, Receive(s) PROVE LinkTypeOK' /\ NotOpened'
  BY <1>4, ReceiveType
<1>5. ASSUME NEW s \in Session, LoopEnds(s) \/ PollAgain(s) PROVE LinkTypeOK' /\ NotOpened'
  BY <1>5, LoopType
<1>6. CASE GatewayStep \/ Stall \/ StopServer \/ \E s \in Session : Lose(s)
  <2>1. NotOpened'
    BY <1>6, GatewayLeaves DEF NotOpened, clientVars
  <2>2. LinkTypeOK'
    BY <1>6, AcceptType, HandlerEndsType, ReadType, ReplyType, ServeType, LoseType DEF GatewayStep
  <2> QED
    BY <2>1, <2>2
<1>7. CASE UNCHANGED linkVars
  <2>1. UNCHANGED <<proto, clientVars, up, down>> /\ UNCHANGED gatewayVars
    BY <1>7 DEF linkVars
  <2>2. GatewayTypeOK' /\ up' \in [Session -> Seq(Part)] /\ down' \in [Session -> Seq(Part)]
    BY <2>1, TypeParts, PartsKept DEF GatewayTypeOK, WiresTypeOK, gatewayVars
  <2> QED
    BY <2>1, <2>2, GatewayKeeps DEF NotOpened, clientVars
<1> QED
  BY <1>1, <1>2, <1>3, <1>4, <1>5, <1>6, <1>7 DEF LinkNext, ClientStep

LEMMA NotOpenedInit == LinkInit => NotOpened
BY Bounds DEF LinkInit, NotOpened

\* The threads of the two programs never hold values of another kind than the sockets and
\* buffers of gateway_server.py and vfd_tcp_client.py do, whatever they do in whatever order;
\* of a reply the client never holds as much as a whole one, and its socket is never one it
\* has closed.
THEOREM TypeCorrect == LinkSpec => []LinkTypeOK
<1>1. LinkInit => LinkTypeOK /\ NotOpened
  BY TypeInit, NotOpenedInit
<1>2. LinkTypeOK /\ NotOpened /\ [LinkNext]_linkVars => (LinkTypeOK /\ NotOpened)'
  BY TypeStep
<1> QED
  BY <1>1, <1>2, PTL DEF LinkSpec

-----------------------------------------------------------------------------
(* The order of the commands. *)

\* The place of a part in the row of all that its session sends, over TCP.
Place(x) == 2 * x[1][2] + x[2] - 2

\* A sequence holds parts n + 1, n + 2, ... of the session.
IsRow(q, s, n) == \A j \in 1 .. Len(q) : q[j][1][1] = s /\ Place(q[j]) = n + j

\* What is on its way is the last that has been sent.
Rows ==
  \A s \in Session :
    /\ Len(up[s]) <= 2 * polls[s]
    /\ IsRow(up[s], s, 2 * polls[s] - Len(up[s]))

\* Sessions are opened one after the other.
OneByOne ==
  \A s \in Session : worker[s].at = "none" =>
    polls[s] = 0 /\ \A t \in Session : worker[t].at # "none" => t < s

\* Nothing has been read yet of a connection that waits, and it is a later one.
Waiting ==
  \A i \in 1 .. Len(queue) :
    /\ worker[queue[i]].at # "none"
    /\ queue[i] > conn /\ queue[i] > Taken[1]
    /\ Len(up[queue[i]]) = 2 * polls[queue[i]]
    /\ \A j \in 1 .. Len(queue) : i < j => queue[i] < queue[j]

\* The handler of a connection has read b whole frames and the beginning of the next.
HasRead(b) ==
  /\ 2 * polls[conn] = 2 * b + Len(rbuf) + Len(up[conn])
  /\ IsRow(rbuf, conn, 2 * b)
  /\ Taken[1] < conn \/ (Taken[1] = conn /\ Taken[2] <= b)

Reading ==
  /\ conn = 0 => rbuf = <<>>
  /\ conn # 0 => worker[conn].at # "none" /\ \E b \in Nat : HasRead(b)

\* What has been applied last is a command.
Whole ==
  \/ applied = <<>>
  \/ \E s \in Session, n \in 1 .. MaxPolls :
       applied = FrameOf(<<s, n>>) /\ worker[s].at # "none"

InOrder == Rows /\ OneByOne /\ Waiting /\ Reading /\ Whole

Ordered == proto # "UDP" /\ ~dropped => InOrder

LEMMA FrameRow ==
  ASSUME proto # "UDP", NEW s \in Session, NEW p \in 1 .. MaxPolls
  PROVE  FrameOf(<<s, p>>) \in Seq(Part) /\ Len(FrameOf(<<s, p>>)) = 2
         /\ IsRow(FrameOf(<<s, p>>), s, 2 * p - 2)
<1>1. Parts = 2 /\ <<s, p>> \in Command /\ p \in Int
  BY PartsKnown DEF Command
<1>2. /\ FrameOf(<<s, p>>) \in Seq(Part) /\ Len(FrameOf(<<s, p>>)) = 2
      /\ \A k \in 1 .. 2 : FrameOf(<<s, p>>)[k] = <<<<s, p>>, k>>
  BY <1>1, FrameType
<1>3. ASSUME NEW k \in 1 .. 2
      PROVE  FrameOf(<<s, p>>)[k][1][1] = s /\ Place(FrameOf(<<s, p>>)[k]) = 2 * p - 2 + k
  <2>1. Place(<<<<s, p>>, k>>) = 2 * p + k - 2
    BY DEF Place
  <2>2. k \in Int /\ p \in Int /\ 2 * p + k - 2 = 2 * p - 2 + k
    BY <1>1
  <2>3. FrameOf(<<s, p>>)[k] = <<<<s, p>>, k>>
    BY <1>2
  <2> QED
    BY <2>1, <2>2, <2>3
<1> QED
  BY <1>2, <1>3 DEF IsRow

LEMMA RowConcat ==
  ASSUME NEW q \in Seq(Part), NEW r \in Seq(Part), NEW s, NEW n \in Int,
         IsRow(q, s, n), IsRow(r, s, n + Len(q))
  PROVE  IsRow(q \o r, s, n)
<1>1. /\ Len(q \o r) = Len(q) + Len(r)
      /\ \A j \in 1 .. Len(q) + Len(r) : (q \o r)[j] = IF j <= Len(q) THEN q[j] ELSE r[j - Len(q)]
  BY ConcatProperties
<1>2. Len(q) \in Nat /\ Len(r) \in Nat
  BY LenProperties
<1> SUFFICES ASSUME NEW j \in 1 .. Len(q) + Len(r)
             PROVE  (q \o r)[j][1][1] = s /\ Place((q \o r)[j]) = n + j
  BY <1>1 DEF IsRow
<1>3. CASE j <= Len(q)
  BY <1>1, <1>2, <1>3 DEF IsRow
<1>4. CASE ~(j <= Len(q))
  <2>1. j - Len(q) \in 1 .. Len(r) /\ n + Len(q) + (j - Len(q)) = n + j
    BY <1>2, <1>4
  <2>2. (q \o r)[j] = r[j - Len(q)]
    BY <1>1, <1>4
  <2> QED
    BY <2>1, <2>2 DEF IsRow
<1> QED
  BY <1>3, <1>4

LEMMA RowHead ==
  ASSUME NEW q \in Seq(Part), q # <<>>, NEW s, NEW n \in Int, IsRow(q, s, n)
  PROVE  /\ Head(q) \in Part /\ Head(q)[1][1] = s /\ Place(Head(q)) = n + 1
         /\ Tail(q) \in Seq(Part) /\ Len(Tail(q)) = Len(q) - 1 /\ IsRow(Tail(q), s, n + 1)
<1>1. /\ Head(q) = q[1] /\ Head(q) \in Part /\ Tail(q) \in Seq(Part)
      /\ Len(Tail(q)) = Len(q) - 1 /\ Len(q) \in Nat \ {0}
      /\ \A j \in 1 .. Len(q) - 1 : Tail(q)[j] = q[j + 1]
  BY HeadTailProperties, EmptySeq, LenProperties
<1>2. \A j \in 1 .. Len(q) - 1 : j + 1 \in 1 .. Len(q) /\ n + (j + 1) = n + 1 + j
  BY <1>1
<1>3. 1 \in 1 .. Len(q)
  BY <1>1
<1> QED
  BY <1>1, <1>2, <1>3 DEF IsRow

LEMMA RowAppend ==
  ASSUME NEW q \in Seq(Part), NEW x \in Part, NEW s, NEW n \in Int,
         IsRow(q, s, n), x[1][1] = s, Place(x) = n + Len(q) + 1
  PROVE  IsRow(Append(q, x), s, n)
<1>1. /\ Len(Append(q, x)) = Len(q) + 1 /\ Len(q) \in Nat
      /\ \A j \in 1 .. Len(q) + 1 : Append(q, x)[j] = IF j <= Len(q) THEN q[j] ELSE x
  BY AppendProperties, LenProperties
<1> SUFFICES ASSUME NEW j \in 1 .. Len(q) + 1
             PROVE  Append(q, x)[j][1][1] = s /\ Place(Append(q, x)[j]) = n + j
  BY <1>1 DEF IsRow
<1>2. CASE j <= Len(q)
  BY <1>1, <1>2 DEF IsRow
<1>3. CASE ~(j <= Len(q))
  BY <1>1, <1>3
<1> QED
  BY <1>2, <1>3

\* Two parts in a row that begin behind a whole frame are a frame.
LEMMA RowIsFrame ==
  ASSUME proto # "UDP", NEW q \in Seq(Part), Len(q) = 2, NEW s \in Session, NEW b \in Nat,
         IsRow(q, s, 2 * b)
  PROVE  b + 1 \in 1 .. MaxPolls /\ q = FrameOf(<<s, b + 1>>)
<1>1. q[1] \in Part /\ q[2] \in Part
  <2>1. 1 \in 1 .. Len(q) /\ 2 \in 1 .. Len(q)
    OBVIOUS
  <2> QED
    BY <2>1, ElementOfSeq
<1>2. /\ q[1][1][1] = s /\ 2 * q[1][1][2] + q[1][2] - 2 = 2 * b + 1
      /\ q[2][1][1] = s /\ 2 * q[2][1][2] + q[2][2] - 2 = 2 * b + 2
  BY DEF IsRow, Place
<1>3. ASSUME NEW x \in Part, NEW k \in {1, 2}, 2 * x[1][2] + x[2] - 2 = 2 * b + k
      PROVE  x[1][2] = b + 1 /\ x[2] = k
  <2>1. x[1][2] \in Nat /\ x[2] \in {1, 2}
    BY PartType
  <2>2. \A n \in Nat, l \in {1, 2} : 2 * n + l - 2 = 2 * b + k => n = b + 1 /\ l = k
    OBVIOUS
  <2> QED
    BY <2>1, <2>2, <1>3
<1>4. q[1] = <<<<s, b + 1>>, 1>> /\ q[2] = <<<<s, b + 1>>, 2>>
  <2>1. q[1][1][2] = b + 1 /\ q[1][2] = 1
    BY <1>1, <1>2, <1>3
  <2>2. q[2][1][2] = b + 1 /\ q[2][2] = 2
    BY <1>1, <1>2, <1>3
  <2>3. q[1] = <<<<q[1][1][1], q[1][1][2]>>, q[1][2]>> /\ q[2] = <<<<q[2][1][1], q[2][1][2]>>, q[2][2]>>
    BY <1>1, PartType
  <2> QED
    BY <2>1, <2>2, <2>3, <1>2
<1>5. <<s, b + 1>> \in Command
  BY <1>1, <1>4, PartType
<1>6. b + 1 \in 1 .. MaxPolls
  <2>1. s # 0
    BY Bounds
  <2>2. <<s, b + 1>> # <<0, 0>>
    BY <2>1
  <2>3. <<s, b + 1>> \in Session \X (1 .. MaxPolls)
    BY <1>5, <2>2 DEF Command, Nothing
  <2> QED
    BY <2>3
<1>7. FrameOf(<<s, b + 1>>) = [k \in 1 .. 2 |-> <<<<s, b + 1>>, k>>]
  BY PartsKnown DEF FrameOf
<1>8. q \in [1 .. 2 -> Part]
  BY LenProperties
<1>9. q = [k \in 1 .. 2 |-> <<<<s, b + 1>>, k>>]
  BY <1>4, <1>8
<1> QED
  BY <1>6, <1>7, <1>9

LEMMA TakenKnown ==
  ASSUME LinkTypeOK, Whole
  PROVE  /\ Taken[1] \in Nat /\ Taken[2] \in Nat /\ Taken = <<Taken[1], Taken[2]>>
         /\ Taken[1] = 0 \/ (Taken[1] \in Session /\ worker[Taken[1]].at # "none")
<1>1. CASE applied = <<>>
  BY <1>1 DEF Taken, Nothing
<1>2. CASE applied # <<>>
  <2>1. PICK s \in Session, n \in 1 .. MaxPolls : applied = FrameOf(<<s, n>>) /\ worker[s].at # "none"
    BY <1>2 DEF Whole
  <2>2. <<s, n>> \in Command
    BY DEF Command
  <2>3. FrameOf(<<s, n>>)[1] = <<<<s, n>>, 1>>
    BY <2>2, FrameType, PartsKnown
  <2>4. applied[1][1] = <<s, n>>
    BY <2>1, <2>3
  <2>5. Taken = <<s, n>>
    BY <1>2, <2>1, <2>4 DEF Taken
  <2> QED
    BY <2>1, <2>5, Bounds
<1> QED
  BY <1>1, <1>2

LEMMA TakenFrame ==
  ASSUME NEW s \in Session, NEW n \in 1 .. MaxPolls, applied' = FrameOf(<<s, n>>), UNCHANGED proto
  PROVE  Taken' = <<s, n>>
<1>1. <<s, n>> \in Command
  BY DEF Command
<1>2. FrameOf(<<s, n>>)[1] = <<<<s, n>>, 1>> /\ Len(FrameOf(<<s, n>>)) # 0
  BY <1>1, FrameType, PartsKnown
<1>3. applied'[1][1] = <<s, n>> /\ applied' # <<>>
  BY <1>2, EmptySeq
<1>4. \A c : c = <<s, n>> => [k \in 1 .. Parts' |-> <<c, k>>] = FrameOf(<<s, n>>)
  BY PartsKept DEF FrameOf
<1>5. (FrameOf(applied[1][1]))' = [k \in 1 .. Parts' |-> <<applied'[1][1], k>>]
  BY DEF FrameOf
<1>6. (FrameOf(applied[1][1]))' = applied'
  BY <1>3, <1>4, <1>5
<1> QED
  BY <1>3, <1>6 DEF Taken

LEMMA TakenKept == ASSUME UNCHANGED <<proto, applied>> PROVE Taken' = Taken
BY PartsKept DEF Taken, FrameOf

LEMMA WholeKept ==
  ASSUME Whole, UNCHANGED <<proto, applied>>,
         \A s \in Session : worker[s].at # "none" => worker'[s].at # "none"
  PROVE  Whole'
<1>1. \A c : FrameOf(c)' = FrameOf(c)
  BY PartsKept DEF FrameOf
<1> QED
  BY <1>1, PartsKept DEF Whole, FrameOf

LEMMA OrderTypes ==
  ASSUME LinkTypeOK
  PROVE  /\ up \in [Session -> Seq(Part)] /\ worker \in [Session -> Loops]
         /\ polls \in [Session -> 0 .. MaxPolls]
         /\ queue \in Seq(Session) /\ conn \in Session \union {0} /\ rbuf \in Seq(Part)
         /\ Len(queue) \in Nat /\ Len(rbuf) \in Nat /\ Len(rbuf) <= Parts
         /\ \A s \in Session : polls[s] \in Nat /\ Len(up[s]) \in Nat
         /\ \A i \in 1 .. Len(queue) : queue[i] \in Session
<1>1. /\ up \in [Session -> Seq(Part)] /\ worker \in [Session -> Loops]
      /\ polls \in [Session -> 0 .. MaxPolls]
      /\ queue \in Seq(Session) /\ conn \in Session \union {0} /\ rbuf \in Seq(Part)
      /\ Len(rbuf) <= Parts
  BY TypeParts DEF ClientTypeOK, GatewayTypeOK, WiresTypeOK
<1>2. \A s \in Session : polls[s] \in Nat
  BY <1>1, Bounds
<1>3. \A i \in 1 .. Len(queue) : queue[i] \in Session
  BY <1>1, ElementOfSeq
<1>4. Len(queue) \in Nat /\ Len(rbuf) \in Nat /\ \A s \in Session : Len(up[s]) \in Nat
  BY <1>1, LenProperties
<1> QED
  BY <1>1, <1>2, <1>3, <1>4

\* Steps that neither send nor read a command, open no session and close no connection.
LEMMA QuietOrder ==
  ASSUME LinkTypeOK, InOrder, UNCHANGED <<proto, up, queue, conn, rbuf, applied>>,
         \A s \in Session : /\ polls'[s] = polls[s]
                            /\ worker'[s].at = "none" <=> worker[s].at = "none"
  PROVE  InOrder'
<1>1. Taken' = Taken
  BY TakenKept
<1>2. Rows'
  BY DEF InOrder, Rows, IsRow
<1>3. OneByOne'
  BY DEF InOrder, OneByOne
<1>4. Waiting'
  BY <1>1, OrderTypes DEF InOrder, Waiting
<1>5. Reading'
  BY <1>1, OrderTypes DEF InOrder, Reading, HasRead, IsRow
<1>6. Whole'
  BY WholeKept DEF InOrder
<1> QED
  BY <1>2, <1>3, <1>4, <1>5, <1>6 DEF InOrder

LEMMA ConnectOrder ==
  ASSUME LinkTypeOK, InOrder, proto # "UDP", Connect
  PROVE  InOrder'
<1>1. PICK s \in Session :
        /\ worker[s].at = "none" /\ \A t \in 1 .. s - 1 : worker[t].at # "none"
        /\ Goto(s, "begin") /\ queue' = Append(queue, s)
        /\ UNCHANGED <<proto, up, conn, rbuf, applied, polls>>
  BY DEF Connect
<1>2. \A t \in Session : /\ polls'[t] = polls[t]
                         /\ worker'[t].at = "none" <=> t # s /\ worker[t].at = "none"
  BY <1>1, GotoEffect DEF Steps
<1>3. Taken' = Taken /\ (Taken[1] = 0 \/ (Taken[1] \in Session /\ worker[Taken[1]].at # "none"))
  BY <1>1, TakenKept, TakenKnown DEF InOrder
<1>4. s \in Nat /\ s > 0 /\ \A t \in Session : worker[t].at # "none" => t < s
  BY <1>1, Bounds DEF InOrder, OneByOne
<1>5. polls[s] = 0 /\ Len(up[s]) = 0
  BY <1>1, OrderTypes DEF InOrder, OneByOne, Rows
<1>6. conn < s /\ Taken[1] < s
  BY <1>3, <1>4, OrderTypes DEF InOrder, Reading
<1>7. /\ Len(queue') = Len(queue) + 1
      /\ \A i \in 1 .. Len(queue) : queue'[i] = queue[i]
      /\ queue'[Len(queue) + 1] = s
  BY <1>1, OrderTypes, AppendProperties
<1>8. Rows'
  BY <1>1, <1>2 DEF InOrder, Rows, IsRow
<1>9. OneByOne'
  <2> SUFFICES ASSUME NEW u \in Session, worker'[u].at = "none"
               PROVE  polls'[u] = 0 /\ \A t \in Session : worker'[t].at # "none" => t < u
    BY DEF OneByOne
  <2>1. polls'[u] = 0 /\ u # s /\ worker[u].at = "none"
        /\ \A t \in Session : worker[t].at # "none" => t < u
    BY <1>2 DEF InOrder, OneByOne
  <2>2. s < u
    <3>1. u \notin 1 .. s - 1
      BY <2>1, <1>1
    <3> QED
      BY <3>1, <2>1, Bounds
  <2> QED
    BY <2>1, <2>2, <1>2
<1>10. Waiting'
  <2> SUFFICES ASSUME NEW i \in 1 .. Len(queue')
               PROVE  /\ worker'[queue'[i]].at # "none"
                      /\ queue'[i] > conn' /\ queue'[i] > Taken'[1]
                      /\ Len(up'[queue'[i]]) = 2 * polls'[queue'[i]]
                      /\ \A j \in 1 .. Len(queue') : i < j => queue'[i] < queue'[j]
    BY DEF Waiting
  <2>1. CASE i \in 1 .. Len(queue)
    <3>1. /\ queue'[i] = queue[i] /\ queue[i] \in Session /\ worker[queue[i]].at # "none"
          /\ queue[i] > conn /\ queue[i] > Taken[1]
          /\ Len(up[queue[i]]) = 2 * polls[queue[i]]
          /\ \A j \in 1 .. Len(queue) : i < j => queue[i] < queue[j]
      BY <2>1, <1>7, OrderTypes DEF InOrder, Waiting
    <3>2. queue[i] < s
      BY <3>1, <1>4
    <3>3. ASSUME NEW j \in 1 .. Len(queue'), i < j PROVE queue'[i] < queue'[j]
      <4>1. j \in 1 .. Len(queue) \/ j = Len(queue) + 1
        BY <1>7, OrderTypes
      <4> QED
        BY <4>1, <3>1, <3>2, <3>3, <1>7
    <3> QED
      BY <3>1, <3>3, <1>1, <1>2, <1>3
  <2>2. CASE i = Len(queue) + 1
    BY <2>2, <1>1, <1>2, <1>3, <1>5, <1>6, <1>7, OrderTypes
  <2> QED
    BY <2>1, <2>2, <1>7, OrderTypes
<1>11. Reading'
  BY <1>1, <1>2, <1>3, OrderTypes DEF InOrder, Reading, HasRead, IsRow
<1>12. Whole'
  BY <1>1, <1>2, WholeKept DEF InOrder
<1> QED
  BY <1>8, <1>9, <1>10, <1>11, <1>12 DEF InOrder

LEMMA PollOrder ==
  ASSUME LinkTypeOK, NotOpened, InOrder, proto # "UDP", NEW w \in Session, Poll(w)
  PROVE  InOrder'
<1> DEFINE s == worker[w].sock
<1> DEFINE p == polls[s] + 1
<1>1. /\ s \in Session /\ p \in 1 .. MaxPolls /\ polls'[s] = p
      /\ up' \in [Session -> Seq(Part)] /\ up'[s] = up[s] \o FrameOf(<<s, p>>)
      /\ \A t \in Session \ {s} : up'[t] = up[t] /\ polls'[t] = polls[t]
      /\ \A t \in Session : worker'[t].at = "none" <=> worker[t].at = "none"
      /\ UNCHANGED <<proto, queue, conn, rbuf, applied>>
  BY PollEffect DEF gatewayVars
<1>2. s \in Session /\ p \in 1 .. MaxPolls /\ p \in Nat
  BY <1>1, OrderTypes, Bounds
<1>3. /\ worker'[s].at # "none" /\ worker[s].at # "none" /\ polls'[s] = p
      /\ \A t \in Session : t # s => polls'[t] = polls[t]
      /\ \A t \in Session : worker'[t].at = "none" <=> worker[t].at = "none"
  BY <1>1 DEF NotOpened
<1> HIDE DEF s
<1>4. Taken' = Taken
  BY <1>1, TakenKept
<1>5. /\ FrameOf(<<s, p>>) \in Seq(Part) /\ Len(FrameOf(<<s, p>>)) = 2
      /\ IsRow(FrameOf(<<s, p>>), s, 2 * p - 2)
  BY <1>2, FrameRow
<1>6. /\ \A t \in Session : t # s => up'[t] = up[t]
      /\ Len(up'[s]) = Len(up[s]) + 2
      /\ up'[s] = up[s] \o FrameOf(<<s, p>>)
  <2>1. up \in [Session -> Seq(Part)] /\ up[s] \in Seq(Part)
    BY <1>1, OrderTypes
  <2>2. ASSUME NEW q \in Seq(Part), NEW r \in Seq(Part), Len(r) = 2
        PROVE  Len(q \o r) = Len(q) + 2
    <3>1. Len(q \o r) = Len(q) + Len(r)
      BY ConcatProperties
    <3> QED
      BY <3>1, <2>2
  <2> DEFINE f == FrameOf(<<s, p>>)
  <2>3. f \in Seq(Part) /\ Len(f) = 2
    BY <1>5
  <2>4. up'[s] = up[s] \o f /\ \A t \in Session : t # s => up'[t] = up[t]
    BY <1>1, <2>1
  <2> HIDE DEF f
  <2>5. Len(up[s] \o f) = Len(up[s]) + 2
    BY <2>1, <2>2, <2>3
  <2> QED
    BY <2>4, <2>5 DEF f
<1>7. Rows'
  <2>1. Len(up[s]) <= 2 * polls[s] /\ IsRow(up[s], s, 2 * polls[s] - Len(up[s]))
    BY <1>2 DEF InOrder, Rows
  <2>2. 2 * polls[s] - Len(up[s]) \in Int
        /\ 2 * polls[s] - Len(up[s]) + Len(up[s]) = 2 * p - 2
        /\ 2 * p - Len(up'[s]) = 2 * polls[s] - Len(up[s])
        /\ 2 * p >= Len(up'[s])
    <3>1. polls[s] \in Nat /\ Len(up[s]) \in Nat
      BY <1>2, OrderTypes
    <3>2. \A n, l \in Nat : l <= 2 * n =>
            /\ 2 * n - l \in Int /\ 2 * n - l + l = 2 * (n + 1) - 2
            /\ 2 * (n + 1) - (l + 2) = 2 * n - l /\ 2 * (n + 1) >= l + 2
      OBVIOUS
    <3> QED
      BY <3>1, <3>2, <2>1, <1>6
  <2>3. IsRow(up'[s], s, 2 * p - Len(up'[s]))
    BY <2>1, <2>2, <1>2, <1>5, <1>6, OrderTypes, RowConcat
  <2> HIDE DEF p
  <2>4. \A t \in Session : Len(up'[t]) <= 2 * polls'[t]
                           /\ IsRow(up'[t], t, 2 * polls'[t] - Len(up'[t]))
    BY <2>2, <2>3, <1>3, <1>6 DEF InOrder, Rows
  <2> QED
    BY <2>4 DEF Rows, IsRow
<1>8. OneByOne'
  BY <1>3 DEF InOrder, OneByOne
<1>9. Waiting'
  <2>1. ASSUME NEW i \in 1 .. Len(queue)
        PROVE  worker'[queue[i]].at # "none" /\ Len(up'[queue[i]]) = 2 * polls'[queue[i]]
    <3>1. /\ queue[i] \in Session /\ worker[queue[i]].at # "none"
          /\ Len(up[queue[i]]) = 2 * polls[queue[i]]
      BY OrderTypes DEF InOrder, Waiting
    <3>2. CASE queue[i] = s
      <4>1. worker'[s].at # "none" /\ Len(up'[s]) = Len(up[s]) + 2 /\ polls'[s] = p
        BY <1>3, <1>6
      <4>2. Len(up[s]) = 2 * polls[s] /\ polls[s] \in Nat
        BY <3>1, <3>2, OrderTypes
      <4>3. 2 * polls[s] + 2 = 2 * (polls[s] + 1)
        BY <4>2
      <4> QED
        BY <3>2, <4>1, <4>2, <4>3
    <3>3. CASE queue[i] # s
      BY <3>1, <3>3, <1>3, <1>6
    <3> QED
      BY <3>2, <3>3
  <2> QED
    BY <2>1, <1>1, <1>4 DEF InOrder, Waiting
<1>10. Reading'
  <2>1. CASE conn = 0
    BY <2>1, <1>1 DEF InOrder, Reading
  <2>2. CASE conn # 0
    <3>1. PICK b \in Nat : HasRead(b)
      BY <2>2 DEF InOrder, Reading
    <3>2. 2 * polls'[conn] = 2 * b + Len(rbuf) + Len(up'[conn])
      <4>1. /\ conn \in Session /\ 2 * polls[conn] = 2 * b + Len(rbuf) + Len(up[conn])
            /\ polls[conn] \in Nat /\ Len(up[conn]) \in Nat /\ Len(rbuf) \in Nat
        BY <3>1, <2>2, OrderTypes DEF HasRead
      <4>2. CASE conn = s
        <5>1. \A n, l, r \in Nat : 2 * n = 2 * b + r + l => 2 * (n + 1) = 2 * b + r + (l + 2)
          OBVIOUS
        <5>2. polls'[conn] = polls[conn] + 1 /\ Len(up'[conn]) = Len(up[conn]) + 2
          BY <4>2, <1>3, <1>6
        <5>3. 2 * (polls[conn] + 1) = 2 * b + Len(rbuf) + (Len(up[conn]) + 2)
          BY <5>1, <4>1
        <5> QED
          BY <5>2, <5>3
      <4>3. CASE conn # s
        BY <4>1, <4>3, <1>3, <1>6
      <4> QED
        BY <4>2, <4>3
    <3>3. HasRead(b)'
      BY <3>1, <3>2, <1>1, <1>4 DEF HasRead, IsRow
    <3>4. worker'[conn].at # "none"
      BY <2>2, <1>3, OrderTypes DEF InOrder, Reading
    <3> QED
      BY <3>3, <3>4, <2>2, <1>1 DEF Reading
  <2> QED
    BY <2>1, <2>2
<1>11. Whole'
  BY <1>1, <1>3, WholeKept DEF InOrder
<1> QED
  BY <1>7, <1>8, <1>9, <1>10, <1>11 DEF InOrder

LEMMA HandlerEndsOrder ==
  ASSUME LinkTypeOK, InOrder, HangUp \/ StopServer
  PROVE  InOrder'
<1>1. /\ UNCHANGED <<proto, worker, polls, applied>>
      /\ conn' = 0 /\ rbuf' = <<>>
      /\ queue' = queue \/ queue' = <<>>
  BY DEF HangUp, StopServer, HandlerEnds, ServerVars, clientVars
<1>2. Taken' = Taken
  BY <1>1, TakenKept
<1>3. conn \in Nat
  <2>1. CASE conn = 0
    BY <2>1
  <2>2. CASE conn \in Session
    BY <2>2, Bounds
  <2> QED
    BY <2>1, <2>2, OrderTypes
<1>4. /\ \A t \in Session : up'[t] = IF t = conn THEN <<>> ELSE up[t]
      /\ Len(<<>>) = 0
  BY OrderTypes DEF HangUp, StopServer
<1>5. Rows'
  <2>1. ASSUME NEW t \in Session
        PROVE  Len(up'[t]) <= 2 * polls[t] /\ IsRow(up'[t], t, 2 * polls[t] - Len(up'[t]))
    <3>1. CASE t = conn
      BY <3>1, <1>4, OrderTypes DEF IsRow
    <3>2. CASE t # conn
      BY <3>2, <1>4 DEF InOrder, Rows
    <3> QED
      BY <3>1, <3>2
  <2> QED
    BY <2>1, <1>1 DEF Rows, IsRow
<1>6. OneByOne'
  BY <1>1 DEF InOrder, OneByOne
<1>7. Waiting'
  <2>1. CASE queue' = <<>>
    BY <2>1, <1>4 DEF Waiting
  <2>2. CASE queue' = queue
    <3>1. ASSUME NEW i \in 1 .. Len(queue)
          PROVE  up'[queue[i]] = up[queue[i]] /\ queue[i] > 0
      <4>1. queue[i] \in Session /\ queue[i] \in Nat
        BY OrderTypes, Bounds
      <4>2. queue[i] > conn
        BY DEF InOrder, Waiting
      <4>3. queue[i] # conn /\ queue[i] > 0
        BY <4>1, <4>2, <1>3
      <4> QED
        BY <4>1, <4>3, <1>4
    <3> QED
      BY <3>1, <2>2, <1>1, <1>2 DEF InOrder, Waiting
  <2> QED
    BY <2>1, <2>2, <1>1
<1>8. Reading'
  BY <1>1 DEF Reading
<1>9. Whole'
  BY <1>1, WholeKept DEF InOrder
<1> QED
  BY <1>5, <1>6, <1>7, <1>8, <1>9 DEF InOrder

LEMMA AcceptOrder ==
  ASSUME LinkTypeOK, InOrder, Accept
  PROVE  InOrder'
<1>1. /\ UNCHANGED <<proto, worker, polls, up, rbuf, applied>>
      /\ conn = 0 /\ queue # <<>> /\ conn' = Head(queue) /\ queue' = Tail(queue)
  BY DEF Accept, ServerVars, clientVars
<1>2. Taken' = Taken
  BY <1>1, TakenKept
<1>3. Len(queue) \in Nat \ {0} /\ 1 \in 1 .. Len(queue)
  BY <1>1, OrderTypes, EmptySeq
<1>4. /\ Len(queue') = Len(queue) - 1 /\ \A i \in 1 .. Len(queue') : queue'[i] = queue[i + 1]
      /\ conn' = queue[1] /\ conn' \in Session /\ conn' # 0
  BY <1>1, <1>3, OrderTypes, HeadTailProperties, Bounds
<1>5. \A i \in 1 .. Len(queue') : i + 1 \in 1 .. Len(queue) /\ 1 < i + 1
  BY <1>3, <1>4
<1>6. Rows' /\ OneByOne'
  BY <1>1 DEF InOrder, Rows, OneByOne, IsRow
<1>7. Waiting'
  <2> SUFFICES ASSUME NEW i \in 1 .. Len(queue')
               PROVE  /\ worker'[queue'[i]].at # "none"
                      /\ queue'[i] > conn' /\ queue'[i] > Taken'[1]
                      /\ Len(up'[queue'[i]]) = 2 * polls'[queue'[i]]
                      /\ \A j \in 1 .. Len(queue') : i < j => queue'[i] < queue'[j]
    BY DEF Waiting
  <2>1. /\ worker[queue[i + 1]].at # "none"
        /\ queue[i + 1] > Taken[1]
        /\ Len(up[queue[i + 1]]) = 2 * polls[queue[i + 1]]
        /\ \A j \in 1 .. Len(queue) : i + 1 < j => queue[i + 1] < queue[j]
    BY <1>5 DEF InOrder, Waiting
  <2>2. queue[1] < queue[i + 1]
    BY <1>3, <1>5 DEF InOrder, Waiting
  <2>3. \A j \in 1 .. Len(queue') : i < j => i + 1 < j + 1
    OBVIOUS
  <2>4. queue[1] \in Nat /\ queue[i + 1] \in Nat
    BY <1>3, <1>5, OrderTypes, Bounds
  <2> QED
    BY <2>1, <2>2, <2>3, <2>4, <1>1, <1>2, <1>4, <1>5
<1>8. Reading'
  <2>1. rbuf = <<>> /\ Len(rbuf) = 0
    BY <1>1, EmptySeq DEF InOrder, Reading
  <2>2. /\ worker[conn'].at # "none" /\ conn' > Taken[1]
        /\ Len(up[conn']) = 2 * polls[conn']
    BY <1>3, <1>4 DEF InOrder, Waiting
  <2>3. 2 * polls[conn'] = 2 * 0 + Len(rbuf) + Len(up[conn'])
    BY <2>1, <2>2, <1>4, OrderTypes
  <2>4. IsRow(rbuf, conn', 2 * 0)
    BY <2>1 DEF IsRow
  <2>5. Taken[1] < conn'
    BY <2>2, <1>4, TakenKnown, Bounds DEF InOrder
  <2>6. HasRead(0)'
    BY <2>3, <2>4, <2>5, <1>1, <1>2 DEF HasRead, IsRow
  <2> QED
    BY <2>2, <2>6, <1>1, <1>4 DEF Reading
<1>9. Whole'
  BY <1>1, WholeKept DEF InOrder
<1> QED
  BY <1>6, <1>7, <1>8, <1>9 DEF InOrder

LEMMA ReadOrder ==
  ASSUME LinkTypeOK, InOrder, proto # "UDP", Read
  PROVE  InOrder'
<1>1. /\ UNCHANGED <<proto, worker, polls, queue, conn, applied>>
      /\ conn # 0 /\ up[conn] # <<>>
      /\ rbuf' = Append(rbuf, Head(up[conn]))
      /\ up' = [up EXCEPT ![conn] = Tail(@)]
  BY DEF Read, ServerVars, clientVars
<1>2. Taken' = Taken
  BY <1>1, TakenKept
<1>3. conn \in Session /\ conn \in Nat /\ up[conn] \in Seq(Part)
  BY <1>1, OrderTypes, Bounds
<1>4. polls[conn] \in Nat /\ Len(up[conn]) \in Nat /\ Len(rbuf) \in Nat /\ rbuf \in Seq(Part)
  BY <1>3, OrderTypes
<1>5. PICK b \in Nat : HasRead(b)
  BY <1>1 DEF InOrder, Reading
<1>6. /\ 2 * polls[conn] = 2 * b + Len(rbuf) + Len(up[conn])
      /\ IsRow(rbuf, conn, 2 * b)
      /\ Taken[1] < conn \/ (Taken[1] = conn /\ Taken[2] <= b)
  BY <1>5 DEF HasRead
<1> DEFINE n == 2 * polls[conn] - Len(up[conn])
<1>7. /\ n \in Int /\ n = 2 * b + Len(rbuf) /\ 2 * b \in Int
      /\ Len(up[conn]) - 1 <= 2 * polls[conn]
      /\ 2 * polls[conn] - (Len(up[conn]) - 1) = n + 1
      /\ 2 * polls[conn] = 2 * b + (Len(rbuf) + 1) + (Len(up[conn]) - 1)
  <2>1. /\ polls[conn] \in Nat /\ b \in Nat /\ Len(rbuf) \in Nat /\ Len(up[conn]) \in Nat
        /\ 2 * polls[conn] = 2 * b + Len(rbuf) + Len(up[conn])
    BY <1>4, <1>5, <1>6
  <2>2. ASSUME NEW p \in Nat, NEW r \in Nat, NEW u \in Nat,
               p = polls[conn], r = Len(rbuf), u = Len(up[conn])
        PROVE  /\ n \in Int /\ n = 2 * b + Len(rbuf) /\ 2 * b \in Int
               /\ Len(up[conn]) - 1 <= 2 * polls[conn]
               /\ 2 * polls[conn] - (Len(up[conn]) - 1) = n + 1
               /\ 2 * polls[conn] = 2 * b + (Len(rbuf) + 1) + (Len(up[conn]) - 1)
    <3>1. b \in Nat /\ 2 * p = 2 * b + r + u
      BY <2>1, <2>2
    <3>2. /\ 2 * p - u \in Int /\ 2 * p - u = 2 * b + r /\ 2 * b \in Int
          /\ u - 1 <= 2 * p
          /\ 2 * p - (u - 1) = 2 * p - u + 1
          /\ 2 * p = 2 * b + (r + 1) + (u - 1)
      BY <3>1
    <3> QED
      BY <3>2, <2>2
  <2> QED
    BY <2>1, <2>2
<1>8. IsRow(up[conn], conn, n)
  BY <1>3 DEF InOrder, Rows
<1>9. /\ Head(up[conn]) \in Part /\ Head(up[conn])[1][1] = conn /\ Place(Head(up[conn])) = n + 1
      /\ Len(Tail(up[conn])) = Len(up[conn]) - 1 /\ IsRow(Tail(up[conn]), conn, n + 1)
  <2> HIDE DEF n
  <2> QED
    BY <1>1, <1>3, <1>7, <1>8, RowHead
<1>10. up'[conn] = Tail(up[conn]) /\ \A t \in Session : t # conn => up'[t] = up[t]
  BY <1>1, <1>3, OrderTypes
<1>11. Rows'
  <2>1. ASSUME NEW t \in Session
        PROVE  Len(up'[t]) <= 2 * polls[t] /\ IsRow(up'[t], t, 2 * polls[t] - Len(up'[t]))
    <3>1. CASE t = conn
      <4>1. /\ Len(up'[conn]) <= 2 * polls[conn]
            /\ 2 * polls[conn] - Len(up'[conn]) = n + 1
        <5>1. Len(up'[conn]) = Len(up[conn]) - 1
          BY <1>9, <1>10
        <5> QED
          BY <5>1, <1>7
      <4>2. IsRow(up'[conn], conn, 2 * polls[conn] - Len(up'[conn]))
        BY <4>1, <1>9, <1>10
      <4> QED
        BY <3>1, <4>1, <4>2
    <3>2. CASE t # conn
      BY <3>2, <1>10 DEF InOrder, Rows
    <3> QED
      BY <3>1, <3>2
  <2> QED
    BY <2>1, <1>1 DEF Rows, IsRow
<1>12. OneByOne'
  BY <1>1 DEF InOrder, OneByOne
<1>13. Waiting'
  <2>1. ASSUME NEW i \in 1 .. Len(queue)
        PROVE  up'[queue[i]] = up[queue[i]]
    <3>1. queue[i] \in Session /\ queue[i] \in Nat
      BY OrderTypes, Bounds
    <3>2. queue[i] > conn
      BY DEF InOrder, Waiting
    <3>3. queue[i] # conn
      BY <3>1, <3>2, <1>3
    <3> QED
      BY <3>1, <3>3, <1>10
  <2> QED
    BY <2>1, <1>1, <1>2 DEF InOrder, Waiting
<1>14. Reading'
  <2>1. Len(rbuf') = Len(rbuf) + 1 /\ IsRow(rbuf', conn, 2 * b)
    <3>1. Place(Head(up[conn])) = 2 * b + Len(rbuf) + 1
      BY <1>7, <1>9
    <3>2. IsRow(Append(rbuf, Head(up[conn])), conn, 2 * b)
      BY <3>1, <1>4, <1>6, <1>7, <1>9, RowAppend
    <3>3. Len(Append(rbuf, Head(up[conn]))) = Len(rbuf) + 1
      BY <1>4, <1>9, AppendProperties
    <3> QED
      BY <3>2, <3>3, <1>1
  <2>2. 2 * polls[conn] = 2 * b + Len(rbuf') + Len(up'[conn])
    <3>1. Len(up'[conn]) = Len(up[conn]) - 1 /\ Len(rbuf') = Len(rbuf) + 1
      BY <2>1, <1>9, <1>10
    <3> QED
      BY <3>1, <1>7
  <2>3. HasRead(b)'
    BY <2>1, <2>2, <1>1, <1>2, <1>6 DEF HasRead, IsRow
  <2>4. worker[conn].at # "none"
    BY <1>1 DEF InOrder, Reading
  <2> QED
    BY <2>3, <2>4, <1>1 DEF Reading
<1>15. Whole'
  BY <1>1, WholeKept DEF InOrder
<1> QED
  BY <1>11, <1>12, <1>13, <1>14, <1>15 DEF InOrder

LEMMA OneMore ==
  ASSUME NEW p \in Nat, NEW b \in Nat, NEW u \in Nat, 2 * p = 2 * b + 2 + u
  PROVE  2 * p = 2 * (b + 1) + u /\ b + 1 <= p
OBVIOUS

\* What Apply takes is the next command of the connection, and a later one than the last.
LEMMA ApplyTakes ==
  ASSUME LinkTypeOK, InOrder, proto # "UDP", Apply
  PROVE  /\ conn \in Session /\ worker[conn].at # "none"
         /\ \E b \in Nat :
              /\ b + 1 \in 1 .. MaxPolls /\ b + 1 <= polls[conn]
              /\ 2 * polls[conn] = 2 * (b + 1) + Len(up[conn])
              /\ Taken[1] < conn \/ (Taken[1] = conn /\ Taken[2] <= b)
              /\ applied' = FrameOf(<<conn, b + 1>>) /\ Taken' = <<conn, b + 1>>
<1>1. conn # 0 /\ Len(rbuf) = 2 /\ applied' = rbuf /\ UNCHANGED proto
  BY PartsKnown DEF Apply, ServerVars
<1>2. conn \in Session /\ rbuf \in Seq(Part) /\ polls[conn] \in Nat /\ Len(up[conn]) \in Nat
  BY <1>1, OrderTypes
<1>3. worker[conn].at # "none" /\ \E b \in Nat : HasRead(b)
  BY <1>1 DEF InOrder, Reading
<1>4. PICK b \in Nat : HasRead(b)
  BY <1>3
<1>5. /\ 2 * polls[conn] = 2 * b + Len(rbuf) + Len(up[conn])
      /\ IsRow(rbuf, conn, 2 * b)
      /\ Taken[1] < conn \/ (Taken[1] = conn /\ Taken[2] <= b)
  BY <1>4 DEF HasRead
<1>6. b + 1 \in 1 .. MaxPolls /\ rbuf = FrameOf(<<conn, b + 1>>)
  BY <1>1, <1>2, <1>5, RowIsFrame
<1>7. Taken' = <<conn, b + 1>>
  BY <1>1, <1>2, <1>6, TakenFrame
<1>8. 2 * polls[conn] = 2 * (b + 1) + Len(up[conn]) /\ b + 1 <= polls[conn]
  <2>1. 2 * polls[conn] = 2 * b + 2 + Len(up[conn])
    BY <1>1, <1>5
  <2> QED
    BY <2>1, <1>2, <1>4, OneMore
<1> QED
  BY <1>1, <1>2, <1>3, <1>5, <1>6, <1>7, <1>8

LEMMA ApplyOrder ==
  ASSUME LinkTypeOK, InOrder, proto # "UDP", Apply
  PROVE  InOrder'
<1>1. /\ UNCHANGED <<proto, worker, polls, up, queue, conn>>
      /\ conn # 0 /\ rbuf' = <<>>
  BY DEF Apply, ServerVars, clientVars
<1>2. conn \in Session /\ worker[conn].at # "none"
  BY ApplyTakes
<1>3. PICK b \in Nat :
        /\ b + 1 \in 1 .. MaxPolls
        /\ 2 * polls[conn] = 2 * (b + 1) + Len(up[conn])
        /\ applied' = FrameOf(<<conn, b + 1>>) /\ Taken' = <<conn, b + 1>>
  BY ApplyTakes
<1>4. Rows' /\ OneByOne'
  BY <1>1 DEF InOrder, Rows, OneByOne, IsRow
<1>5. Waiting'
  BY <1>1, <1>3 DEF InOrder, Waiting
<1>6. Reading'
  <2>1. Len(rbuf') = 0 /\ Len(up[conn]) \in Nat
    BY <1>1, <1>2, OrderTypes, EmptySeq
  <2>2. 2 * polls[conn] = 2 * (b + 1) + Len(rbuf') + Len(up[conn])
    <3>1. 2 * polls[conn] = 2 * (b + 1) + Len(up[conn])
      BY <1>3
    <3>2. 2 * (b + 1) + 0 = 2 * (b + 1)
      OBVIOUS
    <3> QED
      BY <3>1, <3>2, <2>1
  <2>3. IsRow(rbuf', conn, 2 * (b + 1))
    BY <2>1 DEF IsRow
  <2>4. HasRead(b + 1)'
    <3>1. 2 * polls'[conn'] = 2 * (b + 1) + Len(rbuf') + Len(up'[conn'])
      BY <2>2, <1>1
    <3>2. Taken'[1] = conn' /\ Taken'[2] = b + 1
      BY <1>1, <1>3
    <3>3. IsRow(rbuf', conn', 2 * (b + 1))
      BY <2>3, <1>1
    <3>4. b + 1 <= b + 1
      OBVIOUS
    <3> QED
      BY <3>1, <3>2, <3>3, <3>4 DEF HasRead, IsRow
  <2>5. b + 1 \in Nat
    OBVIOUS
  <2> QED
    BY <2>4, <2>5, <1>1, <1>2 DEF Reading
<1>7. Whole'
  <2>1. \A c : FrameOf(c)' = FrameOf(c)
    BY <1>1, PartsKept DEF FrameOf
  <2> QED
    BY <2>1, <1>1, <1>2, <1>3, PartsKept DEF Whole, FrameOf
<1> QED
  BY <1>4, <1>5, <1>6, <1>7 DEF InOrder

\* What the client does besides opening a session and sending a poll.
ClientQuiet ==
  \/ UserDisconnect
  \/ \E w \in Session :
       Begin(w) \/ Receive(w) \/ LoopEnds(w) \/ PollAgain(w) \/ DeferredDisconnect(w)

LEMMA QuietEffect ==
  ASSUME LinkTypeOK, NotOpened, ClientQuiet
  PROVE  /\ UNCHANGED <<proto, up, gatewayVars, polls>>
         /\ \A s \in Session : worker'[s].at = "none" <=> worker[s].at = "none"
<1>1. worker \in [Session -> Loops]
  BY OrderTypes
<1>2. CASE UserDisconnect
  BY <1>2 DEF UserDisconnect, Close
<1>3. ASSUME NEW w \in Session, Receive(w)
      PROVE  /\ UNCHANGED <<proto, up, gatewayVars, polls>>
             /\ \A s \in Session : worker'[s].at = "none" <=> worker[s].at = "none"
  <2>1. worker'[w].at \in {"loop", "recv"} /\ worker[w].at = "recv"
    BY <1>3, ReceiveEffect
  <2> QED
    BY <2>1, <1>3, ReceiveEffect
<1>4. ASSUME NEW w \in Session, DeferredDisconnect(w)
      PROVE  /\ UNCHANGED <<proto, up, gatewayVars, polls>>
             /\ \A s \in Session : worker'[s].at = "none" <=> worker[s].at = "none"
  BY <1>4, GotoEffect DEF DeferredDisconnect, Close, Steps
<1>5. ASSUME NEW w \in Session, Begin(w) \/ LoopEnds(w) \/ PollAgain(w)
      PROVE  /\ UNCHANGED <<proto, up, gatewayVars, polls>>
             /\ \A s \in Session : worker'[s].at = "none" <=> worker[s].at = "none"
  BY <1>5, BeginEffect, LoopEffect
<1> QED
  BY <1>2, <1>3, <1>4, <1>5 DEF ClientQuiet

LEMMA OrderInit == LinkInit => Ordered
<1> SUFFICES ASSUME LinkInit PROVE InOrder
  BY DEF Ordered
<1>1. Len(<<>>) = 0 /\ 0 - 0 = 0 /\ 2 * 0 = 0
  OBVIOUS
<1>2. /\ Rows /\ OneByOne /\ Whole /\ Reading
  BY <1>1 DEF LinkInit, Rows, IsRow, OneByOne, Whole, Reading
<1>3. Waiting
  BY <1>1 DEF LinkInit, Waiting
<1> QED
  BY <1>2, <1>3 DEF InOrder

LEMMA LinkKeeps ==
  ASSUME LinkTypeOK, [LinkNext]_linkVars
  PROVE  proto' = proto /\ (dropped' = dropped \/ dropped' = TRUE)
<1>1. CASE Connect \/ UserDisconnect \/ \E s \in Session : ClientStep(s)
  BY <1>1 DEF ClientStep, Connect, UserDisconnect, Close, Begin, Poll, Receive, LoopEnds, PollAgain,
              DeferredDisconnect, LoopVars, gatewayVars
<1>2. CASE GatewayStep \/ StopServer \/ \E s \in Session : Lose(s)
  BY <1>2 DEF GatewayStep, Accept, HangUp, Read, Apply, Reply, Transmit, TransmitEnds, Serve,
              StopServer, Lose, ServerVars
<1>3. CASE Stall
  BY <1>3 DEF Stall, ServerVars
<1>4. CASE UNCHANGED linkVars
  BY <1>4 DEF linkVars, gatewayVars
<1> QED
  BY <1>1, <1>2, <1>3, <1>4 DEF LinkNext

LEMMA OrderStep ==
  ASSUME LinkTypeOK, NotOpened, Ordered, [LinkNext]_linkVars
  PROVE  Ordered'
<1> SUFFICES ASSUME proto' # "UDP", ~dropped' PROVE InOrder'
  BY DEF Ordered
<1>1. proto' = proto /\ ~dropped
  <2>1. proto' = proto /\ (dropped' = dropped \/ dropped' = TRUE)
    BY LinkKeeps
  <2>2. dropped' = dropped
    BY <2>1
  <2>3. ~dropped
    BY <2>2
  <2> QED
    BY <2>1, <2>3
<1>2. InOrder /\ proto # "UDP"
  BY <1>1 DEF Ordered
<1>3. CASE Connect
  BY <1>2, <1>3, ConnectOrder
<1>4. ASSUME NEW s \in Session, Poll(s) PROVE InOrder'
  BY <1>2, <1>4, PollOrder
<1>5. CASE ClientQuiet
  BY <1>2, <1>5, QuietEffect, QuietOrder DEF gatewayVars
<1>6. CASE HangUp \/ StopServer
  BY <1>2, <1>6, HandlerEndsOrder
<1>7. CASE Accept
  BY <1>2, <1>7, AcceptOrder
<1>8. CASE Read
  BY <1>2, <1>8, ReadOrder
<1>9. CASE Apply
  BY <1>2, <1>9, ApplyOrder
<1>10. CASE Reply \/ Transmit \/ TransmitEnds \/ UNCHANGED linkVars
  <2>1. UNCHANGED <<proto, up, queue, conn, rbuf, applied, worker, polls>>
    BY <1>10 DEF Reply, Transmit, TransmitEnds, ServerVars, clientVars, gatewayVars, linkVars
  <2> QED
    BY <2>1, <1>2, QuietOrder
<1>11. CASE Stall \/ \E s \in Session : Serve(s) \/ Lose(s)
  BY <1>2, <1>11 DEF Stall, Serve, Lose
<1> QED
  BY <1>3, <1>4, <1>5, <1>6, <1>7, <1>8, <1>9, <1>10, <1>11
  DEF LinkNext, ClientStep, GatewayStep, ClientQuiet

-----------------------------------------------------------------------------
(* The link implements the channel. *)

Excused == dropped \/ proto = "UDP"

LEMMA ChannelBegins == LinkInit => Channel!ChannelInit
BY DEF LinkInit, Channel!ChannelInit, Taken, Nothing

LEMMA SendMaps ==
  ASSUME LinkTypeOK, NotOpened, NEW w \in Session, Poll(w)
  PROVE  worker[w].sock \in Session /\ Channel!Send(worker[w].sock)
<1>1. /\ worker[w].sock \in Session
      /\ polls' = [polls EXCEPT ![worker[w].sock] = @ + 1]
      /\ UNCHANGED <<proto, applied, dropped>>
  BY PollEffect DEF gatewayVars
<1>2. Taken' = Taken
  BY <1>1, TakenKept
<1> QED
  BY <1>1, <1>2 DEF Channel!Send

LEMMA TakeMaps ==
  ASSUME LinkTypeOK, InOrder, proto # "UDP", Apply
  PROVE  Channel!Take(conn)
<1>1. UNCHANGED <<proto, dropped, worker, polls>> /\ conn \in Session /\ conn \in Nat
  BY ApplyTakes, Bounds DEF Apply, ServerVars, clientVars
<1>2. PICK b \in Nat :
        /\ b + 1 <= polls[conn] /\ Taken' = <<conn, b + 1>>
        /\ Taken[1] < conn \/ (Taken[1] = conn /\ Taken[2] <= b)
  BY ApplyTakes
<1>3. Taken[1] \in Nat /\ Taken[2] \in Nat
  BY TakenKnown DEF InOrder
<1>4. b + 1 \in 1 .. polls[conn]
  BY <1>1, <1>2, OrderTypes
<1>5. Channel!Later(<<conn, b + 1>>, Taken)
  BY <1>1, <1>2, <1>3 DEF Channel!Later
<1>6. UNCHANGED <<polls, Excused>>
  BY <1>1 DEF Excused
<1> QED
  BY <1>2, <1>4, <1>5, <1>6 DEF Channel!Take, Excused

LEMMA ChannelStep ==
  ASSUME LinkTypeOK, NotOpened, Ordered, [LinkNext]_linkVars
  PROVE  [Channel!ChannelNext]_Channel!channelVars
<1>1. ASSUME NEW w \in Session, Poll(w) PROVE Channel!ChannelNext
  BY <1>1, SendMaps DEF Channel!ChannelNext
<1>2. ASSUME ~ \E w \in Session : Poll(w)
      PROVE  [Channel!ChannelNext]_Channel!channelVars
  <2>1. proto' = proto /\ (dropped' = dropped \/ dropped' = TRUE)
    BY LinkKeeps
  <2>2. polls' = polls
    <3>1. CASE Connect
      BY <3>1 DEF Connect
    <3>2. CASE ClientQuiet
      BY <3>2, QuietEffect
    <3>3. CASE GatewayStep \/ Stall \/ StopServer \/ \E t \in Session : Lose(t)
      BY <3>3, GatewayLeaves DEF clientVars
    <3>4. CASE UNCHANGED linkVars
      BY <3>4 DEF linkVars, clientVars
    <3> QED
      BY <1>2, <3>1, <3>2, <3>3, <3>4 DEF LinkNext, ClientStep, ClientQuiet
  <2>3. CASE Excused
    <3>1. Excused' = Excused
      BY <2>1, <2>3 DEF Excused
    <3> QED
      BY <2>2, <2>3, <3>1 DEF Channel!ChannelNext, Channel!TakeAnything, Excused
  <2>4. CASE ~Excused /\ Apply
    <3>1. InOrder /\ proto # "UDP" /\ conn \in Session
      BY <2>4, OrderTypes DEF Ordered, Excused, Apply
    <3> QED
      BY <3>1, <2>4, TakeMaps DEF Channel!ChannelNext
  <2>5. CASE ~Excused /\ ~Apply
    <3>1. UNCHANGED applied
      BY <2>5 DEF Excused, LinkNext, ClientStep, GatewayStep, Connect, UserDisconnect, Close, Begin,
                  Poll, Receive, LoopEnds, PollAgain, DeferredDisconnect, Lose, Accept, HangUp, Read, Reply,
                  Transmit, TransmitEnds, Serve, Stall, StopServer, LoopVars, ServerVars,
                  gatewayVars, linkVars
    <3>2. Taken' = Taken
      BY <3>1, <2>1, TakenKept
    <3>3. CASE dropped'
      BY <3>2, <3>3, <2>2 DEF Channel!ChannelNext, Channel!Excuse
    <3>4. CASE ~dropped'
      <4>1. Excused' = Excused
        BY <3>4, <2>1 DEF Excused
      <4> QED
        BY <4>1, <3>2, <2>2 DEF Channel!channelVars, Excused
    <3> QED
      BY <3>3, <3>4
  <2> QED
    BY <2>3, <2>4, <2>5
<1> QED
  BY <1>1, <1>2

\* What the gateway applies is what CommandChannel promises: whole commands the client has
\* sent, each at most once and in the order of the polls and of the sessions, whatever
\* connections are reset, closed and opened meanwhile, until the beginning of a frame has
\* been thrown away (TCP) or as long as the network keeps no order (UDP).
THEOREM LinkIsAChannel == LinkSpec => ImplementsChannel
<1>1. LinkInit => LinkTypeOK /\ NotOpened /\ Ordered
  BY TypeInit, NotOpenedInit, OrderInit
<1>2. LinkTypeOK /\ NotOpened /\ Ordered /\ [LinkNext]_linkVars => (LinkTypeOK /\ NotOpened /\ Ordered)'
  BY TypeStep, OrderStep
<1>3. LinkInit => Channel!ChannelInit
  BY ChannelBegins
<1>4. LinkTypeOK /\ NotOpened /\ Ordered /\ [LinkNext]_linkVars => [Channel!ChannelNext]_Channel!channelVars
  BY ChannelStep
<1> QED
  BY <1>1, <1>2, <1>3, <1>4, PTL DEF LinkSpec, ImplementsChannel, Channel!ChannelSpec

-----------------------------------------------------------------------------
(* Answers. *)

\* What has come to a worker over a socket since the last whole frame.
Come(w, s) == worker[w].got \o down[s]

\* No worker has taken the socket yet.
Free(s) == \A w \in Session : worker[w].sock # s

\* Nobody works for a connection or a socket that there is not, and each protocol has its own
\* way to answer.
Manners ==
  /\ tx => proto \in Stream
  /\ due => proto = "TCP"
  /\ dropped => proto = "TCP"
  /\ conn = 0 => ~due /\ rbuf = <<>>
  /\ proto = "UDP" => conn = 0 /\ queue = <<>>
  /\ \A w \in Session :
       /\ worker[w].at \in {"none", "begin"} => worker[w].sock = 0
       /\ worker[w].sock = 0 => worker[w].got = <<>> /\ answer[w] = NoAnswer
       /\ worker[w].at = "loop" => worker[w].got = <<>>

\* Nothing of the session is with the gateway.
Unburdened(s) == up[s] = <<>> /\ (conn = s => rbuf = <<>> /\ ~due)

\* Over a socket that is free nothing has been asked.
Untouched ==
  \A s \in Session : Free(s) => Unburdened(s) /\ (proto \notin Stream => down[s] = <<>>)

\* All parts are of one session.
Of(q, s) == \A k \in 1 .. Len(q) : q[k][1][1] = s

OwnWires(s) == Of(up[s], s) /\ Of(down[s], s)
OwnRead == Of(rbuf, conn) /\ (due => applied # <<>> /\ applied[1][1][1] = conn)
OwnWorker(w) == Of(worker[w].got, worker[w].sock) /\ Of(answer[w].frame, worker[w].sock)

OwnParts ==
  proto \in {"TCP", "UDP"} =>
    (\A s \in Session : OwnWires(s)) /\ OwnRead /\ (\A w \in Session : OwnWorker(w))

\* The command of the last poll, or what has been left of it, is on its way or waits for the
\* reply.
Underway(s) ==
  /\ Len(up[s]) <= Parts
  /\ proto = "UDP" => up[s] = <<>> \/ up[s] = FrameOf(<<s, polls[s]>>)
  /\ conn = s => Len(up[s]) + Len(rbuf) <= Parts
  /\ conn = s /\ due => /\ up[s] = <<>> /\ rbuf = <<>>
                        /\ applied = FrameOf(<<s, polls[s]>>)

\* Command and answer of a worker's session are in one place at a time.
InStep(w, s) ==
  /\ worker[w].at = "loop" => down[s] = <<>> /\ Unburdened(s)
  /\ worker[w].at = "recv" =>
       /\ worker[w].poll = polls[s]
       /\ \/ Come(w, s) = <<>> /\ Underway(s)
          \/ Come(w, s) = FrameOf(<<s, polls[s]>>) /\ Unburdened(s)

\* A worker may count on it: over TCP until the beginning of a frame is thrown away, over
\* UDP until a poll of its has got no answer in time.
Owed(w) == (proto = "TCP" /\ ~dropped) \/ (proto = "UDP" /\ ~worker[w].late)

LockStep ==
  \A w \in Session : \A s \in Session \ closed :
    s = worker[w].sock /\ Alone(w) /\ Owed(w) => InStep(w, s)

\* Frames follow each other, the last of them not always whole.
InFrames(q) ==
  /\ q # <<>> => q[1][2] = 1
  /\ \A j \in 1 .. Len(q) - 1 :
       /\ q[j][2] = 1 => q[j + 1] = <<q[j][1], 2>>
       /\ q[j][2] = 2 => q[j + 1][2] = 1

Complete(q) == q # <<>> => q[Len(q)][2] = 2

\* What comes over a socket, behind the parts g its worker holds.
Flow(s, g) ==
  /\ InFrames(g \o down[s])
  /\ conn = s /\ tx => Complete(g \o down[s])
  /\ \A i \in 1 .. Len(queue) : queue[i] = s => g \o down[s] = <<>>

Streams ==
  proto \in Stream => \A s \in Session \ closed :
    /\ worker[s].at = "none" => down[s] = <<>>
    /\ Free(s) => Flow(s, <<>>)
    /\ \A w \in Session : worker[w].sock = s /\ Alone(w) => Flow(s, worker[w].got)

-----------------------------------------------------------------------------
(* Sequences of parts. *)

LEMMA TakeHead ==
  ASSUME NEW g \in Seq(Part), NEW d \in Seq(Part), d # <<>>
  PROVE  Append(g, Head(d)) \o Tail(d) = g \o d
<1>1. Head(d) \in Part /\ Tail(d) \in Seq(Part) /\ d = <<Head(d)>> \o Tail(d)
  <2>1. /\ Head(d) \in Part /\ Tail(d) \in Seq(Part) /\ Len(Tail(d)) = Len(d) - 1
        /\ \A i \in 1 .. Len(Tail(d)) : Tail(d)[i] = d[i + 1]
    BY HeadTailProperties
  <2>2. Len(d) \in Nat \ {0} /\ Head(d) = d[1]
    BY EmptySeq
  <2>3. <<Head(d)>> \in Seq(Part) /\ Len(<<Head(d)>>) = 1 /\ <<Head(d)>>[1] = Head(d)
    BY <2>1
  <2>4. /\ <<Head(d)>> \o Tail(d) \in Seq(Part)
        /\ Len(<<Head(d)>> \o Tail(d)) = 1 + Len(Tail(d))
        /\ \A i \in 1 .. 1 + Len(Tail(d)) :
             (<<Head(d)>> \o Tail(d))[i] = IF i <= 1 THEN <<Head(d)>>[i] ELSE Tail(d)[i - 1]
    BY <2>1, <2>3, ConcatProperties
  <2>5. ASSUME NEW i \in 1 .. Len(d) PROVE d[i] = (<<Head(d)>> \o Tail(d))[i]
    <3>1. CASE i = 1
      BY <3>1, <2>1, <2>2, <2>3, <2>4
    <3>2. CASE i # 1
      <4>1. i - 1 \in 1 .. Len(Tail(d)) /\ i \in 1 .. 1 + Len(Tail(d)) /\ ~(i <= 1) /\ i - 1 + 1 = i
        BY <3>2, <2>1, <2>2
      <4> QED
        BY <4>1, <2>1, <2>4
    <3> QED
      BY <3>1, <3>2
  <2>6. Len(d) = Len(<<Head(d)>> \o Tail(d))
    BY <2>1, <2>2, <2>4
  <2> QED
    BY <2>1, <2>4, <2>5, <2>6, SeqEqual
<1>2. <<Head(d)>> \in Seq(Part)
  BY <1>1
<1>3. Append(g, Head(d)) = g \o <<Head(d)>>
  BY <1>1, AppendIsConcat
<1>4. (g \o <<Head(d)>>) \o Tail(d) = g \o (<<Head(d)>> \o Tail(d))
  BY <1>1, <1>2, ConcatAssociative
<1> QED
  BY <1>1, <1>3, <1>4

LEMMA LastTaken ==
  ASSUME NEW g \in Seq(Part), NEW d \in Seq(Part), d # <<>>, Len(g \o d) = Len(g) + 1
  PROVE  Append(g, Head(d)) = g \o d /\ Tail(d) = <<>>
<1>1. Len(g \o d) = Len(g) + Len(d) /\ Len(g) \in Nat /\ Len(d) \in Nat
  BY ConcatProperties, LenProperties
<1>2. Len(d) = 1
  <2>1. \A m, n \in Nat : m + n = m + 1 => n = 1
    OBVIOUS
  <2>2. Len(g) + Len(d) = Len(g) + 1
    BY <1>1
  <2> QED
    BY <2>1, <2>2, <1>1
<1>3. Tail(d) \in Seq(Part) /\ Len(Tail(d)) = 0 /\ Append(g, Head(d)) \in Seq(Part)
  BY <1>2, HeadTailProperties, AppendProperties
<1>4. Tail(d) = <<>>
  BY <1>3, EmptySeq
<1> QED
  BY <1>3, <1>4, TakeHead, ConcatEmptySeq

LEMMA OneRemoved ==
  ASSUME NEW q \in Seq(Part), Len(q) = 1, NEW i \in 1 .. Len(q)
  PROVE  RemoveAt(q, i) = <<>>
<1>1. RemoveAt(q, i) \in Seq(Part) /\ Len(RemoveAt(q, i)) = 0
  BY RemovedAt
<1> QED
  BY <1>1, EmptySeq

LEMMA ComeType ==
  ASSUME LinkTypeOK, NEW w \in Session, NEW s \in Session
  PROVE  /\ worker[w].got \in Seq(Part) /\ Len(worker[w].got) < Parts
         /\ Len(worker[w].got) \in Nat /\ Len(down[s]) \in Nat
         /\ down[s] \in Seq(Part) /\ Come(w, s) \in Seq(Part)
         /\ Len(Come(w, s)) = Len(worker[w].got) + Len(down[s])
         /\ Come(w, s) = <<>> <=> worker[w].got = <<>> /\ down[s] = <<>>
         /\ worker[w].got = <<>> => Come(w, s) = down[s]
<1>1. worker[w].got \in Seq(Part) /\ Len(worker[w].got) < Parts /\ down[s] \in Seq(Part)
  BY TypeParts DEF ClientTypeOK, WiresTypeOK, Loops
<1>2. Len(worker[w].got) \in Nat /\ Len(down[s]) \in Nat
  BY <1>1, LenProperties
<1>3. Come(w, s) \in Seq(Part) /\ Len(Come(w, s)) = Len(worker[w].got) + Len(down[s])
  BY <1>1, ConcatProperties DEF Come
<1>4. Come(w, s) = <<>> <=> worker[w].got = <<>> /\ down[s] = <<>>
  BY <1>1, ConcatEqualIffEmpty DEF Come
<1>5. worker[w].got = <<>> => Come(w, s) = down[s]
  BY <1>1, ConcatEmptySeq DEF Come
<1> QED
  BY <1>1, <1>2, <1>3, <1>4, <1>5

LEMMA UdpGot == ASSUME LinkTypeOK, proto = "UDP", NEW w \in Session PROVE worker[w].got = <<>>
<1>1. Len(worker[w].got) = 0 /\ worker[w].got \in Seq(Part)
  <2>1. Parts = 1
    BY PartsKnown
  <2>2. worker[w].got \in Seq(Part) /\ Len(worker[w].got) < 1 /\ Len(worker[w].got) \in Nat
    BY <2>1, ComeType
  <2> QED
    BY <2>2
<1> QED
  BY <1>1, EmptySeq

LEMMA FrameLength == ASSUME NEW c PROVE Len(FrameOf(c)) = Parts
BY PartsKnown DEF FrameOf

-----------------------------------------------------------------------------
(* Manners. *)

LEMMA MannersInit == LinkInit => Manners
BY DEF LinkInit, Manners

\* Whatever is done, the worker keeps to its manners.
LEMMA MannersWorker ==
  ASSUME LinkTypeOK, NotOpened, Manners, [LinkNext]_linkVars, NEW w \in Session
  PROVE  /\ worker'[w].at \in {"none", "begin"} => worker'[w].sock = 0
         /\ worker'[w].sock = 0 => worker'[w].got = <<>> /\ answer'[w] = NoAnswer
         /\ worker'[w].at = "loop" => worker'[w].got = <<>>
<1> DEFINE Goal == /\ worker'[w].at \in {"none", "begin"} => worker'[w].sock = 0
                   /\ worker'[w].sock = 0 => worker'[w].got = <<>> /\ answer'[w] = NoAnswer
                   /\ worker'[w].at = "loop" => worker'[w].got = <<>>
<1> SUFFICES Goal
  OBVIOUS
<1>1. /\ worker[w].at \in {"none", "begin"} => worker[w].sock = 0
      /\ worker[w].sock = 0 => worker[w].got = <<>> /\ answer[w] = NoAnswer
      /\ worker[w].at = "loop" => worker[w].got = <<>>
      /\ worker[w].at \in {"loop", "recv"} => worker[w].sock \in Session
  BY DEF Manners, NotOpened
<1>2. 0 \notin Session
  BY Bounds
<1>3. CASE Connect
  <2>1. PICK v \in Session : worker[v].at = "none" /\ Goto(v, "begin")
    BY <1>3 DEF Connect
  <2>2. answer' = answer
    BY <1>3 DEF Connect
  <2> QED
    BY <2>1, <2>2, <1>1, GotoEffect DEF Steps
<1>4. CASE UserDisconnect
  BY <1>1, <1>4 DEF UserDisconnect, Close
<1>5. ASSUME NEW v \in Session, DeferredDisconnect(v) PROVE Goal
  <2>1. Goto(v, "gone") /\ answer' = answer
    BY <1>5 DEF DeferredDisconnect, Close
  <2> QED
    BY <2>1, <1>1, GotoEffect DEF Steps
<1>6. ASSUME NEW v \in Session, Begin(v) PROVE Goal
  BY <1>1, <1>6, BeginEffect
<1>7. ASSUME NEW v \in Session, Poll(v) PROVE Goal
  <2>1. CASE w = v
    <3>1. worker'[w].at = "recv" /\ worker'[w].sock = worker[w].sock /\ worker[w].sock \in Session
      BY <1>7, <2>1, PollEffect
    <3> QED
      BY <3>1, <1>2
  <2>2. CASE w # v
    BY <1>1, <1>7, <2>2, PollEffect
  <2> QED
    BY <2>1, <2>2
<1>8. ASSUME NEW v \in Session, Receive(v) PROVE Goal
  <2>1. CASE w = v
    <3>1. /\ worker'[w].sock = worker[w].sock /\ worker[w].sock \in Session
          /\ worker'[w].at = "recv" \/ (worker'[w].at = "loop" /\ worker'[w].got = <<>>)
      BY <1>8, <2>1, ReceiveEffect
    <3> QED
      BY <3>1, <1>2
  <2>2. CASE w # v
    BY <1>1, <1>8, <2>2, ReceiveEffect
  <2> QED
    BY <2>1, <2>2
<1>9. ASSUME NEW v \in Session, LoopEnds(v) \/ PollAgain(v) PROVE Goal
  <2>1. CASE w = v
    <3>1. /\ worker'[w].sock = worker[w].sock /\ worker[w].sock \in Session
          /\ worker'[w].at \in {"loop", "ended"} /\ worker'[w].got = worker[w].got
      BY <1>1, <1>9, <2>1, LoopEffect
    <3>2. worker'[w].at = "loop" => worker'[w].got = <<>>
      <4>1. CASE LoopEnds(v)
        BY <1>9, <2>1, <4>1, GotoEffect DEF LoopEnds, Steps
      <4>2. CASE PollAgain(v)
        BY <3>1, <4>2, UdpGot DEF PollAgain
      <4> QED
        BY <1>9, <4>1, <4>2
    <3> QED
      BY <3>1, <3>2, <1>2
  <2>2. CASE w # v
    BY <1>1, <1>9, <2>2, LoopEffect
  <2> QED
    BY <2>1, <2>2
<1>10. CASE GatewayStep \/ Stall \/ StopServer \/ \E v \in Session : Lose(v)
  BY <1>1, <1>10, GatewayLeaves DEF clientVars
<1>11. CASE UNCHANGED linkVars
  BY <1>1, <1>11 DEF linkVars, clientVars
<1> HIDE DEF Goal
<1> QED
  BY <1>3, <1>4, <1>5, <1>6, <1>7, <1>8, <1>9, <1>10, <1>11 DEF LinkNext, ClientStep

\* What the handler and the network do.
LEMMA MannersGateway ==
  ASSUME LinkTypeOK, Manners, GatewayStep \/ Stall \/ StopServer \/ \E s \in Session : Lose(s)
  PROVE  /\ tx' => proto' \in Stream
         /\ due' => proto' = "TCP"
         /\ dropped' => proto' = "TCP"
         /\ conn' = 0 => ~due' /\ rbuf' = <<>>
         /\ proto' = "UDP" => conn' = 0 /\ queue' = <<>>
<1> DEFINE Goal == /\ tx' => proto' \in Stream
                   /\ due' => proto' = "TCP"
                   /\ dropped' => proto' = "TCP"
                   /\ conn' = 0 => ~due' /\ rbuf' = <<>>
                   /\ proto' = "UDP" => conn' = 0 /\ queue' = <<>>
<1> SUFFICES Goal
  OBVIOUS
<1>1. proto' = proto
  BY GatewayLeaves
<1>2. CASE Accept
  <2>1. conn' = Head(queue) /\ queue # <<>> /\ tx' = (proto \in Stream) /\ UNCHANGED <<due, dropped>>
    BY <1>2 DEF Accept
  <2>2. conn' # 0 /\ proto # "UDP"
    <3>1. Head(queue) \in Session
      BY <2>1, OrderTypes, HeadTailProperties
    <3> QED
      BY <3>1, <2>1, Bounds DEF Manners
  <2> QED
    BY <2>1, <2>2, <1>1 DEF Manners
<1>3. CASE HangUp \/ StopServer
  <2>1. /\ conn' = 0 /\ tx' = FALSE /\ due' = FALSE /\ rbuf' = <<>> /\ UNCHANGED dropped
        /\ queue' = queue \/ queue' = <<>>
    BY <1>3 DEF HangUp, StopServer, HandlerEnds
  <2> QED
    BY <2>1, <1>1 DEF Manners
<1>4. CASE Read \/ Stall \/ Apply
  <2>1. conn # 0 /\ UNCHANGED <<conn, queue, tx>>
    BY <1>4 DEF Read, Stall, Apply
  <2>2. (due' => proto = "TCP") /\ (dropped' => proto = "TCP")
    <3>1. CASE Read
      BY <3>1 DEF Manners, Read
    <3>2. CASE Stall
      BY <3>2 DEF Manners, Stall
    <3>3. CASE Apply
      <4>1. due' = (proto = "TCP") /\ dropped' = dropped
        BY <3>3 DEF Apply
      <4>2. dropped => proto = "TCP"
        BY DEF Manners
      <4> QED
        BY <4>1, <4>2
    <3> QED
      BY <1>4, <3>1, <3>2, <3>3
  <2> QED
    BY <2>1, <2>2, <1>1 DEF Manners
<1>5. CASE Reply \/ Transmit \/ TransmitEnds
  BY <1>5, <1>1 DEF Manners, Reply, Transmit, TransmitEnds
<1>6. CASE \E s \in Session : Serve(s) \/ Lose(s)
  BY <1>6, <1>1 DEF Manners, Serve, Lose
<1> HIDE DEF Goal
<1> QED
  BY <1>2, <1>3, <1>4, <1>5, <1>6 DEF GatewayStep

\* The client leaves the handler alone; only with a new connection it waits for one.
LEMMA ClientLeaves ==
  ASSUME Connect \/ UserDisconnect \/ \E w \in Session : ClientStep(w)
  PROVE  /\ UNCHANGED <<proto, conn, rbuf, due, tx, applied, dropped>>
         /\ ~Connect \/ proto = "UDP" => queue' = queue
BY DEF ClientStep, Connect, UserDisconnect, Close, Begin, Poll, Receive, LoopEnds, PollAgain,
       DeferredDisconnect, LoopVars, gatewayVars

LEMMA MannersStep ==
  ASSUME LinkTypeOK, NotOpened, Manners, [LinkNext]_linkVars
  PROVE  Manners'
<1>1. /\ tx' => proto' \in Stream
      /\ due' => proto' = "TCP"
      /\ dropped' => proto' = "TCP"
      /\ conn' = 0 => ~due' /\ rbuf' = <<>>
      /\ proto' = "UDP" => conn' = 0 /\ queue' = <<>>
  <2>1. CASE Connect \/ UserDisconnect \/ \E w \in Session : ClientStep(w)
    BY <2>1, ClientLeaves DEF Manners
  <2>2. CASE UNCHANGED linkVars
    BY <2>2 DEF linkVars, gatewayVars, Manners
  <2> QED
    BY <2>1, <2>2, MannersGateway DEF LinkNext
<1>2. \A w \in Session :
        /\ worker'[w].at \in {"none", "begin"} => worker'[w].sock = 0
        /\ worker'[w].sock = 0 => worker'[w].got = <<>> /\ answer'[w] = NoAnswer
        /\ worker'[w].at = "loop" => worker'[w].got = <<>>
  BY MannersWorker
<1>3. Stream' = Stream /\ NoAnswer' = NoAnswer
  BY DEF Stream, NoAnswer
<1> QED
  BY <1>1, <1>2, <1>3 DEF Manners

-----------------------------------------------------------------------------
(* Who has which socket. *)

LEMMA SockStays ==
  ASSUME LinkTypeOK, NotOpened, Manners, [LinkNext]_linkVars, NEW w \in Session
  PROVE  worker'[w].sock = worker[w].sock \/ (worker[w].sock = 0 /\ Begin(w))
<1>1. CASE Connect
  <2>1. PICK v \in Session : Goto(v, "begin")
    BY <1>1 DEF Connect
  <2> QED
    BY <2>1, GotoEffect DEF Steps
<1>2. CASE UserDisconnect
  BY <1>2 DEF UserDisconnect
<1>3. ASSUME NEW v \in Session, DeferredDisconnect(v) PROVE worker'[w].sock = worker[w].sock
  BY <1>3, GotoEffect DEF DeferredDisconnect, Steps
<1>4. ASSUME NEW v \in Session, Begin(v)
      PROVE  worker'[w].sock = worker[w].sock \/ (worker[w].sock = 0 /\ Begin(w))
  <2>1. CASE w = v
    BY <1>4, <2>1, BeginEffect DEF Manners
  <2>2. CASE w # v
    BY <1>4, <2>2, BeginEffect
  <2> QED
    BY <2>1, <2>2
<1>5. ASSUME NEW v \in Session, Poll(v) PROVE worker'[w].sock = worker[w].sock
  BY <1>5, PollEffect
<1>6. ASSUME NEW v \in Session, Receive(v) PROVE worker'[w].sock = worker[w].sock
  BY <1>6, ReceiveEffect
<1>7. ASSUME NEW v \in Session, LoopEnds(v) \/ PollAgain(v) PROVE worker'[w].sock = worker[w].sock
  BY <1>7, LoopEffect
<1>8. CASE GatewayStep \/ Stall \/ StopServer \/ \E v \in Session : Lose(v)
  BY <1>8, GatewayLeaves DEF clientVars
<1>9. CASE UNCHANGED linkVars
  BY <1>9 DEF linkVars, clientVars
<1> QED
  BY <1>1, <1>2, <1>3, <1>4, <1>5, <1>6, <1>7, <1>8, <1>9 DEF LinkNext, ClientStep

\* The socket is nobody's, or only worker w's.
Others(w, s) == \A v \in Session \ {w} : worker[v].sock # s

LEMMA OthersBefore ==
  ASSUME LinkTypeOK, NotOpened, Manners, [LinkNext]_linkVars,
         NEW w \in Session, NEW s \in Session, Others(w, s)'
  PROVE  Others(w, s)
<1>1. s # 0
  BY Bounds
<1>2. ASSUME NEW v \in Session \ {w} PROVE worker[v].sock # s
  <2>1. worker'[v].sock # s
    BY DEF Others
  <2>2. worker'[v].sock = worker[v].sock \/ worker[v].sock = 0
    BY SockStays
  <2> QED
    BY <2>1, <2>2, <1>1
<1> QED
  BY <1>2 DEF Others

LEMMA FreeBefore ==
  ASSUME LinkTypeOK, NotOpened, Manners, [LinkNext]_linkVars, NEW s \in Session, Free(s)'
  PROVE  Free(s)
<1>1. s # 0
  BY Bounds
<1>2. ASSUME NEW v \in Session PROVE worker[v].sock # s
  <2>1. worker'[v].sock # s
    BY DEF Free
  <2>2. worker'[v].sock = worker[v].sock \/ worker[v].sock = 0
    BY SockStays
  <2> QED
    BY <2>1, <2>2, <1>1
<1> QED
  BY <1>2 DEF Free

\* Whose socket it is now, was so before; or he has just taken it, and nobody had it.
LEMMA MineBefore ==
  ASSUME LinkTypeOK, NotOpened, Manners, [LinkNext]_linkVars,
         NEW w \in Session, NEW s \in Session, s = worker'[w].sock, Alone(w)'
  PROVE  /\ Others(w, s)
         /\ worker[w].sock = s \/ (Begin(w) /\ Free(s))
<1>1. Others(w, s)'
  BY DEF Alone, Others
<1>2. Others(w, s)
  BY <1>1, OthersBefore
<1>3. worker[w].sock = s \/ (Begin(w) /\ worker[w].sock = 0)
  BY SockStays
<1> QED
  BY <1>2, <1>3, Bounds DEF Others, Free

\* A worker that has a socket for itself has had it for itself all the time.
LEMMA AloneBefore ==
  ASSUME LinkTypeOK, NotOpened, Manners, [LinkNext]_linkVars,
         NEW w \in Session, Alone(w)', worker[w].sock # 0
  PROVE  Alone(w)
<1>1. worker'[w].sock = worker[w].sock
  BY SockStays
<1>2. ASSUME NEW v \in Session \ {w} PROVE worker[v].sock # worker[w].sock
  <2>1. worker'[v].sock = worker[v].sock \/ worker[v].sock = 0
    BY SockStays
  <2>2. worker'[v].sock # worker'[w].sock
    BY DEF Alone
  <2> QED
    BY <2>1, <2>2, <1>1
<1> QED
  BY <1>2 DEF Alone

-----------------------------------------------------------------------------
(* Sockets that nobody has taken. *)

LEMMA UntouchedInit == LinkInit => Untouched
BY DEF LinkInit, Untouched, Unburdened

LEMMA UntouchedStep ==
  ASSUME LinkTypeOK, NotOpened, Manners, Untouched, [LinkNext]_linkVars
  PROVE  Untouched'
<1> SUFFICES ASSUME NEW s \in Session, Free(s)'
             PROVE  Unburdened(s)' /\ (proto' \notin Stream => down'[s] = <<>>)
  BY DEF Untouched, Stream
<1>1. /\ Free(s) /\ s # 0 /\ proto' = proto
      /\ up[s] = <<>> /\ (conn = s => rbuf = <<>> /\ ~due) /\ (proto \notin Stream => down[s] = <<>>)
  BY FreeBefore, LinkKeeps, Bounds DEF Untouched, Unburdened
<1> DEFINE Goal == Unburdened(s)' /\ (proto' \notin Stream => down'[s] = <<>>)
<1> SUFFICES Goal
  OBVIOUS
<1>2. ASSUME up'[s] = up[s], down'[s] = down[s], conn' = s => conn = s /\ UNCHANGED <<rbuf, due>>
      PROVE  Goal
  BY <1>1, <1>2 DEF Unburdened
<1>3. ASSUME UNCHANGED <<up, down, conn, rbuf, due>> PROVE Goal
  BY <1>2, <1>3
<1>4. CASE Connect \/ UNCHANGED linkVars
  BY <1>3, <1>4 DEF Connect, linkVars, gatewayVars
<1>5. CASE UserDisconnect \/ \E w \in Session : DeferredDisconnect(w)
  <2>1. Close /\ UNCHANGED <<up, conn, rbuf, due>>
    BY <1>5 DEF UserDisconnect, DeferredDisconnect, Close, gatewayVars
  <2>2. down'[s] = down[s] \/ down'[s] = <<>>
    BY <2>1, CloseEffect
  <2> QED
    BY <2>1, <2>2, <1>1 DEF Unburdened
<1>6. ASSUME NEW w \in Session, Begin(w) \/ LoopEnds(w) \/ PollAgain(w) PROVE Goal
  BY <1>3, <1>6, BeginEffect, LoopEffect DEF gatewayVars
<1>7. ASSUME NEW w \in Session, Poll(w) PROVE Goal
  <2>1. worker[w].sock # s /\ UNCHANGED <<down, conn, rbuf, due>>
    BY <1>1, <1>7, PollOthers DEF Free, gatewayVars
  <2>2. up'[s] = up[s]
    BY <2>1, <1>7, PollOthers
  <2> QED
    BY <2>1, <2>2, <1>2
<1>8. ASSUME NEW w \in Session, Receive(w) PROVE Goal
  <2>1. worker[w].sock # s /\ UNCHANGED <<up, conn, rbuf, due>>
    BY <1>1, <1>8, ReceiveEffect DEF Free, gatewayVars
  <2> QED
    BY <2>1, <1>2, <1>8, ReceiveEffect
<1>9. CASE Accept
  <2>1. UNCHANGED <<up, down, rbuf, due>> /\ rbuf = <<>> /\ ~due
    BY <1>9 DEF Accept, ServerVars, clientVars, Manners
  <2> QED
    BY <2>1, <1>1 DEF Unburdened
<1>10. CASE HangUp \/ StopServer
  <2>1. conn' = 0 /\ down' = down /\ (up'[s] = <<>> \/ up'[s] = up[s])
    BY <1>10, OrderTypes DEF HangUp, StopServer, HandlerEnds, ServerVars, clientVars
  <2> QED
    BY <2>1, <1>1 DEF Unburdened
<1>11. CASE Read
  <2>1. conn # s /\ UNCHANGED <<down, conn>> /\ up' = [up EXCEPT ![conn] = Tail(@)]
    BY <1>1, <1>11 DEF Read, ServerVars, clientVars
  <2> QED
    BY <2>1, <1>2, OrderTypes
<1>12. CASE Stall
  <2>1. conn # s /\ UNCHANGED <<up, down, conn>>
    BY <1>1, <1>12 DEF Stall, ServerVars, clientVars
  <2> QED
    BY <2>1, <1>2
<1>13. CASE Apply
  <2>1. conn # s /\ UNCHANGED <<up, down, conn>>
    <3>1. Len(rbuf) # 0
      BY <1>13, PartsKnown DEF Apply
    <3>2. rbuf # <<>>
      BY <3>1
    <3> QED
      BY <3>2, <1>1, <1>13 DEF Apply, ServerVars, clientVars
  <2> QED
    BY <2>1, <1>2
<1>14. CASE Reply
  <2>1. conn # s /\ conn \in Session /\ UNCHANGED <<up, conn>> /\ Deliver(conn, down[conn] \o Inputs)
    BY <1>1, <1>14, OrderTypes DEF Reply, ServerVars, clientVars
  <2>2. down[conn] \o Inputs \in Seq(Part)
    BY <2>1, InputsType, TypeParts, ConcatProperties DEF WiresTypeOK
  <2>3. down'[s] = down[s]
    <3> DEFINE sent == down[conn] \o Inputs
    <3>1. sent \in Seq(Part) /\ Deliver(conn, sent)
      BY <2>1, <2>2
    <3> HIDE DEF sent
    <3> QED
      BY <2>1, <3>1, DeliverEffect
  <2> QED
    BY <2>1, <2>3, <1>2
<1>15. CASE Transmit \/ TransmitEnds
  <2>1. UNCHANGED <<proto, up, conn, rbuf, due>> /\ proto \in Stream
    BY <1>15 DEF Transmit, TransmitEnds, ServerVars, Manners
  <2> QED
    BY <2>1, <1>1 DEF Unburdened
<1>16. ASSUME NEW t \in Session, Serve(t) PROVE Goal
  <2>1. PICK i \in DOMAIN up[t], later \in BOOLEAN :
          /\ up' = [up EXCEPT ![t] = RemoveAt(@, i)]
          /\ Deliver(t, IF later THEN Append(down[t], up[t][i]) ELSE <<up[t][i]>> \o down[t])
    BY <1>16 DEF Serve
  <2>2. i \in 1 .. Len(up[t]) /\ up[t] \in Seq(Part) /\ down[t] \in Seq(Part)
    BY TypeParts, LenProperties DEF WiresTypeOK
  <2>3. t # s
    BY <2>2, <1>1, EmptySeq
  <2>4. UNCHANGED <<conn, rbuf, due>> /\ up'[s] = up[s]
    BY <2>1, <2>3, <1>16, OrderTypes DEF Serve
  <2>5. down'[s] = down[s]
    BY <2>1, <2>3, TypeParts DEF Deliver, WiresTypeOK
  <2> QED
    BY <2>4, <2>5, <1>2
<1>17. ASSUME NEW t \in Session, Lose(t) PROVE Goal
  <2>1. UNCHANGED <<conn, rbuf, due>> /\ proto = "UDP"
    BY <1>17 DEF Lose
  <2>2. up \in [Session -> Seq(Part)] /\ down \in [Session -> Seq(Part)]
        /\ DOMAIN up[t] = 1 .. Len(up[t]) /\ DOMAIN down[t] = 1 .. Len(down[t])
    BY TypeParts, LenProperties DEF WiresTypeOK
  <2>3. CASE \E i \in DOMAIN up[t] : up' = [up EXCEPT ![t] = RemoveAt(@, i)] /\ UNCHANGED down
    <3>1. t # s
      BY <2>2, <2>3, <1>1, EmptySeq
    <3> QED
      BY <3>1, <2>1, <2>2, <2>3, <1>2
  <2>4. CASE \E i \in DOMAIN down[t] : down' = [down EXCEPT ![t] = RemoveAt(@, i)] /\ UNCHANGED up
    <3>1. t # s
      BY <2>1, <2>2, <2>4, <1>1, EmptySeq DEF Stream
    <3> QED
      BY <3>1, <2>1, <2>2, <2>4, <1>2
  <2> QED
    BY <1>17, <2>3, <2>4 DEF Lose
<1> HIDE DEF Goal
<1> QED
  BY <1>4, <1>5, <1>6, <1>7, <1>8, <1>9, <1>10, <1>11, <1>12, <1>13, <1>14, <1>15, <1>16, <1>17
  DEF LinkNext, ClientStep, GatewayStep

-----------------------------------------------------------------------------
(* Each session's own parts. *)

LEMMA OfEmpty == ASSUME NEW s PROVE Of(<<>>, s)
BY DEF Of

LEMMA OfFrame == ASSUME NEW c PROVE Of(FrameOf(c), c[1])
BY PartsKnown DEF Of, FrameOf

LEMMA OfConcat ==
  ASSUME NEW q \in Seq(Part), NEW r \in Seq(Part), NEW s, Of(q, s), Of(r, s)
  PROVE  Of(q \o r, s)
<1>1. /\ Len(q \o r) = Len(q) + Len(r) /\ Len(q) \in Nat /\ Len(r) \in Nat
      /\ \A j \in 1 .. Len(q) + Len(r) : (q \o r)[j] = IF j <= Len(q) THEN q[j] ELSE r[j - Len(q)]
  BY ConcatProperties, LenProperties
<1> SUFFICES ASSUME NEW j \in 1 .. Len(q) + Len(r) PROVE (q \o r)[j][1][1] = s
  BY <1>1 DEF Of
<1>2. CASE j <= Len(q)
  BY <1>1, <1>2 DEF Of
<1>3. CASE ~(j <= Len(q))
  <2>1. j - Len(q) \in 1 .. Len(r) /\ (q \o r)[j] = r[j - Len(q)]
    BY <1>1, <1>3
  <2> QED
    BY <2>1 DEF Of
<1> QED
  BY <1>2, <1>3

LEMMA OfHead ==
  ASSUME NEW q \in Seq(Part), q # <<>>, NEW s, Of(q, s)
  PROVE  Head(q) \in Part /\ Head(q)[1][1] = s /\ Tail(q) \in Seq(Part) /\ Of(Tail(q), s)
<1>1. /\ Head(q) = q[1] /\ Head(q) \in Part /\ Tail(q) \in Seq(Part)
      /\ Len(Tail(q)) = Len(q) - 1 /\ Len(q) \in Nat \ {0}
      /\ \A j \in 1 .. Len(q) - 1 : Tail(q)[j] = q[j + 1]
  BY HeadTailProperties, EmptySeq, LenProperties
<1>2. 1 \in 1 .. Len(q) /\ \A j \in 1 .. Len(q) - 1 : j + 1 \in 1 .. Len(q)
  BY <1>1
<1> QED
  BY <1>1, <1>2 DEF Of

LEMMA OfAppend ==
  ASSUME NEW q \in Seq(Part), NEW x \in Part, NEW s, Of(q, s), x[1][1] = s
  PROVE  Append(q, x) \in Seq(Part) /\ Of(Append(q, x), s)
<1>1. /\ Append(q, x) \in Seq(Part) /\ Len(Append(q, x)) = Len(q) + 1 /\ Len(q) \in Nat
      /\ \A j \in 1 .. Len(q) + 1 : Append(q, x)[j] = IF j <= Len(q) THEN q[j] ELSE x
  BY AppendProperties, LenProperties
<1> SUFFICES ASSUME NEW j \in 1 .. Len(q) + 1 PROVE Append(q, x)[j][1][1] = s
  BY <1>1 DEF Of
<1>2. CASE j <= Len(q)
  BY <1>1, <1>2 DEF Of
<1>3. CASE ~(j <= Len(q))
  BY <1>1, <1>3
<1> QED
  BY <1>2, <1>3

LEMMA OfRemoved ==
  ASSUME NEW q \in Seq(Part), NEW i \in 1 .. Len(q), NEW s, Of(q, s)
  PROVE  Of(RemoveAt(q, i), s)
BY RemovedAt DEF Of

\* What a worker holds, it has taken from its socket.
LEMMA OwnWorkerStep ==
  ASSUME LinkTypeOK, NotOpened, Manners, OwnParts, proto \in {"TCP", "UDP"},
         [LinkNext]_linkVars, NEW w \in Session
  PROVE  OwnWorker(w)'
<1>1. OwnWorker(w) /\ \A s \in Session : OwnWires(s)
  BY DEF OwnParts
<1>2. ASSUME worker'[w].got = worker[w].got, worker'[w].sock = worker[w].sock, answer'[w] = answer[w]
      PROVE  OwnWorker(w)'
  BY <1>1, <1>2 DEF OwnWorker, Of
<1>3. CASE Connect
  <2>1. PICK v \in Session : Goto(v, "begin")
    BY <1>3 DEF Connect
  <2>2. answer' = answer
    BY <1>3 DEF Connect
  <2> QED
    BY <2>1, <2>2, <1>2, GotoEffect DEF Steps
<1>4. CASE UserDisconnect
  BY <1>2, <1>4 DEF UserDisconnect, Close
<1>5. ASSUME NEW v \in Session, DeferredDisconnect(v) PROVE OwnWorker(w)'
  <2>1. Goto(v, "gone") /\ answer' = answer
    BY <1>5 DEF DeferredDisconnect, Close
  <2> QED
    BY <2>1, <1>2, GotoEffect DEF Steps
<1>6. ASSUME NEW v \in Session, Begin(v) PROVE OwnWorker(w)'
  <2>1. CASE w = v
    <3>1. worker'[w].got = worker[w].got /\ answer'[w] = answer[w] /\ worker[w].at = "begin"
      BY <1>6, <2>1, BeginEffect
    <3>2. worker'[w].got = <<>> /\ answer'[w].frame = <<>>
      BY <3>1 DEF Manners, NoAnswer
    <3> QED
      BY <3>2 DEF OwnWorker, Of
  <2>2. CASE w # v
    BY <1>2, <1>6, <2>2, BeginEffect
  <2> QED
    BY <2>1, <2>2
<1>7. ASSUME NEW v \in Session, Poll(v) PROVE OwnWorker(w)'
  <2>1. CASE w = v
    <3>1. worker'[w].got = <<>> /\ answer'[w] = NoAnswer
      BY <1>7, <2>1, PollOthers
    <3>2. answer'[w].frame = <<>>
      BY <3>1 DEF NoAnswer
    <3> QED
      BY <3>1, <3>2 DEF OwnWorker, Of
  <2>2. CASE w # v
    BY <1>2, <1>7, <2>2, PollOthers
  <2> QED
    BY <2>1, <2>2
<1>8. ASSUME NEW v \in Session, Receive(v) PROVE OwnWorker(w)'
  <2>1. CASE w = v
    <3> DEFINE s == worker[w].sock
               got == Append(worker[w].got, Head(down[s]))
    <3>1. s \in Session /\ down[s] # <<>> /\ worker'[w].sock = s
      BY <1>8, <2>1, ReceiveEffect
    <3>2. /\ down[s] \in Seq(Part) /\ worker[w].got \in Seq(Part)
          /\ Of(down[s], s) /\ Of(worker[w].got, s) /\ Of(answer[w].frame, s)
      BY <1>1, <3>1, ComeType DEF OwnWires, OwnWorker
    <3>3. Of(got, s)
      <4> HIDE DEF s
      <4> QED
        BY <3>1, <3>2, OfHead, OfAppend
    <3>4. /\ Len(worker[w].got) + 1 = Parts =>
               /\ worker'[w].got = <<>>
               /\ answer' = [answer EXCEPT ![w] = [poll |-> worker[w].poll, frame |-> got]]
          /\ Len(worker[w].got) + 1 # Parts => worker'[w].got = got /\ answer' = answer
      BY <1>8, <2>1, ReceiveEffect
    <3>5. answer \in [Session -> Answers]
      BY TypeParts DEF ClientTypeOK
    <3> HIDE DEF got, s
    <3>6. worker'[w].got \in {<<>>, got} /\ answer'[w].frame \in {got, answer[w].frame}
      BY <3>4, <3>5
    <3>7. Of(worker'[w].got, s) /\ Of(answer'[w].frame, s)
      BY <3>2, <3>3, <3>6, OfEmpty
    <3> QED
      BY <3>1, <3>7 DEF OwnWorker, Of
  <2>2. CASE w # v
    BY <1>2, <1>8, <2>2, ReceiveEffect
  <2> QED
    BY <2>1, <2>2
<1>9. ASSUME NEW v \in Session, LoopEnds(v) \/ PollAgain(v) PROVE OwnWorker(w)'
  BY <1>2, <1>9, LoopEffect
<1>10. CASE GatewayStep \/ Stall \/ StopServer \/ \E v \in Session : Lose(v)
  BY <1>2, <1>10, GatewayLeaves DEF clientVars
<1>11. CASE UNCHANGED linkVars
  BY <1>2, <1>11 DEF linkVars, clientVars
<1> QED
  BY <1>3, <1>4, <1>5, <1>6, <1>7, <1>8, <1>9, <1>10, <1>11 DEF LinkNext, ClientStep

\* What the handler holds has come over its connection.
LEMMA OwnReadStep ==
  ASSUME LinkTypeOK, Manners, OwnParts, proto \in {"TCP", "UDP"}, [LinkNext]_linkVars
  PROVE  OwnRead'
<1>1. OwnRead /\ \A s \in Session : OwnWires(s)
  BY DEF OwnParts
<1>2. ASSUME UNCHANGED <<conn, rbuf, due, applied>> PROVE OwnRead'
  BY <1>1, <1>2 DEF OwnRead, Of
<1>3. CASE Connect \/ UserDisconnect \/ \E w \in Session : ClientStep(w)
  BY <1>2, <1>3, ClientLeaves
<1>4. CASE UNCHANGED linkVars
  BY <1>2, <1>4 DEF linkVars, gatewayVars
<1>5. CASE Accept
  <2>1. rbuf' = <<>> /\ ~due'
    BY <1>5 DEF Accept, Manners
  <2> QED
    BY <2>1 DEF OwnRead, Of
<1>6. CASE HangUp \/ StopServer
  <2>1. rbuf' = <<>> /\ ~due'
    BY <1>6 DEF HangUp, StopServer, HandlerEnds
  <2> QED
    BY <2>1 DEF OwnRead, Of
<1>7. CASE Read
  <2>1. /\ conn \in Session /\ up[conn] # <<>> /\ ~due /\ UNCHANGED <<conn, due, applied>>
        /\ rbuf' = Append(rbuf, Head(up[conn]))
    BY <1>7, OrderTypes DEF Read
  <2>2. up[conn] \in Seq(Part) /\ rbuf \in Seq(Part) /\ Of(up[conn], conn) /\ Of(rbuf, conn)
    BY <1>1, <2>1, OrderTypes DEF OwnRead, OwnWires
  <2>3. Of(rbuf', conn)
    BY <2>1, <2>2, OfHead, OfAppend
  <2> QED
    BY <2>1, <2>3 DEF OwnRead, Of
<1>8. CASE Stall
  <2>1. rbuf' = <<>> /\ UNCHANGED <<conn, due, applied>>
    BY <1>8 DEF Stall
  <2> QED
    BY <1>1, <2>1 DEF OwnRead, Of
<1>9. CASE Apply
  <2>1. rbuf' = <<>> /\ applied' = rbuf /\ conn' = conn /\ Len(rbuf) = Parts
    BY <1>9 DEF Apply
  <2>2. 1 \in 1 .. Len(rbuf)
    BY <2>1, PartsKnown
  <2>3. rbuf # <<>> /\ rbuf[1][1][1] = conn
    BY <1>1, <2>2 DEF OwnRead, Of
  <2> QED
    BY <2>1, <2>3 DEF OwnRead, Of
<1>10. CASE Reply
  <2>1. ~due' /\ UNCHANGED <<conn, rbuf>>
    BY <1>10 DEF Reply
  <2> QED
    BY <1>1, <2>1 DEF OwnRead, Of
<1>11. CASE Transmit \/ TransmitEnds \/ \E s \in Session : Lose(s)
  BY <1>2, <1>11 DEF Transmit, TransmitEnds, Lose
<1>12. CASE \E s \in Session : Serve(s)
  <2>1. UNCHANGED <<conn, rbuf, due>> /\ ~due
    BY <1>12 DEF Serve, Manners
  <2> QED
    BY <1>1, <2>1 DEF OwnRead, Of
<1> QED
  BY <1>3, <1>4, <1>5, <1>6, <1>7, <1>8, <1>9, <1>10, <1>11, <1>12 DEF LinkNext, GatewayStep

\* What is on its way over a socket is about what has been sent over it.
LEMMA OwnWiresStep ==
  ASSUME LinkTypeOK, NotOpened, Manners, OwnParts, proto \in {"TCP", "UDP"},
         [LinkNext]_linkVars, NEW s \in Session
  PROVE  OwnWires(s)'
<1>1. /\ OwnRead /\ \A t \in Session : Of(up[t], t) /\ Of(down[t], t)
      /\ up \in [Session -> Seq(Part)] /\ down \in [Session -> Seq(Part)]
      /\ conn \in Session \union {0}
  BY OrderTypes, TypeParts DEF OwnParts, OwnWires, WiresTypeOK
<1>2. ASSUME Of(up'[s], s), Of(down'[s], s) PROVE OwnWires(s)'
  BY <1>2 DEF OwnWires, Of
<1>3. CASE Connect \/ UNCHANGED linkVars
  BY <1>1, <1>2, <1>3 DEF Connect, linkVars
<1>4. CASE UserDisconnect \/ \E w \in Session : DeferredDisconnect(w)
  <2>1. Close /\ up' = up
    BY <1>4 DEF UserDisconnect, DeferredDisconnect, Close
  <2>2. down'[s] = down[s] \/ down'[s] = <<>>
    BY <2>1, CloseEffect
  <2> QED
    BY <2>1, <2>2, <1>1, <1>2, OfEmpty
<1>5. ASSUME NEW w \in Session, Begin(w) \/ LoopEnds(w) \/ PollAgain(w) PROVE OwnWires(s)'
  BY <1>1, <1>2, <1>5, BeginEffect, LoopEffect
<1>6. ASSUME NEW w \in Session, Poll(w) PROVE OwnWires(s)'
  <2>1. PICK t : t = worker[w].sock
    OBVIOUS
  <2> DEFINE f == FrameOf(<<t, polls[t] + 1>>)
  <2>2. /\ UNCHANGED <<proto, gatewayVars, current, closed, down>>
        /\ t \in Session /\ f \in Seq(Part) /\ up'[t] = up[t] \o f
        /\ \A v \in Session \ {t} : up'[v] = up[v] /\ polls'[v] = polls[v]
    BY <1>6, <2>1, PollEffect
  <2>3. Of(f, t)
    <3> DEFINE c == <<t, polls[t] + 1>>
    <3>1. c[1] = t
      OBVIOUS
    <3> HIDE DEF c
    <3>2. Of(FrameOf(c), t)
      BY <3>1, OfFrame
    <3> QED
      BY <3>2 DEF c
  <2> HIDE DEF f
  <2>4. Of(up'[t], t)
    BY <2>2, <2>3, <1>1, OfConcat
  <2> QED
    BY <2>2, <2>4, <1>1, <1>2
<1>7. ASSUME NEW w \in Session, Receive(w) PROVE OwnWires(s)'
  <2> DEFINE t == worker[w].sock
  <2>1. /\ t \in Session /\ down[t] # <<>> /\ down'[t] = Tail(down[t])
        /\ up' = up /\ \A u \in Session \ {t} : down'[u] = down[u]
    BY <1>7, ReceiveEffect
  <2> HIDE DEF t
  <2>2. Of(down'[t], t)
    BY <2>1, <1>1, OfHead
  <2> QED
    BY <2>1, <2>2, <1>1, <1>2
<1>8. CASE Accept \/ Stall \/ Apply
  BY <1>1, <1>2, <1>8 DEF Accept, Stall, Apply
<1>9. CASE HangUp \/ StopServer
  <2>1. down' = down /\ (up'[s] = <<>> \/ up'[s] = up[s])
    BY <1>1, <1>9 DEF HangUp, StopServer
  <2> QED
    BY <2>1, <1>1, <1>2, OfEmpty
<1>10. CASE Read
  <2>1. conn \in Session /\ up[conn] # <<>> /\ down' = down /\ up' = [up EXCEPT ![conn] = Tail(@)]
    BY <1>1, <1>10 DEF Read
  <2>2. Of(Tail(up[conn]), conn)
    BY <2>1, <1>1, OfHead
  <2>3. up'[s] = IF s = conn THEN Tail(up[conn]) ELSE up[s]
    BY <2>1, <1>1
  <2> QED
    BY <2>1, <2>2, <2>3, <1>1, <1>2
<1>11. CASE Reply
  <2>1. /\ conn \in Session /\ due /\ up' = up /\ Deliver(conn, down[conn] \o Inputs)
        /\ applied # <<>> /\ applied[1][1][1] = conn
    BY <1>1, <1>11 DEF Reply, OwnRead
  <2>2. Of(Inputs, conn)
    <3>1. Inputs = FrameOf(applied[1][1])
      BY <2>1 DEF Inputs
    <3> QED
      BY <2>1, <3>1, OfFrame
  <2> DEFINE sent == down[conn] \o Inputs
  <2>3. sent \in Seq(Part) /\ Of(sent, conn) /\ Deliver(conn, sent)
    BY <2>1, <2>2, <1>1, InputsType, ConcatProperties, OfConcat
  <2> HIDE DEF sent
  <2>4. down'[s] = down[s] \/ (s = conn /\ down'[s] \in {<<>>, sent})
    BY <2>1, <2>3, DeliverEffect
  <2> QED
    BY <2>1, <2>3, <2>4, <1>1, <1>2, OfEmpty
<1>12. CASE Transmit \/ TransmitEnds
  BY <1>12 DEF Transmit, TransmitEnds, Manners, Stream
<1>13. ASSUME NEW t \in Session, Serve(t) PROVE OwnWires(s)'
  <2>1. PICK i \in DOMAIN up[t], later \in BOOLEAN :
          /\ up' = [up EXCEPT ![t] = RemoveAt(@, i)]
          /\ Deliver(t, IF later THEN Append(down[t], up[t][i]) ELSE <<up[t][i]>> \o down[t])
    BY <1>13 DEF Serve
  <2> DEFINE x == up[t][i]
             sent == IF later THEN Append(down[t], x) ELSE <<x>> \o down[t]
  <2>2. i \in 1 .. Len(up[t]) /\ x \in Part /\ x[1][1] = t
    BY <1>1, ElementOfSeq, LenProperties DEF Of
  <2> HIDE DEF x
  <2>3. <<x>> \in Seq(Part) /\ Of(<<x>>, t)
    BY <2>2 DEF Of
  <2>4. Append(down[t], x) \in Seq(Part) /\ Of(Append(down[t], x), t)
    BY <2>2, <1>1, OfAppend
  <2>5. <<x>> \o down[t] \in Seq(Part) /\ Of(<<x>> \o down[t], t)
    BY <2>3, <1>1, OfConcat, ConcatProperties
  <2>6. sent \in Seq(Part) /\ Of(sent, t) /\ Deliver(t, sent)
    BY <2>1, <2>4, <2>5 DEF x
  <2> HIDE DEF sent
  <2>7. down'[s] = down[s] \/ (s = t /\ down'[s] \in {<<>>, sent})
    BY <2>6, DeliverEffect
  <2>8. up'[s] = IF s = t THEN RemoveAt(up[t], i) ELSE up[s]
    BY <2>1, <1>1
  <2>9. Of(RemoveAt(up[t], i), t)
    BY <2>2, <1>1, OfRemoved
  <2> QED
    BY <2>6, <2>7, <2>8, <2>9, <1>1, <1>2, OfEmpty
<1>14. ASSUME NEW t \in Session, Lose(t) PROVE OwnWires(s)'
  <2>1. /\ \A i \in DOMAIN up[t] : Of(RemoveAt(up[t], i), t)
        /\ \A i \in DOMAIN down[t] : Of(RemoveAt(down[t], i), t)
    BY <1>1, OfRemoved, LenProperties
  <2>2. CASE \E i \in DOMAIN up[t] : up' = [up EXCEPT ![t] = RemoveAt(@, i)] /\ UNCHANGED down
    BY <2>1, <2>2, <1>1, <1>2
  <2>3. CASE \E i \in DOMAIN down[t] : down' = [down EXCEPT ![t] = RemoveAt(@, i)] /\ UNCHANGED up
    BY <2>1, <2>3, <1>1, <1>2
  <2> QED
    BY <1>14, <2>2, <2>3 DEF Lose
<1> QED
  BY <1>3, <1>4, <1>5, <1>6, <1>7, <1>8, <1>9, <1>10, <1>11, <1>12, <1>13, <1>14
  DEF LinkNext, ClientStep, GatewayStep

LEMMA OwnPartsInit == LinkInit => OwnParts
BY DEF LinkInit, OwnParts, OwnWires, OwnRead, OwnWorker, Of, NoAnswer

LEMMA OwnPartsStep ==
  ASSUME LinkTypeOK, NotOpened, Manners, OwnParts, [LinkNext]_linkVars
  PROVE  OwnParts'
<1>1. proto' = proto
  BY LinkKeeps
<1> QED
  BY <1>1, OwnWiresStep, OwnReadStep, OwnWorkerStep DEF OwnParts

-----------------------------------------------------------------------------
(* In lock-step. *)

LEMMA LateStays ==
  ASSUME LinkTypeOK, NotOpened, [LinkNext]_linkVars, NEW w \in Session
  PROVE  worker'[w].late = worker[w].late \/ worker'[w].late = TRUE
<1>1. CASE Connect
  <2>1. PICK v \in Session : Goto(v, "begin")
    BY <1>1 DEF Connect
  <2> QED
    BY <2>1, GotoEffect DEF Steps
<1>2. CASE UserDisconnect
  BY <1>2 DEF UserDisconnect
<1>3. ASSUME NEW v \in Session, DeferredDisconnect(v) PROVE worker'[w].late = worker[w].late
  BY <1>3, GotoEffect DEF DeferredDisconnect, Steps
<1>4. ASSUME NEW v \in Session, Begin(v) PROVE worker'[w].late = worker[w].late
  BY <1>4, BeginEffect
<1>5. ASSUME NEW v \in Session, Poll(v) PROVE worker'[w].late = worker[w].late
  BY <1>5, PollEffect
<1>6. ASSUME NEW v \in Session, Receive(v) PROVE worker'[w].late = worker[w].late
  BY <1>6, ReceiveEffect
<1>7. ASSUME NEW v \in Session, LoopEnds(v) \/ PollAgain(v)
      PROVE  worker'[w].late = worker[w].late \/ worker'[w].late = TRUE
  <2>1. worker \in [Session -> Loops]
    BY OrderTypes
  <2>2. worker' = [worker EXCEPT ![v].at = "ended"]
        \/ worker' = [worker EXCEPT ![v].at = "loop", ![v].late = TRUE]
    BY <1>7 DEF LoopEnds, PollAgain, Goto
  <2> QED
    BY <2>1, <2>2 DEF Loops
<1>8. CASE GatewayStep \/ Stall \/ StopServer \/ \E v \in Session : Lose(v)
  BY <1>8, GatewayLeaves DEF clientVars
<1>9. CASE UNCHANGED linkVars
  BY <1>9 DEF linkVars, clientVars
<1> QED
  BY <1>1, <1>2, <1>3, <1>4, <1>5, <1>6, <1>7, <1>8, <1>9 DEF LinkNext, ClientStep

LEMMA OwedBefore ==
  ASSUME LinkTypeOK, NotOpened, [LinkNext]_linkVars, NEW w \in Session, Owed(w)'
  PROVE  Owed(w)
<1>1. proto' = proto /\ (dropped' = dropped \/ dropped' = TRUE)
  BY LinkKeeps
<1>2. worker'[w].late = worker[w].late \/ worker'[w].late = TRUE
  BY LateStays
<1>3. CASE proto' = "TCP" /\ ~dropped'
  <2>1. dropped' = dropped
    BY <1>1, <1>3
  <2>2. ~dropped
    BY <2>1, <1>3
  <2> QED
    BY <2>2, <1>1, <1>3 DEF Owed
<1>4. CASE proto' = "UDP" /\ ~worker'[w].late
  <2>1. worker'[w].late = worker[w].late
    BY <1>2, <1>4
  <2>2. ~worker[w].late
    BY <2>1, <1>4
  <2> QED
    BY <2>2, <1>1, <1>4 DEF Owed
<1> QED
  BY <1>3, <1>4 DEF Owed

LEMMA ClosedStays ==
  ASSUME LinkTypeOK, [LinkNext]_linkVars
  PROVE  closed \subseteq closed'
<1>1. CASE UserDisconnect \/ \E w \in Session : DeferredDisconnect(w)
  BY <1>1, CloseEffect DEF UserDisconnect, DeferredDisconnect
<1>2. CASE Connect \/ \E w \in Session : Begin(w) \/ Poll(w) \/ Receive(w) \/ LoopEnds(w) \/ PollAgain(w)
  BY <1>2 DEF Connect, Begin, Poll, Receive, LoopEnds, PollAgain, LoopVars
<1>3. CASE GatewayStep \/ Stall \/ StopServer \/ \E t \in Session : Lose(t)
  BY <1>3, GatewayLeaves DEF clientVars
<1>4. CASE UNCHANGED linkVars
  BY <1>4 DEF linkVars, clientVars
<1> QED
  BY <1>1, <1>2, <1>3, <1>4 DEF LinkNext, ClientStep

\* Only the reader and the one who starts a poll change what has been got of a frame.
LEMMA GotKept ==
  ASSUME LinkTypeOK, NotOpened, Manners, proto # "UDP", [LinkNext]_linkVars,
         NEW w \in Session, ~Receive(w), worker[w].sock # 0
  PROVE  worker'[w].got = worker[w].got
<1>1. CASE Connect
  <2>1. PICK v \in Session : Goto(v, "begin")
    BY <1>1 DEF Connect
  <2> QED
    BY <2>1, GotoEffect DEF Steps
<1>2. CASE UserDisconnect
  BY <1>2 DEF UserDisconnect
<1>3. ASSUME NEW v \in Session, DeferredDisconnect(v) PROVE worker'[w].got = worker[w].got
  BY <1>3, GotoEffect DEF DeferredDisconnect, Steps
<1>4. ASSUME NEW v \in Session, Begin(v) \/ LoopEnds(v) \/ PollAgain(v)
      PROVE  worker'[w].got = worker[w].got
  BY <1>4, BeginEffect, LoopEffect
<1>5. ASSUME NEW v \in Session, Poll(v) PROVE worker'[w].got = worker[w].got
  <2>1. worker[v].got = <<>> /\ worker'[v].got = <<>>
    BY <1>5, PollOthers DEF Manners
  <2>2. w # v => worker'[w] = worker[w]
    BY <1>5, PollOthers
  <2> QED
    BY <2>1, <2>2
<1>6. ASSUME NEW v \in Session, Receive(v) PROVE worker'[w].got = worker[w].got
  <2>1. w # v
    BY <1>6
  <2> QED
    BY <2>1, <1>6, ReceiveEffect
<1>7. CASE GatewayStep \/ Stall \/ StopServer \/ \E v \in Session : Lose(v)
  BY <1>7, GatewayLeaves DEF clientVars
<1>8. CASE UNCHANGED linkVars
  BY <1>8 DEF linkVars, clientVars
<1> QED
  BY <1>1, <1>2, <1>3, <1>4, <1>5, <1>6, <1>7, <1>8 DEF LinkNext, ClientStep

\* A step that is not about the worker's socket.
LEMMA InStepKept ==
  ASSUME NEW w \in Session, NEW s \in Session, InStep(w, s), proto' = proto,
         up'[s] = up[s], down'[s] = down[s], polls'[s] = polls[s],
         worker'[w].got = worker[w].got, worker'[w].poll = worker[w].poll,
         worker'[w].at = worker[w].at \/ worker'[w].at \notin {"loop", "recv"},
         conn' = s => conn = s /\ UNCHANGED <<rbuf, due, applied>>
  PROVE  InStep(w, s)'
<1>1. Come(w, s)' = Come(w, s)
  BY DEF Come
<1>2. Parts' = Parts /\ (FrameOf(<<s, polls[s]>>))' = FrameOf(<<s, polls[s]>>)
  BY PartsKept DEF FrameOf
<1>3. Unburdened(s) => Unburdened(s)'
  BY DEF Unburdened
<1>4. Underway(s) => Underway(s)'
  BY <1>2 DEF Underway
<1> QED
  BY <1>1, <1>2, <1>3, <1>4 DEF InStep

\* What another worker does over another socket.
LEMMA OtherInStep ==
  ASSUME LinkTypeOK, NotOpened, NEW v \in Session, Begin(v) \/ Poll(v) \/ Receive(v) \/ LoopEnds(v) \/ PollAgain(v),
         NEW w \in Session, NEW s \in Session, v # w, worker[v].sock # s, InStep(w, s)
  PROVE  InStep(w, s)'
<1>1. /\ UNCHANGED <<proto, conn, rbuf, due, applied>> /\ worker'[w] = worker[w]
      /\ up'[s] = up[s] /\ down'[s] = down[s] /\ polls'[s] = polls[s]
  <2>1. CASE Begin(v) \/ LoopEnds(v) \/ PollAgain(v)
    BY <2>1, BeginEffect, LoopEffect DEF gatewayVars
  <2>2. CASE Poll(v)
    BY <2>2, PollOthers DEF gatewayVars
  <2>3. CASE Receive(v)
    BY <2>3, ReceiveEffect DEF gatewayVars
  <2> QED
    BY <2>1, <2>2, <2>3
<1> QED
  BY <1>1, InStepKept

\* A frame of the session.
LEMMA OwnFrame ==
  ASSUME NEW s \in Session, NEW p \in 1 .. MaxPolls
  PROVE  /\ FrameOf(<<s, p>>) \in Seq(Part) /\ Len(FrameOf(<<s, p>>)) = Parts
         /\ FrameOf(<<s, p>>) # <<>>
<1>1. <<s, p>> \in Command
  BY DEF Command
<1>2. FrameOf(<<s, p>>) \in Seq(Part) /\ Len(FrameOf(<<s, p>>)) = Parts /\ Parts # 0
  BY <1>1, FrameType, PartsKnown
<1> QED
  BY <1>2, EmptySeq

\* A worker takes a socket that nobody had.
LEMMA BeginInStep ==
  ASSUME LinkTypeOK, Manners, Untouched, proto \notin Stream, NEW w \in Session, Begin(w),
         NEW s \in Session, Free(s)
  PROVE  InStep(w, s)'
<1>1. /\ UNCHANGED <<proto, up, down, conn, rbuf, due>>
      /\ worker'[w].at \in {"gone", "ended", "loop"}
  BY BeginEffect DEF gatewayVars
<1>2. Unburdened(s) /\ down[s] = <<>>
  BY DEF Untouched
<1>3. Unburdened(s)' /\ down'[s] = <<>>
  BY <1>1, <1>2 DEF Unburdened
<1> QED
  BY <1>1, <1>3 DEF InStep

LEMMA DisconnectInStep ==
  ASSUME LinkTypeOK, UserDisconnect \/ \E v \in Session : DeferredDisconnect(v),
         NEW w \in Session, NEW s \in Session \ closed', InStep(w, s)
  PROVE  InStep(w, s)'
<1>1. Close /\ UNCHANGED <<proto, up, gatewayVars, polls>>
  BY DEF UserDisconnect, DeferredDisconnect, Close
<1>2. s # current
  <2>1. current \in Session => current \in closed'
    BY <1>1, Bounds DEF Close
  <2> QED
    BY <2>1
<1>3. down'[s] = down[s]
  BY <1>1, <1>2, CloseEffect
<1>4. /\ worker'[w].got = worker[w].got /\ worker'[w].poll = worker[w].poll
      /\ worker'[w].at = worker[w].at \/ worker'[w].at = "gone"
  <2>1. CASE UserDisconnect
    BY <2>1 DEF UserDisconnect
  <2>2. CASE \E v \in Session : DeferredDisconnect(v)
    <3>1. PICK v \in Session : Goto(v, "gone")
      BY <2>2 DEF DeferredDisconnect
    <3> QED
      BY <3>1, GotoEffect DEF Steps
  <2> QED
    BY <2>1, <2>2
<1> QED
  BY <1>1, <1>3, <1>4, InStepKept DEF gatewayVars

LEMMA PollInStep ==
  ASSUME LinkTypeOK, NotOpened, NEW w \in Session, Poll(w), NEW s, s = worker[w].sock, InStep(w, s)
  PROVE  InStep(w, s)'
<1> DEFINE p == polls[s] + 1
<1>1. /\ worker[w].at = "loop" /\ p \in 1 .. MaxPolls /\ s \in Session
      /\ up'[s] = up[s] \o FrameOf(<<s, p>>) /\ polls'[s] = p
      /\ worker'[w].at = "recv" /\ worker'[w].poll = p /\ worker'[w].got = <<>>
      /\ UNCHANGED <<proto, down, conn, rbuf, due, applied>>
  BY PollEffect DEF gatewayVars
<1> HIDE DEF p
<1>2. FrameOf(<<s, p>>) \in Seq(Part) /\ Len(FrameOf(<<s, p>>)) = Parts
  BY <1>1, OwnFrame
<1>3. down[s] = <<>> /\ up[s] = <<>> /\ (conn = s => rbuf = <<>> /\ ~due)
  BY <1>1 DEF InStep, Unburdened
<1>4. up'[s] = FrameOf(<<s, p>>)
  BY <1>1, <1>2, <1>3, ConcatEmptySeq
<1>5. Come(w, s)' = <<>>
  <2>1. <<>> \o <<>> = <<>>
    BY EmptySeq, ConcatEmptySeq
  <2> QED
    BY <2>1, <1>1, <1>3 DEF Come
<1>6. Parts' = Parts /\ (FrameOf(<<s, polls[s]>>))' = FrameOf(<<s, p>>)
  BY <1>1, PartsKept DEF FrameOf
<1>7. Len(up'[s]) = Parts
  BY <1>2, <1>4
<1>8. conn' = s => Len(rbuf') = 0 /\ ~due'
  BY <1>1, <1>3, EmptySeq
<1>9. Len(up'[s]) + 0 <= Parts /\ Parts \in Nat
  BY <1>7, PartsKnown
<1>10. Underway(s)'
  BY <1>4, <1>6, <1>7, <1>8, <1>9 DEF Underway
<1> QED
  BY <1>1, <1>5, <1>10 DEF InStep

\* What has come when the worker goes on reading.
LEMMA ReceiveInStep ==
  ASSUME LinkTypeOK, NotOpened, NEW w \in Session, Receive(w), NEW s, s = worker[w].sock, InStep(w, s)
  PROVE  InStep(w, s)'
<1>1. /\ UNCHANGED <<proto, up, conn, rbuf, due, applied, polls>> /\ s \in Session
      /\ worker[w].at = "recv" /\ down[s] # <<>> /\ down'[s] = Tail(down[s])
      /\ worker'[w].poll = worker[w].poll
  BY ReceiveEffect DEF gatewayVars
<1>2. Come(w, s) = FrameOf(<<s, polls[s]>>) /\ Unburdened(s) /\ worker[w].poll = polls[s]
  BY <1>1, ComeType DEF InStep
<1>3. Unburdened(s)'
  BY <1>1, <1>2 DEF Unburdened
<1>4. worker[w].got \in Seq(Part) /\ down[s] \in Seq(Part) /\ Len(worker[w].got) \in Nat
  BY <1>1, ComeType
<1>5. (FrameOf(<<s, polls[s]>>))' = FrameOf(<<s, polls[s]>>)
  BY <1>1, PartsKept DEF FrameOf
<1>6. CASE Len(worker[w].got) + 1 = Parts
  <2>1. Len(Come(w, s)) = Parts
    BY <1>2, FrameLength
  <2>2. Tail(down[s]) = <<>>
    <3>1. Len(worker[w].got \o down[s]) = Len(worker[w].got) + 1
      BY <2>1, <1>6 DEF Come
    <3> QED
      BY <3>1, <1>1, <1>4, LastTaken
  <2>3. worker'[w].at = "loop" /\ down'[s] = <<>>
    BY <2>2, <1>1, <1>6, ReceiveEffect
  <2> QED
    BY <2>3, <1>3 DEF InStep
<1>7. CASE Len(worker[w].got) + 1 # Parts
  <2>1. worker'[w].at = "recv" /\ worker'[w].got = Append(worker[w].got, Head(down[s]))
    BY <1>7, ReceiveEffect
  <2>2. Come(w, s)' = Come(w, s)
    BY <2>1, <1>1, <1>4, TakeHead DEF Come
  <2> QED
    BY <2>1, <2>2, <1>1, <1>2, <1>3, <1>5 DEF InStep
<1> QED
  BY <1>6, <1>7

\* A connection that is taken over, or given up.
LEMMA AcceptInStep ==
  ASSUME LinkTypeOK, Manners, Accept, NEW w \in Session, NEW s \in Session, InStep(w, s)
  PROVE  InStep(w, s)'
<1>1. /\ UNCHANGED <<proto, up, down, worker, polls, rbuf, due, applied>> /\ conn = 0
      /\ proto # "UDP" /\ ~due /\ rbuf = <<>>
  BY DEF Accept, ServerVars, clientVars, Manners
<1>2. Come(w, s)' = Come(w, s) /\ Parts' = Parts
      /\ (FrameOf(<<s, polls[s]>>))' = FrameOf(<<s, polls[s]>>)
  BY <1>1, PartsKept DEF Come, FrameOf
<1>3. Unburdened(s) => Unburdened(s)'
  BY <1>1 DEF Unburdened
<1>4. Underway(s) => Underway(s)'
  <2>1. Len(rbuf) = 0 /\ Len(up[s]) \in Nat /\ Parts \in Nat
    BY <1>1, OrderTypes, EmptySeq, PartsKnown
  <2>2. Len(up[s]) <= Parts => Len(up[s]) + Len(rbuf) <= Parts
    BY <2>1
  <2> QED
    BY <2>2, <1>1, <1>2 DEF Underway
<1> QED
  BY <1>1, <1>2, <1>3, <1>4 DEF InStep

LEMMA HandlerEndsInStep ==
  ASSUME LinkTypeOK, HangUp \/ StopServer, NEW w \in Session, NEW s \in Session, InStep(w, s)
  PROVE  InStep(w, s)'
<1>1. /\ UNCHANGED <<proto, down, worker, polls>> /\ conn' = 0 /\ conn' # s
      /\ up'[s] = IF s = conn THEN <<>> ELSE up[s]
  BY Bounds, OrderTypes DEF HangUp, StopServer, HandlerEnds, ServerVars, clientVars
<1>2. CASE s = conn
  <2>1. up'[s] = <<>> /\ Len(<<>>) = 0 /\ Parts' \in Nat
    BY <1>1, <1>2, PartsKnown, PartsKept
  <2>2. Unburdened(s)' /\ Underway(s)'
    BY <2>1, <1>1 DEF Unburdened, Underway
  <2>3. Come(w, s)' = Come(w, s) /\ (FrameOf(<<s, polls[s]>>))' = FrameOf(<<s, polls[s]>>)
    BY <1>1, PartsKept DEF Come, FrameOf
  <2> QED
    BY <2>2, <2>3, <1>1 DEF InStep
<1>3. CASE s # conn
  BY <1>1, <1>3, InStepKept
<1> QED
  BY <1>2, <1>3

\* Frames are read and applied.
LEMMA ReadInStep ==
  ASSUME LinkTypeOK, Manners, Read, NEW w \in Session, NEW s \in Session, InStep(w, s)
  PROVE  InStep(w, s)'
<1>1. /\ UNCHANGED <<proto, down, worker, polls, conn, due, applied>>
      /\ conn # 0 /\ ~due /\ up[conn] # <<>>
      /\ rbuf' = Append(rbuf, Head(up[conn])) /\ up' = [up EXCEPT ![conn] = Tail(@)]
  BY DEF Read, ServerVars, clientVars
<1>2. /\ up \in [Session -> Seq(Part)] /\ rbuf \in Seq(Part) /\ Len(rbuf) \in Nat
      /\ Len(up[s]) \in Nat /\ Parts \in Nat
  BY OrderTypes, PartsKnown
<1>3. CASE s = conn
  <2>1. ~Unburdened(s) /\ proto # "UDP"
    BY <1>1, <1>3 DEF Unburdened, Manners
  <2>2. /\ up'[s] = Tail(up[s]) /\ Len(up'[s]) = Len(up[s]) - 1 /\ Len(rbuf') = Len(rbuf) + 1
    BY <1>1, <1>2, <1>3, HeadTailProperties, AppendProperties
  <2>3. Come(w, s)' = Come(w, s) /\ Parts' = Parts
    BY <1>1, PartsKept DEF Come
  <2>4. Underway(s) => Underway(s)'
    <3> SUFFICES ASSUME Len(up[s]) <= Parts, Len(up[s]) + Len(rbuf) <= Parts
                 PROVE  Underway(s)'
      BY <1>3 DEF Underway
    <3>1. Len(up'[s]) <= Parts /\ Len(up'[s]) + Len(rbuf') <= Parts
      <4>1. \A u, r, n \in Nat : u + r <= n => u - 1 <= n /\ (u - 1) + (r + 1) <= n
        OBVIOUS
      <4>2. Len(up[s]) - 1 <= Parts /\ (Len(up[s]) - 1) + (Len(rbuf) + 1) <= Parts
        BY <4>1, <1>2
      <4> QED
        BY <4>2, <2>2
    <3> QED
      BY <3>1, <2>1, <2>3, <1>1 DEF Underway
  <2> QED
    BY <2>1, <2>3, <2>4, <1>1 DEF InStep
<1>4. CASE s # conn
  <2>1. up'[s] = up[s]
    BY <1>1, <1>2, <1>4
  <2> QED
    BY <2>1, <1>1, <1>4, InStepKept
<1> QED
  BY <1>3, <1>4

LEMMA ApplyInStep ==
  ASSUME LinkTypeOK, Ordered, Manners, Apply, proto = "TCP", ~dropped,
         NEW w \in Session, NEW s \in Session, InStep(w, s)
  PROVE  InStep(w, s)'
<1>1. /\ UNCHANGED <<proto, up, down, worker, polls, conn>>
      /\ conn # 0 /\ Len(rbuf) = Parts /\ rbuf' = <<>>
  BY DEF Apply, ServerVars, clientVars
<1>2. InOrder /\ Parts = 2
  BY PartsKnown DEF Ordered
<1>3. CASE s = conn
  <2>1. PICK b \in Nat :
          /\ 2 * polls[conn] = 2 * (b + 1) + Len(up[conn])
          /\ applied' = FrameOf(<<conn, b + 1>>)
    BY <1>2, ApplyTakes
  <2>2. ~Unburdened(s)
    BY <1>1, <1>2, <1>3, EmptySeq DEF Unburdened
  <2>3. Come(w, s)' = Come(w, s) /\ Parts' = Parts
        /\ (FrameOf(<<s, polls[s]>>))' = FrameOf(<<s, polls[s]>>)
    BY <1>1, PartsKept DEF Come, FrameOf
  <2>4. Underway(s) => Underway(s)'
    <3> SUFFICES ASSUME Underway(s) PROVE Underway(s)'
      OBVIOUS
    <3>1. Len(up[s]) = 0 /\ up[s] \in Seq(Part) /\ Len(up[s]) \in Nat /\ polls[s] \in Nat
      <4>1. Len(up[s]) + 2 <= 2 /\ Len(up[s]) \in Nat
        BY <1>1, <1>2, <1>3, OrderTypes DEF Underway
      <4> QED
        BY <4>1, OrderTypes
    <3>2. up[s] = <<>>
      BY <3>1, EmptySeq
    <3>3. b + 1 = polls[s]
      <4>1. \A p \in Nat : 2 * p = 2 * (b + 1) + 0 => b + 1 = p
        BY <2>1
      <4>2. 2 * polls[s] = 2 * (b + 1) + 0
        BY <2>1, <3>1, <1>3
      <4> QED
        BY <4>1, <4>2, <3>1
    <3>4. applied' = FrameOf(<<s, polls[s]>>)
      BY <3>3, <2>1, <1>3
    <3>5. up'[s] = <<>> /\ Len(<<>>) = 0 /\ 0 + 0 <= 2 /\ 0 <= 2
      BY <3>2, <1>1
    <3>6. proto' # "UDP" /\ Parts' = 2 /\ rbuf' = <<>>
      BY <1>1, <1>2, <2>3
    <3> QED
      BY <3>4, <3>5, <3>6, <2>3 DEF Underway
  <2> QED
    BY <2>2, <2>3, <2>4, <1>1 DEF InStep
<1>4. CASE s # conn
  BY <1>1, <1>4, InStepKept
<1> QED
  BY <1>3, <1>4

\* The reply.
LEMMA ReplyInStep ==
  ASSUME LinkTypeOK, Reply, NEW w \in Session, NEW s \in Session \ closed, InStep(w, s)
  PROVE  InStep(w, s)'
<1>1. /\ UNCHANGED <<proto, up, worker, polls, conn, rbuf, applied>>
      /\ conn \in Session /\ due /\ ~due' /\ Deliver(conn, down[conn] \o Inputs)
  BY OrderTypes DEF Reply, ServerVars, clientVars
<1>2. Inputs \in Seq(Part) /\ down[conn] \in Seq(Part) /\ down[conn] \o Inputs \in Seq(Part)
  BY <1>1, InputsType, ComeType, ConcatProperties
<1>3. (s = conn => down'[s] = down[s] \o Inputs) /\ (s # conn => down'[s] = down[s])
  <2> DEFINE sent == down[conn] \o Inputs
  <2>1. sent \in Seq(Part) /\ Deliver(conn, sent)
    BY <1>1, <1>2
  <2> HIDE DEF sent
  <2>2. (s = conn => down'[s] = sent) /\ (s # conn => down'[s] = down[s])
    BY <1>1, <2>1, DeliverEffect
  <2> QED
    BY <2>2 DEF sent
<1>4. CASE s = conn
  <2>1. ~Unburdened(s)
    BY <1>1, <1>4 DEF Unburdened
  <2>2. CASE worker[w].at = "recv"
    <3>1. Come(w, s) = <<>> /\ Underway(s) /\ worker[w].poll = polls[s]
      BY <2>1, <2>2 DEF InStep
    <3>2. /\ worker[w].got = <<>> /\ down[s] = <<>> /\ up[s] = <<>> /\ rbuf = <<>>
          /\ applied = FrameOf(<<s, polls[s]>>)
      BY <3>1, <1>1, <1>4, ComeType DEF Underway
    <3>3. Inputs = FrameOf(<<s, polls[s]>>)
      <4>1. applied # <<>>
        BY <3>2, FrameLength, PartsKnown, EmptySeq
      <4>2. applied[1][1] = <<s, polls[s]>>
        BY <3>2, PartsKnown DEF FrameOf
      <4> QED
        BY <4>1, <4>2 DEF Inputs
    <3>4. Come(w, s)' = Inputs
      <4>1. down'[s] = Inputs /\ worker'[w].got = <<>>
        BY <3>2, <1>1, <1>2, <1>3, <1>4, ConcatEmptySeq
      <4> QED
        BY <4>1, <1>2, ConcatEmptySeq DEF Come
    <3>5. (FrameOf(<<s, polls[s]>>))' = FrameOf(<<s, polls[s]>>)
      BY <1>1, PartsKept DEF FrameOf
    <3>6. Unburdened(s)'
      BY <3>2, <1>1 DEF Unburdened
    <3> QED
      BY <3>1, <3>3, <3>4, <3>5, <3>6, <2>2, <1>1 DEF InStep
  <2>3. CASE worker[w].at # "recv"
    BY <2>1, <2>3, <1>1 DEF InStep
  <2> QED
    BY <2>2, <2>3
<1>5. CASE s # conn
  BY <1>1, <1>3, <1>5, InStepKept
<1> QED
  BY <1>4, <1>5

\* Over UDP a datagram is the whole frame.
LEMMA Datagram ==
  ASSUME proto = "UDP", NEW c
  PROVE  FrameOf(c) = <<<<c, 1>>>>
<1>1. Parts = 1
  BY PartsKnown
<1>2. FrameOf(c) = [k \in 1 .. 1 |-> <<c, k>>]
  BY <1>1 DEF FrameOf
<1> QED
  BY <1>2

LEMMA ServeInStep ==
  ASSUME LinkTypeOK, Manners, NEW t \in Session, Serve(t),
         NEW w \in Session, NEW s \in Session \ closed, InStep(w, s)
  PROVE  InStep(w, s)'
<1>1. UNCHANGED <<proto, worker, polls, conn>> /\ proto = "UDP" /\ conn = 0 /\ s # 0
  BY Bounds DEF Serve, ServerVars, clientVars, Manners
<1>2. PICK i \in DOMAIN up[t], later \in BOOLEAN :
        /\ up' = [up EXCEPT ![t] = RemoveAt(@, i)]
        /\ Deliver(t, IF later THEN Append(down[t], up[t][i]) ELSE <<up[t][i]>> \o down[t])
  BY DEF Serve
<1>3. up \in [Session -> Seq(Part)] /\ i \in 1 .. Len(up[t]) /\ up[t][i] \in Part
      /\ down[t] \in Seq(Part)
  BY OrderTypes, LenProperties, ElementOfSeq, ComeType
<1>4. /\ Append(down[t], up[t][i]) \in Seq(Part)
      /\ <<up[t][i]>> \in Seq(Part) /\ <<up[t][i]>> \o down[t] \in Seq(Part)
  BY <1>3, AppendProperties, ConcatProperties
<1>5. CASE s = t
  <2>1. up[s] # <<>>
    BY <1>3, <1>5, EmptySeq
  <2>2. CASE worker[w].at = "recv"
    <3>1. Come(w, s) = <<>> /\ up[s] = FrameOf(<<s, polls[s]>>) /\ worker[w].poll = polls[s]
      BY <2>1, <2>2, <1>1 DEF InStep, Unburdened, Underway
    <3>2. worker[w].got = <<>> /\ down[s] = <<>> /\ up[s] = <<<<<<s, polls[s]>>, 1>>>>
      BY <3>1, <1>1, ComeType, Datagram
    <3>3. Len(up[s]) = 1 /\ i = 1 /\ up[s][i] = <<<<s, polls[s]>>, 1>>
      BY <3>2, <1>3, <1>5
    <3>4. up'[s] = <<>>
      BY <3>3, <1>2, <1>3, <1>5, OneRemoved
    <3>5. down'[s] = up[s]
      <4>1. Append(<<>>, up[s][i]) = up[s] /\ <<up[s][i]>> = up[s]
        BY <3>2, <3>3
      <4>2. <<up[s][i]>> \o <<>> = <<up[s][i]>>
        BY <1>4, <1>5, ConcatEmptySeq
      <4>3. down'[s] = IF later THEN Append(down[t], up[t][i]) ELSE <<up[t][i]>> \o down[t]
        BY <1>2, <1>4, <1>5, DeliverEffect
      <4> QED
        BY <4>1, <4>2, <4>3, <3>2, <1>5
    <3>6. Come(w, s)' = up[s]
      BY <3>2, <3>5, <1>1, <1>3, <1>5, OrderTypes, ConcatEmptySeq DEF Come
    <3>7. (FrameOf(<<s, polls[s]>>))' = FrameOf(<<s, polls[s]>>)
      BY <1>1, PartsKept DEF FrameOf
    <3>8. Unburdened(s)'
      BY <3>4, <1>1 DEF Unburdened
    <3> QED
      BY <3>1, <3>6, <3>7, <3>8, <2>2, <1>1 DEF InStep
  <2>3. CASE worker[w].at # "recv"
    BY <2>1, <2>3, <1>1 DEF InStep, Unburdened
  <2> QED
    BY <2>2, <2>3
<1>6. CASE s # t
  <2>1. up'[s] = up[s] /\ down'[s] = down[s]
    BY <1>2, <1>3, <1>4, <1>6, DeliverEffect
  <2> QED
    BY <2>1, <1>1, InStepKept
<1> QED
  BY <1>5, <1>6

LEMMA LoseInStep ==
  ASSUME LinkTypeOK, Manners, NEW t \in Session, Lose(t),
         NEW w \in Session, NEW s \in Session, InStep(w, s)
  PROVE  InStep(w, s)'
<1>1. UNCHANGED <<proto, worker, polls, conn>> /\ proto = "UDP" /\ conn = 0 /\ s # 0
  BY Bounds DEF Lose, ServerVars, clientVars, Manners
<1>2. up \in [Session -> Seq(Part)] /\ down \in [Session -> Seq(Part)]
      /\ DOMAIN up[t] = 1 .. Len(up[t]) /\ DOMAIN down[t] = 1 .. Len(down[t])
  BY TypeParts, LenProperties DEF WiresTypeOK
<1>3. ASSUME s # t PROVE InStep(w, s)'
  <2>1. up'[s] = up[s] /\ down'[s] = down[s]
    BY <1>2, <1>3 DEF Lose
  <2> QED
    BY <2>1, <1>1, InStepKept
<1>4. (FrameOf(<<s, polls[s]>>))' = FrameOf(<<s, polls[s]>>) /\ Parts' = 1
  BY <1>1, PartsKept, PartsKnown DEF FrameOf
<1>5. ASSUME NEW i \in DOMAIN up[t], up' = [up EXCEPT ![t] = RemoveAt(@, i)], UNCHANGED down, s = t
      PROVE  InStep(w, s)'
  <2>1. up[s] # <<>>
    BY <1>2, <1>5, EmptySeq
  <2>2. CASE worker[w].at = "recv"
    <3>1. Come(w, s) = <<>> /\ up[s] = FrameOf(<<s, polls[s]>>) /\ worker[w].poll = polls[s]
      BY <2>1, <2>2, <1>1 DEF InStep, Unburdened, Underway
    <3>2. Len(up[s]) = 1
      BY <3>1, <1>1, FrameLength, PartsKnown
    <3>3. up'[s] = <<>>
      BY <3>2, <1>2, <1>5, OneRemoved
    <3>4. Come(w, s)' = <<>>
      BY <3>1, <1>1, <1>5 DEF Come
    <3>5. Len(<<>>) = 0 /\ 0 <= 1
      OBVIOUS
    <3>6. Underway(s)'
      BY <3>3, <3>5, <1>1, <1>4 DEF Underway
    <3> QED
      BY <3>1, <3>4, <3>6, <2>2, <1>1 DEF InStep
  <2>3. CASE worker[w].at # "recv"
    BY <2>1, <2>3, <1>1 DEF InStep, Unburdened
  <2> QED
    BY <2>2, <2>3
<1>6. ASSUME NEW i \in DOMAIN down[t], down' = [down EXCEPT ![t] = RemoveAt(@, i)], UNCHANGED up, s = t
      PROVE  InStep(w, s)'
  <2>1. down[s] # <<>> /\ worker[w].got = <<>>
    BY <1>1, <1>2, <1>6, EmptySeq, UdpGot
  <2>2. CASE worker[w].at = "recv"
    <3>1. /\ Come(w, s) = FrameOf(<<s, polls[s]>>) /\ Unburdened(s) /\ Come(w, s) = down[s]
          /\ worker[w].poll = polls[s]
      BY <2>1, <2>2, ComeType DEF InStep
    <3>2. Len(down[s]) = 1
      BY <3>1, <1>1, FrameLength, PartsKnown
    <3>3. down'[s] = <<>>
      BY <3>2, <1>2, <1>6, OneRemoved
    <3>4. Come(w, s)' = <<>>
      <4>1. <<>> \o <<>> = <<>>
        BY EmptySeq, ConcatEmptySeq
      <4> QED
        BY <4>1, <3>3, <2>1, <1>1 DEF Come
    <3>5. up'[s] = <<>> /\ Len(<<>>) = 0 /\ 0 <= 1
      BY <3>1, <1>6 DEF Unburdened
    <3>6. Underway(s)'
      BY <3>5, <1>1, <1>4 DEF Underway
    <3> QED
      BY <3>1, <3>4, <3>6, <2>2, <1>1 DEF InStep
  <2>3. CASE worker[w].at # "recv"
    <3>1. worker[w].at # "loop"
      BY <2>1 DEF InStep
    <3> QED
      BY <3>1, <2>3, <1>1 DEF InStep
  <2> QED
    BY <2>2, <2>3
<1> QED
  BY <1>3, <1>5, <1>6 DEF Lose

LEMMA LockStepStep ==
  ASSUME LinkTypeOK, NotOpened, Ordered, Manners, Untouched, LockStep, [LinkNext]_linkVars
  PROVE  LockStep'
<1> SUFFICES ASSUME NEW w \in Session, NEW s \in Session, s \notin closed', s = worker'[w].sock,
                    Alone(w)', Owed(w)'
             PROVE  InStep(w, s)'
  BY DEF LockStep
<1>1. s \in Session \ closed /\ s \in Session \ closed' /\ Owed(w) /\ Others(w, s)
  BY OwedBefore, ClosedStays, MineBefore
<1>2. CASE Begin(w) /\ Free(s)
  BY <1>1, <1>2, BeginInStep DEF Owed, Stream
<1>3. CASE worker[w].sock = s
  <2>1. Alone(w) /\ InStep(w, s)
    BY <1>1, <1>3 DEF LockStep, Alone, Others
  <2>2. CASE Connect
    <3>1. PICK t \in Session : Goto(t, "begin")
      BY <2>2 DEF Connect
    <3>2. UNCHANGED <<proto, up, down, polls, conn, rbuf, due, applied>>
      BY <2>2 DEF Connect
    <3>3. /\ worker'[w].got = worker[w].got /\ worker'[w].poll = worker[w].poll
          /\ worker'[w].at = worker[w].at \/ worker'[w].at = "begin"
      BY <3>1, GotoEffect DEF Steps
    <3> QED
      BY <3>2, <3>3, <2>1, InStepKept
  <2>3. CASE UserDisconnect \/ \E v \in Session : DeferredDisconnect(v)
    BY <2>1, <2>3, <1>1, DisconnectInStep
  <2>4. ASSUME NEW v \in Session, Begin(v) \/ Poll(v) \/ Receive(v) \/ LoopEnds(v) \/ PollAgain(v)
        PROVE  InStep(w, s)'
    <3>1. CASE v # w
      <4>1. worker[v].sock # s
        BY <3>1, <1>1 DEF Others
      <4> QED
        BY <4>1, <3>1, <2>1, <2>4, OtherInStep
    <3>2. CASE v = w /\ Begin(w)
      BY <3>2, <1>3, Bounds, BeginEffect DEF Manners
    <3>3. CASE v = w /\ Poll(w)
      BY <3>3, <2>1, <1>3, PollInStep
    <3>4. CASE v = w /\ Receive(w)
      BY <3>4, <2>1, <1>3, ReceiveInStep
    <3>5. CASE v = w /\ (LoopEnds(w) \/ PollAgain(w))
      <4>1. /\ UNCHANGED <<proto, up, down, polls, conn, rbuf, due, applied>>
            /\ worker'[w].got = worker[w].got /\ worker'[w].poll = worker[w].poll
            /\ worker'[w].at \in {"loop", "ended"} /\ (worker'[w].at = "loop" => worker'[w].late)
        BY <3>5, LoopEffect DEF gatewayVars
      <4>2. worker'[w].at = "loop" => worker[w].at = "loop"
        <5>1. CASE LoopEnds(w)
          BY <5>1, GotoEffect DEF LoopEnds, Steps
        <5>2. CASE PollAgain(w)
          <6>1. proto' = "UDP" /\ worker'[w].late
            <7>1. worker' = [worker EXCEPT ![w].at = "loop", ![w].late = TRUE] /\ proto = "UDP"
              BY <5>2 DEF PollAgain
            <7> QED
              BY <7>1, <4>1, OrderTypes DEF Loops
          <6> QED
            BY <6>1 DEF Owed
        <5> QED
          BY <3>5, <5>1, <5>2
      <4> QED
        BY <4>1, <4>2, <2>1, InStepKept
    <3> QED
      BY <2>4, <3>1, <3>2, <3>3, <3>4, <3>5
  <2>5. CASE Accept
    BY <2>1, <2>5, AcceptInStep
  <2>6. CASE HangUp \/ StopServer
    BY <2>1, <2>6, HandlerEndsInStep
  <2>7. CASE Read
    BY <2>1, <2>7, ReadInStep
  <2>8. CASE Stall
    BY <2>8 DEF Stall, Owed, ServerVars
  <2>9. CASE Apply
    <3>1. proto # "UDP"
      BY <2>9 DEF Apply, Manners
    <3> QED
      BY <3>1, <2>1, <2>9, <1>1, ApplyInStep DEF Owed
  <2>10. CASE Reply
    BY <2>1, <2>10, <1>1, ReplyInStep
  <2>11. CASE Transmit \/ TransmitEnds
    BY <1>1, <2>11 DEF Transmit, TransmitEnds, Manners, Owed, Stream
  <2>12. ASSUME NEW t \in Session, Serve(t) PROVE InStep(w, s)'
    BY <2>1, <2>12, <1>1, ServeInStep
  <2>13. ASSUME NEW t \in Session, Lose(t) PROVE InStep(w, s)'
    BY <2>1, <2>13, LoseInStep
  <2>14. CASE UNCHANGED linkVars
    BY <2>1, <2>14, InStepKept DEF linkVars, gatewayVars, clientVars
  <2> QED
    BY <2>2, <2>3, <2>4, <2>5, <2>6, <2>7, <2>8, <2>9, <2>10, <2>11, <2>12, <2>13, <2>14
    DEF LinkNext, ClientStep, GatewayStep
<1> QED
  BY <1>2, <1>3, MineBefore

LEMMA LockStepInit == LinkInit => LockStep
BY DEF LinkInit, LockStep, InStep

-----------------------------------------------------------------------------
(* Streams. *)

\* The beginning of the inputs, behind whole frames.
LEMMA FrameAdded ==
  ASSUME proto # "UDP", NEW q \in Seq(Part), NEW c \in Command, NEW r \in Seq(Part),
         Len(r) \in 0 .. 2, \A k \in 1 .. Len(r) : r[k] = <<c, k>>, InFrames(q), Complete(q)
  PROVE  InFrames(q \o r) /\ (Len(r) = 2 => Complete(q \o r))
<1>1. /\ Len(q) \in Nat /\ q \o r \in Seq(Part) /\ Len(q \o r) = Len(q) + Len(r)
      /\ \A j \in 1 .. Len(q) + Len(r) : (q \o r)[j] = IF j <= Len(q) THEN q[j] ELSE r[j - Len(q)]
  BY ConcatProperties, LenProperties
<1> DEFINE w == q \o r
<1>2. \A j \in 1 .. Len(q) : j \in 1 .. Len(q) + Len(r) /\ w[j] = q[j]
  BY <1>1
<1>3. \A k \in 1 .. Len(r) : Len(q) + k \in 1 .. Len(q) + Len(r) /\ w[Len(q) + k] = <<c, k>>
  <2> SUFFICES ASSUME NEW k \in 1 .. Len(r)
               PROVE  Len(q) + k \in 1 .. Len(q) + Len(r) /\ w[Len(q) + k] = <<c, k>>
    OBVIOUS
  <2>1. Len(q) + k \in 1 .. Len(q) + Len(r) /\ ~(Len(q) + k <= Len(q)) /\ Len(q) + k - Len(q) = k
    BY <1>1
  <2>2. w[Len(q) + k] = r[k]
    BY <2>1, <1>1
  <2> QED
    BY <2>1, <2>2
<1>4. q # <<>> => Len(q) \in 1 .. Len(q) /\ q[Len(q)][2] = 2 /\ q[1][2] = 1
  <2> SUFFICES ASSUME q # <<>> PROVE Len(q) \in 1 .. Len(q)
    BY DEF Complete, InFrames
  <2> QED
    BY <1>1, EmptySeq
<1>5. Len(w) = Len(q) + Len(r)
  BY <1>1
<1>6. w # <<>> => w[1][2] = 1
  <2>1. CASE q # <<>>
    <3>1. 1 \in 1 .. Len(q)
      BY <2>1, <1>1, <1>4
    <3> QED
      BY <3>1, <2>1, <1>2, <1>4
  <2>2. CASE q = <<>>
    <3>1. Len(q) = 0
      BY <2>2
    <3> HIDE DEF w
    <3>2. w # <<>> => 1 \in 1 .. Len(r)
      <4> SUFFICES ASSUME w # <<>> PROVE 1 \in 1 .. Len(r)
        OBVIOUS
      <4>1. w \in Seq(Part)
        BY <1>1 DEF w
      <4>2. Len(w) \in Nat \ {0}
        BY <4>1, EmptySeq
      <4> QED
        BY <4>2, <3>1, <1>5
    <3>3. 1 \in 1 .. Len(r) => w[0 + 1] = <<c, 1>>
      BY <3>1, <1>3
    <3>4. 0 + 1 = 1 /\ <<c, 1>>[2] = 1
      OBVIOUS
    <3> QED
      BY <3>2, <3>3, <3>4
  <2> QED
    BY <2>1, <2>2
<1>7. ASSUME NEW j \in 1 .. Len(w) - 1
      PROVE  /\ w[j][2] = 1 => w[j + 1] = <<w[j][1], 2>>
             /\ w[j][2] = 2 => w[j + 1][2] = 1
  <2> HIDE DEF w
  <2>1. CASE j + 1 <= Len(q)
    <3>1. j \in 1 .. Len(q) - 1 /\ j \in 1 .. Len(q) /\ j + 1 \in 1 .. Len(q)
      BY <2>1, <1>1, <1>5
    <3>2. w[j] = q[j] /\ w[j + 1] = q[j + 1]
      BY <3>1, <1>2
    <3> QED
      BY <3>1, <3>2 DEF InFrames
  <2>2. CASE j = Len(q)
    <3>1. j \in 1 .. Len(q) /\ 1 \in 1 .. Len(r)
      BY <2>2, <1>1, <1>5
    <3>2. q # <<>>
      BY <3>1
    <3>3. w[j] = q[Len(q)] /\ w[j + 1] = <<c, 1>>
      BY <3>1, <2>2, <1>2, <1>3
    <3>4. w[j][2] = 2 /\ w[j + 1][2] = 1
      BY <3>2, <3>3, <1>4
    <3> QED
      BY <3>4
  <2>3. CASE j > Len(q)
    <3>1. j = Len(q) + 1 /\ 1 \in 1 .. Len(r) /\ 2 \in 1 .. Len(r) /\ j + 1 = Len(q) + 2
      BY <2>3, <1>1, <1>5
    <3>2. w[j] = <<c, 1>> /\ w[j + 1] = <<c, 2>>
      BY <3>1, <1>3
    <3> QED
      BY <3>2
  <2> QED
    BY <2>1, <2>2, <2>3, <1>1, <1>5
<1>8. Len(r) = 2 => w[Len(w)][2] = 2
  <2> SUFFICES ASSUME Len(r) = 2 PROVE w[Len(w)][2] = 2
    OBVIOUS
  <2>1. 2 \in 1 .. Len(r)
    OBVIOUS
  <2>2. w[Len(q) + 2] = <<c, 2>>
    BY <2>1, <1>3
  <2> HIDE DEF w
  <2> QED
    BY <2>2, <1>5
<1> QED
  BY <1>6, <1>7, <1>8 DEF InFrames, Complete

\* What is left when the first frame has been taken.
LEMMA FrameTaken ==
  ASSUME NEW q \in Seq(Part), NEW r \in Seq(Part), Len(q) = 2 + Len(r),
         \A j \in 1 .. Len(r) : r[j] = q[j + 2], InFrames(q)
  PROVE  InFrames(r) /\ (Complete(q) => Complete(r)) /\ q[1][2] = 1 /\ q[2] = <<q[1][1], 2>>
<1>1. Len(r) \in Nat
  BY LenProperties
<1>2. q # <<>> /\ 1 \in 1 .. Len(q) - 1
  BY <1>1, EmptySeq
<1>3. q[1][2] = 1 /\ q[2] = <<q[1][1], 2>>
  BY <1>2 DEF InFrames
<1>4. r # <<>> => r[1][2] = 1
  <2> SUFFICES ASSUME r # <<>> PROVE r[1][2] = 1
    OBVIOUS
  <2>1. Len(r) # 0
    BY EmptySeq
  <2>2. 1 \in 1 .. Len(r) /\ 2 \in 1 .. Len(q) - 1
    BY <2>1, <1>1
  <2>3. q[2][2] = 2 => q[2 + 1][2] = 1
    BY <2>2 DEF InFrames
  <2> QED
    BY <2>2, <2>3, <1>3
<1>5. ASSUME NEW j \in 1 .. Len(r) - 1
      PROVE  /\ r[j][2] = 1 => r[j + 1] = <<r[j][1], 2>>
             /\ r[j][2] = 2 => r[j + 1][2] = 1
  <2>1. j \in 1 .. Len(r) /\ j + 1 \in 1 .. Len(r) /\ j + 2 \in 1 .. Len(q) - 1 /\ j + 1 + 2 = j + 2 + 1
    BY <1>1
  <2>2. r[j] = q[j + 2] /\ r[j + 1] = q[j + 2 + 1]
    BY <2>1
  <2> QED
    BY <2>1, <2>2 DEF InFrames
<1>6. Complete(q) => Complete(r)
  <2> SUFFICES ASSUME r # <<>>, q[Len(q)][2] = 2 PROVE r[Len(r)][2] = 2
    BY <1>2 DEF Complete
  <2>1. Len(r) # 0
    BY EmptySeq
  <2>2. Len(r) \in 1 .. Len(r) /\ Len(r) + 2 = Len(q)
    BY <2>1, <1>1
  <2> QED
    BY <2>2
<1> QED
  BY <1>3, <1>4, <1>5, <1>6 DEF InFrames

\* The client has got a whole frame.
LEMMA StreamReceive ==
  ASSUME LinkTypeOK, NotOpened, proto # "UDP", NEW w \in Session, Receive(w),
         NEW s \in Session, s = worker[w].sock, InFrames(Come(w, s)),
         Len(worker[w].got) + 1 = Parts
  PROVE  /\ Come(w, s)' = Tail(down[s]) /\ InFrames(Tail(down[s]))
         /\ Complete(Come(w, s)) => Complete(Tail(down[s]))
         /\ \E c \in Command : Append(worker[w].got, Head(down[s])) = FrameOf(c)
<1> DEFINE g == worker[w].got
           d == down[s]
           q == Come(w, s)
<1>1. Parts = 2 /\ d # <<>> /\ g \in Seq(Part) /\ d \in Seq(Part) /\ q \in Seq(Part) /\ Len(g) \in Nat
      /\ Len(d) \in Nat
  BY ReceiveEffect, ComeType, PartsKnown
<1>2. Len(g) = 1
  <2>1. \A n \in Nat : n + 1 = 2 => n = 1
    OBVIOUS
  <2>2. Len(g) + 1 = 2
    BY <1>1
  <2> QED
    BY <2>1, <2>2, <1>1
<1>3. /\ Head(d) \in Part /\ Head(d) = d[1] /\ Tail(d) \in Seq(Part) /\ Len(Tail(d)) = Len(d) - 1
      /\ \A j \in 1 .. Len(Tail(d)) : Tail(d)[j] = d[j + 1]
  BY <1>1, HeadTailProperties
<1>4. /\ Len(q) = 1 + Len(d)
      /\ \A j \in 1 .. 1 + Len(d) : q[j] = IF j <= 1 THEN g[j] ELSE d[j - 1]
  <2>1. q = g \o d
    BY DEF Come
  <2> HIDE DEF g, d, q
  <2>2. /\ Len(g \o d) = Len(g) + Len(d)
        /\ \A j \in 1 .. Len(g) + Len(d) : (g \o d)[j] = IF j <= Len(g) THEN g[j] ELSE d[j - Len(g)]
    BY <1>1, ConcatProperties
  <2> QED
    BY <2>1, <2>2, <1>2
<1>5. Len(d) # 0
  BY <1>1, EmptySeq
<1> HIDE DEF g, d, q
<1>6. q[1] = g[1] /\ q[2] = Head(d)
  BY <1>1, <1>3, <1>4, <1>5
<1>7. Len(q) = 2 + Len(Tail(d))
  BY <1>1, <1>3, <1>4
<1>8. ASSUME NEW j \in 1 .. Len(Tail(d)) PROVE Tail(d)[j] = q[j + 2]
  <2>1. j + 2 \in 1 .. 1 + Len(d) /\ ~(j + 2 <= 1) /\ j + 2 - 1 = j + 1
    BY <1>1, <1>3
  <2> QED
    BY <2>1, <1>3, <1>4
<1>9. /\ InFrames(Tail(d)) /\ (Complete(q) => Complete(Tail(d)))
      /\ q[1][2] = 1 /\ q[2] = <<q[1][1], 2>>
  <2>1. InFrames(q)
    BY DEF q
  <2> QED
    BY <2>1, <1>1, <1>3, <1>7, <1>8, FrameTaken
<1>10. Come(w, s)' = Tail(d)
  <2>1. worker'[w].got = <<>> /\ down'[s] = Tail(d)
    BY ReceiveEffect DEF d
  <2> QED
    BY <2>1, <1>3, ConcatEmptySeq DEF Come
<1>11. \E c \in Command : Append(g, Head(d)) = FrameOf(c)
  <2>1. g[1] \in Part
    <3>1. 1 \in 1 .. Len(g)
      BY <1>2
    <3> QED
      BY <3>1, <1>1, ElementOfSeq
  <2>2. g[1][1] \in Command /\ g[1] = <<g[1][1], 1>>
    BY <2>1, <1>6, <1>9, PartType
  <2> DEFINE c == g[1][1]
  <2>3. /\ Append(g, Head(d)) \in Seq(Part) /\ Len(Append(g, Head(d))) = 2
        /\ Append(g, Head(d))[1] = g[1] /\ Append(g, Head(d))[2] = Head(d)
    <3>1. 1 \in 1 .. Len(g) /\ Len(g) + 1 = 2
      BY <1>2
    <3> QED
      BY <3>1, <1>1, <1>3, AppendProperties
  <2>4. /\ FrameOf(c) \in Seq(Part) /\ Len(FrameOf(c)) = 2
        /\ FrameOf(c)[1] = <<c, 1>> /\ FrameOf(c)[2] = <<c, 2>>
    BY <2>2, <1>1, FrameType
  <2>5. /\ Append(g, Head(d))[1] = <<c, 1>> /\ Append(g, Head(d))[2] = <<c, 2>>
    BY <2>2, <2>3, <1>6, <1>9
  <2> HIDE DEF c
  <2> DEFINE a == Append(g, Head(d))
             f == FrameOf(c)
  <2>6. a \in Seq(Part) /\ Len(a) = 2 /\ f \in Seq(Part) /\ Len(f) = 2 /\ a[1] = f[1] /\ a[2] = f[2]
    BY <2>3, <2>4, <2>5
  <2> HIDE DEF a, f
  <2>7. \A k \in 1 .. 2 : k = 1 \/ k = 2
    OBVIOUS
  <2>8. \A k \in 1 .. 2 : a[k] = f[k]
    BY <2>6, <2>7
  <2>9. a = f
    BY <2>6, <2>8, SeqEqual
  <2> QED
    BY <2>2, <2>9 DEF a, f, c
<1> QED
  BY <1>9, <1>10, <1>11 DEF g, d, q

\* A step that leaves alone what has come.
LEMMA FlowKept ==
  ASSUME NEW s \in Session, NEW g \in Seq(Part), Flow(s, g), down'[s] = down[s],
         conn' = s /\ tx' => (conn = s /\ tx) \/ g \o down[s] = <<>>,
         \A i \in 1 .. Len(queue') : queue'[i] = s => g \o down[s] = <<>>
  PROVE  Flow(s, g)'
<1> DEFINE q == g \o down[s]
<1>1. InFrames(q) /\ q' = q /\ (conn = s /\ tx => Complete(q))
  BY DEF Flow
<1> HIDE DEF q
<1>2. InFrames(q)' /\ (conn' = s /\ tx' => Complete(q)')
  BY <1>1 DEF InFrames, Complete, q
<1>3. \A i \in 1 .. Len(queue') : queue'[i] = s => (g \o down[s])' = <<>>
  OBVIOUS
<1> QED
  BY <1>2, <1>3 DEF Flow, q

LEMMA PartsAssociate ==
  \A g, d, r \in Seq(Part) : (g \o d) \o r = g \o (d \o r)
<1> TAKE g, d, r \in Seq(Part)
<1> QED
  BY ConcatAssociative

\* Inputs, or the beginning of them, sent down the connection.
LEMMA TransmitFlow ==
  ASSUME LinkTypeOK, Ordered, Manners, proto \in Stream, Transmit \/ TransmitEnds,
         NEW s \in Session \ closed, NEW g \in Seq(Part), Flow(s, g)
  PROVE  Flow(s, g)'
<1>1. /\ UNCHANGED <<proto, worker, queue, conn>> /\ conn \in Session /\ tx /\ conn # 0
      /\ proto # "UDP" /\ Parts = 2
  BY OrderTypes, PartsKnown, Bounds DEF Transmit, TransmitEnds, ServerVars, clientVars, Stream
<1>2. PICK c \in Command : Inputs = FrameOf(c)
  BY InputsType
<1>3. /\ Inputs \in Seq(Part) /\ Len(Inputs) = 2 /\ \A k \in 1 .. 2 : Inputs[k] = <<c, k>>
  BY <1>1, <1>2, FrameType
<1>4. \E r \in Seq(Part) : /\ Len(r) \in 0 .. 2 /\ \A k \in 1 .. Len(r) : r[k] = <<c, k>>
                           /\ tx' => Len(r) = 2
                           /\ Deliver(conn, down[conn] \o r)
  <2>1. CASE Transmit
    <3>1. Deliver(conn, down[conn] \o Inputs) /\ Len(Inputs) \in 0 .. 2
      BY <2>1, <1>3 DEF Transmit
    <3> QED
      BY <3>1, <1>3
  <2>2. CASE TransmitEnds
    <3>1. PICK k \in 0 .. Parts - 1 : Deliver(conn, down[conn] \o SubSeq(Inputs, 1, k))
      BY <2>2 DEF TransmitEnds
    <3>2. k \in 0 .. 1
      BY <1>1
    <3>3. /\ SubSeq(Inputs, 1, k) \in Seq(Part) /\ Len(SubSeq(Inputs, 1, k)) = k
          /\ \A l \in 1 .. k : SubSeq(Inputs, 1, k)[l] = <<c, l>>
      <4>1. \A l \in 1 .. k : l \in 1 .. 2 /\ 1 + l - 1 = l
        BY <3>2
      <4>2. \A l \in 1 .. k : Inputs[l] \in Part
        BY <4>1, <1>3, ElementOfSeq
      <4>3. /\ SubSeq(Inputs, 1, k) \in Seq(Part)
            /\ Len(SubSeq(Inputs, 1, k)) = IF 1 <= k THEN k - 1 + 1 ELSE 0
            /\ \A l \in 1 .. k - 1 + 1 : SubSeq(Inputs, 1, k)[l] = Inputs[1 + l - 1]
        BY <4>2, <3>2, SubSeqProperties
      <4>4. k = 0 \/ k = 1
        BY <3>2
      <4>5. Len(SubSeq(Inputs, 1, k)) = k
        BY <4>3, <4>4
      <4>6. ASSUME NEW l \in 1 .. k PROVE SubSeq(Inputs, 1, k)[l] = <<c, l>>
        <5>1. l \in 1 .. k - 1 + 1 /\ 1 + l - 1 = l /\ l \in 1 .. 2
          BY <3>2
        <5> QED
          BY <5>1, <4>3, <1>3
      <4> QED
        BY <4>3, <4>5, <4>6
    <3>4. ~tx'
      BY <2>2 DEF TransmitEnds
    <3>5. k \in 0 .. 2
      BY <3>2
    <3> QED
      BY <3>1, <3>3, <3>4, <3>5
  <2> QED
    BY <2>1, <2>2
<1>5. PICK r \in Seq(Part) : /\ Len(r) \in 0 .. 2 /\ \A k \in 1 .. Len(r) : r[k] = <<c, k>>
                             /\ tx' => Len(r) = 2
                             /\ Deliver(conn, down[conn] \o r)
  BY <1>4
<1>6. down[conn] \in Seq(Part) /\ down[conn] \o r \in Seq(Part) /\ down[s] \in Seq(Part)
  BY <1>1, <1>5, ComeType, ConcatProperties
<1>7. (s = conn => down'[s] = down[s] \o r) /\ (s # conn => down'[s] = down[s])
  <2> DEFINE sent == down[conn] \o r
  <2>1. sent \in Seq(Part) /\ Deliver(conn, sent)
    BY <1>5, <1>6
  <2> HIDE DEF sent
  <2>2. (s = conn => down'[s] = sent) /\ (s # conn => down'[s] = down[s])
    BY <1>1, <2>1, DeliverEffect
  <2> QED
    BY <2>2 DEF sent
<1>8. CASE s = conn
  <2> DEFINE q == g \o down[s]
  <2>1. q' = q \o r
    <3>1. (g \o down[s]) \o r = g \o (down[s] \o r)
      BY <1>5, <1>6, PartsAssociate
    <3> QED
      BY <3>1, <1>7, <1>8
  <2>2. InFrames(q) /\ Complete(q) /\ q \in Seq(Part)
    BY <1>1, <1>6, <1>8, ConcatProperties DEF Flow
  <2> HIDE DEF q
  <2>3. InFrames(q \o r) /\ (Len(r) = 2 => Complete(q \o r))
    BY <2>2, <1>1, <1>5, FrameAdded
  <2>4. InFrames(q') /\ (tx' => Complete(q'))
    BY <2>1, <2>3, <1>5
  <2>5. InFrames(q)' /\ (tx' => Complete(q)')
    BY <2>4 DEF InFrames, Complete
  <2>6. InOrder
    BY <1>1 DEF Ordered, Manners, Stream
  <2>7. \A i \in 1 .. Len(queue) : queue[i] # s
    <3>1. \A i \in 1 .. Len(queue) : queue[i] \in Nat /\ conn \in Nat /\ queue[i] > conn
      BY <2>6, <1>1, OrderTypes, Bounds DEF InOrder, Waiting
    <3>2. \A i \in 1 .. Len(queue) : queue[i] # conn
      BY <3>1
    <3> QED
      BY <3>2, <1>8
  <2> QED
    BY <2>5, <2>7, <1>1 DEF Flow, q
<1>9. CASE s # conn
  BY <1>1, <1>7, <1>9, FlowKept DEF Flow
<1> QED
  BY <1>8, <1>9

\* What the client does apart from reading from the socket.
LEMMA ClientFlow ==
  ASSUME LinkTypeOK, NotOpened, Manners, proto \in Stream,
         Connect \/ UserDisconnect \/ \E w \in Session : ClientStep(w),
         NEW s \in Session \ closed', \A w \in Session : Receive(w) => worker[w].sock # s,
         NEW g \in Seq(Part), Flow(s, g), worker[s].at = "none" => g \o down[s] = <<>>
  PROVE  Flow(s, g)'
<1>1. proto # "UDP" /\ UNCHANGED <<conn, tx>>
  BY ClientLeaves DEF Stream
<1>2. CASE Connect
  <2>1. PICK t \in Session : worker[t].at = "none" /\ queue' = Append(queue, t)
    BY <1>1, <1>2 DEF Connect
  <2>2. down' = down
    BY <1>2 DEF Connect
  <2>3. ASSUME NEW i \in 1 .. Len(queue'), queue'[i] = s PROVE g \o down[s] = <<>>
    <3>1. /\ Len(queue') = Len(queue) + 1 /\ Len(queue) \in Nat
          /\ \A j \in 1 .. Len(queue) : queue'[j] = queue[j]
          /\ queue'[Len(queue) + 1] = t
      BY <2>1, OrderTypes, AppendProperties
    <3>2. i \in 1 .. Len(queue) \/ i = Len(queue) + 1
      BY <3>1
    <3>3. CASE i \in 1 .. Len(queue)
      BY <3>1, <3>3, <2>3 DEF Flow
    <3>4. CASE i = Len(queue) + 1
      <4>1. s = t
        BY <3>1, <3>4, <2>3
      <4> QED
        BY <4>1, <2>1
    <3> QED
      BY <3>2, <3>3, <3>4
  <2> QED
    BY <2>2, <2>3, <1>1, FlowKept
<1>3. ASSUME ~Connect PROVE queue' = queue
  BY <1>3, ClientLeaves
<1>4. ASSUME ~Connect, down'[s] = down[s] PROVE Flow(s, g)'
  BY <1>1, <1>3, <1>4, FlowKept DEF Flow
<1>5. CASE ~Connect /\ (UserDisconnect \/ \E w \in Session : DeferredDisconnect(w))
  <2>1. Close
    BY <1>5 DEF UserDisconnect, DeferredDisconnect
  <2>2. current \in Session => current \in closed'
    BY <2>1, Bounds DEF Close
  <2>3. down'[s] = down[s]
    BY <2>1, <2>2, CloseEffect
  <2> QED
    BY <2>3, <1>4, <1>5
<1>6. ASSUME ~Connect, NEW w \in Session, Begin(w) \/ Poll(w) \/ LoopEnds(w) \/ PollAgain(w)
      PROVE  Flow(s, g)'
  BY <1>4, <1>6 DEF Begin, Poll, LoopEnds, PollAgain, LoopVars
<1>7. ASSUME ~Connect, NEW w \in Session, Receive(w) PROVE Flow(s, g)'
  <2>1. worker[w].sock # s
    BY <1>7
  <2> QED
    BY <2>1, <1>4, <1>7, ReceiveEffect
<1> QED
  BY <1>2, <1>5, <1>6, <1>7 DEF ClientStep

LEMMA GatewayFlow ==
  ASSUME LinkTypeOK, Ordered, Manners, proto \in Stream,
         \/ GatewayStep \/ Stall \/ StopServer \/ UNCHANGED linkVars
         \/ \E t \in Session : Lose(t),
         NEW s \in Session \ closed, NEW g \in Seq(Part), Flow(s, g)
  PROVE  Flow(s, g)'
<1>1. CASE Accept
  <2>1. /\ UNCHANGED <<down, worker>> /\ conn = 0 /\ conn' = Head(queue) /\ queue' = Tail(queue)
        /\ queue # <<>>
    BY <1>1 DEF Accept, ServerVars, clientVars
  <2>2. /\ Len(queue) \in Nat \ {0} /\ Len(queue') = Len(queue) - 1 /\ conn' = queue[1]
        /\ \A i \in 1 .. Len(queue') : queue'[i] = queue[i + 1]
    BY <2>1, OrderTypes, EmptySeq, HeadTailProperties
  <2>3. conn' = s => g \o down[s] = <<>>
    <3>1. 1 \in 1 .. Len(queue)
      BY <2>2
    <3> QED
      BY <3>1, <2>2 DEF Flow
  <2>4. ASSUME NEW i \in 1 .. Len(queue'), queue'[i] = s PROVE g \o down[s] = <<>>
    <3>1. i + 1 \in 1 .. Len(queue)
      BY <2>2
    <3> QED
      BY <3>1, <2>2, <2>4 DEF Flow
  <2> QED
    BY <2>1, <2>3, <2>4, FlowKept
<1>2. CASE HangUp \/ StopServer
  <2>1. /\ UNCHANGED <<down, worker>> /\ tx' = FALSE
        /\ queue' = queue \/ queue' = <<>>
    BY <1>2 DEF HangUp, StopServer, HandlerEnds, ServerVars, clientVars
  <2>2. \A i \in 1 .. Len(queue') : queue'[i] = s => g \o down[s] = <<>>
    BY <2>1, EmptySeq DEF Flow
  <2> QED
    BY <2>1, <2>2, FlowKept
<1>3. CASE Read \/ Stall \/ Apply \/ UNCHANGED linkVars
  <2>1. UNCHANGED <<down, worker, queue, conn, tx>>
    BY <1>3 DEF Read, Stall, Apply, ServerVars, clientVars, gatewayVars, linkVars
  <2> QED
    BY <2>1, FlowKept DEF Flow
<1>4. CASE Transmit \/ TransmitEnds
  BY <1>4, TransmitFlow
<1>5. CASE Reply \/ \E t \in Session : Serve(t) \/ Lose(t)
  BY <1>5 DEF Reply, Serve, Lose, Manners, Stream
<1> QED
  BY <1>1, <1>2, <1>3, <1>4, <1>5 DEF GatewayStep

\* The worker that has the socket for itself reads from it.
LEMMA ReceiveFlow ==
  ASSUME LinkTypeOK, NotOpened, proto # "UDP", NEW w \in Session, Receive(w),
         NEW s \in Session, s = worker[w].sock, Flow(s, worker[w].got)
  PROVE  Flow(s, worker[w].got)'
<1>1. /\ UNCHANGED <<queue, conn, tx>> /\ down[s] # <<>> /\ down[s] \in Seq(Part)
      /\ worker[w].got \in Seq(Part) /\ down'[s] = Tail(down[s])
  BY ReceiveEffect, ComeType DEF gatewayVars
<1>2. InFrames(Come(w, s)) /\ (conn = s /\ tx => Complete(Come(w, s)))
  BY DEF Flow, Come
<1>3. \A i \in 1 .. Len(queue) : queue[i] # s
  <2>1. Come(w, s) # <<>>
    BY <1>1, ComeType
  <2> QED
    BY <2>1 DEF Flow, Come
<1>4. InFrames(Come(w, s)') /\ (conn = s /\ tx => Complete(Come(w, s)'))
  <2>1. CASE Len(worker[w].got) + 1 = Parts
    BY <1>2, <2>1, StreamReceive
  <2>2. CASE Len(worker[w].got) + 1 # Parts
    <3>1. worker'[w].got = Append(worker[w].got, Head(down[s]))
      BY <2>2, ReceiveEffect
    <3>2. Append(worker[w].got, Head(down[s])) \o Tail(down[s]) = worker[w].got \o down[s]
      BY <1>1, TakeHead
    <3>3. Come(w, s)' = Come(w, s)
      BY <3>1, <3>2, <1>1 DEF Come
    <3> QED
      BY <3>3, <1>2
  <2> QED
    BY <2>1, <2>2
<1>5. InFrames(Come(w, s))' /\ (conn' = s /\ tx' => Complete(Come(w, s))')
  BY <1>1, <1>4 DEF InFrames, Complete
<1> QED
  BY <1>1, <1>3, <1>5 DEF Flow, Come

\* A session that has not been opened stays without inputs.
LEMMA NoneStep ==
  ASSUME LinkTypeOK, NotOpened, Ordered, Manners, proto \in Stream, [LinkNext]_linkVars,
         NEW s \in Session, worker[s].at = "none" => down[s] = <<>>, worker'[s].at = "none"
  PROVE  down'[s] = <<>>
<1>1. worker[s].at = "none"
  <2>1. CASE Connect
    <3>1. PICK t \in Session : Goto(t, "begin")
      BY <2>1 DEF Connect
    <3> QED
      BY <3>1, GotoEffect DEF Steps
  <2>2. ASSUME NEW w \in Session, Poll(w) PROVE worker[s].at = "none"
    BY <2>2, PollEffect
  <2>3. CASE ClientQuiet
    BY <2>3, QuietEffect
  <2>4. CASE GatewayStep \/ Stall \/ StopServer \/ \E t \in Session : Lose(t)
    BY <2>4, GatewayLeaves DEF clientVars
  <2>5. CASE UNCHANGED linkVars
    BY <2>5 DEF linkVars, clientVars
  <2> QED
    BY <2>1, <2>2, <2>3, <2>4, <2>5 DEF LinkNext, ClientStep, ClientQuiet
<1>2. down[s] = <<>> /\ \A w \in Session : worker[w].sock # s
  BY <1>1 DEF NotOpened
<1>3. CASE Connect \/ UNCHANGED linkVars
  BY <1>2, <1>3 DEF Connect, linkVars
<1>4. CASE UserDisconnect \/ \E w \in Session : DeferredDisconnect(w)
  BY <1>2, <1>4, CloseEffect DEF UserDisconnect, DeferredDisconnect
<1>5. ASSUME NEW w \in Session, Begin(w) \/ Poll(w) \/ LoopEnds(w) \/ PollAgain(w) PROVE down'[s] = <<>>
  BY <1>2, <1>5 DEF Begin, Poll, LoopEnds, PollAgain, LoopVars
<1>6. ASSUME NEW w \in Session, Receive(w) PROVE down'[s] = <<>>
  BY <1>2, <1>6, ReceiveEffect
<1>7. CASE Accept \/ HangUp \/ StopServer \/ Read \/ Stall \/ Apply
  BY <1>2, <1>7 DEF Accept, HangUp, StopServer, Read, Stall, Apply
<1>8. CASE Transmit \/ TransmitEnds
  <2>1. conn # s /\ \E frames : Deliver(conn, frames)
    <3>1. InOrder /\ conn # 0
      BY <1>8 DEF Ordered, Manners, Stream, Transmit, TransmitEnds
    <3> QED
      BY <3>1, <1>1, <1>8 DEF InOrder, Reading, Transmit, TransmitEnds
  <2>2. down \in [Session -> Seq(Part)]
    BY TypeParts DEF WiresTypeOK
  <2> QED
    BY <2>1, <2>2, <1>2 DEF Deliver
<1>9. CASE Reply \/ \E t \in Session : Serve(t) \/ Lose(t)
  BY <1>9 DEF Reply, Serve, Lose, Manners, Stream
<1> QED
  BY <1>3, <1>4, <1>5, <1>6, <1>7, <1>8, <1>9 DEF LinkNext, ClientStep, GatewayStep

LEMMA StreamsStep ==
  ASSUME LinkTypeOK, NotOpened, Ordered, Manners, Streams, [LinkNext]_linkVars
  PROVE  Streams'
<1> SUFFICES ASSUME proto' \in Stream, NEW s \in Session, s \notin closed'
             PROVE  /\ worker'[s].at = "none" => down'[s] = <<>>
                    /\ Free(s)' => Flow(s, <<>>)'
                    /\ \A w \in Session : worker'[w].sock = s /\ Alone(w)' => Flow(s, worker[w].got)'
  BY DEF Streams, Stream
<1>1. proto \in Stream /\ s \notin closed /\ s # 0 /\ proto # "UDP"
  BY LinkKeeps, ClosedStays, Bounds DEF Stream
<1>2. /\ worker[s].at = "none" => down[s] = <<>>
      /\ Free(s) => Flow(s, <<>>)
      /\ \A w \in Session : worker[w].sock = s /\ Alone(w) => Flow(s, worker[w].got)
  BY <1>1 DEF Streams
<1>3. <<>> \in Seq(Part) /\ <<>> \o <<>> = <<>>
  BY EmptySeq, ConcatEmptySeq
<1>4. ASSUME NEW g \in Seq(Part), Flow(s, g), worker[s].at = "none" => g \o down[s] = <<>>,
             \A w \in Session : Receive(w) => worker[w].sock # s
      PROVE  Flow(s, g)'
  <2>1. CASE Connect \/ UserDisconnect \/ \E w \in Session : ClientStep(w)
    BY <1>1, <1>4, <2>1, ClientFlow
  <2>2. CASE \/ GatewayStep \/ Stall \/ StopServer \/ UNCHANGED linkVars
             \/ \E t \in Session : Lose(t)
    BY <1>1, <1>4, <2>2, GatewayFlow
  <2> QED
    BY <2>1, <2>2 DEF LinkNext
<1>5. ASSUME worker'[s].at = "none" PROVE down'[s] = <<>>
  BY <1>1, <1>2, <1>5, NoneStep
<1>6. ASSUME Free(s)' PROVE Flow(s, <<>>)'
  <2>1. Free(s)
    BY <1>6, FreeBefore
  <2>2. worker[s].at = "none" => <<>> \o down[s] = <<>>
    BY <1>2, <1>3
  <2>3. \A w \in Session : Receive(w) => worker[w].sock # s
    BY <2>1 DEF Free
  <2> QED
    BY <2>1, <2>2, <2>3, <1>2, <1>3, <1>4
<1>7. ASSUME NEW w \in Session, worker'[w].sock = s, Alone(w)' PROVE Flow(s, worker[w].got)'
  <2>1. Others(w, s) /\ (worker[w].sock = s \/ (Begin(w) /\ Free(s)))
    BY <1>7, MineBefore
  <2>2. CASE worker[w].sock = s
    <3>1. Flow(s, worker[w].got) /\ worker[w].got \in Seq(Part) /\ worker[s].at # "none"
      BY <2>1, <2>2, <1>2, ComeType DEF Others, Alone, NotOpened
    <3>2. CASE Receive(w)
      BY <3>1, <3>2, <2>2, <1>1, ReceiveFlow
    <3>3. CASE ~Receive(w)
      <4>1. \A v \in Session : Receive(v) => worker[v].sock # s
        BY <2>1, <3>3 DEF Others
      <4> DEFINE g == worker[w].got
      <4>2. g \in Seq(Part) /\ Flow(s, g)
        BY <3>1
      <4>3. worker'[w].got = g
        BY <2>2, <3>3, <1>1, GotKept
      <4>4. \A h : h = g => Flow(s, h)'
        <5> HIDE DEF g
        <5> QED
          BY <4>1, <4>2, <3>1, <1>4
      <4> QED
        BY <4>3, <4>4 DEF Flow
    <3> QED
      BY <3>2, <3>3
  <2>3. CASE Begin(w) /\ Free(s)
    <3>1. worker'[w].got = worker[w].got /\ worker[w].at = "begin" /\ down' = down
          /\ UNCHANGED <<queue, conn, tx>>
      BY <2>3, BeginEffect DEF gatewayVars
    <3>2. worker'[w].got = <<>>
      BY <3>1 DEF Manners
    <3>3. Flow(s, <<>>)'
      BY <2>3, <3>1, <1>2, <1>3, FlowKept DEF Flow
    <3> QED
      BY <3>2, <3>3 DEF Flow
  <2> QED
    BY <2>1, <2>2, <2>3
<1> QED
  BY <1>5, <1>6, <1>7

LEMMA StreamsInit == LinkInit => Streams
<1> SUFFICES ASSUME LinkInit, NEW s \in Session
             PROVE  /\ down[s] = <<>> /\ Flow(s, <<>>)
                    /\ \A w \in Session : Flow(s, worker[w].got)
  BY DEF Streams
<1>1. <<>> \o <<>> = <<>> /\ Len(<<>>) = 0
  BY EmptySeq, ConcatEmptySeq
<1>2. /\ \A w \in Session : worker[w].got = <<>>
      /\ down[s] = <<>> /\ ~tx /\ queue = <<>>
  BY DEF LinkInit
<1>3. InFrames(<<>>) /\ Flow(s, <<>>)
  BY <1>1, <1>2 DEF InFrames, Flow
<1> QED
  BY <1>2, <1>3

-----------------------------------------------------------------------------
(* The answers that have been got. *)

Fits(w) ==
  answer[w].poll > 0 /\ Alone(w) =>
    /\ Owed(w) => answer[w].frame = FrameOf(<<worker[w].sock, answer[w].poll>>)
    /\ proto \in Stream => \E c \in Command : answer[w].frame = FrameOf(c)

Fit == \A w \in Session : Fits(w)

LEMMA FitsMeans == OwnParts /\ Fit => AnswerFits
BY DEF OwnParts, OwnWorker, Of, Fit, Fits, AnswerFits, Owed

LEMMA AnswerStep ==
  ASSUME LinkTypeOK, NotOpened, Manners, LockStep, Streams, Fit, [LinkNext]_linkVars
  PROVE  Fit'
<1> SUFFICES ASSUME NEW w \in Session, answer'[w].poll > 0, Alone(w)'
             PROVE  /\ Owed(w)' => (answer[w].frame = FrameOf(<<worker[w].sock, answer[w].poll>>))'
                    /\ proto' \in Stream => (\E c \in Command : answer[w].frame = FrameOf(c))'
  BY DEF Fit, Fits, Stream
<1> DEFINE Goal == /\ Owed(w)' => (answer[w].frame = FrameOf(<<worker[w].sock, answer[w].poll>>))'
                   /\ proto' \in Stream => (\E c \in Command : answer[w].frame = FrameOf(c))'
<1> SUFFICES Goal
  OBVIOUS
<1>1. proto' = proto /\ (Owed(w)' => Owed(w)) /\ Fits(w)
  BY LinkKeeps, OwedBefore DEF Fit
<1>2. \A c : FrameOf(c)' = [k \in 1 .. Parts |-> <<c, k>>] /\ Parts' = Parts
  BY <1>1, PartsKept DEF FrameOf
<1>3. ASSUME answer'[w] = answer[w] PROVE Goal
  <2>1. worker[w].sock # 0
    <3>1. ~(0 > 0)
      OBVIOUS
    <3>2. answer[w] # NoAnswer
      BY <3>1, <1>3 DEF NoAnswer
    <3> QED
      BY <3>2 DEF Manners
  <2>2. worker'[w].sock = worker[w].sock /\ Alone(w)
    BY <2>1, SockStays, AloneBefore
  <2>3. /\ Owed(w) => answer[w].frame = FrameOf(<<worker[w].sock, answer[w].poll>>)
        /\ proto \in Stream => \E c \in Command : answer[w].frame = FrameOf(c)
    BY <2>2, <1>1, <1>3 DEF Fits
  <2>4. (FrameOf(<<worker[w].sock, answer[w].poll>>))' = FrameOf(<<worker[w].sock, answer[w].poll>>)
    BY <2>2, <1>1, <1>3, PartsKept DEF FrameOf
  <2>5. (\E c \in Command : answer[w].frame = FrameOf(c)) =>
          (\E c \in Command : answer[w].frame = FrameOf(c))'
    BY <1>1, <1>3, PartsKept DEF FrameOf
  <2> QED
    BY <2>3, <2>4, <2>5, <1>1, <1>3
<1>4. ASSUME NEW v \in Session, Receive(v) PROVE Goal
  <2>1. CASE v # w
    BY <2>1, <1>3, <1>4, ReceiveEffect
  <2>2. CASE v = w /\ Len(worker[w].got) + 1 # Parts
    BY <2>2, <1>3, <1>4, ReceiveEffect
  <2>3. CASE v = w /\ Len(worker[w].got) + 1 = Parts
    <3> DEFINE s == worker[w].sock
               frame == Append(worker[w].got, Head(down[s]))
    <3>1. /\ Receive(w) /\ s \in Session /\ s \notin closed /\ down[s] # <<>> /\ worker[w].at = "recv"
          /\ worker'[w].sock = s
          /\ answer' = [answer EXCEPT ![w] = [poll |-> worker[w].poll, frame |-> frame]]
      BY <1>4, <2>3, ReceiveEffect
    <3>2. answer'[w].poll = worker[w].poll /\ answer'[w].frame = frame
      <4>1. answer \in [Session -> Answers]
        BY TypeParts DEF ClientTypeOK
      <4> HIDE DEF frame
      <4> QED
        BY <3>1, <4>1
    <3>3. Alone(w)
      BY <3>1, Bounds, AloneBefore
    <3> HIDE DEF s
    <3>4. Owed(w) => worker[w].poll = polls[s] /\ frame = FrameOf(<<s, polls[s]>>)
      <4> SUFFICES ASSUME Owed(w)
                   PROVE  worker[w].poll = polls[s] /\ frame = FrameOf(<<s, polls[s]>>)
        OBVIOUS
      <4>1. InStep(w, s)
        BY <3>1, <3>3 DEF LockStep, s
      <4>2. Come(w, s) = FrameOf(<<s, polls[s]>>) /\ worker[w].poll = polls[s]
        BY <3>1, <4>1, ComeType DEF InStep
      <4>3. Len(worker[w].got \o down[s]) = Len(worker[w].got) + 1
        BY <4>2, <2>3, FrameLength DEF Come
      <4>4. frame = worker[w].got \o down[s]
        BY <3>1, <4>3, ComeType, LastTaken
      <4> QED
        BY <4>2, <4>4 DEF Come
    <3>5. proto \in Stream => \E c \in Command : frame = FrameOf(c)
      <4> SUFFICES ASSUME proto \in Stream PROVE \E c \in Command : frame = FrameOf(c)
        OBVIOUS
      <4>1. Flow(s, worker[w].got) /\ proto # "UDP"
        BY <3>1, <3>3 DEF Streams, Stream, s
      <4>2. InFrames(Come(w, s))
        BY <4>1 DEF Flow, Come
      <4> QED
        BY <3>1, <4>1, <4>2, <2>3, StreamReceive DEF s
    <3> HIDE DEF frame
    <3>6. worker[w].poll = polls[s] =>
            (FrameOf(<<worker[w].sock, answer[w].poll>>))' = FrameOf(<<s, polls[s]>>)
      BY <3>1, <3>2, <1>1, PartsKept DEF FrameOf
    <3>7. Owed(w)' => (answer[w].frame = FrameOf(<<worker[w].sock, answer[w].poll>>))'
      BY <3>2, <3>4, <3>6, <1>1
    <3>8. proto' \in Stream => (\E c \in Command : answer[w].frame = FrameOf(c))'
      BY <3>2, <3>5, <1>1, PartsKept DEF FrameOf
    <3> QED
      BY <3>7, <3>8
  <2> QED
    BY <2>1, <2>2, <2>3
<1>5. ASSUME NEW v \in Session, Poll(v) PROVE Goal
  <2>1. v # w
    <3>1. v = w => answer'[w] = NoAnswer
      BY <1>5, PollOthers
    <3>2. ~(0 > 0)
      OBVIOUS
    <3> QED
      BY <3>1, <3>2 DEF NoAnswer
  <2>2. UNCHANGED proto /\ worker'[w] = worker[w] /\ answer'[w] = answer[w]
    BY <2>1, <1>5, PollOthers
  <2> QED
    BY <2>1, <2>2, <1>3, <1>5, PollOthers
<1>6. CASE \/ Connect \/ UserDisconnect
           \/ \E v \in Session : Begin(v) \/ LoopEnds(v) \/ PollAgain(v) \/ DeferredDisconnect(v)
  BY <1>3, <1>6 DEF Connect, UserDisconnect, Close, Begin, LoopEnds, PollAgain, DeferredDisconnect
<1>7. CASE GatewayStep \/ Stall \/ StopServer \/ \E t \in Session : Lose(t)
  BY <1>3, <1>7, GatewayLeaves DEF clientVars
<1>8. CASE UNCHANGED linkVars
  BY <1>3, <1>8 DEF linkVars, clientVars
<1> HIDE DEF Goal
<1> QED
  BY <1>4, <1>5, <1>6, <1>7, <1>8 DEF LinkNext, ClientStep

LEMMA AnswerInit == LinkInit => Fit
<1> SUFFICES ASSUME LinkInit, NEW w \in Session PROVE ~(answer[w].poll > 0)
  BY DEF Fit, Fits
<1>1. answer[w].poll = 0
  BY DEF LinkInit, NoAnswer
<1> QED
  BY <1>1

\* With question and answer, over TCP and UDP, whatever is lost, late or thrown away and
\* whichever workers of the test client have come to share a socket, no part of an answer is
\* about a session other than that of the socket it has come over.  The answer a worker has
\* got over a socket it shares with nobody is about the poll it is counted for: over TCP as
\* long as the gateway has not thrown away the beginning of a frame, whoever disconnects and
\* connects meanwhile, over UDP as long as no poll of the worker has gone without its answer
\* in time.  And what such a worker takes from a stream for a frame of inputs is one, also
\* when the transmit thread has given up in the middle of another.
THEOREM AnswersFit == LinkSpec => []AnswerFits
<1> DEFINE Inv == /\ LinkTypeOK /\ NotOpened /\ Ordered /\ Manners /\ Untouched
                  /\ OwnParts /\ LockStep /\ Streams /\ Fit
<1>1. LinkInit => Inv
  BY TypeInit, NotOpenedInit, OrderInit, MannersInit, UntouchedInit, OwnPartsInit, LockStepInit,
     StreamsInit, AnswerInit
<1>2. Inv /\ [LinkNext]_linkVars => Inv'
  BY TypeStep, OrderStep, MannersStep, UntouchedStep, OwnPartsStep, LockStepStep, StreamsStep,
     AnswerStep
<1>3. Inv => AnswerFits
  BY FitsMeans
<1> QED
  BY <1>1, <1>2, <1>3, PTL DEF LinkSpec

-----------------------------------------------------------------------------
(* Frames, byte by byte. *)

LEMMA OverheadIs == Overhead = 7
BY DEF Overhead, SOF, EOF

\* The bytes of a block.
BlockOf(block, drive, data, len) ==
  /\ Len(block) = len + 7
  /\ block[1] = 170 /\ block[2] = 85 /\ block[3] = drive
  /\ 256 * block[4] + block[5] = len
  /\ \A k \in 1 .. len : block[5 + k] = data[k]
  /\ block[len + 6] = 85 /\ block[len + 7] = 170

LEMMA InTwoBytes ==
  ASSUME NEW len \in Nat, len <= 65535
  PROVE  len \div 256 \in Byte /\ len % 256 \in Byte /\ 256 * (len \div 256) + (len % 256) = len
<1>1. len \div 256 \in 0 .. 255
  <2>1. len \div 256 \in Int
    OBVIOUS
  <2>2. len \div 256 <= 255
    OBVIOUS
  <2>3. len \div 256 >= 0
    OBVIOUS
  <2> QED
    BY <2>1, <2>2, <2>3
<1>2. len % 256 \in 0 .. 255
  OBVIOUS
<1>3. 256 * (len \div 256) + (len % 256) = len
  OBVIOUS
<1> QED
  BY <1>1, <1>2, <1>3 DEF Byte

LEMMA BlockIs ==
  ASSUME NEW i \in Nat, i <= 255, NEW data \in Seq(Byte), Len(data) <= 65535
  PROVE  Block(i, data) \in Seq(Byte) /\ BlockOf(Block(i, data), i, data, Len(data))
<1> DEFINE len == Len(data)
           high == len \div 256
           low == len % 256
           numbers == <<i % 256, high, low>>
           head == SOF \o numbers
           most == head \o data
           block == most \o EOF
<1>1. len \in Nat /\ len <= 65535
  OBVIOUS
<1>2. high \in Byte /\ low \in Byte /\ 256 * high + low = len
  <2>1. /\ len \div 256 \in Byte /\ len % 256 \in Byte
        /\ 256 * (len \div 256) + (len % 256) = len
    <3> HIDE DEF len
    <3> QED
      BY <1>1, InTwoBytes
  <2> HIDE DEF len
  <2> QED
    BY <2>1
<1>3. i % 256 = i
  OBVIOUS
<1>4. Block(i, data) = block
  BY DEF Block
<1> HIDE DEF high, low, most, head, block
<1>5. /\ numbers \in Seq(Byte) /\ Len(numbers) = 3
      /\ numbers[1] = i /\ numbers[2] = high /\ numbers[3] = low
  BY <1>2, <1>3 DEF Byte
<1>6. /\ SOF \in Seq(Byte) /\ Len(SOF) = 2 /\ SOF[1] = 170 /\ SOF[2] = 85
      /\ EOF \in Seq(Byte) /\ Len(EOF) = 2 /\ EOF[1] = 85 /\ EOF[2] = 170
  BY DEF Byte, SOF, EOF
<1> HIDE DEF len, numbers
<1>7. head \in Seq(Byte) /\ JoinedOf(head, SOF, numbers, Len(SOF), Len(numbers))
  <2>1. SOF \in Seq(Byte) /\ numbers \in Seq(Byte)
    BY <1>5, <1>6
  <2> QED
    BY <2>1, JoinedIs DEF head
<1>8. /\ Len(head) = 5
      /\ head[1] = 170 /\ head[2] = 85 /\ head[3] = i /\ head[4] = high /\ head[5] = low
  <2>1. /\ Len(head) = 2 + 3
        /\ \A k \in 1 .. 2 : head[k] = SOF[k]
        /\ \A k \in 1 .. 3 : head[2 + k] = numbers[k]
    BY <1>5, <1>6, <1>7 DEF JoinedOf
  <2>2. head[1] = SOF[1] /\ head[2] = SOF[2]
    BY <2>1
  <2>3. head[2 + 1] = numbers[1] /\ head[2 + 2] = numbers[2] /\ head[2 + 3] = numbers[3]
    BY <2>1
  <2> QED
    BY <1>5, <1>6, <2>1, <2>2, <2>3
<1>9. most \in Seq(Byte) /\ JoinedOf(most, head, data, Len(head), len)
  BY <1>7, JoinedIs DEF len, most
<1>10. /\ Len(most) = 5 + len
       /\ \A k \in 1 .. 5 : most[k] = head[k]
       /\ \A k \in 1 .. len : most[5 + k] = data[k]
  BY <1>8, <1>9 DEF JoinedOf
<1>11. block \in Seq(Byte) /\ JoinedOf(block, most, EOF, Len(most), Len(EOF))
  <2>1. most \in Seq(Byte) /\ EOF \in Seq(Byte)
    BY <1>6, <1>9
  <2> QED
    BY <2>1, JoinedIs DEF block
<1>12. /\ Len(block) = Len(most) + 2
       /\ \A k \in 1 .. Len(most) : block[k] = most[k]
       /\ \A k \in 1 .. 2 : block[Len(most) + k] = EOF[k]
  BY <1>6, <1>11 DEF JoinedOf
<1>0. Len(most) = 5 + len
  BY <1>10
<1>13. Len(block) = len + 7
  <2>1. Len(block) = Len(most) + 2
    BY <1>12
  <2> QED
    BY <1>0, <1>1, <2>1
<1>14. ASSUME NEW k \in 1 .. 5 PROVE block[k] = head[k]
  <2>1. k \in 1 .. Len(most)
    BY <1>0, <1>1
  <2> QED
    BY <1>10, <1>12, <2>1
<1>15. ASSUME NEW k \in 1 .. len PROVE block[5 + k] = data[k]
  <2>1. 5 + k \in 1 .. Len(most)
    BY <1>0, <1>1
  <2> QED
    BY <1>10, <1>12, <2>1
<1>16. block[len + 6] = 85 /\ block[len + 7] = 170
  <2>1. Len(most) + 1 = len + 6 /\ Len(most) + 2 = len + 7
    BY <1>0, <1>1
  <2>2. block[Len(most) + 1] = EOF[1] /\ block[Len(most) + 2] = EOF[2]
    BY <1>12
  <2> QED
    BY <1>6, <2>1, <2>2
<1>17. block[1] = 170 /\ block[2] = 85 /\ block[3] = i /\ block[4] = high /\ block[5] = low
  BY <1>8, <1>14
<1>18. 256 * block[4] + block[5] = len
  BY <1>2, <1>17
<1>19. BlockOf(block, i, data, len)
  BY <1>13, <1>15, <1>16, <1>17, <1>18 DEF BlockOf
<1> QED
  BY <1>4, <1>11, <1>19 DEF len

-----------------------------------------------------------------------------
(* What is found in a frame. *)

RecAt(frame, p) ==
  [drive |-> frame[p + 3], data |-> SubSeq(frame, p + 6, p + 5 + LengthAt(frame, p))]

\* What is found from each place on.
Scans(frame, n, h) ==
  /\ \A p \in 0 .. n : p + 7 > n => h[p] = <<>>
  /\ \A p \in 0 .. n : p + 7 <= n /\ ~BlockAt(frame, p) => h[p] = h[p + 1]
  /\ \A p \in 0 .. n : BlockAt(frame, p) =>
       h[p] = <<RecAt(frame, p)>> \o h[p + 7 + LengthAt(frame, p)]

LEMMA BlocksScan ==
  ASSUME NEW frame \in Seq(Byte)
  PROVE  \E h : Scans(frame, Len(frame), h) /\ Blocks(frame) = h[0]
<1> DEFINE n == Len(frame)
           Rec == [drive : Byte, data : Seq(Byte)]
           end(p) == p + 7 + LengthAt(frame, p)
           rec(p) == RecAt(frame, p)
           jump == [p \in 0 .. n |-> IF p + 7 > n THEN n + 1
                                     ELSE IF ~BlockAt(frame, p) THEN p + 1 ELSE end(p)]
           step == [e \in (0 .. n) \X Seq(Rec) |->
                      IF ~BlockAt(frame, e[1]) \/ e[1] + 7 > n THEN e[2] ELSE <<rec(e[1])>> \o e[2]]
           Eq(h) == h = [p \in 0 .. n |->
                           IF p + 7 > n THEN <<>>
                           ELSE IF ~BlockAt(frame, p) THEN h[p + 1]
                           ELSE <<[drive |-> frame[p + 3],
                                   data |-> SubSeq(frame, p + 6, p + 5 + LengthAt(frame, p))]>>
                                  \o h[p + 7 + LengthAt(frame, p)]]
           it == CHOOSE h : Eq(h)
<1>1. n \in Nat /\ \A p \in 1 .. n : frame[p] \in Byte
  OBVIOUS
<1>2. ASSUME NEW p \in 0 .. n, p + 7 <= n
      PROVE  LengthAt(frame, p) \in Nat /\ end(p) > p /\ end(p) \in Nat
  <2>1. p + 4 \in 1 .. n /\ p + 5 \in 1 .. n
    BY <1>1, <1>2
  <2>2. frame[p + 4] \in Nat /\ frame[p + 5] \in Nat
    <3>1. \A b \in Byte : b \in Nat
      BY DEF Byte
    <3> HIDE DEF n
    <3> QED
      BY <1>1, <2>1, <3>1
  <2>3. LengthAt(frame, p) \in Nat
    BY <2>2 DEF LengthAt
  <2> QED
    BY <2>3
<1>3. ASSUME NEW p \in 0 .. n, BlockAt(frame, p)
      PROVE  p + 7 <= n /\ end(p) <= n /\ rec(p) \in Rec
  <2>1. p + 7 <= n /\ end(p) <= n
    BY <1>3, OverheadIs DEF BlockAt
  <2>2. LengthAt(frame, p) \in Nat
    BY <1>2, <2>1
  <2>3. p + 3 \in 1 .. n
    BY <1>1, <2>1
  <2>4. \A i \in p + 6 .. p + 5 + LengthAt(frame, p) : i \in 1 .. n
    BY <1>1, <2>1, <2>2
  <2>5. SubSeq(frame, p + 6, p + 5 + LengthAt(frame, p)) \in Seq(Byte)
    BY <1>1, <2>2, <2>4, SubSeqProperties
  <2> QED
    BY <1>1, <2>1, <2>3, <2>5 DEF RecAt
<1> HIDE DEF end, rec, Rec
<1>4. \A p \in 0 .. n : jump[p] \in Nat /\ jump[p] > p
  <2> SUFFICES ASSUME NEW p \in 0 .. n PROVE jump[p] \in Nat /\ jump[p] > p
    OBVIOUS
  <2>1. CASE p + 7 > n
    BY <1>1, <2>1
  <2>2. CASE p + 7 <= n
    <3>1. jump[p] = IF ~BlockAt(frame, p) THEN p + 1 ELSE end(p)
      BY <1>1, <2>2
    <3>2. CASE BlockAt(frame, p)
      BY <1>2, <2>2, <3>1, <3>2
    <3>3. CASE ~BlockAt(frame, p)
      BY <3>1, <3>3
    <3> QED
      BY <3>2, <3>3
  <2>3. p + 7 > n \/ p + 7 <= n
    BY <1>1
  <2> QED
    BY <2>1, <2>2, <2>3
<1>5. jump \in [0 .. n -> Nat]
  <2>1. jump = [p \in 0 .. n |-> jump[p]]
    OBVIOUS
  <2> HIDE DEF jump
  <2> QED
    BY <1>4, <2>1
<1>6. \A p \in 0 .. n, v \in Seq(Rec) :
        step[<<p, v>>] = IF ~BlockAt(frame, p) \/ p + 7 > n THEN v ELSE <<rec(p)>> \o v
  OBVIOUS
<1>7. step \in [(0 .. n) \X Seq(Rec) -> Seq(Rec)]
  <2>1. ASSUME NEW p \in 0 .. n, NEW v \in Seq(Rec)
        PROVE  (IF ~BlockAt(frame, p) \/ p + 7 > n THEN v ELSE <<rec(p)>> \o v) \in Seq(Rec)
    <3>1. BlockAt(frame, p) => <<rec(p)>> \in Seq(Rec)
      BY <1>3
    <3> QED
      BY <3>1, ConcatProperties
  <2> QED
    BY <2>1
<1>8. \A p \in 0 .. n : jump[p] = IF p + 7 > n THEN n + 1
                                  ELSE IF ~BlockAt(frame, p) THEN p + 1 ELSE end(p)
  OBVIOUS
<1>9. \E h : Eq(h)
  <2>0. <<>> \in Seq(Rec)
    OBVIOUS
  <2>1. PICK h \in [0 .. n -> Seq(Rec)] : \A p \in 0 .. n : Scanned(n, jump, <<>>, step, h, p)
    <3> HIDE DEF n, jump, step
    <3> QED
      BY <1>1, <1>4, <1>5, <1>7, <2>0, ScanExists
  <2> HIDE DEF jump, step
  <2>2. ASSUME NEW p \in 0 .. n
        PROVE  h[p] = IF p + 7 > n THEN <<>>
                      ELSE IF ~BlockAt(frame, p) THEN h[p + 1]
                      ELSE <<rec(p)>> \o h[end(p)]
    <3>1. h[p] = IF jump[p] > n THEN <<>> ELSE step[<<p, h[jump[p]]>>]
      BY <2>1 DEF Scanned
    <3>2. CASE p + 7 > n
      <4>1. jump[p] = n + 1 /\ n + 1 > n
        BY <1>1, <1>8, <3>2
      <4> QED
        BY <3>1, <3>2, <4>1
    <3>3. CASE p + 7 <= n
      <4>1. ~(p + 7 > n) /\ p + 1 <= n /\ p + 1 \in 0 .. n
        BY <1>1, <3>3
      <4>2. CASE BlockAt(frame, p)
        <5>1. jump[p] = end(p) /\ ~(end(p) > n) /\ end(p) \in 0 .. n
          BY <1>1, <1>2, <1>3, <1>8, <3>3, <4>1, <4>2
        <5>2. h[end(p)] \in Seq(Rec)
          BY <2>1, <5>1
        <5>3. step[<<p, h[end(p)]>>] = <<rec(p)>> \o h[end(p)]
          BY <1>6, <4>1, <4>2, <5>2
        <5> QED
          BY <3>1, <4>1, <4>2, <5>1, <5>3
      <4>3. CASE ~BlockAt(frame, p)
        <5>1. jump[p] = p + 1 /\ ~(p + 1 > n)
          BY <1>1, <1>8, <4>1, <4>3
        <5>2. h[p + 1] \in Seq(Rec)
          BY <2>1, <4>1
        <5>3. step[<<p, h[p + 1]>>] = h[p + 1]
          BY <1>6, <4>1, <4>3, <5>2
        <5> QED
          BY <3>1, <4>1, <4>3, <5>1, <5>3
      <4> QED
        BY <4>2, <4>3
    <3>4. p + 7 > n \/ p + 7 <= n
      BY <1>1
    <3> QED
      BY <3>2, <3>3, <3>4
  <2>3. h = [p \in 0 .. n |-> h[p]]
    BY <2>1
  <2> HIDE DEF n, it
  <2>4. Eq(h)
    BY <2>2, <2>3 DEF rec, RecAt, end
  <2> HIDE DEF Eq
  <2> QED
    BY <2>4
<1>10. Eq(it)
  <2> HIDE DEF Eq
  <2> QED
    BY <1>9
<1>11. Blocks(frame) = it[0]
  BY OverheadIs DEF Blocks
<1> HIDE DEF it
<1>12. \A p \in 0 .. n : it[p] =
          IF p + 7 > n THEN <<>>
          ELSE IF ~BlockAt(frame, p) THEN it[p + 1]
          ELSE <<RecAt(frame, p)>> \o it[p + 7 + LengthAt(frame, p)]
  BY <1>10 DEF RecAt
<1> HIDE DEF Eq
<1>13. Scans(frame, n, it)
  <2>1. \A p \in 0 .. n : p + 7 <= n => ~(p + 7 > n)
    BY <1>1
  <2>2. \A p \in 0 .. n : BlockAt(frame, p) => p + 7 <= n
    BY <1>3
  <2> HIDE DEF n
  <2> QED
    BY <1>12, <2>1, <2>2 DEF Scans
<1> QED
  BY <1>11, <1>13

LEMMA BlockFound ==
  ASSUME NEW frame \in Seq(Byte), NEW p \in Nat, NEW i \in Nat, i <= 255,
         NEW data \in Seq(Byte), Len(data) <= 65535, HoldsAt(frame, p, Block(i, data))
  PROVE  /\ BlockAt(frame, p) /\ LengthAt(frame, p) = Len(data)
         /\ RecAt(frame, p) = [drive |-> i, data |-> data]
<1> DEFINE block == Block(i, data)
           len == Len(data)
<1>1. block \in Seq(Byte) /\ BlockOf(block, i, data, len)
  BY BlockIs
<1>2. /\ p + Len(block) <= Len(frame)
      /\ \A k \in 1 .. Len(block) : frame[p + k] = block[k]
  BY DEF HoldsAt
<1>3. len \in Nat /\ Len(frame) \in Nat
  OBVIOUS
<1> HIDE DEF block, len
<1>4. /\ Len(block) = len + 7
      /\ block[1] = 170 /\ block[2] = 85 /\ block[3] = i
      /\ 256 * block[4] + block[5] = len
      /\ \A k \in 1 .. len : block[5 + k] = data[k]
      /\ block[len + 6] = 85 /\ block[len + 7] = 170
  BY <1>1 DEF BlockOf
<1>5. /\ frame[p + 1] = 170 /\ frame[p + 2] = 85 /\ frame[p + 3] = i
      /\ frame[p + 4] = block[4] /\ frame[p + 5] = block[5]
  <2>1. /\ 1 \in 1 .. Len(block) /\ 2 \in 1 .. Len(block) /\ 3 \in 1 .. Len(block)
        /\ 4 \in 1 .. Len(block) /\ 5 \in 1 .. Len(block)
    BY <1>3, <1>4
  <2>2. /\ frame[p + 1] = block[1] /\ frame[p + 2] = block[2] /\ frame[p + 3] = block[3]
        /\ frame[p + 4] = block[4] /\ frame[p + 5] = block[5]
    BY <1>2, <2>1
  <2> QED
    BY <1>4, <2>2
<1>6. LengthAt(frame, p) = len
  BY <1>4, <1>5 DEF LengthAt
<1>7. p + (len + 7) <= Len(frame)
  BY <1>2, <1>4
<1>8. SubSeq(frame, p + 1, p + 2) = SOF
  <2>1. SOF \in Seq(Nat) /\ Len(SOF) = 2 /\ SOF[1] = 170 /\ SOF[2] = 85
    BY DEF SOF
  <2>2. HoldsAt(frame, p, SOF)
    <3>1. p + 2 <= Len(frame)
      BY <1>3, <1>7
    <3>2. \A k \in 1 .. 2 : k = 1 \/ k = 2
      OBVIOUS
    <3>3. frame[p + 1] = SOF[1] /\ frame[p + 2] = SOF[2]
      BY <1>5, <2>1
    <3>4. ASSUME NEW k \in 1 .. 2 PROVE frame[p + k] = SOF[k]
      <4>1. CASE k = 1
        BY <3>3, <4>1
      <4>2. CASE k = 2
        BY <3>3, <4>2
      <4> QED
        BY <3>2, <4>1, <4>2
    <3> QED
      BY <2>1, <3>1, <3>4 DEF HoldsAt
  <2>3. SubSeq(frame, p + 1, p + Len(SOF)) = SOF
    <3>1. SOF \in Seq(Nat)
      BY <2>1
    <3> QED
      BY <2>2, <3>1, PieceIs
  <2> QED
    BY <2>1, <2>3
<1>9. ASSUME NEW e, e = p + (len + 7) PROVE SubSeq(frame, e - 1, e) = EOF
  <2> DEFINE q == p + (len + 5)
  <2>1. EOF \in Seq(Nat) /\ Len(EOF) = 2 /\ EOF[1] = 85 /\ EOF[2] = 170
    BY DEF EOF
  <2>2. q \in Nat /\ q + 2 <= Len(frame) /\ q + 1 = e - 1 /\ q + 2 = e
        /\ q + 1 = p + (len + 6) /\ q + 2 = p + (len + 7)
    BY <1>3, <1>7, <1>9
  <2> HIDE DEF q
  <2>3. len + 6 \in 1 .. Len(block) /\ len + 7 \in 1 .. Len(block)
    BY <1>3, <1>4
  <2>4. frame[q + 1] = 85 /\ frame[q + 2] = 170
    <3>1. frame[p + (len + 6)] = block[len + 6] /\ frame[p + (len + 7)] = block[len + 7]
      BY <1>2, <2>3
    <3>2. block[len + 6] = 85 /\ block[len + 7] = 170
      BY <1>4
    <3>3. q + 1 = p + (len + 6) /\ q + 2 = p + (len + 7)
      BY <2>2
    <3> QED
      BY <3>1, <3>2, <3>3
  <2>5. HoldsAt(frame, q, EOF)
    BY <2>1, <2>2, <2>4 DEF HoldsAt
  <2>6. SubSeq(frame, q + 1, q + Len(EOF)) = EOF
    <3>1. EOF \in Seq(Nat) /\ q \in Nat
      BY <2>1, <2>2
    <3> QED
      BY <2>5, <3>1, PieceIs
  <2>7. q + 1 = e - 1 /\ q + Len(EOF) = e
    BY <2>1, <2>2
  <2> QED
    BY <2>6, <2>7
<1>10. BlockAt(frame, p)
  <2> DEFINE e == p + 7 + len
  <2>1. e = p + (len + 7) /\ e <= Len(frame) /\ p + 7 <= Len(frame)
    BY <1>3, <1>7
  <2> HIDE DEF e
  <2>2. SubSeq(frame, e - 1, e) = EOF
    BY <1>9, <2>1
  <2> QED
    BY <1>6, <1>8, <2>1, <2>2, OverheadIs DEF BlockAt, e
<1>11. SubSeq(frame, p + 6, p + 5 + len) = data
  <2> DEFINE q == p + 5
  <2>1. q \in Nat /\ q + 1 = p + 6 /\ q + len <= Len(frame)
    BY <1>3, <1>7
  <2>2. ASSUME NEW k \in 1 .. len PROVE frame[q + k] = data[k]
    <3>1. 5 + k \in 1 .. Len(block) /\ q + k = p + (5 + k)
      BY <1>3, <1>4
    <3>2. frame[p + (5 + k)] = block[5 + k]
      BY <1>2, <3>1
    <3>3. block[5 + k] = data[k]
      BY <1>4
    <3> HIDE DEF q
    <3> QED
      BY <3>1, <3>2, <3>3
  <2> HIDE DEF q
  <2>3. HoldsAt(frame, q, data)
    BY <2>1, <2>2 DEF HoldsAt, len
  <2>4. SubSeq(frame, q + 1, q + len) = data
    BY <2>1, <2>3, PieceIs DEF len
  <2> QED
    BY <2>1, <2>4 DEF q
<1>12. RecAt(frame, p) = [drive |-> i, data |-> data]
  <2>1. RecAt(frame, p) =
          [drive |-> frame[p + 3], data |-> SubSeq(frame, p + 6, p + 5 + LengthAt(frame, p))]
    BY DEF RecAt
  <2>2. SubSeq(frame, p + 6, p + 5 + LengthAt(frame, p)) = data
    BY <1>6, <1>11
  <2>3. frame[p + 3] = i
    BY <1>5
  <2> DEFINE d == SubSeq(frame, p + 6, p + 5 + LengthAt(frame, p))
             b == frame[p + 3]
  <2>4. RecAt(frame, p) = [drive |-> b, data |-> d] /\ d = data /\ b = i
    BY <2>1, <2>2, <2>3
  <2> HIDE DEF d, b
  <2> QED
    BY <2>4
<1> QED
  BY <1>6, <1>10, <1>12 DEF len

\* What a framed list of data is taken apart to.
BlocksOf(datas, n) == [k \in 1 .. n |-> [drive |-> k - 1, data |-> datas[k]]]

\* Where the blocks begin, behind the stray bytes.
BlocksAt(frame, datas, n, at) ==
  /\ at[1] \in Nat
  /\ \A i \in 1 .. n : at[i] \in Nat /\ at[i + 1] = at[i] + (Len(datas[i]) + 7)
  /\ \A i \in 1 .. n : HoldsAt(frame, at[i], Block(i - 1, datas[i]))
  /\ at[n + 1] = Len(frame)

LEMMA Framable ==
  ASSUME NEW datas, NEW stray, CanBeFramed(datas, stray)
  PROVE  /\ datas \in Seq(Seq(Byte)) /\ Len(datas) \in Nat /\ Len(datas) >= 1 /\ Len(datas) <= 256
         /\ DOMAIN datas = 1 .. Len(datas)
         /\ stray \in Seq(Byte) /\ Len(stray) \in Nat
         /\ \A i \in 1 .. Len(datas) :
              /\ datas[i] \in Seq(Byte) /\ Len(datas[i]) \in Nat /\ Len(datas[i]) <= 65535
              /\ Len(datas[i]) >= 4 /\ Len(datas[i]) = Len(datas[1])
<1>1. datas \in Seq(Seq(Byte)) /\ Len(datas) >= 1 /\ Len(datas) <= 256 /\ stray \in Seq(Byte)
  BY DEF CanBeFramed
<1>2. Len(datas) \in Nat /\ DOMAIN datas = 1 .. Len(datas) /\ Len(stray) \in Nat
  BY <1>1
<1>3. ASSUME NEW i \in 1 .. Len(datas)
      PROVE  /\ datas[i] \in Seq(Byte) /\ Len(datas[i]) \in Nat /\ Len(datas[i]) <= 65535
             /\ Len(datas[i]) >= 4 /\ Len(datas[i]) = Len(datas[1])
  <2>1. datas[i] \in Seq(Byte)
    BY <1>1
  <2>2. Len(datas[i]) = Len(datas[1]) /\ 4 <= Len(datas[i]) /\ Len(datas[i]) <= 65535
    <3>1. \A j \in DOMAIN datas : Len(datas[j]) = Len(datas[1]) /\ 4 <= Len(datas[j])
                                   /\ Len(datas[j]) <= 65535
      BY DEF CanBeFramed
    <3>2. i \in DOMAIN datas
      BY <1>2
    <3> QED
      BY <3>1, <3>2
  <2>3. Len(datas[i]) \in Nat
    BY <2>1
  <2> QED
    BY <2>1, <2>2, <2>3
<1> QED
  BY <1>1, <1>2, <1>3

LEMMA BlocksPlaced ==
  ASSUME NEW datas, NEW stray, CanBeFramed(datas, stray)
  PROVE  /\ Framed(datas) \in Seq(Byte) /\ stray \o Framed(datas) \in Seq(Byte)
         /\ \E at : /\ BlocksAt(stray \o Framed(datas), datas, Len(datas), at)
                    /\ at[1] = Len(stray)
<1> DEFINE n == Len(datas)
           blocks == [i \in DOMAIN datas |-> Block(i - 1, datas[i])]
           lens == [i \in 1 .. n |-> Len(datas[i]) + 7]
           flat == Framed(datas)
           frame == stray \o flat
           at == [i \in 1 .. n + 1 |-> Len(stray) + SumOf(lens, 1 .. i - 1)]
<1>1. /\ datas \in Seq(Seq(Byte)) /\ n \in Nat /\ n >= 1 /\ n <= 256 /\ DOMAIN datas = 1 .. n
      /\ stray \in Seq(Byte) /\ Len(stray) \in Nat
  BY Framable
<1>2. \A i \in 1 .. n : datas[i] \in Seq(Byte) /\ Len(datas[i]) \in Nat /\ Len(datas[i]) <= 65535
  BY Framable
<1> HIDE DEF n
<1>3. ASSUME NEW i \in 1 .. n
      PROVE  /\ blocks[i] = Block(i - 1, datas[i])
             /\ blocks[i] \in Seq(Byte) /\ Len(blocks[i]) = Len(datas[i]) + 7
  <2>1. i - 1 \in Nat /\ i - 1 <= 255
    BY <1>1
  <2>2. Block(i - 1, datas[i]) \in Seq(Byte)
        /\ BlockOf(Block(i - 1, datas[i]), i - 1, datas[i], Len(datas[i]))
    BY <1>2, <2>1, BlockIs
  <2> QED
    BY <1>1, <2>2 DEF BlockOf
<1>4. blocks \in [1 .. n -> Seq(Byte)]
  <2>1. blocks = [i \in 1 .. n |-> blocks[i]]
    BY <1>1
  <2> HIDE DEF blocks
  <2> QED
    BY <1>3, <2>1
<1>5. \A i \in 1 .. n : lens[i] = Len(blocks[i]) /\ lens[i] \in Nat /\ lens[i] = Len(datas[i]) + 7
  <2> SUFFICES ASSUME NEW i \in 1 .. n
               PROVE  lens[i] = Len(blocks[i]) /\ lens[i] \in Nat /\ lens[i] = Len(datas[i]) + 7
    OBVIOUS
  <2>1. lens[i] = Len(datas[i]) + 7
    OBVIOUS
  <2> HIDE DEF blocks, lens
  <2>2. Len(blocks[i]) = Len(datas[i]) + 7 /\ Len(datas[i]) \in Nat
    BY <1>2, <1>3
  <2> QED
    BY <2>1, <2>2
<1>6. flat = FlattenSeq(blocks)
  BY DEF Framed
<1>7. n \in Nat \ {0}
  BY <1>1
<1> HIDE DEF blocks, lens, flat
<1>8. flat \in Seq(Byte) /\ FlatOf(flat, blocks, lens, n)
  BY <1>4, <1>5, <1>6, <1>7, FlatIs
<1>9. /\ SumOf(lens, 1 .. 0) = 0
      /\ \A i \in 0 .. n : SumOf(lens, 1 .. i) \in Nat
      /\ \A i \in 1 .. n : SumOf(lens, 1 .. i) = SumOf(lens, 1 .. i - 1) + lens[i]
  BY <1>1, <1>5, SumPrefix
<1>10. frame \in Seq(Byte) /\ JoinedOf(frame, stray, flat, Len(stray), Len(flat))
  BY <1>1, <1>8, JoinedIs
<1>11. /\ Len(frame) = Len(stray) + Len(flat) /\ Len(flat) \in Nat
       /\ \A k \in 1 .. Len(flat) : frame[Len(stray) + k] = flat[k]
  BY <1>8, <1>10 DEF JoinedOf
<1> HIDE DEF frame
<1>12. \A i \in 1 .. n + 1 : at[i] = Len(stray) + SumOf(lens, 1 .. i - 1)
  OBVIOUS
<1> HIDE DEF at
<1>13. at[1] = Len(stray)
  <2>1. 1 \in 1 .. n + 1 /\ 1 - 1 = 0
    BY <1>1
  <2> QED
    BY <1>1, <1>9, <1>12, <2>1
<1>14. at[n + 1] = Len(frame)
  <2>1. n + 1 \in 1 .. n + 1 /\ (n + 1) - 1 = n
    BY <1>1
  <2> QED
    BY <1>8, <1>11, <1>12, <2>1 DEF FlatOf
<1>15. ASSUME NEW i \in 1 .. n
       PROVE  /\ at[i] \in Nat /\ at[i + 1] = at[i] + (Len(datas[i]) + 7)
              /\ HoldsAt(frame, at[i], Block(i - 1, datas[i]))
  <2> DEFINE a == SumOf(lens, 1 .. i - 1)
             b == Len(blocks[i])
             s == Len(stray)
             c == Len(flat)
  <2>1. i \in 1 .. n + 1 /\ i + 1 \in 1 .. n + 1 /\ (i + 1) - 1 = i /\ i - 1 \in 0 .. n
    BY <1>1
  <2>2. at[i] = s + a /\ at[i + 1] = s + SumOf(lens, 1 .. i)
    BY <1>12, <2>1
  <2>3. SumOf(lens, 1 .. i) = a + b /\ b = Len(datas[i]) + 7 /\ a \in Nat /\ b \in Nat
    BY <1>5, <1>9, <2>1
  <2>4. HoldsAt(flat, a, blocks[i])
    BY <1>8 DEF FlatOf
  <2>5. a + b <= c /\ \A k \in 1 .. b : flat[a + k] = blocks[i][k]
    BY <2>4 DEF HoldsAt
  <2>6. s \in Nat /\ c \in Nat /\ Len(frame) = s + c
        /\ \A k \in 1 .. c : frame[s + k] = flat[k]
    BY <1>1, <1>11
  <2> HIDE DEF a, b, s, c
  <2>7. at[i] \in Nat /\ at[i + 1] = at[i] + b
    <3>1. at[i] = s + a /\ at[i + 1] = s + (a + b) /\ s \in Nat /\ a \in Nat /\ b \in Nat
      BY <2>2, <2>3, <2>6
    <3> QED
      BY <3>1
  <2>8. at[i] + b <= Len(frame)
    <3>1. /\ at[i] = s + a /\ Len(frame) = s + c /\ a + b <= c
          /\ s \in Nat /\ a \in Nat /\ b \in Nat /\ c \in Nat
      BY <2>2, <2>3, <2>5, <2>6
    <3> QED
      BY <3>1
  <2>9. ASSUME NEW k \in 1 .. b PROVE frame[at[i] + k] = blocks[i][k]
    <3>1. a + k \in 1 .. c /\ at[i] + k = s + (a + k)
      BY <2>2, <2>3, <2>5, <2>6
    <3> QED
      BY <2>5, <2>6, <3>1
  <2>10. HoldsAt(frame, at[i], blocks[i])
    BY <2>8, <2>9 DEF HoldsAt, b
  <2> QED
    BY <1>3, <2>3, <2>7, <2>10
<1>16. BlocksAt(frame, datas, n, at)
  <2>1. at[1] \in Nat
    BY <1>1, <1>13
  <2> QED
    BY <1>14, <1>15, <2>1 DEF BlocksAt
<1> QED
  BY <1>8, <1>10, <1>13, <1>16 DEF n, frame, flat

RestOf(datas, n, i) ==
  [k \in 1 .. n + 1 - i |-> [drive |-> i + k - 2, data |-> datas[i + k - 1]]]

LEMMA RestIs ==
  ASSUME NEW n \in Nat, NEW datas \in Seq(Seq(Byte)), Len(datas) = n, NEW i \in 1 .. n
  PROVE  <<[drive |-> i - 1, data |-> datas[i]]>> \o RestOf(datas, n, i + 1) = RestOf(datas, n, i)
<1> DEFINE Rec == [drive : Int, data : Seq(Byte)]
           x == [drive |-> i - 1, data |-> datas[i]]
           s == RestOf(datas, n, i + 1)
           r == RestOf(datas, n, i)
           m == n - i
<1>1. m \in Nat /\ n + 1 - i = m + 1 /\ n + 1 - (i + 1) = m
  OBVIOUS
<1>2. \A k \in 1 .. m + 1 : i + k - 1 \in 1 .. n
  BY <1>1
<1>3. \A k \in 1 .. m : i + 1 + k - 1 \in 1 .. n
  BY <1>1
<1>4. \A j \in 1 .. n : datas[j] \in Seq(Byte)
  OBVIOUS
<1>5. x \in Rec
  BY <1>4
<1>6. s = [k \in 1 .. m |-> [drive |-> i + 1 + k - 2, data |-> datas[i + 1 + k - 1]]]
  BY <1>1 DEF RestOf
<1>7. r = [k \in 1 .. m + 1 |-> [drive |-> i + k - 2, data |-> datas[i + k - 1]]]
  BY <1>1 DEF RestOf
<1> HIDE DEF m, s, r
<1>8. s \in Seq(Rec) /\ Len(s) = m
  <2>1. s \in [1 .. m -> Rec]
    BY <1>3, <1>4, <1>6
  <2> HIDE DEF Rec
  <2> QED
    BY <1>1, <2>1
<1>9. r \in Seq(Rec) /\ Len(r) = m + 1
  <2>1. r \in [1 .. m + 1 -> Rec]
    BY <1>2, <1>4, <1>7
  <2> HIDE DEF Rec
  <2> QED
    BY <1>1, <2>1
<1>10. r[1] = x
  <2>1. 1 \in 1 .. m + 1 /\ i + 1 - 2 = i - 1 /\ i + 1 - 1 = i
    BY <1>1
  <2> QED
    BY <1>7, <2>1
<1>11. ASSUME NEW k \in 1 .. m PROVE r[k + 1] = s[k]
  <2>1. k + 1 \in 1 .. m + 1
    BY <1>1
  <2>2. i + (k + 1) - 2 = i + 1 + k - 2 /\ i + (k + 1) - 1 = i + 1 + k - 1
    BY <1>1
  <2>3. r[k + 1] = [drive |-> i + (k + 1) - 2, data |-> datas[i + (k + 1) - 1]]
    BY <1>7, <2>1
  <2>4. s[k] = [drive |-> i + 1 + k - 2, data |-> datas[i + 1 + k - 1]]
    BY <1>6
  <2> QED
    BY <2>2, <2>3, <2>4
<1> HIDE DEF Rec, x
<1>12. <<x>> \o s = r
  BY <1>5, <1>8, <1>9, <1>10, <1>11, Prepended
<1> QED
  BY <1>12 DEF x, s, r

LEMMA BlocksAre ==
  ASSUME NEW datas, NEW stray, CanBeFramed(datas, stray)
  PROVE  Blocks(stray \o Framed(datas)) = BlocksOf(datas, Len(datas))
<1> DEFINE n == Len(datas)
           frame == stray \o Framed(datas)
<1>1. /\ datas \in Seq(Seq(Byte)) /\ n \in Nat /\ n >= 1 /\ n <= 256
      /\ Len(stray) \in Nat
      /\ \A i \in 1 .. n : datas[i] \in Seq(Byte) /\ Len(datas[i]) \in Nat /\ Len(datas[i]) <= 65535
  BY Framable
<1>2. PICK at : BlocksAt(frame, datas, n, at) /\ at[1] = Len(stray)
  BY BlocksPlaced
<1>3. frame \in Seq(Byte)
  BY BlocksPlaced
<1>4. \A p \in 0 .. Len(stray) - 1 : ~BlockAt(frame, p)
  BY DEF CanBeFramed
<1>5. PICK h : Scans(frame, Len(frame), h) /\ Blocks(frame) = h[0]
  BY <1>3, BlocksScan
<1>6. Len(frame) \in Nat
  BY <1>3
<1> HIDE DEF n, frame
<1>7. /\ \A p \in 0 .. Len(frame) : p + 7 > Len(frame) => h[p] = <<>>
      /\ \A p \in 0 .. Len(frame) : p + 7 <= Len(frame) /\ ~BlockAt(frame, p) => h[p] = h[p + 1]
      /\ \A p \in 0 .. Len(frame) : BlockAt(frame, p) =>
           h[p] = <<RecAt(frame, p)>> \o h[p + 7 + LengthAt(frame, p)]
  BY <1>5 DEF Scans
<1>8. ASSUME NEW i \in 1 .. n
      PROVE  /\ at[i] \in 0 .. Len(frame) /\ at[i] + 7 <= Len(frame)
             /\ h[at[i]] = <<[drive |-> i - 1, data |-> datas[i]]>> \o h[at[i + 1]]
  <2>1. /\ at[i] \in Nat /\ at[i + 1] = at[i] + (Len(datas[i]) + 7)
        /\ HoldsAt(frame, at[i], Block(i - 1, datas[i]))
    BY <1>2 DEF BlocksAt
  <2>2. i - 1 \in Nat /\ i - 1 <= 255
    BY <1>1
  <2>3. /\ BlockAt(frame, at[i]) /\ LengthAt(frame, at[i]) = Len(datas[i])
        /\ RecAt(frame, at[i]) = [drive |-> i - 1, data |-> datas[i]]
    <3> DEFINE data == datas[i]
               p == at[i]
               d == i - 1
    <3>1. data \in Seq(Byte) /\ Len(data) <= 65535 /\ d \in Nat /\ d <= 255 /\ p \in Nat
      BY <1>1, <2>1, <2>2
    <3>2. HoldsAt(frame, p, Block(d, data))
      BY <2>1
    <3> HIDE DEF data, p, d
    <3>3. /\ BlockAt(frame, p) /\ LengthAt(frame, p) = Len(data)
          /\ RecAt(frame, p) = [drive |-> d, data |-> data]
      BY <1>3, <3>1, <3>2, BlockFound
    <3> QED
      BY <3>3 DEF data, p, d
  <2>4. at[i] + 7 <= Len(frame)
    BY <2>3, OverheadIs DEF BlockAt
  <2>5. at[i] \in 0 .. Len(frame)
    BY <1>6, <2>1, <2>4
  <2>6. at[i] + 7 + Len(datas[i]) = at[i + 1]
    <3> DEFINE a == at[i]
               l == Len(datas[i])
    <3>1. a \in Nat /\ l \in Nat /\ at[i + 1] = a + (l + 7)
      BY <1>1, <2>1
    <3> HIDE DEF a, l
    <3>2. a + 7 + l = a + (l + 7)
      BY <3>1
    <3> QED
      BY <3>1, <3>2 DEF a, l
  <2> QED
    BY <1>7, <2>3, <2>4, <2>5, <2>6
<1> DEFINE T == {j \in Nat : j <= n => h[at[n + 1 - j]] = RestOf(datas, n, n + 1 - j)}
           U == {p \in Nat : p <= Len(stray) => h[p] = h[0]}
<1>9. 0 \in T
  <2>1. at[n + 1] = Len(frame) /\ n + 1 - 0 = n + 1 /\ n + 1 - (n + 1) = 0
    BY <1>1, <1>2 DEF BlocksAt
  <2>2. Len(frame) + 7 > Len(frame) /\ Len(frame) \in 0 .. Len(frame)
    BY <1>6
  <2>3. h[at[n + 1]] = <<>>
    BY <1>7, <2>1, <2>2
  <2>4. RestOf(datas, n, n + 1) = <<>>
    BY <2>1 DEF RestOf
  <2> QED
    BY <2>1, <2>3, <2>4
<1>10. ASSUME NEW j \in Nat, j \in T PROVE j + 1 \in T
  <2> DEFINE i == n - j
  <2>1. SUFFICES ASSUME j + 1 <= n
                 PROVE  h[at[n + 1 - (j + 1)]] = RestOf(datas, n, n + 1 - (j + 1))
    OBVIOUS
  <2>2. i \in 1 .. n /\ n + 1 - (j + 1) = i /\ n + 1 - j = i + 1 /\ j <= n
    BY <1>1, <2>1
  <2> HIDE DEF i
  <2>3. h[at[i + 1]] = RestOf(datas, n, i + 1)
    BY <1>10, <2>2
  <2> HIDE DEF T
  <2>4. h[at[i]] = <<[drive |-> i - 1, data |-> datas[i]]>> \o RestOf(datas, n, i + 1)
    BY <1>8, <2>2, <2>3
  <2>5. h[at[i]] = RestOf(datas, n, i)
    <3>1. Len(datas) = n /\ datas \in Seq(Seq(Byte)) /\ n \in Nat
      BY <1>1 DEF n
    <3>2. <<[drive |-> i - 1, data |-> datas[i]]>> \o RestOf(datas, n, i + 1)
            = RestOf(datas, n, i)
      BY <2>2, <3>1, RestIs
    <3> QED
      BY <2>4, <3>2
  <2> QED
    BY <2>2, <2>5
<1>11. \A j \in Nat : j \in T
  <2> HIDE DEF T
  <2> QED
    BY <1>9, <1>10, Induction
<1>12. h[at[1]] = RestOf(datas, n, 1)
  <2>1. n \in T /\ n + 1 - n = 1 /\ n <= n
    BY <1>1, <1>11
  <2> QED
    BY <2>1
<1> HIDE DEF T
<1>13. 0 \in U
  OBVIOUS
<1>14. ASSUME NEW p \in Nat, p \in U PROVE p + 1 \in U
  <2>1. SUFFICES ASSUME p + 1 <= Len(stray) PROVE h[p + 1] = h[0]
    OBVIOUS
  <2>2. 1 \in 1 .. n
    BY <1>1
  <2>3. Len(stray) + 7 <= Len(frame)
    BY <1>2, <1>8, <2>2
  <2>4. p \in 0 .. Len(stray) - 1 /\ p \in 0 .. Len(frame) /\ p + 7 <= Len(frame) /\ p <= Len(stray)
    BY <1>1, <1>6, <2>1, <2>3
  <2>5. h[p] = h[p + 1]
    BY <1>4, <1>7, <2>4
  <2>6. h[p] = h[0]
    BY <1>14, <2>4
  <2> QED
    BY <2>5, <2>6
<1>15. \A p \in Nat : p \in U
  <2> HIDE DEF U
  <2> QED
    BY <1>13, <1>14, Induction
<1>16. h[Len(stray)] = h[0]
  <2>1. Len(stray) \in U /\ Len(stray) <= Len(stray)
    BY <1>1, <1>15
  <2> QED
    BY <2>1
<1>17. RestOf(datas, n, 1) = BlocksOf(datas, n)
  <2>1. n + 1 - 1 = n /\ \A k \in 1 .. n : 1 + k - 2 = k - 1 /\ 1 + k - 1 = k
    BY <1>1
  <2> QED
    BY <2>1 DEF RestOf, BlocksOf
<1> QED
  BY <1>2, <1>5, <1>12, <1>16, <1>17 DEF n, frame

ZeroBuffers(datas) == [i \in DOMAIN datas |-> [k \in DOMAIN datas[i] |-> 0]]

\* What has been put into the buffers after the first i blocks.
PutUpTo(datas, i) ==
  [j \in DOMAIN datas |-> IF j <= i THEN datas[j] ELSE ZeroBuffers(datas)[j]]

LEMMA PutIs ==
  ASSUME NEW datas \in Seq(Seq(Byte)), NEW i \in Nat, i + 1 <= Len(datas)
  PROVE  [PutUpTo(datas, i) EXCEPT ![(i + 1) - 1 + 1] = Overwritten(@, datas[i + 1])]
           = PutUpTo(datas, i + 1)
<1> DEFINE m == i + 1
           old == PutUpTo(datas, i)
           new == PutUpTo(datas, m)
           zero == ZeroBuffers(datas)[m]
<1>1. /\ m \in DOMAIN datas /\ m - 1 + 1 = m /\ ~(m <= i) /\ m <= m
      /\ \A j \in DOMAIN datas : j # m => (j <= m <=> j <= i)
  OBVIOUS
<1>2. datas[m] \in Seq(Byte) /\ DOMAIN datas[m] = 1 .. Len(datas[m])
  BY <1>1
<1> HIDE DEF m
<1>3. zero = [k \in DOMAIN datas[m] |-> 0] /\ DOMAIN zero = DOMAIN datas[m]
  BY <1>1 DEF ZeroBuffers
<1>4. Overwritten(zero, datas[m]) = datas[m]
  <2>1. Overwritten(zero, datas[m]) =
          [k \in DOMAIN datas[m] |-> IF k <= Len(datas[m]) THEN datas[m][k] ELSE zero[k]]
    BY <1>3 DEF Overwritten
  <2>2. \A k \in DOMAIN datas[m] : k <= Len(datas[m])
    BY <1>2
  <2>3. datas[m] = [k \in DOMAIN datas[m] |-> datas[m][k]]
    <3> DEFINE data == datas[m]
    <3>1. data \in Seq(Byte)
      BY <1>2
    <3> HIDE DEF data
    <3>2. data = [k \in DOMAIN data |-> data[k]]
      BY <3>1
    <3> QED
      BY <3>2 DEF data
  <2> HIDE DEF zero
  <2> QED
    BY <2>1, <2>2, <2>3
<1>5. old = [j \in DOMAIN datas |-> IF j <= i THEN datas[j] ELSE ZeroBuffers(datas)[j]]
  BY DEF PutUpTo
<1>6. new = [j \in DOMAIN datas |-> IF j <= m THEN datas[j] ELSE ZeroBuffers(datas)[j]]
  BY DEF PutUpTo
<1>7. old[m] = zero /\ new[m] = datas[m] /\ \A j \in DOMAIN datas : j # m => new[j] = old[j]
  BY <1>1, <1>5, <1>6
<1>8. DOMAIN old = DOMAIN datas /\ DOMAIN new = DOMAIN datas
      /\ old = [j \in DOMAIN datas |-> old[j]] /\ new = [j \in DOMAIN datas |-> new[j]]
  BY <1>5, <1>6
<1> HIDE DEF old, new, zero
<1>9. [old EXCEPT ![m] = Overwritten(@, datas[m])] = new
  BY <1>1, <1>4, <1>7, <1>8
<1> QED
  BY <1>1, <1>9 DEF m, old, new

LEMMA FramedArrives ==
  ASSUME NEW datas, NEW frame, datas \in Seq(Seq(Byte)), Len(datas) >= 1,
         Blocks(frame) = BlocksOf(datas, Len(datas))
  PROVE  ApplyFramed(ZeroBuffers(datas), frame) = datas
<1> DEFINE n == Len(datas)
           base == ZeroBuffers(datas)
           V == [1 .. n -> Seq(Byte)]
           blocks == Blocks(frame)
           next(bs, b) == IF b.drive < Len(bs)
                          THEN [bs EXCEPT ![b.drive + 1] = Overwritten(@, b.data)] ELSE bs
           step == [e \in (1 .. n) \X V |-> next(e[2], blocks[e[1]])]
           Eq(h) == h = [s \in SUBSET DOMAIN blocks |->
                           IF s = {} THEN base
                           ELSE next(h[s \ {Max(s)}], blocks[Max(s)])]
           it == CHOOSE h : Eq(h)
<1>1. n \in Nat /\ DOMAIN datas = 1 .. n /\ \A i \in 1 .. n : datas[i] \in Seq(Byte)
  OBVIOUS
<1>2. /\ DOMAIN blocks = 1 .. n
      /\ \A k \in 1 .. n : blocks[k].drive = k - 1 /\ blocks[k].data = datas[k]
  BY DEF BlocksOf
<1> HIDE DEF n, blocks
<1>3. \A bs \in V, data \in Seq(Byte), k \in 1 .. n :
        [bs EXCEPT ![k] = Overwritten(@, data)] \in V
  <2> SUFFICES ASSUME NEW bs \in V, NEW data \in Seq(Byte), NEW k \in 1 .. n
               PROVE  [bs EXCEPT ![k] = Overwritten(@, data)] \in V
    OBVIOUS
  <2>1. bs[k] \in Seq(Byte)
    OBVIOUS
  <2>2. \A j \in 1 .. Len(bs[k]) : bs[k][j] \in Byte
    BY <2>1
  <2>3. \A j \in 1 .. Len(data) : data[j] \in Byte
    OBVIOUS
  <2>4. Len(bs[k]) \in Nat /\ DOMAIN bs[k] = 1 .. Len(bs[k]) /\ Len(data) \in Nat
    BY <2>1
  <2>5. Overwritten(bs[k], data) =
          [j \in 1 .. Len(bs[k]) |-> IF j <= Len(data) THEN data[j] ELSE bs[k][j]]
    BY <2>4 DEF Overwritten
  <2>6. \A j \in 1 .. Len(bs[k]) : (IF j <= Len(data) THEN data[j] ELSE bs[k][j]) \in Byte
    BY <2>2, <2>3, <2>4
  <2>7. Overwritten(bs[k], data) \in [1 .. Len(bs[k]) -> Byte]
    BY <2>5, <2>6
  <2>8. Overwritten(bs[k], data) \in Seq(Byte)
    <3> DEFINE over == Overwritten(bs[k], data)
               l == Len(bs[k])
    <3>1. l \in Nat /\ over \in [1 .. l -> Byte]
      BY <2>4, <2>7
    <3> HIDE DEF over, l
    <3>2. over \in Seq(Byte)
      BY <3>1
    <3> QED
      BY <3>2 DEF over
  <2> QED
    BY <2>8
<1>4. \A k \in 1 .. n, bs \in V :
        next(bs, blocks[k]) = [bs EXCEPT ![k - 1 + 1] = Overwritten(@, datas[k])]
  <2> SUFFICES ASSUME NEW k \in 1 .. n, NEW bs \in V
               PROVE  next(bs, blocks[k]) = [bs EXCEPT ![k - 1 + 1] = Overwritten(@, datas[k])]
    OBVIOUS
  <2>1. Len(bs) = n
    BY <1>1
  <2>2. k - 1 < Len(bs)
    BY <1>1, <2>1
  <2> QED
    BY <1>2, <2>2
<1>5. \A k \in 1 .. n, bs \in V : next(bs, blocks[k]) \in V
  <2> SUFFICES ASSUME NEW k \in 1 .. n, NEW bs \in V PROVE next(bs, blocks[k]) \in V
    OBVIOUS
  <2>1. k - 1 + 1 = k
    OBVIOUS
  <2> HIDE DEF next, V
  <2>2. next(bs, blocks[k]) = [bs EXCEPT ![k - 1 + 1] = Overwritten(@, datas[k])]
    BY <1>4
  <2>3. next(bs, blocks[k]) = [bs EXCEPT ![k] = Overwritten(@, datas[k])]
    BY <2>1, <2>2
  <2>4. [bs EXCEPT ![k] = Overwritten(@, datas[k])] \in V
    BY <1>1, <1>3
  <2> QED
    BY <2>3, <2>4
<1> HIDE DEF next
<1>6. \A k \in 1 .. n, bs \in V : step[<<k, bs>>] = next(bs, blocks[k])
  OBVIOUS
<1>7. step \in [(1 .. n) \X V -> V]
  BY <1>5
<1>8. base \in V
  <2>1. \A i \in 1 .. n : [k \in DOMAIN datas[i] |-> 0] \in Seq(Byte)
    <3> SUFFICES ASSUME NEW i \in 1 .. n PROVE [k \in DOMAIN datas[i] |-> 0] \in Seq(Byte)
      OBVIOUS
    <3>1. Len(datas[i]) \in Nat /\ DOMAIN datas[i] = 1 .. Len(datas[i]) /\ 0 \in Byte
      BY <1>1 DEF Byte
    <3>2. [k \in DOMAIN datas[i] |-> 0] \in [1 .. Len(datas[i]) -> Byte]
      BY <3>1
    <3> QED
      BY <3>1, <3>2
  <2> QED
    BY <1>1, <2>1 DEF ZeroBuffers
<1>9. \A s \in SUBSET (1 .. n) : s # {} => Max(s) \in s
  BY <1>1, MaxOf
<1> HIDE DEF V, step, base
<1>10. \E h : Eq(h)
  <2>1. PICK h \in [SUBSET (1 .. n) -> V] : Recurses(n, base, step, h)
    BY <1>1, <1>7, <1>8, LeftFoldExists
  <2>2. ASSUME NEW s \in SUBSET (1 .. n)
        PROVE  h[s] = IF s = {} THEN base ELSE next(h[s \ {Max(s)}], blocks[Max(s)])
    <3>1. CASE s = {}
      BY <2>1, <3>1 DEF Recurses
    <3>2. CASE s # {}
      <4>1. Max(s) \in 1 .. n /\ h[s \ {Max(s)}] \in V
        BY <1>9, <2>1, <3>2
      <4>2. h[s] = step[<<Max(s), h[s \ {Max(s)}]>>]
        BY <2>1, <3>2 DEF Recurses
      <4> QED
        BY <1>6, <3>2, <4>1, <4>2
    <3> QED
      BY <3>1, <3>2
  <2>3. Eq(h)
    BY <1>2, <2>1, <2>2
  <2> HIDE DEF Eq
  <2> QED
    BY <2>3
<1>11. Eq(it)
  <2> HIDE DEF Eq
  <2> QED
    BY <1>10
<1>12. ApplyFramed(base, frame) = it[1 .. n]
  BY <1>2 DEF ApplyFramed, FoldLeft, MapThenFoldSet, next, blocks
<1> HIDE DEF it
<1>13. RecursesIn(V, n, base, step, it)
  <2>1. it[{}] = base
    BY <1>11
  <2>2. ASSUME NEW s \in SUBSET (1 .. n), s # {}, it[s \ {Max(s)}] \in V
        PROVE  it[s] = step[<<Max(s), it[s \ {Max(s)}]>>]
    <3>1. it[s] = next(it[s \ {Max(s)}], blocks[Max(s)])
      BY <1>2, <1>11, <2>2
    <3>2. Max(s) \in 1 .. n
      BY <1>9, <2>2
    <3> QED
      BY <1>6, <2>2, <3>1, <3>2
  <2> QED
    BY <1>1, <1>7, <1>8, <2>1, <2>2 DEF RecursesIn
<1> HIDE DEF Eq
<1>14. PICK f \in [0 .. n -> V] : Unrolled(n, base, step, f) /\ f[n] = it[1 .. n]
  BY <1>13, LeftFold
<1> DEFINE T == {i \in Nat : i <= n => f[i] = PutUpTo(datas, i)}
<1>15. 0 \in T
  <2>1. base = [j \in DOMAIN datas |-> base[j]]
    BY DEF base, ZeroBuffers
  <2>2. \A j \in DOMAIN datas : ~(j <= 0)
    BY <1>1
  <2>3. PutUpTo(datas, 0) = base
    BY <2>1, <2>2 DEF PutUpTo, base
  <2> QED
    BY <1>14, <2>3 DEF Unrolled
<1>16. ASSUME NEW i \in Nat, i \in T PROVE i + 1 \in T
  <2> DEFINE k == i + 1
  <2>1. SUFFICES ASSUME k <= n PROVE f[k] = PutUpTo(datas, k)
    OBVIOUS
  <2>2. k \in 1 .. n /\ k - 1 = i /\ i <= n /\ i \in 0 .. n
    BY <1>1, <2>1
  <2>3. f[i] = PutUpTo(datas, i)
    BY <1>16, <2>2
  <2> HIDE DEF T
  <2>4. [PutUpTo(datas, i) EXCEPT ![k - 1 + 1] = Overwritten(@, datas[k])] = PutUpTo(datas, k)
    BY <2>1, PutIs DEF n
  <2> HIDE DEF k
  <2>5. f[i] \in V
    BY <1>14, <2>2
  <2>6. f[k] = step[<<k, f[i]>>]
    BY <1>14, <2>2 DEF Unrolled
  <2>7. f[k] = next(f[i], blocks[k])
    BY <1>6, <2>2, <2>5, <2>6
  <2> QED
    BY <1>4, <2>2, <2>3, <2>4, <2>5, <2>7
<1>17. \A i \in Nat : i \in T
  <2> HIDE DEF T
  <2> QED
    BY <1>15, <1>16, Induction
<1>18. f[n] = PutUpTo(datas, n)
  <2>1. n \in T /\ n <= n
    BY <1>1, <1>17
  <2> QED
    BY <2>1
<1>19. PutUpTo(datas, n) = datas
  <2>1. \A j \in DOMAIN datas : j <= n
    BY <1>1
  <2>2. datas = [j \in DOMAIN datas |-> datas[j]]
    BY <1>1
  <2> QED
    BY <2>1, <2>2 DEF PutUpTo
<1> QED
  BY <1>12, <1>14, <1>18, <1>19 DEF base

LEMMA FlatPlaces ==
  ASSUME NEW datas, datas \in Seq(Seq(Byte)), Len(datas) >= 1, NEW lens,
         \A i \in 1 .. Len(datas) : lens[i] = Len(datas[i])
  PROVE  /\ Flat(datas) \in Seq(Byte)
         /\ \A i \in 1 .. Len(datas) :
              /\ SumOf(lens, 1 .. i - 1) \in Nat
              /\ SubSeq(Flat(datas), SumOf(lens, 1 .. i - 1) + 1,
                        SumOf(lens, 1 .. i - 1) + lens[i]) = datas[i]
<1> DEFINE n == Len(datas)
           flat == FlattenSeq(datas)
<1>1. n \in Nat \ {0} /\ datas \in [1 .. n -> Seq(Byte)] /\ n \in Nat
  OBVIOUS
<1>2. \A i \in 1 .. n : datas[i] \in Seq(Byte) /\ lens[i] \in Nat /\ lens[i] = Len(datas[i])
  BY <1>1
<1> HIDE DEF n
<1>3. flat \in Seq(Byte) /\ FlatOf(flat, datas, lens, n)
  BY <1>1, <1>2, FlatIs
<1>4. \A i \in 0 .. n : SumOf(lens, 1 .. i) \in Nat
  BY <1>1, <1>2, SumPrefix
<1> HIDE DEF flat
<1>5. ASSUME NEW i \in 1 .. n
      PROVE  /\ SumOf(lens, 1 .. i - 1) \in Nat
             /\ SubSeq(flat, SumOf(lens, 1 .. i - 1) + 1, SumOf(lens, 1 .. i - 1) + lens[i])
                  = datas[i]
  <2> DEFINE a == SumOf(lens, 1 .. i - 1)
  <2>1. i - 1 \in 0 .. n
    BY <1>1
  <2>2. a \in Nat
    BY <1>4, <2>1
  <2>3. HoldsAt(flat, a, datas[i])
    BY <1>3 DEF FlatOf
  <2> HIDE DEF a
  <2>4. SubSeq(flat, a + 1, a + Len(datas[i])) = datas[i]
    BY <1>2, <1>3, <2>2, <2>3, PieceIs
  <2> QED
    BY <1>2, <2>2, <2>4 DEF a
<1> QED
  BY <1>3, <1>5 DEF n, flat, Flat

LEMMA FlatArrives ==
  ASSUME NEW datas, datas \in Seq(Seq(Byte)), Len(datas) >= 1
  PROVE  ApplyFlat(ZeroBuffers(datas), Flat(datas)) = datas
<1> DEFINE n == Len(datas)
           zero == ZeroBuffers(datas)
           lens == [j \in DOMAIN zero |-> Len(zero[j])]
           flat == Flat(datas)
<1>1. n \in Nat /\ DOMAIN datas = 1 .. n /\ \A i \in 1 .. n : datas[i] \in Seq(Byte)
  OBVIOUS
<1>2. DOMAIN zero = 1 .. n
  BY <1>1 DEF ZeroBuffers
<1>3. ASSUME NEW i \in 1 .. n PROVE lens[i] = Len(datas[i])
  <2>1. zero[i] = [k \in DOMAIN datas[i] |-> 0]
    BY <1>1 DEF ZeroBuffers
  <2>2. Len(datas[i]) \in Nat /\ DOMAIN datas[i] = 1 .. Len(datas[i])
    BY <1>1
  <2> HIDE DEF zero, n
  <2>3. Len(zero[i]) = Len(datas[i])
    BY <2>1, <2>2
  <2> QED
    BY <1>2, <2>3
<1>4. ApplyFlat(zero, flat) =
        [i \in DOMAIN zero |-> SubSeq(flat, SumOf(lens, 1 .. i - 1) + 1,
                                      SumOf(lens, 1 .. i - 1) + lens[i])]
  BY DEF ApplyFlat, SumOf
<1> HIDE DEF lens, zero, flat
<1>5. \A i \in 1 .. n :
        SubSeq(flat, SumOf(lens, 1 .. i - 1) + 1, SumOf(lens, 1 .. i - 1) + lens[i]) = datas[i]
  BY <1>3, FlatPlaces DEF flat
<1>6. datas = [i \in 1 .. n |-> datas[i]]
  BY <1>1
<1> HIDE DEF n
<1>7. ApplyFlat(zero, flat) = datas
  BY <1>2, <1>4, <1>5, <1>6
<1> QED
  BY <1>7 DEF zero, flat

FirstWords(datas) == [i \in DOMAIN datas |-> SubSeq(datas[i], 1, 4)]

LEMMA ClientReadsFlat ==
  ASSUME NEW datas, NEW stray, CanBeFramed(datas, stray)
  PROVE  ClientValues(datas, Flat(datas), FALSE) = FirstWords(datas)
<1> DEFINE n == Len(datas)
           flat == Flat(datas)
           l == Len(datas[1])
           lens == [i \in 1 .. n |-> l]
<1>1. /\ datas \in Seq(Seq(Byte)) /\ n \in Nat /\ n >= 1 /\ DOMAIN datas = 1 .. n
      /\ \A i \in 1 .. n : Len(datas[i]) = l /\ Len(datas[i]) \in Nat
  BY Framable
<1>2. Head(datas) = datas[1] /\ 1 \in 1 .. n /\ l \in Nat
  BY <1>1
<1> HIDE DEF n, l
<1>3. \A i \in 1 .. n : lens[i] = l /\ lens[i] = Len(datas[i])
  BY <1>1
<1> HIDE DEF lens
<1>4. ClientValues(datas, flat, FALSE) =
        [i \in DOMAIN datas |-> SubSeq(SubSeq(flat, (i - 1) * l + 1, i * l), 1, 4)]
  BY <1>2 DEF ClientValues, l
<1>5. \A i \in 1 .. n : SumOf(lens, 1 .. i - 1) = (i - 1) * l
  <2>1. Evenly(lens, n, l)
    BY <1>1, <1>2, <1>3, SumOfEqual
  <2> QED
    BY <2>1 DEF Evenly
<1>6. \A i \in 1 .. n :
        SubSeq(flat, SumOf(lens, 1 .. i - 1) + 1, SumOf(lens, 1 .. i - 1) + lens[i]) = datas[i]
  BY <1>1, <1>3, FlatPlaces DEF n
<1>7. ASSUME NEW i \in 1 .. n PROVE SubSeq(flat, (i - 1) * l + 1, i * l) = datas[i]
  <2>1. (i - 1) * l + l = i * l
    BY <1>2
  <2>2. SubSeq(flat, (i - 1) * l + 1, (i - 1) * l + l) = datas[i]
    BY <1>3, <1>5, <1>6
  <2> QED
    BY <2>1, <2>2
<1> QED
  BY <1>1, <1>4, <1>7 DEF FirstWords

LEMMA ClientReadsFramed ==
  ASSUME NEW datas, NEW stray, CanBeFramed(datas, stray)
  PROVE  ClientValues(datas, Framed(datas), TRUE) = FirstWords(datas)
<1> DEFINE n == Len(datas)
           frame == Framed(datas)
           blocks == Blocks(frame)
           HeldFor(i) == {k \in DOMAIN blocks : blocks[k].drive = i - 1 /\ Len(blocks[k].data) >= 4}
<1>1. /\ datas \in Seq(Seq(Byte)) /\ n \in Nat /\ n >= 1 /\ DOMAIN datas = 1 .. n
      /\ \A i \in 1 .. n : Len(datas[i]) >= 4 /\ Len(datas[i]) \in Nat
  BY Framable
<1>2. blocks = BlocksOf(datas, n)
  <2>1. <<>> \in Seq(Byte) /\ Len(<<>>) = 0 /\ 0 .. 0 - 1 = {}
    OBVIOUS
  <2>2. /\ datas \in Seq(Seq(Byte)) /\ 1 <= Len(datas) /\ Len(datas) <= 256
        /\ \A i \in DOMAIN datas : /\ Len(datas[i]) = Len(datas[1])
                                   /\ 4 <= Len(datas[i]) /\ Len(datas[i]) <= 65535
    BY DEF CanBeFramed
  <2>3. \A p \in 0 .. Len(<<>>) - 1 : ~BlockAt(<<>> \o frame, p)
    BY <2>1
  <2>4. CanBeFramed(datas, <<>>)
    BY <2>1, <2>2, <2>3 DEF CanBeFramed
  <2>5. Blocks(<<>> \o Framed(datas)) = BlocksOf(datas, Len(datas))
    BY <2>4, BlocksAre
  <2>6. Framed(datas) \in Seq(Byte)
    BY BlocksPlaced
  <2>7. <<>> \o Framed(datas) = Framed(datas)
    BY <2>6, ConcatEmptySeq
  <2> QED
    BY <2>5, <2>7
<1>3. /\ DOMAIN blocks = 1 .. n
      /\ \A k \in 1 .. n : blocks[k].drive = k - 1 /\ blocks[k].data = datas[k]
  BY <1>2 DEF BlocksOf
<1> HIDE DEF n, blocks, frame
<1>4. ASSUME NEW i \in 1 .. n PROVE HeldFor(i) = {i} /\ HeldFor(i) # {} /\ Max(HeldFor(i)) = i
  <2>1. HeldFor(i) = {i}
    <3>1. \A k \in 1 .. n : k - 1 = i - 1 => k = i
      BY <1>1
    <3> QED
      BY <1>1, <1>3, <3>1
  <2> HIDE DEF HeldFor
  <2>2. HeldFor(i) \in SUBSET (0 .. n) /\ HeldFor(i) # {}
    BY <1>1, <2>1
  <2>3. Max(HeldFor(i)) \in HeldFor(i)
    BY <1>1, <2>2, MaxIs
  <2> QED
    BY <2>1, <2>3
<1>5. ClientValues(datas, frame, TRUE) =
        [i \in DOMAIN datas |-> IF HeldFor(i) = {} THEN <<0, 0, 0, 0>>
                                ELSE SubSeq(blocks[Max(HeldFor(i))].data, 1, 4)]
  BY DEF ClientValues, blocks
<1> HIDE DEF HeldFor
<1>6. \A i \in 1 .. n : (IF HeldFor(i) = {} THEN <<0, 0, 0, 0>>
                         ELSE SubSeq(blocks[Max(HeldFor(i))].data, 1, 4)) = SubSeq(datas[i], 1, 4)
  BY <1>3, <1>4
<1> QED
  BY <1>1, <1>5, <1>6 DEF FirstWords, frame

\* Whatever has been put together is taken apart to what it was.
LEMMA FramingUnderstood ==
  ASSUME NEW datas, NEW stray, CanBeFramed(datas, stray)
  PROVE  FramingSound(datas, stray) /\ ClientReads(datas)
<1>1. datas \in Seq(Seq(Byte)) /\ Len(datas) >= 1
  BY Framable
<1>2. ApplyFramed(ZeroBuffers(datas), stray \o Framed(datas)) = datas
  BY <1>1, BlocksAre, FramedArrives
<1>3. ApplyFlat(ZeroBuffers(datas), Flat(datas)) = datas
  BY <1>1, FlatArrives
<1>4. FramingSound(datas, stray)
  BY <1>2, <1>3 DEF FramingSound, ZeroBuffers
<1>5. ClientReads(datas)
  BY ClientReadsFlat, ClientReadsFramed DEF ClientReads, FirstWords
<1> QED
  BY <1>4, <1>5

\* What is put together for the drives is taken apart to what it was, by the gateway and by
\* the client, whatever the data are and whatever stray bytes come before them.
THEOREM FramesAlwaysUnderstood == LinkSpec => []FramesUnderstood
<1>1. FramesUnderstood
  BY SamplesAssumption, FramingUnderstood DEF FramesUnderstood
<1> QED
  BY <1>1, PTL
=============================================================================
