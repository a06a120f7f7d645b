------------------------------ MODULE TcpLink -------------------------------
(***************************************************************************)
(* The link between a client and the gateway: the sockets of the gateway   *)
(* server (gateway_server.py) and the test client (vfd_tcp_client.py).     *)
(*                                                                         *)
(* The p-th poll over the client's s-th socket is the command <<s, p>>;    *)
(* session s is that socket.  A frame is a row of parts <<f, k>>,          *)
(* where f is the command, or, in the other direction, the command that    *)
(* had been applied last when the gateway put the frame together.  The     *)
(* parts of an STM message are its length and what follows; a UDP datagram *)
(* is one part.                                                            *)
(***************************************************************************)
EXTENDS Framing

CONSTANTS
  Protocols,    \* those that are looked at: "TCP", "STREAM", "STM", "UDP"
  MaxSessions,  \* bound: how often the client connects
  MaxPolls,     \* bound: polls in a session
  SocketBuffer, \* how many parts the socket of the client holds
  Samples       \* the data of two drives, and stray bytes, to try the framing with

ASSUME LinkAssumption ==
  /\ Protocols \subseteq {"TCP", "STREAM", "STM", "UDP"}
  /\ MaxSessions \in Nat \ {0} /\ MaxPolls \in Nat \ {0}
  /\ SocketBuffer \in Nat

ASSUME SamplesAssumption == \A sample \in Samples : CanBeFramed(sample.datas, sample.stray)

Session == 1 .. MaxSessions
Nothing == <<0, 0>>

VARIABLES
  proto,      \* the protocol of both; "STREAM" is a TCP client with tcp_stream set
  up, down,   \* what is on its way in each session, to the gateway and to the client
  \* the gateway
  queue,      \* sessions the listening socket holds
  conn,       \* the session whose connection is handled, or 0
  rbuf,       \* the parts of the frame that is being read
  due,        \* a reply has to be sent
  tx,         \* the transmit thread of the connection runs
  reset,      \* sessions whose connection the gateway has closed
  applied,    \* the frame that has been applied last
  \* the client
  current,    \* the session of self._sock, or 0; self._connected says the same
  closed,     \* sessions whose socket the client has closed
  polls,      \* how many polls have been sent over each socket
  worker,     \* the poll worker each _connect has started, and the socket it works on
  answer,     \* the complete answer each worker has got to its last poll
  \* history
  dropped     \* the gateway has thrown away the beginning of a frame

gatewayVars == <<queue, conn, rbuf, due, tx, reset, applied, dropped>>
clientVars == <<current, closed, polls, worker, answer>>
linkVars == <<proto, up, down, gatewayVars, clientVars>>

Stream == {"STREAM", "STM"}
Parts == IF proto = "UDP" THEN 1 ELSE 2
FrameOf(f) == [k \in 1 .. Parts |-> <<f, k>>]
NoAnswer == [poll |-> 0, frame |-> <<>>]

LinkInit ==
  /\ proto \in Protocols
  /\ up = [s \in Session |-> <<>>] /\ down = [s \in Session |-> <<>>]
  /\ queue = <<>> /\ conn = 0 /\ rbuf = <<>> /\ due = FALSE /\ tx = FALSE
  /\ reset = {} /\ applied = <<>>
  /\ current = 0 /\ closed = {}
  /\ polls = [s \in Session |-> 0]
  /\ worker = [w \in Session |->
                 [at |-> "none", sock |-> 0, poll |-> 0, got |-> <<>>, late |-> FALSE]]
  /\ answer = [w \in Session |-> NoAnswer]
  /\ dropped = FALSE

Goto(w, step) == worker' = [worker EXCEPT ![w].at = step]

-----------------------------------------------------------------------------
(* The client: the GUI thread. *)

\* _connect: a new socket, and a new worker, that has not looked at it yet.
Connect ==
  /\ current = 0
  /\ \E s \in Session :
       /\ worker[s].at = "none"
       /\ \A t \in 1 .. s - 1 : worker[t].at # "none"
       /\ current' = s
       /\ Goto(s, "begin")
       /\ queue' = IF proto = "UDP" THEN queue ELSE Append(queue, s)
  /\ UNCHANGED <<proto, up, down, conn, rbuf, due, tx, reset, applied, dropped>>
  /\ UNCHANGED <<closed, polls, answer>>

\* _disconnect closes the socket there is; what has come and was not read is gone.
Close ==
  /\ current' = 0
  /\ closed' = closed \union ({current} \ {0})
  /\ down' = [s \in Session |-> IF s = current THEN <<>> ELSE down[s]]
  /\ UNCHANGED <<proto, up, gatewayVars, polls, answer>>

UserDisconnect ==
  /\ current # 0
  /\ Close
  /\ UNCHANGED worker

\* after(0, self._disconnect), by a poll loop that has ended.
DeferredDisconnect(w) ==
  /\ worker[w].at = "ended"
  /\ Goto(w, "gone")
  /\ Close

-----------------------------------------------------------------------------
(* The client: a poll worker w. *)

LoopVars == <<proto, gatewayVars, current, closed>>

\* What _poll_loop does first.  It has asked the GUI thread for three fields by the time
\* it takes self._sock, which may be a later socket than its own, with a worker of its
\* own; or there is none.  A field that holds no number ends the worker.
Begin(w) ==
  /\ worker[w].at = "begin"
  /\ \/ worker' = [worker EXCEPT ![w].at = IF current = 0 THEN "ended" ELSE "loop",
                                 ![w].sock = current]
     \/ Goto(w, "gone")
  /\ UNCHANGED <<LoopVars, up, down, polls, answer>>

\* sendall gives the whole frame to the socket.
Poll(w) ==
  LET s == worker[w].sock
      p == polls[s] + 1
  IN
  /\ worker[w].at = "loop"
  /\ current # 0
  /\ s \notin closed
  /\ p <= MaxPolls
  /\ polls' = [polls EXCEPT ![s] = p]
  /\ worker' = [worker EXCEPT ![w].at = "recv", ![w].poll = p, ![w].got = <<>>]
  /\ up' = [up EXCEPT ![s] = @ \o FrameOf(<<s, p>>)]
  /\ answer' = [answer EXCEPT ![w] = NoAnswer]
  /\ UNCHANGED <<LoopVars, down>>

\* Mutant: the client waits for an answer without a limit.
LoopEndsClosed(w) ==
  LET s == worker[w].sock IN
  /\ \/ worker[w].at = "loop" /\ (current = 0 \/ s \in closed \union reset)
     \/ worker[w].at = "recv" /\ s \in closed
     \/ worker[w].at = "recv" /\ s \in reset /\ down[s] = <<>>
  /\ Goto(w, "ended")
  /\ UNCHANGED <<LoopVars, up, down, polls, answer>>

\* The client is disconnected; or this worker's socket is closed, on either side, when it
\* uses it; or nothing has come in a second where a read begins.
LoopEnds(w) ==
  LET s == worker[w].sock IN
  /\ \/ worker[w].at = "loop" /\ (current = 0 \/ s \in closed \union reset)
     \/ worker[w].at = "recv" /\ s \in closed
     \/ worker[w].at = "recv" /\ s \in reset /\ down[s] = <<>>
     \/ /\ worker[w].at = "recv" /\ proto # "UDP" /\ down[s] = <<>>
        /\ worker[w].got = <<>> \/ (proto = "STM" /\ Len(worker[w].got) = 1)
  /\ Goto(w, "ended")
  /\ UNCHANGED <<LoopVars, up, down, polls, answer>>

\* Mutant: over TCP, too, a poll without an answer is given up and the next one sent.
PollAgainAnyway(w) ==
  /\ worker[w].at = "recv"
  /\ worker[w].sock \notin closed
  /\ down[worker[w].sock] = <<>>
  /\ worker' = [worker EXCEPT ![w].at = "loop", ![w].late = TRUE]
  /\ UNCHANGED <<LoopVars, up, down, polls, answer>>

\* Over UDP it is socket.timeout, and the next poll follows at once.
PollAgain(w) ==
  /\ worker[w].at = "recv"
  /\ proto = "UDP"
  /\ worker[w].sock \notin closed
  /\ down[worker[w].sock] = <<>>
  /\ worker' = [worker EXCEPT ![w].at = "loop", ![w].late = TRUE]
  /\ UNCHANGED <<LoopVars, up, down, polls, answer>>

\* One more part; the last makes the answer to this poll.
Receive(w) ==
  LET s == worker[w].sock
      got == Append(worker[w].got, Head(down[s]))
  IN
  /\ worker[w].at = "recv"
  /\ s \notin closed
  /\ down[s] # <<>>
  /\ down' = [down EXCEPT ![s] = Tail(@)]
  /\ IF Len(got) = Parts
     THEN /\ worker' = [worker EXCEPT ![w].at = "loop", ![w].got = <<>>]
          /\ answer' = [answer EXCEPT ![w] = [poll |-> worker[w].poll, frame |-> got]]
     ELSE /\ worker' = [worker EXCEPT ![w].got = got]
          /\ UNCHANGED answer
  /\ UNCHANGED <<LoopVars, up, polls>>

-----------------------------------------------------------------------------
(* The gateway: connections. *)

ServerVars == <<proto, clientVars>>

\* What is sent to a closed socket is thrown away there.
Deliver(s, frames) == down' = [down EXCEPT ![s] = IF s \in closed THEN <<>> ELSE frames]

\* Mutant: a buffer of the server's, not of the connection's handler.
HandlerEndsButBuffer == conn' = 0 /\ tx' = FALSE /\ due' = FALSE /\ UNCHANGED rbuf

\* Whatever has been read of a frame is forgotten with the connection.
HandlerEnds == conn' = 0 /\ tx' = FALSE /\ due' = FALSE /\ rbuf' = <<>>

Accept ==
  /\ conn = 0
  /\ queue # <<>>
  /\ conn' = Head(queue)
  /\ queue' = Tail(queue)
  /\ tx' = (proto \in Stream)
  /\ UNCHANGED <<ServerVars, up, down, rbuf, due, reset, applied, dropped>>

\* Mutant: b'' in the middle of a frame is taken for a client that is idle.
HangUpBetweenFrames ==
  /\ conn # 0
  /\ conn \in closed
  /\ rbuf = <<>>
  /\ reset' = reset \union {conn}
  /\ HandlerEnds
  /\ up' = [up EXCEPT ![conn] = <<>>]
  /\ UNCHANGED <<ServerVars, down, queue, applied, dropped>>

\* recv returns b'' or fails, or the reply cannot be sent: the handler closes the
\* connection.  What is still on its way is lost if the client has left inputs unread.
HangUp ==
  /\ conn # 0
  /\ conn \in closed
  /\ reset' = reset \union {conn}
  /\ HandlerEnds
  /\ up' = [up EXCEPT ![conn] = <<>>]
  /\ UNCHANGED <<ServerVars, down, queue, applied, dropped>>

\* stop, when the services are restarted; start follows.  Over UDP all that happens is
\* that datagrams are lost.
StopServer ==
  /\ conn # 0 \/ queue # <<>>
  /\ reset' = reset \union ({conn} \ {0}) \union ToSet(queue)
  /\ HandlerEnds
  /\ queue' = <<>>
  /\ up' = [s \in Session |-> IF s = conn THEN <<>> ELSE up[s]]
  /\ UNCHANGED <<ServerVars, down, applied, dropped>>

-----------------------------------------------------------------------------
(* The gateway: frames. *)

\* Mutant: recv takes whatever there is.
ReadAll ==
  /\ conn # 0
  /\ ~due
  /\ Len(rbuf) < Parts
  /\ up[conn] # <<>>
  /\ rbuf' = rbuf \o up[conn]
  /\ up' = [up EXCEPT ![conn] = <<>>]
  /\ UNCHANGED <<ServerVars, down, queue, conn, due, tx, reset, applied, dropped>>

\* One more part (_recv_exact, _recv_all).
Read ==
  /\ conn # 0
  /\ ~due
  /\ Len(rbuf) < Parts
  /\ up[conn] # <<>>
  /\ rbuf' = Append(rbuf, Head(up[conn]))
  /\ up' = [up EXCEPT ![conn] = Tail(@)]
  /\ UNCHANGED <<ServerVars, down, queue, conn, due, tx, reset, applied, dropped>>

\* The rest of a frame has not come for two seconds: what is there of it is thrown away.
Stall ==
  /\ conn # 0
  /\ proto = "TCP"
  /\ rbuf # <<>> /\ Len(rbuf) < Parts
  /\ rbuf' = <<>>
  /\ dropped' = TRUE
  /\ UNCHANGED <<ServerVars, up, down, queue, conn, due, tx, reset, applied>>

\* Mutant: the next frame is read behind the one that has been applied.
ApplyKeeps ==
  /\ conn # 0
  /\ Len(rbuf) = Parts
  /\ applied' = rbuf
  /\ due' = (proto = "TCP")
  /\ UNCHANGED <<ServerVars, up, down, queue, conn, rbuf, tx, reset, dropped>>

\* _mon_rx and _apply_outputs; over TCP the reply is next.
Apply ==
  /\ conn # 0
  /\ Len(rbuf) = Parts
  /\ applied' = rbuf
  /\ rbuf' = <<>>
  /\ due' = (proto = "TCP")
  /\ UNCHANGED <<ServerVars, up, down, queue, conn, tx, reset, dropped>>

\* _build_inputs: the inputs are those of the moment.
Inputs == FrameOf(IF applied = <<>> THEN Nothing ELSE applied[1][1])

Reply ==
  /\ conn # 0
  /\ due
  /\ due' = FALSE
  /\ Deliver(conn, down[conn] \o Inputs)
  /\ UNCHANGED <<ServerVars, up, queue, conn, rbuf, tx, reset, applied, dropped>>

\* tx_loop sends the inputs fifty times a second ...
Transmit ==
  /\ conn # 0
  /\ tx
  /\ Len(down[conn]) + Parts <= SocketBuffer
  /\ Deliver(conn, down[conn] \o Inputs)
  /\ UNCHANGED <<ServerVars, up, queue, conn, rbuf, due, tx, reset, applied, dropped>>

\* ... and ends when the client does not take them for 0.2 s, in the middle of a frame,
\* or has closed its socket.
TransmitEnds ==
  /\ conn # 0
  /\ tx
  /\ conn \in closed \/ Len(down[conn]) + Parts > SocketBuffer
  /\ tx' = FALSE
  /\ \E k \in 0 .. Parts - 1 :
       /\ Len(down[conn]) + k <= SocketBuffer
       /\ Deliver(conn, down[conn] \o SubSeq(Inputs, 1, k))
  /\ UNCHANGED <<ServerVars, up, queue, conn, rbuf, due, reset, applied, dropped>>

\* _udp_server: a datagram is applied and answered; the network has kept no order.
Serve(s) ==
  /\ proto = "UDP"
  /\ \E i \in DOMAIN up[s] :
       /\ applied' = <<up[s][i]>>
       /\ up' = [up EXCEPT ![s] = RemoveAt(@, i)]
       /\ \E later \in BOOLEAN :
            Deliver(s, IF later THEN Append(down[s], up[s][i]) ELSE <<up[s][i]>> \o down[s])
  /\ UNCHANGED <<ServerVars, queue, conn, rbuf, due, tx, reset, dropped>>

\* A datagram is lost.
Lose(s) ==
  /\ proto = "UDP"
  /\ \/ \E i \in DOMAIN up[s] : up' = [up EXCEPT ![s] = RemoveAt(@, i)] /\ UNCHANGED down
     \/ \E i \in DOMAIN down[s] : down' = [down EXCEPT ![s] = RemoveAt(@, i)] /\ UNCHANGED up
  /\ UNCHANGED <<ServerVars, queue, conn, rbuf, due, tx, reset, applied, dropped>>

ClientStep(w) ==
  Begin(w) \/ Poll(w) \/ Receive(w) \/ LoopEnds(w) \/ PollAgain(w) \/ DeferredDisconnect(w)

GatewayStep ==
  Accept \/ HangUp \/ Read \/ Apply \/ Reply \/ Transmit \/ TransmitEnds
    \/ \E s \in Session : Serve(s)

LinkNext ==
  \/ Connect \/ UserDisconnect
  \/ \E s \in Session : ClientStep(s) \/ Lose(s)
  \/ GatewayStep
  \/ Stall \/ StopServer

LinkSpec == LinkInit /\ [][LinkNext]_linkVars

\* Every thread goes on.  Nobody has to connect, the network need not lose anything, and a
\* frame need not stall.
LinkFairness ==
  /\ \A w \in Session :
       /\ WF_linkVars(Begin(w)) /\ WF_linkVars(Poll(w)) /\ WF_linkVars(Receive(w))
       /\ WF_linkVars(LoopEnds(w)) /\ WF_linkVars(PollAgain(w))
       /\ WF_linkVars(DeferredDisconnect(w))
  /\ WF_linkVars(Accept) /\ WF_linkVars(HangUp) /\ WF_linkVars(Read)
  /\ WF_linkVars(Apply) /\ WF_linkVars(Reply) /\ WF_linkVars(Transmit)

FairLink == LinkSpec /\ LinkFairness

-----------------------------------------------------------------------------
(* Correctness. *)

Command == (Session \X (1 .. MaxPolls)) \union {Nothing}
Part == Command \X (1 .. 2)

LinkTypeOK ==
  /\ proto \in Protocols
  /\ up \in [Session -> Seq(Part)] /\ down \in [Session -> Seq(Part)]
  /\ queue \in Seq(Session) /\ conn \in Session \union {0}
  /\ rbuf \in Seq(Part) /\ Len(rbuf) <= Parts
  /\ due \in BOOLEAN /\ tx \in BOOLEAN /\ reset \subseteq Session
  /\ applied \in Seq(Part) /\ Len(applied) \in {0, Parts}
  /\ current \in Session \union {0} /\ closed \subseteq Session /\ current \notin closed
  /\ polls \in [Session -> 0 .. MaxPolls]
  /\ worker \in [Session -> [at : {"none", "begin", "loop", "recv", "ended", "gone"},
                            sock : Session \union {0}, poll : 0 .. MaxPolls,
                            got : Seq(Part), late : BOOLEAN]]
  /\ \A w \in Session : Len(worker[w].got) < Parts
  /\ answer \in [Session -> [poll : 0 .. MaxPolls, frame : Seq(Part)]]
  /\ dropped \in BOOLEAN

\* The gateway takes commands as CommandChannel promises, until it has thrown away the
\* beginning of a frame; over UDP no order is promised.
Taken ==
  IF applied = <<>> THEN Nothing
  ELSE IF applied = FrameOf(applied[1][1]) THEN applied[1][1] ELSE <<0, 1>>

Channel == INSTANCE CommandChannel
             WITH sent <- polls, taken <- Taken,
                  excused <- dropped \/ proto = "UDP"

ImplementsChannel == Channel!ChannelSpec

\* No other worker has taken the socket of this one.
Alone(w) == \A v \in Session \ {w} : worker[v].sock # worker[w].sock

\* With question and answer, no part of an answer is about another session than that of
\* the worker's socket, whichever workers share it and whatever is thrown away or late.  A
\* worker that has its socket for itself takes only whole frames for answers, of a stream,
\* too; and in lock-step its answers are about the polls they are counted for: over TCP
\* until the beginning of a frame is thrown away, over UDP until a poll has got none in
\* time.
AnswerFits ==
  \A w \in Session : answer[w].poll > 0 =>
    LET s == worker[w].sock
        frame == answer[w].frame
    IN /\ proto \in {"TCP", "UDP"} => \A k \in 1 .. Len(frame) : frame[k][1][1] = s
       /\ Alone(w) =>
            /\ (proto = "TCP" /\ ~dropped) \/ (proto = "UDP" /\ ~worker[w].late) =>
                 frame = FrameOf(<<s, answer[w].poll>>)
            /\ proto \in Stream => \E c \in Command : frame = FrameOf(c)

\* Nobody waits for ever to be accepted, however the client before has gone, as long as
\* it has closed its socket.
EveryoneServed == []<>(queue = <<>>)

\* A command sent over a connection is applied, or a later one, or the connection ends.
CommandsArrive ==
  \A s \in Session : \A p \in 1 .. MaxPolls :
    proto # "UDP" /\ polls[s] = p
      ~> \/ applied # <<>> /\ Taken[1] >= s /\ (Taken[1] = s => Taken[2] >= p)
         \/ s \in closed \union reset
         \/ dropped

\* No poll waits for ever for its answer, unless the gateway's transmit thread has given
\* up, or a beginning was thrown away and two workers each hold half of one answer.
PollEnds ==
  \A w \in Session :
    worker[w].at = "recv"
      ~> \/ worker[w].at # "recv"
         \/ proto \in Stream /\ ~tx
         \/ dropped /\ ~Alone(w)

\* The framing, tried once.
FramesUnderstood ==
  (\A s \in Session : worker[s].at = "none") =>
    \A sample \in Samples :
      FramingSound(sample.datas, sample.stray) /\ ClientReads(sample.datas)
=============================================================================
