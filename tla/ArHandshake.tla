----------------------------- MODULE ArHandshake -----------------------------
(***************************************************************************)
(* How an application relation is set up and torn down over RPC/CM: the    *)
(* controller of src/rpc_cm.c, inside the calls PN_Connect and             *)
(* PN_Disconnect, against the device of simulator/vfd_sim.py.              *)
(*                                                                         *)
(* The controller sends four requests one after the other and waits after  *)
(* each for a datagram, every wait with a deadline of its own.  The device *)
(* serves requests in the order they come and never asks which AR they     *)
(* belong to.  Every PN_Connect opens a new UDP socket, so a socket is     *)
(* named by the AR it was opened for, and a datagram that comes after the  *)
(* socket was closed finds nobody.                                         *)
(*                                                                         *)
(* Datagrams are UDP over one LAN segment or the loopback interface, which *)
(* keeps their order and does not repeat them, but may lose any of them.   *)
(* A fault is a lost datagram, a failed send, an answer that comes after   *)
(* its deadline, or a restart of the device.                               *)
(***************************************************************************)
EXTENDS Naturals, Sequences

CONSTANTS
    MaxAR,          \* bound: calls of PN_Connect
    MaxFaults,      \* bound: faults of a behaviour
    PortReset       \* does the device's system report a closed port to it?

ASSUME HandshakeAssumption ==
    /\ MaxAR \in Nat \ {0}
    /\ MaxFaults \in Nat
    /\ PortReset \in BOOLEAN

VARIABLES
    conn,       \* where the controller stands
    ar,         \* ctx->ar_uuid, and ctx->rpc_sock: the latest AR it asked for
    requests,   \* datagrams on their way to the device
    answers,    \* datagrams on their way to the controller
    dstate,     \* the device's state
    dar,        \* its ar_uuid, 0 for the sixteen zero bytes it starts with
    ctrl_addr,  \* its ctrl_addr, 0 for None
    started,    \* its _cyclic_started
    tx,         \* how many of its cyclic threads run
    serving,    \* its RPC thread runs
    faults,     \* faults so far
    disturbed   \* has the latest attempt, or what came after it, met one?

controller == <<conn, ar>>
dev        == <<dstate, dar, ctrl_addr, started, tx, serving>>
course     == <<faults, disturbed>>
vars       == <<controller, requests, answers, dev, course>>

ARs      == 1 .. MaxAR
Waits    == {"connect", "write", "ready", "release"}
Request  == [op : {"Connect", "Write", "DControl", "Release", "CControlRes"}, ar : ARs]
Answer   == [op : {"ConnectRes", "WriteRes", "DControlRes", "CControl", "ReleaseRes"}, to : ARs]

\* Every variable keeps its type: in particular the simulator never takes away a
\* cyclic thread it does not have.
TypeOK ==
    /\ conn \in {"down", "up"} \cup Waits
    /\ ar \in 0 .. MaxAR
    /\ requests \in Seq(Request)
    /\ answers \in Seq(Answer)
    /\ dstate \in {"listening", "connected", "cyclic"}
    /\ dar \in 0 .. MaxAR
    /\ ctrl_addr \in 0 .. MaxAR
    /\ started \in BOOLEAN
    /\ tx \in Nat
    /\ serving \in BOOLEAN
    /\ faults \in 0 .. MaxFaults
    /\ disturbed \in BOOLEAN

Init ==
    /\ conn = "down"
    /\ ar = 0
    /\ requests = <<>>
    /\ answers = <<>>
    /\ dstate = "listening"
    /\ dar = 0
    /\ ctrl_addr = 0
    /\ started = FALSE
    /\ tx = 0
    /\ serving = TRUE
    /\ faults = 0
    /\ disturbed = FALSE

Fault ==
    /\ faults < MaxFaults
    /\ faults' = faults + 1
    /\ disturbed' = TRUE

-----------------------------------------------------------------------------
(* The controller.                                                         *)

Send(op, k) == requests' = Append(requests, [op |-> op, ar |-> k])

\* The device's RPC thread runs, and nothing waits for it that would end it: see
\* ServeDControl.
Answering ==
    /\ serving
    /\ ctrl_addr = 0 => \A i \in DOMAIN requests : requests[i].op # "DControl"

\* PN_Connect opens a socket, draws an AR and sends the ConnectRequest.
Connect ==
    /\ conn = "down"
    /\ ar < MaxAR
    /\ ar' = ar + 1
    /\ \/ /\ conn' = "connect"
          /\ Send("Connect", ar + 1)
          /\ disturbed' = ~Answering
          /\ UNCHANGED faults
       \/ /\ Fault                          \* sendto failed: the call returns
          /\ UNCHANGED <<conn, requests>>
    /\ UNCHANGED <<answers, dev>>

Proceed(to, op) ==
    /\ conn' = to
    /\ Send(op, ar)

Return ==
    /\ conn' = "down"
    /\ UNCHANGED requests

\* Mutant: every attempt binds the same local port.
ArrivedAnywhere ==
    /\ answers # <<>>
    /\ conn # "down"

\* The socket is open for the next datagram, which is for it.
Arrived ==
    /\ answers # <<>>
    /\ conn # "down"
    /\ Head(answers).to = ar

\* Mutant: a datagram that is not ApplicationReady fails the call.
ReceiveOnce ==
    /\ Arrived
    /\ answers' = Tail(answers)
    /\ \/ conn = "connect" /\ Proceed("write", "Write")
       \/ conn = "write" /\ Proceed("ready", "DControl")
       \/ conn = "ready" /\ Head(answers).op = "CControl" /\ Proceed("up", "CControlRes")
       \/ conn = "ready" /\ Head(answers).op # "CControl" /\ Return
       \/ conn = "release" /\ Return
    /\ UNCHANGED <<ar, dev, course>>

\* A datagram ends the wait, whatever it is; only the wait for ApplicationReady
\* looks at what came.  In state "up" nobody reads the socket.
Receive ==
    /\ Arrived
    /\ answers' = Tail(answers)
    /\ \/ conn = "connect" /\ Proceed("write", "Write")
       \/ conn = "write" /\ Proceed("ready", "DControl")
       \/ /\ conn = "ready"
          /\ Head(answers).op = "CControl"
          /\ Proceed("up", "CControlRes")
       \/ /\ conn = "ready"
          /\ Head(answers).op # "CControl"
          /\ UNCHANGED <<conn, requests>>
       \/ conn = "release" /\ Return
    /\ UNCHANGED <<ar, dev, course>>

\* Whatever can still end the wait is on its way: the deadline is longer than that
\* takes, unless something goes wrong.
Coming ==
    \/ requests # <<>> /\ serving
    \/ \E i \in DOMAIN answers : answers[i].to = ar

\* Mutant: the wait for ApplicationReady has no deadline.
ExpireButReady ==
    /\ IF Coming THEN Fault ELSE UNCHANGED course
    /\ \/ conn \in {"connect", "release"} /\ Return
       \/ conn = "write" /\ Proceed("ready", "DControl")
    /\ UNCHANGED <<ar, answers, dev>>

\* A deadline passes.  The answer to IODWrite is not needed to go on, nor is the
\* one to Release; the other two waits fail PN_Connect, which closes the socket
\* and sends no Release.
Expire ==
    /\ IF Coming THEN Fault ELSE UNCHANGED course
    /\ \/ conn \in {"connect", "ready", "release"} /\ Return
       \/ conn = "write" /\ Proceed("ready", "DControl")
    /\ UNCHANGED <<ar, answers, dev>>

\* Mutant: the socket is closed and no Release is sent.
ReleaseUnsent ==
    /\ conn = "up"
    /\ Return
    /\ UNCHANGED <<ar, answers, dev, course>>

\* PN_Disconnect, or PN_Connect itself when the cyclic thread cannot be started.
Release ==
    /\ conn = "up"
    /\ Proceed("release", "Release")
    /\ UNCHANGED <<ar, answers, dev, course>>

-----------------------------------------------------------------------------
(* The device.                                                             *)

Reply(op, to) == answers' = Append(answers, [op |-> op, to |-> to])

\* A ConnectRequest always replaces the AR the device is in.
ServeConnect(k) ==
    /\ dar' = k
    /\ ctrl_addr' = k
    /\ dstate' = "connected"
    /\ Reply("ConnectRes", k)
    /\ UNCHANGED <<started, tx, serving>>

ServeWrite(k) ==
    /\ Reply("WriteRes", k)
    /\ UNCHANGED dev

\* ApplicationReady starts the cyclic thread and is answered twice, to the sender
\* and to ctrl_addr; sendto(None) raises, and nothing catches it in the RPC thread.
ServeDControl(k) ==
    /\ dstate' = "cyclic"
    /\ started' = TRUE
    /\ tx' = IF started THEN tx ELSE tx + 1
    /\ IF ctrl_addr = 0
       THEN /\ Reply("DControlRes", k)
            /\ serving' = FALSE
       ELSE /\ answers' = answers \o <<[op |-> "DControlRes", to |-> k],
                                       [op |-> "CControl", to |-> ctrl_addr]>>
            /\ UNCHANGED serving
    /\ UNCHANGED <<dar, ctrl_addr>>

\* Mutant: a Release ends a cyclic thread without asking for one.
ServeReleaseBlindly(k) ==
    /\ started' = FALSE
    /\ dstate' = "listening"
    /\ tx' = tx - 1
    /\ Reply("ReleaseRes", k)
    /\ UNCHANGED <<dar, ctrl_addr, serving>>

\* _stop_cyclic forgets the cyclic thread, which keeps running.
ServeRelease(k) ==
    /\ started' = FALSE
    /\ dstate' = "listening"
    /\ Reply("ReleaseRes", k)
    /\ UNCHANGED <<dar, ctrl_addr, tx, serving>>

Serve ==
    /\ serving
    /\ requests # <<>>
    /\ requests' = Tail(requests)
    /\ LET m == Head(requests) IN
       \/ m.op = "Connect" /\ ServeConnect(m.ar)
       \/ m.op = "Write" /\ ServeWrite(m.ar)
       \/ m.op = "DControl" /\ ServeDControl(m.ar)
       \/ m.op = "Release" /\ ServeRelease(m.ar)
       \/ m.op = "CControlRes" /\ UNCHANGED <<answers, dev>>     \* unknown opnum 3
    /\ UNCHANGED <<controller, course>>

-----------------------------------------------------------------------------
(* The network and the device's machine.                                   *)

\* An answer comes to a socket that was closed.  Windows reports that to the sender
\* as an error of its next recvfrom, which ends _rpc_thread.
Unreachable ==
    /\ answers # <<>>
    /\ conn = "down" \/ Head(answers).to # ar
    /\ answers' = Tail(answers)
    /\ IF PortReset THEN serving' \in {serving, FALSE} ELSE UNCHANGED serving
    /\ disturbed' = (disturbed \/ ~serving')
    /\ UNCHANGED <<controller, requests, dstate, dar, ctrl_addr, started, tx, faults>>

Lose ==
    /\ Fault
    /\ \/ /\ requests # <<>>
          /\ requests' = Tail(requests)
          /\ UNCHANGED answers
       \/ /\ answers # <<>>
          /\ answers' = Tail(answers)
          /\ UNCHANGED requests
    /\ UNCHANGED <<controller, dev>>

\* The simulator is stopped and started again; what waits in its socket is gone.
Restart ==
    /\ Fault
    /\ requests' = <<>>
    /\ dstate' = "listening"
    /\ dar' = 0
    /\ ctrl_addr' = 0
    /\ started' = FALSE
    /\ tx' = 0
    /\ serving' = TRUE
    /\ UNCHANGED <<controller, answers>>

Next ==
    \/ Connect \/ Receive \/ Expire \/ Release
    \/ Serve
    \/ Unreachable \/ Lose \/ Restart

Spec == Init /\ [][Next]_vars

\* A deadline passes in the end, a datagram that is not lost is delivered in the
\* end, and a device whose RPC thread runs serves.  Nobody has to connect or
\* disconnect, and no fault has to happen.
Fairness ==
    /\ WF_vars(Receive)
    /\ WF_vars(Expire)
    /\ WF_vars(Serve)
    /\ WF_vars(Unreachable)

FairSpec == Spec /\ Fairness

-----------------------------------------------------------------------------
(* Correctness.                                                            *)

\* When PN_Connect returns PN_OK, and until PN_Disconnect, the device is in that AR,
\* exchanges data and answers that socket, unless it was restarted meanwhile: what
\* earlier attempts left on the way cannot be taken for the answers to this one,
\* although neither side compares AR UUIDs.
Agreement ==
    conn = "up" =>
        \/ dar = 0
        \/ /\ dar = ar
           /\ ctrl_addr = ar
           /\ dstate = "cyclic"
           /\ tx > 0

\* An attempt made to a device that answers, and disturbed by nothing since, leaves no AR
\* open on one side, whatever earlier attempts have left in the device and on the way to
\* either side: the RPC thread goes on, and when no call is under way and nothing is left to
\* serve the device is listening.  An attempt that failed would leave it in its AR.
Undisturbed ==
    ~disturbed =>
        /\ serving
        /\ conn = "down" /\ requests = <<>> => dstate = "listening"

\* Such an attempt succeeds, unless something disturbs it: no answer is taken for another
\* one's, and no wait misses the datagram it needs.
ConnectCompletes == (conn = "connect" /\ ~disturbed) ~> (conn = "up" \/ disturbed)

\* PN_Connect and PN_Disconnect return whatever is lost, late or dead.
CallsEnd == (conn \in Waits) ~> (conn \in {"up", "down"})

\* The simulator "faithfully mirrors simulator/pn_device.c" (simulator/vfd_sim.py:8),
\* where a Release stops the cyclic thread (simulator/pn_device.c:643): a device
\* that listens for a controller sends no cyclic frames.
ReleasedIsSilent == dstate = "listening" => tx = 0
==============================================================================
