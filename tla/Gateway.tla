------------------------------ MODULE Gateway ------------------------------
(***************************************************************************)
(* The Python gateway's output path: the server thread and the comms       *)
(* watchdog of gateway_server.py, the bridge thread of bridge.py, and the  *)
(* restart sequence of main.py that stops and starts them.                 *)
(*                                                                         *)
(* A client sends frames, each with a command for every drive.  The server *)
(* thread puts the commands into the output buffers, one per drive, and    *)
(* the bridge hands what it finds there to the PROFINET side, `wire'.  The *)
(* watchdog is to clear the buffers when the client falls silent.          *)
(*                                                                         *)
(* Drives are numbered in the order of the configuration.  A buffer holds  *)
(* a client's command, a value the operator forced, Safe (all zero bytes), *)
(* or Empty: a bytearray that has lost its bytes.                          *)
(***************************************************************************)
EXTENDS Naturals

CONSTANTS
    N,          \* how many drives are configured
    Commands,   \* what a client may command
    Forced,     \* what the operator forces in the I/O diagnostic window
    Safe,       \* zero outputs: STW1 = 0, the drive ramps down
    Empty,      \* a buffer, or a slice of a frame, of no bytes
    Nothing,    \* no frame waits
    Protocol,   \* cfg.gateway.protocol
    Framed,     \* cfg.gateway.framed: blocks with a drive number, or a flat frame
    Timeout,    \* cfg.gateway.watchdog_ms, in ticks
    OperatorActs    \* may the operator force outputs and restart the services?

ASSUME GatewayAssumption ==
    /\ N \in Nat \ {0}
    /\ Protocol \in {"TCP", "STM", "UDP"}
    /\ Framed \in BOOLEAN
    /\ Timeout \in Nat \ {0}
    /\ OperatorActs \in BOOLEAN
    /\ Safe # Empty /\ Forced \notin {Safe, Empty}
    /\ Commands \cap {Forced, Safe, Empty} = {}

VARIABLES
    talking,    \* the client keeps sending
    chan,       \* the frame waiting in the server's socket
    out,        \* _io[i]["out"]
    armed,      \* _last_rx_t > 0
    age,        \* ticks since _last_rx_t, up to Timeout + 1
    tripped,    \* _watchdog_tripped
    rx,         \* the server thread: where it stands and its frame
    wd,         \* the watchdog thread: where it stands and its sample of _last_rx_t
    br,         \* the bridge thread: where it stands, the drive, and its out_data
    connected,  \* the drives whose DeviceState is connected
    wire,       \* what set_output_data last got for each drive
    service     \* "up", or how far on_restart has come

server == <<rx, chan>>
clock  == <<armed, age>>
vars   == <<talking, server, out, clock, tripped, wd, br, connected, wire, service>>

Drives   == 1 .. N
Late     == Timeout + 1
Contents == Commands \cup {Forced, Safe, Empty}

\* A frame commands `drives'; `whole' says that it has at least the bytes of
\* _out_frame_size.
Frame == [cmd : Commands, drives : SUBSET Drives, whole : BOOLEAN]

\* What a client can make the server thread take for one frame.  A flat frame that
\* is too short reaches the first drives only.  TCP cuts the byte stream into
\* frames of the full size; STM takes the length from the message.
Frames ==
    {f \in Frame :
        /\ Protocol = "TCP" => f.whole
        /\ ~Framed => \E k \in Drives : f.drives = 1 .. k /\ (f.whole => k = N)}

\* Every variable keeps its type: a drive the bridge turns to is a configured one, and
\* an empty buffer never reaches the wire (bridge.py:89).
TypeOK ==
    /\ talking \in BOOLEAN
    /\ chan \in Frame \cup {Nothing}
    /\ out \in [Drives -> Contents]
    /\ armed \in BOOLEAN
    /\ age \in 0 .. Late
    /\ tripped \in BOOLEAN
    /\ rx \in [at : {"recv", "clear", "apply", "off"}, frame : Frame \cup {Nothing}]
    /\ wd \in [at : {"sleep", "compare", "trip", "zero", "off"},
               armed : BOOLEAN, age : 0 .. Late]
    /\ br \in [at : {"top", "get", "put", "off"}, drive : Drives, data : Contents]
    /\ connected \subseteq Drives
    /\ wire \in [Drives -> Contents \ {Empty}]
    /\ service \in {"up", "bridge", "server", "closed"}

\* GatewayServer._running is false from GatewayServer.stop to the next start.
\* The other values are what start_services starts the threads with.
AllSafe     == [d \in Drives |-> Safe]
Stopping    == service \in {"server", "closed"}
ServerTop   == [at |-> "recv", frame |-> Nothing]
ServerOff   == [at |-> "off", frame |-> Nothing]
WatchdogTop == [at |-> "sleep", armed |-> FALSE, age |-> 0]
BridgeStart == [at |-> "top", drive |-> 1, data |-> Safe]

Init ==
    /\ talking = FALSE
    /\ chan = Nothing
    /\ out = AllSafe
    /\ armed = FALSE
    /\ age = 0
    /\ tripped = FALSE
    /\ rx = ServerTop
    /\ wd = WatchdogTop
    /\ br = BridgeStart
    /\ connected = {}
    /\ wire = AllSafe
    /\ service = "up"

-----------------------------------------------------------------------------
(* The client, the operator, time, and the drives.                         *)

ClientSends(f) ==
    /\ talking
    /\ chan = Nothing
    /\ chan' = f
    /\ UNCHANGED <<talking, rx, out, clock, tripped, wd, br, connected, wire, service>>

\* The client falls silent, with or without a connection; a frame may get lost.
ClientStops ==
    /\ talking
    /\ talking' = FALSE
    /\ chan' \in {chan, Nothing}
    /\ UNCHANGED <<rx, out, clock, tripped, wd, br, connected, wire, service>>

ClientReturns ==
    /\ ~talking
    /\ talking' = TRUE
    /\ UNCHANGED <<server, out, clock, tripped, wd, br, connected, wire, service>>

\* set_outputs: no more bytes than the buffer has.
SetOutputs(d) == out' = [out EXCEPT ![d] = IF @ = Empty THEN Empty ELSE Forced]

\* The buttons of the IO window, whatever words are in its fields.
ForceOutput(d) ==
    /\ OperatorActs
    /\ SetOutputs(d)
    /\ UNCHANGED <<talking, server, clock, tripped, wd, br, connected, wire, service>>

Older(a) == IF a = Late THEN a ELSE a + 1

Tick ==
    /\ armed
    /\ age < Late \/ wd.age < Late
    /\ age' = Older(age)
    /\ wd' = [wd EXCEPT !.age = Older(@)]
    /\ UNCHANGED <<talking, server, out, armed, tripped, br, connected, wire, service>>

\* configure_device has succeeded for a drive.
DriveConnects(d) ==
    /\ d \notin connected
    /\ connected' = connected \cup {d}
    /\ UNCHANGED <<talking, server, out, clock, tripped, wd, br, wire, service>>

-----------------------------------------------------------------------------
(* The server thread.                                                      *)

\* UDP drops a datagram that is shorter than _out_frame_size.
Accepted(f) == Protocol = "UDP" => f.whole

\* A frame is read, and _mon_rx stamps it; a datagram may be dropped.  A thread that
\* waits in recv while the server is stopped may still get one frame, until the
\* socket is closed.
Receive ==
    /\ rx.at = "recv"
    /\ service # "closed"
    /\ chan # Nothing
    /\ chan' = Nothing
    /\ IF Accepted(chan)
       THEN /\ rx' = [at |-> "clear", frame |-> chan]
            /\ armed' = TRUE
            /\ age' = 0
       ELSE /\ rx' = IF Stopping THEN ServerOff ELSE ServerTop
            /\ UNCHANGED clock
    /\ UNCHANGED <<talking, out, tripped, wd, br, connected, wire, service>>

\* Mutant: the tripped flag is not cleared.
ClearTrippedNot ==
    /\ rx.at = "clear"
    /\ rx' = [rx EXCEPT !.at = "apply"]
    /\ UNCHANGED <<talking, chan, out, clock, tripped, wd, br, connected, wire, service>>

\* The rest of _mon_rx, after its lock.
ClearTripped ==
    /\ rx.at = "clear"
    /\ tripped' = FALSE
    /\ rx' = [rx EXCEPT !.at = "apply"]
    /\ UNCHANGED <<talking, chan, out, clock, wd, br, connected, wire, service>>

\* _apply_outputs.  A framed block overwrites no more bytes than the buffer has; a
\* slice of a flat frame takes the buffer's place, even when it has no bytes left.
Filled(f) ==
    IF Framed
    THEN [d \in Drives |-> IF d \in f.drives /\ out[d] # Empty THEN f.cmd ELSE out[d]]
    ELSE [d \in Drives |-> IF d \in f.drives THEN f.cmd ELSE Empty]

ApplyOutputs ==
    /\ rx.at = "apply"
    /\ out' = Filled(rx.frame)
    /\ rx' = IF Stopping THEN ServerOff ELSE ServerTop
    /\ UNCHANGED <<talking, chan, clock, tripped, wd, br, connected, wire, service>>

ServerExits ==
    /\ rx.at = "recv"
    /\ Stopping
    /\ rx' = ServerOff
    /\ UNCHANGED <<talking, chan, out, clock, tripped, wd, br, connected, wire, service>>

-----------------------------------------------------------------------------
(* The watchdog thread: _watchdog_loop.                                    *)

\* The time of the last frame is read under _mon_lock, and compared after it.
Sample ==
    /\ wd.at = "sleep"
    /\ wd' = IF Stopping
             THEN [wd EXCEPT !.at = "off"]
             ELSE [at |-> "compare", armed |-> armed, age |-> age]
    /\ UNCHANGED <<talking, server, out, clock, tripped, br, connected, wire, service>>

Compare ==
    /\ wd.at = "compare"
    /\ wd' = [wd EXCEPT !.at = IF wd.armed /\ wd.age > Timeout THEN "trip" ELSE "sleep"]
    /\ UNCHANGED <<talking, server, out, clock, tripped, br, connected, wire, service>>

\* Mutant: the buffers are cleared only by the pass that trips the watchdog.
TripOnce ==
    /\ wd.at = "trip"
    /\ tripped' = TRUE
    /\ wd' = [wd EXCEPT !.at = IF tripped THEN "sleep" ELSE "zero"]
    /\ UNCHANGED <<talking, server, out, clock, br, connected, wire, service>>

Trip ==
    /\ wd.at = "trip"
    /\ tripped' = TRUE
    /\ wd' = [wd EXCEPT !.at = "zero"]
    /\ UNCHANGED <<talking, server, out, clock, br, connected, wire, service>>

\* _zero_outputs writes as many zero bytes as the buffer has.
Zeroed == [d \in Drives |-> IF out[d] = Empty THEN Empty ELSE Safe]

ZeroOutputs ==
    /\ wd.at = "zero"
    /\ out' = Zeroed
    /\ wd' = [wd EXCEPT !.at = "sleep"]
    /\ UNCHANGED <<talking, server, clock, tripped, br, connected, wire, service>>

-----------------------------------------------------------------------------
(* The bridge thread: _run.                                                *)

BridgeTop ==
    /\ br.at = "top"
    /\ br' = IF service = "up" THEN [br EXCEPT !.at = "get", !.drive = 1]
                               ELSE [br EXCEPT !.at = "off"]
    /\ UNCHANGED <<talking, server, out, clock, tripped, wd, connected, wire, service>>

\* Mutant: the bridge goes one drive too far.
AdvancedTooFar ==
    IF br.drive <= N THEN [br EXCEPT !.at = "get", !.drive = @ + 1]
                     ELSE [br EXCEPT !.at = "top"]

\* The bridge when it is done with a drive.
Advanced ==
    IF br.drive < N THEN [br EXCEPT !.at = "get", !.drive = @ + 1]
                    ELSE [br EXCEPT !.at = "top"]

\* Mutant: the bridge gives up the round at a drive that is not connected.
BridgeSkipsRest ==
    /\ br.at = "get"
    /\ br.drive \notin connected
    /\ br' = [br EXCEPT !.at = "top"]
    /\ UNCHANGED <<talking, server, out, clock, tripped, wd, connected, wire, service>>

BridgeSkip ==
    /\ br.at = "get"
    /\ br.drive \notin connected
    /\ br' = Advanced
    /\ UNCHANGED <<talking, server, out, clock, tripped, wd, connected, wire, service>>

BridgeGet ==
    /\ br.at = "get"
    /\ br.drive \in connected
    /\ br' = [br EXCEPT !.at = "put", !.data = out[br.drive]]
    /\ UNCHANGED <<talking, server, out, clock, tripped, wd, connected, wire, service>>

\* write_raw_outputs, unless out_data has no bytes.  The inputs that follow touch nothing
\* that is here.
BridgePut ==
    /\ br.at = "put"
    /\ wire' = IF br.data = Empty THEN wire ELSE [wire EXCEPT ![br.drive] = br.data]
    /\ br' = Advanced
    /\ UNCHANGED <<talking, server, out, clock, tripped, wd, connected, service>>

-----------------------------------------------------------------------------
(* on_restart.                                                             *)

\* Bridge.stop: the bridge is told to end.
RestartBegins ==
    /\ OperatorActs
    /\ service = "up"
    /\ service' = "bridge"
    /\ UNCHANGED <<talking, server, out, clock, tripped, wd, br, connected, wire>>

\* Bridge.stop has joined; GatewayServer.stop tells its threads to end.
StopServer ==
    /\ service = "bridge"
    /\ br.at = "off"
    /\ service' = "server"
    /\ UNCHANGED <<talking, server, out, clock, tripped, wd, br, connected, wire>>

\* It joins the watchdog and closes the sockets; what waits there is lost.
CloseSockets ==
    /\ service = "server"
    /\ wd.at = "off"
    /\ service' = "closed"
    /\ chan' = Nothing
    /\ UNCHANGED <<talking, rx, out, clock, tripped, wd, br, connected, wire>>

\* Mutant: configure keeps the output buffers.
RestartedWithOutputs ==
    /\ service = "closed"
    /\ rx.at = "off"
    /\ chan' = Nothing
    /\ armed' = FALSE
    /\ age' = 0
    /\ tripped' = FALSE
    /\ rx' = ServerTop
    /\ wd' = WatchdogTop
    /\ br' = BridgeStart
    /\ connected' = {}
    /\ wire' = AllSafe
    /\ service' = "up"
    /\ UNCHANGED <<talking, out>>

\* The server thread is joined; ProfinetCtrl.stop, then start_services.
Restarted ==
    /\ service = "closed"
    /\ rx.at = "off"
    /\ chan' = Nothing
    /\ out' = AllSafe
    /\ armed' = FALSE
    /\ age' = 0
    /\ tripped' = FALSE
    /\ rx' = ServerTop
    /\ wd' = WatchdogTop
    /\ br' = BridgeStart
    /\ connected' = {}
    /\ wire' = AllSafe
    /\ service' = "up"
    /\ UNCHANGED talking

-----------------------------------------------------------------------------
Server   == Receive \/ ClearTripped \/ ApplyOutputs \/ ServerExits
Watchdog == Sample \/ Compare \/ Trip \/ ZeroOutputs
Bridge   == BridgeTop \/ BridgeSkip \/ BridgeGet \/ BridgePut
Restart  == StopServer \/ CloseSockets \/ Restarted
Client   == (\E f \in Frames : ClientSends(f)) \/ ClientStops \/ ClientReturns

Next ==
    \/ Client \/ Tick
    \/ \E d \in Drives : ForceOutput(d) \/ DriveConnects(d)
    \/ Server \/ Watchdog \/ Bridge
    \/ RestartBegins \/ Restart

Spec == Init /\ [][Next]_vars

\* The threads are scheduled and time passes.  Nobody has to send, force or restart.
Fairness ==
    /\ WF_vars(Server) /\ WF_vars(Watchdog) /\ WF_vars(Bridge)
    /\ WF_vars(Restart) /\ WF_vars(Tick)

FairSpec == Spec /\ Fairness

-----------------------------------------------------------------------------
(* Properties.                                                             *)

\* No command of a client is in a buffer, in the bridge's hands or on the wire
\* unless the watchdog is armed: _mon_rx comes before _apply_outputs, and a
\* restart forgets the commands together with the time stamp.
CommandsAreWatched ==
    ~armed => /\ \A d \in Drives : out[d] \notin Commands /\ wire[d] \notin Commands
              /\ br.at = "put" => br.data \notin Commands

\* When a client that has sent frames stays silent and the operator forces nothing,
\* every connected drive ends up with zero outputs for good, whatever the threads
\* were doing when the last frame came (PROTOCOL.md:161-163).
FailSafe ==
    (<>[](~talking /\ armed) /\ <>[][\A d \in Drives : ~ForceOutput(d)]_vars)
        => <>[](\A d \in connected : wire[d] = Safe)

\* A buffer that settles settles on the wire of a connected drive: no drive that is
\* not connected keeps the others waiting.
BufferReachesWire ==
    \A d \in Drives :
        (<>[](d \in connected /\ out[d] # Empty) /\ <>[][UNCHANGED out]_vars)
            => <>[](wire[d] = out[d])

\* While frames keep coming the watchdog does not stay tripped (PROTOCOL.md:163,
\* "clears automatically when traffic resumes").
TripClears == []<><<Receive /\ Accepted(chan)>>_vars => []<>~tripped
=============================================================================
