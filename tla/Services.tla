------------------------------ MODULE Services ------------------------------
(***************************************************************************)
(* The services of the gateway application: the GUI thread, which starts,  *)
(* restarts and stops them (main.py, ui/main_window.py), the worker that   *)
(* each start sends off to connect the devices, and the PROFINET backend   *)
(* they share (profinet_ctrl.py).                                          *)
(*                                                                         *)
(* A DeviceState is named <<k, i>>: the i-th of the list made by the k-th  *)
(* start.  A run of configure_device is named <<w, k, i>>, the worker of   *)
(* start w working on <<k, i>>, and so are the connection, the alarm       *)
(* listener and the cyclic controller which that run creates.  w and k     *)
(* differ when a worker lives on into the next configuration.              *)
(***************************************************************************)
EXTENDS Naturals, Sequences, FiniteSets

CONSTANTS
  Device,      \* the DeviceConfig objects a configuration can hold
  MaxStarts,   \* bound: the first start and the restarts
  None

ASSUME ServicesAssumption ==
  /\ IsFiniteSet(Device)
  /\ MaxStarts \in Nat \ {0}
  /\ None \notin Device \union (Nat \X Nat) \union (Nat \X Nat \X Nat)

Start == 1 .. MaxStarts
Place == 1 .. Cardinality(Device)
State == Start \X Place
Attempt == Start \X Start \X Place

\* A configuration: each DeviceConfig object is on the canvas once.
Configs == {c \in UNION {[1 .. n -> Device] : n \in 0 .. Cardinality(Device)} :
              \A i, j \in DOMAIN c : c[i] = c[j] => i = j}

VARIABLES
  cfg,       \* cfg.devices
  devices,   \* ProfinetCtrl._devices: the DeviceStates in use
  ds,        \* every DeviceState ever made
  live,      \* what runs: connections, alarm listeners, cyclic controllers
  worker,    \* the pn-connect thread of each start
  starts,    \* how often the services have been started
  gui,       \* where the GUI thread stands
  stopping,  \* the DeviceStates ProfinetCtrl.stop still has to see to
  closing,   \* the main window is being closed
  overlap    \* history: the services were stopped before a worker was done

servicesVars ==
  <<cfg, devices, ds, live, worker, starts, gui, stopping, closing, overlap>>
guiVars == <<gui, starts, stopping, closing, overlap>>

Unused == [config |-> None, connected |-> FALSE,
           cyclic |-> None, alarm |-> None, conn |-> None]

Idle == [at |-> "none", n |-> 0, i |-> 1, state |-> None]

Steps == {"none", "range", "next", "dcp", "connect", "alarm", "cyclic", "ready",
          "fail", "end"}

ServicesTypeOK ==
  /\ cfg \in Configs
  /\ devices \in Seq(State)
  /\ ds \in [State -> [config : Device \union {None}, connected : BOOLEAN,
                       cyclic : Attempt \union {None}, alarm : Attempt \union {None},
                       conn : Attempt \union {None}]]
  /\ live \in [conn : SUBSET Attempt, alarm : SUBSET Attempt, ctrl : SUBSET Attempt]
  /\ worker \in [Start -> [at : Steps, n : 0 .. Cardinality(Device),
                           i : 1 .. Cardinality(Device) + 1,
                           state : State \union {None}]]
  /\ starts \in 0 .. MaxStarts
  /\ gui \in {"start", "idle", "stop", "alarm", "cyclic", "conn", "closed"}
  /\ stopping \in Seq(State)
  /\ closing \in BOOLEAN
  /\ overlap \in BOOLEAN

\* main(): the services start with the configuration that was loaded.
ServicesInit ==
  /\ cfg \in Configs
  /\ devices = <<>>
  /\ ds = [s \in State |-> Unused]
  /\ live = [conn |-> {}, alarm |-> {}, ctrl |-> {}]
  /\ worker = [w \in Start |-> Idle]
  /\ starts = 0
  /\ gui = "start"
  /\ stopping = <<>>
  /\ closing = FALSE
  /\ overlap = FALSE

-----------------------------------------------------------------------------
(* The GUI thread. *)

Working(w) == worker[w].at \notin {"none", "end"}

\* ProfinetCtrl.start: one fresh DeviceState per configured device.  The stop()
\* it begins with finds no devices.
StateList(k) == [i \in DOMAIN cfg |-> <<k, i>>]

\* start_services: the backend gets its list and the worker is sent off; with
\* no devices neither happens.
StartServices ==
  LET k == starts + 1 IN
  /\ gui = "start"
  /\ starts < MaxStarts
  /\ ~closing
  /\ gui' = "idle"
  /\ starts' = k
  /\ IF cfg # <<>>
     THEN /\ devices' = StateList(k)
          /\ ds' = [s \in State |-> IF s[1] = k /\ s[2] \in DOMAIN cfg
                                    THEN [Unused EXCEPT !.config = cfg[s[2]]]
                                    ELSE ds[s]]
          /\ worker' = [worker EXCEPT ![k].at = "range"]
     ELSE UNCHANGED <<devices, ds, worker>>
  /\ UNCHANGED <<cfg, live, stopping, closing, overlap>>

\* The services are to be stopped.  Nothing asks whether the worker is still
\* connecting devices.
Halt ==
  /\ gui = "idle"
  /\ gui' = "stop"
  /\ overlap' = (overlap \/ \E w \in Start : Working(w))
  /\ UNCHANGED <<devices, ds, live, worker, starts, stopping>>

\* ConfigWindow._apply_restart puts the new list into the shared AppConfig and
\* calls on_restart.
Restart(list) ==
  /\ starts < MaxStarts
  /\ Halt
  /\ cfg' = list
  /\ UNCHANGED closing

\* MainWindow._on_close.
Quit ==
  /\ Halt
  /\ closing' = TRUE
  /\ UNCHANGED cfg

\* Mutant: the list is left in place while its devices are stopped.
TakeListCopy ==
  /\ gui = "stop"
  /\ stopping' = devices
  /\ gui' = IF devices = <<>> THEN "start" ELSE "alarm"
  /\ UNCHANGED <<cfg, devices, ds, live, worker, starts, closing, overlap>>

\* ProfinetCtrl.stop takes the list away under the lock ...
TakeList ==
  /\ gui = "stop"
  /\ stopping' = devices
  /\ devices' = <<>>
  /\ gui' = IF devices = <<>> THEN "start" ELSE "alarm"
  /\ UNCHANGED <<cfg, ds, live, worker, starts, closing, overlap>>

\* Mutant: the alarm listener is not stopped.
StopAlarmNot ==
  /\ gui = "alarm"
  /\ gui' = "cyclic"
  /\ UNCHANGED <<cfg, devices, ds, live, worker, starts, stopping, closing, overlap>>

\* ... and then stops what each DeviceState names, in this order.
StopAlarm ==
  /\ gui = "alarm"
  /\ live' = [live EXCEPT !.alarm = @ \ {ds[Head(stopping)].alarm}]
  /\ gui' = "cyclic"
  /\ UNCHANGED <<cfg, devices, ds, worker, starts, stopping, closing, overlap>>

StopCyclic ==
  /\ gui = "cyclic"
  /\ live' = [live EXCEPT !.ctrl = @ \ {ds[Head(stopping)].cyclic}]
  /\ gui' = "conn"
  /\ UNCHANGED <<cfg, devices, ds, worker, starts, stopping, closing, overlap>>

StopConn ==
  /\ gui = "conn"
  /\ live' = [live EXCEPT !.conn = @ \ {ds[Head(stopping)].conn}]
  /\ ds' = [ds EXCEPT ![Head(stopping)].connected = FALSE]
  /\ stopping' = Tail(stopping)
  /\ gui' = IF Tail(stopping) = <<>> THEN "start" ELSE "alarm"
  /\ UNCHANGED <<cfg, devices, worker, starts, closing, overlap>>

\* The window is destroyed and mainloop() returns; the threads are daemons and
\* end with the process.
Exit ==
  /\ gui = "start"
  /\ closing
  /\ gui' = "closed"
  /\ UNCHANGED <<cfg, devices, ds, live, worker, starts, stopping, closing, overlap>>

-----------------------------------------------------------------------------
(* The worker of start w: _connect_all, and configure_device in it. *)

\* This run of configure_device.
This(w) == <<w, worker[w].state[1], worker[w].state[2]>>

\* The worker goes on with this step of configure_device ...
Goto(w, step) == worker' = [worker EXCEPT ![w].at = step]

\* ... or configure_device returns and the loop takes the next device.
Return(w) == worker' = [worker EXCEPT ![w].at = "next", ![w].i = @ + 1,
                                      ![w].state = None]

\* Mutant: one device too many.
CountDevicesTooMany(w) ==
  /\ worker[w].at = "range"
  /\ worker' = [worker EXCEPT ![w].at = "next", ![w].n = Len(cfg) + 1]
  /\ UNCHANGED <<cfg, devices, ds, live>>

\* range(len(cfg.devices)), evaluated once, when the thread first runs.
CountDevices(w) ==
  /\ worker[w].at = "range"
  /\ worker' = [worker EXCEPT ![w].at = "next", ![w].n = Len(cfg)]
  /\ UNCHANGED <<cfg, devices, ds, live>>

\* The list a device is looked up in (_get) is the one of that moment.  One
\* that is not in it is passed over.
NextDevice(w) ==
  /\ worker[w].at = "next"
  /\ IF worker[w].i > worker[w].n THEN Goto(w, "end")
     ELSE IF worker[w].i > Len(devices) THEN Return(w)
     ELSE worker' = [worker EXCEPT ![w].at = "dcp", ![w].state = devices[worker[w].i]]
  /\ UNCHANGED <<cfg, devices, ds, live>>

\* A device without a station name is refused.
Refuse(w) ==
  /\ worker[w].at = "dcp"
  /\ ds' = [ds EXCEPT ![worker[w].state].connected = FALSE]
  /\ Return(w)
  /\ UNCHANGED <<cfg, devices, live>>

\* DCP name and address, the station looked up, the topology built.
Resolve(w) ==
  /\ worker[w].at = "dcp"
  /\ Goto(w, "connect")
  /\ UNCHANGED <<cfg, devices, ds, live>>

\* The AR is accepted, with object instance 1 or, if that is refused, with 0.  A
\* connection that is refused is closed before its exception gets any further.
Connect(w) ==
  /\ worker[w].at = "connect"
  /\ live' = [live EXCEPT !.conn = @ \union {This(w)}]
  /\ Goto(w, "alarm")
  /\ UNCHANGED <<cfg, devices, ds>>

\* The response has no cyclic AR.
NoCyclicAR(w) ==
  /\ worker[w].at = "alarm"
  /\ live' = [live EXCEPT !.conn = @ \ {This(w)}]
  /\ ds' = [ds EXCEPT ![worker[w].state].connected = FALSE]
  /\ Return(w)
  /\ UNCHANGED <<cfg, devices>>

\* The alarm listener is stored at once.  It may be switched off or fail to
\* start, which is only logged.
StartAlarmListener(w) ==
  /\ worker[w].at = "alarm"
  /\ \E started \in {This(w), None} :
       /\ live' = [live EXCEPT !.alarm = @ \union ({started} \ {None})]
       /\ ds' = [ds EXCEPT ![worker[w].state].alarm = started]
  /\ Goto(w, "cyclic")
  /\ UNCHANGED <<cfg, devices>>

\* The cyclic controller runs before PrmEnd and ApplicationReady.
StartCyclic(w) ==
  /\ worker[w].at = "cyclic"
  /\ live' = [live EXCEPT !.ctrl = @ \union {This(w)}]
  /\ Goto(w, "ready")
  /\ UNCHANGED <<cfg, devices, ds>>

\* prm_end and application_ready have been answered.
Store(w) ==
  /\ worker[w].at = "ready"
  /\ ds' = [ds EXCEPT ![worker[w].state] =
              [@ EXCEPT !.conn = This(w), !.cyclic = This(w), !.connected = TRUE]]
  /\ Return(w)
  /\ UNCHANGED <<cfg, devices, live>>

\* Each of these steps may raise ...
Raise(w) ==
  /\ worker[w].at \in {"dcp", "connect", "alarm", "cyclic", "ready"}
  /\ Goto(w, "fail")
  /\ UNCHANGED <<cfg, devices, ds, live>>

\* Mutant: the handler does not close the connection.
CleanUpKeepsConn(w) ==
  /\ worker[w].at = "fail"
  /\ ds' = [ds EXCEPT ![worker[w].state].connected = FALSE]
  /\ live' = [live EXCEPT !.ctrl = @ \ {This(w)},
                          !.alarm = @ \ {ds[worker[w].state].alarm}]
  /\ Return(w)
  /\ UNCHANGED <<cfg, devices>>

\* Mutant: the handler does not stop the cyclic controller.
CleanUpKeepsCyclic(w) ==
  /\ worker[w].at = "fail"
  /\ ds' = [ds EXCEPT ![worker[w].state].connected = FALSE]
  /\ live' = [live EXCEPT !.conn = @ \ {This(w)},
                          !.alarm = @ \ {ds[worker[w].state].alarm}]
  /\ Return(w)
  /\ UNCHANGED <<cfg, devices>>

\* ... and the handler cleans up: the listener the DeviceState names, and the
\* controller and the connection of this run.
CleanUp(w) ==
  /\ worker[w].at = "fail"
  /\ ds' = [ds EXCEPT ![worker[w].state].connected = FALSE]
  /\ live' = [conn |-> live.conn \ {This(w)},
              alarm |-> live.alarm \ {ds[worker[w].state].alarm},
              ctrl |-> live.ctrl \ {This(w)}]
  /\ Return(w)
  /\ UNCHANGED <<cfg, devices>>

WorkerStep(w) ==
  /\ gui # "closed"
  /\ UNCHANGED guiVars
  /\ \/ CountDevices(w) \/ NextDevice(w)
     \/ Refuse(w) \/ Resolve(w) \/ Connect(w) \/ NoCyclicAR(w)
     \/ StartAlarmListener(w) \/ StartCyclic(w) \/ Store(w) \/ Raise(w) \/ CleanUp(w)

GuiStep ==
  StartServices \/ TakeList \/ StopAlarm \/ StopCyclic \/ StopConn \/ Exit

ServicesNext ==
  \/ GuiStep
  \/ \E list \in Configs : Restart(list)
  \/ Quit
  \/ \E w \in Start : WorkerStep(w)

ServicesSpec == ServicesInit /\ [][ServicesNext]_servicesVars

-----------------------------------------------------------------------------
(* Correctness. *)

InUse == {devices[i] : i \in DOMAIN devices} \union {stopping[i] : i \in DOMAIN stopping}

Running == live.conn \union live.alarm \union live.ctrl

\* A device in the list that the rest of the program takes for connected has a
\* running controller and an open connection, whoever else is at work on it:
\* the bridge writes into that controller.
ConnectedIsLive ==
  \A i \in DOMAIN devices :
    LET s == ds[devices[i]] IN s.connected => s.cyclic \in live.ctrl /\ s.conn \in live.conn

\* What runs can still be stopped: its worker has it in hand, or a DeviceState
\* in use names it.
Reachable(a) ==
  LET s == <<a[2], a[3]>> IN
  \/ worker[a[1]].state = s
  \/ /\ s \in InUse
     /\ a \in live.conn  => ds[s].conn = a
     /\ a \in live.alarm => ds[s].alarm = a
     /\ a \in live.ctrl  => ds[s].cyclic = a

\* Every failure path of configure_device closes what it has opened, and a stop
\* reaches the rest, as long as no stop overtakes a worker (profinet_ctrl.py:413,
\* "clean up any half-open resources so a failed reconnect doesn't leak").
NothingLeaks == ~overlap => \A a \in Running : Reachable(a)

\* A drive gets output frames from one controller at a time.
OneStream ==
  ~overlap => \A a, b \in live.ctrl :
                ds[<<a[2], a[3]>>].config = ds[<<b[2], b[3]>>].config => a = b

\* When stop() has logged "Stopped all devices", nothing runs.
StoppedAll == ~overlap /\ gui = "start" => Running = {}
=============================================================================
