--------------------------- MODULE ServicesProofs ---------------------------
(***************************************************************************)
(* Proofs about Services, for any devices and any number of starts.  What  *)
(* the program takes for connected runs, whoever is at work; and as long   *)
(* as no stop has overtaken a worker, nothing leaks, no drive has two      *)
(* controllers, and a stop leaves nothing running.                         *)
(***************************************************************************)
EXTENDS Services, FiniteSetTheorems, TLAPS

Busy == {"dcp", "connect", "alarm", "cyclic", "ready", "fail"}

\* A worker that has a device in hand is at that index of its range.
WorkerInv ==
  \A w \in Start :
    /\ worker[w].at \in Busy =>
         /\ worker[w].i <= worker[w].n
         /\ worker[w].state \in State
         /\ worker[w].state[2] = worker[w].i
    /\ worker[w].at \notin Busy => worker[w].state = None
    /\ w > starts => worker[w] = Idle

\* The list in use is the one of the last start, and a stop has taken it away.
ListInv ==
  /\ \A j \in DOMAIN devices : devices[j] = <<starts, j>>
  /\ gui \notin {"idle", "stop"} => devices = <<>>
  /\ (gui \in {"alarm", "cyclic", "conn"}) <=> (stopping # <<>>)
  /\ \A j \in DOMAIN stopping : stopping[j][1] = starts

\* What a DeviceState names was made for it, by a worker that has gone on since.
NameInv ==
  \A t \in State :
    /\ ds[t].cyclic # None =>
         /\ ds[t].cyclic[2] = t[1] /\ ds[t].cyclic[3] = t[2]
         /\ t[2] < worker[ds[t].cyclic[1]].i
    /\ ds[t].conn # None =>
         /\ ds[t].conn[2] = t[1] /\ ds[t].conn[3] = t[2]
         /\ t[2] < worker[ds[t].conn[1]].i

\* What a worker has started and not yet stored is running.
HandInv ==
  \A w \in Start :
    /\ worker[w].at \in {"alarm", "cyclic", "ready"} => This(w) \in live.conn
    /\ worker[w].at = "ready" => This(w) \in live.ctrl

Inv == ServicesTypeOK /\ WorkerInv /\ ListInv /\ NameInv /\ HandInv /\ ConnectedIsLive

-----------------------------------------------------------------------------

LEMMA PlacesFinite == Cardinality(Device) \in Nat
BY FS_CardinalityType, ServicesAssumption

LEMMA ConfigList ==
  ASSUME NEW c \in Configs
  PROVE  /\ c \in Seq(Device) /\ DOMAIN c = 1 .. Len(c) /\ Len(c) \in 0 .. Cardinality(Device)
         /\ \A i, j \in DOMAIN c : c[i] = c[j] => i = j
<1>1. PICK n \in 0 .. Cardinality(Device) : c \in [1 .. n -> Device]
  BY DEF Configs
<1>2. n \in Nat
  BY PlacesFinite
<1>3. c \in Seq(Device) /\ Len(c) = n
  BY <1>1, <1>2
<1> QED
  BY <1>1, <1>2, <1>3 DEF Configs

\* A run of configure_device has a name of its own.
LEMMA ThisRun ==
  ASSUME NEW w \in Start, worker[w].state \in State
  PROVE  /\ This(w) \in Attempt
         /\ This(w)[1] = w /\ This(w)[2] = worker[w].state[1]
         /\ This(w)[3] = worker[w].state[2]
         /\ This(w) # None
<1>1. PICK k \in Start, i \in Place : worker[w].state = <<k, i>>
  BY DEF State
<1>2. This(w) = <<w, k, i>>
  BY <1>1 DEF This
<1>3. Start \subseteq Nat /\ Place \subseteq Nat
  BY PlacesFinite, ServicesAssumption DEF Start, Place
<1>4. <<w, k, i>> \in Nat \X Nat \X Nat
  BY <1>3
<1>5. This(w) # None
  BY <1>2, <1>4, ServicesAssumption
<1> QED
  BY <1>1, <1>2, <1>5 DEF Attempt

LEMMA InvInit == ServicesInit => Inv
<1> SUFFICES ASSUME ServicesInit PROVE Inv
  OBVIOUS
<1>1. Cardinality(Device) \in Nat
  BY PlacesFinite
<1>2. ServicesTypeOK
  <2>1. 0 \in 0 .. MaxStarts /\ <<>> \in Seq(State)
    BY ServicesAssumption
  <2>2. ds \in [State -> [config : Device \union {None}, connected : BOOLEAN,
                         cyclic : Attempt \union {None}, alarm : Attempt \union {None},
                         conn : Attempt \union {None}]]
    BY DEF ServicesInit, Unused
  <2>3. worker \in [Start -> [at : Steps, n : 0 .. Cardinality(Device),
                              i : 1 .. Cardinality(Device) + 1, state : State \union {None}]]
    BY <1>1 DEF ServicesInit, Idle, Steps
  <2>4. live \in [conn : SUBSET Attempt, alarm : SUBSET Attempt, ctrl : SUBSET Attempt]
    BY DEF ServicesInit
  <2> QED
    BY <2>1, <2>2, <2>3, <2>4 DEF ServicesInit, ServicesTypeOK
<1>3. WorkerInv
  BY DEF ServicesInit, WorkerInv, Idle, Busy
<1>4. ListInv /\ NameInv /\ HandInv /\ ConnectedIsLive
  BY DEF ServicesInit, ListInv, NameInv, HandInv, ConnectedIsLive, Unused, Idle
<1> QED
  BY <1>2, <1>3, <1>4 DEF Inv

-----------------------------------------------------------------------------
(* What the changes that several steps make have in common. *)

StateRec == [config : Device \union {None}, connected : BOOLEAN,
             cyclic : Attempt \union {None}, alarm : Attempt \union {None},
             conn : Attempt \union {None}]

WorkerRec == [at : Steps, n : 0 .. Cardinality(Device),
              i : 1 .. Cardinality(Device) + 1, state : State \union {None}]

\* A step of a worker w changes its record only, and never takes i back.
Forward(w) ==
  /\ worker' \in [Start -> WorkerRec]
  /\ \A v \in Start \ {w} : worker'[v] = worker[v]
  /\ worker'[w].i >= worker[w].i

LEMMA BusyWorker ==
  ASSUME Inv, NEW w \in Start, worker[w].at \in Busy
  PROVE  /\ worker[w] \in WorkerRec /\ worker[w].state \in State
         /\ worker[w].state[2] = worker[w].i /\ worker[w].i <= worker[w].n
         /\ worker[w].i \in Nat /\ worker[w].n \in Nat
         /\ worker[w].i + 1 \in 1 .. Cardinality(Device) + 1
         /\ ~(w > starts)
<1>1. worker[w] \in WorkerRec
  BY DEF Inv, ServicesTypeOK, WorkerRec
<1>2. worker[w].state \in State /\ worker[w].state[2] = worker[w].i
      /\ worker[w].i <= worker[w].n
  BY DEF Inv, WorkerInv
<1>3. worker[w].i \in Nat /\ worker[w].n \in 0 .. Cardinality(Device)
  BY <1>1, PlacesFinite DEF WorkerRec
<1>4. ~(w > starts)
  BY DEF Inv, WorkerInv, Busy, Idle
<1> QED
  BY <1>1, <1>2, <1>3, <1>4, PlacesFinite

LEMMA GoesOn ==
  ASSUME Inv, NEW w \in Start, worker[w].at \in Busy, NEW step \in Busy,
         Goto(w, step), UNCHANGED starts
  PROVE  /\ Forward(w) /\ WorkerInv'
         /\ worker'[w] = [worker[w] EXCEPT !.at = step]
         /\ worker'[w].at = step /\ worker'[w].i = worker[w].i
         /\ \A v \in Start : This(v)' = This(v)
<1>1. worker \in [Start -> WorkerRec]
  BY DEF Inv, ServicesTypeOK, WorkerRec
<1>2. worker' = [worker EXCEPT ![w] = [worker[w] EXCEPT !.at = step]]
  BY DEF Goto
<1>3. worker[w] \in WorkerRec /\ worker[w].i \in Nat
  BY BusyWorker
<1>4. step \in Steps
  BY DEF Busy, Steps
<1>5. worker'[w] = [worker[w] EXCEPT !.at = step] /\ worker'[w] \in WorkerRec
  BY <1>1, <1>2, <1>3, <1>4 DEF WorkerRec
<1>6. /\ worker'[w].at = step /\ worker'[w].i = worker[w].i
      /\ worker'[w].n = worker[w].n /\ worker'[w].state = worker[w].state
  BY <1>3, <1>5 DEF WorkerRec
<1>7. \A v \in Start \ {w} : worker'[v] = worker[v]
  BY <1>1, <1>2
<1>8. Forward(w)
  BY <1>1, <1>2, <1>3, <1>5, <1>6, <1>7 DEF Forward
<1>9. WorkerInv'
  <2> SUFFICES ASSUME NEW v \in Start
               PROVE  /\ worker'[v].at \in Busy =>
                           /\ worker'[v].i <= worker'[v].n
                           /\ worker'[v].state \in State
                           /\ worker'[v].state[2] = worker'[v].i
                      /\ worker'[v].at \notin Busy => worker'[v].state = None
                      /\ v > starts => worker'[v] = Idle
    BY DEF WorkerInv
  <2>1. CASE v = w
    BY <2>1, <1>6, BusyWorker
  <2>2. CASE v # w
    BY <2>2, <1>7 DEF Inv, WorkerInv
  <2> QED
    BY <2>1, <2>2
<1>10. \A v \in Start : This(v)' = This(v)
  BY <1>6, <1>7 DEF This
<1> QED
  BY <1>5, <1>6, <1>8, <1>9, <1>10

LEMMA Returns ==
  ASSUME Inv, NEW w \in Start, Return(w), UNCHANGED starts,
         worker[w].at \in Busy \/ (worker[w].at = "next" /\ worker[w].i <= worker[w].n)
  PROVE  /\ Forward(w) /\ WorkerInv'
         /\ worker'[w].at = "next" /\ worker'[w].i = worker[w].i + 1
         /\ \A v \in Start \ {w} : This(v)' = This(v)
<1>1. worker \in [Start -> WorkerRec]
  BY DEF Inv, ServicesTypeOK, WorkerRec
<1>2. worker' = [worker EXCEPT ![w] = [worker[w] EXCEPT !.at = "next", !.i = @ + 1,
                                                        !.state = None]]
  BY DEF Return
<1>3. /\ worker[w] \in WorkerRec /\ worker[w].i \in Nat
      /\ worker[w].i + 1 \in 1 .. Cardinality(Device) + 1 /\ ~(w > starts)
  <2>1. CASE worker[w].at \in Busy
    BY <2>1, BusyWorker
  <2>2. CASE worker[w].at = "next" /\ worker[w].i <= worker[w].n
    <3>1. ~(w > starts)
      BY <2>2 DEF Inv, WorkerInv, Idle
    <3> QED
      BY <1>1, <2>2, <3>1, PlacesFinite DEF WorkerRec
  <2> QED
    BY <2>1, <2>2
<1>4. /\ worker'[w].at = "next" /\ worker'[w].i = worker[w].i + 1
      /\ worker'[w].state = None /\ worker'[w].n = worker[w].n
      /\ worker'[w] \in WorkerRec
  BY <1>1, <1>2, <1>3 DEF WorkerRec, Steps
<1>5. \A v \in Start \ {w} : worker'[v] = worker[v]
  BY <1>1, <1>2
<1>6. Forward(w)
  BY <1>1, <1>2, <1>3, <1>4, <1>5 DEF Forward
<1>7. WorkerInv'
  <2> SUFFICES ASSUME NEW v \in Start
               PROVE  /\ worker'[v].at \in Busy =>
                           /\ worker'[v].i <= worker'[v].n
                           /\ worker'[v].state \in State
                           /\ worker'[v].state[2] = worker'[v].i
                      /\ worker'[v].at \notin Busy => worker'[v].state = None
                      /\ v > starts => worker'[v] = Idle
    BY DEF WorkerInv
  <2>1. CASE v = w
    BY <2>1, <1>3, <1>4 DEF Busy
  <2>2. CASE v # w
    BY <2>2, <1>5 DEF Inv, WorkerInv
  <2> QED
    BY <2>1, <2>2
<1>8. \A v \in Start \ {w} : This(v)' = This(v)
  BY <1>5 DEF This
<1> QED
  BY <1>4, <1>6, <1>7, <1>8

\* No DeviceState names what a worker has in hand: the worker is at a later
\* index than whatever a DeviceState names of its.
LEMMA NotNamed ==
  ASSUME Inv, NEW w \in Start, worker[w].at \in Busy, NEW t \in State
  PROVE  ds[t].cyclic # This(w) /\ ds[t].conn # This(w)
<1>1. /\ worker[w].state \in State /\ worker[w].state[2] = worker[w].i
      /\ worker[w].i \in Nat
  BY BusyWorker
<1>2. This(w)[1] = w /\ This(w)[3] = worker[w].i /\ This(w) # None
  BY <1>1, ThisRun
<1>3. t[2] \in Nat
  BY PlacesFinite DEF State, Place
<1>4. ASSUME ds[t].cyclic = This(w) PROVE FALSE
  BY <1>1, <1>2, <1>3, <1>4 DEF Inv, NameInv
<1>5. ASSUME ds[t].conn = This(w) PROVE FALSE
  BY <1>1, <1>2, <1>3, <1>5 DEF Inv, NameInv
<1> QED
  BY <1>4, <1>5

\* What a DeviceState names is the attempt of some start.
LEMMA NamedByStart ==
  ASSUME Inv, NEW t \in State
  PROVE  /\ ds[t].cyclic # None => ds[t].cyclic[1] \in Start
         /\ ds[t].conn # None => ds[t].conn[1] \in Start
<1>1. ds[t] \in StateRec
  BY DEF Inv, ServicesTypeOK, StateRec
<1> QED
  BY <1>1 DEF StateRec, Attempt

\* A worker that goes ahead takes nothing from NameInv.
LEMMA NamesStay ==
  ASSUME Inv, NEW w \in Start, Forward(w),
         \A t \in State : ds'[t].cyclic = ds[t].cyclic /\ ds'[t].conn = ds[t].conn
  PROVE  NameInv'
<1>1. \A v \in Start : worker'[v].i >= worker[v].i /\ worker[v].i \in Nat
                       /\ worker'[v].i \in Nat
  <2>1. worker \in [Start -> WorkerRec] /\ worker' \in [Start -> WorkerRec]
    BY DEF Inv, ServicesTypeOK, WorkerRec, Forward
  <2>2. \A v \in Start : worker[v].i \in Nat /\ worker'[v].i \in Nat
    BY <2>1, PlacesFinite DEF WorkerRec
  <2> QED
    BY <2>2 DEF Forward
<1>2. \A t \in State : t[2] \in Nat
  BY PlacesFinite DEF State, Place
<1> QED
  BY <1>1, <1>2, NamedByStart DEF Inv, NameInv

LEMMA Disconnects ==
  ASSUME Inv, NEW s \in State, ds' = [ds EXCEPT ![s].connected = FALSE]
  PROVE  /\ ds' \in [State -> StateRec]
         /\ \A t \in State :
              /\ ds'[t].config = ds[t].config /\ ds'[t].cyclic = ds[t].cyclic
              /\ ds'[t].alarm = ds[t].alarm /\ ds'[t].conn = ds[t].conn
              /\ ds'[t].connected => ds[t].connected /\ t # s
<1>1. ds \in [State -> StateRec]
  BY DEF Inv, ServicesTypeOK, StateRec
<1>2. ds' = [ds EXCEPT ![s] = [ds[s] EXCEPT !.connected = FALSE]]
  OBVIOUS
<1>3. ds[s] \in StateRec /\ [ds[s] EXCEPT !.connected = FALSE] \in StateRec
  BY <1>1 DEF StateRec
<1>4. ds' \in [State -> StateRec]
  BY <1>1, <1>2, <1>3
<1>5. \A t \in State \ {s} : ds'[t] = ds[t]
  BY <1>1, <1>2
<1>6. ds'[s] = [ds[s] EXCEPT !.connected = FALSE]
  BY <1>1, <1>2
<1>7. /\ ds'[s].config = ds[s].config /\ ds'[s].cyclic = ds[s].cyclic
      /\ ds'[s].alarm = ds[s].alarm /\ ds'[s].conn = ds[s].conn /\ ~ds'[s].connected
  BY <1>3, <1>6 DEF StateRec
<1> QED
  BY <1>4, <1>5, <1>7

-----------------------------------------------------------------------------
(* The steps of a worker. *)

LiveRec == [conn : SUBSET Attempt, alarm : SUBSET Attempt, ctrl : SUBSET Attempt]

LEMMA LiveParts ==
  ASSUME Inv
  PROVE  /\ live \in LiveRec
         /\ live.conn \in SUBSET Attempt /\ live.alarm \in SUBSET Attempt
         /\ live.ctrl \in SUBSET Attempt
<1>1. live \in LiveRec
  BY DEF Inv, ServicesTypeOK, LiveRec
<1> QED
  BY <1>1 DEF LiveRec

\* A step of a worker leaves the lists and the GUI thread alone.
LEMMA ByWorker ==
  ASSUME Inv, NEW w \in Start, Forward(w), UNCHANGED <<cfg, devices>>, UNCHANGED guiVars,
         ds' \in [State -> StateRec], live' \in LiveRec,
         WorkerInv', NameInv', HandInv', ConnectedIsLive'
  PROVE  Inv'
<1>1. ServicesTypeOK'
  BY DEF Inv, ServicesTypeOK, Forward, guiVars, StateRec, LiveRec, WorkerRec
<1>2. ListInv'
  BY DEF Inv, ListInv, guiVars
<1> QED
  BY <1>1, <1>2 DEF Inv

\* What the others have in hand stays theirs.
LEMMA OthersInHand ==
  ASSUME Inv, NEW w \in Start, NEW v \in Start \ {w}, Forward(w),
         live.conn \ {This(w)} \subseteq live'.conn,
         live.ctrl \ {This(w)} \subseteq live'.ctrl
  PROVE  /\ worker'[v].at \in {"alarm", "cyclic", "ready"} => This(v)' \in live'.conn
         /\ worker'[v].at = "ready" => This(v)' \in live'.ctrl
<1>1. worker'[v] = worker[v] /\ This(v)' = This(v)
  BY DEF Forward, This
<1>2. This(v)[1] = v /\ This(w)[1] = w /\ v # w
  BY DEF This
<1>3. This(v) # This(w)
  BY <1>2
<1> QED
  BY <1>1, <1>3 DEF Inv, HandInv

\* A device that stays connected keeps what runs for it.
LEMMA OthersLive ==
  ASSUME Inv, UNCHANGED devices,
         \A t \in State : ds'[t].connected =>
           /\ ds[t].connected
           /\ ds'[t].conn = ds[t].conn /\ ds'[t].cyclic = ds[t].cyclic
           /\ ds[t].conn \in live.conn => ds[t].conn \in live'.conn
           /\ ds[t].cyclic \in live.ctrl => ds[t].cyclic \in live'.ctrl
  PROVE  ConnectedIsLive'
<1>1. \A j \in DOMAIN devices : devices[j] \in State
  BY DEF Inv, ServicesTypeOK
<1> QED
  BY <1>1 DEF Inv, ConnectedIsLive

LEMMA CountDevicesInv ==
  ASSUME Inv, NEW w \in Start, CountDevices(w), UNCHANGED guiVars PROVE Inv'
<1>1. /\ worker \in [Start -> WorkerRec] /\ cfg \in Configs
      /\ worker[w] \in WorkerRec /\ worker[w].state = None /\ ~(w > starts)
  <2>1. worker \in [Start -> WorkerRec] /\ cfg \in Configs
    BY DEF Inv, ServicesTypeOK, WorkerRec
  <2>2. worker[w].state = None
    BY DEF Inv, WorkerInv, CountDevices, Busy
  <2>3. ~(w > starts)
    BY DEF Inv, WorkerInv, CountDevices, Idle
  <2> QED
    BY <2>1, <2>2, <2>3
<1>2. Len(cfg) \in 0 .. Cardinality(Device)
  BY <1>1, ConfigList
<1>3. worker' = [worker EXCEPT ![w] = [worker[w] EXCEPT !.at = "next", !.n = Len(cfg)]]
  BY DEF CountDevices
<1>4. /\ worker'[w] \in WorkerRec /\ worker'[w].at = "next"
      /\ worker'[w].state = None /\ worker'[w].i = worker[w].i
  BY <1>1, <1>2, <1>3 DEF WorkerRec, Steps
<1>5. \A v \in Start \ {w} : worker'[v] = worker[v] /\ This(v)' = This(v)
  BY <1>1, <1>3 DEF This
<1>6. worker' \in [Start -> WorkerRec]
  BY <1>1, <1>3, <1>4
<1>7. ServicesTypeOK'
  BY <1>6 DEF Inv, ServicesTypeOK, guiVars, WorkerRec, CountDevices
<1>8. WorkerInv'
  <2> SUFFICES ASSUME NEW v \in Start
               PROVE  /\ worker'[v].at \in Busy =>
                           /\ worker'[v].i <= worker'[v].n
                           /\ worker'[v].state \in State
                           /\ worker'[v].state[2] = worker'[v].i
                      /\ worker'[v].at \notin Busy => worker'[v].state = None
                      /\ v > starts => worker'[v] = Idle
    BY DEF WorkerInv, guiVars
  <2>1. CASE v = w
    BY <2>1, <1>1, <1>4 DEF Busy
  <2>2. CASE v # w
    BY <2>2, <1>5 DEF Inv, WorkerInv
  <2> QED
    BY <2>1, <2>2
<1>9. ListInv' /\ ConnectedIsLive'
  BY DEF Inv, ListInv, ConnectedIsLive, guiVars, CountDevices
<1>10. NameInv'
  <2>1. worker[w].i \in Nat
    BY <1>1, PlacesFinite DEF WorkerRec
  <2>2. Forward(w)
    BY <2>1, <1>4, <1>5, <1>6 DEF Forward
  <2> QED
    BY <2>2, NamesStay DEF CountDevices
<1>11. HandInv'
  BY <1>4, <1>5 DEF Inv, HandInv, CountDevices
<1> QED
  BY <1>7, <1>8, <1>9, <1>10, <1>11 DEF Inv

\* The worker ends, passes the device over or takes it from the list in use.
LEMMA TakesNext ==
  ASSUME Inv, NEW w \in Start, NextDevice(w), UNCHANGED guiVars
  PROVE  /\ Forward(w) /\ WorkerInv' /\ worker'[w].at \in {"end", "next", "dcp"}
         /\ worker'[w].at = "dcp" =>
              worker'[w].i \in DOMAIN devices /\ worker'[w].state = devices[worker'[w].i]
<1>1. /\ worker \in [Start -> WorkerRec] /\ worker[w] \in WorkerRec
      /\ worker[w].i \in Nat /\ worker[w].n \in Nat /\ worker[w].state = None
      /\ Len(devices) \in Nat
  <2>1. worker \in [Start -> WorkerRec]
    BY DEF Inv, ServicesTypeOK, WorkerRec
  <2>2. worker[w].state = None
    BY DEF Inv, WorkerInv, NextDevice, Busy
  <2>3. Len(devices) \in Nat
    BY DEF Inv, ServicesTypeOK
  <2> QED
    BY <2>1, <2>2, <2>3, PlacesFinite DEF WorkerRec
<1>2. CASE worker[w].i > worker[w].n
  <2>1. worker' = [worker EXCEPT ![w] = [worker[w] EXCEPT !.at = "end"]]
    BY <1>2 DEF NextDevice, Goto
  <2>2. /\ worker'[w] \in WorkerRec /\ worker'[w].at = "end"
        /\ worker'[w].i = worker[w].i /\ worker'[w].state = None
    BY <1>1, <2>1 DEF WorkerRec, Steps
  <2>3. \A v \in Start \ {w} : worker'[v] = worker[v]
    BY <1>1, <2>1
  <2>4. Forward(w)
    BY <1>1, <2>1, <2>2, <2>3 DEF Forward
  <2>5. ~(w > starts)
    BY DEF Inv, WorkerInv, NextDevice, Idle
  <2>6. WorkerInv'
    BY <2>2, <2>3, <2>5 DEF Inv, WorkerInv, guiVars, Busy
  <2> QED
    BY <2>2, <2>4, <2>6
<1>3. CASE worker[w].i <= worker[w].n /\ worker[w].i > Len(devices)
  <2>1. Return(w)
    BY <1>1, <1>3 DEF NextDevice
  <2> QED
    BY <1>3, <2>1, Returns DEF guiVars, NextDevice
<1>4. CASE worker[w].i <= worker[w].n /\ worker[w].i <= Len(devices)
  <2>1. /\ worker[w].i \in DOMAIN devices /\ devices[worker[w].i] \in State
        /\ devices[worker[w].i][2] = worker[w].i
    <3>1. devices \in Seq(State)
      BY DEF Inv, ServicesTypeOK
    <3>2. worker[w].i \in DOMAIN devices /\ devices[worker[w].i] \in State
      BY <3>1, <1>1, <1>4, PlacesFinite DEF WorkerRec
    <3>3. devices[worker[w].i] = <<starts, worker[w].i>>
      BY <3>2 DEF Inv, ListInv
    <3> QED
      BY <3>2, <3>3
  <2>2. worker' = [worker EXCEPT ![w] = [worker[w] EXCEPT !.at = "dcp",
                                           !.state = devices[worker[w].i]]]
    <3>1. ~(worker[w].i > worker[w].n) /\ ~(worker[w].i > Len(devices))
      BY <1>1, <1>4
    <3>2. worker' = [worker EXCEPT ![w].at = "dcp", ![w].state = devices[worker[w].i]]
      BY <3>1 DEF NextDevice
    <3> QED
      BY <3>2
  <2>3. /\ worker'[w] \in WorkerRec /\ worker'[w].at = "dcp"
        /\ worker'[w].i = worker[w].i /\ worker'[w].n = worker[w].n
        /\ worker'[w].state = devices[worker[w].i]
    BY <1>1, <2>1, <2>2 DEF WorkerRec, Steps
  <2>4. \A v \in Start \ {w} : worker'[v] = worker[v]
    BY <1>1, <2>2
  <2>5. Forward(w)
    BY <1>1, <2>2, <2>3, <2>4 DEF Forward
  <2>6. ~(w > starts)
    BY DEF Inv, WorkerInv, NextDevice, Idle
  <2>7. WorkerInv'
    BY <1>4, <2>1, <2>3, <2>4, <2>6 DEF Inv, WorkerInv, guiVars, Busy
  <2> QED
    BY <2>1, <2>3, <2>5, <2>7
<1> QED
  BY <1>1, <1>2, <1>3, <1>4

LEMMA NextDeviceInv ==
  ASSUME Inv, NEW w \in Start, NextDevice(w), UNCHANGED guiVars PROVE Inv'
<1>1. ds' \in [State -> StateRec] /\ live' \in LiveRec /\ ConnectedIsLive'
  BY DEF Inv, ServicesTypeOK, ConnectedIsLive, StateRec, LiveRec, NextDevice
<1>2. Forward(w) /\ WorkerInv' /\ worker'[w].at \notin {"alarm", "cyclic", "ready"}
  BY TakesNext
<1>3. NameInv' /\ HandInv'
  BY <1>2, NamesStay, OthersInHand DEF HandInv, NextDevice
<1> QED
  BY <1>1, <1>2, <1>3, ByWorker DEF NextDevice

LEMMA RefuseInv ==
  ASSUME Inv, NEW w \in Start, Refuse(w), UNCHANGED guiVars PROVE Inv'
<1>1. worker[w].at \in Busy /\ worker[w].state \in State
  BY BusyWorker DEF Refuse, Busy
<1>2. Forward(w) /\ WorkerInv' /\ worker'[w].at = "next"
  BY <1>1, Returns DEF Refuse, guiVars
<1>3. /\ ds' \in [State -> StateRec] /\ live' \in LiveRec
      /\ NameInv' /\ ConnectedIsLive'
  BY <1>1, <1>2, Disconnects, LiveParts, NamesStay, OthersLive DEF Refuse
<1>4. HandInv'
  BY <1>2, OthersInHand DEF HandInv, Refuse
<1> QED
  BY <1>2, <1>3, <1>4, ByWorker DEF Refuse

\* Resolve and Raise only move the worker.
LEMMA MovesInv ==
  ASSUME Inv, NEW w \in Start, Resolve(w) \/ Raise(w), UNCHANGED guiVars PROVE Inv'
<1>1. PICK step \in {"connect", "fail"} : Goto(w, step)
  BY DEF Resolve, Raise
<1>2. Forward(w) /\ WorkerInv' /\ worker'[w].at = step
  BY <1>1, GoesOn DEF Resolve, Raise, Busy, guiVars
<1>3. /\ ds' \in [State -> StateRec] /\ live' \in LiveRec /\ ConnectedIsLive'
      /\ ds' = ds
  BY DEF Inv, ServicesTypeOK, ConnectedIsLive, StateRec, LiveRec, Resolve, Raise
<1>4. NameInv' /\ HandInv'
  BY <1>2, <1>3, NamesStay, OthersInHand DEF HandInv, Resolve, Raise
<1> QED
  BY <1>2, <1>3, <1>4, ByWorker DEF Resolve, Raise

LEMMA ConnectInv ==
  ASSUME Inv, NEW w \in Start, Connect(w), UNCHANGED guiVars PROVE Inv'
<1>1. worker[w].at \in Busy /\ worker[w].state \in State /\ This(w) \in Attempt
  BY BusyWorker, ThisRun DEF Connect, Busy
<1>2. /\ Forward(w) /\ WorkerInv' /\ worker'[w].at = "alarm"
      /\ \A v \in Start : This(v)' = This(v)
  BY <1>1, GoesOn DEF Connect, Busy, guiVars
<1>3. /\ live' \in LiveRec /\ live'.conn = live.conn \union {This(w)}
      /\ live'.ctrl = live.ctrl
  BY <1>1, LiveParts DEF Connect, LiveRec
<1>4. ds' \in [State -> StateRec] /\ ds' = ds
  BY DEF Inv, ServicesTypeOK, StateRec, Connect
<1>5. NameInv' /\ ConnectedIsLive'
  BY <1>2, <1>3, <1>4, NamesStay, OthersLive DEF Connect
<1>6. HandInv'
  BY <1>2, <1>3, OthersInHand DEF HandInv
<1> QED
  BY <1>2, <1>3, <1>4, <1>5, <1>6, ByWorker DEF Connect

LEMMA NoCyclicARInv ==
  ASSUME Inv, NEW w \in Start, NoCyclicAR(w), UNCHANGED guiVars PROVE Inv'
<1>1. worker[w].at \in Busy /\ worker[w].state \in State
  BY BusyWorker DEF NoCyclicAR, Busy
<1>2. Forward(w) /\ WorkerInv' /\ worker'[w].at = "next"
  BY <1>1, Returns DEF NoCyclicAR, guiVars
<1>3. /\ live' \in LiveRec /\ live'.conn = live.conn \ {This(w)}
      /\ live'.ctrl = live.ctrl
  BY LiveParts DEF NoCyclicAR, LiveRec
<1>4. ds' \in [State -> StateRec] /\ NameInv'
  BY <1>1, <1>2, Disconnects, NamesStay DEF NoCyclicAR
<1>5. ConnectedIsLive'
  BY <1>1, <1>3, Disconnects, NotNamed, OthersLive DEF NoCyclicAR
<1>6. HandInv'
  BY <1>2, <1>3, OthersInHand DEF HandInv
<1> QED
  BY <1>2, <1>3, <1>4, <1>5, <1>6, ByWorker DEF NoCyclicAR

LEMMA StartAlarmListenerInv ==
  ASSUME Inv, NEW w \in Start, StartAlarmListener(w), UNCHANGED guiVars PROVE Inv'
<1>1. worker[w].at \in Busy /\ worker[w].state \in State /\ This(w) \in Attempt
  BY BusyWorker, ThisRun DEF StartAlarmListener, Busy
<1>2. /\ Forward(w) /\ WorkerInv' /\ worker'[w].at = "cyclic"
      /\ \A v \in Start : This(v)' = This(v)
  BY <1>1, GoesOn DEF StartAlarmListener, Busy, guiVars
<1>3. PICK started \in {This(w), None} :
        /\ live' = [live EXCEPT !.alarm = @ \union ({started} \ {None})]
        /\ ds' = [ds EXCEPT ![worker[w].state].alarm = started]
  BY DEF StartAlarmListener
<1>4. /\ live' \in LiveRec /\ live'.conn = live.conn /\ live'.ctrl = live.ctrl
  BY <1>1, <1>3, LiveParts DEF LiveRec
<1>5. /\ ds' \in [State -> StateRec]
      /\ \A t \in State : /\ ds'[t].cyclic = ds[t].cyclic /\ ds'[t].conn = ds[t].conn
                          /\ ds'[t].connected = ds[t].connected
  <2>1. ds \in [State -> StateRec] /\ started \in Attempt \union {None}
    BY <1>1 DEF Inv, ServicesTypeOK, StateRec
  <2>2. ds' = [ds EXCEPT ![worker[w].state] =
                         [ds[worker[w].state] EXCEPT !.alarm = started]]
    BY <1>3
  <2>3. [ds[worker[w].state] EXCEPT !.alarm = started] \in StateRec
    BY <1>1, <2>1 DEF StateRec
  <2>4. \A t \in State \ {worker[w].state} : ds'[t] = ds[t]
    BY <2>1, <2>2
  <2>5. ds'[worker[w].state] = [ds[worker[w].state] EXCEPT !.alarm = started]
    BY <1>1, <2>1, <2>2
  <2>6. \A t \in State : /\ ds'[t].cyclic = ds[t].cyclic /\ ds'[t].conn = ds[t].conn
                         /\ ds'[t].connected = ds[t].connected
    BY <1>1, <2>1, <2>4, <2>5 DEF StateRec
  <2> QED
    BY <2>1, <2>2, <2>3, <2>6
<1>6. NameInv' /\ ConnectedIsLive'
  BY <1>2, <1>4, <1>5, NamesStay, OthersLive DEF StartAlarmListener
<1>7. HandInv'
  BY <1>2, <1>4, OthersInHand DEF Inv, HandInv, StartAlarmListener
<1> QED
  BY <1>2, <1>4, <1>5, <1>6, <1>7, ByWorker DEF StartAlarmListener

LEMMA StartCyclicInv ==
  ASSUME Inv, NEW w \in Start, StartCyclic(w), UNCHANGED guiVars PROVE Inv'
<1>1. worker[w].at \in Busy /\ worker[w].state \in State /\ This(w) \in Attempt
  BY BusyWorker, ThisRun DEF StartCyclic, Busy
<1>2. /\ Forward(w) /\ WorkerInv' /\ worker'[w].at = "ready"
      /\ \A v \in Start : This(v)' = This(v)
  BY <1>1, GoesOn DEF StartCyclic, Busy, guiVars
<1>3. /\ live' \in LiveRec /\ live'.conn = live.conn
      /\ live'.ctrl = live.ctrl \union {This(w)}
  BY <1>1, LiveParts DEF StartCyclic, LiveRec
<1>4. ds' \in [State -> StateRec] /\ ds' = ds
  BY DEF Inv, ServicesTypeOK, StateRec, StartCyclic
<1>5. NameInv' /\ ConnectedIsLive'
  BY <1>2, <1>3, <1>4, NamesStay, OthersLive DEF StartCyclic
<1>6. HandInv'
  BY <1>2, <1>3, OthersInHand DEF Inv, HandInv, StartCyclic
<1> QED
  BY <1>2, <1>3, <1>4, <1>5, <1>6, ByWorker DEF StartCyclic

LEMMA StoreInv ==
  ASSUME Inv, NEW w \in Start, Store(w), UNCHANGED guiVars PROVE Inv'
<1> DEFINE s == worker[w].state
<1>1. /\ worker[w].at \in Busy /\ s \in State /\ s[2] = worker[w].i /\ worker[w].i \in Nat
      /\ This(w) \in Attempt /\ This(w)[1] = w /\ This(w)[2] = s[1] /\ This(w)[3] = s[2]
  BY BusyWorker, ThisRun DEF Store, Busy
<1>2. /\ Forward(w) /\ WorkerInv' /\ worker'[w].at = "next"
      /\ worker'[w].i = worker[w].i + 1
  BY <1>1, Returns DEF Store, guiVars
<1>3. live' \in LiveRec /\ live' = live /\ This(w) \in live.conn /\ This(w) \in live.ctrl
  BY LiveParts DEF Inv, HandInv, Store
<1>4. /\ ds' \in [State -> StateRec]
      /\ ds'[s].conn = This(w) /\ ds'[s].cyclic = This(w)
      /\ \A t \in State \ {s} : ds'[t] = ds[t]
  <2>1. ds \in [State -> StateRec] /\ ds[s] \in StateRec
    BY <1>1 DEF Inv, ServicesTypeOK, StateRec
  <2>2. ds' = [ds EXCEPT ![s] = [ds[s] EXCEPT !.conn = This(w), !.cyclic = This(w),
                                             !.connected = TRUE]]
    BY DEF Store
  <2>3. [ds[s] EXCEPT !.conn = This(w), !.cyclic = This(w), !.connected = TRUE]
          \in StateRec
    BY <1>1, <2>1 DEF StateRec
  <2>4. ds'[s] = [ds[s] EXCEPT !.conn = This(w), !.cyclic = This(w), !.connected = TRUE]
    BY <1>1, <2>1, <2>2
  <2>5. ds'[s].conn = This(w) /\ ds'[s].cyclic = This(w)
    BY <2>1, <2>4 DEF StateRec
  <2> QED
    BY <2>1, <2>2, <2>3, <2>5
<1>5. NameInv'
  <2>1. \A v \in Start : worker'[v].i >= worker[v].i /\ worker[v].i \in Nat
                         /\ worker'[v].i \in Nat
    <3>1. worker \in [Start -> WorkerRec] /\ worker' \in [Start -> WorkerRec]
      BY <1>2 DEF Inv, ServicesTypeOK, WorkerRec, Forward
    <3>2. \A v \in Start : worker[v].i \in Nat /\ worker'[v].i \in Nat
      BY <3>1, PlacesFinite DEF WorkerRec
    <3> QED
      BY <1>2, <3>2 DEF Forward
  <2>2. ASSUME NEW t \in State, NEW a, a # None, a = ds'[t].cyclic \/ a = ds'[t].conn
        PROVE  a[2] = t[1] /\ a[3] = t[2] /\ t[2] < worker'[a[1]].i
    <3>1. CASE t = s
      BY <3>1, <2>2, <1>1, <1>2, <1>4
    <3>2. CASE t # s
      <4>1. a = ds[t].cyclic \/ a = ds[t].conn
        BY <3>2, <2>2, <1>4
      <4>2. a \in Attempt /\ a[1] \in Start
        <5>1. ds[t] \in StateRec
          BY DEF Inv, ServicesTypeOK, StateRec
        <5> QED
          BY <5>1, <4>1, <2>2 DEF StateRec, Attempt
      <4>3. a[2] = t[1] /\ a[3] = t[2] /\ t[2] < worker[a[1]].i /\ t[2] \in Nat
        BY <4>1, <2>2, PlacesFinite DEF Inv, NameInv, State, Place
      <4> QED
        BY <4>2, <4>3, <2>1
    <3> QED
      BY <3>1, <3>2
  <2> QED
    BY <2>2 DEF NameInv
<1>6. ConnectedIsLive'
  <2>1. ASSUME NEW j \in DOMAIN devices, ds'[devices[j]].connected
        PROVE  ds'[devices[j]].cyclic \in live'.ctrl /\ ds'[devices[j]].conn \in live'.conn
    <3>1. devices[j] \in State
      BY DEF Inv, ServicesTypeOK
    <3>2. CASE devices[j] = s
      BY <3>2, <1>3, <1>4
    <3>3. CASE devices[j] # s
      BY <3>1, <3>3, <2>1, <1>3, <1>4 DEF Inv, ConnectedIsLive
    <3> QED
      BY <3>2, <3>3
  <2> QED
    BY <2>1 DEF ConnectedIsLive, Store
<1>7. HandInv'
  BY <1>2, <1>3, OthersInHand DEF HandInv
<1> QED
  BY <1>2, <1>3, <1>4, <1>5, <1>6, <1>7, ByWorker DEF Store

LEMMA CleanUpInv ==
  ASSUME Inv, NEW w \in Start, CleanUp(w), UNCHANGED guiVars PROVE Inv'
<1>1. worker[w].at \in Busy /\ worker[w].state \in State
  BY BusyWorker DEF CleanUp, Busy
<1>2. Forward(w) /\ WorkerInv' /\ worker'[w].at = "next"
  BY <1>1, Returns DEF CleanUp, guiVars
<1>3. /\ live' \in LiveRec /\ live'.conn = live.conn \ {This(w)}
      /\ live'.ctrl = live.ctrl \ {This(w)}
  BY LiveParts DEF CleanUp, LiveRec
<1>4. ds' \in [State -> StateRec] /\ NameInv'
  BY <1>1, <1>2, Disconnects, NamesStay DEF CleanUp
<1>5. ConnectedIsLive'
  BY <1>1, <1>3, Disconnects, NotNamed, OthersLive DEF CleanUp
<1>6. HandInv'
  BY <1>2, <1>3, OthersInHand DEF HandInv
<1> QED
  BY <1>2, <1>3, <1>4, <1>5, <1>6, ByWorker DEF CleanUp

-----------------------------------------------------------------------------
(* The steps of the GUI thread. *)

\* Starting takes the list of the next start into use and sends its worker off.
LEMMA StartServicesInv ==
  ASSUME Inv, StartServices PROVE Inv'
<1> DEFINE k == starts + 1
<1>1. /\ starts \in 0 .. MaxStarts /\ MaxStarts \in Nat /\ k \in Start /\ k > starts
      /\ \A v \in Start : v > k => v > starts
  BY ServicesAssumption DEF Inv, ServicesTypeOK, StartServices, Start
<1>2. devices = <<>> /\ stopping = <<>>
  BY DEF Inv, ListInv, StartServices
<1>3. CASE cfg = <<>>
  <2>1. ServicesTypeOK'
    BY <1>1, <1>3 DEF Inv, ServicesTypeOK, StartServices
  <2>2. ListInv'
    BY <1>2, <1>3 DEF Inv, ListInv, StartServices
  <2>3. WorkerInv'
    BY <1>1, <1>3 DEF Inv, WorkerInv, StartServices, Start
  <2>4. NameInv' /\ HandInv' /\ ConnectedIsLive'
    BY <1>3 DEF Inv, NameInv, HandInv, ConnectedIsLive, StartServices, This
  <2> QED
    BY <2>1, <2>2, <2>3, <2>4 DEF Inv
<1>4. CASE cfg # <<>>
  <2>1. /\ cfg \in Configs /\ DOMAIN cfg = 1 .. Len(cfg)
        /\ Len(cfg) \in 0 .. Cardinality(Device) /\ cfg \in Seq(Device)
    BY ConfigList DEF Inv, ServicesTypeOK
  <2>2. \A j \in DOMAIN cfg : <<k, j>> \in State
    BY <1>1, <2>1, PlacesFinite DEF State, Place
  <2>3. devices' = [j \in DOMAIN cfg |-> <<k, j>>]
    BY <1>4 DEF StartServices, StateList
  <2>4. devices' \in Seq(State)
    BY <2>1, <2>2, <2>3, PlacesFinite
  <2>5. /\ ds' \in [State -> StateRec]
        /\ \A t \in State :
             \/ ds'[t] = ds[t] /\ t \notin {<<k, j>> : j \in DOMAIN cfg}
             \/ ~ds'[t].connected /\ ds'[t].cyclic = None /\ ds'[t].conn = None
    <3>1. ds \in [State -> StateRec]
      BY DEF Inv, ServicesTypeOK, StateRec
    <3>2. ds' = [t \in State |-> IF t[1] = k /\ t[2] \in DOMAIN cfg
                                 THEN [Unused EXCEPT !.config = cfg[t[2]]] ELSE ds[t]]
      BY <1>4 DEF StartServices
    <3>3. ASSUME NEW c \in Device
          PROVE  /\ [Unused EXCEPT !.config = c] \in StateRec
                 /\ [Unused EXCEPT !.config = c].connected = FALSE
                 /\ [Unused EXCEPT !.config = c].cyclic = None
                 /\ [Unused EXCEPT !.config = c].conn = None
      <4>1. /\ Unused \in StateRec /\ Unused.connected = FALSE
            /\ Unused.cyclic = None /\ Unused.conn = None
        BY DEF Unused, StateRec
      <4> QED
        BY <4>1 DEF StateRec
    <3>4. \A j \in DOMAIN cfg : cfg[j] \in Device
      BY <2>1
    <3>5. ds' \in [State -> StateRec]
      <4>1. \A t \in State : IF t[1] = k /\ t[2] \in DOMAIN cfg
                             THEN [Unused EXCEPT !.config = cfg[t[2]]] \in StateRec
                             ELSE ds[t] \in StateRec
        BY <3>1, <3>3, <3>4
      <4> QED
        BY <3>2, <4>1
    <3>6. ASSUME NEW t \in State
          PROVE  \/ ds'[t] = ds[t] /\ t \notin {<<k, j>> : j \in DOMAIN cfg}
                 \/ ~ds'[t].connected /\ ds'[t].cyclic = None /\ ds'[t].conn = None
      <4>1. CASE t[1] = k /\ t[2] \in DOMAIN cfg
        BY <4>1, <3>2, <3>3, <3>4
      <4>2. CASE ~(t[1] = k /\ t[2] \in DOMAIN cfg)
        BY <4>2, <3>2
      <4> QED
        BY <4>1, <4>2
    <3> QED
      BY <3>5, <3>6
  <2>6. /\ worker' = [worker EXCEPT ![k] = [worker[k] EXCEPT !.at = "range"]]
        /\ worker \in [Start -> WorkerRec] /\ worker[k] = Idle
    BY <1>1, <1>4 DEF Inv, ServicesTypeOK, WorkerInv, WorkerRec, StartServices
  <2>7. /\ worker'[k].at = "range" /\ worker'[k].i = worker[k].i
        /\ worker'[k].state = None /\ worker'[k] \in WorkerRec
        /\ \A v \in Start \ {k} : worker'[v] = worker[v]
        /\ worker' \in [Start -> WorkerRec]
    BY <1>1, <2>6 DEF WorkerRec, Steps, Idle
  <2>8. ServicesTypeOK'
    BY <1>1, <1>4, <2>4, <2>5, <2>7
    DEF Inv, ServicesTypeOK, StartServices, StateRec, WorkerRec
  <2>9. WorkerInv'
    <3> SUFFICES ASSUME NEW v \in Start
                 PROVE  /\ worker'[v].at \in Busy =>
                             /\ worker'[v].i <= worker'[v].n
                             /\ worker'[v].state \in State
                             /\ worker'[v].state[2] = worker'[v].i
                        /\ worker'[v].at \notin Busy => worker'[v].state = None
                        /\ v > k => worker'[v] = Idle
      BY DEF WorkerInv, StartServices
    <3>1. CASE v = k
      BY <3>1, <1>1, <2>7 DEF Busy
    <3>2. CASE v # k
      BY <3>2, <1>1, <2>7 DEF Inv, WorkerInv
    <3> QED
      BY <3>1, <3>2
  <2>10. ListInv'
    BY <1>2, <2>3 DEF ListInv, StartServices
  <2>11. NameInv'
    <3>1. \A v \in Start : worker'[v].i = worker[v].i
      BY <2>7
    <3> QED
      BY <2>5, <3>1, NamedByStart DEF Inv, NameInv
  <2>12. HandInv'
    BY <2>7 DEF Inv, HandInv, StartServices, This
  <2>13. ConnectedIsLive'
    BY <2>2, <2>3, <2>5 DEF ConnectedIsLive
  <2> QED
    BY <2>8, <2>9, <2>10, <2>11, <2>12, <2>13 DEF Inv
<1> QED
  BY <1>3, <1>4

LEMMA HaltInv ==
  ASSUME Inv, Halt, cfg' \in Configs, closing' \in BOOLEAN PROVE Inv'
<1>1. ServicesTypeOK'
  BY DEF Inv, ServicesTypeOK, Halt
<1>2. WorkerInv' /\ ListInv' /\ NameInv' /\ HandInv' /\ ConnectedIsLive'
  BY DEF Inv, WorkerInv, ListInv, NameInv, HandInv, ConnectedIsLive, Halt, This
<1> QED
  BY <1>1, <1>2 DEF Inv

LEMMA TakeListInv ==
  ASSUME Inv, TakeList PROVE Inv'
<1>1. ServicesTypeOK'
  <2>1. devices' = <<>> /\ devices' \in Seq(State)
    BY DEF TakeList
  <2> QED
    BY <2>1 DEF Inv, ServicesTypeOK, TakeList
<1>2. ListInv'
  <2>1. devices' = <<>> /\ stopping' = devices /\ gui = "stop"
        /\ gui' = IF devices = <<>> THEN "start" ELSE "alarm"
    BY DEF TakeList
  <2>2. \A j \in DOMAIN devices : devices[j][1] = starts
    BY DEF Inv, ListInv
  <2>3. \A j \in DOMAIN devices' : FALSE
    BY <2>1
  <2> QED
    BY <2>1, <2>2, <2>3 DEF ListInv, TakeList
<1>3. WorkerInv' /\ NameInv' /\ HandInv' /\ ConnectedIsLive'
  BY DEF Inv, WorkerInv, NameInv, HandInv, ConnectedIsLive, TakeList, This
<1> QED
  BY <1>1, <1>2, <1>3 DEF Inv

\* A stop leaves alone what a worker has in hand.
LEMMA StopInv ==
  ASSUME Inv, StopAlarm \/ StopCyclic \/ StopConn PROVE Inv'
<1> DEFINE h == Head(stopping)
<1>1. /\ devices = <<>> /\ stopping # <<>> /\ stopping \in Seq(State)
      /\ h \in State /\ Tail(stopping) \in Seq(State)
      /\ \A j \in DOMAIN Tail(stopping) : Tail(stopping)[j][1] = starts
  <2>1. devices = <<>> /\ stopping # <<>> /\ stopping \in Seq(State)
    BY DEF Inv, ServicesTypeOK, ListInv, StopAlarm, StopCyclic, StopConn
  <2> QED
    BY <2>1 DEF Inv, ListInv
<1>2. /\ ds' \in [State -> StateRec]
      /\ \A t \in State : ds'[t].cyclic = ds[t].cyclic /\ ds'[t].conn = ds[t].conn
  <2>1. CASE StopConn
    BY <1>1, <2>1, Disconnects DEF StopConn
  <2>2. CASE StopAlarm \/ StopCyclic
    BY <2>2 DEF Inv, ServicesTypeOK, StateRec, StopAlarm, StopCyclic
  <2> QED
    BY <2>1, <2>2
<1>3. /\ live' \in LiveRec
      /\ live.conn \ {ds[h].conn} \subseteq live'.conn
      /\ live.ctrl \ {ds[h].cyclic} \subseteq live'.ctrl
  BY LiveParts DEF LiveRec, StopAlarm, StopCyclic, StopConn
<1>4. ServicesTypeOK'
  BY <1>1, <1>2, <1>3
  DEF Inv, ServicesTypeOK, StateRec, LiveRec, StopAlarm, StopCyclic, StopConn
<1>5. ListInv'
  BY <1>1 DEF Inv, ListInv, StopAlarm, StopCyclic, StopConn
<1>6. WorkerInv' /\ UNCHANGED worker
  BY DEF Inv, WorkerInv, StopAlarm, StopCyclic, StopConn
<1>7. NameInv'
  BY <1>2, <1>6 DEF Inv, NameInv
<1>8. HandInv'
  <2>1. \A v \in Start : worker[v].at \in {"alarm", "cyclic", "ready"} =>
          ds[h].conn # This(v) /\ ds[h].cyclic # This(v)
    BY <1>1, NotNamed DEF Busy
  <2> QED
    BY <1>3, <1>6, <2>1 DEF Inv, HandInv, This
<1>9. ConnectedIsLive'
  BY <1>1 DEF ConnectedIsLive, StopAlarm, StopCyclic, StopConn
<1> QED
  BY <1>4, <1>5, <1>6, <1>7, <1>8, <1>9 DEF Inv

LEMMA ExitInv ==
  ASSUME Inv, Exit PROVE Inv'
<1>1. ServicesTypeOK' /\ ListInv'
  BY DEF Inv, ServicesTypeOK, ListInv, Exit
<1>2. WorkerInv' /\ NameInv' /\ HandInv' /\ ConnectedIsLive'
  BY DEF Inv, WorkerInv, NameInv, HandInv, ConnectedIsLive, Exit, This
<1> QED
  BY <1>1, <1>2 DEF Inv

LEMMA InvStep == Inv /\ [ServicesNext]_servicesVars => Inv'
<1> SUFFICES ASSUME Inv, [ServicesNext]_servicesVars PROVE Inv'
  OBVIOUS
<1>1. CASE GuiStep
  BY <1>1, StartServicesInv, TakeListInv, StopInv, ExitInv DEF GuiStep
<1>2. ASSUME NEW list \in Configs, Restart(list) PROVE Inv'
  BY <1>2, HaltInv DEF Restart, Inv, ServicesTypeOK
<1>3. CASE Quit
  BY <1>3, HaltInv DEF Quit, Inv, ServicesTypeOK
<1>4. ASSUME NEW w \in Start, WorkerStep(w) PROVE Inv'
  BY <1>4, CountDevicesInv, NextDeviceInv, RefuseInv, MovesInv, ConnectInv,
     NoCyclicARInv, StartAlarmListenerInv, StartCyclicInv, StoreInv, CleanUpInv
  DEF WorkerStep
<1>5. CASE UNCHANGED servicesVars
  <2>1. ServicesTypeOK' /\ ListInv'
    BY <1>5 DEF Inv, ServicesTypeOK, ListInv, servicesVars
  <2>2. WorkerInv' /\ NameInv' /\ HandInv' /\ ConnectedIsLive'
    BY <1>5 DEF Inv, WorkerInv, NameInv, HandInv, ConnectedIsLive, servicesVars, This
  <2> QED
    BY <2>1, <2>2 DEF Inv
<1> QED
  BY <1>1, <1>2, <1>3, <1>4, <1>5 DEF ServicesNext

LEMMA InvAlways == ServicesSpec => []Inv
BY InvInit, InvStep, PTL DEF ServicesSpec

\* The variables of the services keep their types, whatever restart overtakes
\* whatever worker: configure_device never looks past the list or the range.
THEOREM TypeCorrect == ServicesSpec => []ServicesTypeOK
BY InvAlways, PTL DEF Inv

\* A device of the list in use that is marked connected has a running controller
\* and an open connection, even when a worker of an earlier start is still at
\* work on the new list while ProfinetCtrl.stop clears it away.
THEOREM ConnectedAlwaysLive == ServicesSpec => []ConnectedIsLive
BY InvAlways, PTL DEF Inv

-----------------------------------------------------------------------------
(* While no stop has overtaken a worker. *)

\* The devices of a list are configured, each DeviceConfig once.
ConfigInv ==
  /\ \A t \in State : t[1] > starts => ds[t].config = None
  /\ \A s, t \in State :
       s[1] = t[1] /\ ds[s].config = ds[t].config /\ ds[s].config # None => s = t
  /\ \A s \in InUse : ds[s].config # None

\* The DeviceState an attempt is about.
Of(a) == <<a[2], a[3]>>

\* A DeviceState in use names what the worker has left behind.
Named(a) ==
  /\ Of(a) \in InUse
  /\ a[3] < worker[a[1]].i
  /\ a \in live.conn => ds[Of(a)].conn = a
  /\ a \in live.alarm => ds[Of(a)].alarm = a
  /\ a \in live.ctrl => ds[Of(a)].cyclic = a

\* Only the worker of the last start is at work, and nobody stops the services.
OneWorker == \A w \in Start : Working(w) => w = starts /\ gui = "idle"

\* What it has in hand is in the list.
InHand ==
  \A w \in Start : worker[w].at \in Busy =>
    worker[w].i \in DOMAIN devices /\ worker[w].state = devices[worker[w].i]

\* What runs belongs to the last start; its worker has it in hand, or a
\* DeviceState names it.
Kept ==
  \A a \in Running : /\ a[1] = starts /\ a[2] = starts
                     /\ worker[a[1]].state = Of(a) \/ Named(a)

\* A listener is named as soon as it runs.
ListenerNamed == \A a \in live.alarm : ds[Of(a)].alarm = a

\* What the worker has not reached does not run.
NotYet ==
  \A w \in Start :
    /\ worker[w].at \in {"dcp", "connect"} => This(w) \notin Running
    /\ worker[w].at = "alarm" => This(w) \notin live.alarm \union live.ctrl

\* A stop is done with what it has stopped of a DeviceState.
StoppedSoFar ==
  \A a \in Attempt : stopping # <<>> /\ Of(a) = Head(stopping) =>
    /\ gui \in {"cyclic", "conn"} => a \notin live.alarm
    /\ gui = "conn" => a \notin live.ctrl

Quiet == OneWorker /\ InHand /\ Kept /\ ListenerNamed /\ NotYet /\ StoppedSoFar

LEMMA OfAttempt ==
  ASSUME NEW a \in Attempt
  PROVE  /\ Of(a) \in State /\ a[1] \in Start /\ a[2] \in Start /\ a[3] \in Place
         /\ a[3] \in Nat /\ a = <<a[1], a[2], a[3]>>
         /\ Of(a)[1] = a[2] /\ Of(a)[2] = a[3]
BY PlacesFinite DEF Attempt, Of, State, Place

LEMMA RunningAttempts == ASSUME Inv PROVE Running \subseteq Attempt
BY LiveParts DEF Running

\* Of what runs, the worker has its present run in hand and nothing else.
LEMMA KeptByWorker ==
  ASSUME Inv, Quiet, NEW w \in Start, Working(w), NEW a \in Running
  PROVE  /\ a \in Attempt /\ a[1] = w /\ a[2] = w /\ w = starts /\ gui = "idle"
         /\ (worker[w].at \in Busy /\ a = This(w)) \/ Named(a)
         /\ worker[w].at \in Busy /\ Of(a) = worker[w].state => a = This(w)
<1>1. a \in Attempt /\ a[1] = w /\ a[2] = w /\ w = starts /\ gui = "idle"
  BY RunningAttempts DEF Quiet, OneWorker, Kept
<1>2. ASSUME Of(a) = worker[w].state PROVE worker[w].at \in Busy /\ a = This(w)
  <2>1. worker[w].at \in Busy
    <3>1. worker[w].state # None
      <4>1. Of(a) \in Nat \X Nat
        BY <1>1, OfAttempt, PlacesFinite DEF State, Start, Place
      <4> QED
        BY <1>2, <4>1, ServicesAssumption
    <3> QED
      BY <3>1 DEF Inv, WorkerInv
  <2>2. a = <<a[1], a[2], a[3]>> /\ Of(a)[1] = a[2] /\ Of(a)[2] = a[3]
    BY <1>1, OfAttempt
  <2>3. a = <<w, worker[w].state[1], worker[w].state[2]>>
    BY <1>1, <1>2, <2>2
  <2> QED
    BY <2>1, <2>3 DEF This
<1>3. worker[w].state = Of(a) \/ Named(a)
  BY <1>1 DEF Quiet, Kept
<1> QED
  BY <1>1, <1>2, <1>3

\* What was named stays named when nothing of it starts and its names stay.
LEMMA NamedStays ==
  ASSUME Inv, NEW w \in Start, Forward(w), NEW a \in Attempt, Named(a),
         UNCHANGED <<devices, stopping>>,
         a \in live'.conn => a \in live.conn /\ ds'[Of(a)].conn = ds[Of(a)].conn,
         a \in live'.alarm => a \in live.alarm /\ ds'[Of(a)].alarm = ds[Of(a)].alarm,
         a \in live'.ctrl => a \in live.ctrl /\ ds'[Of(a)].cyclic = ds[Of(a)].cyclic
  PROVE  Named(a)'
<1>1. a[1] \in Start /\ a[3] \in Nat
  BY OfAttempt
<1>2. worker[a[1]].i \in Nat /\ worker'[a[1]].i \in Nat
  <2>1. worker[a[1]] \in WorkerRec /\ worker'[a[1]] \in WorkerRec
    BY <1>1 DEF Inv, ServicesTypeOK, WorkerRec, Forward
  <2> QED
    BY <2>1, PlacesFinite DEF WorkerRec
<1>3. a[3] < worker'[a[1]].i
  BY <1>1, <1>2 DEF Forward, Named
<1>4. (Of(a) \in InUse)'
  BY DEF Named, InUse, Of
<1> QED
  BY <1>3, <1>4 DEF Named, Of

\* A step of the worker keeps the peace if it keeps its own part of it.
LEMMA QuietByWorker ==
  ASSUME Inv, Quiet, NEW w \in Start, Working(w), Forward(w),
         UNCHANGED <<cfg, devices>>, UNCHANGED guiVars,
         worker'[w].at \in Busy =>
           worker'[w].i \in DOMAIN devices /\ worker'[w].state = devices[worker'[w].i],
         \A a \in Running' : /\ a[1] = w /\ a[2] = w
                             /\ worker'[w].state = Of(a) \/ Named(a)',
         ListenerNamed',
         worker'[w].at \in {"dcp", "connect"} => This(w)' \notin Running',
         worker'[w].at = "alarm" => This(w)' \notin live'.alarm \union live'.ctrl
  PROVE  Quiet'
<1>1. w = starts /\ gui = "idle"
  BY DEF Quiet, OneWorker
<1>2. \A v \in Start \ {w} : worker'[v] = worker[v] /\ worker[v].at \in {"none", "end"}
  BY <1>1 DEF Quiet, OneWorker, Working, Forward
<1>3. OneWorker'
  BY <1>1, <1>2 DEF OneWorker, Working, guiVars
<1>4. InHand' /\ NotYet'
  BY <1>2 DEF InHand, NotYet, Busy
<1>5. Kept'
  BY <1>1 DEF Kept, guiVars, Of
<1>6. StoppedSoFar'
  BY <1>1 DEF StoppedSoFar, guiVars
<1> QED
  BY <1>3, <1>4, <1>5, <1>6 DEF Quiet

\* The present run of the worker of the last start.
LEMMA PresentRun ==
  ASSUME Inv, Quiet, NEW w \in Start, worker[w].at \in Busy
  PROVE  /\ Working(w) /\ This(w) \in Attempt /\ worker[w].state \in State
         /\ Of(This(w)) = worker[w].state /\ worker[w].state \in InUse
         /\ This(w)[1] = w /\ This(w)[2] = w
         /\ This(w)[3] = worker[w].i /\ worker[w].i \in Nat
<1>1. Working(w) /\ w = starts
  BY DEF Working, Busy, Quiet, OneWorker
<1>2. worker[w].state \in State /\ worker[w].state[2] = worker[w].i /\ worker[w].i \in Nat
  BY BusyWorker
<1>3. /\ This(w) \in Attempt /\ This(w)[1] = w /\ This(w)[2] = worker[w].state[1]
      /\ This(w)[3] = worker[w].state[2]
  BY <1>2, ThisRun
<1>4. worker[w].i \in DOMAIN devices /\ worker[w].state = devices[worker[w].i]
  BY DEF Quiet, InHand
<1>5. worker[w].state[1] = starts
  BY <1>4 DEF Inv, ListInv
<1>6. Of(This(w)) = worker[w].state
  BY <1>2, <1>3 DEF Of, State
<1>7. worker[w].state \in InUse
  BY <1>4 DEF InUse
<1> QED
  BY <1>1, <1>2, <1>3, <1>5, <1>6, <1>7

\* The worker goes on: only its present run may start, and only its DeviceState
\* be told.
LEMMA QuietGoesOn ==
  ASSUME Inv, Quiet, NEW w \in Start, worker[w].at \in Busy, NEW step \in Busy,
         Goto(w, step), UNCHANGED <<cfg, devices>>, UNCHANGED guiVars,
         \A a \in Running' : a \in Attempt,
         \A a \in Attempt \ {This(w)} :
           /\ a \in live'.conn => a \in live.conn
           /\ a \in live'.alarm => a \in live.alarm
           /\ a \in live'.ctrl => a \in live.ctrl,
         \A t \in State \ {worker[w].state} : ds'[t] = ds[t],
         ListenerNamed',
         step \in {"dcp", "connect"} => This(w) \notin Running',
         step = "alarm" => This(w) \notin live'.alarm \union live'.ctrl
  PROVE  Quiet'
<1>1. /\ Working(w) /\ This(w) \in Attempt /\ Of(This(w)) = worker[w].state
      /\ This(w)[1] = w /\ This(w)[2] = w
  BY PresentRun
<1>2. UNCHANGED starts
  BY DEF guiVars
<1>3. /\ Forward(w) /\ worker'[w].at = step /\ worker'[w].i = worker[w].i
      /\ worker[w] \in WorkerRec
      /\ worker'[w] = [worker[w] EXCEPT !.at = step] /\ This(w)' = This(w)
  BY <1>2, GoesOn, BusyWorker
<1>4. worker'[w].state = worker[w].state
  BY <1>3 DEF WorkerRec
<1>5. worker'[w].i \in DOMAIN devices /\ worker'[w].state = devices[worker'[w].i]
  BY <1>3, <1>4 DEF Quiet, InHand
<1>6. ASSUME NEW a \in Running'
      PROVE  a[1] = w /\ a[2] = w /\ (worker'[w].state = Of(a) \/ Named(a)')
  <2>1. CASE a = This(w)
    BY <2>1, <1>1, <1>4
  <2>2. CASE a # This(w)
    <3>1. a \in Running /\ a \in Attempt
      BY <2>2, <1>6 DEF Running
    <3>2. a[1] = w /\ a[2] = w /\ Named(a) /\ Of(a) # worker[w].state
      BY <2>2, <3>1, <1>1, KeptByWorker
    <3>3. ds'[Of(a)] = ds[Of(a)]
      BY <3>1, <3>2, OfAttempt
    <3>4. UNCHANGED <<devices, stopping>>
      BY DEF guiVars
    <3>5. Named(a)'
      BY <2>2, <1>3, <3>1, <3>2, <3>3, <3>4, NamedStays
    <3> QED
      BY <3>2, <3>5
  <2> QED
    BY <2>1, <2>2
<1> QED
  BY <1>1, <1>3, <1>5, <1>6, QuietByWorker

\* The worker returns: what it has started is named, or does not run.
LEMMA QuietReturns ==
  ASSUME Inv, Quiet, NEW w \in Start, worker[w].at \in Busy,
         Return(w), UNCHANGED <<cfg, devices>>, UNCHANGED guiVars,
         live'.conn \subseteq live.conn, live'.alarm \subseteq live.alarm,
         live'.ctrl \subseteq live.ctrl,
         \A t \in State \ {worker[w].state} : ds'[t] = ds[t],
         ListenerNamed',
         This(w) \in live'.conn => ds'[worker[w].state].conn = This(w),
         This(w) \in live'.alarm => ds'[worker[w].state].alarm = This(w),
         This(w) \in live'.ctrl => ds'[worker[w].state].cyclic = This(w)
  PROVE  Quiet'
<1>1. /\ Working(w) /\ This(w) \in Attempt /\ Of(This(w)) = worker[w].state
      /\ This(w)[1] = w /\ This(w)[2] = w /\ worker[w].state \in InUse
      /\ This(w)[3] = worker[w].i /\ worker[w].i \in Nat
  BY PresentRun
<1>2. UNCHANGED starts /\ UNCHANGED <<devices, stopping>>
  BY DEF guiVars
<1>3. Forward(w) /\ worker'[w].at = "next" /\ worker'[w].i = worker[w].i + 1
  BY <1>2, Returns
<1>4. ASSUME NEW a \in Running'
      PROVE  a[1] = w /\ a[2] = w /\ Named(a)'
  <2>1. a \in Running /\ a \in Attempt
    <3>1. a \in Running
      BY <1>4 DEF Running
    <3> QED
      BY <3>1, RunningAttempts
  <2>2. CASE a = This(w)
    <3>1. (a[3] < worker[a[1]].i)'
      BY <2>2, <1>1, <1>3
    <3>2. (Of(a) \in InUse)'
      BY <2>2, <1>1, <1>2 DEF InUse, Of
    <3> QED
      BY <2>2, <3>1, <3>2, <1>1 DEF Named, Of
  <2>3. CASE a # This(w)
    <3>1. a[1] = w /\ a[2] = w /\ Named(a) /\ Of(a) # worker[w].state
      BY <2>1, <2>3, <1>1, KeptByWorker
    <3>2. ds'[Of(a)] = ds[Of(a)]
      BY <2>1, <3>1, OfAttempt
    <3> QED
      BY <2>1, <3>1, <3>2, <1>2, <1>3, NamedStays
  <2> QED
    BY <2>2, <2>3
<1>5. worker'[w].at \notin Busy
  BY <1>3 DEF Busy
<1> QED
  BY <1>1, <1>3, <1>4, <1>5, QuietByWorker DEF Busy

\* Nothing but This(w) is touched: its DeviceState keeps the others' names.
LEMMA OnlyItsState ==
  ASSUME Inv, NEW s \in State, NEW r, ds' = [ds EXCEPT ![s] = r]
  PROVE  ds'[s] = r /\ \A t \in State \ {s} : ds'[t] = ds[t]
<1>1. ds \in [State -> StateRec]
  BY DEF Inv, ServicesTypeOK, StateRec
<1> QED
  BY <1>1

LEMMA ListenerStays ==
  ASSUME Inv, Quiet, live'.alarm \subseteq live.alarm,
         \A t \in State : ds'[t].alarm = ds[t].alarm
  PROVE  ListenerNamed'
<1>1. \A a \in live.alarm : Of(a) \in State /\ ds[Of(a)].alarm = a
  BY LiveParts, OfAttempt DEF Quiet, ListenerNamed
<1> QED
  BY <1>1 DEF ListenerNamed, Of

LEMMA CountDevicesQuiet ==
  ASSUME Inv, Inv', Quiet, NEW w \in Start, CountDevices(w), UNCHANGED guiVars
  PROVE  Quiet'
<1>1. /\ worker \in [Start -> WorkerRec] /\ worker' \in [Start -> WorkerRec]
      /\ worker[w] \in WorkerRec /\ worker[w].i \in Nat /\ worker[w].state = None
  <2>1. worker \in [Start -> WorkerRec] /\ worker' \in [Start -> WorkerRec]
    BY DEF Inv, ServicesTypeOK, WorkerRec
  <2>2. worker[w].state = None
    BY DEF Inv, WorkerInv, CountDevices, Busy
  <2> QED
    BY <2>1, <2>2, PlacesFinite DEF WorkerRec
<1>2. worker' = [worker EXCEPT ![w] = [worker[w] EXCEPT !.at = "next", !.n = Len(cfg)]]
  BY DEF CountDevices
<1>3. worker'[w].at = "next" /\ worker'[w].i = worker[w].i
  BY <1>1, <1>2 DEF WorkerRec
<1>4. Forward(w) /\ Working(w)
  BY <1>1, <1>2, <1>3 DEF Forward, Working, CountDevices
<1>5. ListenerNamed' /\ Running' = Running
  BY DEF Quiet, ListenerNamed, Running, CountDevices, Of
<1>6. ASSUME NEW a \in Running' PROVE a[1] = w /\ a[2] = w /\ Named(a)'
  <2>1. a \in Attempt /\ a[1] = w /\ a[2] = w /\ Named(a)
    BY <1>4, <1>5, KeptByWorker DEF CountDevices, Busy
  <2>2. UNCHANGED <<devices, stopping, ds, live>>
    BY DEF CountDevices, guiVars
  <2> QED
    BY <2>1, <2>2, <1>4, NamedStays
<1> QED
  BY <1>3, <1>4, <1>5, <1>6, QuietByWorker DEF CountDevices, Busy

LEMMA NextDeviceQuiet ==
  ASSUME Inv, Inv', Quiet, NEW w \in Start, NextDevice(w), UNCHANGED guiVars
  PROVE  Quiet'
<1>1. /\ Forward(w) /\ WorkerInv' /\ worker'[w].at \in {"end", "next", "dcp"}
      /\ worker'[w].at = "dcp" =>
           worker'[w].i \in DOMAIN devices /\ worker'[w].state = devices[worker'[w].i]
  BY TakesNext
<1>2. Working(w) /\ UNCHANGED <<devices, stopping, ds, live>>
  BY DEF Working, NextDevice, guiVars
<1>3. ListenerNamed' /\ Running' = Running
  BY <1>2 DEF Quiet, ListenerNamed, Running, Of
<1>4. ASSUME NEW a \in Running' PROVE a \in Attempt /\ a[1] = w /\ a[2] = w /\ Named(a)'
  <2>1. a \in Attempt /\ a[1] = w /\ a[2] = w /\ Named(a)
    BY <1>2, <1>3, KeptByWorker DEF NextDevice, Busy
  <2> QED
    BY <2>1, <1>1, <1>2, NamedStays
<1>5. worker'[w].at = "dcp" => This(w)' \notin Running'
  <2> SUFFICES ASSUME worker'[w].at = "dcp", This(w)' \in Running' PROVE FALSE
    OBVIOUS
  <2>1. worker'[w].state[2] = worker'[w].i /\ This(w)'[3] = worker'[w].state[2]
    BY <1>1 DEF WorkerInv, Busy, This
  <2>2. This(w)'[3] < worker'[w].i /\ This(w)'[3] \in Nat
    <3>1. This(w)' \in Attempt /\ Named(This(w))' /\ This(w)'[1] = w
      BY <1>4 DEF This
    <3>2. This(w)'[3] \in Nat
      BY <3>1, OfAttempt
    <3> QED
      BY <3>1, <3>2 DEF Named
  <2> QED
    BY <2>1, <2>2
<1> QED
  BY <1>1, <1>2, <1>3, <1>4, <1>5, QuietByWorker DEF NextDevice, Busy

\* Nothing runs yet that a refused device could leave behind.
LEMMA RefuseQuiet ==
  ASSUME Inv, Quiet, NEW w \in Start, Refuse(w), UNCHANGED guiVars PROVE Quiet'
<1>1. worker[w].at \in Busy /\ worker[w].state \in State
  BY BusyWorker DEF Refuse, Busy
<1>2. /\ \A t \in State : ds'[t].alarm = ds[t].alarm
      /\ \A t \in State \ {worker[w].state} : ds'[t] = ds[t]
  BY <1>1, Disconnects, OnlyItsState DEF Refuse
<1>3. This(w) \notin live.conn \union live.alarm \union live.ctrl
  BY DEF Quiet, NotYet, Running, Refuse
<1>4. ListenerNamed'
  BY <1>2, ListenerStays DEF Refuse
<1> QED
  BY <1>1, <1>2, <1>3, <1>4, QuietReturns DEF Refuse

LEMMA MovesQuiet ==
  ASSUME Inv, Quiet, NEW w \in Start, Resolve(w) \/ Raise(w), UNCHANGED guiVars
  PROVE  Quiet'
<1>1. PICK step \in {"connect", "fail"} :
        /\ Goto(w, step)
        /\ step = "connect" => worker[w].at = "dcp"
  BY DEF Resolve, Raise
<1>2. worker[w].at \in Busy /\ step \in Busy /\ UNCHANGED <<ds, live, cfg, devices>>
  BY <1>1 DEF Resolve, Raise, Busy
<1>3. ListenerNamed' /\ Running' = Running /\ Running \subseteq Attempt
  BY <1>2, RunningAttempts DEF Quiet, ListenerNamed, Running, Of
<1>4. step = "connect" => This(w) \notin Running
  BY <1>1 DEF Quiet, NotYet
<1> QED
  BY <1>1, <1>2, <1>3, <1>4, QuietGoesOn

LEMMA ConnectQuiet ==
  ASSUME Inv, Quiet, NEW w \in Start, Connect(w), UNCHANGED guiVars PROVE Quiet'
<1>1. worker[w].at \in Busy /\ "alarm" \in Busy /\ Goto(w, "alarm")
      /\ This(w) \in Attempt
  BY PresentRun DEF Connect, Busy
<1>2. /\ live'.conn = live.conn \union {This(w)} /\ live'.alarm = live.alarm
      /\ live'.ctrl = live.ctrl /\ UNCHANGED <<ds, cfg, devices>>
  BY LiveParts DEF Connect, LiveRec
<1>3. ListenerNamed'
  BY <1>2 DEF Quiet, ListenerNamed, Of
<1>4. \A a \in Running' : a \in Attempt
  BY <1>1, <1>2, LiveParts DEF Running
<1>5. This(w) \notin live'.alarm \union live'.ctrl
  BY <1>2 DEF Quiet, NotYet, Running, Connect
<1> QED
  BY <1>1, <1>2, <1>3, <1>4, <1>5, QuietGoesOn

\* The connection is closed, and nothing else runs yet.
LEMMA NoCyclicARQuiet ==
  ASSUME Inv, Quiet, NEW w \in Start, NoCyclicAR(w), UNCHANGED guiVars PROVE Quiet'
<1>1. worker[w].at \in Busy /\ worker[w].state \in State
  BY BusyWorker DEF NoCyclicAR, Busy
<1>2. /\ \A t \in State : ds'[t].alarm = ds[t].alarm
      /\ \A t \in State \ {worker[w].state} : ds'[t] = ds[t]
  BY <1>1, Disconnects, OnlyItsState DEF NoCyclicAR
<1>3. /\ live'.conn = live.conn \ {This(w)} /\ live'.alarm = live.alarm
      /\ live'.ctrl = live.ctrl /\ This(w) \notin live.alarm \union live.ctrl
  BY LiveParts DEF NoCyclicAR, LiveRec, Quiet, NotYet
<1>4. ListenerNamed'
  BY <1>2, <1>3, ListenerStays
<1> QED
  BY <1>1, <1>2, <1>3, <1>4, QuietReturns DEF NoCyclicAR

\* The listener is stored as it starts.
LEMMA StartAlarmListenerQuiet ==
  ASSUME Inv, Quiet, NEW w \in Start, StartAlarmListener(w), UNCHANGED guiVars
  PROVE  Quiet'
<1>1. /\ worker[w].at \in Busy /\ "cyclic" \in Busy /\ Goto(w, "cyclic")
      /\ This(w) \in Attempt /\ worker[w].state \in State
      /\ Of(This(w)) = worker[w].state /\ Working(w)
  BY PresentRun DEF StartAlarmListener, Busy
<1>2. PICK started \in {This(w), None} :
        /\ live' = [live EXCEPT !.alarm = @ \union ({started} \ {None})]
        /\ ds' = [ds EXCEPT ![worker[w].state] =
                            [ds[worker[w].state] EXCEPT !.alarm = started]]
  BY DEF StartAlarmListener
<1>3. /\ live'.conn = live.conn /\ live'.ctrl = live.ctrl
      /\ live'.alarm = live.alarm \union ({started} \ {None})
  BY <1>2, LiveParts DEF LiveRec
<1>4. /\ ds'[worker[w].state].alarm = started
      /\ \A t \in State \ {worker[w].state} : ds'[t] = ds[t]
  <2>1. ds[worker[w].state] \in StateRec
    BY <1>1 DEF Inv, ServicesTypeOK, StateRec
  <2>2. /\ ds'[worker[w].state] = [ds[worker[w].state] EXCEPT !.alarm = started]
        /\ \A t \in State \ {worker[w].state} : ds'[t] = ds[t]
    BY <1>1, <1>2, OnlyItsState
  <2> QED
    BY <2>1, <2>2 DEF StateRec
<1>5. ListenerNamed'
  <2> SUFFICES ASSUME NEW a \in live'.alarm PROVE ds'[Of(a)].alarm = a
    BY DEF ListenerNamed, Of
  <2>1. CASE a = started /\ started = This(w)
    BY <2>1, <1>1, <1>4
  <2>2. CASE a \in live.alarm
    <3>1. a \in Running /\ a \in Attempt /\ a # This(w)
      BY <2>2, LiveParts DEF Running, Quiet, NotYet, StartAlarmListener
    <3>2. Of(a) \in State \ {worker[w].state}
      BY <3>1, <1>1, KeptByWorker, OfAttempt
    <3> QED
      BY <2>2, <3>2, <1>4 DEF Quiet, ListenerNamed
  <2> QED
    BY <2>1, <2>2, <1>3
<1>6. \A a \in Running' : a \in Attempt
  BY <1>1, <1>3, LiveParts DEF Running
<1> QED
  BY <1>1, <1>3, <1>4, <1>5, <1>6, QuietGoesOn DEF StartAlarmListener

LEMMA StartCyclicQuiet ==
  ASSUME Inv, Quiet, NEW w \in Start, StartCyclic(w), UNCHANGED guiVars PROVE Quiet'
<1>1. worker[w].at \in Busy /\ "ready" \in Busy /\ Goto(w, "ready")
      /\ This(w) \in Attempt
  BY PresentRun DEF StartCyclic, Busy
<1>2. /\ live'.ctrl = live.ctrl \union {This(w)} /\ live'.alarm = live.alarm
      /\ live'.conn = live.conn /\ UNCHANGED <<ds, cfg, devices>>
  BY LiveParts DEF StartCyclic, LiveRec
<1>3. ListenerNamed'
  BY <1>2 DEF Quiet, ListenerNamed, Of
<1>4. \A a \in Running' : a \in Attempt
  BY <1>1, <1>2, LiveParts DEF Running
<1> QED
  BY <1>1, <1>2, <1>3, <1>4, QuietGoesOn

\* What has been started is stored; the listener was stored before.
LEMMA StoreQuiet ==
  ASSUME Inv, Quiet, NEW w \in Start, Store(w), UNCHANGED guiVars PROVE Quiet'
<1> DEFINE s == worker[w].state
<1>1. /\ worker[w].at \in Busy /\ s \in State /\ This(w) \in Attempt /\ Of(This(w)) = s
  BY PresentRun DEF Store, Busy
<1>2. UNCHANGED live
  BY DEF Store
<1>3. /\ ds'[s].conn = This(w) /\ ds'[s].cyclic = This(w) /\ ds'[s].alarm = ds[s].alarm
      /\ \A t \in State \ {s} : ds'[t] = ds[t]
  <2>1. ds' = [ds EXCEPT ![s] = [ds[s] EXCEPT !.conn = This(w), !.cyclic = This(w),
                                             !.connected = TRUE]]
    BY DEF Store
  <2>2. /\ ds'[s] = [ds[s] EXCEPT !.conn = This(w), !.cyclic = This(w), !.connected = TRUE]
        /\ \A t \in State \ {s} : ds'[t] = ds[t]
    BY <1>1, <2>1, OnlyItsState
  <2>3. ds[s] \in StateRec
    BY <1>1 DEF Inv, ServicesTypeOK, StateRec
  <2> QED
    BY <2>2, <2>3 DEF StateRec
<1>4. ListenerNamed'
  BY <1>2, <1>3, ListenerStays
<1>5. This(w) \in live'.alarm => ds'[s].alarm = This(w)
  BY <1>1, <1>2, <1>3 DEF Quiet, ListenerNamed
<1> QED
  BY <1>1, <1>2, <1>3, <1>4, <1>5, QuietReturns DEF Store

\* The handler stops everything the failed run has started.
LEMMA CleanUpQuiet ==
  ASSUME Inv, Quiet, NEW w \in Start, CleanUp(w), UNCHANGED guiVars PROVE Quiet'
<1>1. /\ worker[w].at \in Busy /\ worker[w].state \in State
      /\ Of(This(w)) = worker[w].state
  BY PresentRun DEF CleanUp, Busy
<1>2. /\ \A t \in State : ds'[t].alarm = ds[t].alarm
      /\ \A t \in State \ {worker[w].state} : ds'[t] = ds[t]
  BY <1>1, Disconnects, OnlyItsState DEF CleanUp
<1>3. /\ live'.conn = live.conn \ {This(w)} /\ live'.ctrl = live.ctrl \ {This(w)}
      /\ live'.alarm = live.alarm \ {ds[worker[w].state].alarm}
  BY DEF CleanUp
<1>4. This(w) \notin live'.alarm
  BY <1>1, <1>3 DEF Quiet, ListenerNamed
<1>5. ListenerNamed'
  BY <1>2, <1>3, ListenerStays
<1> QED
  BY <1>1, <1>2, <1>3, <1>4, <1>5, QuietReturns DEF CleanUp

\* When the services are to be started, nothing runs.
LEMMA NothingRuns == ASSUME Inv, Quiet, gui = "start" PROVE Running = {}
<1> SUFFICES ASSUME NEW a \in Running PROVE FALSE
  OBVIOUS
<1>1. a \in Attempt /\ a[1] \in Start
  BY RunningAttempts, OfAttempt
<1>2. InUse = {}
  BY DEF Inv, ListInv, InUse
<1>3. worker[a[1]].state = Of(a)
  BY <1>2 DEF Quiet, Kept, Named
<1>4. Of(a) # None
  <2>1. Of(a) \in Nat \X Nat
    BY <1>1, OfAttempt, PlacesFinite DEF State, Start, Place
  <2> QED
    BY <2>1, ServicesAssumption
<1>5. Working(a[1])
  BY <1>1, <1>3, <1>4 DEF Inv, WorkerInv, Busy, Working
<1> QED
  BY <1>1, <1>5 DEF Quiet, OneWorker

LEMMA StartServicesQuiet ==
  ASSUME Inv, Inv', Quiet, StartServices PROVE Quiet'
<1>1. Running' = {} /\ Running = {}
  BY NothingRuns DEF StartServices, Running
<1>2. \A w \in Start : worker[w].at \in {"none", "end"}
  BY DEF Quiet, OneWorker, Working, StartServices
<1>3. \A w \in Start : w = starts' \/ worker'[w] = worker[w]
  BY DEF StartServices, Inv, ServicesTypeOK
<1>4. worker'[starts'].at \in {"none", "range", "end"} \/ starts' \notin Start
  <2>1. CASE starts' \in Start /\ worker' # worker
    <3>1. worker \in [Start -> WorkerRec]
      BY DEF Inv, ServicesTypeOK, WorkerRec
    <3>2. worker' = [worker EXCEPT ![starts'] = [worker[starts'] EXCEPT !.at = "range"]]
      BY <2>1 DEF StartServices
    <3>3. worker'[starts'] = [worker[starts'] EXCEPT !.at = "range"]
      BY <2>1, <3>1, <3>2
    <3>4. worker[starts'] \in WorkerRec
      BY <2>1, <3>1
    <3> QED
      BY <3>3, <3>4 DEF WorkerRec
  <2>2. CASE worker' = worker
    BY <2>2, <1>2
  <2> QED
    BY <2>1, <2>2
<1>5. OneWorker'
  BY <1>2, <1>3 DEF OneWorker, Working, StartServices
<1>6. InHand' /\ NotYet'
  BY <1>2, <1>3, <1>4 DEF InHand, NotYet, Busy
<1>7. Kept' /\ ListenerNamed'
  BY <1>1 DEF Kept, ListenerNamed, Running
<1>8. StoppedSoFar'
  BY DEF StoppedSoFar, StartServices
<1> QED
  BY <1>5, <1>6, <1>7, <1>8 DEF Quiet

\* A stop that overtakes no worker.
LEMMA HaltQuiet ==
  ASSUME Inv, Quiet, Halt, ~overlap' PROVE Quiet'
<1>1. \A w \in Start : ~Working(w)
  BY DEF Halt
<1>2. OneWorker' /\ InHand' /\ NotYet'
  BY <1>1 DEF Halt, OneWorker, InHand, NotYet, Working, Busy
<1>3. Kept' /\ ListenerNamed' /\ StoppedSoFar'
  BY DEF Quiet, Kept, ListenerNamed, StoppedSoFar, Halt, Running, Named, Of, InUse
<1> QED
  BY <1>2, <1>3 DEF Quiet

\* Nobody is at work while the services are stopped, so all that runs is named.
LEMMA AllNamed ==
  ASSUME Inv, Quiet, gui # "idle"
  PROVE  /\ \A w \in Start : ~Working(w)
         /\ \A a \in Running : a \in Attempt /\ Named(a)
<1>1. \A w \in Start : ~Working(w)
  BY DEF Quiet, OneWorker
<1>2. ASSUME NEW a \in Running PROVE a \in Attempt /\ Named(a)
  <2>1. a \in Attempt /\ a[1] \in Start /\ Of(a) \in State
    BY RunningAttempts, OfAttempt
  <2>2. worker[a[1]].state = None
    BY <2>1, <1>1 DEF Inv, WorkerInv, Working, Busy
  <2>3. Of(a) # None
    <3>1. Of(a) \in Nat \X Nat
      BY <2>1, PlacesFinite DEF State, Start, Place
    <3> QED
      BY <3>1, ServicesAssumption
  <2> QED
    BY <2>1, <2>2, <2>3 DEF Quiet, Kept
<1> QED
  BY <1>1, <1>2

LEMMA TakeListQuiet ==
  ASSUME Inv, Quiet, TakeList PROVE Quiet'
<1>1. /\ \A w \in Start : ~Working(w)
      /\ \A a \in Running : a \in Attempt /\ Named(a)
  BY AllNamed DEF TakeList
<1>2. OneWorker' /\ InHand' /\ NotYet'
  BY <1>1 DEF TakeList, OneWorker, InHand, NotYet, Working, Busy
<1>3. InUse' = InUse
  <2>1. stopping = <<>> /\ stopping' = devices /\ devices' = <<>>
    BY DEF Inv, ListInv, TakeList
  <2> QED
    BY <2>1 DEF InUse
<1>4. Kept'
  BY <1>1, <1>3 DEF Quiet, Kept, TakeList, Running, Named, Of
<1>5. ListenerNamed' /\ StoppedSoFar'
  BY DEF Quiet, ListenerNamed, StoppedSoFar, TakeList, Of
<1> QED
  BY <1>2, <1>4, <1>5 DEF Quiet

\* Of each DeviceState its listener, then its controller, then its connection.
LEMMA StopQuiet ==
  ASSUME Inv, Quiet, StopAlarm \/ StopCyclic \/ StopConn PROVE Quiet'
<1> DEFINE h == Head(stopping)
<1>1. /\ \A w \in Start : ~Working(w)
      /\ \A a \in Running : a \in Attempt /\ Named(a)
  BY AllNamed DEF StopAlarm, StopCyclic, StopConn
<1>2. /\ stopping # <<>> /\ stopping \in Seq(State) /\ h \in State
      /\ \A t \in State : t \in InUse => t = h \/ \E j \in DOMAIN Tail(stopping) :
                                                     t = Tail(stopping)[j]
  <2>1. devices = <<>> /\ stopping # <<>> /\ stopping \in Seq(State)
    BY DEF Inv, ServicesTypeOK, ListInv, StopAlarm, StopCyclic, StopConn
  <2>2. h \in State
    BY <2>1
  <2>3. ASSUME NEW j \in DOMAIN stopping, stopping[j] # h
        PROVE  \E i \in DOMAIN Tail(stopping) : stopping[j] = Tail(stopping)[i]
    <3>1. j \in 2 .. Len(stopping)
      BY <2>1, <2>3
    <3>2. j - 1 \in DOMAIN Tail(stopping) /\ Tail(stopping)[j - 1] = stopping[j]
      BY <2>1, <3>1
    <3> QED
      BY <3>2
  <2> QED
    BY <2>1, <2>2, <2>3 DEF InUse
<1>3. OneWorker' /\ InHand' /\ NotYet'
  BY <1>1 DEF StopAlarm, StopCyclic, StopConn, OneWorker, InHand, NotYet, Working, Busy
<1>4. /\ \A t \in State : /\ ds'[t].alarm = ds[t].alarm /\ ds'[t].conn = ds[t].conn
                          /\ ds'[t].cyclic = ds[t].cyclic
      /\ live'.alarm \subseteq live.alarm /\ live'.ctrl \subseteq live.ctrl
      /\ live'.conn \subseteq live.conn
      /\ UNCHANGED <<starts, worker, devices>>
  <2>1. CASE StopConn
    BY <1>2, <2>1, LiveParts, Disconnects DEF StopConn, LiveRec
  <2>2. CASE StopAlarm \/ StopCyclic
    BY <2>2, LiveParts DEF StopAlarm, StopCyclic, LiveRec
  <2> QED
    BY <2>1, <2>2
<1>5. ListenerNamed'
  BY <1>4, ListenerStays
<1>6. /\ StopAlarm => \A a \in live'.alarm : Of(a) # h
      /\ StopCyclic => \A a \in live'.alarm \union live'.ctrl : Of(a) # h
      /\ StopConn => \A a \in Running' : Of(a) # h
  <2>1. ASSUME StopAlarm, NEW a \in live'.alarm PROVE Of(a) # h
    BY <2>1 DEF StopAlarm, Quiet, ListenerNamed
  <2>2. ASSUME StopCyclic, NEW a \in live'.alarm \union live'.ctrl PROVE Of(a) # h
    <3>1. live'.ctrl = live.ctrl \ {ds[h].cyclic} /\ live'.alarm = live.alarm
          /\ gui = "cyclic"
      BY <2>2, LiveParts DEF StopCyclic, LiveRec
    <3>2. a \in Running /\ a \in Attempt /\ Named(a)
      BY <2>2, <3>1, <1>1 DEF Running
    <3> QED
      BY <2>2, <3>1, <3>2, <1>2 DEF Quiet, StoppedSoFar, Named
  <2>3. ASSUME StopConn, NEW a \in Running' PROVE Of(a) # h
    <3>1. /\ live'.conn = live.conn \ {ds[h].conn} /\ live'.alarm = live.alarm
          /\ live'.ctrl = live.ctrl /\ gui = "conn"
      BY <2>3, LiveParts DEF StopConn, LiveRec
    <3>2. a \in Running /\ a \in Attempt /\ Named(a)
      BY <2>3, <3>1, <1>1 DEF Running
    <3> QED
      BY <2>3, <3>1, <3>2, <1>2 DEF Quiet, StoppedSoFar, Named, Running
  <2> QED
    BY <2>1, <2>2, <2>3
<1>7. Kept'
  <2> SUFFICES ASSUME NEW a \in Running'
               PROVE  a[1] = starts /\ a[2] = starts /\ Named(a)'
    BY <1>4 DEF Kept, Of
  <2>1. a \in Running /\ a \in Attempt /\ Named(a) /\ Of(a) \in State
        /\ a[1] = starts /\ a[2] = starts
    BY <1>1, <1>4, OfAttempt DEF Running, Quiet, Kept
  <2>2. (Of(a) \in InUse)'
    <3>1. CASE StopConn
      <4>1. \E j \in DOMAIN Tail(stopping) : Of(a) = Tail(stopping)[j]
        BY <2>1, <3>1, <1>2, <1>6 DEF Named
      <4> QED
        BY <4>1, <3>1 DEF StopConn, InUse, Of
    <3>2. CASE StopAlarm \/ StopCyclic
      BY <2>1, <3>2 DEF StopAlarm, StopCyclic, Named, InUse, Of
    <3> QED
      BY <3>1, <3>2
  <2> QED
    BY <2>1, <2>2, <1>4 DEF Named, Of
<1>8. StoppedSoFar'
  <2>1. CASE StopAlarm
    BY <2>1, <1>6 DEF StopAlarm, StoppedSoFar, Of
  <2>2. CASE StopCyclic
    BY <2>2, <1>6 DEF StopCyclic, StoppedSoFar, Of
  <2>3. CASE StopConn
    BY <2>3 DEF StopConn, StoppedSoFar
  <2> QED
    BY <2>1, <2>2, <2>3
<1> QED
  BY <1>3, <1>5, <1>7, <1>8 DEF Quiet

LEMMA ExitQuiet ==
  ASSUME Inv, Quiet, Exit PROVE Quiet'
<1>1. OneWorker' /\ InHand' /\ NotYet'
  BY DEF Quiet, Exit, OneWorker, InHand, NotYet, Working, This, Running
<1>2. Kept' /\ ListenerNamed' /\ StoppedSoFar'
  BY DEF Quiet, Kept, ListenerNamed, StoppedSoFar, Exit, Running, Named, Of, InUse
<1> QED
  BY <1>1, <1>2 DEF Quiet

\* A step that leaves the lists alone leaves the configurations alone.
LEMMA ConfigStays ==
  ASSUME Inv, ConfigInv, starts' >= starts, starts' \in Nat, InUse' \subseteq InUse,
         InUse \subseteq State, \A t \in State : ds'[t].config = ds[t].config
  PROVE  ConfigInv'
<1>1. starts \in Nat /\ \A t \in State : t[1] \in Nat
  BY ServicesAssumption DEF Inv, ServicesTypeOK, State, Start
<1> QED
  BY <1>1 DEF ConfigInv

LEMMA StartServicesConfig ==
  ASSUME Inv, ConfigInv, StartServices, cfg # <<>> PROVE ConfigInv'
<1> DEFINE k == starts + 1
           New(t) == t[1] = k /\ t[2] \in DOMAIN cfg
<1>1. /\ k = starts' /\ k \in Nat /\ starts \in Nat
      /\ \A t \in State : t[1] \in Nat /\ t = <<t[1], t[2]>>
  BY ServicesAssumption DEF Inv, ServicesTypeOK, StartServices, State, Start
<1>2. /\ cfg \in Seq(Device) /\ cfg \in Configs
      /\ \A i, j \in DOMAIN cfg : cfg[i] = cfg[j] => i = j
  BY ConfigList DEF Inv, ServicesTypeOK
<1>3. /\ ds' = [t \in State |-> IF New(t) THEN [Unused EXCEPT !.config = cfg[t[2]]]
                                ELSE ds[t]]
      /\ devices' = [j \in DOMAIN cfg |-> <<k, j>>] /\ stopping' = stopping
      /\ stopping = <<>>
  BY DEF StartServices, StateList, Inv, ListInv
<1>4. ASSUME NEW t \in State
      PROVE  /\ New(t) => ds'[t].config = cfg[t[2]] /\ cfg[t[2]] \in Device
             /\ ~New(t) => ds'[t].config = ds[t].config
             /\ ~New(t) /\ t[1] = k => ds'[t].config = None
  <2>1. ASSUME New(t) PROVE ds'[t].config = cfg[t[2]] /\ cfg[t[2]] \in Device
    <3>1. cfg[t[2]] \in Device
      BY <1>2, <2>1
    <3>2. ds'[t] = [Unused EXCEPT !.config = cfg[t[2]]]
      BY <1>3, <2>1
    <3>3. Unused \in StateRec
      BY DEF Unused, StateRec
    <3> QED
      BY <3>1, <3>2, <3>3 DEF StateRec
  <2>2. ASSUME ~New(t) PROVE ds'[t] = ds[t]
    BY <1>3, <2>2
  <2> QED
    BY <1>1, <2>1, <2>2 DEF ConfigInv
<1>5. None \notin Device
  BY ServicesAssumption
<1>6. \A t \in State : t[1] > starts' => ds'[t].config = None
  BY <1>1, <1>4 DEF ConfigInv
<1>7. ASSUME NEW s \in State, NEW t \in State, s[1] = t[1],
             ds'[s].config = ds'[t].config, ds'[s].config # None
      PROVE  s = t
  <2>1. CASE s[1] = k
    <3>1. New(s) /\ New(t)
      BY <1>4, <1>7, <2>1
    <3>2. s[2] = t[2]
      BY <3>1, <1>2, <1>4, <1>7
    <3> QED
      BY <3>2, <1>1, <1>7
  <2>2. CASE s[1] # k
    <3>1. ~New(s) /\ ~New(t)
      BY <2>2, <1>7
    <3> QED
      BY <3>1, <1>4, <1>7 DEF ConfigInv
  <2> QED
    BY <2>1, <2>2
<1>8. ASSUME NEW s \in InUse' PROVE ds'[s].config # None
  <2>1. PICK j \in DOMAIN cfg : s = <<k, j>>
    BY <1>3 DEF InUse
  <2>2. s \in State
    <3>1. devices' \in Seq(State) /\ j \in DOMAIN devices' /\ devices'[j] = s
      <4>1. Inv'
        BY StartServicesInv
      <4> QED
        BY <4>1, <1>3, <2>1 DEF Inv, ServicesTypeOK
    <3> QED
      BY <3>1
  <2> QED
    BY <2>1, <2>2, <1>4, <1>5
<1> QED
  BY <1>6, <1>7, <1>8 DEF ConfigInv

LEMMA InUseStates == ASSUME Inv PROVE InUse \subseteq State
BY DEF Inv, ServicesTypeOK, InUse

LEMMA WorkerConfigs ==
  ASSUME Inv, NEW w \in Start, WorkerStep(w)
  PROVE  \A t \in State : ds'[t].config = ds[t].config
<1>1. CASE UNCHANGED ds
  BY <1>1
<1>2. ASSUME worker[w].at \in Busy,
             ds' = [ds EXCEPT ![worker[w].state].connected = FALSE]
      PROVE  \A t \in State : ds'[t].config = ds[t].config
  BY <1>2, BusyWorker, Disconnects
<1>3. ASSUME NEW r \in StateRec, worker[w].at \in Busy,
             ds' = [ds EXCEPT ![worker[w].state] = r],
             r.config = ds[worker[w].state].config
      PROVE  \A t \in State : ds'[t].config = ds[t].config
  BY <1>3, BusyWorker, OnlyItsState
<1>4. CASE StartAlarmListener(w)
  <2>1. worker[w].state \in State /\ worker[w].at \in Busy /\ This(w) \in Attempt
    BY <1>4, BusyWorker, ThisRun DEF StartAlarmListener, Busy
  <2>2. PICK started \in {This(w), None} :
          ds' = [ds EXCEPT ![worker[w].state] =
                           [ds[worker[w].state] EXCEPT !.alarm = started]]
    BY <1>4 DEF StartAlarmListener
  <2>3. ds[worker[w].state] \in StateRec
    BY <2>1 DEF Inv, ServicesTypeOK, StateRec
  <2>4. /\ [ds[worker[w].state] EXCEPT !.alarm = started] \in StateRec
        /\ [ds[worker[w].state] EXCEPT !.alarm = started].config
             = ds[worker[w].state].config
    BY <2>1, <2>3 DEF StateRec
  <2> QED
    BY <2>1, <2>2, <2>4, <1>3
<1>5. CASE Store(w)
  <2> DEFINE r == [ds[worker[w].state] EXCEPT !.conn = This(w), !.cyclic = This(w),
                                              !.connected = TRUE]
  <2>1. worker[w].state \in State /\ worker[w].at \in Busy /\ This(w) \in Attempt
    BY <1>5, BusyWorker, ThisRun DEF Store, Busy
  <2>2. ds' = [ds EXCEPT ![worker[w].state] = r]
    BY <1>5 DEF Store
  <2>3. ds[worker[w].state] \in StateRec
    BY <2>1 DEF Inv, ServicesTypeOK, StateRec
  <2>4. r \in StateRec /\ r.config = ds[worker[w].state].config
    BY <2>1, <2>3 DEF StateRec
  <2> QED
    BY <2>1, <2>2, <2>4, <1>3
<1>6. CASE Refuse(w) \/ NoCyclicAR(w) \/ CleanUp(w)
  BY <1>6, <1>2 DEF Refuse, NoCyclicAR, CleanUp, Busy
<1>7. CASE CountDevices(w) \/ NextDevice(w) \/ Resolve(w) \/ Connect(w)
           \/ StartCyclic(w) \/ Raise(w)
  BY <1>7, <1>1 DEF CountDevices, NextDevice, Resolve, Connect, StartCyclic, Raise
<1> QED
  BY <1>4, <1>5, <1>6, <1>7 DEF WorkerStep

LEMMA ConfigStep ==
  ASSUME Inv, ConfigInv, [ServicesNext]_servicesVars PROVE ConfigInv'
<1>1. InUse \subseteq State /\ starts \in Nat
  BY InUseStates DEF Inv, ServicesTypeOK
<1>2. CASE StartServices
  <2>1. CASE cfg # <<>>
    BY <1>2, <2>1, StartServicesConfig
  <2>2. CASE cfg = <<>>
    BY <1>1, <1>2, <2>2, ConfigStays DEF StartServices, InUse
  <2> QED
    BY <2>1, <2>2
<1>3. CASE TakeList
  <2>1. InUse' = InUse
    <3>1. stopping = <<>> /\ stopping' = devices /\ devices' = <<>>
      BY <1>3 DEF Inv, ListInv, TakeList
    <3> QED
      BY <3>1 DEF InUse
  <2> QED
    BY <1>1, <1>3, <2>1, ConfigStays DEF TakeList
<1>4. CASE StopConn
  <2>1. stopping # <<>> /\ stopping \in Seq(State)
    BY <1>4 DEF Inv, ServicesTypeOK, ListInv, StopConn
  <2>2. \A j \in DOMAIN Tail(stopping) : \E i \in DOMAIN stopping :
          Tail(stopping)[j] = stopping[i]
    BY <2>1
  <2>3. InUse' \subseteq InUse
    BY <1>4, <2>2 DEF StopConn, InUse
  <2>4. \A t \in State : ds'[t].config = ds[t].config
    BY <1>4, <2>1, Disconnects DEF StopConn
  <2> QED
    BY <1>1, <1>4, <2>3, <2>4, ConfigStays DEF StopConn
<1>5. CASE StopAlarm \/ StopCyclic \/ Exit \/ Halt \/ UNCHANGED servicesVars
  BY <1>1, <1>5, ConfigStays DEF StopAlarm, StopCyclic, Exit, Halt, servicesVars, InUse
<1>6. ASSUME NEW w \in Start, WorkerStep(w) PROVE ConfigInv'
  <2>1. UNCHANGED <<starts, stopping, devices>>
    BY <1>6 DEF WorkerStep, guiVars, CountDevices, NextDevice, Refuse, Resolve, Connect,
                NoCyclicAR, StartAlarmListener, StartCyclic, Store, Raise, CleanUp
  <2> QED
    BY <1>1, <1>6, <2>1, WorkerConfigs, ConfigStays DEF InUse
<1> QED
  BY <1>2, <1>3, <1>4, <1>5, <1>6 DEF ServicesNext, GuiStep, Restart, Quit

Peace == Inv /\ ConfigInv /\ (~overlap => Quiet)

LEMMA PeaceInit == ServicesInit => Peace
<1> SUFFICES ASSUME ServicesInit PROVE Peace
  OBVIOUS
<1>1. Inv
  BY InvInit
<1>2. Running = {} /\ InUse = {} /\ \A w \in Start : worker[w] = Idle
  BY DEF ServicesInit, Running, InUse
<1>3. ConfigInv
  BY <1>2 DEF ServicesInit, ConfigInv, Unused
<1>4. Quiet
  BY <1>2 DEF ServicesInit, Quiet, OneWorker, InHand, Kept, ListenerNamed, NotYet,
              StoppedSoFar, Idle, Busy, Working
<1> QED
  BY <1>1, <1>3, <1>4 DEF Peace

LEMMA QuietStep ==
  ASSUME Inv, Inv', ~overlap => Quiet, [ServicesNext]_servicesVars, ~overlap'
  PROVE  Quiet'
<1>1. ~overlap
  BY DEF ServicesNext, GuiStep, StartServices, TakeList, StopAlarm, StopCyclic, StopConn,
         Exit, Restart, Quit, Halt, WorkerStep, guiVars, servicesVars
<1>2. Quiet
  BY <1>1
<1>3. CASE GuiStep
  BY <1>2, <1>3, StartServicesQuiet, TakeListQuiet, StopQuiet, ExitQuiet DEF GuiStep
<1>4. CASE Halt
  BY <1>2, <1>4, HaltQuiet
<1>5. ASSUME NEW w \in Start, WorkerStep(w) PROVE Quiet'
  BY <1>2, <1>5, CountDevicesQuiet, NextDeviceQuiet, RefuseQuiet, MovesQuiet,
     ConnectQuiet, NoCyclicARQuiet, StartAlarmListenerQuiet, StartCyclicQuiet,
     StoreQuiet, CleanUpQuiet
  DEF WorkerStep
<1>6. CASE UNCHANGED servicesVars
  <2>1. OneWorker' /\ InHand' /\ NotYet'
    BY <1>2, <1>6 DEF Quiet, OneWorker, InHand, NotYet, Working, servicesVars, This,
                      Running
  <2>2. Kept' /\ ListenerNamed' /\ StoppedSoFar'
    BY <1>2, <1>6 DEF Quiet, Kept, ListenerNamed, StoppedSoFar, servicesVars, Running,
                      Named, Of, InUse
  <2> QED
    BY <2>1, <2>2 DEF Quiet
<1> QED
  BY <1>3, <1>4, <1>5, <1>6 DEF ServicesNext, Restart, Quit

LEMMA PeaceAlways == ServicesSpec => []Peace
<1>1. Peace /\ [ServicesNext]_servicesVars => Peace'
  BY InvStep, ConfigStep, QuietStep DEF Peace
<1> QED
  BY <1>1, PeaceInit, PTL DEF ServicesSpec

\* As long as no stop has overtaken a worker, every connection, listener and
\* controller that runs can still be stopped: every return, failure and stop of
\* configure_device and ProfinetCtrl.stop closes or names what it has opened.
THEOREM NothingLeaksAlways == ServicesSpec => []NothingLeaks
<1>1. Peace => NothingLeaks
  BY DEF Peace, Quiet, Kept, NothingLeaks, Reachable, Named, Of
<1> QED
  BY <1>1, PeaceAlways, PTL

\* Then no drive has two cyclic controllers, restarts included: the devices of
\* the last start are all there is, and each DeviceConfig is in its list once.
THEOREM OneStreamAlways == ServicesSpec => []OneStream
<1>1. Peace => OneStream
  <2> SUFFICES ASSUME Peace, ~overlap, NEW a \in live.ctrl, NEW b \in live.ctrl,
                      ds[<<a[2], a[3]>>].config = ds[<<b[2], b[3]>>].config
               PROVE  a = b
    BY DEF OneStream
  <2>1. ASSUME NEW c \in live.ctrl
        PROVE  c \in Attempt /\ c[1] = starts /\ c[2] = starts /\ Of(c) \in InUse
    <3>1. c \in Running /\ c \in Attempt
      BY RunningAttempts DEF Peace, Running
    <3>2. c[1] = starts /\ c[2] = starts /\ (worker[c[1]].state = Of(c) \/ Named(c))
      BY <3>1 DEF Peace, Quiet, Kept
    <3>3. ASSUME worker[c[1]].state = Of(c) PROVE Of(c) \in InUse
      <4>1. Of(c) # None /\ c[1] \in Start
        <5>1. Of(c) \in Nat \X Nat /\ c[1] \in Start
          BY <3>1, OfAttempt, PlacesFinite DEF State, Start, Place
        <5> QED
          BY <5>1, ServicesAssumption
      <4>2. worker[c[1]].at \in Busy
        BY <3>3, <4>1 DEF Peace, Inv, WorkerInv
      <4> QED
        BY <3>3, <4>1, <4>2, PresentRun DEF Peace
    <3> QED
      BY <3>1, <3>2, <3>3 DEF Named
  <2>2. Of(a) \in State /\ Of(b) \in State /\ Of(a)[1] = Of(b)[1]
    BY <2>1, OfAttempt
  <2>3. Of(a) = Of(b)
    BY <2>1, <2>2 DEF Peace, ConfigInv, Of
  <2>4. a = <<a[1], a[2], a[3]>> /\ b = <<b[1], b[2], b[3]>> /\ a[3] = b[3]
    BY <2>1, <2>3, OfAttempt
  <2> QED
    BY <2>1, <2>4
<1> QED
  BY <1>1, PeaceAlways, PTL

\* And a stop that has come to its end has stopped everything.
THEOREM StoppedAllAlways == ServicesSpec => []StoppedAll
<1>1. Peace => StoppedAll
  BY NothingRuns DEF Peace, StoppedAll
<1> QED
  BY <1>1, PeaceAlways, PTL
=============================================================================
