# TLA+ models and proofs for the PROFINET controller library and gateway

The repository is a PROFINET IO controller for one or a few variable-frequency
drives. A C library, libprofinet, opens a network adapter, finds and configures
devices (DCP), establishes an application relation (AR) with a device over
RPC/CM, and then exchanges cyclic frames with it, PROFIdrive telegram 1: the
control word STW1 and the setpoint NSOLL_A go out, the status word ZSW1 and the
actual speed NIST_A come in. A gateway in Python lets a TCP, STM or UDP client
command the drives. Two simulators stand in for a real device.

This directory models the parts of that system in which several actors, failures
or long sequences of calls make correctness hard to test. `PROJECT.json` says
which lines of the source each definition stands for.

## 1. Inventory

| Component | State it keeps | Operations | Model |
|---|---|---|---|
| Controller handle and cyclic thread (`src/src/api.c`, `rt_cyclic_linux.c`, `pnet_state.h`) | `PN_Context`: state, target, socket, I/O buffers, `cyclic_running`, the thread, statistics | the calls of `profinet_api.h`; send and receive once per cycle | `PnController` |
| RPC connection manager (`rpc_cm.c`) | `rpc_sock`, `ar_uuid`, call id, frame ids | init, connect, release, cleanup | `ArHandshake`; its outcomes in `PnController` |
| DCP (`dcp.c`) | discovery cache, XID | identify, set IP, set name | as calls in `PnController` |
| Alarm frames (`alarm.c`) | none | acknowledge | no |
| Windows cyclic thread (`rt_cyclic_win.c`) | as on Linux, with a stop event | as on Linux | no |
| Platform layer (`frame_io_*.c`, `platform_*.h`, `utils.c`) | descriptors | raw send and receive, locks | taken as given |
| GSDML parsers (`gsdml.py`, `gsdml_parser.c`) | parsed device description | parse | `Gsdml` (Python) |
| Python simulator (`simulator/vfd_sim.py`) | state, AR, controller address, cyclic thread | serve RPC and DCP, send inputs | `ArHandshake` (RPC) |
| C simulator (`simulator/pn_device.c`) | the same, three threads and a stop event | the same | no |
| Gateway server and comms watchdog (`profinet_gateway_py/gateway_server.py`) | I/O buffers per drive, time of last frame, tripped flag, the connection | accept, receive, apply outputs, reply, stream, watch, force, start, stop | `Gateway`, `TcpLink`, `Framing` |
| Bridge (`bridge.py`) | its place in the round over the drives | copy outputs to the backend, inputs to the server | `Gateway` (outputs) |
| Services (`main.py`) | the service objects, the connect workers | start, apply and restart, close | `Services` |
| PROFINET backend (`profinet_ctrl.py`) | a `DeviceState` per drive, its connection, alarm listener and cyclic controller | start, configure, read, write, stop | `Services`, `IoLayout`, `ArRequest` |
| TCP test client (`vfd_tcp_client.py`) | socket, the poll worker of each socket | connect, poll, disconnect | `TcpLink`, `Framing` |
| Configuration (`config.py`, `ui/config_window.py`, `ui/pn_config_tab.py`, `ui/device_dialog.py`) | `config.json`, the `DeviceConfig` objects, the canvas, the rack in the dialog | load, edit, apply, save, restart | `Configuration`, `Rack` |
| Diagnosis, monitor and discovery windows, tuning (`ui/`, `realtime.py`) | Tk widgets | show; force outputs | the operator's force in `Gateway` |
| Older gateway (`profinet_gateway/`) | as the newer one, on the C library | the same | no |
| Testers and tests | none | call the API | read for how the API is used |

How they interact. The application's threads call into the handle. The calls share
`PN_Context` with the cyclic thread under `io_lock` and `stats_lock`, and with
plain reads and writes of `ctx->state`. DCP calls and the cyclic thread read one
raw socket. PN_Connect and PN_Disconnect talk to the device over UDP, the cyclic
thread over raw Ethernet. In the gateway, the server thread, the watchdog thread
and the bridge thread share one buffer of output bytes per drive; the operator's
windows write to the same buffers and restart everything. The GUI thread starts the
services and stops them; each start sends off a worker that connects the devices one
after the other, and nobody waits for it. Windows, server and backend refer to the
same `DeviceConfig` objects, from which each takes lengths at a time of its own.

What is hard in it:

* a thread that must be started once, stopped, and joined before its context goes
  away, through half a dozen failure paths of PN_Connect;
* state that outlives the connection it belongs to: I/O buffers, frames waiting in
  a socket, datagrams in flight, time stamps, the tripped flag;
* checks made before a lock or outside one and acted on later;
* an RPC exchange over UDP in which answers are told by position, every wait has a
  deadline of its own, and no retry or AR comparison repairs a mistake;
* a watchdog that compares a sampled time stamp while the frame it waits for
  arrives;
* a connect worker that lives on into the next configuration, and a function of ten
  steps each of which may fail with something to close;
* a byte stream without a length in front of a frame, whose ends give up after
  different times;
* offsets and lengths that four places compute from one rack, and a rack that is
  edited while it is in use.

What makes each part correct: a handle has at most one cyclic thread, frees nothing
under it, sends each device only STOP or what was written in that AR, and tells
the truth about the connection; controller and device agree on the AR when
PN_Connect says so; a silent client leads to zero outputs at every connected
drive, and a command is never in the system without the watchdog being armed; what
the services have started can be stopped, and no drive is sent two output streams; the
client's commands are taken whole and in order; what is saved is what runs, and every
part splits and lays out the process data in the same way.

## 2. Modules

`AppRelation` is the abstract specification of a handle: opened once and closed
once, in at most one AR at a time, sending in it frames to that AR's device only,
each word STOP or written during that AR, and nothing outside an AR.

`PnController` is the handle as coded. The owner thread's calls are cut where
another thread can see a difference: `call` says where the owner stands in
PN_Connect (`init`, `rpc`, `start`, `encodeSTW1`, `encodeNSOLL`, `spawn`, `count`,
`undo`), in PN_Disconnect and PN_Shutdown (`stop`, `join`, `release`, `free`) or
in a DCP call. Client threads pass their state check in one step and copy under
`io_lock` in later ones; the copy of outputs is two steps, because
`rt_cyclic_start` writes the same bytes without the lock. The cyclic thread of AR k
alternates `check`, `send` and `recv`. Data is what the properties tell apart: a
word holds the number of the AR in which it was written or received, or 0. Devices
lose their AR at any time, and their frames queue in the raw socket.
`Relation` maps it to `AppRelation`.

`ArHandshake` is what happens inside the step `rpc` and `release` of `PnController`:
the datagrams between `rpc_cm.c` and `vfd_sim.py`. A socket is named by the AR it
was opened for, since every PN_Connect binds a new ephemeral port. Each direction
is a FIFO channel; datagrams get lost, deadlines pass while the answer is still on
its way, sends fail, the device restarts. An answer to a closed port may end the
simulator's RPC thread, as on Windows, where the next `recvfrom` reports it and
`_rpc_thread` breaks out of its loop (`PortReset`). `disturbed` is a history variable: the
latest attempt was made to a device that does not answer, or something has been lost,
late or restarted since. It starts anew with every attempt, so what earlier ones have
left behind, however many faults it took, is no excuse.

`Gateway` composes the threads of the Python gateway on the output path with a
client, the operator, time and the restart sequence of `main.py`. Frames, buffers
and wire carry commands, not bytes; what is kept of the bytes is whether a frame is
as long as the configured outputs, because a flat frame that is shorter shrinks the
buffers. The age of the last frame is counted in ticks up to one more than the
watchdog time.

`Services` is the life of the services: the GUI thread in `start_services`,
`on_restart` and `_on_close`, with `ProfinetCtrl.stop` cut into the list it takes away
and the three things it stops for each `DeviceState`; and the worker of each start in
`_connect_all`, with `configure_device` cut at every step that starts something or can
fail. `live` is what really runs, apart from what a `DeviceState` names. A worker looks
its device up in the list of the moment, so it may go on in the list of a later start.
`overlap` records that a stop has overtaken a worker. `MCServices` adds the symmetry.

`Configuration` is how a configuration comes to be, is saved and is put to work. A
`DeviceConfig` is an object in `heap`, to which the running list, the canvas and the
dialog refer; `save_config` is cut at the opening, writing and replacing of the file,
and the process may end at any moment. It stands on four modules of pure operators:
`Gsdml` (what `parse_gsdml` makes of a file), `Rack` (the Drive Objects of a device and
the operations of the dialog), `IoLayout` (the slots of the AR, `_iocr_layout`, and how
process data gets into a frame and out of it) and `ArRequest` (what the patches of
`profinet_ctrl.py` and the environment make of the Connect request, of the settings of the
cyclic controller and of the VLAN tags; `DriveApi` stands for what PN_DRIVE_API says, for all
of them the same). Each of these states
what a sound result is beside the algorithm, in terms of bytes and names and not of the
algorithm, and `Configuration` checks it for every rack the dialog can make.

`TcpLink` is the link between `vfd_tcp_client.py` and `gateway_server.py`: the client's
GUI thread, the poll worker it starts for each of its sockets, the server's one connection
with its handler and transmit thread, and the socket buffers between them, for TCP, for a
TCP client with `tcp_stream`, for STM and for UDP. A worker takes the socket that is open
when it gets to it (`Begin`), after it has asked the GUI thread for three fields: that may be
a later one than it was started for, with a worker of its own. A frame is in two parts, so
that it may stall in the middle. `Channel` maps it to `CommandChannel`, the abstract
specification: commands are taken whole, in order, at most once, over one session after
the other. `Framing` has the frames byte by byte.

Definitions named in comments as "Mutant" are variants of the definition that
follows them with one plausible mistake. No specification uses them: each is there
to show that a property fails when the code is wrong in that way.

## 3. What the runs check

| Run | Result | What it shows |
|---|---|---|
| `controller_workflow` | holds, 138 thousand states | the documented use of the API (DCP before PN_Connect, I/O between PN_Connect and PN_Disconnect), two devices: the handle implements `AppRelation`, and the statistics flags agree with the connection after every failure path |
| `controller_concurrent` | holds, 644 thousand | client calls overlap the owner's: there is never a second cyclic thread and none outlives the context, no socket is leaked, PN_IsConnected tells the truth between calls, every call returns |
| `ar_handshake` | holds, 19 thousand | when PN_Connect succeeds both sides are in the same AR; an attempt that nothing disturbs succeeds and leaves the device listening after its Release, whatever earlier attempts have left behind; every call returns whatever is lost, late or dead |
| `gateway_watchdog` | holds, 987 thousand | commands are watched; silence leads to zero outputs; what settles in a buffer reaches the wire; the watchdog clears |
| `services` | holds, 5.1 million | what is marked connected runs, whichever restart overtakes which worker; while none does, nothing leaks, no drive has two controllers, and a stop leaves nothing running |
| `configuration` | holds, 933 thousand | the server's buffers, its slicing and the backend's process data agree; a crash leaves a whole file; what is saved is what runs; and for four kinds of GSDML file and environment, and every rack two edits can make, the catalog, the AR layout, the consumer status, the paths of the process data and the Connect request are sound |
| `tcp_link` | holds, 334 thousand | the link implements `CommandChannel`; with question and answer no answer is about another session than its socket's, and the answers of a worker that shares its socket with nobody fit its polls; the next client is served, commands arrive and polls end; framing with marker bytes in the data is understood |
| `shutdown_after_dcp` | violated | finding 1 |
| `device_loss` | violated | finding 2 |
| `stale_status` | violated | finding 3 |
| `short_frame` | violated | finding 4 |
| `released_device` | violated | finding 5 |

Findings, each a disagreement between what the code does and what the repository
says of it:

1. After a DCP call made while cyclic I/O runs, the state is IDLE, PN_Disconnect
   returns at once, and PN_Shutdown frees the context while the cyclic thread uses
   it. `profinet_api.h:103` says it stops all threads.
2. PN_IsConnected never notices that the device has gone; `profinet_api.h:168` says
   it returns 1 if the cyclic exchange is running and 0 otherwise.
3. `input_buf` survives a reconnect, and frames are told by FrameID only, so the
   first status read of a connection may be an earlier connection's;
   `profinet_api.h:193` says it is from the last cycle.
4. An STM message shorter than the configured outputs shrinks the buffers of the
   last drives to nothing. The watchdog then has no bytes to zero there, and the
   bridge skips the drive, which keeps its last command.
   `PROTOCOL.md:161` says every device's output buffer is zeroed.
5. The Python simulator keeps sending cyclic frames after a Release, and starts a
   second thread at the next ApplicationReady. `vfd_sim.py:8` says it faithfully
   mirrors `pn_device.c`, which stops the thread and waits for it.

Bounds. Two ARs per handle are what it takes for anything to be left over from an
earlier connection, and two devices for it to reach the wrong one; one client is
enough for each race with the owner and the cyclic thread, because clients interact
with each other only through `io_lock`, which any one of them can hold. Four ARs
and six faults in `ar_handshake` let an attempt meet the leftovers of two earlier
ones and a restart of the device in between. Two drives in `gateway_watchdog` make
the round of the bridge and a partly covered frame possible, a watchdog time of one
tick lets the sampled and the current age differ, and one command is enough because
the properties ask only whether a value is a command. Two starts of the services with
two devices let a worker meet the list of the next start, at the same place or another,
and two workers work on one `DeviceState`. In `configuration` two devices and two Drive
Objects make offsets and slots depend on what is in front, two edits add to a saved rack,
take from it or replace in it, and a third object lets one that is in use and two on the
canvas differ; the GSDML files have the cases `gsdml.py` tells apart: several languages,
references that are doubled or lead nowhere, empty and safety submodules, modules that
list nothing, no modules at all. In `tcp_link` two sessions of two polls let an answer
miss its poll and a command its session; a socket of three parts holds a frame and half
of the next. `Samples` puts the marker bytes into the data of two drives. Every bound is
a constant named in the module (`MaxAR`, `MaxFaults`, `N`, `Timeout`, `MaxStarts`,
`Device`, `MaxDevices`, `MaxDrives`, `MaxEdits`, `MaxSessions`, `MaxPolls`,
`SocketBuffer`), and the theorems below do not depend on it. Deadlock is not checked
where the program really ends or waits for its user: after PN_Shutdown, when no further
PN_Connect, start, edit or session is made, when the window is closed.

Fairness. Threads are scheduled: a call that has begun goes on, the cyclic thread,
the server, the watchdog and the bridge keep taking steps, a device whose RPC
thread runs serves, and a datagram that is not lost arrives. Every blocking receive
in `rpc_cm.c` and `dcp.c` has a timeout, which is why `Expire`, `DcpEnd` and the
receive of the cyclic thread are fair; time passes in `Gateway` (`Tick`). In `TcpLink`
(`LinkFairness`) the poll workers go on, the gateway accepts, reads, applies, replies and
streams, and notices a closed socket. Nothing is assumed of people, faults and the
network: nobody has to connect, disconnect, send, force or restart, no frame has to
stall, no transmit thread to give up, no datagram to arrive.

Where the properties stop. Some are claimed under a condition, because without it the code
does otherwise; the runs explore these cases too, and every property without the condition
holds in them.

* `overlap`: a stop overtakes a connect worker. A connection, a listener and a controller may
  stay behind, and a drive may get two streams after the next start. Nothing in the repository
  speaks of it.
* `live`: the dialog has changed a `DeviceConfig` in use, without Apply & Restart. Lengths differ
  until the next restart. Nothing speaks of that either.
* `dropped`: the server has thrown away the beginning of a frame after two seconds. The comment
  there (`gateway_server.py:359`) says "resync next loop". So it is when the client never sends
  the rest. When the rest still comes it is read as the beginning of the next frame, and flat
  frames, in which nothing marks a beginning, are shifted until the connection ends: for that
  case the comment is wrong, and the properties make no claim.
* `Alone`: two workers of the test client have come to share a socket, by clicks on Disconnect
  and Connect while the first one was starting. One then reads the answer to the other's
  poll, or half of it. What `AnswerFits` still says is that it is of that socket's session.
* A UDP poll that has got no answer in time (`late`): the client goes on, and takes the
  answer for that to the next poll (`vfd_tcp_client.py:375`).
* FrameIDs, RT class and timing that a variable of the environment sets for one side only:
  PN_SEND_CLOCK, PN_REDUCTION and PN_WATCHDOG get into the Connect request, the cyclic
  controller keeps to the constants. `SettingsAgree` speaks of all other environments.
* Tagged alarms with PN_CYCLIC_VLAN off: the listener is left as profinet-py has it
  (`profinet_ctrl.py:841`) and does not understand them, though cyclic frames are still
  received with their tag.

Some hazards in `PROJECT.json` have no property for that reason; their notes say so.

## 4. What is proved

`PnControllerProofs`, for any sets of clients and devices and any number of ARs:

* `TypeCorrect`, from `TypeInv`: `TypeOK`, and that a call inside PN_Connect has a
  target device;
* `OneCyclicThreadAlways`, with DCP calls and client calls at any moment. That there
  is one thread is not inductive: `ThreadInv` adds that the live thread is the one
  `ctx->cyclic_thread` names, that with `cyclic_running` false and no join under way
  there is none, and that between the compare-and-swap and the creation there is
  none yet;
* `ShutdownSafe`, `ConnectionTruthful` and `SocketsKept`, assuming
  `~DcpWhileActive`, the condition finding 1 shows to be needed. `LifecycleInv` says
  for each place the owner can stand in whether a thread lives, the socket is open
  and what the state is;
* `StatsTruthful` and `HandleImplementsRelation`, assuming also
  `~IoDuringLifecycle`: client calls do not overlap PN_Connect and PN_Disconnect.
  Without that a write admitted in one AR can be carried out in the next. `IoInv`
  says that a client inside a call works for the current AR, that both words of the
  output buffer belong to it or are STOP while the thread can send them, and how the
  flags relate to the owner's place. `RelationStep` maps each action to a step of
  `AppRelation` or to a stutter.

`GatewayProofs`, for any number of drives, protocol, framing and watchdog time:
`TypeCorrect`, and `CommandsAlwaysWatched`, where the property is made inductive by
`StampedFirst`: a frame in the hands of the server thread has been stamped.

`ArHandshakeProofs`, for any number of ARs and faults: `TypeCorrect`, and
`BothSidesAgree`, that controller and device agree on the AR. `AgreeInv` says why
neither side has to compare AR UUIDs as long as datagrams keep their order: the
requests in flight are in the order of their ARs, with the ConnectRequest the first
of its AR (`Ordered`), so once the device has taken it nothing older is left in front
of it (`DeviceFollows`); an ApplicationReady for the socket of the latest AR can
then only answer that AR's DControl, and a Release of it is sent only by
PN_Disconnect (`NotReleased`). `OnlyDisturbedAttemptsFail` is the other direction: an
attempt made to a device that answers fails only if something disturbs it, however much
earlier ones have left. `UndisturbedInv` has one conjunct for each place the attempt can
be at (`OneAtATime`). While it waits for the ConnectResponse, what is left of earlier ones is in
front of its ConnectRequest, or of the answer to that (`Pending`, `Accepted`): the device
serves it first, and the answers go to sockets that are closed. From then on all that
is on its way is its own.

`ServicesProofs`, for any devices and any number of starts:

* `TypeCorrect` and `ConnectedAlwaysLive`, whichever stop overtakes which worker. The
  invariant `Inv` says where each thread can stand (`WorkerInv`, `ListInv`), that what a
  worker has in hand runs (`HandInv`), and that what a `DeviceState` names was made
  for it by a worker that has since gone on to a later index (`NameInv`). So what a
  worker has in hand is named by no `DeviceState`, no other thread removes it, and what
  is named by a connected one is removed only by the stop that has taken its list away;
* `NothingLeaksAlways`, `OneStreamAlways` and `StoppedAllAlways`, from `Peace`: as
  long as no stop has overtaken a worker, `Quiet` holds. Only the worker of the last
  start is at work, on the list in use (`OneWorker`, `InHand`); what runs belongs to
  that start and is in its hands or named (`Kept`, `ListenerNamed`); what it has not
  reached does not run yet (`NotYet`); and a stop is done with what it has seen to
  (`StoppedSoFar`).

`TcpLinkProofs`, for every protocol, any number of sessions and polls and any size of
the socket buffer:

* `TypeCorrect`, with `NotOpened`: a session not yet opened has sent and received
  nothing;
* `LinkIsAChannel`, that the link implements `CommandChannel`. `Ordered` is why: as long
  as no beginning of a frame has been thrown away, what is on its way in a session is the
  end of the numbered row of parts it has sent (`Rows`), connections wait in the order
  their sessions were opened in (`OneByOne`, `Waiting`), and the handler of a connection
  has read a number of whole frames and the beginning of the next (`Reading`, `Whole`).
  So the frame it applies next is whole, and later than the one before. Then each action is a
  `Send`, a `Take` or a stutter (`SendMaps`, `TakeMaps`, `ChannelStep`);
* `AnswersFit`. That no part of an answer is about another session than the socket's is
  `OwnParts`: with question and answer the gateway writes to a socket only what it has read
  from it, whichever workers share it and whatever is thrown away. That an answer is about
  the poll it is counted for rests on `LockStep`: as long as a worker has its socket for
  itself and may count on an answer, the command of its last poll and the answer to it are in
  one place at a time, on the way, with the gateway, or back. A socket that no worker has
  taken yet is untouched (`Untouched`), so the first to take it is in step. With streaming
  there is no such order, and it rests on `Streams`: the frames on the way to a client follow
  each other, and only the last one may be unfinished, while the transmit thread is giving up;
* `FramesAlwaysUnderstood`, for data of any number of buffers and any bytes that the
  formats have room for: the loops that read a framed frame find the blocks that were
  put into it, one behind the other (`BlocksScan`), and a flat frame is cut where it was
  joined.

`SequenceProofs` has what these and the next modules need to know about folds, sums and
sequences: what a sum over a prefix is, what is where in sequences that are joined, and
that a recursive function over a prefix, or over places that only go up, exists.

`DeviceProofs` and `ConfigurationProofs`, for GSDML files, racks, canvases and dialogs of
any size:

* `TypeCorrect`, `NeverTornAlways`, `SavedAlwaysRunning` and `FrameSplitAlwaysAgrees`, from
  `ConfigurationInv`. `Written` says what is in the two files at each place the GUI thread
  can stand, and `Split` that, until an object in use is changed, the buffers and the
  process data resolved so far are those of the objects in use;
* `DialogRackAlwaysSound`, with `RacksSound`: every rack there is, in an object, in the
  dialog or in the file, has distinct slots above 0, and its telegrams are those of the
  catalog. What a filler is, is known by its name only, so this rests on what
  `_resolve_name` makes of a file's texts (`ResolvedNameIs`, `TelegramsCarryData`);
* `CatalogAlwaysSound`, `EveryLayoutAlwaysSound` and `EveryConsumerAlwaysTold`, for
  every file and environment, and every rack that any number of edits can make. The layout is
  sound because each direction's fields are in the order of their offsets and do not touch
  (`Ordered`), through `_iocr_layout` and the status bytes that trail it;
* `ProcessDataAlwaysSurvives`, for those and for every rack whose Drive Objects have the
  lengths of the telegram they are given. The Drive Objects are some of the
  submodules, in their order, and no others carry data (`Carries`), so each byte the client
  gets is a byte of one Drive Object's field (`BytesOf`), each of them once and at greater
  offsets as it goes on; and the chunks of the client's outputs, which are written over
  each other in no fixed order, have places of their own, so that all of each of them is
  seen (`OverlaySeen`);
* `EveryRequestAlwaysConsistent`, for every such rack and every environment: the
  ExpectedSubmodule blocks and both IOCR blocks have the same submodules under the same APIs
  (`Declared`), because each groups all of its fields and no others (`ExpectsAll`, `Grouped`);
  their offsets are the cyclic controller's, and so are FrameIDs, class and timing as far as
  no variable sets one side alone (`IocrSettings`); and tags are understood as said above
  (`TagsAre`).

They assume of what is installed that `SetupsAssumption` holds: the items of the GSDML file
are told apart by their idents, its submodules without data are named as fillers, and the
racks an earlier process has saved are sound. TLC evaluates it for the files of
`MCConfiguration`.

The inductive invariants were checked with TLC on the instances of the runs before
they were proved. The theorems rest on the assumptions on the constants
(`ControllerAssumption`, `GatewayAssumption`, `HandshakeAssumption`,
`ServicesAssumption`, `LinkAssumption`, `SamplesAssumption`, `ConfigurationAssumption`, `SetupsAssumption`), which TLC evaluates in every run, and on the standard library's
theorems about sequences and finite sets. `OneCyclicThreadAlways` is for any use of the
API; of the runs that expect no violation, `controller_concurrent` checks it for calls
that overlap, without DCP calls in between.

Only model-checked: everything that needs fairness (`CallsReturn`, `FailSafe`,
`BufferReachesWire`, `TripClears`, `ConnectCompletes`, `CallsEnd`, `EveryoneServed`,
`CommandsArrive`, `PollEnds`), which is out of the prover's reach. Folds, sums and
recursive functions are within reach: the induction theorems of the library have a
predicate as a parameter, which the provers cannot instantiate, but with a set of numbers
in its place the least one that is not in it does the same (`Induction`).

## 5. What is left out, and where the models simplify

* Steps that are coarser than the code, where no property can tell: a write of fewer than four
  bytes to a handle (`WriteRest`), and the three assignments by which a connect worker marks
  a device connected (`Store` in `Services`).
* Bytes of RPC and DCP in the C library: block layout, byte order and buffer arithmetic
  are abstracted to origins and lengths. One consequence found while reading, and not a
  matter for a state model: `pn_device.c` reads RPC payloads at offset 56 and wants 82
  bytes for a DControl, `rpc_cm.c` puts them at 40 and sends 64, so the C simulator and
  the library cannot establish an AR; `vfd_sim.py` was written to match the library.
  That, and its Windows events, is why `pn_device.c` has no module.
* Reordered and duplicated datagrams: one LAN segment and the loopback interface
  produce neither. `Agreement` depends on that, because neither side compares AR
  UUIDs.
* Once the context is freed, a step of the cyclic thread is undefined behaviour; the
  model records that the thread is alive and lets it take no further step.
* PN_LoadGSDML and `gsdml_parser.c`, which set what the next Connect request names; the
  frame counters of `PN_Stats`; cycle timing and jitter.
* `Gateway` takes whole frames as given; that they are whole is `TcpLink`. Neither has the
  input direction of the bridge, a plain copy, nor the branch of the server for a
  configuration without outputs, which streams inputs and reads nothing. A peer that
  vanishes without closing its socket would hold the one connection for ever;
  `EveryoneServed` is about peers that close theirs.
* Of `profinet_ctrl.py`: the DCP helpers of the discovery window, `_decode_reject` and the
  capture of RPC bytes, which only write the log, adapter names, statistics. Of
  `gsdml.py`: XML reading, and the lengths of data types.
* Of the windows: drawing, fields that are copied as they are, and the windows that only
  show something. A malformed entry of `config.json` is passed over by `load_config`; the
  files of the model are those that `save_config` writes.
* `realtime.py` only makes operating-system calls. The older gateway is superseded by
  `profinet_gateway_py` and was read as evidence of how the C library is called.
* The parts marked "no" in the inventory: they keep no state of their own, are pure
  I/O, or repeat a modelled part.

## 6. Order of work

Written in this order: `AppRelation`, `PnController` and its proofs, `Gateway` and its
proofs, `ArHandshake` and its proofs; then `Services` and its proofs, `Configuration` on
`Gsdml`, `Rack`, `IoLayout` and `ArRequest`, and `TcpLink` with `CommandChannel` and
`Framing`, and the proofs about it. What could come next:

1. That `ArHandshake` implements the step `rpc` of `PnController`.
2. `DcpExchange`: identify and set with XIDs, late answers and the discovery cache,
   beside the cyclic thread that reads the same socket.
3. `PnDevice`: the three threads of `pn_device.c` and their shared stop event.
