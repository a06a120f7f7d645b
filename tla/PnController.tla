---------------------------- MODULE PnController ----------------------------
(***************************************************************************)
(* One controller handle of libprofinet: the API calls of src/api.c, the   *)
(* cyclic thread of src/rt_cyclic_linux.c and what both share through      *)
(* PN_Context.                                                             *)
(*                                                                         *)
(* Three kinds of actors interleave:                                       *)
(*   - the owner, the application thread that opens, connects, disconnects *)
(*     and shuts the handle down.  `call' is where it stands in the call   *)
(*     it is executing;                                                    *)
(*   - Clients, application threads that write outputs, read inputs and    *)
(*     reset the statistics;                                               *)
(*   - the cyclic thread that rt_cyclic_start creates.                     *)
(*                                                                         *)
(* Data is abstracted to where it came from.  A field of an I/O buffer     *)
(* holds 0 (the STOP telegram, or cleared memory) or the number of the     *)
(* application relation (AR) in which it was written or received.  ARs are *)
(* numbered by the calls of rpc_cm_connect, each of which draws a new      *)
(* ar_uuid.                                                                *)
(***************************************************************************)
EXTENDS Naturals

CONSTANTS
    Clients,            \* application threads that do I/O
    Devices,            \* the PROFINET devices on the wire
    NoDevice,           \* device_mac before the first PN_Connect
    MaxAR,              \* bound: how often PN_Connect reaches the RPC phase
    DcpWhileActive,     \* may the owner issue DCP calls while cyclic I/O runs?
    IoDuringLifecycle   \* may client calls overlap the owner's calls?

ASSUME ControllerAssumption ==
    /\ MaxAR \in Nat \ {0}
    /\ NoDevice \notin Devices
    /\ DcpWhileActive \in BOOLEAN
    /\ IoDuringLifecycle \in BOOLEAN

VARIABLES
    handle,     \* "none" before PN_Initialize, "open", "freed" by PN_Shutdown
    state,      \* ctx->state
    call,       \* where the owner stands in its current call
    closing,    \* the owner's call is PN_Shutdown
    device,     \* ctx->device_mac
    sock,       \* ctx->rpc_sock is a valid descriptor
    leaked,     \* a valid descriptor in rpc_sock was overwritten
    ar,         \* the AR named by ctx->ar_uuid
    devAR,      \* the AR each device believes in, 0 for none
    running,    \* ctx->cyclic_running
    thread,     \* ctx->cyclic_thread: the AR whose start created it, or 0
    thr,        \* where the cyclic thread created for an AR stands
    out,        \* ctx->output_buf and output_len
    input,      \* ctx->input_buf
    queue,      \* ARs with an input frame waiting in the raw socket
    sent,       \* the telegram 1 part of the RT output frame last put on the wire
    client,     \* where each client stands in its call
    stats       \* ctx->stats.connected and ctx->stats.cyclic_running

net     == <<devAR, queue>>
buffers == <<out, input, sent>>
cyclic  == <<running, thread, thr>>
session == <<handle, state, call, closing, device, sock, leaked, ar>>
vars    == <<session, cyclic, net, buffers, client, stats>>

ARs      == 1 .. MaxAR
Origin   == 0 .. MaxAR
PN_State == {"IDLE", "DISCOVERING", "DCP_SET", "RPC_CONNECTING", "RPC_WRITING",
             "CYCLIC_ACTIVE", "DISCONNECTING"}
Calls    == {"idle", "dcp", "init", "rpc", "start", "encodeSTW1", "encodeNSOLL",
             "spawn", "undo", "count", "stop", "join", "release", "free"}
Alive    == {"check", "send", "recv"}
Frame    == [by : ARs, to : Devices, stw1 : Origin, nsoll : Origin]
NoFrame  == [by |-> 0]

SessionTypeOK ==
    /\ handle \in {"none", "open", "freed"}
    /\ state \in PN_State
    /\ call \in Calls
    /\ closing \in BOOLEAN
    /\ device \in Devices \cup {NoDevice}
    /\ sock \in BOOLEAN
    /\ leaked \in BOOLEAN
    /\ ar \in Origin

CyclicTypeOK ==
    /\ running \in BOOLEAN
    /\ thread \in Origin
    /\ thr \in [ARs -> Alive \cup {"none", "done"}]

NetTypeOK ==
    /\ devAR \in [Devices -> Origin]
    /\ queue \subseteq ARs

BufferTypeOK ==
    /\ out \in [stw1 : Origin, nsoll : Origin, rest : Origin, long : BOOLEAN]
    /\ input \in Origin
    /\ sent \in Frame \cup {NoFrame}

CallerTypeOK ==
    /\ client \in [Clients -> [pc : {"idle", "write", "copying", "read"}, era : Origin]]
    /\ stats \in [connected : BOOLEAN, cyclic : BOOLEAN]

\* Every variable keeps its type: in particular a device that gets a frame or an AR
\* is one that PN_Connect was asked for.
TypeOK == SessionTypeOK /\ CyclicTypeOK /\ NetTypeOK /\ BufferTypeOK /\ CallerTypeOK

\* The context as calloc and PN_Initialize leave it; no AR exists anywhere.
Init ==
    /\ handle = "none"
    /\ state = "IDLE"
    /\ call = "idle"
    /\ closing = FALSE
    /\ device = NoDevice
    /\ sock = FALSE
    /\ leaked = FALSE
    /\ ar = 0
    /\ devAR = [d \in Devices |-> 0]
    /\ running = FALSE
    /\ thread = 0
    /\ thr = [k \in ARs |-> "none"]
    /\ out = [stw1 |-> 0, nsoll |-> 0, rest |-> 0, long |-> FALSE]
    /\ input = 0
    /\ queue = {}
    /\ sent = NoFrame
    /\ client = [c \in Clients |-> [pc |-> "idle", era |-> 0]]
    /\ stats = [connected |-> FALSE, cyclic |-> FALSE]

\* PN_IsConnected.
IsConnected == state = "CYCLIC_ACTIVE"

ClientsIdle == \A c \in Clients : client[c].pc = "idle"

\* io_lock is held across two steps only by a client that is copying outputs.
LockFree == \A c \in Clients : client[c].pc # "copying"

\* The owner is between calls and may make one.
OwnerReady ==
    /\ handle = "open"
    /\ call = "idle"
    /\ IoDuringLifecycle \/ ClientsIdle

\* Client c is between calls and may make one.
ClientReady(c) ==
    /\ handle = "open"
    /\ ~closing
    /\ client[c].pc = "idle"
    /\ IoDuringLifecycle \/ call = "idle"

\* rpc_cm_release is sent once; it may be lost, and the answer is not looked at.
ReleaseSent ==
    \/ UNCHANGED devAR
    \/ /\ device \in Devices
       /\ devAR[device] = ar
       /\ devAR' = [devAR EXCEPT ![device] = 0]

-----------------------------------------------------------------------------
(* The owner: PN_Initialize and the DCP calls.                             *)

Initialize ==
    /\ handle = "none"
    /\ handle' = "open"
    /\ UNCHANGED <<state, call, closing, device, sock, leaked, ar>>
    /\ UNCHANGED <<cyclic, net, buffers, client, stats>>

\* PN_DCPDiscover, PN_DCPSetIP, PN_DCPSetName: none of them looks at ctx->state.
DcpBegin ==
    /\ OwnerReady
    /\ DcpWhileActive \/ state # "CYCLIC_ACTIVE"
    /\ state' \in {"DISCOVERING", "DCP_SET"}
    /\ call' = "dcp"
    /\ UNCHANGED <<handle, closing, device, sock, leaked, ar>>
    /\ UNCHANGED <<cyclic, net, buffers, client, stats>>

\* The wait for an answer reads, and drops, whatever the raw socket holds.
DcpReceive ==
    /\ call = "dcp"
    /\ \E f \in queue : queue' = queue \ {f}
    /\ UNCHANGED <<session, cyclic, devAR, buffers, client, stats>>

DcpEnd ==
    /\ call = "dcp"
    /\ state' = "IDLE"
    /\ call' = "idle"
    /\ UNCHANGED <<handle, closing, device, sock, leaked, ar>>
    /\ UNCHANGED <<cyclic, net, buffers, client, stats>>

-----------------------------------------------------------------------------
(* The owner: PN_Connect.                                                  *)

\* The target is overwritten before its address is found to be malformed.
ConnectBadAddress(d) ==
    /\ OwnerReady
    /\ state # "CYCLIC_ACTIVE"
    /\ device' = d
    /\ UNCHANGED <<handle, state, call, closing, sock, leaked, ar>>
    /\ UNCHANGED <<cyclic, net, buffers, client, stats>>

\* Mutant: the target is not stored.
ConnectBeginKeepsTarget(d) ==
    /\ OwnerReady
    /\ state # "CYCLIC_ACTIVE"
    /\ ar < MaxAR
    /\ state' = "RPC_CONNECTING"
    /\ call' = "init"
    /\ UNCHANGED <<handle, closing, device, sock, leaked, ar>>
    /\ UNCHANGED <<cyclic, net, buffers, client, stats>>

ConnectBegin(d) ==
    /\ OwnerReady
    /\ state # "CYCLIC_ACTIVE"
    /\ ar < MaxAR
    /\ device' = d
    /\ state' = "RPC_CONNECTING"
    /\ call' = "init"
    /\ UNCHANGED <<handle, closing, sock, leaked, ar>>
    /\ UNCHANGED <<cyclic, net, buffers, client, stats>>

\* rpc_cm_init stores the new descriptor, or -1, over whatever rpc_sock held;
\* with a descriptor, rpc_cm_connect begins by drawing a new ar_uuid.
RpcInit ==
    /\ call = "init"
    /\ leaked' = (leaked \/ sock)
    /\ \/ /\ sock' = TRUE
          /\ state' = "RPC_WRITING"
          /\ call' = "rpc"
          /\ ar' = ar + 1
       \/ /\ sock' = FALSE
          /\ state' = "IDLE"
          /\ call' = "idle"
          /\ UNCHANGED ar
    /\ UNCHANGED <<handle, closing, device>>
    /\ UNCHANGED <<cyclic, net, buffers, client, stats>>

\* rpc_cm_connect returned PN_OK: the device holds the AR.
RpcEstablished ==
    /\ call = "rpc"
    /\ devAR' = [devAR EXCEPT ![device] = ar]
    /\ state' = "CYCLIC_ACTIVE"
    /\ call' = "start"
    /\ UNCHANGED <<handle, closing, device, sock, leaked, ar, queue>>
    /\ UNCHANGED <<cyclic, buffers, client, stats>>

\* Mutant: the failure path of PN_Connect forgets rpc_cm_cleanup.
RpcFailedKeepsSocket ==
    /\ call = "rpc"
    /\ devAR' \in {devAR, [devAR EXCEPT ![device] = ar]}
    /\ state' = "IDLE"
    /\ call' = "idle"
    /\ UNCHANGED <<handle, closing, device, sock, leaked, ar, queue>>
    /\ UNCHANGED <<cyclic, buffers, client, stats>>

\* rpc_cm_connect failed, before or after the device accepted the AR.
RpcFailed ==
    /\ call = "rpc"
    /\ devAR' \in {devAR, [devAR EXCEPT ![device] = ar]}
    /\ sock' = FALSE
    /\ state' = "IDLE"
    /\ call' = "idle"
    /\ UNCHANGED <<handle, closing, device, leaked, ar, queue>>
    /\ UNCHANGED <<cyclic, buffers, client, stats>>

\* Mutant: the STOP telegram is not written before the thread starts.
StartClaimSkipsStop ==
    /\ call = "start"
    /\ running' = TRUE
    /\ call' = IF running THEN "undo" ELSE "spawn"
    /\ UNCHANGED <<handle, state, closing, device, sock, leaked, ar, thread, thr>>
    /\ UNCHANGED <<net, buffers, client, stats>>

\* rt_cyclic_start: compare-and-swap on cyclic_running.
StartClaim ==
    /\ call = "start"
    /\ running' = TRUE
    /\ call' = IF running THEN "undo" ELSE "encodeSTW1"
    /\ UNCHANGED <<handle, state, closing, device, sock, leaked, ar, thread, thr>>
    /\ UNCHANGED <<net, buffers, client, stats>>

\* rt_cyclic_start writes STOP into output_buf without io_lock, so a client that
\* is copying at the same time may interleave between the two words.
EncodeSTW1 ==
    /\ call = "encodeSTW1"
    /\ out' = [out EXCEPT !.stw1 = 0]
    /\ call' = "encodeNSOLL"
    /\ UNCHANGED <<handle, state, closing, device, sock, leaked, ar>>
    /\ UNCHANGED <<cyclic, net, input, sent, client, stats>>

EncodeNSOLL ==
    /\ call = "encodeNSOLL"
    /\ out' = [out EXCEPT !.nsoll = 0]
    /\ call' = "spawn"
    /\ UNCHANGED <<handle, state, closing, device, sock, leaked, ar>>
    /\ UNCHANGED <<cyclic, net, input, sent, client, stats>>

Spawn ==
    /\ call = "spawn"
    /\ thr' = [thr EXCEPT ![ar] = "check"]
    /\ thread' = ar
    /\ call' = "count"
    /\ UNCHANGED <<handle, state, closing, device, sock, leaked, ar, running>>
    /\ UNCHANGED <<net, buffers, client, stats>>

SpawnFailed ==
    /\ call = "spawn"
    /\ running' = FALSE
    /\ call' = "undo"
    /\ UNCHANGED <<handle, state, closing, device, sock, leaked, ar, thread, thr>>
    /\ UNCHANGED <<net, buffers, client, stats>>

\* Mutant: the state stays CYCLIC_ACTIVE when the thread could not be started.
ConnectUndoKeepsState ==
    /\ call = "undo"
    /\ ReleaseSent
    /\ sock' = FALSE
    /\ call' = "idle"
    /\ UNCHANGED <<handle, state, closing, device, leaked, ar, queue>>
    /\ UNCHANGED <<cyclic, buffers, client, stats>>

\* PN_Connect after rt_cyclic_start failed: release, clean up, back to IDLE.
ConnectUndo ==
    /\ call = "undo"
    /\ ReleaseSent
    /\ sock' = FALSE
    /\ state' = "IDLE"
    /\ call' = "idle"
    /\ UNCHANGED <<handle, closing, device, leaked, ar, queue>>
    /\ UNCHANGED <<cyclic, buffers, client, stats>>

ConnectCount ==
    /\ call = "count"
    /\ stats' = [connected |-> TRUE, cyclic |-> TRUE]
    /\ call' = "idle"
    /\ UNCHANGED <<handle, state, closing, device, sock, leaked, ar>>
    /\ UNCHANGED <<cyclic, net, buffers, client>>

-----------------------------------------------------------------------------
(* The owner: PN_Disconnect and PN_Shutdown.                               *)

DisconnectBegin ==
    /\ OwnerReady
    /\ state \in {"CYCLIC_ACTIVE", "DISCONNECTING"}
    /\ state' = "DISCONNECTING"
    /\ call' = "stop"
    /\ UNCHANGED <<handle, closing, device, sock, leaked, ar>>
    /\ UNCHANGED <<cyclic, net, buffers, client, stats>>

\* Mutant: the thread is told to stop and not waited for.
StopThreadWithoutJoin ==
    /\ call = "stop"
    /\ running' = FALSE
    /\ call' = "release"
    /\ UNCHANGED <<handle, state, closing, device, sock, leaked, ar, thread, thr>>
    /\ UNCHANGED <<net, buffers, client, stats>>

\* Mutant: the thread is waited for and not told to stop.
StopThreadStillRunning ==
    /\ call = "stop"
    /\ call' = IF running THEN "join" ELSE "release"
    /\ UNCHANGED <<handle, state, closing, device, sock, leaked, ar>>
    /\ UNCHANGED <<cyclic, net, buffers, client, stats>>

\* rt_cyclic_stop.
StopThread ==
    /\ call = "stop"
    /\ running' = FALSE
    /\ call' = IF running THEN "join" ELSE "release"
    /\ UNCHANGED <<handle, state, closing, device, sock, leaked, ar, thread, thr>>
    /\ UNCHANGED <<net, buffers, client, stats>>

JoinThread ==
    /\ call = "join"
    /\ thread \in ARs
    /\ thr[thread] = "done"
    /\ thread' = 0
    /\ call' = "release"
    /\ UNCHANGED <<handle, state, closing, device, sock, leaked, ar, running, thr>>
    /\ UNCHANGED <<net, buffers, client, stats>>

\* Mutant: the statistics keep saying connected after PN_Disconnect.
DisconnectEndKeepsStats ==
    /\ call = "release"
    /\ ReleaseSent
    /\ sock' = FALSE
    /\ state' = "IDLE"
    /\ call' = IF closing THEN "free" ELSE "idle"
    /\ UNCHANGED <<handle, closing, device, leaked, ar, queue>>
    /\ UNCHANGED <<cyclic, buffers, client, stats>>

DisconnectEnd ==
    /\ call = "release"
    /\ ReleaseSent
    /\ sock' = FALSE
    /\ stats' = [connected |-> FALSE, cyclic |-> FALSE]
    /\ state' = "IDLE"
    /\ call' = IF closing THEN "free" ELSE "idle"
    /\ UNCHANGED <<handle, closing, device, leaked, ar, queue>>
    /\ UNCHANGED <<cyclic, buffers, client>>

\* PN_Shutdown calls PN_Disconnect, which returns at once unless the state says
\* that cyclic I/O is up.  No client may be inside a call of a handle to be freed.
ShutdownBegin ==
    /\ OwnerReady
    /\ ClientsIdle
    /\ closing' = TRUE
    /\ \/ /\ state \in {"CYCLIC_ACTIVE", "DISCONNECTING"}
          /\ state' = "DISCONNECTING"
          /\ call' = "stop"
       \/ /\ state \notin {"CYCLIC_ACTIVE", "DISCONNECTING"}
          /\ call' = "free"
          /\ UNCHANGED state
    /\ UNCHANGED <<handle, device, sock, leaked, ar>>
    /\ UNCHANGED <<cyclic, net, buffers, client, stats>>

Free ==
    /\ call = "free"
    /\ handle' = "freed"
    /\ sock' = FALSE
    /\ call' = "idle"
    /\ UNCHANGED <<state, closing, device, leaked, ar>>
    /\ UNCHANGED <<cyclic, net, buffers, client, stats>>

-----------------------------------------------------------------------------
(* The clients.  ctx->state is read before io_lock is taken.               *)

\* PN_WriteOutputs and PN_DriveSetpoint pass their state check.
WriteAdmitted(c) ==
    /\ ClientReady(c)
    /\ state = "CYCLIC_ACTIVE"
    /\ client' = [client EXCEPT ![c] = [pc |-> "write", era |-> ar]]
    /\ UNCHANGED <<session, cyclic, net, buffers, stats>>

\* The copy under io_lock: STW1, then NSOLL_A and whatever follows them.
WriteSTW1(c) ==
    /\ client[c].pc = "write"
    /\ LockFree
    /\ out' = [out EXCEPT !.stw1 = client[c].era]
    /\ client' = [client EXCEPT ![c].pc = "copying"]
    /\ UNCHANGED <<session, cyclic, net, input, sent, stats>>

\* PN_DriveSetpoint sets output_len to 4; PN_WriteOutputs to what it was given.
WriteRest(c) ==
    /\ client[c].pc = "copying"
    /\ \/ out' = [out EXCEPT !.nsoll = client[c].era, !.long = FALSE]
       \/ out' = [out EXCEPT !.nsoll = client[c].era, !.long = TRUE, !.rest = client[c].era]
    /\ client' = [client EXCEPT ![c] = [pc |-> "idle", era |-> 0]]
    /\ UNCHANGED <<session, cyclic, net, input, sent, stats>>

\* PN_ReadInputs and PN_DriveStatus.
ReadAdmitted(c) ==
    /\ ClientReady(c)
    /\ state = "CYCLIC_ACTIVE"
    /\ client' = [client EXCEPT ![c] = [pc |-> "read", era |-> ar]]
    /\ UNCHANGED <<session, cyclic, net, buffers, stats>>

ReadCopy(c) ==
    /\ client[c].pc = "read"
    /\ LockFree
    /\ client' = [client EXCEPT ![c] = [pc |-> "idle", era |-> 0]]
    /\ UNCHANGED <<session, cyclic, net, buffers, stats>>

ResetStats(c) ==
    /\ ClientReady(c)
    /\ stats' = [connected |-> state = "CYCLIC_ACTIVE", cyclic |-> running]
    /\ UNCHANGED <<session, cyclic, net, buffers, client>>

-----------------------------------------------------------------------------
(* The cyclic thread created for AR k, and the devices.  Once the context  *)
(* is freed a step of the thread is undefined: the model ends there.       *)

ThreadCheck(k) ==
    /\ handle = "open"
    /\ thr[k] = "check"
    /\ thr' = [thr EXCEPT ![k] = IF running THEN "send" ELSE "done"]
    /\ UNCHANGED <<session, running, thread, net, buffers, client, stats>>

ThreadSend(k) ==
    /\ handle = "open"
    /\ thr[k] = "send"
    /\ LockFree
    /\ sent' = [by |-> k, to |-> device, stw1 |-> out.stw1, nsoll |-> out.nsoll]
    /\ thr' = [thr EXCEPT ![k] = "recv"]
    /\ UNCHANGED <<session, running, thread, net, out, input, client, stats>>

\* One receive with half a cycle's timeout.  A frame is told by its FrameID
\* alone, never by its sender; a short frame or one with bad IOPS is dropped.
ThreadReceive(k) ==
    /\ handle = "open"
    /\ thr[k] = "recv"
    /\ LockFree
    /\ \/ UNCHANGED <<queue, input>>
       \/ \E f \in queue :
            /\ queue' = queue \ {f}
            /\ input' \in {f, input}
    /\ thr' = [thr EXCEPT ![k] = "check"]
    /\ UNCHANGED <<session, running, thread, devAR, out, sent, client, stats>>

\* A device in an AR sends cyclic input frames to the controller's socket.
DeviceSends(d) ==
    /\ handle = "open"
    /\ devAR[d] # 0
    /\ queue' = queue \cup {devAR[d]}
    /\ UNCHANGED <<session, cyclic, devAR, buffers, client, stats>>

\* A device loses its AR: power, cable, or its own watchdog.
DeviceDrops(d) ==
    /\ devAR[d] # 0
    /\ devAR' = [devAR EXCEPT ![d] = 0]
    /\ UNCHANGED <<session, cyclic, queue, buffers, client, stats>>

-----------------------------------------------------------------------------
\* The steps of a call the owner has begun.
OwnerStep ==
    \/ DcpReceive \/ DcpEnd
    \/ RpcInit \/ RpcEstablished \/ RpcFailed
    \/ StartClaim \/ EncodeSTW1 \/ EncodeNSOLL \/ Spawn \/ SpawnFailed
    \/ ConnectUndo \/ ConnectCount
    \/ StopThread \/ JoinThread \/ DisconnectEnd \/ Free

OwnerCall ==
    \/ Initialize
    \/ DcpBegin
    \/ \E d \in Devices : ConnectBadAddress(d) \/ ConnectBegin(d)
    \/ DisconnectBegin
    \/ ShutdownBegin

ClientStep(c) == WriteSTW1(c) \/ WriteRest(c) \/ ReadCopy(c)

ClientCall(c) == WriteAdmitted(c) \/ ReadAdmitted(c) \/ ResetStats(c)

CyclicThread(k) == ThreadCheck(k) \/ ThreadSend(k) \/ ThreadReceive(k)

Next ==
    \/ OwnerStep
    \/ OwnerCall
    \/ \E c \in Clients : ClientStep(c) \/ ClientCall(c)
    \/ \E k \in ARs : CyclicThread(k)
    \/ \E d \in Devices : DeviceSends(d) \/ DeviceDrops(d)

Spec == Init /\ [][Next]_vars

\* A call that has begun goes on, threads are scheduled, and the waits of
\* rpc_cm.c and dcp.c have deadlines.  Nobody has to begin a call.
\* Reading frames does not extend the deadline of a DCP call, hence DcpEnd.
Fairness ==
    /\ WF_vars(OwnerStep)
    /\ WF_vars(DcpEnd)
    /\ \A c \in Clients : WF_vars(ClientStep(c))
    /\ \A k \in ARs : WF_vars(CyclicThread(k))

FairSpec == Spec /\ Fairness

-----------------------------------------------------------------------------
(* Properties.                                                             *)

ThreadAlive == \E k \in ARs : thr[k] \in Alive

\* At most one cyclic thread sends for a handle, whatever calls the owner makes
\* and however they interleave with the clients: the compare-and-swap in
\* rt_cyclic_start and the join in rt_cyclic_stop are what ensures it.
OneCyclicThread ==
    \A j, k \in ARs : thr[j] \in Alive /\ thr[k] \in Alive => j = k

\* PN_Shutdown frees the context only when the cyclic thread has ended; the thread
\* never steps on freed memory (profinet_api.h:103 says it stops all threads).
ShutdownStopsThreads == handle = "freed" => ~ThreadAlive

\* No RPC socket is lost by a second rpc_cm_init, and a handle that is in no AR
\* and in no call holds none.
NoSocketLost ==
    /\ ~leaked
    /\ call = "idle" /\ state # "CYCLIC_ACTIVE" => ~sock

\* Between the owner's calls PN_IsConnected says 1 exactly while a cyclic thread
\* runs, and then it is the thread of the AR named by ar_uuid, still told to run.
ConnectedIsExchanging ==
    handle = "open" /\ call = "idle" =>
        /\ (state = "CYCLIC_ACTIVE") <=> ThreadAlive
        /\ state = "CYCLIC_ACTIVE" => running /\ thread = ar /\ thr[ar] \in Alive

\* Between the owner's calls the connected and cyclic_running flags of
\* PN_GetStats agree with the connection, through every failure path.
StatsAgree ==
    handle = "open" /\ call = "idle" =>
        stats = [connected |-> state = "CYCLIC_ACTIVE", cyclic |-> running]

\* The handle keeps the promise of AppRelation: it is in an AR exactly while the
\* thread that PN_Connect started for it is alive.
InRelation == thread \in ARs /\ thr[thread] \in Alive

Phase ==
    CASE handle = "none"                 -> "new"
      [] handle # "none" /\ InRelation   -> "up"
      [] handle = "open" /\ ~InRelation  -> "down"
      [] handle = "freed" /\ ~InRelation -> "closed"

Relation == INSTANCE AppRelation WITH
    Peers  <- Devices,
    Nobody <- NoDevice,
    phase  <- Phase,
    epoch  <- IF InRelation THEN thread ELSE 0,
    peer   <- IF InRelation THEN device ELSE NoDevice,
    frame  <- sent

ImplementsRelation == Relation!Spec

\* Every call of the owner returns: no deadline is missed, and the join of
\* rt_cyclic_stop always finds a thread that ends.
CallsReturn == call # "idle" ~> call = "idle"

\* When the device of the AR has lost it, PN_IsConnected ends up saying so
\* (profinet_api.h:168: "1 if AR established and cyclic exchange running").
DeviceLossNoticed ==
    (IsConnected /\ call = "idle" /\ devAR[device] # ar) ~> ~IsConnected

\* PN_DriveStatus and PN_ReadInputs return cleared memory or what the device of
\* the current AR sent (profinet_api.h:193: "from last cycle"), never data of an
\* earlier AR.
StatusFromThisConnection ==
    [][\A c \in Clients : ReadCopy(c) => input \in {0, client[c].era}]_vars
============================================================================
