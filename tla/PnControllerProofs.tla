------------------------- MODULE PnControllerProofs -------------------------
(***************************************************************************)
(* Theorems about PnController for every set of clients and devices and    *)
(* every bound MaxAR, checked by TLAPS.                                    *)
(***************************************************************************)
EXTENDS PnController, TLAPS

\* The calls of the owner in which PN_Connect has drawn the AR it works for.
InConnect == {"rpc", "start", "encodeSTW1", "encodeNSOLL", "spawn"}

\* What TypeOK needs to be inductive: PN_Connect works for a device and within
\* MaxAR, and a thread was created for a device.
TargetKnown ==
    /\ call = "init" => ar < MaxAR
    /\ call \in InConnect => ar \in ARs
    /\ call \in InConnect \cup {"init"} => device \in Devices
    /\ \A k \in ARs : thr[k] # "none" => device \in Devices

TypeInv == TypeOK /\ TargetKnown

Telegram == [stw1 : Origin, nsoll : Origin, rest : Origin, long : BOOLEAN]

\* PN_WriteOutputs after the first word.
ShortWrite(t, era) == [t EXCEPT !.nsoll = era, !.long = FALSE]
LongWrite(t, era)  == [t EXCEPT !.nsoll = era, !.long = TRUE, !.rest = era]

LEMMA RestWritten ==
  ASSUME NEW t \in Telegram, NEW era \in Origin
  PROVE  ShortWrite(t, era) \in Telegram /\ LongWrite(t, era) \in Telegram
BY DEF Telegram, ShortWrite, LongWrite

LEMMA WriteRestType ==
  ASSUME BufferTypeOK, CallerTypeOK, NEW c \in Clients, WriteRest(c)
  PROVE  BufferTypeOK'
<1>1. client[c].era \in Origin
  BY DEF CallerTypeOK
<1>2. out' = ShortWrite(out, client[c].era) \/ out' = LongWrite(out, client[c].era)
  BY DEF WriteRest, ShortWrite, LongWrite
<1>3. out \in Telegram
  BY DEF BufferTypeOK, Telegram
<1>4. out' \in Telegram
  BY <1>1, <1>2, <1>3, RestWritten
<1> QED
  BY <1>4 DEF BufferTypeOK, Telegram, WriteRest

LEMMA RestKeeps ==
  ASSUME NEW t \in Telegram, NEW era \in Origin
  PROVE  /\ ShortWrite(t, era).stw1 = t.stw1 /\ ShortWrite(t, era).nsoll = era
         /\ LongWrite(t, era).stw1 = t.stw1 /\ LongWrite(t, era).nsoll = era
BY DEF Telegram, ShortWrite, LongWrite

\* A device that takes or drops an AR.
LEMMA DeviceAR ==
  ASSUME NetTypeOK, NEW d, NEW k \in Origin,
         queue' = queue, devAR' \in {devAR, [devAR EXCEPT ![d] = k]}
  PROVE  NetTypeOK'
<1>1. [devAR EXCEPT ![d] = k] \in [Devices -> Origin]
  BY DEF NetTypeOK
<1> QED
  BY <1>1 DEF NetTypeOK

LEMMA TypeInit == Init => TypeInv
<1> SUFFICES ASSUME Init PROVE TypeInv
  OBVIOUS
<1> USE ControllerAssumption DEF Init
<1>1. SessionTypeOK
  <2>1. ar \in Origin
    BY DEF Origin
  <2> QED
    BY <2>1 DEF SessionTypeOK, PN_State, Calls
<1>2. CyclicTypeOK
  <2>1. thread \in Origin
    BY DEF Origin
  <2>2. thr \in [ARs -> Alive \cup {"none", "done"}]
    OBVIOUS
  <2> QED
    BY <2>1, <2>2 DEF CyclicTypeOK
<1>3. NetTypeOK
  BY DEF NetTypeOK, Origin
<1>4. BufferTypeOK
  BY DEF BufferTypeOK, Origin
<1>5. CallerTypeOK
  BY DEF CallerTypeOK, Origin
<1>6. TargetKnown
  BY DEF TargetKnown, InConnect
<1> QED
  BY <1>1, <1>2, <1>3, <1>4, <1>5, <1>6 DEF TypeInv, TypeOK

\* Every step keeps the types.
LEMMA TypeStep == TypeInv /\ [Next]_vars => TypeInv'
<1> SUFFICES ASSUME TypeInv, [Next]_vars PROVE TypeInv'
  OBVIOUS
<1> USE ControllerAssumption
    DEF TypeInv, TypeOK, SessionTypeOK, CyclicTypeOK, NetTypeOK, BufferTypeOK,
        CallerTypeOK, TargetKnown, InConnect, ARs, Origin, PN_State, Calls, Alive
<1>1. CASE UNCHANGED vars
  BY <1>1 DEF vars, session, cyclic, net, buffers
<1>2. CASE OwnerStep
  <2> USE DEF session, cyclic, net, buffers, ReleaseSent
  <2>1. CASE DcpReceive
    BY <2>1 DEF DcpReceive
  <2>2. CASE DcpEnd
    BY <2>2 DEF DcpEnd
  <2>3. CASE RpcInit
    <3>1. SessionTypeOK'
      <4>1. leaked' \in BOOLEAN
        BY <2>3 DEF RpcInit
      <4>2. sock' \in BOOLEAN
        BY <2>3 DEF RpcInit
      <4>3. ar' \in Origin
        BY <2>3 DEF RpcInit
      <4> QED
        BY <2>3, <4>1, <4>2, <4>3 DEF RpcInit
    <3>2. CyclicTypeOK'
      BY <2>3 DEF RpcInit
    <3>3. NetTypeOK'
      BY <2>3 DEF RpcInit
    <3>4. BufferTypeOK'
      BY <2>3 DEF RpcInit
    <3>5. CallerTypeOK'
      BY <2>3 DEF RpcInit
    <3>6. TargetKnown'
      BY <2>3 DEF RpcInit
    <3> QED
      BY <3>1, <3>2, <3>3, <3>4, <3>5, <3>6
  <2>4. CASE RpcEstablished
    BY <2>4 DEF RpcEstablished
  <2>5. CASE RpcFailed
    <3>1. SessionTypeOK'
      BY <2>5 DEF RpcFailed
    <3>2. CyclicTypeOK'
      BY <2>5 DEF RpcFailed
    <3>3. NetTypeOK'
      <4>1. devAR' \in {devAR, [devAR EXCEPT ![device] = ar]} /\ queue' = queue
        BY <2>5 DEF RpcFailed
      <4>2. NetTypeOK /\ ar \in Origin
        OBVIOUS
      <4> HIDE DEF NetTypeOK, Origin
      <4> QED
        BY <4>1, <4>2, DeviceAR
    <3>4. BufferTypeOK'
      BY <2>5 DEF RpcFailed
    <3>5. CallerTypeOK'
      BY <2>5 DEF RpcFailed
    <3>6. TargetKnown'
      BY <2>5 DEF RpcFailed
    <3> QED
      BY <3>1, <3>2, <3>3, <3>4, <3>5, <3>6
  <2>6. CASE StartClaim
    <3>1. SessionTypeOK'
      BY <2>6 DEF StartClaim
    <3>2. CyclicTypeOK'
      BY <2>6 DEF StartClaim
    <3>3. NetTypeOK'
      BY <2>6 DEF StartClaim
    <3>4. BufferTypeOK'
      BY <2>6 DEF StartClaim
    <3>5. CallerTypeOK'
      BY <2>6 DEF StartClaim
    <3>6. TargetKnown'
      BY <2>6 DEF StartClaim
    <3> QED
      BY <3>1, <3>2, <3>3, <3>4, <3>5, <3>6
  <2>7. CASE EncodeSTW1
    <3>1. SessionTypeOK'
      BY <2>7 DEF EncodeSTW1
    <3>2. CyclicTypeOK'
      BY <2>7 DEF EncodeSTW1
    <3>3. NetTypeOK'
      BY <2>7 DEF EncodeSTW1
    <3>4. BufferTypeOK'
      <4>1. 0 \in Origin
        OBVIOUS
      <4>2. out' \in [stw1 : Origin, nsoll : Origin, rest : Origin, long : BOOLEAN]
        BY <2>7, <4>1 DEF EncodeSTW1
      <4> QED
        BY <2>7, <4>2 DEF EncodeSTW1
    <3>5. CallerTypeOK'
      BY <2>7 DEF EncodeSTW1
    <3>6. TargetKnown'
      BY <2>7 DEF EncodeSTW1
    <3> QED
      BY <3>1, <3>2, <3>3, <3>4, <3>5, <3>6
  <2>8. CASE EncodeNSOLL
    <3>1. SessionTypeOK'
      BY <2>8 DEF EncodeNSOLL
    <3>2. CyclicTypeOK'
      BY <2>8 DEF EncodeNSOLL
    <3>3. NetTypeOK'
      BY <2>8 DEF EncodeNSOLL
    <3>4. BufferTypeOK'
      <4>1. 0 \in Origin
        OBVIOUS
      <4>2. out' \in [stw1 : Origin, nsoll : Origin, rest : Origin, long : BOOLEAN]
        BY <2>8, <4>1 DEF EncodeNSOLL
      <4> QED
        BY <2>8, <4>2 DEF EncodeNSOLL
    <3>5. CallerTypeOK'
      BY <2>8 DEF EncodeNSOLL
    <3>6. TargetKnown'
      BY <2>8 DEF EncodeNSOLL
    <3> QED
      BY <3>1, <3>2, <3>3, <3>4, <3>5, <3>6
  <2>9. CASE Spawn
    <3>1. SessionTypeOK'
      BY <2>9 DEF Spawn
    <3>2. CyclicTypeOK'
      BY <2>9 DEF Spawn
    <3>3. NetTypeOK'
      BY <2>9 DEF Spawn
    <3>4. BufferTypeOK'
      BY <2>9 DEF Spawn
    <3>5. CallerTypeOK'
      BY <2>9 DEF Spawn
    <3>6. TargetKnown'
      BY <2>9 DEF Spawn
    <3> QED
      BY <3>1, <3>2, <3>3, <3>4, <3>5, <3>6
  <2>10. CASE SpawnFailed
    <3>1. SessionTypeOK'
      BY <2>10 DEF SpawnFailed
    <3>2. CyclicTypeOK'
      BY <2>10 DEF SpawnFailed
    <3>3. NetTypeOK'
      BY <2>10 DEF SpawnFailed
    <3>4. BufferTypeOK'
      BY <2>10 DEF SpawnFailed
    <3>5. CallerTypeOK'
      BY <2>10 DEF SpawnFailed
    <3>6. TargetKnown'
      BY <2>10 DEF SpawnFailed
    <3> QED
      BY <3>1, <3>2, <3>3, <3>4, <3>5, <3>6
  <2>11. CASE ConnectUndo
    <3>1. SessionTypeOK'
      BY <2>11 DEF ConnectUndo
    <3>2. CyclicTypeOK'
      BY <2>11 DEF ConnectUndo
    <3>3. NetTypeOK'
      BY <2>11 DEF ConnectUndo
    <3>4. BufferTypeOK'
      BY <2>11 DEF ConnectUndo
    <3>5. CallerTypeOK'
      BY <2>11 DEF ConnectUndo
    <3>6. TargetKnown'
      BY <2>11 DEF ConnectUndo
    <3> QED
      BY <3>1, <3>2, <3>3, <3>4, <3>5, <3>6
  <2>12. CASE ConnectCount
    BY <2>12 DEF ConnectCount
  <2>13. CASE StopThread
    <3>1. SessionTypeOK'
      BY <2>13 DEF StopThread
    <3>2. CyclicTypeOK'
      BY <2>13 DEF StopThread
    <3>3. NetTypeOK'
      BY <2>13 DEF StopThread
    <3>4. BufferTypeOK'
      BY <2>13 DEF StopThread
    <3>5. CallerTypeOK'
      BY <2>13 DEF StopThread
    <3>6. TargetKnown'
      BY <2>13 DEF StopThread
    <3> QED
      BY <3>1, <3>2, <3>3, <3>4, <3>5, <3>6
  <2>14. CASE JoinThread
    BY <2>14 DEF JoinThread
  <2>15. CASE DisconnectEnd
    <3>1. SessionTypeOK'
      BY <2>15 DEF DisconnectEnd
    <3>2. CyclicTypeOK'
      BY <2>15 DEF DisconnectEnd
    <3>3. NetTypeOK'
      <4>1. devAR' \in {devAR, [devAR EXCEPT ![device] = 0]} /\ queue' = queue
        BY <2>15 DEF DisconnectEnd
      <4>2. NetTypeOK /\ 0 \in Origin
        OBVIOUS
      <4> HIDE DEF NetTypeOK, Origin
      <4> QED
        BY <4>1, <4>2, DeviceAR
    <3>4. BufferTypeOK'
      BY <2>15 DEF DisconnectEnd
    <3>5. CallerTypeOK'
      BY <2>15 DEF DisconnectEnd
    <3>6. TargetKnown'
      BY <2>15 DEF DisconnectEnd
    <3> QED
      BY <3>1, <3>2, <3>3, <3>4, <3>5, <3>6
  <2>16. CASE Free
    <3>1. SessionTypeOK'
      BY <2>16 DEF Free
    <3>2. CyclicTypeOK'
      BY <2>16 DEF Free
    <3>3. NetTypeOK'
      BY <2>16 DEF Free
    <3>4. BufferTypeOK'
      BY <2>16 DEF Free
    <3>5. CallerTypeOK'
      BY <2>16 DEF Free
    <3>6. TargetKnown'
      BY <2>16 DEF Free
    <3> QED
      BY <3>1, <3>2, <3>3, <3>4, <3>5, <3>6
  <2> QED
    BY <1>2, <2>1, <2>2, <2>3, <2>4, <2>5, <2>6, <2>7, <2>8, <2>9, <2>10, <2>11,
       <2>12, <2>13, <2>14, <2>15, <2>16 DEF OwnerStep
<1>3. CASE OwnerCall
  <2> USE DEF session, cyclic, net, buffers, OwnerReady
  <2>1. CASE Initialize
    BY <2>1 DEF Initialize
  <2>2. CASE DcpBegin
    BY <2>2 DEF DcpBegin
  <2>3. CASE \E d \in Devices : ConnectBadAddress(d)
    BY <2>3 DEF ConnectBadAddress
  <2>4. CASE \E d \in Devices : ConnectBegin(d)
    BY <2>4 DEF ConnectBegin
  <2>5. CASE DisconnectBegin
    BY <2>5 DEF DisconnectBegin
  <2>6. CASE ShutdownBegin
    BY <2>6 DEF ShutdownBegin
  <2> QED
    BY <1>3, <2>1, <2>2, <2>3, <2>4, <2>5, <2>6 DEF OwnerCall
<1>4. CASE \E c \in Clients : ClientStep(c) \/ ClientCall(c)
  <2> PICK c \in Clients : ClientStep(c) \/ ClientCall(c)
    BY <1>4
  <2> USE DEF session, cyclic, net, buffers
  <2>1. CASE WriteAdmitted(c)
    BY <2>1 DEF WriteAdmitted, ClientReady
  <2>2. CASE WriteSTW1(c)
    <3>1. SessionTypeOK'
      BY <2>2 DEF WriteSTW1
    <3>2. CyclicTypeOK'
      BY <2>2 DEF WriteSTW1
    <3>3. NetTypeOK'
      BY <2>2 DEF WriteSTW1
    <3>4. BufferTypeOK'
      BY <2>2 DEF WriteSTW1
    <3>5. CallerTypeOK'
      BY <2>2 DEF WriteSTW1
    <3>6. TargetKnown'
      BY <2>2 DEF WriteSTW1
    <3> QED
      BY <3>1, <3>2, <3>3, <3>4, <3>5, <3>6
  <2>3. CASE WriteRest(c)
    <3>1. SessionTypeOK'
      BY <2>3 DEF WriteRest
    <3>2. CyclicTypeOK'
      BY <2>3 DEF WriteRest
    <3>3. NetTypeOK'
      BY <2>3 DEF WriteRest
    <3>4. BufferTypeOK'
      BY <2>3, WriteRestType
    <3>5. CallerTypeOK'
      BY <2>3 DEF WriteRest
    <3>6. TargetKnown'
      BY <2>3 DEF WriteRest
    <3> QED
      BY <3>1, <3>2, <3>3, <3>4, <3>5, <3>6
  <2>4. CASE ReadAdmitted(c)
    BY <2>4 DEF ReadAdmitted, ClientReady
  <2>5. CASE ReadCopy(c)
    BY <2>5 DEF ReadCopy
  <2>6. CASE ResetStats(c)
    BY <2>6 DEF ResetStats
  <2> QED
    BY <2>1, <2>2, <2>3, <2>4, <2>5, <2>6 DEF ClientStep, ClientCall
<1>5. CASE \E k \in ARs : CyclicThread(k)
  <2> PICK k \in ARs : CyclicThread(k)
    BY <1>5
  <2> USE DEF session, net, buffers
  <2>1. CASE ThreadCheck(k)
    BY <2>1 DEF ThreadCheck
  <2>2. CASE ThreadSend(k)
    BY <2>2 DEF ThreadSend, Frame
  <2>3. CASE ThreadReceive(k)
    <3>1. SessionTypeOK'
      BY <2>3 DEF ThreadReceive
    <3>2. CyclicTypeOK'
      BY <2>3 DEF ThreadReceive
    <3>3. NetTypeOK'
      BY <2>3 DEF ThreadReceive
    <3>4. BufferTypeOK'
      BY <2>3 DEF ThreadReceive
    <3>5. CallerTypeOK'
      BY <2>3 DEF ThreadReceive
    <3>6. TargetKnown'
      BY <2>3 DEF ThreadReceive
    <3> QED
      BY <3>1, <3>2, <3>3, <3>4, <3>5, <3>6
  <2> QED
    BY <2>1, <2>2, <2>3 DEF CyclicThread
<1>6. CASE \E d \in Devices : DeviceSends(d) \/ DeviceDrops(d)
  <2> USE DEF session, cyclic, buffers
  <2>1. CASE \E d \in Devices : DeviceSends(d)
    <3>1. SessionTypeOK'
      BY <2>1 DEF DeviceSends
    <3>2. CyclicTypeOK'
      BY <2>1 DEF DeviceSends
    <3>3. NetTypeOK'
      <4> PICK d \in Devices : DeviceSends(d)
        BY <2>1
      <4>1. devAR[d] \in ARs
        BY DEF DeviceSends
      <4> QED
        BY <4>1 DEF DeviceSends
    <3>4. BufferTypeOK'
      BY <2>1 DEF DeviceSends
    <3>5. CallerTypeOK'
      BY <2>1 DEF DeviceSends
    <3>6. TargetKnown'
      BY <2>1 DEF DeviceSends
    <3> QED
      BY <3>1, <3>2, <3>3, <3>4, <3>5, <3>6
  <2>2. CASE \E d \in Devices : DeviceDrops(d)
    BY <2>2 DEF DeviceDrops
  <2> QED
    BY <1>6, <2>1, <2>2
<1> QED
  BY <1>1, <1>2, <1>3, <1>4, <1>5, <1>6 DEF Next

\* The types of PN_Context and of the callers hold in every reachable state,
\* whatever calls are made and however they interleave.
THEOREM TypeCorrect == Spec => []TypeOK
<1>1. TypeInv => TypeOK
  BY DEF TypeInv
<1> QED
  BY <1>1, TypeInit, TypeStep, PTL DEF Spec

-----------------------------------------------------------------------------
(* One cyclic thread.                                                      *)

\* No cyclic thread exists that will send.
NoThread == \A k \in ARs : thr[k] \notin Alive

\* rt_cyclic_start has claimed cyclic_running and not yet created the thread.
Starting == {"encodeSTW1", "encodeNSOLL", "spawn"}

\* A living thread is the one whose handle is stored, and it lives only while
\* cyclic_running tells it to or rt_cyclic_stop waits for it.
ThreadInv ==
    /\ \A k \in ARs : thr[k] \in Alive => k = thread
    /\ ~running /\ call # "join" => NoThread
    /\ call \in Starting => running /\ NoThread
    /\ call = "join" => ~running

LEMMA ThreadInit == Init => ThreadInv
BY DEF Init, ThreadInv, NoThread, Alive, Starting

LEMMA ThreadStep == TypeInv /\ ThreadInv /\ [Next]_vars => ThreadInv'
<1> SUFFICES ASSUME TypeInv, ThreadInv, [Next]_vars PROVE ThreadInv'
  OBVIOUS
<1> USE DEF TypeInv, TypeOK, SessionTypeOK, CyclicTypeOK, TargetKnown, InConnect, ThreadInv,
            NoThread, Starting, Alive, OwnerReady, session, cyclic, net, buffers
<1>1. CASE UNCHANGED vars
  BY <1>1 DEF vars, session, cyclic, net, buffers
<1>2. CASE OwnerStep
  <2>1. CASE DcpReceive
    BY <2>1 DEF DcpReceive
  <2>2. CASE DcpEnd
    BY <2>2 DEF DcpEnd
  <2>3. CASE RpcInit
    BY <2>3 DEF RpcInit
  <2>4. CASE RpcEstablished
    BY <2>4 DEF RpcEstablished
  <2>5. CASE RpcFailed
    BY <2>5 DEF RpcFailed
  <2>6. CASE StartClaim
    BY <2>6 DEF StartClaim
  <2>7. CASE EncodeSTW1
    BY <2>7 DEF EncodeSTW1
  <2>8. CASE EncodeNSOLL
    BY <2>8 DEF EncodeNSOLL
  <2>9. CASE Spawn
    BY <2>9 DEF Spawn
  <2>10. CASE SpawnFailed
    BY <2>10 DEF SpawnFailed
  <2>11. CASE ConnectUndo
    BY <2>11 DEF ConnectUndo
  <2>12. CASE ConnectCount
    BY <2>12 DEF ConnectCount
  <2>13. CASE StopThread
    BY <2>13 DEF StopThread
  <2>14. CASE JoinThread
    BY <2>14 DEF JoinThread
  <2>15. CASE DisconnectEnd
    BY <2>15 DEF DisconnectEnd
  <2>16. CASE Free
    BY <2>16 DEF Free
  <2> QED
    BY <1>2, <2>1, <2>2, <2>3, <2>4, <2>5, <2>6, <2>7, <2>8,
       <2>9, <2>10, <2>11, <2>12, <2>13, <2>14, <2>15, <2>16 DEF OwnerStep
<1>3. CASE OwnerCall
  <2>1. CASE Initialize
    BY <2>1 DEF Initialize
  <2>2. CASE DcpBegin
    BY <2>2 DEF DcpBegin
  <2>3. CASE \E d \in Devices : ConnectBadAddress(d)
    BY <2>3 DEF ConnectBadAddress
  <2>4. CASE \E d \in Devices : ConnectBegin(d)
    BY <2>4 DEF ConnectBegin
  <2>5. CASE DisconnectBegin
    BY <2>5 DEF DisconnectBegin
  <2>6. CASE ShutdownBegin
    BY <2>6 DEF ShutdownBegin
  <2> QED
    BY <1>3, <2>1, <2>2, <2>3, <2>4, <2>5, <2>6 DEF OwnerCall
<1>4. CASE \E c \in Clients : ClientStep(c) \/ ClientCall(c)
  BY <1>4 DEF ClientStep, ClientCall, WriteAdmitted, WriteSTW1, WriteRest, ReadAdmitted,
              ReadCopy, ResetStats
<1>5. CASE \E k \in ARs : CyclicThread(k)
  <2> PICK k \in ARs : CyclicThread(k)
    BY <1>5
  <2>1. CASE ThreadCheck(k)
    BY <2>1 DEF ThreadCheck
  <2>2. CASE ThreadSend(k)
    BY <2>2 DEF ThreadSend
  <2>3. CASE ThreadReceive(k)
    BY <2>3 DEF ThreadReceive
  <2> QED
    BY <2>1, <2>2, <2>3 DEF CyclicThread
<1>6. CASE \E d \in Devices : DeviceSends(d) \/ DeviceDrops(d)
  BY <1>6 DEF DeviceSends, DeviceDrops
<1> QED
  BY <1>1, <1>2, <1>3, <1>4, <1>5, <1>6 DEF Next

\* However the owner's calls, DCP calls while cyclic I/O runs included, follow one
\* another and interleave with the clients, at most one cyclic thread is alive.
THEOREM OneCyclicThreadAlways == Spec => []OneCyclicThread
<1>1. TypeInv /\ ThreadInv => OneCyclicThread
  BY DEF ThreadInv, OneCyclicThread
<1> QED
  BY <1>1, TypeInit, TypeStep, ThreadInit, ThreadStep, PTL DEF Spec

-----------------------------------------------------------------------------
(* The life of a connection, when DCP calls are left to the disconnected   *)
(* state.                                                                  *)

\* The thread of the current AR runs and is told to go on.
Exchanging == running /\ ar \in ARs /\ thread = ar /\ thr[ar] \in Alive

\* Nothing of a connection is left.
Quiet == ~running /\ NoThread

LifecycleInv ==
    /\ ~leaked
    /\ handle # "open" => call = "idle" /\ state # "CYCLIC_ACTIVE"
    /\ call = "idle" /\ state = "CYCLIC_ACTIVE" => Exchanging
    /\ call = "idle" /\ state # "CYCLIC_ACTIVE" => state = "IDLE" /\ Quiet /\ ~sock
    /\ call = "free" => state = "IDLE"
    /\ call \in {"dcp", "init", "free"} => Quiet /\ ~sock /\ state # "CYCLIC_ACTIVE"
    /\ call \in {"rpc", "start", "undo", "release"} => Quiet
    /\ call = "count" => state = "CYCLIC_ACTIVE" /\ Exchanging
    /\ call \in {"start", "undo"} \cup Starting => state = "CYCLIC_ACTIVE"

LEMMA LifecycleInit == Init => LifecycleInv
BY DEF Init, LifecycleInv, Quiet, NoThread, Alive, Starting

LEMMA LifecycleStep ==
    ASSUME ~DcpWhileActive
    PROVE  TypeInv /\ ThreadInv /\ LifecycleInv /\ [Next]_vars => LifecycleInv'
<1> SUFFICES ASSUME TypeInv, ThreadInv, LifecycleInv, [Next]_vars PROVE LifecycleInv'
  OBVIOUS
<1> USE DEF TypeInv, TypeOK, SessionTypeOK, CyclicTypeOK, TargetKnown, InConnect, ThreadInv,
            NoThread, Starting, Alive, LifecycleInv, Quiet, Exchanging, session, cyclic, net,
            buffers, OwnerReady
<1>1. CASE UNCHANGED vars
  BY <1>1 DEF vars, session, cyclic, net, buffers
<1>2. CASE OwnerStep
  <2>1. CASE DcpReceive
    BY <2>1 DEF DcpReceive
  <2>2. CASE DcpEnd
    BY <2>2 DEF DcpEnd
  <2>3. CASE RpcInit
    BY <2>3 DEF RpcInit
  <2>4. CASE RpcEstablished
    BY <2>4 DEF RpcEstablished
  <2>5. CASE RpcFailed
    BY <2>5 DEF RpcFailed
  <2>6. CASE StartClaim
    BY <2>6 DEF StartClaim
  <2>7. CASE EncodeSTW1
    BY <2>7 DEF EncodeSTW1
  <2>8. CASE EncodeNSOLL
    BY <2>8 DEF EncodeNSOLL
  <2>9. CASE Spawn
    BY <2>9 DEF Spawn
  <2>10. CASE SpawnFailed
    BY <2>10 DEF SpawnFailed
  <2>11. CASE ConnectUndo
    BY <2>11 DEF ConnectUndo
  <2>12. CASE ConnectCount
    BY <2>12 DEF ConnectCount
  <2>13. CASE StopThread
    BY <2>13 DEF StopThread
  <2>14. CASE JoinThread
    BY <2>14 DEF JoinThread
  <2>15. CASE DisconnectEnd
    BY <2>15 DEF DisconnectEnd
  <2>16. CASE Free
    BY <2>16 DEF Free
  <2> QED
    BY <1>2, <2>1, <2>2, <2>3, <2>4, <2>5, <2>6, <2>7, <2>8,
       <2>9, <2>10, <2>11, <2>12, <2>13, <2>14, <2>15, <2>16 DEF OwnerStep
<1>3. CASE OwnerCall
  <2>1. CASE Initialize
    BY <2>1 DEF Initialize
  <2>2. CASE DcpBegin
    BY <2>2 DEF DcpBegin
  <2>3. CASE \E d \in Devices : ConnectBadAddress(d)
    BY <2>3 DEF ConnectBadAddress
  <2>4. CASE \E d \in Devices : ConnectBegin(d)
    BY <2>4 DEF ConnectBegin
  <2>5. CASE DisconnectBegin
    BY <2>5 DEF DisconnectBegin
  <2>6. CASE ShutdownBegin
    BY <2>6 DEF ShutdownBegin
  <2> QED
    BY <1>3, <2>1, <2>2, <2>3, <2>4, <2>5, <2>6 DEF OwnerCall
<1>4. CASE \E c \in Clients : ClientStep(c) \/ ClientCall(c)
  BY <1>4 DEF ClientStep, ClientCall, WriteAdmitted, WriteSTW1, WriteRest, ReadAdmitted,
              ReadCopy, ResetStats
<1>5. CASE \E k \in ARs : CyclicThread(k)
  <2> PICK k \in ARs : CyclicThread(k)
    BY <1>5
  <2>1. CASE ThreadCheck(k)
    BY <2>1 DEF ThreadCheck
  <2>2. CASE ThreadSend(k)
    BY <2>2 DEF ThreadSend
  <2>3. CASE ThreadReceive(k)
    BY <2>3 DEF ThreadReceive
  <2> QED
    BY <2>1, <2>2, <2>3 DEF CyclicThread
<1>6. CASE \E d \in Devices : DeviceSends(d) \/ DeviceDrops(d)
  BY <1>6 DEF DeviceSends, DeviceDrops
<1> QED
  BY <1>1, <1>2, <1>3, <1>4, <1>5, <1>6 DEF Next

LEMMA LifecycleAlways ==
    ASSUME ~DcpWhileActive
    PROVE  Spec => [](TypeInv /\ ThreadInv /\ LifecycleInv)
BY TypeInit, TypeStep, ThreadInit, ThreadStep, LifecycleInit, LifecycleStep, PTL DEF Spec

\* PN_Shutdown never frees the context under a living cyclic thread, provided DCP
\* calls are made only while disconnected.
THEOREM ShutdownSafe ==
    ASSUME ~DcpWhileActive
    PROVE  Spec => []ShutdownStopsThreads
<1>1. LifecycleInv => ShutdownStopsThreads
  BY DEF LifecycleInv, ShutdownStopsThreads, Quiet, NoThread, ThreadAlive
<1> QED
  BY <1>1, LifecycleAlways, PTL

\* Between the owner's calls, PN_IsConnected tells the truth about the thread.
THEOREM ConnectionTruthful ==
    ASSUME ~DcpWhileActive
    PROVE  Spec => []ConnectedIsExchanging
<1>1. LifecycleInv => ConnectedIsExchanging
  BY DEF LifecycleInv, ConnectedIsExchanging, Quiet, Exchanging, NoThread, ThreadAlive
<1> QED
  BY <1>1, LifecycleAlways, PTL

\* No failure path of PN_Connect and no order of calls loses the RPC socket.
THEOREM SocketsKept ==
    ASSUME ~DcpWhileActive
    PROVE  Spec => []NoSocketLost
<1>1. LifecycleInv => NoSocketLost
  BY DEF LifecycleInv, NoSocketLost
<1> QED
  BY <1>1, LifecycleAlways, PTL

-----------------------------------------------------------------------------
(* The documented workflow: in addition, no client call overlaps one of    *)
(* the owner's.                                                            *)

\* The handle is connected: between calls, or with PN_Disconnect on its way.
Up == (call = "idle" /\ state = "CYCLIC_ACTIVE") \/ call \in {"count", "stop", "join"}

\* The telegram words hold STOP or what was written in the current AR.
WordsOfAR ==
    /\ Up \/ call \in {"encodeNSOLL", "spawn"} => out.stw1 \in {0, ar}
    /\ Up \/ call = "spawn" => out.nsoll \in {0, ar}

Disconnecting == {"stop", "join", "release"}

\* The flags of PN_GetStats: those of the connection between calls, cleared in a
\* call that begins disconnected.
StatsFit ==
    /\ call = "idle" => /\ stats.connected <=> state = "CYCLIC_ACTIVE"
                        /\ stats.cyclic <=> running
    /\ call \notin Disconnecting \cup {"idle"} => ~stats.connected /\ ~stats.cyclic

IoInv ==
    /\ \A c \in Clients : client[c].pc # "idle" =>
           call = "idle" /\ state = "CYCLIC_ACTIVE" /\ client[c].era = ar
    /\ NoThread \/ thread = ar
    /\ WordsOfAR
    /\ StatsFit

LEMMA IoInit == Init => IoInv
BY DEF Init, IoInv, NoThread, Alive, WordsOfAR, StatsFit, Up, Disconnecting

LEMMA IoStep ==
    ASSUME ~DcpWhileActive, ~IoDuringLifecycle
    PROVE  TypeInv /\ ThreadInv /\ LifecycleInv /\ IoInv /\ [Next]_vars => IoInv'
<1> SUFFICES ASSUME TypeInv, ThreadInv, LifecycleInv, IoInv, [Next]_vars PROVE IoInv'
  OBVIOUS
<1> USE DEF TypeInv, TypeOK, SessionTypeOK, CyclicTypeOK, TargetKnown, InConnect, ThreadInv,
            NoThread, Starting, Alive, LifecycleInv, Quiet, Exchanging, IoInv, WordsOfAR,
            StatsFit, Up, Disconnecting, session, cyclic, net, buffers, OwnerReady, ClientsIdle
<1>1. CASE UNCHANGED vars
  BY <1>1 DEF vars, session, cyclic, net, buffers
<1>2. CASE OwnerStep
  <2>1. CASE DcpReceive
    BY <2>1 DEF DcpReceive
  <2>2. CASE DcpEnd
    BY <2>2 DEF DcpEnd
  <2>3. CASE RpcInit
    BY <2>3 DEF RpcInit
  <2>4. CASE RpcEstablished
    BY <2>4 DEF RpcEstablished
  <2>5. CASE RpcFailed
    BY <2>5 DEF RpcFailed
  <2>6. CASE StartClaim
    BY <2>6 DEF StartClaim
  <2>7. CASE EncodeSTW1
    BY <2>7 DEF EncodeSTW1
  <2>8. CASE EncodeNSOLL
    BY <2>8 DEF EncodeNSOLL
  <2>9. CASE Spawn
    BY <2>9 DEF Spawn
  <2>10. CASE SpawnFailed
    BY <2>10 DEF SpawnFailed
  <2>11. CASE ConnectUndo
    BY <2>11 DEF ConnectUndo
  <2>12. CASE ConnectCount
    BY <2>12 DEF ConnectCount
  <2>13. CASE StopThread
    BY <2>13 DEF StopThread
  <2>14. CASE JoinThread
    BY <2>14 DEF JoinThread
  <2>15. CASE DisconnectEnd
    BY <2>15 DEF DisconnectEnd
  <2>16. CASE Free
    BY <2>16 DEF Free
  <2> QED
    BY <1>2, <2>1, <2>2, <2>3, <2>4, <2>5, <2>6, <2>7, <2>8,
       <2>9, <2>10, <2>11, <2>12, <2>13, <2>14, <2>15, <2>16 DEF OwnerStep
<1>3. CASE OwnerCall
  <2>1. CASE Initialize
    BY <2>1 DEF Initialize
  <2>2. CASE DcpBegin
    BY <2>2 DEF DcpBegin
  <2>3. CASE \E d \in Devices : ConnectBadAddress(d)
    BY <2>3 DEF ConnectBadAddress
  <2>4. CASE \E d \in Devices : ConnectBegin(d)
    BY <2>4 DEF ConnectBegin
  <2>5. CASE DisconnectBegin
    BY <2>5 DEF DisconnectBegin
  <2>6. CASE ShutdownBegin
    BY <2>6 DEF ShutdownBegin
  <2> QED
    BY <1>3, <2>1, <2>2, <2>3, <2>4, <2>5, <2>6 DEF OwnerCall
<1>4. CASE \E c \in Clients : ClientStep(c) \/ ClientCall(c)
  <2> PICK c \in Clients : ClientStep(c) \/ ClientCall(c)
    BY <1>4
  <2> USE DEF BufferTypeOK, CallerTypeOK
  <2>1. CASE WriteAdmitted(c)
    BY <2>1 DEF WriteAdmitted, ClientReady
  <2>2. CASE WriteSTW1(c)
    BY <2>2 DEF WriteSTW1
  <2>3. CASE WriteRest(c)
    <3>1. client[c].era = ar /\ client[c].era \in Origin /\ out \in Telegram
      BY <2>3 DEF WriteRest, Telegram
    <3>2. out' = ShortWrite(out, client[c].era) \/ out' = LongWrite(out, client[c].era)
      BY <2>3 DEF WriteRest, ShortWrite, LongWrite
    <3>3. out'.stw1 = out.stw1 /\ out'.nsoll = ar
      BY <3>1, <3>2, RestKeeps
    <3>4. \A e \in Clients : client'[e] = client[e] \/ client'[e].pc = "idle"
      BY <2>3 DEF WriteRest
    <3>5. UNCHANGED <<session, cyclic, stats>>
      BY <2>3 DEF WriteRest
    <3>6. (\A e \in Clients : client[e].pc # "idle" =>
               call = "idle" /\ state = "CYCLIC_ACTIVE" /\ client[e].era = ar)'
      BY <3>4, <3>5
    <3>7. (NoThread \/ thread = ar)'
      BY <3>5
    <3>8. WordsOfAR'
      BY <3>3, <3>5
    <3>9. StatsFit'
      BY <3>5
    <3> HIDE DEF NoThread, WordsOfAR, StatsFit
    <3> QED
      BY <3>6, <3>7, <3>8, <3>9 DEF IoInv
  <2>4. CASE ReadAdmitted(c)
    BY <2>4 DEF ReadAdmitted, ClientReady
  <2>5. CASE ReadCopy(c)
    BY <2>5 DEF ReadCopy
  <2>6. CASE ResetStats(c)
    BY <2>6 DEF ResetStats, ClientReady
  <2> QED
    BY <2>1, <2>2, <2>3, <2>4, <2>5, <2>6 DEF ClientStep, ClientCall
<1>5. CASE \E k \in ARs : CyclicThread(k)
  <2> PICK k \in ARs : CyclicThread(k)
    BY <1>5
  <2>1. CASE ThreadCheck(k)
    BY <2>1 DEF ThreadCheck
  <2>2. CASE ThreadSend(k)
    BY <2>2 DEF ThreadSend
  <2>3. CASE ThreadReceive(k)
    BY <2>3 DEF ThreadReceive
  <2> QED
    BY <2>1, <2>2, <2>3 DEF CyclicThread
<1>6. CASE \E d \in Devices : DeviceSends(d) \/ DeviceDrops(d)
  BY <1>6 DEF DeviceSends, DeviceDrops
<1> QED
  BY <1>1, <1>2, <1>3, <1>4, <1>5, <1>6 DEF Next

LEMMA WorkflowAlways ==
    ASSUME ~DcpWhileActive, ~IoDuringLifecycle
    PROVE  Spec => [](TypeInv /\ ThreadInv /\ LifecycleInv /\ IoInv)
BY IoInit, IoStep, TypeInit, TypeStep, ThreadInit, ThreadStep, LifecycleInit, LifecycleStep, PTL
   DEF Spec

\* In the documented workflow PN_GetStats agrees with the connection between calls.
THEOREM StatsTruthful ==
    ASSUME ~DcpWhileActive, ~IoDuringLifecycle
    PROVE  Spec => []StatsAgree
<1>1. TypeInv /\ IoInv => StatsAgree
  <2> SUFFICES ASSUME TypeInv, IoInv, handle = "open", call = "idle"
               PROVE  stats = [connected |-> state = "CYCLIC_ACTIVE", cyclic |-> running]
    BY DEF StatsAgree
  <2>1. stats \in [connected : BOOLEAN, cyclic : BOOLEAN] /\ running \in BOOLEAN
    BY DEF TypeInv, TypeOK, CallerTypeOK, CyclicTypeOK
  <2>2. stats.connected = (state = "CYCLIC_ACTIVE") /\ stats.cyclic = running
    BY <2>1 DEF IoInv, StatsFit
  <2> QED
    BY <2>1, <2>2
<1> QED
  BY <1>1, WorkflowAlways, PTL

-----------------------------------------------------------------------------
(* The handle implements AppRelation.                                      *)

\* Where the owner may stand while a thread is alive.
LEMMA AliveMeansUp ==
    ASSUME TypeInv, ThreadInv, LifecycleInv, IoInv, NEW k \in ARs, thr[k] \in Alive
    PROVE  Up /\ k = thread /\ thread = ar /\ handle = "open"
BY DEF TypeInv, TypeOK, SessionTypeOK, Calls, ThreadInv, LifecycleInv, IoInv, NoThread, Quiet,
       Starting, Up

LEMMA RelationInit == Init => Relation!Init
BY DEF Init, Relation!Init, Phase, InRelation, ARs, NoFrame

\* A step that leaves the thread, the target, the handle and the wire alone.
LEMMA Stutters ==
    ASSUME UNCHANGED <<handle, thread, thr, device, sent>>
    PROVE  UNCHANGED Relation!relation
BY DEF Relation!relation, Phase, InRelation

LEMMA RelationStep ==
    ASSUME ~DcpWhileActive, ~IoDuringLifecycle
    PROVE  TypeInv /\ ThreadInv /\ LifecycleInv /\ IoInv /\ [Next]_vars
               => [Relation!Next]_Relation!relation
<1> SUFFICES ASSUME TypeInv, ThreadInv, LifecycleInv, IoInv, [Next]_vars
             PROVE  [Relation!Next]_Relation!relation
  OBVIOUS
<1>1. CASE Initialize
  <2>1. handle = "none" /\ handle' = "open" /\ UNCHANGED <<thread, thr, device, sent>>
    BY <1>1 DEF Initialize, session, cyclic, buffers
  <2>2. ~InRelation
    BY <2>1, AliveMeansUp DEF InRelation
  <2> QED
    BY <2>1, <2>2 DEF Relation!Next, Relation!Open, Phase, InRelation
<1>2. CASE Free
  <2>1. /\ handle = "open" /\ handle' = "freed" /\ UNCHANGED <<thread, thr, device, sent>>
        /\ ~InRelation
    BY <1>2, AliveMeansUp DEF Free, session, cyclic, buffers, Up, LifecycleInv, InRelation
  <2> QED
    BY <2>1 DEF Relation!Next, Relation!Close, Phase, InRelation
<1>3. CASE \E d \in Devices : ConnectBadAddress(d) \/ ConnectBegin(d)
  <2>1. UNCHANGED <<handle, thread, thr, sent>> /\ ~InRelation
    BY <1>3, AliveMeansUp
       DEF ConnectBadAddress, ConnectBegin, OwnerReady, cyclic, buffers, Up, InRelation
  <2> QED
    BY <2>1 DEF Relation!relation, Phase, InRelation
<1>4. CASE Spawn
  <2>1. /\ handle = "open" /\ ar \in ARs /\ device \in Devices /\ ~InRelation
        /\ thread' = ar /\ thr' = [thr EXCEPT ![ar] = "check"]
        /\ UNCHANGED <<handle, device, sent>>
    BY <1>4, AliveMeansUp
       DEF Spawn, buffers, Up, LifecycleInv, InRelation, TypeInv, TargetKnown, InConnect
  <2>2. InRelation'
    BY <2>1 DEF InRelation, TypeInv, TypeOK, CyclicTypeOK, Alive
  <2> QED
    BY <2>1, <2>2, ControllerAssumption
       DEF Relation!Next, Relation!Establish, Phase, ARs
<1>5. CASE JoinThread
  <2>1. UNCHANGED <<handle, device, sent>> /\ ~InRelation /\ ~InRelation'
    BY <1>5 DEF JoinThread, buffers, InRelation, Alive, ARs
  <2> QED
    BY <2>1 DEF Relation!relation, Phase
<1>6. CASE \E k \in ARs : CyclicThread(k)
  <2> PICK k \in ARs : CyclicThread(k)
    BY <1>6
  <2>1. /\ thr[k] \in Alive /\ handle = "open" /\ k = thread /\ thread = ar /\ Up
        /\ InRelation /\ UNCHANGED <<handle, thread, device>>
    BY AliveMeansUp
       DEF CyclicThread, ThreadCheck, ThreadSend, ThreadReceive, session, Alive, InRelation
  <2>2. CASE ThreadCheck(k)
    <3>1. UNCHANGED sent
      BY <2>2 DEF ThreadCheck, buffers
    <3>2. CASE InRelation'
      BY <2>1, <3>1, <3>2 DEF Relation!relation, Phase
    <3>3. CASE ~InRelation'
      BY <2>1, <3>1, <3>3 DEF Relation!Next, Relation!Teardown, Phase
    <3> QED
      BY <3>2, <3>3
  <2>3. CASE ThreadSend(k)
    <3>1. InRelation'
      BY <2>1, <2>3 DEF ThreadSend, InRelation, Alive, TypeInv, TypeOK, CyclicTypeOK
    <3>2. device \in Devices
      BY <2>1 DEF TypeInv, TargetKnown, Alive
    <3>3. sent' = [by |-> thread, to |-> device, stw1 |-> out.stw1, nsoll |-> out.nsoll]
      BY <2>1, <2>3 DEF ThreadSend
    <3>4. out.stw1 \in {0, thread} /\ out.nsoll \in {0, thread}
      BY <2>1 DEF IoInv, WordsOfAR
    <3> QED
      BY <2>1, <3>1, <3>3, <3>4
         DEF Relation!Next, Relation!Exchange, Relation!Control, Phase
  <2>4. CASE ThreadReceive(k)
    <3>1. InRelation' /\ UNCHANGED sent
      BY <2>1, <2>4 DEF ThreadReceive, InRelation, Alive, TypeInv, TypeOK, CyclicTypeOK
    <3> QED
      BY <2>1, <3>1 DEF Relation!relation, Phase
  <2> QED
    BY <2>2, <2>3, <2>4 DEF CyclicThread
<1>7. CASE UNCHANGED <<handle, thread, thr, device, sent>>
  BY <1>7, Stutters
<1>8. CASE OwnerStep
  BY <1>2, <1>4, <1>5, <1>7, <1>8
     DEF OwnerStep, DcpReceive, DcpEnd, RpcInit, RpcEstablished, RpcFailed, StartClaim,
         EncodeSTW1, EncodeNSOLL, SpawnFailed, ConnectUndo, ConnectCount, StopThread,
         DisconnectEnd, session, cyclic, net, buffers
<1>9. CASE OwnerCall
  BY <1>1, <1>3, <1>7, <1>9
     DEF OwnerCall, DcpBegin, DisconnectBegin, ShutdownBegin, session, cyclic, net, buffers
<1>10. CASE \E c \in Clients : ClientStep(c) \/ ClientCall(c)
  BY <1>7, <1>10
     DEF ClientStep, ClientCall, WriteAdmitted, WriteSTW1, WriteRest, ReadAdmitted, ReadCopy,
         ResetStats, session, cyclic, net, buffers
<1>11. CASE \E d \in Devices : DeviceSends(d) \/ DeviceDrops(d)
  BY <1>7, <1>11 DEF DeviceSends, DeviceDrops, session, cyclic, buffers
<1>12. CASE UNCHANGED vars
  BY <1>7, <1>12 DEF vars, session, cyclic, buffers
<1> QED
  BY <1>6, <1>8, <1>9, <1>10, <1>11, <1>12 DEF Next

\* In the documented workflow a handle does what AppRelation promises: it sends to
\* the device of its AR only, STOP or what was written in that AR, and nothing
\* after PN_Disconnect or PN_Shutdown.
THEOREM HandleImplementsRelation ==
    ASSUME ~DcpWhileActive, ~IoDuringLifecycle
    PROVE  Spec => ImplementsRelation
<1>1. Spec => Relation!Spec
  BY RelationInit, RelationStep, WorkflowAlways, PTL DEF Spec, Relation!Spec
<1> QED
  BY <1>1 DEF ImplementsRelation
=============================================================================
