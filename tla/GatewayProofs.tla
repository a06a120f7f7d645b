---------------------------- MODULE GatewayProofs ----------------------------
(***************************************************************************)
(* Theorems about Gateway for every number of drives, every protocol and   *)
(* framing and every watchdog time, checked by TLAPS.                      *)
(***************************************************************************)
EXTENDS Gateway, TLAPS

\* The server thread has a frame in hand between Receive and ApplyOutputs.
FrameInHand == rx.at \in {"clear", "apply"} => rx.frame \in Frame

TypeInv == TypeOK /\ FrameInHand

\* The values start_services begins with are of their types.
LEMMA StartTypes ==
    /\ AllSafe \in [Drives -> Contents \ {Empty}]
    /\ ServerTop \in [at : {"recv", "clear", "apply", "off"}, frame : Frame \cup {Nothing}]
    /\ WatchdogTop \in [at : {"sleep", "compare", "trip", "zero", "off"},
                        armed : BOOLEAN, age : 0 .. Late]
    /\ BridgeStart \in [at : {"top", "get", "put", "off"}, drive : Drives, data : Contents]
    /\ ServerOff \in [at : {"recv", "clear", "apply", "off"}, frame : Frame \cup {Nothing}]
    /\ 0 \in 0 .. Late
    /\ AllSafe \in [Drives -> Contents]
<1> USE GatewayAssumption
<1>1. 0 \in 0 .. Late /\ 1 \in Drives
  BY DEF Late, Drives
<1>2. Safe \in Contents \ {Empty}
  BY DEF Contents
<1>3. AllSafe \in [Drives -> Contents \ {Empty}] /\ AllSafe \in [Drives -> Contents]
  BY <1>2 DEF AllSafe
<1>4. /\ ServerTop \in [at : {"recv", "clear", "apply", "off"}, frame : Frame \cup {Nothing}]
      /\ ServerOff \in [at : {"recv", "clear", "apply", "off"}, frame : Frame \cup {Nothing}]
  BY DEF ServerTop, ServerOff
<1>5. WatchdogTop \in [at : {"sleep", "compare", "trip", "zero", "off"},
                      armed : BOOLEAN, age : 0 .. Late]
  BY <1>1 DEF WatchdogTop
<1>6. BridgeStart \in [at : {"top", "get", "put", "off"}, drive : Drives, data : Contents]
  BY <1>1, <1>2 DEF BridgeStart
<1> QED
  BY <1>1, <1>3, <1>4, <1>5, <1>6

LEMMA TypeInit == Init => TypeInv
BY StartTypes DEF Init, TypeInv, TypeOK, FrameInHand, ServerTop

\* The bridge moves on to a drive there is.
LEMMA AdvancedType ==
    ASSUME TypeInv
    PROVE  Advanced \in [at : {"top", "get", "put", "off"}, drive : Drives, data : Contents]
<1>1. br \in [at : {"top", "get", "put", "off"}, drive : Drives, data : Contents]
  BY DEF TypeInv, TypeOK
<1>2. CASE br.drive < N
  <2>1. br.drive + 1 \in Drives
    BY <1>1, <1>2, GatewayAssumption DEF Drives
  <2> QED
    BY <1>1, <1>2, <2>1 DEF Advanced
<1>3. CASE ~(br.drive < N)
  BY <1>1, <1>3 DEF Advanced
<1> QED
  BY <1>2, <1>3

LEMMA TypeStep == TypeInv /\ [Next]_vars => TypeInv'
<1> SUFFICES ASSUME TypeInv, [Next]_vars PROVE TypeInv'
  OBVIOUS
<1> USE GatewayAssumption DEF TypeInv, TypeOK, FrameInHand, server, clock
<1>1. CASE UNCHANGED vars
  BY <1>1 DEF vars
<1>2. CASE Client
  BY <1>2 DEF Client, ClientSends, ClientStops, ClientReturns, Frames
<1>3. CASE Tick
  BY <1>3 DEF Tick, Older, Late
<1>4. CASE \E d \in Drives : ForceOutput(d) \/ DriveConnects(d)
  BY <1>4 DEF ForceOutput, SetOutputs, DriveConnects, Contents
<1>5. CASE Receive
  <2>1. CASE Accepted(chan)
    BY <1>5, <2>1, StartTypes DEF Receive
  <2>2. CASE ~Accepted(chan)
    BY <1>5, <2>2, StartTypes DEF Receive, ServerTop, ServerOff
  <2> QED
    BY <2>1, <2>2
<1>6. CASE ClearTripped
  BY <1>6 DEF ClearTripped
<1>7. CASE ApplyOutputs
  <2>1. out' \in [Drives -> Contents]
    BY <1>7 DEF ApplyOutputs, Filled, Frame, Contents
  <2> QED
    BY <1>7, <2>1, StartTypes DEF ApplyOutputs, ServerTop, ServerOff
<1>8. CASE ServerExits
  BY <1>8, StartTypes DEF ServerExits, ServerOff
<1>9. CASE Sample
  BY <1>9 DEF Sample
<1>10. CASE Compare
  BY <1>10 DEF Compare
<1>11. CASE Trip
  BY <1>11 DEF Trip
<1>12. CASE ZeroOutputs
  BY <1>12 DEF ZeroOutputs, Zeroed, Contents
<1>13. CASE BridgeTop
  <2>1. 1 \in Drives
    BY DEF Drives
  <2>2. br' \in [at : {"top", "get", "put", "off"}, drive : Drives, data : Contents]
    BY <1>13, <2>1 DEF BridgeTop
  <2> QED
    BY <1>13, <2>2 DEF BridgeTop
<1>14. CASE BridgeSkip
  BY <1>14, AdvancedType DEF BridgeSkip
<1>15. CASE BridgeGet
  <2>1. out[br.drive] \in Contents
    OBVIOUS
  <2>2. br' \in [at : {"top", "get", "put", "off"}, drive : Drives, data : Contents]
    BY <1>15, <2>1 DEF BridgeGet
  <2> QED
    BY <1>15, <2>2 DEF BridgeGet
<1>16. CASE BridgePut
  <2>1. wire' \in [Drives -> Contents \ {Empty}]
    BY <1>16 DEF BridgePut
  <2> QED
    BY <1>16, <2>1, AdvancedType DEF BridgePut
<1>17. CASE RestartBegins
  BY <1>17 DEF RestartBegins
<1>18. CASE StopServer
  BY <1>18 DEF StopServer
<1>19. CASE CloseSockets
  BY <1>19 DEF CloseSockets
<1>20. CASE Restarted
  BY <1>20, StartTypes DEF Restarted, ServerTop
<1> QED
  BY <1>1, <1>2, <1>3, <1>4, <1>5, <1>6, <1>7, <1>8, <1>9, <1>10, <1>11, <1>12, <1>13, <1>14,
     <1>15, <1>16, <1>17, <1>18, <1>19, <1>20
     DEF Next, Server, Watchdog, Bridge, Restart

\* The types hold in every reachable state.
THEOREM TypeCorrect == Spec => []TypeOK
<1>1. TypeInv => TypeOK
  BY DEF TypeInv
<1> QED
  BY <1>1, TypeInit, TypeStep, PTL DEF Spec

-----------------------------------------------------------------------------
\* The stamp of _mon_rx comes before the commands of its frame.
StampedFirst == rx.at \in {"clear", "apply"} => armed

WatchInv == CommandsAreWatched /\ StampedFirst

LEMMA WatchInit == Init => WatchInv
BY GatewayAssumption
   DEF Init, WatchInv, CommandsAreWatched, StampedFirst, AllSafe, ServerTop, BridgeStart

LEMMA WatchStep == TypeInv /\ WatchInv /\ [Next]_vars => WatchInv'
<1> SUFFICES ASSUME TypeInv, WatchInv, [Next]_vars PROVE WatchInv'
  OBVIOUS
<1> USE GatewayAssumption
    DEF TypeInv, TypeOK, WatchInv, CommandsAreWatched, StampedFirst, server, clock
<1>1. CASE UNCHANGED vars
  BY <1>1 DEF vars
<1>2. CASE Client
  BY <1>2 DEF Client, ClientSends, ClientStops, ClientReturns
<1>3. CASE Tick
  BY <1>3 DEF Tick
<1>4. CASE \E d \in Drives : ForceOutput(d) \/ DriveConnects(d)
  BY <1>4 DEF ForceOutput, SetOutputs, DriveConnects
<1>5. CASE Server
  BY <1>5 DEF Server, Receive, ClearTripped, ApplyOutputs, ServerExits, ServerTop,
              ServerOff
<1>6. CASE Watchdog
  BY <1>6 DEF Watchdog, Sample, Compare, Trip, ZeroOutputs, Zeroed
<1>7. CASE BridgeTop
  BY <1>7 DEF BridgeTop
<1>8. CASE BridgeSkip
  BY <1>8 DEF BridgeSkip, Advanced
<1>9. CASE BridgeGet
  BY <1>9 DEF BridgeGet
<1>10. CASE BridgePut
  BY <1>10 DEF BridgePut, Advanced
<1>11. CASE RestartBegins
  BY <1>11 DEF RestartBegins
<1>12. CASE StopServer
  BY <1>12 DEF StopServer
<1>13. CASE CloseSockets
  BY <1>13 DEF CloseSockets
<1>14. CASE Restarted
  BY <1>14 DEF Restarted, AllSafe, ServerTop, BridgeStart
<1> QED
  BY <1>1, <1>2, <1>3, <1>4, <1>5, <1>6, <1>7, <1>8, <1>9, <1>10, <1>11, <1>12, <1>13,
     <1>14
     DEF Next, Bridge, Restart

\* In every protocol and framing, and across restarts, a client's command is
\* nowhere on its way to a drive while the watchdog is not armed.
THEOREM CommandsAlwaysWatched == Spec => []CommandsAreWatched
<1>1. WatchInv => CommandsAreWatched
  BY DEF WatchInv
<1> QED
  BY <1>1, TypeInit, TypeStep, WatchInit, WatchStep, PTL DEF Spec
=============================================================================
