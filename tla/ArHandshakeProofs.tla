-------------------------- MODULE ArHandshakeProofs --------------------------
(***************************************************************************)
(* Theorems about ArHandshake for any number of ARs and faults, checked by *)
(* TLAPS: its types, that both sides agree on the AR, and that an attempt  *)
(* that nothing disturbs cannot fail, whatever earlier ones have left.     *)
(***************************************************************************)
EXTENDS ArHandshake, SequenceTheorems, TLAPS

\* Inside a call, and between PN_Connect and PN_Disconnect, there is an AR.
Begun == conn # "down" => ar \in ARs

TypeInv == TypeOK /\ Begun

LEMMA TypeInit == Init => TypeInv
<1> SUFFICES ASSUME Init PROVE TypeInv
  OBVIOUS
<1>1. <<>> \in Seq(Request) /\ <<>> \in Seq(Answer)
  BY EmptySeq
<1>2. 0 \in 0 .. MaxAR /\ 0 \in 0 .. MaxFaults /\ 0 \in Nat
  BY HandshakeAssumption
<1> QED
  BY <1>1, <1>2 DEF Init, TypeInv, TypeOK, Begun

\* What is sent or answered keeps its channel typed.
LEMMA SendType ==
    ASSUME TypeInv, NEW op \in {"Connect", "Write", "DControl", "Release", "CControlRes"},
           NEW k \in ARs, Send(op, k)
    PROVE  requests' \in Seq(Request)
<1>1. [op |-> op, ar |-> k] \in Request
  BY DEF Request
<1> QED
  BY <1>1, AppendProperties DEF Send, TypeInv, TypeOK

LEMMA ReplyType ==
    ASSUME TypeInv, NEW k \in ARs,
           NEW op \in {"ConnectRes", "WriteRes", "DControlRes", "CControl", "ReleaseRes"},
           Reply(op, k)
    PROVE  answers' \in Seq(Answer)
<1>1. [op |-> op, to |-> k] \in Answer
  BY DEF Answer
<1> QED
  BY <1>1, AppendProperties DEF Reply, TypeInv, TypeOK

LEMMA TypeStep == TypeInv /\ [Next]_vars => TypeInv'
<1> SUFFICES ASSUME TypeInv, [Next]_vars PROVE TypeInv'
  OBVIOUS
<1> USE HandshakeAssumption
<1> USE DEF TypeInv, TypeOK, Begun, Waits, controller, dev, course
<1>a. requests # <<>> => Head(requests) \in Request /\ Tail(requests) \in Seq(Request)
  BY HeadTailProperties
<1>b. answers # <<>> => Tail(answers) \in Seq(Answer)
  BY HeadTailProperties
<1>c. Fault => faults' \in 0 .. MaxFaults /\ disturbed' \in BOOLEAN
  BY DEF Fault
<1>1. CASE UNCHANGED vars
  BY <1>1 DEF vars
<1>2. CASE Connect
  <2>1. ar' \in ARs
    BY <1>2 DEF Connect, ARs
  <2>2. requests' \in Seq(Request)
    BY <1>2, <2>1, SendType DEF Connect
  <2>3. faults' \in 0 .. MaxFaults /\ disturbed' \in BOOLEAN
    BY <1>2, <1>c DEF Connect, Answering
  <2> QED
    BY <1>2, <2>1, <2>2, <2>3 DEF Connect, ARs
<1>3. CASE Receive
  <2>1. ar \in ARs
    BY <1>3 DEF Receive, Arrived
  <2>2. requests' \in Seq(Request)
    BY <1>3, <2>1, SendType DEF Receive, Proceed, Return
  <2>3. answers' \in Seq(Answer)
    BY <1>3, <1>b DEF Receive, Arrived
  <2> QED
    BY <1>3, <2>1, <2>2, <2>3 DEF Receive, Proceed, Return
<1>4. CASE Expire
  <2>1. ar \in ARs
    BY <1>4 DEF Expire
  <2>2. requests' \in Seq(Request)
    BY <1>4, <2>1, SendType DEF Expire, Proceed, Return
  <2>3. faults' \in 0 .. MaxFaults /\ disturbed' \in BOOLEAN
    BY <1>4, <1>c DEF Expire
  <2> QED
    BY <1>4, <2>1, <2>2, <2>3 DEF Expire, Proceed, Return
<1>5. CASE Release
  <2>1. requests' \in Seq(Request)
    BY <1>5, SendType DEF Release, Proceed
  <2> QED
    BY <1>5, <2>1 DEF Release, Proceed
<1>6. CASE Serve
  <2> DEFINE m == Head(requests)
  <2>1. m \in Request /\ m.ar \in ARs /\ requests' \in Seq(Request)
    BY <1>6, <1>a DEF Serve, Request
  <2>2. m.ar \in 0 .. MaxAR
    BY <2>1 DEF ARs
  <2>3. CASE ServeConnect(m.ar)
    BY <1>6, <2>1, <2>2, <2>3, ReplyType DEF Serve, ServeConnect
  <2>4. CASE ServeWrite(m.ar)
    BY <1>6, <2>1, <2>4, ReplyType DEF Serve, ServeWrite
  <2>5. CASE ServeDControl(m.ar)
    <3>1. answers' \in Seq(Answer)
      <4>1. CASE ctrl_addr = 0
        BY <2>1, <2>5, <4>1, ReplyType DEF ServeDControl
      <4>2. CASE ctrl_addr # 0
        <5>1. <<[op |-> "DControlRes", to |-> m.ar],
                [op |-> "CControl", to |-> ctrl_addr]>> \in Seq(Answer)
          BY <2>1, <4>2 DEF Answer, ARs
        <5>2. answers' = answers \o <<[op |-> "DControlRes", to |-> m.ar],
                                      [op |-> "CControl", to |-> ctrl_addr]>>
          BY <2>5, <4>2 DEF ServeDControl
        <5> HIDE DEF m
        <5> QED
          BY <5>1, <5>2, ConcatProperties
      <4> QED
        BY <4>1, <4>2
    <3>2. tx' \in Nat
      BY <2>5 DEF ServeDControl
    <3>3. serving' = FALSE \/ serving' = serving
      BY <2>5 DEF ServeDControl
    <3> QED
      BY <1>6, <2>1, <2>5, <3>1, <3>2, <3>3 DEF Serve, ServeDControl
  <2>6. CASE ServeRelease(m.ar)
    BY <1>6, <2>1, <2>6, ReplyType DEF Serve, ServeRelease
  <2>7. CASE UNCHANGED <<answers, dev>>
    BY <1>6, <2>1, <2>7 DEF Serve
  <2> QED
    BY <1>6, <2>3, <2>4, <2>5, <2>6, <2>7 DEF Serve
<1>7. CASE Unreachable
  BY <1>7, <1>b DEF Unreachable
<1>8. CASE Lose
  BY <1>8, <1>a, <1>b, <1>c DEF Lose
<1>9. CASE Restart
  <2>1. requests' \in Seq(Request)
    BY <1>9, EmptySeq DEF Restart
  <2>2. faults' \in 0 .. MaxFaults /\ disturbed' \in BOOLEAN
    BY <1>9, <1>c DEF Restart
  <2>3. dar' \in 0 .. MaxAR /\ ctrl_addr' \in 0 .. MaxAR /\ tx' \in Nat
    BY <1>9 DEF Restart
  <2> QED
    BY <1>9, <2>1, <2>2, <2>3 DEF Restart
<1> HIDE DEF TypeInv, controller, dev, course
<1> QED
  BY <1>1, <1>2, <1>3, <1>4, <1>5, <1>6, <1>7, <1>8, <1>9 DEF Next

\* The variables keep their types, whatever is lost or late.
THEOREM TypeCorrect == Spec => []TypeOK
<1>1. TypeInv => TypeOK
  BY DEF TypeInv
<1> QED
  BY TypeInit, TypeStep, <1>1, PTL DEF Spec

-----------------------------------------------------------------------------
(* Agreement.  The requests in flight are in the order of their ARs, and   *)
(* the ConnectRequest is the first of its AR: a device that is in the      *)
(* latest AR has nothing older before it, so its ApplicationReady comes    *)
(* from a DControl of that AR, and only a Release or a restart ends it.    *)

Asked == 1 .. Len(requests)
Told  == 1 .. Len(answers)

\* Nothing in flight is from the future.
Past ==
    /\ \A i \in Asked : requests[i].ar <= ar
    /\ \A i \in Told : answers[i].to <= ar

Ordered ==
    \A i, j \in Asked : i < j =>
        /\ requests[i].ar <= requests[j].ar
        /\ requests[j].op = "Connect" => requests[i].ar < requests[j].ar

\* Every request in flight is of the latest AR, and none of them opens it.
OnlyOfThisAR == \A i \in Asked : requests[i].ar = ar /\ requests[i].op # "Connect"

DeviceFollows ==
    /\ dar <= ar
    /\ ctrl_addr = dar
    /\ dar = ar => OnlyOfThisAR
    /\ started \/ dstate = "cyclic" => tx > 0

\* The controller is inside PN_Connect, or has an AR.
Ongoing == conn \notin {"down", "release"}

\* The device has said ApplicationReady for the latest AR.
Confirmed ==
    \/ conn = "up"
    \/ \E i \in Told : answers[i].op = "CControl" /\ answers[i].to = ar

NotReleased == Ongoing => \A i \in Asked : requests[i].op = "Release" => requests[i].ar < ar

InAR == dar = 0 \/ (dar = ar /\ dstate = "cyclic")

AgreeInv ==
    /\ Past
    /\ Ordered
    /\ DeviceFollows
    /\ NotReleased
    /\ Ongoing /\ Confirmed => OnlyOfThisAR /\ InAR

LEMMA AgreeInit == Init => AgreeInv
BY DEF Init, AgreeInv, Past, Ordered, DeviceFollows, NotReleased, OnlyOfThisAR, Asked, Told,
       Ongoing, Confirmed

\* The two ways in which the requests in flight change.
LEMMA Sent ==
    ASSUME TypeInv, NEW op \in {"Connect", "Write", "DControl", "Release", "CControlRes"},
           NEW k \in ARs, Send(op, k)
    PROVE  /\ Asked' = 1 .. Len(requests) + 1
           /\ Len(requests) \in Nat
           /\ \A i \in Asked : requests'[i] = requests[i]
           /\ requests'[Len(requests) + 1] = [op |-> op, ar |-> k]
<1>1. [op |-> op, ar |-> k] \in Request
  BY DEF Request
<1>2. requests \in Seq(Request)
  BY DEF TypeInv, TypeOK
<1>3. Len(requests) \in Nat
  BY <1>2
<1> QED
  BY <1>1, <1>2, <1>3, AppendProperties DEF Send, Asked

LEMMA Served ==
    ASSUME TypeInv, requests # <<>>, requests' = Tail(requests)
    PROVE  /\ Head(requests) = requests[1]
           /\ Len(requests) \in Nat \ {0}
           /\ Asked' = 1 .. Len(requests) - 1
           /\ \A i \in Asked' : requests'[i] = requests[i + 1] /\ i + 1 \in Asked
<1>1. requests \in Seq(Request)
  BY DEF TypeInv, TypeOK
<1>2. Len(requests) \in Nat \ {0}
  BY <1>1, EmptySeq
<1>3. Len(requests') = Len(requests) - 1 /\ \A i \in Asked' : requests'[i] = requests[i + 1]
  BY <1>1, HeadTailProperties DEF Asked
<1> QED
  BY <1>1, <1>2, <1>3 DEF Asked

\* Taking an answer out of the channel confirms nothing new.
LEMMA Taken ==
    ASSUME TypeInv, answers # <<>>, answers' = Tail(answers)
    PROVE  /\ Head(answers) = answers[1]
           /\ 1 \in Told
           /\ \A i \in Told' : answers'[i] = answers[i + 1] /\ i + 1 \in Told
<1>1. answers \in Seq(Answer)
  BY DEF TypeInv, TypeOK
<1>2. Len(answers) \in Nat \ {0}
  BY <1>1, EmptySeq
<1>3. Len(answers') = Len(answers) - 1 /\ \A i \in Told' : answers'[i] = answers[i + 1]
  BY <1>1, HeadTailProperties DEF Told
<1> QED
  BY <1>1, <1>2, <1>3 DEF Told

\* An answer of the device is one more at the end of the channel.
LEMMA Replied ==
    ASSUME TypeInv, NEW k \in ARs,
           NEW op \in {"ConnectRes", "WriteRes", "DControlRes", "CControl", "ReleaseRes"},
           Reply(op, k)
    PROVE  \A i \in Told' :
               \/ i \in Told /\ answers'[i] = answers[i]
               \/ answers'[i] = [op |-> op, to |-> k]
<1>1. [op |-> op, to |-> k] \in Answer
  BY DEF Answer
<1>2. answers \in Seq(Answer)
  BY DEF TypeInv, TypeOK
<1>3. Len(answers) \in Nat
  BY <1>2
<1> QED
  BY <1>1, <1>2, <1>3, AppendProperties DEF Reply, Told

\* No answer is new.
AnswersKept == \A i \in Told' : \E j \in Told : answers'[i] = answers[j]

LEMMA TakenKept ==
    ASSUME TypeInv, answers # <<>>, answers' = Tail(answers)
    PROVE  AnswersKept
BY Taken DEF AnswersKept

\* The controller goes on with the next request of its AR.
LEMMA GoesOn ==
    ASSUME TypeInv, AgreeInv, ar \in ARs,
           NEW op \in {"Write", "DControl", "CControlRes", "Release"}, Send(op, ar),
           ar' = ar, UNCHANGED dev, AnswersKept,
           Ongoing' => Ongoing, Ongoing' /\ Confirmed' => Confirmed,
           op = "Release" => ~Ongoing'
    PROVE  AgreeInv'
<1> USE DEF Asked
<1>1. /\ Asked' = 1 .. Len(requests) + 1
      /\ Len(requests) \in Nat
      /\ \A i \in Asked : requests'[i] = requests[i]
      /\ requests'[Len(requests) + 1] = [op |-> op, ar |-> ar]
  BY Sent
<1>2. \A i \in Asked' : \/ i \in Asked /\ requests'[i] = requests[i]
                        \/ i = Len(requests) + 1 /\ requests'[i] = [op |-> op, ar |-> ar]
  BY <1>1
<1>3. ar \in Nat
  BY HandshakeAssumption DEF ARs
<1>4. Past'
  BY <1>2, <1>3 DEF AgreeInv, Past, AnswersKept
<1>5. Ordered'
  BY <1>1, <1>2, <1>3 DEF AgreeInv, Past, Ordered
<1>6. OnlyOfThisAR => OnlyOfThisAR'
  BY <1>2 DEF OnlyOfThisAR
<1>7. DeviceFollows'
  BY <1>6 DEF AgreeInv, DeviceFollows, dev
<1>8. NotReleased'
  BY <1>2 DEF AgreeInv, NotReleased
<1> QED
  BY <1>4, <1>5, <1>6, <1>7, <1>8 DEF AgreeInv, InAR, dev

\* The controller sends nothing.
LEMMA StaysQuiet ==
    ASSUME TypeInv, AgreeInv, UNCHANGED requests, ar' = ar, AnswersKept,
           UNCHANGED <<dstate, dar, ctrl_addr, started, tx>>,
           Ongoing' => Ongoing, Ongoing' /\ Confirmed' => Confirmed
    PROVE  AgreeInv'
<1>1. Past' /\ Ordered' /\ NotReleased' /\ OnlyOfThisAR' = OnlyOfThisAR
  BY DEF AgreeInv, Past, Ordered, NotReleased, OnlyOfThisAR, AnswersKept, Asked
<1>2. DeviceFollows'
  BY <1>1 DEF AgreeInv, DeviceFollows
<1> QED
  BY <1>1, <1>2 DEF AgreeInv, InAR

\* A request leaves the channel, served or lost.
LEMMA Leaves ==
    ASSUME TypeInv, AgreeInv, requests # <<>>, requests' = Tail(requests), UNCHANGED controller
    PROVE  /\ \A i \in Asked' : requests'[i].ar <= ar'
           /\ Ordered'
           /\ NotReleased'
           /\ OnlyOfThisAR => OnlyOfThisAR'
<1>1. \A i \in Asked' : requests'[i] = requests[i + 1] /\ i + 1 \in Asked
  BY Served
<1>2. Asked' \subseteq Int
  BY Served DEF Asked
<1>3. \A i \in Asked' : requests'[i].ar <= ar'
  BY <1>1 DEF AgreeInv, Past, controller
<1>4. Ordered'
  <2> SUFFICES ASSUME NEW i \in Asked', NEW j \in Asked', i < j
               PROVE  /\ requests'[i].ar <= requests'[j].ar
                      /\ requests'[j].op = "Connect" => requests'[i].ar < requests'[j].ar
    BY DEF Ordered
  <2>1. i + 1 < j + 1
    BY <1>2
  <2> QED
    BY <1>1, <2>1 DEF AgreeInv, Ordered
<1>5. NotReleased'
  BY <1>1 DEF AgreeInv, NotReleased, Ongoing, controller
<1>6. OnlyOfThisAR => OnlyOfThisAR'
  BY <1>1 DEF OnlyOfThisAR, controller
<1> QED
  BY <1>3, <1>4, <1>5, <1>6

\* The numbers in the channels are numbers.
LEMMA Numbers ==
    ASSUME TypeInv
    PROVE  /\ \A i \in Asked : requests[i].ar \in Nat
           /\ \A i \in Told : answers[i].to \in Nat
<1>1. \A i \in Asked : requests[i] \in Request
  BY ElementOfSeq DEF TypeInv, TypeOK, Asked
<1>2. \A i \in Told : answers[i] \in Answer
  BY ElementOfSeq DEF TypeInv, TypeOK, Told
<1>3. ARs \subseteq Nat
  BY DEF ARs
<1> QED
  BY <1>1, <1>2, <1>3 DEF Request, Answer

LEMMA ConnectAgrees == TypeInv /\ AgreeInv /\ Connect => AgreeInv'
<1> SUFFICES ASSUME TypeInv, AgreeInv, Connect PROVE AgreeInv'
  OBVIOUS
<1>1. ar \in Nat /\ dar \in Nat /\ ar + 1 \in ARs /\ ar' = ar + 1
  BY HandshakeAssumption DEF Connect, TypeInv, TypeOK, ARs
<1>2. UNCHANGED <<answers, dev>> /\ conn = "down"
  BY DEF Connect
<1>3. ~Confirmed' \/ ~Ongoing'
  <2>1. ~\E i \in Told' : answers'[i].op = "CControl" /\ answers'[i].to = ar'
    BY <1>1, <1>2, Numbers DEF AgreeInv, Past, Told
  <2> QED
    BY <2>1 DEF Connect, Confirmed
<1>4. CASE Send("Connect", ar + 1)
  <2> USE DEF Asked
  <2>1. /\ Asked' = 1 .. Len(requests) + 1
        /\ Len(requests) \in Nat
        /\ \A i \in Asked : requests'[i] = requests[i]
        /\ requests'[Len(requests) + 1] = [op |-> "Connect", ar |-> ar + 1]
    BY <1>1, <1>4, Sent
  <2>2. \A i \in Asked' :
            \/ i \in Asked /\ requests'[i] = requests[i]
            \/ i = Len(requests) + 1 /\ requests'[i] = [op |-> "Connect", ar |-> ar + 1]
    BY <2>1
  <2>3. \A i \in Asked : requests[i].ar \in Nat /\ requests[i].ar <= ar
    BY Numbers DEF AgreeInv, Past
  <2>4. \A i \in Told : answers[i].to \in Nat /\ answers[i].to <= ar
    BY Numbers DEF AgreeInv, Past
  <2>5. Past'
    BY <1>1, <1>2, <2>2, <2>3, <2>4 DEF Past, Told
  <2>6. Ordered'
    BY <1>1, <2>1, <2>2, <2>3 DEF AgreeInv, Ordered
  <2>7. DeviceFollows'
    BY <1>1, <1>2 DEF AgreeInv, DeviceFollows, dev
  <2>8. NotReleased'
    BY <1>1, <2>2, <2>3 DEF NotReleased
  <2> QED
    BY <1>3, <2>5, <2>6, <2>7, <2>8 DEF AgreeInv
<1>5. CASE UNCHANGED <<conn, requests>>
  <2>1. Past'
    BY <1>1, <1>2, <1>5, Numbers DEF AgreeInv, Past, Asked, Told
  <2>2. Ordered'
    BY <1>5 DEF AgreeInv, Ordered, Asked
  <2>3. DeviceFollows'
    BY <1>1, <1>2 DEF AgreeInv, DeviceFollows, dev
  <2> QED
    BY <1>2, <1>3, <1>5, <2>1, <2>2, <2>3 DEF AgreeInv, NotReleased, Ongoing
<1> QED
  BY <1>4, <1>5 DEF Connect

LEMMA ReceiveAgrees == TypeInv /\ AgreeInv /\ Receive => AgreeInv'
<1> SUFFICES ASSUME TypeInv, AgreeInv, Receive PROVE AgreeInv'
  OBVIOUS
<1>1. /\ answers # <<>> /\ answers' = Tail(answers)
      /\ conn # "down" /\ ar \in ARs /\ ar' = ar
      /\ UNCHANGED dev
  BY DEF Receive, Arrived, TypeInv, Begun
<1>2. AnswersKept
  BY <1>1, TakenKept
<1>3. Head(answers) = answers[1] /\ 1 \in Told /\ Head(answers).to = ar
  BY <1>1, Taken DEF Receive, Arrived
<1>4. conn' # "up" /\ Confirmed' => Confirmed
  BY <1>1, <1>2 DEF Confirmed, AnswersKept
<1>5. CASE conn = "connect" /\ Proceed("write", "Write")
  BY <1>1, <1>2, <1>4, <1>5, GoesOn DEF Proceed, Ongoing
<1>6. CASE conn = "write" /\ Proceed("ready", "DControl")
  BY <1>1, <1>2, <1>4, <1>6, GoesOn DEF Proceed, Ongoing
<1>7. CASE conn = "ready" /\ Head(answers).op = "CControl" /\ Proceed("up", "CControlRes")
  <2>1. Confirmed
    BY <1>3, <1>7 DEF Confirmed
  <2> QED
    BY <1>1, <1>2, <1>7, <2>1, GoesOn DEF Proceed, Ongoing
<1>8. CASE conn = "ready" /\ UNCHANGED <<conn, requests>>
  BY <1>1, <1>2, <1>4, <1>8, StaysQuiet DEF Ongoing, dev
<1>9. CASE conn = "release" /\ Return
  BY <1>1, <1>2, <1>4, <1>9, StaysQuiet DEF Return, Ongoing, dev
<1> QED
  BY <1>5, <1>6, <1>7, <1>8, <1>9 DEF Receive

LEMMA ExpireAgrees == TypeInv /\ AgreeInv /\ Expire => AgreeInv'
<1> SUFFICES ASSUME TypeInv, AgreeInv, Expire PROVE AgreeInv'
  OBVIOUS
<1>1. conn # "down" /\ ar \in ARs /\ ar' = ar /\ UNCHANGED <<answers, dev>>
  BY DEF Expire, TypeInv, Begun
<1>2. AnswersKept
  BY <1>1 DEF AnswersKept, Told
<1>3. conn' # "up" /\ Confirmed' => Confirmed
  BY <1>1, <1>2 DEF Confirmed, AnswersKept
<1>4. CASE Return
  BY <1>1, <1>2, <1>3, <1>4, StaysQuiet DEF Return, Ongoing, dev
<1>5. CASE conn = "write" /\ Proceed("ready", "DControl")
  BY <1>1, <1>2, <1>3, <1>5, GoesOn DEF Proceed, Ongoing
<1> QED
  BY <1>4, <1>5 DEF Expire

LEMMA ReleaseAgrees == TypeInv /\ AgreeInv /\ Release => AgreeInv'
<1> SUFFICES ASSUME TypeInv, AgreeInv, Release PROVE AgreeInv'
  OBVIOUS
<1>1. ar \in ARs /\ ar' = ar /\ UNCHANGED <<answers, dev>> /\ Proceed("release", "Release")
  BY DEF Release, TypeInv, Begun
<1>2. AnswersKept
  BY <1>1 DEF AnswersKept, Told
<1> QED
  BY <1>1, <1>2, GoesOn DEF Proceed, Ongoing

\* The device takes the next request: what holds of every request.
LEMMA ServeAgrees == TypeInv /\ AgreeInv /\ Serve => AgreeInv'
<1> SUFFICES ASSUME TypeInv, AgreeInv, Serve PROVE AgreeInv'
  OBVIOUS
<1> DEFINE m == Head(requests)
<1>1. /\ requests # <<>> /\ requests' = Tail(requests)
      /\ UNCHANGED controller /\ conn' = conn /\ ar' = ar
  BY DEF Serve, controller
<1>2. m = requests[1] /\ 1 \in Asked /\ m \in Request
  <2>1. m = requests[1] /\ Len(requests) \in Nat \ {0}
    BY <1>1, Served
  <2> QED
    BY <1>1, <2>1, HeadTailProperties DEF TypeInv, TypeOK, Asked
<1>3. m.ar \in ARs /\ m.ar \in Nat /\ m.ar <= ar
  BY <1>2 DEF Request, ARs, AgreeInv, Past
<1>4. /\ \A i \in Asked' : requests'[i].ar <= ar'
      /\ Ordered' /\ NotReleased' /\ (OnlyOfThisAR => OnlyOfThisAR')
  BY <1>1, Leaves
<1>5. ASSUME NEW k \in ARs, k <= ar,
             NEW op \in {"ConnectRes", "WriteRes", "DControlRes", "ReleaseRes"}, Reply(op, k)
      PROVE  /\ \A i \in Told' : answers'[i].to <= ar'
             /\ Confirmed' => Confirmed
  <2>1. \A i \in Told' : \/ i \in Told /\ answers'[i] = answers[i]
                         \/ answers'[i] = [op |-> op, to |-> k]
    <3>1. op \in {"ConnectRes", "WriteRes", "DControlRes", "CControl", "ReleaseRes"}
      BY <1>5
    <3> QED
      BY <1>5, <3>1, Replied
  <2>2. [op |-> op, to |-> k].to = k /\ [op |-> op, to |-> k].op # "CControl"
    OBVIOUS
  <2>3. \A i \in Told' : answers'[i].to <= ar'
    BY <1>1, <1>5, <2>1, <2>2 DEF AgreeInv, Past
  <2>4. ASSUME NEW i \in Told', answers'[i].op = "CControl", answers'[i].to = ar'
        PROVE  Confirmed
    BY <1>1, <2>1, <2>2, <2>4 DEF Confirmed
  <2> QED
    BY <1>1, <2>3, <2>4 DEF Confirmed
<1>6. CASE m.op = "Connect" /\ ServeConnect(m.ar)
  <2>1. /\ \A i \in Told' : answers'[i].to <= ar'
        /\ Confirmed' => Confirmed
    BY <1>3, <1>5, <1>6 DEF ServeConnect
  <2>2. m.ar = ar => OnlyOfThisAR'
    <3> SUFFICES ASSUME m.ar = ar, NEW i \in Asked'
                 PROVE  requests'[i].ar = ar' /\ requests'[i].op # "Connect"
      BY DEF OnlyOfThisAR
    <3>1. i + 1 \in Asked /\ 1 < i + 1 /\ requests'[i] = requests[i + 1]
      BY <1>1, Served DEF Asked
    <3>2. /\ requests[1].ar <= requests[i + 1].ar
          /\ requests[i + 1].op = "Connect" => requests[1].ar < requests[i + 1].ar
      BY <1>2, <3>1 DEF AgreeInv, Ordered
    <3>3. requests[i + 1].ar \in Nat /\ requests[i + 1].ar <= ar /\ ar \in Nat
      BY <3>1, Numbers DEF AgreeInv, Past, TypeInv, TypeOK
    <3>4. requests[1].ar = ar
      BY <1>2
    <3>5. requests[i + 1].ar = ar /\ requests[i + 1].op # "Connect"
      BY <3>2, <3>3, <3>4
    <3> QED
      BY <1>1, <3>1, <3>5
  <2>3. DeviceFollows'
    BY <1>1, <1>3, <1>6, <2>2 DEF AgreeInv, DeviceFollows, ServeConnect
  <2>4. ~(Ongoing /\ Confirmed)
    BY <1>2, <1>6 DEF AgreeInv, OnlyOfThisAR
  <2> QED
    BY <1>1, <1>4, <2>1, <2>3, <2>4 DEF AgreeInv, Past, Ongoing
<1>7. CASE m.op = "Write" /\ ServeWrite(m.ar)
  <2>1. /\ \A i \in Told' : answers'[i].to <= ar'
        /\ Confirmed' => Confirmed
    BY <1>3, <1>5, <1>7 DEF ServeWrite
  <2>2. DeviceFollows'
    BY <1>1, <1>4, <1>7 DEF AgreeInv, DeviceFollows, ServeWrite, dev
  <2> QED
    BY <1>1, <1>4, <1>7, <2>1, <2>2 DEF AgreeInv, Past, Ongoing, InAR, ServeWrite, dev
<1>8. CASE m.op = "Release" /\ ServeRelease(m.ar)
  <2>1. /\ \A i \in Told' : answers'[i].to <= ar'
        /\ Confirmed' => Confirmed
    BY <1>3, <1>5, <1>8 DEF ServeRelease
  <2>2. DeviceFollows'
    BY <1>1, <1>4, <1>8 DEF AgreeInv, DeviceFollows, ServeRelease
  <2>3. ~(Ongoing /\ Confirmed)
    BY <1>2, <1>3, <1>8 DEF AgreeInv, OnlyOfThisAR, NotReleased
  <2> QED
    BY <1>1, <1>4, <2>1, <2>2, <2>3 DEF AgreeInv, Past, Ongoing
<1>9. CASE m.op = "CControlRes" /\ UNCHANGED <<answers, dev>>
  <2>1. DeviceFollows'
    BY <1>1, <1>4, <1>9 DEF AgreeInv, DeviceFollows, dev
  <2>2. Confirmed' => Confirmed
    BY <1>1, <1>9 DEF Confirmed, Told
  <2> QED
    BY <1>1, <1>4, <1>9, <2>1, <2>2 DEF AgreeInv, Past, Ongoing, InAR, dev, Told
<1>10. CASE m.op = "DControl" /\ ServeDControl(m.ar)
  <2>1. \A i \in Told' :
            \/ i \in Told /\ answers'[i] = answers[i]
            \/ answers'[i] = [op |-> "DControlRes", to |-> m.ar]
            \/ ctrl_addr # 0 /\ answers'[i] = [op |-> "CControl", to |-> ctrl_addr]
    <3>1. CASE ctrl_addr = 0
      BY <1>3, <1>10, <3>1, Replied DEF ServeDControl
    <3>2. CASE ctrl_addr # 0
      <4> DEFINE two == <<[op |-> "DControlRes", to |-> m.ar],
                          [op |-> "CControl", to |-> ctrl_addr]>>
      <4>1. answers' = answers \o two
        BY <1>10, <3>2 DEF ServeDControl
      <4>2. /\ two \in Seq(Answer) /\ Len(two) = 2
            /\ two[1] = [op |-> "DControlRes", to |-> m.ar]
            /\ two[2] = [op |-> "CControl", to |-> ctrl_addr]
        BY <1>3, <3>2 DEF Answer, ARs, TypeInv, TypeOK
      <4>3. answers \in Seq(Answer) /\ Len(answers) \in Nat
        BY DEF TypeInv, TypeOK
      <4> HIDE DEF two
      <4>4. /\ Len(answers \o two) = Len(answers) + Len(two)
            /\ \A i \in 1 .. Len(answers) + Len(two) : (answers \o two)[i] =
                   IF i <= Len(answers) THEN answers[i] ELSE two[i - Len(answers)]
        BY <4>2, <4>3, ConcatProperties
      <4>5. Told' = 1 .. Len(answers) + 2
        BY <4>1, <4>2, <4>4 DEF Told
      <4>6. ASSUME NEW i \in Told'
            PROVE  i \in Told \/ i = Len(answers) + 1 \/ i = Len(answers) + 2
        BY <4>3, <4>5 DEF Told
      <4>7. ASSUME NEW i \in Told, i \in Told' PROVE answers'[i] = answers[i]
        BY <4>1, <4>2, <4>3, <4>4, <4>5, <4>7 DEF Told
      <4>8. answers'[Len(answers) + 1] = two[1] /\ answers'[Len(answers) + 2] = two[2]
        BY <4>1, <4>2, <4>3, <4>4, <4>5
      <4> QED
        BY <3>2, <4>2, <4>6, <4>7, <4>8
    <3> QED
      BY <3>1, <3>2
  <2>2. \A i \in Told' : answers'[i].to <= ar'
    BY <1>1, <1>3, <2>1 DEF AgreeInv, Past, DeviceFollows
  <2>3. DeviceFollows'
    <3>1. tx' > 0
      BY <1>10 DEF ServeDControl, AgreeInv, DeviceFollows, TypeInv, TypeOK
    <3> QED
      BY <1>1, <1>4, <1>10, <3>1 DEF AgreeInv, DeviceFollows, ServeDControl
  <2>4. ASSUME Ongoing, Confirmed' PROVE OnlyOfThisAR' /\ InAR'
    <3>1. CASE Confirmed
      BY <1>1, <1>4, <1>10, <2>4, <3>1 DEF AgreeInv, InAR, ServeDControl
    <3>2. CASE ~Confirmed
      <4>1. PICK i \in Told' : answers'[i].op = "CControl" /\ answers'[i].to = ar'
        BY <1>1, <2>4, <3>2 DEF Confirmed
      <4>2. ~(i \in Told /\ answers'[i] = answers[i])
        BY <1>1, <3>2, <4>1 DEF Confirmed
      <4>3. ctrl_addr = ar
        BY <1>1, <2>1, <4>1, <4>2
      <4> QED
        BY <1>1, <1>4, <1>10, <4>3 DEF AgreeInv, DeviceFollows, InAR, ServeDControl
    <3> QED
      BY <3>1, <3>2
  <2> QED
    BY <1>1, <1>4, <2>2, <2>3, <2>4 DEF AgreeInv, Past, Ongoing
<1> QED
  BY <1>6, <1>7, <1>8, <1>9, <1>10 DEF Serve

LEMMA UnreachableAgrees == TypeInv /\ AgreeInv /\ Unreachable => AgreeInv'
<1> SUFFICES ASSUME TypeInv, AgreeInv, Unreachable PROVE AgreeInv'
  OBVIOUS
<1>1. /\ answers # <<>> /\ answers' = Tail(answers)
      /\ UNCHANGED <<requests, dstate, dar, ctrl_addr, started, tx>>
      /\ conn' = conn /\ ar' = ar
  BY DEF Unreachable, controller
<1>2. AnswersKept
  BY <1>1, TakenKept
<1>3. Confirmed' => Confirmed
  BY <1>1, <1>2 DEF Confirmed, AnswersKept
<1> QED
  BY <1>1, <1>2, <1>3, StaysQuiet DEF Ongoing

LEMMA LoseAgrees == TypeInv /\ AgreeInv /\ Lose => AgreeInv'
<1> SUFFICES ASSUME TypeInv, AgreeInv, Lose PROVE AgreeInv'
  OBVIOUS
<1>1. UNCHANGED <<controller, dev>> /\ conn' = conn /\ ar' = ar
  BY DEF Lose, controller
<1>2. CASE requests # <<>> /\ requests' = Tail(requests) /\ UNCHANGED answers
  <2>1. /\ \A i \in Asked' : requests'[i].ar <= ar'
        /\ Ordered' /\ NotReleased' /\ (OnlyOfThisAR => OnlyOfThisAR')
    BY <1>1, <1>2, Leaves
  <2>2. DeviceFollows'
    BY <1>1, <2>1 DEF AgreeInv, DeviceFollows, dev
  <2>3. Confirmed' => Confirmed
    BY <1>1, <1>2 DEF Confirmed, Told
  <2> QED
    BY <1>1, <1>2, <2>1, <2>2, <2>3 DEF AgreeInv, Past, Ongoing, InAR, dev, Told
<1>3. CASE answers # <<>> /\ answers' = Tail(answers) /\ UNCHANGED requests
  <2>1. AnswersKept
    BY <1>3, TakenKept
  <2>2. Confirmed' => Confirmed
    BY <1>1, <2>1 DEF Confirmed, AnswersKept
  <2> QED
    BY <1>1, <1>3, <2>1, <2>2, StaysQuiet DEF Ongoing, dev
<1> QED
  BY <1>2, <1>3 DEF Lose

\* A restarted device is in no AR, and nothing that waited for it is left.
LEMMA RestartAgrees == TypeInv /\ AgreeInv /\ Restart => AgreeInv'
<1> SUFFICES ASSUME TypeInv, AgreeInv, Restart PROVE AgreeInv'
  OBVIOUS
<1>1. /\ requests' = <<>> /\ dar' = 0 /\ ctrl_addr' = 0 /\ ~started' /\ dstate' = "listening"
      /\ UNCHANGED answers /\ conn' = conn /\ ar' = ar
  BY DEF Restart, controller
<1>2. Asked' = {}
  BY <1>1 DEF Asked
<1>3. ar \in Nat
  BY HandshakeAssumption DEF TypeInv, TypeOK
<1> QED
  BY <1>1, <1>2, <1>3 DEF AgreeInv, Past, Ordered, DeviceFollows, NotReleased, OnlyOfThisAR,
                          InAR, Told

LEMMA AgreeStep == TypeInv /\ AgreeInv /\ [Next]_vars => AgreeInv'
<1> SUFFICES ASSUME TypeInv, AgreeInv, [Next]_vars PROVE AgreeInv'
  OBVIOUS
<1>1. CASE UNCHANGED vars
  <2>1. AnswersKept /\ (Confirmed' => Confirmed)
    BY <1>1 DEF vars, controller, AnswersKept, Confirmed, Told
  <2> QED
    BY <1>1, <2>1, StaysQuiet DEF vars, controller, dev, Ongoing
<1> QED
  BY <1>1, ConnectAgrees, ReceiveAgrees, ExpireAgrees, ReleaseAgrees, ServeAgrees,
     UnreachableAgrees, LoseAgrees, RestartAgrees DEF Next

\* However many attempts are given up and whatever is lost, late or restarted: when
\* PN_Connect returns PN_OK the device is in that AR, unless it has been restarted.
THEOREM BothSidesAgree == Spec => []Agreement
<1>1. TypeInv /\ AgreeInv => Agreement
  BY DEF AgreeInv, DeviceFollows, Ongoing, Confirmed, InAR, Agreement
<1> QED
  BY TypeInit, TypeStep, AgreeInit, AgreeStep, <1>1, PTL DEF Spec

-----------------------------------------------------------------------------
(* As long as nothing goes wrong, one thing is under way at a time: the     *)
(* request of the stage the controller is in, or its answer.  What earlier  *)
(* attempts have left is in front of the ConnectRequest and its answer, so  *)
(* it is gone when the controller takes that.  Only the CControl response,  *)
(* which nobody answers, can be overtaken by a Release.                     *)

Asks(op) == [op |-> op, ar |-> ar]
Tells(op) == [op |-> op, to |-> ar]

\* A request is on its way and nothing else, or these answers are.
UnderWay(op, news) ==
    \/ requests = <<Asks(op)>> /\ answers = <<>>
    \/ requests = <<>> /\ answers = news

Between ==
    /\ conn = "down"
    /\ requests = <<>> /\ answers = <<>>
    /\ dstate = "listening"

\* Serving what earlier attempts have left will not end the RPC thread.
Harmless == ctrl_addr = 0 => \A i \in Asked : requests[i].op # "DControl"

\* The ConnectRequest is the last of the requests; what is answered before it is older.
Pending ==
    /\ requests # <<>> /\ requests[Len(requests)] = Asks("Connect")
    /\ Harmless
    /\ \A i \in Told : answers[i].to < ar

\* Its answer is the last of the answers.
Accepted ==
    /\ requests = <<>> /\ ctrl_addr = ar
    /\ answers # <<>> /\ answers[Len(answers)] = Tells("ConnectRes")
    /\ \A i \in 1 .. Len(answers) - 1 : answers[i].to < ar

Connecting == conn = "connect" /\ (Pending \/ Accepted)

Writing ==
    /\ conn = "write"
    /\ UnderWay("Write", <<Tells("WriteRes")>>)
    /\ ctrl_addr = ar

Readying ==
    /\ conn = "ready"
    /\ \/ UnderWay("DControl", <<Tells("DControlRes"), Tells("CControl")>>)
       \/ requests = <<>> /\ answers = <<Tells("CControl")>>
    /\ ctrl_addr = ar

Established ==
    /\ conn = "up"
    /\ requests \in {<<>>, <<Asks("CControlRes")>>}
    /\ answers = <<>>

Releasing ==
    /\ conn = "release"
    /\ \/ requests = <<Asks("CControlRes"), Asks("Release")>> /\ answers = <<>>
       \/ UnderWay("Release", <<Tells("ReleaseRes")>>)
    /\ requests = <<>> => dstate = "listening"

OneAtATime ==
    \/ Between \/ Connecting \/ Writing \/ Readying \/ Established \/ Releasing

UndisturbedInv == ~disturbed => serving /\ OneAtATime

\* Short sequences.
LEMMA Shorts ==
    ASSUME NEW a, NEW b
    PROVE  /\ <<a>> # <<>> /\ <<a, b>> # <<>>
           /\ Head(<<a>>) = a /\ Tail(<<a>>) = <<>>
           /\ Head(<<a, b>>) = a /\ Tail(<<a, b>>) = <<b>>
           /\ Append(<<>>, a) = <<a>> /\ Append(<<a>>, b) = <<a, b>>
           /\ <<>> \o <<a, b>> = <<a, b>>
<1>1. <<a>> # <<>> /\ <<a, b>> # <<>>
  OBVIOUS
<1>2. Head(<<a>>) = a /\ Head(<<a, b>>) = a
  OBVIOUS
<1>3. Tail(<<a>>) = <<>>
  OBVIOUS
<1>4. Tail(<<a, b>>) = <<b>>
  OBVIOUS
<1>5. Append(<<>>, a) = <<a>>
  OBVIOUS
<1>6. Append(<<a>>, b) = <<a, b>>
  <2>1. /\ Append(<<a>>, b) \in Seq({a, b}) /\ <<a, b>> \in Seq({a, b})
        /\ Len(Append(<<a>>, b)) = 2 /\ Len(<<a, b>>) = 2
        /\ Append(<<a>>, b)[1] = a /\ Append(<<a>>, b)[2] = b
    OBVIOUS
  <2>2. <<a, b>>[1] = a /\ <<a, b>>[2] = b
    OBVIOUS
  <2>3. \A i \in 1 .. 2 : i = 1 \/ i = 2
    OBVIOUS
  <2> QED
    BY <2>1, <2>2, <2>3, SeqEqual
<1>7. <<>> \o <<a, b>> = <<a, b>>
  <2>1. <<a, b>> \in Seq({a, b})
    OBVIOUS
  <2> QED
    BY <2>1, ConcatEmptySeq
<1> QED
  BY <1>1, <1>2, <1>3, <1>4, <1>5, <1>6, <1>7

LEMMA UndisturbedInit == Init => UndisturbedInv
  BY DEF Init, UndisturbedInv, OneAtATime, Between

\* The controller.
LEMMA ConnectUndisturbed ==
    ASSUME TypeInv, AgreeInv, Connect, ~disturbed'
    PROVE  serving' /\ Connecting'
<1>1. /\ conn' = "connect" /\ ar' = ar + 1 /\ Answering /\ Send("Connect", ar + 1)
      /\ UNCHANGED <<answers, dev>>
  BY DEF Connect, Fault
<1>2. ar \in Nat /\ ar + 1 \in ARs
  BY HandshakeAssumption DEF TypeInv, TypeOK, ARs, Connect
<1>3. /\ Asked' = 1 .. Len(requests) + 1 /\ Len(requests) \in Nat
      /\ \A i \in Asked : requests'[i] = requests[i]
      /\ requests'[Len(requests) + 1] = [op |-> "Connect", ar |-> ar + 1]
  BY <1>1, <1>2, Sent
<1>4. Len(requests') = Len(requests) + 1 /\ requests' # <<>>
  <2>1. requests \in Seq(Request) /\ [op |-> "Connect", ar |-> ar + 1] \in Request
    BY <1>2 DEF TypeInv, TypeOK, Request
  <2>2. requests' \in Seq(Request) /\ Len(requests') = Len(requests) + 1
    BY <1>1, <2>1, AppendProperties DEF Send
  <2> QED
    BY <1>3, <2>2, EmptySeq
<1>5. Harmless'
  <2>1. DOMAIN requests = Asked
    BY DEF TypeInv, TypeOK, Asked
  <2>2. ctrl_addr = 0 => \A i \in Asked : requests[i].op # "DControl"
    BY <1>1, <2>1 DEF Answering
  <2>3. \A i \in Asked' : i \in Asked \/ i = Len(requests) + 1
    BY <1>3 DEF Asked
  <2> QED
    BY <1>1, <1>3, <2>2, <2>3 DEF Harmless, dev
<1>6. \A i \in Told : answers[i].to < ar + 1
  <2>1. \A i \in Told : answers[i] \in Answer
    BY DEF TypeInv, TypeOK, Told
  <2>2. \A a \in Answer : a.to \in Nat
    BY HandshakeAssumption DEF Answer, ARs
  <2>3. \A i \in Told : answers[i].to <= ar
    BY DEF AgreeInv, Past
  <2>4. \A k \in Nat : k <= ar => k < ar + 1
    BY <1>2
  <2> QED
    BY <2>1, <2>2, <2>3, <2>4
<1>7. Pending'
  BY <1>1, <1>3, <1>4, <1>5, <1>6 DEF Pending, Asks, Told
<1> QED
  BY <1>1, <1>7 DEF Connecting, Answering, dev

\* Of the answers only the last can be for the socket that is open.
LEMMA AcceptedAlone ==
    ASSUME TypeInv, Accepted
    PROVE  /\ Len(answers) \in Nat \ {0} /\ Len(answers) \in Told
           /\ Head(answers) = answers[1] /\ ar \in Nat
           /\ Head(answers).to = ar => answers = <<Tells("ConnectRes")>>
<1>1. answers \in Seq(Answer) /\ answers # <<>> /\ ar \in Nat
  BY HandshakeAssumption DEF TypeInv, TypeOK, Accepted
<1>2. Len(answers) \in Nat \ {0} /\ Len(answers) \in Told /\ Head(answers) = answers[1]
  BY <1>1, EmptySeq, HeadTailProperties DEF Told
<1>3. ASSUME Head(answers).to = ar PROVE answers = <<Tells("ConnectRes")>>
  <2>1. Len(answers) = 1
    <3>1. answers[1].to = ar /\ ~(ar < ar)
      BY <1>1, <1>2, <1>3
    <3>2. 1 \notin 1 .. Len(answers) - 1
      BY <3>1 DEF Accepted
    <3>3. \A n \in Nat \ {0} : 1 \notin 1 .. n - 1 => n = 1
      OBVIOUS
    <3> QED
      BY <1>2, <3>2, <3>3
  <2>2. answers[1] = Tells("ConnectRes")
    BY <2>1 DEF Accepted
  <2> QED
    BY <1>1, <2>1, <2>2
<1> QED
  BY <1>1, <1>2, <1>3

\* What the controller goes on with is all there is, if nothing else was.
LEMMA AsksNext ==
    ASSUME NEW op, NEW to, requests = <<>>, Proceed(to, op), ar' = ar
    PROVE  conn' = to /\ requests' = <<Asks(op)>> /\ requests' # <<>>
<1>1. requests' = Append(<<>>, Asks(op))
  BY DEF Proceed, Send, Asks
<1> QED
  BY <1>1, Shorts DEF Proceed

LEMMA ReceiveUndisturbed ==
    ASSUME TypeInv, OneAtATime, Receive
    PROVE  OneAtATime' /\ (conn' = "down" => conn = "release")
<1>1. ar' = ar /\ UNCHANGED dev /\ answers' = Tail(answers) /\ answers # <<>> /\ conn # "down"
  BY DEF Receive, Arrived
<1>2. CASE Connecting
  <2>1. requests = <<>> /\ answers = <<Tells("ConnectRes")>> /\ conn = "connect" /\ ctrl_addr = ar
    <3>1. Head(answers).to = ar /\ Head(answers) = answers[1] /\ 1 \in Told
      BY <1>1, Taken DEF Receive, Arrived
    <3>2. ~Pending
      <4>1. ar \in Nat
        BY HandshakeAssumption DEF TypeInv, TypeOK
      <4> QED
        BY <3>1, <4>1 DEF Pending
    <3> QED
      BY <1>2, <3>1, <3>2, AcceptedAlone DEF Connecting, Accepted
  <2>2. Proceed("write", "Write") /\ answers' = <<>>
    BY <1>1, <2>1, Shorts DEF Receive
  <2>3. Writing'
    BY <1>1, <2>1, <2>2, AsksNext DEF Writing, UnderWay, Asks, dev
  <2> QED
    BY <2>2, <2>3 DEF OneAtATime, Proceed
<1>3. CASE Writing
  <2>1. requests = <<>> /\ answers = <<Tells("WriteRes")>> /\ conn = "write"
    BY <1>1, <1>3 DEF Writing, UnderWay
  <2>2. Proceed("ready", "DControl") /\ answers' = <<>>
    BY <1>1, <2>1, Shorts DEF Receive
  <2>3. Readying'
    BY <1>1, <1>3, <2>1, <2>2, AsksNext DEF Writing, Readying, UnderWay, Asks, dev
  <2> QED
    BY <2>2, <2>3 DEF OneAtATime, Proceed
<1>4. CASE Readying
  <2>1. requests = <<>> /\ conn = "ready"
    BY <1>1, <1>4 DEF Readying, UnderWay
  <2>2. CASE answers = <<Tells("DControlRes"), Tells("CControl")>>
    <3>1. Head(answers) = Tells("DControlRes") /\ answers' = <<Tells("CControl")>>
      BY <1>1, <2>2, Shorts
    <3>2. UNCHANGED <<conn, requests>>
      BY <2>1, <3>1 DEF Receive, Tells
    <3>3. Readying'
      BY <1>1, <1>4, <2>1, <3>1, <3>2 DEF Readying, Tells, dev
    <3> QED
      BY <2>1, <3>2, <3>3 DEF OneAtATime
  <2>3. CASE answers = <<Tells("CControl")>>
    <3>1. Head(answers) = Tells("CControl") /\ answers' = <<>>
      BY <1>1, <2>3, Shorts
    <3>2. Proceed("up", "CControlRes")
      BY <2>1, <3>1 DEF Receive, Tells
    <3>3. Established'
      BY <1>1, <2>1, <3>1, <3>2, AsksNext DEF Established, Asks
    <3> QED
      BY <3>2, <3>3 DEF OneAtATime, Proceed
  <2> QED
    BY <1>1, <1>4, <2>2, <2>3 DEF Readying, UnderWay
<1>5. CASE Releasing
  <2>1. /\ requests = <<>> /\ answers = <<Tells("ReleaseRes")>> /\ conn = "release"
        /\ dstate = "listening"
    BY <1>1, <1>5 DEF Releasing, UnderWay
  <2>2. Return /\ answers' = <<>>
    BY <1>1, <2>1, Shorts DEF Receive
  <2>3. Between'
    BY <1>1, <2>1, <2>2 DEF Return, Between, dev
  <2> QED
    BY <2>1, <2>3 DEF OneAtATime
<1> QED
  BY <1>1, <1>2, <1>3, <1>4, <1>5 DEF OneAtATime, Between, Established

\* In every wait something is coming, so no deadline passes.
LEMMA NoneExpires ==
    ASSUME TypeInv, serving, OneAtATime, Expire
    PROVE  disturbed'
<1>1. conn \in {"connect", "write", "ready", "release"}
  BY DEF Expire
<1>2. DOMAIN answers = Told /\ (answers # <<>> => 1 \in Told /\ Head(answers) = answers[1])
  BY EmptySeq, HeadTailProperties DEF TypeInv, TypeOK, Told
<1>3. Coming
  <2>1. CASE Connecting
    <3>1. Accepted => Len(answers) \in Told /\ answers[Len(answers)].to = ar
      BY AcceptedAlone DEF Accepted, Tells
    <3> QED
      BY <1>2, <2>1, <3>1 DEF Connecting, Pending, Coming
  <2>2. CASE Writing \/ Readying \/ Releasing
    <3>1. requests # <<>> \/ (answers # <<>> /\ Head(answers).to = ar)
      BY <2>2, Shorts DEF Writing, Readying, Releasing, UnderWay, Tells, Asks
    <3> QED
      BY <1>2, <3>1 DEF Coming
  <2> QED
    BY <1>1, <2>1, <2>2 DEF OneAtATime, Between, Established
<1> QED
  BY <1>3 DEF Expire, Fault

LEMMA ReleaseUndisturbed ==
    ASSUME OneAtATime, Release
    PROVE  Releasing'
<1>1. conn = "up" /\ ar' = ar /\ UNCHANGED <<answers, dev>> /\ conn' = "release"
  BY DEF Release, Proceed
<1>2. requests \in {<<>>, <<Asks("CControlRes")>>} /\ answers = <<>>
  BY <1>1 DEF OneAtATime, Between, Connecting, Writing, Readying, Established, Releasing
<1>3. requests' = Append(requests, Asks("Release"))
  BY DEF Release, Proceed, Send, Asks
<1>4. requests' \in {<<Asks("Release")>>, <<Asks("CControlRes"), Asks("Release")>>}
  <2>1. Append(<<>>, Asks("Release")) = <<Asks("Release")>>
    BY Shorts
  <2>2. Append(<<Asks("CControlRes")>>, Asks("Release"))
           = <<Asks("CControlRes"), Asks("Release")>>
    BY Shorts
  <2> QED
    BY <1>2, <1>3, <2>1, <2>2
<1>5. requests' # <<>>
  BY <1>4, Shorts
<1> QED
  BY <1>1, <1>2, <1>4, <1>5 DEF Releasing, UnderWay, Asks

LEMMA TwoMore ==
    ASSUME NEW S, NEW s \in Seq(S), NEW t \in Seq(S), Len(t) = 2
    PROVE  \A i \in 1 .. Len(s \o t) : \/ i \in 1 .. Len(s) /\ (s \o t)[i] = s[i]
                                       \/ i - Len(s) \in 1 .. 2 /\ (s \o t)[i] = t[i - Len(s)]
<1> DEFINE n == Len(s)
           st == s \o t
           Parts == \A i \in 1 .. Len(s) + Len(t) :
                      st[i] = IF i <= Len(s) THEN s[i] ELSE t[i - Len(s)]
<1>1. Len(st) = Len(s) + Len(t) /\ Parts
  BY ConcatProperties
<1>2. n \in Nat
  OBVIOUS
<1>3. Len(st) = n + 2 /\ \A i \in 1 .. n + 2 : st[i] = IF i <= n THEN s[i] ELSE t[i - n]
  <2> HIDE DEF st
  <2>1. Len(s) = n /\ Len(t) = 2
    OBVIOUS
  <2> HIDE DEF n
  <2> QED
    BY <1>1, <2>1 DEF Parts
<1> HIDE DEF n, st, Parts
<1>4. \A i \in 1 .. n + 2 : (i <= n => i \in 1 .. n) /\ (~(i <= n) => i - n \in 1 .. 2)
  BY <1>2
<1>5. \A i \in 1 .. Len(st) : (i \in 1 .. n /\ st[i] = s[i]) \/ (i - n \in 1 .. 2 /\ st[i] = t[i - n])
  BY <1>3, <1>4
<1> QED
  BY <1>5 DEF st, n

\* The device serves what is left of earlier attempts, and then the ConnectRequest.
LEMMA PendingServed ==
    ASSUME TypeInv, AgreeInv, serving, Pending, Serve
    PROVE  serving' /\ (Pending \/ Accepted)'
<1> DEFINE m == Head(requests)
           n == Len(requests)
<1>1. /\ ar' = ar /\ requests # <<>> /\ requests' = Tail(requests)
      /\ m.op = "Connect" => ServeConnect(m.ar)
      /\ m.op = "Write" => ServeWrite(m.ar)
      /\ m.op = "DControl" => ServeDControl(m.ar)
      /\ m.op = "Release" => ServeRelease(m.ar)
      /\ m.op = "CControlRes" => UNCHANGED <<answers, dev>>
  BY DEF Serve, controller
<1>2. /\ m = requests[1] /\ n \in Nat \ {0}
      /\ Asked' = 1 .. n - 1
      /\ \A i \in Asked' : requests'[i] = requests[i + 1] /\ i + 1 \in Asked
  BY <1>1, Served
<1>3. /\ requests \in Seq(Request) /\ m \in Request /\ m.ar \in ARs /\ ar \in Nat
      /\ \A k \in ARs : k \in Nat \ {0}
      /\ Len(requests') = n - 1 /\ answers \in Seq(Answer) /\ Len(answers) \in Nat
  <2>1. /\ requests \in Seq(Request) /\ answers \in Seq(Answer) /\ ar \in Nat
        /\ \A k \in ARs : k \in Nat \ {0}
    BY HandshakeAssumption DEF TypeInv, TypeOK, ARs
  <2>2. Head(requests) \in Request /\ Len(Tail(requests)) = Len(requests) - 1
    BY <1>1, <2>1, HeadTailProperties
  <2>3. Head(requests).ar \in ARs
    BY <2>2 DEF Request
  <2> QED
    BY <1>1, <2>1, <2>2, <2>3
<1>4. requests[n] = Asks("Connect") /\ n \in Asked /\ 1 \in Asked
  BY <1>2 DEF Pending, Asked
<1> HIDE DEF m, n
<1>5. CASE n = 1
  <2>1. m = Asks("Connect") /\ m.op = "Connect" /\ m.ar = ar
    BY <1>2, <1>4, <1>5 DEF Asks
  <2>2. /\ answers' = Append(answers, Tells("ConnectRes")) /\ ctrl_addr' = ar
        /\ UNCHANGED serving
    BY <1>1, <2>1 DEF ServeConnect, Reply, Tells
  <2>3. Tells("ConnectRes") \in Answer
    BY <1>3, <2>1 DEF Tells, Answer
  <2>4. /\ Len(answers') = Len(answers) + 1 /\ answers' \in Seq(Answer)
        /\ answers'[Len(answers) + 1] = Tells("ConnectRes")
        /\ \A i \in 1 .. Len(answers) : answers'[i] = answers[i]
    BY <1>3, <2>2, <2>3, AppendProperties
  <2>5. answers' # <<>>
    BY <1>3, <2>4, EmptySeq
  <2>6. requests' = <<>>
    <3>1. requests' \in Seq(Request)
      BY <1>1, <1>3, HeadTailProperties
    <3> QED
      BY <1>3, <1>5, <3>1, EmptySeq
  <2>7. \A i \in 1 .. Len(answers') - 1 : answers'[i].to < ar
    BY <1>3, <2>4 DEF Pending, Told
  <2>8. Accepted'
    BY <1>1, <1>3, <2>2, <2>4, <2>5, <2>6, <2>7 DEF Accepted, Tells
  <2> QED
    BY <2>2, <2>8
<1>6. CASE n > 1
  <2>1. m.ar < ar
    <3>1. requests[1].ar < requests[n].ar
      BY <1>2, <1>4, <1>6 DEF AgreeInv, Ordered, Asks
    <3> QED
      BY <1>2, <1>4, <3>1 DEF Asks
  <2>2. ctrl_addr < ar /\ ctrl_addr \in 0 .. MaxAR
    <3>1. ~OnlyOfThisAR
      BY <1>4 DEF OnlyOfThisAR, Asks
    <3>2. ctrl_addr = dar /\ dar <= ar /\ dar # ar /\ dar \in 0 .. MaxAR
      BY <3>1 DEF AgreeInv, DeviceFollows, TypeInv, TypeOK
    <3> QED
      BY <1>3, <3>2, HandshakeAssumption
  <2>3. m.op = "DControl" => ctrl_addr # 0
    BY <1>2, <1>4 DEF Pending, Harmless
  <2>4. /\ serving' /\ (ctrl_addr' = ctrl_addr \/ ctrl_addr' # 0)
        /\ \A i \in Told' : answers'[i].to < ar
    <3>0. \A i \in Told : answers[i].to < ar
      BY DEF Pending
    <3>1. CASE m.op = "Connect"
      <4>1. Reply("ConnectRes", m.ar) /\ ctrl_addr' = m.ar /\ UNCHANGED serving
        BY <1>1, <3>1 DEF ServeConnect
      <4>2. \A i \in Told' : \/ i \in Told /\ answers'[i] = answers[i]
                             \/ answers'[i] = [op |-> "ConnectRes", to |-> m.ar]
        BY <1>3, <4>1, Replied
      <4> QED
        BY <1>3, <2>1, <3>0, <4>1, <4>2
    <3>2. CASE m.op = "Write"
      <4>1. Reply("WriteRes", m.ar) /\ UNCHANGED <<serving, ctrl_addr>>
        BY <1>1, <3>2 DEF ServeWrite, dev
      <4>2. \A i \in Told' : \/ i \in Told /\ answers'[i] = answers[i]
                             \/ answers'[i] = [op |-> "WriteRes", to |-> m.ar]
        BY <1>3, <4>1, Replied
      <4> QED
        BY <1>3, <2>1, <3>0, <4>1, <4>2
    <3>3. CASE m.op = "Release"
      <4>1. Reply("ReleaseRes", m.ar) /\ UNCHANGED <<serving, ctrl_addr>>
        BY <1>1, <3>3 DEF ServeRelease
      <4>2. \A i \in Told' : \/ i \in Told /\ answers'[i] = answers[i]
                             \/ answers'[i] = [op |-> "ReleaseRes", to |-> m.ar]
        BY <1>3, <4>1, Replied
      <4> QED
        BY <1>3, <2>1, <3>0, <4>1, <4>2
    <3>4. CASE m.op = "CControlRes"
      BY <1>1, <3>0, <3>4 DEF Told, dev
    <3>5. CASE m.op = "DControl"
      <4> DEFINE both == <<[op |-> "DControlRes", to |-> m.ar], [op |-> "CControl", to |-> ctrl_addr]>>
      <4>1. answers' = answers \o both /\ UNCHANGED <<serving, ctrl_addr>>
        BY <1>1, <2>3, <3>5 DEF ServeDControl
      <4>2. /\ both \in Seq(Answer) /\ Len(both) = 2
            /\ \A i \in 1 .. 2 : both[i].to < ar
        <5>1. ctrl_addr \in ARs
          BY <2>2, <2>3, <3>5 DEF ARs
        <5>2. [op |-> "DControlRes", to |-> m.ar] \in Answer /\ [op |-> "CControl", to |-> ctrl_addr] \in Answer
          BY <1>3, <5>1 DEF Answer
        <5>3. both[1].to = m.ar /\ both[2].to = ctrl_addr
          OBVIOUS
        <5>4. both \in Seq(Answer) /\ Len(both) = 2
          BY <5>2
        <5> HIDE DEF both
        <5>5. \A i \in 1 .. 2 : i = 1 \/ i = 2
          OBVIOUS
        <5> QED
          BY <2>1, <2>2, <5>3, <5>4, <5>5
      <4> HIDE DEF both
      <4>3. \A i \in Told' : \/ i \in Told /\ answers'[i] = answers[i]
                             \/ i - Len(answers) \in 1 .. 2 /\ answers'[i] = both[i - Len(answers)]
        BY <1>3, <4>1, <4>2, TwoMore DEF Told
      <4> QED
        BY <3>0, <4>1, <4>2, <4>3
    <3> QED
      BY <1>3, <3>1, <3>2, <3>3, <3>4, <3>5 DEF Request
  <2>5. requests' # <<>> /\ requests'[Len(requests')] = Asks("Connect")
    <3>1. n - 1 \in Asked' /\ requests'[n - 1] = requests[n]
      BY <1>2, <1>6
    <3>2. requests' # <<>>
      BY <1>2, <1>3, <1>6, EmptySeq
    <3>3. requests'[Len(requests')] = requests[n]
      BY <1>3, <3>1
    <3> QED
      BY <1>4, <3>2, <3>3
  <2>6. Harmless'
    <3>1. ASSUME ctrl_addr' = 0 PROVE \A i \in Asked' : requests'[i].op # "DControl"
      <4>1. \A i \in Asked : requests[i].op # "DControl"
        BY <2>4, <3>1 DEF Pending, Harmless
      <4> QED
        BY <1>2, <4>1
    <3> QED
      BY <3>1 DEF Harmless
  <2>7. Pending'
    BY <1>1, <2>4, <2>5, <2>6 DEF Pending, Asks
  <2> QED
    BY <2>4, <2>7
<1> QED
  BY <1>2, <1>5, <1>6

\* The device.
LEMMA ServeUndisturbed ==
    ASSUME TypeInv, AgreeInv, serving, OneAtATime, Serve
    PROVE  serving' /\ OneAtATime'
<1> DEFINE m == Head(requests)
<1>1. ar' = ar /\ conn' = conn /\ requests # <<>> /\ requests' = Tail(requests)
  BY DEF Serve, controller
<1>2. /\ m.op = "Connect" => ServeConnect(m.ar)
      /\ m.op = "Write" => ServeWrite(m.ar)
      /\ m.op = "DControl" => ServeDControl(m.ar)
      /\ m.op = "Release" => ServeRelease(m.ar)
      /\ m.op = "CControlRes" => UNCHANGED <<answers, dev>>
  BY DEF Serve
<1> HIDE DEF m
<1>3. CASE Connecting
  <2>1. Pending /\ conn = "connect"
    BY <1>1, <1>3 DEF Connecting, Accepted
  <2>2. serving' /\ (Pending \/ Accepted)'
    BY <1>1, <2>1, PendingServed
  <2> QED
    BY <1>1, <2>1, <2>2 DEF OneAtATime, Connecting
<1>4. CASE Writing
  <2>1. conn = "write" /\ requests = <<Asks("Write")>> /\ answers = <<>> /\ ctrl_addr = ar
    BY <1>1, <1>4 DEF Writing, UnderWay
  <2>2. m.op = "Write" /\ m.ar = ar /\ requests' = <<>>
    BY <1>1, <2>1, Shorts DEF m, Asks
  <2>3. answers' = <<Tells("WriteRes")>> /\ UNCHANGED dev
    BY <1>2, <2>1, <2>2, Shorts DEF ServeWrite, Reply, Tells
  <2>4. Writing'
    BY <1>1, <2>1, <2>2, <2>3 DEF Writing, UnderWay, Tells, dev
  <2> QED
    BY <2>3, <2>4 DEF OneAtATime, dev
<1>5. CASE Readying
  <2>1. conn = "ready" /\ requests = <<Asks("DControl")>> /\ answers = <<>> /\ ctrl_addr = ar
    BY <1>1, <1>5 DEF Readying, UnderWay
  <2>2. m.op = "DControl" /\ m.ar = ar /\ requests' = <<>>
    BY <1>1, <2>1, Shorts DEF m, Asks
  <2>3. ar # 0
    BY <2>1, HandshakeAssumption DEF TypeInv, Begun, ARs
  <2>4. /\ answers' = <<>> \o <<Tells("DControlRes"), Tells("CControl")>>
        /\ UNCHANGED <<ctrl_addr, serving>>
    BY <1>2, <2>1, <2>2, <2>3 DEF ServeDControl, Tells
  <2>5. answers' = <<Tells("DControlRes"), Tells("CControl")>>
    BY <2>4, Shorts
  <2>6. Readying'
    BY <1>1, <2>1, <2>2, <2>4, <2>5 DEF Readying, UnderWay, Tells
  <2> QED
    BY <2>4, <2>6 DEF OneAtATime
<1>6. CASE Established
  <2>1. conn = "up" /\ requests = <<Asks("CControlRes")>> /\ answers = <<>>
    BY <1>1, <1>6 DEF Established
  <2>2. m.op = "CControlRes" /\ requests' = <<>>
    BY <1>1, <2>1, Shorts DEF m, Asks
  <2>3. Established' /\ serving'
    BY <1>1, <1>2, <2>1, <2>2 DEF Established, dev
  <2> QED
    BY <2>3 DEF OneAtATime
<1>7. CASE Releasing
  <2>1. CASE requests = <<Asks("CControlRes"), Asks("Release")>>
    <3>1. m.op = "CControlRes" /\ requests' = <<Asks("Release")>> /\ requests' # <<>>
      BY <1>1, <2>1, Shorts DEF m, Asks
    <3>2. answers' = <<>> /\ serving'
      BY <1>1, <1>2, <1>7, <3>1 DEF Releasing, UnderWay, dev
    <3>3. Releasing'
      BY <1>1, <1>7, <3>1, <3>2 DEF Releasing, UnderWay, Asks
    <3> QED
      BY <3>2, <3>3 DEF OneAtATime
  <2>2. CASE requests = <<Asks("Release")>>
    <3>1. m.op = "Release" /\ m.ar = ar /\ requests' = <<>> /\ answers = <<>>
      BY <1>1, <1>7, <2>2, Shorts DEF m, Asks, Releasing, UnderWay
    <3>2. /\ answers' = <<Tells("ReleaseRes")>> /\ dstate' = "listening"
          /\ UNCHANGED serving
      BY <1>2, <3>1, Shorts DEF ServeRelease, Reply, Tells
    <3>3. Releasing'
      BY <1>1, <1>7, <3>1, <3>2 DEF Releasing, UnderWay, Tells
    <3> QED
      BY <3>2, <3>3 DEF OneAtATime
  <2> QED
    BY <1>1, <1>7, <2>1, <2>2 DEF Releasing, UnderWay
<1> QED
  BY <1>1, <1>3, <1>4, <1>5, <1>6, <1>7 DEF OneAtATime, Between

\* Only an answer to an earlier attempt finds its socket closed.
LEMMA UnreachableUndisturbed ==
    ASSUME TypeInv, OneAtATime, Unreachable
    PROVE  OneAtATime'
<1>1. /\ answers # <<>> /\ (conn = "down" \/ Head(answers).to # ar)
      /\ answers' = Tail(answers) /\ UNCHANGED <<conn, ar, requests, ctrl_addr>>
  BY DEF Unreachable, controller
<1>2. CASE Connecting
  <2>1. /\ Head(answers) = answers[1] /\ answers \in Seq(Answer) /\ answers' \in Seq(Answer)
        /\ Len(answers') = Len(answers) - 1 /\ Len(answers) \in Nat \ {0}
        /\ \A i \in Told' : answers'[i] = answers[i + 1] /\ i + 1 \in Told
    BY <1>1, Taken, HeadTailProperties, EmptySeq DEF TypeInv, TypeOK
  <2>2. CASE Pending
    <3>1. Pending'
      BY <1>1, <2>1, <2>2 DEF Pending, Harmless, Asked, Asks
    <3> QED
      BY <1>1, <1>2, <3>1 DEF OneAtATime, Connecting
  <2>3. CASE Accepted
    <3>1. Len(answers) # 1
      BY <1>1, <1>2, <2>1, <2>3 DEF Accepted, Connecting, Tells
    <3>2. Len(answers) - 1 \in Told' /\ answers'[Len(answers) - 1] = answers[Len(answers)]
      BY <2>1, <3>1 DEF Told
    <3>3. answers' # <<>>
      BY <2>1, <3>1, EmptySeq
    <3>4. \A i \in 1 .. Len(answers') - 1 : answers'[i].to < ar
      BY <2>1, <2>3 DEF Accepted, Told
    <3>5. Accepted'
      BY <1>1, <2>1, <2>3, <3>2, <3>3, <3>4 DEF Accepted, Tells
    <3> QED
      BY <1>1, <1>2, <3>5 DEF OneAtATime, Connecting
  <2> QED
    BY <1>2, <2>2, <2>3 DEF Connecting
<1>3. CASE ~Connecting
  BY <1>1, <1>3, Shorts DEF OneAtATime, Between, Writing, Readying, Established, Releasing,
                            UnderWay, Tells
<1> QED
  BY <1>2, <1>3

LEMMA UndisturbedStep == TypeInv /\ AgreeInv /\ UndisturbedInv /\ [Next]_vars => UndisturbedInv'
<1> SUFFICES ASSUME TypeInv, AgreeInv, UndisturbedInv, [Next]_vars, ~disturbed'
             PROVE  serving' /\ OneAtATime'
  BY DEF UndisturbedInv
<1>1. ~Lose /\ ~Restart
  BY DEF Lose, Restart, Fault
<1>2. CASE Connect
  BY <1>2, ConnectUndisturbed DEF OneAtATime
<1>3. ~Connect => ~disturbed
  <2>1. CASE UNCHANGED vars
    BY <2>1 DEF vars, course
  <2> QED
    BY <1>1, <2>1 DEF Next, Receive, Expire, Release, Serve, Unreachable, Fault, course
<1>4. ~Connect => serving /\ OneAtATime
  BY <1>3 DEF UndisturbedInv
<1>5. CASE ~Connect /\ UNCHANGED vars
  <2>1. UNCHANGED <<conn, ar, requests, answers, dstate, ctrl_addr, serving>>
    BY <1>5 DEF vars, controller, dev
  <2> QED
    BY <1>4, <1>5, <2>1 DEF OneAtATime, Between, Connecting, Pending, Accepted, Harmless, Asked, Told,
                      Writing, Readying, Established, Releasing, UnderWay, Asks, Tells
<1>6. CASE ~Connect /\ Receive
  BY <1>4, <1>6, ReceiveUndisturbed DEF Receive, dev
<1>7. CASE ~Connect /\ Expire
  BY <1>4, <1>7, NoneExpires
<1>8. CASE ~Connect /\ Release
  BY <1>4, <1>8, ReleaseUndisturbed DEF OneAtATime, Release, dev
<1>9. CASE ~Connect /\ Serve
  BY <1>4, <1>9, ServeUndisturbed
<1>10. CASE ~Connect /\ Unreachable
  <2>1. serving'
    BY <1>10 DEF Unreachable
  <2> QED
    BY <1>4, <1>10, <2>1, UnreachableUndisturbed
<1> QED
  BY <1>1, <1>2, <1>5, <1>6, <1>7, <1>8, <1>9, <1>10 DEF Next

\* PN_Connect returns with an error.
Fails == conn \in {"connect", "write", "ready"} /\ conn' = "down"

LEMMA OnlyDisturbedFails ==
    ASSUME TypeInv, UndisturbedInv, [Next]_vars, Fails
    PROVE  disturbed'
<1> SUFFICES ASSUME ~disturbed' PROVE FALSE
  OBVIOUS
<1>1. ~Connect /\ ~Lose /\ ~Restart /\ ~Release /\ ~Serve /\ ~Unreachable /\ ~UNCHANGED vars
  BY DEF Fails, Connect, Lose, Restart, Release, Serve, Unreachable, Proceed, controller, vars
<1>2. Receive \/ Expire
  BY <1>1 DEF Next
<1>3. ~disturbed
  BY <1>2 DEF Receive, Expire, Fault, course
<1>4. serving /\ OneAtATime
  BY <1>3 DEF UndisturbedInv
<1> QED
  BY <1>2, <1>4, NoneExpires, ReceiveUndisturbed DEF Fails

\* An attempt to reach a device that answers fails only if something disturbs it, whatever
\* earlier attempts have left in the device and on the way: until then no deadline can pass,
\* no answer is taken for another one's, the RPC thread goes on, and after the Release the
\* device is listening.
THEOREM OnlyDisturbedAttemptsFail == Spec => []Undisturbed /\ [][Fails => disturbed']_vars
<1>1. UndisturbedInv => Undisturbed
  BY DEF UndisturbedInv, OneAtATime, Between, Connecting, Writing, Readying, Established,
         Releasing, Undisturbed
<1>2. TypeInv /\ UndisturbedInv /\ [Next]_vars => [Fails => disturbed']_vars
  BY OnlyDisturbedFails
<1> QED
  BY TypeInit, TypeStep, AgreeInit, AgreeStep, UndisturbedInit, UndisturbedStep, <1>1, <1>2,
     PTL DEF Spec
==============================================================================
