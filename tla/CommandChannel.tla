--------------------------- MODULE CommandChannel ---------------------------
(***************************************************************************)
(* What a client may expect of the link to the gateway: the commands that  *)
(* are taken are commands it has sent, each taken at most once and in      *)
(* order, whole, and over one session after the other.  Some may never be. *)
(***************************************************************************)
EXTENDS Naturals

CONSTANT Session   \* positive numbers, in the order the sessions are opened

VARIABLES
  sent,     \* how many commands have been sent in each session
  taken,    \* the last that was taken, <<session, number>>; <<0, 0>> at first
  excused   \* the link has lost part of a command, or never promised an order

channelVars == <<sent, taken, excused>>

\* Later(c, d): command c is sent after d.
Later(c, d) == c[1] > d[1] \/ (c[1] = d[1] /\ c[2] > d[2])

ChannelInit ==
  /\ sent = [s \in Session |-> 0]
  /\ taken = <<0, 0>>
  /\ excused \in BOOLEAN

Send(s) ==
  /\ sent' = [sent EXCEPT ![s] = @ + 1]
  /\ UNCHANGED <<taken, excused>>

Take(s) ==
  /\ \E n \in 1 .. sent[s] : Later(<<s, n>>, taken) /\ taken' = <<s, n>>
  /\ UNCHANGED <<sent, excused>>

Excuse ==
  /\ excused' = TRUE
  /\ UNCHANGED <<sent, taken>>

\* From then on nothing is promised of what is taken.
TakeAnything ==
  /\ excused
  /\ UNCHANGED <<sent, excused>>

ChannelNext ==
  \/ \E s \in Session : Send(s) \/ Take(s)
  \/ Excuse \/ TakeAnything

ChannelSpec == ChannelInit /\ [][ChannelNext]_channelVars
=============================================================================
