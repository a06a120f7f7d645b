------------------------------ MODULE Framing -------------------------------
(***************************************************************************)
(* The frames between a client and the gateway, byte by byte: those of all *)
(* devices one behind the other, or each in a block of its own             *)
(* ([SOF][DriveID][Len][data][EOF], gateway_server.py, vfd_tcp_client.py). *)
(***************************************************************************)
EXTENDS Integers, SequencesExt

SOF == <<170, 85>>
EOF == <<85, 170>>
Overhead == Len(SOF) + 1 + 2 + Len(EOF)

-----------------------------------------------------------------------------
(* Putting together. *)

\* _build_inputs; the client puts its outputs together in the same way.
Block(i, data) ==
  SOF \o <<i % 256, Len(data) \div 256, Len(data) % 256>> \o data \o EOF

Framed(datas) == FlattenSeq([i \in DOMAIN datas |-> Block(i - 1, datas[i])])
Flat(datas) == FlattenSeq(datas)

-----------------------------------------------------------------------------
(* Taking apart. *)

\* Mutant: a block is taken for one without a look at its end.
BlocksWithoutEnd(frame) ==
  LET n == Len(frame)
      from[p \in 0 .. n] ==
        IF p + Overhead > n THEN <<>>
        ELSE LET len == 256 * frame[p + 4] + frame[p + 5] IN
             IF SubSeq(frame, p + 1, p + 2) # SOF \/ p + 7 + len > n THEN from[p + 1]
             ELSE <<[drive |-> frame[p + 3], data |-> SubSeq(frame, p + 6, p + 5 + len)]>>
                    \o from[p + 7 + len]
  IN from[0]

\* The length that stands in a block, if one begins after p bytes.
LengthAt(frame, p) == 256 * frame[p + 4] + frame[p + 5]

BlockAt(frame, p) ==
  LET end == p + Overhead + LengthAt(frame, p) IN
  /\ p + Overhead <= Len(frame)
  /\ SubSeq(frame, p + 1, p + 2) = SOF
  /\ end <= Len(frame)
  /\ SubSeq(frame, end - 1, end) = EOF

\* The blocks of a frame: one byte further wherever there is none.
Blocks(frame) ==
  LET n == Len(frame)
      from[p \in 0 .. n] ==
        IF p + Overhead > n THEN <<>>
        ELSE IF ~BlockAt(frame, p) THEN from[p + 1]
        ELSE LET len == LengthAt(frame, p) IN
             <<[drive |-> frame[p + 3], data |-> SubSeq(frame, p + 6, p + 5 + len)]>>
               \o from[p + Overhead + len]
  IN from[0]

\* The head of a buffer is overwritten.
Overwritten(buffer, data) ==
  [k \in DOMAIN buffer |-> IF k <= Len(data) THEN data[k] ELSE buffer[k]]

\* _apply_outputs with framed set.
ApplyFramed(buffers, frame) ==
  FoldLeft(LAMBDA bs, b : IF b.drive < Len(bs)
                          THEN [bs EXCEPT ![b.drive + 1] = Overwritten(@, b.data)] ELSE bs,
           buffers, Blocks(frame))

\* _apply_outputs: the lengths are those the devices have.
ApplyFlat(buffers, frame) ==
  LET lens == [j \in DOMAIN buffers |-> Len(buffers[j])]
      Start(i) == MapThenSumSet(LAMBDA j : lens[j], 1 .. i - 1)
  IN [i \in DOMAIN buffers |-> SubSeq(frame, Start(i) + 1, Start(i) + lens[i])]

\* The client: the first four bytes of each drive's block, or of its place.
ClientValues(datas, frame, framed) ==
  LET First(data) == SubSeq(data, 1, 4)
      len == Len(Head(datas))
      blocks == Blocks(frame)
      Of(i) == {k \in DOMAIN blocks : blocks[k].drive = i - 1 /\ Len(blocks[k].data) >= 4}
  IN [i \in DOMAIN datas |->
        IF framed THEN IF Of(i) = {} THEN <<0, 0, 0, 0>> ELSE First(blocks[Max(Of(i))].data)
        ELSE First(SubSeq(frame, (i - 1) * len + 1, i * len))]

-----------------------------------------------------------------------------
(* What it is for. *)

\* What has been sent for a drive is what its buffer holds, whatever the data, if it has
\* the markers in it, and even if a few stray bytes come first.
FramingSound(datas, stray) ==
  LET zero == [i \in DOMAIN datas |-> [k \in DOMAIN datas[i] |-> 0]] IN
  /\ ApplyFramed(zero, stray \o Framed(datas)) = datas
  /\ ApplyFlat(zero, Flat(datas)) = datas

\* What can be sent: the data of up to 256 drives, all of them of one length as far as the
\* client goes, with at least the two words it shows; and no stray bytes that are a block.
Byte == 0 .. 255
CanBeFramed(datas, stray) ==
  /\ datas \in Seq(Seq(Byte)) /\ 1 <= Len(datas) /\ Len(datas) <= 256
  /\ \A i \in DOMAIN datas : /\ Len(datas[i]) = Len(datas[1])
                             /\ 4 <= Len(datas[i]) /\ Len(datas[i]) <= 65535
  /\ stray \in Seq(Byte)
  /\ \A p \in 0 .. Len(stray) - 1 : ~BlockAt(stray \o Framed(datas), p)

\* The client and the gateway agree on where the words of a drive are.
ClientReads(datas) ==
  LET first == [i \in DOMAIN datas |-> SubSeq(datas[i], 1, 4)] IN
  ClientValues(datas, Framed(datas), TRUE) = first /\ ClientValues(datas, Flat(datas), FALSE) = first
=============================================================================
