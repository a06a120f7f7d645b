------------------------------ MODULE IoLayout ------------------------------
(***************************************************************************)
(* From a rack to the bytes of the cyclic frames (profinet_ctrl.py): the   *)
(* submodules the AR is to have, where each of them stands in the frame of *)
(* either direction, and how the process data of a device gets there and   *)
(* back.                                                                   *)
(*                                                                         *)
(* An environment is what the PN_* variables set: here                     *)
(*   module, telegram   the idents every Drive Object is given             *)
(*   empty              whether the empty submodule is included            *)
(***************************************************************************)
EXTENDS Rack

Sub(slot, subslot, in, out) == [slot |-> slot, subslot |-> subslot, in |-> in, out |-> out]

-----------------------------------------------------------------------------
(* The topology. *)

\* The submodules of the access point at slot 0, nothing when there is no file.
DapHead(file, found) ==
  IF found THEN [i \in DOMAIN file.head |-> Sub(0, file.head[i], 0, 0)] ELSE <<>>

\* GSDMLDevice.build_io_slots of profinet-py for one Drive Object.
DriveSlots(env, module, telegram, slot) ==
  <<Sub(slot, 1, 0, 0)>>
    \o (IF env.empty /\ module.empty THEN <<Sub(slot, 2, 0, 0)>> ELSE <<>>)
    \o <<Sub(slot, 3, telegram.in, telegram.out)>>

\* The last item with that ident is the one that _build_expected_slots finds by it.
LastWith(items, ident) == items[SelectLastInSeq(items, LAMBDA item : item.ident = ident)]

\* The part of the process data that belongs to a submodule.
DataParts == [slot : Nat, subslot : Nat, in : Nat, out : Nat]
Data(slot, subslot, do) == [slot |-> slot, subslot |-> subslot, in |-> do.in, out |-> do.out]

\* _build_expected_slots: the submodules, and the ones that carry process data.  The
\* Drive Objects are renumbered from slot 1, all with the idents of the environment.
\* If the file is missing or does not have those, the rack is taken as it stands.
ExpectedSlots(file, found, config, env) ==
  LET dos == EffectiveRack(config)
      known == found /\ env.module \in Idents(file.modules) /\ env.telegram \in Idents(file.catalog)
      module == LastWith(file.modules, env.module)
      telegram == LastWith(file.catalog, env.telegram)
  IN IF known
     THEN [slots |-> DapHead(file, found) \o FlattenSeq([i \in DOMAIN dos |->
                       DriveSlots(env, module, telegram, i)]),
           dos |-> [i \in DOMAIN dos |-> Data(i, 3, dos[i])]]
     ELSE [slots |-> DapHead(file, found) \o [i \in DOMAIN dos |->
                       Data(dos[i].slot, dos[i].subslot, dos[i])],
           dos |-> [i \in DOMAIN dos |-> Data(dos[i].slot, dos[i].subslot, dos[i])]]

-----------------------------------------------------------------------------
(* The frames. *)

\* Where the i-th of parts of these lengths begins.
PartStart(lengths, i) == MapThenSumSet(LAMBDA j : lengths[j], 1 .. i - 1)

\* One field for each submodule of `subs', one behind the other from offset `base':
\* data of the length given, and a status byte.
InARow(subs, lengths, base) ==
  [i \in DOMAIN subs |->
     [slot |-> subs[i].slot, subslot |-> subs[i].subslot, len |-> lengths[i],
      at |-> base + PartStart(lengths, i) + i - 1]]

\* A status byte only, for each of them.
StatusInARow(subs, base) == InARow(subs, [i \in DOMAIN subs |-> 0], base)

End(fields) == IF fields = <<>> THEN 0 ELSE Last(fields).at + Last(fields).len + 1

WithOutputs(slots) == Only(slots, {s \in ToSet(slots) : s.out > 0})

\* Mutant: in the output frame the consumer statuses of the submodules without outputs
\* come behind the data, and the others still where they were.
LayoutStatusBehind(slots) ==
  LET outputs == WithOutputs(slots)
      inObjs == InARow(slots, Ins(slots), 0)
      inIocs == StatusInARow(outputs, End(inObjs))
      outObjs == InARow(outputs, Outs(outputs), 0)
      outIocs == StatusInARow(slots, Len(slots))
  IN [inObjs |-> inObjs, inIocs |-> inIocs, inLen |-> Max({40, End(inObjs \o inIocs)}),
      outObjs |-> outObjs, outIocs |-> outIocs, outLen |-> Max({40, End(outObjs \o outIocs)})]

\* _iocr_layout.  Input: the data and provider status of every submodule, then the
\* consumer status of those with outputs.  Output: the data and provider status of
\* those with outputs, in between them the consumer status of the others, and the
\* consumer status of those with outputs at the end.
IocrLayout(slots) ==
  LET outputs == WithOutputs(slots)
      inObjs == InARow(slots, Ins(slots), 0)
      inIocs == StatusInARow(outputs, End(inObjs))
      placed == InARow(slots, Outs(slots), 0)
      trailing == StatusInARow(outputs, End(placed))
  IN [inObjs  |-> inObjs,
      inIocs  |-> inIocs,
      inLen   |-> Max({40, End(inObjs \o inIocs)}),
      outObjs |-> Only(placed, {f \in ToSet(placed) : f.len > 0}),
      outIocs |-> Only(placed, {f \in ToSet(placed) : f.len = 0}) \o trailing,
      outLen  |-> Max({40, End(placed \o trailing)})]

\* Mutant: the input objects include the consumer statuses.
CyclicObjectsWithStatus(slots) ==
  [in |-> IocrLayout(slots).inObjs \o IocrLayout(slots).inIocs,
   out |-> IocrLayout(slots).outObjs \o IocrLayout(slots).outIocs]

\* _build_iocr_configs: the objects of the two frames the cyclic controller works with.
\* In those that only are a consumer status, data_length is 0 and `at' is iocs_offset.
CyclicObjects(slots) ==
  [in |-> IocrLayout(slots).inObjs,
   out |-> IocrLayout(slots).outObjs \o IocrLayout(slots).outIocs]

-----------------------------------------------------------------------------
(* Process data.  The cyclic controller of profinet-py is external. *)

\* CyclicController: set_output_data writes to the first object of that name; the data
\* received is kept under its name, the last object that has it.
Named(objects, slot, subslot) ==
  Only(objects, {o \in ToSet(objects) : o.slot = slot /\ o.subslot = subslot})

\* Mutant: profinet-py's own set_all_iocs, which leaves out offset 0.
ConsumersGoodBut0(objects) == {o.at : o \in {p \in ToSet(objects) : p.len = 0 /\ p.at > 0}}

\* set_all_iocs as _patch_cyclic_iocs has it: the offsets that are set to GOOD.
ConsumersGood(objects) == {o.at : o \in {p \in ToSet(objects) : p.len = 0}}

\* The frame with a chunk written into it.
WrittenOver(chunk, frame) ==
  [o \in DOMAIN chunk \union DOMAIN frame |->
     IF o \in DOMAIN chunk THEN chunk[o] ELSE frame[o]]

\* write_raw_outputs, for the data <<1, 2, ...>>: what stands at which offset of the
\* output frame.
OutputsInFrame(dos, objects) ==
  LET Chunk(i) ==
        LET at == Head(Named(objects, dos[i].slot, dos[i].subslot)).at
        IN [o \in at .. at + dos[i].out - 1 |-> PartStart(Outs(dos), i) + o - at + 1]
  IN FoldSet(LAMBDA i, frame : WrittenOver(Chunk(i), frame), <<>>,
             {i \in DOMAIN dos : dos[i].out > 0})

\* read_raw_inputs, for the frame that has at each offset that offset, cut or filled
\* up with zeros to `length': the data of the device.
InputsOfDevice(dos, objects, length) ==
  LET Chunk(do) ==
        LET o == Last(Named(objects, do.slot, do.subslot))
        IN [k \in 1 .. do.in |-> IF k <= o.len THEN o.at + k - 1 ELSE 0]
      all == FlattenSeq([i \in DOMAIN dos |-> Chunk(dos[i])])
  IN [k \in 1 .. length |-> IF k <= Len(all) THEN all[k] ELSE 0]

-----------------------------------------------------------------------------
(* What a layout must be like. *)

\* The bytes of the data and the provider status of an object.
Bytes(o) == o.at .. o.at + o.len

Apart(fields) ==
  \A i, j \in DOMAIN fields : i # j => Bytes(fields[i]) \cap Bytes(fields[j]) = {}

\* Each name once.
OncePerName(fields) ==
  \A i, j \in DOMAIN fields :
    fields[i].slot = fields[j].slot /\ fields[i].subslot = fields[j].subslot => i = j

Names(fields) == {<<f.slot, f.subslot>> : f \in ToSet(fields)}

\* No byte of a frame has two meanings or none is left outside it; the device has a
\* provider status for every submodule and a consumer status for every output, and the
\* controller the other way round.
LayoutSound(slots) ==
  LET l == IocrLayout(slots)
      all == Names(slots)
      outputs == Names(WithOutputs(slots))
  IN /\ Apart(l.inObjs \o l.inIocs)
     /\ Apart(l.outObjs \o l.outIocs)
     /\ \A f \in ToSet(l.inObjs \o l.inIocs) : Bytes(f) \subseteq 0 .. l.inLen - 1
     /\ \A f \in ToSet(l.outObjs \o l.outIocs) : Bytes(f) \subseteq 0 .. l.outLen - 1
     /\ Names(l.inObjs) = all /\ OncePerName(l.inObjs)
     /\ Names(l.inIocs) = outputs /\ OncePerName(l.inIocs)
     /\ Names(l.outObjs) = outputs /\ OncePerName(l.outObjs)
     /\ Names(l.outIocs) = all /\ OncePerName(l.outIocs)

\* The frame of the commissioned drive (profinet_ctrl.py:610): the telegram of 64 bytes
\* behind six submodules without data is at offset 6, and the frame has 72 bytes.
CommissionedFrame(slots) ==
  LET l == IocrLayout(slots) IN
  /\ Len(slots) = 7
  /\ \A i \in 1 .. 6 : slots[i].in = 0 /\ slots[i].out = 0
  /\ slots[7].in = 64 /\ slots[7].out = 64
  => /\ l.inObjs[7].at = 6 /\ l.inLen = 72
     /\ l.outObjs[1].at = 6 /\ l.outLen = 72

\* The lengths that the process data is split by are those of the submodules.
SameLengths(topology) ==
  \A do \in ToSet(topology.dos) :
    \E s \in ToSet(topology.slots) :
      s.slot = do.slot /\ s.subslot = do.subslot /\ s.in = do.in /\ s.out = do.out

\* What the client has sent for the device is in the frame, each Drive Object's part in
\* its own object, in order and whole.
OutputsArrive(topology) ==
  LET dos == topology.dos
      objects == CyclicObjects(topology.slots).out
      frame == OutputsInFrame(dos, objects)
      Before(i) == PartStart(Outs(dos), i)
  IN \A i \in DOMAIN dos : dos[i].out > 0 =>
       \E o \in ToSet(objects) :
         /\ o.slot = dos[i].slot /\ o.subslot = dos[i].subslot /\ o.len = dos[i].out
         /\ \A k \in 0 .. o.len - 1 : o.at + k \in DOMAIN frame /\ frame[o.at + k] = Before(i) + k + 1

\* What the device has sent reaches the client: nothing is lost or comes twice, and
\* all of it comes in order.
InputsArrive(topology, length) ==
  LET data == InputsOfDevice(topology.dos, CyclicObjects(topology.slots).in, length)
      sent == {i \in DOMAIN topology.slots : topology.slots[i].in > 0}
      objects == IocrLayout(topology.slots).inObjs
  IN /\ length = Total(Ins(topology.slots))
     /\ ToSet(data) = UNION {objects[i].at .. objects[i].at + objects[i].len - 1 : i \in sent}
     /\ \A k \in 2 .. length : data[k - 1] < data[k]

\* Every consumer status the controller owes the device is GOOD, and no byte of data is
\* taken for one.
ConsumersTold(slots) ==
  LET l == IocrLayout(slots)
  IN ConsumersGood(CyclicObjects(slots).out) = {f.at : f \in ToSet(l.outIocs)}
=============================================================================
