----------------------------- MODULE ArRequest ------------------------------
(***************************************************************************)
(* What the patches of profinet_ctrl.py make of the Connect request and of *)
(* the frames of profinet-py, so that they are those of the controller the *)
(* drive was commissioned with.  Both are sequences of blocks and headers; *)
(* what is in them is kept as far as the parts have to agree.              *)
(*                                                                         *)
(* The environment has these besides those of IoLayout:                    *)
(*   mode      PN_CYCLIC_MODE, "rtc1" or "rtc2"                            *)
(*   vlan      PN_CYCLIC_VLAN, whether frames are sent with a tag          *)
(*   legacy    PN_AR_STARTUP=legacy                                        *)
(*   class     PN_IOCR_RTCLASS                                             *)
(*   declares  PN_IOCR_FRAMEID_IN and _OUT, the FrameIDs of the request    *)
(*   uses      PN_CYCLIC_FRAMEID_IN and _OUT, those of the frames          *)
(*   timing    PN_SEND_CLOCK, PN_REDUCTION and PN_WATCHDOG                 *)
(* The last four may each be Unset, and then a default holds.              *)
(* The idents of an API are 0 and DriveApi (PN_DRIVE_API).                 *)
(***************************************************************************)
EXTENDS IoLayout

DriveApi == 1

\* _envint: what a variable of the environment says, if it is there.
Unset == -1
Envint(setting, default) == IF setting = Unset THEN default ELSE setting

Settings == Nat \union {Unset}
Environments ==
  [module : Nat, telegram : Nat, empty : BOOLEAN, mode : {"rtc1", "rtc2"},
   vlan : BOOLEAN, legacy : BOOLEAN,
   class : Settings, declares : [in : Settings, out : Settings],
   uses : [in : Settings, out : Settings],
   timing : [clock : Settings, reduction : Settings, watchdog : Settings]]

\* The FrameIDs 0x8000 and 0xC000, the first ones of RT_CLASS_2 and of RT_CLASS_1, and
\* 0xFFFF, which leaves the choice to the device.
FrameId2 == 32768
FrameId1 == 49152
ByDevice == 65535
ClassOf(frameId) == IF frameId < FrameId1 THEN 2 ELSE 1

\* _SEND_CLOCK_FACTOR, _CYCLE_MS and _WATCHDOG_FACTOR.
Timing == [clock |-> 32, reduction |-> 16, watchdog |-> 3]

\* _cyclic_profile: the FrameIDs the request declares and those in use.
CyclicProfile(env) ==
  IF env.mode = "rtc1"
  THEN [class |-> 1, declared |-> [in |-> FrameId1, out |-> FrameId1],
        used |-> [in |-> FrameId1, out |-> FrameId1]]
  ELSE [class |-> 2, declared |-> [in |-> FrameId2, out |-> ByDevice],
        used |-> [in |-> FrameId2, out |-> FrameId2]]

-----------------------------------------------------------------------------
(* The Connect request. *)

\* api_of, and the API that add_submodule is given.
ApiOf(slot) == IF slot = 0 THEN 0 ELSE DriveApi

\* Mutant: profinet-py's add_submodule, everything under API 0.
ExpectedApi0(slot) == 0
ExpectedApi(slot) == ApiOf(slot)

\* sorted: the numbers of a set, the least one first.
Ascending(S) == Only([k \in 1 .. Max(S \union {0}) + 1 |-> k - 1], S)

\* _patch_expected_submodule: one block per module, each with one API.
ExpectedBlocks(slots) ==
  LET modules == Ascending({s.slot : s \in ToSet(slots)})
  IN [i \in DOMAIN modules |->
        [type |-> "ExpectedSubmodule", api |-> ExpectedApi(modules[i]), slot |-> modules[i],
         subs |-> Only(slots, {s \in ToSet(slots) : s.slot = modules[i]})]]

\* _patch_iocr: the fields of one direction grouped by API, API 0 first.
IocrBlock(direction, slots, env) ==
  LET l == IocrLayout(slots)
      objs == IF direction = "in" THEN l.inObjs ELSE l.outObjs
      iocs == IF direction = "in" THEN l.inIocs ELSE l.outIocs
      apis == Ascending({ApiOf(f.slot) : f \in ToSet(objs \o iocs)})
      Under(api, fields) == Only(fields, {f \in ToSet(fields) : ApiOf(f.slot) = api})
  IN [type |-> "IOCR", direction |-> direction,
      class |-> Envint(env.class, CyclicProfile(env).class),
      frameId |-> Envint(env.declares[direction], CyclicProfile(env).declared[direction]),
      timing |-> [t \in DOMAIN Timing |-> Envint(env.timing[t], Timing[t])],
      len |-> IF direction = "in" THEN l.inLen ELSE l.outLen,
      apis |-> [i \in DOMAIN apis |->
                  [api |-> apis[i], objs |-> Under(apis[i], objs),
                   iocs |-> Under(apis[i], iocs)]]]

\* _patch_ar_startup.
ArBlock(env) == [type |-> "AR", startup |-> IF env.legacy THEN "legacy" ELSE "advanced"]

\* RPCCon.connect of profinet-py joins the blocks in this order.
Request(ar, iocrs, alarm, expected) == <<ar>> \o iocrs \o alarm \o expected

\* _patch_alarm_cr: the builder of the AlarmCR block returns nothing and the one of the
\* ExpectedSubmodule blocks has it at the end.
ConnectRequest(slots, env) ==
  Request(ArBlock(env), << IocrBlock("in", slots, env), IocrBlock("out", slots, env) >>,
          << >>,
          Append(ExpectedBlocks(slots), [type |-> "AlarmCR"]))

\* _build_iocr_configs: what the cyclic controller is given for one direction.  Its
\* timing is that of the constants, whatever the request says.
CyclicConfig(direction, slots, env) ==
  [frameId |-> Envint(env.uses[direction], CyclicProfile(env).used[direction]),
   timing |-> Timing,
   objs |-> CyclicObjects(slots)[direction]]

-----------------------------------------------------------------------------
(* The frames.  A frame is the words of its header and its payload. *)

TagHeader == <<"8100", "tci">>
Addresses == <<"dst", "src">>
Frame(tagged, payload) ==
  Addresses \o (IF tagged THEN TagHeader ELSE <<>>) \o <<"8892">> \o payload

\* strip the 4-byte tag
Untagged(frame) ==
  IF Len(frame) > 4 /\ frame[3] = "8100" THEN SubSeq(frame, 1, 2) \o SubSeq(frame, 5, Len(frame))
  ELSE frame

\* profinet-py's receivers look for the ethertype where an untagged frame has it.
Parsed(frame) == IF frame[3] = "8892" THEN SubSeq(frame, 4, Len(frame)) ELSE <<>>

\* _patch_cyclic_vlan: the cyclic frames are sent with a tag if the environment says so,
\* and received with or without one.
CyclicSent(env, payload) == Frame(env.vlan, payload)
CyclicReceived(frame) == Parsed(Untagged(frame))

\* _patch_alarm_listener_vlan: _start_alarm_listener calls it only if the environment has
\* the frames sent with a tag, and otherwise the listener is profinet-py's.
AlarmReceived(env, frame) == Parsed(IF env.vlan THEN Untagged(frame) ELSE frame)

-----------------------------------------------------------------------------
(* What a request must be like. *)

OfType(blocks, type) == Only(blocks, {b \in ToSet(blocks) : b.type = type})

\* The submodules one IOCR block speaks of, with the API it has them under.
InIocr(block) ==
  UNION {{<<a.api, f.slot, f.subslot>> : f \in ToSet(a.objs) \union ToSet(a.iocs)} :
           a \in ToSet(block.apis)}

\* Every submodule is expected once, and each IOCR block has it under the same API; no
\* block has two entries for one API.
RequestConsistent(blocks, slots) ==
  LET expected == OfType(blocks, "ExpectedSubmodule")
      all == UNION {{<<b.api, b.slot, s.subslot>> : s \in ToSet(b.subs)} : b \in ToSet(expected)}
  IN /\ Cardinality(all) = Len(slots)
     /\ \A b \in ToSet(OfType(blocks, "IOCR")) :
          /\ InIocr(b) = all
          /\ \A i, j \in DOMAIN b.apis : b.apis[i].api = b.apis[j].api => i = j

\* The FrameID, the class and the timing of an IOCR block are those of the cyclic
\* controller, as far as the environment does not set them for one of the two only: the
\* FrameIDs have a variable each, the class and the timing have one for the request.
SettingsAgree(block, config, env) ==
  LET declared == env.declares[block.direction]
      used == env.uses[block.direction]
  IN /\ declared = used => block.frameId \in {config.frameId, ByDevice}
     /\ declared = Unset /\ used = Unset /\ env.class = Unset =>
          block.class = ClassOf(config.frameId)
     /\ \A t \in DOMAIN Timing :
          env.timing[t] \in {Unset, Timing[t]} => block.timing[t] = config.timing[t]

\* The request says what the cyclic controller works with: the places of the objects in
\* the frame, and the settings.
RequestIsKept(blocks, slots, env) ==
  \A b \in ToSet(OfType(blocks, "IOCR")) :
    LET declared(kind) == UNION {ToSet(a[kind]) : a \in ToSet(b.apis)}
        config == CyclicConfig(b.direction, slots, env)
    IN /\ IF b.direction = "in" THEN declared("objs") = ToSet(config.objs)
          ELSE declared("objs") \union declared("iocs") = ToSet(config.objs)
       /\ SettingsAgree(b, config, env)

\* A cyclic frame of the drive is understood with its tag and without, whatever the
\* environment.  An alarm is so too where the listener is patched; where it is not, one
\* with a tag is lost, and only one without is understood.
TagsUnderstood(env, payload) ==
  \A tagged \in BOOLEAN :
    /\ CyclicReceived(Frame(tagged, payload)) = payload
    /\ env.vlan \/ ~tagged => AlarmReceived(env, Frame(tagged, payload)) = payload
=============================================================================
