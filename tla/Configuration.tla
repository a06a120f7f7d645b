--------------------------- MODULE Configuration ----------------------------
(***************************************************************************)
(* How a configuration comes to be, is kept and is put to work: the        *)
(* configuration window and the device dialog (ui/), config.json           *)
(* (config.py), and what the gateway server and the PROFINET backend take  *)
(* from it when the services start (main.py).                              *)
(*                                                                         *)
(* A DeviceConfig is an object: the window, the dialog, the gateway server *)
(* and the backend all refer to the same ones.  `heap' has what is in      *)
(* each.  That the stop and the start of the services take time, and what  *)
(* else happens meanwhile, is in Services.                                 *)
(***************************************************************************)
EXTENDS ArRequest

CONSTANTS
  Setups,     \* [file, env, saved]: the GSDML file, the environment and what
              \* config.json holds at first
  Object,     \* the DeviceConfig objects there can be at a time
  MaxDevices, \* bound: devices on the canvas
  MaxDrives,  \* bound: Drive Objects in a rack
  MaxEdits,   \* bound: devices dropped and operations in dialogs
  Torn,       \* what is in a file that has not been written to the end
  None

ASSUME ConfigurationAssumption ==
  /\ IsFiniteSet(Object)
  /\ Setups \subseteq [file : Files, env : Environments, saved : Seq(DeviceConfigs)]
  /\ MaxDevices \in Nat /\ MaxDrives \in Nat /\ MaxEdits \in Nat
  /\ Torn \notin Seq(DeviceConfigs)
  /\ None \notin Object /\ None \notin DeviceConfigs

\* What is installed is in order: the GSDML file, and what an earlier process has saved.
ASSUME SetupsAssumption ==
  \A s \in Setups :
    /\ IdentsDiffer(s.file) /\ FillersNamed(s.file)
    /\ \A i \in DOMAIN s.saved : ConfigSound(s.saved[i], s.file)

VARIABLES
  setup,   \* the one of Setups this is
  gui,     \* where the GUI thread stands
  heap,    \* the contents of the DeviceConfig objects
  cfg,     \* AppConfig.devices, which the running services refer to
  canvas,  \* the devices in the configuration window
  dialog,  \* the device dialog: its object and the working copy of the rack
  json,    \* config.json
  tmp,     \* config.json.tmp
  io,      \* GatewayServer._io: the lengths of its buffers
  ds,      \* DeviceState.dos of each device, None until it has been resolved
  edits,   \* how many operations there have been in dialogs
  live     \* history: an object of the running configuration has been changed

configVars == <<setup, gui, heap, cfg, canvas, dialog, json, tmp, io, ds, edits, live>>
servicesState == <<cfg, io, ds>>

Contents(list) == [i \in DOMAIN list |-> heap[list[i]]]

\* What the window and the dialog know of the GSDML file.
Catalog == Modules(setup.file)
Variants == IF setup.file.daps = <<>> THEN {0} ELSE ToSet(setup.file.daps)

\* An object that nobody refers to any more is gone.
Collected(contents, lists) ==
  [o \in Object |-> IF o \in UNION {ToSet(l) : l \in lists} THEN contents[o] ELSE None]

ConfigurationTypeOK ==
  /\ setup \in Setups
  /\ gui \in {"down", "main", "window", "dialog", "write", "replace", "restart"}
  /\ heap \in [Object -> DeviceConfigs \union {None}]
  /\ \A list \in {cfg, canvas} :
       list \in Seq(Object) /\ IsInjective(list) /\ \A o \in ToSet(list) : heap[o] # None
  /\ dialog \in [object : Object \union {None}, rack : Seq(DriveObjects)]
  /\ json \in Seq(DeviceConfigs) \union {Torn}
  /\ tmp \in Seq(DeviceConfigs) \union {Torn, None}
  /\ io \in Seq([out : Nat, in : Nat]) /\ Len(io) = Len(cfg)
  /\ ds \in Seq({None} \union Seq(DataParts)) /\ Len(ds) = Len(cfg)
  /\ edits \in 0 .. MaxEdits
  /\ live \in BOOLEAN

ConfigurationInit ==
  /\ setup \in Setups
  /\ gui = "down"
  /\ heap = [o \in Object |-> None]
  /\ cfg = <<>>
  /\ canvas = <<>>
  /\ dialog = [object |-> None, rack |-> <<>>]
  /\ json = setup.saved
  /\ tmp = None
  /\ io = <<>>
  /\ ds = <<>>
  /\ edits = 0
  /\ live = FALSE

-----------------------------------------------------------------------------
(* The services, as far as they depend on the configuration. *)

\* Mutant: the buffers have the lengths of the single-telegram fields.
BuffersOfLegacy(configs) ==
  [i \in DOMAIN configs |-> [out |-> configs[i].legacy.out, in |-> configs[i].legacy.in]]

\* GatewayServer.configure.
Buffers(configs) ==
  [i \in DOMAIN configs |-> [out |-> TotalOut(configs[i]), in |-> TotalIn(configs[i])]]

\* start_services.
Started(configs) ==
  /\ io' = Buffers(configs)
  /\ ds' = [i \in DOMAIN configs |-> None]
  /\ live' = FALSE

\* configure_device, one device after the other, when it comes to build the topology
\* from the object as it is then.  Its GSDML file may be gone.
Resolve ==
  /\ gui # "down"
  /\ \E i \in DOMAIN ds, found \in BOOLEAN :
       /\ ds[i] = None
       /\ \A j \in 1 .. i - 1 : ds[j] # None
       /\ ds' = [ds EXCEPT ![i] =
                   ExpectedSlots(setup.file, found, heap[cfg[i]], setup.env).dos]
  /\ UNCHANGED <<setup, gui, heap, cfg, canvas, dialog, json, tmp, io, edits, live>>

\* main(): load_config makes an object of each entry, and the services start.  A file
\* that cannot be read is one without devices.
Launch ==
  LET saved == IF json = Torn THEN <<>> ELSE json IN
  /\ gui = "down"
  /\ \E list \in [DOMAIN saved -> Object] :
       /\ IsInjective(list)
       /\ cfg' = list
       /\ heap' = [o \in Object |-> IF o \in ToSet(list)
                                    THEN saved[CHOOSE i \in DOMAIN list : list[i] = o]
                                    ELSE None]
  /\ Started(saved)
  /\ gui' = "main"
  /\ UNCHANGED <<setup, canvas, dialog, json, tmp, edits>>

\* The process ends, at any moment.  What it leaves in the temporary file nobody reads.
Crash ==
  /\ gui # "down"
  /\ gui' = "down"
  /\ heap' = [o \in Object |-> None]
  /\ cfg' = <<>> /\ canvas' = <<>> /\ io' = <<>> /\ ds' = <<>>
  /\ dialog' = [object |-> None, rack |-> <<>>]
  /\ live' = FALSE
  /\ tmp' = IF tmp = None THEN None ELSE Torn
  /\ UNCHANGED <<setup, json, edits>>

-----------------------------------------------------------------------------
(* The configuration window. *)

\* load_from_configs: the objects in use go on the canvas.  One whose GSDML file is not
\* there is passed over.
OpenWindow ==
  /\ gui = "main"
  /\ gui' = "window"
  /\ \E kept \in SUBSET ToSet(cfg) : canvas' = Only(cfg, kept)
  /\ UNCHANGED <<setup, heap, dialog, json, tmp, edits, live, servicesState>>

\* Mutant: the devices stay on the canvas of a window that is gone.
CloseWindowKeepsCanvas ==
  /\ gui = "window"
  /\ gui' = "main"
  /\ heap' = Collected(heap, {cfg})
  /\ UNCHANGED <<setup, canvas, dialog, json, tmp, edits, live, servicesState>>

\* Cancel, which only closes the window.
CloseWindow ==
  /\ gui = "window"
  /\ gui' = "main"
  /\ canvas' = <<>>
  /\ heap' = Collected(heap, {cfg})
  /\ UNCHANGED <<setup, dialog, json, tmp, edits, live, servicesState>>

\* A device is dragged from the list of files onto the canvas: a new object.
Drop ==
  /\ gui = "window"
  /\ Len(canvas) < MaxDevices
  /\ edits < MaxEdits
  /\ edits' = edits + 1
  /\ \E o \in Object \ (ToSet(cfg) \union ToSet(canvas)), dap \in Variants :
       /\ heap' = [heap EXCEPT ![o] = NewDevice(Catalog, dap)]
       /\ canvas' = Append(canvas, o)
  /\ UNCHANGED <<setup, gui, dialog, json, tmp, live, servicesState>>

\* A device is taken off the canvas, by a right click.
TakeOff ==
  /\ gui = "window"
  /\ \E i \in DOMAIN canvas : canvas' = RemoveAt(canvas, i)
  /\ heap' = Collected(heap, {cfg, canvas'})
  /\ UNCHANGED <<setup, gui, dialog, json, tmp, edits, live, servicesState>>

\* The object changes, whoever else refers to it.
Change(object, config) ==
  /\ heap' = [heap EXCEPT ![object] = config]
  /\ live' = (live \/ (object \in ToSet(cfg) /\ heap[object] # config))

\* _load_identity: a variant that the file does not have is replaced in the object.
LoadIdentity(config) ==
  [config EXCEPT !.dap = IF setup.file.daps = <<>> THEN @ ELSE SelectedDap(setup.file, @)]

\* A double click opens the dialog with a copy of the rack.
OpenDialog ==
  /\ gui = "window"
  /\ gui' = "dialog"
  /\ \E o \in ToSet(canvas) :
       /\ dialog' = [object |-> o, rack |-> EffectiveRack(heap[o])]
       /\ Change(o, LoadIdentity(heap[o]))
  /\ UNCHANGED <<setup, canvas, json, tmp, edits, servicesState>>

\* _on_dap_change, in the object at once.
ChooseDap ==
  /\ gui = "dialog"
  /\ \E dap \in ToSet(setup.file.daps) :
       Change(dialog.object, [heap[dialog.object] EXCEPT !.dap = dap])
  /\ UNCHANGED <<setup, gui, canvas, dialog, json, tmp, edits, servicesState>>

\* Add Module, Add Submodule and Remove.
EditRack ==
  /\ gui = "dialog"
  /\ edits < MaxEdits
  /\ edits' = edits + 1
  /\ \E rack \in RackEdits(dialog.rack, Catalog) :
       /\ Len(rack) <= MaxDrives
       /\ dialog' = [dialog EXCEPT !.rack = rack]
  /\ UNCHANGED <<setup, gui, heap, canvas, json, tmp, live, servicesState>>

CloseDialog ==
  /\ gui' = "window"
  /\ dialog' = [object |-> None, rack |-> <<>>]

ApplyDialog ==
  /\ gui = "dialog"
  /\ CloseDialog
  /\ Change(dialog.object, ApplyRack(heap[dialog.object], dialog.rack))
  /\ UNCHANGED <<setup, canvas, json, tmp, edits, servicesState>>

CancelDialog ==
  /\ gui = "dialog"
  /\ CloseDialog
  /\ UNCHANGED <<setup, heap, canvas, json, tmp, edits, live, servicesState>>

-----------------------------------------------------------------------------
(* Apply & Restart: save_config, and then the services. *)

\* Mutant: the file is written in place.
OpenFile ==
  /\ gui = "window"
  /\ gui' = "write"
  /\ json' = Torn
  /\ UNCHANGED <<setup, heap, canvas, dialog, tmp, edits, live, servicesState>>

OpenTmp ==
  /\ gui = "window"
  /\ gui' = "write"
  /\ tmp' = Torn
  /\ UNCHANGED <<setup, heap, canvas, dialog, json, edits, live, servicesState>>

WriteTmp ==
  /\ gui = "write"
  /\ gui' = "replace"
  /\ tmp' = Contents(canvas)
  /\ UNCHANGED <<setup, heap, canvas, dialog, json, edits, live, servicesState>>

\* The disk is full: the exception ends the handler, and the window stays open.
WriteFails ==
  /\ gui = "write"
  /\ gui' = "window"
  /\ UNCHANGED <<setup, heap, canvas, dialog, json, tmp, edits, live, servicesState>>

Replace ==
  /\ gui = "replace"
  /\ gui' = "restart"
  /\ json' = tmp
  /\ tmp' = None
  /\ UNCHANGED <<setup, heap, canvas, dialog, edits, live, servicesState>>

\* Mutant: the services are started with the list that was loaded.
RestartWithOld ==
  /\ gui = "restart"
  /\ gui' = "main"
  /\ canvas' = <<>>
  /\ Started(Contents(cfg))
  /\ heap' = Collected(heap, {cfg})
  /\ UNCHANGED <<setup, cfg, dialog, json, tmp, edits>>

\* The list in use becomes the canvas's, the window closes, and the services restart.
Restart ==
  /\ gui = "restart"
  /\ gui' = "main"
  /\ cfg' = canvas
  /\ canvas' = <<>>
  /\ Started(Contents(canvas))
  /\ heap' = Collected(heap, {canvas})
  /\ UNCHANGED <<setup, dialog, json, tmp, edits>>

ConfigurationNext ==
  \/ Launch \/ Crash \/ Resolve
  \/ OpenWindow \/ CloseWindow \/ Drop \/ TakeOff
  \/ OpenDialog \/ ChooseDap \/ EditRack \/ ApplyDialog \/ CancelDialog
  \/ OpenTmp \/ WriteTmp \/ WriteFails \/ Replace \/ Restart

ConfigurationSpec == ConfigurationInit /\ [][ConfigurationNext]_configVars

-----------------------------------------------------------------------------
(* Correctness. *)

\* The frames of the client are split by lengths that three parts of the program have
\* taken from the configuration at different times: the buffers of the gateway server
\* when it was started, those which it slices a frame by when the frame comes, and the
\* process data of each device when its turn came to be connected.  They are the same,
\* unless the dialog has changed an object that is in use.
FrameSplitAgrees ==
  gui # "down" /\ ~live =>
    \A i \in DOMAIN cfg :
      LET config == heap[cfg[i]] IN
      /\ io[i].out = TotalOut(config) /\ io[i].in = TotalIn(config)
      /\ ds[i] # None =>
           io[i].out = Total(Outs(ds[i])) /\ io[i].in = Total(Ins(ds[i]))

\* Whenever the process ends, the next one finds a whole file ("atomic write: temp file +
\* replace, so a crash mid-write can't corrupt it", config.py:138).
NeverTorn == json # Torn

\* What the next process would start with is what this one runs, once the window is
\* closed, whatever has been tried in it, and unless an object in use was changed.
SavedIsRunning == gui = "main" /\ ~live => Contents(cfg) = json

\* The rack in the dialog is sound after any sequence of operations: no slot is used
\* twice, and no filler submodule is taken for a telegram (_next_slot, _is_telegram).
DialogRackSound == RackSound(dialog.rack, Catalog)

\* What a parsed file offers, and the requests and frames for every rack the dialog can
\* make of one that is saved, depend on nothing else: one look is enough.
Installed == gui = "down" /\ json = setup.saved /\ tmp = None /\ edits = 0 /\ ~live

\* parse_gsdml: whatever the file is like, each module offers telegrams, and each once.
CatalogIsSound == Installed => CatalogSound(setup.file)

\* The racks, and with them their topologies with the file there or gone.
Racks == UNION {RacksAfter(MaxEdits, EffectiveRack(setup.saved[i]), Catalog, MaxDrives) :
                  i \in DOMAIN setup.saved}
Topologies ==
  {ExpectedSlots(setup.file, found, [dap |-> 0, rack |-> rack, legacy |-> Head(rack)], setup.env) :
     found \in BOOLEAN, rack \in {r \in Racks : r # <<>>}}

Requests ==
  {[slots |-> t.slots, blocks |-> ConnectRequest(t.slots, setup.env)] : t \in Topologies}

\* _iocr_layout: in either frame no two fields share a byte, none is missing, and the
\* commissioned drive's frame is the one its comment gives.
EveryLayoutSound ==
  Installed => \A t \in Topologies : LayoutSound(t.slots) /\ CommissionedFrame(t.slots)

\* Every consumer status is sent as GOOD, the one at offset 0 included, which
\* profinet-py leaves BAD (profinet_ctrl.py:736).
EveryConsumerTold == Installed => \A t \in Topologies : ConsumersTold(t.slots)

\* What the client sends for a device gets to the drive's telegrams, and what the drive
\* sends gets back, whole and in order (write_raw_outputs, read_raw_inputs), as long as
\* the Drive Objects have the lengths of the telegram they are given.
ProcessDataSurvives ==
  Installed => \A t \in Topologies : SameLengths(t) =>
    /\ OutputsArrive(t)
    /\ InputsArrive(t, Total(Ins(t.dos)))

\* The parts of the Connect request agree with each other and with the cyclic controller
\* (profinet_ctrl.py:526, :860, :924): the submodules and their APIs, the places of the
\* objects, and the FrameIDs, the RT class and the timing as far as no variable of the
\* environment sets one side alone.  The drive's cyclic frames are understood with
\* their VLAN tag and without (:649), its alarms with the tag only where PN_CYCLIC_VLAN
\* is on (:841).
EveryRequestConsistent ==
  Installed =>
    /\ \A r \in Requests :
         /\ RequestConsistent(r.blocks, r.slots)
         /\ RequestIsKept(r.blocks, r.slots, setup.env)
    /\ TagsUnderstood(setup.env, <<"alarm">>)
=============================================================================
