-------------------------------- MODULE Rack --------------------------------
(***************************************************************************)
(* The rack of a device (config.py, ui/device_dialog.py): its Drive        *)
(* Objects, each a module in a slot with a telegram in one of its          *)
(* subslots, and what the device dialog does to them.                      *)
(*                                                                         *)
(* A DeviceConfig is [dap, rack, legacy]: `legacy' stands for the fields   *)
(* of a single telegram that older files have, themselves a Drive Object.  *)
(***************************************************************************)
EXTENDS Gsdml

DriveObject(slot, subslot, module, telegram, in, out) ==
  [slot |-> slot, subslot |-> subslot, module |-> module, telegram |-> telegram,
   in |-> in, out |-> out]

DriveObjects ==
  [slot : Nat, subslot : Nat, module : Nat, telegram : Nat, in : Nat, out : Nat]
DeviceConfigs == [dap : Nat, rack : Seq(DriveObjects), legacy : DriveObjects]

-----------------------------------------------------------------------------
(* DeviceConfig. *)

\* effective_drive_objects.
EffectiveRack(config) == IF config.rack # <<>> THEN config.rack ELSE <<config.legacy>>

Outs(items) == [i \in DOMAIN items |-> items[i].out]
Ins(items) == [i \in DOMAIN items |-> items[i].in]
Total(lengths) == MapThenSumSet(LAMBDA i : lengths[i], DOMAIN lengths)

\* total_output_length and total_input_length.
TotalOut(config) == Total(Outs(EffectiveRack(config)))
TotalIn(config) == Total(Ins(EffectiveRack(config)))

\* sync_legacy_from_rack.
SyncLegacy(config) == [config EXCEPT !.legacy = Head(EffectiveRack(config))]

-----------------------------------------------------------------------------
(* The dialog. *)

\* _is_telegram: the access point and the empty submodule are none.
Fillers == {"access point", "empty sub"}
IsTelegram(sub) == sub.name \cap Fillers = {}
Telegrams(module) ==
  Only(module.submodules, {s \in ToSet(module.submodules) : IsTelegram(s)})

\* _next_slot: the first free one.
NextSlot(rack) == Min((1 .. Len(rack) + 1) \ {rack[i].slot : i \in DOMAIN rack})

\* What _do_add_module chooses from: a telegram, without PROFIsafe if there is one.
TelegramChoices(module) ==
  LET all == Telegrams(module)
      plain == Only(all, {s \in ToSet(all) : "profisafe" \notin s.name})
  IN IF plain # <<>> THEN plain ELSE all

AddModule(rack, module) ==
  LET choices == TelegramChoices(module)
      slot == NextSlot(rack)
  IN Append(rack, IF choices = <<>>
                  THEN DriveObject(slot, 3, module.ident, 0, 4, 4)
                  ELSE DriveObject(slot, 3, module.ident, Head(choices).ident,
                                   Head(choices).in, Head(choices).out))

\* _do_set_telegram.
SetTelegram(rack, i, sub) ==
  [rack EXCEPT ![i] =
     DriveObject(rack[i].slot, 3, rack[i].module, sub.ident, sub.in, sub.out)]

\* _add_submodule: the telegrams to choose from are those of the first module with the
\* Drive Object's ident.
Settable(rack, i, modules) ==
  IF rack[i].module \in Idents(modules)
  THEN ToSet(Telegrams(ModuleWith(modules, rack[i].module))) ELSE {}

\* _on_rack_select: the submodule whose details are shown for a Drive Object.
Details(rack, i, modules) ==
  SubmoduleWith(ModuleWith(modules, rack[i].module), rack[i].telegram)

\* One operation on the rack: add, set telegram, or _remove_selected.
RackEdits(rack, modules) ==
  {AddModule(rack, m) : m \in ToSet(modules)}
    \union (UNION {{SetTelegram(rack, i, s) : s \in Settable(rack, i, modules)} :
                     i \in DOMAIN rack})
    \union {RemoveAt(rack, i) : i \in DOMAIN rack}

\* What n operations can make of a rack, as long as it keeps to `max' Drive Objects.
RacksAfter(n, first, modules, max) ==
  LET after[k \in 0 .. n] ==
        IF k = 0 THEN {first}
        ELSE after[k - 1] \union
             {r \in UNION {RackEdits(q, modules) : q \in after[k - 1]} : Len(r) <= max}
  IN after[n]

\* _on_apply, as far as the rack goes.
ApplyRack(config, rack) == SyncLegacy([config EXCEPT !.rack = rack])

\* A device dropped on the canvas: the variant that was selected last, and for its
\* telegram the first submodule of the first module, whatever that is.
NewDevice(modules, dap) ==
  LET subs == Head(modules).submodules
      sub == IF subs = <<>> THEN [ident |-> 0, in |-> 4, out |-> 4] ELSE Head(subs)
  IN [dap |-> dap, rack |-> <<>>,
      legacy |-> DriveObject(1, 1, Head(modules).ident, sub.ident, sub.in, sub.out)]

-----------------------------------------------------------------------------
(* What a rack must be like. *)

\* The submodules without data are called what they are by the first of their names that
\* says anything.
FillersNamed(file) ==
  \A sub \in ToSet(file.catalog) \union UNION {ToSet(m.inline) : m \in ToSet(file.modules)} :
    sub.in + sub.out = 0 =>
      \E k \in DOMAIN sub.names :
        /\ Called(file, sub.names[k]) \cap Fillers # {}
        /\ \A j \in 1 .. k - 1 :
             TextsFor(file, sub.names[j].id) = {} /\ sub.names[j].literal = {}

\* No two Drive Objects share a slot, and what the dialog has put into subslot 3 of one
\* is a telegram of its module, the one whose details are shown, with the lengths it has
\* there, and carries data: it is not one of the fillers, which only their names tell apart.
SlotsDiffer(rack) == \A i, j \in DOMAIN rack : rack[i].slot = rack[j].slot => i = j

TelegramSet(rack, i, modules) ==
  /\ rack[i].in + rack[i].out > 0
  /\ LET s == Details(rack, i, modules) IN
     /\ s \in Settable(rack, i, modules)
     /\ s.ident = rack[i].telegram /\ s.in = rack[i].in /\ s.out = rack[i].out

RackSound(rack, modules) ==
  /\ SlotsDiffer(rack)
  /\ \A i \in DOMAIN rack :
       rack[i].subslot = 3 /\ rack[i].telegram # 0 => TelegramSet(rack, i, modules)

\* The racks a configuration can open the dialog with: the one it has, or the one of the
\* fields of older files.
RacksOf(config) == {EffectiveRack(config), <<config.legacy>>}

ConfigSound(config, file) ==
  \A rack \in RacksOf(config) :
    /\ RackSound(rack, Modules(file))
    /\ \A i \in DOMAIN rack : rack[i].slot > 0
=============================================================================
