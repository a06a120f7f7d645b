------------------------------- MODULE Gsdml -------------------------------
(***************************************************************************)
(* The device description (gsdml.py): what parse_gsdml makes of a GSDML    *)
(* file.                                                                   *)
(*                                                                         *)
(* A file is a record of                                                   *)
(*   primary   whether its text list has a PrimaryLanguage                 *)
(*   texts     its Text elements in order: [lang, id, text]                *)
(*   daps      the ids of its DeviceAccessPointItems                       *)
(*   head      the subslots of slot 0, the access point                    *)
(*   modules   its ModuleItems: [id, ident, names, inline, useable, empty] *)
(*   catalog   its SubmoduleItems: [id, ident, names, in, out]             *)
(* where names are the Name elements of an item, [id, literal].  A text is *)
(* the set of the words in it that the program looks for.                  *)
(***************************************************************************)
EXTENDS SequencesExt

NameItems == [id : Nat, literal : SUBSET STRING]
SubmoduleItems == [id : Nat, ident : Nat, names : Seq(NameItems), in : Nat, out : Nat]
ModuleItems ==
  [id : Nat, ident : Nat, names : Seq(NameItems), inline : Seq(SubmoduleItems),
   useable : Seq(Nat), empty : BOOLEAN]
Files ==
  [primary : BOOLEAN, texts : Seq([lang : STRING, id : Nat, text : SUBSET STRING]),
   daps : Seq(Nat), head : Seq(Nat), modules : Seq(ModuleItems),
   catalog : Seq(SubmoduleItems)]

\* The first element of the sequence that passes the test; it has one.
FirstThat(seq, Test(_)) == seq[SelectInSeq(seq, Test)]

\* The elements of the sequence that are in the set, in their order.
Only(seq, good) ==
  FoldLeft(LAMBDA kept, x : IF x \in good THEN Append(kept, x) ELSE kept, <<>>, seq)

-----------------------------------------------------------------------------
(* Names. *)

\* Mutant: every language counts, and the last text with an id wins.
TextMapOfAll(file) ==
  [id \in {t.id : t \in ToSet(file.texts)} |->
     file.texts[SelectLastInSeq(file.texts, LAMBDA t : t.id = id)].text]

\* _build_text_map: the first text with an id wins, in the primary language if
\* there is one.
TextMap(file) ==
  LET scope == Only(file.texts, {t \in ToSet(file.texts) : file.primary => t.lang = "primary"})
  IN [id \in {t.id : t \in ToSet(scope)} |->
        FirstThat(scope, LAMBDA t : t.id = id).text]

\* _resolve_name: the first Name that can be resolved or is given literally; or else
\* the item's own id, in which nobody looks for words.
ResolvedName(item, texts) ==
  LET Usable(name) == name.id \in DOMAIN texts \/ name.literal # {}
  IN IF ~\E name \in ToSet(item.names) : Usable(name) THEN {}
     ELSE LET name == FirstThat(item.names, Usable)
          IN IF name.id \in DOMAIN texts THEN texts[name.id] ELSE name.literal

-----------------------------------------------------------------------------
(* Modules and their telegrams. *)

\* id2name, from the names of the file's own items.
NameOf(file, item) == ResolvedName(item, TextMap(file))

\* SubmoduleInfo.
SubInfo(file, sub) ==
  [ident |-> sub.ident, name |-> NameOf(file, sub),
   in |-> sub.in, out |-> sub.out]

\* Mutant: a submodule is listed as often as it is referred to.
OnceOrMore(subs) == subs

\* A submodule is listed where it is met first.
Once(subs) ==
  FoldLeft(LAMBDA seen, sub :
             IF \E i \in DOMAIN seen : seen[i].id = sub.id THEN seen ELSE Append(seen, sub),
           <<>>, subs)

\* The submodules of a module: those written inside it, then those it refers to by an
\* id that the catalog has; one that has none gets the whole catalog.
Offered(file, module) ==
  LET known == Only(module.useable, {sub.id : sub \in ToSet(file.catalog)})
      found == [i \in DOMAIN known |->
                  FirstThat(file.catalog, LAMBDA sub : sub.id = known[i])]
      listed == Once(module.inline \o found)
  IN IF listed = <<>> THEN file.catalog ELSE listed

StandardTelegram1 == [ident |-> 1, name |-> {}, in |-> 4, out |-> 4]

\* The modules of the parsed device.  A file without modules gets one that offers the
\* catalog, or Standard Telegram 1.
Modules(file) ==
  LET infos(subs) == [i \in DOMAIN subs |-> SubInfo(file, subs[i])]
  IN IF file.modules # <<>>
     THEN [i \in DOMAIN file.modules |->
             [ident |-> file.modules[i].ident,
              submodules |-> infos(Offered(file, file.modules[i]))]]
     ELSE << [ident |-> 1,
              submodules |-> IF file.catalog = <<>> THEN <<StandardTelegram1>>
                             ELSE infos(file.catalog)] >>

\* get_module and get_submodule: the first with that ident, if there is one.
ModuleWith(modules, ident) == FirstThat(modules, LAMBDA m : m.ident = ident)
SubmoduleWith(module, ident) == FirstThat(module.submodules, LAMBDA s : s.ident = ident)

Idents(items) == {item.ident : item \in ToSet(items)}

\* select_dap: a variant that the file does not have is not selected.
SelectDap(file, selected, id) == IF id \in ToSet(file.daps) THEN id ELSE selected

\* The device variant that is selected when the file is parsed for a device that wants
\* this one; 0 when the file has none.
SelectedDap(file, wanted) ==
  IF file.daps = <<>> THEN 0 ELSE SelectDap(file, Head(file.daps), wanted)

-----------------------------------------------------------------------------
(* What a file promises, and what a parsed device must be like. *)

\* A module or a submodule is known by its ident, and a subslot of the access point is
\* there once.
IdentsDiffer(file) ==
  /\ \A i, j \in DOMAIN file.modules : file.modules[i].ident = file.modules[j].ident => i = j
  /\ \A i, j \in DOMAIN file.catalog : file.catalog[i].ident = file.catalog[j].ident => i = j
  /\ \A m \in ToSet(file.modules) :
       \A s, t \in ToSet(m.inline) \union ToSet(file.catalog) : s.ident = t.ident => s.id = t.id
  /\ IsInjective(file.head)

\* What a Name element says: the first text of the file's language with its id, if there
\* is one, or what is written in it.
TextsFor(file, id) ==
  {i \in DOMAIN file.texts :
     file.texts[i].id = id /\ (file.primary => file.texts[i].lang = "primary")}
Called(file, name) ==
  IF TextsFor(file, name.id) = {} THEN name.literal
  ELSE file.texts[Min(TextsFor(file, name.id))].text

\* Every module offers some telegram, none twice, and nothing its file does not know.
CatalogSound(file) ==
  \A i \in DOMAIN Modules(file) :
    LET subs == Modules(file)[i].submodules IN
    /\ subs # <<>> \/ file.catalog = <<>>
    /\ \A j, k \in DOMAIN subs : subs[j].ident = subs[k].ident => j = k
=============================================================================
