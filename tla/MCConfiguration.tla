-------------------------- MODULE MCConfiguration ---------------------------
(* The configuration on small instances: GSDML files of the kinds that      *)
(* gsdml.py tells apart, environments, and what config.json holds.          *)
EXTENDS Configuration

ObjectSymmetry == Permutations(Object)

Text(lang, id, words) == [lang |-> lang, id |-> id, text |-> words]
Name(id) == [id |-> id, literal |-> {}]
Submodule(id, in, out) ==
  [id |-> id, ident |-> id, names |-> <<Name(id)>>, in |-> in, out |-> out]
Module(id, inline, useable, empty) ==
  [id |-> id, ident |-> id, names |-> <<>>, inline |-> inline, useable |-> useable,
   empty |-> empty]

\* A drive like the one that was commissioned: two texts for an id, of which the other
\* language would make a telegram of the access point; submodules that are no telegram
\* first; one that is referred to twice and one that the catalog does not have.
DriveFile ==
  [primary |-> TRUE,
   texts |-> << Text("other", 1, {}), Text("primary", 1, {"access point"}),
                Text("primary", 2, {"empty sub"}), Text("primary", 3, {"profisafe"}),
                Text("primary", 1, {}) >>,
   daps |-> <<1, 2>>,
   head |-> <<1, 8, 9, 10>>,
   modules |-> << Module(21, <<Submodule(1, 0, 0)>>, <<2, 3, 4, 4, 99>>, TRUE),
                  Module(22, <<>>, <<1, 2, 5>>, TRUE) >>,
   catalog |-> << Submodule(1, 0, 0), Submodule(2, 0, 0), Submodule(3, 6, 6),
                  Submodule(4, 4, 4), Submodule(5, 64, 64) >>]

\* No primary language, a module that lists nothing, and one telegram with inputs only.
PlainFile ==
  [primary |-> FALSE, texts |-> <<>>, daps |-> <<>>, head |-> <<1>>,
   modules |-> << Module(31, <<>>, <<>>, FALSE) >>,
   catalog |-> << Submodule(6, 2, 0), Submodule(7, 2, 3) >>]

\* No modules at all.
BareFile ==
  [primary |-> FALSE, texts |-> <<>>, daps |-> <<>>, head |-> <<>>, modules |-> <<>>,
   catalog |-> <<>>]

Default == [in |-> Unset, out |-> Unset]
DefaultTiming == [t \in DOMAIN Timing |-> Unset]
Env(module, telegram, empty, mode, vlan) ==
  [module |-> module, telegram |-> telegram, empty |-> empty, mode |-> mode,
   vlan |-> vlan, legacy |-> FALSE, class |-> Unset, declares |-> Default,
   uses |-> Default, timing |-> DefaultTiming]

\* An engineered FrameID for what the drive sends, another one declared for the outputs,
\* the class and some of the timing; PNIO.dll's send clock is 128.
Engineered(env) ==
  [env EXCEPT !.legacy = TRUE, !.class = 1, !.declares = [in |-> 33000, out |-> 33001],
              !.uses.in = 33000, !.timing.clock = 128, !.timing.watchdog = 3]

Config(dap, rack, legacy) == [dap |-> dap, rack |-> rack, legacy |-> legacy]

Legacy == DriveObject(1, 1, 22, 5, 64, 64)
Two == << DriveObject(1, 3, 22, 5, 64, 64), DriveObject(2, 3, 21, 4, 4, 4) >>

MCSetups ==
  { [file |-> DriveFile, env |-> Env(22, 5, TRUE, "rtc2", TRUE),
     saved |-> << Config(7, <<>>, Legacy) >>],
    [file |-> DriveFile, env |-> Env(21, 4, FALSE, "rtc1", FALSE),
     saved |-> << Config(1, Two, Two[1]) >>],
    [file |-> PlainFile, env |-> Engineered(Env(31, 6, TRUE, "rtc2", TRUE)),
     saved |-> << Config(0, <<>>, DriveObject(1, 1, 31, 7, 2, 3)) >>],
    [file |-> BareFile, env |-> Env(22, 5, TRUE, "rtc2", TRUE), saved |-> <<>>] }
=============================================================================
