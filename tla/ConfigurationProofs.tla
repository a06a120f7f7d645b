------------------------ MODULE ConfigurationProofs -------------------------
(***************************************************************************)
(* Proofs about the configuration: the invariants of the window, the       *)
(* dialog, the file and the services, for GSDML files, racks and canvases  *)
(* of any size.                                                            *)
(***************************************************************************)
EXTENDS Configuration, DeviceProofs

-----------------------------------------------------------------------------
(* The invariant. *)

\* The contents of listed objects, and that each of them is there, once.
ContentsIn(list, contents) == [i \in DOMAIN list |-> contents[list[i]]]

Listed(list, contents) ==
  /\ list \in Seq(Object) /\ IsInjective(list)
  /\ \A o \in ToSet(list) : contents[o] # None

Heaps == [Object -> DeviceConfigs \union {None}]

\* ConfigurationTypeOK in three parts.
PlainTypes ==
  /\ setup \in Setups
  /\ gui \in {"down", "main", "window", "dialog", "write", "replace", "restart"}
  /\ heap \in Heaps
  /\ dialog \in [object : Object \union {None}, rack : Seq(DriveObjects)]
  /\ json \in Seq(DeviceConfigs) \union {Torn}
  /\ tmp \in Seq(DeviceConfigs) \union {Torn, None}
  /\ edits \in 0 .. MaxEdits
  /\ live \in BOOLEAN

ListTypes == Listed(cfg, heap) /\ Listed(canvas, heap)

ServiceTypes ==
  /\ io \in Seq([out : Nat, in : Nat]) /\ Len(io) = Len(cfg)
  /\ ds \in Seq({None} \union Seq(DataParts)) /\ Len(ds) = Len(cfg)

\* What is open agrees with where the GUI thread stands.
WindowsAgree ==
  /\ gui \in {"down", "main"} => canvas = <<>>
  /\ gui = "down" => cfg = <<>>
  /\ gui = "dialog" => dialog.object \in ToSet(canvas)

\* What has been written, as far as the thread has got.
Written ==
  /\ NeverTorn
  /\ gui = "replace" => tmp = ContentsIn(canvas, heap)
  /\ gui = "restart" => json = ContentsIn(canvas, heap)
  /\ gui \notin {"down", "restart"} /\ ~live => json = ContentsIn(cfg, heap)

\* The buffers and the process data that has been resolved are those of the objects in use.
SplitAs(dos, config) ==
  Outs(dos) = Outs(EffectiveRack(config)) /\ Ins(dos) = Ins(EffectiveRack(config))

Split ==
  gui # "down" /\ ~live =>
    /\ io = Buffers(ContentsIn(cfg, heap))
    /\ \A i \in DOMAIN ds : ds[i] # None => SplitAs(ds[i], heap[cfg[i]])

ConfigurationInv == ConfigurationTypeOK /\ WindowsAgree /\ Written /\ Split

LEMMA TypeParts ==
  /\ ConfigurationTypeOK <=> PlainTypes /\ ListTypes /\ ServiceTypes
  /\ ConfigurationTypeOK' <=> PlainTypes' /\ ListTypes' /\ ServiceTypes'
BY DEF ConfigurationTypeOK, PlainTypes, ListTypes, ServiceTypes, Listed, Heaps

LEMMA BuffersTyped ==
  ASSUME NEW configs \in Seq(DeviceConfigs)
  PROVE  /\ Buffers(configs) \in Seq([out : Nat, in : Nat])
         /\ Len(Buffers(configs)) = Len(configs)
         /\ \A i \in 1 .. Len(configs) :
              /\ Buffers(configs)[i].out = TotalOut(configs[i])
              /\ Buffers(configs)[i].in = TotalIn(configs[i])
<1>1. DOMAIN configs = 1 .. Len(configs) /\ Len(configs) \in Nat
  OBVIOUS
<1>2. \A i \in 1 .. Len(configs) :
        TotalOut(configs[i]) \in Nat /\ TotalIn(configs[i]) \in Nat
  <2>1. \A i \in 1 .. Len(configs) : configs[i] \in DeviceConfigs
    OBVIOUS
  <2> QED
    BY <2>1, TotalsTyped
<1>3. /\ Buffers(configs) \in [1 .. Len(configs) -> [out : Nat, in : Nat]]
      /\ \A i \in 1 .. Len(configs) :
           /\ Buffers(configs)[i].out = TotalOut(configs[i])
           /\ Buffers(configs)[i].in = TotalIn(configs[i])
  BY <1>1, <1>2 DEF Buffers
<1> DEFINE Lengths == [out : Nat, in : Nat]
           buffers == Buffers(configs)
<1>4. buffers \in [1 .. Len(configs) -> Lengths]
  BY <1>3
<1> HIDE DEF buffers, Lengths
<1>5. buffers \in Seq(Lengths) /\ Len(buffers) = Len(configs)
  BY <1>1, <1>4
<1> QED
  BY <1>3, <1>5 DEF buffers, Lengths

LEMMA ContentsTyped ==
  ASSUME NEW contents \in Heaps, NEW list, Listed(list, contents)
  PROVE  /\ ContentsIn(list, contents) \in Seq(DeviceConfigs)
         /\ Len(ContentsIn(list, contents)) = Len(list)
         /\ \A i \in 1 .. Len(list) :
              /\ ContentsIn(list, contents)[i] = contents[list[i]]
              /\ list[i] \in ToSet(list) /\ list[i] \in Object
              /\ contents[list[i]] \in DeviceConfigs
<1>1. list \in Seq(Object) /\ DOMAIN list = 1 .. Len(list) /\ Len(list) \in Nat
  BY DEF Listed
<1>2. ASSUME NEW i \in 1 .. Len(list)
      PROVE  list[i] \in ToSet(list) /\ list[i] \in Object /\ contents[list[i]] \in DeviceConfigs
  <2>1. list[i] \in ToSet(list) /\ list[i] \in Object
    BY <1>1 DEF ToSet
  <2>2. contents[list[i]] # None
    BY <2>1 DEF Listed
  <2> QED
    BY <2>1, <2>2 DEF Heaps
<1>3. /\ ContentsIn(list, contents) \in [1 .. Len(list) -> DeviceConfigs]
      /\ \A i \in 1 .. Len(list) : ContentsIn(list, contents)[i] = contents[list[i]]
  BY <1>1, <1>2 DEF ContentsIn
<1> DEFINE all == ContentsIn(list, contents)
<1> HIDE DEF all
<1>4. all \in [1 .. Len(list) -> DeviceConfigs]
  BY <1>3 DEF all
<1>5. all \in Seq(DeviceConfigs) /\ Len(all) = Len(list)
  BY <1>1, <1>4
<1> QED
  BY <1>2, <1>3, <1>5 DEF all

LEMMA ContentsSame ==
  ASSUME NEW a, NEW b, NEW list, Listed(list, a), \A o \in ToSet(list) : b[o] = a[o]
  PROVE  Listed(list, b) /\ ContentsIn(list, b) = ContentsIn(list, a)
<1>1. \A i \in DOMAIN list : list[i] \in ToSet(list)
  BY DEF ToSet
<1> QED
  BY <1>1 DEF Listed, ContentsIn

LEMMA CollectedIs ==
  ASSUME NEW contents \in Heaps, NEW lists
  PROVE  /\ Collected(contents, lists) \in Heaps
         /\ \A l \in lists : \A o \in ToSet(l) \cap Object :
              Collected(contents, lists)[o] = contents[o]
BY DEF Collected, Heaps

LEMMA CollectedSame ==
  ASSUME NEW contents \in Heaps, NEW lists, NEW l \in lists, Listed(l, contents)
  PROVE  /\ Listed(l, Collected(contents, lists))
         /\ ContentsIn(l, Collected(contents, lists)) = ContentsIn(l, contents)
<1>1. \A o \in ToSet(l) : o \in Object
  BY DEF Listed, ToSet
<1>2. \A o \in ToSet(l) : Collected(contents, lists)[o] = contents[o]
  BY <1>1, CollectedIs
<1> QED
  BY <1>2, ContentsSame

LEMMA NothingListed ==
  ASSUME NEW contents
  PROVE  Listed(<<>>, contents) /\ ContentsIn(<<>>, contents) = <<>>
<1>1. ToSet(<<>>) = {} /\ DOMAIN <<>> = {} /\ <<>> \in Seq(Object)
  BY DEF ToSet
<1>2. ContentsIn(<<>>, contents) = <<>>
  BY <1>1 DEF ContentsIn
<1> QED
  BY <1>1, <1>2 DEF Listed, IsInjective

LEMMA ConfigurationInitial == ConfigurationInit => ConfigurationInv
<1> SUFFICES ASSUME ConfigurationInit PROVE ConfigurationInv
  OBVIOUS
<1> USE DEF ConfigurationInit
<1>1. setup.saved \in Seq(DeviceConfigs)
  BY ConfigurationAssumption
<1>2. PlainTypes
  <2>1. dialog \in [object : Object \union {None}, rack : Seq(DriveObjects)]
    BY EmptySeq
  <2>2. heap \in Heaps
    BY DEF Heaps
  <2>3. edits \in 0 .. MaxEdits
    BY ConfigurationAssumption
  <2> QED
    BY <1>1, <2>1, <2>2, <2>3 DEF PlainTypes
<1>3. ListTypes
  BY NothingListed DEF ListTypes
<1>4. ServiceTypes
  BY DEF ServiceTypes
<1>5. WindowsAgree /\ Split
  BY DEF WindowsAgree, Split
<1>6. Written
  BY <1>1, ConfigurationAssumption DEF Written, NeverTorn
<1> QED
  BY <1>2, <1>3, <1>4, <1>5, <1>6, TypeParts DEF ConfigurationInv

LEMMA LaunchStep == ASSUME ConfigurationInv, Launch PROVE ConfigurationInv'
<1> DEFINE n == Len(json)
<1>1. PlainTypes /\ ListTypes /\ ServiceTypes /\ WindowsAgree /\ Written
  BY TypeParts DEF ConfigurationInv
<1>2. json \in Seq(DeviceConfigs) /\ json # Torn
  BY <1>1 DEF PlainTypes, Written, NeverTorn
<1>3. DOMAIN json = 1 .. n /\ n \in Nat
  BY <1>2
<1>4. PICK list \in [DOMAIN json -> Object] :
        /\ IsInjective(list)
        /\ cfg' = list
        /\ heap' = [o \in Object |-> IF o \in ToSet(list)
                                     THEN json[CHOOSE i \in DOMAIN list : list[i] = o]
                                     ELSE None]
  BY <1>2 DEF Launch
<1>5. /\ io' = Buffers(json) /\ ds' = [i \in DOMAIN json |-> None] /\ live' = FALSE
      /\ gui = "down" /\ gui' = "main"
      /\ UNCHANGED <<setup, canvas, dialog, json, tmp, edits>>
  BY <1>2 DEF Launch, Started
<1>6. \A i \in 1 .. n : json[i] \in DeviceConfigs
  BY <1>2
<1> HIDE DEF n
<1>7. list \in Seq(Object) /\ Len(list) = n /\ DOMAIN list = 1 .. n
  BY <1>3, <1>4
<1>8. ASSUME NEW i \in 1 .. n
      PROVE  list[i] \in ToSet(list) /\ heap'[list[i]] = json[i]
  <2>1. list[i] \in ToSet(list) /\ list[i] \in Object
    BY <1>7 DEF ToSet
  <2>2. (CHOOSE j \in DOMAIN list : list[j] = list[i]) = i
    BY <1>4, <1>7 DEF IsInjective
  <2> QED
    BY <1>4, <2>1, <2>2
<1>9. \A o \in ToSet(list) : \E i \in 1 .. n : o = list[i]
  BY <1>7 DEF ToSet
<1>10. \A o \in ToSet(list) : heap'[o] \in DeviceConfigs
  BY <1>6, <1>8, <1>9
<1>11. heap' \in Heaps
  <2>1. \A o \in Object : o \notin ToSet(list) => heap'[o] = None
    BY <1>4
  <2>2. \A o \in Object : heap'[o] \in DeviceConfigs \union {None}
    BY <1>10, <2>1
  <2>3. heap' = [o \in Object |-> heap'[o]]
    BY <1>4
  <2> QED
    BY <2>2, <2>3 DEF Heaps
<1>12. Listed(list, heap')
  <2>1. \A o \in ToSet(list) : heap'[o] # None
    BY <1>10, ConfigurationAssumption
  <2> QED
    BY <1>4, <1>7, <2>1 DEF Listed
<1>13. ContentsIn(list, heap') = json
  <2>1. ContentsIn(list, heap') = [i \in 1 .. n |-> heap'[list[i]]]
    BY <1>7 DEF ContentsIn
  <2>2. json = [i \in 1 .. n |-> json[i]]
    BY <1>2, <1>3
  <2> QED
    BY <1>8, <2>1, <2>2
<1>14. canvas' = <<>>
  BY <1>1, <1>5 DEF WindowsAgree
<1>15. PlainTypes'
  BY <1>1, <1>5, <1>11 DEF PlainTypes
<1>16. ListTypes'
  BY <1>4, <1>12, <1>14, NothingListed DEF ListTypes
<1>17. ds' \in Seq({None} \union Seq(DataParts)) /\ Len(ds') = n
       /\ \A i \in DOMAIN ds' : ds'[i] = None
  <2>1. ds' \in [1 .. n -> {None} \union Seq(DataParts)] /\ \A i \in DOMAIN ds' : ds'[i] = None
    BY <1>3, <1>5
  <2> QED
    BY <1>3, <2>1
<1>18. ServiceTypes'
  BY <1>2, <1>4, <1>5, <1>7, <1>17, BuffersTyped DEF ServiceTypes, n
<1>19. WindowsAgree'
  BY <1>5, <1>14 DEF WindowsAgree
<1>20. Written'
  BY <1>2, <1>4, <1>5, <1>13 DEF Written, NeverTorn
<1>21. Split'
  BY <1>4, <1>5, <1>13, <1>17 DEF Split
<1> QED
  BY <1>15, <1>16, <1>18, <1>19, <1>20, <1>21, TypeParts DEF ConfigurationInv

LEMMA CrashStep == ASSUME ConfigurationInv, Crash PROVE ConfigurationInv'
<1>1. PlainTypes /\ ListTypes /\ ServiceTypes /\ WindowsAgree /\ Written
  BY TypeParts DEF ConfigurationInv
<1>2. /\ gui' = "down" /\ heap' = [o \in Object |-> None]
      /\ cfg' = <<>> /\ canvas' = <<>> /\ io' = <<>> /\ ds' = <<>>
      /\ dialog' = [object |-> None, rack |-> <<>>]
      /\ live' = FALSE
      /\ tmp' = IF tmp = None THEN None ELSE Torn
      /\ UNCHANGED <<setup, json, edits>>
  BY DEF Crash
<1>3. PlainTypes'
  <2>1. dialog' \in [object : Object \union {None}, rack : Seq(DriveObjects)]
    BY <1>2, EmptySeq
  <2>2. heap' \in Heaps
    BY <1>2 DEF Heaps
  <2>3. tmp' \in Seq(DeviceConfigs) \union {Torn, None}
    BY <1>2
  <2> QED
    BY <1>1, <1>2, <2>1, <2>2, <2>3 DEF PlainTypes
<1>4. ListTypes'
  BY <1>2, NothingListed DEF ListTypes
<1>5. ServiceTypes'
  BY <1>2 DEF ServiceTypes
<1>6. WindowsAgree' /\ Written' /\ Split'
  BY <1>1, <1>2 DEF WindowsAgree, Written, NeverTorn, Split
<1> QED
  BY <1>3, <1>4, <1>5, <1>6, TypeParts DEF ConfigurationInv

LEMMA ResolveStep == ASSUME ConfigurationInv, Resolve PROVE ConfigurationInv'
<1>1. PlainTypes /\ ListTypes /\ ServiceTypes /\ WindowsAgree /\ Written /\ Split
  BY TypeParts DEF ConfigurationInv
<1>2. PICK i \in DOMAIN ds, found \in BOOLEAN :
        ds' = [ds EXCEPT ![i] = ExpectedSlots(setup.file, found, heap[cfg[i]], setup.env).dos]
  BY DEF Resolve
<1>3. UNCHANGED <<setup, gui, heap, cfg, canvas, dialog, json, tmp, io, edits, live>>
  BY DEF Resolve
<1> DEFINE dos == ExpectedSlots(setup.file, found, heap[cfg[i]], setup.env).dos
<1>4. ds \in Seq({None} \union Seq(DataParts)) /\ Len(ds) = Len(cfg) /\ i \in 1 .. Len(ds)
  BY <1>1 DEF ServiceTypes
<1>5. heap[cfg[i]] \in DeviceConfigs
  <2>1. Listed(cfg, heap) /\ heap \in Heaps
    BY <1>1 DEF ListTypes, PlainTypes
  <2>2. i \in 1 .. Len(cfg)
    BY <1>4
  <2> QED
    BY <2>1, <2>2, ContentsTyped
<1>6. dos \in Seq(DataParts) /\ SplitAs(dos, heap[cfg[i]])
  BY <1>5, PartsOf DEF SplitAs
<1> HIDE DEF dos
<1>7. /\ ds' \in Seq({None} \union Seq(DataParts)) /\ Len(ds') = Len(ds)
      /\ \A k \in 1 .. Len(ds) : ds'[k] = IF k = i THEN dos ELSE ds[k]
  <2>1. dos \in {None} \union Seq(DataParts) /\ ds' = [ds EXCEPT ![i] = dos]
    BY <1>2, <1>6 DEF dos
  <2> QED
    BY <1>4, <2>1, ExceptSeq
<1>8. PlainTypes' /\ ListTypes' /\ WindowsAgree' /\ Written'
  BY <1>1, <1>3 DEF PlainTypes, ListTypes, WindowsAgree, Written, NeverTorn
<1>9. ServiceTypes'
  BY <1>1, <1>3, <1>4, <1>7 DEF ServiceTypes
<1>10. Split'
  <2>1. DOMAIN ds = 1 .. Len(ds) /\ DOMAIN ds' = 1 .. Len(ds)
    BY <1>4, <1>7
  <2>2. SUFFICES ASSUME gui # "down", ~live
                 PROVE  /\ io' = Buffers(ContentsIn(cfg', heap'))
                        /\ \A k \in DOMAIN ds' : ds'[k] # None => SplitAs(ds'[k], heap'[cfg'[k]])
    BY <1>3 DEF Split
  <2>3. /\ io = Buffers(ContentsIn(cfg, heap))
        /\ \A k \in DOMAIN ds : ds[k] # None => SplitAs(ds[k], heap[cfg[k]])
    BY <1>1, <2>2 DEF Split
  <2>4. ASSUME NEW k \in 1 .. Len(ds), ds'[k] # None PROVE SplitAs(ds'[k], heap[cfg[k]])
    <3>1. CASE k = i
      BY <1>6, <1>7, <3>1
    <3>2. CASE k # i
      BY <1>7, <2>1, <2>3, <2>4, <3>2
    <3> QED
      BY <3>1, <3>2
  <2> QED
    BY <1>3, <2>1, <2>3, <2>4
<1> QED
  BY <1>8, <1>9, <1>10, TypeParts DEF ConfigurationInv

\* What the services hold is kept when nothing that is in use has changed.
LEMMA SplitKept ==
  ASSUME ConfigurationInv, UNCHANGED <<cfg, io, ds>>, gui # "down", live => live',
         ~live' => \A o \in ToSet(cfg) : heap'[o] = heap[o]
  PROVE  /\ ServiceTypes' /\ Split'
         /\ ~live' => ContentsIn(cfg', heap') = ContentsIn(cfg, heap)
<1>1. Listed(cfg, heap) /\ ServiceTypes /\ Split
  BY TypeParts DEF ConfigurationInv, ListTypes
<1>2. ServiceTypes'
  BY <1>1 DEF ServiceTypes
<1>3. ASSUME ~live' PROVE ContentsIn(cfg', heap') = ContentsIn(cfg, heap)
  BY <1>1, <1>3, ContentsSame
<1>4. Split'
  <2>1. SUFFICES ASSUME ~live'
                 PROVE  /\ io' = Buffers(ContentsIn(cfg', heap'))
                        /\ \A k \in DOMAIN ds' : ds'[k] # None => SplitAs(ds'[k], heap'[cfg'[k]])
    BY DEF Split
  <2>2. /\ io = Buffers(ContentsIn(cfg, heap))
        /\ \A k \in DOMAIN ds : ds[k] # None => SplitAs(ds[k], heap[cfg[k]])
    BY <1>1, <2>1 DEF Split
  <2>3. \A k \in DOMAIN ds : cfg[k] \in ToSet(cfg)
    <3>1. DOMAIN ds = 1 .. Len(cfg) /\ DOMAIN cfg = 1 .. Len(cfg)
      BY <1>1 DEF ServiceTypes, Listed
    <3> QED
      BY <3>1 DEF ToSet
  <2>4. \A k \in DOMAIN ds : heap'[cfg'[k]] = heap[cfg[k]]
    BY <2>1, <2>3
  <2> QED
    BY <1>3, <2>1, <2>2, <2>4
<1> QED
  BY <1>2, <1>3, <1>4

LEMMA InUseKept ==
  ASSUME ConfigurationInv, UNCHANGED <<cfg, io, ds, json>>, gui \notin {"down", "restart"},
         gui' \notin {"down", "replace", "restart"}, live => live',
         ~live' => \A o \in ToSet(cfg) : heap'[o] = heap[o]
  PROVE  ServiceTypes' /\ Split' /\ Written'
<1>1. Written
  BY DEF ConfigurationInv
<1>2. /\ ServiceTypes' /\ Split'
      /\ ~live' => ContentsIn(cfg', heap') = ContentsIn(cfg, heap)
  BY SplitKept
<1>3. Written'
  BY <1>1, <1>2 DEF Written, NeverTorn
<1> QED
  BY <1>2, <1>3

LEMMA OpenWindowStep == ASSUME ConfigurationInv, OpenWindow PROVE ConfigurationInv'
<1>1. PlainTypes /\ ListTypes /\ WindowsAgree
  BY TypeParts DEF ConfigurationInv
<1>2. PICK kept : canvas' = Only(cfg, kept)
  BY DEF OpenWindow
<1>3. /\ gui = "main" /\ gui' = "window"
      /\ UNCHANGED <<setup, heap, dialog, json, tmp, edits, live, cfg, io, ds>>
  BY DEF OpenWindow, servicesState
<1>4. PlainTypes'
  BY <1>1, <1>3 DEF PlainTypes
<1>5. Listed(cfg, heap) /\ cfg \in Seq(Object) /\ IsInjective(cfg)
  BY <1>1 DEF ListTypes, Listed
<1>6. /\ canvas' \in Seq(Object) /\ IsInjective(canvas')
      /\ \A k \in DOMAIN canvas' : canvas'[k] \in ToSet(cfg)
  BY <1>2, <1>5, OnlyElements
<1>7. \A o \in ToSet(canvas') : o \in ToSet(cfg)
  BY <1>6 DEF ToSet
<1>8. ListTypes'
  BY <1>3, <1>5, <1>6, <1>7 DEF ListTypes, Listed
<1>9. ServiceTypes' /\ Split' /\ Written'
  BY <1>3, InUseKept
<1>10. WindowsAgree'
  BY <1>3 DEF WindowsAgree
<1> QED
  BY <1>4, <1>8, <1>9, <1>10, TypeParts DEF ConfigurationInv

LEMMA CloseWindowStep == ASSUME ConfigurationInv, CloseWindow PROVE ConfigurationInv'
<1>1. PlainTypes /\ ListTypes /\ WindowsAgree
  BY TypeParts DEF ConfigurationInv
<1>2. /\ gui = "window" /\ gui' = "main" /\ canvas' = <<>>
      /\ heap' = Collected(heap, {cfg})
      /\ UNCHANGED <<setup, dialog, json, tmp, edits, live, cfg, io, ds>>
  BY DEF CloseWindow, servicesState
<1>3. heap \in Heaps /\ Listed(cfg, heap) /\ cfg \in {cfg}
  BY <1>1 DEF PlainTypes, ListTypes
<1>4. heap' \in Heaps /\ Listed(cfg, heap')
  BY <1>2, <1>3, CollectedIs, CollectedSame
<1>5. \A o \in ToSet(cfg) : heap'[o] = heap[o]
  <2>1. \A o \in ToSet(cfg) : o \in ToSet(cfg) \cap Object
    BY <1>3 DEF Listed, ToSet
  <2> QED
    BY <1>2, <1>3, <2>1, CollectedIs
<1>6. PlainTypes'
  BY <1>1, <1>2, <1>4 DEF PlainTypes
<1>7. ListTypes'
  BY <1>2, <1>4, NothingListed DEF ListTypes
<1>8. ServiceTypes' /\ Split' /\ Written'
  BY <1>2, <1>5, InUseKept
<1>9. WindowsAgree'
  BY <1>2 DEF WindowsAgree
<1> QED
  BY <1>6, <1>7, <1>8, <1>9, TypeParts DEF ConfigurationInv

\* What the window knows of the GSDML file.
LEMMA VariantsTyped ==
  ASSUME PlainTypes
  PROVE  /\ setup.file \in Files /\ Variants \subseteq Nat
         /\ \A dap \in Nat : SelectedDap(setup.file, dap) \in Nat
         /\ Catalog \in Seq(ParsedModules(setup.file)) /\ Catalog # <<>>
<1>1. setup.file \in Files
  BY ConfigurationAssumption DEF PlainTypes
<1>2. setup.file.daps \in Seq(Nat)
  BY <1>1 DEF Files
<1>3. ToSet(setup.file.daps) \subseteq Nat
  <2>1. \A dap \in ToSet(setup.file.daps) : dap \in Nat
    BY <1>2, ElementsOf
  <2> QED
    BY <2>1
<1>4. setup.file.daps # <<>> => Head(setup.file.daps) \in Nat
  BY <1>2
<1>5. Variants \subseteq Nat /\ \A dap \in Nat : SelectedDap(setup.file, dap) \in Nat
  BY <1>3, <1>4 DEF Variants, SelectedDap, SelectDap
<1> QED
  BY <1>1, <1>5, ModulesTyped DEF Catalog

LEMMA DropStep == ASSUME ConfigurationInv, Drop PROVE ConfigurationInv'
<1>1. PlainTypes /\ ListTypes /\ WindowsAgree
  BY TypeParts DEF ConfigurationInv
<1>2. PICK o \in Object \ (ToSet(cfg) \union ToSet(canvas)), dap \in Variants :
        /\ heap' = [heap EXCEPT ![o] = NewDevice(Catalog, dap)]
        /\ canvas' = Append(canvas, o)
  BY DEF Drop
<1>3. /\ gui = "window" /\ edits < MaxEdits /\ edits' = edits + 1
      /\ UNCHANGED <<setup, gui, dialog, json, tmp, live, cfg, io, ds>>
  BY DEF Drop, servicesState
<1>4. NewDevice(Catalog, dap) \in DeviceConfigs
  BY <1>1, VariantsTyped, NewDeviceTyped
<1>5. /\ heap \in Heaps /\ heap' \in Heaps /\ heap'[o] # None
      /\ \A x \in Object : x # o => heap'[x] = heap[x]
  <2>1. heap \in Heaps
    BY <1>1 DEF PlainTypes
  <2>2. heap' \in Heaps
    BY <1>2, <1>4, <2>1 DEF Heaps
  <2>3. heap'[o] = NewDevice(Catalog, dap) /\ \A x \in Object : x # o => heap'[x] = heap[x]
    BY <1>2, <2>1 DEF Heaps
  <2> QED
    BY <1>4, <2>1, <2>2, <2>3, ConfigurationAssumption
<1>6. Listed(cfg, heap) /\ Listed(canvas, heap)
  BY <1>1 DEF ListTypes
<1>7. /\ \A x \in ToSet(cfg) : x \in Object /\ x # o
      /\ \A x \in ToSet(canvas) : x \in Object /\ x # o
  BY <1>2, <1>6 DEF Listed, ToSet
<1>8. \A x \in ToSet(cfg) : heap'[x] = heap[x]
  BY <1>5, <1>7
<1>9. Listed(cfg', heap')
  BY <1>3, <1>6, <1>8, ContentsSame
<1>10. Listed(canvas', heap')
  <2> DEFINE n == Len(canvas)
  <2>1. /\ canvas \in Seq(Object) /\ n \in Nat /\ DOMAIN canvas = 1 .. n
        /\ \A j, k \in 1 .. n : canvas[j] = canvas[k] => j = k
    BY <1>6 DEF Listed, IsInjective
  <2>2. /\ canvas' \in Seq(Object) /\ DOMAIN canvas' = 1 .. n + 1 /\ canvas'[n + 1] = o
        /\ \A k \in 1 .. n : canvas'[k] = canvas[k]
    BY <1>2, <2>1
  <2> HIDE DEF n
  <2>3. \A k \in 1 .. n + 1 : k = n + 1 \/ k \in 1 .. n
    BY <2>1
  <2>4. \A k \in 1 .. n : canvas'[k] # o /\ heap'[canvas'[k]] # None
    <3>1. \A k \in 1 .. n : canvas[k] \in ToSet(canvas)
      BY <2>1 DEF ToSet
    <3>2. \A x \in ToSet(canvas) : x # o /\ heap'[x] # None
      BY <1>5, <1>6, <1>7 DEF Listed
    <3> QED
      BY <2>2, <3>1, <3>2
  <2>5. IsInjective(canvas')
    BY <2>1, <2>2, <2>3, <2>4 DEF IsInjective
  <2>6. \A x \in ToSet(canvas') : heap'[x] # None
    BY <1>5, <2>2, <2>3, <2>4 DEF ToSet
  <2> QED
    BY <2>2, <2>5, <2>6 DEF Listed
<1>11. PlainTypes'
  <2>1. edits' \in 0 .. MaxEdits
    BY <1>1, <1>3, ConfigurationAssumption DEF PlainTypes
  <2> QED
    BY <1>1, <1>3, <1>5, <2>1 DEF PlainTypes
<1>12. ServiceTypes' /\ Split' /\ Written'
  BY <1>3, <1>8, InUseKept
<1>13. WindowsAgree'
  BY <1>3 DEF WindowsAgree
<1> QED
  BY <1>9, <1>10, <1>11, <1>12, <1>13, TypeParts DEF ConfigurationInv, ListTypes

LEMMA TakeOffStep == ASSUME ConfigurationInv, TakeOff PROVE ConfigurationInv'
<1>1. PlainTypes /\ ListTypes /\ WindowsAgree
  BY TypeParts DEF ConfigurationInv
<1>2. PICK i \in DOMAIN canvas : canvas' = RemoveAt(canvas, i)
  BY DEF TakeOff
<1>3. /\ gui = "window" /\ heap' = Collected(heap, {cfg, canvas'})
      /\ UNCHANGED <<setup, gui, dialog, json, tmp, edits, live, cfg, io, ds>>
  BY DEF TakeOff, servicesState
<1>4. /\ heap \in Heaps /\ Listed(cfg, heap) /\ Listed(canvas, heap)
      /\ canvas \in Seq(Object) /\ IsInjective(canvas)
  BY <1>1 DEF PlainTypes, ListTypes, Listed
<1>5. Listed(canvas', heap)
  <2>1. canvas' \in Seq(Object)
    BY <1>2, <1>4, RemoveAtIs
  <2>2. IsInjective(canvas') /\ ToSet(canvas') \subseteq ToSet(canvas)
    BY <1>2, <1>4, RemoveAtInjective
  <2> QED
    BY <1>4, <2>1, <2>2 DEF Listed
<1>6. heap' \in Heaps
  BY <1>3, <1>4, CollectedIs
<1>7. Listed(cfg, heap') /\ Listed(canvas', heap')
  <2>1. cfg \in {cfg, canvas'} /\ canvas' \in {cfg, canvas'}
    OBVIOUS
  <2> QED
    BY <1>3, <1>4, <1>5, <2>1, CollectedSame
<1>8. \A o \in ToSet(cfg) : heap'[o] = heap[o]
  <2>1. \A o \in ToSet(cfg) : o \in ToSet(cfg) \cap Object
    BY <1>4 DEF Listed, ToSet
  <2>2. cfg \in {cfg, canvas'}
    OBVIOUS
  <2> QED
    BY <1>3, <1>4, <2>1, <2>2, CollectedIs
<1>9. PlainTypes'
  BY <1>1, <1>3, <1>6 DEF PlainTypes
<1>10. ServiceTypes' /\ Split' /\ Written'
  BY <1>3, <1>8, InUseKept
<1>11. WindowsAgree'
  BY <1>3 DEF WindowsAgree
<1> QED
  BY <1>3, <1>7, <1>9, <1>10, <1>11, TypeParts DEF ConfigurationInv, ListTypes

\* A change of an object leaves the lists as they are, and is recorded if it is in use.
LEMMA ChangeKeeps ==
  ASSUME ConfigurationInv, NEW o \in Object, NEW config \in DeviceConfigs, Change(o, config),
         UNCHANGED <<cfg, canvas>>
  PROVE  /\ heap' \in Heaps /\ ListTypes'
         /\ live' \in BOOLEAN /\ (live => live')
         /\ ~live' => \A x \in ToSet(cfg) : heap'[x] = heap[x]
<1>1. PlainTypes /\ ListTypes
  BY TypeParts DEF ConfigurationInv
<1>2. heap \in Heaps /\ live \in BOOLEAN
  BY <1>1 DEF PlainTypes
<1>3. /\ heap' = [heap EXCEPT ![o] = config]
      /\ live' = (live \/ (o \in ToSet(cfg) /\ heap[o] # config))
  BY DEF Change
<1>4. /\ heap' \in Heaps /\ heap'[o] = config
      /\ \A x \in Object : x # o => heap'[x] = heap[x]
  BY <1>2, <1>3 DEF Heaps
<1>5. \A x \in Object : heap[x] # None => heap'[x] # None
  BY <1>4, ConfigurationAssumption
<1>6. \A list : Listed(list, heap) => Listed(list, heap')
  <2>1. \A list : list \in Seq(Object) => ToSet(list) \subseteq Object
    BY DEF ToSet
  <2> QED
    BY <1>5, <2>1 DEF Listed
<1>7. ListTypes'
  BY <1>1, <1>6 DEF ListTypes
<1>8. live' \in BOOLEAN /\ (live => live')
  BY <1>2, <1>3
<1>9. ASSUME ~live', NEW x \in ToSet(cfg) PROVE heap'[x] = heap[x]
  <2>1. x \in Object
    BY <1>1 DEF ListTypes, Listed, ToSet
  <2>2. CASE x = o
    <3>1. heap[o] = config
      BY <1>3, <1>9, <2>2
    <3> QED
      BY <1>4, <2>2, <3>1
  <2>3. CASE x # o
    BY <1>4, <2>1, <2>3
  <2> QED
    BY <2>2, <2>3
<1> QED
  BY <1>4, <1>7, <1>8, <1>9

\* An object on the canvas, and what it contains.
LEMMA OnCanvas ==
  ASSUME ConfigurationInv, NEW o \in ToSet(canvas)
  PROVE  o \in Object /\ heap[o] \in DeviceConfigs
<1>1. heap \in Heaps /\ Listed(canvas, heap)
  BY TypeParts DEF ConfigurationInv, PlainTypes, ListTypes
<1>2. o \in Object /\ heap[o] # None
  BY <1>1 DEF Listed, ToSet
<1> QED
  BY <1>1, <1>2 DEF Heaps

LEMMA OpenDialogStep == ASSUME ConfigurationInv, OpenDialog PROVE ConfigurationInv'
<1>1. PlainTypes /\ ListTypes /\ WindowsAgree
  BY TypeParts DEF ConfigurationInv
<1>2. /\ gui = "window" /\ gui' = "dialog"
      /\ UNCHANGED <<setup, canvas, json, tmp, edits, cfg, io, ds>>
  BY DEF OpenDialog, servicesState
<1>3. PICK o \in ToSet(canvas) :
        /\ dialog' = [object |-> o, rack |-> EffectiveRack(heap[o])]
        /\ Change(o, LoadIdentity(heap[o]))
  BY DEF OpenDialog
<1> DEFINE config == LoadIdentity(heap[o])
<1>4. o \in Object /\ heap[o] \in DeviceConfigs
  BY OnCanvas
<1>5. config \in DeviceConfigs
  <2>1. heap[o].dap \in Nat
    BY <1>4 DEF DeviceConfigs
  <2>2. SelectedDap(setup.file, heap[o].dap) \in Nat
    BY <1>1, <2>1, VariantsTyped
  <2> QED
    BY <1>4, <2>1, <2>2 DEF DeviceConfigs, LoadIdentity
<1>6. Change(o, config)
  BY <1>3
<1> HIDE DEF config
<1>7. /\ heap' \in Heaps /\ ListTypes'
      /\ live' \in BOOLEAN /\ (live => live')
      /\ ~live' => \A x \in ToSet(cfg) : heap'[x] = heap[x]
  BY <1>2, <1>4, <1>5, <1>6, ChangeKeeps
<1>8. dialog' \in [object : Object \union {None}, rack : Seq(DriveObjects)]
  BY <1>3, <1>4, EffectiveTyped
<1>9. PlainTypes'
  BY <1>1, <1>2, <1>7, <1>8 DEF PlainTypes
<1>10. ServiceTypes' /\ Split' /\ Written'
  BY <1>2, <1>7, InUseKept
<1>11. WindowsAgree'
  BY <1>2, <1>3 DEF WindowsAgree
<1> QED
  BY <1>7, <1>9, <1>10, <1>11, TypeParts DEF ConfigurationInv

LEMMA ChooseDapStep == ASSUME ConfigurationInv, ChooseDap PROVE ConfigurationInv'
<1>1. PlainTypes /\ ListTypes /\ WindowsAgree
  BY TypeParts DEF ConfigurationInv
<1>2. /\ gui = "dialog"
      /\ UNCHANGED <<setup, gui, canvas, dialog, json, tmp, edits, cfg, io, ds>>
  BY DEF ChooseDap, servicesState
<1>3. PICK dap \in ToSet(setup.file.daps) :
        Change(dialog.object, [heap[dialog.object] EXCEPT !.dap = dap])
  BY DEF ChooseDap
<1> DEFINE o == dialog.object
           config == [heap[o] EXCEPT !.dap = dap]
<1>4. o \in Object /\ heap[o] \in DeviceConfigs
  BY <1>1, <1>2, OnCanvas DEF WindowsAgree
<1>5. config \in DeviceConfigs
  <2>1. setup.file.daps \in Seq(Nat)
    BY <1>1, VariantsTyped DEF Files
  <2>2. dap \in Nat
    BY <2>1, ElementsOf
  <2> QED
    BY <1>4, <2>2 DEF DeviceConfigs
<1>6. Change(o, config)
  BY <1>3
<1> HIDE DEF config, o
<1>7. /\ heap' \in Heaps /\ ListTypes'
      /\ live' \in BOOLEAN /\ (live => live')
      /\ ~live' => \A x \in ToSet(cfg) : heap'[x] = heap[x]
  BY <1>2, <1>4, <1>5, <1>6, ChangeKeeps
<1>8. PlainTypes'
  BY <1>1, <1>2, <1>7 DEF PlainTypes
<1>9. ServiceTypes' /\ Split' /\ Written'
  BY <1>2, <1>7, InUseKept
<1>10. WindowsAgree'
  BY <1>1, <1>2 DEF WindowsAgree
<1> QED
  BY <1>7, <1>8, <1>9, <1>10, TypeParts DEF ConfigurationInv

LEMMA EditRackStep == ASSUME ConfigurationInv, EditRack PROVE ConfigurationInv'
<1>1. PlainTypes /\ ListTypes /\ WindowsAgree
  BY TypeParts DEF ConfigurationInv
<1>2. /\ gui = "dialog" /\ edits < MaxEdits /\ edits' = edits + 1
      /\ UNCHANGED <<setup, gui, heap, canvas, json, tmp, live, cfg, io, ds>>
  BY DEF EditRack, servicesState
<1>3. PICK rack \in RackEdits(dialog.rack, Catalog) : dialog' = [dialog EXCEPT !.rack = rack]
  BY DEF EditRack
<1>4. dialog \in [object : Object \union {None}, rack : Seq(DriveObjects)]
  BY <1>1 DEF PlainTypes
<1>5. rack \in Seq(DriveObjects)
  BY <1>1, <1>4, VariantsTyped, EditsTyped
<1>6. /\ dialog' \in [object : Object \union {None}, rack : Seq(DriveObjects)]
      /\ dialog'.object = dialog.object
  BY <1>3, <1>4, <1>5
<1>7. edits' \in 0 .. MaxEdits
  BY <1>1, <1>2, ConfigurationAssumption DEF PlainTypes
<1>8. PlainTypes'
  BY <1>1, <1>2, <1>6, <1>7 DEF PlainTypes
<1>9. ListTypes'
  BY <1>1, <1>2 DEF ListTypes
<1>10. ServiceTypes' /\ Split' /\ Written'
  BY <1>2, InUseKept
<1>11. WindowsAgree'
  BY <1>1, <1>2, <1>6 DEF WindowsAgree
<1> QED
  BY <1>8, <1>9, <1>10, <1>11, TypeParts DEF ConfigurationInv

LEMMA ClosedDialogTyped ==
  [object |-> None, rack |-> <<>>] \in [object : Object \union {None}, rack : Seq(DriveObjects)]
BY EmptySeq

LEMMA ApplyDialogStep == ASSUME ConfigurationInv, ApplyDialog PROVE ConfigurationInv'
<1>1. PlainTypes /\ ListTypes /\ WindowsAgree
  BY TypeParts DEF ConfigurationInv
<1>2. /\ gui = "dialog" /\ gui' = "window" /\ dialog' = [object |-> None, rack |-> <<>>]
      /\ UNCHANGED <<setup, canvas, json, tmp, edits, cfg, io, ds>>
  BY DEF ApplyDialog, CloseDialog, servicesState
<1> DEFINE o == dialog.object
           config == ApplyRack(heap[o], dialog.rack)
<1>3. Change(o, config)
  BY DEF ApplyDialog
<1>4. o \in Object /\ heap[o] \in DeviceConfigs
  BY <1>1, <1>2, OnCanvas DEF WindowsAgree
<1>5. config \in DeviceConfigs
  <2>1. dialog.rack \in Seq(DriveObjects)
    BY <1>1 DEF PlainTypes
  <2> QED
    BY <1>4, <2>1, ApplyTyped
<1> HIDE DEF config, o
<1>6. /\ heap' \in Heaps /\ ListTypes'
      /\ live' \in BOOLEAN /\ (live => live')
      /\ ~live' => \A x \in ToSet(cfg) : heap'[x] = heap[x]
  BY <1>2, <1>3, <1>4, <1>5, ChangeKeeps
<1>7. PlainTypes'
  BY <1>1, <1>2, <1>6, ClosedDialogTyped DEF PlainTypes
<1>8. ServiceTypes' /\ Split' /\ Written'
  BY <1>2, <1>6, InUseKept
<1>9. WindowsAgree'
  BY <1>2 DEF WindowsAgree
<1> QED
  BY <1>6, <1>7, <1>8, <1>9, TypeParts DEF ConfigurationInv

LEMMA CancelDialogStep == ASSUME ConfigurationInv, CancelDialog PROVE ConfigurationInv'
<1>1. PlainTypes /\ ListTypes /\ WindowsAgree
  BY TypeParts DEF ConfigurationInv
<1>2. /\ gui = "dialog" /\ gui' = "window" /\ dialog' = [object |-> None, rack |-> <<>>]
      /\ UNCHANGED <<setup, heap, canvas, json, tmp, edits, live, cfg, io, ds>>
  BY DEF CancelDialog, CloseDialog, servicesState
<1>3. PlainTypes'
  BY <1>1, <1>2, ClosedDialogTyped DEF PlainTypes
<1>4. ListTypes'
  BY <1>1, <1>2 DEF ListTypes
<1>5. ServiceTypes' /\ Split' /\ Written'
  BY <1>2, InUseKept
<1>6. WindowsAgree'
  BY <1>2 DEF WindowsAgree
<1> QED
  BY <1>3, <1>4, <1>5, <1>6, TypeParts DEF ConfigurationInv

LEMMA OpenTmpStep == ASSUME ConfigurationInv, OpenTmp \/ WriteFails PROVE ConfigurationInv'
<1>1. PlainTypes /\ ListTypes /\ WindowsAgree
  BY TypeParts DEF ConfigurationInv
<1>2. /\ gui \in {"window", "write"} /\ gui' \in {"window", "write"} /\ tmp' \in {tmp, Torn}
      /\ UNCHANGED <<setup, heap, canvas, dialog, json, edits, live, cfg, io, ds>>
  BY DEF OpenTmp, WriteFails, servicesState
<1>3. PlainTypes'
  BY <1>1, <1>2 DEF PlainTypes
<1>4. ListTypes'
  BY <1>1, <1>2 DEF ListTypes
<1>5. ServiceTypes' /\ Split' /\ Written'
  BY <1>2, InUseKept
<1>6. WindowsAgree'
  BY <1>2 DEF WindowsAgree
<1> QED
  BY <1>3, <1>4, <1>5, <1>6, TypeParts DEF ConfigurationInv

LEMMA WriteTmpStep == ASSUME ConfigurationInv, WriteTmp PROVE ConfigurationInv'
<1>1. PlainTypes /\ ListTypes /\ WindowsAgree /\ Written
  BY TypeParts DEF ConfigurationInv
<1>2. /\ gui = "write" /\ gui' = "replace" /\ tmp' = ContentsIn(canvas, heap)
      /\ UNCHANGED <<setup, heap, canvas, dialog, json, edits, live, cfg, io, ds>>
  BY DEF WriteTmp, servicesState, Contents, ContentsIn
<1>3. tmp' \in Seq(DeviceConfigs)
  BY <1>1, <1>2, ContentsTyped DEF PlainTypes, ListTypes
<1>4. PlainTypes'
  BY <1>1, <1>2, <1>3 DEF PlainTypes
<1>5. ListTypes'
  BY <1>1, <1>2 DEF ListTypes
<1>6. ServiceTypes' /\ Split'
  BY <1>2, SplitKept
<1>7. Written'
  BY <1>1, <1>2 DEF Written, NeverTorn
<1>8. WindowsAgree'
  BY <1>2 DEF WindowsAgree
<1> QED
  BY <1>4, <1>5, <1>6, <1>7, <1>8, TypeParts DEF ConfigurationInv

LEMMA ReplaceStep == ASSUME ConfigurationInv, Replace PROVE ConfigurationInv'
<1>1. PlainTypes /\ ListTypes /\ WindowsAgree /\ Written
  BY TypeParts DEF ConfigurationInv
<1>2. /\ gui = "replace" /\ gui' = "restart" /\ json' = tmp /\ tmp' = None
      /\ UNCHANGED <<setup, heap, canvas, dialog, edits, live, cfg, io, ds>>
  BY DEF Replace, servicesState
<1>3. tmp = ContentsIn(canvas, heap) /\ tmp \in Seq(DeviceConfigs)
  BY <1>1, <1>2, ContentsTyped DEF PlainTypes, ListTypes, Written
<1>4. PlainTypes'
  BY <1>1, <1>2, <1>3 DEF PlainTypes
<1>5. ListTypes'
  BY <1>1, <1>2 DEF ListTypes
<1>6. ServiceTypes' /\ Split'
  BY <1>2, SplitKept
<1>7. Written'
  BY <1>2, <1>3, ConfigurationAssumption DEF Written, NeverTorn
<1>8. WindowsAgree'
  BY <1>2 DEF WindowsAgree
<1> QED
  BY <1>4, <1>5, <1>6, <1>7, <1>8, TypeParts DEF ConfigurationInv

LEMMA RestartStep == ASSUME ConfigurationInv, Restart PROVE ConfigurationInv'
<1> DEFINE configs == ContentsIn(canvas, heap)
<1>1. PlainTypes /\ ListTypes /\ WindowsAgree /\ Written
  BY TypeParts DEF ConfigurationInv
<1>2. /\ gui = "restart" /\ gui' = "main" /\ cfg' = canvas /\ canvas' = <<>>
      /\ io' = Buffers(configs) /\ ds' = [i \in DOMAIN configs |-> None] /\ live' = FALSE
      /\ heap' = Collected(heap, {canvas})
      /\ UNCHANGED <<setup, dialog, json, tmp, edits>>
  BY DEF Restart, Started, Contents, ContentsIn
<1>3. heap \in Heaps /\ Listed(canvas, heap) /\ canvas \in {canvas}
  BY <1>1 DEF PlainTypes, ListTypes
<1>4. configs \in Seq(DeviceConfigs) /\ Len(configs) = Len(canvas)
  BY <1>3, ContentsTyped
<1>5. heap' \in Heaps /\ Listed(cfg', heap') /\ ContentsIn(cfg', heap') = configs
  BY <1>2, <1>3, CollectedIs, CollectedSame
<1> HIDE DEF configs
<1>6. PlainTypes'
  BY <1>1, <1>2, <1>5 DEF PlainTypes
<1>7. ListTypes'
  BY <1>2, <1>5, NothingListed DEF ListTypes
<1>8. ds' \in Seq({None} \union Seq(DataParts)) /\ Len(ds') = Len(configs)
      /\ \A i \in DOMAIN ds' : ds'[i] = None
  <2>1. DOMAIN configs = 1 .. Len(configs) /\ Len(configs) \in Nat
    BY <1>4
  <2>2. ds' \in [1 .. Len(configs) -> {None} \union Seq(DataParts)]
        /\ \A i \in DOMAIN ds' : ds'[i] = None
    BY <1>2, <2>1
  <2> QED
    BY <2>1, <2>2
<1>9. ServiceTypes'
  BY <1>2, <1>4, <1>8, BuffersTyped DEF ServiceTypes
<1>10. WindowsAgree'
  BY <1>2 DEF WindowsAgree
<1>11. Written'
  BY <1>1, <1>2, <1>5 DEF Written, NeverTorn, configs
<1>12. Split'
  BY <1>2, <1>5, <1>8 DEF Split
<1> QED
  BY <1>6, <1>7, <1>9, <1>10, <1>11, <1>12, TypeParts DEF ConfigurationInv

LEMMA UnchangedStep == ASSUME ConfigurationInv, UNCHANGED configVars PROVE ConfigurationInv'
<1>1. PlainTypes /\ ListTypes /\ ServiceTypes /\ WindowsAgree /\ Written /\ Split
  BY TypeParts DEF ConfigurationInv
<1>2. PlainTypes' /\ ListTypes' /\ ServiceTypes' /\ WindowsAgree' /\ Written' /\ Split'
  BY <1>1 DEF configVars, PlainTypes, ListTypes, ServiceTypes, WindowsAgree, Written, NeverTorn, Split
<1> QED
  BY <1>2, TypeParts DEF ConfigurationInv

LEMMA ConfigurationStep ==
  ConfigurationInv /\ [ConfigurationNext]_configVars => ConfigurationInv'
<1> SUFFICES ASSUME ConfigurationInv, [ConfigurationNext]_configVars PROVE ConfigurationInv'
  OBVIOUS
<1>1. CASE Launch
  BY <1>1, LaunchStep
<1>2. CASE Crash
  BY <1>2, CrashStep
<1>3. CASE Resolve
  BY <1>3, ResolveStep
<1>4. CASE OpenWindow
  BY <1>4, OpenWindowStep
<1>5. CASE CloseWindow
  BY <1>5, CloseWindowStep
<1>6. CASE Drop
  BY <1>6, DropStep
<1>7. CASE TakeOff
  BY <1>7, TakeOffStep
<1>8. CASE OpenDialog
  BY <1>8, OpenDialogStep
<1>9. CASE ChooseDap
  BY <1>9, ChooseDapStep
<1>10. CASE EditRack
  BY <1>10, EditRackStep
<1>11. CASE ApplyDialog
  BY <1>11, ApplyDialogStep
<1>12. CASE CancelDialog
  BY <1>12, CancelDialogStep
<1>13. CASE OpenTmp \/ WriteFails
  BY <1>13, OpenTmpStep
<1>14. CASE WriteTmp
  BY <1>14, WriteTmpStep
<1>15. CASE Replace
  BY <1>15, ReplaceStep
<1>16. CASE Restart
  BY <1>16, RestartStep
<1>17. CASE UNCHANGED configVars
  BY <1>17, UnchangedStep
<1> QED
  BY <1>1, <1>2, <1>3, <1>4, <1>5, <1>6, <1>7, <1>8, <1>9, <1>10, <1>11, <1>12, <1>13,
     <1>14, <1>15, <1>16, <1>17 DEF ConfigurationNext

LEMMA ConfigurationInvariant == ConfigurationSpec => []ConfigurationInv
<1> QED
  BY ConfigurationInitial, ConfigurationStep, PTL DEF ConfigurationSpec

-----------------------------------------------------------------------------
(* The racks of the configuration stay sound. *)

SoundDevice(config) ==
  \A rack \in RacksOf(config) : RackPlaced(rack) /\ RackSound(rack, Catalog)

RacksSound ==
  /\ RackPlaced(dialog.rack) /\ RackSound(dialog.rack, Catalog)
  /\ \A o \in Object : heap[o] # None => SoundDevice(heap[o])
  /\ \A i \in DOMAIN json : SoundDevice(json[i])

LEMMA FileInOrder ==
  ASSUME PlainTypes
  PROVE  /\ setup.file \in Files /\ IdentsDiffer(setup.file) /\ FillersNamed(setup.file)
         /\ \A i \in DOMAIN setup.saved : SoundDevice(setup.saved[i])
<1>1. setup \in Setups /\ setup.file \in Files
  BY ConfigurationAssumption DEF PlainTypes
<1>2. \A i \in DOMAIN setup.saved : ConfigSound(setup.saved[i], setup.file)
  BY <1>1, SetupsAssumption
<1>3. \A i \in DOMAIN setup.saved : SoundDevice(setup.saved[i])
  BY <1>2 DEF SoundDevice, ConfigSound, RackPlaced, RackSound, Catalog
<1> QED
  BY <1>1, <1>3, SetupsAssumption

LEMMA EmptyRackSound == RackPlaced(<<>>) /\ RackSound(<<>>, Catalog)
BY DEF RackPlaced, RackSound, SlotsDiffer

\* A Drive Object alone in a rack.
LEMMA AloneSound ==
  ASSUME NEW do, do.slot > 0, DriveSound(do, Catalog)
  PROVE  RackPlaced(<<do>>) /\ RackSound(<<do>>, Catalog)
<1>1. SlotsDiffer(<<do>>) /\ RackPlaced(<<do>>)
  BY DEF RackPlaced, SlotsDiffer
<1>2. \A i \in DOMAIN <<do>> : DriveSound(<<do>>[i], Catalog)
  OBVIOUS
<1> QED
  BY <1>1, <1>2, RackSoundIs

LEMMA RacksInitial == ConfigurationInit => RacksSound
<1> SUFFICES ASSUME ConfigurationInit PROVE RacksSound
  OBVIOUS
<1>1. PlainTypes
  BY ConfigurationInitial, TypeParts DEF ConfigurationInv
<1>2. /\ dialog.rack = <<>> /\ json = setup.saved /\ heap = [o \in Object |-> None]
  BY DEF ConfigurationInit
<1> QED
  BY <1>1, <1>2, FileInOrder, EmptyRackSound DEF RacksSound

\* The racks of what the program makes of a configuration.
LEMMA DapKeepsRacks ==
  ASSUME NEW config \in DeviceConfigs, NEW dap
  PROVE  RacksOf([config EXCEPT !.dap = dap]) = RacksOf(config)
BY DEF RacksOf, EffectiveRack, DeviceConfigs

LEMMA NewDeviceSound ==
  ASSUME NEW dap
  PROVE  SoundDevice(NewDevice(Catalog, dap))
<1> DEFINE config == NewDevice(Catalog, dap)
           do == config.legacy
<1>1. config.rack = <<>> /\ do.slot = 1 /\ do.subslot = 1
  BY DEF NewDevice, DriveObject
<1> HIDE DEF config
<1>2. RacksOf(config) = {<<do>>}
  BY <1>1 DEF RacksOf, EffectiveRack
<1>3. do.slot > 0 /\ DriveSound(do, Catalog)
  BY <1>1 DEF DriveSound
<1> QED
  BY <1>2, <1>3, AloneSound DEF SoundDevice, config

LEMMA ApplySound ==
  ASSUME NEW config \in DeviceConfigs, SoundDevice(config),
         NEW rack \in Seq(DriveObjects), RackPlaced(rack), RackSound(rack, Catalog)
  PROVE  SoundDevice(ApplyRack(config, rack))
<1> DEFINE edited == [config EXCEPT !.rack = rack]
           new == ApplyRack(config, rack)
<1>1. edited.rack = rack /\ edited.legacy = config.legacy
  BY DEF DeviceConfigs
<1>2. new = [edited EXCEPT !.legacy = Head(EffectiveRack(edited))]
  BY DEF ApplyRack, SyncLegacy
<1>3. edited \in DeviceConfigs
  BY DEF DeviceConfigs
<1> HIDE DEF edited
<1>4. new.rack = rack /\ new.legacy = Head(EffectiveRack(edited))
  BY <1>1, <1>2, <1>3 DEF DeviceConfigs
<1> HIDE DEF new
<1>5. <<config.legacy>> \in RacksOf(config)
  BY DEF RacksOf
<1>6. CASE rack = <<>>
  <2>1. EffectiveRack(edited) = <<config.legacy>> /\ new.legacy = config.legacy
    BY <1>1, <1>4, <1>6 DEF EffectiveRack
  <2>2. RacksOf(new) = {<<config.legacy>>}
    BY <1>4, <1>6, <2>1 DEF RacksOf, EffectiveRack
  <2> QED
    BY <1>5, <2>2 DEF SoundDevice, new
<1>7. CASE rack # <<>>
  <2>1. new.legacy = rack[1] /\ 1 \in DOMAIN rack
    BY <1>1, <1>4, <1>7 DEF EffectiveRack
  <2>2. RacksOf(new) = {rack, <<rack[1]>>}
    BY <1>4, <1>7, <2>1 DEF RacksOf, EffectiveRack
  <2>3. rack[1].slot > 0 /\ DriveSound(rack[1], Catalog)
    BY <2>1, RackSoundIs DEF RackPlaced
  <2> QED
    BY <2>2, <2>3, AloneSound DEF SoundDevice, new
<1> QED
  BY <1>6, <1>7

\* A step that changes no contents other than by a change of one object.
LEMMA ChangeSound ==
  ASSUME RacksSound, NEW o \in Object, NEW config, SoundDevice(config),
         heap \in Heaps, heap' = [heap EXCEPT ![o] = config],
         UNCHANGED <<setup, json>>,
         RackPlaced(dialog'.rack), RackSound(dialog'.rack, Catalog)
  PROVE  RacksSound'
<1>1. Catalog' = Catalog
  BY DEF Catalog
<1>2. \A x \in Object : heap'[x] = config \/ heap'[x] = heap[x]
  BY DEF Heaps
<1>3. \A x \in Object : heap'[x] # None => SoundDevice(heap'[x])
  BY <1>2 DEF RacksSound
<1> QED
  BY <1>1, <1>3 DEF RacksSound, SoundDevice

\* A step that changes contents only by forgetting them.
LEMMA ForgetSound ==
  ASSUME RacksSound, UNCHANGED <<setup, json>>,
         \A o \in Object : heap'[o] = heap[o] \/ heap'[o] = None,
         RackPlaced(dialog'.rack), RackSound(dialog'.rack, Catalog)
  PROVE  RacksSound'
<1>1. Catalog' = Catalog
  BY DEF Catalog
<1>2. \A o \in Object : heap'[o] # None => SoundDevice(heap'[o])
  BY DEF RacksSound
<1> QED
  BY <1>1, <1>2 DEF RacksSound, SoundDevice

LEMMA LaunchSound == ASSUME ConfigurationInv, RacksSound, Launch PROVE RacksSound'
<1>1. json # Torn
  BY DEF ConfigurationInv, Written, NeverTorn
<1>2. PICK list \in [DOMAIN json -> Object] :
        heap' = [o \in Object |-> IF o \in ToSet(list)
                                  THEN json[CHOOSE i \in DOMAIN list : list[i] = o]
                                  ELSE None]
  BY <1>1 DEF Launch
<1>3. UNCHANGED <<setup, dialog, json>>
  BY DEF Launch
<1>4. ASSUME NEW o \in Object, heap'[o] # None PROVE \E i \in DOMAIN json : heap'[o] = json[i]
  <2>1. o \in ToSet(list)
    BY <1>2, <1>4
  <2>2. (CHOOSE i \in DOMAIN list : list[i] = o) \in DOMAIN json
    BY <2>1 DEF ToSet
  <2> QED
    BY <1>2, <2>1, <2>2
<1>5. \A o \in Object : heap'[o] # None => SoundDevice(heap'[o])
  BY <1>4 DEF RacksSound
<1>6. Catalog' = Catalog
  BY <1>3 DEF Catalog
<1> QED
  BY <1>3, <1>5, <1>6 DEF RacksSound, SoundDevice

LEMMA ReplaceSound == ASSUME ConfigurationInv, RacksSound, Replace PROVE RacksSound'
<1>1. PlainTypes /\ ListTypes /\ Written
  BY TypeParts DEF ConfigurationInv
<1>2. gui = "replace" /\ json' = tmp /\ UNCHANGED <<setup, heap, dialog>>
  BY DEF Replace
<1>3. tmp = ContentsIn(canvas, heap)
  BY <1>1, <1>2 DEF Written
<1>4. ASSUME NEW i \in DOMAIN json' PROVE SoundDevice(json'[i])
  <2>1. /\ heap \in Heaps /\ Listed(canvas, heap)
        /\ DOMAIN canvas = 1 .. Len(canvas) /\ DOMAIN json' = DOMAIN canvas
    BY <1>1, <1>2, <1>3 DEF PlainTypes, ListTypes, Listed, ContentsIn
  <2>2. json'[i] = heap[canvas[i]] /\ canvas[i] \in Object /\ heap[canvas[i]] \in DeviceConfigs
    BY <1>2, <1>3, <2>1, ContentsTyped
  <2> QED
    BY <2>2, ConfigurationAssumption DEF RacksSound
<1>5. Catalog' = Catalog
  BY <1>2 DEF Catalog
<1> QED
  BY <1>2, <1>4, <1>5 DEF RacksSound, SoundDevice

LEMMA DialogSound ==
  ASSUME ConfigurationInv, RacksSound, OpenDialog \/ ChooseDap \/ EditRack \/ ApplyDialog
  PROVE  RacksSound'
<1>1. PlainTypes /\ WindowsAgree /\ heap \in Heaps /\ dialog.rack \in Seq(DriveObjects)
  BY TypeParts DEF ConfigurationInv, PlainTypes
<1>2. RackPlaced(dialog.rack) /\ RackSound(dialog.rack, Catalog)
  BY DEF RacksSound
<1>3. \A o \in ToSet(canvas) : o \in Object /\ heap[o] \in DeviceConfigs /\ SoundDevice(heap[o])
  BY OnCanvas, ConfigurationAssumption DEF RacksSound
<1>4. CASE OpenDialog
  <2>1. PICK o \in ToSet(canvas) :
          /\ dialog' = [object |-> o, rack |-> EffectiveRack(heap[o])]
          /\ heap' = [heap EXCEPT ![o] = LoadIdentity(heap[o])]
    BY <1>4 DEF OpenDialog, Change
  <2> DEFINE config == LoadIdentity(heap[o])
  <2>2. SoundDevice(config)
    BY <1>3, DapKeepsRacks DEF SoundDevice, LoadIdentity
  <2>3. EffectiveRack(heap[o]) \in RacksOf(heap[o])
    BY DEF RacksOf
  <2>4. RackPlaced(dialog'.rack) /\ RackSound(dialog'.rack, Catalog)
    BY <1>3, <2>1, <2>3 DEF SoundDevice
  <2>5. heap' = [heap EXCEPT ![o] = config] /\ UNCHANGED <<setup, json>>
    BY <1>4, <2>1 DEF OpenDialog
  <2> HIDE DEF config
  <2> QED
    BY <1>1, <1>3, <2>2, <2>4, <2>5, ChangeSound
<1>5. CASE ChooseDap
  <2>1. PICK dap \in ToSet(setup.file.daps) :
          heap' = [heap EXCEPT ![dialog.object] = [heap[dialog.object] EXCEPT !.dap = dap]]
    BY <1>5 DEF ChooseDap, Change
  <2> DEFINE o == dialog.object
             config == [heap[o] EXCEPT !.dap = dap]
  <2>2. o \in ToSet(canvas) /\ UNCHANGED <<setup, json, dialog>>
    BY <1>1, <1>5 DEF ChooseDap, WindowsAgree
  <2>3. SoundDevice(config)
    BY <1>3, <2>2, DapKeepsRacks DEF SoundDevice
  <2>4. heap' = [heap EXCEPT ![o] = config]
    BY <2>1
  <2> HIDE DEF config, o
  <2> QED
    BY <1>1, <1>2, <1>3, <2>2, <2>3, <2>4, ChangeSound
<1>6. CASE EditRack
  <2>1. PICK rack \in RackEdits(dialog.rack, Catalog) : dialog' = [dialog EXCEPT !.rack = rack]
    BY <1>6 DEF EditRack
  <2>2. RackSound(rack, Catalog) /\ RackPlaced(rack)
    BY <1>1, <1>2, <2>1, FileInOrder, EditsSound DEF Catalog
  <2>3. dialog'.rack = rack /\ UNCHANGED <<setup, heap, json>>
    BY <1>1, <1>6, <2>1 DEF EditRack, PlainTypes
  <2> QED
    BY <2>2, <2>3, ForgetSound
<1>7. CASE ApplyDialog
  <2> DEFINE o == dialog.object
             config == ApplyRack(heap[o], dialog.rack)
  <2>1. o \in ToSet(canvas) /\ UNCHANGED <<setup, json>> /\ dialog'.rack = <<>>
    BY <1>1, <1>7 DEF ApplyDialog, CloseDialog, WindowsAgree
  <2>2. heap' = [heap EXCEPT ![o] = config]
    BY <1>7 DEF ApplyDialog, Change
  <2>3. SoundDevice(config)
    BY <1>1, <1>2, <1>3, <2>1, ApplySound
  <2> HIDE DEF config, o
  <2> QED
    BY <1>1, <1>3, <2>1, <2>2, <2>3, EmptyRackSound, ChangeSound
<1> QED
  BY <1>4, <1>5, <1>6, <1>7

LEMMA RacksStep ==
  ConfigurationInv /\ RacksSound /\ [ConfigurationNext]_configVars => RacksSound'
<1> SUFFICES ASSUME ConfigurationInv, RacksSound, [ConfigurationNext]_configVars
             PROVE  RacksSound'
  OBVIOUS
<1>1. RackPlaced(dialog.rack) /\ RackSound(dialog.rack, Catalog) /\ heap \in Heaps
  BY TypeParts DEF RacksSound, ConfigurationInv, PlainTypes
<1>2. CASE Launch
  BY <1>2, LaunchSound
<1>3. CASE Crash
  <2>1. /\ dialog'.rack = <<>> /\ UNCHANGED <<setup, json>>
        /\ \A o \in Object : heap'[o] = None
    BY <1>3 DEF Crash
  <2> QED
    BY <2>1, EmptyRackSound, ForgetSound
<1>4. CASE Resolve \/ OpenWindow \/ OpenTmp \/ WriteTmp \/ WriteFails \/ UNCHANGED configVars
  <2>1. UNCHANGED <<setup, heap, dialog, json>>
    BY <1>4 DEF Resolve, OpenWindow, OpenTmp, WriteTmp, WriteFails, configVars
  <2> QED
    BY <1>1, <2>1, ForgetSound
<1>5. CASE CloseWindow \/ TakeOff \/ Restart
  <2>1. /\ UNCHANGED <<setup, dialog, json>>
        /\ \E lists : heap' = Collected(heap, lists)
    BY <1>5 DEF CloseWindow, TakeOff, Restart
  <2>2. \A o \in Object : heap'[o] = heap[o] \/ heap'[o] = None
    BY <2>1 DEF Collected
  <2> QED
    BY <1>1, <2>1, <2>2, ForgetSound
<1>6. CASE Drop
  <2>1. PICK o \in Object, dap \in Variants : heap' = [heap EXCEPT ![o] = NewDevice(Catalog, dap)]
    BY <1>6 DEF Drop
  <2>2. UNCHANGED <<setup, dialog, json>>
    BY <1>6 DEF Drop
  <2>3. SoundDevice(NewDevice(Catalog, dap))
    BY NewDeviceSound
  <2> QED
    BY <1>1, <2>1, <2>2, <2>3, ChangeSound
<1>7. CASE OpenDialog \/ ChooseDap \/ EditRack \/ ApplyDialog
  BY <1>7, DialogSound
<1>8. CASE CancelDialog
  <2>1. dialog'.rack = <<>> /\ UNCHANGED <<setup, heap, json>>
    BY <1>8 DEF CancelDialog, CloseDialog
  <2> QED
    BY <2>1, EmptyRackSound, ForgetSound
<1>9. CASE Replace
  BY <1>9, ReplaceSound
<1> QED
  BY <1>2, <1>3, <1>4, <1>5, <1>6, <1>7, <1>8, <1>9 DEF ConfigurationNext

-----------------------------------------------------------------------------
(* The theorems. *)

\* Every object that is listed is there, once, and the buffers and the process data of
\* the services are those of as many devices as are in use.
THEOREM TypeCorrect == ConfigurationSpec => []ConfigurationTypeOK
<1>1. ConfigurationInv => ConfigurationTypeOK
  BY DEF ConfigurationInv
<1> QED
  BY <1>1, ConfigurationInvariant, PTL

\* config.json is whole whenever the process ends (save_config), at any step of any
\* sequence of operations in the windows and failures to write.
THEOREM NeverTornAlways == ConfigurationSpec => []NeverTorn
<1>1. ConfigurationInv => NeverTorn
  BY DEF ConfigurationInv, Written
<1> QED
  BY <1>1, ConfigurationInvariant, PTL

\* With the window closed, and no object in use changed, the file has what the services
\* run (ConfigWindow._apply_restart, main.py).
THEOREM SavedAlwaysRunning == ConfigurationSpec => []SavedIsRunning
<1>1. ConfigurationInv => SavedIsRunning
  <2>1. Contents(cfg) = ContentsIn(cfg, heap)
    BY DEF Contents, ContentsIn
  <2> QED
    BY <2>1 DEF ConfigurationInv, Written, SavedIsRunning
<1> QED
  BY <1>1, ConfigurationInvariant, PTL

\* The three parts of the program that split a client's frame by the lengths of the
\* configuration split it alike (GatewayServer.configure, write_raw_outputs,
\* _build_expected_slots), for racks of any size.
THEOREM FrameSplitAlwaysAgrees == ConfigurationSpec => []FrameSplitAgrees
<1>1. ConfigurationInv => FrameSplitAgrees
  <2> SUFFICES ASSUME ConfigurationInv, gui # "down", ~live, NEW i \in DOMAIN cfg
               PROVE  /\ io[i].out = TotalOut(heap[cfg[i]]) /\ io[i].in = TotalIn(heap[cfg[i]])
                      /\ ds[i] # None => /\ io[i].out = Total(Outs(ds[i]))
                                         /\ io[i].in = Total(Ins(ds[i]))
    BY DEF FrameSplitAgrees
  <2>1. heap \in Heaps /\ Listed(cfg, heap) /\ ServiceTypes
    BY TypeParts DEF ConfigurationInv, PlainTypes, ListTypes
  <2>2. /\ io = Buffers(ContentsIn(cfg, heap))
        /\ \A k \in DOMAIN ds : ds[k] # None => SplitAs(ds[k], heap[cfg[k]])
    BY DEF ConfigurationInv, Split
  <2>3. i \in 1 .. Len(cfg) /\ i \in DOMAIN ds
    BY <2>1 DEF Listed, ServiceTypes
  <2>4. /\ ContentsIn(cfg, heap) \in Seq(DeviceConfigs)
        /\ Len(ContentsIn(cfg, heap)) = Len(cfg)
        /\ ContentsIn(cfg, heap)[i] = heap[cfg[i]]
    BY <2>1, <2>3, ContentsTyped
  <2>5. io[i].out = TotalOut(heap[cfg[i]]) /\ io[i].in = TotalIn(heap[cfg[i]])
    BY <2>2, <2>3, <2>4, BuffersTyped
  <2>6. ds[i] # None => /\ Outs(ds[i]) = Outs(EffectiveRack(heap[cfg[i]]))
                        /\ Ins(ds[i]) = Ins(EffectiveRack(heap[cfg[i]]))
    BY <2>2, <2>3 DEF SplitAs
  <2> QED
    BY <2>5, <2>6 DEF TotalOut, TotalIn
<1> QED
  BY <1>1, ConfigurationInvariant, PTL

\* After any sequence of operations in the dialogs, and whatever has been saved and loaded
\* in between, the rack in the dialog has every Drive Object in a slot of its own and no
\* filler submodule for a telegram (_next_slot, _is_telegram).
THEOREM DialogRackAlwaysSound == ConfigurationSpec => []DialogRackSound
<1>1. RacksSound => DialogRackSound
  BY DEF RacksSound, DialogRackSound
<1>2. ConfigurationSpec => []RacksSound
  BY RacksInitial, RacksStep, ConfigurationInvariant, PTL DEF ConfigurationSpec
<1> QED
  BY <1>1, <1>2, PTL

\* For every GSDML file whose items are told apart by their idents, the parsed device
\* offers each submodule of a module once, and some if the file has any (parse_gsdml).
THEOREM CatalogAlwaysSound == ConfigurationSpec => []CatalogIsSound
<1>1. ConfigurationInv => CatalogIsSound
  <2> SUFFICES ASSUME ConfigurationInv PROVE CatalogSound(setup.file)
    BY DEF CatalogIsSound
  <2>1. setup.file \in Files /\ IdentsDiffer(setup.file)
    BY TypeParts, FileInOrder DEF ConfigurationInv
  <2> QED
    BY <2>1, ParsedCatalogSound
<1> QED
  BY <1>1, ConfigurationInvariant, PTL

\* A topology is of a file that is in order and of a rack that the dialog can make of a
\* saved one.
LEMMA TopologyFrom ==
  ASSUME ConfigurationInv, NEW t \in Topologies
  PROVE  /\ setup.file \in Files /\ IdentsDiffer(setup.file)
         /\ \E found \in BOOLEAN : \E config \in DeviceConfigs :
              /\ RackPlaced(EffectiveRack(config))
              /\ t = ExpectedSlots(setup.file, found, config, setup.env)
<1>1. /\ setup \in Setups /\ setup.file \in Files
      /\ setup.saved \in Seq(DeviceConfigs) /\ MaxEdits \in Nat
  BY TypeParts, ConfigurationAssumption, FileInOrder DEF ConfigurationInv, PlainTypes
<1>2. IdentsDiffer(setup.file) /\ \A i \in DOMAIN setup.saved : ConfigSound(setup.saved[i], setup.file)
  BY <1>1, SetupsAssumption
<1>3. PICK found \in BOOLEAN, rack \in Racks :
        /\ rack # <<>>
        /\ t = ExpectedSlots(setup.file, found,
                             [dap |-> 0, rack |-> rack, legacy |-> Head(rack)], setup.env)
  BY DEF Topologies
<1>4. PICK i \in DOMAIN setup.saved :
        rack \in RacksAfter(MaxEdits, EffectiveRack(setup.saved[i]), Catalog, MaxDrives)
  BY <1>3 DEF Racks
<1>5. Catalog \in Seq(ParsedModules(setup.file))
  BY <1>1, ModulesTyped DEF Catalog
<1>6. setup.saved[i] \in DeviceConfigs
  BY <1>1
<1>7. EffectiveRack(setup.saved[i]) \in Seq(DriveObjects) /\ RackPlaced(EffectiveRack(setup.saved[i]))
  <2>1. ConfigSound(setup.saved[i], setup.file)
    BY <1>2
  <2>2. RackPlaced(EffectiveRack(setup.saved[i]))
    BY <2>1 DEF ConfigSound, RacksOf, RackSound, RackPlaced
  <2> QED
    BY <1>6, <2>2, EffectiveTyped
<1>8. rack \in Seq(DriveObjects) /\ RackPlaced(rack)
  BY <1>1, <1>4, <1>5, <1>7, RacksAfterPlaced
<1> DEFINE config == [dap |-> 0, rack |-> rack, legacy |-> Head(rack)]
<1>9. config \in DeviceConfigs /\ EffectiveRack(config) = rack
  <2>1. Head(rack) \in DriveObjects
    BY <1>3, <1>8
  <2> QED
    BY <1>3, <1>8, <2>1 DEF DeviceConfigs, EffectiveRack
<1>10. t = ExpectedSlots(setup.file, found, config, setup.env)
  BY <1>3
<1> HIDE DEF config
<1> QED
  BY <1>1, <1>2, <1>8, <1>9, <1>10

\* It has each submodule once.
LEMMA TopologySlots ==
  ASSUME ConfigurationInv, NEW t \in Topologies
  PROVE  t.slots \in Seq(DataParts) /\ OncePerName(t.slots)
<1>1. PICK found \in BOOLEAN, config \in DeviceConfigs :
        /\ RackPlaced(EffectiveRack(config))
        /\ t = ExpectedSlots(setup.file, found, config, setup.env)
  BY TopologyFrom
<1>2. setup.file \in Files /\ IdentsDiffer(setup.file)
  BY TopologyFrom
<1> QED
  BY <1>1, <1>2, SlotsSound

\* For every GSDML file, environment and rack, and with the file there or gone, the two
\* frames have a place of its own for each field, leave out none, and the commissioned
\* drive's telegram is where its comment says (_iocr_layout).
THEOREM EveryLayoutAlwaysSound == ConfigurationSpec => []EveryLayoutSound
<1>1. ConfigurationInv => EveryLayoutSound
  <2> SUFFICES ASSUME ConfigurationInv, NEW t \in Topologies
               PROVE  LayoutSound(t.slots) /\ CommissionedFrame(t.slots)
    BY DEF EveryLayoutSound
  <2> QED
    BY TopologySlots, LayoutIsSound, CommissionedFrameIs
<1> QED
  BY <1>1, ConfigurationInvariant, PTL

\* Every consumer status that a frame owes the device, and nothing else, is set to GOOD
\* (_patch_cyclic_iocs).
THEOREM EveryConsumerAlwaysTold == ConfigurationSpec => []EveryConsumerTold
<1>1. ConfigurationInv => EveryConsumerTold
  <2> SUFFICES ASSUME ConfigurationInv, NEW t \in Topologies PROVE ConsumersTold(t.slots)
    BY DEF EveryConsumerTold
  <2> QED
    BY TopologySlots, ConsumersAreTold
<1> QED
  BY <1>1, ConfigurationInvariant, PTL

\* What the client sends for a device gets to the drive's telegrams, and what the drive
\* sends gets back, whole and in order, for every rack whose Drive Objects have the
\* lengths of the telegram they are given (write_raw_outputs, read_raw_inputs).
THEOREM ProcessDataAlwaysSurvives == ConfigurationSpec => []ProcessDataSurvives
<1>1. ConfigurationInv => ProcessDataSurvives
  <2> SUFFICES ASSUME ConfigurationInv, NEW t \in Topologies, SameLengths(t)
               PROVE  OutputsArrive(t) /\ InputsArrive(t, Total(Ins(t.dos)))
    BY DEF ProcessDataSurvives
  <2>1. PICK found \in BOOLEAN, config \in DeviceConfigs :
          /\ RackPlaced(EffectiveRack(config))
          /\ t = ExpectedSlots(setup.file, found, config, setup.env)
    BY TopologyFrom
  <2>2. setup.file \in Files /\ IdentsDiffer(setup.file)
    BY TopologyFrom
  <2>3. /\ t.slots \in Seq(DataParts) /\ OncePerName(t.slots)
        /\ t.dos \in Seq(DataParts) /\ t.dos # <<>>
        /\ \E pos : Carries(t.slots, t.dos, pos)
    BY <2>1, <2>2, TopologyCarries
  <2>4. PICK pos : Carries(t.slots, t.dos, pos)
    BY <2>3
  <2> QED
    BY <2>3, <2>4, InputsAreWhole, OutputsAreWhole
<1> QED
  BY <1>1, ConfigurationInvariant, PTL

\* For every such rack and every environment, the parts of the Connect request agree with
\* each other and with the cyclic controller, as far as no variable sets one side alone;
\* the drive's cyclic frames are understood with their VLAN tag and without, its alarms
\* with the tag only where the listener is patched (_patch_expected_submodule, _patch_iocr,
\* _build_iocr_configs, _patch_cyclic_vlan, _start_alarm_listener).
THEOREM EveryRequestAlwaysConsistent == ConfigurationSpec => []EveryRequestConsistent
<1>1. ConfigurationInv => EveryRequestConsistent
  <2> SUFFICES ASSUME ConfigurationInv
               PROVE  /\ \A r \in Requests :
                           /\ RequestConsistent(r.blocks, r.slots)
                           /\ RequestIsKept(r.blocks, r.slots, setup.env)
                      /\ TagsUnderstood(setup.env, <<"alarm">>)
    BY DEF EveryRequestConsistent
  <2>1. ASSUME NEW r \in Requests
        PROVE  /\ RequestConsistent(r.blocks, r.slots)
               /\ RequestIsKept(r.blocks, r.slots, setup.env)
    <3>1. PICK t \in Topologies :
            r = [slots |-> t.slots, blocks |-> ConnectRequest(t.slots, setup.env)]
      BY DEF Requests
    <3>2. r.slots = t.slots /\ r.blocks = ConnectRequest(t.slots, setup.env)
      BY <3>1
    <3>3. t.slots \in Seq(DataParts) /\ OncePerName(t.slots)
      BY TopologySlots
    <3> QED
      BY <3>2, <3>3, RequestAgrees, RequestKept
  <2> QED
    BY <2>1, TagsAre
<1> QED
  BY <1>1, ConfigurationInvariant, PTL
=============================================================================
