CONSTANTS
  Setups <- MCSetups
  Object = {o1, o2, o3}
  MaxDevices = 2
  MaxDrives = 2
  MaxEdits = 2
  Torn = Torn
  None = None
SPECIFICATION ConfigurationSpec
SYMMETRY ObjectSymmetry
INVARIANTS
  ConfigurationTypeOK
  FrameSplitAgrees
  NeverTorn
  SavedIsRunning
  DialogRackSound
  CatalogIsSound
  EveryLayoutSound
  EveryConsumerTold
  ProcessDataSurvives
  EveryRequestConsistent
CHECK_DEADLOCK FALSE
