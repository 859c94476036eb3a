CONSTANTS
  p1 = p1
  t1 = t1
  tp1 = tp1
  Processes <- MCProcesses
  Reconciler = "reconciliation"
  Mortal <- MCProcesses
  Tasks <- MCTasks
  Home <- MCHome
  Qty = 3
  Targets <- MCTargets
  TargetQty <- MCTargetQty
  Outcomes <- MCAny
  MaxShort = 0
  Nobody = Nobody
SPECIFICATION SpecX
INVARIANTS
  OneOrderAtATime
  WrittenOffOnlyByUpdate
PROPERTIES
  FilledExitIsFlat
