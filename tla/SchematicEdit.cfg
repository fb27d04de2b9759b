SPECIFICATION Spec
CONSTANTS
  PropertyNames = {"Reference", "Footprint", "User"}
  Projects <- MCProjects
  Edits <- MCEdits
  Modules <- MCModules
  MaxBatch = 2
  LabelUuids = {5, 550, 900}
  ModuleUuids = {100}
  MaxCommands = 3
  MaxFaults = 1
INVARIANTS
  OnlyTheNamedChange
  ReferencesStayApart
  LabelsStayTogether
  FailureRestores
CHECK_DEADLOCK FALSE
