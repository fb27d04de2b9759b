SPECIFICATION Spec
CONSTANTS
  PropertyNames = {"Reference", "Footprint", "User"}
  Projects <- MCProjects
  Edits <- MCEdits
  Modules <- MCModules
  MaxBatch = 2
  LabelUuids = {5, 550, 900}
  ModuleUuids = {100}
  MaxCommands = 2
  MaxFaults = 1
INVARIANTS
  ModuleLabelsTogether
CHECK_DEADLOCK FALSE
