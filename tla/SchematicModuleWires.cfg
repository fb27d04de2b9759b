SPECIFICATION Spec
CONSTANTS
  PropertyNames = {"Reference", "Footprint", "User"}
  Projects <- MCProjects
  Edits <- MCEdits
  Modules <- MCModules
  MaxBatch = 2
  LabelUuids = {5, 550, 900}
  ModuleUuids = {100}
  MaxCommands = 1
  MaxFaults = 1
INVARIANTS
  ModuleJoinsNothingElse
CHECK_DEADLOCK FALSE
