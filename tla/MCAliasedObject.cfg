SPECIFICATION Spec
CHECK_DEADLOCK FALSE
CONSTANTS
  Targets <- MCTargets
  Keys = {"one"}
  Leaves = {"id", "token"}
  SharedItems <- AllItems
  OwnItems <- AllItems
  Transcripts <- AllTranscripts
PROPERTIES
  TargetSeparated
