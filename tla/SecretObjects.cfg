CONSTANTS
  Lists <- AllLists
  Settings <- PathSettings
  NoObject = NoObject
  LongWords = {"False", "jmes", "kms", "oos", "acs"}
SPECIFICATION Spec
INVARIANTS TypeOK  Relative AdmittedIffDistinct
CHECK_DEADLOCK FALSE
