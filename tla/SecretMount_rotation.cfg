CONSTANTS
  app = app
  db = db
  param = param
  user = user
  h1 = h1
  h2 = h2
  NoCall = NoCall
  NoFile = NoFile
  Whole = Whole
  Calls = {h1, h2}
  Files = {"app", "db", "user"}
  Secrets = {app, db}
  KmsSecrets = {app, db}
  Paths = {user}
  Specs <- RotationSpecs
  Documents <- AllDocuments
  MaxVersion = 2
  MaxFaults = 1
  SaveCanFail = FALSE
SPECIFICATION FairSpec
PROPERTIES Rotation
