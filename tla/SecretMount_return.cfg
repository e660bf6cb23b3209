CONSTANTS
  app = app
  db = db
  param = param
  user = user
  h1 = h1
  h2 = h2
  NoCall = NoCall
  NoFile = NoFile
  Whole = Whole
  Calls = {h1, h2}
  Files = {"app", "db"}
  Secrets = {app, db}
  KmsSecrets = {app, db}
  Paths = {user}
  Specs <- ReturnSpecs
  Documents <- AllDocuments
  MaxVersion = 2
  MaxFaults = 0
  SaveCanFail = FALSE
SPECIFICATION FairSpec
PROPERTIES Rotation
