CONSTANTS
  app = app
  db = db
  param = param
  user = user
  h1 = h1
  h2 = h2
  NoCall = NoCall
  NoFile = NoFile
  Whole = Whole
  Calls = {h1, h2}
  Files = {"app", "param", "user"}
  Secrets = {app, param}
  KmsSecrets = {app}
  Paths = {user}
  Specs <- PinSpecs
  Documents <- FirstDocuments
  MaxVersion = 2
  MaxFaults = 2
  SaveCanFail = FALSE
SPECIFICATION Spec
SYMMETRY HandlerSymmetry
INVARIANTS TypeOK AnswerAcceptable VersionsHonest
PROPERTIES VolumePromise
