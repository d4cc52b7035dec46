SPECIFICATION FairSpec
CONSTANTS
  body1 = body1
  body2 = body2
  old = old
  new = new
  RecipeNames = {"versions", "app"}
  SourceNames = {"test"}
  Bodies = {body1, body2}
  Repos = {"repo"}
  Needs <- MCNeeds
  Tokens = {old, new}
  NoToken = NoToken
  Bearers = {old, NoToken}
  Browsers = {"browser"}
  Processes = {"process"}
  BrowserOps <- MCBrowserOps
  LocalOps <- MCLocalOps
  RemoteOps <- MCRemoteOps
  Nothing = Nothing
  NoOne = NoOne
  TTL = 1
  MaxVersions = 2
  MaxTime = 1
INVARIANTS
  TypeOK
  SessionsHold
PROPERTIES
  RemoteLikeLocal
  OnlyProvenWrites
  EveryCallEnds
