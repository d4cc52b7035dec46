SPECIFICATION FairSpec
CONSTANTS
  main = main
  dev = dev
  repo1 = repo1
  repo2 = repo2
  cred1 = cred1
  cred2 = cred2
  Repos = {repo1, repo2}
  Branches = {main}
  Default = main
  HeadRef = HEAD
  NoRef = NoRef
  Creds = {NoCred, cred1, cred2}
  NoCred = NoCred
  BadCred = BadCred
  Calls = {c1, c2}
  Free = Free
  Pathless = {}
  MaxCommits = 1
  NumSources = 2
  NoEntry = NoEntry
  NoRecipe = NoRecipe
  Entries <- TwoEntries
  Accepts <- MCAccepts
  Recipes <- OneRecipe
INVARIANTS
  TypeOK
  CredentialsMatchRepo
PROPERTIES
  RequestsAnswered
