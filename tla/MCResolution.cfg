SPECIFICATION Spec
CONSTANTS
  main = main
  dev = dev
  repo1 = repo1
  repo2 = repo2
  cred1 = cred1
  cred2 = cred2
  Repos = {repo1}
  Branches = {main, dev}
  Default = main
  HeadRef = HEAD
  NoRef = NoRef
  Creds = {NoCred, cred1}
  NoCred = NoCred
  BadCred = BadCred
  Calls = {c1, c2}
  Free = Free
  Pathless = {}
  MaxCommits = 3
  NumSources = 1
  NoEntry = NoEntry
  NoRecipe = NoRecipe
  Entries <- OneEntry
  Accepts <- MCAccepts
  Recipes <- MovingRecipes
SYMMETRY Symmetry
INVARIANTS
  AnswerFitsLayers
  LayersFresh
  LayersAdvance
