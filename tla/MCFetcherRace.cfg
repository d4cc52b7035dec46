SPECIFICATION FetcherSpec
CONSTANTS
  Repos = {repo1}
  Branches = {main, dev}
  Default = main
  HeadRef = HEAD
  NoRef = NoRef
  Creds = {NoCred}
  NoCred = NoCred
  BadCred = BadCred
  Calls = {c1, c2}
  Free = Free
  Pathless = {3}
  MaxCommits = 3
INVARIANT
  NoFatalError
