SPECIFICATION Spec
CONSTANTS
  Recipes = {"app", "infra"}
  Null = Null
  MaxVersions = 2
  MaxRequests = 3
INVARIANT
  DiffIsOfOneRecipe
