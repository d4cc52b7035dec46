SPECIFICATION Spec
CONSTANTS
  text = text
  date = date
  million = million
  nan = nan
  one = one
  oneString = oneString
  base = base
  team = team
  Nobody = Nobody
  TypeOf <- MCTypeOf
  Large = {million}
  Unencodable = {nan}
  Words = {"a", "b"}
  Keys <- MCKeys
  Scalars = {text, date, nan}
  Opaque = {date}
  Items = {one, million, oneString, nan, date}
  Text <- MCText
  LayerNames = {base, team}
  Contents <- MCContents
  Policies <- MCPolicies
  MaxLayers = 3
CHECK_DEADLOCK FALSE
INVARIANTS
  TypeOK
  ExplainMirrors
  ExplainNamesLastSetter
  ConfigIsCombination
  MergeAgrees
  EveryViewNamesLastSetter
  SameYamlIfPortable
