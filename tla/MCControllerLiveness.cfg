SPECIFICATION FairSpec
CONSTANTS
  Blends = {k1}
  ConfigMaps = {m1, m2}
  Recipes = {r1}
  Configs = {d1, d2}
  Foreign = Foreign
  Nobody = Nobody
  Absent = Absent
  Seconds = 2
  MaxTroubles = 2
PROPERTIES
  Converges
