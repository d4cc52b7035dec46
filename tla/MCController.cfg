SPECIFICATION Spec
CONSTANTS
  Blends = {k1, k2}
  ConfigMaps = {m1, m2}
  Recipes = {r1}
  Configs = {d1}
  Foreign = Foreign
  Nobody = Nobody
  Absent = Absent
  Seconds = 1
  MaxTroubles = 2
SYMMETRY Symmetry
INVARIANTS
  TypeOK
  NeverForgotten
PROPERTIES
  ReadyIsAboutCurrentSpec
  OwnerNeverReplaced
  LastGoodConfigKept
