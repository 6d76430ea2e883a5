CONSTANTS
  Tasks = {t1, t2, t3}
  Models = {demo, other}
  Dimensions = {16, 32}
  Keys = {k1, k2}
  Nothing = Nothing
SPECIFICATION Spec
INVARIANTS
  TypeOK
  OneSpace
PROPERTIES
  SettledOnce
