CONSTANTS
  Clients = {c1, c2}
  Keys = {k1, k2}
  Values = {v1, v2}
  Classes <- MCClasses
  MaxPk = 2
  None = None
  Default = Default
  Idle = Idle
SPECIFICATION Spec
PROPERTIES WriteOnceKept HitsItsKey MakesWhatIsMissing
SYMMETRY Symmetry
CHECK_DEADLOCK FALSE
