SPECIFICATION Spec
CONSTANTS
  Req = {r1, r2}
  Match = {m1, z1}
  Fwd = {}
  Vlan = {}
  AnyMatch = AnyMatch
  v10 = v10
  t10 = t10
  m1 = m1
  z1 = z1
  NoVlan = NoVlan
  TextOf <- MCTextOf
  Mod <- MCMod
  All = All
  Prio = {0, 1}
  Asked = {1, 2}
  MaxId = 2
SYMMETRY Symmetry
INVARIANTS
  TypeOK
  IdsAreUnique
PROPERTY DeleteSparesOthers
