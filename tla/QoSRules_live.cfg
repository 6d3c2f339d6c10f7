SPECIFICATION FairSpec
CONSTANTS
  Req = {r1}
  Match = {m1, z1}
  Fwd = {f1}
  Vlan = {v10}
  AnyMatch = AnyMatch
  v10 = v10
  t10 = t10
  m1 = m1
  z1 = z1
  NoVlan = NoVlan
  TextOf <- MCTextOf
  Mod <- MCMod
  All = All
  Prio = {0, 1}
  Asked = {0}
  MaxId = 1
INVARIANT DefaultFlowStays
PROPERTY RulesCanBeCleared
