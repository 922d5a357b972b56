SPECIFICATION Spec
CONSTANTS
  ann = ann
  bob = bob
  eve = eve
  guest = guest
  s1 = s1
  s2 = s2
  Person = {ann, bob, eve, guest}
  Listed = {ann, bob, eve}
  Founders = {ann, bob}
  Session = {s1, s2}
  MaxRequests = 5
  MaxDeploys = 1
INVARIANTS SomebodyManages FlagIsUsable
SYMMETRY Symmetry
CHECK_DEADLOCK FALSE
