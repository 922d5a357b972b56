SPECIFICATION Spec
CONSTANTS
  ann = ann  bob = bob  n1 = n1  n2 = n2  n3 = n3  fabric = fabric
  Session = {ann, bob}
  Decider = {ann}
  Material = {fabric}
  BomLines <- ThreeLines
  MaterialOf <- TwoOnFabric
  Unlinked = Unlinked
  LineUnit <- Units
  StockUnit <- FabricUnit
  Bills <- Needs
  MaxQty = 2
  MaxDebt = 1
  MaxMoves = 1
INVARIANT TypeOK
PROPERTY RunAsksWithinNeed
