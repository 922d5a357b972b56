SPECIFICATION Spec
CONSTANTS
  ann = ann  bob = bob  h1 = h1  h2 = h2  e1 = e1
  Session = {ann, bob}
  Overrider = {}
  Entry = {e1}
  Shipment = {h1}
  Ledger = {}
  OrderQty = 1
  Ceiling = 1
  MaxQty = 1
INVARIANTS
  ShippedIsCovered
