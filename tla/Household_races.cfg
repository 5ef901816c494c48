CONSTANTS
  Residents = {r1, r2}
  Kinds = {"OWNER", "TENANT"}
  Patches = {"UNDER_MAINTENANCE"}
  Workers = {w1, w2}
  Plates = {car, bike}
  Slots = {s1, s2}
  TwoWheelers = {bike, s2}
SYMMETRY Symmetry
SPECIFICATION Spec
INVARIANTS
  StatusFollowsOccupants
  OneVehiclePerSlot
  VehicleParksOnce
