SPECIFICATION Spec
CONSTANTS
  Macs = {a, b}
  NoMac = nomac
  Slots <- TwoSlots
  Granule = 2
  Granules = 5
  LeaseTime = 3
  MaxNet = 2
INVARIANTS TypeOK OneHolder HoldersRecorded LiveLooksLive
PROPERTIES Promise NoEviction
SYMMETRY Symmetry
