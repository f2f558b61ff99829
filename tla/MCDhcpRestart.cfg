SPECIFICATION RestartSpec
CONSTANTS
  Macs = {a, b}
  NoMac = nomac
  Slots <- TwoSlots
  Granule = 2
  Granules = 5
  LeaseTime = 3
  MaxNet = 2
INVARIANT OneHolder
