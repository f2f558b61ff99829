SPECIFICATION ServerSpec
CONSTANTS
  Macs = {a, b, c}
  NoMac = nomac
  Slots <- TwoSlots
  Granule = 2
  Granules = 8
  LeaseTime = 3
INVARIANT RefusedOnlyWhenLeased
