SPECIFICATION Spec
CONSTANTS
  Addresses = {zero, alice, bob}
  Zero = zero
  Nullifiers = {0, 1, 2}
  Claims = {x1}
  NoClaim = noClaim
  MaxSbts = 3
CHECK_DEADLOCK FALSE
INVARIANTS TypeOK OneSbtEach LookupsNameTheirOwner
PROPERTIES SbtsOnlyRevoked
