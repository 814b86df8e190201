CONSTANTS
  Lease = {l1, l2}
  NoLease = NoLease
  Ttl = 3
  MaxCalls = 2
SPECIFICATION LeaseSpec
SYMMETRY Symmetry
INVARIANTS FreshHolderOwns
PROPERTIES OnlyOwnerTouchesKey 
