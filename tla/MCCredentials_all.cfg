CONSTANTS
  Keys = {k1, k2, k3}
  Ops = {o1, o2}
  IdemKeys = {i1}
  None = None
  Cap = 1
  Mints <- MCMints
  Patches <- MCPatches
  Tags <- MCTags
  MaxBoot = 1
  MaxGen = 2
  MaxFaults = 1
SYMMETRY Symmetry
SPECIFICATION Spec
INVARIANTS ReadIsCurrent RevocationIsFinal CacheFollowsStore MintsAreBounded
CHECK_DEADLOCK FALSE
