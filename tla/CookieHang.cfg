\* A shutdown while a replacement client is initialised.
SPECIFICATION FairSpec
CHECK_DEADLOCK FALSE
CONSTANTS
  Psids = {"a1", "a2", "b1"}
  NoPsid = "nopsid"
  OwnerOf <- Owners
  Profiles <- TwoProfiles
  Files <- BothBlocks
  Events = {"degrade"}
  MaxRotations = 0
  MaxBoots = 1
PROPERTIES
  ShutdownEnds
