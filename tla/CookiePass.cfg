\* Two accounts through boots, sync passes, heals, shutdowns and kills.
SPECIFICATION Spec
CHECK_DEADLOCK FALSE
CONSTANTS
  Psids = {"a1", "a2", "b1"}
  NoPsid = "nopsid"
  OwnerOf <- Owners
  Profiles <- TwoProfiles
  Files <- BothBlocks
  Events = {"degrade", "login", "kill", "error"}
  MaxRotations = 1
  MaxBoots = 2
INVARIANTS
  SlotsKeepTheirAccount
  
PROPERTIES
  BlocksKeepTheirAccount
  RefreshIsPositional
