SPECIFICATION FairSpec
CONSTANT MaxBoots = 3
INVARIANTS TypeOK BootCountExact DatabaseServed MountedWhenUsed NoReentry
PROPERTIES SavedStaysSaved QuitReboots
