CONSTANT Configs <- MCConfigs
SPECIFICATION FairSpec
INVARIANTS RequestsReachDrive AnnouncedOnce
PROPERTIES DiscHeld EventsNameDrives InsertedAnnounced
