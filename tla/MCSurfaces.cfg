SPECIFICATION FairSpec
CONSTANTS
  Pool = 2
  Tries = 2
  Lives = 2
  MaxEvents = 3
CHECK_DEADLOCK FALSE
INVARIANTS SurfacesInv PhotoIsWhole NotStuck
PROPERTIES ThreadsEnd PictureComes
