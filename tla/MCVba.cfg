SPECIFICATION Spec
CONSTANTS
  SectorSize = 4
  MiniSize = 2
  MiniCutoff = 6
  FatEntries = 8
  DirEntries = 4
  HeaderFat = 6
  DifatFat = 6
  ChunkSize = 6
  GroupSize = 3
  Lower <- MCLower
  Shorter <- MCShorter
  NotIdentifiers <- MCNotIdentifiers
  SheetNames <- MCSheetNames
  Modules <- MCModules
  Designers <- MCDesigners
  Designs <- MCDesigns
  Infos <- MCInfos
  RemovedNames <- MCRemoved
  FormPatches <- MCFormPatches
  ObjectPatches <- MCObjectPatches
  SitePatches <- MCSitePatches
  Attached <- MCAttached
  AttachedAsk <- MCAttachedAsk
  NoAsk <- MCNoAsk
  MaxSheets = 2
  MaxCalls = 2
  Packages <- MCPackages
  Reissue = FALSE
INVARIANTS
  SavedShowsCalls
  AttachedKept
  EditsKeepTheRest
CHECK_DEADLOCK FALSE
