CONSTANTS
  s1 = s1
  plate = plate
  oven = oven
  hello = hello
  welcome = welcome
  hero = hero
  about = about
  menu = menu
  Slots = {s1}
  Texts = {hello, welcome}
  Sections = {hero, about, menu}
  Refs = {plate, oven}
  Center = "center"
  Focals = {"center", "left"}
  Null = Null
  Patches <- MCPatches
  RingSize = 2
  Versions <- MCVersions
  Tabs = {t1, t2}
  Seed <- MCSeed
  MaxEdits = 3
  MaxLosses = 1
  MaxLoads = 2
  MaxVersions = 2
SPECIFICATION FairSpec
INVARIANTS
  DriftHasACause
  ConflictHasACause
PROPERTIES
  IsUndoHistory
  QueueDrains
CHECK_DEADLOCK FALSE
