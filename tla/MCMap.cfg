\* A site of three nodes and its file, and up to two edits of either.
SPECIFICATION FileSpec
CONSTANTS
  a = a
  b = b
  c = c
  d = d
  ghost = ghost
  e1 = e1
  e2 = e2
  e3 = e3
  e4 = e4
  lane = lane
  crossing = crossing
  bay = bay
  m1 = m1
  m2 = m2
  None = None
  Name <- TheNames
  FirstDraft <- TheSite
  Parts <- TheParts
  MaxEdits = 2
  NoFile = NoFile
  Torn = Torn
  NotAnObject = NotAnObject
  Absent = Absent
  Mistyped = Mistyped
  Blank = Blank
  FirstText <- TheText
  Entries <- TheEntries
  Speeds = {0, 2}
  CapacityBits = 4
INVARIANTS
  NamesCanBeTrusted
  ResourcesLeadThrough
  ReachabilityIsTrue
  RoundTrips
