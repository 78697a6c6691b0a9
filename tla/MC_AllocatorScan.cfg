CONSTANTS
  Width = 3
  Absent = Absent

SPECIFICATION Spec

PROPERTIES
  ScanFindsLowestFree
