SPECIFICATION FairSpec
CONSTANTS
  MAX_LENGTH_MESSAGE = 3
  MAX_TIME_WAITING = 2
  Keys = {0, 2, 10,11,12,13,14,15}
INVARIANTS
  TypeOK
  CursorOnLine
  ScanInBounds
  KeyGivesItsLetters
  SettingShown
PROPERTIES
  TimeConfirms
