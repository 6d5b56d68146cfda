SPECIFICATION TextSpec
CONSTANTS
  Window = 3
  BufSize = 5
  Separator <- MCSeparator
  Conversion <- MCConversion
  Songs <- MCSongs
  Letters <- MCLetters
  Grants <- MCGrants
INVARIANTS
  TemporaryExact
  EventOnce
  ScrollerShows
PROPERTIES
  TextWritten
