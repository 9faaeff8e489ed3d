SPECIFICATION EachSpec
CONSTANTS
  h1 = h1
  h2 = h2
  Hosts = {h1, h2}
  MaxChanges = 3
  MaxStarts = 2
  MaxFails = 1
  MaxEnds = 1
INVARIANTS
  RecordOutlivesPins OnDemandAsAsked
  NoListsForgotten FilesStandForSettings
  PinsKept RootKept
PROPERTIES CallersReturn
\* With nothing to do and its bounds used up, each of the five stops.
CHECK_DEADLOCK FALSE
