CONSTANTS
  s1 = s1
  s2 = s2
  NoDoc = NoDoc
  Nothing = Nothing
  Corrupt = Corrupt
  Session = {s1, s2}
  Data <- MCData
  Doc <- MCDoc
  Initial <- MCInitial
  Diff <- MCDiff
  Apply <- MCApply
  View <- MCView
  Edits <- MCEdits
  Edited <- MCEdited
  Filters = {TRUE, FALSE}
  SmallArray = 2
  LcsMaxCells = 9
  MaxIndex = 4
  MaxEdits = 2
  MaxWire = 2
  MaxNotes = 1
  Policies = {"save", "delete", "keep"}
  Versions = {1, 2}
  Deploys = {"persistent", "ephemeral", "unregistered"}
  Faults = TRUE
  MaxTokens = 2
  MaxSaves = 2
  MaxStarts = 1
SPECIFICATION MCSpec
INVARIANTS DurableTypeOK PatchReproduces PatchIsShort CopyFollows NoteAfterState CleanStopKeepsAll OwedCanReturn DeletedStaysDeleted
PROPERTIES StoreOnlyAdvances NothingLost
CHECK_DEADLOCK FALSE
