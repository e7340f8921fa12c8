CONSTANTS
  game = game
  server = server
  NoTask = NoTask
  Procs <- TwoProcs
  Threads <- ThreadNames
  Words <- TwoWords
  Leading <- DigitsOf
  Matching <- NamedBy
  MaxPauses = 1
  MaxCommands = 2
SPECIFICATION Spec
INVARIANTS TypeOK PausesBalanced PromptClean
PROPERTIES WatchStops QuitExits
CHECK_DEADLOCK FALSE
