SPECIFICATION Spec
CONSTANTS
  gone = gone
  ram = ram
  dark = dark
  guarded = guarded
  N = 4
  Gone = gone
  Objects = {ram, dark, guarded}
  Guarded = {guarded}
  Dark = {dark}
  Choices <- MCChoices
  Targets <- MCTargets
  Rights <- MCRights
INVARIANTS TypeOK EndsAscend
PROPERTIES PausedWalkExact ReadingTakesNothing WalkEnds
