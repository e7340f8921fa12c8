SPECIFICATION Spec
CONSTANTS
  gone = gone
  ram = ram
  dark = dark
  guarded = guarded
  N = 3
  Gone = gone
  Objects = {ram, dark, guarded}
  Guarded = {guarded}
  Dark = {dark}
  Choices <- DarkChoices
  Targets = {}
  Rights <- MCRights
PROPERTY ProtectionRestored
