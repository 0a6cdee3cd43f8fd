SPECIFICATION Spec
CONSTANTS
  p1 = p1
  p2 = p2
  k1 = k1
  k2 = k2
  n1 = n1
  light = light
  dark = dark
  codex = codex
  other = other
  None = None
  Corrupt = Corrupt
  Garbled = Garbled
  Patches = {p1}
  Checks = {}
  Installs = {n1}
  Themes = {light, dark}
  Binaries = {codex, other}
  CodexPaths = {codex}
  Amounts <- MCAmounts
  Precisions <- MCPrecisions
  Requests <- ChannelsOnly
  TolerancesEdits <- MCTolerancesEdits
  AdvancedEdits <- MCAdvancedEdits
  MaxClock = 2
  MaxDamage = 2
  Faults <- NoFaults
CHECK_DEADLOCK FALSE
PROPERTIES InstallsSelectedChannel
