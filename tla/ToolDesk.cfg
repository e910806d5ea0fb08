SPECIFICATION Spec
CONSTANTS
  Calls = {c1, c2}
  Job = job
  Day = 3
  QuietHours <- MCQuietHours
  Cooldown = 2
  Delays = {0, 1}
  MaxReminders = 2
  MaxCalls = 4
  Horizon = 3
  External = {send}
  Addresses = {a1, a2}
  MaxAsks = 2
INVARIANTS RemindersKept NudgesAreSpaced ConfirmationsKept
SYMMETRY Symmetry
CHECK_DEADLOCK FALSE
