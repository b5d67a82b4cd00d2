SPECIFICATION StaffSpec
CONSTANTS
  None = None
  Handlers = {h1, h2}
  MAX_SHIFT_HOURS = 2
  DayHours = 3
  LastHour = 4
  MaxShifts = 2
SYMMETRY Symmetric
INVARIANTS
  StaffTypeOK
  OneShiftAtWork
  ShiftsAreBounded
  HoursFitTheDay
CHECK_DEADLOCK FALSE
