\* Two options of any type.  The numbers are a half, one, and two, which
\* stands for a whole number that is too large for an i64.
SPECIFICATION Spec
CONSTANTS
  Option = {o1, o2}
  Number = {1, 2, 4}
  Int64Max = 2
  Word = Word
  Leave = Leave
SYMMETRY OptionSymmetry
INVARIANTS
  SettingsAreHonoured
  GoodSettingsAccepted
CHECK_DEADLOCK FALSE
