\* Deadlock is not checked: MaxConfirms ends the behaviours.
SPECIFICATION Spec
CONSTANTS
  TypedNumbers <- MCTypedNumbers
  TypedPorts <- MCTypedPorts
  Profiles <- MCProfiles
  Default <- MCDefault
  MaxFinished = 2
  MaxConfirms = 2
  MaxVisits = 2
  MaxEdits = 1
INVARIANTS
  SavedIsConfirmed
  OtherCameraKept
  UneditedIsWhole
CHECK_DEADLOCK FALSE
