SPECIFICATION FairSpec
CONSTANTS
  Mod = 4
  Units = 3
  Sizes = {1, 4}
  Proposed <- ProposedLimits
  Default <- DefaultLimits
  Modes <- PatientModes
INVARIANTS TypeOK UnitsIntact OncePerLink FitsReceiver
PROPERTIES DownOnlyWhenAsked AllAnswered
CHECK_DEADLOCK FALSE
