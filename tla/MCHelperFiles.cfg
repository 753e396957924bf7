SPECIFICATION FilesSpec
CONSTANTS
  Helpers = {p1, p2}
  Jobs <- MCJobs
SYMMETRY Symmetry
CHECK_DEADLOCK FALSE
INVARIANT LiveIsTested
PROPERTY FailureRestores
PROPERTY SuccessInstalls
