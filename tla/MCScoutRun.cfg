SPECIFICATION Spec
CONSTANTS
  Packages <- MCPackages
  DependantsOf <- MCDependantsOf
  AllowLint = "allow"
  NoCode = NoCode
  NoSpan = NoSpan
  Unset = Unset
  Requests <- MCRequests
  Alphabet <- MCAlphabet
  MaxMessages = 3
  Faults <- ControlFaults
CONSTRAINT FewMessages
INVARIANTS FailFileHonest OnlyAsked ReportsTold VerdictsRight NoFindingLost SuppressedTogether
CHECK_DEADLOCK FALSE
