SPECIFICATION Spec
CONSTANTS
  Packages <- MCPackages
  DependantsOf <- MCDependantsOf
  AllowLint = "allow"
  NoCode = NoCode
  NoSpan = NoSpan
  Unset = Unset
  Requests <- DocRequests
  Alphabet <- MessagesAlphabet
  MaxMessages = 2
  Faults = {}
INVARIANT IncompleteTold
CHECK_DEADLOCK FALSE
