CONSTANTS
  app = app
  lib = lib
  dep = dep
  Ids <- Ids3
  Metadatas <- MCMetadatas
SPECIFICATION Spec
CHECK_DEADLOCK FALSE
INVARIANTS StackBound
PROPERTIES AnswersAsPromised CallsReturn
