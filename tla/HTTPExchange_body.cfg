\* One file of one token.
SPECIFICATION Spec
CONSTANTS
  Resources = {"file"}
  BodySize = 1
INVARIANT
  BodyIsTheFile
