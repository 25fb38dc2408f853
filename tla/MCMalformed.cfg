CONSTANTS
  Word <- MCWord
  CodeBaseAddress <- MCCodeBase
  DataBaseAddress <- MCDataBase
  LoadBaseAddress <- MCLoadBase
  DeflateSize <- MCDeflateSize
  Inputs <- MCMalformedInputs
  WriteMayFail = FALSE

SPECIFICATION Spec

\* The program exits after the last pass.
CHECK_DEADLOCK FALSE

INVARIANT RejectsExactlyBadInputs
