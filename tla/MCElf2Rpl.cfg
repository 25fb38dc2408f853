CONSTANTS
  Word <- MCWord
  CodeBaseAddress <- MCCodeBase
  DataBaseAddress <- MCDataBase
  LoadBaseAddress <- MCLoadBase
  DeflateSize <- MCDeflateSize
  Inputs <- MCPipelineInputs
  WriteMayFail = FALSE

SPECIFICATION Spec

\* The program exits after the last pass.
CHECK_DEADLOCK FALSE

INVARIANTS
  TypeOK
  ReferencesPreserved
  REL32Lowered
  FileInfoCoversSegments
  CrcTableMatchesContent
  WrittenSectionsReadBack
  
  LoaderReferencesFollowSection
  RejectsExactlyBadInputs

PROPERTY
  ImplementsConverter
