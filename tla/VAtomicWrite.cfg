SPECIFICATION Spec
CONSTANTS
  NInodes = 4
  MaxSaves = 3
  SavedFiles = {"confirmation_manifest"}
INVARIANT ReaderSeesWholeFile
