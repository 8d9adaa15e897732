SPECIFICATION Spec
CONSTANTS
  NInodes = 4
  MaxSaves = 4
  SavedFiles = {"sweep_manifest", "confirmation_spec"}
INVARIANTS
  AtomicTypeOK
  ReaderSeesWholeFile
PROPERTIES
  ImplementsAtomicFile
