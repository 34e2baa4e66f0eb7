\* An upload or a download with two chunks, every fault, fair scheduling of the client.
SPECIFICATION Spec
CONSTANTS
  Chunks = 2
  Directions = {"upload", "download"}
  Faults = {"break", "host", "local", "change", "loss"}
INVARIANTS
  TransferTypeOK
  OutcomeHonest
  CommittedIsSource
  LeftoversReported
  UploadTellsOrphans
PROPERTY
  ImplementsReplacement
  TransferReturns
