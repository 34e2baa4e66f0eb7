\* Two clients of one socket path, each with one command and one frame of output.
SPECIFICATION FairSpec
CONSTANTS
  Clients = {c1, c2}
  None = None
  MaxOutput = 1
  Observed = c1
CHECK_DEADLOCK FALSE
INVARIANTS
  ClientTypeOK
  OneMaster
  LiveSocketKept
  PasswordNeeded
  ClientHonest
PROPERTY
  CommandReturns
