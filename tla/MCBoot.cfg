\* Every console key, message and host command; two faults anywhere.
SPECIFICATION BootSpec
CONSTANTS
  MaxChunks = 5
  MaxFaults = 2
  Flashable = {"recovery"}
INVARIANTS
  BootTypeOK
  UpdateKept
  RequestKept
  StartsWhatIsStored
PROPERTY BootCompletes
