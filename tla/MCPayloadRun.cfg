SPECIFICATION Spec
CONSTANTS
  MaxU128 = 127
  UsizeMod = 64
  MaxU8 = 3
  Blobs <- MCBlobs
  MULTISIG_FORWARDER = 20
  WRAP_FORWARDER = 21
  Token = 7
  Calls <- MCCalls
INVARIANTS
  TypeOK
  MovedAsCounted
  DecodableIsProvable
  EncodedCallsArrive
CHECK_DEADLOCK FALSE
