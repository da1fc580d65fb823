\* An adversary with up to 2 frames: a handshake with any public key, then
\* an empty ride request.
CONSTANTS
  DH_PRIME = 23
  DH_GENERATOR = 5
  PrivKeys = {3}
  ClientIds = {5}
  AtkPubs = {0}
  WrongKeys = {}
  Peers = {"adversary"}
  MaxSends = 2
  Timeouts = FALSE
SPECIFICATION ShortSpec
INVARIANT NoForgedDispatch
