\* One connection; the peer is the honest client (whose receive timeout may
\* expire) or an adversary with up to
\* 3 frames, whose own public keys are 0 and -5.  DH over p = 23 with
\* generator 5: two private keys per side give four possible shared secrets.
CONSTANTS
  DH_PRIME = 23
  DH_GENERATOR = 5
  PrivKeys = {3, 6}
  ClientIds = {5}
  AtkPubs <- MCAtkPubs
  WrongKeys <- MCWrongKeys
  Peers = {"honest", "adversary"}
  MaxSends = 3
  Timeouts = TRUE
SPECIFICATION Spec
INVARIANT TypeOK
INVARIANT KeysAgree
INVARIANT NoForgedDispatch
