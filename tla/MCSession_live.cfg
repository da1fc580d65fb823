\* The honest client alone, with the handler and the client both running
\* (weak fairness): three private keys per side (nine key pairs) over
\* p = 23, a VIP and a regular client id.
CONSTANTS
  DH_PRIME = 23
  DH_GENERATOR = 5
  PrivKeys = {3, 6, 9}
  ClientIds = {5, 50}
  AtkPubs = {0}
  WrongKeys <- MCWrongKeys
  Peers = {"honest"}
  MaxSends = 0
  Timeouts = FALSE
SPECIFICATION Spec
PROPERTY HonestAnswered
