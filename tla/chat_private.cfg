SPECIFICATION ReadingClientsSpec
CONSTANTS
  c1 = c1
  c2 = c2
  alice = alice
  bob = bob
  Clients = {c1, c2}
  NoClient = NoClient
  Fds = {4, 5}
  Cap = 2
  Backlog = 1
  Names = {alice, bob}
  NameOf <- TwoNames
  Unknown = unknown
  MaxMsgs = 1
  MaxCmds = 0
  Signals = FALSE
PROPERTY PrivateArrives
CHECK_DEADLOCK FALSE
