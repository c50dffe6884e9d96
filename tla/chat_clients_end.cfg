SPECIFICATION FiniteClientsSpec
CONSTANTS
  c1 = c1
  c2 = c2
  alice = alice
  bob = bob
  Clients = {c1, c2}
  NoClient = NoClient
  Fds = {4}
  Cap = 1
  Backlog = 1
  Names = {alice, bob}
  NameOf <- TwoNames
  Unknown = unknown
  MaxMsgs = 1
  MaxCmds = 1
  Signals = TRUE
PROPERTIES AcceptedEventually ClosedEventuallyRemoved ShutdownHonoured
CHECK_DEADLOCK FALSE
