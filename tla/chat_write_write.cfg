SPECIFICATION FairSystem
CONSTANTS
  c1 = c1
  c2 = c2
  alice = alice
  bob = bob
  Clients = {c1}
  NoClient = NoClient
  Fds = {4, 5}
  Cap = 1
  Backlog = 1
  Names = {alice, bob}
  NameOf <- OnlyAlice
  Unknown = unknown
  MaxMsgs = 3
  MaxCmds = 2
  Signals = FALSE
  Piped = FALSE
  Kills = FALSE
  Inputs <- Talker
PROPERTY SendsComplete
CHECK_DEADLOCK FALSE
