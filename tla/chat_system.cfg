SPECIFICATION FairSystem
CONSTANTS
  c1 = c1
  c2 = c2
  alice = alice
  bob = bob
  Clients = {c1}
  NoClient = NoClient
  Fds = {4}
  Cap = 1
  Backlog = 1
  Names = {alice}
  NameOf <- OnlyAlice
  Unknown = unknown
  MaxMsgs = 3
  MaxCmds = 2
  Signals = FALSE
  Piped = TRUE
  Kills = TRUE
  Inputs <- Sessions
PROPERTIES ImplementsServerSpec ClientsNoticeServer PipedLinesHandled
CHECK_DEADLOCK FALSE
