SPECIFICATION FairSpec
CONSTANTS
  Addresses = {a1, a2}
  NoAddress = NoAddress
  QueueLength = 2
  NtpServers <- Servers
  MaxServers = 3
  NoServer = NoServer
  Fds <- Sockets
  Logins = {NoLogin, l1}
  NoLogin = NoLogin
  NoSession = NoSession
  NoJob = NoJob
  FileLength = 1
  MaxTexts = 2
  MaxHappenings = 5
INVARIANTS LastWordCounts WebClientsServed SubscriptionsAreMade
PROPERTIES NeverLeftIdle
CHECK_DEADLOCK FALSE
