SPECIFICATION FairSpec
CONSTANTS
  Sockets = 3
  Listeners = {0}
  Server = Server
  Publisher = Publisher
  MaxConnects = 3
  MaxInputs = 1
  MaxWrites = 1
INVARIANTS NfdsCovers ServerSparesTheLiving NoClientMissed FieldsAgree
PROPERTY GoneIsNoticed
CHECK_DEADLOCK FALSE
