CONSTANTS
  NStreams = 2
  Unset = Unset
  NoNumber = NoNumber
  NoFormat = NoFormat
  ValidFormats = {"leef"}
  Environments <- MCEnvironments
SPECIFICATION FairSpec
INVARIANTS ReadyToPost
PROPERTIES KeepsPolling
CHECK_DEADLOCK FALSE
