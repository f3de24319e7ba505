CONSTANTS
  Transfers = {"first", "second", "third"}
  FromNs <- MCFromNs
  ToNs <- MCToNs
  Source <- MCSource
  Target <- MCTarget
  Certs = {"server", "client"}
  Cases <- MCCases
SPECIFICATION Spec
INVARIANTS
  TypeOK
  DoneLeavesOnlyClaim
  PeersInPlace
  OneClientPod
  CopiedOnce
  PasswordsAgree
PROPERTIES
  CollectsOnlyOwn
  TransferEnds
