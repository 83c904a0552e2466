SPECIFICATION FairSpec
CONSTANTS
  requester = requester
  worker = worker
  other = other
  h1 = h1
  h2 = h2
  t1 = t1
  v1 = v1
  v2 = v2
  v3 = v3
  NoAddr = NoAddr
  NoHash = NoHash
  Unopenable = Unopenable
  Accounts = {requester, worker, other}
  Requesters = {requester}
  Workers = {worker}
  Challengers = {other}
  Rejecting = {}
  Validators = {v1}
  Stakes = {1}
  Hashes = {h1}
  Transcripts = {NoHash}
  Slots = {0}
  Values = {1}
  Tunable <- Fixed
  InitialSettings <- TwoSettings
  InitialFunds <- TwoFunds
  ReplacementActive = {}
  MaxRequests = 2
  MaxTime = 5
  TimeModulus = 100
INVARIANTS
  TypeOK
PROPERTIES
  SlashJustified
  ImplementsEscrow
  EveryRequestEnds
CHECK_DEADLOCK FALSE
