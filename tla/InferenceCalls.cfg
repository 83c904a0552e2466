SPECIFICATION CallsSpec
CONSTANTS
  requester = requester
  worker = worker
  other = other
  h1 = h1
  h2 = h2
  t1 = t1
  v1 = v1
  v2 = v2
  v3 = v3
  NoAddr = NoAddr
  NoHash = NoHash
  Unopenable = Unopenable
  Accounts = {requester, worker, other}
  Requesters = {requester}
  Workers = {worker}
  Challengers = {other}
  Rejecting = {}
  Validators = {v1}
  Stakes = {1}
  Hashes = {h1}
  Transcripts = {NoHash}
  Slots = {0}
  Values = {1, 2}
  Tunable <- CallsTuned
  InitialSettings <- CallsSettings
  InitialFunds <- CallsFunds
  ReplacementActive = {}
  MaxRequests = 2
  MaxTime = 4
  TimeModulus = 100
INVARIANTS
  Covered
  WholeAtRest
PROPERTIES
  Undisturbed
  FinalizedByQuorum
  CallsImplementEscrow
CHECK_DEADLOCK FALSE
