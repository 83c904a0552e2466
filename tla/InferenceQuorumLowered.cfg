SPECIFICATION Spec
CONSTANTS
  requester = requester
  worker = worker
  other = other
  h1 = h1
  h2 = h2
  t1 = t1
  v1 = v1
  v2 = v2
  v3 = v3
  NoAddr = NoAddr
  NoHash = NoHash
  Unopenable = Unopenable
  Accounts = {requester, worker, other}
  Requesters = {requester}
  Workers = {worker}
  Challengers = {other}
  Rejecting = {}
  Validators = {v1, v2}
  Stakes = {1}
  Hashes = {h1, h2}
  Transcripts = {NoHash}
  Slots = {0}
  Values = {1, 2}
  Tunable <- OnlyQuorumTuned
  InitialSettings <- OneSettings
  InitialFunds <- OneFunds
  ReplacementActive = {}
  MaxRequests = 1
  MaxTime = 5
  TimeModulus = 100
INVARIANTS
  QuorumFinalizes
CHECK_DEADLOCK FALSE
