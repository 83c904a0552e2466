SPECIFICATION TunedSpec
CONSTANTS
  requester = requester
  worker = worker
  other = other
  h1 = h1
  h2 = h2
  t1 = t1
  v1 = v1
  v2 = v2
  v3 = v3
  NoAddr = NoAddr
  NoHash = NoHash
  Unopenable = Unopenable
  Accounts = {requester, worker, other}
  Requesters = {requester}
  Workers = {worker}
  Challengers = {worker, other}
  Rejecting = {other}
  Validators = {v1, v2}
  Stakes = {1}
  Hashes = {h1}
  Transcripts = {NoHash}
  Slots = {0, 1}
  Values = {0, 1}
  Tunable <- BothTuned
  InitialSettings <- TunedSettings
  InitialFunds <- TunedFunds
  ReplacementActive = {v2}
  MaxRequests = 1
  MaxTime = 5
  TimeModulus = 100
INVARIANTS
  ActiveListExact
PROPERTIES
  SettledInFull
  FinalizedByQuorum
CHECK_DEADLOCK FALSE
