SPECIFICATION SessionSpec
CONSTANTS
  N = 2
  ConfigFiles = {main}
  Stake = 3
  Endowments <- SomeEndowments
  MaxRuns = 2
  MaxFaults = 2
  MaxRetries = 2
  Prompts = {p1,p2}
  Window = 1
  MaxBlock = 2
  Loggers = {l1, l2}
  Workspaces <- SomeWorkspaces
  MaxCalls = 2
  MaxCrashes = 1
INVARIANTS
  SummaryIsTrue
  FundingDoesNotPileUp
  CleanRunBootstraps
  AbandonedAreBare
  FundedIsManageable
  RequestedIsStored
  TasksMatchRequests
  NothingLostWhenCalm
  ListedOnce
PROPERTIES
  ReturningHeals
  WhatFailureLeaves
CHECK_DEADLOCK FALSE
