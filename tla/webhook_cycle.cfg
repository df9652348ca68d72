\* Up to three calls, each of which may succeed, be refused, break off or go silent.
SPECIFICATION Spec
CONSTANTS
  RequireHttps = TRUE
  AllowPrivateNetworks = FALSE
  Urls <- MCUrls
  Resolutions <- MCResolutions
  Statuses <- MCStatuses
  MaxAttempts = 3
  Timeout = 1
  BaseDelay = 5
  MaxDelay = 2
INVARIANTS
  SenderTypeOK
  CycleIsSend
  CycleIsBounded
  RegisteredIsDeliverable
CHECK_DEADLOCK FALSE
