SPECIFICATION FairCallSpec
CONSTANTS
  Urls <- SmallUrls
  First <- FirstUrl
  Refused <- RefusedUrls
  Statuses = {200, 301, 303, 307, 404, 429, 503}
  Delays = {2, 9, 90}
  Jobs <- SmallJobs
  MaxDelay = 10
CHECK_DEADLOCK FALSE
INVARIANTS
  CallTypeOK
  ChainFollowsPolicy
  BodyFollowsRedirects
  WaitsFit
PROPERTIES
  CallEnds
