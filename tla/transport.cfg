SPECIFICATION FairSpec
CONSTANTS
  Callers = {c1, c2, c3}
  Retries = 2
  FailureThreshold = 2
  OpenSeconds = 1
  ExhaustedSeconds = 2
  Cancellable = TRUE
INVARIANTS TypeOK OpenSendsBounded ResponsesAccounted
PROPERTY ExchangesEnd
