SPECIFICATION LiveSpec
CONSTANTS
  e1 = e1
  p1 = p1
  p2 = p2
  Events = {e1}
  Messages = {1}
  MessagesOf <- MCMessagesOf
  Publishers = {p1, p2}
  Lease = 1
  MaxAttempts = 2
  BaseBackoff = 1
  MaxBackoff = 2
  Jitter = 100
  Skew <- MCSkew
  MaxFaults = 2
  Null = Null
  MaxDelay = 6
INVARIANTS
  PublishedWasAccepted
  BackoffDoubles
PROPERTIES
  OutcomeIsFinal
  Delivered
