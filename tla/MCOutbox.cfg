\* Two processes, two rows, claimed together or apart, with crashes and revivals; fair runs.
CONSTANTS
  Publishers = {p1, p2}
  MaxEvents = 2
  MaxAttempts = 2
  BatchSize = 2
  MaxCrashes = 1
  MaxReprocess = 1
  NoEvent = NoEvent
SPECIFICATION FairSpec
CHECK_DEADLOCK FALSE
INVARIANTS PublishedIsInStream NeverStranded LeaseExcludes
PROPERTIES PublishedIsFinalWithinLeases ImplementsDelivery EventuallyDelivered EventuallyQuiet
