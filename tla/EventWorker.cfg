SPECIFICATION FairSpec
CONSTANTS
  MaxEvents = 2
  maxQueueSize = 1
  deliveryMaxAttempts = 2
  MaxRestarts = 1
INVARIANTS TypeOK OneConnectionOrTimer AcceptedIsKept RecordedInOrder DrainsWhilePending
PROPERTIES EventsSettle Resubscribes HealthRecovers
