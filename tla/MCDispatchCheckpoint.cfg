SPECIFICATION FairSpec
CONSTANTS
  MaxPlans = 2
  Batches <- MCBatches
  SpanBatches = 2
  MaxTransientRetries = 1
  MaxCrashes = 1
  MaxStops = 1
INVARIANTS TypeOK NoBatchSkipped NoOrphanSession SegmentCoversNext
PROPERTIES NoRedoneBatch LedgerImplemented InterruptedEventuallySettled
