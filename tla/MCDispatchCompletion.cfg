SPECIFICATION Spec
CONSTANTS
  MaxPlans = 2
  Batches <- MCBatches
  SpanBatches = 2
  MaxTransientRetries = 0
  MaxCrashes = 0
  MaxStops = 0
PROPERTY CompletionRecognised
