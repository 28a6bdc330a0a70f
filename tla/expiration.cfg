\* Three orders, batches of two, two overlapping executions of the cron.
SPECIFICATION Spec
CONSTANTS
  NumOrders = 3
  Runs = {k1, k2}
  BatchSize = 2
  MaxTotal = 1
INVARIANT TypeOK
PROPERTIES ImplementsLifeCycle OldOrdersResolved RunsEnd
