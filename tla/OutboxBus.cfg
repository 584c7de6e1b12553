CONSTANTS
  Events = {e1, e3}
  TxEvents = {e3}
  Drains = {d1, d2}
  NoDrain = NoDrain
  NoEvent = NoEvent
  BatchSize = 1
  MaxAttempts = 2
  MaxFaults = 2
SPECIFICATION Spec
INVARIANTS
  DuplicatesArePaidFor
PROPERTIES
  RecordedIsDelivered
  ImplementsBus
