CONSTANTS
  Endpoints = {live, dead}
  Dead = {dead}
  Topics = {x}
  Cycles = {c1, c2}
  BatchLimit = 2
  MaxEvents = 3
  MaxChanges = 2
  MaxFaults = 1
CHECK_DEADLOCK FALSE
SPECIFICATION MCSpec
INVARIANT TypeOK
INVARIANT PublishedIsReceived
INVARIANT RepeatsAreFaults
PROPERTY OwedIsReceived
PROPERTY EventsArePublished
