\* Three requests on a buffer of one: senders park, the loop is
\* mid-call, spacing or idle.  No symmetry: some properties are temporal.
CONSTANTS
  r1 = r1
  r2 = r2
  r3 = r3
  Requests = {r1, r2, r3}
  NoRequest = NoRequest
  QueueBufferSize = 1
  Minute = 4
  RequestsPerMinute = 2
SPECIFICATION FairSpec
INVARIANTS TypeOK WindowSpaced CallsWithinLimit NothingLost CountersMatchAnswers
PROPERTIES EveryCallAnswered LoopStops ImplementsLimiter
