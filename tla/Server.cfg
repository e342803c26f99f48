SPECIFICATION FairSpec
CONSTANTS
  Clients <- MCClients
  Workers <- MCWorkers
  kMaxIBQueueDepth = 7
  MaxLost = 1
VIEW MCView
INVARIANTS
  HandsOver
  OneAnswerEach
PROPERTY
  BuffersSuffice
  RequestsAnswered
