SPECIFICATION Spec
CONSTANTS
  Threads = {k, t}
  Boot = k
  Lines <- SomeLines
  NoisyLines <- SomeNoisy
  Stubs <- MCStubs
  HalfWord = 16
  MaxSleep = 1
  MaxDepth = 2
INVARIANT GatesReady
INVARIANT HandlersDoNotNest
INVARIANT AllAcknowledged
PROPERTY EveryRequestServed
