SPECIFICATION Spec
CONSTANTS
  Threads = {k}
  Boot = k
  Lines <- TimerOnly
  NoisyLines <- NoLines
  Stubs <- MCStubs
  HalfWord = 16
  MaxSleep = 1
  MaxDepth = 2
PROPERTY SleepEnds
