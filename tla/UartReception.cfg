\* The queue holds 2 bytes and its counters wrap at 4; the DMA buffer of 4 is
\* filled more than twice.
CONSTANTS
  None = None
  QueueCapacity = 2
  CounterMod = 4
  DmaSize = 4
  DmaLag = 1
  StreamLength = 10
SPECIFICATION ReceptionSpec
INVARIANT ReceptionInv
PROPERTY GaplessRun
