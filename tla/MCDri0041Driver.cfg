\* Two wheels; the brake time is no multiple of the delays, and the tick
\* counter wraps while a reversal waits.
CONSTANTS
  None = None
  ClockMod = 6
  MaxStall = 2
  Wheels = {"left", "right"}
  BrakeTime = 3
\* Velocities of four bits, among them the least one, two that saturate, and some
\* that a division rounds to the same command.
  Velocities <- SomeVelocities
  ByteCount = 4
  MaxVelocity = 5
  MinimumStart = 3
  CommandMax = 7
  ProductMod = 128
SPECIFICATION DriveSpec
INVARIANT VelocityFaithful
PROPERTIES
  NeverStraightAcross
  BrakeServed
