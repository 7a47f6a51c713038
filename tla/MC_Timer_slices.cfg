CONSTANTS
  Chan = {0, 1}
  Modulus = 5
SPECIFICATION TimerSpec
INVARIANT TickIsNTicks
