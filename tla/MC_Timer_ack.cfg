CONSTANTS
  Chan = {0, 1}
  Modulus = 2
SPECIFICATION TimerSpec
PROPERTY AckAnswersReport
