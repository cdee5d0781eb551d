SPECIFICATION SafetySpec
CONSTANTS
  h1 = h1
  h2 = h2
  q1 = q1
  q2 = q2
  Heart <- MCHeart
  Queue <- MCQueue
  MaxId = 3
PROPERTY RegisteredOnce
