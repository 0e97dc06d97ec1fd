CONSTANTS
  Letters <- SomeLetters
  Digits <- SomeDigits
  HexLetters <- SomeHexLetters
  Others <- SomeOthers
  Names <- SomeNames
  Answers <- SomeAnswers
  MaxWordLen = 2
  MaxListWords = 2
  MaxParen = 1
  Lines <- SomeLines
  Noise <- SomeNoise
  MaxNoise = 1
  MaxRx = 5
  MaxTx = 2
  MaxBatch = 2
SPECIFICATION Spec
INVARIANTS LinkTypeOK AnswerIsMine BeliefMatches
