SPECIFICATION Spec
CONSTANTS
  BYTES_UNDER_P = 2
  CHUNK_ALIGN = 3
  P = 11
  BYTE = 3
  U64 = 3
  Uploads <- MCUploads
  Copies <- MCCopies
  Draws = {0, 1, 10}
INVARIANTS
  MatrixIsTheFile
  DamageDetected
  AcceptedByOneDraw
  HonestRefusedOnlyAtZero
  SumsFitU128
  OnlyOddLengthsPanic
CHECK_DEADLOCK FALSE
