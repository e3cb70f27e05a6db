SPECIFICATION Spec
CONSTANTS
  Callers = {c1, c2}
  Nobody = Nobody
  Full = 1
  Kinds <- KindsDef
INVARIANTS
  TypeOK
  TwoOnlyByARace
  CutOnlyByItsStop
  VerdictIsTrue
  ProgressIsTrue
  StoppedFileIsFinished
PROPERTY StopEndsTheJob
