SPECIFICATION FairSpec

CONSTANTS
  None = None
  s1 = s1  s2 = s2  a1 = a1  a2 = a2  b1 = b1  b2 = b2

\* Rows, attempts and days of the instances run out.
CHECK_DEADLOCK FALSE

PROPERTIES
  RequestsEnd
  RequestAnswered
  ServiceResumes
  LapsedIsNoticed
  DeletionEnds
  CapturedIsCredited
