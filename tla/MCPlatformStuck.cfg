SPECIFICATION Spec

CONSTANTS
  None = None
  s1 = s1  s2 = s2  s3 = s3
  a1 = a1  a2 = a2  b1 = b1  b2 = b2  c1 = c1  c2 = c2  d3 = d3  e3 = e3
  Parts <- StoringOnly
  DoubledJobs <- TwoRows

\* Rows, attempts and days of the instances run out.
CHECK_DEADLOCK FALSE

INVARIANT
  ProcessingIsWorkedOn
