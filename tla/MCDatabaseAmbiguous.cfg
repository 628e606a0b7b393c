CONSTANTS
  c1 = c1
  c2 = c2
  p1 = p1
  p2 = p2
  t1 = t1
  m1 = m1
  Caller <- TwoCallers
  Publisher <- Publishers
  Period = {t1}
  MediaKey = {m1}
  NoPeriod = NoPeriod
  NoPublisher = NoPublisher
  DiskVersions <- AnyVersion
SPECIFICATION Spec
INVARIANT
  LoadIsUnambiguous
SYMMETRY Symmetry
