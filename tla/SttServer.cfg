SPECIFICATION Spec
CONSTANTS
  Stream = {c1, c2}
  Upload = {u}
  Latency = {low, high}
  Chunks = {0, 1, 3}
  FRAME = 2
  MaxSamples = 7
  MaxWords = 4
  Word <- MCWord
  Width <- MCWidth
  SentenceEnd <- MCSentenceEnd
INVARIANTS
  ModelExclusive
  TranscriptWhole
PROPERTY
  Freed
