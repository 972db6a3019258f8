SPECIFICATION StreamSpec
CONSTANTS
  s1 = s1
  s2 = s2
  s3 = s3
  Conns = {c1, c2}
  Typists = {c1}
  Readers = {r1, r2}
  Secrets = {s1, s2, s3}
  SecretIn <- MCSecretIn
  ScrollCap = 2
  EventCap = 1
  InputCap = 1
  SeenCap = 2
  MaxChunks = 3
  MaxKeys = 3
  MaxLogs = 2
  MaxReads = 3
INVARIANTS OutputKept KeysInOrder  NumbersStableAlone
PROPERTIES EndReachesSockets
CHECK_DEADLOCK FALSE
