SPECIFICATION Spec
CONSTANTS
  BYTE = 8
  Byte <- MCByte
  Message <- MCMessage
  Lengths = {0, 1, 9, 55, 64, 65, 200}
  Memory = {0, 7}
INVARIANTS
  TypeOK
  Sha256Exact
  Md5Exact
