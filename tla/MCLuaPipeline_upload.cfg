SPECIFICATION Spec
CONSTANTS
  Pipelines = {lua, standard}
  LUA = lua
  NULL = NULL
  f1 = f1
  f2 = f2
  Files = {f1, f2}
  Pieces = {good, bad}
  Broken = {bad}
  Registers <- MCRegisters
  CHUNK_HEADER = 1
  MAX_UPLOAD_SIZE = 5
  MAX_COOKIE = 2
INVARIANTS
  UploadBounded
  LastChunkIsLast
  RunsChecksumOrNothing
  
