SPECIFICATION Spec
CONSTANTS
  t1 = t1
  t2 = t2
  b1 = b1
  t1_no_newline = t1_no_newline
  Texts = {t1}
  Binaries = {b1}
  Metas = {m1}
  Signers = {s1, s2}
  Stamps = {1, 2}
  FormatVersion = 2
  ContentLen <- MCContentLen
  PatchLen = 1
  NoText = NoText
  NoStamp = NoStamp
  Corrupt = Corrupt
  PathBacked = TRUE
  Inputs <- MCInputs
  WithNewline <- MCWithNewline
  MaxVersions = 2
  EmptyText = EmptyText
  NotFound = NotFound
INVARIANTS
  SignaturesKept
  CacheInv
  VerifyAccepts
