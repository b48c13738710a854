SPECIFICATION Spec
CONSTANTS
  BitsPerByte = 4
  ByteBase = 16
  Drafts <- MCDrafts
CHECK_DEADLOCK FALSE
INVARIANTS ReadAsWritten AcceptsTheLanguage RefusedWhereItGoesWrong
PROPERTIES LinesDoNotMatter
