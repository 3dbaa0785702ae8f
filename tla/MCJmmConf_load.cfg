\* Two sections and two keys, files of five lines together.
CONSTANTS
  NotSaved = NotSaved
  NoPath = NoPath
  SavedPath = SavedPath
  OtherPath = OtherPath
  DefPath = DefPath
  Sections = {"COMMON", ""}
  Common = "COMMON"
  NoSection = NoSection
  MustKeys <- AskedKeys
  OtherKeys = {""}
  IntKeys = {"PROC_NUM"}
  LevelKeys = {"LOG_TERM_LEVEL"}
  Numbers = {"8"}
  Levels = {"debug"}
  Words = {"x"}
  MaxLines = 5
  MaxEdits = 3
SPECIFICATION Spec
INVARIANTS
  TypeOK
  NamesUnique
  ConfAsGiven
  PlainFileAccepted
  SavedIsLoaded
CHECK_DEADLOCK FALSE
