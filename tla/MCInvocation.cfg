\* Two runs in a row over one cache directory.
SPECIFICATION Spec
CONSTANTS
  alice = alice
  bob = bob
  Unset = Unset
  Blank = Blank
  Garbled = Garbled
  BadUrl = BadUrl
  Broken = Broken
  Port = {"5432", "5433"}
  Absolute = {"/home", "/shared"}
  DefaultHost = "crt.sh"
  DefaultPort = "5432"
  DefaultDbname = "certwatch"
  DefaultUser = "guest"
  Lower <- MCLower
  BlankTerm = {"", " "}
  CertId = {"c1", "c9"}
  Null = Null
  Control = {"tab", "cr", "esc"}
  Format = {"zw"}
  FormulaLead = {"=", "+", "@", "tab", "cr"}
  Minus = "-"
  Finite = {"30"}
  Apostrophe = "'"
  Separator = ", "
  Escape <- MCEscape
  Digits = "30"
  Word = "word"
  NoAnswer = NoAnswer
  Junk = Junk
  Release = Release
  Current <- MCCurrent
  Redirects <- MCRedirects
  Texts <- MCTexts
  Invocations <- MCInvocations
  Held <- MCHeld
  MaxRuns = 2
INVARIANTS HitAnswersTheQuestion CallerDecides ReportIsHonest BrokenSettingsSpare CellsAreInert UpdateIsReal
CHECK_DEADLOCK FALSE
