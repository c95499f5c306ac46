CONSTANTS
  Commands <- MCCommands
  Again <- MCAgain
  MaxBuilds = 2
  Nothing = Nothing
  Written <- FrontWritten
  Damaged <- FrontDamaged
  Junk <- FrontJunk
  Gaps <- FrontGaps
  Forms <- FrontForms
  None = None
  Error = Error
SPECIFICATION CompilerSpec
INVARIANTS ResolvesExactly ReportsTruly ReadsBack NothingDropped
PROPERTIES BuildEnds ParseEnds
CHECK_DEADLOCK FALSE
