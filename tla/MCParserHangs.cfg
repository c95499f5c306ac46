CONSTANTS
  Written <- PublicFields
  Damaged <- NoPhrases
  Junk <- MCJunk
  Gaps <- MCGaps
  Forms <- MCForms
  None = None
  Error = Error
SPECIFICATION Spec
PROPERTY EveryParseEnds
CHECK_DEADLOCK FALSE
