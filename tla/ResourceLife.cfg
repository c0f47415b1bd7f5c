SPECIFICATION LifeSpec
CONSTANTS
  NULL = NULL
  ResNames <- MCNames
  NameRank <- MCNameRank
  CompName <- MCCompName
  ValueTexts <- MCValueTexts
  TypeTexts <- MCTypeTexts
  TemplateTexts <- MCTemplateTexts
  CommentTexts <- MCCommentTexts
  ContextTexts <- MCContextTexts
  TagTexts <- MCTagTexts
  SpecRests <- MCSpecRests
  MaxOps = 3
CHECK_DEADLOCK FALSE
INVARIANTS
  ResourcesSound
  EditsFaithful
  RoundTrips
  LengthsAgree
