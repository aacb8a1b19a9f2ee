SPECIFICATION Spec
CONSTANTS
  LineWidth = 8
  BreakFrom = 4
  FreeWidth = 12
  Indent = 1
  Comment = 2
  LastComments = {2, 9}
  Sources <- MCSources
INVARIANTS
  StatementsKeepTheirMeaning
  FormattedItemsAreNarrowed
  CommentsStayComments
CHECK_DEADLOCK FALSE
