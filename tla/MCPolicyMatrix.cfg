SPECIFICATION MatrixSpec
CHECK_DEADLOCK FALSE
CONSTANTS
  Absent = Absent
  Marker = 0
  Users <- MCUsers
  Attestations = {"att"}
  Categories <- MCCategories
  Bot <- MCBot
  Matrices <- MCMatrices
  Replies <- MCReplies
  Earlier <- MCEarlier
INVARIANTS
  NothingSharedHidden
  RequiredInOrder
  BotHidesNoHuman
