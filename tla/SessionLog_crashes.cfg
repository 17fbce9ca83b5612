CONSTANTS
  p1 = p1
  p2 = p2
  q1 = q1
  call = call
  starter = starter
  Prompts = {p1, p2}
  Questions = {q1}
  Calls <- TwoCalls
  Starters <- OneStarter
  MaxTexts = 1
  MaxLives = 2
  MaxFailures = 1
  NoItem = NoItem
SPECIFICATION LogSpec
SYMMETRY Alike
INVARIANTS EffectsAreTold ConversationIsStored InputsSurvive ExchangesAreWhole
CHECK_DEADLOCK FALSE
