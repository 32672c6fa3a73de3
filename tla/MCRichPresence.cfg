\* A configured game and another; the topmost game is to be shown.
SPECIFICATION FairSpec
CONSTANTS
  game = game
  other = other
  Apps = {game, other}
  Tracked = {game}
  NoApp = NoApp
  MaxTexts = 1
PROPERTY TopmostIsShown
CHECK_DEADLOCK FALSE
