SPECIFICATION Spec
CONSTANTS
  h = h
  c1 = c1
  c2 = c2
  c3 = c3
  red = red
  green = green
  blue = blue
  Host = h
  Clients = {c1, c2, c3}
  Colours = {red, green, blue}
  MAX_NATION = 3
  MaxChoices = 1
  None = None
SYMMETRY ColourSymmetry
ACTION_CONSTRAINT Visits
INVARIANTS
  ColoursDistinct
  PeersAreWhoTheyAre
  LobbyIsComplete
  SameGame
  NobodyIsAhead
CHECK_DEADLOCK FALSE
