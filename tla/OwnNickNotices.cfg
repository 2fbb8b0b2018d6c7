\* Does every notice to the user appear?
SPECIFICATION OwnNickSpec
CONSTANTS
  NickPool = {"al", "ali", "u0"}
  NickStarts <- MCNickStarts
  FirstNick = "al"
  Fallbacks <- MCFallbacks
  OwnChannels = {"#c"}
  NoNick = "*"
  MaxOwnWindows = 1
  MaxOnWire = 2
  MaxOwnEvents = 3
INVARIANTS
  NoticesShown
CHECK_DEADLOCK FALSE
