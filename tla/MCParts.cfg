\* The parts that do not depend on each other, one at a time.
SPECIFICATION PartsSpec
CONSTANTS
  LogSlots = 2
  LogFileOf <- MCLogFileOf
  NoLog = ""
  LogFlushDelay = 1
  LogCloseDelay = 2
  LogTicks = 4
  LogMaxTime = 5
  EditLines = {"a", "b", "c"}
  EmptyLine = ""
  TabChars = {"a", "b", "c", "d", "#", "<", ">", " "}
  EditWindows = {1, 2}
  MAX_EDIT_HISTORY = 3
  IniSections = {"s", "t"}
  IniKeys = {"k1", "k2", "k3"}
  IniValues = {"v"}
  NoText = ""
  SectionNodes = 2
  KeyNodes = 3
  NickNames = {"a", "b"}
  Me = "me"
  MaxMessages = 3
  MaxAsked = 1
  MaxEvents = 4
  PostTexts = {0, 3, 4}
  BlankLines = {2}
  MaxPostLines = 2
  PostPatience = 1
  ServerNames = {"n|s", "n|t", "m|s"}
  ChannelNetworks = {"n", "m"}
  ChannelNames = {"#x", "#y"}
  NoEntry = NoEntry
  MAX_SERVERS = 2
  MAX_CHANNELS = 3
  MaxVersions = 3
  ChatSize = 5
  ChatLengths = {0, 1, 3}
  MaxChatLines = 2
  NickPool = {"al", "ali", "u0"}
  NickStarts <- MCNickStarts
  FirstNick = "al"
  Fallbacks <- MCFallbacks
  OwnChannels = {"#c"}
  NoNick = "*"
  MaxOwnWindows = 1
  MaxOnWire = 2
  MaxOwnEvents = 3
  Connections = {"c1"}
  Ui = "ui"
  Helper = "helper"
  Nobody = "nobody"
  TabTexts <- MCTabTexts
  NickLists <- MCNickLists
  ChannelTables <- MCChannelTables
  CharMax = 1
  MaxTabs = 4
INVARIANTS
  PartsTypeOK
  OneHandlePerFile
  OffClosesFiles
  ListShowsChannel
  EveryLineOnce
  StopEndsPosting
  EntriesInUse
  ScriptFollowsFile
  ChatLinesInOrder
  WindowsKnowNick
  NoDeadlock
  TabOffersEach
PROPERTIES
  LinesReachDisk
  HistoryIsRecent
  IniIsMap
  PostingEnds
  RowsAreKept
  MessagesFindWindow
CHECK_DEADLOCK FALSE
