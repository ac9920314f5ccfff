CONSTANTS
  \* Ranges
  MaxId = 4
  Times = {1, 2}
  Runs = {p, q}
  Never = Never
  MaxCover = 5
  MaxKey = 3
  MaxLocal = 3
  MaxDirty = 1
  Unbound = Unbound
  \* SourceView
  LogPages = {p1, p2}
  MaxVersion = 3
  MaxLogs = 2
  NoCursor = NoCursor
  \* PageOwners
  ta = ta
  tb = tb
  Tables = {ta, tb}
  RootOf <- Roots12
  MaxPage = 4
  RowIds = {1}
  MaxRewritten = 1
  \* MonitoredSync
  Databases = {chat}
  Media = {photo}
  Late = {photo}
  MaxMoves = 2
  MaxSyncs = 3
  \* MediaLedger
  MediaFiles = {f1}
  MediaRows = {r1}
  Grain = 2
  Window = 2
  MaxTick = 4
  MaxBody = 3
  NoFile = NoFile
  \* MonthlyArchive
  Exporters = {mac, copy}
  FirstExporter = mac
  Importers = {i1}
  Months = {1, 2}
  Messages = {u}
  Purged = 0
  Forces = {FALSE}
  MaxWrites = 2
  MaxArchives = 3
  \* WhatsAppRoute
  ann = ann
  own = own
  lid = lid
  team = team
  nick = nick
  sa = sa
  sb = sb
  photo1 = photo1
  va = va
  vb = vb
  Phones = {ann, own}
  Lids = {lid}
  Groups = {team}
  Me = Me
  NoJid = NoJid
  NoName = NoName
  NoStanza = NoStanza
  NoPath = NoPath
  Sources <- Populations
  RowsOf <- NativeRows
  FileVersions <- PhotoVersions
  AliasPairs <- LidPairs
  \* MessagesRoute
  gc = gc
  gd = gd
  NoCk = NoCk
  NoGuid = NoGuid
  NoFilename = NoFilename
  ChatSources <- Texts
  ChatRowsOf <- TextRows
  Uuids = {sa, sb, gc}
  \* NativeDelta
  MaxChanges = 2
  MaxPoints = 3
SPECIFICATION PartsSpec
CHECK_DEADLOCK FALSE
INVARIANTS SightedPointwise TranslationExact CoverageExact
  ViewExact GraphFollows RowsSelected ReuseSound LedgerSound OneLineage BranchesRefused RestoreExact PointRetained
