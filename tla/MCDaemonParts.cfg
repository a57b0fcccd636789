SPECIFICATION Spec
CONSTANTS
  Calls = {c1, c2}
  Keys = {k1, k2}
  Values = {v1, v2}
  Readers = {r1, r2}
  Writers = {w1, w2}
  Names = {n1, n2}
  MaxEdition = 3
  Askers = {a1, a2}
  Scripts = {s1, s2}
  NoCopy = NoCopy
  NoCatalog = NoCatalog
  NoList = NoList
  NoSlot = NoSlot
  NoTask = NoTask
  NoPart = NoPart
  Ttl = 1
  MaxTime = 2
  Models = {m1, m2}
  Files = 2
  Downloads = {d1, d2}
  MaxRestarts = 1
  Sockets = {t1, t2}
  Capacity = 2
  MaxEvents = 5
  Messages = {g1, g2}
  Facts = {f1, f2}
  Columns = {meta, attempts}
  MaxCrashes = 3
  Reads = {q1, q2}
  embedder = embedder
  decider = decider
  spanner = spanner
  server = server
  builtin = builtin
  Specs <- MCSpecs
  RoleOf <- MCRoleOf
  Carried = {"cuda"}
  Changing = {decider}
  Preferred = {"auto", "cpu", "cuda"}
  MaxLoaded <- MCMaxLoaded
  NoModel = NoModel
  Turns = {u1, u2}
  Texts = {x1, x2}
  Places <- MCPlaces
  LabelOf <- MCLabelOf
  MaxTexts = 2
  MaxEntries = 2
  NoVector = NoVector
  LineBuffer = 2
  MaxOutput = 1
  MaxLines = 2
  MaxAnswer = 4
  Machines <- MCMachines
  MaxCommands = 3
  Limit = 1
  CatalogTtl = 1
  MaxScripts = 2
  MaxClock = 2
  NoCommands = NoCommands
  Updates = {p1, p2}
  Gets = {p3}
  Requests <- MCRequests
  FileRouter <- MCFileRouter
  Unset = Unset
  MaxUpdates = 2
  MaxLost = 1
  OptionTokens = 3
  HeadMin = 2
  HeadKeep = 1
  OptionFloor = 2
  MaxLen = 8
  HeadMax = 5
  Pad = Pad
  MaxScore = 1
  Offers <- MCOffers
  Instructions = {1, 5}
  MessageLen = 2
  TextLens = {1, 2, 4}
  MaxBatch = 2
  MaxOptions = 3
  Counts = {1, 2, 3}
  MaxRating = 1
  NoAnswer = NoAnswer
  Concepts = {editor, user, pager}
  editor = editor
  user = user
  pager = pager
  key1 = key1
  key2 = key2
  key3 = key3
  plain = plain
  Filler = Filler
  WordsOf <- MCWordsOf
  Twins <- MCTwins
  Sayings <- MCSayings
  Questions <- MCQuestions
  FirstFacts <- MCFirstFacts
  MaxFacts = 3
  MaxWrites = 1
  SeedLimit = 1
  FoundLimit = 2
  MaxTerms = 3
  SearchCandidates = 1
  Words <- MCWords
  IntentLists <- MCIntentLists
  Heard <- MCHeard
  Listings <- MCListings
  Articles = {"the"}
  LabelLimit = 6
  OfferLimit = 2
  FullScore = 4
  Scores = {1, 3}
  Threshold = 2
  NoText = NoText
INVARIANTS
  CopyStaleOnlyByRace
  CatalogFresh
  ServedFresh
  ModelsInstalled
  StreamContiguous
  UpgradeKeeps
  ReadsAsAsked
  VectorsWhole
  OutputTold
  ChunksJoined
  CommandsRead
  StoredRunnable
  OwnAnswers
  CutChangesNothing
  RecallAgrees
  LabelsReadTurn
PROPERTY
  UpgradeFinishes
CHECK_DEADLOCK FALSE
