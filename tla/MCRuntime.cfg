\* The cache with two watchers; one call of is_ancestor among four processes;
\* snapshots of four processes; all trees of up to four nodes, searched by
\* i3.find and by id; the functions on numbers of 7 bits, three sockets, and
\* scripts with up to two entries in their dict of handlers.
SPECIFICATION MCSpec
CONSTANTS
  Main = main
  Watchers = {w1, w2}
  Nobody = Nobody
  Nil = Nil
  MaxVersion = 3
  MaxHandlers = 2
  MaxPid = 4
  MaxForks = 3
  MaxNumber = 4
  Half = 64
  Unit = 5
  DefaultMs = 10
  Precision = 16
  MaxSocket = 3
  Ints = {"-1", "0", "1", "2", "3", "4", "9"}
  Positive = {"1", "2", "3", "4", "9"}
  MaxNodes = 4
  LayoutTrees <- SmallTrees
  Questions <- SmallQuestions
INVARIANTS
  CacheTypeOK
  StaleOnlyFromHand
  OneTreePerDispatch
  MainNeverCrashes
  AncestorSound
  AncestorComplete
  FindExact
  FoundAsReported
  LookupsAgree
  LimitsExact
  IntervalExact
  JsonNumbersKept
  PollExact
  CalledBackOnce
  SocketFound
  LoadExact
