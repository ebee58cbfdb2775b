\* Events: two connections, one order, one request, a queue of three places.
\* Ticker: one reader (readers write nothing another thread reads), two words,
\* four stores.  Balance: one reader, as the header asks for, five stores.
\* The run stops where the bounds are met.
SPECIFICATION ThreadsSpec
CONSTANTS
  r1 = r1
  bid = bid
  offer = offer
  usd = usd
  token = token
  Items <- MCEvents
  N = 4
  MaxId = 1
  MaxRequests = 1
  MaxConns = 2
  Readers <- MCReaders
  SeqWords <- MCTicker
  MaxSeqStores = 4
  SeqMod = 10
  Words <- MCBalance
  MaxStores = 5
  LoadBeforeStore = FALSE
INVARIANTS
  SlotsDisjoint
  KnowsTheBook
  GoneRequestsFail
  ReturnedMeansMade
  CheckedLoadIsFresh
  
  NothingNewMeansLatest
PROPERTIES
  ImplementsFifo
  
CHECK_DEADLOCK FALSE
