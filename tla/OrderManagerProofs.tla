------------------------- MODULE OrderManagerProofs -------------------------
(***************************************************************************)
(* Theorems about OrderManager, for any grids, faults and calls of         *)
(* cancel_all.                                                             *)
(***************************************************************************)
EXTENDS OrderManager, TLAPS

-----------------------------------------------------------------------------
(* Types.                                                                  *)

\* A level is what the exchange records of an order.
LEMMA LevelsAreInfo == Levels \subseteq Info
  BY ConstantsAssumption DEF Levels, Info

\* The ids given out so far are among the ids, and stay so when one more is.
LEMMA GivenIds ==
  ASSUME ExchangeTypeOK
  PROVE  /\ MaxId \in Nat
         /\ nextId \in Nat
         /\ 1 .. nextId - 1 \subseteq Ids
         /\ nextId \notin 1 .. nextId - 1
         /\ 1 .. nextId - 1 \subseteq 1 .. nextId + 1 - 1
         /\ nextId \in 1 .. nextId + 1 - 1
  BY ConstantsAssumption, SMT DEF ExchangeTypeOK, Ids

\* Accept keeps the exchange's types.
LEMMA AcceptType ==
  ASSUME ExchangeTypeOK, NEW level \in Levels, Accept(level)
  PROVE  /\ nextId' = nextId + 1
         /\ nextId \in Ids
         /\ nextId' \in 1 .. MaxId + 1
         /\ order' \in [Ids -> Info]
  <1>1. nextId \in Ids /\ nextId' = nextId + 1 /\ nextId' \in 1 .. MaxId + 1
    BY ConstantsAssumption, SMT DEF ExchangeTypeOK, Accept, Ids
  <1>2. level \in Info
    BY LevelsAreInfo
  <1>3. order' \in [Ids -> Info]
    BY <1>1, <1>2 DEF ExchangeTypeOK, Accept
  <1> QED
    BY <1>1, <1>3

\* update_order_status writes a status.
LEMMA UpdateType ==
  ASSUME db \in [Ids -> Status], NEW id, NEW status \in Status
  PROVE  UpdateOrderStatus(id, status) \in [Ids -> Status]
  BY DEF UpdateOrderStatus, Status

\* The five ways the tick goes on after an await.
LEMMA ReturnType ==
  ASSUME NEW e \in BOOLEAN, Return(e)
  PROVE  TickTypeOK'
  BY DEF Return, TickTypeOK

LEMMA PlaceNextType ==
  ASSUME TickTypeOK, nextId' = nextId, NEW todo \in SUBSET DOMAIN grid, PlaceNext(todo)
  PROVE  TickTypeOK'
  <1> DEFINE real == {k \in todo : Placeable(grid, k)}
  <1>1. CASE real = {} /\ Return(FALSE)
    BY <1>1, ReturnType
  <1>2. ASSUME NEW k \in real, pc' = "create", cur' = k, toPlace' = real \ {k},
               stage' = "diff", snap' = {}, markQ' = {}, ageQ' = {}, toCancel' = {},
               UNCHANGED <<grid, raised>>
        PROVE  TickTypeOK'
    <2>1. k \in DOMAIN grid /\ k \in Nat
      BY DEF TickTypeOK
    <2> QED
      BY <1>2, <2>1 DEF TickTypeOK
  <1> QED
    BY <1>1, <1>2 DEF PlaceNext

LEMMA CancelNextType ==
  ASSUME TickTypeOK, nextId' = nextId, nextId \in Nat,
         NEW stale \in SUBSET (1 .. nextId - 1), NEW missing \in SUBSET DOMAIN grid,
         CancelNext(stale, missing)
  PROVE  TickTypeOK'
  <1>1. CASE stale = {} /\ PlaceNext(missing)
    BY <1>1, PlaceNextType
  <1>2. CASE \E i \in stale :
               /\ pc' = "cancel" /\ cur' = i /\ toCancel' = stale \ {i}
               /\ toPlace' = missing /\ stage' = "diff"
               /\ snap' = {} /\ markQ' = {} /\ ageQ' = {} /\ UNCHANGED <<grid, raised>>
    BY <1>2 DEF TickTypeOK
  <1> QED
    BY <1>1, <1>2 DEF CancelNext

LEMMA DiffType ==
  ASSUME TickTypeOK, nextId' = nextId, nextId \in Nat,
         NEW open_orders \in SUBSET (1 .. nextId - 1), Diff(open_orders)
  PROVE  TickTypeOK'
  <1>1. FindStaleOrders(open_orders, grid) \in SUBSET (1 .. nextId - 1)
    BY DEF FindStaleOrders
  <1>2. FindMissingLevels(open_orders, grid) \in SUBSET DOMAIN grid
    BY DEF FindMissingLevels
  <1> QED
    BY <1>1, <1>2, CancelNextType DEF Diff

LEMMA AgeNextType ==
  ASSUME TickTypeOK, nextId' = nextId, nextId \in Nat,
         NEW todo \in SUBSET (1 .. nextId - 1), NEW open_orders \in SUBSET (1 .. nextId - 1),
         AgeNext(todo, open_orders)
  PROVE  TickTypeOK'
  <1>1. CASE todo \cap open_orders = {} /\ Diff(open_orders)
    BY <1>1, DiffType
  <1>2. CASE \E i \in todo \cap open_orders :
               /\ pc' = "cancel" /\ cur' = i /\ ageQ' = todo \ {i} /\ stage' = "age"
               /\ snap' = {} /\ markQ' = {} /\ toCancel' = {} /\ toPlace' = {}
               /\ UNCHANGED <<grid, raised>>
    BY <1>2 DEF TickTypeOK
  <1> QED
    BY <1>1, <1>2 DEF AgeNext

LEMMA CancelStaleByAgeType ==
  ASSUME TickTypeOK, nextId' = nextId, nextId \in Nat,
         NEW open_orders \in SUBSET (1 .. nextId - 1), CancelStaleByAge(open_orders)
  PROVE  TickTypeOK'
  BY AgeNextType DEF CancelStaleByAge

LEMMA AdoptType ==
  ASSUME TickTypeOK, nextId' = nextId, nextId \in Nat,
         NEW open_orders \in SUBSET (1 .. nextId - 1), Adopt(open_orders)
  PROVE  TickTypeOK' /\ open' \subseteq 1 .. nextId - 1
  <1>1. open_orders \cup snap \in SUBSET (1 .. nextId - 1)
    BY DEF TickTypeOK
  <1> QED
    BY <1>1, CancelStaleByAgeType DEF Adopt

\* Init has the types.
LEMMA InitType == Init => TypeOK
  <1> SUFFICES ASSUME Init PROVE TypeOK
    OBVIOUS
  <1>1. ExchangeTypeOK
    BY ConstantsAssumption DEF Init, ExchangeTypeOK, Info, Sides
  <1>2. MemoryTypeOK
    <2>1. db \in [Ids -> Status]
      BY DEF Init, Status
    <2>2. dry_run \in BOOLEAN
      BY ConstantsAssumption DEF Init
    <2> QED
      BY <2>1, <2>2 DEF Init, MemoryTypeOK
  <1>3. TickTypeOK
    <2>1. grid \in Seq(Levels)
      BY DEF Init
    <2> QED
      BY <2>1 DEF Init, TickTypeOK
  <1>4. CancelTypeOK
    BY DEF Init, CancelTypeOK
  <1> QED
    BY <1>1, <1>2, <1>3, <1>4 DEF TypeOK

\* What an action that leaves some variables alone keeps.
LEMMA Untouched ==
  ASSUME TypeOK
  PROVE  /\ UNCHANGED exchangeVars => ExchangeTypeOK'
         /\ UNCHANGED <<nextId, db, memoryVars>> => MemoryTypeOK'
         /\ UNCHANGED <<nextId, tickVars>> => TickTypeOK'
         /\ UNCHANGED <<nextId, cancelVars>> => CancelTypeOK'
  BY DEF TypeOK, ExchangeTypeOK, MemoryTypeOK, TickTypeOK, CancelTypeOK,
         exchangeVars, memoryVars, tickVars, cancelVars

\* The same when an id is handed out.
LEMMA UntouchedByAccept ==
  ASSUME TypeOK, nextId' = nextId + 1
  PROVE  /\ UNCHANGED <<db, memoryVars>> => MemoryTypeOK'
         /\ UNCHANGED tickVars => TickTypeOK'
         /\ UNCHANGED cancelVars => CancelTypeOK'
  <1>1. nextId \in Nat /\ 1 .. nextId - 1 \subseteq 1 .. nextId' - 1
    BY GivenIds DEF TypeOK
  <1>2. UNCHANGED <<db, memoryVars>> => MemoryTypeOK'
    BY <1>1 DEF TypeOK, MemoryTypeOK, memoryVars
  <1>3. UNCHANGED tickVars => TickTypeOK'
    BY <1>1 DEF TypeOK, TickTypeOK, tickVars
  <1>4. UNCHANGED cancelVars => CancelTypeOK'
    BY <1>1, Zenon DEF TypeOK, CancelTypeOK, cancelVars
  <1> QED
    BY <1>2, <1>3, <1>4

\* The steps of the tick.
LEMMA TickStepType == TypeOK /\ TickStep => TypeOK'
  <1> SUFFICES ASSUME TypeOK, TickStep PROVE TypeOK'
    OBVIOUS
  <1> USE Untouched
  <1>a. /\ nextId \in Nat
        /\ open \in SUBSET (1 .. nextId - 1)
        /\ TickTypeOK
        /\ db \in [Ids -> Status]
    BY GivenIds DEF TypeOK, MemoryTypeOK
  <1>1. CASE SyncOpenOrders
    <2>1. nextId' = nextId /\ ExchangeTypeOK' /\ CancelTypeOK'
      BY <1>1 DEF SyncOpenOrders, exchangeVars, cancelVars
    <2>2. open' \subseteq 1 .. nextId - 1 /\ TickTypeOK'
      <3>1. CASE Adopt(open)
        BY <3>1, <1>a, <2>1, AdoptType
      <3>2. CASE \E i \in NoLongerOpen(open) :
                   /\ open' = open \ {i} /\ markQ' = NoLongerOpen(open) \ {i}
                   /\ cur' = i /\ pc' = "mark"
                   /\ UNCHANGED <<stage, grid, snap, ageQ, toCancel, toPlace, raised>>
        BY <3>2, <1>a, <2>1 DEF NoLongerOpen, TickTypeOK
      <3> QED
        BY <1>1, <3>1, <3>2 DEF SyncOpenOrders
    <2>3. MemoryTypeOK'
      BY <1>1, <2>1, <2>2 DEF SyncOpenOrders, TypeOK, MemoryTypeOK
    <2> QED
      BY <2>1, <2>2, <2>3 DEF TypeOK
  <1>2. CASE SyncMark
    <2>1. nextId' = nextId /\ ExchangeTypeOK' /\ CancelTypeOK'
      BY <1>2 DEF SyncMark, exchangeVars, cancelVars
    <2>2. open' \subseteq 1 .. nextId - 1 /\ TickTypeOK'
      <3>1. CASE Adopt(open)
        BY <3>1, <1>a, <2>1, AdoptType
      <3>2. CASE CancelStaleByAge(open) /\ UNCHANGED open
        BY <3>2, <1>a, <2>1, CancelStaleByAgeType
      <3>3. CASE \E i \in markQ :
                   /\ open' = open \ {i} /\ markQ' = markQ \ {i} /\ cur' = i
                   /\ UNCHANGED <<pc, stage, grid, snap, ageQ, toCancel, toPlace, raised>>
        BY <3>3, <1>a, <1>2, <2>1 DEF SyncMark, TickTypeOK
      <3> QED
        BY <1>2, <3>1, <3>2, <3>3 DEF SyncMark
    <2>3. db' \in [Ids -> Status]
      BY <1>2, <1>a, UpdateType DEF SyncMark, Status
    <2>4. MemoryTypeOK'
      BY <1>2, <2>1, <2>2, <2>3 DEF SyncMark, TypeOK, MemoryTypeOK
    <2> QED
      BY <2>1, <2>2, <2>4 DEF TypeOK
  <1>3. CASE SyncSkipped
    <2>1. nextId' = nextId /\ ExchangeTypeOK' /\ CancelTypeOK' /\ MemoryTypeOK'
      BY <1>3 DEF SyncSkipped, exchangeVars, cancelVars
    <2>2. TickTypeOK'
      BY <1>3, <1>a, <2>1, CancelStaleByAgeType DEF SyncSkipped
    <2> QED
      BY <2>1, <2>2 DEF TypeOK
  <1>4. CASE CancelOne
    <2>1. nextId' = nextId /\ ExchangeTypeOK' /\ CancelTypeOK'
      BY <1>4 DEF CancelOne, exchangeVars, cancelVars
    <2>2. TickTypeOK'
      BY <1>4, <1>a, <2>1 DEF CancelOne, localVars, TickTypeOK
    <2>3. MemoryTypeOK'
      BY <1>4, <2>1 DEF CancelOne, TypeOK, MemoryTypeOK
    <2> QED
      BY <2>1, <2>2, <2>3 DEF TypeOK
  <1>5. CASE CancelOneRow
    <2>1. nextId' = nextId /\ ExchangeTypeOK' /\ CancelTypeOK'
      BY <1>5 DEF CancelOneRow, exchangeVars, cancelVars
    <2>2. TickTypeOK'
      <3>1. CASE AgeNext(ageQ, open)
        BY <3>1, <1>a, <2>1, AgeNextType DEF TickTypeOK
      <3>2. CASE CancelNext(toCancel, toPlace)
        BY <3>2, <1>a, <2>1, CancelNextType DEF TickTypeOK
      <3> QED
        BY <1>5, <3>1, <3>2 DEF CancelOneRow
    <2>3. db' \in [Ids -> Status]
      BY <1>5, <1>a, UpdateType DEF CancelOneRow, Status
    <2>4. MemoryTypeOK'
      BY <1>5, <2>1, <2>3 DEF CancelOneRow, memoryVars, TypeOK, MemoryTypeOK
    <2> QED
      BY <2>1, <2>2, <2>4 DEF TypeOK
  <1>6. CASE CancelOneRaises
    <2>1. ExchangeTypeOK' /\ CancelTypeOK' /\ MemoryTypeOK'
      BY <1>6 DEF CancelOneRaises, exchangeVars
    <2>2. TickTypeOK'
      BY <1>6, ReturnType DEF CancelOneRaises
    <2> QED
      BY <2>1, <2>2 DEF TypeOK
  <1>7. CASE PlaceOne
    <2>1. CASE pc = "createdAck" /\ open' = open \cup {cur} /\ created' = created \cup {cur}
                 /\ UNCHANGED <<nextId, order, cur>>
      <3>1. ExchangeTypeOK' /\ CancelTypeOK'
        BY <1>7, <2>1 DEF PlaceOne, exchangeVars
      <3>2. TickTypeOK'
        BY <1>7, <2>1, <1>a DEF PlaceOne, TickTypeOK
      <3>3. MemoryTypeOK'
        BY <1>7, <2>1, <1>a DEF PlaceOne, TickTypeOK, TypeOK, MemoryTypeOK
      <3> QED
        BY <3>1, <3>2, <3>3 DEF TypeOK
    <2>2. CASE /\ pc = "create" /\ Accept(grid[cur])
               /\ open' = open \cup {nextId} /\ created' = created \cup {nextId}
               /\ cur' = nextId
      <3>1. grid[cur] \in Levels
        BY <2>2, <1>a DEF TickTypeOK
      <3>2. /\ nextId' = nextId + 1
            /\ nextId' \in 1 .. MaxId + 1
            /\ order' \in [Ids -> Info]
        BY <2>2, <3>1, AcceptType DEF TypeOK
      <3>3. 1 .. nextId - 1 \subseteq 1 .. nextId' - 1 /\ nextId \in 1 .. nextId' - 1
        BY <3>2, GivenIds DEF TypeOK
      <3>4. ExchangeTypeOK'
        BY <1>7, <3>2, <3>3 DEF PlaceOne, TypeOK, ExchangeTypeOK
      <3>5. MemoryTypeOK'
        BY <1>7, <2>2, <3>3 DEF PlaceOne, TypeOK, MemoryTypeOK
      <3>6. TickTypeOK'
        BY <1>7, <1>a, <2>2, <3>3 DEF PlaceOne, TickTypeOK
      <3>7. CancelTypeOK'
        BY <1>7, <3>2, UntouchedByAccept DEF PlaceOne
      <3> QED
        BY <3>4, <3>5, <3>6, <3>7 DEF TypeOK
    <2> QED
      BY <1>7, <2>1, <2>2 DEF PlaceOne
  <1>8. CASE PlaceOneRow
    <2>1. nextId' = nextId /\ ExchangeTypeOK' /\ CancelTypeOK'
      BY <1>8 DEF PlaceOneRow, exchangeVars, cancelVars
    <2>2. TickTypeOK'
      BY <1>8, <1>a, <2>1, PlaceNextType DEF PlaceOneRow, TickTypeOK
    <2>3. MemoryTypeOK'
      BY <1>8, <2>1 DEF PlaceOneRow, memoryVars, TypeOK, MemoryTypeOK, Status
    <2> QED
      BY <2>1, <2>2, <2>3 DEF TypeOK
  <1>9. CASE PlaceOneRaises
    <2>1. nextId' = nextId /\ CancelTypeOK' /\ MemoryTypeOK'
      BY <1>9 DEF PlaceOneRaises, cancelVars
    <2>2. TickTypeOK'
      BY <1>9, <1>a, <2>1, PlaceNextType, ReturnType DEF PlaceOneRaises, TickTypeOK
    <2>3. late' \subseteq Levels
      <3>1. late \subseteq Levels
        BY DEF TypeOK, ExchangeTypeOK
      <3>2. pc = "create" => grid[cur] \in Levels
        BY <1>a DEF TickTypeOK
      <3>3. late' = late \/ (pc = "create" /\ late' = late \cup {grid[cur]})
        BY <1>9 DEF PlaceOneRaises
      <3> QED
        BY <3>1, <3>2, <3>3
    <2>4. ExchangeTypeOK'
      BY <1>9, <2>3 DEF PlaceOneRaises, TypeOK, ExchangeTypeOK
    <2> QED
      BY <2>1, <2>2, <2>4 DEF TypeOK
  <1> QED
    BY <1>1, <1>2, <1>3, <1>4, <1>5, <1>6, <1>7, <1>8, <1>9 DEF TickStep

\* The start of diff_and_repost.
LEMMA BeginType == TypeOK /\ (\E g \in Grids : Begin(g)) => TypeOK'
  <1> SUFFICES ASSUME TypeOK, NEW g \in Grids, Begin(g) PROVE TypeOK'
    OBVIOUS
  <1>1. ExchangeTypeOK' /\ MemoryTypeOK' /\ CancelTypeOK' /\ nextId' = nextId
    BY Untouched DEF Begin, exchangeVars
  <1>2. g \in Seq(Levels)
    BY ConstantsAssumption
  <1>3. TickTypeOK'
    <2>1. toPlace' = {} /\ pc = "idle"
      BY DEF Begin, TypeOK, TickTypeOK
    <2> QED
      BY <1>1, <1>2, <2>1 DEF Begin, TypeOK, TickTypeOK
  <1> QED
    BY <1>1, <1>3 DEF TypeOK

\* cancel_all.
LEMMA CancelAllType ==
  ASSUME TypeOK, NEW c \in Cancellers, CancelAll(c) \/ CancelAllStep(c) \/ ExecCancelAll(c)
  PROVE  TypeOK'
  <1>1. nextId' = nextId /\ TickTypeOK'
    BY Untouched DEF CancelAll, CancelAllStep, CancelAllAnswered, CancelAllRow,
                     CancelAllRaises, ExecCancelAll, exchangeVars, tickVars
  <1>2. ExchangeTypeOK'
    BY DEF CancelAll, CancelAllStep, CancelAllAnswered, CancelAllRow, CancelAllRaises,
           ExecCancelAll, exchangeVars, TypeOK, ExchangeTypeOK
  <1>3. MemoryTypeOK'
    <2>1. db' \in [Ids -> Status]
      BY UpdateType DEF CancelAll, CancelAllStep, CancelAllAnswered, CancelAllRow,
                        CancelAllRaises, ExecCancelAll, TypeOK, MemoryTypeOK, Status
    <2>2. \/ UNCHANGED memoryVars
          \/ /\ open' \in {open, {}}
             /\ created' = {}
             /\ aged' = {}
             /\ UNCHANGED dry_run
      BY DEF CancelAll, CancelAllStep, CancelAllAnswered, CancelAllRow, CancelAllRaises,
             ExecCancelAll, ListOpen, memoryVars
    <2> QED
      BY <1>1, <2>1, <2>2 DEF TypeOK, MemoryTypeOK, memoryVars
  <1>4. CancelTypeOK'
    <2>1. \/ UNCHANGED cpc
          \/ \E s \in {"request", "answered", "rows", "done", "failed"} :
               cpc' = [cpc EXCEPT ![c] = s]
      BY DEF CancelAll, CancelAllStep, CancelAllAnswered, CancelAllRow, CancelAllRaises,
             ExecCancelAll, ListOpen
    <2>2. \/ UNCHANGED cq
          \/ \E q \in SUBSET (1 .. nextId - 1) : cq' = [cq EXCEPT ![c] = q]
      <3>1. open \in SUBSET (1 .. nextId - 1)
        BY DEF TypeOK, MemoryTypeOK
      <3>2. \A i : cq[c] \ {i} \in SUBSET (1 .. nextId - 1)
        BY DEF TypeOK, CancelTypeOK
      <3> QED
        BY <3>1, <3>2 DEF CancelAll, CancelAllStep, CancelAllAnswered, CancelAllRow,
                          CancelAllRaises, ExecCancelAll, ListOpen
    <2> QED
      BY <1>1, <2>1, <2>2 DEF TypeOK, CancelTypeOK
  <1> QED
    BY <1>1, <1>2, <1>3, <1>4 DEF TypeOK

\* The exchange's answers to the tick, and what happens by itself.
LEMMA ExchangeType == TypeOK /\ (ExecFetch \/ ExecCancel \/ ExecCreate) => TypeOK'
  <1> SUFFICES ASSUME TypeOK, ExecFetch \/ ExecCancel \/ ExecCreate PROVE TypeOK'
    OBVIOUS
  <1>1. CASE ExecFetch
    BY <1>1, Untouched
       DEF ExecFetch, exchangeVars, TypeOK, ExchangeTypeOK, TickTypeOK
  <1>2. CASE ExecCancel
    <2>1. MemoryTypeOK' /\ CancelTypeOK'
      BY <1>2, Untouched DEF ExecCancel
    <2>2. ExchangeTypeOK'
      BY <1>2 DEF ExecCancel, TypeOK, ExchangeTypeOK
    <2>3. TickTypeOK'
      BY <1>2 DEF ExecCancel, localVars, TypeOK, TickTypeOK
    <2> QED
      BY <2>1, <2>2, <2>3 DEF TypeOK
  <1>3. CASE ExecCreate
    <2>1. grid[cur] \in Levels
      BY <1>3 DEF ExecCreate, TypeOK, TickTypeOK
    <2>2. /\ nextId' = nextId + 1
          /\ nextId' \in 1 .. MaxId + 1
          /\ order' \in [Ids -> Info]
      BY <1>3, <2>1, AcceptType DEF ExecCreate, TypeOK
    <2>3. nextId \in Nat /\ 1 .. nextId - 1 \subseteq 1 .. nextId' - 1 /\ nextId \in 1 .. nextId' - 1
      BY <2>2, GivenIds DEF TypeOK
    <2>4. ExchangeTypeOK'
      BY <1>3, <2>2, <2>3 DEF ExecCreate, TypeOK, ExchangeTypeOK
    <2>5. MemoryTypeOK' /\ CancelTypeOK'
      BY <1>3, <2>2, UntouchedByAccept DEF ExecCreate
    <2>6. TickTypeOK'
      BY <1>3, <2>3 DEF ExecCreate, TypeOK, TickTypeOK
    <2> QED
      BY <2>4, <2>5, <2>6 DEF TypeOK
  <1> QED
    BY <1>1, <1>2, <1>3

LEMMA EnvironmentType == TypeOK /\ Environment => TypeOK'
  <1> SUFFICES ASSUME TypeOK, Environment PROVE TypeOK'
    OBVIOUS
  <1>1. CASE Leave
    <2>1. MemoryTypeOK' /\ TickTypeOK' /\ CancelTypeOK'
      BY <1>1, Untouched DEF Leave
    <2> QED
      BY <1>1, <2>1 DEF Leave, TypeOK, ExchangeTypeOK
  <1>2. CASE ExecLate
    <2>1. PICK level \in late : Accept(level) /\ late' = late \ {level}
      BY <1>2 DEF ExecLate
    <2>2. level \in Levels
      BY DEF TypeOK, ExchangeTypeOK
    <2>3. /\ nextId' = nextId + 1
          /\ nextId' \in 1 .. MaxId + 1
          /\ order' \in [Ids -> Info]
      BY <2>1, <2>2, AcceptType DEF TypeOK
    <2>4. 1 .. nextId - 1 \subseteq 1 .. nextId' - 1 /\ nextId \in 1 .. nextId' - 1
      BY <2>3, GivenIds DEF TypeOK
    <2>5. ExchangeTypeOK'
      BY <1>2, <2>1, <2>3, <2>4 DEF ExecLate, TypeOK, ExchangeTypeOK
    <2>6. MemoryTypeOK' /\ TickTypeOK' /\ CancelTypeOK'
      BY <1>2, <2>3, UntouchedByAccept DEF ExecLate
    <2> QED
      BY <2>5, <2>6 DEF TypeOK
  <1>3. CASE AgeOut
    <2>1. ExchangeTypeOK' /\ TickTypeOK' /\ CancelTypeOK' /\ nextId' = nextId
      BY <1>3, Untouched DEF AgeOut, exchangeVars
    <2> QED
      BY <1>3, <2>1 DEF AgeOut, TypeOK, MemoryTypeOK
  <1> QED
    BY <1>1, <1>2, <1>3 DEF Environment

LEMMA NextType == TypeOK /\ [Next]_omVars => TypeOK'
  <1> SUFFICES ASSUME TypeOK, [Next]_omVars PROVE TypeOK'
    OBVIOUS
  <1>1. CASE UNCHANGED omVars
    BY <1>1, Untouched DEF omVars, exchangeVars, memoryVars, tickVars, cancelVars, TypeOK
  <1>2. CASE Next
    BY <1>2, TickStepType, BeginType, CancelAllType, ExchangeType, EnvironmentType
       DEF Next, Tick, Exchange
  <1> QED
    BY <1>1, <1>2

\* Whatever the grids, the faults and the calls of cancel_all, every variable keeps
\* its type and the bot remembers only ids that were handed out.
THEOREM TypeCorrect == Spec => []TypeOK
  BY InitType, NextType, PTL DEF Spec

-----------------------------------------------------------------------------
(* Rows and the book.                                                      *)

\* No id has a row before it is handed out.
NoRowYet == \A i \in Ids : i >= nextId => db[i] = "none"

\* An order the sync is about to record as filled, or will find missing from the
\* list it received, is off the book, however old the list is.
MissingAreGone ==
  /\ pc = "fetched" => (open \ snap) \cap live = {}
  /\ pc = "mark" => cur \notin live /\ markQ \cap live = {}

\* An order _place_one has sent and not yet inserted has no row.
NewHasNoRow == pc \in {"createdAck", "createRow"} => db[cur] = "none"

\* FilledMeansGone is not inductive: it needs to know where the orders recorded as
\* filled come from, and that an id is not used twice.
IInv ==
  /\ TypeOK
  /\ FilledMeansGone
  /\ NoRowYet
  /\ MissingAreGone
  /\ NewHasNoRow

\* After a loop of diff_and_repost the tick awaits a create, a cancel, or nothing.
LEMMA LoopsGoOn ==
  /\ \A e : Return(e) => pc' = "idle"
  /\ \A S : PlaceNext(S) => pc' \in {"idle", "create"}
  /\ \A S, T : CancelNext(S, T) => pc' \in {"idle", "create", "cancel"}
  /\ \A S, T : AgeNext(S, T) => pc' \in {"idle", "create", "cancel"}
  /\ \A S : CancelStaleByAge(S) => pc' \in {"idle", "create", "cancel"}
  /\ \A S : Adopt(S) => pc' \in {"idle", "create", "cancel"}
  <1>1. \A e : Return(e) => pc' = "idle"
    BY DEF Return
  <1>2. \A S : PlaceNext(S) => pc' \in {"idle", "create"}
    BY <1>1 DEF PlaceNext
  <1>3. \A S, T : CancelNext(S, T) => pc' \in {"idle", "create", "cancel"}
    BY <1>2 DEF CancelNext
  <1>4. \A S, T : AgeNext(S, T) => pc' \in {"idle", "create", "cancel"}
    BY <1>3 DEF AgeNext, Diff
  <1>5. \A S : CancelStaleByAge(S) => pc' \in {"idle", "create", "cancel"}
    BY <1>4 DEF CancelStaleByAge
  <1>6. \A S : Adopt(S) => pc' \in {"idle", "create", "cancel"}
    BY <1>5 DEF Adopt
  <1> QED
    BY <1>1, <1>2, <1>3, <1>4, <1>5, <1>6

\* The book grows by the next id at most, and then no row changes.
LEMMA BookStep ==
  ASSUME TypeOK, [Next]_omVars
  PROVE  \/ live' \subseteq live /\ nextId' >= nextId
         \/ live' = live \cup {nextId} /\ nextId' = nextId + 1 /\ nextId \in Ids /\ db' = db
  <1>a. nextId \in Nat
    BY GivenIds DEF TypeOK
  <1>1. CASE UNCHANGED omVars
    BY <1>1, <1>a DEF omVars
  <1>2. CASE Tick
    <2>1. CASE PlaceOne
      BY <2>1, <1>a DEF PlaceOne, Accept
    <2>2. CASE SyncOpenOrders \/ SyncMark \/ SyncSkipped \/ CancelOne \/ CancelOneRow
                 \/ CancelOneRaises \/ PlaceOneRow \/ PlaceOneRaises
                 \/ \E g \in Grids : Begin(g)
      <3>1. live' = live /\ nextId' = nextId
        BY <2>2 DEF SyncOpenOrders, SyncMark, SyncSkipped, CancelOne, CancelOneRow,
                    CancelOneRaises, PlaceOneRow, PlaceOneRaises, Begin, exchangeVars
      <3> QED
        BY <3>1, <1>a
    <2> QED
      BY <1>2, <2>1, <2>2 DEF Tick, TickStep
  <1>3. ASSUME NEW c \in Cancellers, CancelAll(c) \/ CancelAllStep(c) \/ ExecCancelAll(c)
        PROVE  live' \subseteq live /\ nextId' >= nextId
    BY <1>3, <1>a DEF CancelAll, CancelAllStep, CancelAllAnswered, CancelAllRow,
                      CancelAllRaises, ExecCancelAll, exchangeVars
  <1>4. CASE ExecFetch \/ ExecCancel \/ Leave \/ AgeOut
    BY <1>4, <1>a DEF ExecFetch, ExecCancel, Leave, AgeOut, exchangeVars
  <1>5. CASE ExecCreate \/ ExecLate
    <2>1. nextId \in Ids /\ nextId' = nextId + 1
      BY <1>5, <1>a, ConstantsAssumption
         DEF ExecCreate, ExecLate, Accept, Ids, TypeOK, ExchangeTypeOK
    <2> QED
      BY <1>5, <2>1 DEF ExecCreate, ExecLate
  <1> QED
    BY <1>1, <1>2, <1>3, <1>4, <1>5 DEF Next, Exchange, Environment

\* How one row changes: an existing one becomes "canceled", that of an order the
\* sync misses becomes "filled", that of a new order appears.
LEMMA RowStep ==
  ASSUME TypeOK, [Next]_omVars, NEW i \in Ids
  PROVE  \/ db'[i] = db[i]
         \/ db[i] # "none" /\ db'[i] = "canceled"
         \/ db[i] # "none" /\ db'[i] = "filled" /\ pc = "mark" /\ i = cur /\ live' = live
         \/ db'[i] = "open" /\ pc = "createRow" /\ i = cur /\ pc' \in {"idle", "create"}
  <1>a. db \in [Ids -> Status]
    BY DEF TypeOK, MemoryTypeOK
  <1>1. CASE SyncMark
    BY <1>1, <1>a DEF SyncMark, UpdateOrderStatus, exchangeVars
  <1>2. CASE CancelOneRow
    BY <1>2, <1>a DEF CancelOneRow, UpdateOrderStatus
  <1>3. CASE PlaceOneRow
    BY <1>3, <1>a, LoopsGoOn DEF PlaceOneRow
  <1>4. ASSUME NEW c \in Cancellers, CancelAllRow(c)
        PROVE  db'[i] = db[i] \/ (db[i] # "none" /\ db'[i] = "canceled")
    BY <1>4, <1>a DEF CancelAllRow, UpdateOrderStatus
  <1>5. CASE \/ UNCHANGED omVars
             \/ \E g \in Grids : Begin(g)
             \/ SyncOpenOrders \/ SyncSkipped \/ CancelOne \/ CancelOneRaises
             \/ PlaceOne \/ PlaceOneRaises
             \/ \E c \in Cancellers : CancelAll(c) \/ CancelAllAnswered(c)
                                        \/ CancelAllRaises(c) \/ ExecCancelAll(c)
             \/ ExecFetch \/ ExecCancel \/ ExecCreate
             \/ Leave \/ ExecLate \/ AgeOut
    <2>1. db' = db
      BY <1>5 DEF omVars, Begin, SyncOpenOrders, SyncSkipped, CancelOne, CancelOneRaises,
                  PlaceOne, PlaceOneRaises, CancelAll, CancelAllAnswered, CancelAllRaises,
                  ExecCancelAll, ExecFetch, ExecCancel, ExecCreate, Leave, ExecLate, AgeOut
    <2> QED
      BY <2>1
  <1> QED
    BY <1>1, <1>2, <1>3, <1>4, <1>5
       DEF Next, Tick, TickStep, CancelAllStep, Exchange, Environment

\* Where the orders the sync misses come from.
LEMMA MissingStep ==
  ASSUME TypeOK, [Next]_omVars
  PROVE  /\ pc' = "fetched" =>
              \/ pc = "fetched" /\ snap' = snap /\ open' \subseteq open
              \/ snap' = live /\ live' = live
         /\ pc' = "mark" =>
              \/ pc = "mark" /\ {cur'} \cup markQ' \subseteq {cur} \cup markQ
              \/ pc = "fetched" /\ {cur'} \cup markQ' \subseteq open \ snap
         /\ pc' = "createRow" \/ pc' = "createdAck" =>
              \/ pc \in {"createRow", "createdAck"} /\ cur' = cur
              \/ cur' = nextId /\ nextId \in Ids /\ db' = db
  <1>1. CASE SyncOpenOrders
    BY <1>1, LoopsGoOn DEF SyncOpenOrders, NoLongerOpen
  <1>2. CASE SyncMark
    BY <1>2, LoopsGoOn DEF SyncMark
  <1>3. CASE SyncSkipped \/ CancelOneRow \/ CancelOneRaises \/ PlaceOneRow \/ PlaceOneRaises
    BY <1>3, LoopsGoOn
       DEF SyncSkipped, CancelOneRow, CancelOneRaises, PlaceOneRow, PlaceOneRaises
  <1>4. CASE PlaceOne \/ ExecCreate
    <2>1. Accept(grid[cur]) => nextId \in Ids
      BY ConstantsAssumption DEF Accept, Ids, TypeOK, ExchangeTypeOK
    <2> QED
      BY <1>4, <2>1 DEF PlaceOne, ExecCreate
  <1>5. CASE CancelOne \/ ExecCancel \/ ExecFetch \/ \E g \in Grids : Begin(g)
    BY <1>5 DEF CancelOne, ExecCancel, ExecFetch, Begin, exchangeVars
  <1>6. CASE \/ UNCHANGED omVars
             \/ \E c \in Cancellers : CancelAll(c) \/ CancelAllStep(c) \/ ExecCancelAll(c)
             \/ Leave \/ ExecLate \/ AgeOut
    <2>1. UNCHANGED tickVars
      BY <1>6 DEF omVars, tickVars, CancelAll, CancelAllStep, CancelAllAnswered,
                  CancelAllRow, CancelAllRaises, ExecCancelAll, Leave, ExecLate, AgeOut
    <2>2. open' \subseteq open
      BY <1>6 DEF omVars, memoryVars, CancelAll, CancelAllStep, CancelAllAnswered, ListOpen,
                  CancelAllRow, CancelAllRaises, ExecCancelAll, Leave, ExecLate, AgeOut
    <2> QED
      BY <2>1, <2>2 DEF tickVars
  <1> QED
    BY <1>1, <1>2, <1>3, <1>4, <1>5, <1>6 DEF Next, Tick, TickStep, Exchange, Environment

LEMMA IInvInit == Init => IInv
  <1> SUFFICES ASSUME Init PROVE IInv
    OBVIOUS
  <1>1. FilledMeansGone /\ NoRowYet
    BY DEF Init, FilledMeansGone, NoRowYet
  <1>2. MissingAreGone /\ NewHasNoRow
    BY DEF Init, MissingAreGone, NewHasNoRow
  <1> QED
    BY <1>1, <1>2, InitType DEF IInv

LEMMA IInvNext == IInv /\ [Next]_omVars => IInv'
  <1> SUFFICES ASSUME IInv, [Next]_omVars PROVE IInv'
    OBVIOUS
  <1>a. TypeOK /\ TypeOK'
    BY NextType DEF IInv
  <1>b. nextId \in Nat /\ nextId' \in Nat /\ nextId' >= nextId
    BY <1>a, BookStep, GivenIds DEF TypeOK, ExchangeTypeOK
  <1>c. live' \subseteq live \cup {nextId}
    BY <1>a, BookStep
  <1>1. FilledMeansGone'
    <2> SUFFICES ASSUME NEW i \in Ids, db'[i] = "filled" PROVE i \notin live'
      BY DEF FilledMeansGone
    <2>1. CASE db[i] = "filled"
      <3>1. i \notin live /\ i # nextId
        BY <2>1, <1>b DEF IInv, FilledMeansGone, NoRowYet
      <3> QED
        BY <3>1, <1>c
    <2>2. CASE pc = "mark" /\ i = cur /\ live' = live
      BY <2>2 DEF IInv, MissingAreGone
    <2> QED
      BY <1>a, <2>1, <2>2, RowStep
  <1>2. NoRowYet'
    <2> SUFFICES ASSUME NEW i \in Ids, i >= nextId' PROVE db'[i] = "none"
      BY DEF NoRowYet
    <2>1. i >= nextId
      BY <1>b DEF Ids
    <2>2. db[i] = "none"
      BY <2>1 DEF IInv, NoRowYet
    <2>3. ~(pc = "createRow" /\ i = cur)
      BY <2>1, <1>a, <1>b DEF TypeOK, TickTypeOK
    <2> QED
      BY <1>a, <2>2, <2>3, RowStep
  <1>3. MissingAreGone'
    <2>a. open \subseteq 1 .. nextId - 1 /\ nextId \notin 1 .. nextId - 1
      BY <1>a, GivenIds DEF TypeOK, MemoryTypeOK
    <2>1. ASSUME pc' = "fetched" PROVE (open' \ snap') \cap live' = {}
      <3>1. CASE pc = "fetched" /\ snap' = snap /\ open' \subseteq open
        BY <3>1, <2>a, <1>c DEF IInv, MissingAreGone
      <3>2. CASE snap' = live /\ live' = live
        BY <3>2
      <3> QED
        BY <1>a, <2>1, <3>1, <3>2, MissingStep
    <2>2. ASSUME pc' = "mark" PROVE cur' \notin live' /\ markQ' \cap live' = {}
      <3>1. ({cur'} \cup markQ') \cap live = {} /\ {cur'} \cup markQ' \subseteq 1 .. nextId - 1
        <4>1. CASE pc = "mark" /\ {cur'} \cup markQ' \subseteq {cur} \cup markQ
          BY <4>1, <1>a DEF IInv, MissingAreGone, TypeOK, TickTypeOK
        <4>2. CASE pc = "fetched" /\ {cur'} \cup markQ' \subseteq open \ snap
          BY <4>2, <2>a DEF IInv, MissingAreGone
        <4> QED
          BY <1>a, <2>2, <4>1, <4>2, MissingStep
      <3> QED
        BY <3>1, <2>a, <1>c
    <2> QED
      BY <2>1, <2>2 DEF MissingAreGone
  <1>4. NewHasNoRow'
    <2> SUFFICES ASSUME pc' \in {"createdAck", "createRow"} PROVE db'[cur'] = "none"
      BY DEF NewHasNoRow
    <2>1. CASE pc \in {"createRow", "createdAck"} /\ cur' = cur
      <3>1. cur \in Ids /\ db[cur] = "none"
        BY <2>1, <1>a, GivenIds DEF IInv, NewHasNoRow, TypeOK, TickTypeOK
      <3> QED
        BY <2>1, <1>a, <3>1, RowStep
    <2>2. CASE cur' = nextId /\ nextId \in Ids /\ db' = db
      BY <2>2, <1>b DEF IInv, NoRowYet
    <2> QED
      BY <1>a, <2>1, <2>2, MissingStep
  <1> QED
    BY <1>a, <1>1, <1>2, <1>3, <1>4 DEF IInv

\* An order whose row says "filled" is not on the book, whatever stale lists, lost
\* and late requests and calls of cancel_all came in between.
THEOREM FilledOrdersAreGone == Spec => []FilledMeansGone
  <1>1. Spec => []IInv
    BY IInvInit, IInvNext, PTL DEF Spec
  <1>2. IInv => FilledMeansGone
    BY DEF IInv
  <1> QED
    BY <1>1, <1>2, PTL

\* A row that says "filled" or "canceled" never says "open" again.
THEOREM TerminalRows == Spec => TerminalRowsStayTerminal
  <1>1. Spec => []IInv
    BY IInvInit, IInvNext, PTL DEF Spec
  <1>2. IInv /\ [Next]_omVars
          => [\A i \in Ids : db[i] \in {"filled", "canceled"}
                               => db'[i] \in {"filled", "canceled"}]_db
    <2> SUFFICES ASSUME IInv, [Next]_omVars, NEW i \in Ids, db[i] \in {"filled", "canceled"}
                 PROVE  db'[i] \in {"filled", "canceled"}
      OBVIOUS
    <2>1. pc = "createRow" => db[cur] = "none"
      BY DEF IInv, NewHasNoRow
    <2> QED
      BY <2>1, RowStep DEF IInv
  <1> QED
    BY <1>1, <1>2, PTL DEF Spec, TerminalRowsStayTerminal

=============================================================================
