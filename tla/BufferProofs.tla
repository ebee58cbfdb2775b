----------------------------- MODULE BufferProofs -----------------------------
(***************************************************************************)
(* Theorems about the two ways of handing over a payload, of any size, in  *)
(* any number of stores: AtomicDoubleBuffer with one reading thread, and   *)
(* Seqlock with any number of readers.                                     *)
(***************************************************************************)
EXTENDS AtomicDoubleBuffer, Seqlock, TLAPS

-----------------------------------------------------------------------------
(* AtomicDoubleBuffer.                                                     *)

\* The slot the reader owns: until load assigns reader_slot_, the one it was given.
Owned == IF rpc["caller"] = "keep" THEN at["caller"] ELSE reader_slot

\* Three owners, three slots.
Exclusive ==
  /\ writer_slot # packed.slot
  /\ writer_slot # Owned
  /\ packed.slot # Owned

\* Where the two threads are.
Progress ==
  /\ rpc["io"] = "idle" /\ rtodo["io"] = {}
  /\ rpc["caller"] = "exchange" => packed.new
  /\ rpc["caller"] = "copy" => at["caller"] = reader_slot
  /\ wpc = "write" => stores = published + 1
  /\ wpc = "idle" => stores = published

\* What the slots and the copies hold.
Contents ==
  /\ \E n \in 0 .. published : buf[Owned] = Value(n)
  /\ packed.new => buf[packed.slot] = Value(published)
  /\ ~packed.new => buf[Owned] = Value(published)
  /\ wpc = "write" => \A w \in Words \ wtodo : buf[writer_slot][w] = stores
  /\ rpc["caller"] = "copy" =>
       \A w \in Words \ rtodo["caller"] : out["caller"][w] = buf[Owned][w]

\* The last result and how it compares with what the next load returns.
Results ==
  /\ \E n \in 0 .. published : result = Value(n)
  /\ \A n, m \in 0 .. MaxStores : result = Value(n) /\ buf[Owned] = Value(m) => n <= m

BufferInv ==
  /\ TypeOK
  /\ Exclusive
  /\ Progress
  /\ Contents
  /\ Results

\* A value tells which store it is from.
LEMMA ValueInjective == \A n, m : Value(n) = Value(m) => n = m
  <1> SUFFICES ASSUME NEW n, NEW m, Value(n) = Value(m) PROVE n = m
    OBVIOUS
  <1>1. PICK w \in Words : TRUE
    BY BufferAssumption
  <1>2. Value(n)[w] = n /\ Value(m)[w] = m
    BY <1>1 DEF Value
  <1> QED
    BY <1>2

\* A copy that agrees with a value everywhere is that value.
LEMMA ValueExtensional ==
  ASSUME NEW f \in [Words -> 0 .. MaxStores], NEW n, \A w \in Words : f[w] = n
  PROVE  f = Value(n)
  BY DEF Value

LEMMA BufferInvInit == Init => BufferInv
  <1> SUFFICES ASSUME Init PROVE BufferInv
    OBVIOUS
  <1>0. MaxStores \in Nat /\ 0 \in 0 .. MaxStores
    BY BufferAssumption
  <1>1. Value(0) \in [Words -> 0 .. MaxStores]
    BY <1>0 DEF Value
  <1>2. TypeOK
    BY <1>0, <1>1 DEF Init, TypeOK, Slots, Threads
  <1>3. Owned = 0 /\ Exclusive /\ Progress
    BY DEF Init, Exclusive, Progress, Owned, Threads
  <1>4. buf[0] = Value(0)
    BY DEF Init, Slots
  <1>5. Contents
    BY <1>3, <1>4 DEF Init, Contents, Threads
  <1>6. Results
    <2>1. \E n \in 0 .. published : result = Value(n)
      BY DEF Init
    <2>2. ASSUME NEW n \in 0 .. MaxStores, NEW m \in 0 .. MaxStores,
                 result = Value(n), buf[Owned] = Value(m)
          PROVE  n <= m
      BY <1>3, <1>4, <2>2, ValueInjective DEF Init
    <2> QED
      BY <2>1, <2>2 DEF Results
  <1> QED
    BY <1>2, <1>3, <1>5, <1>6 DEF BufferInv

-----------------------------------------------------------------------------
(* The writer's steps.                                                     *)

LEMMA BeginStoreInv == BufferInv /\ BeginStore => BufferInv'
  <1> SUFFICES ASSUME BufferInv, BeginStore PROVE BufferInv'
    OBVIOUS
  <1> USE DEF BeginStore
  <1>1. rpc' = rpc
    BY DEF BufferInv, Progress, TypeOK, Threads
  <1>2. TypeOK'
    <2>1. stores' \in 0 .. MaxStores
      BY BufferAssumption DEF BufferInv, TypeOK
    <2>2. wpc' \in {"idle", "write"} /\ wtodo' \subseteq Words
      OBVIOUS
    <2> QED
      BY <1>1, <2>1, <2>2 DEF BufferInv, TypeOK
  <1>3. Owned' = Owned /\ Exclusive' /\ Progress'
    BY <1>1, BufferAssumption DEF BufferInv, Exclusive, Progress, Owned, TypeOK
  <1>4. Contents'
    BY <1>1, <1>3 DEF BufferInv, Contents
  <1>5. Results'
    BY <1>1, <1>3 DEF BufferInv, Results
  <1> QED
    BY <1>2, <1>3, <1>4, <1>5 DEF BufferInv

LEMMA WriteWordInv == BufferInv /\ WriteWord => BufferInv'
  <1> SUFFICES ASSUME BufferInv, NEW w \in wtodo,
                      buf' = [buf EXCEPT ![writer_slot][w] = stores],
                      wtodo' = wtodo \ {w},
                      UNCHANGED <<packed, writer_slot, stores, published, wpc, readerVars>>
               PROVE  BufferInv'
    BY DEF WriteWord
  <1> USE DEF readerVars
  <1>1. TypeOK'
    BY DEF BufferInv, TypeOK
  <1>2. Owned' = Owned /\ Exclusive' /\ Progress'
    BY DEF BufferInv, Exclusive, Progress, Owned
  <1>3. \A s \in Slots : s # writer_slot => buf'[s] = buf[s]
    BY DEF BufferInv, TypeOK
  <1>4. Owned \in Slots /\ packed.slot \in Slots
    BY DEF BufferInv, TypeOK, Owned, Threads
  <1>5. buf'[Owned] = buf[Owned] /\ buf'[packed.slot] = buf[packed.slot]
    BY <1>3, <1>4 DEF BufferInv, Exclusive
  <1>6. \A v \in Words : buf'[writer_slot][v] = IF v = w THEN stores ELSE buf[writer_slot][v]
    BY DEF BufferInv, TypeOK
  <1>7. Contents'
    BY <1>2, <1>5, <1>6 DEF BufferInv, Contents
  <1>8. Results'
    BY <1>2, <1>5 DEF BufferInv, Results
  <1> QED
    BY <1>1, <1>2, <1>7, <1>8 DEF BufferInv

LEMMA PublishInv == BufferInv /\ Publish => BufferInv'
  <1> SUFFICES ASSUME BufferInv, Publish PROVE BufferInv'
    OBVIOUS
  <1> USE DEF Publish, readerVars
  <1>1. packed'.slot = writer_slot /\ packed'.new = TRUE /\ writer_slot' = packed.slot
    OBVIOUS
  <1>2. TypeOK'
    BY DEF BufferInv, TypeOK
  <1>3. Owned' = Owned /\ Exclusive'
    BY <1>1 DEF BufferInv, Exclusive, Owned
  <1>4. Progress'
    BY <1>1 DEF BufferInv, Progress
  <1>5. published <= published' /\ published \in Nat /\ published' \in Nat
    BY BufferAssumption DEF BufferInv, Progress, TypeOK
  <1>6. buf[writer_slot] = Value(stores)
    <2>1. buf[writer_slot] \in [Words -> 0 .. MaxStores]
      BY DEF BufferInv, TypeOK
    <2>2. \A w \in Words : buf[writer_slot][w] = stores
      BY DEF BufferInv, Contents
    <2> QED
      BY <2>1, <2>2, ValueExtensional
  <1>7. Contents'
    <2>1. \E n \in 0 .. published' : buf'[Owned'] = Value(n)
      BY <1>3, <1>5 DEF BufferInv, Contents
    <2>2. buf'[packed'.slot] = Value(published')
      BY <1>1, <1>6
    <2> QED
      BY <1>1, <1>3, <2>1, <2>2 DEF BufferInv, Contents
  <1>8. Results'
    <2>1. \E n \in 0 .. published' : result' = Value(n)
      BY <1>5 DEF BufferInv, Results
    <2> QED
      BY <1>3, <2>1 DEF BufferInv, Results
  <1> QED
    BY <1>2, <1>3, <1>4, <1>7, <1>8 DEF BufferInv

-----------------------------------------------------------------------------
(* The reader's steps.                                                     *)

LEMMA LoadInv == BufferInv /\ Load("caller") => BufferInv'
  <1> SUFFICES ASSUME BufferInv, Load("caller") PROVE BufferInv'
    OBVIOUS
  <1> USE DEF writerVars
  <1>a. /\ "caller" \in Threads /\ "io" \in Threads /\ "caller" # "io"
        /\ rpc \in [Threads -> {"idle", "exchange", "keep", "index", "copy", "loaded"}]
        /\ at \in [Threads -> Slots]
        /\ rtodo \in [Threads -> SUBSET Words]
        /\ out \in [Threads -> [Words -> 0 .. MaxStores]]
    BY DEF Threads, BufferInv, TypeOK
  <1>1. CASE Peek("caller")
    <2> USE <1>1 DEF Peek
    <2>1. rpc'["caller"] \in {"exchange", "index"} /\ rpc["caller"] = "idle" /\ rpc'["io"] = rpc["io"] /\ rtodo'["io"] = rtodo["io"]
      BY <1>a
    <2>2. rpc'["caller"] = "exchange" => packed.new
      BY <1>a
    <2>3. TypeOK'
      BY <1>a DEF BufferInv, TypeOK
    <2>4. Owned' = Owned /\ Exclusive' /\ Progress'
      BY <2>1, <2>2 DEF BufferInv, Exclusive, Progress, Owned
    <2>5. Contents' /\ Results'
      BY <2>1, <2>4 DEF BufferInv, Contents, Results
    <2> QED
      BY <2>3, <2>4, <2>5 DEF BufferInv
  <1>2. CASE Exchange("caller")
    <2> USE <1>2 DEF Exchange
    <2>1. rpc'["caller"] = "keep" /\ at'["caller"] = packed.slot /\ rpc'["io"] = rpc["io"] /\ rtodo'["io"] = rtodo["io"]
      BY <1>a
    <2>2. packed'.slot = reader_slot /\ packed'.new = FALSE /\ packed.new
      BY DEF BufferInv, Progress
    <2>3. TypeOK'
      BY <1>a DEF BufferInv, TypeOK
    <2>4. Owned = reader_slot /\ Owned' = packed.slot
      BY <2>1 DEF Owned
    <2>5. Exclusive' /\ Progress'
      BY <2>1, <2>2, <2>4 DEF BufferInv, Exclusive, Progress
    <2>6. buf[packed.slot] = Value(published) /\ published \in 0 .. MaxStores /\ published \in 0 .. published
      BY <2>2, BufferAssumption DEF BufferInv, Contents, TypeOK
    <2>7. Contents'
      BY <2>1, <2>2, <2>4, <2>6 DEF BufferInv, Contents
    <2>8. Results'
      <3>1. PICK k \in 0 .. published : result = Value(k)
        BY DEF BufferInv, Results
      <3>2. ASSUME NEW n \in 0 .. MaxStores, NEW m \in 0 .. MaxStores,
                   result = Value(n), buf[packed.slot] = Value(m)
            PROVE  n <= m
        <4>1. n = k /\ m = published
          BY <3>1, <3>2, <2>6, ValueInjective
        <4> QED
          BY <4>1, <2>6, BufferAssumption
      <3> QED
        BY <2>4, <3>1, <3>2 DEF Results
    <2> QED
      BY <2>3, <2>5, <2>7, <2>8 DEF BufferInv
  <1>3. CASE Keep("caller")
    <2> USE <1>3 DEF Keep
    <2>1. rpc'["caller"] = "index" /\ rpc["caller"] = "keep" /\ rpc'["io"] = rpc["io"] /\ rtodo'["io"] = rtodo["io"]
      BY <1>a
    <2>2. TypeOK'
      BY <1>a DEF BufferInv, TypeOK
    <2>3. Owned' = Owned
      BY <2>1 DEF Owned
    <2>4. Exclusive' /\ Progress' /\ Contents' /\ Results'
      BY <2>1, <2>3 DEF BufferInv, Exclusive, Progress, Contents, Results
    <2> QED
      BY <2>2, <2>4 DEF BufferInv
  <1>4. CASE Index("caller")
    <2> USE <1>4 DEF Index
    <2>1. /\ rpc'["caller"] = "copy" /\ rpc["caller"] = "index" /\ rpc'["io"] = rpc["io"] /\ rtodo'["io"] = rtodo["io"]
          /\ at'["caller"] = reader_slot /\ rtodo'["caller"] = Words
      BY <1>a
    <2>2. TypeOK'
      BY <1>a DEF BufferInv, TypeOK
    <2>3. Owned' = Owned
      BY <2>1 DEF Owned
    <2>4. Exclusive' /\ Progress' /\ Contents' /\ Results'
      BY <2>1, <2>3 DEF BufferInv, Exclusive, Progress, Contents, Results
    <2> QED
      BY <2>2, <2>4 DEF BufferInv
  <1>5. CASE ReadWord("caller")
    <2>1. PICK w \in rtodo["caller"] :
            /\ out' = [out EXCEPT !["caller"][w] = buf[at["caller"]][w]]
            /\ rtodo' = [rtodo EXCEPT !["caller"] = @ \ {w}]
            /\ UNCHANGED <<buf, packed, reader_slot, rpc, at, result, writerVars>>
      BY <1>5 DEF ReadWord
    <2>2. w \in Words /\ buf[at["caller"]][w] \in 0 .. MaxStores
      BY <1>a DEF BufferInv, TypeOK
    <2>3. TypeOK'
      BY <1>a, <2>1, <2>2 DEF BufferInv, TypeOK
    <2>4. Owned' = Owned /\ Exclusive' /\ Progress' /\ Results'
      BY <1>a, <2>1 DEF BufferInv, Exclusive, Progress, Owned, Results
    <2>5. Contents'
      <3>1. rpc["caller"] = "copy" => at["caller"] = Owned
        BY DEF BufferInv, Progress, Owned
      <3>2. /\ \A v \in Words : out'["caller"][v] = IF v = w THEN buf[at["caller"]][w]
                                                           ELSE out["caller"][v]
            /\ rtodo'["caller"] = rtodo["caller"] \ {w}
        BY <1>a, <2>1, <2>2
      <3> QED
        BY <2>1, <2>4, <3>1, <3>2 DEF BufferInv, Contents
    <2> QED
      BY <2>3, <2>4, <2>5 DEF BufferInv
  <1>6. CASE Return("caller")
    <2> USE <1>6 DEF Return
    <2>1. /\ rpc'["caller"] = "idle" /\ rpc["caller"] = "copy" /\ rpc'["io"] = rpc["io"] /\ rtodo'["io"] = rtodo["io"]
          /\ result' = out["caller"]
      BY <1>a
    <2>2. TypeOK'
      BY <1>a, <2>1 DEF BufferInv, TypeOK
    <2>3. Owned' = Owned /\ Exclusive' /\ Progress' /\ Contents'
      BY <2>1 DEF BufferInv, Exclusive, Progress, Owned, Contents
    <2>4. PICK n \in 0 .. published : buf[Owned] = Value(n)
      BY DEF BufferInv, Contents
    <2>5. out["caller"] = Value(n)
      <3>1. \A w \in Words : out["caller"][w] = n
        BY <1>a, <2>4 DEF BufferInv, Contents, Value
      <3> QED
        BY <1>a, <3>1, ValueExtensional
    <2>6. Results'
      <3>1. ASSUME NEW i \in 0 .. MaxStores, NEW j \in 0 .. MaxStores,
                   result' = Value(i), buf[Owned] = Value(j)
            PROVE  i <= j
        <4>1. i = n /\ j = n
          BY <2>1, <2>4, <2>5, <3>1, ValueInjective
        <4> QED
          BY <4>1, BufferAssumption
      <3> QED
        BY <2>1, <2>3, <2>5, <3>1 DEF Results
    <2> QED
      BY <2>2, <2>3, <2>6 DEF BufferInv
  <1> QED
    BY <1>1, <1>2, <1>3, <1>4, <1>5, <1>6 DEF Load

\* The io thread never loads.
LEMMA IoNeverLoads == ~LoadBeforeStore /\ BufferInv => ~Load("io")
  BY DEF BufferInv, Progress, TypeOK, Load, Peek, Exchange, Keep, Index, ReadWord, Return, Threads

-----------------------------------------------------------------------------
(* The theorems.                                                           *)

LEMMA NextInv == ~LoadBeforeStore /\ BufferInv /\ [Next]_vars => BufferInv'
  <1> SUFFICES ASSUME ~LoadBeforeStore, BufferInv, [Next]_vars PROVE BufferInv'
    OBVIOUS
  <1>1. CASE BeginStore
    BY <1>1, BeginStoreInv
  <1>2. CASE WriteWord
    BY <1>2, WriteWordInv
  <1>3. CASE Publish
    BY <1>3, PublishInv
  <1>4. ASSUME NEW t \in Threads, Load(t) PROVE BufferInv'
    <2>1. t = "caller"
      BY <1>4, IoNeverLoads DEF Threads
    <2> QED
      BY <1>4, <2>1, LoadInv
  <1>5. CASE UNCHANGED vars
    BY <1>5 DEF vars, BufferInv, TypeOK, Exclusive, Owned, Progress, Contents, Results
  <1> QED
    BY <1>1, <1>2, <1>3, <1>4, <1>5 DEF Next

\* The writer's slot, the shared slot and the reader's slot stay three different
\* ones (atomic_double_buffer.h, the invariant its header comment argues for).
THEOREM OwnersExclusive == ~LoadBeforeStore => (Spec => []Exclusive)
  <1> SUFFICES ASSUME ~LoadBeforeStore PROVE Spec => []Exclusive
    OBVIOUS
  <1>1. BufferInv /\ [Next]_vars => BufferInv'
    BY NextInv
  <1>2. BufferInv => Exclusive
    BY DEF BufferInv
  <1> QED
    BY BufferInvInit, <1>1, <1>2, PTL DEF Spec

\* With one reading thread load (atomic_double_buffer.h:117-135) never returns words
\* of two stores.
THEOREM LoadsAreWhole == ~LoadBeforeStore => (Spec => []NoTornLoad)
  <1> SUFFICES ASSUME ~LoadBeforeStore PROVE Spec => []NoTornLoad
    OBVIOUS
  <1>1. BufferInv /\ [Next]_vars => BufferInv'
    BY NextInv
  <1>2. BufferInv => NoTornLoad
    BY DEF BufferInv, Results, NoTornLoad
  <1> QED
    BY BufferInvInit, <1>1, <1>2, PTL DEF Spec

\* With one reading thread a clear flag means that the reader holds the last
\* published value (has_new_data, atomic_double_buffer.h:139-141).
THEOREM NoPublicationLost == ~LoadBeforeStore => (Spec => []NothingNewMeansLatest)
  <1> SUFFICES ASSUME ~LoadBeforeStore PROVE Spec => []NothingNewMeansLatest
    OBVIOUS
  <1>1. BufferInv /\ [Next]_vars => BufferInv'
    BY NextInv
  <1>2. BufferInv => NothingNewMeansLatest
    BY DEF BufferInv, Contents, Owned, NothingNewMeansLatest
  <1> QED
    BY BufferInvInit, <1>1, <1>2, PTL DEF Spec

\* With one reading thread the values load returns never go back to an older store.
THEOREM LoadsAreMonotone == ~LoadBeforeStore => (Spec => LoadsGoForward)
  <1> SUFFICES ASSUME ~LoadBeforeStore PROVE Spec => LoadsGoForward
    OBVIOUS
  <1>1. BufferInv /\ [Next]_vars => BufferInv'
    BY NextInv
  <1>2. BufferInv /\ [Next]_vars =>
          [\A n, m \in 0 .. MaxStores : result = Value(n) /\ result' = Value(m) => n <= m]_result
    <2> SUFFICES ASSUME BufferInv, Next, result' # result,
                        NEW n \in 0 .. MaxStores, NEW m \in 0 .. MaxStores,
                        result = Value(n), result' = Value(m)
                 PROVE  n <= m
      BY DEF vars
    <2>1. Return("caller")
      BY IoNeverLoads DEF Next, BeginStore, WriteWord, Publish, Load, Peek, Exchange, Keep,
                          Index, ReadWord, Threads, readerVars
    <2>2. result' = out["caller"] /\ rpc["caller"] = "copy" /\ rtodo["caller"] = {}
      BY <2>1 DEF Return
    <2>3. PICK k \in 0 .. published : buf[Owned] = Value(k)
      BY DEF BufferInv, Contents
    <2>4. \A w \in Words : out["caller"][w] = k
      BY <2>2, <2>3 DEF BufferInv, Contents, Value
    <2>5. out["caller"] = Value(k)
      BY <2>4, ValueExtensional DEF BufferInv, TypeOK, Threads
    <2>6. k = m
      BY <2>2, <2>5, ValueInjective
    <2> QED
      BY <2>3, <2>6 DEF BufferInv, Results
  <1> QED
    BY BufferInvInit, <1>1, <1>2, PTL DEF Spec, LoadsGoForward

-----------------------------------------------------------------------------
(* Seqlock.                                                                *)

\* Every variable keeps its type; only the values the invariant speaks of matter.
SeqTypeOK ==
  /\ seq \in Int
  /\ data \in [SeqWords -> Int]
  /\ seqStores \in 0 .. MaxSeqStores
  /\ seqWriter \in {"idle", "write"}
  /\ toWrite \in SUBSET SeqWords
  /\ seqReader \in [Readers -> {"idle", "head", "copy", "returned"}]
  /\ s1 \in [Readers -> Int]
  /\ s2 \in [Readers -> Int]
  /\ loaded \in [Readers -> [SeqWords -> Int]]
  /\ toCopy \in [Readers -> SUBSET SeqWords]
  /\ since \in [Readers -> Nat]

\* seq_ counts the begins and ends of stores: it is even exactly when the payload is
\* that of one store.
WriterInv ==
  /\ seqWriter = "idle" => toWrite = {} /\ seq = 2 * seqStores
  /\ seqWriter = "write" => seqStores >= 1 /\ seq = 2 * seqStores - 1
  /\ \A w \in SeqWords : data[w] = IF w \in toWrite THEN seqStores - 1 ELSE seqStores

\* A reader copies after it read an even seq_, which is as old as its copy as long as
\* seq_ has not moved.
ReaderInv(r) ==
  /\ since[r] <= Completed
  /\ seqReader[r] # "copy" => toCopy[r] = {}
  /\ seqReader[r] = "copy" =>
       /\ ~Odd(s1[r])
       /\ 2 * since[r] <= s1[r]
       /\ s1[r] <= seq
       /\ s1[r] = seq => \A w \in SeqWords \ toCopy[r] : 2 * loaded[r][w] = seq
  /\ seqReader[r] = "returned" /\ ~Odd(s1[r])
       => \E v \in since[r] .. seqStores : \A w \in SeqWords : loaded[r][w] = v

SeqInv == SeqTypeOK /\ WriterInv /\ \A r \in Readers : ReaderInv(r)

LEMMA EvenOrOdd ==
  ASSUME NEW k \in Nat
  PROVE  ~Odd(2 * k) /\ (k >= 1 => Odd(2 * k - 1))
  BY SMT DEF Odd

\* seq_ does not wrap around within the stores of a behaviour.
LEMMA NoWrap ==
  ASSUME SeqTypeOK, WriterInv
  PROVE  /\ seqWriter = "idle" /\ seqStores < MaxSeqStores => (seq + 1) % SeqMod = seq + 1
         /\ seqWriter = "write" => (seq + 1) % SeqMod = seq + 1
  <1>a. /\ MaxSeqStores \in Nat /\ SeqMod \in Nat /\ 2 * MaxSeqStores < SeqMod
        /\ seqStores \in Nat /\ seqStores <= MaxSeqStores
    BY SeqlockAssumption DEF SeqTypeOK
  <1>b. \A n \in Nat : n < SeqMod => n % SeqMod = n
    BY <1>a
  <1>1. CASE seqWriter = "idle" /\ seqStores < MaxSeqStores
    <2>1. seq + 1 \in Nat /\ seq + 1 < SeqMod
      BY <1>1, <1>a DEF WriterInv
    <2> QED
      BY <1>1, <2>1, <1>b
  <1>2. CASE seqWriter = "write"
    <2>1. seq + 1 \in Nat /\ seq + 1 < SeqMod
      BY <1>2, <1>a DEF WriterInv
    <2> QED
      BY <1>2, <2>1, <1>b
  <1> QED
    BY <1>1, <1>2

\* A step of the writer: seq_ grows or the payload of an odd seq_ changes.
LEMMA WriterStep ==
  ASSUME SeqInv, BeginSeqStore \/ WriteSeqWord \/ EndStore
  PROVE  SeqInv'
  <1> USE DEF SeqInv
  <1>a. UNCHANGED seqReaderVars
    BY DEF BeginSeqStore, WriteSeqWord, EndStore
  <1>b. MaxSeqStores \in Nat /\ seqStores \in Nat
    BY SeqlockAssumption DEF SeqTypeOK
  <1>1. CASE BeginSeqStore
    <2>1. seq' = seq + 1 /\ seqStores' = seqStores + 1
      BY <1>1, NoWrap DEF BeginSeqStore
    <2>2. SeqTypeOK'
      BY <1>1, <1>a, <1>b, <2>1 DEF BeginSeqStore, SeqTypeOK, seqReaderVars
    <2>3. WriterInv'
      BY <1>1, <1>b, <2>1 DEF BeginSeqStore, WriterInv, SeqTypeOK
    <2>4. Completed' = Completed
      BY <1>1, <1>b, <2>1 DEF BeginSeqStore, Completed
    <2>5. ASSUME NEW r \in Readers PROVE ReaderInv(r)'
      BY <1>a, <1>b, <2>1, <2>4 DEF ReaderInv, SeqTypeOK, seqReaderVars
    <2> QED
      BY <2>2, <2>3, <2>5
  <1>2. CASE WriteSeqWord
    <2>1. UNCHANGED <<seq, seqStores, seqWriter>>
      BY <1>2 DEF WriteSeqWord
    <2>2. SeqTypeOK'
      BY <1>2, <1>a, <1>b, <2>1 DEF WriteSeqWord, SeqTypeOK, seqReaderVars
    <2>3. WriterInv'
      BY <1>2, <1>b, <2>1 DEF WriteSeqWord, WriterInv, SeqTypeOK
    <2>4. ASSUME NEW r \in Readers PROVE ReaderInv(r)'
      BY <1>a, <2>1 DEF ReaderInv, Completed, seqReaderVars
    <2> QED
      BY <2>2, <2>3, <2>4
  <1>3. CASE EndStore
    <2>1. seq' = seq + 1 /\ UNCHANGED <<seqStores, data, toWrite>> /\ toWrite = {}
          /\ seqWriter = "write" /\ seqWriter' = "idle"
      BY <1>3, NoWrap DEF EndStore
    <2>2. SeqTypeOK'
      BY <1>a, <2>1 DEF SeqTypeOK, seqReaderVars
    <2>3. WriterInv'
      BY <1>b, <2>1 DEF WriterInv, SeqTypeOK
    <2>4. Completed' = seqStores /\ Completed = seqStores - 1
      BY <2>1 DEF Completed
    <2>5. ASSUME NEW r \in Readers PROVE ReaderInv(r)'
      BY <1>a, <1>b, <2>1, <2>4 DEF ReaderInv, SeqTypeOK, seqReaderVars
    <2> QED
      BY <2>2, <2>3, <2>5
  <1> QED
    BY <1>1, <1>2, <1>3

LEMMA TestType ==
  ASSUME SeqTypeOK, NEW r \in Readers, NEW a, NEW b, Test(r, a, b)
  PROVE  /\ seqReader' \in [Readers -> {"idle", "head", "copy", "returned"}]
         /\ seqReader'[r] \in {"head", "returned"}
         /\ seqReader'[r] = "returned" => a = b \/ b = Unset
         /\ \A q \in Readers \ {r} : seqReader'[q] = seqReader[q]
  BY DEF Test, SeqTypeOK

\* A step of a reader changes what belongs to that reader only.
LEMMA ReaderStep ==
  ASSUME SeqInv, NEW r \in Readers, SeqLoad(r)
  PROVE  SeqInv'
  <1> USE DEF SeqInv
  <1>a. UNCHANGED seqWriterVars
    BY DEF SeqLoad, BeginLoad, ReadEvenSeq, ReadOddSeq, ReadSeqWord, Recheck
  <1>b. /\ seqStores \in Nat /\ since[r] \in Nat /\ seq \in Int /\ s1[r] \in Int
        /\ Completed \in Int /\ Completed <= seqStores
    BY SeqlockAssumption DEF SeqTypeOK, Completed
  <1>c. Completed \in Nat
    BY <1>b DEF Completed, WriterInv, SeqTypeOK
  <1>d. ~Odd(seq) => /\ seqWriter = "idle" /\ seq = 2 * seqStores /\ Completed = seqStores
                     /\ \A w \in SeqWords : data[w] = seqStores
    BY <1>b, EvenOrOdd DEF WriterInv, SeqTypeOK, Completed
  <1>e. Completed' = Completed
    BY <1>a DEF Completed, seqWriterVars
  <1>1. SeqTypeOK'
    <2>1. Unset \in Int
      BY DEF Unset
    <2>2. CASE BeginLoad(r)
      BY <1>a, <1>c, <2>1, <2>2 DEF BeginLoad, SeqTypeOK, seqWriterVars
    <2>3. CASE ReadEvenSeq(r)
      BY <1>a, <1>b, <2>3 DEF ReadEvenSeq, SeqTypeOK, seqWriterVars
    <2>4. CASE ReadOddSeq(r)
      BY <1>a, <1>b, <2>4, TestType DEF ReadOddSeq, SeqTypeOK, seqWriterVars
    <2>5. CASE ReadSeqWord(r)
      BY <1>a, <2>5 DEF ReadSeqWord, SeqTypeOK, seqWriterVars
    <2>6. CASE Recheck(r)
      BY <1>a, <1>b, <2>6, TestType DEF Recheck, SeqTypeOK, seqWriterVars
    <2> QED
      BY <2>2, <2>3, <2>4, <2>5, <2>6 DEF SeqLoad
  <1>2. WriterInv'
    BY <1>a DEF WriterInv, seqWriterVars
  <1>3. ASSUME NEW q \in Readers, q # r PROVE ReaderInv(q)'
    <2>1. /\ seqReader'[q] = seqReader[q] /\ s1'[q] = s1[q] /\ loaded'[q] = loaded[q]
          /\ toCopy'[q] = toCopy[q] /\ since'[q] = since[q]
      BY <1>3, TestType DEF SeqLoad, BeginLoad, ReadEvenSeq, ReadOddSeq, ReadSeqWord, Recheck,
         SeqTypeOK
    <2> QED
      BY <1>a, <1>e, <2>1 DEF ReaderInv, seqWriterVars
  <1>4. ReaderInv(r)'
    <2>1. CASE BeginLoad(r)
      <3>1. seqReader'[r] = "head" /\ since'[r] = Completed /\ toCopy'[r] = {}
        BY <2>1 DEF BeginLoad, SeqTypeOK, ReaderInv
      <3> QED
        BY <1>c, <1>e, <3>1 DEF ReaderInv
    <2>2. CASE ReadEvenSeq(r)
      <3>1. /\ seqReader'[r] = "copy" /\ s1'[r] = seq /\ toCopy'[r] = SeqWords
            /\ since' = since /\ ~Odd(seq) /\ seq' = seq
        BY <1>a, <2>2 DEF ReadEvenSeq, SeqTypeOK, seqWriterVars
      <3> QED
        BY <1>b, <1>d, <1>e, <3>1 DEF ReaderInv
    <2>3. CASE ReadOddSeq(r)
      <3>1. /\ seqReader'[r] \in {"head", "returned"} /\ s1'[r] = seq /\ Odd(seq)
            /\ since' = since /\ toCopy'[r] = {}
        BY <2>3, TestType DEF ReadOddSeq, SeqTypeOK, ReaderInv
      <3> QED
        BY <1>e, <3>1 DEF ReaderInv
    <2>4. CASE ReadSeqWord(r)
      <3>1. PICK w \in toCopy[r] : /\ loaded' = [loaded EXCEPT ![r][w] = data[w]]
                                   /\ toCopy' = [toCopy EXCEPT ![r] = @ \ {w}]
        BY <2>4 DEF ReadSeqWord
      <3>2. UNCHANGED <<seqReader, s1, since, seq, seqStores>>
        BY <1>a, <2>4 DEF ReadSeqWord, seqWriterVars
      <3>3. seqReader[r] = "copy" /\ s1[r] = seq =>
              \A x \in SeqWords \ toCopy'[r] : 2 * loaded'[r][x] = seq
        <4> SUFFICES ASSUME seqReader[r] = "copy", s1[r] = seq, NEW x \in SeqWords \ toCopy'[r]
                     PROVE  2 * loaded'[r][x] = seq
          OBVIOUS
        <4>1. ~Odd(seq)
          BY DEF ReaderInv
        <4>2. w \in SeqWords
          BY DEF SeqTypeOK
        <4>3. CASE x = w
          <5>1. loaded'[r][x] = data[w]
            BY <3>1, <4>2, <4>3 DEF SeqTypeOK
          <5> QED
            BY <1>d, <4>1, <4>2, <5>1
        <4>4. CASE x # w
          <5>1. loaded'[r][x] = loaded[r][x] /\ x \notin toCopy[r]
            BY <3>1, <4>4 DEF SeqTypeOK
          <5> QED
            BY <5>1 DEF ReaderInv
        <4> QED
          BY <4>3, <4>4
      <3>4. seqReader[r] = "copy"
        BY <2>4 DEF ReadSeqWord, ReaderInv
      <3> QED
        BY <1>e, <3>2, <3>3, <3>4 DEF ReaderInv
    <2>5. CASE Recheck(r)
      <3>1. /\ seqReader[r] = "copy" /\ toCopy[r] = {}
            /\ seqReader'[r] \in {"head", "returned"}
            /\ seqReader'[r] = "returned" => s1[r] = seq
            /\ UNCHANGED <<s1, loaded, toCopy, since, seqStores>>
        <4>1. seq # Unset
          BY <1>b DEF WriterInv, SeqTypeOK, Unset
        <4> QED
          BY <1>a, <2>5, <4>1, TestType DEF Recheck, seqWriterVars
      <3>2. ASSUME seqReader'[r] = "returned"
            PROVE  \E v \in since[r] .. seqStores : \A w \in SeqWords : loaded[r][w] = v
        <4>1. s1[r] = seq /\ ~Odd(seq) /\ since[r] <= Completed
          BY <3>1, <3>2 DEF ReaderInv
        <4>2. \A w \in SeqWords : loaded[r][w] = seqStores
          <5> SUFFICES ASSUME NEW w \in SeqWords PROVE loaded[r][w] = seqStores
            OBVIOUS
          <5>1. 2 * loaded[r][w] = 2 * seqStores
            BY <1>d, <3>1, <4>1 DEF ReaderInv
          <5>2. loaded[r][w] \in Int
            BY DEF SeqTypeOK
          <5> QED
            BY <1>b, <5>1, <5>2
        <4>3. seqStores \in since[r] .. seqStores
          BY <1>b, <1>d, <4>1
        <4> QED
          BY <4>2, <4>3
      <3> QED
        BY <1>e, <3>1, <3>2 DEF ReaderInv
    <2> QED
      BY <2>1, <2>2, <2>3, <2>4, <2>5 DEF SeqLoad
  <1> QED
    BY <1>1, <1>2, <1>3, <1>4

\* A load that returns after an even seq_ has the value of one store, and of none older
\* than the last one completed before it began, with any number of readers and words.
THEOREM CheckedLoadsAreFresh == SeqSpec => []CheckedLoadIsFresh
  <1>1. SeqInit => SeqInv
    <2> SUFFICES ASSUME SeqInit PROVE SeqInv
      OBVIOUS
    <2>1. SeqTypeOK
      BY SeqlockAssumption DEF SeqInit, SeqTypeOK, Unset
    <2>2. WriterInv
      BY DEF SeqInit, WriterInv
    <2>3. ASSUME NEW r \in Readers PROVE ReaderInv(r)
      BY DEF SeqInit, ReaderInv, Completed
    <2> QED
      BY <2>1, <2>2, <2>3 DEF SeqInv
  <1>2. SeqInv /\ [SeqNext]_seqVars => SeqInv'
    <2>1. SeqInv /\ UNCHANGED seqVars => SeqInv'
      BY DEF seqVars, seqWriterVars, seqReaderVars, SeqInv, SeqTypeOK, WriterInv, ReaderInv,
         Completed
    <2> QED
      BY <2>1, WriterStep, ReaderStep DEF SeqNext
  <1>3. SeqInv => CheckedLoadIsFresh
    BY DEF SeqInv, ReaderInv, CheckedLoadIsFresh
  <1> QED
    BY <1>1, <1>2, <1>3, PTL DEF SeqSpec

=============================================================================
