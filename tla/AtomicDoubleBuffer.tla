------------------------- MODULE AtomicDoubleBuffer -------------------------
(***************************************************************************)
(* exchange/cpp/include/atomic_double_buffer.h: AtomicDoubleBuffer<T>, the *)
(* three-slot publish/subscribe buffer, as the gate connector uses it for  *)
(* its balance: the io thread stores on every balance message, fetch_      *)
(* balance loads, and so does the io thread before it stores               *)
(* (gate_connector.cpp, on_balance_msg), which LoadBeforeStore turns on.   *)
(*                                                                         *)
(* A payload is copied word by word; a word holds the number of the store  *)
(* it comes from.  Each access to packed_ or to a slot index is an action: *)
(* release and acquire on packed_ keep them in program order.              *)
(***************************************************************************)
EXTENDS Naturals

CONSTANTS
  Words,            \* the words of T
  MaxStores,        \* bound: number of stores
  LoadBeforeStore   \* the storing thread calls load before each store

ASSUME BufferAssumption ==
  /\ Words # {}
  /\ MaxStores \in Nat
  /\ LoadBeforeStore \in BOOLEAN

Slots   == 0 .. 2
Threads == {"io", "caller"}

VARIABLES
  buf,          \* buf_[slot]: the store each word comes from
  packed,       \* packed_: the shared slot and the new-data flag
  writer_slot,  \* writer_slot_
  reader_slot,  \* reader_slot_
  stores,       \* number of the last store begun
  published,    \* number of the last store whose exchange happened
  wpc, wtodo,   \* store: where it is, words still to write
  rpc,          \* load of a thread: where it is
  at,           \* the slot it got or copies from
  out, rtodo,   \* the value being copied, words still to copy
  result        \* the value the caller's last load returned

writerVars == <<writer_slot, stores, published, wpc, wtodo>>
readerVars == <<reader_slot, rpc, at, out, rtodo, result>>
vars == <<buf, packed, writer_slot, reader_slot, stores, published, wpc, wtodo,
          rpc, at, out, rtodo, result>>

Value(n) == [w \in Words |-> n]

Init ==
  /\ buf = [s \in Slots |-> Value(0)]
  /\ packed = [slot |-> 1, new |-> FALSE]
  /\ writer_slot = 2
  /\ reader_slot = 0
  /\ stores = 0
  /\ published = 0
  /\ wpc = "idle"
  /\ wtodo = {}
  /\ rpc = [t \in Threads |-> "idle"]
  /\ at = [t \in Threads |-> 0]
  /\ out = [t \in Threads |-> Value(0)]
  /\ rtodo = [t \in Threads |-> {}]
  /\ result = Value(0)

-----------------------------------------------------------------------------
(* store                                                                   *)

BeginStore ==
  /\ wpc = "idle"
  /\ rpc["io"] \in {"idle", "loaded"}
  /\ stores < MaxStores
  /\ stores' = stores + 1
  /\ wpc' = "write"
  /\ wtodo' = Words
  /\ rpc' = [rpc EXCEPT !["io"] = "idle"]
  /\ UNCHANGED <<buf, packed, writer_slot, reader_slot, published, at, out, rtodo, result>>

WriteWord ==
  /\ \E w \in wtodo :
       /\ buf' = [buf EXCEPT ![writer_slot][w] = stores]
       /\ wtodo' = wtodo \ {w}
  /\ UNCHANGED <<packed, writer_slot, stores, published, wpc, readerVars>>

PublishAndKeep ==
  /\ wpc = "write"
  /\ wtodo = {}
  /\ packed' = [slot |-> writer_slot, new |-> TRUE]
  /\ published' = stores
  /\ wpc' = "idle"
  /\ UNCHANGED <<buf, writer_slot, stores, wtodo, readerVars>>

PublishUnflagged ==
  /\ wpc = "write"
  /\ wtodo = {}
  /\ packed' = [slot |-> writer_slot, new |-> packed.new]
  /\ writer_slot' = packed.slot
  /\ published' = stores
  /\ wpc' = "idle"
  /\ UNCHANGED <<buf, stores, wtodo, readerVars>>

\* The exchange publishes the slot; the one it returns is written next.
Publish ==
  /\ wpc = "write"
  /\ wtodo = {}
  /\ packed' = [slot |-> writer_slot, new |-> TRUE]
  /\ writer_slot' = packed.slot
  /\ published' = stores
  /\ wpc' = "idle"
  /\ UNCHANGED <<buf, stores, wtodo, readerVars>>

-----------------------------------------------------------------------------
(* load                                                                    *)

\* The relaxed peek may miss a flag set a moment ago.
Peek(t) ==
  /\ rpc[t] = "idle"
  /\ t = "io" => LoadBeforeStore /\ wpc = "idle"
  /\ \/ packed.new /\ rpc' = [rpc EXCEPT ![t] = "exchange"]
     \/ rpc' = [rpc EXCEPT ![t] = "index"]
  /\ UNCHANGED <<buf, packed, reader_slot, at, out, rtodo, result, writerVars>>

\* An exchange that leaves the flag as it is.
ExchangeFlagged(t) ==
  /\ rpc[t] = "exchange"
  /\ packed' = [slot |-> reader_slot, new |-> packed.new]
  /\ at' = [at EXCEPT ![t] = packed.slot]
  /\ rpc' = [rpc EXCEPT ![t] = "keep"]
  /\ UNCHANGED <<buf, reader_slot, out, rtodo, result, writerVars>>

Exchange(t) ==
  /\ rpc[t] = "exchange"
  /\ packed' = [slot |-> reader_slot, new |-> FALSE]
  /\ at' = [at EXCEPT ![t] = packed.slot]
  /\ rpc' = [rpc EXCEPT ![t] = "keep"]
  /\ UNCHANGED <<buf, reader_slot, out, rtodo, result, writerVars>>

Keep(t) ==
  /\ rpc[t] = "keep"
  /\ reader_slot' = at[t]
  /\ rpc' = [rpc EXCEPT ![t] = "index"]
  /\ UNCHANGED <<buf, packed, at, out, rtodo, result, writerVars>>

Index(t) ==
  /\ rpc[t] = "index"
  /\ at' = [at EXCEPT ![t] = reader_slot]
  /\ rtodo' = [rtodo EXCEPT ![t] = Words]
  /\ rpc' = [rpc EXCEPT ![t] = "copy"]
  /\ UNCHANGED <<buf, packed, reader_slot, out, result, writerVars>>

ReadWord(t) ==
  /\ \E w \in rtodo[t] :
       /\ out' = [out EXCEPT ![t][w] = buf[at[t]][w]]
       /\ rtodo' = [rtodo EXCEPT ![t] = @ \ {w}]
  /\ UNCHANGED <<buf, packed, reader_slot, rpc, at, result, writerVars>>

\* The io thread goes on to its store.
Return(t) ==
  /\ rpc[t] = "copy"
  /\ rtodo[t] = {}
  /\ rpc' = [rpc EXCEPT ![t] = IF t = "io" THEN "loaded" ELSE "idle"]
  /\ result' = IF t = "io" THEN result ELSE out[t]
  /\ UNCHANGED <<buf, packed, reader_slot, at, out, rtodo, writerVars>>

Load(t) == Peek(t) \/ Exchange(t) \/ Keep(t) \/ Index(t) \/ ReadWord(t) \/ Return(t)

Next ==
  \/ BeginStore
  \/ WriteWord
  \/ Publish
  \/ \E t \in Threads : Load(t)

Spec == Init /\ [][Next]_vars

-----------------------------------------------------------------------------
(* Properties.                                                             *)

\* Every variable keeps its type.
TypeOK ==
  /\ buf \in [Slots -> [Words -> 0 .. MaxStores]]
  /\ packed \in [slot : Slots, new : BOOLEAN]
  /\ writer_slot \in Slots
  /\ reader_slot \in Slots
  /\ stores \in 0 .. MaxStores
  /\ published \in 0 .. MaxStores
  /\ wpc \in {"idle", "write"}
  /\ wtodo \subseteq Words
  /\ rpc \in [Threads -> {"idle", "exchange", "keep", "index", "copy", "loaded"}]
  /\ at \in [Threads -> Slots]
  /\ out \in [Threads -> [Words -> 0 .. MaxStores]]
  /\ rtodo \in [Threads -> SUBSET Words]
  /\ result \in [Words -> 0 .. MaxStores]

\* A load returns the value of one published store, never words of two.
NoTornLoad == \E n \in 0 .. published : result = Value(n)

\* Successive loads never go back to an older store, although slots come back to
\* the reader in any order.
LoadsGoForward ==
  [][\A n, m \in 0 .. MaxStores : result = Value(n) /\ result' = Value(m) => n <= m]_result

\* has_new_data: when the flag is clear and no exchange is under way, the reader's
\* slot holds the last published value; no publication is lost.
NothingNewMeansLatest ==
  ~packed.new /\ rpc["caller"] # "keep" => buf[reader_slot] = Value(published)

\* atomic_double_buffer.h: "writer and reader can never be on the same slot at the
\* same time".
NeverOnSameSlot == wpc = "write" /\ rpc["caller"] = "copy" => at["caller"] # writer_slot

=============================================================================
