------------------------------- MODULE Seqlock -------------------------------
(***************************************************************************)
(* exchange/cpp/include/seqlock.h: SeqlockBuffer<T>, one writer and any    *)
(* number of readers.  The gate connector keeps its ticker in one: the io  *)
(* thread stores, callers of fetch_ticker load.                            *)
(*                                                                         *)
(* The payload is copied word by word in an order the compiler chooses; a  *)
(* word holds the number of the store it comes from, 0 being the initial   *)
(* value.  The fences keep the accesses to seq_ and to the payload in      *)
(* program order, so one access is one action.                             *)
(***************************************************************************)
EXTENDS Integers

CONSTANTS
  SeqWords,      \* the words of T
  Readers,       \* the reading threads
  MaxSeqStores,  \* bound: number of stores
  SeqMod         \* seq_ counts modulo this, 2^32 in the code

ASSUME SeqlockAssumption ==
  /\ MaxSeqStores \in Nat
  /\ SeqMod \in Nat
  /\ SeqMod % 2 = 0
  /\ 2 * MaxSeqStores < SeqMod    \* no load spans 2^31 stores

VARIABLES
  seq,        \* seq_
  data,       \* data_: the store each word comes from
  seqStores,  \* number of the last store begun
  seqWriter,  \* the writer: "idle" or "write"
  toWrite,    \* words it has still to write
  seqReader,  \* reader r: "idle", "head" of the loop, "copy", "returned"
  s1, s2,     \* its locals; s2 is Unset until the first re-read
  loaded,     \* its copy
  toCopy,     \* words it has still to copy
  since       \* the last store completed before its load began

seqWriterVars == <<seq, data, seqStores, seqWriter, toWrite>>
seqReaderVars == <<seqReader, s1, s2, loaded, toCopy, since>>
seqVars       == <<seqWriterVars, seqReaderVars>>

Unset == -1

SeqInit ==
  /\ seq = 0
  /\ data = [w \in SeqWords |-> 0]
  /\ seqStores = 0
  /\ seqWriter = "idle"
  /\ toWrite = {}
  /\ seqReader = [r \in Readers |-> "idle"]
  /\ s1 = [r \in Readers |-> Unset]
  /\ s2 = [r \in Readers |-> Unset]
  /\ loaded = [r \in Readers |-> [w \in SeqWords |-> Unset]]
  /\ toCopy = [r \in Readers |-> {}]
  /\ since = [r \in Readers |-> 0]

Odd(n) == n % 2 = 1

-----------------------------------------------------------------------------
(* store                                                                   *)

BeginSeqStore ==
  /\ seqWriter = "idle"
  /\ seqStores < MaxSeqStores
  /\ seqStores' = seqStores + 1
  /\ seq' = (seq + 1) % SeqMod
  /\ seqWriter' = "write"
  /\ toWrite' = SeqWords
  /\ UNCHANGED <<data, seqReaderVars>>

WriteSeqWord ==
  /\ \E w \in toWrite :
       /\ data' = [data EXCEPT ![w] = seqStores]
       /\ toWrite' = toWrite \ {w}
  /\ UNCHANGED <<seq, seqStores, seqWriter, seqReaderVars>>

EndStore ==
  /\ seqWriter = "write"
  /\ toWrite = {}
  /\ seq' = (seq + 1) % SeqMod
  /\ seqWriter' = "idle"
  /\ UNCHANGED <<data, seqStores, toWrite, seqReaderVars>>

-----------------------------------------------------------------------------
(* load                                                                    *)

Completed == IF seqWriter = "idle" THEN seqStores ELSE seqStores - 1

BeginLoad(r) ==
  /\ seqReader[r] \in {"idle", "returned"}
  /\ seqReader' = [seqReader EXCEPT ![r] = "head"]
  /\ s1' = [s1 EXCEPT ![r] = Unset]
  /\ s2' = [s2 EXCEPT ![r] = Unset]
  /\ loaded' = [loaded EXCEPT ![r] = [w \in SeqWords |-> Unset]]
  /\ since' = [since EXCEPT ![r] = Completed]
  /\ UNCHANGED <<toCopy, seqWriterVars>>

\* `while (s1 != s2)`, with the values the locals have at that point.  An s2 that
\* was never assigned compares either way.
Test(r, a, b) ==
  \/ a = b /\ seqReader' = [seqReader EXCEPT ![r] = "returned"]
  \/ a # b /\ seqReader' = [seqReader EXCEPT ![r] = "head"]
  \/ b = Unset /\ seqReader' = [seqReader EXCEPT ![r] = "returned"]

\* s1 = seq_, which decides whether the payload is read.
ReadEvenSeq(r) ==
  /\ seqReader[r] = "head"
  /\ ~Odd(seq)
  /\ s1' = [s1 EXCEPT ![r] = seq]
  /\ seqReader' = [seqReader EXCEPT ![r] = "copy"]
  /\ toCopy' = [toCopy EXCEPT ![r] = SeqWords]
  /\ UNCHANGED <<s2, loaded, since, seqWriterVars>>

\* `if (s1 & 1u) continue;` goes on at the test of the do-while loop.
ReadOddSeq(r) ==
  /\ seqReader[r] = "head"
  /\ Odd(seq)
  /\ s1' = [s1 EXCEPT ![r] = seq]
  /\ Test(r, seq, s2[r])
  /\ UNCHANGED <<s2, loaded, toCopy, since, seqWriterVars>>

ReadSeqWord(r) ==
  /\ \E w \in toCopy[r] :
       /\ loaded' = [loaded EXCEPT ![r][w] = data[w]]
       /\ toCopy' = [toCopy EXCEPT ![r] = @ \ {w}]
  /\ UNCHANGED <<seqReader, s1, s2, since, seqWriterVars>>

\* The second read of seq_ left out.
RecheckNothing(r) ==
  /\ seqReader[r] = "copy"
  /\ toCopy[r] = {}
  /\ s2' = [s2 EXCEPT ![r] = s1[r]]
  /\ Test(r, s1[r], s1[r])
  /\ UNCHANGED <<s1, loaded, toCopy, since, seqWriterVars>>

\* s2 = seq_.
Recheck(r) ==
  /\ seqReader[r] = "copy"
  /\ toCopy[r] = {}
  /\ s2' = [s2 EXCEPT ![r] = seq]
  /\ Test(r, s1[r], seq)
  /\ UNCHANGED <<s1, loaded, toCopy, since, seqWriterVars>>

SeqLoad(r) == BeginLoad(r) \/ ReadEvenSeq(r) \/ ReadOddSeq(r) \/ ReadSeqWord(r) \/ Recheck(r)

SeqNext ==
  \/ BeginSeqStore
  \/ WriteSeqWord
  \/ EndStore
  \/ \E r \in Readers : SeqLoad(r)

SeqSpec == SeqInit /\ [][SeqNext]_seqVars

-----------------------------------------------------------------------------
(* Properties.                                                             *)

\* A load that returns by the path the protocol describes, with an even s1, has
\* the value of one store, and of none older than the last one completed before
\* the load began.
CheckedLoadIsFresh ==
  \A r \in Readers :
    seqReader[r] = "returned" /\ ~Odd(s1[r])
      => \E v \in since[r] .. seqStores : \A w \in SeqWords : loaded[r][w] = v

\* seqlock.h, load: "our copy may be a torn mix of old and new values, so we
\* retry".  Stated for the loads that compared two values of seq_, so that it does
\* not depend on the uninitialised s2: they return the value of one store.
NoTornRead ==
  \A r \in Readers :
    seqReader[r] = "returned" /\ s2[r] # Unset
      => \E v \in 0 .. seqStores : \A w \in SeqWords : loaded[r][w] = v

=============================================================================
