\* Two readers of a two-word payload, three stores: the value a load returns.
SPECIFICATION SeqSpec
CONSTANTS
  r1 = r1
  r2 = r2
  bid = bid
  ask = ask
  Readers <- MCReaders
  SeqWords <- MCWords
  MaxSeqStores = 3
  SeqMod = 8
SYMMETRY Symmetry
INVARIANT
  NoTornRead
