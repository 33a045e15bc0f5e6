--------------------------- MODULE HistoricalInfo ---------------------------
(***************************************************************************)
(* The historical entries of x/staking: TrackHistoricalInfo, which         *)
(* BeginBlock calls at every height, stores the validator set of the       *)
(* height and prunes the old ones, while governance changes the parameter  *)
(* HistoricalEntries. IBC clients verify headers against the entries.      *)
(***************************************************************************)
EXTENDS Integers

CONSTANTS
  EntriesSet,  \* values governance may give the parameter HistoricalEntries
  MaxHeight    \* bound: the last height

ASSUME HistoricalInfoAssumption ==
  EntriesSet \subseteq Nat /\ EntriesSet # {} /\ MaxHeight \in Nat

VARIABLES
  phase,     \* "begin", before BeginBlock, | "deliver" | "gov"
  height,    \* height of the block begun last
  entryNum,  \* the parameter HistoricalEntries
  info       \* heights that have an entry

vars == <<phase, height, entryNum, info>>

Init ==
  /\ phase = "begin"
  /\ height = 0
  /\ entryNum \in EntriesSet
  /\ info = {}

\* Mutant: pruning starts one height too early.
PrunedEarly(h) == {i \in info : i <= h - entryNum + 1}

\* Mutant: only the entry that falls out of the window is deleted.
PrunedOne(h) == info \cap {h - entryNum}

\* The loop walks down from the most recent height to be pruned and stops at
\* the first one that has no entry.
Pruned(h) ==
  LET start == h - entryNum
  IN {i \in info : i <= start /\ \A j \in i..start : j \in info}

\* BeginBlock of the next height.
TrackHistoricalInfo ==
  /\ phase = "begin" /\ height < MaxHeight
  /\ phase' = "deliver"
  /\ height' = height + 1
  /\ info' = (info \ Pruned(height')) \cup (IF entryNum = 0 THEN {} ELSE {height'})
  /\ UNCHANGED entryNum

\* The transactions are over; a proposal may change the parameter.
EndTransactions ==
  /\ phase = "deliver"
  /\ phase' = "gov"
  /\ UNCHANGED <<height, entryNum, info>>

UpdateHistoricalEntries(n) ==
  /\ phase = "gov"
  /\ entryNum' = n
  /\ UNCHANGED <<phase, height, info>>

EndBlock ==
  /\ phase = "gov"
  /\ phase' = "begin"
  /\ UNCHANGED <<height, entryNum, info>>

Next ==
  \/ TrackHistoricalInfo
  \/ EndTransactions
  \/ \E n \in EntriesSet : UpdateHistoricalEntries(n)
  \/ EndBlock

Spec == Init /\ [][Next]_vars

-----------------------------------------------------------------------------
TypeOK ==
  /\ phase \in {"begin", "deliver", "gov"}
  /\ height \in Nat
  /\ entryNum \in EntriesSet
  /\ info \subseteq 1..height

OnlyWindow ==
  phase = "deliver" => \A i \in info : i > height - entryNum

Contiguous ==
  \A i \in info : \A j \in i..height : j \in info

\* "Prune store to ensure we only have parameter-defined historical entries"
\* (TrackHistoricalInfo): once BeginBlock is through, every entry is one of the
\* last entryNum heights, however the parameter went up and down before. And
\* "the entries to be deleted are always in a continuous range": there is no
\* height without an entry between two entries, nor between the last one and
\* the current height.
EntriesAreWindow == OnlyWindow /\ Contiguous

\* Pruning never takes an entry that the parameter of the moment says to keep.
KeepsWindow ==
  [][\A i \in info \ info' : i <= height' - entryNum]_vars
=============================================================================
