----------------------------- MODULE EventIndex -----------------------------
(***************************************************************************)
(* The stored index of the settlement history (event_index.rs).  It is built    *)
(* by the first query that finds none and then answers every query until it     *)
(* is invalidated, whatever the ledger appends, evicts or prunes meanwhile.      *)
(* Entries name a position in the history as it was when the index was built.   *)
(***************************************************************************)
EXTENDS LedgerClock, Sequences, FiniteSets, FiniteSetsExt

CONSTANTS
    Indexed,        \* outage identifiers
    MaxEntries,     \* retention limit of the history
    SizeInputs,     \* sizes set_max_index_size is given
    DefaultSize,    \* 1000 in the code
    MaxIndexed      \* bound on the number of settlements

ASSUME IndexAssumption == MaxEntries \in Nat \ {0} /\ SizeInputs \subseteq Nat /\ DefaultSize \in Nat

VARIABLES
    entries,        \* HISTORY_KEY: the outage and the time of each entry
    eventIndex,     \* EVENT_INDEX_KEY, or NoIndex
    maxIndexSize,   \* MAX_INDEX_SIZE_KEY, or its default
    settlements,    \* history: number of settlements
    builtOver,      \* history: the entries the index was built over
    gone            \* history: the number of entries that have left since then

historyOfIndex == <<settlements, builtOver, gone>>
indexVars == <<entries, eventIndex, maxIndexSize, historyOfIndex>>

NoIndex == <<[position |-> -1, outage_id |-> "", recorded_at |-> 0]>>
IndexedEntry == [outage_id : Indexed, recorded_at : Time]
EventIndexEntry == [position : 0..(MaxEntries - 1), outage_id : Indexed, recorded_at : Time]

-----------------------------------------------------------------------------
(* The index.                                                              *)

\* The oldest entries, as many as the index may hold.
Built == [i \in 1..Min({Len(entries), maxIndexSize}) |->
    [position |-> i - 1, outage_id |-> entries[i].outage_id, recorded_at |-> entries[i].recorded_at]]

\* get_event_index: a query builds the index if there is none.
Queried == IF eventIndex = NoIndex THEN Built ELSE eventIndex

\* Asked for, or by a query that finds no index.
BuildEventIndex ==
    /\ eventIndex' = Built
    /\ builtOver' = [over |-> entries, size |-> maxIndexSize]
    /\ gone' = 0
    /\ UNCHANGED <<now, entries, maxIndexSize, settlements>>

InvalidateIndex ==
    /\ eventIndex' = NoIndex
    /\ UNCHANGED <<now, entries, maxIndexSize, historyOfIndex>>

\* An index larger than the new size stays as it is.
SetMaxIndexSize(size) ==
    /\ maxIndexSize' = size
    /\ UNCHANGED <<now, entries, eventIndex, historyOfIndex>>

\* Builds the index if there is none, then drops the older entries from it.
PruneIndexBefore(cutoff) ==
    /\ eventIndex' = SelectSeq(Queried, LAMBDA entry : entry.recorded_at >= cutoff)
    /\ IF eventIndex = NoIndex
         THEN builtOver' = [over |-> entries, size |-> maxIndexSize] /\ gone' = 0
         ELSE UNCHANGED <<builtOver, gone>>
    /\ UNCHANGED <<now, entries, maxIndexSize, settlements>>

\* The queries by status and by payment type differ in the field they compare.
Positions(found) == {Queried[i].position : i \in found}
find_events_by_outage(outage) ==
    Positions({i \in DOMAIN Queried : Queried[i].outage_id = outage})
find_events_in_range(from, to) ==
    Positions({i \in DOMAIN Queried : Queried[i].recorded_at \in from..to})
get_index_metadata ==
    [count  |-> Len(Queried),
     latest |-> IF Queried = <<>> THEN 0 ELSE Queried[Len(Queried)].recorded_at]

-----------------------------------------------------------------------------
(* The ledger: lib.rs changes the history and leaves the index alone.       *)

\* calculate_sla appends, and drops the oldest entry over the limit; an outage
\* in the history is not settled again.
AppendEntry(outage) ==
    /\ settlements < MaxIndexed
    /\ \A i \in DOMAIN entries : entries[i].outage_id # outage
    /\ LET longer == Append(entries, [outage_id |-> outage, recorded_at |-> now])
       IN  entries' = IF Len(longer) > MaxEntries THEN Tail(longer) ELSE longer
    /\ settlements' = settlements + 1
    /\ gone' = gone + (IF Len(entries) = MaxEntries THEN 1 ELSE 0)
    /\ UNCHANGED <<now, eventIndex, maxIndexSize, builtOver>>

\* prune_history.
KeepLatest(keep) ==
    /\ Len(entries) > keep
    /\ entries' = SubSeq(entries, Len(entries) - keep + 1, Len(entries))
    /\ gone' = gone + (Len(entries) - keep)
    /\ UNCHANGED <<now, eventIndex, maxIndexSize, settlements, builtOver>>

-----------------------------------------------------------------------------
IndexInit ==
    /\ entries = <<>>
    /\ eventIndex = NoIndex
    /\ maxIndexSize = DefaultSize
    /\ settlements = 0
    /\ builtOver = [over |-> <<>>, size |-> 0]
    /\ gone = 0

IndexNext ==
    \/ Tick /\ UNCHANGED indexVars
    \/ BuildEventIndex \/ InvalidateIndex
    \/ \E size \in SizeInputs : SetMaxIndexSize(size)
    \/ \E cutoff \in Time : PruneIndexBefore(cutoff)
    \/ \E outage \in Indexed : AppendEntry(outage)
    \/ \E keep \in 0..(MaxEntries - 1) : KeepLatest(keep)

-----------------------------------------------------------------------------
(* Properties.                                                             *)

IndexTypeOK ==
    /\ entries \in Seq(IndexedEntry) /\ Len(entries) <= MaxEntries
    /\ eventIndex = NoIndex \/ eventIndex \in Seq(EventIndexEntry)
    /\ maxIndexSize \in Nat

\* The index tells what the history held when it was built, in order, as far as
\* the size allowed then, and the same after any pruning of either: each entry
\* is that of its position, and the last one is the latest.
IndexIsAsBuilt ==
    eventIndex # NoIndex =>
        /\ Len(eventIndex) <= builtOver.size
        /\ \A i \in DOMAIN eventIndex :
             LET entry == eventIndex[i]
                 origin == builtOver.over[entry.position + 1]
             IN  /\ entry.outage_id = origin.outage_id
                 /\ entry.recorded_at = origin.recorded_at
                 /\ entry.recorded_at <= get_index_metadata.latest
                 /\ i > 1 => eventIndex[i - 1].position < entry.position

\* The positions a stale index answers with are too high by the number of entries
\* that have left the front of the history since it was built, all by the same
\* number, however settlements, evictions and prunings of either took turns: lower
\* by as much they name the outage asked for, as long as it is in the history.
\* They are right as they are when nothing has left, or after the index was
\* invalidated.
PositionsAreOffByTheGone ==
    LET behind == IF eventIndex = NoIndex THEN 0 ELSE gone
    IN  \A outage \in Indexed : \A position \in find_events_by_outage(outage) :
            LET place == position - behind
            IN  place >= 0 =>
                  /\ place < Len(entries)
                  /\ entries[place + 1].outage_id = outage
                  /\ position \in find_events_in_range(entries[place + 1].recorded_at, now)

\* The index is a faithful picture of an earlier history.
IndexTellsWhatWas == IndexTypeOK /\ IndexIsAsBuilt /\ PositionsAreOffByTheGone
=============================================================================
