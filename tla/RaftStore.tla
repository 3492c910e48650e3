------------------------------ MODULE RaftStore ------------------------------
(***************************************************************************)
(* The log of a raft server on disk: RaftLogger with its buffer of recent  *)
(* entries, the segments, and the index file of each segment.  One caller  *)
(* appends, reads, truncates and commits; the clean-up of the buffer runs  *)
(* on a thread of its own; the process may crash between two steps of an   *)
(* append and start again on the files it has left.                        *)
(*                                                                         *)
(* A file is the sequence of its records, a position the number of records *)
(* before it: records have one size, and segments are rolled by the number *)
(* of their entries.                                                       *)
(***************************************************************************)
EXTENDS Integers, Sequences, FiniteSetsExt, Functions

CONSTANTS
  MaxSegmentEntries,
  MaxAppends,   \* bound: calls of append
  MaxSkips,     \* bound: calls of skip
  MaxCrashes    \* bound: crashes

ASSUME SizeAssumption == MaxSegmentEntries \in Nat \ {0}
ASSUME BoundAssumption == {MaxAppends, MaxSkips, MaxCrashes} \subseteq Nat

VARIABLES
  files,       \* on disk: base index -> records of the segment
  indexFiles,  \* on disk: base index -> slots of the OffsetIndex
  segments,    \* SegmentManager.segments: base index -> Segment
  current,     \* base index of SegmentManager.currentSegment
  generator,   \* SegmentManager.indexGenerator
  buffer,      \* RaftLogger.entryBuffer: index -> entry
  cleanUpTo,   \* greatest index whose clean-up is scheduled, 0 for none
  call,        \* the append that is running
  process,     \* "up", "down", or how the last start has ended
  appends, skips, crashes,  \* counters for the bounds
  returned,    \* history: entries whose append has returned, but for the truncated
  handed,      \* history: entries that have got an index
  gap,         \* history: an index was given to no record
  renumbered   \* history: a start has begun at index 0 with records on disk

disk    == <<files, indexFiles>>
memory  == <<segments, current, generator, buffer, cleanUpTo, call>>
bounds  == <<appends, skips, crashes>>
history == <<returned, handed, gap, renumbered>>
vars    == <<disk, memory, process, bounds, history>>

Index    == 0 .. MaxAppends + MaxSkips
Entry    == [index : Index, command : 1 .. MaxAppends]
NoEntry  == [index |-> 0, command |-> 0]
Torn     == [index |-> -1, command |-> 0]  \* the start of a record, at the end of a file
Blank    == [index |-> 0, position |-> 0]  \* a slot that was never written
Idle     == [at |-> "idle"]
NoBuffer == [i \in {} |-> NoEntry]

\* A blank index file of full length, and an open segment with nothing in it.
BlankIndex  == [k \in 1 .. MaxSegmentEntries |-> Blank]
OpenSegment == [mode |-> "rw", opened |-> FALSE, entries |-> 0, write |-> 0]
NewSegment  == [OpenSegment EXCEPT !.mode = "new"]

Init ==
  /\ files = [b \in {1} |-> <<>>] /\ indexFiles = [b \in {1} |-> BlankIndex]
  /\ segments = [b \in {1} |-> OpenSegment] /\ current = 1
  /\ generator = 0 /\ buffer = NoBuffer /\ cleanUpTo = 0 /\ call = Idle
  /\ process = "up" /\ appends = 0 /\ skips = 0 /\ crashes = 0
  /\ returned = {} /\ handed = {} /\ gap = FALSE /\ renumbered = FALSE

With(map, key, value) ==
  [k \in DOMAIN map \cup {key} |-> IF k = key THEN value ELSE map[k]]

Ready == process = "up" /\ call.at = "idle"
-----------------------------------------------------------------------------
(* Reading.                                                                 *)

\* Segment.open maps the index file as it is: every slot counts as an entry.
Opened(b) ==
  IF segments[b].opened THEN segments[b]
  ELSE [segments[b] EXCEPT !.mode = "r", !.opened = TRUE, !.entries = Len(indexFiles[b])]

\* OffsetIndex.lookup goes back from the slot that index would have if none
\* were missing.  Outside the mapped slots it throws.
Lookup(b, index) ==
  LET slots == {k \in 1 .. index - b + 1 : indexFiles[b][k].index <= index}
  IN indexFiles[b][Max(slots)]

Misses(b, index) ==
  LET slot == index - b + 1
  IN \/ slot > Opened(b).entries
     \/ \A k \in 1 .. slot : indexFiles[b][k].index > index

\* Deviation: the entry before a missing one is returned for it.
ReadNearest(b, index) ==
  IF Misses(b, index) \/ Lookup(b, index).index = 0 THEN NoEntry
  ELSE files[b][Lookup(b, index).position + 1]

\* Segment.get; an exception is left to the caller like a missing entry.
ReadSegment(b, index) ==
  IF Misses(b, index) \/ Lookup(b, index).index # index THEN NoEntry
  ELSE files[b][Lookup(b, index).position + 1]

HasSegment(index) == \E b \in DOMAIN segments : b <= index
Floor(index) == Max({b \in DOMAIN segments : b <= index})

\* RaftLogger.get
Read(index) ==
  IF index \in DOMAIN buffer THEN buffer[index]
  ELSE IF HasSegment(index) THEN ReadSegment(Floor(index), index) ELSE NoEntry

\* Deviation: the first of the buffer instead of the last.
LastFromFirst ==
  IF DOMAIN buffer # {} THEN buffer[Min(DOMAIN buffer)] ELSE NoEntry

\* RaftLogger.lastEntry: of the buffer, or what the last slot of the current
\* segment says.
Last ==
  LET slot == indexFiles[current][Opened(current).entries]
  IN IF DOMAIN buffer # {} THEN buffer[Max(DOMAIN buffer)]
     ELSE IF slot.index > 0 THEN ReadSegment(current, slot.index) ELSE NoEntry

Open(b) ==
  /\ segments' = [segments EXCEPT ![b] = Opened(b)]
  /\ UNCHANGED <<disk, current, generator, buffer, cleanUpTo, call, process, bounds, history>>

Get(index) ==
  /\ Ready /\ index \notin DOMAIN buffer /\ HasSegment(index)
  /\ Open(Floor(index))

LastEntry  == Ready /\ DOMAIN buffer = {} /\ Open(current)
FirstIndex == Ready /\ Open(Min(DOMAIN segments))
-----------------------------------------------------------------------------
(* append, step by step.                                                    *)

AppendEntry ==
  /\ Ready /\ appends < MaxAppends
  /\ LET entry == [index |-> generator + 1, command |-> appends + 1]
     IN call' = [at |-> "write", entry |-> entry] /\ handed' = handed \cup {entry}
  /\ generator' = generator + 1 /\ appends' = appends + 1
  /\ UNCHANGED <<disk, segments, current, buffer, cleanUpTo, process, skips, crashes,
                 returned, gap, renumbered>>

\* The payload is too long, or the channel was opened for reading: the index
\* is gone.  In the second case no later append of this process succeeds.
Refuse ==
  /\ call.at = "write"
  /\ call' = Idle /\ gap' = (gap \/ segments[current].mode = "rw")
  /\ UNCHANGED <<disk, segments, current, generator, buffer, cleanUpTo, process, bounds,
                 returned, handed, renumbered>>

Put(s, position, record) ==
  IF position < Len(s) THEN [s EXCEPT ![position + 1] = record] ELSE s \o <<record>>

Write ==
  /\ call.at = "write" /\ segments[current].mode = "rw"
  /\ files' = [files EXCEPT ![current] = Put(@, segments[current].write, call.entry)]
  /\ segments' = [segments EXCEPT ![current].write = @ + 1]
  /\ call' = [call EXCEPT !.at = "index"]
  /\ UNCHANGED <<indexFiles, current, generator, buffer, cleanUpTo, process, bounds, history>>

\* Deviation: the index file is taken to be long enough.
IndexAnyway ==
  /\ call.at = "index"
  /\ indexFiles' = [indexFiles EXCEPT ![current] =
                      Put(@, segments[current].entries,
                          [index |-> call.entry.index, position |-> segments[current].write - 1])]
  /\ segments' = [segments EXCEPT ![current].entries = @ + 1]
  /\ call' = [call EXCEPT !.at = "roll"]
  /\ UNCHANGED <<files, current, generator, buffer, cleanUpTo, process, bounds, history>>

\* OffsetIndex.indexEntry; past the end of the file the mapped buffer throws.
IndexEntry ==
  /\ call.at = "index"
  /\ IF segments[current].entries = MaxSegmentEntries
     THEN call' = Idle /\ UNCHANGED <<indexFiles, segments>>
     ELSE /\ indexFiles' = [indexFiles EXCEPT ![current][segments[current].entries + 1] =
                              [index |-> call.entry.index,
                               position |-> segments[current].write - 1]]
          /\ segments' = [segments EXCEPT ![current].entries = @ + 1]
          /\ call' = [call EXCEPT !.at = "roll"]
  /\ UNCHANGED <<files, current, generator, buffer, cleanUpTo, process, bounds, history>>

\* Deviation: the new segment starts at the entry just written.
RollFrom(entry) == entry.index

NextBase(entry) == entry.index + 1

\* nextSegment: a file of that name may exist, its index is made anew.  The
\* old segment is flushed, its index trimmed, and closed.
Roll ==
  /\ call.at = "roll" /\ segments[current].entries >= MaxSegmentEntries
  /\ LET b == NextBase(call.entry)
     IN /\ files' = IF b \in DOMAIN files THEN files ELSE With(files, b, <<>>)
        /\ indexFiles' = With(indexFiles, b, BlankIndex)
        /\ segments' = With([segments EXCEPT ![current].mode = "closed"], b, OpenSegment)
        /\ current' = b
  /\ call' = [call EXCEPT !.at = "buffer"]
  /\ UNCHANGED <<generator, buffer, cleanUpTo, process, bounds, history>>

\* entryBuffer.put, and the caller has the index.
BufferEntry ==
  /\ \/ call.at = "buffer"
     \/ call.at = "roll" /\ segments[current].entries < MaxSegmentEntries
  /\ buffer' = With(buffer, call.entry.index, call.entry)
  /\ returned' = returned \cup {call.entry}
  /\ call' = Idle
  /\ UNCHANGED <<disk, segments, current, generator, cleanUpTo, process, bounds, handed,
                 gap, renumbered>>
-----------------------------------------------------------------------------
(* The other calls.                                                         *)

Skip ==
  /\ Ready /\ skips < MaxSkips
  /\ generator' = generator + 1 /\ skips' = skips + 1 /\ gap' = TRUE
  /\ UNCHANGED <<disk, segments, current, buffer, cleanUpTo, call, process, appends, crashes,
                 returned, handed, renumbered>>

\* Only the buffer is truncated, from index on: the records stay on disk and
\* are read again.
Truncate(index) ==
  /\ Ready
  /\ buffer' = Restrict(buffer, {i \in DOMAIN buffer : i < index})
  /\ returned' = {e \in returned : e.index < index}
  /\ UNCHANGED <<disk, segments, current, generator, cleanUpTo, call, process, bounds,
                 handed, gap, renumbered>>

\* The caller commits nothing twice and nothing beyond lastIndex.
Commit(index) ==
  /\ Ready /\ cleanUpTo < index /\ index <= generator
  /\ cleanUpTo' = index
  /\ UNCHANGED <<disk, segments, current, generator, buffer, call, process, bounds, history>>

\* Ten seconds later, on the thread LogCleanPool: the first entry of the buffer
\* is removed, and so on up to the index that was committed.
Clean ==
  /\ process = "up" /\ DOMAIN buffer # {} /\ Min(DOMAIN buffer) <= cleanUpTo
  /\ buffer' = Restrict(buffer, DOMAIN buffer \ {Min(DOMAIN buffer)})
  /\ UNCHANGED <<disk, segments, current, generator, cleanUpTo, call, process, bounds, history>>
-----------------------------------------------------------------------------
(* Crash and start.                                                         *)

Crash ==
  /\ process = "up" /\ crashes < MaxCrashes
  /\ process' = "down" /\ crashes' = crashes + 1 /\ call' = Idle
  /\ \/ UNCHANGED files
     \/ \* in the middle of a write at the end of the file
        /\ call.at = "write" /\ segments[current].mode = "rw"
        /\ segments[current].write = Len(files[current])
        /\ files' = [files EXCEPT ![current] = @ \o <<Torn>>]
  /\ UNCHANGED <<indexFiles, segments, current, generator, buffer, cleanUpTo, appends, skips,
                 history>>

\* Segment.check makes the index of a segment anew from its records.
Rebuilt(records) ==
  [k \in 1 .. MaxSegmentEntries |->
     IF k <= Len(records) THEN [index |-> records[k].index, position |-> k - 1] ELSE Blank]

\* Deviation: the generator goes on after the number of records.
GeneratorCounts(records) == Len(records)

\* SegmentManager.check: the generator goes on after the last index of the
\* last segment, from 0 if that is empty.
GeneratorAfter(records) == IF records = <<>> THEN 0 ELSE records[Len(records)].index

LastFile == files[Max(DOMAIN files)]

Startable(records) == Len(records) <= MaxSegmentEntries /\ Torn \notin Range(records)

\* readEntry never ends on a torn record; a record more than the index file
\* has room for makes the start fail.
StartFails ==
  /\ process = "down" /\ ~Startable(LastFile)
  /\ process' = IF LastFile[Min({Len(LastFile), MaxSegmentEntries + 1})] = Torn
                THEN "hangs" ELSE "failed"
  /\ UNCHANGED <<disk, memory, bounds, history>>

Start ==
  /\ process = "down" /\ Startable(LastFile) /\ process' = "up"
  /\ LET last == Max(DOMAIN files)
     IN /\ indexFiles' = [indexFiles EXCEPT ![last] = Rebuilt(LastFile)]
        /\ segments' = [b \in DOMAIN files |->
                          IF b # last THEN NewSegment
                          ELSE [OpenSegment EXCEPT !.entries = Len(LastFile),
                                                   !.write = Len(LastFile)]]
        /\ current' = last
        /\ generator' = GeneratorAfter(LastFile)
        /\ renumbered' = (renumbered \/ (LastFile = <<>> /\ last > 1))
  /\ buffer' = NoBuffer /\ cleanUpTo' = 0 /\ call' = Idle
  /\ UNCHANGED <<files, bounds, returned, handed, gap>>
-----------------------------------------------------------------------------
Next ==
  \/ \E i \in Index : Get(i) \/ Truncate(i) \/ Commit(i)
  \/ Clean \/ LastEntry \/ FirstIndex
  \/ AppendEntry \/ Refuse \/ Write \/ IndexEntry \/ Roll \/ BufferEntry
  \/ Skip \/ Crash \/ StartFails \/ Start

Spec == Init /\ [][Next]_vars
-----------------------------------------------------------------------------
(* Properties.                                                              *)

Stored == (UNION {Range(files[b]) : b \in DOMAIN files}) \ {Torn}

\* The variables hold what the fields and files of the code can hold.
TypeOK ==
  /\ DOMAIN files = DOMAIN indexFiles /\ DOMAIN files \subseteq 1 .. MaxAppends + MaxSkips + 1
  /\ Stored \subseteq Entry
  /\ \A b \in DOMAIN indexFiles : Len(indexFiles[b]) = MaxSegmentEntries
  /\ process \in {"up", "down", "failed", "hangs"}
  /\ DOMAIN segments \subseteq DOMAIN files /\ current \in DOMAIN segments
  /\ \A b \in DOMAIN segments : segments[b].entries <= MaxSegmentEntries
  /\ generator \in Index /\ cleanUpTo \in Index
  /\ returned \subseteq handed /\ handed \subseteq Entry

\* Whatever was skipped, refused, overwritten or crashed: what get(index)
\* returns is an entry that was appended under that index, never the one
\* before it (Segment.get, OffsetIndex.lookup).
ReadsAreRight ==
  process = "up" => \A i \in Index :
    Read(i) # NoEntry => Read(i).index = i /\ Read(i) \in handed

\* As long as no index went to no record and no start began anew at 0, an
\* entry whose append has returned is found until a truncate is asked to
\* delete it: across clean-up, truncation of later entries, rolling, opening
\* for reading, crashes and starts (RaftLogger.get, SegmentManager.check).
ReturnedIsFound ==
  process = "up" /\ ~gap /\ ~renumbered => \A e \in returned : Read(e.index) = e

\* As long as no start began anew at 0, an append gets an index greater than
\* every index on disk (SegmentManager.check, LongIdGenerator).
IndexIsFresh ==
  process = "up" /\ ~renumbered =>
    /\ \A e \in Stored : e.index <= generator
    /\ \A e, f \in Stored : e.index = f.index => e = f

\* lastEntry is not always the last, but what it returns is never older than
\* anything in the buffer or, if that is empty, in the current segment.
LastIsNewest ==
  process = "up" /\ ~renumbered /\ Last # NoEntry =>
    /\ \A i \in DOMAIN buffer : i <= Last.index
    /\ DOMAIN buffer = {} =>
         \A e \in Range(files[current]) : e.index <= Last.index \/ e \notin returned
=============================================================================
