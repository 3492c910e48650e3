-------------------------- MODULE RaftStoreProofs ---------------------------
(***************************************************************************)
(* What the log on disk promises across truncation, clean-up, rolling,     *)
(* crashes and starts: a read never returns the entry of another index,    *)
(* and, unless a start has begun anew at 0, indexes on disk are not given  *)
(* twice, and (without gaps) an entry whose append has returned is found.  *)
(***************************************************************************)
EXTENDS RaftStore, WellFoundedInduction, TLAPS

Slots  == 1 .. MaxSegmentEntries
Base   == 1 .. MaxAppends + MaxSkips + 1
Record == Entry \cup {Torn}
Slot   == [index : Index, position : Nat]
Segment ==
  [mode : {"rw", "new", "r", "closed"}, opened : BOOLEAN,
   entries : 0 .. MaxSegmentEntries, write : Nat]
Calling == [at : {"write", "index", "roll", "buffer"}, entry : Entry]

Cells(b) == 1 .. Len(files[b])

CountsOK ==
  /\ process \in {"up", "down", "failed", "hangs"}
  /\ appends \in 0 .. MaxAppends /\ skips \in 0 .. MaxSkips
  /\ gap \in BOOLEAN /\ renumbered \in BOOLEAN
  /\ returned \subseteq handed
  /\ \A e \in handed : e \in Entry /\ e.index \in 1 .. appends + skips

\* What is on disk.
DiskOK ==
  /\ files \in [DOMAIN files -> Seq(Record)]
  /\ indexFiles \in [DOMAIN files -> [Slots -> Slot]]
  /\ \A b \in DOMAIN files : b \in Base /\ b <= appends + skips + 1

\* What a server has in memory.
MemoryOK ==
  /\ segments \in [DOMAIN files -> Segment] /\ current \in DOMAIN files
  /\ generator \in 0 .. appends + skips
  /\ \A i \in DOMAIN buffer : i \in Index /\ buffer[i] \in returned /\ buffer[i].index = i
  /\ cleanUpTo \in Index
  /\ call \in {Idle} \cup Calling

\* Every record is an entry that was handed out, or cut off by a crash.
RecordsOK ==
  \A b \in DOMAIN files : \A k \in Cells(b) : files[b][k] \in handed \cup {Torn}

\* A slot is blank, or tells of the record at its own place.
Tells(b, k) ==
  /\ k \in Cells(b) /\ files[b][k] # Torn
  /\ indexFiles[b][k] = [index |-> files[b][k].index, position |-> k - 1]

SlotsOK == \A b \in DOMAIN files : \A k \in Slots : indexFiles[b][k] = Blank \/ Tells(b, k)

\* The segment that is appended to, while it may be: its slots lie behind the
\* write position, and beyond its entries they are blank.
Writable == process = "up" /\ segments[current].mode = "rw"

WriteOK ==
  /\ segments[current].write <= Len(files[current])
  /\ \/ segments[current].write = segments[current].entries + (IF call.at = "index" THEN 1 ELSE 0)
     \/ segments[current].entries = MaxSegmentEntries /\ segments[current].write > MaxSegmentEntries
  /\ \A k \in Slots : k > segments[current].entries => indexFiles[current][k] = Blank

SegmentsOK ==
  /\ \A b \in DOMAIN files : segments[b].opened =>
       segments[b].entries = MaxSegmentEntries /\ segments[b].mode # "rw"
  /\ Writable => WriteOK

\* The append that is running.
CallOK ==
  /\ call.at # "idle" => process = "up" /\ call.entry \in handed /\ call.entry.index = generator
  /\ call.at \in {"index", "roll"} =>
       /\ segments[current].mode = "rw" /\ segments[current].write >= 1
       /\ files[current][segments[current].write] = call.entry
  /\ call.at = "roll" =>
       /\ segments[current].write = segments[current].entries
       /\ indexFiles[current][segments[current].write] # Blank

Sound == CountsOK /\ DiskOK /\ MemoryOK /\ RecordsOK /\ SlotsOK /\ SegmentsOK /\ CallOK
-----------------------------------------------------------------------------
(* Operators of the model.                                                  *)

LEMMA Bounds ==
  /\ MaxSegmentEntries \in Nat \ {0} /\ MaxAppends \in Nat /\ MaxSkips \in Nat
  /\ Index \subseteq Nat /\ Base \subseteq Nat
  BY SizeAssumption, BoundAssumption DEF Index, Base

\* A bounded set of numbers has a greatest one, and Max finds it.
LEMMA MaxFacts ==
  ASSUME NEW S, S # {}, NEW n \in Nat, S \subseteq 0 .. n
  PROVE  Max(S) \in S /\ \A j \in S : j <= Max(S)
<1> DEFINE T == {n - i : i \in S}
<1>1. T \subseteq Nat /\ T # {}
  <2>1. PICK i \in S : TRUE
    OBVIOUS
  <2>2. \A j \in S : n - j \in Nat
    OBVIOUS
  <2>3. n - i \in T
    OBVIOUS
  <2> QED BY <2>2, <2>3
<1>2. PICK x \in T : \A y \in T : ~ (<<y, x>> \in OpToRel(<, Nat))
  <2> HIDE DEF T
  <2> QED BY <1>1, WFMin, NatLessThanWellFounded
<1>3. \A y \in T : ~ (y < x)
  BY <1>1, <1>2 DEF OpToRel
<1>4. PICK i \in S : x = n - i
  OBVIOUS
<1>5. \A j \in S : j <= i
  <2> SUFFICES ASSUME NEW j \in S PROVE j <= i
    OBVIOUS
  <2>1. n - j \in T /\ j \in Nat /\ i \in Nat
    OBVIOUS
  <2>2. ~ (n - j < n - i)
    BY <1>3, <1>4, <2>1
  <2> HIDE DEF T
  <2> QED BY <2>1, <2>2
<1> QED BY <1>5 DEF Max

LEMMA MinFacts ==
  ASSUME NEW S, S # {}, S \subseteq Nat
  PROVE  Min(S) \in S /\ \A j \in S : Min(S) <= j
<1>1. PICK x \in S : \A y \in S : ~ (<<y, x>> \in OpToRel(<, Nat))
  BY WFMin, NatLessThanWellFounded
<1>2. \A y \in S : ~ (y < x)
  BY <1>1 DEF OpToRel
<1>3. \A y \in S : x <= y
  BY <1>2
<1> QED BY <1>3 DEF Min

\* A record is written at its position: at the end, or over another one.
LEMMA PutFacts ==
  ASSUME NEW S, NEW s \in Seq(S), NEW p \in 0 .. Len(s), NEW r \in S
  PROVE  /\ Put(s, p, r) \in Seq(S)
         /\ Len(Put(s, p, r)) = IF p < Len(s) THEN Len(s) ELSE p + 1
         /\ \A j \in 1 .. Len(Put(s, p, r)) : Put(s, p, r)[j] = IF j = p + 1 THEN r ELSE s[j]
<1>1. CASE p < Len(s)
  <2>1. Put(s, p, r) = [s EXCEPT ![p + 1] = r]
    BY <1>1 DEF Put
  <2> QED BY <1>1, <2>1
<1>2. CASE p = Len(s)
  <2>1. Put(s, p, r) = s \o <<r>>
    BY <1>2 DEF Put
  <2> QED BY <1>2, <2>1
<1> QED BY <1>1, <1>2

LEMMA BaseMax ==
  ASSUME DiskOK, DOMAIN files # {}
  PROVE  Max(DOMAIN files) \in DOMAIN files /\ \A b \in DOMAIN files : b <= Max(DOMAIN files)
<1>1. DOMAIN files \subseteq 0 .. MaxAppends + MaxSkips + 1 /\ MaxAppends + MaxSkips + 1 \in Nat
  BY Bounds DEF DiskOK, Base
<1> QED BY <1>1, MaxFacts

\* The segment an index belongs to.
LEMMA FloorFacts ==
  ASSUME DiskOK, MemoryOK, NEW i \in Index, HasSegment(i)
  PROVE  /\ Floor(i) \in DOMAIN files /\ Floor(i) <= i
         /\ \A b \in DOMAIN files : b <= i => b <= Floor(i)
<1> DEFINE S == {b \in DOMAIN segments : b <= i}
<1>1. DOMAIN segments = DOMAIN files
  BY DEF MemoryOK
<1>2. S # {} /\ S \subseteq 0 .. MaxAppends + MaxSkips + 1 /\ MaxAppends + MaxSkips + 1 \in Nat
  BY <1>1, Bounds DEF HasSegment, DiskOK, Base
<1>3. Max(S) \in S /\ \A j \in S : j <= Max(S)
  <2> HIDE DEF S
  <2> QED BY <1>2, MaxFacts
<1> QED BY <1>1, <1>3 DEF Floor

\* A segment that is read has all the slots of its index file.
LEMMA OpenedFacts ==
  ASSUME DiskOK, MemoryOK, SegmentsOK, NEW b \in DOMAIN files
  PROVE  /\ Opened(b) \in Segment /\ Opened(b).opened
         /\ Opened(b).entries = MaxSegmentEntries /\ Opened(b).mode # "rw"
<1>1. segments[b] \in Segment
  BY DEF MemoryOK
<1>2. Len(indexFiles[b]) = MaxSegmentEntries
  BY Bounds DEF DiskOK, Slots
<1>3. CASE segments[b].opened
  BY <1>1, <1>3 DEF Opened, SegmentsOK
<1>4. CASE ~segments[b].opened
  <2>1. Opened(b) = [segments[b] EXCEPT !.mode = "r", !.opened = TRUE,
                                    !.entries = MaxSegmentEntries]
    BY <1>2, <1>4 DEF Opened
  <2>2. MaxSegmentEntries \in 0 .. MaxSegmentEntries
    BY Bounds
  <2> QED BY <1>1, <2>1, <2>2 DEF Segment
<1> QED BY <1>3, <1>4
-----------------------------------------------------------------------------
(* Every step keeps the store sound.                                        *)

\* A step that leaves the disk alone, whatever it hands out.
LEMMA DiskStays ==
  ASSUME Sound, UNCHANGED disk, handed \subseteq handed',
         appends' \in Nat, appends' >= appends, skips' \in Nat, skips' >= skips
  PROVE  DiskOK' /\ RecordsOK' /\ SlotsOK'
<1>1. files' = files /\ indexFiles' = indexFiles
  BY DEF disk
<1>2. DiskOK'
  BY <1>1, Bounds DEF Sound, DiskOK, CountsOK
<1>3. RecordsOK' /\ SlotsOK'
  BY <1>1 DEF Sound, RecordsOK, SlotsOK, Cells, Tells
<1> QED BY <1>2, <1>3

\* A step that leaves the segments alone, and no append in a new place.
LEMMA SegmentsStay ==
  ASSUME Sound, UNCHANGED <<files, indexFiles, segments, current>>,
         process' = "up" => process = "up",
         call' = call \/ (call.at # "index" /\ call'.at # "index")
  PROVE  SegmentsOK'
  BY DEF Sound, SegmentsOK, WriteOK, Writable

LEMMA CallTypes ==
  ASSUME Sound
  PROVE  /\ call.at # "idle" => call \in Calling /\ call.entry \in Entry
         /\ call.at \in {"idle", "write", "index", "roll", "buffer"}
         /\ (call.at = "idle" => call = Idle)
  BY DEF Sound, MemoryOK, Calling, Idle

LEMMA OpenSound ==
  ASSUME Sound, Ready, NEW b \in DOMAIN files, Open(b)
  PROVE  Sound'
<1> USE DEF Sound
<1>1. /\ segments' = [segments EXCEPT ![b] = Opened(b)]
      /\ UNCHANGED <<files, indexFiles, disk, current, generator, buffer, cleanUpTo, call, process,
                     appends, skips, returned, handed, gap, renumbered>>
  BY DEF Open, disk, bounds, history
<1>2. Opened(b) \in Segment /\ Opened(b).entries = MaxSegmentEntries /\ Opened(b).mode # "rw"
  BY OpenedFacts
<1>3. /\ segments' \in [DOMAIN files -> Segment] /\ segments'[b] = Opened(b)
      /\ \A c \in DOMAIN files : c # b => segments'[c] = segments[c]
  BY <1>1, <1>2 DEF MemoryOK
<1>4. CountsOK'
  BY <1>1 DEF CountsOK
<1>5. DiskOK' /\ RecordsOK' /\ SlotsOK'
  BY <1>1, DiskStays DEF CountsOK
<1>6. MemoryOK'
  BY <1>1, <1>3 DEF MemoryOK
<1>7. SegmentsOK'
  BY <1>1, <1>2, <1>3 DEF SegmentsOK, Writable, WriteOK
<1>8. CallOK'
  BY <1>1 DEF CallOK, Ready
<1> QED BY <1>4, <1>5, <1>6, <1>7, <1>8

\* Reading opens a segment that is there.
LEMMA ReadingOpens ==
  ASSUME Sound, (\E i \in Index : Get(i)) \/ LastEntry \/ FirstIndex
  PROVE  Ready /\ \E b \in DOMAIN files : Open(b)
<1>1. DOMAIN segments = DOMAIN files /\ current \in DOMAIN files /\ DOMAIN files \subseteq Nat
  BY Bounds DEF Sound, MemoryOK, DiskOK
<1>2. ASSUME NEW i \in Index, Get(i) PROVE Floor(i) \in DOMAIN files
  BY <1>2, FloorFacts DEF Get, Sound
<1>3. Min(DOMAIN segments) \in DOMAIN files
  BY <1>1, MinFacts
<1> QED BY <1>1, <1>2, <1>3 DEF Get, LastEntry, FirstIndex

LEMMA AppendSound ==
  ASSUME Sound, AppendEntry
  PROVE  Sound'
<1> USE DEF Sound
<1> DEFINE e == [index |-> generator + 1, command |-> appends + 1]
<1>1. /\ call.at = "idle" /\ process = "up" /\ appends < MaxAppends
      /\ call' = [at |-> "write", entry |-> e] /\ handed' = handed \cup {e}
      /\ generator' = generator + 1 /\ appends' = appends + 1
      /\ UNCHANGED <<files, indexFiles, disk, segments, current, buffer, cleanUpTo, process,
                     skips, returned, gap, renumbered>>
  BY DEF AppendEntry, Ready, disk
<1>2. generator \in Nat /\ appends \in Nat /\ skips \in Nat /\ appends + 1 <= MaxAppends
      /\ skips <= MaxSkips /\ generator <= appends + skips
  BY <1>1, Bounds DEF MemoryOK, CountsOK
<1>3. e \in Entry /\ e.index \in 1 .. appends' + skips' /\ e.index = generator'
  BY <1>1, <1>2, Bounds DEF Entry, Index
<1>4. CountsOK'
  <2>1. appends' \in 0 .. MaxAppends
    BY <1>1, <1>2, Bounds
  <2>2. \A x \in handed : x \in Entry /\ x.index \in 1 .. appends' + skips'
    BY <1>1, <1>2 DEF CountsOK
  <2> QED BY <1>1, <1>3, <2>1, <2>2 DEF CountsOK
<1>5. DiskOK' /\ RecordsOK' /\ SlotsOK'
  BY <1>1, <1>2, DiskStays
<1>6. MemoryOK'
  <2>1. call' \in Calling
    BY <1>1, <1>3 DEF Calling
  <2>2. generator' \in 0 .. appends' + skips'
    BY <1>1, <1>2
  <2> QED BY <1>1, <2>1, <2>2 DEF MemoryOK
<1>7. SegmentsOK'
  BY <1>1, SegmentsStay
<1>8. CallOK'
  BY <1>1, <1>3 DEF CallOK
<1> QED BY <1>4, <1>5, <1>6, <1>7, <1>8

\* Steps that touch neither the disk nor the segments.
LEMMA LightSound ==
  ASSUME Sound,
         \/ Refuse \/ Skip \/ StartFails
         \/ Clean \/ \E i \in Index : Truncate(i) \/ Commit(i)
  PROVE  Sound'
<1> USE DEF Sound
<1>1. /\ UNCHANGED <<files, indexFiles, disk, segments, current, appends, handed, renumbered>>
      /\ returned' \subseteq returned
  <2>1. CASE Refuse \/ Skip \/ StartFails \/ Clean
    BY <2>1 DEF Refuse, Skip, StartFails, Clean, disk, memory, bounds, history
  <2>2. CASE \E i \in Index : Truncate(i) \/ Commit(i)
    BY <2>2 DEF Truncate, Commit, disk, memory, bounds, history
  <2> QED BY <2>1, <2>2
<1>2. /\ call' = call \/ (call.at = "write" /\ call' = Idle)
      /\ process' = process \/ (process = "down" /\ process' \in {"hangs", "failed"})
      /\ gap' \in BOOLEAN
      /\ \/ generator' = generator /\ skips' = skips
         \/ Ready /\ skips < MaxSkips /\ generator' = generator + 1 /\ skips' = skips + 1
  <2>1. CASE Refuse
    BY <2>1 DEF Refuse, bounds
  <2>2. CASE Skip
    BY <2>2 DEF Skip
  <2>3. CASE StartFails
    BY <2>3 DEF StartFails, memory, bounds, history, CountsOK
  <2>4. CASE Clean \/ \E i \in Index : Truncate(i) \/ Commit(i)
    BY <2>4 DEF Truncate, Commit, Clean, bounds, history, CountsOK
  <2> QED BY <2>1, <2>2, <2>3, <2>4
<1>3. skips \in Nat /\ skips' \in Nat /\ skips' >= skips /\ skips' <= MaxSkips /\ appends \in Nat
      /\ generator' \in 0 .. appends' + skips'
  BY <1>1, <1>2, Bounds DEF MemoryOK, CountsOK
<1>4. CountsOK'
  <2>1. \A x \in handed : x \in Entry /\ x.index \in 1 .. appends' + skips'
    BY <1>1, <1>3 DEF CountsOK
  <2> QED BY <1>1, <1>2, <1>3, <2>1 DEF CountsOK
<1>5. DiskOK' /\ RecordsOK' /\ SlotsOK'
  BY <1>1, <1>3, DiskStays
<1>6. MemoryOK'
  <2>1. cleanUpTo' \in Index
    BY DEF Refuse, Skip, StartFails, Truncate, Commit, Clean, memory, MemoryOK
  <2>2. ASSUME \E i \in Index : Truncate(i)
        PROVE  \A j \in DOMAIN buffer' :
                 j \in Index /\ buffer'[j] \in returned' /\ buffer'[j].index = j
    <3>1. PICK i \in Index :
            /\ buffer' = [j \in {j \in DOMAIN buffer : j < i} |-> buffer[j]]
            /\ returned' = {e \in returned : e.index < i}
      BY <2>2 DEF Truncate, Restrict
    <3>2. \A j \in DOMAIN buffer' : j \in DOMAIN buffer /\ j < i /\ buffer'[j] = buffer[j]
      BY <3>1
    <3>3. \A j \in DOMAIN buffer : j \in Index /\ buffer[j] \in returned /\ buffer[j].index = j
      BY DEF MemoryOK
    <3> QED BY <3>1, <3>2, <3>3
  <2>3. ASSUME ~ \E i \in Index : Truncate(i)
        PROVE  \A j \in DOMAIN buffer' :
                 j \in Index /\ buffer'[j] \in returned' /\ buffer'[j].index = j
    <3>1. returned' = returned
      BY <2>3 DEF Refuse, Skip, StartFails, Commit, Clean, history
    <3>2. buffer' = buffer \/ \E S \in SUBSET DOMAIN buffer : buffer' = [i \in S |-> buffer[i]]
      BY <2>3 DEF Refuse, Skip, StartFails, Commit, Clean, memory, Restrict
    <3>3. \A j \in DOMAIN buffer : j \in Index /\ buffer[j] \in returned /\ buffer[j].index = j
      BY DEF MemoryOK
    <3> QED BY <3>1, <3>2, <3>3
  <2>5. \A j \in DOMAIN buffer' : j \in Index /\ buffer'[j] \in returned' /\ buffer'[j].index = j
    BY <2>2, <2>3
  <2>4. call' \in {Idle} \cup Calling
    BY <1>2 DEF MemoryOK
  <2> QED BY <1>1, <1>3, <2>1, <2>5, <2>4 DEF MemoryOK
<1>7. SegmentsOK'
  BY <1>1, <1>2, SegmentsStay DEF Idle
<1>8. CallOK'
  <2>1. call' = Idle => call'.at = "idle"
    BY DEF Idle
  <2>2. CASE call' = Idle
    BY <2>1, <2>2 DEF CallOK
  <2>3. CASE call' = call
    BY <1>1, <1>2, <2>3 DEF CallOK, Ready
  <2> QED BY <1>2, <2>2, <2>3
<1> QED BY <1>4, <1>5, <1>6, <1>7, <1>8

\* The caller gets an index that it has been handed.
LEMMA BufferSound ==
  ASSUME Sound, BufferEntry
  PROVE  Sound'
<1> USE DEF Sound
<1>1. /\ call.at \in {"buffer", "roll"} /\ call' = Idle
      /\ buffer' = With(buffer, call.entry.index, call.entry)
      /\ returned' = returned \cup {call.entry}
      /\ UNCHANGED <<files, indexFiles, disk, segments, current, generator, cleanUpTo, process,
                     appends, skips, handed, gap, renumbered>>
  BY DEF BufferEntry, disk, bounds
<1>2. call.entry \in handed /\ call.entry \in Entry /\ call.entry.index \in Index
  BY <1>1 DEF CallOK, CountsOK, Entry
<1>3. CountsOK'
  BY <1>1, <1>2 DEF CountsOK
<1>4. DiskOK' /\ RecordsOK' /\ SlotsOK'
  BY <1>1, DiskStays DEF CountsOK
<1>5. MemoryOK'
  <2>1. \A i \in DOMAIN buffer' : i \in Index /\ buffer'[i] \in returned' /\ buffer'[i].index = i
    BY <1>1, <1>2 DEF MemoryOK, With
  <2> QED BY <1>1, <2>1 DEF MemoryOK
<1>6. SegmentsOK'
  BY <1>1, SegmentsStay DEF Idle
<1>7. CallOK'
  BY <1>1 DEF CallOK, Idle
<1> QED BY <1>3, <1>4, <1>5, <1>6, <1>7

\* A map with an entry more.
LEMMA WithFacts ==
  ASSUME NEW map, NEW key, NEW value
  PROVE  /\ DOMAIN With(map, key, value) = DOMAIN map \cup {key}
         /\ With(map, key, value)[key] = value
         /\ \A k \in DOMAIN map : k # key => With(map, key, value)[k] = map[k]
  BY DEF With

\* What Write does: one record of one file, and the position after it.
LEMMA WriteEffect ==
  ASSUME Sound, Write
  PROVE  LET w == segments[current].write
         IN /\ Writable /\ call.at = "write" /\ call'.at = "index" /\ call'.entry = call.entry
            /\ call' \in Calling /\ call.entry \in handed /\ call.entry \in Entry
            /\ w \in 0 .. Len(files[current])
            /\ files' \in [DOMAIN files -> Seq(Record)] /\ segments' \in [DOMAIN files -> Segment]
            /\ \A b \in DOMAIN files : b # current =>
                 files'[b] = files[b] /\ segments'[b] = segments[b]
            /\ Len(files'[current]) = IF w < Len(files[current]) THEN Len(files[current]) ELSE w + 1
            /\ \A j \in 1 .. Len(files'[current]) :
                 files'[current][j] = IF j = w + 1 THEN call.entry ELSE files[current][j]
            /\ segments'[current] = [segments[current] EXCEPT !.write = w + 1]
            /\ UNCHANGED <<indexFiles, current, generator, buffer, cleanUpTo, process, appends,
                           skips, returned, handed, gap, renumbered>>
<1> USE DEF Sound
<1> DEFINE w == segments[current].write
           f == files[current]
<1>1. /\ call.at = "write" /\ segments[current].mode = "rw" /\ call' = [call EXCEPT !.at = "index"]
      /\ files' = [files EXCEPT ![current] = Put(f, w, call.entry)]
      /\ segments' = [segments EXCEPT ![current] = [segments[current] EXCEPT !.write = w + 1]]
      /\ UNCHANGED <<indexFiles, current, generator, buffer, cleanUpTo, process, appends,
                     skips, returned, handed, gap, renumbered>>
  BY DEF Write, bounds, history
<1>2. Writable /\ call.entry \in handed /\ call \in Calling
  BY <1>1, CallTypes DEF CallOK, Writable
<1>3. call.entry \in Entry /\ current \in DOMAIN files /\ segments[current] \in Segment
      /\ f \in Seq(Record)
  BY <1>2 DEF CountsOK, MemoryOK, DiskOK
<1>4. w \in 0 .. Len(f)
  BY <1>2, <1>3 DEF SegmentsOK, WriteOK, Segment
<1>5. /\ Put(f, w, call.entry) \in Seq(Record)
      /\ Len(Put(f, w, call.entry)) = IF w < Len(f) THEN Len(f) ELSE w + 1
      /\ \A j \in 1 .. Len(Put(f, w, call.entry)) :
           Put(f, w, call.entry)[j] = IF j = w + 1 THEN call.entry ELSE f[j]
  <2>1. call.entry \in Record
    BY <1>3 DEF Record
  <2> HIDE DEF f, w
  <2> QED BY <1>3, <1>4, <2>1, PutFacts
<1>6. [segments[current] EXCEPT !.write = w + 1] \in Segment
  BY <1>3, <1>4 DEF Segment
<1>7. files' \in [DOMAIN files -> Seq(Record)] /\ files'[current] = Put(f, w, call.entry)
      /\ \A b \in DOMAIN files : b # current => files'[b] = files[b]
  BY <1>1, <1>3, <1>5 DEF DiskOK
<1>8. /\ segments' \in [DOMAIN files -> Segment]
      /\ segments'[current] = [segments[current] EXCEPT !.write = w + 1]
      /\ \A b \in DOMAIN files : b # current => segments'[b] = segments[b]
  BY <1>1, <1>3, <1>6 DEF MemoryOK
<1>9. call'.at = "index" /\ call'.entry = call.entry /\ call' \in Calling
  BY <1>1, <1>2 DEF Calling
<1> QED BY <1>1, <1>2, <1>3, <1>4, <1>5, <1>7, <1>8, <1>9

LEMMA WriteSound ==
  ASSUME Sound, Write
  PROVE  Sound'
<1> USE DEF Sound
<1> DEFINE w == segments[current].write
           n == segments[current].entries
<1>1. /\ Writable /\ call.at = "write" /\ call'.at = "index" /\ call'.entry = call.entry
      /\ call' \in Calling /\ call.entry \in handed /\ call.entry \in Entry
      /\ w \in 0 .. Len(files[current])
      /\ files' \in [DOMAIN files -> Seq(Record)] /\ segments' \in [DOMAIN files -> Segment]
      /\ \A b \in DOMAIN files : b # current =>
           files'[b] = files[b] /\ segments'[b] = segments[b]
      /\ Len(files'[current]) = IF w < Len(files[current]) THEN Len(files[current]) ELSE w + 1
      /\ \A j \in 1 .. Len(files'[current]) :
           files'[current][j] = IF j = w + 1 THEN call.entry ELSE files[current][j]
      /\ segments'[current] = [segments[current] EXCEPT !.write = w + 1]
      /\ UNCHANGED <<indexFiles, current, generator, buffer, cleanUpTo, process, appends,
                     skips, returned, handed, gap, renumbered>>
  BY WriteEffect
<1>2. current \in DOMAIN files /\ segments[current] \in Segment /\ files[current] \in Seq(Record)
      /\ WriteOK /\ DOMAIN files' = DOMAIN files
  BY <1>1 DEF MemoryOK, DiskOK, SegmentsOK
<1>3. segments'[current].write = w + 1 /\ segments'[current].entries = n
      /\ segments'[current].mode = segments[current].mode
      /\ segments'[current].opened = segments[current].opened
  BY <1>1, <1>2 DEF Segment
<1>4. w \in Nat /\ n \in 0 .. MaxSegmentEntries /\ MaxSegmentEntries \in Nat
      /\ Len(files[current]) \in Nat
      /\ (w = n \/ (n = MaxSegmentEntries /\ w > MaxSegmentEntries))
  BY <1>1, <1>2, Bounds DEF WriteOK, Segment
<1>5. CountsOK' /\ DiskOK' /\ MemoryOK'
  BY <1>1, <1>2 DEF CountsOK, DiskOK, MemoryOK
<1>6. RecordsOK'
  <2> SUFFICES ASSUME NEW b \in DOMAIN files, NEW k \in 1 .. Len(files'[b])
               PROVE  files'[b][k] \in handed \cup {Torn}
    BY <1>1, <1>2 DEF RecordsOK, Cells
  <2>1. CASE b # current
    BY <1>1, <2>1 DEF RecordsOK, Cells
  <2>2. CASE b = current /\ k = w + 1
    BY <1>1, <2>2
  <2>3. CASE b = current /\ k # w + 1
    <3>1. k \in Cells(b)
      BY <1>1, <1>4, <2>3 DEF Cells
    <3> QED BY <1>1, <2>3, <3>1 DEF RecordsOK
  <2> QED BY <2>1, <2>2, <2>3
<1>7. SlotsOK'
  <2> SUFFICES ASSUME NEW b \in DOMAIN files, NEW k \in Slots, indexFiles[b][k] # Blank
               PROVE  Tells(b, k)'
    BY <1>1, <1>2 DEF SlotsOK
  <2>1. Tells(b, k)
    BY DEF SlotsOK
  <2>2. CASE b # current
    BY <1>1, <2>1, <2>2 DEF Tells, Cells
  <2>3. CASE b = current
    <3>1. k <= n
      BY <1>2, <1>4, <2>3 DEF WriteOK, Slots
    <3>2. k # w + 1 /\ k \in 1 .. Len(files[current]) /\ k \in 1 .. Len(files'[current])
      BY <1>1, <1>4, <2>1, <2>3, <3>1 DEF Tells, Cells, Slots
    <3>3. files'[current][k] = files[current][k]
      BY <1>1, <3>2
    <3> QED BY <1>1, <2>1, <2>3, <3>2, <3>3 DEF Tells, Cells
  <2> QED BY <2>2, <2>3
<1>8. SegmentsOK'
  <2>1. WriteOK'
    <3>1. w + 1 <= Len(files'[current])
      BY <1>1, <1>4
    <3>2. w + 1 = n + 1 \/ (n = MaxSegmentEntries /\ w + 1 > MaxSegmentEntries)
      BY <1>4
    <3>3. \A k \in Slots : k > n => indexFiles[current][k] = Blank
      BY <1>2 DEF WriteOK
    <3> HIDE DEF w, n
    <3> QED BY <1>1, <1>3, <3>1, <3>2, <3>3 DEF WriteOK
  <2>2. \A b \in DOMAIN files : segments'[b].opened =>
          segments'[b].entries = MaxSegmentEntries /\ segments'[b].mode # "rw"
    BY <1>1, <1>3 DEF SegmentsOK
  <2> QED BY <1>2, <2>1, <2>2 DEF SegmentsOK
<1>9. CallOK'
  <2>1. w + 1 \in 1 .. Len(files'[current])
    BY <1>1, <1>4
  <2>2. files'[current][w + 1] = call.entry /\ w + 1 >= 1
    BY <1>1, <1>4, <2>1
  <2> QED BY <1>1, <1>3, <2>2 DEF CallOK, Writable
<1> QED BY <1>5, <1>6, <1>7, <1>8, <1>9

\* What IndexEntry does while there is room: one slot, and one entry more.
LEMMA IndexEffect ==
  ASSUME Sound, IndexEntry, segments[current].entries # MaxSegmentEntries
  PROVE  LET n == segments[current].entries + 1
         IN /\ n \in Slots /\ n = segments[current].write /\ n \in Cells(current)
            /\ files[current][n] = call.entry /\ call.entry # Torn
            /\ call.at = "index" /\ call'.at = "roll"
            /\ call'.entry = call.entry /\ call' \in Calling
            /\ indexFiles' \in [DOMAIN files -> [Slots -> Slot]]
            /\ segments' \in [DOMAIN files -> Segment]
            /\ \A b \in DOMAIN files : b # current =>
                 indexFiles'[b] = indexFiles[b] /\ segments'[b] = segments[b]
            /\ \A k \in Slots : k # n => indexFiles'[current][k] = indexFiles[current][k]
            /\ indexFiles'[current][n] = [index |-> call.entry.index, position |-> n - 1]
            /\ segments'[current] = [segments[current] EXCEPT !.entries = n]
            /\ UNCHANGED <<files, current, generator, buffer, cleanUpTo, process, appends,
                           skips, returned, handed, gap, renumbered>>
<1> USE DEF Sound
<1> DEFINE n == segments[current].entries + 1
           slot == [index |-> call.entry.index, position |-> n - 1]
<1>1. call.at = "index" /\ call \in Calling
      /\ call.entry \in Entry /\ call.entry.index \in Nat \ {0}
  <2>1. call.at = "index"
    BY DEF IndexEntry
  <2>2. call.entry \in handed
    BY <2>1 DEF CallOK
  <2>3. call.entry.index \in 1 .. appends + skips
    BY <2>2 DEF CountsOK
  <2> QED BY <2>1, <2>3, CallTypes
<1>2. Writable /\ current \in DOMAIN files /\ segments[current] \in Segment
      /\ indexFiles[current] \in [Slots -> Slot] /\ files[current] \in Seq(Record)
  BY <1>1 DEF CallOK, Writable, MemoryOK, DiskOK
<1>3. n \in Slots /\ n = segments[current].write /\ n \in Cells(current)
  <2>1. segments[current].entries \in 0 .. MaxSegmentEntries /\ WriteOK
    BY <1>2 DEF Segment, SegmentsOK
  <2> QED BY <1>1, <1>2, <2>1, Bounds DEF WriteOK, Cells, Slots
<1>4. files[current][n] = call.entry /\ call.entry # Torn
  BY <1>1, <1>3 DEF CallOK, Torn
<1>5. /\ indexFiles' = [indexFiles EXCEPT ![current] = [indexFiles[current] EXCEPT ![n] = slot]]
      /\ segments' = [segments EXCEPT ![current] = [segments[current] EXCEPT !.entries = n]]
      /\ call' = [call EXCEPT !.at = "roll"]
      /\ UNCHANGED <<files, current, generator, buffer, cleanUpTo, process, appends,
                     skips, returned, handed, gap, renumbered>>
  BY <1>3 DEF IndexEntry, bounds, history
<1>6. slot \in Slot /\ [indexFiles[current] EXCEPT ![n] = slot] \in [Slots -> Slot]
  <2>1. slot \in Slot
    BY <1>1, <1>3 DEF Slot, Entry, Slots
  <2> HIDE DEF slot, n
  <2> QED BY <1>2, <2>1
<1>7. [segments[current] EXCEPT !.entries = n] \in Segment
  BY <1>2, <1>3, Bounds DEF Segment, Slots
<1>8. /\ indexFiles' \in [DOMAIN files -> [Slots -> Slot]]
      /\ indexFiles'[current] = [indexFiles[current] EXCEPT ![n] = slot]
      /\ \A b \in DOMAIN files : b # current => indexFiles'[b] = indexFiles[b]
  <2> HIDE DEF slot, n
  <2> QED BY <1>2, <1>5, <1>6 DEF DiskOK
<1>9. /\ segments' \in [DOMAIN files -> Segment]
      /\ segments'[current] = [segments[current] EXCEPT !.entries = n]
      /\ \A b \in DOMAIN files : b # current => segments'[b] = segments[b]
  BY <1>2, <1>5, <1>7 DEF MemoryOK
<1>10. /\ indexFiles'[current][n] = slot
       /\ \A k \in Slots : k # n => indexFiles'[current][k] = indexFiles[current][k]
  <2> HIDE DEF slot, n
  <2> QED BY <1>2, <1>3, <1>8
<1>11. call'.at = "roll" /\ call'.entry = call.entry /\ call' \in Calling
  BY <1>1, <1>5 DEF Calling
<1> QED BY <1>1, <1>3, <1>4, <1>5, <1>8, <1>9, <1>10, <1>11

LEMMA IndexSound ==
  ASSUME Sound, IndexEntry
  PROVE  Sound'
<1> USE DEF Sound
<1>1. CASE segments[current].entries = MaxSegmentEntries
  <2>1. /\ call.at = "index" /\ call' = Idle
        /\ UNCHANGED <<disk, files, indexFiles, segments, current, generator, buffer, cleanUpTo,
                       process, appends, skips, returned, handed, gap, renumbered>>
    BY <1>1 DEF IndexEntry, bounds, history, disk
  <2>2. CountsOK' /\ DiskOK' /\ MemoryOK' /\ RecordsOK' /\ SlotsOK'
    BY <2>1, DiskStays DEF CountsOK, MemoryOK
  <2>3. SegmentsOK'
    <3>1. ASSUME Writable' PROVE WriteOK'
      <4>1. WriteOK /\ segments[current] \in Segment
        BY <2>1, <3>1 DEF SegmentsOK, Writable, MemoryOK
      <4>2. segments[current].write > MaxSegmentEntries
        BY <1>1, <2>1, <4>1, Bounds DEF WriteOK, Segment
      <4> QED BY <1>1, <2>1, <4>1, <4>2 DEF WriteOK
    <3> QED BY <2>1, <3>1 DEF SegmentsOK
  <2>4. CallOK'
    BY <2>1 DEF CallOK, Idle
  <2> QED BY <2>2, <2>3, <2>4
<1>2. CASE segments[current].entries # MaxSegmentEntries
  <2> DEFINE n == segments[current].entries + 1
  <2>1. /\ n \in Slots /\ n = segments[current].write /\ n \in Cells(current)
        /\ files[current][n] = call.entry /\ call.entry # Torn
        /\ call.at = "index" /\ call'.at = "roll" /\ call'.entry = call.entry /\ call' \in Calling
        /\ indexFiles' \in [DOMAIN files -> [Slots -> Slot]]
        /\ segments' \in [DOMAIN files -> Segment]
        /\ \A b \in DOMAIN files : b # current =>
             indexFiles'[b] = indexFiles[b] /\ segments'[b] = segments[b]
        /\ \A k \in Slots : k # n => indexFiles'[current][k] = indexFiles[current][k]
        /\ indexFiles'[current][n] = [index |-> call.entry.index, position |-> n - 1]
        /\ segments'[current] = [segments[current] EXCEPT !.entries = n]
        /\ UNCHANGED <<files, current, generator, buffer, cleanUpTo, process, appends,
                       skips, returned, handed, gap, renumbered>>
    BY <1>2, IndexEffect
  <2>2. current \in DOMAIN files /\ segments[current] \in Segment
        /\ segments[current].mode = "rw" /\ process = "up"
    BY <2>1 DEF MemoryOK, CallOK
  <2>3. WriteOK /\ ~segments[current].opened
    BY <2>2 DEF SegmentsOK, Writable
  <2>4. /\ segments'[current].entries = n /\ segments'[current].write = n
        /\ segments'[current].mode = "rw" /\ ~segments'[current].opened
    BY <2>1, <2>2, <2>3 DEF Segment
  <2>5. indexFiles'[current][n] # Blank
    <3>1. call.entry.index \in 1 .. appends + skips
      BY <2>1 DEF CallOK, CountsOK
    <3> QED BY <2>1, <3>1 DEF Blank
  <2> HIDE DEF n
  <2>6. CountsOK' /\ DiskOK' /\ MemoryOK' /\ RecordsOK'
    BY <2>1 DEF CountsOK, DiskOK, MemoryOK, RecordsOK, Cells
  <2>7. SlotsOK'
    <3> SUFFICES ASSUME NEW b \in DOMAIN files, NEW k \in Slots, indexFiles'[b][k] # Blank
                 PROVE  Tells(b, k)'
      BY <2>1 DEF SlotsOK
    <3>1. CASE b = current /\ k = n
      BY <2>1, <3>1 DEF Tells, Cells
    <3>2. CASE ~ (b = current /\ k = n)
      <4>1. indexFiles'[b][k] = indexFiles[b][k]
        BY <2>1, <3>2
      <4> QED BY <2>1, <4>1 DEF SlotsOK, Tells, Cells
    <3> QED BY <3>1, <3>2
  <2>8. SegmentsOK'
    <3>1. WriteOK'
      <4>1. n <= Len(files[current]) /\ n = n + 0
        BY <2>1 DEF Cells, Slots
      <4>2. \A k \in Slots : k > n => indexFiles'[current][k] = Blank
        <5>1. segments[current].entries \in Nat /\ n = segments[current].entries + 1
          BY <2>2 DEF Segment, n
        <5>2. \A k \in Slots : k > n => k > segments[current].entries /\ k # n
          BY <5>1 DEF Slots
        <5> QED BY <2>1, <2>3, <5>2 DEF WriteOK
      <4> QED BY <2>1, <2>4, <4>1, <4>2 DEF WriteOK
    <3>2. \A b \in DOMAIN files : segments'[b].opened =>
            segments'[b].entries = MaxSegmentEntries /\ segments'[b].mode # "rw"
      BY <2>1, <2>4 DEF SegmentsOK
    <3> QED BY <2>1, <3>1, <3>2 DEF SegmentsOK
  <2>9. CallOK'
    <3>1. n >= 1
      BY <2>1 DEF Slots
    <3> QED BY <2>1, <2>2, <2>4, <2>5, <3>1 DEF CallOK
  <2> QED BY <2>6, <2>7, <2>8, <2>9
<1> QED BY <1>1, <1>2

\* What Roll does: the segment after the entry, with a blank index, perhaps
\* on a file that is there.
LEMMA RollEffect ==
  ASSUME Sound, Roll
  PROVE  LET b == NextBase(call.entry)
         IN /\ call.at = "roll" /\ call'.at = "buffer"
            /\ call'.entry = call.entry /\ call' \in Calling
            /\ b = generator + 1 /\ b \in Base /\ b <= appends + skips + 1
            /\ DOMAIN files' = DOMAIN files \cup {b}
            /\ files' \in [DOMAIN files' -> Seq(Record)]
            /\ indexFiles' \in [DOMAIN files' -> [Slots -> Slot]]
            /\ segments' \in [DOMAIN files' -> Segment]
            /\ \A c \in DOMAIN files : files'[c] = files[c]
            /\ b \notin DOMAIN files => files'[b] = <<>>
            /\ \A c \in DOMAIN files : c # b => indexFiles'[c] = indexFiles[c]
            /\ indexFiles'[b] = BlankIndex /\ segments'[b] = OpenSegment /\ current' = b
            /\ \A c \in DOMAIN files : c # b => segments'[c].opened = segments[c].opened
                 /\ segments'[c].entries = segments[c].entries
                 /\ (segments'[c].mode = segments[c].mode \/ segments'[c].mode = "closed")
            /\ UNCHANGED <<generator, buffer, cleanUpTo, process, appends,
                           skips, returned, handed, gap, renumbered>>
<1> USE DEF Sound
<1> DEFINE b == NextBase(call.entry)
           closed == [segments EXCEPT ![current] = [segments[current] EXCEPT !.mode = "closed"]]
<1>1. /\ call.at = "roll" /\ call' = [call EXCEPT !.at = "buffer"]
      /\ files' = IF b \in DOMAIN files THEN files ELSE With(files, b, <<>>)
      /\ indexFiles' = With(indexFiles, b, BlankIndex)
      /\ segments' = With(closed, b, OpenSegment) /\ current' = b
      /\ UNCHANGED <<generator, buffer, cleanUpTo, process, appends,
                     skips, returned, handed, gap, renumbered>>
  BY DEF Roll, bounds, history
<1>2. call \in Calling /\ call.entry \in handed /\ call.entry.index = generator
  BY <1>1, CallTypes DEF CallOK
<1>3. call'.at = "buffer" /\ call'.entry = call.entry /\ call' \in Calling
  BY <1>1, <1>2 DEF Calling
<1>4. b = generator + 1 /\ b \in Base /\ b <= appends + skips + 1
  BY <1>2, Bounds DEF NextBase, MemoryOK, CountsOK, Base
<1>5. BlankIndex \in [Slots -> Slot] /\ OpenSegment \in Segment /\ <<>> \in Seq(Record)
  BY Bounds DEF BlankIndex, Blank, Slots, Slot, Index, OpenSegment, Segment
<1>6. /\ closed \in [DOMAIN files -> Segment]
      /\ \A c \in DOMAIN files : closed[c].opened = segments[c].opened
           /\ closed[c].entries = segments[c].entries
           /\ (closed[c].mode = segments[c].mode \/ closed[c].mode = "closed")
  <2>1. [segments[current] EXCEPT !.mode = "closed"] \in Segment
    BY DEF MemoryOK, Segment
  <2>2. segments \in [DOMAIN files -> Segment] /\ current \in DOMAIN files
    BY DEF MemoryOK
  <2>3. \A c \in DOMAIN files : closed[c] =
          IF c = current THEN [segments[current] EXCEPT !.mode = "closed"] ELSE segments[c]
    BY <2>2
  <2> QED BY <2>1, <2>2, <2>3 DEF Segment
<1> HIDE DEF closed, b
<1>7. /\ DOMAIN files' = DOMAIN files \cup {b} /\ files' \in [DOMAIN files' -> Seq(Record)]
      /\ \A c \in DOMAIN files : files'[c] = files[c]
      /\ b \notin DOMAIN files => files'[b] = <<>>
  <2>1. CASE b \in DOMAIN files
    BY <1>1, <2>1 DEF DiskOK
  <2>2. CASE b \notin DOMAIN files
    BY <1>1, <1>5, <2>2 DEF DiskOK, With
  <2> QED BY <2>1, <2>2
<1>8. /\ indexFiles' \in [DOMAIN files' -> [Slots -> Slot]]
      /\ \A c \in DOMAIN files : c # b => indexFiles'[c] = indexFiles[c]
      /\ indexFiles'[b] = BlankIndex
  BY <1>1, <1>5, <1>7 DEF DiskOK, With
<1>9. /\ segments' \in [DOMAIN files' -> Segment] /\ segments'[b] = OpenSegment
      /\ \A c \in DOMAIN files : c # b => segments'[c] = closed[c]
  BY <1>1, <1>5, <1>6, <1>7 DEF With
<1> QED BY <1>1, <1>3, <1>4, <1>6, <1>7, <1>8, <1>9 DEF b

LEMMA RollSound ==
  ASSUME Sound, Roll
  PROVE  Sound'
<1> USE DEF Sound
<1> DEFINE b == NextBase(call.entry)
<1>1. /\ call.at = "roll" /\ call'.at = "buffer" /\ call'.entry = call.entry /\ call' \in Calling
      /\ b = generator + 1 /\ b \in Base /\ b <= appends + skips + 1
      /\ DOMAIN files' = DOMAIN files \cup {b}
      /\ files' \in [DOMAIN files' -> Seq(Record)]
      /\ indexFiles' \in [DOMAIN files' -> [Slots -> Slot]]
      /\ segments' \in [DOMAIN files' -> Segment]
      /\ \A c \in DOMAIN files : files'[c] = files[c]
      /\ b \notin DOMAIN files => files'[b] = <<>>
      /\ \A c \in DOMAIN files : c # b => indexFiles'[c] = indexFiles[c]
      /\ indexFiles'[b] = BlankIndex /\ segments'[b] = OpenSegment /\ current' = b
      /\ \A c \in DOMAIN files : c # b => segments'[c].opened = segments[c].opened
           /\ segments'[c].entries = segments[c].entries
           /\ (segments'[c].mode = segments[c].mode \/ segments'[c].mode = "closed")
      /\ UNCHANGED <<generator, buffer, cleanUpTo, process, appends,
                     skips, returned, handed, gap, renumbered>>
  BY RollEffect
<1> HIDE DEF b
<1>2. \A k \in Slots : indexFiles'[b][k] = Blank
  BY <1>1 DEF BlankIndex, Slots
<1>3. CountsOK'
  BY <1>1 DEF CountsOK
<1>4. DiskOK'
  BY <1>1 DEF DiskOK
<1>5. MemoryOK'
  BY <1>1 DEF MemoryOK
<1>6. RecordsOK'
  <2>1. \A k \in 1 .. Len(<<>>) : FALSE
    OBVIOUS
  <2> QED BY <1>1, <2>1 DEF RecordsOK, Cells
<1>7. SlotsOK'
  BY <1>1, <1>2 DEF SlotsOK, Tells, Cells
<1>8. SegmentsOK'
  <2>1. /\ ~segments'[b].opened /\ segments'[b].write = 0 /\ segments'[b].entries = 0
    BY <1>1 DEF OpenSegment
  <2>2. files'[b] \in Seq(Record)
    BY <1>1
  <2>3. WriteOK'
    BY <1>1, <1>2, <2>1, <2>2 DEF WriteOK
  <2>4. \A c \in DOMAIN files' : segments'[c].opened =>
          segments'[c].entries = MaxSegmentEntries /\ segments'[c].mode # "rw"
    BY <1>1, <2>1 DEF SegmentsOK
  <2> QED BY <2>3, <2>4 DEF SegmentsOK
<1>9. CallOK'
  BY <1>1 DEF CallOK
<1> QED BY <1>3, <1>4, <1>5, <1>6, <1>7, <1>8, <1>9

\* A record cut off at the end of a file.
LEMMA TornAtEnd ==
  ASSUME NEW f \in Seq(Record)
  PROVE  /\ f \o <<Torn>> \in Seq(Record) /\ Len(f \o <<Torn>>) = Len(f) + 1
         /\ \A k \in 1 .. Len(f) : (f \o <<Torn>>)[k] = f[k]
         /\ \A k \in 1 .. Len(f) + 1 : k > Len(f) => (f \o <<Torn>>)[k] = Torn
<1>1. Torn \in Record
  BY DEF Record
<1> QED BY <1>1

\* What Crash does: the memory is as good as gone, and perhaps the last file
\* has the start of a record more.
LEMMA CrashEffect ==
  ASSUME Sound, Crash
  PROVE  /\ process = "up" /\ process' = "down" /\ call' = Idle
         /\ files' \in [DOMAIN files -> Seq(Record)]
         /\ \/ files' = files
            \/ /\ call.at = "write" /\ Writable
               /\ segments[current].write = Len(files[current])
               /\ files'[current] = files[current] \o <<Torn>>
               /\ \A b \in DOMAIN files : b # current => files'[b] = files[b]
         /\ UNCHANGED <<indexFiles, segments, current, generator, buffer, cleanUpTo, appends,
                        skips, returned, handed, gap, renumbered>>
<1> USE DEF Sound
<1>1. /\ process = "up" /\ process' = "down" /\ call' = Idle
      /\ \/ files' = files
         \/ /\ call.at = "write" /\ segments[current].mode = "rw"
            /\ segments[current].write = Len(files[current])
            /\ files' = [files EXCEPT ![current] = files[current] \o <<Torn>>]
      /\ UNCHANGED <<indexFiles, segments, current, generator, buffer, cleanUpTo, appends,
                     skips, returned, handed, gap, renumbered>>
  BY DEF Crash, history
<1>2. current \in DOMAIN files /\ files \in [DOMAIN files -> Seq(Record)]
  BY DEF MemoryOK, DiskOK
<1>3. files[current] \o <<Torn>> \in Seq(Record)
  <2>1. files[current] \in Seq(Record) /\ Torn \in Record
    BY <1>2 DEF Record
  <2> QED BY <2>1
<1> QED BY <1>1, <1>2, <1>3 DEF Writable

LEMMA CrashSound ==
  ASSUME Sound, Crash
  PROVE  Sound'
<1> USE DEF Sound
<1>1. /\ process = "up" /\ process' = "down" /\ call' = Idle
      /\ files' \in [DOMAIN files -> Seq(Record)]
      /\ \/ files' = files
         \/ /\ files'[current] = files[current] \o <<Torn>>
            /\ \A b \in DOMAIN files : b # current => files'[b] = files[b]
      /\ UNCHANGED <<indexFiles, segments, current, generator, buffer, cleanUpTo, appends,
                     skips, returned, handed, gap, renumbered>>
  BY CrashEffect
<1>2. \A b \in DOMAIN files :
        /\ Len(files[b]) \in Nat /\ Len(files'[b]) \in Nat /\ Len(files[b]) <= Len(files'[b])
        /\ \A k \in 1 .. Len(files[b]) : files'[b][k] = files[b][k]
        /\ \A k \in 1 .. Len(files'[b]) : k > Len(files[b]) => files'[b][k] = Torn
  <2> SUFFICES ASSUME NEW b \in DOMAIN files
               PROVE  /\ Len(files[b]) \in Nat /\ Len(files'[b]) \in Nat
                      /\ Len(files[b]) <= Len(files'[b])
                      /\ \A k \in 1 .. Len(files[b]) : files'[b][k] = files[b][k]
                      /\ \A k \in 1 .. Len(files'[b]) : k > Len(files[b]) => files'[b][k] = Torn
    OBVIOUS
  <2>1. files[b] \in Seq(Record)
    BY DEF DiskOK
  <2>2. files'[b] = files[b] \/ files'[b] = files[b] \o <<Torn>>
    BY <1>1
  <2>3. CASE files'[b] = files[b]
    BY <2>1, <2>3
  <2>4. CASE files'[b] = files[b] \o <<Torn>>
    BY <2>1, <2>4, TornAtEnd
  <2> QED BY <2>2, <2>3, <2>4
<1>3. DOMAIN files' = DOMAIN files
  BY <1>1
<1>4. CountsOK' /\ DiskOK'
  BY <1>1, <1>3 DEF CountsOK, DiskOK
<1>5. MemoryOK'
  BY <1>1, <1>3 DEF MemoryOK
<1>6. RecordsOK'
  <2> SUFFICES ASSUME NEW b \in DOMAIN files, NEW k \in 1 .. Len(files'[b])
               PROVE  files'[b][k] \in handed \cup {Torn}
    BY <1>1, <1>3 DEF RecordsOK, Cells
  <2>1. CASE k > Len(files[b])
    BY <1>2, <2>1
  <2>2. CASE k <= Len(files[b])
    <3>1. k \in 1 .. Len(files[b]) /\ files'[b][k] = files[b][k]
      BY <1>2, <2>2
    <3> QED BY <3>1 DEF RecordsOK, Cells
  <2> QED BY <1>2, <2>1, <2>2
<1>9. SlotsOK'
  <2> SUFFICES ASSUME NEW b \in DOMAIN files, NEW k \in Slots, indexFiles[b][k] # Blank
               PROVE  Tells(b, k)'
    BY <1>1, <1>3 DEF SlotsOK
  <2>1. Tells(b, k)
    BY DEF SlotsOK
  <2>2. k \in 1 .. Len(files'[b]) /\ files'[b][k] = files[b][k]
    BY <1>2, <2>1 DEF Tells, Cells
  <2> QED BY <1>1, <2>1, <2>2 DEF Tells, Cells
<1>7. SegmentsOK'
  BY <1>1, <1>3 DEF SegmentsOK, Writable
<1>8. CallOK'
  BY <1>1 DEF CallOK, Idle
<1> QED BY <1>4, <1>5, <1>6, <1>7, <1>8, <1>9

\* Segments before anything is read from them or appended.
LEMMA SegmentTypes ==
  /\ NewSegment \in Segment /\ NewSegment.opened = FALSE
  /\ \A n \in 0 .. MaxSegmentEntries :
       LET s == [OpenSegment EXCEPT !.entries = n, !.write = n]
       IN s \in Segment /\ s.mode = "rw" /\ s.opened = FALSE /\ s.entries = n /\ s.write = n
<1>1. OpenSegment \in Segment /\ OpenSegment.opened = FALSE /\ OpenSegment.mode = "rw"
  BY Bounds DEF OpenSegment, Segment
<1>2. NewSegment \in Segment /\ NewSegment.opened = FALSE
  BY <1>1 DEF NewSegment, Segment
<1>3. ASSUME NEW n \in 0 .. MaxSegmentEntries
      PROVE  LET s == [OpenSegment EXCEPT !.entries = n, !.write = n]
             IN s \in Segment /\ s.mode = "rw" /\ s.opened = FALSE /\ s.entries = n /\ s.write = n
  <2>1. n \in Nat
    BY Bounds
  <2> QED BY <1>1, <2>1 DEF Segment
<1> QED BY <1>2, <1>3

\* What Start does: the last segment is the current one, its index is made
\* anew, and the generator goes on after it.
LEMMA StartEffect ==
  ASSUME Sound, Start
  PROVE  LET last == Max(DOMAIN files)
         IN /\ last \in DOMAIN files /\ \A b \in DOMAIN files : b <= last
            /\ files[last] \in Seq(Record) /\ Len(files[last]) <= MaxSegmentEntries
            /\ \A k \in Cells(last) : files[last][k] \in handed
            /\ process = "down" /\ process' = "up" /\ call' = Idle
            /\ indexFiles' \in [DOMAIN files -> [Slots -> Slot]]
            /\ \A b \in DOMAIN files : b # last => indexFiles'[b] = indexFiles[b]
            /\ indexFiles'[last] = Rebuilt(files[last])
            /\ segments' \in [DOMAIN files -> Segment]
            /\ \A b \in DOMAIN files : ~segments'[b].opened
            /\ segments'[last].mode = "rw" /\ segments'[last].entries = Len(files[last])
            /\ segments'[last].write = Len(files[last])
            /\ current' = last /\ buffer' = NoBuffer /\ cleanUpTo' = 0
            /\ generator' = IF Len(files[last]) = 0 THEN 0
                            ELSE files[last][Len(files[last])].index
            /\ renumbered' = (renumbered \/ (Len(files[last]) = 0 /\ last > 1))
            /\ UNCHANGED <<files, appends, skips, returned, handed, gap>>
<1> USE DEF Sound
<1> DEFINE last == Max(DOMAIN files)
           f == files[last]
           open == [OpenSegment EXCEPT !.entries = Len(f), !.write = Len(f)]
<1>1. last \in DOMAIN files /\ \A b \in DOMAIN files : b <= last
  <2>1. DOMAIN files # {}
    BY DEF MemoryOK
  <2> QED BY <2>1, BaseMax
<1>2. f \in Seq(Record)
  BY <1>1 DEF DiskOK
<1> HIDE DEF last
<1>3. /\ process = "down" /\ process' = "up" /\ call' = Idle
      /\ Startable(f) /\ indexFiles' = [indexFiles EXCEPT ![last] = Rebuilt(f)]
      /\ segments' = [b \in DOMAIN files |-> IF b # last THEN NewSegment
                        ELSE [OpenSegment EXCEPT !.entries = Len(f), !.write = Len(f)]]
      /\ current' = last /\ buffer' = NoBuffer /\ cleanUpTo' = 0
      /\ generator' = GeneratorAfter(f)
      /\ renumbered' = (renumbered \/ (f = <<>> /\ last > 1))
      /\ UNCHANGED <<files, appends, skips, returned, handed, gap>>
  BY DEF Start, LastFile, bounds, last
<1>4. Len(f) \in Nat /\ Len(f) <= MaxSegmentEntries /\ (f = <<>> <=> Len(f) = 0)
  BY <1>2, <1>3 DEF Startable
<1>5. \A k \in 1 .. Len(f) : f[k] # Torn /\ f[k] \in handed
  <2>1. \A k \in 1 .. Len(f) : f[k] \in handed \cup {Torn}
    BY <1>1 DEF RecordsOK, Cells
  <2>2. Torn \notin Range(f) /\ DOMAIN f = 1 .. Len(f)
    BY <1>2, <1>3 DEF Startable
  <2> QED BY <2>1, <2>2 DEF Range
<1>7. open \in Segment /\ open.mode = "rw" /\ open.opened = FALSE
      /\ open.entries = Len(f) /\ open.write = Len(f)
  <2>1. Len(f) \in 0 .. MaxSegmentEntries
    BY <1>4, Bounds
  <2> QED BY <2>1, SegmentTypes
<1>8. /\ segments' \in [DOMAIN files -> Segment] /\ segments'[last] = open
      /\ \A b \in DOMAIN files : ~segments'[b].opened
  <2> HIDE DEF open
  <2> QED BY <1>1, <1>3, <1>7, SegmentTypes DEF open
<1>9. Rebuilt(f) \in [Slots -> Slot]
  <2>1. \A k \in Slots : k <= Len(f) => [index |-> f[k].index, position |-> k - 1] \in Slot
    BY <1>4, <1>5 DEF CountsOK, Entry, Slots, Slot
  <2>2. Blank \in Slot
    BY Bounds DEF Blank, Slot, Index
  <2> HIDE DEF f
  <2> QED BY <2>1, <2>2 DEF Rebuilt, Slots
<1>10. /\ indexFiles' \in [DOMAIN files -> [Slots -> Slot]] /\ indexFiles'[last] = Rebuilt(f)
       /\ \A b \in DOMAIN files : b # last => indexFiles'[b] = indexFiles[b]
  <2> HIDE DEF f
  <2> QED BY <1>1, <1>3, <1>9 DEF DiskOK
<1>11. generator' = IF Len(f) = 0 THEN 0 ELSE f[Len(f)].index
  BY <1>3, <1>4 DEF GeneratorAfter
<1> QED BY <1>1, <1>2, <1>3, <1>4, <1>5, <1>7, <1>8, <1>10, <1>11 DEF Cells, last

\* The index made anew tells of every record of its file.
LEMMA RebuiltTells ==
  ASSUME NEW f, NEW k \in Slots
  PROVE  Rebuilt(f)[k] = IF k <= Len(f) THEN [index |-> f[k].index, position |-> k - 1] ELSE Blank
  BY DEF Rebuilt, Slots

LEMMA StartSound ==
  ASSUME Sound, Start
  PROVE  Sound'
<1> USE DEF Sound
<1> DEFINE last == Max(DOMAIN files)
           f == files[last]
<1>1. /\ last \in DOMAIN files /\ \A b \in DOMAIN files : b <= last
      /\ f \in Seq(Record) /\ Len(f) <= MaxSegmentEntries
      /\ \A k \in Cells(last) : f[k] \in handed
      /\ process = "down" /\ process' = "up" /\ call' = Idle
      /\ indexFiles' \in [DOMAIN files -> [Slots -> Slot]]
      /\ \A b \in DOMAIN files : b # last => indexFiles'[b] = indexFiles[b]
      /\ indexFiles'[last] = Rebuilt(f)
      /\ segments' \in [DOMAIN files -> Segment]
      /\ \A b \in DOMAIN files : ~segments'[b].opened
      /\ segments'[last].mode = "rw" /\ segments'[last].entries = Len(f)
      /\ segments'[last].write = Len(f)
      /\ current' = last /\ buffer' = NoBuffer /\ cleanUpTo' = 0
      /\ generator' = IF Len(f) = 0 THEN 0 ELSE f[Len(f)].index
      /\ renumbered' = (renumbered \/ (Len(f) = 0 /\ last > 1))
      /\ UNCHANGED <<files, appends, skips, returned, handed, gap>>
  BY StartEffect
<1> HIDE DEF last
<1>2. Len(f) \in Nat /\ \A k \in 1 .. Len(f) : f[k] \in handed /\ f[k] # Torn
      /\ f[k].index \in 1 .. appends + skips
  BY <1>1 DEF Cells, CountsOK, Torn
<1>3. \A k \in Slots : indexFiles'[last][k] =
        IF k <= Len(f) THEN [index |-> f[k].index, position |-> k - 1] ELSE Blank
  BY <1>1, RebuiltTells
<1> HIDE DEF f
<1>4. CountsOK'
  BY <1>1 DEF CountsOK
<1>5. DiskOK'
  BY <1>1 DEF DiskOK
<1>6. MemoryOK'
  <2>1. generator' \in 0 .. appends + skips
    <3>1. appends + skips \in Nat
      BY Bounds DEF CountsOK
    <3> QED BY <1>1, <1>2, <3>1
  <2>2. DOMAIN buffer' = {} /\ cleanUpTo' \in Index
    BY <1>1, Bounds DEF NoBuffer, Index
  <2> QED BY <1>1, <2>1, <2>2 DEF MemoryOK
<1>7. RecordsOK'
  BY <1>1 DEF RecordsOK, Cells
<1>8. SlotsOK'
  <2> SUFFICES ASSUME NEW b \in DOMAIN files, NEW k \in Slots, indexFiles'[b][k] # Blank
               PROVE  Tells(b, k)'
    BY <1>1 DEF SlotsOK
  <2>1. CASE b # last
    BY <1>1, <2>1 DEF SlotsOK, Tells, Cells
  <2>2. CASE b = last
    <3>1. k <= Len(f) /\ k \in 1 .. Len(f)
      <4>1. k \in Nat /\ k >= 1
        BY Bounds DEF Slots
      <4>2. k <= Len(f)
        BY <1>3, <2>2
      <4> QED BY <1>2, <4>1, <4>2
    <3> QED BY <1>1, <1>2, <1>3, <2>2, <3>1 DEF Tells, Cells, f
  <2> QED BY <2>1, <2>2
<1>9. SegmentsOK'
  <2>1. WriteOK'
    <3>1. segments'[last].write = Len(f) /\ segments'[last].entries = Len(f) /\ call'.at = "idle"
      BY <1>1 DEF Idle
    <3>2. \A k \in Slots : k > Len(f) => indexFiles'[last][k] = Blank
      <4> SUFFICES ASSUME NEW k \in Slots, k > Len(f) PROVE indexFiles'[last][k] = Blank
        OBVIOUS
      <4>1. k \in Nat
        BY Bounds DEF Slots
      <4>2. ~ (k <= Len(f))
        BY <1>2, <4>1
      <4> QED BY <1>3, <4>2
    <3>3. files'[last] = f /\ current' = last
      BY <1>1 DEF f
    <3> QED BY <1>2, <3>1, <3>2, <3>3 DEF WriteOK
  <2> QED BY <1>1, <2>1 DEF SegmentsOK
<1>10. CallOK'
  BY <1>1 DEF CallOK, Idle
<1> QED BY <1>4, <1>5, <1>6, <1>7, <1>8, <1>9, <1>10
-----------------------------------------------------------------------------
(* Soundness is inductive.                                                  *)

LEMMA SoundInit == Init => Sound
<1> SUFFICES ASSUME Init PROVE Sound
  OBVIOUS
<1>1. /\ DOMAIN files = {1} /\ files[1] = <<>> /\ DOMAIN indexFiles = {1}
      /\ indexFiles[1] = BlankIndex /\ DOMAIN segments = {1} /\ segments[1] = OpenSegment
      /\ current = 1 /\ generator = 0 /\ DOMAIN buffer = {} /\ cleanUpTo = 0 /\ call = Idle
      /\ process = "up" /\ appends = 0 /\ skips = 0 /\ returned = {} /\ handed = {}
      /\ gap = FALSE /\ renumbered = FALSE
      /\ files \in [{1} -> {<<>>}] /\ indexFiles \in [{1} -> {BlankIndex}]
      /\ segments \in [{1} -> {OpenSegment}]
  BY DEF Init, NoBuffer
<1>2. BlankIndex \in [Slots -> Slot] /\ OpenSegment \in Segment /\ <<>> \in Seq(Record)
  BY Bounds DEF BlankIndex, Blank, Slots, Slot, Index, OpenSegment, Segment
<1>3. CountsOK
  <2>1. appends \in 0 .. MaxAppends /\ skips \in 0 .. MaxSkips
    BY <1>1, Bounds
  <2> QED BY <1>1, <2>1 DEF CountsOK
<1>4. DiskOK
  <2>1. 1 \in Base /\ 1 <= appends + skips + 1
    BY <1>1, Bounds DEF Base
  <2>2. {<<>>} \subseteq Seq(Record) /\ {BlankIndex} \subseteq [Slots -> Slot]
    BY <1>2
  <2> QED BY <1>1, <2>1, <2>2 DEF DiskOK
<1>5. MemoryOK
  <2>1. cleanUpTo \in Index /\ generator \in 0 .. appends + skips
    BY <1>1, Bounds DEF Index
  <2> QED BY <1>1, <1>2, <2>1 DEF MemoryOK
<1>6. RecordsOK /\ SlotsOK
  <2>1. \A k \in 1 .. Len(<<>>) : FALSE
    OBVIOUS
  <2> QED BY <1>1, <2>1 DEF RecordsOK, SlotsOK, Cells, BlankIndex, Slots
<1>7. SegmentsOK
  <2>1. /\ segments[1].opened = FALSE /\ segments[1].write = 0 /\ segments[1].entries = 0
        /\ Len(files[1]) = 0 /\ call.at = "idle" /\ \A k \in Slots : BlankIndex[k] = Blank
    BY <1>1 DEF OpenSegment, Idle, BlankIndex, Slots
  <2>2. WriteOK
    BY <1>1, <2>1 DEF WriteOK
  <2> QED BY <1>1, <2>1, <2>2 DEF SegmentsOK
<1>8. CallOK
  BY <1>1 DEF CallOK, Idle
<1> QED BY <1>3, <1>4, <1>5, <1>6, <1>7, <1>8 DEF Sound

LEMMA SoundStep == Sound /\ [Next]_vars => Sound'
<1> SUFFICES ASSUME Sound, [Next]_vars PROVE Sound'
  OBVIOUS
<1>1. CASE (\E i \in Index : Get(i)) \/ LastEntry \/ FirstIndex
  BY <1>1, ReadingOpens, OpenSound
<1>2. CASE Refuse \/ Skip \/ StartFails \/ Clean \/ \E i \in Index : Truncate(i) \/ Commit(i)
  BY <1>2, LightSound
<1>3. CASE AppendEntry \/ Write \/ IndexEntry \/ Roll \/ BufferEntry
  BY <1>3, AppendSound, WriteSound, IndexSound, RollSound, BufferSound
<1>4. CASE Crash \/ Start
  BY <1>4, CrashSound, StartSound
<1>5. CASE UNCHANGED vars
  BY <1>5 DEF vars, disk, memory, bounds, history, Sound, CountsOK, DiskOK, MemoryOK, RecordsOK,
     SlotsOK, SegmentsOK, CallOK, Cells, Tells, Writable, WriteOK
<1> QED BY <1>1, <1>2, <1>3, <1>4, <1>5 DEF Next

LEMMA SoundSafety == Spec => []Sound
  BY SoundInit, SoundStep, PTL DEF Spec

\* What is stored is a record of one of the files.
LEMMA StoredFacts ==
  ASSUME Sound, NEW e \in Stored
  PROVE  e # Torn /\ \E b \in DOMAIN files : \E k \in Cells(b) : e = files[b][k]
<1>1. PICK U \in {Range(files[b]) : b \in DOMAIN files} : e \in U /\ e # Torn
  BY DEF Stored
<1>2. PICK b \in DOMAIN files : e \in Range(files[b])
  BY <1>1
<1>3. files[b] \in Seq(Record)
  BY DEF Sound, DiskOK
<1>4. PICK k \in DOMAIN files[b] : e = files[b][k]
  BY <1>2 DEF Range
<1> QED BY <1>1, <1>3, <1>4 DEF Cells

\* Every variable holds what the fields and the files of the code can hold,
\* whatever was skipped, refused, overwritten or lost in a crash.
THEOREM Typing == Spec => []TypeOK
<1>1. Sound => TypeOK
  <2> SUFFICES ASSUME Sound PROVE TypeOK
    OBVIOUS
  <2> USE DEF Sound
  <2>1. DOMAIN files = DOMAIN indexFiles /\ DOMAIN files \subseteq Base
        /\ DOMAIN segments = DOMAIN files /\ current \in DOMAIN segments
    BY DEF DiskOK, MemoryOK
  <2>2. Stored \subseteq Entry
    BY StoredFacts DEF RecordsOK, CountsOK
  <2>3. \A b \in DOMAIN indexFiles : Len(indexFiles[b]) = MaxSegmentEntries
    BY <2>1, Bounds DEF DiskOK, Slots
  <2>4. \A b \in DOMAIN segments : segments[b].entries <= MaxSegmentEntries
    BY Bounds DEF MemoryOK, Segment
  <2>5. generator \in Index
    BY Bounds DEF MemoryOK, CountsOK, Index
  <2>6. returned \subseteq handed /\ handed \subseteq Entry /\ cleanUpTo \in Index
        /\ process \in {"up", "down", "failed", "hangs"}
    BY DEF CountsOK, MemoryOK
  <2> QED BY <2>1, <2>2, <2>3, <2>4, <2>5, <2>6 DEF TypeOK, Base
<1> QED BY <1>1, SoundSafety, PTL

\* A lookup that does not miss finds a slot, and reads the record it tells of.
LEMMA LookupFacts ==
  ASSUME Sound, NEW i \in Index, NEW b \in DOMAIN files, b <= i, ~Misses(b, i)
  PROVE  \E k \in Slots :
           /\ k <= i - b + 1 /\ indexFiles[b][k].index <= i /\ Lookup(b, i) = indexFiles[b][k]
           /\ \A j \in Slots : j <= i - b + 1 /\ indexFiles[b][j].index <= i => j <= k
<1> USE DEF Sound
<1> DEFINE n == i - b + 1
           S == {k \in 1 .. n : indexFiles[b][k].index <= i}
<1>1. b \in Nat /\ i \in Nat /\ n \in Nat /\ n >= 1
  BY Bounds DEF DiskOK
<1>2. n <= MaxSegmentEntries /\ \E k \in 1 .. n : ~ (indexFiles[b][k].index > i)
  <2>1. ~ (n > Opened(b).entries) /\ \E k \in 1 .. n : ~ (indexFiles[b][k].index > i)
    BY DEF Misses
  <2>2. Opened(b).entries = MaxSegmentEntries
    BY OpenedFacts
  <2> QED BY <1>1, <2>1, <2>2, Bounds
<1>3. \A k \in 1 .. n : k \in Slots /\ indexFiles[b][k] \in Slot
  BY <1>1, <1>2, Bounds DEF DiskOK, Slots
<1>4. S # {} /\ S \subseteq 0 .. n
  <2>1. PICK k \in 1 .. n : ~ (indexFiles[b][k].index > i)
    BY <1>2
  <2>2. indexFiles[b][k].index \in Nat
    BY <1>3, Bounds DEF Slot
  <2>3. k \in S
    BY <1>1, <2>1, <2>2
  <2> QED BY <1>1, <2>3
<1>5. Max(S) \in S /\ \A j \in S : j <= Max(S)
  <2> HIDE DEF S, n
  <2> QED BY <1>1, <1>4, MaxFacts
<1>6. Lookup(b, i) = indexFiles[b][Max(S)]
  BY DEF Lookup
<1>7. \A j \in Slots : j <= n /\ indexFiles[b][j].index <= i => j \in S
  BY <1>1, Bounds DEF Slots
<1>8. Max(S) \in Slots /\ Max(S) <= n /\ indexFiles[b][Max(S)].index <= i
  BY <1>1, <1>3, <1>5
<1> HIDE DEF S
<1> QED BY <1>5, <1>6, <1>7, <1>8

\* What a segment returns is a record of that index.
LEMMA SegmentReads ==
  ASSUME Sound, NEW i \in Index, NEW b \in DOMAIN files, b <= i, ReadSegment(b, i) # NoEntry
  PROVE  /\ ~Misses(b, i) /\ Lookup(b, i).index = i
         /\ \E k \in Slots : k \in Cells(b) /\ ReadSegment(b, i) = files[b][k]
              /\ files[b][k] # Torn /\ files[b][k].index = i /\ indexFiles[b][k] # Blank
<1> USE DEF Sound
<1>1. ~Misses(b, i) /\ Lookup(b, i).index = i
      /\ ReadSegment(b, i) = files[b][Lookup(b, i).position + 1]
  BY DEF ReadSegment
<1>2. PICK k \in Slots : Lookup(b, i) = indexFiles[b][k]
  BY <1>1, LookupFacts
<1>3. indexFiles[b][k] # Blank
  <2>1. b \in Nat /\ b >= 1 /\ i \in Nat
    BY Bounds DEF DiskOK, Base
  <2> QED BY <1>1, <1>2, <2>1 DEF Blank
<1>4. Tells(b, k)
  BY <1>3 DEF SlotsOK
<1>5. (k - 1) + 1 = k
  BY Bounds DEF Slots
<1> QED BY <1>1, <1>2, <1>3, <1>4, <1>5 DEF Tells

\* What a read returns was handed out with that index: a hole in the log is
\* never filled with the entry before it.
THEOREM ReadsSafety == Spec => []ReadsAreRight
<1>1. Sound => ReadsAreRight
  <2> SUFFICES ASSUME Sound, NEW i \in Index, Read(i) # NoEntry
               PROVE  Read(i).index = i /\ Read(i) \in handed
    BY DEF ReadsAreRight
  <2> USE DEF Sound
  <2>1. CASE i \in DOMAIN buffer
    BY <2>1 DEF Read, MemoryOK, CountsOK
  <2>2. CASE i \notin DOMAIN buffer
    <3>1. HasSegment(i) /\ Read(i) = ReadSegment(Floor(i), i)
      BY <2>2 DEF Read
    <3>2. Floor(i) \in DOMAIN files /\ Floor(i) <= i
      BY <3>1, FloorFacts
    <3>3. PICK k \in Slots : k \in Cells(Floor(i)) /\ Read(i) = files[Floor(i)][k]
            /\ files[Floor(i)][k] # Torn /\ files[Floor(i)][k].index = i
      BY <3>1, <3>2, SegmentReads
    <3> QED BY <3>2, <3>3 DEF RecordsOK
  <2> QED BY <2>1, <2>2
<1> QED BY <1>1, SoundSafety, PTL
-----------------------------------------------------------------------------
(* As long as no start has begun anew at 0, indexes grow along the files,   *)
(* and what was returned has its slot.                                      *)

\* The records of a file, between its base and the base of the next file.
Ordered ==
  \A b \in DOMAIN files : \A j, k \in Cells(b) :
    j < k /\ files[b][j] # Torn /\ files[b][k] # Torn => files[b][j].index < files[b][k].index

Placed ==
  \A b \in DOMAIN files : \A j \in Cells(b) : files[b][j] # Torn =>
    /\ b <= files[b][j].index
    /\ \A c \in DOMAIN files : b < c => files[b][j].index < c

\* A record that is cut off is in the last file, and the server never comes
\* up again.
TornOK ==
  \A b \in DOMAIN files : \A j \in Cells(b) : files[b][j] = Torn =>
    process # "up" /\ \A c \in DOMAIN files : c <= b

\* The last segment is the current one, written at its end, and the generator
\* is not behind anything on disk.
LastOK ==
  /\ \A b \in DOMAIN files : b <= current
  /\ current <= generator + (IF call.at \in {"idle", "buffer"} THEN 1 ELSE 0)
  /\ \A b \in DOMAIN files : \A j \in Cells(b) :
       /\ files[b][j].index <= generator
       /\ call.at = "write" => files[b][j].index < generator
  /\ Writable => segments[current].write = Len(files[current])

\* An entry has a record and a slot that tells of it.
Indexed(e) ==
  \E b \in DOMAIN files : \E k \in Slots :
    k \in Cells(b) /\ files[b][k] = e /\ indexFiles[b][k] # Blank

Pending == IF call.at \in {"roll", "buffer"} THEN {call.entry} ELSE {}

KeptOK == \A e \in returned \cup Pending : Indexed(e)

FreshOK == Ordered /\ Placed /\ TornOK /\ (process = "up" => LastOK) /\ KeptOK

\* Without gaps the index tells the place in the file.
DenseOK ==
  /\ \A b \in DOMAIN files : \A j \in Cells(b) :
       files[b][j] # Torn => files[b][j].index = b + j - 1
  /\ Writable => generator = current + Len(files[current]) - (IF call.at = "write" THEN 0 ELSE 1)

StoreInv ==
  /\ Sound
  /\ ~renumbered => FreshOK
  /\ ~gap /\ ~renumbered => DenseOK

\* The numbers in question.
LEMMA Numbers ==
  ASSUME Sound
  PROVE  /\ generator \in Nat /\ current \in Nat /\ current \in DOMAIN files
         /\ \A b \in DOMAIN files : b \in Nat /\ b >= 1 /\ files[b] \in Seq(Record)
              /\ Len(files[b]) \in Nat
              /\ \A j \in Cells(b) : j \in Nat /\ j >= 1 /\ j <= Len(files[b])
                   /\ files[b][j].index \in Int
                   /\ (files[b][j] # Torn => files[b][j] \in handed /\ files[b][j].index >= 1)
<1> USE DEF Sound
<1>1. generator \in Nat /\ current \in DOMAIN files
  BY DEF MemoryOK
<1>2. ASSUME NEW b \in DOMAIN files
      PROVE  b \in Nat /\ b >= 1 /\ files[b] \in Seq(Record) /\ Len(files[b]) \in Nat
  BY Bounds DEF DiskOK, Base
<1>3. ASSUME NEW b \in DOMAIN files, NEW j \in Cells(b)
      PROVE  /\ j \in Nat /\ j >= 1 /\ j <= Len(files[b]) /\ files[b][j].index \in Int
             /\ (files[b][j] # Torn => files[b][j] \in handed /\ files[b][j].index >= 1)
  <2>1. j \in Nat /\ j >= 1 /\ j <= Len(files[b])
    BY <1>2 DEF Cells
  <2>2. CASE files[b][j] = Torn
    BY <2>1, <2>2 DEF Torn
  <2>3. CASE files[b][j] # Torn
    <3>1. files[b][j] \in handed
      BY <2>3 DEF RecordsOK
    <3> QED BY <2>1, <3>1 DEF CountsOK
  <2> QED BY <2>2, <2>3
<1> QED BY <1>1, <1>2, <1>3

\* Steps that leave the disk alone.
LEMMA FreshDisk ==
  ASSUME Sound, FreshOK, UNCHANGED <<files, indexFiles>>, process' = "up" => process = "up",
         (returned' \cup Pending') \subseteq returned \cup Pending,
         process' = "up" => LastOK'
  PROVE  FreshOK'
<1>1. Ordered' /\ Placed'
  BY DEF FreshOK, Ordered, Placed, Cells
<1>2. TornOK'
  BY DEF FreshOK, TornOK, Cells
<1>3. KeptOK'
  <2>1. \A e : Indexed(e) => Indexed(e)'
    BY DEF Indexed, Cells
  <2> QED BY <2>1 DEF FreshOK, KeptOK
<1> QED BY <1>1, <1>2, <1>3 DEF FreshOK

LEMMA FreshOpen ==
  ASSUME Sound, FreshOK, NEW b \in DOMAIN files, Open(b)
  PROVE  FreshOK' /\ (DenseOK => DenseOK')
<1>1. /\ segments' = [segments EXCEPT ![b] = Opened(b)]
      /\ UNCHANGED <<files, indexFiles, current, generator, call, process, returned>>
  BY DEF Open, disk, history
<1>2. Opened(b).mode # "rw" /\ current \in DOMAIN files /\ DOMAIN segments = DOMAIN files
  BY OpenedFacts DEF Sound, MemoryOK
<1>3. Writable' => Writable /\ segments'[current] = segments[current]
  BY <1>1, <1>2 DEF Writable
<1>4. process' = "up" => LastOK'
  BY <1>1, <1>3 DEF FreshOK, LastOK, Cells
<1>5. Pending' = Pending
  BY <1>1 DEF Pending
<1> QED BY <1>1, <1>3, <1>4, <1>5, FreshDisk DEF DenseOK, Cells

LEMMA FreshAppend ==
  ASSUME Sound, FreshOK, AppendEntry
  PROVE  FreshOK' /\ (DenseOK => DenseOK')
<1>1. /\ call.at = "idle" /\ process = "up" /\ call'.at = "write" /\ generator' = generator + 1
      /\ UNCHANGED <<files, indexFiles, segments, current, process, returned>>
  BY DEF AppendEntry, Ready, disk
<1>2. process' = "up" => LastOK'
  BY <1>1, Numbers DEF FreshOK, LastOK, Cells, Writable
<1>3. Pending' = Pending
  BY <1>1 DEF Pending
<1>4. DenseOK => DenseOK'
  BY <1>1, Numbers DEF DenseOK, Cells, Writable
<1> QED BY <1>1, <1>2, <1>3, <1>4, FreshDisk

LEMMA FreshLight ==
  ASSUME Sound, FreshOK,
         \/ Refuse \/ Skip \/ StartFails
         \/ Clean \/ \E i \in Index : Truncate(i) \/ Commit(i)
  PROVE  FreshOK' /\ (DenseOK /\ ~gap' => DenseOK')
<1>1. UNCHANGED <<files, indexFiles, segments, current>> /\ returned' \subseteq returned
  <2>1. CASE Refuse \/ Skip \/ StartFails \/ Clean
    BY <2>1 DEF Refuse, Skip, StartFails, Clean, disk, memory, bounds, history
  <2>2. CASE \E i \in Index : Truncate(i) \/ Commit(i)
    BY <2>2 DEF Truncate, Commit, disk, memory, bounds, history
  <2> QED BY <2>1, <2>2
<1>2. \/ /\ call.at = "write" /\ call' = Idle /\ generator' = generator /\ process' = process
         /\ gap' = (gap \/ segments[current].mode = "rw")
      \/ call.at = "idle" /\ call' = call /\ generator' = generator + 1
         /\ gap' /\ process' = process
      \/ call' = call /\ generator' = generator /\ process' = process
      \/ call' = call /\ generator' = generator /\ process' # "up"
  <2>1. CASE Refuse
    BY <2>1 DEF Refuse
  <2>2. CASE Skip
    BY <2>2 DEF Skip, Ready
  <2>3. CASE StartFails
    BY <2>3 DEF StartFails, memory
  <2>4. CASE Clean \/ \E i \in Index : Truncate(i) \/ Commit(i)
    BY <2>4 DEF Truncate, Commit, Clean
  <2> QED BY <2>1, <2>2, <2>3, <2>4
<1>3. Pending' \subseteq Pending
  BY <1>2 DEF Pending, Idle
<1>4. ASSUME process' = "up" PROVE process = "up" /\ LastOK'
  <2>1. process = "up" /\ LastOK
    BY <1>2, <1>4 DEF FreshOK, StartFails
  <2> QED BY <1>1, <1>2, <1>4, <2>1, Numbers DEF LastOK, Cells, Writable, Idle
<1>5. ASSUME DenseOK, ~gap' PROVE DenseOK'
  BY <1>1, <1>2, <1>5 DEF DenseOK, Cells, Writable, Idle
<1> QED BY <1>1, <1>3, <1>4, <1>5, FreshDisk

LEMMA FreshBuffer ==
  ASSUME Sound, FreshOK, BufferEntry
  PROVE  FreshOK' /\ (DenseOK => DenseOK')
<1>1. /\ call.at \in {"buffer", "roll"} /\ call' = Idle /\ returned' = returned \cup {call.entry}
      /\ UNCHANGED <<files, indexFiles, segments, current, generator, process>>
  BY DEF BufferEntry, disk
<1>2. process = "up" => LastOK'
  BY <1>1, Numbers DEF FreshOK, LastOK, Cells, Writable, Idle
<1>3. (returned' \cup Pending') \subseteq returned \cup Pending
  BY <1>1 DEF Pending, Idle
<1>4. DenseOK => DenseOK'
  BY <1>1, Numbers DEF DenseOK, Cells, Writable, Idle
<1> QED BY <1>1, <1>2, <1>3, <1>4, FreshDisk

\* The last segment is written at its end, so Write adds a record and loses
\* none.
LEMMA FreshWrite ==
  ASSUME Sound, FreshOK, Write
  PROVE  FreshOK' /\ (DenseOK => DenseOK')
<1> DEFINE w == segments[current].write
           g == generator
           e == call.entry
<1>1. /\ Writable /\ call.at = "write" /\ call'.at = "index"
      /\ files' \in [DOMAIN files -> Seq(Record)]
      /\ \A b \in DOMAIN files : b # current => files'[b] = files[b]
      /\ Len(files'[current]) = IF w < Len(files[current]) THEN Len(files[current]) ELSE w + 1
      /\ \A j \in 1 .. Len(files'[current]) :
           files'[current][j] = IF j = w + 1 THEN e ELSE files[current][j]
      /\ segments'[current] = [segments[current] EXCEPT !.write = w + 1]
      /\ segments[current] \in Segment
      /\ UNCHANGED <<indexFiles, current, generator, process, returned>>
  BY WriteEffect DEF Sound, MemoryOK
<1>2. LastOK /\ w = Len(files[current]) /\ process = "up"
  BY <1>1 DEF FreshOK, LastOK, Writable
<1>3. e \in handed /\ e.index = g /\ e # Torn
  BY <1>1 DEF Sound, CallOK, CountsOK, Torn
<1>4. segments'[current].write = w + 1
  BY <1>1 DEF Segment
<1> DEFINE n == Len(files[current]) + 1
<1>5. /\ DOMAIN files' = DOMAIN files /\ current \in DOMAIN files /\ n \in Nat
      /\ Len(files'[current]) = n /\ files'[current][n] = e
      /\ \A j \in Cells(current) : j \in 1 .. n /\ j # n /\ files'[current][j] = files[current][j]
      /\ \A j \in 1 .. n : j = n \/ j \in Cells(current)
  BY <1>1, <1>2, Numbers DEF Cells
<1> HIDE DEF w, n
<1>6. \A b \in DOMAIN files : \A j \in 1 .. Len(files'[b]) :
        \/ b = current /\ j = n /\ files'[b][j] = e
        \/ j \in Cells(b) /\ files'[b][j] = files[b][j] /\ (b = current => j < n)
  <2> SUFFICES ASSUME NEW b \in DOMAIN files, NEW j \in 1 .. Len(files'[b])
               PROVE  \/ b = current /\ j = n /\ files'[b][j] = e
                      \/ j \in Cells(b) /\ files'[b][j] = files[b][j] /\ (b = current => j < n)
    OBVIOUS
  <2>1. CASE b # current
    BY <1>1, <2>1 DEF Cells
  <2>2. CASE b = current
    BY <1>5, <2>2
  <2> QED BY <2>1, <2>2
<1>7. \A b \in DOMAIN files : \A j \in Cells(b) : files[b][j].index < g /\ files[b][j].index \in Int
  BY <1>1, <1>2, Numbers DEF LastOK
<1>8. current <= g /\ \A b \in DOMAIN files : b <= current
  BY <1>1, <1>2, Numbers DEF LastOK
<1>9. Ordered'
  <2> SUFFICES ASSUME NEW b \in DOMAIN files, NEW j \in 1 .. Len(files'[b]),
                      NEW k \in 1 .. Len(files'[b]),
                      j < k, files'[b][j] # Torn, files'[b][k] # Torn
               PROVE  files'[b][j].index < files'[b][k].index
    BY <1>5 DEF Ordered, Cells
  <2>1. j \in Cells(b) /\ files'[b][j] = files[b][j]
    <3>1. CASE b = current /\ j = n
      BY <1>5, <3>1
    <3> QED BY <1>6, <3>1
  <2>2. CASE b = current /\ k = n
    BY <1>3, <1>5, <1>7, <2>1, <2>2
  <2>3. CASE ~ (b = current /\ k = n)
    <3>1. k \in Cells(b) /\ files'[b][k] = files[b][k]
      BY <1>6, <2>3
    <3> QED BY <2>1, <3>1 DEF FreshOK, Ordered
  <2> QED BY <2>2, <2>3
<1>10. Placed'
  <2> SUFFICES ASSUME NEW b \in DOMAIN files, NEW j \in 1 .. Len(files'[b]), files'[b][j] # Torn
               PROVE  /\ b <= files'[b][j].index
                      /\ \A c \in DOMAIN files : b < c => files'[b][j].index < c
    BY <1>5 DEF Placed, Cells
  <2>1. CASE b = current /\ files'[b][j] = e
    BY <1>3, <1>8, <2>1, Numbers
  <2>2. CASE j \in Cells(b) /\ files'[b][j] = files[b][j]
    BY <2>2 DEF FreshOK, Placed
  <2> QED BY <1>6, <2>1, <2>2
<1>11. TornOK'
  <2>1. \A b \in DOMAIN files : \A j \in Cells(b) : files[b][j] # Torn
    BY <1>2 DEF FreshOK, TornOK
  <2> QED BY <1>3, <1>5, <1>6, <2>1 DEF TornOK, Cells
<1>12. LastOK'
  <2>1. \A b \in DOMAIN files : \A j \in 1 .. Len(files'[b]) : files'[b][j].index <= g
    BY <1>3, <1>6, <1>7, Numbers
  <2>2. segments'[current].write = Len(files'[current])
    BY <1>2, <1>4, <1>5 DEF n
  <2>3. current <= g + (IF call'.at \in {"idle", "buffer"} THEN 1 ELSE 0)
    BY <1>1, <1>8, Numbers
  <2> QED BY <1>1, <1>5, <1>8, <2>1, <2>2, <2>3 DEF LastOK, Cells
<1>13. KeptOK'
  <2>1. ASSUME NEW x, Indexed(x) PROVE Indexed(x)'
    <3>1. PICK b \in DOMAIN files, k \in Slots :
            k \in Cells(b) /\ files[b][k] = x /\ indexFiles[b][k] # Blank
      BY <2>1 DEF Indexed
    <3>2. k \in 1 .. Len(files'[b]) /\ files'[b][k] = files[b][k]
      BY <1>1, <1>5, <3>1 DEF Cells
    <3> QED BY <1>1, <1>5, <3>1, <3>2 DEF Indexed, Cells
  <2> QED BY <1>1, <2>1 DEF FreshOK, KeptOK, Pending
<1>14. ASSUME DenseOK PROVE DenseOK'
  <2>1. g = current + Len(files[current])
    BY <1>1, <1>14, Numbers DEF DenseOK
  <2>2. g = current + n - 1
    BY <2>1, Numbers DEF n
  <2>3. \A b \in DOMAIN files : \A j \in 1 .. Len(files'[b]) :
          files'[b][j] # Torn => files'[b][j].index = b + j - 1
    BY <1>3, <1>6, <1>14, <2>2 DEF DenseOK
  <2> QED BY <1>1, <1>5, <2>2, <2>3 DEF DenseOK, Cells
<1> QED BY <1>9, <1>10, <1>11, <1>12, <1>13, <1>14 DEF FreshOK

LEMMA FreshIndex ==
  ASSUME Sound, FreshOK, IndexEntry
  PROVE  FreshOK' /\ (DenseOK => DenseOK')
<1>0. call.at = "index" /\ process = "up"
  BY DEF IndexEntry, Sound, CallOK
<1>1. CASE segments[current].entries = MaxSegmentEntries
  <2>1. /\ call' = Idle
        /\ UNCHANGED <<files, indexFiles, segments, current, generator, process, returned>>
    BY <1>1 DEF IndexEntry, history
  <2>2. LastOK'
    BY <1>0, <2>1, Numbers DEF FreshOK, LastOK, Cells, Writable, Idle
  <2>3. (returned' \cup Pending') \subseteq returned \cup Pending
    BY <2>1 DEF Pending, Idle
  <2>4. DenseOK => DenseOK'
    BY <1>0, <2>1 DEF DenseOK, Cells, Writable, Idle
  <2> QED BY <1>0, <2>1, <2>2, <2>3, <2>4, FreshDisk
<1>2. CASE segments[current].entries # MaxSegmentEntries
  <2> DEFINE n == segments[current].entries + 1
  <2>1. /\ n \in Slots /\ n \in Cells(current) /\ files[current][n] = call.entry
        /\ call'.at = "roll" /\ call'.entry = call.entry
        /\ \A b \in DOMAIN files : b # current =>
             indexFiles'[b] = indexFiles[b] /\ segments'[b] = segments[b]
        /\ \A k \in Slots : k # n => indexFiles'[current][k] = indexFiles[current][k]
        /\ indexFiles'[current][n] = [index |-> call.entry.index, position |-> n - 1]
        /\ segments'[current] = [segments[current] EXCEPT !.entries = n]
        /\ segments[current] \in Segment
        /\ UNCHANGED <<files, current, generator, process, returned>>
    BY <1>2, IndexEffect DEF Sound, MemoryOK
  <2>2. indexFiles'[current][n] # Blank
    <3>1. call.entry.index \in 1 .. appends + skips
      BY <1>0 DEF Sound, CallOK, CountsOK
    <3> QED BY <2>1, <3>1 DEF Blank
  <2>3. segments'[current].write = segments[current].write
        /\ segments'[current].mode = segments[current].mode
    BY <2>1 DEF Segment
  <2> HIDE DEF n
  <2>4. LastOK'
    BY <1>0, <2>1, <2>3 DEF FreshOK, LastOK, Cells, Writable
  <2>5. Ordered' /\ Placed' /\ TornOK'
    BY <2>1 DEF FreshOK, Ordered, Placed, TornOK, Cells
  <2>6. \A e : Indexed(e) => Indexed(e)'
    <3> SUFFICES ASSUME NEW e, NEW b \in DOMAIN files, NEW k \in Slots,
                        k \in Cells(b), files[b][k] = e, indexFiles[b][k] # Blank
                 PROVE  Indexed(e)'
      BY DEF Indexed
    <3>1. indexFiles'[b][k] # Blank
      BY <2>1, <2>2
    <3> QED BY <2>1, <3>1 DEF Indexed, Cells
  <2>7. Indexed(call.entry)'
    BY <2>1, <2>2, Numbers DEF Indexed, Cells
  <2>8. KeptOK'
    BY <2>1, <2>6, <2>7 DEF FreshOK, KeptOK, Pending
  <2>9. DenseOK => DenseOK'
    BY <1>0, <2>1, <2>3 DEF DenseOK, Cells, Writable
  <2> QED BY <2>4, <2>5, <2>8, <2>9 DEF FreshOK
<1> QED BY <1>1, <1>2

\* The next segment lies after everything that is there, on a new file.
LEMMA FreshRoll ==
  ASSUME Sound, FreshOK, Roll
  PROVE  FreshOK' /\ (DenseOK => DenseOK')
<1> DEFINE b == NextBase(call.entry)
<1>1. /\ call.at = "roll" /\ call'.at = "buffer" /\ call'.entry = call.entry
      /\ b = generator + 1
      /\ DOMAIN files' = DOMAIN files \cup {b}
      /\ \A c \in DOMAIN files : files'[c] = files[c]
      /\ b \notin DOMAIN files => files'[b] = <<>>
      /\ \A c \in DOMAIN files : c # b => indexFiles'[c] = indexFiles[c]
      /\ segments'[b] = OpenSegment /\ current' = b
      /\ UNCHANGED <<generator, process, returned>>
  BY RollEffect
<1>2. process = "up" /\ LastOK
  BY <1>1 DEF FreshOK, Sound, CallOK
<1> HIDE DEF b
<1>3. current <= generator /\ \A c \in DOMAIN files : c <= current /\ c \in Nat
  BY <1>1, <1>2, Numbers DEF LastOK
<1>4. b \in Nat /\ \A c \in DOMAIN files : c < b /\ c # b
  BY <1>1, <1>3, Numbers
<1>5. files'[b] = <<>> /\ 1 .. Len(files'[b]) = {} /\ Len(files'[b]) = 0
  BY <1>1, <1>4
<1>6. \A c \in DOMAIN files : \A j \in Cells(c) :
        files[c][j].index <= generator /\ files[c][j] # Torn
  BY <1>2 DEF LastOK, FreshOK, TornOK
<1>7. Ordered'
  BY <1>1, <1>5 DEF FreshOK, Ordered, Cells
<1>8. Placed'
  <2>1. \A c \in DOMAIN files : \A j \in Cells(c) : files[c][j].index < b
    BY <1>1, <1>6, Numbers
  <2> QED BY <1>1, <1>4, <1>5, <2>1 DEF FreshOK, Placed, Cells
<1>9. TornOK'
  BY <1>1, <1>5, <1>6 DEF TornOK, Cells
<1>10. LastOK'
  <2>1. \A c \in DOMAIN files' : c <= b
    BY <1>1, <1>4
  <2>2. b <= generator + 1
    BY <1>1, <1>4
  <2>3. \A c \in DOMAIN files' : \A j \in 1 .. Len(files'[c]) : files'[c][j].index <= generator
    BY <1>1, <1>5, <1>6 DEF Cells
  <2>4. segments'[b].write = Len(files'[b])
    BY <1>1, <1>5 DEF OpenSegment
  <2> QED BY <1>1, <2>1, <2>2, <2>3, <2>4 DEF LastOK, Cells
<1>11. KeptOK'
  <2>1. ASSUME NEW e, Indexed(e) PROVE Indexed(e)'
    <3>1. PICK c \in DOMAIN files, k \in Slots :
            k \in Cells(c) /\ files[c][k] = e /\ indexFiles[c][k] # Blank
      BY <2>1 DEF Indexed
    <3> QED BY <1>1, <1>4, <3>1 DEF Indexed, Cells
  <2>2. Pending' = Pending
    BY <1>1 DEF Pending
  <2> QED BY <1>1, <2>1, <2>2 DEF FreshOK, KeptOK
<1>12. ASSUME DenseOK PROVE DenseOK'
  <2>1. \A c \in DOMAIN files' : \A j \in 1 .. Len(files'[c]) :
          files'[c][j] # Torn => files'[c][j].index = c + j - 1
    BY <1>1, <1>5, <1>12 DEF DenseOK, Cells
  <2>2. generator = b + Len(files'[b]) - 1
    BY <1>1, <1>4, <1>5, Numbers
  <2> QED BY <1>1, <2>1, <2>2 DEF DenseOK, Cells
<1> QED BY <1>7, <1>8, <1>9, <1>10, <1>11, <1>12 DEF FreshOK

LEMMA FreshCrash ==
  ASSUME Sound, FreshOK, Crash
  PROVE  FreshOK' /\ (DenseOK => DenseOK')
<1>1. /\ process = "up" /\ process' = "down" /\ call' = Idle
      /\ DOMAIN files' = DOMAIN files
      /\ \/ files' = files
         \/ /\ files'[current] = files[current] \o <<Torn>>
            /\ \A b \in DOMAIN files : b # current => files'[b] = files[b]
      /\ UNCHANGED <<indexFiles, returned>>
  BY CrashEffect
<1>2. LastOK /\ \A b \in DOMAIN files : \A j \in Cells(b) : files[b][j] # Torn
  BY <1>1 DEF FreshOK, TornOK
<1>3. \A b \in DOMAIN files : \A j \in 1 .. Len(files'[b]) :
        \/ j \in Cells(b) /\ files'[b][j] = files[b][j]
        \/ b = current /\ files'[b][j] = Torn
  <2> SUFFICES ASSUME NEW b \in DOMAIN files, NEW j \in 1 .. Len(files'[b])
               PROVE  \/ j \in Cells(b) /\ files'[b][j] = files[b][j]
                      \/ b = current /\ files'[b][j] = Torn
    OBVIOUS
  <2>1. CASE files'[b] = files[b]
    BY <2>1 DEF Cells
  <2>2. CASE b = current /\ files'[b] = files[b] \o <<Torn>>
    BY <2>2, Numbers, TornAtEnd DEF Cells
  <2> QED BY <1>1, <2>1, <2>2
<1>4. \A b \in DOMAIN files : \A j \in Cells(b) :
        j \in 1 .. Len(files'[b]) /\ files'[b][j] = files[b][j]
  <2> SUFFICES ASSUME NEW b \in DOMAIN files, NEW j \in Cells(b)
               PROVE  j \in 1 .. Len(files'[b]) /\ files'[b][j] = files[b][j]
    OBVIOUS
  <2>1. CASE files'[b] = files[b]
    BY <2>1 DEF Cells
  <2>2. CASE b = current /\ files'[b] = files[b] \o <<Torn>>
    BY <2>2, Numbers, TornAtEnd DEF Cells
  <2> QED BY <1>1, <2>1, <2>2
<1>5. Ordered' /\ Placed'
  BY <1>1, <1>3 DEF FreshOK, Ordered, Placed, Cells
<1>6. TornOK'
  BY <1>1, <1>2, <1>3 DEF TornOK, LastOK, Cells
<1>7. KeptOK'
  <2>1. ASSUME NEW e, Indexed(e) PROVE Indexed(e)'
    BY <1>1, <1>4, <2>1 DEF Indexed, Cells
  <2> QED BY <1>1, <2>1 DEF FreshOK, KeptOK, Pending, Idle
<1>8. DenseOK => DenseOK'
  BY <1>1, <1>3 DEF DenseOK, Cells, Writable
<1> QED BY <1>1, <1>5, <1>6, <1>7, <1>8 DEF FreshOK

\* A start that finds a record in the last file goes on after everything.
LEMMA FreshStart ==
  ASSUME Sound, FreshOK, Start, ~renumbered'
  PROVE  FreshOK' /\ (DenseOK => DenseOK')
<1> DEFINE last == Max(DOMAIN files)
           f == files[last]
           g == generator'
<1>1. /\ last \in DOMAIN files /\ \A b \in DOMAIN files : b <= last
      /\ f \in Seq(Record)
      /\ \A k \in Cells(last) : f[k] \in handed
      /\ process' = "up" /\ call' = Idle
      /\ \A b \in DOMAIN files : b # last => indexFiles'[b] = indexFiles[b]
      /\ indexFiles'[last] = Rebuilt(f)
      /\ segments'[last].write = Len(f)
      /\ current' = last
      /\ g = IF Len(f) = 0 THEN 0 ELSE f[Len(f)].index
      /\ renumbered' = (renumbered \/ (Len(f) = 0 /\ last > 1))
      /\ UNCHANGED <<files, returned>>
  BY StartEffect
<1> HIDE DEF last, g
<1>2. last \in Nat /\ last >= 1 /\ Len(f) \in Nat /\ (Len(f) = 0 => last = 1)
  <2>1. last \in Nat /\ last >= 1 /\ Len(f) \in Nat
    BY <1>1, Numbers
  <2>2. ~ (Len(f) = 0 /\ last > 1)
    BY <1>1
  <2> QED BY <2>1, <2>2
<1>3. \A b \in DOMAIN files : \A j \in Cells(b) : files[b][j] # Torn
  <2>1. \A k \in Cells(last) : files[last][k] # Torn
    BY <1>1 DEF Sound, CountsOK, Torn
  <2>2. ASSUME NEW b \in DOMAIN files, NEW j \in Cells(b), files[b][j] = Torn PROVE FALSE
    <3>1. last <= b /\ b <= last
      BY <1>1, <2>2 DEF FreshOK, TornOK
    <3>2. b = last
      BY <1>2, <3>1, Numbers
    <3> QED BY <2>1, <2>2, <3>2
  <2> QED BY <2>2
<1>4. Len(f) # 0 => Len(f) \in Cells(last) /\ last <= g /\ g \in Int
  <2> SUFFICES ASSUME Len(f) # 0 PROVE Len(f) \in Cells(last) /\ last <= g /\ g \in Int
    OBVIOUS
  <2>1. Len(f) \in Cells(last)
    BY <1>2 DEF Cells
  <2>2. g = files[last][Len(f)].index
    BY <1>1
  <2> QED BY <1>1, <1>3, <2>1, <2>2, Numbers DEF FreshOK, Placed
<1>5. last <= g + 1 /\ g \in Int
  BY <1>1, <1>2, <1>4
<1>6. \A b \in DOMAIN files : \A j \in Cells(b) : files[b][j].index <= g
  <2> SUFFICES ASSUME NEW b \in DOMAIN files, NEW j \in Cells(b)
               PROVE  files[b][j].index <= g
    OBVIOUS
  <2>1. CASE b # last
    <3>1. b < last /\ b >= 1
      BY <1>1, <1>2, <2>1, Numbers
    <3>2. files[b][j].index < last /\ files[b][j].index \in Int
      BY <1>1, <1>3, <3>1, Numbers DEF FreshOK, Placed
    <3>3. last <= g
      BY <1>2, <1>4, <3>1, Numbers
    <3> QED BY <1>2, <1>5, <3>2, <3>3
  <2>2. CASE b = last
    <3>1. Len(f) # 0 /\ j <= Len(f) /\ j \in Nat
      BY <1>2, <2>2, Numbers
    <3>2. CASE j = Len(f)
      BY <1>1, <1>5, <2>2, <3>1, <3>2
    <3>3. CASE j < Len(f)
      <4>1. files[b][j].index < files[b][Len(f)].index
        BY <1>1, <1>3, <1>4, <2>2, <3>1, <3>3 DEF FreshOK, Ordered
      <4>2. files[b][j].index \in Int /\ g = files[b][Len(f)].index
        BY <1>1, <2>2, <3>1, Numbers
      <4> QED BY <1>5, <4>1, <4>2
    <3> QED BY <1>2, <3>1, <3>2, <3>3
  <2> QED BY <2>1, <2>2
<1>7. Ordered' /\ Placed'
  BY <1>1 DEF FreshOK, Ordered, Placed, Cells
<1>8. TornOK'
  BY <1>1, <1>3 DEF TornOK, Cells
<1>9. LastOK'
  BY <1>1, <1>5, <1>6 DEF LastOK, Cells, Idle, g
<1>10. KeptOK'
  <2>1. ASSUME NEW e, Indexed(e) PROVE Indexed(e)'
    <3>1. PICK b \in DOMAIN files, k \in Slots :
            k \in Cells(b) /\ files[b][k] = e /\ indexFiles[b][k] # Blank
      BY <2>1 DEF Indexed
    <3>2. indexFiles'[b][k] # Blank
      <4>1. CASE b # last
        BY <1>1, <3>1, <4>1
      <4>2. CASE b = last
        <5>1. k <= Len(f) /\ f[k].index >= 1
          BY <1>3, <3>1, <4>2, Numbers
        <5>2. indexFiles'[b][k] = [index |-> f[k].index, position |-> k - 1]
          BY <1>1, <4>2, <5>1, RebuiltTells
        <5> QED BY <5>1, <5>2 DEF Blank
      <4> QED BY <4>1, <4>2
    <3> QED BY <1>1, <3>1, <3>2 DEF Indexed, Cells
  <2> QED BY <1>1, <2>1 DEF FreshOK, KeptOK, Pending, Idle
<1>11. ASSUME DenseOK PROVE DenseOK'
  <2>1. \A b \in DOMAIN files : \A j \in Cells(b) :
          files[b][j] # Torn => files[b][j].index = b + j - 1
    BY <1>11 DEF DenseOK
  <2>2. g = last + Len(f) - 1
    <3>1. CASE Len(f) = 0
      BY <1>1, <1>2, <3>1
    <3>2. CASE Len(f) # 0
      BY <1>1, <1>3, <1>4, <2>1, <3>2
    <3> QED BY <3>1, <3>2
  <2> QED BY <1>1, <2>1, <2>2 DEF DenseOK, Cells, Writable, Idle, g
<1> QED BY <1>7, <1>8, <1>9, <1>10, <1>11 DEF FreshOK
-----------------------------------------------------------------------------
(* The invariant, and what it says of reads.                                *)

\* What was lost once stays lost.
LEMMA HistoryStays == [Next]_vars => (gap => gap') /\ (renumbered => renumbered')
<1> SUFFICES ASSUME [Next]_vars
             PROVE  (gap => gap') /\ (renumbered => renumbered')
  OBVIOUS
<1>1. CASE Clean \/ \E i \in Index : Get(i) \/ Commit(i)
  BY <1>1 DEF Get, Open, Commit, Clean, history
<1>12. CASE \E i \in Index : Truncate(i)
  <2>1. UNCHANGED <<gap, renumbered>>
    BY <1>12 DEF Truncate
  <2> QED BY <2>1, Zenon
<1>2. CASE LastEntry \/ FirstIndex
  BY <1>2 DEF LastEntry, FirstIndex, Open, history
<1>3. CASE AppendEntry
  BY <1>3, Zenon DEF AppendEntry
<1>4. CASE Refuse
  BY <1>4, Zenon DEF Refuse
<1>5. CASE Write \/ Roll
  BY <1>5 DEF Write, Roll, history
<1>6. CASE IndexEntry
  BY <1>6, Zenon DEF IndexEntry, history
<1>7. CASE BufferEntry
  BY <1>7, Zenon DEF BufferEntry
<1>8. CASE Skip
  BY <1>8, Zenon DEF Skip
<1>9. CASE Crash \/ StartFails
  BY <1>9 DEF Crash, StartFails, history
<1>10. CASE Start
  BY <1>10, Zenon DEF Start
<1>11. CASE UNCHANGED vars
  BY <1>11, Zenon DEF vars, history
<1> QED BY <1>1, <1>2, <1>3, <1>4, <1>5, <1>6, <1>7, <1>8, <1>9, <1>10, <1>11, <1>12
        DEF Next

LEMMA StoreInit == Init => StoreInv
<1> SUFFICES ASSUME Init PROVE StoreInv
  OBVIOUS
<1>1. /\ DOMAIN files = {1} /\ files[1] = <<>> /\ segments[1] = OpenSegment /\ current = 1
      /\ generator = 0 /\ call.at = "idle" /\ returned = {} /\ Len(<<>>) = 0
  BY DEF Init, Idle
<1>2. \A b \in DOMAIN files : Cells(b) = {}
  BY <1>1 DEF Cells
<1>3. FreshOK
  <2>1. LastOK
    BY <1>1, <1>2 DEF LastOK, OpenSegment
  <2> QED BY <1>1, <1>2, <2>1 DEF FreshOK, Ordered, Placed, TornOK, KeptOK, Pending
<1>4. DenseOK
  BY <1>1, <1>2 DEF DenseOK
<1> QED BY <1>3, <1>4, SoundInit DEF StoreInv

LEMMA StoreStep == StoreInv /\ [Next]_vars => StoreInv'
<1> SUFFICES ASSUME StoreInv, [Next]_vars PROVE StoreInv'
  OBVIOUS
<1>1. Sound /\ Sound'
  BY SoundStep DEF StoreInv
<1>2. SUFFICES ASSUME FreshOK, ~renumbered'
               PROVE  FreshOK' /\ (DenseOK /\ ~gap' => DenseOK')
  BY <1>1, HistoryStays DEF StoreInv
<1>3. CASE (\E i \in Index : Get(i)) \/ LastEntry \/ FirstIndex
  BY <1>1, <1>2, <1>3, ReadingOpens, FreshOpen
<1>4. CASE Refuse \/ Skip \/ StartFails \/ Clean \/ \E i \in Index : Truncate(i) \/ Commit(i)
  BY <1>1, <1>2, <1>4, FreshLight
<1>5. CASE AppendEntry \/ Write \/ IndexEntry \/ Roll \/ BufferEntry
  BY <1>1, <1>2, <1>5, FreshAppend, FreshWrite, FreshIndex, FreshRoll, FreshBuffer
<1>6. CASE Crash \/ Start
  BY <1>1, <1>2, <1>6, FreshCrash, FreshStart
<1>7. CASE UNCHANGED vars
  <2>1. UNCHANGED <<files, indexFiles, segments, current, generator, call, process, returned>>
    BY <1>7 DEF vars, disk, memory, history
  <2>2. FreshOK'
    BY <1>2, <2>1 DEF FreshOK, Ordered, Placed, TornOK, LastOK, KeptOK, Indexed, Pending,
       Cells, Writable
  <2>3. ASSUME DenseOK PROVE DenseOK'
    BY <2>1, <2>3 DEF DenseOK, Cells, Writable
  <2> QED BY <2>2, <2>3
<1> QED BY <1>3, <1>4, <1>5, <1>6, <1>7 DEF Next

LEMMA StoreSafety == Spec => []StoreInv
  BY StoreInit, StoreStep, PTL DEF Spec

\* Of two records the later one has the greater index.
LEMMA OneRecord ==
  ASSUME Sound, Ordered, Placed, NEW b \in DOMAIN files, NEW j \in Cells(b),
         NEW c \in DOMAIN files, NEW k \in Cells(c), files[b][j] # Torn, files[c][k] # Torn,
         files[b][j].index = files[c][k].index
  PROVE  b = c /\ j = k
<1>1. b \in Nat /\ c \in Nat /\ j \in Nat /\ k \in Nat /\ files[b][j].index \in Int
  BY Numbers
<1>2. ~ (b < c)
  BY <1>1, Numbers DEF Placed
<1>3. ~ (c < b)
  BY <1>1, Numbers DEF Placed
<1>4. b = c
  BY <1>1, <1>2, <1>3
<1>5. ~ (j < k)
  BY <1>1, <1>4 DEF Ordered
<1>6. ~ (k < j)
  BY <1>1, <1>4 DEF Ordered
<1> QED BY <1>1, <1>4, <1>5, <1>6

\* As long as no start began anew at 0, an append gets an index greater than
\* every index on disk, and no two records have the same.
THEOREM FreshIndexes == Spec => []IndexIsFresh
<1>1. StoreInv => IndexIsFresh
  <2> SUFFICES ASSUME Sound, FreshOK, process = "up"
               PROVE  /\ \A e \in Stored : e.index <= generator
                      /\ \A e, f \in Stored : e.index = f.index => e = f
    BY DEF StoreInv, IndexIsFresh
  <2>1. \A e \in Stored : e.index <= generator
    BY StoredFacts DEF FreshOK, LastOK
  <2>2. ASSUME NEW e \in Stored, NEW f \in Stored, e.index = f.index PROVE e = f
    <3>1. PICK b \in DOMAIN files : \E j \in Cells(b) : e = files[b][j] /\ e # Torn
      BY StoredFacts
    <3>2. PICK j \in Cells(b) : e = files[b][j] /\ e # Torn
      BY <3>1
    <3>3. PICK c \in DOMAIN files : \E k \in Cells(c) : f = files[c][k] /\ f # Torn
      BY StoredFacts
    <3>4. PICK k \in Cells(c) : f = files[c][k] /\ f # Torn
      BY <3>3
    <3>5. b = c /\ j = k
      BY <2>2, <3>2, <3>4, OneRecord DEF FreshOK
    <3> QED BY <3>2, <3>4, <3>5
  <2> QED BY <2>1, <2>2
<1> QED BY <1>1, StoreSafety, PTL

\* Without gaps the segment an index belongs to has its record in its slot.
LEMMA DenseReads ==
  ASSUME Sound, FreshOK, DenseOK, NEW b \in DOMAIN files, NEW k \in Slots,
         k \in Cells(b), indexFiles[b][k] # Blank, files[b][k].index \in Index
  PROVE  LET i == files[b][k].index
         IN HasSegment(i) /\ ReadSegment(Floor(i), i) = files[b][k]
<1> USE DEF Sound
<1> DEFINE i == files[b][k].index
<1>1. Tells(b, k)
  BY DEF SlotsOK
<1>2. i = b + k - 1 /\ b <= i /\ \A c \in DOMAIN files : b < c => i < c
  BY <1>1 DEF Tells, DenseOK, FreshOK, Placed
<1>3. b \in Nat /\ k \in Nat /\ k >= 1 /\ k <= MaxSegmentEntries /\ i \in Nat /\ b >= 1
  BY Numbers, Bounds DEF Slots
<1> HIDE DEF i
<1>4. HasSegment(i) /\ Floor(i) = b
  <2>1. HasSegment(i)
    BY <1>2 DEF HasSegment, MemoryOK
  <2>2. Floor(i) \in DOMAIN files /\ Floor(i) <= i /\ b <= Floor(i)
    BY <1>2, <2>1, FloorFacts DEF i
  <2>3. Floor(i) \in Nat /\ ~ (b < Floor(i))
    BY <1>2, <1>3, <2>2, Numbers
  <2> QED BY <1>3, <2>1, <2>2, <2>3
<1>5. k = i - b + 1 /\ indexFiles[b][k] = [index |-> i, position |-> k - 1]
  BY <1>1, <1>2, <1>3 DEF Tells, i
<1>6. ~Misses(b, i)
  <2>1. ~ (k > Opened(b).entries)
    BY <1>3, OpenedFacts, Bounds
  <2>2. k \in 1 .. i - b + 1 /\ ~ (indexFiles[b][k].index > i)
    BY <1>3, <1>5
  <2>3. i - b + 1 = k
    BY <1>5
  <2> QED BY <2>1, <2>2, <2>3 DEF Misses
<1>7. Lookup(b, i) = indexFiles[b][k]
  <2>1. PICK l \in Slots :
          /\ l <= i - b + 1 /\ Lookup(b, i) = indexFiles[b][l]
          /\ \A j \in Slots : j <= i - b + 1 /\ indexFiles[b][j].index <= i => j <= l
    BY <1>2, <1>6, LookupFacts DEF i
  <2>2. k <= l
    BY <1>3, <1>5, <2>1
  <2>3. l = k
    BY <1>3, <1>5, <2>1, <2>2, Bounds DEF Slots
  <2> QED BY <2>1, <2>3
<1>8. ReadSegment(b, i) = files[b][k]
  <2>1. Lookup(b, i).index = i /\ Lookup(b, i).position + 1 = k
    BY <1>3, <1>5, <1>7
  <2> QED BY <1>6, <2>1 DEF ReadSegment
<1> QED BY <1>4, <1>8 DEF i

\* An entry whose append has returned is found under its index, in the buffer
\* or on disk, across clean-up, truncation, rolling, crashes and starts.
THEOREM FoundSafety == Spec => []ReturnedIsFound
<1>1. StoreInv => ReturnedIsFound
  <2> SUFFICES ASSUME Sound, FreshOK, DenseOK, NEW e \in returned
               PROVE  Read(e.index) = e
    BY DEF StoreInv, ReturnedIsFound
  <2>1. PICK b \in DOMAIN files : \E k \in Slots :
          k \in Cells(b) /\ files[b][k] = e /\ indexFiles[b][k] # Blank
    BY DEF FreshOK, KeptOK, Indexed
  <2>2. PICK k \in Slots : k \in Cells(b) /\ files[b][k] = e /\ indexFiles[b][k] # Blank
    BY <2>1
  <2>3. e.index \in Index /\ e # Torn
    <3>1. e \in Entry /\ e.index >= 1
      BY DEF Sound, CountsOK
    <3> QED BY <3>1 DEF Entry, Torn
  <2>4. CASE e.index \in DOMAIN buffer
    <3> DEFINE f == buffer[e.index]
    <3>1. f \in returned /\ f.index = e.index /\ Read(e.index) = f
      BY <2>4 DEF Sound, MemoryOK, Read
    <3> HIDE DEF f
    <3>2. Indexed(f)
      BY <3>1 DEF FreshOK, KeptOK
    <3>3. PICK c \in DOMAIN files : \E l \in Slots : l \in Cells(c) /\ files[c][l] = f
      BY <3>2 DEF Indexed
    <3>4. PICK l \in Slots : l \in Cells(c) /\ files[c][l] = f
      BY <3>3
    <3>5. f # Torn
      <4>1. f \in handed /\ f.index >= 1
        BY <3>1 DEF Sound, CountsOK
      <4> QED BY <4>1 DEF Torn
    <3>6. b = c /\ k = l
      BY <2>2, <2>3, <3>1, <3>4, <3>5, OneRecord DEF FreshOK
    <3> QED BY <2>2, <3>1, <3>4, <3>6
  <2>5. CASE e.index \notin DOMAIN buffer
    <3>1. HasSegment(e.index) /\ ReadSegment(Floor(e.index), e.index) = e
      BY <2>2, <2>3, DenseReads
    <3> QED BY <2>5, <3>1 DEF Read
  <2> QED BY <2>4, <2>5
<1> QED BY <1>1, StoreSafety, PTL

\* lastEntry returns nothing older than anything in the buffer or, if that is
\* empty, than anything returned in the current segment.
THEOREM NewestSafety == Spec => []LastIsNewest
<1>1. StoreInv => LastIsNewest
  <2> SUFFICES ASSUME Sound, FreshOK, Last # NoEntry
               PROVE  /\ \A i \in DOMAIN buffer : i <= Last.index
                      /\ DOMAIN buffer = {} =>
                           \A e \in Range(files[current]) :
                              e.index <= Last.index \/ e \notin returned
    BY DEF StoreInv, LastIsNewest
  <2> DEFINE slot == indexFiles[current][Opened(current).entries]
  <2>1. Last = IF DOMAIN buffer # {} THEN buffer[Max(DOMAIN buffer)]
               ELSE IF slot.index > 0 THEN ReadSegment(current, slot.index) ELSE NoEntry
    BY DEF Last
  <2>2. ASSUME DOMAIN buffer # {} PROVE \A i \in DOMAIN buffer : i <= Last.index
    <3>1. DOMAIN buffer \subseteq 0 .. MaxAppends + MaxSkips /\ MaxAppends + MaxSkips \in Nat
      BY Bounds DEF Sound, MemoryOK, Index
    <3>2. Max(DOMAIN buffer) \in DOMAIN buffer /\ \A i \in DOMAIN buffer : i <= Max(DOMAIN buffer)
      BY <2>2, <3>1, MaxFacts
    <3>3. Last.index = Max(DOMAIN buffer)
      BY <2>1, <2>2, <3>2 DEF Sound, MemoryOK
    <3> QED BY <3>2, <3>3
  <2>3. ASSUME DOMAIN buffer = {}, NEW e \in Range(files[current]), e \in returned
        PROVE  e.index <= Last.index
    <3>1. /\ current \in DOMAIN files /\ current \in Nat /\ current >= 1
          /\ MaxSegmentEntries \in Slots /\ slot = indexFiles[current][MaxSegmentEntries]
      BY Numbers, OpenedFacts, Bounds DEF Sound, Slots
    <3> HIDE DEF slot
    <3>2. slot.index > 0 /\ Last = ReadSegment(current, slot.index)
      BY <2>1, <2>3
    <3>3. Tells(current, MaxSegmentEntries)
      BY <3>1, <3>2 DEF Sound, SlotsOK, Blank
    <3> DEFINE top == files[current][MaxSegmentEntries]
    <3>4. top # Torn /\ slot.index = top.index /\ MaxSegmentEntries \in Cells(current)
      BY <3>1, <3>3 DEF Tells
    <3>5. slot.index \in Index /\ current <= slot.index
      BY <3>1, <3>4, Numbers DEF Sound, DiskOK, Slot, FreshOK, Placed
    <3>6. Last.index = slot.index
      BY <3>1, <3>2, <3>5, SegmentReads
    <3>7. PICK b \in DOMAIN files : \E k \in Slots : k \in Cells(b) /\ files[b][k] = e
      BY <2>3 DEF FreshOK, KeptOK, Indexed
    <3>8. PICK k \in Slots : k \in Cells(b) /\ files[b][k] = e
      BY <3>7
    <3>9. e # Torn
      <4>1. e \in handed /\ e.index >= 1
        BY <2>3 DEF Sound, CountsOK
      <4> QED BY <4>1 DEF Torn
    <3>10. PICK j \in Cells(current) : e = files[current][j]
      <4>1. files[current] \in Seq(Record)
        BY <3>1, Numbers
      <4>2. PICK j \in DOMAIN files[current] : e = files[current][j]
        BY DEF Range
      <4> QED BY <4>1, <4>2 DEF Cells
    <3>11. b = current /\ k = j
      BY <3>1, <3>8, <3>9, <3>10, OneRecord DEF FreshOK
    <3>12. j \in Nat /\ j <= MaxSegmentEntries /\ e.index \in Int /\ top.index \in Int
      BY <3>1, <3>4, <3>8, <3>10, <3>11, Numbers, Bounds DEF Slots
    <3>13. CASE j = MaxSegmentEntries
      BY <3>4, <3>6, <3>10, <3>12, <3>13
    <3>14. CASE j < MaxSegmentEntries
      BY <3>1, <3>4, <3>6, <3>9, <3>10, <3>12, <3>14 DEF FreshOK, Ordered
    <3> QED BY <3>12, <3>13, <3>14, Bounds
  <2> QED BY <2>2, <2>3
<1> QED BY <1>1, StoreSafety, PTL
=============================================================================
