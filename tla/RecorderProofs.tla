----------------------------- MODULE RecorderProofs -----------------------------
(***************************************************************************)
(* Theorems about Recorder, for every chain, every number of rounds to a   *)
(* poll and any number of ends of the program.                             *)
(*                                                                         *)
(* RecorderInv says where the rows of the poll's window are while the      *)
(* program goes from its events to the watermark file: still to be         *)
(* emitted, in the list in memory, or in the CSV file; and that the list   *)
(* is sorted by round, so that the file never has a hole.  BrokenInv       *)
(* counts a line that was left open as one that may still be broken;       *)
(* ListInv says that the list has no row twice, and CopiesInv how many     *)
(* copies of a row there may be while the poll that writes it goes on.     *)
(***************************************************************************)
EXTENDS Recorder, SyncWindowProofs, FiniteSetTheorems

Round(row) == RoundOf[row[1]]

\* The rounds of the poll in progress.
InWindow(r) == wm < r /\ r <= NewWatermark(Config, wm, cur)

InRows(row, rows) == \E k \in 1..Len(rows) : rows[k] = row

Polling == {"status", "poll", "emit", "append", "truncate", "write"}

\* What the watermark file says, and when.
FileInv ==
    /\ file \in Nat => file = acked
    /\ pc \notin {"down", "create"} => file # Missing
    /\ file = Missing \/ pc \in {"create", "initial"} => acked = InitialRound
    /\ pc \in Polling => acked = wm

\* The list holds the rows of the window, in the order of their rounds.
MemoryInv ==
    /\ pc \in {"down", "create", "initial", "get", "status", "poll", "rest"} => memory = <<>>
    /\ pc \in {"emit", "append"} =>
          /\ \A k \in 1..Len(memory) : InWindow(Round(memory[k]))
          /\ \A j, k \in 1..Len(memory) : j < k => Round(memory[j]) <= Round(memory[k])
    /\ pc = "emit" =>
          \A t \in queue : \A k \in 1..Len(memory) : Round(memory[k]) <= RoundOf[t]

\* No row of the window is lost on its way to the file.
WindowInv ==
    /\ pc = "emit" => \A t \in queue : InWindow(RoundOf[t])
    /\ pc = "emit" => \A row \in TrackedRows :
          InWindow(Round(row)) => row[1] \in queue \/ InRows(row, memory)
    /\ pc = "append" => \A row \in TrackedRows :
          InWindow(Round(row)) => InRows(row, memory)
    /\ pc = "append" =>
          written <= Len(memory) /\ \A k \in 1..written : memory[k] \in Recorded
    /\ pc \in {"truncate", "write"} => \A row \in TrackedRows :
          InWindow(Round(row)) => row \in Recorded

RecorderInv == TypeOK /\ FileInv /\ MemoryInv /\ WindowInv /\ NoRowMissing

-------------------------------------------------------------------------------
(* The operators of the model. *)

\* A row is a transaction and the place of one of its balance changes.
LEMMA RowType ==
    ASSUME NEW row \in Row
    PROVE  /\ row[1] \in Txns /\ row[2] \in DOMAIN Changes[row[1]]
           /\ row = <<row[1], row[2]>>
           /\ Round(row) \in Nat \ {0}
  BY RecorderTxnsAssumption DEF RecorderTxnsAssumption, Row, Round

\* The list that a transaction adds to the one in memory.
LEMMA RowsOfType ==
    ASSUME NEW t \in Txns
    PROVE  /\ RowsOf(t) \in Seq(Row)
           /\ \A k \in 1..Len(RowsOf(t)) : RowsOf(t)[k][1] = t
           /\ \A row \in Row : row[1] = t => InRows(row, RowsOf(t))
<1>1. Changes[t] \in Seq(STRING)
  BY RecorderTxnsAssumption DEF RecorderTxnsAssumption
<1>2. DOMAIN Changes[t] = 1..Len(Changes[t]) /\ Len(Changes[t]) \in Nat
  BY <1>1
<1>3. \A k \in DOMAIN Changes[t] : <<t, k>> \in Row
  BY DEF Row
<1>4. RowsOf(t) \in Seq(Row) /\ Len(RowsOf(t)) = Len(Changes[t])
  BY <1>2, <1>3 DEF RowsOf
<1>5. \A k \in 1..Len(RowsOf(t)) : RowsOf(t)[k] = <<t, k>>
  BY <1>2, <1>4 DEF RowsOf
<1>6. ASSUME NEW row \in Row, row[1] = t PROVE InRows(row, RowsOf(t))
  <2>1. row[2] \in 1..Len(RowsOf(t)) /\ row = <<t, row[2]>>
    BY <1>2, <1>4, <1>6, RowType
  <2> QED
    BY <2>1, <1>5 DEF InRows
<1> QED
  BY <1>4, <1>5, <1>6

\* A program that syncs the oldest rounds reads those after its watermark up
\* to the watermark it leaves, from algod.
LEMMA WindowIsRead ==
    ASSUME wm \in Nat, cur \in Nat
    PROVE  /\ NewWatermark(Config, wm, cur) \in Nat /\ wm <= NewWatermark(Config, wm, cur)
           /\ \A r \in Nat : r \in AlgodRounds(Config, wm, cur) <=> InWindow(r)
  BY RecorderBoundsAssumption DEF RecorderBoundsAssumption, Config, InWindow, NewWatermark,
      AtTip, EndRound, SyncsOldest, TooFarBehind, IndexerCapped, CatchesUp, AlgodRounds,
      AlgodFrom, StartRound, SkipsToNewest, IndexerTo

\* What is in the CSV file, line by line.
LEMMA RecordedIs ==
    ASSUME NEW row
    PROVE  row \in Recorded <=> \E i \in DOMAIN csv : \E k \in DOMAIN csv[i] : csv[i][k] = row
  BY DEF Recorded, Range

\* A write adds the next row of the list to the file, in a line of its own
\* or not, and takes none out of it.
LEMMA AppendRecords ==
    ASSUME TypeOK, AppendRow
    PROVE  /\ memory[written + 1] \in Row
           /\ csv' \in Seq(Seq(Row)) /\ csv' # <<>>
           /\ Recorded' = Recorded \cup {memory[written + 1]}
<1> DEFINE row == memory[written + 1]
<1>1. row \in Row
  BY DEF TypeOK, AppendRow
<1>2. csv \in Seq(Seq(Row)) /\ (open => csv # <<>>)
  BY DEF TypeOK
<1>w. \A i \in DOMAIN csv' : \A k \in DOMAIN csv'[i] : csv'[i][k] \in Recorded'
  BY DEF Recorded, Range
<1>r. ASSUME NEW x PROVE x \in Recorded' <=> \E i \in DOMAIN csv' : \E k \in DOMAIN csv'[i] : csv'[i][k] = x
  BY DEF Recorded, Range
<1>3. CASE open /\ written = 0
  <2>1. csv' = [csv EXCEPT ![Len(csv)] = Append(csv[Len(csv)], row)]
    BY <1>3 DEF AppendRow
  <2> DEFINE n == Len(csv)
             line == csv[n]
  <2>2. n \in Nat \ {0} /\ DOMAIN csv = 1..n /\ line \in Seq(Row)
    BY <1>2, <1>3
  <2> HIDE DEF row, n
  <2>3. Append(line, row) \in Seq(Row) /\ Len(Append(line, row)) = Len(line) + 1
    BY <1>1, <2>2
  <2>4. /\ csv' \in Seq(Seq(Row)) /\ Len(csv') = n /\ DOMAIN csv' = 1..n
        /\ csv'[n] = Append(line, row) /\ \A i \in 1..n : i # n => csv'[i] = csv[i]
    <3> DEFINE longer == Append(line, row)
               S == Seq(Row)
    <3>1. longer \in S /\ csv \in Seq(S) /\ n = Len(csv) /\ n \in 1..n
      BY <1>2, <2>2, <2>3 DEF n
    <3>2. csv' = [csv EXCEPT ![n] = longer]
      BY <2>1 DEF n
    <3> HIDE DEF longer, S
    <3>3. csv' \in Seq(S) /\ Len(csv') = n /\ DOMAIN csv' = 1..n
      BY <3>1, <3>2, <2>2
    <3>4. csv'[n] = longer /\ \A i \in 1..n : i # n => csv'[i] = csv[i]
      BY <3>1, <3>2, <2>2
    <3> QED
      BY <3>3, <3>4 DEF longer, S
  <2>5. /\ DOMAIN Append(line, row) = 1..(Len(line) + 1) /\ DOMAIN line = 1..Len(line)
        /\ Append(line, row)[Len(line) + 1] = row
        /\ \A k \in 1..Len(line) : Append(line, row)[k] = line[k]
    BY <1>1, <2>2
  <2>6. ASSUME NEW x \in Recorded' PROVE x \in Recorded \cup {row}
    <3>1. PICK i \in 1..n : \E k \in DOMAIN csv'[i] : csv'[i][k] = x
      BY <1>r, <2>4, <2>6
    <3>2. CASE i # n
      BY <3>1, <3>2, <2>4, <2>2, RecordedIs
    <3>3. CASE i = n
      <4>1. PICK k \in DOMAIN Append(line, row) : Append(line, row)[k] = x
        BY <3>1, <3>3, <2>4
      <4>2. CASE k = Len(line) + 1
        BY <4>1, <4>2, <2>5
      <4>3. CASE k # Len(line) + 1
        <5>1. Len(line) \in Nat
          BY <2>2
        <5>2. k \in 1..Len(line) /\ k \in DOMAIN line
          BY <5>1, <4>1, <4>3, <2>5
        <5>3. line[k] = x
          BY <4>1, <5>2, <2>5
        <5> QED
          BY <5>2, <5>3, <2>2, RecordedIs
      <4> QED
        BY <4>2, <4>3
    <3> QED
      BY <3>2, <3>3
  <2>7. ASSUME NEW x \in Recorded PROVE x \in Recorded'
    <3>1. PICK i \in 1..n : \E k \in DOMAIN csv[i] : csv[i][k] = x
      BY <2>2, <2>7, RecordedIs
    <3>2. CASE i # n
      BY <3>1, <3>2, <2>4, <1>r
    <3>3. CASE i = n
      <4>1. PICK k \in 1..Len(line) : csv'[n][k] = x /\ k \in DOMAIN csv'[n]
        BY <3>1, <3>3, <2>4, <2>5, <2>2
      <4> QED
        BY <4>1, <2>2, <2>4, <1>w, SMTT(20)
    <3> QED
      BY <3>2, <3>3
  <2>8. row \in Recorded'
    <3>1. Len(line) + 1 \in DOMAIN csv'[n] /\ csv'[n][Len(line) + 1] = row
      BY <2>2, <2>4, <2>5
    <3> QED
      BY <3>1, <2>2, <2>4, <1>w
  <2>9. csv' # <<>>
    BY <2>2, <2>4
  <2> QED
    BY <1>1, <2>4, <2>6, <2>7, <2>8, <2>9 DEF row
<1>4. CASE ~(open /\ written = 0)
  <2>1. csv' = Append(csv, <<row>>)
    BY <1>4 DEF AppendRow
  <2> HIDE DEF row
  <2>2. <<row>> \in Seq(Row) /\ DOMAIN <<row>> = {1} /\ <<row>>[1] = row
    BY <1>1
  <2>3. /\ csv' \in Seq(Seq(Row)) /\ Len(csv') = Len(csv) + 1 /\ Len(csv) \in Nat
        /\ DOMAIN csv' = 1..(Len(csv) + 1) /\ DOMAIN csv = 1..Len(csv)
        /\ csv'[Len(csv) + 1] = <<row>> /\ \A i \in 1..Len(csv) : csv'[i] = csv[i]
    BY <1>2, <2>1, <2>2
  <2>4. ASSUME NEW x \in Recorded' PROVE x \in Recorded \cup {row}
    <3>1. PICK i \in 1..(Len(csv) + 1) : \E k \in DOMAIN csv'[i] : csv'[i][k] = x
      BY <1>r, <2>3, <2>4
    <3>2. CASE i = Len(csv) + 1
      BY <3>1, <3>2, <2>2, <2>3
    <3>3. CASE i \in 1..Len(csv)
      BY <3>1, <3>3, <2>3, RecordedIs
    <3> QED
      BY <2>3, <3>2, <3>3
  <2>5. ASSUME NEW x \in Recorded PROVE x \in Recorded'
    BY <1>r, <2>3, <2>5, RecordedIs
  <2>6. row \in Recorded'
    BY <1>r, <2>2, <2>3, SMTT(20)
  <2>7. csv' # <<>>
    BY <2>3
  <2> QED
    BY <1>1, <2>3, <2>4, <2>5, <2>6, <2>7 DEF row
<1> QED
  BY <1>3, <1>4

\* The list after a transaction is emitted.
LEMMA MemoryGrows ==
    ASSUME TypeOK, NEW t \in Txns, memory' = memory \o RowsOf(t)
    PROVE  /\ memory' \in Seq(Row) /\ Len(memory) \in Nat
           /\ Len(memory') \in Nat /\ Len(memory) <= Len(memory')
           /\ \A k \in 1..Len(memory) : memory'[k] = memory[k]
           /\ \A k \in 1..Len(memory') : k > Len(memory) => memory'[k][1] = t
           /\ \A row \in Row : row[1] = t => \E k \in 1..Len(memory') : memory'[k] = row
<1>1. memory \in Seq(Row) /\ RowsOf(t) \in Seq(Row)
  BY RowsOfType DEF TypeOK
<1> DEFINE rows == RowsOf(t)
<1>2. /\ \A k \in 1..Len(rows) : rows[k][1] = t
      /\ \A row \in Row : row[1] = t => \E k \in 1..Len(rows) : rows[k] = row
  BY RowsOfType DEF InRows
<1> HIDE DEF rows
<1>3. /\ memory' = memory \o rows /\ rows \in Seq(Row)
  BY <1>1 DEF rows
<1>4. /\ memory' \in Seq(Row) /\ Len(memory) \in Nat /\ Len(rows) \in Nat
      /\ Len(memory') = Len(memory) + Len(rows)
      /\ \A k \in 1..Len(memory) : memory'[k] = memory[k]
      /\ \A k \in 1..Len(rows) : memory'[Len(memory) + k] = rows[k]
  BY <1>1, <1>3
<1>5. ASSUME NEW k \in 1..Len(memory'), k > Len(memory) PROVE memory'[k][1] = t
  <2>1. k - Len(memory) \in 1..Len(rows) /\ k = Len(memory) + (k - Len(memory))
    BY <1>4, <1>5
  <2> QED
    BY <2>1, <1>2, <1>4
<1>6. ASSUME NEW row \in Row, row[1] = t PROVE \E k \in 1..Len(memory') : memory'[k] = row
  <2>1. PICK k \in 1..Len(rows) : rows[k] = row
    BY <1>2, <1>6
  <2>2. Len(memory) + k \in 1..Len(memory')
    BY <1>4
  <2> QED
    BY <2>1, <2>2, <1>4
<1> QED
  BY <1>4, <1>5, <1>6, SMTT(20)

-------------------------------------------------------------------------------
(* The invariant. *)

\* There is no file at the start.
LEMMA InitRecorderInv == Init => RecorderInv
<1> SUFFICES ASSUME Init PROVE RecorderInv
  OBVIOUS
<1>1. TypeOK
  BY RecorderBoundsAssumption DEF Init, TypeOK, Labels, Missing, Empty, RecorderBoundsAssumption
<1>2. FileInv /\ MemoryInv /\ WindowInv
  BY DEF Init, FileInv, MemoryInv, WindowInv, Missing, Polling
<1>3. NoRowMissing
  BY RowType, RecorderBoundsAssumption
  DEF Init, NoRowMissing, TrackedRows, Round, RecorderBoundsAssumption
<1> QED
  BY <1>1, <1>2, <1>3 DEF RecorderInv

\* Each step keeps the types.
LEMMA NextType ==
    ASSUME TypeOK, FileInv, Next PROVE TypeOK'
<1>p. pc' \in Labels
  BY DEF Next, TypeOK, Labels, NewBlock, StartProgram, CreateFile, WriteInitial, GetWatermark,
     CannotRead, GetStatus, Poll, RecordTransaction, EmitsEnd, AppendRow, EndAppend, Truncate,
     WriteWatermark, Clear, Rest, Crash
<1>n. InitialRound \in Nat /\ Missing \notin Nat /\ Empty \notin Nat
  BY RecorderBoundsAssumption DEF RecorderBoundsAssumption, Missing, Empty
<1>1. CASE AppendRow
  <2>1. csv' \in Seq(Seq(Row)) /\ csv' # <<>>
    BY <1>1, AppendRecords
  <2> QED
    BY <1>1, <1>p, <2>1 DEF TypeOK, AppendRow, locals
<1>2. CASE RecordTransaction
  <2>1. PICK t \in queue : memory' = memory \o RowsOf(t) /\ queue' = queue \ {t}
    BY <1>2 DEF RecordTransaction
  <2>2. memory' \in Seq(Row)
    BY <2>1, MemoryGrows DEF TypeOK
  <2> QED
    BY <1>2, <1>p, <2>1, <2>2 DEF TypeOK, RecordTransaction, files
<1>3. CASE NewBlock \/ StartProgram \/ CannotRead \/ Rest
  <2>1. CASE NewBlock
    BY <2>1, <1>p DEF TypeOK, NewBlock, files, locals
  <2>2. CASE StartProgram
    BY <2>2, <1>p DEF TypeOK, StartProgram, files, locals
  <2>3. CASE CannotRead \/ Rest
    BY <2>3, <1>p DEF TypeOK, CannotRead, Rest, files, locals
  <2> QED
    BY <1>3, <2>1, <2>2, <2>3
<1>4. CASE CreateFile \/ WriteInitial \/ Truncate
  BY <1>4, <1>p, <1>n, SMTT(20) DEF TypeOK, CreateFile, WriteInitial, Truncate, locals
<1>5. CASE GetWatermark \/ GetStatus \/ Poll \/ EmitsEnd
  BY <1>5, <1>p, <1>n, SMTT(20) DEF TypeOK, FileInv, GetWatermark, GetStatus, Poll, EmitsEnd, files, locals
<1>6. CASE EndAppend
  BY <1>6, <1>p DEF TypeOK, EndAppend, locals
<1>7. CASE Clear \/ Crash
  <2>1. memory' = <<>> /\ queue' \subseteq queue
    BY <1>7 DEF Clear, Crash, locals
  <2> QED
    BY <1>7, <1>p, <2>1, SMTT(20) DEF TypeOK, Clear, Crash, files, locals
<1>8. CASE WriteWatermark
  <2>1. NewWatermark(Config, wm, cur) \in Nat
    BY WindowIsRead DEF TypeOK
  <2> QED
    BY <1>8, <1>p, <2>1 DEF TypeOK, WriteWatermark, locals
<1> QED
  BY <1>1, <1>2, <1>3, <1>4, <1>5, <1>6, <1>7, <1>8 DEF Next

\* Each step keeps the file at the acknowledged round.
LEMMA NextFileInv ==
    ASSUME TypeOK, FileInv, Next PROVE FileInv'
<1>1. CASE NewBlock \/ RecordTransaction \/ AppendRow
  BY <1>1 DEF FileInv, NewBlock, RecordTransaction, AppendRow, files, locals
<1>2. CASE StartProgram \/ CreateFile \/ WriteInitial \/ CannotRead \/ Rest \/ Crash
  BY <1>2, RecorderBoundsAssumption, SMTT(20) DEF FileInv, TypeOK, StartProgram, CreateFile, WriteInitial,
     CannotRead, Rest, Crash, files, locals, Polling, Missing, Empty, RecorderBoundsAssumption
<1>3. CASE GetWatermark \/ GetStatus \/ Poll \/ EmitsEnd \/ EndAppend \/ Truncate \/ Clear
  BY <1>3 DEF FileInv, TypeOK, GetWatermark, GetStatus, Poll, EmitsEnd, EndAppend, Truncate,
     Clear, files, locals, Polling, Missing, Empty
<1>4. CASE WriteWatermark
  BY <1>4, WindowIsRead DEF FileInv, TypeOK, WriteWatermark, Polling, Missing, Empty
<1> QED
  BY <1>1, <1>2, <1>3, <1>4 DEF Next

\* The steps that leave the list, the queue and the window as they are.
LEMMA MemoryUntouched ==
    ASSUME TypeOK, MemoryInv, NewBlock \/ StartProgram \/ CreateFile \/ WriteInitial
               \/ GetWatermark \/ CannotRead \/ GetStatus \/ EmitsEnd \/ AppendRow \/ EndAppend
               \/ Truncate \/ WriteWatermark \/ Clear \/ Crash
    PROVE  MemoryInv'
<1>1. CASE NewBlock \/ AppendRow \/ EmitsEnd
  BY <1>1 DEF MemoryInv, NewBlock, AppendRow, EmitsEnd, locals, InWindow, Round
<1>2. CASE StartProgram \/ CreateFile \/ WriteInitial \/ GetWatermark \/ CannotRead \/ GetStatus
  BY <1>2 DEF MemoryInv, StartProgram, CreateFile, WriteInitial, GetWatermark, CannotRead,
     GetStatus, locals
<1>3. CASE EndAppend \/ Truncate \/ WriteWatermark \/ Clear \/ Crash
  BY <1>3 DEF MemoryInv, EndAppend, Truncate, WriteWatermark, Clear, Crash, locals
<1> QED
  BY <1>1, <1>2, <1>3

\* Each step keeps the list in the order of the rounds.
LEMMA NextMemoryInv ==
    ASSUME TypeOK, MemoryInv, WindowInv, Next PROVE MemoryInv'
<1>1. CASE Poll
  BY <1>1 DEF MemoryInv, Poll
<1>2. CASE Rest
  BY <1>2 DEF MemoryInv, Rest
<1>3. CASE RecordTransaction
  <2>1. PICK t \in queue : /\ \A u \in queue : RoundOf[t] <= RoundOf[u]
                           /\ memory' = memory \o RowsOf(t) /\ queue' = queue \ {t}
    BY <1>3 DEF RecordTransaction
  <2>2. t \in Txns /\ RoundOf[t] \in Nat /\ pc = "emit" /\ UNCHANGED <<pc, wm, cur>>
    BY <1>3, RecorderTxnsAssumption DEF TypeOK, RecordTransaction, RecorderTxnsAssumption
  <2>3. /\ memory' \in Seq(Row) /\ Len(memory) \in Nat /\ Len(memory') \in Nat
        /\ \A k \in 1..Len(memory) : memory'[k] = memory[k]
        /\ \A k \in 1..Len(memory') : k > Len(memory) => memory'[k][1] = t
    BY <2>1, <2>2, MemoryGrows
  <2>4. \A k \in 1..Len(memory') : Round(memory'[k]) \in Nat
    <3>1. \A k \in 1..Len(memory') : memory'[k] \in Row
      BY <2>3
    <3> QED
      BY <3>1, RowType
  <2> DEFINE old(k) == k <= Len(memory) /\ memory'[k] = memory[k] /\ k \in 1..Len(memory)
             new(k) == k > Len(memory) /\ Round(memory'[k]) = RoundOf[t]
  <2>5. \A k \in 1..Len(memory') : old(k) \/ new(k)
    BY <2>3 DEF Round
  <2>6. InWindow(RoundOf[t])
    BY <2>1, <2>2 DEF WindowInv
  <2>7. \A k \in 1..Len(memory') : InWindow(Round(memory'[k]))
    BY <2>2, <2>5, <2>6 DEF MemoryInv
  <2>8. \A k \in 1..Len(memory') : Round(memory'[k]) <= RoundOf[t]
    BY <2>1, <2>2, <2>5 DEF MemoryInv
  <2>9. ASSUME NEW j \in 1..Len(memory'), NEW k \in 1..Len(memory'), j < k
        PROVE  Round(memory'[j]) <= Round(memory'[k])
    <3>1. CASE new(k)
      BY <3>1, <2>8
    <3>2. CASE old(k)
      <4>1. old(j)
        BY <2>3, <2>5, <2>9, <3>2
      <4> QED
        BY <2>2, <2>9, <3>2, <4>1 DEF MemoryInv
    <3> QED
      BY <2>5, <3>1, <3>2
  <2>10. ASSUME NEW u \in queue', NEW k \in 1..Len(memory')
         PROVE  Round(memory'[k]) <= RoundOf[u]
    <3>1. u \in queue /\ RoundOf[u] \in Nat
      BY <2>1, <2>10, RecorderTxnsAssumption DEF TypeOK, RecorderTxnsAssumption
    <3> QED
      BY <2>1, <2>2, <2>4, <2>8, <3>1
  <2>11. \A r \in Nat : InWindow(r)' <=> InWindow(r)
    BY <2>2 DEF InWindow
  <2>12. \A k \in 1..Len(memory') : InWindow(Round(memory[k]))'
    BY <2>4, <2>7, <2>2 DEF InWindow, Round
  <2> QED
    BY <2>2, <2>9, <2>10, <2>12 DEF MemoryInv, Round
<1> QED
  BY <1>1, <1>2, <1>3, MemoryUntouched DEF Next

\* Each step keeps the rows of the window.
LEMMA NextWindowInv ==
    ASSUME TypeOK, MemoryInv, WindowInv, Next PROVE WindowInv'
<1>1. CASE NewBlock
  BY <1>1 DEF WindowInv, NewBlock, files, locals, InWindow, Round, Recorded, InRows
<1>2. CASE StartProgram \/ CreateFile \/ WriteInitial \/ GetWatermark \/ CannotRead
           \/ GetStatus \/ WriteWatermark \/ Clear \/ Rest \/ Crash
  BY <1>2 DEF WindowInv, StartProgram, CreateFile, WriteInitial, GetWatermark, CannotRead,
     GetStatus, WriteWatermark, Clear, Rest, Crash
<1>3. CASE Poll
  <2>1. queue' = {t \in Txns : RoundOf[t] \in AlgodRounds(Config, wm, cur) /\ IsTracked(t)}
    BY <1>3 DEF Poll
  <2>2. pc' = "emit" /\ wm' = wm /\ cur' = cur /\ wm \in Nat /\ cur \in Nat
    BY <1>3 DEF Poll, TypeOK
  <2>3. \A t \in Txns : RoundOf[t] \in Nat
    BY RecorderTxnsAssumption DEF RecorderTxnsAssumption
  <2>4. \A t \in queue' : InWindow(RoundOf[t])
    BY <2>1, <2>2, <2>3, WindowIsRead
  <2>5. ASSUME NEW row \in TrackedRows, InWindow(Round(row)) PROVE row[1] \in queue'
    <3>1. row[1] \in Txns /\ IsTracked(row[1])
      BY <2>5, RowType DEF TrackedRows, IsTracked
    <3> QED
      BY <2>1, <2>2, <2>3, <2>5, <3>1, WindowIsRead DEF Round
  <2> QED
    BY <2>2, <2>4, <2>5 DEF WindowInv, InWindow, TrackedRows, Round
<1>4. CASE RecordTransaction
  <2>1. PICK t \in queue : memory' = memory \o RowsOf(t) /\ queue' = queue \ {t}
    BY <1>4 DEF RecordTransaction
  <2>2. t \in Txns /\ pc = "emit" /\ UNCHANGED <<pc, wm, cur>>
    BY <1>4 DEF TypeOK, RecordTransaction
  <2>3. /\ Len(memory) \in Nat /\ Len(memory') \in Nat /\ Len(memory) <= Len(memory')
        /\ \A k \in 1..Len(memory) : memory'[k] = memory[k]
        /\ \A row \in Row : row[1] = t => \E k \in 1..Len(memory') : memory'[k] = row
    BY <2>1, <2>2, MemoryGrows
  <2>4. ASSUME NEW row \in TrackedRows, InWindow(Round(row))
        PROVE  row[1] \in queue' \/ InRows(row, memory')
    <3>1. CASE row[1] = t
      BY <2>3, <3>1 DEF InRows, TrackedRows
    <3>2. CASE row[1] # t /\ row[1] \in queue
      BY <2>1, <3>2
    <3>3. CASE InRows(row, memory)
      <4>1. PICK k \in 1..Len(memory) : memory[k] = row
        BY <3>3 DEF InRows
      <4> QED
        BY <4>1, <2>3 DEF InRows
    <3> QED
      BY <2>2, <2>4, <3>1, <3>2, <3>3 DEF WindowInv
  <2>5. \A u \in queue' : InWindow(RoundOf[u])
    BY <2>1, <2>2 DEF WindowInv
  <2> QED
    BY <2>2, <2>4, <2>5 DEF WindowInv, InWindow, TrackedRows, Round, InRows
<1>5. CASE EmitsEnd
  <2>1. \A k \in 1..0 : FALSE
    OBVIOUS
  <2> QED
    BY <1>5, <2>1 DEF EmitsEnd, WindowInv, TypeOK, locals, files, InWindow, TrackedRows, Round,
       InRows
<1>6. CASE AppendRow
  <2>1. Recorded' = Recorded \cup {memory[written + 1]}
    BY <1>6, AppendRecords
  <2>2. /\ pc = "append" /\ written < Len(memory) /\ written' = written + 1
        /\ UNCHANGED <<pc, wm, cur, memory>> /\ written \in Nat /\ Len(memory) \in Nat
    BY <1>6 DEF AppendRow, TypeOK, locals
  <2>3. \A k \in 1..written' : k = written + 1 \/ k \in 1..written
    BY <2>2
  <2>4. written' <= Len(memory') /\ \A k \in 1..written' : memory'[k] \in Recorded'
    BY <2>1, <2>2, <2>3 DEF WindowInv
  <2> QED
    BY <2>2, <2>4 DEF WindowInv, InWindow, TrackedRows, Round, InRows
<1>7. CASE EndAppend
  <2>1. /\ pc = "append" /\ written = Len(memory) /\ pc' = "truncate"
        /\ UNCHANGED <<csv, wm, cur>>
    BY <1>7 DEF EndAppend, locals
  <2>2. ASSUME NEW row \in TrackedRows, InWindow(Round(row)) PROVE row \in Recorded
    <3>1. PICK k \in 1..written : memory[k] = row
      BY <2>1, <2>2 DEF WindowInv, InRows
    <3> QED
      BY <2>1, <3>1 DEF WindowInv
  <2> QED
    BY <2>1, <2>2 DEF WindowInv, InWindow, TrackedRows, Round, Recorded
<1>8. CASE Truncate
  BY <1>8 DEF Truncate, WindowInv, locals, InWindow, TrackedRows, Round, Recorded
<1> QED
  BY <1>1, <1>2, <1>3, <1>4, <1>5, <1>6, <1>7, <1>8 DEF Next

\* The watermark is written only when the rows up to it are in the file.
LEMMA NextNoRowMissing ==
    ASSUME TypeOK, FileInv, WindowInv, NoRowMissing, Next PROVE NoRowMissing'
<1>1. CASE WriteWatermark
  <2>1. pc = "write" /\ acked = wm /\ acked' = NewWatermark(Config, wm, cur) /\ csv' = csv
    BY <1>1 DEF WriteWatermark, FileInv, Polling
  <2>2. ASSUME NEW row \in TrackedRows, InitialRound < Round(row), Round(row) <= acked'
        PROVE  row \in Recorded
    <3>1. Round(row) \in Nat /\ wm \in Nat
      BY RowType DEF TrackedRows, TypeOK
    <3>2. CASE Round(row) <= wm
      BY <2>1, <2>2, <3>2 DEF NoRowMissing, Round
    <3>3. CASE wm < Round(row)
      BY <2>1, <2>2, <3>3 DEF WindowInv, InWindow
    <3> QED
      BY <3>1, <3>2, <3>3
  <2> QED
    BY <2>1, <2>2 DEF NoRowMissing, TrackedRows, Round, Recorded
<1>2. CASE AppendRow
  BY <1>2, AppendRecords DEF NoRowMissing, TrackedRows, AppendRow
<1>3. CASE csv' = csv /\ acked' = acked
  BY <1>3 DEF NoRowMissing, TrackedRows, Recorded
<1> QED
  BY <1>1, <1>2, <1>3 DEF Next, NewBlock, StartProgram, CreateFile, WriteInitial, GetWatermark,
     CannotRead, GetStatus, Poll, RecordTransaction, EmitsEnd, EndAppend, Truncate, Clear, Rest,
     Crash, files

\* Each step keeps the invariant.
LEMMA NextRecorderInv == RecorderInv /\ [Next]_vars => RecorderInv'
<1> SUFFICES ASSUME RecorderInv, [Next]_vars PROVE RecorderInv'
  OBVIOUS
<1>1. CASE Next
  BY <1>1, NextType, NextFileInv, NextMemoryInv, NextWindowInv, NextNoRowMissing
  DEF RecorderInv
<1>2. CASE UNCHANGED vars
  BY <1>2 DEF RecorderInv, vars, files, locals, TypeOK, FileInv, MemoryInv, WindowInv,
     NoRowMissing, InWindow, Round, TrackedRows, Recorded, InRows
<1> QED
  BY <1>1, <1>2

\* Wherever the program ends, what it knows of its window stays true.
THEOREM RecorderInvHolds == Spec => []RecorderInv
  BY InitRecorderInv, NextRecorderInv, PTL DEF Spec

\* Every variable keeps its type.
THEOREM RecorderTypeCorrect == Spec => []TypeOK
<1>1. RecorderInv => TypeOK
  BY DEF RecorderInv
<1> QED
  BY <1>1, RecorderInvHolds, PTL

\* No change of the tracked account that the watermark passed is missing in
\* the CSV file, wherever and however often the program ended.
THEOREM NoRowEverMissing == Spec => []NoRowMissing
<1>1. RecorderInv => NoRowMissing
  BY DEF RecorderInv
<1> QED
  BY <1>1, RecorderInvHolds, PTL

-------------------------------------------------------------------------------
(* The abstract promise. *)

\* The rows of the poll are written in the order of their rounds: when one
\* of the tracked account is written, all of earlier rounds are there.
LEMMA WrittenInOrder ==
    ASSUME RecorderInv, AppendRow, NEW row \in TrackedRows, InitialRound < Round(row),
           Round(row) < Round(memory[written + 1])
    PROVE  row \in Recorded
<1>1. /\ pc = "append" /\ written \in Nat /\ written < Len(memory) /\ Len(memory) \in Nat
      /\ acked = wm /\ wm \in Nat /\ cur \in Nat
  BY DEF AppendRow, RecorderInv, TypeOK, FileInv, Polling
<1>2. /\ Round(row) \in Nat /\ Round(memory[written + 1]) \in Nat
      /\ NewWatermark(Config, wm, cur) \in Nat
  BY <1>1, RowType, AppendRecords, WindowIsRead DEF TrackedRows, RecorderInv
<1>3. CASE Round(row) <= wm
  BY <1>1, <1>3 DEF RecorderInv, NoRowMissing, Round
<1>4. CASE wm < Round(row)
  <2>1. InWindow(Round(memory[written + 1]))
    BY <1>1 DEF RecorderInv, MemoryInv
  <2>2. InWindow(Round(row))
    BY <1>2, <1>4, <2>1 DEF InWindow
  <2>3. PICK k \in 1..Len(memory) : memory[k] = row
    BY <1>1, <2>2 DEF RecorderInv, WindowInv, InRows
  <2>4. ~(written + 1 <= k)
    <3>1. SUFFICES ASSUME written + 1 <= k PROVE FALSE
      OBVIOUS
    <3>2. Round(memory[written + 1]) <= Round(memory[k])
      <4>1. CASE k = written + 1
        BY <1>2, <4>1
      <4>2. CASE written + 1 < k
        BY <1>1, <4>2 DEF RecorderInv, MemoryInv
      <4> QED
        BY <1>1, <3>1, <4>1, <4>2
    <3> QED
      BY <1>2, <2>3, <3>2
  <2>5. k \in 1..written
    BY <1>1, <2>3, <2>4
  <2> QED
    BY <1>1, <2>3, <2>5 DEF RecorderInv, WindowInv
<1> QED
  BY <1>1, <1>2, <1>3, <1>4

\* A program that was never started is in the promise's first state.
LEMMA InitRecordsAsPromised == Init => Promise!Init
  BY DEF Init, Promise!Init, Recorded

\* Each step is a step of AtLeastOnce or leaves its state alone.
LEMMA NextRecordsAsPromised ==
    ASSUME RecorderInv, RecorderInv', [Next]_vars
    PROVE  [Promise!Next]_Promise!vars
<1> DEFINE seen == [n \in {"csv"} |-> Recorded \cap TrackedRows]
           RowRound == [row \in Row |-> RoundOf[row[1]]]
           Wanted == [n \in {"csv"} |-> TrackedRows]
<1>1. CASE AppendRow
  <2> DEFINE row == memory[written + 1]
  <2>1. row \in Row /\ Recorded' = Recorded \cup {row}
    BY <1>1, AppendRecords DEF RecorderInv
  <2>2. acked' = acked
    BY <1>1 DEF AppendRow
  <2>3. CASE row \notin TrackedRows
    <3>1. seen' = seen
      BY <2>1, <2>3 DEF TrackedRows
    <3> QED
      BY <2>2, <3>1 DEF Promise!vars
  <2>4. CASE row \in TrackedRows
    <3>1. \A u \in TrackedRows :
             InitialRound < RowRound[u] /\ RowRound[u] < RowRound[row] => u \in Recorded
      BY <1>1, <2>1, WrittenInOrder DEF Round, TrackedRows
    <3>2. seen' = [seen EXCEPT !["csv"] = @ \cup {row}]
      BY <2>1, <2>4 DEF TrackedRows
    <3>3. row \in Wanted["csv"] /\ "csv" \in DOMAIN Wanted
      BY <2>4
    <3>4. Promise!See("csv", row)
      BY <2>2, <2>4, <3>1, <3>2, <3>3 DEF Promise!See
    <3> QED
      BY <2>1, <3>3, <3>4 DEF Promise!Next
  <2> QED
    BY <2>3, <2>4
<1>2. CASE WriteWatermark
  <2>1. seen' = seen /\ Recorded' = Recorded
    BY <1>2 DEF WriteWatermark, Recorded, TrackedRows
  <2>2. \A row \in TrackedRows : RowRound[row] <= acked' /\ RowRound[row] \notin 1..InitialRound
                                    => row \in Recorded
    <3>1. ASSUME NEW row \in TrackedRows, Round(row) <= acked', Round(row) \notin 1..InitialRound
          PROVE  row \in Recorded'
      <4>1. Round(row) \in Nat \ {0} /\ InitialRound \in Nat
        BY RowType, RecorderBoundsAssumption DEF TrackedRows, RecorderBoundsAssumption
      <4>2. InitialRound < Round(row)
        BY <3>1, <4>1
      <4> QED
        BY <3>1, <4>2 DEF RecorderInv, NoRowMissing, Round, TrackedRows
    <3> QED
      BY <2>1, <3>1 DEF Round, TrackedRows
  <2>3. acked' \in Nat
    BY DEF RecorderInv, TypeOK
  <2>4. Promise!Covered(acked', seen, 1..InitialRound)
    BY <2>2 DEF Promise!Covered, TrackedRows
  <2>5. Promise!Acknowledge
    BY <2>1, <2>3, <2>4 DEF Promise!Acknowledge
  <2> QED
    BY <2>5 DEF Promise!Next
<1>3. CASE csv' = csv /\ acked' = acked
  BY <1>3 DEF Promise!vars, Recorded, TrackedRows
<1> QED
  BY <1>1, <1>2, <1>3 DEF Next, NewBlock, StartProgram, CreateFile, WriteInitial, GetWatermark,
     CannotRead, GetStatus, Poll, RecordTransaction, EmitsEnd, EndAppend, Truncate, Clear, Rest,
     Crash, files, vars

\* The program around the subscriber implements the abstract subscription,
\* with its CSV file in the place of the listeners.
THEOREM RecordingKeepsPromise == Spec => RecordsAsPromised
<1>1. RecorderInv /\ RecorderInv' /\ [Next]_vars => [Promise!Next]_Promise!vars
  BY NextRecordsAsPromised
<1> QED
  BY <1>1, InitRecordsAsPromised, RecorderInvHolds, PTL DEF Spec, RecordsAsPromised, Promise!Spec

-------------------------------------------------------------------------------
(* Broken lines. *)

Broken == {i \in DOMAIN csv : Len(csv[i]) # 1}

\* The file ends in the middle of a line that this call did not begin.
LeftOpen == open /\ ~(pc = "append" /\ written > 0)

\* A line that was left open counts as broken before another row gets there.
BrokenInv == Cardinality(Broken) + (IF LeftOpen THEN 1 ELSE 0) <= crashes

\* There is a number of broken lines.
LEMMA BrokenType ==
    ASSUME TypeOK PROVE IsFiniteSet(Broken) /\ Cardinality(Broken) \in Nat
<1>1. DOMAIN csv = 1..Len(csv) /\ Len(csv) \in Nat
  BY DEF TypeOK
<1>2. IsFiniteSet(1..Len(csv)) /\ Broken \subseteq 1..Len(csv)
  BY <1>1, FS_Interval DEF Broken
<1> QED
  BY <1>2, FS_Subset, FS_CardinalityType

\* A row breaks one line, and only one that was left open.
LEMMA AppendBreaks ==
    ASSUME TypeOK, AppendRow
    PROVE  Cardinality(Broken') <= Cardinality(Broken) + (IF open /\ written = 0 THEN 1 ELSE 0)
<1> DEFINE row == memory[written + 1]
           n == Len(csv)
<1>1. csv \in Seq(Seq(Row)) /\ n \in Nat /\ DOMAIN csv = 1..n
  BY DEF TypeOK
<1>2. IsFiniteSet(Broken) /\ Cardinality(Broken) \in Nat
  BY BrokenType
<1>3. CASE open /\ written = 0
  <2>1. csv' = [csv EXCEPT ![n] = Append(csv[n], row)]
    BY <1>3 DEF AppendRow
  <2>2. DOMAIN csv' = DOMAIN csv /\ \A i \in DOMAIN csv : i # n => csv'[i] = csv[i]
    BY <2>1
  <2>3. Broken' \subseteq Broken \cup {n}
    BY <2>2 DEF Broken
  <2>4. /\ IsFiniteSet(Broken \cup {n})
        /\ Cardinality(Broken \cup {n}) \in Nat
        /\ Cardinality(Broken \cup {n}) <= Cardinality(Broken) + 1
    <3>1. /\ IsFiniteSet(Broken \cup {n})
          /\ Cardinality(Broken \cup {n}) = IF n \in Broken THEN Cardinality(Broken)
                                             ELSE Cardinality(Broken) + 1
      BY <1>2, FS_AddElement
    <3> QED
      BY <1>2, <3>1
  <2>5. Cardinality(Broken') <= Cardinality(Broken \cup {n})
    BY <2>3, <2>4, FS_Subset
  <2>6. Cardinality(Broken') \in Nat
    BY <2>3, <2>4, FS_Subset, FS_CardinalityType
  <2> QED
    BY <1>2, <1>3, <2>4, <2>5, <2>6
<1>4. CASE ~(open /\ written = 0)
  <2>1. csv' = Append(csv, <<row>>)
    BY <1>4 DEF AppendRow
  <2> HIDE DEF row
  <2>2. /\ DOMAIN csv' = 1..(n + 1) /\ csv'[n + 1] = <<row>>
        /\ \A i \in 1..n : csv'[i] = csv[i]
    BY <1>1, <2>1
  <2>3. Len(<<row>>) = 1
    OBVIOUS
  <2>4. Broken' = {i \in 1..(n + 1) : Len(csv'[i]) # 1}
    BY <2>2 DEF Broken
  <2>5. Broken' \subseteq Broken
    <3>1. SUFFICES ASSUME NEW i \in 1..(n + 1), Len(csv'[i]) # 1 PROVE i \in Broken
      BY <2>4
    <3>2. i # n + 1
      BY <2>2, <2>3, <3>1
    <3> QED
      <4>1. i \in 1..n
        BY <1>1, <3>2
      <4> QED
        BY <1>1, <2>2, <3>1, <4>1 DEF Broken
  <2>6. Cardinality(Broken') <= Cardinality(Broken) /\ Cardinality(Broken') \in Nat
    BY <1>2, <2>5, FS_Subset, FS_CardinalityType
  <2> QED
    BY <1>2, <1>4, <2>6
<1> QED
  BY <1>3, <1>4

\* Only a crash breaks a line, and only one.
LEMMA NextBrokenInv ==
    ASSUME RecorderInv, BrokenInv, [Next]_vars PROVE BrokenInv'
<1>t. TypeOK /\ TypeOK'
  BY NextRecorderInv DEF RecorderInv
<1>c. Cardinality(Broken) \in Nat
  BY <1>t, BrokenType
<1>d. Cardinality(Broken') \in Nat
  <2>1. DOMAIN csv' = 1..Len(csv') /\ Len(csv') \in Nat
    BY <1>t DEF TypeOK
  <2>2. IsFiniteSet(1..Len(csv')) /\ Broken' \subseteq 1..Len(csv')
    BY <2>1, FS_Interval DEF Broken
  <2> QED
    BY <2>2, FS_Subset, FS_CardinalityType
<1>1. crashes \in Nat /\ written \in Nat /\ memory \in Seq(Row)
  BY <1>t DEF TypeOK
<1>2. CASE AppendRow
  <2>1. Cardinality(Broken') <= Cardinality(Broken) + (IF open /\ written = 0 THEN 1 ELSE 0)
    BY <1>t, <1>2, AppendBreaks
  <2>2. crashes' = crashes /\ ~LeftOpen' /\ (open /\ written = 0 => LeftOpen)
    BY <1>1, <1>2 DEF AppendRow, LeftOpen
  <2> QED
    BY <1>1, <1>c, <1>d, <2>1, <2>2 DEF BrokenInv
<1>3. CASE Crash
  <2>1. Broken' = Broken /\ crashes' = crashes + 1
    BY <1>3 DEF Crash, files, Broken
  <2> QED
    BY <1>1, <1>c, <2>1 DEF BrokenInv
<1>4. CASE csv' = csv /\ crashes' = crashes /\ (LeftOpen' => LeftOpen)
  BY <1>1, <1>c, <1>4 DEF BrokenInv, Broken
<1>5. CASE EndAppend
  <2>1. LeftOpen' => LeftOpen
    <3>1. CASE memory = <<>>
      <4>1. written = 0 /\ pc = "append" /\ (open' => open)
        BY <1>1, <1>5, <3>1 DEF EndAppend
      <4> QED
        BY <4>1 DEF LeftOpen
    <3>2. CASE memory # <<>>
      BY <1>5, <3>2 DEF EndAppend, LeftOpen
    <3> QED
      BY <3>1, <3>2
  <2> QED
    BY <1>4, <1>5, <2>1 DEF EndAppend
<1>6. CASE UNCHANGED vars
  BY <1>4, <1>6 DEF vars, files, locals, LeftOpen
<1> QED
  BY <1>1, <1>2, <1>3, <1>4, <1>5, <1>6 DEF Next, NewBlock, StartProgram, CreateFile,
     WriteInitial, GetWatermark, CannotRead, GetStatus, Poll, RecordTransaction, EmitsEnd,
     Truncate, WriteWatermark, Clear, Rest, files, LeftOpen

\* Lines with more than one row come from ends of the program in the middle
\* of an append, from each of them one at most.
THEOREM BrokenOnlyByCrashes == Spec => []BrokenLinesFromCrashes
<1>1. Init => BrokenInv
  <2> SUFFICES ASSUME Init PROVE BrokenInv
    OBVIOUS
  <2>1. Broken = {} /\ ~LeftOpen /\ crashes = 0
    BY DEF Init, Broken, LeftOpen
  <2> QED
    BY <2>1, FS_EmptySet DEF BrokenInv
<1>2. RecorderInv /\ BrokenInv /\ [Next]_vars => BrokenInv'
  BY NextBrokenInv
<1>3. RecorderInv /\ BrokenInv => BrokenLinesFromCrashes
  BY BrokenType DEF RecorderInv, TypeOK, BrokenInv, BrokenLinesFromCrashes, Broken
<1> QED
  BY <1>1, <1>2, <1>3, RecorderInvHolds, PTL DEF Spec

-------------------------------------------------------------------------------
(* Copies. *)

\* Has the row been written since the last watermark, or in this call?
Done(row) ==
    \/ Round(row) <= acked
    \/ pc = "append" /\ \E k \in 1..written : memory[k] = row
    \/ pc \in {"truncate", "write"} /\ InWindow(Round(row))

\* The list has no row twice, and none that is still to come.
ListInv ==
    /\ pc \in {"emit", "append"} =>
          \A j, k \in 1..Len(memory) : memory[j] = memory[k] => j = k
    /\ pc = "emit" => \A k \in 1..Len(memory) : memory[k][1] \notin queue

CopiesInv ==
    \A row \in Row : /\ IsFiniteSet(Places(row))
                     /\ Copies(row) <= crashes + (IF Done(row) THEN 1 ELSE 0)

\* A write adds one place, of the row that is written, and leaves all other
\* rows where they are.
LEMMA AppendPlaces ==
    ASSUME TypeOK, AppendRow
    PROVE  \E p : \A x : /\ p \notin Places(x)
                         /\ Places(x)' = IF x = memory[written + 1] THEN Places(x) \cup {p}
                                         ELSE Places(x)
<1> DEFINE row == memory[written + 1]
           n == Len(csv)
           old(i, k) == i \in DOMAIN csv /\ k \in DOMAIN csv[i]
           new(i, k) == i \in DOMAIN csv' /\ k \in DOMAIN csv'[i]
<1>1. csv \in Seq(Seq(Row)) /\ n \in Nat /\ DOMAIN csv = 1..n
  BY DEF TypeOK
<1>2. \E a, b : /\ ~old(a, b) /\ new(a, b) /\ csv'[a][b] = row
                /\ \A i, k : new(i, k) => old(i, k) \/ (i = a /\ k = b)
                /\ \A i, k : old(i, k) => new(i, k) /\ csv'[i][k] = csv[i][k]
  <2>1. CASE open /\ written = 0
    <3> DEFINE line == csv[n]
               m == Len(line)
    <3>1. csv' = [csv EXCEPT ![n] = Append(line, row)]
      BY <2>1 DEF AppendRow
    <3>2. csv # <<>>
      BY <2>1 DEF TypeOK
    <3>3. n \in DOMAIN csv /\ line \in Seq(Row) /\ m \in Nat
      BY <1>1, <3>2
    <3> HIDE DEF row
    <3>4. /\ DOMAIN Append(line, row) = 1..(m + 1) /\ DOMAIN line = 1..m
          /\ Append(line, row)[m + 1] = row
          /\ \A k \in 1..m : Append(line, row)[k] = line[k]
      BY <3>3
    <3>5. /\ DOMAIN csv' = DOMAIN csv /\ csv'[n] = Append(line, row)
          /\ \A i \in DOMAIN csv : i # n => csv'[i] = csv[i]
      BY <3>1, <3>3
    <3>6. ~old(n, m + 1) /\ new(n, m + 1) /\ csv'[n][m + 1] = row
      BY <3>3, <3>4, <3>5
    <3>7. ASSUME NEW i, NEW k, new(i, k) PROVE old(i, k) \/ (i = n /\ k = m + 1)
      BY <3>3, <3>4, <3>5, <3>7
    <3>8. ASSUME NEW i, NEW k, old(i, k) PROVE new(i, k) /\ csv'[i][k] = csv[i][k]
      <4>1. CASE i = n
        BY <3>3, <3>4, <3>5, <3>8, <4>1
      <4>2. CASE i # n
        BY <3>5, <3>8, <4>2
      <4> QED
        BY <4>1, <4>2
    <3> HIDE DEF n, m, old, new
    <3> QED
      BY <3>6, <3>7, <3>8
  <2>2. CASE ~(open /\ written = 0)
    <3>1. csv' = Append(csv, <<row>>)
      BY <2>2 DEF AppendRow
    <3> HIDE DEF row
    <3>2. /\ DOMAIN csv' = 1..(n + 1) /\ csv'[n + 1] = <<row>>
          /\ \A i \in 1..n : csv'[i] = csv[i]
      BY <1>1, <3>1
    <3>3. DOMAIN <<row>> = {1} /\ <<row>>[1] = row
      OBVIOUS
    <3>4. ~old(n + 1, 1) /\ new(n + 1, 1) /\ csv'[n + 1][1] = row
      BY <1>1, <3>2, <3>3
    <3>5. ASSUME NEW i, NEW k, new(i, k) PROVE old(i, k) \/ (i = n + 1 /\ k = 1)
      <4>1. CASE i = n + 1
        BY <3>2, <3>3, <3>5, <4>1
      <4>2. CASE i # n + 1
        <5>1. i \in 1..n
          BY <1>1, <3>2, <3>5, <4>2
        <5> QED
          BY <1>1, <3>2, <3>5, <5>1
      <4> QED
        BY <4>1, <4>2
    <3>6. ASSUME NEW i, NEW k, old(i, k) PROVE new(i, k) /\ csv'[i][k] = csv[i][k]
      <4>1. i \in 1..n /\ i \in 1..(n + 1)
        BY <1>1, <3>6
      <4> QED
        BY <3>2, <3>6, <4>1
    <3> HIDE DEF n, old, new
    <3> QED
      BY <3>4, <3>5, <3>6
  <2> QED
    BY <2>1, <2>2
<1>3. PICK a, b : /\ ~old(a, b) /\ new(a, b) /\ csv'[a][b] = row
                  /\ \A i, k : new(i, k) => old(i, k) \/ (i = a /\ k = b)
                  /\ \A i, k : old(i, k) => new(i, k) /\ csv'[i][k] = csv[i][k]
  BY <1>2
<1>4. ASSUME NEW x PROVE /\ \A q : q \in Places(x) <=>
                               \E i, k : q = <<i, k>> /\ old(i, k) /\ csv[i][k] = x
                         /\ \A q : q \in Places(x)' <=>
                               \E i, k : q = <<i, k>> /\ new(i, k) /\ csv'[i][k] = x
  BY DEF Places
<1> HIDE DEF row, old, new
<1>5. ASSUME NEW x PROVE <<a, b>> \notin Places(x)
  BY <1>3, <1>4
<1>8. ASSUME NEW x, NEW q \in Places(x) PROVE q \in Places(x)'
  <2>1. PICK i, k : q = <<i, k>> /\ old(i, k) /\ csv[i][k] = x
    BY <1>4, <1>8
  <2>2. new(i, k) /\ csv'[i][k] = x
    BY <1>3, <2>1
  <2> QED
    BY <1>4, <2>1, <2>2
<1>9. ASSUME NEW x, NEW q \in Places(x)' PROVE q \in Places(x) \/ (q = <<a, b>> /\ x = row)
  <2>1. PICK i, k : q = <<i, k>> /\ new(i, k) /\ csv'[i][k] = x
    BY <1>4, <1>9
  <2>2. CASE old(i, k)
    <3>1. csv[i][k] = x
      BY <1>3, <2>1, <2>2
    <3> QED
      BY <1>4, <2>1, <2>2, <3>1
  <2>3. CASE i = a /\ k = b
    BY <1>3, <2>1, <2>3
  <2> QED
    BY <1>3, <2>1, <2>2, <2>3
<1>10. ASSUME NEW x, x = row PROVE <<a, b>> \in Places(x)'
  BY <1>3, <1>4, <1>10
<1>6. ASSUME NEW x, x # row PROVE Places(x)' = Places(x)
  BY <1>6, <1>8, <1>9
<1>7. ASSUME NEW x, x = row PROVE Places(x)' = Places(x) \cup {<<a, b>>}
  BY <1>7, <1>8, <1>9, <1>10
<1> QED
  BY <1>5, <1>6, <1>7 DEF row

\* Each step keeps the rows of the list apart.
LEMMA NextListInv ==
    ASSUME RecorderInv, ListInv, Next PROVE ListInv'
<1>1. CASE Poll
  BY <1>1 DEF ListInv, Poll, RecorderInv, MemoryInv
<1>2. CASE RecordTransaction
  <2>1. PICK t \in queue : memory' = memory \o RowsOf(t) /\ queue' = queue \ {t}
    BY <1>2 DEF RecordTransaction
  <2>2. t \in Txns /\ pc = "emit" /\ pc' = "emit" /\ memory \in Seq(Row)
    BY <1>2 DEF RecorderInv, TypeOK, RecordTransaction
  <2> DEFINE n == Len(memory)
             rows == RowsOf(t)
  <2>3. rows \in Seq(Row) /\ (\A j, k \in 1..Len(rows) : rows[j] = rows[k] => j = k)
    <3>1. Changes[t] \in Seq(STRING)
      BY <2>2, RecorderTxnsAssumption DEF RecorderTxnsAssumption
    <3>2. Len(rows) = Len(Changes[t]) /\ \A k \in 1..Len(rows) : rows[k] = <<t, k>>
      BY <3>1 DEF RowsOf
    <3> QED
      BY <2>2, <3>2, RowsOfType
  <2>4. \A k \in 1..Len(rows) : rows[k][1] = t
    BY <2>2, RowsOfType
  <2> HIDE DEF rows
  <2>5. /\ n \in Nat /\ Len(rows) \in Nat /\ Len(memory') = n + Len(rows)
        /\ \A k \in 1..n : memory'[k] = memory[k]
        /\ \A k \in 1..Len(rows) : memory'[n + k] = rows[k]
    BY <2>1, <2>2, <2>3 DEF rows
  <2>6. ASSUME NEW k \in 1..Len(memory'), k > n
        PROVE  k - n \in 1..Len(rows) /\ memory'[k] = rows[k - n] /\ memory'[k][1] = t
    <3>1. k - n \in 1..Len(rows) /\ k = n + (k - n)
      BY <2>5, <2>6
    <3> QED
      BY <2>4, <2>5, <3>1
  <2>7. \A k \in 1..n : memory'[k][1] \in queue => FALSE
    BY <2>2, <2>5 DEF ListInv
  <2>8. ASSUME NEW j \in 1..Len(memory'), NEW k \in 1..Len(memory'), memory'[j] = memory'[k]
        PROVE  j = k
    <3>1. CASE j \in 1..n /\ k \in 1..n
      BY <2>2, <2>5, <2>8, <3>1 DEF ListInv
    <3>2. CASE j > n /\ k > n
      <4>1. j - n = k - n
        BY <2>3, <2>6, <2>8, <3>2
      <4> QED
        BY <2>5, <4>1
    <3>3. CASE j \in 1..n /\ k > n
      BY <2>6, <2>7, <2>8, <3>3
    <3>4. CASE j > n /\ k \in 1..n
      BY <2>6, <2>7, <2>8, <3>4
    <3> QED
      BY <2>5, <3>1, <3>2, <3>3, <3>4
  <2>9. ASSUME NEW k \in 1..Len(memory') PROVE memory'[k][1] \notin queue'
    <3>1. CASE k \in 1..n
      BY <2>1, <2>7, <3>1
    <3>2. CASE k > n
      BY <2>1, <2>6, <3>2
    <3> QED
      BY <2>5, <3>1, <3>2
  <2> QED
    BY <2>2, <2>8, <2>9 DEF ListInv
<1>3. CASE NewBlock \/ EmitsEnd \/ AppendRow
  BY <1>3 DEF ListInv, NewBlock, EmitsEnd, AppendRow, locals
<1>4. CASE StartProgram \/ CreateFile \/ WriteInitial \/ GetWatermark \/ CannotRead
           \/ GetStatus \/ EndAppend \/ Truncate \/ WriteWatermark \/ Clear \/ Rest \/ Crash
  BY <1>4 DEF ListInv, StartProgram, CreateFile, WriteInitial, GetWatermark, CannotRead,
     GetStatus, EndAppend, Truncate, WriteWatermark, Clear, Rest, Crash
<1> QED
  BY <1>1, <1>2, <1>3, <1>4 DEF Next

\* The step before a row is written it was not, so that its one more copy is
\* its first since the last end of the program.
LEMMA AppendCopies ==
    ASSUME RecorderInv, ListInv, CopiesInv, AppendRow PROVE CopiesInv'
<1>0. PICK next : next = memory[written + 1]
  OBVIOUS
<1>1. /\ pc = "append" /\ pc' = "append" /\ written' = written + 1 /\ written \in Nat
      /\ written < Len(memory) /\ Len(memory) \in Nat /\ crashes' = crashes /\ crashes \in Nat
      /\ acked = wm /\ acked \in Nat /\ cur \in Nat
      /\ UNCHANGED <<memory, acked, wm, cur>>
  BY DEF AppendRow, RecorderInv, TypeOK, FileInv, Polling, locals
<1>2. next \in Row /\ Round(next) \in Nat /\ InWindow(Round(next))
  <2>1. next \in Row
    BY <1>0, AppendRecords DEF RecorderInv
  <2>2. written + 1 \in 1..Len(memory)
    BY <1>1
  <2> QED
    BY <1>0, <1>1, <2>1, <2>2, RowType DEF RecorderInv, MemoryInv
<1>3. ~Done(next)
  <2>1. ~(Round(next) <= acked)
    BY <1>1, <1>2 DEF InWindow
  <2>2. \A k \in 1..written : memory[k] # next
    BY <1>0, <1>1 DEF ListInv
  <2> QED
    BY <1>1, <2>1, <2>2 DEF Done
<1>4. \A k \in 1..written : k \in 1..written'
  BY <1>1
<1>5. \A row \in Row : Done(row) => Done(row)'
  BY <1>1, <1>4 DEF Done, Round
<1>6. Done(next)'
  <2>1. written + 1 \in 1..written' /\ memory'[written + 1] = next
    BY <1>0, <1>1
  <2> QED
    BY <1>1, <2>1 DEF Done
<1>7. PICK p : \A x : /\ p \notin Places(x)
                      /\ Places(x)' = IF x = next THEN Places(x) \cup {p} ELSE Places(x)
  BY <1>0, AppendPlaces DEF RecorderInv
<1>8. ASSUME NEW row \in Row
      PROVE  IsFiniteSet(Places(row)') /\ Copies(row)' <= crashes' + (IF Done(row)' THEN 1 ELSE 0)
  <2>1. /\ IsFiniteSet(Places(row)) /\ Copies(row) \in Nat
        /\ Copies(row) <= crashes + (IF Done(row) THEN 1 ELSE 0)
    BY FS_CardinalityType DEF CopiesInv, Copies
  <2>2. CASE row = next
    <3>1. IsFiniteSet(Places(row)') /\ Copies(row)' = Copies(row) + 1
      BY <1>7, <2>1, <2>2, FS_AddElement DEF Copies
    <3>2. Done(row)'
      BY <1>6, <2>2
    <3> QED
      BY <1>1, <1>3, <2>1, <2>2, <3>1, <3>2
  <2>3. CASE row # next
    <3>1. Places(row)' = Places(row) /\ Copies(row)' = Copies(row)
      BY <1>7, <2>3 DEF Copies
    <3> QED
      BY <1>1, <1>5, <2>1, <3>1
  <2> QED
    BY <2>2, <2>3
<1> QED
  BY <1>8 DEF CopiesInv

\* Only a crash leads to one copy of a row more.
LEMMA NextCopiesInv ==
    ASSUME RecorderInv, ListInv, CopiesInv, [Next]_vars PROVE CopiesInv'
<1>1. /\ acked \in Nat /\ wm \in Nat /\ cur \in Nat /\ crashes \in Nat
      /\ \A row \in Row : Round(row) \in Nat
      /\ \A row \in Row : Copies(row) \in Nat /\ IsFiniteSet(Places(row))
  BY RowType, FS_CardinalityType DEF RecorderInv, TypeOK, CopiesInv, Copies
<1>2. CASE /\ csv' = csv /\ crashes' = crashes
           /\ \A row \in Row : Done(row) => Done(row)'
  BY <1>1, <1>2 DEF CopiesInv, Copies, Places
<1>3. CASE Crash
  <2>1. csv' = csv /\ crashes' = crashes + 1
    BY <1>3 DEF Crash, files
  <2>2. \A row \in Row : Places(row)' = Places(row) /\ Copies(row)' = Copies(row)
    BY <2>1 DEF Copies, Places
  <2> QED
    BY <1>1, <2>1, <2>2 DEF CopiesInv
<1>4. CASE EndAppend
  <2>1. /\ pc = "append" /\ pc' = "truncate" /\ written = Len(memory)
        /\ UNCHANGED <<csv, crashes, acked, wm, cur>>
    BY <1>4 DEF EndAppend, locals
  <2>2. \A k \in 1..written : InWindow(Round(memory[k]))
    BY <2>1 DEF RecorderInv, MemoryInv
  <2>3. \A row \in Row : Done(row) => Done(row)'
    BY <2>1, <2>2 DEF Done, InWindow, Round
  <2> QED
    BY <1>2, <2>1, <2>3
<1>5. CASE WriteWatermark
  <2>1. /\ pc = "write" /\ acked = wm /\ acked' = NewWatermark(Config, wm, cur)
        /\ UNCHANGED <<csv, crashes>>
    BY <1>5 DEF WriteWatermark, RecorderInv, FileInv, Polling
  <2>2. wm <= acked' /\ acked' \in Nat
    BY <1>1, <2>1, WindowIsRead
  <2>3. ASSUME NEW row \in Row, Done(row) PROVE Round(row) <= acked'
    <3>1. Round(row) \in Nat /\ (Round(row) <= wm \/ Round(row) <= acked')
      BY <1>1, <2>1, <2>3 DEF Done, InWindow
    <3> QED
      BY <1>1, <2>2, <3>1
  <2>4. \A row \in Row : Done(row) => Done(row)'
    BY <2>3 DEF Done, Round
  <2> QED
    BY <1>2, <2>1, <2>4
<1>6. CASE Truncate
  <2>1. \A row \in Row : Done(row) => Done(row)'
    BY <1>6 DEF Truncate, Done, InWindow, Round, locals
  <2> QED
    BY <1>2, <1>6, <2>1 DEF Truncate
<1>7. CASE NewBlock \/ UNCHANGED vars
  <2>1. \A row \in Row : Done(row) => Done(row)'
    BY <1>7 DEF NewBlock, vars, Done, InWindow, Round, locals, files
  <2> QED
    BY <1>2, <1>7, <2>1 DEF NewBlock, vars, files
<1>8. CASE /\ pc \notin {"append", "truncate", "write"}
           /\ csv' = csv /\ crashes' = crashes /\ acked' = acked
  <2>1. \A row \in Row : Done(row) => Done(row)'
    BY <1>8 DEF Done, Round
  <2> QED
    BY <1>2, <1>8, <2>1
<1> QED
  BY <1>3, <1>4, <1>5, <1>6, <1>7, <1>8, AppendCopies
  DEF Next, StartProgram, CreateFile, WriteInitial, GetWatermark, CannotRead, GetStatus, Poll,
      RecordTransaction, EmitsEnd, Clear, Rest, files

\* The invariants of the list and of the copies of a row.
LEMMA CopiesInvHolds == Spec => [](ListInv /\ CopiesInv)
<1>1. Init => ListInv /\ CopiesInv
  <2> SUFFICES ASSUME Init PROVE ListInv /\ CopiesInv
    OBVIOUS
  <2>1. \A row \in Row : Places(row) = {} /\ Copies(row) = 0 /\ crashes = 0
    BY FS_EmptySet DEF Init, Places, Copies
  <2> QED
    <3>1. CopiesInv
      BY <2>1, FS_EmptySet DEF CopiesInv
    <3>2. ListInv
      BY DEF Init, ListInv
    <3> QED
      BY <3>1, <3>2
<1>2. RecorderInv /\ ListInv /\ CopiesInv /\ [Next]_vars => (ListInv /\ CopiesInv)'
  <2> SUFFICES ASSUME RecorderInv, ListInv, CopiesInv, [Next]_vars PROVE (ListInv /\ CopiesInv)'
    OBVIOUS
  <2>1. ASSUME UNCHANGED vars PROVE ListInv'
    BY <2>1 DEF ListInv, vars, locals
  <2> QED
    BY <2>1, NextListInv, NextCopiesInv
<1> QED
  BY <1>1, <1>2, RecorderInvHolds, PTL DEF Spec

\* A row is in the file once, and once more at most for each end of the
\* program.
THEOREM CopiesOnlyByCrashes == Spec => []CopiesFromCrashes
<1>1. RecorderInv /\ CopiesInv => CopiesFromCrashes
  <2> SUFFICES ASSUME RecorderInv, CopiesInv, NEW row \in Row PROVE Copies(row) <= 1 + crashes
    BY DEF CopiesFromCrashes
  <2>1. crashes \in Nat /\ Copies(row) \in Nat
    BY FS_CardinalityType DEF RecorderInv, TypeOK, CopiesInv, Copies
  <2> QED
    BY <2>1 DEF CopiesInv
<1> QED
  BY <1>1, CopiesInvHolds, RecorderInvHolds, PTL

\* A row of a round that the watermark file once said was done is never
\* written again.
THEOREM NeverAgain == Spec => NothingAcknowledgedAgain
<1> DEFINE A == \A row \in Row : Copies(row)' > Copies(row) => RoundOf[row[1]] > acked
<1>1. RecorderInv /\ CopiesInv /\ [Next]_vars => [A]_vars
  <2> SUFFICES ASSUME RecorderInv, CopiesInv, Next, NEW row \in Row, Copies(row)' > Copies(row)
               PROVE  RoundOf[row[1]] > acked
    BY DEF A
  <2>n. Copies(row) \in Nat
    BY FS_CardinalityType DEF CopiesInv, Copies
  <2>1. CASE AppendRow /\ row = memory[written + 1]
    <3>1. /\ pc = "append" /\ written + 1 \in 1..Len(memory) /\ acked = wm
          /\ wm \in Nat
      BY <2>1 DEF RecorderInv, TypeOK, FileInv, AppendRow, Polling
    <3>2. InWindow(Round(row)) /\ Round(row) \in Nat
      BY <2>1, <3>1, RowType DEF RecorderInv, MemoryInv
    <3> QED
      BY <3>1, <3>2 DEF InWindow, Round
  <2>2. CASE AppendRow /\ row # memory[written + 1]
    <3>1. Places(row)' = Places(row)
      BY <2>2, AppendPlaces DEF RecorderInv
    <3> QED
      BY <2>n, <3>1 DEF Copies
  <2>3. CASE csv' = csv
    BY <2>n, <2>3 DEF Copies, Places
  <2> QED
    BY <2>1, <2>2, <2>3 DEF Next, NewBlock, StartProgram, CreateFile,
       WriteInitial, GetWatermark, CannotRead, GetStatus, Poll, RecordTransaction, EmitsEnd,
       EndAppend, Truncate, WriteWatermark, Clear, Rest, Crash, files
<1> QED
  BY <1>1, CopiesInvHolds, RecorderInvHolds, PTL DEF Spec, NothingAcknowledgedAgain
===============================================================================
