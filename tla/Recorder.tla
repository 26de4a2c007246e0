-------------------------------- MODULE Recorder --------------------------------
(***************************************************************************)
(* examples/transaction_recording: a program around the subscriber that    *)
(* keeps its watermark in a file and appends the balance changes of every  *)
(* transaction of one account to a CSV file.  It syncs the oldest rounds,  *)
(* and has the default error listener, so that any exception ends it; it   *)
(* may be started again.                                                   *)
(*                                                                         *)
(* The program may end between any two steps.  Writing the watermark makes *)
(* the file empty first, and the CSV file grows row by row: each row but   *)
(* the first of a call is written with the newline before it, and the last *)
(* newline comes at the end.                                               *)
(***************************************************************************)
EXTENDS SyncWindow, Sequences, SequencesExt

CONSTANTS
    Txns, RoundOf,      \* the transactions of the chain, and the round of each
    Changes,            \* balance_changes of each: the accounts they are for
    Tracked,            \* track_address
    InitialRound,       \* the watermark that the program creates its file with
    InitialTip, MaxTip, \* the chain's first and last round here
    MaxRounds,          \* max_rounds_to_sync
    MaxCrashes          \* bound on the ends of the program

ASSUME RecorderTxnsAssumption ==
    /\ RoundOf \in [Txns -> Nat \ {0}]
    /\ Changes \in [Txns -> Seq(STRING)]
ASSUME RecorderBoundsAssumption ==
    /\ InitialRound \in Nat /\ InitialTip \in Nat /\ MaxTip \in Nat
    /\ MaxRounds \in Nat \ {0} /\ MaxCrashes \in Nat

\* What the watermark file may be instead of a round.
Missing == -2
Empty == -1

Config == [syncBehaviour |-> "sync-oldest", maxRoundsToSync |-> MaxRounds,
           maxIndexerRoundsToSync |-> 0]

\* The rows of a transaction are its balance changes.
Row == UNION {{<<t, k>> : k \in DOMAIN Changes[t]} : t \in Txns}
RowsOf(t) == [k \in DOMAIN Changes[t] |-> <<t, k>>]

\* What the filter of the program accepts.
IsTracked(t) == \E k \in DOMAIN Changes[t] : Changes[t][k] = Tracked

VARIABLES
    tip,        \* the newest round of the chain
    file,       \* the watermark file
    csv,        \* the lines of the CSV file, each a sequence of rows
    open,       \* does the CSV file end without a newline?
    pc,         \* the next statement; "down": the program does not run
    wm, cur,    \* watermark and current_round of the poll
    queue,      \* the matched transactions that are to be emitted
    memory,     \* balance_changes, the list of rows
    written,    \* how many of them this call has written
    \* For the properties.
    acked,      \* the last watermark that was written in full
    crashes     \* ends of the program, up to MaxCrashes

locals == <<wm, cur, queue>>
files == <<file, csv, open, acked>>
vars == <<tip, files, pc, locals, memory, written, crashes>>

Init ==
    /\ tip = InitialTip
    /\ file = Missing
    /\ csv = <<>>
    /\ open = FALSE
    /\ pc = "down"
    /\ wm = 0 /\ cur = 0 /\ queue = {}
    /\ memory = <<>>
    /\ written = 0
    /\ acked = InitialRound
    /\ crashes = 0

NewBlock ==
    /\ tip < MaxTip
    /\ tip' = tip + 1
    /\ UNCHANGED <<files, pc, locals, memory, written, crashes>>

-------------------------------------------------------------------------------
(* The program starts. *)

\* A start that counts on the watermark file.
StartWithoutFile ==
    /\ pc = "down"
    /\ pc' = "get"
    /\ UNCHANGED <<tip, files, locals, memory, written, crashes>>

StartProgram ==
    /\ pc = "down"
    /\ pc' = IF file = Missing THEN "create" ELSE "get"
    /\ UNCHANGED <<tip, files, locals, memory, written, crashes>>

CreateFile ==
    /\ pc = "create"
    /\ file' = Empty
    /\ pc' = "initial"
    /\ UNCHANGED <<tip, csv, open, acked, locals, memory, written, crashes>>

WriteInitial ==
    /\ pc = "initial"
    /\ file' = InitialRound
    /\ pc' = "get"
    /\ UNCHANGED <<tip, csv, open, acked, locals, memory, written, crashes>>

-------------------------------------------------------------------------------
(* A poll, up to the last event. *)

GetWatermark ==
    /\ pc = "get"
    /\ file # Empty
    /\ wm' = file
    /\ pc' = "status"
    /\ UNCHANGED <<tip, files, cur, queue, memory, written, crashes>>

\* A program that takes an empty file for one that says 0.
EmptyIsZero ==
    /\ pc = "get"
    /\ file = Empty
    /\ wm' = 0
    /\ pc' = "status"
    /\ UNCHANGED <<tip, files, cur, queue, memory, written, crashes>>

\* There is no int of an empty text, and the exception ends the program.
CannotRead ==
    /\ pc = "get"
    /\ file = Empty
    /\ pc' = "down"
    /\ UNCHANGED <<tip, files, locals, memory, written, crashes>>

\* The node may be a round behind the chain.
GetStatus ==
    /\ pc = "status"
    /\ \E c \in 0..tip : c + 1 >= tip /\ cur' = c
    /\ pc' = "poll"
    /\ UNCHANGED <<tip, files, wm, queue, memory, written, crashes>>

Poll ==
    /\ pc = "poll"
    /\ queue' = {t \in Txns : RoundOf[t] \in AlgodRounds(Config, wm, cur) /\ IsTracked(t)}
    /\ pc' = "emit"
    /\ UNCHANGED <<tip, files, wm, cur, memory, written, crashes>>

\* The transactions of a poll come in the order of their rounds.
RecordTransaction ==
    /\ pc = "emit"
    /\ \E t \in queue :
          /\ \A u \in queue : RoundOf[t] <= RoundOf[u]
          /\ memory' = memory \o RowsOf(t)
          /\ queue' = queue \ {t}
    /\ UNCHANGED <<tip, files, pc, wm, cur, written, crashes>>

EmitsEnd ==
    /\ pc = "emit"
    /\ queue = {}
    /\ written' = 0
    /\ pc' = "append"
    /\ UNCHANGED <<tip, files, locals, memory, crashes>>

-------------------------------------------------------------------------------
(* set_watermark. *)

\* A row that is written to a file without a last newline ends up in the
\* line of the row before it.
AppendRow ==
    /\ pc = "append"
    /\ written < Len(memory)
    /\ LET row == memory[written + 1]
       IN  csv' = IF open /\ written = 0
                  THEN [csv EXCEPT ![Len(csv)] = Append(@, row)]
                  ELSE Append(csv, <<row>>)
    /\ open' = TRUE
    /\ written' = written + 1
    /\ UNCHANGED <<tip, file, acked, pc, locals, memory, crashes>>

\* Lines that are only joined by newlines.
EndAppendOpen ==
    /\ pc = "append"
    /\ written = Len(memory)
    /\ pc' = "truncate"
    /\ UNCHANGED <<tip, files, locals, memory, written, crashes>>

EndAppend ==
    /\ pc = "append"
    /\ written = Len(memory)
    /\ open' = (open /\ memory = <<>>)
    /\ pc' = "truncate"
    /\ UNCHANGED <<tip, file, csv, acked, locals, memory, written, crashes>>

Truncate ==
    /\ pc = "truncate"
    /\ file' = Empty
    /\ pc' = "write"
    /\ UNCHANGED <<tip, csv, open, acked, locals, memory, written, crashes>>

\* The round of the node instead of the one that was read up to.
WriteCurrentRound ==
    /\ pc = "write"
    /\ file' = cur
    /\ acked' = cur
    /\ pc' = "clear"
    /\ UNCHANGED <<tip, csv, open, locals, memory, written, crashes>>

WriteWatermark ==
    /\ pc = "write"
    /\ file' = NewWatermark(Config, wm, cur)
    /\ acked' = NewWatermark(Config, wm, cur)
    /\ pc' = "clear"
    /\ UNCHANGED <<tip, csv, open, locals, memory, written, crashes>>

\* A list that is kept for the next poll.
ClearForgotten ==
    /\ pc = "clear"
    /\ pc' = "rest"
    /\ UNCHANGED <<tip, files, locals, memory, written, crashes>>

Clear ==
    /\ pc = "clear"
    /\ memory' = <<>>
    /\ pc' = "rest"
    /\ UNCHANGED <<tip, files, locals, written, crashes>>

\* start sleeps, or waits for a block that comes or does not.
Rest ==
    /\ pc = "rest"
    /\ pc' = "get"
    /\ UNCHANGED <<tip, files, locals, memory, written, crashes>>

-------------------------------------------------------------------------------
\* A crash, a signal, or an exception, which the default error listener lets
\* out of start: the memory of the program goes.
Crash ==
    /\ pc # "down"
    /\ crashes < MaxCrashes
    /\ crashes' = crashes + 1
    /\ pc' = "down"
    /\ wm' = 0 /\ cur' = 0 /\ queue' = {}
    /\ memory' = <<>>
    /\ written' = 0
    /\ UNCHANGED <<tip, files>>

Next ==
    \/ NewBlock
    \/ StartProgram \/ CreateFile \/ WriteInitial
    \/ GetWatermark \/ CannotRead \/ GetStatus \/ Poll \/ RecordTransaction \/ EmitsEnd
    \/ AppendRow \/ EndAppend \/ Truncate \/ WriteWatermark \/ Clear \/ Rest
    \/ Crash

Spec == Init /\ [][Next]_vars

-------------------------------------------------------------------------------
(* Properties. *)

Labels == {"down", "create", "initial", "get", "status", "poll", "emit",
           "append", "truncate", "write", "clear", "rest"}

\* Every variable keeps its type; a file that ends without a newline has a
\* line.
TypeOK ==
    /\ tip \in Nat /\ wm \in Nat /\ cur \in Nat /\ acked \in Nat
    /\ file \in Nat \cup {Missing, Empty}
    /\ csv \in Seq(Seq(Row)) /\ memory \in Seq(Row)
    /\ open \in BOOLEAN /\ open => csv # <<>>
    /\ pc \in Labels
    /\ queue \in SUBSET Txns
    /\ written \in Nat /\ crashes \in Nat

Recorded == UNION {Range(csv[i]) : i \in DOMAIN csv}
TrackedRows == {row \in Row : Changes[row[1]][row[2]] = Tracked}

\* Every change of the tracked account up to the watermark that was written
\* is in the CSV file, wherever the program ended: set_watermark writes the
\* rows first.
NoRowMissing ==
    \A row \in TrackedRows :
        InitialRound < RoundOf[row[1]] /\ RoundOf[row[1]] <= acked => row \in Recorded

\* Lines with more than one row, which no reader can tell apart, come from ends
\* of the program in the middle of an append, one from each at most.
BrokenLinesFromCrashes ==
    Cardinality({i \in DOMAIN csv : Len(csv[i]) # 1}) <= crashes

\* Where a row is in the CSV file: line and place in it.
Places(row) == UNION {{<<i, k>> : k \in {j \in DOMAIN csv[i] : csv[i][j] = row}} :
                      i \in DOMAIN csv}
Copies(row) == Cardinality(Places(row))

\* A row is there more than once only as often as the program ended, since
\* the rows of a poll are written together with its watermark.
CopiesFromCrashes == \A row \in Row : Copies(row) <= 1 + crashes

\* No row of a round that the file once said was done is written again, not
\* even when a later end of the program leaves the file empty.
NothingAcknowledgedAgain ==
    [][\A row \in Row : Copies(row)' > Copies(row) => RoundOf[row[1]] > acked]_vars

\* The program delivers to its file as a subscriber does to its listeners.
Promise == INSTANCE AtLeastOnce WITH
    Txns <- Row,
    RoundOf <- [row \in Row |-> RoundOf[row[1]]],
    WantedBy <- [n \in {"csv"} |-> TrackedRows],
    acked <- acked, seen <- [n \in {"csv"} |-> Recorded \cap TrackedRows],
    forgone <- 1..InitialRound, jumps <- FALSE

\* Each step of the program is a row seen for the first time, an
\* acknowledgement of rows that were seen, or changes neither.
RecordsAsPromised == Promise!Spec
===============================================================================
