---------------------------- MODULE LoggerProofs ----------------------------
(***************************************************************************)
(* What is proved of the logger for any number of producers, messages and   *)
(* rows: nothing is written twice; and, as long as the two exchanges of     *)
(* m_secondary_buffer_ have not overlapped, rows are exclusive, nothing is  *)
(* lost and lines are whole.                                                *)
(***************************************************************************)
EXTENDS Logger, TLAPS

Excl == {"swapping", "swapped", "waited"}
Exits == {"exitWrite", "exitSecondary", "exitPrimary"}

Types ==
  /\ primary \in Bufs /\ secondary \in Bufs /\ write \in Bufs /\ taken \in Bufs
  /\ m_index \in [Bufs -> 0 .. BufSize]
  /\ m_buffer \in [Bufs -> [Rows -> Nat]]
  /\ ppc \in [Producers -> {"idle", "enter", "fill", "full"} \cup Excl]
  /\ msg \in [Producers -> Nat] /\ idx \in [Producers -> Rows] /\ seen \in [Producers -> Bufs]
  /\ sent \in 0 .. MaxMsgs
  /\ row \in 1 .. BufSize + 1 /\ (lpc = "flush" => row <= BufSize)
  /\ lpc \notin {"flush"} \cup Exits => row = 1 /\ ~cut
  /\ cut \in BOOLEAN
  /\ file \in Seq([msg : Nat, len : Nat])

(* Who may run: nobody is in log() before the logger is open or once it is   *)
(* being destroyed, and only then does the log thread leave its loop.  A     *)
(* holder of the exclusive lock is alone.                                    *)
Control ==
  /\ app # "open" => \A p \in Producers : ppc[p] = "idle"
  /\ m_running <=> app \in {"latching", "open"}
  /\ app = "built" <=> lpc = "none"
  /\ lpc \in Exits \cup {"done"} => ~m_running
  /\ app = "closed" => lpc = "done"
  /\ \A p, q \in Producers : ppc[p] \in Excl /\ p # q => ppc[q] \notin Excl \cup {"fill"}

(* The buffer flush() is at, and the rows of it that are already written. *)
Flushing(b) ==
  \/ lpc \in {"flush", "reset", "clear", "exitWrite"} /\ b = write
  \/ lpc = "exitSecondary" /\ b = secondary
  \/ lpc = "exitPrimary" /\ b = primary
Past(b, r) == Flushing(b) /\ (r < row \/ lpc \in {"reset", "clear"})

(* A message has one place: with its producer, in one row, in one line of    *)
(* the file; a row that is in the file, too, is about to be cleared.         *)
Single ==
  /\ \A p \in Producers : msg[p] \in 0 .. sent /\ (ppc[p] # "idle" <=> msg[p] # 0)
  /\ \A p, q \in Producers : msg[p] = msg[q] /\ p # q => msg[p] = 0
  /\ \A b \in Bufs, r \in Rows : m_buffer[b][r] \in 0 .. sent
  /\ \A i \in DOMAIN file : file[i].msg \in 1 .. sent
  /\ \A p \in Producers, b \in Bufs, r \in Rows : m_buffer[b][r] = msg[p] => msg[p] = 0
  /\ \A p \in Producers : \A i \in DOMAIN file : file[i].msg # msg[p]
  /\ \A b, c \in Bufs, r, k \in Rows :
       m_buffer[b][r] = m_buffer[c][k] /\ m_buffer[b][r] # 0 => b = c /\ r = k
  /\ \A b \in Bufs, r \in Rows : \A i \in DOMAIN file : file[i].msg = m_buffer[b][r] => Past(b, r)
  /\ \A i, j \in DOMAIN file : file[i].msg = file[j].msg => i = j

(* Without an overlap of the exchanges the three pointers are a permutation  *)
(* of the buffers, and what an exchange has read is still true.  Rows beyond *)
(* m_index_ are zeroed, and those given out wait for their producers.        *)
Places ==
  /\ primary # secondary /\ primary # write /\ secondary # write
  /\ \A p \in Producers : ppc[p] = "swapping" => seen[p] = secondary
  /\ lpc = "swapWrite" => taken = secondary
  /\ \A b \in Bufs, r \in Rows :
       r > m_index[b] /\ ~(b = write /\ lpc = "clear") => m_buffer[b][r] = 0
  /\ \A p \in Producers : ppc[p] = "fill" =>
       idx[p] <= m_index[primary] /\ m_buffer[primary][idx[p]] = 0
  /\ \A p, q \in Producers : ppc[p] = "fill" /\ ppc[q] = "fill" /\ p # q => idx[p] # idx[q]

InRow(m) == \E b \in Bufs, r \in Rows : m_buffer[b][r] = m
InFile(m) == \E i \in DOMAIN file : file[i].msg = m
Empty(b) == \A r \in Rows : m_buffer[b][r] = 0

(* Nothing that was accepted is lost: what flush() is past is in the file,   *)
(* and the buffers are emptied one after the other at the end.               *)
Kept ==
  /\ \A m \in Accepted : InFile(m) \/ InRow(m)
  /\ \A b \in Bufs, r \in Rows : Past(b, r) /\ m_buffer[b][r] # 0 => InFile(m_buffer[b][r])
  /\ lpc \in {"exitSecondary", "exitPrimary", "done"} => Empty(write)
  /\ lpc \in {"exitPrimary", "done"} => Empty(secondary)
  /\ lpc = "done" => Empty(primary)

(* A length byte is overwritten only behind a line of 255 bytes. *)
Lengths255 ==
  /\ cut => Len(file) > 0 /\ file[Len(file)].len = 255
  /\ \A i \in DOMAIN file :
       file[i].len = LenByte(Length[file[i].msg]) \/ (i > 1 /\ file[i - 1].len = 255)

Inv == Types /\ Control /\ Single /\ Lengths255 /\ (~raced => Places /\ Kept)
-----------------------------------------------------------------------------
LEMMA InitInv == Init => Inv
PROOF
  <1> SUFFICES ASSUME Init PROVE Inv
    OBVIOUS
  <1> USE LoggerAssumption DEF Init
  <1>1. Types
    <2>1. /\ m_index \in [Bufs -> 0 .. BufSize] /\ m_buffer \in [Bufs -> [Rows -> Nat]]
          /\ idx \in [Producers -> Rows] /\ seen \in [Producers -> Bufs]
      BY DEF Bufs, Rows, NoRows
    <2>2. /\ primary \in Bufs /\ secondary \in Bufs /\ write \in Bufs /\ taken \in Bufs
          /\ sent \in 0 .. MaxMsgs /\ row \in 1 .. BufSize + 1
      BY DEF Bufs
    <2>3. ~cut /\ cut \in BOOLEAN
      BY Zenon
    <2> QED
      BY <2>1, <2>2, <2>3 DEF Types, Excl, Exits
  <1>2. Control
    BY DEF Control, Exits, Excl
  <1>3. \A b \in Bufs, r \in Rows : m_buffer[b][r] = 0
    BY DEF NoRows
  <1>4. Single /\ Lengths255
    BY <1>3 DEF Single, Lengths255
  <1>5. Places
    BY <1>3 DEF Places
  <1>6. Kept
    BY <1>3 DEF Kept, Accepted, Past, Flushing
  <1> QED
    BY <1>1, <1>2, <1>4, <1>5, <1>6 DEF Inv

(* A row that flush() writes adds one line for its message, or none. *)
LEMMA WriteRowLine ==
  ASSUME Types, Single, NEW b \in Bufs, NEW last \in BOOLEAN, row \in Rows, WriteRow(b, last)
  PROVE  /\ file' \in Seq([msg : Nat, len : Nat])
         /\ \/ m_buffer[b][row] = 0 /\ file' = file /\ ~cut'
            \/ /\ m_buffer[b][row] # 0
               /\ Len(file') = Len(file) + 1
               /\ \A i \in 1 .. Len(file) : file'[i] = file[i]
               /\ file'[Len(file) + 1].msg = m_buffer[b][row]
               /\ file'[Len(file) + 1].len =
                    IF cut THEN 10 ELSE LenByte(Length[m_buffer[b][row]])
               /\ cut' => file'[Len(file) + 1].len = 255
PROOF
  <1> DEFINE m == m_buffer[b][row]
             n == StoredLen(b, row)
  <1>1. file \in Seq([msg : Nat, len : Nat]) /\ m \in Nat /\ m \in 0 .. sent /\ sent \in 0 .. MaxMsgs
    BY DEF Types, Single
  <1>2. CASE m = 0
    <2>1. Line(b, row) = <<>> /\ n # 255
      BY <1>2 DEF Line, StoredLen
    <2>2. file' = file \o <<>> /\ ~cut'
      BY <2>1 DEF WriteRow
    <2> QED
      BY <1>1, <1>2, <2>2
  <1>3. CASE m # 0
    <2>1. Length[m] \in Nat
      <3>1. Length \in Seq(Nat) /\ Len(Length) >= MaxMsgs /\ MaxMsgs \in Nat
        BY LoggerAssumption
      <3> HIDE DEF m
      <3>2. m \in 1 .. Len(Length)
        BY <1>1, <1>3, <3>1
      <3> QED
        BY <3>1, <3>2
    <2>2. n = (IF cut THEN 10 ELSE LenByte(Length[m])) /\ n \in Nat
      BY <1>3, <2>1 DEF StoredLen, LenByte
    <2>3. file' = file \o <<[msg |-> m, len |-> n]>> /\ (cut' => n = 255)
      BY <1>3 DEF WriteRow, Line
    <2> HIDE DEF m, n
    <2>4. /\ file' \in Seq([msg : Nat, len : Nat]) /\ Len(file') = Len(file) + 1
          /\ \A i \in 1 .. Len(file) : file'[i] = file[i]
          /\ file'[Len(file) + 1] = [msg |-> m, len |-> n]
      BY <1>1, <2>2, <2>3
    <2> QED
      BY <1>3, <2>2, <2>3, <2>4 DEF m
  <1> QED
    BY <1>2, <1>3

(* The steps that only move control: whatever the log thread or the owner    *)
(* does besides flushing, resetting and exchanging.                          *)
Quiet ==
  \/ CountDown \/ LoopTest \/ EpollWait \/ EpollInterrupted \/ RunningTest \/ ReadEvent
  \/ OwnerStep \/ DestroyStore \/ UNCHANGED vars

LEMMA StepCases ==
  ASSUME [Next]_vars
  PROVE  \/ \E p \in Producers : Log(p) \/ ProducerStep(p)
         \/ Quiet \/ SwapRead \/ SwapWrite \/ FlushRow \/ ResetIndex \/ ClearRows \/ ExitFlush
BY DEF Next, LogThreadStep, Quiet, Closed

LEMMA QuietKeeps ==
  ASSUME Types, Control, Quiet
  PROVE  /\ UNCHANGED <<primary, secondary, write, raced, m_index, m_buffer, ppc, msg, idx,
                        seen, sent, taken, row, cut, file>>
         /\ \/ lpc' = lpc
            \/ /\ lpc \notin {"flush", "reset", "clear", "swapWrite", "done"} \cup Exits
               /\ lpc' \notin {"flush", "reset", "clear", "swapWrite", "done"} \cup Exits
            \/ /\ lpc \notin {"flush", "reset", "clear", "swapWrite", "done"} \cup Exits
               /\ lpc' = "exitWrite" /\ row = 1 /\ ~m_running
PROOF
  <1> USE DEF ptrVars, bufVars, prodVars, rowVars, logVars, Exits
  <1>1. CASE CountDown \/ LoopTest \/ EpollWait
    BY <1>1 DEF CountDown, LoopTest, EpollWait, Types
  <1>2. CASE EpollInterrupted \/ RunningTest \/ ReadEvent
    BY <1>2 DEF EpollInterrupted, RunningTest, ReadEvent, Types
  <1>3. CASE OwnerStep
    BY <1>3 DEF OwnerStep, Start, Started, DestroyNotify, Join, Control
  <1>4. CASE DestroyStore \/ UNCHANGED vars
    BY <1>4 DEF DestroyStore, vars
  <1> QED
    BY <1>1, <1>2, <1>3, <1>4 DEF Quiet

LEMMA StepTypes ==
  ASSUME Types, Control, Single, [Next]_vars
  PROVE  Types'
PROOF
  <1> USE DEF ptrVars, bufVars, prodVars, rowVars, logVars
  <1>1. ASSUME NEW p \in Producers, Log(p) PROVE Types'
    <2>1. sent + 1 \in 0 .. MaxMsgs /\ sent + 1 \in Nat
      BY <1>1, LoggerAssumption DEF Log, Types
    <2>2. /\ msg' \in [Producers -> Nat]
          /\ ppc' \in [Producers -> {"idle", "enter", "fill", "full"} \cup Excl]
      BY <1>1, <2>1 DEF Log, Types
    <2> QED
      BY <1>1, <2>1, <2>2 DEF Log, Types
  <1>2. ASSUME NEW p \in Producers, GetIdx(p) PROVE Types'
    <2>1. m_index[primary] \in 0 .. BufSize
      BY DEF Types
    <2>2. HasRow => m_index[primary] + 1 \in 0 .. BufSize /\ m_index[primary] + 1 \in Rows
      BY <2>1, LoggerAssumption DEF HasRow, Rows
    <2>3. m_index' \in [Bufs -> 0 .. BufSize] /\ idx' \in [Producers -> Rows]
      <3>1. CASE HasRow
        <4>1. /\ idx' = [idx EXCEPT ![p] = m_index[primary] + 1]
              /\ m_index' = [m_index EXCEPT ![primary] = m_index[primary] + 1]
          BY <1>2, <3>1 DEF GetIdx
        <4> QED
          BY <2>2, <3>1, <4>1 DEF Types
      <3>2. CASE ~HasRow
        BY <1>2, <3>2 DEF GetIdx, Types
      <3> QED
        BY <3>1, <3>2
    <2>4. ppc' \in [Producers -> {"idle", "enter", "fill", "full"} \cup Excl]
      BY <1>2 DEF GetIdx, Types
    <2>5. UNCHANGED <<primary, secondary, write, taken, m_buffer, msg, seen, sent, row, cut, lpc, file>>
      BY <1>2 DEF GetIdx
    <2> QED
      BY <2>3, <2>4, <2>5 DEF Types
  <1>3. ASSUME NEW p \in Producers, AddLog(p) PROVE Types'
    <2>1. /\ primary \in Bufs /\ idx[p] \in Rows /\ msg[p] \in Nat
          /\ m_buffer \in [Bufs -> [Rows -> Nat]]
      BY DEF Types
    <2>0. 1 \in Rows
      BY LoggerAssumption DEF Rows
    <2>2. m_buffer' \in [Bufs -> [Rows -> Nat]]
      BY <1>3, <2>1 DEF AddLog
    <2>3. cut' \in BOOLEAN /\ (cut' => cut)
      BY <1>3 DEF AddLog
    <2>4. /\ msg' \in [Producers -> Nat] /\ idx' \in [Producers -> Rows]
          /\ ppc' \in [Producers -> {"idle", "enter", "fill", "full"} \cup Excl]
      BY <1>3, <2>0, <2>1 DEF AddLog, Types
    <2>5. /\ UNCHANGED <<primary, secondary, write, taken, m_index, seen, sent, row, lpc, file>>
      BY <1>3 DEF AddLog
    <2> QED
      BY <2>2, <2>3, <2>4, <2>5 DEF Types
  <1>4. ASSUME NEW p \in Producers, Recheck(p) PROVE Types'
    BY <1>4 DEF Recheck, Types, Excl
  <1>5. ASSUME NEW p \in Producers, PrimarySwap(p) PROVE Types'
    <2>1. 1 \in Bufs
      BY DEF Bufs
    <2> QED
      BY <1>5, <2>1 DEF PrimarySwap, Types, Excl
  <1>6. ASSUME NEW p \in Producers, NotifyWait(p) \/ Unlock(p) PROVE Types'
    <2>1. ppc' \in [Producers -> {"idle", "enter", "fill", "full"} \cup Excl]
      BY <1>6 DEF NotifyWait, Unlock, Types, Excl
    <2>2. UNCHANGED <<primary, secondary, write, taken, m_index, m_buffer, msg, idx, seen, sent,
                      row, cut, lpc, file>>
      BY <1>6 DEF NotifyWait, Unlock
    <2> QED
      BY <2>1, <2>2 DEF Types
  <1>7. CASE Quiet
    <2>1. UNCHANGED <<primary, secondary, write, m_index, m_buffer, ppc, msg, idx,
                      seen, sent, taken, row, cut, file>>
      BY <1>7, QuietKeeps
    <2>2. lpc' = lpc \/ (lpc \notin {"flush"} \cup Exits /\ lpc' # "flush")
      BY <1>7, QuietKeeps DEF Exits
    <2> QED
      BY <2>1, <2>2 DEF Types
  <1>8. CASE SwapRead \/ SwapWrite
    <2>1. 1 \in Bufs /\ row = 1 /\ ~cut
      BY <1>8 DEF Bufs, SwapRead, SwapWrite, Types, Exits
    <2>2. /\ secondary' \in Bufs /\ write' \in Bufs /\ taken' \in Bufs
          /\ lpc' = "swapWrite" \/ lpc' = "flush"
      BY <1>8, <2>1 DEF SwapRead, SwapWrite, Types
    <2>3. UNCHANGED <<primary, m_index, m_buffer, ppc, msg, idx, seen, sent, row, cut, file>>
      BY <1>8 DEF SwapRead, SwapWrite
    <2>4. 1 <= BufSize
      BY LoggerAssumption
    <2> QED
      BY <2>1, <2>2, <2>3, <2>4 DEF Types, Exits
  <1>9. CASE FlushRow
    <2>1. row \in Rows /\ row \in Nat
      BY <1>9, LoggerAssumption DEF FlushRow, Types, Rows
    <2>2. write \in Bufs /\ (row = FlushSize) \in BOOLEAN
      BY DEF Types
    <2>3. file' \in Seq([msg : Nat, len : Nat])
      BY <1>9, <2>1, <2>2, WriteRowLine DEF FlushRow
    <2>4. /\ cut' \in BOOLEAN /\ row' \in 1 .. BufSize + 1
          /\ \/ lpc' = "flush" /\ row' <= BufSize
             \/ lpc' = "reset" /\ row' = 1 /\ ~cut'
      <3>1. row \in 1 .. BufSize /\ BufSize \in Nat \ {0}
        BY <2>1, LoggerAssumption DEF Rows
      <3>2. CASE row = FlushSize
        <4>1. row' = 1 /\ lpc' = "reset"
          BY <1>9, <3>2 DEF FlushRow, WriteRow
        <4>2. cut' \in BOOLEAN /\ ~cut'
          BY <1>9, <3>2 DEF FlushRow, WriteRow
        <4>3. 1 \in 1 .. BufSize + 1
          BY <3>1
        <4> QED
          BY <4>1, <4>2, <4>3
      <3>3. CASE row # FlushSize
        <4>1. row' = row + 1 /\ lpc' = "flush" /\ cut' \in BOOLEAN
          BY <1>9, <3>3 DEF FlushRow, WriteRow
        <4> QED
          BY <3>1, <3>3, <4>1 DEF FlushSize
      <3> QED
        BY <3>2, <3>3
    <2> QED
      BY <1>9, <2>3, <2>4 DEF FlushRow, Types, Exits
  <1>10. CASE ResetIndex \/ ClearRows
    <2>1. NoRows \in [Rows -> Nat] /\ 0 \in 0 .. BufSize
      BY LoggerAssumption DEF NoRows
    <2>2. m_index' \in [Bufs -> 0 .. BufSize] /\ m_buffer' \in [Bufs -> [Rows -> Nat]]
      <3>1. CASE ResetIndex
        BY <2>1, <3>1 DEF ResetIndex, Types
      <3>2. CASE ClearRows
        <4>1. m_buffer' = [m_buffer EXCEPT ![write] = NoRows] /\ m_index' = m_index
          BY <3>2 DEF ClearRows, Cleared
        <4> QED
          BY <2>1, <4>1 DEF Types
      <3> QED
        BY <1>10, <3>1, <3>2
    <2>3. /\ UNCHANGED <<primary, secondary, write, taken, ppc, msg, idx, seen, sent, row, cut, file>>
          /\ lpc' \in {"clear", "loop"} /\ lpc \in {"reset", "clear"}
      BY <1>10 DEF ResetIndex, ClearRows
    <2> QED
      BY <2>2, <2>3 DEF Types, Exits
  <1>11. CASE ExitFlush
    <2>1. PICK b \in Bufs, goOn \in Exits \cup {"done"} :
            lpc \in Exits /\ FlushFilled(b, goOn)
      BY <1>11 DEF ExitFlush, Types, Exits
    <2>2. UNCHANGED <<primary, secondary, write, taken, ppc, msg, idx, seen, sent>>
      BY <1>11 DEF ExitFlush
    <2>3. CASE row <= m_index[b] /\ WriteRow(b, FALSE) /\ UNCHANGED <<bufVars, lpc>>
      <3>1. row \in Rows /\ row + 1 \in 1 .. BufSize + 1 /\ row \in Nat
        BY <2>3, LoggerAssumption DEF Types, Rows
      <3>2. file' \in Seq([msg : Nat, len : Nat])
        BY <2>3, <3>1, WriteRowLine
      <3>3. cut' \in BOOLEAN /\ row' \in 1 .. BufSize + 1
        BY <2>3, <3>1 DEF WriteRow
      <3> QED
        BY <2>1, <2>2, <2>3, <3>2, <3>3 DEF Types, Exits
    <2>4. CASE /\ m_index' = [m_index EXCEPT ![b] = 0] /\ m_buffer' = Cleared(b)
               /\ row' = 1 /\ cut' = FALSE /\ lpc' = goOn /\ UNCHANGED file
      <3>1. NoRows \in [Rows -> Nat] /\ 0 \in 0 .. BufSize /\ 1 \in 1 .. BufSize + 1
        BY LoggerAssumption DEF NoRows
      <3>2. cut' \in BOOLEAN /\ ~cut'
        BY <2>4
      <3>3. m_index' \in [Bufs -> 0 .. BufSize] /\ m_buffer' \in [Bufs -> [Rows -> Nat]]
        BY <2>4, <3>1 DEF Cleared, Types
      <3> QED
        BY <2>1, <2>2, <2>4, <3>1, <3>2, <3>3 DEF Types, Exits
    <2> QED
      BY <2>1, <2>3, <2>4 DEF FlushFilled
  <1> QED
    BY StepCases, <1>1, <1>2, <1>3, <1>4, <1>5, <1>6, <1>7, <1>8, <1>9, <1>10, <1>11
    DEF ProducerStep

LEMMA StepControl ==
  ASSUME Types, Control, [Next]_vars
  PROVE  Control'
PROOF
  <1> USE DEF ptrVars, bufVars, prodVars, rowVars, logVars, Exits, Excl, Control
  <1>1. ASSUME NEW p \in Producers, Log(p) PROVE Control'
    BY <1>1, ZenonT(60) DEF Log, Types
  <1>2. ASSUME NEW p \in Producers, GetIdx(p) \/ AddLog(p) PROVE Control'
    BY <1>2, ZenonT(60) DEF GetIdx, AddLog, ExclusiveHeld, Types
  <1>3. ASSUME NEW p \in Producers, Recheck(p) PROVE Control'
    BY <1>3, ZenonT(60) DEF Recheck, ExclusiveFree, SharedHeld, ExclusiveHeld, Types
  <1>4. ASSUME NEW p \in Producers, PrimarySwap(p) \/ NotifyWait(p) \/ Unlock(p) PROVE Control'
    BY <1>4, ZenonT(60) DEF PrimarySwap, NotifyWait, Unlock, Types
  <1>5. CASE CountDown \/ LoopTest \/ EpollWait \/ EpollInterrupted \/ RunningTest \/ ReadEvent
    BY <1>5 DEF CountDown, LoopTest, EpollWait, EpollInterrupted, RunningTest, ReadEvent
  <1>6. CASE OwnerStep \/ DestroyStore \/ UNCHANGED vars
    BY <1>6 DEF OwnerStep, Start, Started, DestroyNotify, Join, DestroyStore, vars
  <1>7. CASE SwapRead \/ SwapWrite \/ FlushRow \/ ResetIndex \/ ClearRows
    BY <1>7 DEF SwapRead, SwapWrite, FlushRow, ResetIndex, ClearRows
  <1>8. CASE ExitFlush
    BY <1>8 DEF ExitFlush, FlushFilled
  <1> QED
    BY StepCases, <1>1, <1>2, <1>3, <1>4, <1>5, <1>6, <1>7, <1>8 DEF ProducerStep, Quiet
-----------------------------------------------------------------------------
(* While a producer is in log() the log thread is in its loop. *)
LEMMA LoopWhileLogging ==
  ASSUME Control, NEW p \in Producers, ppc[p] # "idle"
  PROVE  app = "open" /\ lpc \notin Exits \cup {"done"}
BY DEF Control

(* A step that leaves messages, rows and the file alone keeps Single when it *)
(* does not move flush().                                                    *)
LEMMA SingleKept ==
  ASSUME Types, Single, UNCHANGED <<msg, sent, m_buffer, file>>,
         \A p \in Producers : ppc'[p] = "idle" <=> ppc[p] = "idle",
         \A b \in Bufs, r \in Rows : Past(b, r) => Past(b, r)'
  PROVE  Single'
BY DEF Single

LEMMA StepSingle ==
  ASSUME Types, Control, Single, [Next]_vars
  PROVE  Single'
PROOF
  <1> USE DEF ptrVars, bufVars, prodVars, rowVars, logVars
  <1>1. ASSUME NEW p \in Producers, Log(p) PROVE Single'
    <2>1. /\ UNCHANGED <<m_buffer, file>> /\ sent' = sent + 1 /\ sent \in Nat
          /\ \A b \in Bufs, r \in Rows : Past(b, r)' <=> Past(b, r)
      BY <1>1 DEF Log, Types, Past, Flushing
    <2>2. CASE UNCHANGED <<msg, ppc>>
      BY <2>1, <2>2 DEF Single
    <2>3. CASE /\ \A q \in Producers : msg'[q] = IF q = p THEN sent + 1 ELSE msg[q]
               /\ \A q \in Producers : ppc'[q] = IF q = p THEN "enter" ELSE ppc[q]
      BY <2>1, <2>3 DEF Single
    <2> QED
      BY <1>1, <2>2, <2>3 DEF Log, Types
  <1>2. ASSUME NEW p \in Producers, GetIdx(p) \/ Recheck(p) \/ NotifyWait(p) \/ Unlock(p)
        PROVE Single'
    <2>1. /\ UNCHANGED <<msg, sent, m_buffer, file, lpc, row, primary, secondary, write>>
          /\ \A q \in Producers : ppc'[q] = "idle" <=> ppc[q] = "idle"
      BY <1>2 DEF GetIdx, Recheck, NotifyWait, Unlock, Types
    <2> QED
      BY <2>1, SingleKept DEF Past, Flushing
  <1>3. ASSUME NEW p \in Producers, PrimarySwap(p) PROVE Single'
    <2>1. /\ UNCHANGED <<msg, sent, m_buffer, file, lpc, row, write>>
          /\ \A q \in Producers : ppc'[q] = "idle" <=> ppc[q] = "idle"
      BY <1>3 DEF PrimarySwap, Types
    <2>2. lpc \notin Exits
      BY <1>3, LoopWhileLogging DEF PrimarySwap
    <2> QED
      BY <2>1, <2>2, SingleKept DEF Past, Flushing, Exits
  <1>4. ASSUME NEW p \in Producers, AddLog(p) PROVE Single'
    <2>1. /\ ppc[p] # "idle" /\ UNCHANGED <<sent, file, lpc, row, primary, secondary, write>>
          /\ primary \in Bufs /\ idx[p] \in Rows
      BY <1>4 DEF AddLog, Types
    <2>2. \A b \in Bufs, r \in Rows : m_buffer'[b][r] =
            IF b = primary /\ r = idx[p] THEN msg[p] ELSE m_buffer[b][r]
      BY <1>4, <2>1 DEF AddLog, Types
    <2>3. \A q \in Producers : /\ msg'[q] = IF q = p THEN 0 ELSE msg[q]
                               /\ ppc'[q] = IF q = p THEN "idle" ELSE ppc[q]
      BY <1>4 DEF AddLog, Types
    <2>4. \A b \in Bufs, r \in Rows : Past(b, r)' <=> Past(b, r)
      BY <2>1 DEF Past, Flushing
    <2>5. msg[p] \in 1 .. sent
      BY <2>1 DEF Single, Types
    <2>6. /\ \A q \in Producers : msg'[q] \in 0 .. sent' /\ (ppc'[q] # "idle" <=> msg'[q] # 0)
          /\ \A q, s \in Producers : msg'[q] = msg'[s] /\ q # s => msg'[q] = 0
          /\ \A b \in Bufs, r \in Rows : m_buffer'[b][r] \in 0 .. sent'
          /\ \A i \in DOMAIN file' : file'[i].msg \in 1 .. sent'
      <3>1. \A q \in Producers : msg'[q] \in 0 .. sent' /\ (ppc'[q] # "idle" <=> msg'[q] # 0)
        <4>1. 0 \in 0 .. sent
          BY DEF Types
        <4> QED
          BY <2>1, <2>3, <4>1 DEF Single
      <3> QED
        BY <2>1, <2>2, <2>3, <2>5, <3>1 DEF Single
    <2>7. \A q \in Producers, b \in Bufs, r \in Rows : m_buffer'[b][r] = msg'[q] => msg'[q] = 0
      BY <2>2, <2>3, <2>5 DEF Single
    <2>8. \A q \in Producers : \A i \in DOMAIN file' : file'[i].msg # msg'[q]
      BY <2>1, <2>3 DEF Single
    <2>9. \A b, c \in Bufs, r, k \in Rows :
            m_buffer'[b][r] = m_buffer'[c][k] /\ m_buffer'[b][r] # 0 => b = c /\ r = k
      BY <2>2, <2>5 DEF Single
    <2>10. \A b \in Bufs, r \in Rows : \A i \in DOMAIN file' :
             file'[i].msg = m_buffer'[b][r] => Past(b, r)'
      BY <2>1, <2>2, <2>4 DEF Single
    <2> QED
      BY <2>1, <2>6, <2>7, <2>8, <2>9, <2>10 DEF Single
  <1>5. CASE Quiet
    <2>1. UNCHANGED <<msg, sent, m_buffer, file, ppc, row, primary, secondary, write>>
      BY <1>5, QuietKeeps
    <2>2. lpc' = lpc \/ lpc \notin {"flush", "reset", "clear"} \cup Exits
      BY <1>5, QuietKeeps
    <2> QED
      BY <2>1, <2>2, SingleKept DEF Past, Flushing, Exits
  <1>6. CASE SwapRead \/ SwapWrite
    <2>1. /\ UNCHANGED <<msg, sent, m_buffer, file, ppc>>
          /\ lpc \notin {"flush", "reset", "clear"} \cup Exits
      BY <1>6 DEF SwapRead, SwapWrite, Exits
    <2> QED
      BY <2>1, SingleKept DEF Past, Flushing, Exits
  <1>7. CASE ResetIndex
    <2>1. /\ UNCHANGED <<msg, sent, m_buffer, file, ppc, write>>
          /\ lpc = "reset" /\ lpc' = "clear"
      BY <1>7 DEF ResetIndex
    <2> QED
      BY <2>1, SingleKept DEF Past, Flushing
  <1>8. ASSUME NEW d \in Bufs, \A b \in Bufs : Flushing(b) => b = d,
               m_buffer' = Cleared(d), UNCHANGED <<msg, sent, ppc, file>>
        PROVE  Single'
    <2>1. \A b \in Bufs, r \in Rows : m_buffer'[b][r] = IF b = d THEN 0 ELSE m_buffer[b][r]
      BY <1>8 DEF Cleared, NoRows, Types
    <2>2. \A b \in Bufs, r \in Rows : \A i \in DOMAIN file : file[i].msg # m_buffer'[b][r]
      BY <1>8, <2>1 DEF Single, Past
    <2>3. sent \in Nat
      BY DEF Types
    <2> QED
      BY <1>8, <2>1, <2>2, <2>3 DEF Single
  <1>9. ASSUME NEW d \in Bufs, NEW last \in BOOLEAN, Flushing(d), row \in Rows,
               \A b \in Bufs : Flushing(b) => b = d, lpc \notin {"reset", "clear"},
               WriteRow(d, last), UNCHANGED <<msg, sent, ppc, m_buffer>>,
               \A r \in Rows : r <= row => Past(d, r)'
        PROVE  Single'
    <2>1. \A b \in Bufs, r \in Rows : Past(b, r) <=> b = d /\ r < row
      BY <1>9 DEF Past
    <2>2. CASE m_buffer[d][row] = 0 /\ file' = file
      <3>1. \A b \in Bufs, r \in Rows : Past(b, r) => Past(b, r)'
        BY <1>9, <2>1 DEF Rows
      <3> QED
        BY <1>9, <2>2, <3>1, SingleKept
    <2>3. CASE /\ m_buffer[d][row] # 0
               /\ file' \in Seq([msg : Nat, len : Nat])
               /\ Len(file') = Len(file) + 1
               /\ \A i \in 1 .. Len(file) : file'[i] = file[i]
               /\ file'[Len(file) + 1].msg = m_buffer[d][row]
      <3>1. PICK m \in 1 .. sent : m = m_buffer[d][row]
        BY <1>9, <2>3, SMTT(60) DEF Single, Types
      <3>2. \A i \in DOMAIN file : file[i].msg # m
        BY <1>9, <2>1, <3>1 DEF Single, Rows
      <3>3. DOMAIN file = 1 .. Len(file) /\ DOMAIN file' = 1 .. Len(file) + 1 /\ Len(file) \in Nat
        BY <2>3 DEF Types
      <3>4. \A i \in DOMAIN file' :
              \/ i \in DOMAIN file /\ file'[i].msg = file[i].msg
              \/ i = Len(file) + 1 /\ file'[i].msg = m
        BY <2>3, <3>1, <3>3
      <3>5. \A i \in DOMAIN file' : file'[i].msg \in 1 .. sent
        BY <3>4 DEF Single
      <3>6. \A q \in Producers : \A i \in DOMAIN file' : file'[i].msg # msg[q]
        BY <1>9, <3>1, <3>4 DEF Single
      <3>7. \A b \in Bufs, r \in Rows : \A i \in DOMAIN file' :
              file'[i].msg = m_buffer[b][r] => Past(b, r)'
        <4> SUFFICES ASSUME NEW b \in Bufs, NEW r \in Rows, NEW i \in DOMAIN file',
                            file'[i].msg = m_buffer[b][r]
                     PROVE  b = d /\ r <= row
          BY <1>9
        <4>1. CASE i \in DOMAIN file /\ file'[i].msg = file[i].msg
          <5>1. Past(b, r)
            BY <4>1 DEF Single
          <5> QED
            BY <1>9, <2>1, <5>1 DEF Rows
        <4>2. CASE file'[i].msg = m
          <5>1. m_buffer[b][r] = m_buffer[d][row] /\ m_buffer[d][row] # 0
            BY <3>1, <4>2
          <5>2. b = d /\ r = row
            BY <1>9, <5>1 DEF Single
          <5> QED
            BY <5>2 DEF Rows
        <4> QED
          BY <3>4, <4>1, <4>2
      <3>8. \A i, j \in DOMAIN file' : file'[i].msg = file'[j].msg => i = j
        BY <3>2, <3>4 DEF Single
      <3> QED
        BY <1>9, <3>5, <3>6, <3>7, <3>8 DEF Single
    <2> QED
      BY <1>9, <2>2, <2>3, WriteRowLine
  <1>10. CASE ClearRows
    <2>1. write \in Bufs /\ \A b \in Bufs : Flushing(b) => b = write
      BY <1>10 DEF ClearRows, Flushing, Types
    <2> QED
      BY <1>8, <1>10, <2>1 DEF ClearRows
  <1>11. CASE FlushRow
    <2>1. /\ write \in Bufs /\ Flushing(write) /\ \A b \in Bufs : Flushing(b) => b = write
          /\ lpc = "flush"
      BY <1>11 DEF FlushRow, Flushing, Types
    <2>2. row \in Rows
      BY <1>11, LoggerAssumption DEF FlushRow, Types, Rows
    <2>3. /\ WriteRow(write, row = FlushSize) /\ (row = FlushSize) \in BOOLEAN
          /\ UNCHANGED <<msg, sent, ppc, m_buffer, write>>
          /\ lpc' = "reset" \/ (lpc' = "flush" /\ row' = row + 1)
      BY <1>11 DEF FlushRow, WriteRow
    <2>4. \A r \in Rows : r <= row => Past(write, r)'
      BY <2>2, <2>3 DEF Past, Flushing, Rows
    <2> QED
      BY <1>9, <2>1, <2>2, <2>3, <2>4
  <1>12. CASE ExitFlush
    <2>1. PICK d \in Bufs, goOn \in Exits \cup {"done"} :
            /\ lpc \in Exits /\ FlushFilled(d, goOn)
            /\ Flushing(d) /\ \A b \in Bufs : Flushing(b) => b = d
      BY <1>12 DEF ExitFlush, Types, Exits, Flushing
    <2>2. UNCHANGED <<msg, sent, ppc, primary, secondary, write>>
      BY <1>12 DEF ExitFlush
    <2>3. CASE row <= m_index[d] /\ WriteRow(d, FALSE) /\ UNCHANGED <<bufVars, lpc>>
      <3>1. row \in Rows
        BY <2>3, LoggerAssumption DEF Types, Rows
      <3>2. row' = row + 1
        BY <2>3 DEF WriteRow
      <3>3. \A r \in Rows : r <= row => Past(d, r)'
        BY <2>1, <2>2, <2>3, <3>1, <3>2 DEF Past, Flushing, Rows
      <3>4. lpc \notin {"reset", "clear"}
        BY <2>1 DEF Exits
      <3> QED
        BY <1>9, <2>1, <2>2, <2>3, <3>1, <3>3, <3>4
    <2>4. CASE m_buffer' = Cleared(d) /\ UNCHANGED file
      BY <1>8, <2>1, <2>2, <2>4
    <2> QED
      BY <2>1, <2>3, <2>4 DEF FlushFilled
  <1> QED
    BY StepCases, <1>1, <1>2, <1>3, <1>4, <1>5, <1>6, <1>7, <1>10, <1>11, <1>12
    DEF ProducerStep

LEMMA StepLengths ==
  ASSUME Types, Control, Single, Lengths255, [Next]_vars
  PROVE  Lengths255'
PROOF
  <1> USE DEF ptrVars, bufVars, prodVars, rowVars, logVars
  <1>1. ASSUME file' = file, cut' => cut PROVE Lengths255'
    BY <1>1 DEF Lengths255
  <1>2. ASSUME NEW d \in Bufs, NEW last \in BOOLEAN, row \in Rows, WriteRow(d, last)
        PROVE  Lengths255'
    <2>1. CASE m_buffer[d][row] = 0 /\ file' = file /\ ~cut'
      BY <1>1, <2>1
    <2>2. CASE /\ file' \in Seq([msg : Nat, len : Nat])
               /\ m_buffer[d][row] # 0
               /\ Len(file') = Len(file) + 1
               /\ \A i \in 1 .. Len(file) : file'[i] = file[i]
               /\ file'[Len(file) + 1].msg = m_buffer[d][row]
               /\ file'[Len(file) + 1].len =
                    IF cut THEN 10 ELSE LenByte(Length[m_buffer[d][row]])
               /\ cut' => file'[Len(file) + 1].len = 255
      <3>1. DOMAIN file = 1 .. Len(file) /\ DOMAIN file' = 1 .. Len(file) + 1 /\ Len(file) \in Nat
        BY <2>2 DEF Types
      <3>2. cut' => Len(file') > 0 /\ file'[Len(file')].len = 255
        BY <2>2, <3>1
      <3>3. ASSUME NEW i \in 1 .. Len(file)
            PROVE  file'[i].len = LenByte(Length[file'[i].msg]) \/ (i > 1 /\ file'[i - 1].len = 255)
        <4>1. file[i].len = LenByte(Length[file[i].msg]) \/ (i > 1 /\ file[i - 1].len = 255)
          BY <3>1 DEF Lengths255
        <4>2. file'[i] = file[i] /\ (i > 1 => file'[i - 1] = file[i - 1])
          <5>1. i > 1 => i - 1 \in 1 .. Len(file)
            BY <3>1
          <5> QED
            BY <2>2, <5>1
        <4> QED
          BY <4>1, <4>2
      <3>4. LET i == Len(file) + 1
            IN  file'[i].len = LenByte(Length[file'[i].msg]) \/ (i > 1 /\ file'[i - 1].len = 255)
        <4>1. CASE cut
          <5>1. Len(file) > 0 /\ file[Len(file)].len = 255
            BY <4>1 DEF Lengths255
          <5>2. file'[Len(file)] = file[Len(file)] /\ Len(file) + 1 - 1 = Len(file)
            BY <2>2, <3>1, <5>1
          <5> QED
            BY <3>1, <5>1, <5>2
        <4>2. CASE ~cut
          BY <2>2, <4>2
        <4> QED
          BY <4>1, <4>2
      <3> QED
        BY <3>1, <3>2, <3>3, <3>4 DEF Lengths255
    <2> QED
      BY <1>2, <2>1, <2>2, WriteRowLine
  <1>3. ASSUME NEW p \in Producers, Log(p) \/ ProducerStep(p) PROVE Lengths255'
    <2>1. file' = file /\ (cut' => cut)
      <3>1. CASE AddLog(p)
        BY <3>1 DEF AddLog
      <3>2. CASE Log(p) \/ GetIdx(p) \/ Recheck(p) \/ PrimarySwap(p) \/ NotifyWait(p) \/ Unlock(p)
        BY <3>2 DEF Log, GetIdx, Recheck, PrimarySwap, NotifyWait, Unlock
      <3> QED
        BY <1>3, <3>1, <3>2 DEF ProducerStep
    <2> QED
      BY <1>1, <2>1
  <1>4. CASE Quiet
    BY <1>1, <1>4, QuietKeeps
  <1>5. CASE SwapRead \/ SwapWrite \/ ResetIndex \/ ClearRows
    BY <1>1, <1>5 DEF SwapRead, SwapWrite, ResetIndex, ClearRows
  <1>6. CASE FlushRow
    <2>1. row \in Rows /\ write \in Bufs /\ (row = FlushSize) \in BOOLEAN
      BY <1>6, LoggerAssumption DEF FlushRow, Types, Rows
    <2> QED
      BY <1>2, <1>6, <2>1 DEF FlushRow
  <1>7. CASE ExitFlush
    <2>1. PICK d \in Bufs, goOn \in Exits \cup {"done"} : FlushFilled(d, goOn)
      BY <1>7 DEF ExitFlush, Types, Exits
    <2>2. CASE row <= m_index[d] /\ WriteRow(d, FALSE)
      <3>1. row \in Rows
        BY <2>2, LoggerAssumption DEF Types, Rows
      <3> QED
        BY <1>2, <2>2, <3>1
    <2>3. CASE cut' = FALSE /\ UNCHANGED file
      BY <1>1, <2>3
    <2> QED
      BY <2>1, <2>2, <2>3 DEF FlushFilled
  <1> QED
    BY StepCases, <1>3, <1>4, <1>5, <1>6, <1>7
-----------------------------------------------------------------------------
LEMMA StepPlaces ==
  ASSUME Types, Control, ~raced => Places, [Next]_vars, ~raced'
  PROVE  Places'
PROOF
  <1> USE DEF ptrVars, bufVars, prodVars, rowVars, logVars
  <1>1. ASSUME NEW p \in Producers, Log(p) PROVE Places'
    <2>1. /\ UNCHANGED <<primary, secondary, write, raced, m_index, m_buffer, idx, seen, lpc, taken>>
          /\ \A q \in Producers : ppc'[q] \in {"fill", "swapping"} => ppc'[q] = ppc[q]
      BY <1>1 DEF Log, Types
    <2> QED
      BY <2>1 DEF Places
  <1>2. ASSUME NEW p \in Producers, GetIdx(p) PROVE Places'
    <2>1. /\ UNCHANGED <<primary, secondary, write, raced, m_buffer, seen, lpc, taken>> /\ Places
          /\ \A q \in Producers \ {p} : ppc'[q] = ppc[q] /\ idx'[q] = idx[q]
          /\ primary \in Bufs
      BY <1>2 DEF GetIdx, Types
    <2>2. CASE HasRow
      <3>1. PICK n \in 0 .. BufSize - 1 : n = m_index[primary]
        BY <2>1, <2>2, LoggerAssumption DEF HasRow, Types
      <3>2. /\ ppc'[p] = "fill" /\ idx'[p] = n + 1 /\ n + 1 \in Rows
            /\ \A b \in Bufs : m_index'[b] = IF b = primary THEN n + 1 ELSE m_index[b]
        <4>1. n + 1 \in Rows
          BY LoggerAssumption DEF Rows
        <4>2. /\ idx' = [idx EXCEPT ![p] = m_index[primary] + 1]
              /\ m_index' = [m_index EXCEPT ![primary] = m_index[primary] + 1]
              /\ ppc' = [ppc EXCEPT ![p] = "fill"]
          BY <1>2, <2>2 DEF GetIdx
        <4> QED
          BY <3>1, <4>1, <4>2 DEF Types
      <3>3. m_buffer[primary][n + 1] = 0
        BY <2>1, <3>1, <3>2 DEF Places
      <3>4. \A q \in Producers \ {p} : ppc[q] = "fill" => idx[q] <= n /\ idx[q] \in Nat
        BY <2>1, <3>1 DEF Places, Types, Rows
      <3>5. \A q \in Producers : ppc'[q] = "fill" =>
              idx'[q] <= m_index'[primary] /\ m_buffer[primary][idx'[q]] = 0
        BY <2>1, <3>1, <3>2, <3>3, <3>4 DEF Places
      <3>6. \A q, s \in Producers : ppc'[q] = "fill" /\ ppc'[s] = "fill" /\ q # s => idx'[q] # idx'[s]
        BY <2>1, <3>1, <3>2, <3>4 DEF Places
      <3>7. \A b \in Bufs, r \in Rows :
              r > m_index'[b] /\ ~(b = write /\ lpc = "clear") => m_buffer[b][r] = 0
        <4> SUFFICES ASSUME NEW b \in Bufs, NEW r \in Rows, r > m_index'[b],
                            ~(b = write /\ lpc = "clear")
                     PROVE  m_buffer[b][r] = 0
          OBVIOUS
        <4>1. r > m_index[b]
          BY <3>1, <3>2 DEF Rows
        <4> QED
          BY <2>1, <4>1 DEF Places
      <3> QED
        BY <2>1, <3>2, <3>5, <3>6, <3>7 DEF Places
    <2>3. CASE ~HasRow
      <3>1. ppc'[p] = "full" /\ UNCHANGED <<idx, m_index>>
        BY <1>2, <2>3 DEF GetIdx, Types
      <3> QED
        BY <2>1, <3>1 DEF Places
    <2> QED
      BY <2>2, <2>3
  <1>3. ASSUME NEW p \in Producers, AddLog(p) PROVE Places'
    <2>1. /\ ppc[p] = "fill"
          /\ UNCHANGED <<primary, secondary, write, raced, m_index, seen, lpc, taken>> /\ Places
          /\ \A q \in Producers \ {p} : ppc'[q] = ppc[q] /\ idx'[q] = idx[q]
          /\ primary \in Bufs /\ idx[p] \in Rows /\ ppc'[p] = "idle"
      BY <1>3 DEF AddLog, Types
    <2>2. \A b \in Bufs, r \in Rows : m_buffer'[b][r] =
            IF b = primary /\ r = idx[p] THEN msg[p] ELSE m_buffer[b][r]
      BY <1>3, <2>1 DEF AddLog, Types
    <2>3. \A b \in Bufs, r \in Rows :
            r > m_index[b] /\ ~(b = write /\ lpc = "clear") => m_buffer'[b][r] = 0
      <3>1. idx[p] <= m_index[primary] /\ m_index[primary] \in Nat /\ idx[p] \in Nat
        BY <2>1 DEF Places, Types, Rows
      <3> QED
        BY <2>1, <2>2, <3>1 DEF Places
    <2>4. \A q \in Producers : ppc'[q] = "fill" =>
            idx'[q] <= m_index[primary] /\ m_buffer'[primary][idx'[q]] = 0
      <3> SUFFICES ASSUME NEW q \in Producers, ppc'[q] = "fill"
                   PROVE  idx'[q] <= m_index[primary] /\ m_buffer'[primary][idx'[q]] = 0
        OBVIOUS
      <3>1. q # p /\ ppc[q] = "fill" /\ idx'[q] = idx[q] /\ idx[q] \in Rows
        BY <2>1 DEF Types
      <3>2. idx[q] <= m_index[primary] /\ m_buffer[primary][idx[q]] = 0 /\ idx[q] # idx[p]
        BY <2>1, <3>1 DEF Places
      <3> QED
        BY <2>1, <2>2, <3>1, <3>2
    <2> QED
      BY <2>1, <2>3, <2>4 DEF Places
  <1>4. ASSUME NEW p \in Producers, Recheck(p) PROVE Places'
    <2>1. /\ UNCHANGED <<primary, secondary, write, raced, m_index, m_buffer, idx, lpc, taken>>
          /\ Places
          /\ \A q \in Producers \ {p} : ppc'[q] = ppc[q] /\ seen'[q] = seen[q]
          /\ ppc'[p] # "fill" /\ (ppc'[p] = "swapping" => seen'[p] = secondary)
      BY <1>4 DEF Recheck, Types
    <2> QED
      BY <2>1 DEF Places
  <1>5. ASSUME NEW p \in Producers, PrimarySwap(p) PROVE Places'
    <2>1. /\ ppc[p] = "swapping" /\ Places /\ lpc # "swapWrite"
          /\ UNCHANGED <<write, m_index, m_buffer, idx, lpc, taken>>
          /\ \A q \in Producers \ {p} : ppc'[q] = ppc[q]
          /\ ppc'[p] = "swapped" /\ primary' = seen[p] /\ secondary' = primary
      BY <1>5 DEF PrimarySwap, Types
    <2>2. primary' = secondary
      BY <2>1 DEF Places
    <2>3. \A q \in Producers : ppc'[q] \notin {"fill", "swapping"}
      BY <2>1 DEF Control, Excl
    <2> QED
      BY <2>1, <2>2, <2>3 DEF Places
  <1>6. ASSUME NEW p \in Producers, NotifyWait(p) \/ Unlock(p) PROVE Places'
    <2>1. /\ UNCHANGED <<primary, secondary, write, raced, m_index, m_buffer, idx, seen, lpc, taken>>
          /\ \A q \in Producers : ppc'[q] \in {"fill", "swapping"} => ppc'[q] = ppc[q]
      BY <1>6 DEF NotifyWait, Unlock, Types
    <2> QED
      BY <2>1 DEF Places
  <1>7. CASE Quiet
    <2>1. /\ UNCHANGED <<primary, secondary, write, raced, m_index, m_buffer, ppc, idx, seen, taken>>
          /\ lpc' = lpc \/ (lpc # "clear" /\ lpc' # "swapWrite")
      BY <1>7, QuietKeeps DEF Exits
    <2> QED
      BY <2>1 DEF Places
  <1>8. CASE SwapRead \/ SwapWrite
    <2>1. /\ UNCHANGED <<primary, m_index, m_buffer, ppc, idx, seen>> /\ Places
          /\ lpc # "clear" /\ lpc' # "clear"
          /\ \/ /\ taken' = secondary /\ UNCHANGED <<secondary, write>>
             \/ /\ secondary' = write /\ write' = secondary /\ lpc' = "flush"
                /\ \A p \in Producers : ppc[p] # "swapping"
      BY <1>8 DEF SwapRead, SwapWrite, Places
    <2> QED
      BY <2>1 DEF Places
  <1>9. CASE FlushRow \/ ResetIndex
    <2>1. /\ UNCHANGED <<primary, secondary, write, m_buffer, ppc, idx, seen, taken>> /\ Places
          /\ lpc # "clear" /\ lpc' # "swapWrite"
          /\ \A b \in Bufs : m_index'[b] = m_index[b] \/ (b = write /\ lpc' = "clear")
          /\ write \in Bufs /\ primary \in Bufs
      BY <1>9 DEF FlushRow, ResetIndex, Types
    <2>2. m_index'[primary] = m_index[primary]
      BY <2>1 DEF Places
    <2> QED
      BY <2>1, <2>2 DEF Places
  <1>10. CASE ClearRows
    <2>1. /\ UNCHANGED <<primary, secondary, write, m_index, ppc, idx, seen, taken>> /\ Places
          /\ lpc = "clear" /\ lpc' = "loop" /\ write \in Bufs /\ primary \in Bufs
      BY <1>10 DEF ClearRows, Types
    <2>2. \A b \in Bufs, r \in Rows : m_buffer'[b][r] = IF b = write THEN 0 ELSE m_buffer[b][r]
      BY <1>10 DEF ClearRows, Cleared, NoRows, Types
    <2>3. \A p \in Producers : ppc[p] = "fill" => m_buffer'[primary][idx[p]] = 0
      BY <2>1, <2>2 DEF Places, Types
    <2> QED
      BY <2>1, <2>2, <2>3 DEF Places
  <1>11. CASE ExitFlush
    <2>1. \A p \in Producers : ppc[p] = "idle"
      BY <1>11, LoopWhileLogging DEF ExitFlush, Exits
    <2>2. PICK d \in Bufs, goOn \in Exits \cup {"done"} :
            FlushFilled(d, goOn) /\ lpc \in Exits
      BY <1>11 DEF ExitFlush, Types, Exits
    <2>3. UNCHANGED <<primary, secondary, write, raced, ppc, idx, seen, taken>> /\ Places
      BY <1>11 DEF ExitFlush
    <2>4. CASE UNCHANGED <<bufVars, lpc>>
      BY <2>3, <2>4 DEF Places
    <2>5. CASE /\ m_index' = [m_index EXCEPT ![d] = 0] /\ m_buffer' = Cleared(d) /\ lpc' = goOn
      <3>1. \A b \in Bufs, r \in Rows : m_buffer'[b][r] = IF b = d THEN 0 ELSE m_buffer[b][r]
        BY <2>5 DEF Cleared, NoRows, Types
      <3>2. \A b \in Bufs : b # d => m_index'[b] = m_index[b]
        BY <2>5 DEF Types
      <3>3. lpc' # "swapWrite" /\ lpc # "clear"
        BY <2>2, <2>5 DEF Exits
      <3>4. \A b \in Bufs, r \in Rows : r > m_index'[b] => m_buffer'[b][r] = 0
        BY <2>3, <3>1, <3>2, <3>3 DEF Places
      <3> QED
        BY <2>1, <2>3, <3>3, <3>4 DEF Places
    <2> QED
      BY <2>2, <2>4, <2>5 DEF FlushFilled
  <1> QED
    BY StepCases, <1>1, <1>2, <1>3, <1>4, <1>5, <1>6, <1>7, <1>8, <1>9, <1>10, <1>11
    DEF ProducerStep

LEMMA StepKept ==
  ASSUME Types, Control, Single, ~raced => Places /\ Kept, [Next]_vars, ~raced'
  PROVE  Kept'
PROOF
  <1> USE DEF ptrVars, bufVars, prodVars, rowVars, logVars
  <1>1. ASSUME UNCHANGED <<m_buffer, file, write>>, Kept,
               \A m \in Accepted' : m \in Accepted,
               \A b \in Bufs, r \in Rows : Past(b, r)' => Past(b, r),
               \/ lpc' \notin {"exitSecondary", "exitPrimary", "done"}
               \/ lpc' = lpc /\ UNCHANGED <<primary, secondary>>
        PROVE  Kept'
    BY <1>1 DEF Kept, InFile, InRow, Empty
  <1>2. ASSUME NEW p \in Producers, Log(p) PROVE Kept'
    <2>1. /\ UNCHANGED <<m_buffer, file, write, lpc, primary, secondary, row>> /\ Kept
          /\ sent' = sent + 1 /\ sent \in Nat
      BY <1>2 DEF Log, Types
    <2>2. ASSUME NEW m \in Accepted' PROVE m \in Accepted
      <3>1. /\ m \in 1 .. sent + 1 /\ Rank(Level[m]) >= Rank(GlobalLevel)
            /\ \A q \in Producers : msg'[q] # m
        BY <2>1 DEF Accepted, Carried
      <3>2. m # sent + 1
        BY <1>2, <3>1 DEF Log, Passes, Types
      <3>3. m \in 1 .. sent
        BY <2>1, <3>1, <3>2
      <3>4. \A q \in Producers : msg[q] # m
        <4>1. \A q \in Producers : msg'[q] = msg[q] \/ (q = p /\ ppc[p] = "idle")
          BY <1>2 DEF Log, Types
        <4>2. ppc[p] = "idle" => msg[p] = 0
          BY DEF Single
        <4> QED
          BY <3>1, <3>3, <4>1, <4>2
      <3> QED
        BY <3>1, <3>3, <3>4 DEF Accepted, Carried
    <2> QED
      BY <1>1, <2>1, <2>2 DEF Past, Flushing
  <1>3. ASSUME NEW p \in Producers, GetIdx(p) \/ Recheck(p) \/ NotifyWait(p) \/ Unlock(p)
        PROVE Kept'
    <2>1. UNCHANGED <<m_buffer, file, write, lpc, primary, secondary, row, sent, msg, raced>> /\ Kept
      BY <1>3 DEF GetIdx, Recheck, NotifyWait, Unlock
    <2> QED
      BY <1>1, <2>1 DEF Past, Flushing, Accepted, Carried
  <1>4. ASSUME NEW p \in Producers, PrimarySwap(p) PROVE Kept'
    <2>1. UNCHANGED <<m_buffer, file, write, lpc, row, sent, msg>> /\ Kept
      BY <1>4 DEF PrimarySwap
    <2>2. lpc \notin Exits \cup {"done"}
      BY <1>4, LoopWhileLogging DEF PrimarySwap
    <2> QED
      BY <1>1, <2>1, <2>2 DEF Past, Flushing, Accepted, Carried, Exits
  <1>5. ASSUME NEW p \in Producers, AddLog(p) PROVE Kept'
    <2>1. /\ ppc[p] = "fill" /\ Kept /\ Places
          /\ UNCHANGED <<file, write, lpc, primary, secondary, row, sent>>
          /\ primary \in Bufs /\ idx[p] \in Rows
      BY <1>5 DEF AddLog, Types
    <2>2. lpc \notin Exits \cup {"done"}
      BY <2>1, LoopWhileLogging
    <2>3. \A b \in Bufs, r \in Rows : m_buffer'[b][r] =
            IF b = primary /\ r = idx[p] THEN msg[p] ELSE m_buffer[b][r]
      BY <1>5, <2>1 DEF AddLog, Types
    <2>4. m_buffer[primary][idx[p]] = 0 /\ primary # write
      BY <2>1 DEF Places
    <2>5. ASSUME NEW m \in Accepted' PROVE InFile(m)' \/ InRow(m)'
      <3>1. /\ m \in 1 .. sent /\ Rank(Level[m]) >= Rank(GlobalLevel)
            /\ \A q \in Producers : msg'[q] # m
        BY <2>1 DEF Accepted, Carried
      <3>2. CASE m = msg[p]
        BY <2>1, <2>3, <3>2 DEF InRow
      <3>3. CASE m # msg[p]
        <4>1. \A q \in Producers : q # p => msg'[q] = msg[q]
          BY <1>5 DEF AddLog, Types
        <4>2. m \in Accepted
          BY <3>1, <3>3, <4>1 DEF Accepted, Carried
        <4>3. CASE InFile(m)
          BY <2>1, <4>3 DEF InFile
        <4>4. CASE InRow(m)
          <5>1. PICK b \in Bufs, r \in Rows : m_buffer[b][r] = m
            BY <4>4 DEF InRow
          <5>2. m_buffer'[b][r] = m
            BY <2>3, <2>4, <3>1, <5>1
          <5> QED
            BY <5>2 DEF InRow
        <4> QED
          BY <2>1, <4>2, <4>3, <4>4 DEF Kept
      <3> QED
        BY <3>2, <3>3
    <2>6. ASSUME NEW b \in Bufs, NEW r \in Rows, Past(b, r)', m_buffer'[b][r] # 0
          PROVE  InFile(m_buffer[b][r])' /\ m_buffer'[b][r] = m_buffer[b][r]
      <3>1. Past(b, r) /\ b # primary
        BY <2>1, <2>2, <2>4, <2>6 DEF Past, Flushing, Exits
      <3>2. m_buffer'[b][r] = m_buffer[b][r]
        BY <2>3, <3>1
      <3>3. PICK i \in DOMAIN file : file[i].msg = m_buffer[b][r]
        BY <2>1, <2>6, <3>1, <3>2 DEF Kept, InFile
      <3>4. \E j \in DOMAIN file' : file'[j].msg = m_buffer'[b][r]
        BY <2>1, <3>2, <3>3
      <3> QED
        BY <3>2, <3>4 DEF InFile
    <2> QED
      BY <2>1, <2>2, <2>5, <2>6 DEF Kept, Exits, InFile
  <1>6. CASE Quiet
    <2>1. /\ UNCHANGED <<m_buffer, file, write, primary, secondary, row, sent, msg, raced>> /\ Kept
          /\ \/ lpc' = lpc
             \/ lpc' \notin {"flush", "reset", "clear", "done"} \cup Exits
             \/ lpc' = "exitWrite" /\ row = 1
      BY <1>6, QuietKeeps
    <2>2. \A r \in Rows : ~(r < 1)
      BY DEF Rows
    <2> QED
      BY <1>1, <2>1, <2>2 DEF Past, Flushing, Accepted, Carried, Exits
  <1>7. CASE SwapRead \/ SwapWrite
    <2>1. /\ UNCHANGED <<m_buffer, file, row, sent, msg>> /\ Kept /\ row = 1
          /\ lpc' = "swapWrite" \/ lpc' = "flush"
      BY <1>7 DEF SwapRead, SwapWrite, Types, Exits
    <2>2. \A b \in Bufs, r \in Rows : ~Past(b, r)'
      BY <2>1 DEF Past, Flushing, Rows
    <2>3. ASSUME NEW m \in Accepted' PROVE InFile(m)' \/ InRow(m)'
      BY <2>1 DEF Kept, Accepted, Carried, InFile, InRow
    <2> QED
      BY <2>1, <2>2, <2>3 DEF Kept
  <1>8. CASE ResetIndex
    <2>1. /\ UNCHANGED <<m_buffer, file, write, primary, secondary, row, sent, msg, raced>> /\ Kept
          /\ lpc = "reset" /\ lpc' = "clear"
      BY <1>8 DEF ResetIndex
    <2> QED
      BY <1>1, <2>1 DEF Past, Flushing, Accepted, Carried
  <1>9. ASSUME NEW d \in Bufs, Kept, m_buffer' = Cleared(d), UNCHANGED <<msg, sent, file>>,
               \A r \in Rows : m_buffer[d][r] # 0 => InFile(m_buffer[d][r])
        PROVE  /\ Empty(d)' /\ \A b \in Bufs : Empty(b) => Empty(b)'
               /\ \A m \in Accepted' : InFile(m)' \/ InRow(m)'
    <2>1. \A b \in Bufs, r \in Rows : m_buffer'[b][r] = IF b = d THEN 0 ELSE m_buffer[b][r]
      BY <1>9 DEF Cleared, NoRows, Types
    <2>2. ASSUME NEW m \in Accepted' PROVE InFile(m)' \/ InRow(m)'
      <3>1. m \in Accepted /\ m # 0
        BY <1>9 DEF Accepted, Carried
      <3>2. CASE InFile(m)
        BY <1>9, <3>2 DEF InFile
      <3>3. CASE InRow(m)
        <4>1. PICK b \in Bufs, r \in Rows : m_buffer[b][r] = m
          BY <3>3 DEF InRow
        <4>2. CASE b = d
          BY <1>9, <3>1, <4>1, <4>2 DEF InFile
        <4>3. CASE b # d
          BY <2>1, <4>1, <4>3 DEF InRow
        <4> QED
          BY <4>2, <4>3
      <3> QED
        BY <1>9, <3>1, <3>2, <3>3 DEF Kept
    <2> QED
      BY <2>1, <2>2 DEF Empty
  <1>10. CASE ClearRows
    <2>1. /\ m_buffer' = Cleared(write) /\ UNCHANGED <<msg, sent, file>> /\ Kept
          /\ lpc = "clear" /\ lpc' = "loop" /\ write \in Bufs
      BY <1>10 DEF ClearRows, Types
    <2>2. \A r \in Rows : m_buffer[write][r] # 0 => InFile(m_buffer[write][r])
      BY <2>1 DEF Kept, Past, Flushing
    <2>3. \A b \in Bufs, r \in Rows : ~Past(b, r)'
      BY <2>1 DEF Past, Flushing
    <2> QED
      BY <1>9, <2>1, <2>2, <2>3 DEF Kept
  <1>11. ASSUME NEW d \in Bufs, NEW last \in BOOLEAN, row \in Rows, Kept,
                WriteRow(d, last), UNCHANGED <<msg, sent, m_buffer>>
         PROVE  /\ \A m : InFile(m) => InFile(m)'
                /\ \A m : m = m_buffer[d][row] /\ m # 0 => InFile(m)'
                /\ \A m \in Accepted' : InFile(m)' \/ InRow(m)'
    <2>1. /\ \A i \in DOMAIN file : i \in DOMAIN file' /\ file'[i] = file[i]
          /\ m_buffer[d][row] # 0 => \E i \in DOMAIN file' : file'[i].msg = m_buffer[d][row]
      <3>1. DOMAIN file = 1 .. Len(file) /\ Len(file) \in Nat
        BY DEF Types
      <3>2. file' \in Seq([msg : Nat, len : Nat])
        BY <1>11, WriteRowLine
      <3>3. DOMAIN file' = 1 .. Len(file')
        BY <3>2
      <3>4. \/ m_buffer[d][row] = 0 /\ file' = file
            \/ /\ Len(file') = Len(file) + 1 /\ \A i \in 1 .. Len(file) : file'[i] = file[i]
               /\ file'[Len(file) + 1].msg = m_buffer[d][row]
        BY <1>11, WriteRowLine
      <3>5. CASE m_buffer[d][row] = 0 /\ file' = file
        BY <3>5
      <3>6. CASE /\ Len(file') = Len(file) + 1 /\ \A i \in 1 .. Len(file) : file'[i] = file[i]
                 /\ file'[Len(file) + 1].msg = m_buffer[d][row]
        <4>1. DOMAIN file' = 1 .. Len(file) + 1
          BY <3>3, <3>6
        <4>2. Len(file) + 1 \in DOMAIN file' /\ \A i \in 1 .. Len(file) : i \in DOMAIN file'
          BY <3>1, <4>1
        <4> QED
          BY <3>1, <3>6, <4>2
      <3> QED
        BY <3>4, <3>5, <3>6
    <2>2. \A m : InFile(m) => InFile(m)'
      BY <2>1 DEF InFile
    <2>3. \A m : m = m_buffer[d][row] /\ m # 0 => InFile(m)'
      BY <2>1 DEF InFile
    <2>4. \A m \in Accepted' : InFile(m)' \/ InRow(m)'
      BY <1>11, <2>2 DEF Kept, Accepted, Carried, InRow
    <2> QED
      BY <2>2, <2>3, <2>4
  <1>12. CASE FlushRow
    <2>1. /\ WriteRow(write, row = FlushSize) /\ (row = FlushSize) \in BOOLEAN /\ Kept
          /\ UNCHANGED <<msg, sent, m_buffer, write>> /\ write \in Bufs /\ lpc = "flush"
          /\ \/ lpc' = "reset" /\ row = BufSize
             \/ lpc' = "flush" /\ row' = row + 1
      BY <1>12 DEF FlushRow, WriteRow, FlushSize, Types
    <2>2. row \in Rows
      BY <2>1, LoggerAssumption DEF Types, Rows
    <2>3. ASSUME NEW b \in Bufs, NEW r \in Rows, Past(b, r)', m_buffer'[b][r] # 0
          PROVE  InFile(m_buffer[b][r])'
      <3>1. b = write /\ r <= row
        BY <2>1, <2>2, <2>3 DEF Past, Flushing, Rows
      <3>2. CASE r = row
        <4>1. PICK m : m = m_buffer[b][r]
          OBVIOUS
        <4>2. m = m_buffer[write][row] /\ m # 0
          BY <2>1, <2>3, <3>1, <3>2, <4>1
        <4>3. InFile(m)'
          BY <1>11, <2>1, <2>2, <4>2
        <4> QED
          BY <2>1, <4>1, <4>3 DEF InFile
      <3>3. CASE r < row
        <4>1. Past(b, r)
          BY <2>1, <3>1, <3>3 DEF Past, Flushing
        <4>2. InFile(m_buffer[b][r])
          BY <2>1, <2>3, <4>1 DEF Kept
        <4>3. PICK m : m = m_buffer[b][r]
          OBVIOUS
        <4>4. InFile(m)'
          BY <1>11, <2>1, <2>2, <4>2, <4>3
        <4> QED
          BY <2>1, <4>3, <4>4 DEF InFile
      <3> QED
        BY <2>2, <3>1, <3>2, <3>3 DEF Rows
    <2>4. \A m \in Accepted' : InFile(m)' \/ InRow(m)'
      BY <1>11, <2>1, <2>2
    <2> QED
      BY <2>1, <2>3, <2>4 DEF Kept, InFile
  <1>13. CASE ExitFlush
    <2>0. \E d \in Bufs, goOn \in Exits \cup {"done"} :
            /\ lpc \in Exits /\ FlushFilled(d, goOn)
            /\ Flushing(d) /\ \A b \in Bufs : Flushing(b) => b = d
            /\ goOn # "exitWrite"
            /\ goOn = "exitSecondary" => d = write
            /\ goOn = "exitPrimary" => d = secondary /\ lpc = "exitSecondary"
            /\ goOn = "done" => d = primary /\ lpc = "exitPrimary"
      <3>1. primary \in Bufs /\ secondary \in Bufs /\ write \in Bufs
        BY DEF Types
      <3>2. \/ lpc = "exitWrite" /\ FlushFilled(write, "exitSecondary")
            \/ lpc = "exitSecondary" /\ FlushFilled(secondary, "exitPrimary")
            \/ lpc = "exitPrimary" /\ FlushFilled(primary, "done")
        BY <1>13 DEF ExitFlush
      <3>3. CASE lpc = "exitWrite" /\ FlushFilled(write, "exitSecondary")
        <4>1. "exitSecondary" \in Exits \cup {"done"} /\ lpc \in Exits
          BY <3>3 DEF Exits
        <4>2. Flushing(write) /\ \A b \in Bufs : Flushing(b) => b = write
          BY <3>3 DEF Flushing
        <4> QED
          BY <3>1, <3>3, <4>1, <4>2
      <3>4. CASE lpc = "exitSecondary" /\ FlushFilled(secondary, "exitPrimary")
        <4>1. "exitPrimary" \in Exits \cup {"done"} /\ lpc \in Exits
          BY <3>4 DEF Exits
        <4>2. Flushing(secondary) /\ \A b \in Bufs : Flushing(b) => b = secondary
          BY <3>4 DEF Flushing
        <4> QED
          BY <3>1, <3>4, <4>1, <4>2
      <3>5. CASE lpc = "exitPrimary" /\ FlushFilled(primary, "done")
        <4>1. "done" \in Exits \cup {"done"} /\ lpc \in Exits
          BY <3>5 DEF Exits
        <4>2. Flushing(primary) /\ \A b \in Bufs : Flushing(b) => b = primary
          BY <3>5 DEF Flushing
        <4> QED
          BY <3>1, <3>5, <4>1, <4>2
      <3> QED
        BY <3>2, <3>3, <3>4, <3>5
    <2>1. PICK d \in Bufs, goOn \in Exits \cup {"done"} :
            /\ lpc \in Exits /\ FlushFilled(d, goOn)
            /\ Flushing(d) /\ \A b \in Bufs : Flushing(b) => b = d
            /\ goOn # "exitWrite"
            /\ goOn = "exitSecondary" => d = write
            /\ goOn = "exitPrimary" => d = secondary /\ lpc = "exitSecondary"
            /\ goOn = "done" => d = primary /\ lpc = "exitPrimary"
      BY <2>0
    <2>2. /\ UNCHANGED <<msg, sent, primary, secondary, write, raced>> /\ Kept /\ Places
          /\ primary \in Bufs /\ secondary \in Bufs /\ write \in Bufs
      BY <1>13 DEF ExitFlush, Types
    <2>3. CASE row <= m_index[d] /\ WriteRow(d, FALSE) /\ UNCHANGED <<bufVars, lpc>>
      <3>1. row \in Rows
        BY <2>3, LoggerAssumption DEF Types, Rows
      <3>2. row' = row + 1
        BY <2>3 DEF WriteRow
      <3>3. ASSUME NEW b \in Bufs, NEW r \in Rows, Past(b, r)', m_buffer'[b][r] # 0
            PROVE  InFile(m_buffer[b][r])'
        <4>1. b = d /\ r <= row
          BY <2>1, <2>2, <2>3, <3>1, <3>2, <3>3 DEF Past, Flushing, Rows, Exits
        <4>2. CASE r = row
          <5>1. PICK m : m = m_buffer[b][r]
            OBVIOUS
          <5>2. m = m_buffer[d][row] /\ m # 0 /\ m_buffer' = m_buffer
            BY <2>3, <3>3, <4>1, <4>2, <5>1 DEF bufVars
          <5>3. InFile(m)'
            BY <1>11, <2>2, <2>3, <3>1, <5>2 DEF bufVars
          <5> QED
            BY <5>1, <5>2, <5>3 DEF InFile
        <4>3. CASE r < row
          <5>1. Past(b, r)
            BY <2>1, <4>1, <4>3 DEF Past
          <5>2. InFile(m_buffer[b][r])
            BY <2>2, <2>3, <3>3, <5>1 DEF Kept
          <5>3. PICK m : m = m_buffer[b][r]
            OBVIOUS
          <5>4. InFile(m)'
            BY <1>11, <2>2, <2>3, <3>1, <5>2, <5>3
          <5> QED
            BY <2>3, <5>3, <5>4 DEF InFile
        <4> QED
          BY <3>1, <4>1, <4>2, <4>3 DEF Rows
      <3>4. \A m \in Accepted' : InFile(m)' \/ InRow(m)'
        BY <1>11, <2>2, <2>3, <3>1
      <3> QED
        BY <2>2, <2>3, <3>3, <3>4 DEF Kept, InFile, Empty
    <2>4. CASE /\ row > m_index[d] /\ m_buffer' = Cleared(d) /\ row' = 1 /\ lpc' = goOn
               /\ UNCHANGED file
      <3>1. ASSUME NEW r \in Rows, m_buffer[d][r] # 0 PROVE InFile(m_buffer[d][r])
        <4>1. lpc # "clear"
          BY <2>1 DEF Exits
        <4>2. ~(r > m_index[d])
          BY <2>2, <3>1, <4>1 DEF Places
        <4>3. r < row
          BY <2>4, <4>2 DEF Types, Rows
        <4>4. Past(d, r)
          BY <2>1, <4>3 DEF Past
        <4> QED
          BY <2>2, <3>1, <4>4 DEF Kept
      <3>2. /\ Empty(d)' /\ \A b \in Bufs : Empty(b) => Empty(b)'
            /\ \A m \in Accepted' : InFile(m)' \/ InRow(m)'
        BY <1>9, <2>2, <2>4, <3>1
      <3>3. \A b \in Bufs, r \in Rows : ~Past(b, r)'
        BY <2>1, <2>4 DEF Past, Flushing, Rows, Exits
      <3>4. /\ goOn \in {"exitPrimary", "done"} => Empty(write)
            /\ goOn = "done" => Empty(secondary)
        BY <2>1, <2>2 DEF Kept
      <3>5. /\ Empty(write)'
            /\ goOn \in {"exitPrimary", "done"} => Empty(secondary)'
            /\ goOn = "done" => Empty(primary)'
        <4>1. goOn \in {"exitSecondary", "exitPrimary", "done"}
          BY <2>1 DEF Exits
        <4>2. \A b \in Bufs : Empty(b)' => /\ b = write => Empty(write)'
                                           /\ b = secondary => Empty(secondary)'
                                           /\ b = primary => Empty(primary)'
          BY <2>2 DEF Empty
        <4> QED
          BY <2>1, <2>2, <3>2, <3>4, <4>1, <4>2
      <3> QED
        BY <2>4, <3>2, <3>3, <3>5 DEF Kept
    <2> QED
      BY <2>1, <2>3, <2>4 DEF FlushFilled
  <1> QED
    BY StepCases, <1>2, <1>3, <1>4, <1>5, <1>6, <1>7, <1>8, <1>10, <1>12, <1>13
    DEF ProducerStep
-----------------------------------------------------------------------------
LEMMA LoggerInvariant == Spec => []Inv
PROOF
  <1>1. raced => raced' \/ ~[Next]_vars
    <2> SUFFICES ASSUME raced, [Next]_vars PROVE raced'
      OBVIOUS
    <2> USE DEF ptrVars
    <2>1. ASSUME NEW p \in Producers, Log(p) \/ ProducerStep(p) PROVE raced'
      BY <2>1 DEF Log, ProducerStep, GetIdx, AddLog, Recheck, PrimarySwap, NotifyWait, Unlock
    <2>2. CASE SwapRead \/ SwapWrite \/ FlushRow \/ ResetIndex \/ ClearRows \/ ExitFlush
      BY <2>2 DEF SwapRead, SwapWrite, FlushRow, ResetIndex, ClearRows, ExitFlush
    <2>3. CASE CountDown \/ LoopTest \/ EpollWait \/ EpollInterrupted \/ RunningTest \/ ReadEvent
      BY <2>3 DEF CountDown, LoopTest, EpollWait, EpollInterrupted, RunningTest, ReadEvent
    <2>4. CASE OwnerStep \/ DestroyStore \/ UNCHANGED vars
      BY <2>4 DEF OwnerStep, Start, Started, DestroyNotify, Join, DestroyStore, vars
    <2> QED
      BY StepCases, <2>1, <2>2, <2>3, <2>4 DEF Quiet
  <1>2. Inv /\ [Next]_vars => Inv'
    BY <1>1, StepTypes, StepControl, StepSingle, StepLengths, StepPlaces, StepKept DEF Inv
  <1> QED
    BY <1>2, InitInv, PTL DEF Spec

(* No message is written twice, however the exchanges overlap: a line and a  *)
(* row hold the same message only while flush() is about to clear the row.   *)
THEOREM WrittenOnce == Spec => []AtMostOnce
PROOF
  <1>1. Inv => AtMostOnce
    BY DEF Inv, Single, AtMostOnce
  <1> QED
    BY <1>1, LoggerInvariant, PTL

(* Unless the exchanges overlap, get_idx under the shared lock makes a row   *)
(* its producer's alone until add_log, away from the buffer being flushed.   *)
THEOREM RowsAreExclusive == Spec => []RowsExclusive
PROOF
  <1>1. Inv => RowsExclusive
    BY DEF Inv, Places, RowsExclusive
  <1> QED
    BY <1>1, LoggerInvariant, PTL

(* Unless the exchanges overlap, no accepted message is lost, and all are in *)
(* the file when the destructor has returned.                                *)
THEOREM NothingLost == Spec => []LossOnlyByRace
PROOF
  <1>1. ASSUME Inv, ~raced, NEW m \in Accepted
        PROVE  m \in Written \/ \E b \in {primary, secondary, write} : m \in Stored(b)
    <2>1. InFile(m) \/ InRow(m)
      BY <1>1 DEF Inv, Kept
    <2>2. m # 0
      BY DEF Accepted
    <2>3. \A b \in Bufs : b \in {primary, secondary, write}
      BY <1>1 DEF Inv, Types, Places, Bufs
    <2> QED
      BY <2>1, <2>2, <2>3 DEF InFile, InRow, Written, Stored
  <1>2. ASSUME Inv, ~raced, app = "closed", NEW m \in Accepted
        PROVE  m \in Written
    <2>1. lpc = "done"
      BY <1>2 DEF Inv, Control
    <2>2. \A b \in {primary, secondary, write} : Empty(b)
      BY <1>2, <2>1 DEF Inv, Kept
    <2> QED
      BY <1>1, <1>2, <2>2 DEF Empty, Stored
  <1>3. Inv => LossOnlyByRace
    BY <1>1, <1>2 DEF LossOnlyByRace
  <1> QED
    BY <1>3, LoggerInvariant, PTL

(* The length byte loses nothing but what LinesIntact excepts. *)
THEOREM LinesAreIntact == Spec => []LinesIntact
PROOF
  <1>1. ASSUME Inv, NEW i \in DOMAIN file
        PROVE  \/ file[i].len = Length[file[i].msg] \/ Length[file[i].msg] > 255
               \/ (i > 1 /\ file[i - 1].len = 255)
    <2>1. file[i].msg \in 1 .. sent /\ sent \in 0 .. MaxMsgs
      BY <1>1 DEF Inv, Single, Types
    <2>2. Length[file[i].msg] \in Nat
      <3>1. Length \in Seq(Nat) /\ Len(Length) >= MaxMsgs /\ MaxMsgs \in Nat
        BY LoggerAssumption
      <3>2. file[i].msg \in 1 .. Len(Length)
        BY <2>1, <3>1
      <3> QED
        BY <3>1, <3>2
    <2>3. file[i].len = LenByte(Length[file[i].msg]) \/ (i > 1 /\ file[i - 1].len = 255)
      BY <1>1 DEF Inv, Lengths255
    <2>4. Length[file[i].msg] <= 255 => LenByte(Length[file[i].msg]) = Length[file[i].msg]
      BY <2>2 DEF LenByte
    <2> QED
      BY <2>2, <2>3, <2>4
  <1>2. Inv => LinesIntact
    BY <1>1 DEF LinesIntact
  <1> QED
    BY <1>2, LoggerInvariant, PTL
=============================================================================
