------------------------------- MODULE Logger -------------------------------
(***************************************************************************)
(* The asynchronous logger (logger/): producers in Logger::log, the three   *)
(* LogBuffers and the log thread that writes them to the file.              *)
(*                                                                          *)
(* The primary buffer is filled under a shared lock, one row per producer;  *)
(* the producer that finds it full exchanges it with the secondary buffer   *)
(* under the exclusive lock and writes the eventfd; the log thread exchanges *)
(* the secondary buffer with its own and flushes it.  The second exchange   *)
(* takes no lock, so each exchange is two steps here: m_secondary_buffer_   *)
(* is read, then written.                                                   *)
(*                                                                          *)
(* A message is a number, in the order in which log() was called; 0 is a    *)
(* zeroed row.  Of its text only the length is kept: the first byte of the  *)
(* row, which flush() reads back and may overwrite in the next row (cut).   *)
(* Zeroed rows that flush() writes are blank lines of the file and are left *)
(* out of it.  Torn text in a row that is written and flushed at once is    *)
(* not modelled.  A local variable is 1 while it is not in use.             *)
(*                                                                          *)
(* ExclusiveFreeOfWriters, NotifyLost, LenByteSigned, ClearedNot and        *)
(* ExitFlushSkipsSecondary are seeded faults that show what the properties  *)
(* detect; Next uses none.                                                  *)
(***************************************************************************)
EXTENDS Integers, Sequences

CONSTANTS
  Producers,   \* threads that call log()
  BufSize,     \* LOG_BUFFER_SIZE
  MaxMsgs,     \* bound: the calls of log() in a run
  Length,      \* the length of each message
  Level,       \* its level
  EnvLevel,    \* HNC_LOG_LEVEL, "" when it is not set
  Signals      \* whether signals may interrupt epoll_wait

ASSUME LoggerAssumption ==
  /\ BufSize \in Nat \ {0}
  /\ MaxMsgs \in Nat
  /\ Length \in Seq(Nat) /\ Len(Length) >= MaxMsgs
  /\ Level \in Seq(STRING) /\ Len(Level) >= MaxMsgs /\ EnvLevel \in STRING
  /\ Signals \in BOOLEAN

VARIABLES
  m_running,   \* m_running_
  event,       \* the eventfd counter is not 0
  primary,     \* m_primary_buffer_
  secondary,   \* m_secondary_buffer_
  write,       \* m_write_buffer_
  m_index,     \* m_index_ of each buffer
  m_buffer,    \* the rows of each buffer
  ppc,         \* where each producer is in log(): "idle", "enter" (about to take the
               \* shared lock), "fill" (has it, and a row), "full" (about to take
               \* the exclusive lock), "swapping" (has it, in primary_swap),
               \* "swapped" (about to notify), "waited" (past the barrier)
  msg,         \* the message it carries, 0 outside log()
  idx,         \* the row get_idx gave it
  seen,        \* what it read from m_secondary_buffer_ in primary_swap
  lpc,         \* where the log thread is
  taken,       \* what the log thread read from m_secondary_buffer_
  row,         \* the row flush() is at
  cut,         \* its length byte was overwritten by the newline of the row before
  file,        \* m_logfile_: the lines, each the message and how many bytes of it
  app,         \* where the thread that owns the Logger is
  sent,        \* calls of log() so far
  raced        \* history: two exchanges overlapped on m_secondary_buffer_

bufVars  == <<m_index, m_buffer>>
ptrVars  == <<primary, secondary, write, raced>>
prodVars == <<ppc, msg, idx, seen, sent>>
rowVars  == <<row, cut>>
logVars  == <<lpc, taken, rowVars, file>>
vars == <<m_running, event, primary, secondary, write, m_index, m_buffer, ppc,
          msg, idx, seen, lpc, taken, row, cut, file, app, sent, raced>>

Bufs == 1 .. 3
Rows == 1 .. BufSize
NoRows == [r \in Rows |-> 0]

(* The levels in ascending order; GLOBAL_LOG_LEVEL as log_level reads it     *)
(* from the environment; what log_message lets pass.                         *)
Levels == <<"trace", "debug", "info", "critical", "warn", "error", "fatal">>
Rank(l) == CHOOSE i \in DOMAIN Levels : Levels[i] = l
GlobalLevel ==
  IF EnvLevel = "" THEN "debug"
  ELSE IF \E i \in DOMAIN Levels : Levels[i] = EnvLevel THEN EnvLevel ELSE "info"
Passes(m) == Rank(Level[m]) >= Rank(GlobalLevel)

Carried == {msg[p] : p \in Producers} \ {0}
Accepted == {m \in 1 .. sent : Rank(Level[m]) >= Rank(GlobalLevel)} \ Carried
Stored(b) == {m_buffer[b][r] : r \in Rows} \ {0}
Written == {file[i].msg : i \in DOMAIN file}
-----------------------------------------------------------------------------
(* LogThread::LogThread and the three global buffers. *)
Init ==
  /\ m_running = FALSE
  /\ event = FALSE
  /\ primary = 1
  /\ secondary = 2
  /\ write = 3
  /\ m_index = [b \in Bufs |-> 0]
  /\ m_buffer = [b \in Bufs |-> NoRows]
  /\ ppc = [p \in Producers |-> "idle"]
  /\ msg = [p \in Producers |-> 0]
  /\ idx = [p \in Producers |-> 1]
  /\ seen = [p \in Producers |-> 1]
  /\ lpc = "none"
  /\ taken = 1
  /\ row = 1
  /\ cut = FALSE
  /\ file = <<>>
  /\ app = "built"
  /\ sent = 0
  /\ raced = FALSE

(* Logger::Logger: start() creates the thread and waits for its latch. *)
Start ==
  /\ app = "built"
  /\ m_running' = TRUE
  /\ lpc' = "latch"
  /\ app' = "latching"
  /\ UNCHANGED <<event, ptrVars, bufVars, prodVars, taken, rowVars, file>>

CountDown ==
  /\ lpc = "latch"
  /\ lpc' = "loop"
  /\ UNCHANGED <<m_running, event, ptrVars, bufVars, prodVars, taken, rowVars, file, app>>

Started ==
  /\ app = "latching"
  /\ lpc \notin {"none", "latch"}
  /\ app' = "open"
  /\ UNCHANGED <<m_running, event, ptrVars, bufVars, prodVars, logVars>>

(* notify() writes the eventfd. *)
NotifyLost == UNCHANGED event
Notify == event' = TRUE
-----------------------------------------------------------------------------
(* Logger::log.                                                              *)
SharedHeld == \E p \in Producers : ppc[p] = "fill"
ExclusiveHeld == \E p \in Producers : ppc[p] \in {"swapping", "swapped", "waited"}

(* When the exclusive lock can be taken. *)
ExclusiveFreeOfWriters == ~ExclusiveHeld
ExclusiveFree == ~SharedHeld /\ ~ExclusiveHeld

Log(p) ==
  /\ app = "open"
  /\ ppc[p] = "idle"
  /\ sent < MaxMsgs
  /\ sent' = sent + 1
  /\ \/ /\ Passes(sent + 1)
        /\ msg' = [msg EXCEPT ![p] = sent + 1]
        /\ ppc' = [ppc EXCEPT ![p] = "enter"]
     \/ /\ ~Passes(sent + 1)
        /\ UNCHANGED <<msg, ppc>>
  /\ UNCHANGED <<m_running, event, ptrVars, bufVars, idx, seen, logVars, app>>

(* get_idx under the shared lock.  Every m_index_ from LOG_BUFFER_SIZE on    *)
(* means "full", so the count stops there.                                   *)
HasRow == m_index[primary] < BufSize

GetIdx(p) ==
  /\ ppc[p] = "enter"
  /\ ~ExclusiveHeld
  /\ \/ /\ HasRow
        /\ idx' = [idx EXCEPT ![p] = m_index[primary] + 1]
        /\ m_index' = [m_index EXCEPT ![primary] = @ + 1]
        /\ ppc' = [ppc EXCEPT ![p] = "fill"]
     \/ /\ ~HasRow
        /\ ppc' = [ppc EXCEPT ![p] = "full"]
        /\ UNCHANGED <<idx, m_index>>
  /\ UNCHANGED <<m_running, event, ptrVars, m_buffer, msg, seen, sent, logVars, app>>

AddLog(p) ==
  /\ ppc[p] = "fill"
  /\ m_buffer' = [m_buffer EXCEPT ![primary][idx[p]] = msg[p]]
  /\ cut' = (cut /\ ~(primary = write /\ idx[p] = row))
  /\ msg' = [msg EXCEPT ![p] = 0]
  /\ idx' = [idx EXCEPT ![p] = 1]
  /\ ppc' = [ppc EXCEPT ![p] = "idle"]
  /\ UNCHANGED <<m_running, event, ptrVars, m_index, seen, sent, lpc, taken, row, file, app>>

(* The exclusive lock: look again, then primary_swap. *)
Recheck(p) ==
  /\ ppc[p] = "full"
  /\ ExclusiveFree
  /\ \/ /\ m_index[primary] = 0
        /\ ppc' = [ppc EXCEPT ![p] = "enter"]
        /\ UNCHANGED seen
     \/ /\ m_index[primary] # 0
        /\ seen' = [seen EXCEPT ![p] = secondary]
        /\ ppc' = [ppc EXCEPT ![p] = "swapping"]
  /\ UNCHANGED <<m_running, event, ptrVars, bufVars, msg, idx, sent, logVars, app>>

PrimarySwap(p) ==
  /\ ppc[p] = "swapping"
  /\ primary' = seen[p]
  /\ secondary' = primary
  /\ seen' = [seen EXCEPT ![p] = 1]
  /\ raced' = (raced \/ lpc = "swapWrite")
  /\ ppc' = [ppc EXCEPT ![p] = "swapped"]
  /\ UNCHANGED <<m_running, event, write, bufVars, msg, idx, sent, logVars, app>>

(* notify(), then wait(): m_barrier_ expects one thread, and whoever arrives *)
(* completes the phase alone, so wait() returns at once.                     *)
NotifyWait(p) ==
  /\ ppc[p] = "swapped"
  /\ Notify
  /\ ppc' = [ppc EXCEPT ![p] = "waited"]
  /\ UNCHANGED <<m_running, ptrVars, bufVars, msg, idx, seen, sent, logVars, app>>

Unlock(p) ==
  /\ ppc[p] = "waited"
  /\ ppc' = [ppc EXCEPT ![p] = "enter"]
  /\ UNCHANGED <<m_running, event, ptrVars, bufVars, msg, idx, seen, sent, logVars, app>>
-----------------------------------------------------------------------------
(* LogThread::m_log_thread_func.                                             *)
LoopTest ==
  /\ lpc = "loop"
  /\ lpc' = IF m_running THEN "epoll" ELSE "exitWrite"
  /\ UNCHANGED <<m_running, event, ptrVars, bufVars, prodVars, taken, rowVars, file, app>>

EpollWait ==
  /\ lpc = "epoll"
  /\ event
  /\ lpc' = "woken"
  /\ UNCHANGED <<m_running, event, ptrVars, bufVars, prodVars, taken, rowVars, file, app>>

(* EINTR: the test "== -1 && errno != EINTR" is false, so the loop body goes *)
(* on as if the eventfd were readable.                                       *)
EpollInterrupted ==
  /\ Signals
  /\ lpc = "epoll"
  /\ lpc' = "woken"
  /\ UNCHANGED <<m_running, event, ptrVars, bufVars, prodVars, taken, rowVars, file, app>>

RunningTest ==
  /\ lpc = "woken"
  /\ lpc' = IF m_running THEN "read" ELSE "exitWrite"
  /\ UNCHANGED <<m_running, event, ptrVars, bufVars, prodVars, taken, rowVars, file, app>>

ReadEvent ==
  /\ lpc = "read"
  /\ event' = FALSE
  /\ lpc' = "swapRead"
  /\ UNCHANGED <<m_running, ptrVars, bufVars, prodVars, taken, rowVars, file, app>>

SwapRead ==
  /\ lpc = "swapRead"
  /\ taken' = secondary
  /\ lpc' = "swapWrite"
  /\ UNCHANGED <<m_running, event, ptrVars, bufVars, prodVars, rowVars, file, app>>

SwapWrite ==
  /\ lpc = "swapWrite"
  /\ secondary' = write
  /\ write' = taken
  /\ taken' = 1
  /\ raced' = (raced \/ \E p \in Producers : ppc[p] = "swapping")
  /\ lpc' = "flush"
  /\ UNCHANGED <<m_running, event, primary, bufVars, prodVars, rowVars, file, app>>

(* What flush() finds as the length of row r of b: the byte add_log has      *)
(* stored, unless the newline (the byte 10) that ended the row before lies   *)
(* there, behind 255 bytes of text.                                          *)
LenByteSigned(n) == n % 128
LenByte(n) == n % 256

StoredLen(b, r) ==
  IF cut THEN 10
  ELSE IF m_buffer[b][r] = 0 THEN 0 ELSE LenByte(Length[m_buffer[b][r]])

Line(b, r) ==
  IF m_buffer[b][r] = 0 THEN <<>> ELSE <<[msg |-> m_buffer[b][r], len |-> StoredLen(b, r)]>>

(* One turn of the loop in flush(), the last one if last. *)
WriteRow(b, last) ==
  /\ file' = file \o Line(b, row)
  /\ row' = IF last THEN 1 ELSE row + 1
  /\ cut' = (~last /\ StoredLen(b, row) = 255)

(* flush(m_logfile_, true): every row, filled or not; then m_reset. *)
FlushSize == BufSize

FlushRow ==
  /\ lpc = "flush"
  /\ WriteRow(write, row = FlushSize)
  /\ lpc' = IF row = FlushSize THEN "reset" ELSE "flush"
  /\ UNCHANGED <<m_running, event, ptrVars, bufVars, prodVars, taken, app>>

ResetIndex ==
  /\ lpc = "reset"
  /\ m_index' = [m_index EXCEPT ![write] = 0]
  /\ lpc' = "clear"
  /\ UNCHANGED <<m_running, event, ptrVars, m_buffer, prodVars, taken, rowVars, file, app>>

(* memset of the rows of b. *)
ClearedNot(b) == m_buffer
Cleared(b) == [m_buffer EXCEPT ![b] = NoRows]

ClearRows ==
  /\ lpc = "clear"
  /\ m_buffer' = Cleared(write)
  /\ lpc' = "loop"
  /\ UNCHANGED <<m_running, event, ptrVars, m_index, prodVars, taken, rowVars, file, app>>

(* flush(m_logfile_, false) of b: the rows that were given out; then, in one *)
(* step because no producer is left, m_reset, and the log thread goes on.    *)
FlushFilled(b, goOn) ==
  \/ /\ row <= m_index[b]
     /\ WriteRow(b, FALSE)
     /\ UNCHANGED <<bufVars, lpc>>
  \/ /\ row > m_index[b]
     /\ m_index' = [m_index EXCEPT ![b] = 0]
     /\ m_buffer' = Cleared(b)
     /\ row' = 1 /\ cut' = FALSE
     /\ lpc' = goOn
     /\ UNCHANGED file

(* The three flushes after the loop. *)
ExitFlushSkipsSecondary ==
  /\ \/ lpc = "exitWrite" /\ FlushFilled(write, "exitPrimary")
     \/ lpc = "exitPrimary" /\ FlushFilled(primary, "done")
  /\ UNCHANGED <<m_running, event, ptrVars, prodVars, taken, app>>

ExitFlush ==
  /\ \/ lpc = "exitWrite" /\ FlushFilled(write, "exitSecondary")
     \/ lpc = "exitSecondary" /\ FlushFilled(secondary, "exitPrimary")
     \/ lpc = "exitPrimary" /\ FlushFilled(primary, "done")
  /\ UNCHANGED <<m_running, event, ptrVars, prodVars, taken, app>>
-----------------------------------------------------------------------------
(* LogThread::~LogThread, at the end of the program: nobody is in log().     *)
DestroyStore ==
  /\ app = "open"
  /\ \A p \in Producers : ppc[p] = "idle"
  /\ m_running' = FALSE
  /\ app' = "stopping"
  /\ UNCHANGED <<event, ptrVars, bufVars, prodVars, logVars>>

DestroyNotify ==
  /\ app = "stopping"
  /\ Notify
  /\ app' = "joining"
  /\ UNCHANGED <<m_running, ptrVars, bufVars, prodVars, logVars>>

Join ==
  /\ app = "joining"
  /\ lpc = "done"
  /\ app' = "closed"
  /\ UNCHANGED <<m_running, event, ptrVars, bufVars, prodVars, logVars>>

Closed == app = "closed" /\ UNCHANGED vars
-----------------------------------------------------------------------------
ProducerStep(p) ==
  GetIdx(p) \/ AddLog(p) \/ Recheck(p) \/ PrimarySwap(p) \/ NotifyWait(p) \/ Unlock(p)

LogThreadStep ==
  \/ CountDown \/ LoopTest \/ EpollWait \/ RunningTest \/ ReadEvent
  \/ SwapRead \/ SwapWrite \/ FlushRow \/ ResetIndex \/ ClearRows \/ ExitFlush

OwnerStep == Start \/ Started \/ DestroyNotify \/ Join

Next ==
  \/ \E p \in Producers : Log(p) \/ ProducerStep(p)
  \/ LogThreadStep
  \/ EpollInterrupted
  \/ OwnerStep
  \/ DestroyStore
  \/ Closed

Spec == Init /\ [][Next]_vars

(* Every thread that can run does.  The kernel grants a lock that stays      *)
(* free; nobody has to call log() or to end the program.                     *)
Fairness ==
  /\ \A p \in Producers : WF_vars(ProducerStep(p))
  /\ WF_vars(LogThreadStep)
  /\ WF_vars(OwnerStep)

FairSpec == Spec /\ Fairness
-----------------------------------------------------------------------------
(* As long as the two unlocked exchanges have not overlapped, a producer     *)
(* that has been given a row is alone in that row, in a buffer the log       *)
(* thread is not writing to the file.                                        *)
RowsExclusive ==
  ~raced =>
    /\ \A p \in Producers : ppc[p] = "fill" =>
         primary # write /\ m_buffer[primary][idx[p]] = 0
    /\ \A p, q \in Producers :
         ppc[p] = "fill" /\ ppc[q] = "fill" /\ p # q => idx[p] # idx[q]

(* No message is written to the file twice, whatever overlaps: a buffer is   *)
(* cleared before it can be flushed again.                                   *)
AtMostOnce == \A i, j \in DOMAIN file : file[i].msg = file[j].msg => i = j

(* A message whose log() call has returned is in the file or in one of the   *)
(* three buffers, through every exchange, flush and reset, and in the file   *)
(* when the destructor has "waited until the thread has written all current  *)
(* logs" (log_thread.cpp:42), unless the exchanges that "need no lock"       *)
(* (log_thread.cpp:159) have overlapped.                                     *)
LossOnlyByRace ==
  ~raced =>
    IF app = "closed" THEN Accepted \subseteq Written
    ELSE Accepted \subseteq Written \cup UNION {Stored(b) : b \in {primary, secondary, write}}

(* Without such an overlap a message of at most 255 bytes is written whole,  *)
(* unless the line before it in its buffer has exactly 255: that line's      *)
(* newline replaces its length.  Longer messages lose what the unsigned byte *)
(* cannot count.                                                             *)
LinesIntact ==
  ~raced => \A i \in DOMAIN file :
    \/ file[i].len = Length[file[i].msg]
    \/ Length[file[i].msg] > 255
    \/ i > 1 /\ file[i - 1].len = 255

(* log() returns: a producer that finds the buffers full spins through       *)
(* exchanges only until the log thread has emptied one.                      *)
LogReturns == \A p \in Producers : ppc[p] = "enter" ~> ppc[p] = "idle"

(* The destructor returns: clearing m_running_ before the eventfd is written *)
(* is enough for the log thread to see it, even when read() swallows the     *)
(* last notification.                                                        *)
ShutdownReturns == app = "stopping" ~> app = "closed"
=============================================================================
