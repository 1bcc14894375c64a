---------------------------- MODULE TaskService ----------------------------
(***************************************************************************)
(* What HncThreadPool promises to the code that submits tasks, without      *)
(* threads, locks or condition variables: an accepted task waits in a FIFO  *)
(* queue, is begun once, finishes, and the service is closed only after     *)
(* everything it accepted has finished.                                     *)
(***************************************************************************)
EXTENDS Naturals, Sequences

CONSTANT Tasks

VARIABLES
  queue,  \* accepted tasks not yet begun, oldest first
  busy,   \* tasks being executed
  done,   \* finished tasks
  open    \* FALSE once the service has been destroyed

svars == <<queue, busy, done, open>>

Queued == {queue[i] : i \in DOMAIN queue}

Init ==
  /\ queue = <<>>
  /\ busy = {}
  /\ done = {}
  /\ open = TRUE

Accept(t) ==
  /\ open
  /\ t \notin Queued \cup busy \cup done
  /\ queue' = Append(queue, t)
  /\ UNCHANGED <<busy, done, open>>

Begin ==
  /\ queue # <<>>
  /\ busy' = busy \cup {Head(queue)}
  /\ queue' = Tail(queue)
  /\ UNCHANGED <<done, open>>

Finish(t) ==
  /\ t \in busy
  /\ busy' = busy \ {t}
  /\ done' = done \cup {t}
  /\ UNCHANGED <<queue, open>>

Close ==
  /\ open
  /\ queue = <<>>
  /\ busy = {}
  /\ open' = FALSE
  /\ UNCHANGED <<queue, busy, done>>

Next ==
  \/ \E t \in Tasks : Accept(t) \/ Finish(t)
  \/ Begin
  \/ Close

Spec == Init /\ [][Next]_svars
=============================================================================
