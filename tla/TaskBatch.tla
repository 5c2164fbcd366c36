------------------------------ MODULE TaskBatch ------------------------------
(***************************************************************************)
(* What a pool of workers promises to the client that created it, without  *)
(* threads, locks or a queue: a batch of tasks is handed over, each one is *)
(* run once, and the client is told whether one of them failed.            *)
(*                                                                         *)
(* The two clients of src/native differ in one thing.  The ELF client asks *)
(* for the verdict when every task has ended; abpp_parallelize asks while  *)
(* tasks still run and waits for them afterwards.                          *)
(***************************************************************************)
EXTENDS FiniteSets

CONSTANT Tasks

VARIABLES
  pending,    \* handed over, not started
  running,    \* started, not ended
  finished,   \* ended
  failed,     \* ended with a nonzero result
  phase,      \* "open", "closed", "returned", "aborted"
  verdict     \* "none", "ok", "error": what the client is told

vars == <<pending, running, finished, failed, phase, verdict>>

Submitted == pending \cup running \cup finished

Up == phase # "aborted"

VerdictOf(bad) == IF bad THEN "error" ELSE "ok"

Init ==
  /\ pending = {} /\ running = {} /\ finished = {} /\ failed = {}
  /\ phase = "open"
  /\ verdict = "none"

Submit(t) ==
  /\ phase = "open" /\ verdict = "none"
  /\ t \notin Submitted
  /\ pending' = pending \cup {t}
  /\ UNCHANGED <<running, finished, failed, phase, verdict>>

Start(t) ==
  /\ Up
  /\ t \in pending
  /\ pending' = pending \ {t}
  /\ running' = running \cup {t}
  /\ UNCHANGED <<finished, failed, phase, verdict>>

Succeed(t) ==
  /\ Up
  /\ t \in running
  /\ running' = running \ {t}
  /\ finished' = finished \cup {t}
  /\ UNCHANGED <<pending, failed, phase, verdict>>

Fail(t) ==
  /\ Up
  /\ t \in running
  /\ running' = running \ {t}
  /\ finished' = finished \cup {t}
  /\ failed' = failed \cup {t}
  /\ UNCHANGED <<pending, phase, verdict>>

\* An early verdict may miss failures; it never invents one.
DecideEarly ==
  /\ phase = "open" /\ verdict = "none"
  /\ verdict' \in {"ok", VerdictOf(failed # {})}
  /\ UNCHANGED <<pending, running, finished, failed, phase>>

Close ==
  /\ phase = "open"
  /\ phase' = "closed"
  /\ UNCHANGED <<pending, running, finished, failed, verdict>>

Return ==
  /\ phase = "closed"
  /\ pending = {} /\ running = {}
  /\ phase' = "returned"
  /\ verdict' = IF verdict = "none" THEN VerdictOf(failed # {}) ELSE verdict
  /\ UNCHANGED <<pending, running, finished, failed>>

\* An exception that leaves a task or the client ends the whole process.
Abort ==
  /\ phase \in {"open", "closed"}
  /\ phase' = "aborted"
  /\ UNCHANGED <<pending, running, finished, failed, verdict>>

Next ==
  \/ \E t \in Tasks : Submit(t) \/ Start(t) \/ Succeed(t) \/ Fail(t)
  \/ DecideEarly \/ Close \/ Return \/ Abort

Spec == Init /\ [][Next]_vars
=============================================================================
