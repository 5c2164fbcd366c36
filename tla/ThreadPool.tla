------------------------------ MODULE ThreadPool ------------------------------
(***************************************************************************)
(* src/native/threadpool.hpp: a mutex, a condition variable, a deque used  *)
(* as a stack and a stop flag shared by the worker threads and the client  *)
(* thread, together with the two clients the program has:                  *)
(*   - elf_copy_debug_symbols_parallel (abnativeelf.cpp) enqueues files    *)
(*     while the workers already run, waits for completion, then reads     *)
(*     m_has_error;                                                        *)
(*   - abpp_parallelize (abnativefunctions.cpp) enqueues its arguments,    *)
(*     reads m_has_error, and joins the workers in the destructor of the   *)
(*     pool, when it has already chosen its status.                        *)
(* A step is what a thread does between two points where another thread    *)
(* can see it: taking the mutex, and the critical section with the unlock. *)
(***************************************************************************)
EXTENDS Naturals, Sequences, FiniteSets

CONSTANTS
  Workers,          \* the threads in m_workers
  Tasks,            \* at most these tasks are enqueued (occurrences, not names)
  Client,           \* the thread that owns the pool
  NoThread,         \* "nobody holds m_mutex"
  NoTask            \* "no task in hand"

\* hardware_concurrency() may be 0 on an odd host: then no task ever runs and
\* the client returns success, so the promise needs at least one worker.
ASSUME WorkersAssumption == Workers # {}
ASSUME NamesAssumption ==
  /\ Client \notin Workers
  /\ NoThread \notin Workers \cup {Client}
  /\ NoTask \notin Tasks

VARIABLES
  m_mutex,      \* the holder of the mutex
  m_queue,      \* the deque, back at the end
  m_stop,
  m_has_error,
  pc,           \* where each worker is
  task,         \* the local variable "task" of each worker
  cpc,          \* where the client is
  arg,          \* the argument of the client's enqueue call
  status,       \* what the client returns
  submitted,    \* history: tasks passed to enqueue
  finished,     \* history: tasks whose processor call has ended
  failed        \* history: those with a nonzero result

poolVars == <<m_queue, m_stop, m_has_error>>
history  == <<submitted, finished, failed>>
vars == <<m_mutex, m_queue, m_stop, m_has_error, pc, task, cpc, arg, status,
          submitted, finished, failed>>

WorkerPCs == {"lock", "test", "asleep", "take", "run", "flag", "done"}
ClientPCs == {"open", "push", "stop", "closing", "join", "read", "returned",
              "left", "aborted"}

Up == cpc # "aborted"

QueueSet == {m_queue[i] : i \in 1..Len(m_queue)}
Held == {task[w] : w \in {v \in Workers : pc[v] \in {"run", "flag"}}}

Init ==
  /\ m_mutex = NoThread
  /\ m_queue = <<>> /\ m_stop = FALSE /\ m_has_error = FALSE
  /\ pc = [w \in Workers |-> "lock"]
  /\ task = [w \in Workers |-> NoTask]
  /\ cpc = "open" /\ arg = NoTask /\ status = "none"
  /\ submitted = {} /\ finished = {} /\ failed = {}

\* Faulty variant: notify_all forgotten.
WokenNobody == pc

\* notify_all: every sleeper will ask for the mutex again.
Woken == [w \in Workers |-> IF pc[w] = "asleep" THEN "lock" ELSE pc[w]]

-----------------------------------------------------------------------------
(* The worker loop.                                                        *)

\* unique_lock, and the reacquisition when the condition variable wakes up.
Lock(w) ==
  /\ Up /\ pc[w] = "lock"
  /\ m_mutex = NoThread
  /\ m_mutex' = w
  /\ pc' = [pc EXCEPT ![w] = "test"]
  /\ UNCHANGED <<poolVars, task, cpc, arg, status, history>>

\* The predicate holds: leave m_waker.wait with the mutex held.
PredicateHolds(w) ==
  /\ Up /\ pc[w] = "test"
  /\ m_queue # <<>> \/ m_stop
  /\ pc' = [pc EXCEPT ![w] = "take"]
  /\ UNCHANGED <<m_mutex, poolVars, task, cpc, arg, status, history>>

\* The predicate fails: release the mutex and sleep, as one step.
Sleep(w) ==
  /\ Up /\ pc[w] = "test"
  /\ m_queue = <<>> /\ ~m_stop
  /\ m_mutex' = NoThread
  /\ pc' = [pc EXCEPT ![w] = "asleep"]
  /\ UNCHANGED <<poolVars, task, cpc, arg, status, history>>

SpuriousWake(w) ==
  /\ Up /\ pc[w] = "asleep"
  /\ pc' = [pc EXCEPT ![w] = "lock"]
  /\ UNCHANGED <<m_mutex, poolVars, task, cpc, arg, status, history>>

Exit(w) ==
  /\ Up /\ pc[w] = "take"
  /\ m_queue = <<>> /\ m_stop
  /\ m_mutex' = NoThread
  /\ pc' = [pc EXCEPT ![w] = "done"]
  /\ UNCHANGED <<poolVars, task, cpc, arg, status, history>>

\* Faulty variant: back() without pop_back().
TakeKeeps(w) ==
  /\ Up /\ pc[w] = "take" /\ m_queue # <<>>
  /\ task' = [task EXCEPT ![w] = m_queue[Len(m_queue)]]
  /\ m_mutex' = NoThread
  /\ pc' = [pc EXCEPT ![w] = "run"]
  /\ UNCHANGED <<poolVars, cpc, arg, status, history>>

\* back() and pop_back(): the most recent task first.
Take(w) ==
  /\ Up /\ pc[w] = "take"
  /\ ~(m_queue = <<>> /\ m_stop)
  /\ task' = [task EXCEPT ![w] = m_queue[Len(m_queue)]]
  /\ m_queue' = SubSeq(m_queue, 1, Len(m_queue) - 1)
  /\ m_mutex' = NoThread
  /\ pc' = [pc EXCEPT ![w] = "run"]
  /\ UNCHANGED <<m_stop, m_has_error, cpc, arg, status, history>>

\* Faulty variant: uses the task after it was moved away.
TaskSucceedsMoved(w) ==
  /\ Up /\ pc[w] = "run"
  /\ finished' = finished \cup {NoTask}
  /\ task' = [task EXCEPT ![w] = NoTask]
  /\ pc' = [pc EXCEPT ![w] = "lock"]
  /\ UNCHANGED <<m_mutex, poolVars, cpc, arg, status, submitted, failed>>

\* process_for_result returned 0.
TaskSucceeds(w) ==
  /\ Up /\ pc[w] = "run"
  /\ finished' = finished \cup {task[w]}
  /\ task' = [task EXCEPT ![w] = NoTask]
  /\ pc' = [pc EXCEPT ![w] = "lock"]
  /\ UNCHANGED <<m_mutex, poolVars, cpc, arg, status, submitted, failed>>

\* It returned another value; the flag is a store of its own, without the mutex.
TaskFails(w) ==
  /\ Up /\ pc[w] = "run"
  /\ pc' = [pc EXCEPT ![w] = "flag"]
  /\ UNCHANGED <<m_mutex, poolVars, task, cpc, arg, status, history>>

SetHasError(w) ==
  /\ Up /\ pc[w] = "flag"
  /\ m_has_error' = TRUE
  /\ finished' = finished \cup {task[w]}
  /\ failed' = failed \cup {task[w]}
  /\ task' = [task EXCEPT ![w] = NoTask]
  /\ pc' = [pc EXCEPT ![w] = "lock"]
  /\ UNCHANGED <<m_mutex, m_queue, m_stop, cpc, arg, status, submitted>>

-----------------------------------------------------------------------------
(* The client.                                                             *)

EnqueueLock(t) ==
  /\ cpc = "open"
  /\ t \notin submitted
  /\ m_mutex = NoThread
  /\ m_mutex' = Client
  /\ cpc' = "push"
  /\ arg' = t
  /\ UNCHANGED <<poolVars, pc, task, status, history>>

Enqueue ==
  /\ cpc = "push"
  /\ m_queue' = Append(m_queue, arg)
  /\ submitted' = submitted \cup {arg}
  /\ pc' = Woken
  /\ m_mutex' = NoThread
  /\ cpc' = "open"
  /\ arg' = NoTask
  /\ UNCHANGED <<m_stop, m_has_error, task, status, finished, failed>>

\* The status a client makes of the flag.
StatusOf(flag) == IF flag THEN "error" ELSE "ok"

\* A client shows which one it is when it has enqueued its last task: the ELF
\* client goes to wait_for_completion, with no status chosen.
CloseElf ==
  /\ cpc = "open"
  /\ cpc' = "stop"
  /\ UNCHANGED <<m_mutex, poolVars, pc, task, arg, status, history>>

\* abpp_parallelize reads m_has_error while workers may write it: a data race
\* on a plain bool, so that a store already made may be seen or not.
ReadFlagEarly ==
  /\ cpc = "open"
  /\ status' \in {"ok", StatusOf(m_has_error)}
  /\ cpc' = "stop"
  /\ UNCHANGED <<m_mutex, poolVars, pc, task, arg, history>>

StopLock ==
  /\ cpc = "stop"
  /\ m_mutex = NoThread
  /\ m_mutex' = Client
  /\ cpc' = "closing"
  /\ UNCHANGED <<poolVars, pc, task, arg, status, history>>

Stop ==
  /\ cpc = "closing"
  /\ m_stop' = TRUE
  /\ pc' = Woken
  /\ m_mutex' = NoThread
  /\ cpc' = "join"
  /\ UNCHANGED <<m_queue, m_has_error, task, arg, status, history>>

\* The loop of joins is over when every worker has left its loop.  In
\* abpp_parallelize it is the last thing the destructor of the pool does; the
\* ELF client has yet to read the flag.
Join ==
  /\ cpc = "join"
  /\ \A w \in Workers : pc[w] = "done"
  /\ cpc' = IF status = "none" THEN "read" ELSE "left"
  /\ UNCHANGED <<m_mutex, poolVars, pc, task, arg, status, history>>

ReadFlagLate ==
  /\ cpc = "read"
  /\ status' = StatusOf(m_has_error)
  /\ cpc' = "returned"
  /\ UNCHANGED <<m_mutex, poolVars, pc, task, arg, history>>

\* An exception that leaves a processor call, or the directory iterator of the
\* ELF client, is never caught: std::terminate, and no thread goes on.
Abort ==
  /\ \/ Up /\ \E w \in Workers : pc[w] = "run"
     \/ cpc = "open"
  /\ cpc' = "aborted"
  /\ UNCHANGED <<m_mutex, poolVars, pc, task, arg, status, history>>

Ended == cpc \in {"returned", "left", "aborted"} /\ UNCHANGED vars

-----------------------------------------------------------------------------
WorkerStep(w) ==
  \/ Lock(w) \/ PredicateHolds(w) \/ Sleep(w) \/ Exit(w) \/ Take(w)
  \/ TaskSucceeds(w) \/ TaskFails(w) \/ SetHasError(w)

ClientStep ==
  \/ \E t \in Tasks : EnqueueLock(t)
  \/ Enqueue \/ CloseElf \/ ReadFlagEarly \/ StopLock \/ Stop \/ Join
  \/ ReadFlagLate

Next ==
  \/ \E w \in Workers : WorkerStep(w) \/ SpuriousWake(w)
  \/ ClientStep \/ Abort \/ Ended

Spec == Init /\ [][Next]_vars

\* Each thread goes on when it can, a processor call ends, and spurious wakeups
\* do not go on for ever.  No fairness is asked of the mutex.
Fairness ==
  /\ \A w \in Workers : WF_vars(WorkerStep(w))
  /\ WF_vars(ClientStep)
  /\ <>[][\A w \in Workers : ~SpuriousWake(w)]_vars

FairSpec == Spec /\ Fairness

-----------------------------------------------------------------------------
(* What should hold.                                                       *)

TypeOK ==
  /\ m_mutex \in Workers \cup {Client, NoThread}
  /\ m_queue \in Seq(Tasks)
  /\ m_stop \in BOOLEAN /\ m_has_error \in BOOLEAN
  /\ pc \in [Workers -> WorkerPCs]
  /\ task \in [Workers -> Tasks \cup {NoTask}]
  /\ cpc \in ClientPCs
  /\ arg \in Tasks \cup {NoTask}
  /\ status \in {"none", "ok", "error"}
  /\ submitted \subseteq Tasks /\ finished \subseteq Tasks /\ failed \subseteq Tasks

\* Every task passed to enqueue is in exactly one place: once in the deque, in
\* the hands of one worker, or ended.  No task is lost or processed twice.
OnePlacePerTask ==
  /\ \A i, j \in 1..Len(m_queue) : m_queue[i] = m_queue[j] => i = j
  /\ \A v, w \in Workers :
        v # w /\ pc[v] \in {"run", "flag"} /\ pc[w] \in {"run", "flag"} => task[v] # task[w]
  /\ QueueSet \cap Held = {} /\ QueueSet \cap finished = {} /\ Held \cap finished = {}
  /\ submitted = QueueSet \cup Held \cup finished

\* When the client returns, every task it enqueued has been processed, also
\* those that no worker had taken when m_stop was set.
ReturnMeansDone == cpc \in {"returned", "left"} => finished = submitted

\* The ELF client reports an error exactly when a task failed, although the
\* flag is written without the mutex.
VerdictExact == cpc = "returned" => (status = "error" <=> failed # {})

\* A client never reports an error that did not happen.
NoFalseAlarm == status = "error" => failed # {}

\* A worker never leaves its loop while a task is waiting, and none is added
\* afterwards: the deque of a stopped pool only shrinks.
NoLateTask == (\E w \in Workers : pc[w] = "done") => m_stop /\ m_queue = <<>>

\* Every thread comes to its end: no wakeup is lost between the predicate and
\* the sleep, and stop() reaches a worker wherever it is.
Termination == <>(cpc \in {"returned", "left", "aborted"})

-----------------------------------------------------------------------------
(* The pool keeps the promise of TaskBatch.                                *)

Phase ==
  CASE cpc \in {"open", "push", "stop", "closing"} -> "open"
    [] cpc \in {"join", "read"} -> "closed"
    [] cpc \in {"returned", "left"} -> "returned"
    [] OTHER -> cpc

Batch == INSTANCE TaskBatch WITH
  pending <- QueueSet, running <- Held, phase <- Phase, verdict <- status

\* Seen through Phase, QueueSet and Held, every behaviour of the pool is one of
\* TaskBatch: a task is started once, a failure is recorded before its worker
\* moves on, and the verdict is the one the abstract batch gives.
ImplementsBatch == Batch!Spec
=============================================================================
