--------------------------- MODULE ThreadPoolProofs ---------------------------
(***************************************************************************)
(* Proofs about ThreadPool, for any number of workers and tasks and for    *)
(* both clients.  The invariants are proved in layers: types, who may be   *)
(* in a critical section, where each task is, and what the client is told. *)
(***************************************************************************)
EXTENDS ThreadPool, SequenceTheorems, TLAPS

USE NamesAssumption DEF NamesAssumption, WorkerPCs, ClientPCs

-----------------------------------------------------------------------------
(* The deque as a set.                                                     *)

Elements(s) == {s[i] : i \in 1..Len(s)}
NoDuplicates(s) == \A i, j \in 1..Len(s) : s[i] = s[j] => i = j

\* emplace_back adds the new task to the tasks of the deque, and keeps them
\* pairwise different if the task is new.
LEMMA AppendElements ==
  ASSUME NEW T, NEW s \in Seq(T), NEW e \in T
  PROVE  /\ Append(s, e) \in Seq(T)
         /\ Elements(Append(s, e)) = Elements(s) \cup {e}
         /\ NoDuplicates(s) /\ e \notin Elements(s) => NoDuplicates(Append(s, e))
<1> DEFINE a == Append(s, e)
<1>1. /\ a \in Seq(T) /\ Len(a) = Len(s) + 1 /\ Len(s) \in Nat
      /\ \A i \in 1..Len(s) : a[i] = s[i]
      /\ a[Len(s) + 1] = e
  OBVIOUS
<1>2. Elements(a) = Elements(s) \cup {e}
  <2>1. \A x \in Elements(a) : x \in Elements(s) \cup {e}
    BY <1>1 DEF Elements
  <2>2. \A x \in Elements(s) \cup {e} : x \in Elements(a)
    BY <1>1 DEF Elements
  <2> QED BY <2>1, <2>2
<1>3. ASSUME NoDuplicates(s), e \notin Elements(s)
      PROVE  NoDuplicates(a)
  BY <1>1, <1>3 DEF NoDuplicates, Elements
<1> QED BY <1>1, <1>2, <1>3

\* back() followed by pop_back() takes one task out of the deque and no other.
LEMMA PopElements ==
  ASSUME NEW T, NEW s \in Seq(T), s # <<>>, NoDuplicates(s)
  PROVE  LET last  == s[Len(s)]
             front == SubSeq(s, 1, Len(s) - 1)
         IN  /\ last \in T /\ last \in Elements(s)
             /\ front \in Seq(T)
             /\ Elements(front) = Elements(s) \ {last}
             /\ NoDuplicates(front)
<1> DEFINE last  == s[Len(s)]
           front == SubSeq(s, 1, Len(s) - 1)
<1>1. /\ Len(s) \in Nat /\ Len(s) >= 1
      /\ front \in Seq(T) /\ Len(front) = Len(s) - 1
      /\ \A i \in 1..(Len(s) - 1) : front[i] = s[i]
  <2>1. Len(s) \in Nat /\ Len(s) >= 1 /\ \A i \in 1..(Len(s) - 1) : s[i] \in T
    BY EmptySeq, LenProperties
  <2> HIDE DEF front
  <2>2. /\ front \in Seq(T)
        /\ Len(front) = IF 1 <= Len(s) - 1 THEN Len(s) - 1 - 1 + 1 ELSE 0
        /\ \A i \in 1..(Len(s) - 1 - 1 + 1) : front[i] = s[1 + i - 1]
    BY <2>1, SubSeqProperties DEF front
  <2>3. \A n \in Nat : n >= 1 =>
          /\ (IF 1 <= n - 1 THEN n - 1 - 1 + 1 ELSE 0) = n - 1
          /\ n - 1 - 1 + 1 = n - 1 /\ \A i \in 1..(n - 1) : 1 + i - 1 = i
    OBVIOUS
  <2>4. Len(front) = Len(s) - 1
    BY <2>1, <2>2, <2>3
  <2>5. \A i \in 1..(Len(s) - 1) : front[i] = s[i]
    BY <2>1, <2>2, <2>3
  <2> QED BY <2>1, <2>2, <2>4, <2>5
<1>2. last \in T /\ last \in Elements(s)
  BY <1>1 DEF Elements
<1>3. Elements(front) = Elements(s) \ {last}
  <2>1. \A x \in Elements(front) : x \in Elements(s) /\ x # last
    BY <1>1 DEF Elements, NoDuplicates
  <2>2. \A x \in Elements(s) : x # last => x \in Elements(front)
    BY <1>1 DEF Elements
  <2> QED BY <2>1, <2>2
<1>4. NoDuplicates(front)
  BY <1>1 DEF NoDuplicates
<1> QED BY <1>1, <1>2, <1>3, <1>4

-----------------------------------------------------------------------------
(* Types.                                                                  *)

\* The variables of the pool, its threads and its client keep their types,
\* and a worker at "run" or "flag" holds a task: back() is never called on an
\* empty deque, which would be undefined behaviour.
Holding ==
  /\ \A w \in Workers : pc[w] \in {"run", "flag"} => task[w] \in Tasks
  /\ cpc = "push" => arg \in Tasks \ submitted

\* The mutex excludes: whoever is in a critical section holds it, and a worker
\* that left the wait finds a task or the stop flag.
Exclusion ==
  /\ \A w \in Workers : pc[w] \in {"test", "take"} => m_mutex = w
  /\ cpc \in {"push", "closing"} => m_mutex = Client
  /\ \A w \in Workers : pc[w] = "take" => m_queue # <<>> \/ m_stop

TypeInv == TypeOK /\ Holding /\ Exclusion

LEMMA TypeInvInit == Init => TypeInv
<1> SUFFICES ASSUME Init PROVE TypeInv
  OBVIOUS
<1>1. TypeOK
  <2>1. /\ m_mutex \in Workers \cup {Client, NoThread}
        /\ pc \in [Workers -> WorkerPCs]
        /\ task \in [Workers -> Tasks \cup {NoTask}]
    BY DEF Init
  <2>2. m_queue \in Seq(Tasks)
    BY EmptySeq DEF Init
  <2>3. /\ m_stop \in BOOLEAN /\ m_has_error \in BOOLEAN
        /\ cpc \in ClientPCs
        /\ arg \in Tasks \cup {NoTask}
        /\ status \in {"none", "ok", "error"}
        /\ submitted \subseteq Tasks /\ finished \subseteq Tasks /\ failed \subseteq Tasks
    BY DEF Init
  <2> QED BY <2>1, <2>2, <2>3 DEF TypeOK
<1>2. Holding /\ Exclusion
  BY DEF Init, Holding, Exclusion
<1> QED BY <1>1, <1>2 DEF TypeInv

LEMMA TypeInvStep == TypeInv /\ [Next]_vars => TypeInv'
<1> SUFFICES ASSUME TypeInv, [Next]_vars PROVE TypeInv'
  OBVIOUS
<1> USE DEF TypeInv, TypeOK, Holding, Exclusion, poolVars, history, Up, StatusOf
<1>1. CASE UNCHANGED vars
  BY <1>1 DEF vars
<1>2. ASSUME NEW w \in Workers, Lock(w) PROVE TypeInv'
  BY <1>2 DEF Lock
<1>3. ASSUME NEW w \in Workers, PredicateHolds(w) PROVE TypeInv'
  BY <1>3 DEF PredicateHolds
<1>4. ASSUME NEW w \in Workers, Sleep(w) PROVE TypeInv'
  BY <1>4 DEF Sleep
<1>5. ASSUME NEW w \in Workers, SpuriousWake(w) PROVE TypeInv'
  BY <1>5 DEF SpuriousWake
<1>6. ASSUME NEW w \in Workers, Exit(w) PROVE TypeInv'
  BY <1>6 DEF Exit
<1>7. ASSUME NEW w \in Workers, Take(w) PROVE TypeInv'
  <2>1. /\ m_queue # <<>>
        /\ m_queue[Len(m_queue)] \in Tasks
        /\ SubSeq(m_queue, 1, Len(m_queue) - 1) \in Seq(Tasks)
    BY <1>7 DEF Take
  <2> QED BY <1>7, <2>1 DEF Take
<1>8. ASSUME NEW w \in Workers, TaskSucceeds(w) PROVE TypeInv'
  BY <1>8 DEF TaskSucceeds
<1>9. ASSUME NEW w \in Workers, TaskFails(w) PROVE TypeInv'
  BY <1>9 DEF TaskFails
<1>10. ASSUME NEW w \in Workers, SetHasError(w) PROVE TypeInv'
  BY <1>10 DEF SetHasError
<1>11. ASSUME NEW t \in Tasks, EnqueueLock(t) PROVE TypeInv'
  BY <1>11 DEF EnqueueLock
<1>12. CASE Enqueue
  <2>1. Append(m_queue, arg) \in Seq(Tasks) /\ Append(m_queue, arg) # <<>>
    BY <1>12 DEF Enqueue
  <2> QED BY <1>12, <2>1 DEF Enqueue, Woken
<1>13. CASE CloseElf
  BY <1>13 DEF CloseElf
<1>14. CASE ReadFlagEarly
  BY <1>14 DEF ReadFlagEarly
<1>15. CASE StopLock
  BY <1>15 DEF StopLock
<1>16. CASE Stop
  BY <1>16 DEF Stop, Woken
<1>17. CASE Join
  BY <1>17 DEF Join
<1>18. CASE ReadFlagLate
  BY <1>18 DEF ReadFlagLate
<1>19. CASE Abort
  BY <1>19 DEF Abort
<1>20. CASE Ended
  BY <1>20 DEF Ended, vars
<1> QED
  BY <1>1, <1>2, <1>3, <1>4, <1>5, <1>6, <1>7, <1>8, <1>9, <1>10, <1>11, <1>12,
     <1>13, <1>14, <1>15, <1>16, <1>17, <1>18, <1>19, <1>20
  DEF Next, WorkerStep, ClientStep

\* The type invariant holds in every behaviour of the pool.
THEOREM TypeCorrect == Spec => []TypeOK
<1>1. TypeInv => TypeOK
  BY DEF TypeInv
<1> QED BY <1>1, TypeInvInit, TypeInvStep, PTL DEF Spec

-----------------------------------------------------------------------------
(* Where each task is.                                                     *)

Busy(w) == pc[w] \in {"run", "flag"}

LEMMA QueueSetIsElements == QueueSet = Elements(m_queue)
BY DEF QueueSet, Elements

\* A step that neither puts a task into a worker's hands nor takes one out of
\* them, and leaves the deque and the history alone, moves no task.
LEMMA NothingMoves ==
  ASSUME OnePlacePerTask,
         \A w \in Workers : Busy(w)' <=> Busy(w),
         UNCHANGED <<m_queue, task, submitted, finished>>
  PROVE  OnePlacePerTask' /\ Held' = Held /\ QueueSet' = QueueSet
<1>1. QueueSet' = QueueSet
  BY DEF QueueSet
<1>2. Held' = Held
  BY DEF Held, Busy
<1> QED BY <1>1, <1>2 DEF OnePlacePerTask, Busy

\* Taking the last task moves it from the deque into the hands of the worker.
LEMMA TakeMoves ==
  ASSUME TypeInv, OnePlacePerTask, NEW w \in Workers, Take(w)
  PROVE  LET t == m_queue[Len(m_queue)] IN
         /\ t \in QueueSet /\ task'[w] = t /\ pc'[w] = "run"
         /\ Held' = Held \cup {t}
         /\ QueueSet' = QueueSet \ {t}
         /\ NoDuplicates(m_queue')
<1> DEFINE t == m_queue[Len(m_queue)]
<1>1. m_queue # <<>> /\ m_queue \in Seq(Tasks) /\ NoDuplicates(m_queue)
  BY DEF TypeInv, TypeOK, Exclusion, Take, OnePlacePerTask, NoDuplicates
<1>2. t \in QueueSet /\ QueueSet' = QueueSet \ {t} /\ NoDuplicates(m_queue')
  <2>1. m_queue' = SubSeq(m_queue, 1, Len(m_queue) - 1)
    BY DEF Take
  <2>2. /\ t \in Elements(m_queue)
        /\ Elements(m_queue') = Elements(m_queue) \ {t}
        /\ NoDuplicates(m_queue')
    BY <1>1, <2>1, PopElements
  <2>3. QueueSet' = Elements(m_queue')
    BY DEF QueueSet, Elements
  <2> QED BY <2>2, <2>3, QueueSetIsElements
<1>3. /\ pc \in [Workers -> WorkerPCs] /\ task \in [Workers -> Tasks \cup {NoTask}]
      /\ pc[w] = "take"
      /\ pc' = [pc EXCEPT ![w] = "run"] /\ task' = [task EXCEPT ![w] = t]
  BY DEF TypeInv, TypeOK, Take
<1>4. Held' = Held \cup {t}
  <2> HIDE DEF t
  <2>1. \A x \in Held' : x \in Held \cup {t}
    BY <1>3 DEF Held
  <2>2. \A x \in Held \cup {t} : x \in Held'
    BY <1>3 DEF Held
  <2> QED BY <2>1, <2>2
<1> QED BY <1>2, <1>3, <1>4

\* The end of a call takes the task out of the hands of its worker.
LEMMA EndMoves ==
  ASSUME TypeInv, OnePlacePerTask, NEW w \in Workers, Busy(w),
         pc' = [pc EXCEPT ![w] = "lock"], task' = [task EXCEPT ![w] = NoTask]
  PROVE  task[w] \in Held /\ Held' = Held \ {task[w]}
<1>1. pc \in [Workers -> WorkerPCs] /\ task \in [Workers -> Tasks \cup {NoTask}]
  BY DEF TypeInv, TypeOK
<1>2. task[w] \in Held
  BY DEF Held, Busy
<1>3. \A x \in Held' : x \in Held \ {task[w]}
  BY <1>1 DEF Held, Busy, OnePlacePerTask
<1>4. \A x \in Held \ {task[w]} : x \in Held'
  BY <1>1 DEF Held
<1> QED BY <1>2, <1>3, <1>4

LEMMA PlaceInit == Init => OnePlacePerTask
<1> SUFFICES ASSUME Init PROVE OnePlacePerTask
  OBVIOUS
<1>1. QueueSet = {} /\ Held = {}
  BY DEF Init, QueueSet, Held
<1> QED BY <1>1 DEF Init, OnePlacePerTask

LEMMA PlaceStep == TypeInv /\ OnePlacePerTask /\ [Next]_vars => OnePlacePerTask'
<1> SUFFICES ASSUME TypeInv, OnePlacePerTask, [Next]_vars PROVE OnePlacePerTask'
  OBVIOUS
<1> DEFINE Still == /\ \A w \in Workers : Busy(w)' <=> Busy(w)
                    /\ UNCHANGED <<m_queue, task, submitted, finished>>
<1>0. pc \in [Workers -> WorkerPCs] /\ task \in [Workers -> Tasks \cup {NoTask}]
  BY DEF TypeInv, TypeOK
<1>1. ASSUME UNCHANGED vars \/ Abort \/ Ended \/ CloseElf \/ ReadFlagEarly
             \/ StopLock \/ Join \/ ReadFlagLate \/ (\E t \in Tasks : EnqueueLock(t))
      PROVE  Still
  BY <1>1 DEF vars, poolVars, history, Busy, Abort, Ended, CloseElf, ReadFlagEarly,
              StopLock, Join, ReadFlagLate, EnqueueLock
<1>2. ASSUME NEW w \in Workers,
             Lock(w) \/ PredicateHolds(w) \/ Sleep(w) \/ SpuriousWake(w) \/ Exit(w)
             \/ TaskFails(w)
      PROVE  Still
  BY <1>0, <1>2 DEF poolVars, history, Busy, Lock, PredicateHolds, Sleep, SpuriousWake,
              Exit, TaskFails
<1>3. CASE Stop
  <2>1. Still
    BY <1>0, <1>3 DEF Stop, Woken, Busy, history
  <2> QED BY <2>1, NothingMoves
<1>4. ASSUME NEW w \in Workers, Take(w) PROVE OnePlacePerTask'
  <2> DEFINE t == m_queue[Len(m_queue)]
  <2>1. /\ t \in QueueSet /\ task'[w] = t /\ pc'[w] = "run"
        /\ Held' = Held \cup {t} /\ QueueSet' = QueueSet \ {t}
        /\ NoDuplicates(m_queue')
    BY <1>4, TakeMoves
  <2>2. \A v \in Workers : v # w => pc'[v] = pc[v] /\ task'[v] = task[v]
    BY <1>0, <1>4 DEF Take
  <2>3. \A v \in Workers : v # w /\ Busy(v) => task[v] # t
    BY <2>1 DEF OnePlacePerTask, Held, Busy
  <2>4. \A u, v \in Workers : u # v /\ Busy(u)' /\ Busy(v)' => task'[u] # task'[v]
    BY <2>1, <2>2, <2>3 DEF OnePlacePerTask, Busy
  <2>5. UNCHANGED <<submitted, finished>>
    BY <1>4 DEF Take, history
  <2> QED BY <2>1, <2>4, <2>5 DEF OnePlacePerTask, NoDuplicates, Busy
<1>5. ASSUME NEW w \in Workers, TaskSucceeds(w) \/ SetHasError(w)
      PROVE  OnePlacePerTask'
  <2>1. /\ Busy(w)
        /\ pc' = [pc EXCEPT ![w] = "lock"] /\ task' = [task EXCEPT ![w] = NoTask]
        /\ finished' = finished \cup {task[w]}
        /\ UNCHANGED <<m_queue, submitted>>
    BY <1>5 DEF TaskSucceeds, SetHasError, Busy, poolVars
  <2>2. task[w] \in Held /\ Held' = Held \ {task[w]}
    BY <2>1, EndMoves
  <2>3. \A v \in Workers : v # w => pc'[v] = pc[v] /\ task'[v] = task[v]
    BY <1>0, <2>1
  <2>4. ~Busy(w)'
    BY <1>0, <2>1 DEF Busy
  <2>5. \A u, v \in Workers : u # v /\ Busy(u)' /\ Busy(v)' => task'[u] # task'[v]
    BY <2>3, <2>4 DEF OnePlacePerTask, Busy
  <2>6. QueueSet' = QueueSet
    BY <2>1 DEF QueueSet
  <2> QED BY <2>1, <2>2, <2>5, <2>6 DEF OnePlacePerTask, Busy
<1>6. CASE Enqueue
  <2>1. /\ arg \in Tasks /\ arg \notin submitted /\ m_queue \in Seq(Tasks)
        /\ m_queue' = Append(m_queue, arg) /\ submitted' = submitted \cup {arg}
        /\ UNCHANGED <<task, finished>>
    BY <1>6 DEF Enqueue, TypeInv, TypeOK, Holding
  <2>2. \A w \in Workers : Busy(w)' <=> Busy(w)
    BY <1>0, <1>6 DEF Enqueue, Woken, Busy
  <2>3. Held' = Held
    BY <2>1, <2>2 DEF Held, Busy
  <2>4. NoDuplicates(m_queue) /\ arg \notin Elements(m_queue)
    BY <2>1, QueueSetIsElements DEF OnePlacePerTask, NoDuplicates
  <2>5. QueueSet' = QueueSet \cup {arg} /\ NoDuplicates(m_queue')
    BY <2>1, <2>4, AppendElements DEF QueueSet, Elements
  <2>6. \A u, v \in Workers : u # v /\ Busy(u)' /\ Busy(v)' => task'[u] # task'[v]
    BY <2>1, <2>2 DEF OnePlacePerTask, Busy
  <2> QED BY <2>1, <2>3, <2>5, <2>6 DEF OnePlacePerTask, NoDuplicates, Busy
<1>7. Still => OnePlacePerTask'
  BY NothingMoves
<1> HIDE DEF Still
<1> QED
  BY <1>1, <1>2, <1>3, <1>4, <1>5, <1>6, <1>7 DEF Next, WorkerStep, ClientStep

\* No task that was enqueued is ever lost, duplicated or processed twice.
THEOREM NoTaskLostOrRepeated == Spec => []OnePlacePerTask
BY TypeInvInit, TypeInvStep, PlaceInit, PlaceStep, PTL DEF Spec

-----------------------------------------------------------------------------
(* What the client is told.                                                *)

\* The stop flag follows the client's program counter, a worker leaves only a
\* stopped pool with an empty deque, and the join ends after all of them.
StopInv ==
  /\ m_stop => cpc \in {"join", "read", "returned", "left", "aborted"}
  /\ cpc \in {"join", "read", "returned", "left"} => m_stop
  /\ NoLateTask
  /\ cpc \in {"read", "returned", "left"} => \A w \in Workers : pc[w] = "done"

\* The flag is set exactly when a failed task has ended, and no status is
\* chosen before its time.
FlagInv ==
  /\ m_has_error <=> failed # {}
  /\ cpc \in {"open", "push"} => status = "none"
  /\ cpc = "read" => status = "none"

ClientInv == StopInv /\ FlagInv /\ VerdictExact /\ NoFalseAlarm

LEMMA ClientInit == Init => ClientInv
BY DEF Init, ClientInv, StopInv, NoLateTask, FlagInv, VerdictExact, NoFalseAlarm

LEMMA ClientStepLemma == TypeInv /\ ClientInv /\ [Next]_vars => ClientInv'
<1> SUFFICES ASSUME TypeInv, ClientInv, [Next]_vars PROVE ClientInv'
  OBVIOUS
<1> USE DEF ClientInv, StopInv, NoLateTask, FlagInv, VerdictExact, NoFalseAlarm,
            TypeInv, TypeOK, Exclusion, poolVars, history, Up, StatusOf
<1>1. CASE UNCHANGED vars
  BY <1>1 DEF vars
<1>2. ASSUME NEW w \in Workers, Lock(w) PROVE ClientInv'
  BY <1>2 DEF Lock
<1>3. ASSUME NEW w \in Workers, PredicateHolds(w) PROVE ClientInv'
  BY <1>3 DEF PredicateHolds
<1>4. ASSUME NEW w \in Workers, Sleep(w) PROVE ClientInv'
  BY <1>4 DEF Sleep
<1>5. ASSUME NEW w \in Workers, SpuriousWake(w) PROVE ClientInv'
  BY <1>5 DEF SpuriousWake
<1>6. ASSUME NEW w \in Workers, Exit(w) PROVE ClientInv'
  BY <1>6 DEF Exit
<1>7. ASSUME NEW w \in Workers, Take(w) PROVE ClientInv'
  \* No worker has left: the deque of a pool that a worker has left is empty.
  <2>1. \A v \in Workers : pc[v] # "done"
    BY <1>7 DEF Take
  <2> QED BY <1>7, <2>1 DEF Take
<1>8. ASSUME NEW w \in Workers, TaskSucceeds(w) PROVE ClientInv'
  BY <1>8 DEF TaskSucceeds
<1>9. ASSUME NEW w \in Workers, TaskFails(w) PROVE ClientInv'
  BY <1>9 DEF TaskFails
<1>10. ASSUME NEW w \in Workers, SetHasError(w) PROVE ClientInv'
  BY <1>10 DEF SetHasError
<1>11. ASSUME NEW t \in Tasks, EnqueueLock(t) PROVE ClientInv'
  BY <1>11 DEF EnqueueLock
<1>12. CASE Enqueue
  BY <1>12 DEF Enqueue, Woken
<1>13. CASE CloseElf
  BY <1>13 DEF CloseElf
<1>14. CASE ReadFlagEarly
  BY <1>14 DEF ReadFlagEarly
<1>15. CASE StopLock
  BY <1>15 DEF StopLock
<1>16. CASE Stop
  BY <1>16 DEF Stop, Woken
<1>17. CASE Join
  BY <1>17 DEF Join
<1>18. CASE ReadFlagLate
  BY <1>18 DEF ReadFlagLate
<1>19. CASE Abort
  BY <1>19 DEF Abort
<1>20. CASE Ended
  BY <1>20 DEF Ended, vars
<1> QED
  BY <1>1, <1>2, <1>3, <1>4, <1>5, <1>6, <1>7, <1>8, <1>9, <1>10, <1>11, <1>12,
     <1>13, <1>14, <1>15, <1>16, <1>17, <1>18, <1>19, <1>20
  DEF Next, WorkerStep, ClientStep

LEMMA DoneMeansFinished ==
  ASSUME OnePlacePerTask, NoLateTask, \A w \in Workers : pc[w] = "done"
  PROVE  QueueSet = {} /\ Held = {} /\ finished = submitted
<1>1. m_queue = <<>>
  BY WorkersAssumption DEF WorkersAssumption, NoLateTask
<1>2. QueueSet = {} /\ Held = {}
  BY <1>1 DEF QueueSet, Held
<1> QED BY <1>2 DEF OnePlacePerTask

\* When the client returns, everything it enqueued has been processed.
THEOREM ReturnIsComplete == Spec => []ReturnMeansDone
<1>1. OnePlacePerTask /\ ClientInv => ReturnMeansDone
  BY DoneMeansFinished DEF ClientInv, StopInv, ReturnMeansDone
<1> QED
  BY <1>1, TypeInvInit, TypeInvStep, PlaceInit, PlaceStep, ClientInit, ClientStepLemma,
     PTL DEF Spec

\* The ELF client's verdict is exact: an error if and only if a task failed.
THEOREM VerdictIsExact == Spec => []VerdictExact
<1>1. ClientInv => VerdictExact
  BY DEF ClientInv
<1> QED BY <1>1, TypeInvInit, TypeInvStep, ClientInit, ClientStepLemma, PTL DEF Spec

\* Neither client reports an error that no task had.
THEOREM AlarmsAreTrue == Spec => []NoFalseAlarm
<1>1. ClientInv => NoFalseAlarm
  BY DEF ClientInv
<1> QED BY <1>1, TypeInvInit, TypeInvStep, ClientInit, ClientStepLemma, PTL DEF Spec

\* No worker leaves while a task waits, and no task arrives after that.
THEOREM WorkersLeaveLast == Spec => []NoLateTask
<1>1. ClientInv => NoLateTask
  BY DEF ClientInv, StopInv
<1> QED BY <1>1, TypeInvInit, TypeInvStep, ClientInit, ClientStepLemma, PTL DEF Spec

-----------------------------------------------------------------------------
(* Nobody waits for ever for want of a wakeup or of the mutex.  Termination  *)
(* needs fairness; that there is always somebody to be fair to does not.     *)

\* The predicate of the condition variable is false while a worker sleeps.
NoWakeupLost == \A w \in Workers : pc[w] = "asleep" => m_queue = <<>> /\ ~m_stop

\* Nobody holds the mutex outside a critical section.
MutexGivenBack ==
  /\ \A w \in Workers : m_mutex = w => pc[w] \in {"test", "take"}
  /\ Up /\ m_mutex = Client => cpc \in {"push", "closing"}

WakeInv == NoWakeupLost /\ MutexGivenBack

LEMMA WakeInit == Init => WakeInv
BY DEF Init, WakeInv, NoWakeupLost, MutexGivenBack

LEMMA WakeStep == TypeInv /\ WakeInv /\ [Next]_vars => WakeInv'
<1> SUFFICES ASSUME TypeInv, WakeInv, [Next]_vars PROVE WakeInv'
  OBVIOUS
<1> USE DEF WakeInv, NoWakeupLost, MutexGivenBack, TypeInv, TypeOK, Exclusion,
            poolVars, history, Up
<1>1. CASE UNCHANGED vars
  BY <1>1 DEF vars
<1>2. ASSUME NEW w \in Workers, Lock(w) PROVE WakeInv'
  BY <1>2 DEF Lock
<1>3. ASSUME NEW w \in Workers, PredicateHolds(w) PROVE WakeInv'
  BY <1>3 DEF PredicateHolds
<1>4. ASSUME NEW w \in Workers, Sleep(w) PROVE WakeInv'
  \* The predicate is tested and the worker put to sleep under one lock.
  BY <1>4 DEF Sleep
<1>5. ASSUME NEW w \in Workers, SpuriousWake(w) PROVE WakeInv'
  BY <1>5 DEF SpuriousWake
<1>6. ASSUME NEW w \in Workers, Exit(w) PROVE WakeInv'
  BY <1>6 DEF Exit
<1>7. ASSUME NEW w \in Workers, Take(w) PROVE WakeInv'
  \* Nobody sleeps beside a deque that has a task in it.
  <2>1. \A v \in Workers : pc[v] # "asleep"
    BY <1>7 DEF Take
  <2> QED BY <1>7, <2>1 DEF Take
<1>8. ASSUME NEW w \in Workers, TaskSucceeds(w) PROVE WakeInv'
  BY <1>8 DEF TaskSucceeds
<1>9. ASSUME NEW w \in Workers, TaskFails(w) PROVE WakeInv'
  BY <1>9 DEF TaskFails
<1>10. ASSUME NEW w \in Workers, SetHasError(w) PROVE WakeInv'
  BY <1>10 DEF SetHasError
<1>11. ASSUME NEW t \in Tasks, EnqueueLock(t) PROVE WakeInv'
  BY <1>11 DEF EnqueueLock
<1>12. CASE Enqueue
  BY <1>12 DEF Enqueue, Woken
<1>13. CASE CloseElf
  BY <1>13 DEF CloseElf
<1>14. CASE ReadFlagEarly
  BY <1>14 DEF ReadFlagEarly
<1>15. CASE StopLock
  BY <1>15 DEF StopLock
<1>16. CASE Stop
  BY <1>16 DEF Stop, Woken
<1>17. CASE Join
  BY <1>17 DEF Join
<1>18. CASE ReadFlagLate
  BY <1>18 DEF ReadFlagLate
<1>19. CASE Abort
  BY <1>19 DEF Abort
<1>20. CASE Ended
  BY <1>20 DEF Ended, vars
<1> QED
  BY <1>1, <1>2, <1>3, <1>4, <1>5, <1>6, <1>7, <1>8, <1>9, <1>10, <1>11, <1>12,
     <1>13, <1>14, <1>15, <1>16, <1>17, <1>18, <1>19, <1>20
  DEF Next, WorkerStep, ClientStep

\* A worker never sleeps beside a task or a stopped pool: there is no moment
\* between its test of the predicate and its sleep at which notify_all of
\* enqueue() or stop() could miss it.
THEOREM NoWakeupIsLost == Spec => []NoWakeupLost
<1>1. WakeInv => NoWakeupLost
  BY DEF WakeInv
<1> QED BY <1>1, TypeInvInit, TypeInvStep, WakeInit, WakeStep, PTL DEF Spec

\* The guards of WorkerStep(w) and of ClientStep, spurious wakeups aside.
WorkerCanGoOn(w) ==
  \/ pc[w] \in {"test", "take", "run", "flag"}
  \/ pc[w] = "lock" /\ m_mutex = NoThread
ClientCanGoOn ==
  \/ cpc \in {"open", "push", "closing", "read"}
  \/ cpc = "stop" /\ m_mutex = NoThread
  \/ cpc = "join" /\ \A w \in Workers : pc[w] = "done"

SomeoneCanGoOn ==
  cpc \notin {"returned", "left", "aborted"} =>
    ClientCanGoOn \/ \E w \in Workers : WorkerCanGoOn(w)

\* The threads never all wait for each other: until the client has returned or
\* the process was aborted, one of them can go on without a spurious wakeup.
THEOREM NeverAllWaiting == Spec => []SomeoneCanGoOn
<1>1. ASSUME TypeInv, StopInv, WakeInv PROVE SomeoneCanGoOn
  <2>1. SUFFICES ASSUME cpc \in {"stop", "join"}, ~ClientCanGoOn,
                        \A w \in Workers : ~WorkerCanGoOn(w)
                 PROVE  FALSE
    BY <1>1 DEF TypeInv, TypeOK, SomeoneCanGoOn, ClientCanGoOn
  \* A worker that holds the mutex is at "test" or "take" and could go on.
  <2>2. m_mutex = NoThread
    BY <1>1, <2>1 DEF TypeInv, TypeOK, WakeInv, MutexGivenBack, WorkerCanGoOn, Up
  <2>3. cpc = "join"
    BY <2>1, <2>2 DEF ClientCanGoOn
  \* stop() has woken all sleepers, and those at "lock" find the mutex free.
  <2>4. m_stop
    BY <1>1, <2>3 DEF StopInv
  <2>5. \A w \in Workers : pc[w] = "done"
    BY <1>1, <2>1, <2>2, <2>4
       DEF TypeInv, TypeOK, WakeInv, NoWakeupLost, WorkerCanGoOn
  <2> QED BY <2>1, <2>3, <2>5 DEF ClientCanGoOn
<1>2. ClientInv => StopInv
  BY DEF ClientInv
<1> QED
  BY <1>1, <1>2, TypeInvInit, TypeInvStep, ClientInit, ClientStepLemma, WakeInit, WakeStep,
     PTL DEF Spec

-----------------------------------------------------------------------------
(* The pool implements TaskBatch: each step is a step of the batch or       *)
(* leaves its variables alone.                                              *)

PoolInv == TypeInv /\ OnePlacePerTask /\ ClientInv

LEMMA BatchInit == Init => Batch!Init
<1> SUFFICES ASSUME Init PROVE Batch!Init
  OBVIOUS
<1>1. QueueSet = {} /\ Held = {}
  BY DEF Init, QueueSet, Held
<1> QED BY <1>1 DEF Init, Batch!Init, Phase

LEMMA BatchStep == PoolInv /\ [Next]_vars => [Batch!Next]_(Batch!vars)
<1> SUFFICES ASSUME PoolInv, [Next]_vars PROVE [Batch!Next]_(Batch!vars)
  OBVIOUS
<1> USE DEF PoolInv
<1>0. /\ pc \in [Workers -> WorkerPCs] /\ task \in [Workers -> Tasks \cup {NoTask}]
      /\ cpc \in ClientPCs
  BY DEF TypeInv, TypeOK
<1> DEFINE Still == /\ \A w \in Workers : Busy(w)' <=> Busy(w)
                    /\ UNCHANGED <<m_queue, task, submitted, finished>>
<1>a. Still => UNCHANGED <<QueueSet, Held>>
  BY NothingMoves
<1>1. ASSUME \/ UNCHANGED vars
             \/ Ended \/ CloseElf \/ StopLock \/ (\E t \in Tasks : EnqueueLock(t))
             \/ \E w \in Workers : \/ Lock(w) \/ PredicateHolds(w) \/ Sleep(w)
                                   \/ SpuriousWake(w) \/ Exit(w) \/ TaskFails(w)
      PROVE  UNCHANGED Batch!vars
  <2>1. Still /\ UNCHANGED <<failed, status>>
    BY <1>0, <1>1 DEF vars, poolVars, history, Busy, Ended, CloseElf, StopLock, EnqueueLock,
                Lock, PredicateHolds, Sleep, SpuriousWake, Exit, TaskFails
  <2>2. Phase' = Phase
    BY <1>1 DEF vars, Ended, CloseElf, StopLock, EnqueueLock, Phase,
                Lock, PredicateHolds, Sleep, SpuriousWake, Exit, TaskFails
  <2> QED BY <2>1, <2>2, <1>a DEF Batch!vars
<1>2. ASSUME NEW w \in Workers, Take(w) PROVE Batch!Next
  <2> DEFINE t == m_queue[Len(m_queue)]
  <2>1. /\ t \in QueueSet /\ Held' = Held \cup {t} /\ QueueSet' = QueueSet \ {t}
    BY <1>2, TakeMoves
  <2>2. t \in Tasks
    BY <2>1 DEF TypeInv, TypeOK, OnePlacePerTask
  <2>3. Batch!Up /\ Phase' = Phase /\ UNCHANGED <<finished, failed, status>>
    BY <1>2 DEF Take, Phase, Batch!Up, Up, history
  <2>4. Batch!Start(t)
    BY <2>1, <2>3 DEF Batch!Start
  <2> QED BY <2>2, <2>4 DEF Batch!Next
<1>3. ASSUME NEW w \in Workers, TaskSucceeds(w) \/ SetHasError(w) PROVE Batch!Next
  <2>1. /\ Busy(w) /\ task[w] \in Tasks
        /\ pc' = [pc EXCEPT ![w] = "lock"] /\ task' = [task EXCEPT ![w] = NoTask]
        /\ finished' = finished \cup {task[w]}
        /\ failed' = failed \/ failed' = failed \cup {task[w]}
        /\ UNCHANGED <<m_queue, cpc, status>> /\ Up
    BY <1>3 DEF TaskSucceeds, SetHasError, Busy, poolVars, TypeInv, Holding
  <2>2. task[w] \in Held /\ Held' = Held \ {task[w]}
    BY <2>1, EndMoves
  <2>3. QueueSet' = QueueSet /\ Phase' = Phase /\ Batch!Up
    BY <2>1 DEF QueueSet, Phase, Batch!Up, Up
  <2>4. Batch!Succeed(task[w]) \/ Batch!Fail(task[w])
    BY <2>1, <2>2, <2>3 DEF Batch!Succeed, Batch!Fail
  <2> QED BY <2>1, <2>4 DEF Batch!Next
<1>4. CASE Enqueue
  <2>1. /\ arg \in Tasks /\ arg \notin submitted /\ m_queue \in Seq(Tasks)
        /\ m_queue' = Append(m_queue, arg)
        /\ UNCHANGED <<task, finished, failed, status>>
        /\ cpc = "push" /\ cpc' = "open" /\ status = "none"
    BY <1>4 DEF Enqueue, TypeInv, TypeOK, Holding, ClientInv, FlagInv
  <2>2. \A w \in Workers : Busy(w)' <=> Busy(w)
    BY <1>0, <1>4 DEF Enqueue, Woken, Busy
  <2>3. Held' = Held
    BY <2>1, <2>2 DEF Held, Busy
  <2>4. QueueSet' = QueueSet \cup {arg}
    BY <2>1, AppendElements DEF QueueSet, Elements
  <2>5. arg \notin QueueSet \cup Held \cup finished
    BY <2>1 DEF OnePlacePerTask
  <2>6. Batch!Submit(arg)
    BY <2>1, <2>3, <2>4, <2>5 DEF Batch!Submit, Batch!Submitted, Phase
  <2> QED BY <2>1, <2>6 DEF Batch!Next
<1>5. CASE ReadFlagEarly
  <2>1. Still /\ Phase' = Phase /\ Phase = "open" /\ UNCHANGED failed
    BY <1>0, <1>5 DEF ReadFlagEarly, Busy, poolVars, history, Phase
  <2>2. status = "none" /\ status' \in {"ok", Batch!VerdictOf(failed # {})}
    BY <1>5 DEF ReadFlagEarly, ClientInv, FlagInv, StatusOf, Batch!VerdictOf
  <2>3. Batch!DecideEarly
    BY <2>1, <2>2, <1>a DEF Batch!DecideEarly
  <2> QED BY <2>3 DEF Batch!Next
<1>6. CASE Stop
  <2>1. Still /\ Phase = "open" /\ Phase' = "closed" /\ UNCHANGED <<failed, status>>
    BY <1>0, <1>6 DEF Stop, Woken, Busy, history, Phase
  <2>2. Batch!Close
    BY <2>1, <1>a DEF Batch!Close
  <2> QED BY <2>2 DEF Batch!Next
<1>7. CASE Join
  <2>1. Still /\ Phase = "closed" /\ UNCHANGED <<failed, status>>
    BY <1>0, <1>7 DEF Join, Busy, poolVars, history, Phase
  <2>2. QueueSet = {} /\ Held = {}
    BY <1>7, DoneMeansFinished DEF Join, ClientInv, StopInv
  <2>3. CASE status # "none"
    <3>1. Phase' = "returned"
      BY <1>7, <2>3 DEF Join, Phase
    <3>2. Batch!Return
      BY <2>1, <2>2, <2>3, <3>1, <1>a DEF Batch!Return
    <3> QED BY <3>2 DEF Batch!Next
  <2>4. CASE status = "none"
    <3>1. Phase' = Phase
      BY <1>7, <2>4 DEF Join, Phase
    <3> QED BY <2>1, <3>1, <1>a DEF Batch!vars
  <2> QED BY <2>3, <2>4
<1>8. CASE ReadFlagLate
  <2>1. Still /\ Phase = "closed" /\ Phase' = "returned" /\ UNCHANGED failed
    BY <1>0, <1>8 DEF ReadFlagLate, Busy, poolVars, history, Phase
  <2>2. QueueSet = {} /\ Held = {}
    BY <1>8, DoneMeansFinished DEF ReadFlagLate, ClientInv, StopInv
  <2>3. status = "none" /\ status' = Batch!VerdictOf(failed # {})
    BY <1>8 DEF ReadFlagLate, ClientInv, FlagInv, StatusOf, Batch!VerdictOf
  <2>4. Batch!Return
    BY <2>1, <2>2, <2>3, <1>a DEF Batch!Return
  <2> QED BY <2>4 DEF Batch!Next
<1>9. CASE Abort
  <2>1. Still /\ Phase' = "aborted" /\ UNCHANGED <<failed, status>>
    BY <1>0, <1>9 DEF Abort, Busy, poolVars, history, Phase
  <2>2. Phase \in {"open", "closed"}
    BY <1>9, <1>0 DEF Abort, Phase, ClientInv, StopInv, Up
  <2>3. Batch!Abort
    BY <2>1, <2>2, <1>a DEF Batch!Abort
  <2> QED BY <2>3 DEF Batch!Next
<1> HIDE DEF Still
<1> QED
  BY <1>1, <1>2, <1>3, <1>4, <1>5, <1>6, <1>7, <1>8, <1>9 DEF Next, WorkerStep, ClientStep

\* The pool implements the abstract batch: each task is started once, after it
\* was submitted, and the client's verdict is the one the batch allows.
THEOREM PoolImplementsBatch == Spec => ImplementsBatch
<1>1. Spec => []PoolInv
  BY TypeInvInit, TypeInvStep, PlaceInit, PlaceStep, ClientInit, ClientStepLemma,
     PTL DEF Spec, PoolInv
<1> QED
  BY <1>1, BatchInit, BatchStep, PTL DEF Spec, ImplementsBatch, Batch!Spec
=============================================================================
