---------------------------- MODULE ElfStripProofs ----------------------------
(***************************************************************************)
(* Proofs about ElfStrip for any number of workers, paths, hard links and  *)
(* descriptors.  A worker that has opened its file and not yet closed it   *)
(* finds its own open file behind its descriptor; so no other worker can   *)
(* close it or release its lock, except by a stale unlock.                 *)
(***************************************************************************)
EXTENDS ElfStrip, TLAPS

USE PathsAssumption DEF PathsAssumption

\* The part of the type invariant the locks depend on.
LockTypes ==
  /\ pending \subseteq Paths /\ running \subseteq Paths
  /\ fdtab \in [FDs -> Paths \cup {NoPath}]
  /\ flocked \in [Inodes -> Paths \cup {NoPath}]
  /\ wpc \in [Workers -> WorkerPCs]
  /\ wpath \in [Workers -> Paths \cup {NoPath}]
  /\ wfd \in [Workers -> FDs \cup {0}]
  /\ staleUnlock \in BOOLEAN

\* Each worker has a running path of its own.
OwnPath ==
  /\ pending \cap running = {} /\ pending \cap finished = {} /\ running \cap finished = {}
  /\ \A w \in Workers : wpc[w] # "idle" => wpath[w] \in running
  /\ \A v, w \in Workers :
       v # w /\ wpc[v] # "idle" /\ wpc[w] # "idle" => wpath[v] # wpath[w]

HasOpen(w) == Inside(w) \/ wpc[w] = "lock"

\* Behind the descriptor of a worker is the file it has opened.
OwnDescriptor ==
  \A w \in Workers : HasOpen(w) => wfd[w] \in FDs /\ fdtab[wfd[w]] = wpath[w]

\* A worker inside holds the lock of its inode.
OwnLock ==
  ~staleUnlock => \A w \in Workers : Inside(w) => flocked[InodeOfW(w)] = wpath[w]

LockInv == LockTypes /\ OwnPath /\ OwnDescriptor /\ OwnLock

-----------------------------------------------------------------------------
LEMMA LockInvInit == Init => LockInv
BY DEF Init, Batch!Init, LockInv, LockTypes, OwnPath, OwnDescriptor, OwnLock, HasOpen,
       Inside, WorkerPCs

\* A step of w inside its own section that leaves descriptors alone and keeps
\* every lock of an open file keeps the invariant.
LEMMA InsideStep ==
  ASSUME LockInv, NEW w \in Workers, NEW l \in WorkerPCs,
         HasOpen(w), l \in {"save", "saving", "strip", "stripping", "close"},
         Inside(w),
         wpc' = [wpc EXCEPT ![w] = l],
         flocked' = flocked \/ \E S : OpenFiles \subseteq S /\ flocked' = KeepLocks(S),
         UNCHANGED <<batchVars, fdtab, wpath, wfd, staleUnlock>>
  PROVE  LockInv'
<1> USE DEF LockInv, LockTypes, batchVars
<1>1. LockTypes'
  BY DEF KeepLocks
<1>2. OwnPath'
  BY DEF OwnPath, Inside
<1>3. \A v \in Workers : (Inside(v)' <=> Inside(v)) /\ (HasOpen(v)' <=> HasOpen(v))
  BY DEF Inside, HasOpen
<1>4. OwnDescriptor'
  BY <1>3 DEF OwnDescriptor
<1>5. ASSUME ~staleUnlock, NEW v \in Workers, Inside(v)
      PROVE  flocked'[InodeOfW(v)] = wpath[v]
  <2>1. wpath[v] \in Paths /\ wpath[v] \in OpenFiles /\ flocked[InodeOfW(v)] = wpath[v]
    BY <1>5 DEF OwnPath, OwnDescriptor, OwnLock, HasOpen, Inside, OpenFiles
  <2>2. InodeOfW(v) \in Inodes
    BY <2>1 DEF InodeOfW
  <2> QED BY <2>1, <2>2 DEF KeepLocks
<1>6. OwnLock'
  BY <1>3, <1>5 DEF OwnLock, InodeOfW
<1> QED BY <1>1, <1>2, <1>4, <1>6

LEMMA LockInvStep == LockInv /\ [Next]_vars => LockInv'
<1> SUFFICES ASSUME LockInv, [Next]_vars PROVE LockInv'
  OBVIOUS
<1> USE DEF LockInv, LockTypes
<1>0. ASSUME NEW w \in Workers
      PROVE  /\ wpc[w] # "idle" => wpath[w] \in Paths
             /\ HasOpen(w) => /\ wpath[w] \in OpenFiles
                              /\ InodeOfW(w) \in Inodes
  BY DEF OwnPath, HasOpen, Inside, OwnDescriptor, OpenFiles, InodeOfW
<1>1. CASE UNCHANGED vars
  BY <1>1 DEF vars, batchVars, lockVars, workerVars, OwnPath, OwnDescriptor, OwnLock,
              HasOpen, Inside, InodeOfW
<1>2. ASSUME NEW w \in Workers, Begin(w) PROVE LockInv'
  <2>1. PICK p \in pending : Batch!Start(p) /\ wpath' = [wpath EXCEPT ![w] = p]
    BY <1>2 DEF Begin
  <2>2. /\ wpc[w] = "idle" /\ wpc' = [wpc EXCEPT ![w] = "open"]
        /\ UNCHANGED <<fdtab, flocked, staleUnlock, wfd>>
    BY <1>2 DEF Begin, Leave, Goto, lockVars
  <2>3. /\ pending' = pending \ {p} /\ running' = running \cup {p} /\ finished' = finished
    BY <2>1 DEF Batch!Start
  <2>4. LockTypes'
    BY <2>1, <2>2, <2>3 DEF WorkerPCs
  <2>5. OwnPath'
    BY <2>1, <2>2, <2>3 DEF OwnPath
  <2>6. \A v \in Workers : /\ HasOpen(v)' => v # w /\ HasOpen(v) /\ wpath'[v] = wpath[v]
                           /\ Inside(v)' => v # w /\ Inside(v)
    BY <2>1, <2>2 DEF HasOpen, Inside
  <2>7. OwnDescriptor'
    BY <2>2, <2>6 DEF OwnDescriptor
  <2>8. OwnLock'
    BY <2>2, <2>6 DEF OwnLock, InodeOfW, HasOpen
  <2> QED BY <2>4, <2>5, <2>7, <2>8
<1>3. ASSUME NEW w \in Workers, Open(w) PROVE LockInv'
  <2>1. PICK f \in Free : /\ fdtab' = [fdtab EXCEPT ![f] = wpath[w]]
                          /\ wfd' = [wfd EXCEPT ![w] = f]
    BY <1>3 DEF Open
  <2>2. /\ f \in FDs /\ fdtab[f] = NoPath
        /\ wpc[w] = "open" /\ wpc' = [wpc EXCEPT ![w] = "lock"]
        /\ UNCHANGED <<pending, running, finished, flocked, staleUnlock, wpath>>
    BY <1>3, <2>1 DEF Open, Goto, batchVars, Free
  <2>3. LockTypes'
    BY <2>1, <2>2 DEF WorkerPCs
  <2>4. OwnPath'
    BY <2>2 DEF OwnPath
  <2>5. ASSUME NEW v \in Workers, v # w, HasOpen(v)
        PROVE  wfd'[v] = wfd[v] /\ wfd[v] # f
    BY <1>0, <2>1, <2>2, <2>5 DEF OwnDescriptor, HasOpen, Inside
  <2>6. \A v \in Workers : v # w => (HasOpen(v)' <=> HasOpen(v)) /\ (Inside(v)' <=> Inside(v))
    BY <2>2 DEF HasOpen, Inside
  <2>7. ~Inside(w)'
    BY <2>2 DEF Inside
  <2>8. OwnDescriptor'
    BY <2>1, <2>2, <2>5, <2>6 DEF OwnDescriptor
  <2>9. OwnLock'
    BY <2>2, <2>6, <2>7 DEF OwnLock, InodeOfW
  <2> QED BY <2>3, <2>4, <2>8, <2>9
<1>4. ASSUME NEW w \in Workers, OpenFails(w) PROVE LockInv'
  BY <1>4 DEF OpenFails, Leave, Goto, batchVars, lockVars, OwnPath, OwnDescriptor, OwnLock,
              HasOpen, Inside, InodeOfW, WorkerPCs
<1>5. ASSUME NEW w \in Workers, LockFile(w) PROVE LockInv'
  <2>1. /\ wpc[w] = "lock" /\ wpc' = [wpc EXCEPT ![w] = "stat"]
        /\ flocked[InodeOfW(w)] = NoPath
        /\ flocked' = [flocked EXCEPT ![InodeOfW(w)] = wpath[w]]
        /\ UNCHANGED <<pending, running, finished, fdtab, staleUnlock, wpath, wfd>>
    BY <1>5 DEF LockFile, Goto, batchVars
  <2>2. wpath[w] \in Paths /\ InodeOfW(w) \in Inodes /\ HasOpen(w)
    BY <1>0, <2>1 DEF HasOpen
  <2>3. LockTypes'
    BY <2>1, <2>2 DEF WorkerPCs
  <2>4. OwnPath'
    BY <2>1 DEF OwnPath
  <2>5. OwnDescriptor'
    BY <2>1 DEF OwnDescriptor, HasOpen, Inside
  <2>6. ASSUME ~staleUnlock, NEW v \in Workers, v # w, Inside(v)
        PROVE  flocked'[InodeOfW(v)] = wpath[v]
    <3>1. flocked[InodeOfW(v)] = wpath[v] /\ wpath[v] \in Paths
      BY <1>0, <2>6 DEF OwnLock, Inside
    <3>2. InodeOfW(v) # InodeOfW(w) /\ InodeOfW(v) \in Inodes
      BY <2>1, <3>1 DEF InodeOfW
    <3> QED BY <2>1, <3>1, <3>2
  <2>7. flocked'[InodeOfW(w)] = wpath[w]
    BY <2>1, <2>2
  <2>8. \A v \in Workers : v # w => (Inside(v)' <=> Inside(v))
    BY <2>1 DEF Inside
  <2>9. OwnLock'
    BY <2>1, <2>6, <2>7, <2>8 DEF OwnLock, InodeOfW
  <2> QED BY <2>3, <2>4, <2>5, <2>9
<1>6. ASSUME NEW w \in Workers, FstatFails(w) PROVE LockInv'
  BY <1>6 DEF FstatFails, Leave, Goto, batchVars, lockVars, OwnPath, OwnDescriptor, OwnLock,
              HasOpen, Inside, InodeOfW, WorkerPCs
<1>7. ASSUME NEW w \in Workers,
             Scan(w) \/ Save(w) \/ SaveEnds(w) \/ SaveFails(w) \/ Strip(w) \/ StripEnds(w)
             \/ StripFails(w)
      PROVE  LockInv'
  <2>1. /\ Inside(w) /\ HasOpen(w)
        /\ UNCHANGED <<batchVars, fdtab, wpath, wfd, staleUnlock>>
    BY <1>7 DEF Scan, Save, SaveEnds, SaveFails, Strip, StripEnds, StripFails, Inside, HasOpen,
                Fork, Reap, lockVars
  <2>2. \E l \in {"save", "saving", "strip", "stripping", "close"} :
           wpc' = [wpc EXCEPT ![w] = l]
    BY <1>7 DEF Scan, Save, SaveEnds, SaveFails, Strip, StripEnds, StripFails, Leave, Goto
  <2>3. flocked' = flocked \/ flocked' = KeepLocks(OpenFiles \cup HeldByChildren(copied'))
    BY <1>7 DEF Scan, Save, SaveEnds, SaveFails, Strip, StripEnds, StripFails, Fork, Reap,
                lockVars
  <2>4. \A l \in {"save", "saving", "strip", "stripping", "close"} : l \in WorkerPCs
    BY DEF WorkerPCs
  <2> HIDE DEF LockInv
  <2> QED BY <2>1, <2>2, <2>3, <2>4, InsideStep
<1>8. ASSUME NEW w \in Workers, Close(w) PROVE LockInv'
  <2>1. /\ wpc[w] = "close" /\ wpc' = [wpc EXCEPT ![w] = "unlock"]
        /\ fdtab' = [fdtab EXCEPT ![wfd[w]] = NoPath]
        /\ flocked' = KeepLocks({fdtab'[f] : f \in FDs} \cup HeldByChildren(copied))
        /\ UNCHANGED <<pending, running, finished, staleUnlock, wpath, wfd>>
    BY <1>8 DEF Close, Goto, batchVars
  <2>2. LockTypes'
    BY <2>1 DEF WorkerPCs, KeepLocks
  <2>3. OwnPath'
    BY <2>1 DEF OwnPath
  <2>4. HasOpen(w) /\ ~HasOpen(w)'
    BY <2>1 DEF HasOpen, Inside
  <2>5. \A v \in Workers : v # w => (HasOpen(v)' <=> HasOpen(v)) /\ (Inside(v)' <=> Inside(v))
    BY <2>1 DEF HasOpen, Inside
  <2>6. ASSUME NEW v \in Workers, v # w, HasOpen(v)
        PROVE  wfd[v] \in FDs /\ fdtab'[wfd[v]] = wpath[v]
    BY <2>1, <2>4, <2>6 DEF OwnDescriptor, OwnPath, HasOpen, Inside
  <2>7. OwnDescriptor'
    BY <2>1, <2>4, <2>5, <2>6 DEF OwnDescriptor
  <2>8. ASSUME ~staleUnlock, NEW v \in Workers, v # w, Inside(v)
        PROVE  flocked'[InodeOfW(v)] = wpath[v]
    <3>1. HasOpen(v) /\ InodeOfW(v) \in Inodes /\ flocked[InodeOfW(v)] = wpath[v]
      BY <1>0, <2>8 DEF HasOpen, OwnLock
    <3>2. wpath[v] \in {fdtab'[f] : f \in FDs}
      BY <2>6, <2>8, <3>1
    <3> QED BY <2>1, <3>1, <3>2 DEF KeepLocks
  <2>9. OwnLock'
    BY <2>1, <2>4, <2>5, <2>8 DEF OwnLock, InodeOfW, HasOpen
  <2> QED BY <2>2, <2>3, <2>7, <2>9
<1>9. ASSUME NEW w \in Workers, Unlock(w) PROVE LockInv'
  <2> DEFINE o == fdtab[wfd[w]]
  <2>1. /\ wpc[w] = "unlock" /\ wpc' = [wpc EXCEPT ![w] = "end"]
        /\ flocked' = [i \in Inodes |-> IF flocked[i] = o THEN NoPath ELSE flocked[i]]
        /\ staleUnlock' = (staleUnlock \/ (flocked' # flocked /\ o # wpath[w]))
        /\ UNCHANGED <<pending, running, finished, fdtab, wpath, wfd>>
    BY <1>9 DEF Unlock, Goto, batchVars
  <2> HIDE DEF o
  <2>2. LockTypes'
    BY <2>1 DEF WorkerPCs
  <2>3. OwnPath'
    BY <2>1 DEF OwnPath
  <2>4. \A v \in Workers : /\ HasOpen(v)' => v # w /\ HasOpen(v)
                           /\ Inside(v)' => v # w /\ Inside(v)
    BY <2>1 DEF HasOpen, Inside
  <2>5. OwnDescriptor'
    BY <2>1, <2>4 DEF OwnDescriptor
  <2>6. ASSUME ~staleUnlock', NEW v \in Workers, v # w, Inside(v)
        PROVE  flocked'[InodeOfW(v)] = wpath[v]
    <3>1. /\ HasOpen(v) /\ InodeOfW(v) \in Inodes /\ wpath[v] \in Paths
          /\ flocked[InodeOfW(v)] = wpath[v]
      BY <1>0, <2>1, <2>6 DEF HasOpen, OwnLock, Inside
    <3>2. wpath[v] # wpath[w]
      BY <2>1, <2>6 DEF OwnPath, Inside
    <3>3. CASE o = wpath[v]
      \* The lock of v would be given away, and that is recorded.
      <4>1. flocked'[InodeOfW(v)] = NoPath
        BY <2>1, <3>1, <3>3
      <4>2. flocked' # flocked /\ o # wpath[w]
        BY <3>1, <3>2, <3>3, <4>1
      <4> QED BY <2>1, <2>6, <4>2
    <3>4. CASE o # wpath[v]
      BY <2>1, <3>1, <3>4
    <3> QED BY <3>3, <3>4
  <2>7. OwnLock'
    BY <2>1, <2>4, <2>6 DEF OwnLock, InodeOfW
  <2> QED BY <2>2, <2>3, <2>5, <2>7
<1>10. ASSUME NEW w \in Workers, End(w) PROVE LockInv'
  <2>1. /\ wpc[w] = "end" /\ wpc' = [wpc EXCEPT ![w] = "idle"]
        /\ wpath' = [wpath EXCEPT ![w] = NoPath]
        /\ UNCHANGED <<fdtab, flocked, staleUnlock, wfd>>
    BY <1>10 DEF End, Goto, lockVars
  <2>2. /\ running' = running \ {wpath[w]} /\ finished' = finished \cup {wpath[w]}
        /\ pending' = pending
    BY <1>10 DEF End, Batch!Succeed, Batch!Fail
  <2>3. LockTypes'
    BY <2>1, <2>2 DEF WorkerPCs
  <2>4. wpath[w] \in running
    BY <2>1 DEF OwnPath
  <2>5. OwnPath'
    BY <2>1, <2>2, <2>4 DEF OwnPath
  <2>6. \A v \in Workers : /\ HasOpen(v)' => v # w /\ HasOpen(v) /\ wpath'[v] = wpath[v]
                           /\ Inside(v)' => v # w /\ Inside(v)
    BY <2>1 DEF HasOpen, Inside
  <2>7. OwnDescriptor'
    BY <2>1, <2>6 DEF OwnDescriptor
  <2>8. OwnLock'
    BY <2>1, <2>6 DEF OwnLock, InodeOfW, HasOpen
  <2> QED BY <2>3, <2>5, <2>7, <2>8
<1>11. CASE ClientStep \/ Abort \/ Ended
  <2>1. /\ UNCHANGED <<fdtab, flocked, staleUnlock, wpc, wpath, wfd>>
        /\ \/ UNCHANGED <<pending, running, finished>>
           \/ \E p \in Paths : /\ p \notin pending \cup running \cup finished
                               /\ pending' = pending \cup {p}
                               /\ UNCHANGED <<running, finished>>
    BY <1>11 DEF ClientStep, Abort, Ended, vars, batchVars, lockVars, workerVars, Batch!Submit,
                 Batch!Submitted, Batch!Close, Batch!Return, Batch!Abort
  <2>2. LockTypes' /\ OwnPath'
    BY <2>1 DEF OwnPath
  <2>3. OwnDescriptor' /\ OwnLock'
    BY <2>1 DEF OwnDescriptor, OwnLock, HasOpen, Inside, InodeOfW
  <2> QED BY <2>2, <2>3
<1> QED
  BY <1>1, <1>2, <1>3, <1>4, <1>5, <1>6, <1>7, <1>8, <1>9, <1>10, <1>11 DEF Next, WorkerStep

\* A descriptor number belongs to one worker until that worker closes it.
THEOREM DescriptorsAreDistinct == Spec => []DescriptorsDistinct
<1>1. LockInv => DescriptorsDistinct
  BY DEF LockInv, OwnPath, OwnDescriptor, HasOpen, Inside, DescriptorsDistinct
<1> QED BY <1>1, LockInvInit, LockInvStep, PTL DEF Spec

\* The file lock excludes workers on hard links of one file, whatever the
\* order of closes, reused numbers and children, up to a stale unlock.
THEOREM LockExcludes == Spec => []ExclusiveUnlessStale
<1>1. LockInv => ExclusiveUnlessStale
  BY DEF LockInv, OwnPath, OwnLock, Inside, ExclusiveUnlessStale
<1> QED BY <1>1, LockInvInit, LockInvStep, PTL DEF Spec

\* A worker inside that has its lock keeps it in every step but the unlock of another.
LockKept ==
  \A w \in Workers :
    Inside(w) /\ Inside(w)' /\ flocked[InodeOfW(w)] = wpath[w] =>
      flocked'[InodeOfW(w)] = wpath[w] \/ \E v \in Workers \ {w} : Unlock(v)

LEMMA LockKeptStep == LockInv /\ [Next]_vars => LockKept
<1> SUFFICES ASSUME LockInv, [Next]_vars,
                    NEW w \in Workers, Inside(w), Inside(w)', flocked[InodeOfW(w)] = wpath[w],
                    \A v \in Workers \ {w} : ~Unlock(v)
             PROVE  flocked'[InodeOfW(w)] = wpath[w]
  BY DEF LockKept
<1> DEFINE i == InodeOfW(w)
<1>1. /\ wfd[w] \in FDs /\ fdtab[wfd[w]] = wpath[w] /\ wpath[w] \in Paths /\ i \in Inodes
      /\ wpath[w] \in OpenFiles
  BY DEF LockInv, LockTypes, OwnPath, OwnDescriptor, HasOpen, Inside, InodeOfW, OpenFiles
<1> HIDE DEF i
<1>2. CASE flocked' = flocked
  BY <1>2 DEF i
<1>3. CASE \E v \in Workers : LockFile(v)
  \* A lock that w has is not free to be given to v.
  <2>1. PICK v \in Workers : LockFile(v)
    BY <1>3
  <2>2. i # InodeOfW(v)
    BY <1>1, <2>1 DEF LockFile, i
  <2> QED
    BY <1>1, <2>1, <2>2 DEF LockFile, LockInv, LockTypes, i
<1>4. CASE \E v \in Workers : SaveEnds(v) \/ SaveFails(v) \/ StripEnds(v) \/ StripFails(v)
  \* The end of a child: the process itself still has the file open.
  <2>1. flocked' = KeepLocks(OpenFiles \cup HeldByChildren(copied'))
    BY <1>4 DEF SaveEnds, SaveFails, StripEnds, StripFails, Reap
  <2> QED
    BY <1>1, <2>1 DEF KeepLocks, i
<1>5. CASE \E v \in Workers : Close(v)
  <2>1. PICK v \in Workers : Close(v)
    BY <1>5
  <2>2. /\ wpc[v] = "close" /\ wpc' = [wpc EXCEPT ![v] = "unlock"]
        /\ fdtab' = [fdtab EXCEPT ![wfd[v]] = NoPath]
        /\ flocked' = KeepLocks({fdtab'[f] : f \in FDs} \cup HeldByChildren(copied))
    BY <2>1 DEF Close, Goto
  <2>3. v # w
    BY <2>2 DEF LockInv, LockTypes, Inside
  <2>4. wfd[v] # wfd[w]
    BY <1>1, <2>2, <2>3 DEF LockInv, OwnPath, OwnDescriptor, HasOpen, Inside
  <2>5. fdtab'[wfd[w]] = wpath[w]
    BY <1>1, <2>2, <2>4 DEF LockInv, LockTypes
  <2> QED
    BY <1>1, <2>2, <2>5 DEF KeepLocks, i
<1>6. CASE \E v \in Workers : Unlock(v)
  <2>1. wpc[w] = "unlock"
    BY <1>6 DEF Unlock
  <2> QED
    BY <2>1 DEF Inside
<1> QED
  BY <1>2, <1>3, <1>4, <1>5, <1>6
  DEF Next, WorkerStep, vars, lockVars, Begin, Open, OpenFails, FstatFails, Scan, Save, Strip, Fork,
      End, ClientStep, Abort, Ended, i

\* Descriptors that are closed, reused or copied to children, and children that end, take no
\* lock away from a worker that still uses it: of all steps only the unlock of another does.
THEOREM OnlyUnlockTakesLocks == Spec => [][LockKept]_vars
BY LockInvInit, LockInvStep, LockKeptStep, PTL DEF Spec

-----------------------------------------------------------------------------
(* Symbols.  Without aliases (no two paths share an inode or a symbol       *)
(* file) the symbols of a file are never lost.  The findings of the         *)
(* violation runs show that both parts of the condition are needed.         *)

NoAliases ==
  \A p, q \in Paths : p # q => InodeOf[p] # InodeOf[q] /\ DestOf(p) # DestOf(q)

Worth(i) == ~StripOnly /\ file[i].type = "Linked" /\ file[i].debug

\* Strip has not ended for this path.
Untouched(p) ==
  /\ p \notin finished
  /\ \A w \in Workers : wpath[w] = p /\ wpc[w] # "idle" =>
       wpc[w] \in {"open", "lock", "stat", "save", "saving", "strip", "stripping"}

\* A path that strip has not reached still has its symbols; a worker about to
\* strip has saved them; and what is stripped is saved.
SymbolInv ==
  /\ stripped \subseteq Inodes /\ sym \in [Dests -> SUBSET Inodes]
  /\ seen \in [Workers -> BOOLEAN]
  /\ \A p \in Paths : Untouched(p) => InodeOf[p] \notin stripped
  /\ \A w \in Workers : wpc[w] = "saving" /\ Worth(InodeOfW(w)) => seen[w] = TRUE
  /\ \A w \in Workers : wpc[w] \in {"strip", "stripping"} /\ Worth(InodeOfW(w))
                          => InodeOfW(w) \in sym[DestOf(wpath[w])]
  /\ \A p \in Paths : Worth(InodeOf[p]) /\ InodeOf[p] \in stripped
                          => InodeOf[p] \in sym[DestOf(p)]

\* is_debug_info_present is true of every file worth saving.
LEMMA WorthIsSeen ==
  ASSUME NEW i \in Inodes, i \notin stripped, Worth(i)
  PROVE  HasDebugSections(i) = TRUE /\ HasDebugInfo(i)
BY DEF Worth, HasDebugSections, HasDebugInfo

LEMMA SymbolInvInit == Init => SymbolInv
BY DEF Init, SymbolInv, Dests

\* A step that touches no file and takes no path back to its beginning.
LEMMA FilesKept ==
  ASSUME SymbolInv,
         UNCHANGED <<file, stripped, sym, seen>>,
         \A p \in Paths : Untouched(p)' => Untouched(p),
         \A w \in Workers : wpc'[w] \in {"saving", "strip", "stripping"}
                              => wpc'[w] = wpc[w] /\ wpath'[w] = wpath[w]
  PROVE  SymbolInv'
BY DEF SymbolInv, Worth, InodeOfW

LEMMA SymbolInvStep ==
  ASSUME NoAliases PROVE LockInv /\ SymbolInv /\ [Next]_vars => SymbolInv'
<1> SUFFICES ASSUME LockInv, SymbolInv, [Next]_vars PROVE SymbolInv'
  OBVIOUS
<1> USE DEF LockInv, LockTypes
<1>a. ASSUME NEW w \in Workers, wpc[w] # "idle"
      PROVE  /\ wpath[w] \in Paths /\ wpath[w] \notin finished
             /\ InodeOfW(w) \in Inodes /\ DestOf(wpath[w]) \in Dests
             /\ \A v \in Workers : v # w /\ wpc[v] # "idle" =>
                  /\ InodeOfW(v) # InodeOfW(w)
                  /\ DestOf(wpath[v]) # DestOf(wpath[w])
  <2>1. wpath[w] \in Paths /\ wpath[w] \notin finished
    BY <1>a DEF OwnPath
  <2>2. InodeOfW(w) \in Inodes /\ DestOf(wpath[w]) \in Dests
    BY <2>1 DEF InodeOfW, Dests
  <2>3. ASSUME NEW v \in Workers, v # w, wpc[v] # "idle"
        PROVE  InodeOfW(v) # InodeOfW(w) /\ DestOf(wpath[v]) # DestOf(wpath[w])
    BY <1>a, <2>3 DEF OwnPath, NoAliases, InodeOfW
  <2> QED BY <2>1, <2>2, <2>3
<1>b. ASSUME NEW w \in Workers,
             wpc[w] \in {"open", "lock", "stat", "save", "saving", "strip", "stripping"}
      PROVE  Untouched(wpath[w]) /\ InodeOfW(w) \notin stripped
  <2>1. Untouched(wpath[w])
    BY <1>a, <1>b DEF Untouched, OwnPath
  <2> QED BY <1>a, <1>b, <2>1 DEF SymbolInv, InodeOfW
<1>1. CASE UNCHANGED vars
  BY <1>1 DEF vars, batchVars, fileVars, workerVars, SymbolInv, Untouched, Worth, InodeOfW
<1>2. ASSUME NEW w \in Workers, Begin(w) PROVE SymbolInv'
  <2>1. PICK p \in pending : Batch!Start(p) /\ wpath' = [wpath EXCEPT ![w] = p]
    BY <1>2 DEF Begin
  <2>2. /\ wpc[w] = "idle" /\ wpc' = [wpc EXCEPT ![w] = "open"] /\ finished' = finished
        /\ UNCHANGED <<file, stripped, sym, seen>>
    BY <1>2, <2>1 DEF Begin, Leave, Goto, fileVars, Batch!Start
  <2>3. \A q \in Paths : Untouched(q)' => Untouched(q)
    BY <2>1, <2>2 DEF Untouched
  <2>4. \A v \in Workers : wpc'[v] \in {"saving", "strip", "stripping"}
                              => wpc'[v] = wpc[v] /\ wpath'[v] = wpath[v]
    BY <2>1, <2>2
  <2> QED BY <2>2, <2>3, <2>4, FilesKept
<1>3. ASSUME NEW w \in Workers,
             \/ Open(w) \/ OpenFails(w) \/ LockFile(w) \/ FstatFails(w)
             \/ Close(w) \/ Unlock(w) \/ StripFails(w)
      PROVE  SymbolInv'
  <2>1. UNCHANGED <<file, stripped, sym, seen, finished, wpath>>
    BY <1>3 DEF Open, OpenFails, LockFile, FstatFails, Close, Unlock, StripFails, batchVars,
                fileVars
  <2>2. /\ wpc[w] # "idle"
        /\ \E l \in {"lock", "stat", "end", "unlock", "close"} : wpc' = [wpc EXCEPT ![w] = l]
        /\ wpc[w] \in {"close", "unlock"} => wpc'[w] \in {"unlock", "end"}
    BY <1>3 DEF Open, OpenFails, LockFile, FstatFails, Close, Unlock, StripFails, Leave, Goto
  <2>3. \A q \in Paths : Untouched(q)' => Untouched(q)
    <3>1. ASSUME NEW q \in Paths, Untouched(q)', NEW v \in Workers, wpath[v] = q,
                 wpc[v] # "idle"
          PROVE  wpc[v] \in {"open", "lock", "stat", "save", "saving", "strip", "stripping"}
      <4>1. CASE v # w
        BY <2>1, <2>2, <3>1, <4>1 DEF Untouched
      <4>2. CASE v = w
        BY <1>3, <2>1, <2>2, <3>1, <4>2 DEF Untouched, Open, OpenFails, LockFile, FstatFails,
                                    Close, Unlock, StripFails
      <4> QED BY <4>1, <4>2
    <3> QED BY <2>1, <3>1 DEF Untouched
  <2>4. \A v \in Workers : wpc'[v] \in {"saving", "strip", "stripping"}
                              => wpc'[v] = wpc[v] /\ wpath'[v] = wpath[v]
    BY <2>1, <2>2
  <2> QED BY <2>1, <2>3, <2>4, FilesKept
<1>4. ASSUME NEW w \in Workers, Scan(w) PROVE SymbolInv'
  <2>1. /\ wpc[w] = "stat" /\ UNCHANGED <<file, stripped, sym, seen, finished, wpath>>
        /\ \E l \in {"save", "strip", "close"} : wpc' = [wpc EXCEPT ![w] = l]
    BY <1>4 DEF Scan, Leave, Goto, batchVars
  <2>2. Worth(InodeOfW(w)) => wpc'[w] # "strip"
    BY <1>4, <1>a, <1>b, <2>1, WorthIsSeen DEF Scan, Leave, Goto, Worth
  <2>3. \A q \in Paths : Untouched(q)' => Untouched(q)
    BY <2>1 DEF Untouched
  <2> QED BY <2>1, <2>2, <2>3 DEF SymbolInv, Worth, InodeOfW
<1>5. ASSUME NEW w \in Workers, Save(w) PROVE SymbolInv'
  <2>1. /\ wpc[w] = "save" /\ wpc' = [wpc EXCEPT ![w] = "saving"]
        /\ seen' = [seen EXCEPT ![w] = HasDebugSections(InodeOfW(w))]
        /\ UNCHANGED <<file, stripped, sym, finished, wpath>>
    BY <1>5 DEF Save, Goto, batchVars, fileVars
  <2>2. HasDebugSections(InodeOfW(w)) \in BOOLEAN
    BY DEF HasDebugSections
  <2>3. Worth(InodeOfW(w)) => HasDebugSections(InodeOfW(w)) = TRUE
    BY <1>a, <1>b, <2>1, WorthIsSeen
  <2>4. seen' \in [Workers -> BOOLEAN]
    BY <2>1, <2>2 DEF SymbolInv
  <2>5. \A q \in Paths : Untouched(q)' => Untouched(q)
    BY <2>1 DEF Untouched
  <2>6. \A v \in Workers : wpc'[v] = "saving" /\ Worth(InodeOfW(v)) => seen'[v] = TRUE
    BY <2>1, <2>3 DEF SymbolInv
  <2> QED BY <2>1, <2>4, <2>5, <2>6 DEF SymbolInv, Worth, InodeOfW
<1>6. ASSUME NEW w \in Workers, SaveEnds(w) \/ SaveFails(w) PROVE SymbolInv'
  <2> DEFINE i == InodeOfW(w)
             d == DestOf(wpath[w])
  <2>1. PICK kept \in BOOLEAN :
          /\ sym' = [sym EXCEPT ![d] = IF kept THEN {i} ELSE {}]
          /\ SaveEnds(w) => IF Disturbed(w) THEN TRUE ELSE kept = seen[w]
    <3>1. CASE SaveEnds(w)
      BY <3>1 DEF SaveEnds, SymbolInv
    <3>2. CASE SaveFails(w) /\ ~SaveEnds(w)
      <4>1. sym' = [sym EXCEPT ![d] = IF FALSE THEN {i} ELSE {}]
        BY <3>2 DEF SaveFails
      <4> QED BY <3>2, <4>1
    <3> QED BY <1>6, <3>1, <3>2
  <2>2. /\ wpc[w] = "saving"
        /\ \E l \in {"strip", "close"} : wpc' = [wpc EXCEPT ![w] = l]
        /\ wpc'[w] = "strip" => SaveEnds(w)
        /\ UNCHANGED <<file, stripped, seen, finished, wpath>>
    BY <1>6 DEF SaveEnds, SaveFails, Leave, Goto, batchVars
  <2>3. /\ wpath[w] \in Paths /\ i \in Inodes /\ d \in Dests /\ i \notin stripped
        /\ \A v \in Workers : v # w /\ wpc[v] # "idle" =>
             InodeOfW(v) # i /\ DestOf(wpath[v]) # d
    BY <1>a, <1>b, <2>2
  <2>4. ~Disturbed(w) \/ ~Worth(i)
    BY <1>a, <2>2, <2>3, WorthIsSeen DEF Disturbed, SymbolInv
  <2>5. wpc'[w] = "strip" /\ Worth(i) => i \in sym'[d]
    BY <2>1, <2>2, <2>3, <2>4 DEF SymbolInv
  <2>6. \A e \in Dests : e # d => sym'[e] = sym[e]
    BY <2>1 DEF SymbolInv
  <2> HIDE DEF i, d
  <2>7. sym' \in [Dests -> SUBSET Inodes]
    BY <2>1, <2>3 DEF SymbolInv
  <2>8. \A q \in Paths : Untouched(q)' => Untouched(q)
    BY <2>2 DEF Untouched
  <2>9. ASSUME NEW q \in Paths, Worth(InodeOf[q]), InodeOf[q] \in stripped
        PROVE  InodeOf[q] \in sym'[DestOf(q)]
    <3>1. q # wpath[w]
      BY <2>3, <2>9 DEF i, InodeOfW
    <3>2. DestOf(q) \in Dests /\ DestOf(q) # d
      BY <2>3, <3>1 DEF NoAliases, Dests, d
    <3> QED BY <2>6, <2>9, <3>2 DEF SymbolInv
  <2>10. ASSUME NEW v \in Workers, wpc'[v] \in {"strip", "stripping"}, Worth(InodeOfW(v))
         PROVE  InodeOfW(v) \in sym'[DestOf(wpath[v])]
    <3>1. CASE v = w
      BY <2>2, <2>5, <2>10, <3>1 DEF i, d
    <3>2. CASE v # w
      BY <1>a, <2>2, <2>3, <2>6, <2>10, <3>2 DEF SymbolInv
    <3> QED BY <3>1, <3>2
  <2>11. \A v \in Workers : wpc'[v] = "saving" => wpc[v] = "saving"
    BY <2>2
  <2> QED BY <2>2, <2>7, <2>8, <2>9, <2>10, <2>11 DEF SymbolInv, Worth, InodeOfW
<1>7. ASSUME NEW w \in Workers, Strip(w) PROVE SymbolInv'
  <2>1. /\ wpc[w] = "strip" /\ wpc' = [wpc EXCEPT ![w] = "stripping"]
        /\ UNCHANGED <<file, stripped, sym, seen, finished, wpath>>
    BY <1>7 DEF Strip, Goto, batchVars, fileVars
  <2>2. \A q \in Paths : Untouched(q)' => Untouched(q)
    BY <2>1 DEF Untouched
  <2> QED BY <2>1, <2>2 DEF SymbolInv, Worth, InodeOfW
<1>8. ASSUME NEW w \in Workers, StripEnds(w) PROVE SymbolInv'
  <2>1. /\ wpc[w] = "stripping" /\ wpc' = [wpc EXCEPT ![w] = "close"]
        /\ stripped' = stripped \cup {InodeOfW(w)}
        /\ UNCHANGED <<file, sym, seen, finished, wpath>>
    BY <1>8 DEF StripEnds, Leave, Goto, batchVars
  <2>2. /\ wpath[w] \in Paths /\ InodeOfW(w) \in Inodes
        /\ Worth(InodeOfW(w)) => InodeOfW(w) \in sym[DestOf(wpath[w])]
    BY <1>a, <2>1 DEF SymbolInv
  <2>3. \A q \in Paths : Untouched(q)' => Untouched(q) /\ q # wpath[w]
    BY <2>1 DEF Untouched
  <2>4. \A q \in Paths : q # wpath[w] => InodeOf[q] # InodeOfW(w)
    BY <2>2 DEF NoAliases, InodeOfW
  <2>5. \A q \in Paths : Untouched(q)' => InodeOf[q] \notin stripped'
    BY <2>1, <2>3, <2>4 DEF SymbolInv
  <2>6. ASSUME NEW q \in Paths, Worth(InodeOf[q]), InodeOf[q] \in stripped'
        PROVE  InodeOf[q] \in sym[DestOf(q)]
    BY <2>1, <2>2, <2>4, <2>6 DEF SymbolInv, InodeOfW
  <2>7. stripped' \subseteq Inodes
    BY <2>1, <2>2 DEF SymbolInv
  <2> QED BY <2>1, <2>5, <2>6, <2>7 DEF SymbolInv, Worth, InodeOfW
<1>9. ASSUME NEW w \in Workers, End(w) PROVE SymbolInv'
  <2>1. /\ wpc[w] = "end" /\ wpc' = [wpc EXCEPT ![w] = "idle"]
        /\ wpath' = [wpath EXCEPT ![w] = NoPath]
        /\ finished' = finished \cup {wpath[w]}
        /\ UNCHANGED <<file, stripped, sym, seen>>
    BY <1>9 DEF End, Goto, fileVars, Batch!Succeed, Batch!Fail
  <2>2. \A q \in Paths : Untouched(q)' => Untouched(q)
    BY <2>1 DEF Untouched
  <2>3. \A v \in Workers : wpc'[v] \in {"saving", "strip", "stripping"}
                              => wpc'[v] = wpc[v] /\ wpath'[v] = wpath[v]
    BY <2>1
  <2> QED BY <2>1, <2>2, <2>3, FilesKept
<1>10. CASE ClientStep \/ Abort \/ Ended
  <2>1. UNCHANGED <<file, stripped, sym, seen, wpc, wpath, finished>>
    BY <1>10 DEF ClientStep, Abort, Ended, vars, batchVars, fileVars, workerVars, Batch!Submit,
                 Batch!Close, Batch!Return, Batch!Abort
  <2> QED BY <2>1, FilesKept DEF Untouched
<1> QED
  BY <1>1, <1>2, <1>3, <1>4, <1>5, <1>6, <1>7, <1>8, <1>9, <1>10 DEF Next, WorkerStep

\* With no hard links and no shared symbol file, debug symbols are never lost:
\* in any schedule, with failing tools, and wherever the process dies.
THEOREM SymbolsAreSafe == ASSUME NoAliases PROVE Spec => []NoSymbolsLost
<1>1. SymbolInv => NoSymbolsLost
  BY DEF SymbolInv, NoSymbolsLost, Worth
<1>2. LockInv /\ SymbolInv /\ [Next]_vars => SymbolInv'
  BY SymbolInvStep
<1> QED
  BY <1>1, <1>2, LockInvInit, LockInvStep, SymbolInvInit, PTL DEF Spec

-----------------------------------------------------------------------------
(* Types, and what a task that has ended well has done.                     *)

LEMMA TypeInit == Init => TypeOK
BY DEF Init, TypeOK, Batch!Init, Batch!Submitted, WorkerPCs

LEMMA TypeStep == LockInv /\ TypeOK /\ [Next]_vars => TypeOK'
<1> SUFFICES ASSUME LockInv, TypeOK, [Next]_vars PROVE TypeOK'
  OBVIOUS
<1> USE DEF TypeOK
<1>a. LockTypes'
  BY LockInvStep DEF LockInv
<1>b. ASSUME NEW w \in Workers, wpc[w] # "idle"
      PROVE  wpath[w] \in Paths /\ InodeOfW(w) \in Inodes /\ DestOf(wpath[w]) \in Dests
  BY <1>b DEF LockInv, LockTypes, OwnPath, InodeOfW, Dests
<1>c. OpenFiles \subseteq Paths
  BY DEF LockInv, LockTypes, OpenFiles
<1>1. CASE UNCHANGED vars
  BY <1>1 DEF vars, batchVars, fileVars, lockVars, workerVars, Batch!Submitted
<1>2. ASSUME NEW w \in Workers, Begin(w) PROVE TypeOK'
  BY <1>a, <1>2 DEF Begin, Leave, Goto, Batch!Start, Batch!Submitted, LockTypes, fileVars,
                    lockVars
<1>3. ASSUME NEW w \in Workers,
             Open(w) \/ OpenFails(w) \/ LockFile(w) \/ FstatFails(w) \/ Close(w) \/ Unlock(w)
      PROVE  TypeOK'
  <2>1. /\ UNCHANGED <<batchVars, file, fileVars, copied, seen>>
        /\ wret' = wret \/ wret' = [wret EXCEPT ![w] = -1]
    BY <1>3 DEF Open, OpenFails, LockFile, FstatFails, Close, Unlock, Leave
  <2> QED
    BY <1>a, <2>1 DEF LockTypes, batchVars, fileVars, Batch!Submitted
<1>4. ASSUME NEW w \in Workers, Scan(w) PROVE TypeOK'
  <2>1. /\ UNCHANGED <<batchVars, file, stripped, sym, copied, seen>>
        /\ wret' = [wret EXCEPT ![w] = 0] \/ wret' = [wret EXCEPT ![w] = 1]
        /\ soDeps' = soDeps \cup Needed(InodeOfW(w)) /\ wpc[w] # "idle"
    BY <1>4 DEF Scan, Leave
  <2>2. Needed(InodeOfW(w)) \subseteq Inodes
    BY <1>b, <2>1 DEF Needed
  <2> QED
    BY <1>a, <2>1, <2>2 DEF LockTypes, batchVars, Batch!Submitted
<1>5. ASSUME NEW w \in Workers, Save(w) \/ Strip(w) PROVE TypeOK'
  <2>1. /\ UNCHANGED <<batchVars, file, fileVars, wret>>
        /\ copied' = [copied EXCEPT ![w] = OpenFiles]
        /\ seen' = seen \/ seen' = [seen EXCEPT ![w] = HasDebugSections(InodeOfW(w))]
    BY <1>5 DEF Save, Strip, Fork
  <2>2. HasDebugSections(InodeOfW(w)) \in BOOLEAN
    BY DEF HasDebugSections
  <2>3. seen' \in [Workers -> BOOLEAN]
    BY <2>1, <2>2
  <2>4. copied' \in [Workers -> SUBSET Paths]
    BY <1>c, <2>1
  <2> QED
    BY <1>a, <2>1, <2>3, <2>4 DEF LockTypes, batchVars, fileVars, Batch!Submitted
<1>6. ASSUME NEW w \in Workers, SaveEnds(w) \/ SaveFails(w) PROVE TypeOK'
  <2>1. /\ UNCHANGED <<batchVars, file, stripped, soDeps, seen>>
        /\ copied' = [copied EXCEPT ![w] = {}] /\ wpc[w] # "idle"
        /\ wret' = wret \/ wret' = [wret EXCEPT ![w] = 1]
    BY <1>6 DEF SaveEnds, SaveFails, Reap, Leave
  <2>2. PICK s \in {{}, {InodeOfW(w)}} : sym' = [sym EXCEPT ![DestOf(wpath[w])] = s]
    BY <1>6 DEF SaveEnds, SaveFails
  <2>3. sym' \in [Dests -> SUBSET Inodes]
    BY <1>b, <2>1, <2>2
  <2> QED
    BY <1>a, <2>1, <2>3 DEF LockTypes, batchVars, Batch!Submitted
<1>7. ASSUME NEW w \in Workers, StripEnds(w) \/ StripFails(w) PROVE TypeOK'
  <2>1. /\ UNCHANGED <<batchVars, file, sym, soDeps, seen>>
        /\ stripped' = stripped \/ stripped' = stripped \cup {InodeOfW(w)}
        /\ copied' = [copied EXCEPT ![w] = {}] /\ wpc[w] # "idle"
        /\ wret' = [wret EXCEPT ![w] = 0] \/ wret' = [wret EXCEPT ![w] = 1]
    BY <1>7 DEF StripEnds, StripFails, Reap, Leave, fileVars
  <2>2. stripped' \subseteq Inodes
    BY <1>b, <2>1
  <2> QED
    BY <1>a, <2>1, <2>2 DEF LockTypes, batchVars, Batch!Submitted
<1>8. ASSUME NEW w \in Workers, End(w) PROVE TypeOK'
  <2>1. /\ UNCHANGED <<file, fileVars, wret, copied, seen>> /\ wpath[w] \in Paths
    BY <1>8, <1>b DEF End
  <2>2. Batch!Submitted' \subseteq Paths /\ failed' \subseteq finished'
    BY <1>8, <2>1 DEF End, Batch!Succeed, Batch!Fail, Batch!Submitted
  <2> QED
    BY <1>a, <2>1, <2>2 DEF LockTypes, fileVars
<1>9. CASE ClientStep \/ Abort \/ Ended
  <2>1. UNCHANGED <<file, fileVars, lockVars, workerVars>>
    BY <1>9 DEF ClientStep, Abort, Ended, vars
  <2>2. Batch!Submitted' \subseteq Paths /\ failed' \subseteq finished'
    BY <1>9 DEF ClientStep, Abort, Ended, vars, batchVars, Batch!Submit, Batch!Submitted,
                Batch!Close, Batch!Return, Batch!Abort
  <2> QED
    BY <1>a, <2>1, <2>2 DEF LockTypes, fileVars, lockVars, workerVars
<1> QED
  BY <1>1, <1>2, <1>3, <1>4, <1>5, <1>6, <1>7, <1>8, <1>9 DEF Next, WorkerStep

\* Descriptors, locks, results and symbol files keep their types, for any number of files
\* and workers.
THEOREM TypeCorrect == Spec => []TypeOK
BY TypeInit, TypeStep, LockInvInit, LockInvStep, PTL DEF Spec

Noted(p) == file[InodeOf[p]].type \in {"Linked", "Relocatable"} => InodeOf[p] \in soDeps
Shorn(p) ==
  CheckOnly \/ file[InodeOf[p]].type \in {"Invalid", "LLVM_IR"} \/ InodeOf[p] \in stripped

\* A worker past the scan has noted the dependencies; one that will return 0 has stripped.
\* Both are never undone, whatever other workers and hard links do.
DoneInv ==
  /\ \A p \in finished \ failed : Noted(p) /\ Shorn(p)
  /\ \A w \in Workers :
       /\ wpc[w] \in {"save", "saving", "strip", "stripping", "close"} => Noted(wpath[w])
       /\ wpc[w] \in {"unlock", "end"} /\ wret[w] = 0 => Noted(wpath[w])
       /\ wpc[w] \in {"close", "unlock", "end"} /\ wret[w] = 0 => Shorn(wpath[w])

\* A step of one worker that stays with its file.
LEMMA WorkerKeepsDone ==
  ASSUME DoneInv, TypeOK, NEW w \in Workers, NEW l \in WorkerPCs, NEW r \in {-1, 0, 1},
         wpc' = [wpc EXCEPT ![w] = l], wret' = [wret EXCEPT ![w] = r],
         soDeps \subseteq soDeps', stripped \subseteq stripped',
         UNCHANGED <<file, wpath, finished, failed>>,
         l \in {"save", "saving", "strip", "stripping", "close"} => Noted(wpath[w])',
         l \in {"unlock", "end"} /\ r = 0 => Noted(wpath[w])',
         l \in {"close", "unlock", "end"} /\ r = 0 => Shorn(wpath[w])'
  PROVE  DoneInv'
<1>1. \A p : (Noted(p) => Noted(p)') /\ (Shorn(p) => Shorn(p)')
  BY DEF Noted, Shorn
<1>2. \A p \in finished' \ failed' : Noted(p)' /\ Shorn(p)'
  BY <1>1 DEF DoneInv
<1>3. ASSUME NEW v \in Workers
      PROVE  /\ wpc'[v] \in {"save", "saving", "strip", "stripping", "close"} => Noted(wpath[v])'
             /\ wpc'[v] \in {"unlock", "end"} /\ wret'[v] = 0 => Noted(wpath[v])'
             /\ wpc'[v] \in {"close", "unlock", "end"} /\ wret'[v] = 0 => Shorn(wpath[v])'
  <2>1. CASE v = w
    BY <2>1 DEF TypeOK
  <2>2. CASE v # w
    <3>1. wpc'[v] = wpc[v] /\ wret'[v] = wret[v] /\ wpath'[v] = wpath[v]
      BY <2>2 DEF TypeOK
    <3> QED
      BY <1>1, <3>1 DEF DoneInv, Noted, Shorn
  <2> QED
    BY <2>1, <2>2
<1> QED
  BY <1>2, <1>3 DEF DoneInv

LEMMA DoneStep == LockInv /\ TypeOK /\ DoneInv /\ [Next]_vars => DoneInv'
<1> SUFFICES ASSUME LockInv, TypeOK, DoneInv, [Next]_vars PROVE DoneInv'
  OBVIOUS
<1>a. \A l \in {"open", "lock", "stat", "save", "saving", "strip", "stripping", "close", "unlock",
               "end"} : l \in WorkerPCs
  BY DEF WorkerPCs
<1>b. wpc \in [Workers -> WorkerPCs] /\ wret \in [Workers -> {-1, 0, 1}]
  BY DEF TypeOK
<1>1. CASE UNCHANGED vars
  BY <1>1 DEF vars, batchVars, fileVars, workerVars, DoneInv, Noted, Shorn
<1>2. ASSUME NEW w \in Workers, Begin(w) PROVE DoneInv'
  <2>1. PICK p \in pending : wpath' = [wpath EXCEPT ![w] = p]
    BY <1>2 DEF Begin
  <2>2. /\ wpc' = [wpc EXCEPT ![w] = "open"] /\ wret' = [wret EXCEPT ![w] = 0]
        /\ UNCHANGED <<file, stripped, soDeps, finished, failed>>
    BY <1>2 DEF Begin, Leave, Goto, Batch!Start, fileVars
  <2>3. \A v \in Workers : wpc'[v] # "open" =>
           wpc'[v] = wpc[v] /\ wret'[v] = wret[v] /\ wpath'[v] = wpath[v]
    BY <1>b, <2>1, <2>2 DEF TypeOK
  <2> QED
    BY <2>2, <2>3 DEF DoneInv, Noted, Shorn
<1>3. ASSUME NEW w \in Workers, Open(w) \/ LockFile(w) PROVE DoneInv'
  <2>1. \E l \in {"lock", "stat"} : wpc' = [wpc EXCEPT ![w] = l]
    BY <1>3 DEF Open, LockFile, Goto
  <2>2. wret' = [wret EXCEPT ![w] = wret[w]] /\ wret[w] \in {-1, 0, 1}
    BY <1>3, <1>b DEF Open, LockFile
  <2>3. UNCHANGED <<file, stripped, soDeps, wpath, finished, failed>>
    BY <1>3 DEF Open, LockFile, batchVars, fileVars
  <2> QED
    BY <1>a, <2>1, <2>2, <2>3, WorkerKeepsDone
<1>4. ASSUME NEW w \in Workers, OpenFails(w) \/ FstatFails(w) PROVE DoneInv'
  <2>1. \E l \in {"unlock", "end"} : wpc' = [wpc EXCEPT ![w] = l]
    BY <1>4 DEF OpenFails, FstatFails, Leave, Goto
  <2>2. PICK r \in {-1, 0, 1} : r # 0 /\ wret' = [wret EXCEPT ![w] = r]
    BY <1>4 DEF OpenFails, FstatFails, Leave
  <2>3. UNCHANGED <<file, stripped, soDeps, wpath, finished, failed>>
    BY <1>4 DEF OpenFails, FstatFails, batchVars, fileVars
  <2> QED
    BY <1>a, <2>1, <2>2, <2>3, WorkerKeepsDone
<1>5. ASSUME NEW w \in Workers, Scan(w) PROVE DoneInv'
  <2>1. /\ UNCHANGED <<file, stripped, wpath, finished, failed>>
        /\ soDeps' = soDeps \cup Needed(InodeOfW(w))
    BY <1>5 DEF Scan, batchVars
  <2>2. Noted(wpath[w])'
    BY <2>1 DEF Noted, Needed, InodeOfW
  <2>3. PICK l \in {"save", "strip", "close"}, r \in {0, 1} :
          /\ wpc' = [wpc EXCEPT ![w] = l] /\ wret' = [wret EXCEPT ![w] = r]
          /\ l = "close" /\ r = 0 => CheckOnly \/ file[InodeOfW(w)].type = "Invalid"
    BY <1>5 DEF Scan, Leave, Goto
  <2>4. l = "close" /\ r = 0 => Shorn(wpath[w])'
    BY <2>1, <2>3 DEF Shorn, InodeOfW
  <2> QED
    BY <1>a, <2>1, <2>2, <2>3, <2>4, WorkerKeepsDone
<1>6. ASSUME NEW w \in Workers, Save(w) \/ SaveEnds(w) \/ Strip(w) PROVE DoneInv'
  <2>1. /\ \E l \in {"saving", "strip", "stripping"} : wpc' = [wpc EXCEPT ![w] = l]
        /\ wpc[w] \in {"save", "saving", "strip"}
    BY <1>6 DEF Save, SaveEnds, Strip, Goto
  <2>2. wret' = [wret EXCEPT ![w] = wret[w]] /\ wret[w] \in {-1, 0, 1}
    BY <1>6, <1>b DEF Save, SaveEnds, Strip
  <2>3. UNCHANGED <<file, stripped, soDeps, wpath, finished, failed>>
    BY <1>6 DEF Save, SaveEnds, Strip, batchVars, fileVars
  <2>4. Noted(wpath[w])'
    BY <2>1, <2>3 DEF DoneInv, Noted
  <2> QED
    BY <1>a, <2>1, <2>2, <2>3, <2>4, WorkerKeepsDone
<1>7. ASSUME NEW w \in Workers, SaveFails(w) \/ StripEnds(w) \/ StripFails(w) PROVE DoneInv'
  <2>1. /\ wpc' = [wpc EXCEPT ![w] = "close"] /\ wpc[w] \in {"saving", "stripping"}
        /\ UNCHANGED <<file, soDeps, wpath, finished, failed>>
    BY <1>7 DEF SaveFails, StripEnds, StripFails, Leave, Goto, batchVars, fileVars
  <2>2. PICK r \in {0, 1} :
          wret' = [wret EXCEPT ![w] = r] /\ (r = 0 => stripped' = stripped \cup {InodeOfW(w)})
    BY <1>7 DEF SaveFails, StripEnds, StripFails, Leave
  <2>3. stripped \subseteq stripped'
    BY <1>7 DEF SaveFails, StripEnds, StripFails, fileVars
  <2>4. Noted(wpath[w])' /\ (r = 0 => Shorn(wpath[w])')
    BY <2>1, <2>2 DEF DoneInv, Noted, Shorn, InodeOfW
  <2> QED
    BY <1>a, <2>1, <2>2, <2>3, <2>4, WorkerKeepsDone
<1>8. ASSUME NEW w \in Workers, Close(w) \/ Unlock(w) PROVE DoneInv'
  <2>1. /\ wpc[w] \in {"close", "unlock"}
        /\ \E l \in {"unlock", "end"} : wpc' = [wpc EXCEPT ![w] = l]
        /\ wret' = [wret EXCEPT ![w] = wret[w]] /\ wret[w] \in {-1, 0, 1}
        /\ UNCHANGED <<file, stripped, soDeps, wpath, finished, failed>>
    BY <1>8, <1>b DEF Close, Unlock, Goto, batchVars, fileVars
  <2>2. wret[w] = 0 => Noted(wpath[w]) /\ Shorn(wpath[w])
    BY <2>1 DEF DoneInv
  <2>3. wret[w] = 0 => Noted(wpath[w])' /\ Shorn(wpath[w])'
    BY <2>1, <2>2 DEF Noted, Shorn
  <2> QED
    BY <1>a, <2>1, <2>3, WorkerKeepsDone
<1>9. ASSUME NEW w \in Workers, End(w) PROVE DoneInv'
  <2>1. /\ wpc[w] = "end" /\ wpc' = [wpc EXCEPT ![w] = "idle"]
        /\ wpath' = [wpath EXCEPT ![w] = NoPath]
        /\ UNCHANGED <<file, stripped, soDeps, wret>>
    BY <1>9 DEF End, Goto, fileVars
  <2>2. /\ finished' = finished \cup {wpath[w]}
        /\ failed' = IF wret[w] = 0 THEN failed ELSE failed \cup {wpath[w]}
    BY <1>9 DEF End, Batch!Succeed, Batch!Fail
  <2>3. \A v \in Workers : wpc'[v] # "idle" => wpc'[v] = wpc[v] /\ wpath'[v] = wpath[v]
    BY <1>b, <2>1 DEF TypeOK
  <2> QED
    BY <2>1, <2>2, <2>3 DEF DoneInv, Noted, Shorn
<1>10. CASE ClientStep \/ Abort \/ Ended
  <2>1. UNCHANGED <<file, fileVars, workerVars, finished, failed>>
    BY <1>10 DEF ClientStep, Abort, Ended, vars, batchVars, Batch!Submit, Batch!Close,
                 Batch!Return, Batch!Abort
  <2> QED
    BY <2>1 DEF fileVars, workerVars, DoneInv, Noted, Shorn
<1> QED
  BY <1>1, <1>2, <1>3, <1>4, <1>5, <1>6, <1>7, <1>8, <1>9, <1>10 DEF Next, WorkerStep

LEMMA DoneHolds == Spec => []DoneInv
<1>1. Init => DoneInv
  BY DEF Init, Batch!Init, DoneInv
<1> QED
  BY <1>1, DoneStep, TypeInit, TypeStep, LockInvInit, LockInvStep, PTL DEF Spec

\* A batch that returns without a failed task has stripped all it should: no schedule, and
\* no lock given away, makes a worker return 0 for a file it has not stripped.
THEOREM SuccessMeansStripped == Spec => []AllStripped
<1>1. DoneInv => AllStripped
  BY DEF DoneInv, Shorn, AllStripped
<1> QED
  BY <1>1, DoneHolds, PTL

\* What abnativefunctions.cpp:847-851 documents holds when no two files are one inode or share
\* a symbol file: with status 0 and no failed task, the debug symbols of all linked files have
\* been copied.
THEOREM CopiedWithoutAliases == ASSUME NoAliases PROVE Spec => []SuccessMeansCopied
<1>1. ASSUME TypeOK, AllStripped, NoSymbolsLost PROVE SuccessMeansCopied
  <2>1. SUFFICES ASSUME phase = "returned", failed = {}, ~StripOnly, ~CheckOnly,
                        NEW p \in finished, p \in Paths,
                        file[InodeOf[p]].type = "Linked", file[InodeOf[p]].debug
                 PROVE  InodeOf[p] \in sym[DestOf(p)]
    BY <1>1 DEF SuccessMeansCopied, TypeOK, Batch!Submitted
  <2>2. InodeOf[p] \in stripped
    BY <1>1, <2>1 DEF AllStripped
  <2> QED
    BY <1>1, <2>1, <2>2 DEF NoSymbolsLost
<1>2. Spec => []NoSymbolsLost
  BY SymbolsAreSafe
<1> QED
  BY <1>1, <1>2, TypeCorrect, SuccessMeansStripped, PTL

\* The dependencies of every file whose task did not fail are in the set that the packager
\* reads.
THEOREM DependenciesAreComplete == Spec => []DependenciesComplete
<1>1. DoneInv => DependenciesComplete
  BY DEF DoneInv, Noted, DependenciesComplete
<1> QED
  BY <1>1, DoneHolds, PTL

-----------------------------------------------------------------------------
(* Nobody waits for ever.  Termination needs fairness; that a lock which is  *)
(* waited for is in the hands of a worker that can go on does not.           *)

\* w has a lock to give back, with its descriptor still open.
Holder(w) ==
  \/ Inside(w)
  \/ wpc[w] = "unlock" /\ wfd[w] \in FDs /\ fdtab[wfd[w]] = wpath[w]

\* A lock is held through a descriptor of the process or of a child.
LockOfOpenFile ==
  \A i \in Inodes : flocked[i] # NoPath =>
    flocked[i] \in OpenFiles \/ \E v \in Workers : flocked[i] \in copied[v]

\* While the process has the file open, its worker has yet to unlock it: also a
\* descriptor that is never closed keeps no lock.
HolderAtWork ==
  \A i \in Inodes : flocked[i] \in OpenFiles =>
    \E v \in Workers : wpath[v] = flocked[i] /\ Holder(v)

CopiesInChildren ==
  \A v \in Workers : copied[v] # {} => wpc[v] \in {"saving", "stripping"}

OpenedOnce ==
  \A f, g \in FDs : fdtab[f] = fdtab[g] /\ fdtab[f] # NoPath => f = g

\* Only files of tasks that were started are open or locked.
FilesBegun ==
  /\ OpenFiles \subseteq running \cup finished
  /\ \A i \in Inodes : flocked[i] # NoPath => flocked[i] \in running \cup finished
  /\ \A w \in Workers : wpc[w] = "open" =>
       wpath[w] \notin OpenFiles /\ \A i \in Inodes : flocked[i] # wpath[w]

\* A running task is in the hands of a worker, and the batch is in one of its phases.
RunningAtWork ==
  /\ \A p \in running : \E w \in Workers : wpc[w] # "idle" /\ wpath[w] = p
  /\ phase \in {"open", "closed", "returned", "aborted"}

HoldInv ==
  LockOfOpenFile /\ HolderAtWork /\ CopiesInChildren /\ OpenedOnce /\ FilesBegun /\ RunningAtWork

LEMMA HoldInit == Init => HoldInv
<1> SUFFICES ASSUME Init PROVE HoldInv
  OBVIOUS
<1>1. OpenFiles = {} /\ \A i \in Inodes : flocked[i] = NoPath
  BY DEF Init, OpenFiles
<1> QED
  BY <1>1 DEF Init, Batch!Init, HoldInv, LockOfOpenFile, HolderAtWork, CopiesInChildren, OpenedOnce,
              FilesBegun, RunningAtWork

\* A step of w with its file that opens and closes nothing and takes no lock.
LEMMA AtWork ==
  ASSUME LockInv, TypeOK, HoldInv, NEW w \in Workers, NEW l \in WorkerPCs,
         wpc[w] # "idle", l \notin {"idle", "open"},
         wpc' = [wpc EXCEPT ![w] = l],
         UNCHANGED <<batchVars, fdtab, wpath, wfd>>,
         \A i \in Inodes : flocked'[i] \in {flocked[i], NoPath},
         Holder(w) => Holder(w)',
         LockOfOpenFile', CopiesInChildren'
  PROVE  HoldInv'
<1> USE DEF HoldInv, batchVars
<1>a. wpc \in [Workers -> WorkerPCs]
  BY DEF TypeOK
<1>1. OpenFiles' = OpenFiles
  BY DEF OpenFiles
<1>2. \A v \in Workers : Holder(v) => Holder(v)'
  BY <1>a DEF Holder, Inside
<1>3. HolderAtWork'
  <2>1. SUFFICES ASSUME NEW i \in Inodes, flocked'[i] \in OpenFiles
                 PROVE  \E v \in Workers : wpath[v] = flocked'[i] /\ Holder(v)'
    BY <1>1 DEF HolderAtWork
  <2>2. flocked'[i] = flocked[i]
    BY <2>1 DEF OpenFiles
  <2> QED
    BY <1>2, <2>1, <2>2 DEF HolderAtWork
<1>4. OpenedOnce'
  BY DEF OpenedOnce
<1>5. FilesBegun'
  <2>1. \A v \in Workers : wpc'[v] = "open" => wpc[v] = "open"
    BY <1>a
  <2>2. \A v \in Workers : wpc[v] = "open" => wpath[v] # NoPath
    BY DEF LockInv, LockTypes, OwnPath
  <2> QED
    BY <1>1, <2>1, <2>2 DEF FilesBegun
<1>6. RunningAtWork'
  BY <1>a DEF RunningAtWork
<1> QED
  BY <1>3, <1>4, <1>5, <1>6

LEMMA HoldStep == LockInv /\ TypeOK /\ HoldInv /\ [Next]_vars => HoldInv'
<1> SUFFICES ASSUME LockInv, TypeOK, HoldInv, [Next]_vars PROVE HoldInv'
  OBVIOUS
<1>a. /\ wpc \in [Workers -> WorkerPCs] /\ wpath \in [Workers -> Paths \cup {NoPath}]
      /\ wfd \in [Workers -> FDs \cup {0}] /\ copied \in [Workers -> SUBSET Paths]
      /\ fdtab \in [FDs -> Paths \cup {NoPath}] /\ flocked \in [Inodes -> Paths \cup {NoPath}]
  BY DEF TypeOK
<1>b. \A w \in Workers : wpc[w] # "idle" => wpath[w] \in running /\ wpath[w] \in Paths
  BY DEF LockInv, LockTypes, OwnPath
<1>c. \A l \in {"idle", "open", "lock", "stat", "save", "saving", "strip", "stripping", "close",
                "unlock", "end"} : l \in WorkerPCs
  BY DEF WorkerPCs
<1>1. CASE UNCHANGED vars
  BY <1>1 DEF vars, batchVars, lockVars, workerVars, HoldInv, LockOfOpenFile, HolderAtWork,
              CopiesInChildren, OpenedOnce, FilesBegun, RunningAtWork, Holder, Inside, OpenFiles
<1>2. ASSUME NEW w \in Workers, Begin(w) PROVE HoldInv'
  <2>1. PICK p \in pending : Batch!Start(p) /\ wpath' = [wpath EXCEPT ![w] = p]
    BY <1>2 DEF Begin
  <2>2. /\ wpc[w] = "idle" /\ wpc' = [wpc EXCEPT ![w] = "open"]
        /\ UNCHANGED <<fdtab, flocked, wfd, copied>>
    BY <1>2 DEF Begin, Leave, Goto, lockVars
  <2>3. running' = running \cup {p} /\ finished' = finished /\ phase' = phase
    BY <2>1 DEF Batch!Start
  <2>4. OpenFiles' = OpenFiles
    BY <2>2 DEF OpenFiles
  <2>5. \A v \in Workers : v # w => wpc'[v] = wpc[v] /\ wpath'[v] = wpath[v]
    BY <1>a, <2>1, <2>2
  <2>6. wpc'[w] = "open" /\ wpath'[w] = p
    BY <1>a, <2>1, <2>2
  <2>7. ~Holder(w)
    BY <2>2 DEF Holder, Inside
  <2>8. \A v \in Workers : Holder(v) => v # w /\ Holder(v)'
    BY <2>2, <2>5, <2>7 DEF Holder, Inside
  \* A task that nobody has started has no file open and no lock.
  <2>9. p \notin OpenFiles /\ \A i \in Inodes : flocked[i] # p
    <3>1. p \notin running \cup finished /\ p # NoPath
      BY DEF LockInv, LockTypes, OwnPath
    <3> QED
      BY <3>1 DEF HoldInv, FilesBegun
  <2>10. LockOfOpenFile' /\ OpenedOnce'
    BY <2>2, <2>4 DEF HoldInv, LockOfOpenFile, OpenedOnce
  <2>11. HolderAtWork'
    BY <2>2, <2>4, <2>5, <2>8 DEF HoldInv, HolderAtWork
  <2>12. CopiesInChildren'
    BY <2>2, <2>5 DEF HoldInv, CopiesInChildren
  <2>13. FilesBegun'
    BY <2>2, <2>3, <2>4, <2>5, <2>6, <2>9 DEF HoldInv, FilesBegun
  <2>14. RunningAtWork'
    BY <2>2, <2>3, <2>5, <2>6 DEF HoldInv, RunningAtWork
  <2> QED
    BY <2>10, <2>11, <2>12, <2>13, <2>14 DEF HoldInv
<1>3. ASSUME NEW w \in Workers, Open(w) PROVE HoldInv'
  <2>1. PICK f \in Free : /\ fdtab' = [fdtab EXCEPT ![f] = wpath[w]]
                          /\ wfd' = [wfd EXCEPT ![w] = f]
    BY <1>3 DEF Open
  <2>2. /\ f \in FDs /\ fdtab[f] = NoPath
        /\ wpc[w] = "open" /\ wpc' = [wpc EXCEPT ![w] = "lock"]
        /\ UNCHANGED <<batchVars, flocked, wpath, copied>>
    BY <1>3, <2>1 DEF Open, Goto, Free
  <2>3. wpath[w] \in running /\ wpath[w] \in Paths
    BY <1>b, <2>2
  <2>4. OpenFiles' = OpenFiles \cup {wpath[w]}
    BY <1>a, <2>1, <2>2, <2>3 DEF OpenFiles
  <2>5. wpath[w] \notin OpenFiles /\ \A i \in Inodes : flocked[i] # wpath[w]
    BY <2>2 DEF HoldInv, FilesBegun
  <2>6. \A v \in Workers : v # w => wpc'[v] = wpc[v] /\ wfd'[v] = wfd[v]
    BY <1>a, <2>1, <2>2
  <2>7. wpc'[w] = "lock"
    BY <1>a, <2>2
  <2>8. ASSUME NEW v \in Workers, Holder(v) PROVE Holder(v)'
    <3>1. v # w /\ wpc[v] # "idle"
      BY <2>2, <2>8 DEF Holder, Inside
    <3>2. wpath[v] # NoPath
      BY <1>b, <3>1
    <3>3. CASE Inside(v)
      BY <2>6, <3>1, <3>3 DEF Holder, Inside
    <3>4. CASE ~Inside(v)
      <4>1. wpc[v] = "unlock" /\ wfd[v] \in FDs /\ fdtab[wfd[v]] = wpath[v]
        BY <2>8, <3>4 DEF Holder
      <4>2. fdtab'[wfd[v]] = wpath[v]
        BY <1>a, <2>1, <2>2, <3>2, <4>1
      <4> QED
        BY <2>2, <2>6, <3>1, <4>1, <4>2 DEF Holder
    <3> QED
      BY <3>3, <3>4
  <2>9. LockOfOpenFile'
    BY <2>2, <2>4 DEF HoldInv, LockOfOpenFile
  <2>10. HolderAtWork'
    BY <2>2, <2>4, <2>5, <2>8 DEF HoldInv, HolderAtWork
  <2>11. CopiesInChildren'
    BY <2>2, <2>6, <2>7 DEF HoldInv, CopiesInChildren
  <2>12. OpenedOnce'
    <3>1. \A g \in FDs : g # f => fdtab'[g] = fdtab[g] /\ fdtab[g] # wpath[w]
      BY <1>a, <2>1, <2>3, <2>5 DEF OpenFiles
    <3>2. fdtab'[f] = wpath[w]
      BY <1>a, <2>1, <2>2
    <3> QED
      BY <3>1, <3>2 DEF HoldInv, OpenedOnce
  <2>13. FilesBegun'
    <3>1. \A v \in Workers : v # w /\ wpc[v] = "open" => wpath[v] # wpath[w]
      BY <2>2 DEF LockInv, OwnPath
    <3> QED
      BY <2>2, <2>3, <2>4, <2>6, <2>7, <3>1 DEF HoldInv, FilesBegun, batchVars
  <2>14. RunningAtWork'
    BY <2>2, <2>6, <2>7 DEF HoldInv, RunningAtWork, batchVars
  <2> QED
    BY <2>9, <2>10, <2>11, <2>12, <2>13, <2>14 DEF HoldInv
<1>4. ASSUME NEW w \in Workers, OpenFails(w) \/ FstatFails(w) \/ Scan(w) PROVE HoldInv'
  <2>1. UNCHANGED <<batchVars, fdtab, flocked, wpath, wfd, copied>>
    BY <1>4 DEF OpenFails, FstatFails, Scan, lockVars
  <2>2. PICK l \in {"end", "unlock", "save", "strip", "close"} :
          /\ wpc' = [wpc EXCEPT ![w] = l]
          /\ \/ wpc[w] = "open" /\ l = "end"
             \/ wpc[w] = "stat" /\ l # "end"
    BY <1>4 DEF OpenFails, FstatFails, Scan, Leave, Goto
  <2>3. wpc'[w] = l
    BY <1>a, <2>2
  <2>4. Holder(w) => Holder(w)'
    <3>1. SUFFICES ASSUME wpc[w] = "stat", l # "end" PROVE Holder(w)'
      BY <2>2 DEF Holder, Inside
    \* Also the descriptor of a failed fstat is still the worker's own.
    <3>2. wfd[w] \in FDs /\ fdtab[wfd[w]] = wpath[w]
      BY <3>1 DEF LockInv, OwnDescriptor, HasOpen, Inside
    <3> QED
      BY <2>1, <2>2, <2>3, <3>1, <3>2 DEF Holder, Inside
  <2>5. LockOfOpenFile'
    BY <2>1 DEF HoldInv, LockOfOpenFile, OpenFiles
  <2>6. CopiesInChildren'
    <3>1. copied[w] = {}
      BY <2>2 DEF HoldInv, CopiesInChildren
    <3> QED
      BY <1>a, <2>1, <2>2, <3>1 DEF HoldInv, CopiesInChildren
  <2>7. l \in WorkerPCs /\ l \notin {"idle", "open"} /\ wpc[w] # "idle"
    BY <1>c, <2>2
  <2> QED
    BY <2>1, <2>2, <2>4, <2>5, <2>6, <2>7, AtWork
<1>5. ASSUME NEW w \in Workers, LockFile(w) PROVE HoldInv'
  <2>1. /\ wpc[w] = "lock" /\ wpc' = [wpc EXCEPT ![w] = "stat"]
        /\ flocked' = [flocked EXCEPT ![InodeOfW(w)] = wpath[w]]
        /\ UNCHANGED <<batchVars, fdtab, wpath, wfd, copied>>
    BY <1>5 DEF LockFile, Goto
  <2>2. wpath[w] \in running /\ wpath[w] \in OpenFiles
    BY <1>b, <2>1 DEF LockInv, OwnDescriptor, HasOpen, OpenFiles
  <2>3. OpenFiles' = OpenFiles
    BY <2>1 DEF OpenFiles
  <2>4. \A i \in Inodes : flocked'[i] \in {flocked[i], wpath[w]}
    BY <1>a, <2>1
  <2>5. wpc'[w] = "stat" /\ \A v \in Workers : v # w => wpc'[v] = wpc[v]
    BY <1>a, <2>1
  <2>6. Holder(w)' /\ \A v \in Workers : Holder(v) => Holder(v)'
    BY <2>1, <2>5 DEF Holder, Inside
  <2>7. LockOfOpenFile'
    BY <2>1, <2>2, <2>3, <2>4 DEF HoldInv, LockOfOpenFile
  <2>8. HolderAtWork'
    BY <2>1, <2>3, <2>4, <2>6 DEF HoldInv, HolderAtWork
  <2>9. CopiesInChildren' /\ OpenedOnce' /\ RunningAtWork'
    BY <2>1, <2>5 DEF HoldInv, CopiesInChildren, OpenedOnce, RunningAtWork, batchVars
  <2>10. FilesBegun'
    <3>1. \A v \in Workers : wpc[v] = "open" => wpath[v] # wpath[w]
      BY <2>1 DEF LockInv, OwnPath
    <3> QED
      BY <2>1, <2>2, <2>3, <2>4, <2>5, <3>1 DEF HoldInv, FilesBegun, batchVars
  <2> QED
    BY <2>7, <2>8, <2>9, <2>10 DEF HoldInv
<1>6. ASSUME NEW w \in Workers, Save(w) \/ Strip(w) PROVE HoldInv'
  <2>1. /\ UNCHANGED <<batchVars, fdtab, flocked, wpath, wfd>>
        /\ copied' = [copied EXCEPT ![w] = OpenFiles]
    BY <1>6 DEF Save, Strip, Fork, lockVars
  <2>2. PICK l \in {"saving", "stripping"} :
          wpc' = [wpc EXCEPT ![w] = l] /\ wpc[w] \in {"save", "strip"}
    BY <1>6 DEF Save, Strip, Goto
  <2>3. wpc'[w] = l /\ Holder(w)'
    BY <1>a, <2>2 DEF Holder, Inside
  <2>4. copied[w] = {}
    BY <2>2 DEF HoldInv, CopiesInChildren
  <2>5. LockOfOpenFile'
    <3>1. \A v \in Workers : copied[v] \subseteq copied'[v]
      BY <1>a, <2>1, <2>4
    <3>2. OpenFiles' = OpenFiles
      BY <2>1 DEF OpenFiles
    <3> QED
      BY <2>1, <3>1, <3>2 DEF HoldInv, LockOfOpenFile
  <2>6. CopiesInChildren'
    BY <1>a, <2>1, <2>2 DEF HoldInv, CopiesInChildren
  <2>7. l \in WorkerPCs /\ l \notin {"idle", "open"} /\ wpc[w] # "idle"
    BY <1>c, <2>2
  <2> QED
    BY <2>1, <2>2, <2>3, <2>5, <2>6, <2>7, AtWork
<1>7. ASSUME NEW w \in Workers, SaveEnds(w) \/ SaveFails(w) \/ StripEnds(w) \/ StripFails(w)
      PROVE  HoldInv'
  <2>1. /\ UNCHANGED <<batchVars, fdtab, wpath, wfd>>
        /\ copied' = [copied EXCEPT ![w] = {}]
        /\ flocked' = KeepLocks(OpenFiles \cup HeldByChildren(copied'))
    BY <1>7 DEF SaveEnds, SaveFails, StripEnds, StripFails, Reap
  <2>2. PICK l \in {"strip", "close"} :
          wpc' = [wpc EXCEPT ![w] = l] /\ wpc[w] \in {"saving", "stripping"}
    BY <1>7 DEF SaveEnds, SaveFails, StripEnds, StripFails, Leave, Goto
  <2>3. wpc'[w] = l /\ Holder(w)'
    BY <1>a, <2>2 DEF Holder, Inside
  <2>4. \A i \in Inodes : /\ flocked'[i] \in {flocked[i], NoPath}
                          /\ flocked'[i] # NoPath =>
                               flocked'[i] \in OpenFiles \cup HeldByChildren(copied')
    BY <2>1 DEF KeepLocks
  <2>5. LockOfOpenFile'
    <3>1. OpenFiles' = OpenFiles
      BY <2>1 DEF OpenFiles
    <3> QED
      BY <2>4, <3>1 DEF LockOfOpenFile, HeldByChildren
  <2>6. CopiesInChildren'
    BY <1>a, <2>1, <2>2 DEF HoldInv, CopiesInChildren
  <2>7. l \in WorkerPCs /\ l \notin {"idle", "open"} /\ wpc[w] # "idle"
    BY <1>c, <2>2
  <2> QED
    BY <2>1, <2>2, <2>3, <2>4, <2>5, <2>6, <2>7, AtWork
<1>8. ASSUME NEW w \in Workers, Close(w) PROVE HoldInv'
  <2> DEFINE f == wfd[w]
  <2>1. /\ wpc[w] = "close" /\ wpc' = [wpc EXCEPT ![w] = "unlock"]
        /\ fdtab' = [fdtab EXCEPT ![f] = NoPath]
        /\ flocked' = KeepLocks({fdtab'[g] : g \in FDs} \cup HeldByChildren(copied))
        /\ UNCHANGED <<batchVars, wpath, wfd, copied>>
    BY <1>8 DEF Close, Goto
  <2>2. f \in FDs /\ fdtab[f] = wpath[w] /\ wpath[w] \in Paths
    BY <1>b, <2>1 DEF LockInv, OwnDescriptor, HasOpen, Inside
  <2> HIDE DEF f
  <2>3. fdtab'[f] = NoPath /\ \A g \in FDs : g # f => fdtab'[g] = fdtab[g] /\ fdtab[g] # wpath[w]
    BY <1>a, <2>1, <2>2 DEF HoldInv, OpenedOnce
  <2>4. OpenFiles' = OpenFiles \ {wpath[w]}
    <3>1. \A x \in OpenFiles' : x \in OpenFiles /\ x # wpath[w]
      BY <2>3 DEF OpenFiles
    <3>2. \A x \in OpenFiles : x # wpath[w] => x \in OpenFiles'
      BY <2>2, <2>3 DEF OpenFiles
    <3> QED
      BY <3>1, <3>2
  <2>5. \A i \in Inodes : /\ flocked'[i] \in {flocked[i], NoPath}
                          /\ flocked'[i] # NoPath =>
                               flocked'[i] \in OpenFiles' \cup HeldByChildren(copied)
    BY <2>1 DEF KeepLocks, OpenFiles
  <2>6. wpc'[w] = "unlock" /\ \A v \in Workers : v # w => wpc'[v] = wpc[v]
    BY <1>a, <2>1
  <2>7. ASSUME NEW v \in Workers, v # w, Holder(v) PROVE Holder(v)'
    <3>1. CASE Inside(v)
      BY <2>6, <2>7, <3>1 DEF Holder, Inside
    <3>2. CASE ~Inside(v)
      <4>1. wpc[v] = "unlock" /\ wfd[v] \in FDs /\ fdtab[wfd[v]] = wpath[v]
        BY <2>7, <3>2 DEF Holder
      <4>2. wpath[v] # wpath[w]
        BY <2>1, <2>7, <4>1 DEF LockInv, OwnPath
      <4>3. fdtab'[wfd[v]] = wpath[v]
        BY <2>2, <2>3, <4>1, <4>2
      <4> QED
        BY <2>1, <2>6, <2>7, <4>1, <4>3 DEF Holder
    <3> QED
      BY <3>1, <3>2
  <2>8. LockOfOpenFile'
    <3>1. \A x \in HeldByChildren(copied) : \E v \in Workers : x \in copied'[v]
      BY <2>1 DEF HeldByChildren
    <3> QED
      BY <2>5, <3>1 DEF LockOfOpenFile
  <2>9. HolderAtWork'
    <3>1. SUFFICES ASSUME NEW i \in Inodes, flocked'[i] \in OpenFiles'
                   PROVE  \E v \in Workers : wpath[v] = flocked'[i] /\ Holder(v)'
      BY <2>1 DEF HolderAtWork
    <3>2. flocked'[i] = flocked[i] /\ flocked[i] \in OpenFiles /\ flocked[i] # wpath[w]
      BY <2>4, <2>5, <3>1 DEF OpenFiles
    <3>3. PICK v \in Workers : wpath[v] = flocked[i] /\ Holder(v)
      BY <3>2 DEF HoldInv, HolderAtWork
    <3> QED
      BY <2>7, <3>2, <3>3
  <2>10. CopiesInChildren'
    BY <2>1, <2>6 DEF HoldInv, CopiesInChildren
  <2>11. OpenedOnce'
    BY <2>3 DEF HoldInv, OpenedOnce
  <2>12. FilesBegun'
    BY <1>b, <2>1, <2>4, <2>5, <2>6 DEF HoldInv, FilesBegun, batchVars
  <2>13. RunningAtWork'
    BY <2>1, <2>6 DEF HoldInv, RunningAtWork, batchVars
  <2> QED
    BY <2>8, <2>9, <2>10, <2>11, <2>12, <2>13 DEF HoldInv
<1>9. ASSUME NEW w \in Workers, Unlock(w) PROVE HoldInv'
  <2> DEFINE o == fdtab[wfd[w]]
  <2>1. /\ wpc[w] = "unlock" /\ wpc' = [wpc EXCEPT ![w] = "end"]
        /\ flocked' = [i \in Inodes |-> IF flocked[i] = o THEN NoPath ELSE flocked[i]]
        /\ UNCHANGED <<batchVars, fdtab, wpath, wfd, copied>>
    BY <1>9 DEF Unlock, Goto
  <2>2. \A i \in Inodes : flocked'[i] \in {flocked[i], NoPath}
    BY <2>1
  <2>3. Holder(w) => o = wpath[w]
    BY <2>1 DEF Holder, Inside
  <2> HIDE DEF o
  <2>4. OpenFiles' = OpenFiles
    BY <2>1 DEF OpenFiles
  <2>5. wpc'[w] = "end" /\ \A v \in Workers : v # w => wpc'[v] = wpc[v]
    BY <1>a, <2>1
  <2>6. \A v \in Workers : v # w /\ Holder(v) => Holder(v)'
    BY <2>1, <2>5 DEF Holder, Inside
  <2>7. LockOfOpenFile'
    BY <2>1, <2>2, <2>4 DEF HoldInv, LockOfOpenFile
  <2>8. HolderAtWork'
    <3>1. SUFFICES ASSUME NEW i \in Inodes, flocked'[i] \in OpenFiles
                   PROVE  \E v \in Workers : wpath[v] = flocked'[i] /\ Holder(v)'
      BY <2>1, <2>4 DEF HolderAtWork
    <3>2. flocked'[i] = flocked[i] /\ flocked[i] \in OpenFiles /\ flocked[i] # o
      BY <2>1, <3>1 DEF OpenFiles
    <3>3. PICK v \in Workers : wpath[v] = flocked[i] /\ Holder(v)
      BY <3>2 DEF HoldInv, HolderAtWork
    \* It is not w, whose lock would be o's.
    <3>4. v # w
      BY <2>3, <3>2, <3>3
    <3> QED
      BY <2>6, <3>2, <3>3, <3>4
  <2>9. CopiesInChildren' /\ OpenedOnce' /\ RunningAtWork'
    BY <2>1, <2>5 DEF HoldInv, CopiesInChildren, OpenedOnce, RunningAtWork, batchVars
  <2>10. FilesBegun'
    BY <1>b, <2>1, <2>2, <2>4, <2>5 DEF HoldInv, FilesBegun, batchVars
  <2> QED
    BY <2>7, <2>8, <2>9, <2>10 DEF HoldInv
<1>10. ASSUME NEW w \in Workers, End(w) PROVE HoldInv'
  <2>1. /\ wpc[w] = "end" /\ wpc' = [wpc EXCEPT ![w] = "idle"]
        /\ wpath' = [wpath EXCEPT ![w] = NoPath]
        /\ UNCHANGED <<fdtab, flocked, wfd, copied>>
    BY <1>10 DEF End, Goto, lockVars
  <2>2. /\ running' = running \ {wpath[w]} /\ finished' = finished \cup {wpath[w]}
        /\ phase' = phase
    BY <1>10 DEF End, Batch!Succeed, Batch!Fail
  <2>3. OpenFiles' = OpenFiles
    BY <2>1 DEF OpenFiles
  <2>4. /\ wpc'[w] = "idle"
        /\ \A v \in Workers : v # w => wpc'[v] = wpc[v] /\ wpath'[v] = wpath[v]
    BY <1>a, <2>1
  <2>5. \A v \in Workers : Holder(v) => v # w /\ Holder(v)'
    BY <2>1, <2>4 DEF Holder, Inside
  <2>6. LockOfOpenFile' /\ OpenedOnce'
    BY <2>1, <2>3 DEF HoldInv, LockOfOpenFile, OpenedOnce
  <2>7. HolderAtWork'
    BY <2>1, <2>3, <2>4, <2>5 DEF HoldInv, HolderAtWork
  <2>8. CopiesInChildren'
    BY <2>1, <2>4 DEF HoldInv, CopiesInChildren
  <2>9. FilesBegun'
    BY <2>1, <2>2, <2>3, <2>4 DEF HoldInv, FilesBegun
  <2>10. RunningAtWork'
    BY <2>1, <2>2, <2>4 DEF HoldInv, RunningAtWork
  <2> QED
    BY <2>6, <2>7, <2>8, <2>9, <2>10 DEF HoldInv
<1>11. CASE ClientStep \/ Abort \/ Ended
  <2>1. UNCHANGED <<fdtab, flocked, wpc, wpath, wfd, copied, running, finished>>
    BY <1>11 DEF ClientStep, Abort, Ended, vars, batchVars, lockVars, workerVars, Batch!Submit,
                 Batch!Close, Batch!Return, Batch!Abort
  <2>2. phase' \in {phase, "closed", "returned", "aborted"}
    BY <1>11 DEF ClientStep, Abort, Ended, vars, batchVars, Batch!Submit, Batch!Close,
                 Batch!Return, Batch!Abort
  <2>3. LockOfOpenFile' /\ HolderAtWork' /\ CopiesInChildren' /\ OpenedOnce' /\ FilesBegun'
    BY <2>1 DEF HoldInv, LockOfOpenFile, HolderAtWork, CopiesInChildren, OpenedOnce, FilesBegun,
                Holder, Inside, OpenFiles
  <2>4. RunningAtWork'
    BY <2>1, <2>2 DEF HoldInv, RunningAtWork
  <2> QED
    BY <2>3, <2>4 DEF HoldInv
<1> QED
  BY <1>1, <1>2, <1>3, <1>4, <1>5, <1>6, <1>7, <1>8, <1>9, <1>10, <1>11 DEF Next, WorkerStep

\* A lock that a worker waits for is going to be given back: whoever opened the file is
\* between its lock and its unlock, or a tool that inherited the file is still running.
LocksAreInHand ==
  \A w \in Workers : wpc[w] = "lock" /\ flocked[InodeOfW(w)] # NoPath =>
    \E v \in Workers : v # w /\ (Inside(v) \/ wpc[v] = "unlock")

LEMMA LockHasHolder ==
  ASSUME HoldInv, NEW i \in Inodes, flocked[i] # NoPath
  PROVE  \E v \in Workers : Inside(v) \/ wpc[v] = "unlock"
<1>1. CASE flocked[i] \in OpenFiles
  BY <1>1 DEF HoldInv, HolderAtWork, Holder
<1>2. CASE flocked[i] \notin OpenFiles
  <2>1. PICK v \in Workers : copied[v] # {}
    BY <1>2 DEF HoldInv, LockOfOpenFile
  <2> QED
    BY <2>1 DEF HoldInv, CopiesInChildren, Inside
<1> QED
  BY <1>1, <1>2

LEMMA HoldHolds == Spec => [](LockInv /\ HoldInv)
BY HoldInit, HoldStep, TypeInit, TypeStep, LockInvInit, LockInvStep, PTL DEF Spec

\* No worker waits for a lock that nobody is going to give back, whatever descriptors were
\* leaked, reused or copied, and whatever stale unlocks there were.
THEOREM LocksComeBack == Spec => []LocksAreInHand
<1>1. ASSUME LockInv, HoldInv PROVE LocksAreInHand
  <2>1. SUFFICES ASSUME NEW w \in Workers, wpc[w] = "lock", flocked[InodeOfW(w)] # NoPath
                 PROVE  \E v \in Workers : v # w /\ (Inside(v) \/ wpc[v] = "unlock")
    BY DEF LocksAreInHand
  <2>2. InodeOfW(w) \in Inodes
    BY <1>1, <2>1 DEF LockInv, LockTypes, OwnPath, InodeOfW
  <2>3. PICK v \in Workers : Inside(v) \/ wpc[v] = "unlock"
    BY <1>1, <2>1, <2>2, LockHasHolder
  <2> QED
    BY <2>1, <2>3 DEF Inside
<1> QED
  BY <1>1, HoldHolds, PTL

\* The guards of WorkerStep(w) and of ClientStep.
WorkerCanGoOn(w) ==
  \/ wpc[w] \notin {"idle", "lock"}
  \/ wpc[w] = "lock" /\ flocked[InodeOfW(w)] = NoPath
  \/ wpc[w] = "idle" /\ pending # {}
ClientCanGoOn == phase = "open" \/ (phase = "closed" /\ pending = {} /\ running = {})

SomeoneCanGoOn ==
  phase \notin {"returned", "aborted"} => ClientCanGoOn \/ \E w \in Workers : WorkerCanGoOn(w)

\* The workers and the client never all wait for each other: until the batch has returned or
\* the process was aborted, one of them can go on.
THEOREM NeverAllWaiting == ASSUME Workers # {} PROVE Spec => []SomeoneCanGoOn
<1>1. ASSUME LockInv, HoldInv PROVE SomeoneCanGoOn
  <2>1. SUFFICES ASSUME phase = "closed", ~ClientCanGoOn PROVE \E w \in Workers : WorkerCanGoOn(w)
    BY <1>1 DEF HoldInv, RunningAtWork, SomeoneCanGoOn, ClientCanGoOn
  <2>2. CASE \E w \in Workers : wpc[w] # "idle"
    <3>1. PICK w \in Workers : wpc[w] # "idle"
      BY <2>2
    <3>2. InodeOfW(w) \in Inodes
      BY <1>1, <3>1 DEF LockInv, LockTypes, OwnPath, InodeOfW
    <3>3. CASE wpc[w] # "lock" \/ flocked[InodeOfW(w)] = NoPath
      BY <3>1, <3>3 DEF WorkerCanGoOn
    <3>4. CASE wpc[w] = "lock" /\ flocked[InodeOfW(w)] # NoPath
      <4>1. PICK v \in Workers : Inside(v) \/ wpc[v] = "unlock"
        BY <1>1, <3>2, <3>4, LockHasHolder
      <4> QED
        BY <4>1 DEF WorkerCanGoOn, Inside
    <3> QED
      BY <3>3, <3>4
  <2>3. CASE \A w \in Workers : wpc[w] = "idle"
    <3>1. running = {}
      BY <1>1, <2>3 DEF HoldInv, RunningAtWork
    <3>2. pending # {}
      BY <2>1, <3>1 DEF ClientCanGoOn
    <3> QED
      BY <2>3, <3>2 DEF WorkerCanGoOn
  <2> QED
    BY <2>2, <2>3
<1> QED
  BY <1>1, HoldHolds, PTL
=============================================================================
