------------------------------- MODULE ElfStrip -------------------------------
(***************************************************************************)
(* What the tasks of the ELF pool do to the files of a package             *)
(* (src/native/abnativeelf.cpp: elf_copy_debug_symbols, run by the workers *)
(* of elf_copy_debug_symbols_parallel for abelf_copy_dbg_parallel).        *)
(*                                                                         *)
(* The pool itself is the abstract TaskBatch, which ThreadPool implements: *)
(* a task is the path of a regular file.  A worker opens the path, locks   *)
(* the open file with flock, parses it, lets objcopy save the debug        *)
(* symbols, lets strip remove them, and cleans up.  Each system call that  *)
(* other workers can notice is a step.  The descriptor table is shared by  *)
(* the workers; a child process gets a copy of it (no descriptor is opened *)
(* with O_CLOEXEC) and a flock belongs to the open file, not to the        *)
(* descriptor: it goes when the last copy is closed, or with LOCK_UN       *)
(* through any copy.                                                       *)
(***************************************************************************)
EXTENDS Integers, FiniteSets

CONSTANTS
  Workers,
  Paths,            \* regular files met by the directory iterator
  Inodes,
  InodeOf,          \* hard links: several paths of one inode
  NameOf,           \* the last component of each path
  BuildIdOf,        \* the build-id of each inode, or NoBuildId
  NoBuildId,
  FileChoices,      \* what the files may be: functions from Inodes to records
  FDs,              \* descriptor numbers the process may use
  NoPath,
  StripOnly,        \* option -x
  CheckOnly,        \* option -r
  SaveWithPath      \* option -p

\* "Linked" stands for Executable, Dynamic and KernelObject.
Types == {"Invalid", "LLVM_IR", "Static", "Relocatable", "Linked"}

\* debug: .debug_ sections; short: a section name of fewer than eight letters.
Files == [type : Types, debug : BOOLEAN, short : BOOLEAN]

ASSUME PathsAssumption ==
  /\ NoPath \notin Paths
  /\ InodeOf \in [Paths -> Inodes]
  /\ FileChoices \subseteq [Inodes -> Files]
  /\ FDs \subseteq Nat
  /\ StripOnly \in BOOLEAN /\ CheckOnly \in BOOLEAN /\ SaveWithPath \in BOOLEAN

VARIABLES
  pending, running, finished, failed, phase, verdict,   \* the batch
  file,         \* what each inode is when the filter starts
  stripped,     \* inodes that strip has rewritten
  sym,          \* symbol file -> inodes whose symbols can be read in it
  soDeps,       \* inodes whose dependencies are in m_sodeps
  fdtab,        \* descriptor -> the path it was opened by, or NoPath
  flocked,      \* inode -> the open file that holds its lock, or NoPath
  wpc, wpath, wfd, wret,      \* the worker's place and its locals
  copied,       \* open files held by the child process of each worker
  seen,         \* what objcopy of each worker started to read
  staleUnlock   \* history: a worker gave away a lock of another worker

batchVars == <<pending, running, finished, failed, phase, verdict>>
fileVars == <<stripped, sym, soDeps>>
lockVars == <<fdtab, flocked, staleUnlock>>
workerVars == <<wpc, wpath, wfd, wret, copied, seen>>
vars == <<batchVars, file, fileVars, lockVars, workerVars>>

Batch == INSTANCE TaskBatch WITH Tasks <- Paths

WorkerPCs == {"idle", "open", "lock", "stat", "save", "saving", "strip",
              "stripping", "close", "unlock", "end"}

\* final_path: by build-id, or by the file name alone when there is none.
DestOf(p) ==
  IF SaveWithPath \/ BuildIdOf[InodeOf[p]] = NoBuildId
  THEN <<"name", NameOf[p]>>
  ELSE <<"build-id", BuildIdOf[InodeOf[p]]>>

Dests == {DestOf(p) : p \in Paths}

Up == phase # "aborted"
InodeOfW(w) == InodeOf[wpath[w]]

HasDebugSections(i) == file[i].debug /\ i \notin stripped

\* is_debug_info_present: a short section name, such as .text, is enough.
HasDebugInfo(i) == HasDebugSections(i) \/ file[i].short

Init ==
  /\ Batch!Init
  /\ file \in FileChoices
  /\ stripped = {} /\ soDeps = {}
  /\ sym = [d \in Dests |-> {}]
  /\ fdtab = [f \in FDs |-> NoPath]
  /\ flocked = [i \in Inodes |-> NoPath]
  /\ wpc = [w \in Workers |-> "idle"]
  /\ wpath = [w \in Workers |-> NoPath]
  /\ wfd = [w \in Workers |-> 0]
  /\ wret = [w \in Workers |-> 0]
  /\ copied = [w \in Workers |-> {}]
  /\ seen = [w \in Workers |-> FALSE]
  /\ staleUnlock = FALSE

-----------------------------------------------------------------------------
(* Open files and their locks.                                             *)

Free == {f \in FDs : fdtab[f] = NoPath}
OpenFiles == {fdtab[f] : f \in FDs} \ {NoPath}

\* The locks left when the given open files are the only ones still referred to.
KeepLocks(open) ==
  [i \in Inodes |-> IF flocked[i] \in open THEN flocked[i] ELSE NoPath]

HeldByChildren(children) == UNION {children[w] : w \in Workers}

\* fork copies the descriptor table; the exit of the child drops the copies.
Fork(w) ==
  /\ copied' = [copied EXCEPT ![w] = OpenFiles]
  /\ UNCHANGED lockVars

Reap(w) ==
  /\ copied' = [copied EXCEPT ![w] = {}]
  /\ flocked' = KeepLocks(OpenFiles \cup HeldByChildren(copied'))
  /\ UNCHANGED <<fdtab, staleUnlock>>

Goto(w, l) == wpc' = [wpc EXCEPT ![w] = l]

\* Leave the body of elf_copy_debug_symbols with the value r.
Leave(w, r, l) ==
  /\ Goto(w, l)
  /\ wret' = [wret EXCEPT ![w] = r]

-----------------------------------------------------------------------------
(* One call of elf_copy_debug_symbols.                                     *)

Begin(w) ==
  /\ wpc[w] = "idle"
  /\ \E p \in pending :
       /\ Batch!Start(p)
       /\ wpath' = [wpath EXCEPT ![w] = p]
  /\ Leave(w, 0, "open")
  /\ UNCHANGED <<file, fileVars, lockVars, wfd, copied, seen>>

\* open gives the lowest free number.
Open(w) ==
  /\ Up /\ wpc[w] = "open"
  /\ \E f \in Free :
       /\ \A g \in Free : f <= g
       /\ fdtab' = [fdtab EXCEPT ![f] = wpath[w]]
       /\ wfd' = [wfd EXCEPT ![w] = f]
  /\ Goto(w, "lock")
  /\ UNCHANGED <<batchVars, file, fileVars, flocked, staleUnlock, wpath, wret, copied, seen>>

\* Faulty variant: the result of open is not tested.
OpenUnchecked(w) ==
  /\ Up /\ wpc[w] = "open"
  /\ wfd' = [wfd EXCEPT ![w] = -1]
  /\ Goto(w, "lock")
  /\ UNCHANGED <<batchVars, file, fileVars, lockVars, wpath, wret, copied, seen>>

\* The path is gone (a temporary file of a strip), or no descriptor is left.
OpenFails(w) ==
  /\ Up /\ wpc[w] = "open"
  /\ Leave(w, -1, "end")
  /\ UNCHANGED <<batchVars, file, fileVars, lockVars, wpath, wfd, copied, seen>>

\* Faulty variant: a shared lock.
LockFileShared(w) ==
  /\ Up /\ wpc[w] = "lock"
  /\ flocked' = [flocked EXCEPT ![InodeOfW(w)] = wpath[w]]
  /\ Goto(w, "stat")
  /\ UNCHANGED <<batchVars, file, fileVars, fdtab, staleUnlock, wpath, wfd, wret, copied, seen>>

\* FileLockGuard: flock(LOCK_EX) waits for the open file that has the lock.
LockFile(w) ==
  /\ Up /\ wpc[w] = "lock"
  /\ flocked[InodeOfW(w)] = NoPath
  /\ flocked' = [flocked EXCEPT ![InodeOfW(w)] = wpath[w]]
  /\ Goto(w, "stat")
  /\ UNCHANGED <<batchVars, file, fileVars, fdtab, staleUnlock, wpath, wfd, wret, copied, seen>>

\* Faulty variant: the status of fstat is not handed on.
FstatFailsQuietly(w) ==
  /\ Up /\ wpc[w] = "stat"
  /\ Leave(w, 0, "unlock")
  /\ UNCHANGED <<batchVars, file, fileVars, lockVars, wpath, wfd, copied, seen>>

\* Faulty variant: the early return skips the unlock as well.
FstatFailsLeaks(w) ==
  /\ Up /\ wpc[w] = "stat"
  /\ Leave(w, -1, "end")
  /\ UNCHANGED <<batchVars, file, fileVars, lockVars, wpath, wfd, copied, seen>>

\* The only exit before MappedFile owns the descriptor: it is never closed.
FstatFails(w) ==
  /\ Up /\ wpc[w] = "stat"
  /\ Leave(w, -1, "unlock")
  /\ UNCHANGED <<batchVars, file, fileVars, lockVars, wpath, wfd, copied, seen>>

\* Only ELF files have dependencies (and a soname).
Needed(i) == IF file[i].type \in {"Linked", "Relocatable"} THEN {i} ELSE {}

\* Map and parse the file, note its dependencies, choose what to do with it.
Scan(w) ==
  /\ Up /\ wpc[w] = "stat"
  /\ LET i == InodeOfW(w)
         type == file[i].type
         saves == /\ ~StripOnly /\ HasDebugInfo(i)
                  /\ type \notin {"Static", "Relocatable"}
     IN  /\ soDeps' = soDeps \cup Needed(i)
         /\ IF CheckOnly \/ type = "Invalid" THEN Leave(w, 0, "close")
            ELSE IF type = "LLVM_IR" THEN Leave(w, 1, "close")
            ELSE Leave(w, 0, IF saves THEN "save" ELSE "strip")
  /\ UNCHANGED <<batchVars, file, stripped, sym, lockVars, wpath, wfd, copied, seen>>

\* objcopy --only-keep-debug src final_path
Save(w) ==
  /\ Up /\ wpc[w] = "save"
  /\ Fork(w)
  /\ seen' = [seen EXCEPT ![w] = HasDebugSections(InodeOfW(w))]
  /\ Goto(w, "saving")
  /\ UNCHANGED <<batchVars, file, fileVars, wpath, wfd, wret>>

\* Another worker rewrites the file that objcopy of w reads.
Disturbed(w) ==
  \/ seen[w] # HasDebugSections(InodeOfW(w))
  \/ \E v \in Workers \ {w} : wpc[v] = "stripping" /\ InodeOfW(v) = InodeOfW(w)

SaveEnds(w) ==
  /\ Up /\ wpc[w] = "saving"
  /\ \E kept \in IF Disturbed(w) THEN BOOLEAN ELSE {seen[w]} :
       sym' = [sym EXCEPT ![DestOf(wpath[w])] = IF kept THEN {InodeOfW(w)} ELSE {}]
  /\ Reap(w)
  /\ Goto(w, "strip")
  /\ UNCHANGED <<batchVars, file, stripped, soDeps, wpath, wfd, wret, seen>>

\* Faulty variant: the status of objcopy is not tested.
SaveFailsStrips(w) ==
  /\ Up /\ wpc[w] = "saving"
  /\ sym' = [sym EXCEPT ![DestOf(wpath[w])] = {}]
  /\ Reap(w)
  /\ Leave(w, 0, "strip")
  /\ UNCHANGED <<batchVars, file, stripped, soDeps, wpath, wfd, seen>>

\* objcopy removes what it has written and the file is not stripped.
SaveFails(w) ==
  /\ Up /\ wpc[w] = "saving"
  /\ sym' = [sym EXCEPT ![DestOf(wpath[w])] = {}]
  /\ Reap(w)
  /\ Leave(w, 1, "close")
  /\ UNCHANGED <<batchVars, file, stripped, soDeps, wpath, wfd, seen>>

Strip(w) ==
  /\ Up /\ wpc[w] = "strip"
  /\ Fork(w)
  /\ Goto(w, "stripping")
  /\ UNCHANGED <<batchVars, file, fileVars, wpath, wfd, wret, seen>>

\* strip rewrites the file in place and keeps its inode.
StripEnds(w) ==
  /\ Up /\ wpc[w] = "stripping"
  /\ stripped' = stripped \cup {InodeOfW(w)}
  /\ Reap(w)
  /\ Leave(w, 0, "close")
  /\ UNCHANGED <<batchVars, file, sym, soDeps, wpath, wfd, seen>>

\* Faulty variant: the status of strip is not returned.
StripFailsSilently(w) ==
  /\ Up /\ wpc[w] = "stripping"
  /\ Reap(w)
  /\ Leave(w, 0, "close")
  /\ UNCHANGED <<batchVars, file, fileVars, wpath, wfd, seen>>

StripFails(w) ==
  /\ Up /\ wpc[w] = "stripping"
  /\ Reap(w)
  /\ Leave(w, 1, "close")
  /\ UNCHANGED <<batchVars, file, fileVars, wpath, wfd, seen>>

\* ~MappedFile runs before ~FileLockGuard and closes the descriptor.
Close(w) ==
  /\ Up /\ wpc[w] = "close"
  /\ fdtab' = [fdtab EXCEPT ![wfd[w]] = NoPath]
  /\ flocked' = KeepLocks({fdtab'[f] : f \in FDs} \cup HeldByChildren(copied))
  /\ Goto(w, "unlock")
  /\ UNCHANGED <<batchVars, file, fileVars, staleUnlock, wpath, wfd, wret, copied, seen>>

\* ~FileLockGuard: flock(m_fd, LOCK_UN) on a number that is free by now, or
\* that another worker has got from open in the meantime.
Unlock(w) ==
  /\ Up /\ wpc[w] = "unlock"
  /\ LET o == fdtab[wfd[w]] IN
       /\ flocked' = [i \in Inodes |-> IF flocked[i] = o THEN NoPath ELSE flocked[i]]
       /\ staleUnlock' = (staleUnlock \/ (flocked' # flocked /\ o # wpath[w]))
  /\ Goto(w, "end")
  /\ UNCHANGED <<batchVars, file, fileVars, fdtab, wpath, wfd, wret, copied, seen>>

End(w) ==
  /\ wpc[w] = "end"
  /\ IF wret[w] = 0 THEN Batch!Succeed(wpath[w]) ELSE Batch!Fail(wpath[w])
  /\ wpath' = [wpath EXCEPT ![w] = NoPath]
  /\ Goto(w, "idle")
  /\ UNCHANGED <<file, fileVars, lockVars, wfd, wret, copied, seen>>

-----------------------------------------------------------------------------
(* The client.                                                             *)

ClientStep ==
  /\ (\E p \in Paths : Batch!Submit(p)) \/ Batch!Close \/ Batch!Return
  /\ UNCHANGED <<file, fileVars, lockVars, workerVars>>

\* create_directories or the directory iterator throws.
Abort ==
  /\ Batch!Abort
  /\ UNCHANGED <<file, fileVars, lockVars, workerVars>>

Ended == phase \in {"returned", "aborted"} /\ UNCHANGED vars

WorkerStep(w) ==
  \/ Begin(w) \/ Open(w) \/ OpenFails(w) \/ LockFile(w) \/ FstatFails(w) \/ Scan(w)
  \/ Save(w) \/ SaveEnds(w) \/ SaveFails(w) \/ Strip(w) \/ StripEnds(w) \/ StripFails(w)
  \/ Close(w) \/ Unlock(w) \/ End(w)

Next == (\E w \in Workers : WorkerStep(w)) \/ ClientStep \/ Abort \/ Ended

Spec == Init /\ [][Next]_vars

\* Every worker goes on, objcopy and strip come to an end, and a free lock is
\* given to a worker that waits for it.
FairSpec ==
  /\ Spec
  /\ \A w \in Workers : WF_vars(WorkerStep(w))
  /\ WF_vars(ClientStep)

\* elf_copy_debug_symbols_parallel returns 0 or 1; the builtin asks for < 0.
Ret == IF verdict = "error" THEN 1 ELSE 0
BuiltinStatus == IF Ret < 0 THEN 10 ELSE 0

-----------------------------------------------------------------------------
(* What should hold.                                                       *)

TypeOK ==
  /\ Batch!Submitted \subseteq Paths
  /\ failed \subseteq finished
  /\ file \in [Inodes -> Files]
  /\ stripped \subseteq Inodes /\ soDeps \subseteq Inodes
  /\ sym \in [Dests -> SUBSET Inodes]
  /\ fdtab \in [FDs -> Paths \cup {NoPath}]
  /\ flocked \in [Inodes -> Paths \cup {NoPath}]
  /\ wpc \in [Workers -> WorkerPCs]
  /\ wpath \in [Workers -> Paths \cup {NoPath}]
  /\ wfd \in [Workers -> FDs \cup {0}]
  /\ wret \in [Workers -> {-1, 0, 1}]
  /\ copied \in [Workers -> SUBSET Paths]
  /\ seen \in [Workers -> BOOLEAN] /\ staleUnlock \in BOOLEAN

Inside(w) == wpc[w] \in {"stat", "save", "saving", "strip", "stripping", "close"}

\* Two workers are never between lock and close on hard links of one file,
\* except after a stale unlock: closed descriptors, reused numbers and the
\* copies held by children of other workers give a lock away in no other way.
ExclusiveUnlessStale ==
  ~staleUnlock =>
    \A v, w \in Workers :
      v # w /\ Inside(v) /\ Inside(w) => InodeOfW(v) # InodeOfW(w)

\* A descriptor number is used by one worker at a time until it is closed.
DescriptorsDistinct ==
  \A v, w \in Workers :
    v # w /\ (Inside(v) \/ wpc[v] = "lock") /\ (Inside(w) \/ wpc[w] = "lock")
      => wfd[v] # wfd[w]

\* The debug symbols of a linked file are in its symbol file before strip
\* removes them, and stay there: at no point of any schedule, with tools that
\* fail and a process that dies, are they in neither place.
NoSymbolsLost ==
  ~StripOnly =>
    \A p \in Paths :
      LET i == InodeOf[p] IN
      file[i].type = "Linked" /\ file[i].debug /\ i \in stripped => i \in sym[DestOf(p)]

\* When the batch returns without a failed task, every file that is to be
\* stripped has been stripped.
AllStripped ==
  phase = "returned" /\ failed = {} /\ ~CheckOnly =>
    \A p \in finished :
      file[InodeOf[p]].type \notin {"Invalid", "LLVM_IR"} => InodeOf[p] \in stripped

\* The dependencies handed to the packager are complete unless a file could not
\* be read: a tool that fails, or a lock given away, loses none of them.
DependenciesComplete ==
  phase = "returned" =>
    \A p \in finished \ failed :
      file[InodeOf[p]].type \in {"Linked", "Relocatable"} => InodeOf[p] \in soDeps

\* No schedule of locks, closed descriptors and children keeps the batch from
\* its end.
Termination == <>(phase \in {"returned", "aborted"})

\* Documented at abnativefunctions.cpp:847-851: with status 0, the debug symbols
\* of all files specified have been copied.
SuccessMeansCopied ==
  phase = "returned" /\ failed = {} /\ BuiltinStatus = 0 /\ ~StripOnly /\ ~CheckOnly =>
    \A p \in finished :
      LET i == InodeOf[p] IN
      file[i].type = "Linked" /\ file[i].debug => i \in sym[DestOf(p)]
=============================================================================
