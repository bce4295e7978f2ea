----------------------------- MODULE TableCache -----------------------------
(***************************************************************************)
(* One pruning table and its file in a cache directory that several        *)
(* processes share: cachedPruningTable, loadFromCache, saveToCache and     *)
(* cacheEntryReady of src/pruning_tables.cpp.                              *)
(*                                                                         *)
(* The file is a sequence of cells: a header, then the payload.  Writers   *)
(* all write the same image, each at its own offset of whatever file its   *)
(* descriptor refers to; a cell a writer skips over reads as zero.  Names  *)
(* are links to files: opening "<name>.rpt.tmp" truncates the file another *)
(* process is still writing, and a rename publishes it while both still    *)
(* hold it open.                                                           *)
(***************************************************************************)
EXTENDS Naturals, Sequences

CONSTANTS
    Process,        \* the processes sharing the directory
    Inode,          \* identities of files, numbers; a bound on files in use
    Distance,       \* the exact table: Distance[i] moves from state i to the goal
    Magic,          \* a valid header
    ExternalLock,   \* is the warm-up serialised by a lock (docs/runtime.md)?
    ReadErrors,     \* may opening or reading a file fail though the file is there?
    MaxRuns,        \* bound on process starts
    MaxMachineCrashes,
    None

ASSUME CacheAssumption ==
    /\ Distance \in Seq(Nat) /\ Distance # <<>>
    /\ Magic \in Nat \ {0}
    /\ Inode \subseteq Nat
    /\ None \notin Inode
    /\ None \notin [1 .. Len(Distance) -> Nat]
    /\ ExternalLock \in BOOLEAN /\ ReadErrors \in BOOLEAN
    /\ MaxRuns \in Nat /\ MaxMachineCrashes \in Nat

VARIABLES
    files,      \* files[i]: the cells of file i
    path,       \* the file named <name>.rpt, or None
    tmp,        \* the file named <name>.rpt.tmp, or None
    pc,         \* pc[p]: where process p is in cachedPruningTable
    policy,     \* policy[p]: CachePolicy of the request p serves
    fd,         \* fd[p]: the file p has open
    pos,        \* pos[p]: the next cell p reads or writes
    buffer,     \* buffer[p]: payload cells read so far
    table,      \* table[p]: the table p searches with, None before
    runs,       \* process starts so far
    crashes     \* machine crashes so far

disk  == <<files, path, tmp>>
local == <<policy, fd, pos, buffer, table>>
vars  == <<disk, pc, local, runs, crashes>>

Cells == Len(Distance) + 1
Image == <<Magic>> \o Distance     \* what every writer writes

\* Cell k of f written, with a hole before it when f is shorter than that.
WriteCell(f, k) ==
    [j \in 1 .. (IF k > Len(f) THEN k ELSE Len(f)) |->
        IF j = k THEN Image[k] ELSE IF j <= Len(f) THEN f[j] ELSE 0]

Init ==
    /\ files = [i \in Inode |-> <<>>]
    /\ path = None
    /\ tmp = None
    /\ pc = [p \in Process |-> "idle"]
    /\ policy = [p \in Process |-> "AllowBuild"]
    /\ fd = [p \in Process |-> None]
    /\ pos = [p \in Process |-> 1]
    /\ buffer = [p \in Process |-> <<>>]
    /\ table = [p \in Process |-> None]
    /\ runs = 0
    /\ crashes = 0

Goto(p, l) == pc' = [pc EXCEPT ![p] = l]

Busy(p) == pc[p] \notin {"idle", "finished"}

\* A process starts and asks for the table.  The lock is not the library's: it
\* is the discipline docs/runtime.md asks of deployments.
Begin(p) ==
    /\ pc[p] = "idle"
    /\ runs < MaxRuns
    /\ ExternalLock => \A q \in Process : ~Busy(q)
    /\ runs' = runs + 1
    /\ \E c \in {"AllowBuild", "RequireWarm"} :
          /\ policy' = [policy EXCEPT ![p] = c]
          /\ Goto(p, IF c = "RequireWarm" THEN "check" ELSE "open")
    /\ UNCHANGED <<disk, fd, pos, buffer, table, crashes>>

HeaderValid(i) == Len(files[i]) >= 1 /\ files[i][1] = Magic

EntryReady == path # None /\ HeaderValid(path)

\* cacheEntryReadyAtPath: the header only, the payload is not looked at.
CheckReady(p) ==
    /\ pc[p] = "check"
    /\ \/ EntryReady /\ Goto(p, "open")
       \/ (~EntryReady \/ ReadErrors) /\ Goto(p, "finished")
    /\ UNCHANGED <<disk, local, runs, crashes>>

Open(p) ==
    /\ pc[p] = "open"
    /\ \/ /\ path = None \/ ReadErrors
          /\ Goto(p, "build")
          /\ UNCHANGED <<fd, pos, buffer>>
       \/ /\ path # None
          /\ Goto(p, "read")
          /\ fd' = [fd EXCEPT ![p] = path]
          /\ pos' = [pos EXCEPT ![p] = 1]
          /\ buffer' = [buffer EXCEPT ![p] = <<>>]
    /\ UNCHANGED <<disk, policy, table, runs, crashes>>

Unvisited == 255

(* Slip: the vector starts out as `unvisited' and a short read goes unnoticed. *)
PaddedRead(p) ==
    IF pos[p] <= Len(files[fd[p]]) THEN {files[fd[p]][pos[p]]} ELSE {Unvisited}

\* What a read at the current offset may return: nothing at the end of the file.
ReadCell(p) ==
    IF pos[p] <= Len(files[fd[p]]) THEN {files[fd[p]][pos[p]]} ELSE {}

ReadHeader(p) ==
    /\ pc[p] = "read"
    /\ pos[p] = 1
    /\ \/ HeaderValid(fd[p]) /\ pos' = [pos EXCEPT ![p] = 2] /\ UNCHANGED pc
       \/ (~HeaderValid(fd[p]) \/ ReadErrors) /\ Goto(p, "build") /\ UNCHANGED pos
    /\ UNCHANGED <<disk, policy, fd, buffer, table, runs, crashes>>

ReadPayload(p) ==
    /\ pc[p] = "read"
    /\ pos[p] \in 2 .. Cells
    /\ \E c \in ReadCell(p) : buffer' = [buffer EXCEPT ![p] = Append(@, c)]
    /\ pos' = [pos EXCEPT ![p] = @ + 1]
    /\ UNCHANGED <<disk, pc, policy, fd, table, runs, crashes>>

\* if (!input) return false: the file ends before the payload does, or a read fails.
ReadFails(p) ==
    /\ pc[p] = "read"
    /\ pos[p] \in 2 .. Cells
    /\ ReadCell(p) = {} \/ ReadErrors
    /\ Goto(p, "build")
    /\ UNCHANGED <<disk, local, runs, crashes>>

(* Slip: the end of the payload is off by one. *)
AlmostRead(p) == pos[p] >= Cells

AllRead(p) == pos[p] > Cells

Loaded(p) ==
    /\ pc[p] = "read"
    /\ AllRead(p)
    /\ table' = [table EXCEPT ![p] = buffer[p]]
    /\ Goto(p, "finished")
    /\ UNCHANGED <<disk, policy, fd, pos, buffer, runs, crashes>>

Build(p) ==
    /\ pc[p] = "build"
    /\ table' = [table EXCEPT ![p] = Distance]
    /\ Goto(p, "create")
    /\ UNCHANGED <<disk, policy, fd, pos, buffer, runs, crashes>>

-----------------------------------------------------------------------------
(* saveToCache *)

InUse(i) == i \in {path, tmp} \/ \E p \in Process : fd[p] = i

\* The file a create of a fresh name gets: the first one nobody refers to.
FreshInodes == {i \in Inode : ~InUse(i) /\ \A j \in Inode : ~InUse(j) => i <= j}

\* std::ofstream(temporary, trunc)
Create(p) ==
    /\ pc[p] = "create"
    /\ \E i \in IF tmp = None THEN FreshInodes ELSE {tmp} :
          /\ tmp' = i
          /\ files' = [files EXCEPT ![i] = <<>>]
          /\ fd' = [fd EXCEPT ![p] = i]
    /\ pos' = [pos EXCEPT ![p] = 1]
    /\ Goto(p, "write")
    /\ UNCHANGED <<path, policy, buffer, table, runs, crashes>>

\* The directory or the temporary file cannot be created: no cache, no error.
CreateFails(p) ==
    /\ pc[p] = "create"
    /\ Goto(p, "finished")
    /\ UNCHANGED <<disk, local, runs, crashes>>

Write(p) ==
    /\ pc[p] = "write"
    /\ pos[p] <= Cells
    /\ files' = [files EXCEPT ![fd[p]] = WriteCell(@, pos[p])]
    /\ pos' = [pos EXCEPT ![p] = @ + 1]
    /\ UNCHANGED <<path, tmp, pc, policy, fd, buffer, table, runs, crashes>>

(* Slip: the stream's state is not looked at before the rename. *)
IgnoreFailure == "rename"

AfterFailure == "discard"

\* A write or the close fails (disk full); later writes do nothing.
WriteFails(p) ==
    /\ pc[p] = "write"
    /\ Goto(p, AfterFailure)
    /\ UNCHANGED <<disk, local, runs, crashes>>

Close(p) ==
    /\ pc[p] = "write"
    /\ pos[p] > Cells
    /\ Goto(p, "rename")
    /\ UNCHANGED <<disk, local, runs, crashes>>

(* Slip: the published file is removed instead of the temporary one. *)
DiscardPublished(p) ==
    /\ pc[p] = "discard"
    /\ path' \in {path, None}
    /\ Goto(p, "finished")
    /\ UNCHANGED <<files, tmp, local, runs, crashes>>

\* std::filesystem::remove(temporary): whoever's file has that name by now.  The
\* error is ignored, so the name may stay.
Discard(p) ==
    /\ pc[p] = "discard"
    /\ tmp' \in {tmp, None}
    /\ Goto(p, "finished")
    /\ UNCHANGED <<files, path, local, runs, crashes>>

\* std::filesystem::rename(temporary, path), when it succeeds.
MoveTmp == tmp # None /\ path' = tmp /\ tmp' = None

\* A rename may fail for any reason (access, I/O, a destination in use), and does
\* when another process has taken the temporary name away.
Rename(p) ==
    /\ pc[p] = "rename"
    /\ \/ MoveTmp /\ Goto(p, "finished")
       \/ Goto(p, "unlink") /\ UNCHANGED <<path, tmp>>
    /\ UNCHANGED <<files, local, runs, crashes>>

\* The rename failed, whatever for: remove the destination, ignoring the error,
\* and try again.
Unlink(p) ==
    /\ pc[p] = "unlink"
    /\ path' \in {path, None}
    /\ Goto(p, "rename2")
    /\ UNCHANGED <<files, tmp, local, runs, crashes>>

(* Slip: the second failure is retried as the first was. *)
RetryForever(p) ==
    /\ pc[p] = "rename2"
    /\ \/ MoveTmp /\ Goto(p, "finished")
       \/ Goto(p, "unlink") /\ UNCHANGED <<path, tmp>>
    /\ UNCHANGED <<files, local, runs, crashes>>

\* The second rename may fail too: the table is then under no name but the
\* temporary one, which the next writer truncates.
RenameAgain(p) ==
    /\ pc[p] = "rename2"
    /\ MoveTmp \/ UNCHANGED <<path, tmp>>
    /\ Goto(p, "finished")
    /\ UNCHANGED <<files, local, runs, crashes>>

-----------------------------------------------------------------------------
(* Processes and machines that end. *)

Forget(P) ==
    /\ pc' = [p \in Process |-> IF p \in P THEN "idle" ELSE pc[p]]
    /\ policy' = [p \in Process |-> IF p \in P THEN "AllowBuild" ELSE policy[p]]
    /\ fd' = [p \in Process |-> IF p \in P THEN None ELSE fd[p]]
    /\ pos' = [p \in Process |-> IF p \in P THEN 1 ELSE pos[p]]
    /\ buffer' = [p \in Process |-> IF p \in P THEN <<>> ELSE buffer[p]]
    /\ table' = [p \in Process |-> IF p \in P THEN None ELSE table[p]]

\* A process exits, or is killed at any point; the files stay as they are.
Ends(p) ==
    /\ pc[p] # "idle"
    /\ Forget({p})
    /\ UNCHANGED <<disk, runs, crashes>>

\* What may be left of a file that was never synced: fewer cells, some zero.
Remains(f, n, zeroed) == [j \in 1 .. n |-> IF j \in zeroed THEN 0 ELSE f[j]]

\* saveToCache never syncs: after a machine crash the names are there, the data
\* perhaps not.  (What is left of tmp does not matter: Create truncates it.)
MachineCrash ==
    /\ crashes < MaxMachineCrashes
    /\ path # None
    /\ crashes' = crashes + 1
    /\ Forget(Process)
    /\ \E n \in 0 .. Len(files[path]) : \E zeroed \in SUBSET (1 .. n) :
          files' = [files EXCEPT ![path] = Remains(@, n, zeroed)]
    /\ UNCHANGED <<path, tmp, runs>>

-----------------------------------------------------------------------------
Load(p) == CheckReady(p) \/ Open(p) \/ ReadHeader(p) \/ ReadPayload(p) \/ ReadFails(p) \/ Loaded(p)
Save(p) ==
    \/ Create(p) \/ CreateFails(p) \/ Write(p) \/ WriteFails(p) \/ Close(p)
    \/ Discard(p) \/ Rename(p) \/ Unlink(p) \/ RenameAgain(p)

Step(p) == Load(p) \/ Build(p) \/ Save(p)

Next ==
    \/ \E p \in Process : Begin(p) \/ Step(p) \/ Ends(p)
    \/ MachineCrash

Spec == Init /\ [][Next]_vars

\* A process that is running keeps running; nothing makes one start or end.
FairSpec == Spec /\ \A p \in Process : WF_vars(Step(p))

-----------------------------------------------------------------------------
(* Properties. *)

TypeOK ==
    /\ files \in [Inode -> Seq(Nat)]
    /\ path \in Inode \cup {None}
    /\ tmp \in Inode \cup {None}
    /\ pc \in [Process -> {"idle", "check", "open", "read", "build", "create", "write",
                           "discard", "rename", "unlink", "rename2", "finished"}]
    /\ policy \in [Process -> {"AllowBuild", "RequireWarm"}]
    /\ fd \in [Process -> Inode \cup {None}]
    /\ pos \in [Process -> Nat \ {0}]
    /\ buffer \in [Process -> Seq(Nat)]
    /\ table \in [Process -> [1 .. Len(Distance) -> Nat] \cup {None}]
    /\ runs \in Nat
    /\ crashes \in Nat

\* What a file may hold: a prefix of the image, with holes.
Plausible(f) == Len(f) <= Cells /\ \A j \in 1 .. Len(f) : f[j] \in {0, Image[j]}

Complete(i) == files[i] = Image

\* A table is a lower bound on the distance, entry by entry.
Admissible(t) == DOMAIN t = DOMAIN Distance /\ \A i \in DOMAIN t : t[i] <= Distance[i]

\* Whatever files processes truncate, rename, remove and crash over, no process
\* ever searches with a table that overestimates a distance: an inadmissible
\* entry would make the solver prune the optimal solution.
LoadedIsAdmissible == \A p \in Process : table[p] # None => Admissible(table[p])

\* A process that may build always ends up with a table, and every request is
\* answered: no race over the names can make saveToCache or the load hang.
Served ==
    \A p \in Process :
        /\ pc[p] = "open" ~> table[p] # None \/ pc[p] = "idle"
        /\ Busy(p) ~> ~Busy(p)

\* With the lock docs/runtime.md recommends and until the machine crashes, the
\* file under the final name is complete at every moment, whenever writers are
\* killed.
PublishedIsComplete == crashes = 0 /\ path # None => Complete(path)

\* Under the lock, machine crashes or not, saveToCache takes the published file
\* away (a rename over it, or the remove after a rename that failed) only when that
\* file is damaged, unless reads fail by themselves, and only while a whole
\* replacement is under the temporary name: a whole cache file is never removed,
\* whatever writes, renames and removes fail and whenever writers are killed.
OnlyDamageIsReplaced ==
    [][path # None /\ path' # path =>
         /\ ~Complete(path) \/ ReadErrors
         /\ tmp # None /\ Complete(tmp)]_vars

\* docs/local-optimal-profiles.md: "Use `CachePolicy::RequireWarm` ... when a solve
\* must not build missing tables during the request."
RequireWarmNeverBuilds == \A p \in Process : policy[p] = "RequireWarm" => pc[p] # "build"

\* Under the lock, until the machine crashes and unless reads fail by themselves, a
\* RequireWarm request that passed its header-only check never builds, although
\* check and load open the file separately.
StrictWarm == crashes = 0 => RequireWarmNeverBuilds

\* Under the lock a file published by a rename is complete even when the file it
\* replaces had lost data in a machine crash: a rejected load repairs the cache.
PublishesComplete == [][path' # path /\ path' # None => Complete(path)']_vars

-----------------------------------------------------------------------------
(* Why LoadedIsAdmissible holds: the inductive invariant of the proofs. *)

FilesInv == \A i \in Inode : Plausible(files[i])

\* A reader has the cells before its offset; a hole in them reads as zero.
ReaderInv ==
    \A p \in Process : pc[p] = "read" =>
        /\ fd[p] \in Inode
        /\ pos[p] \in 1 .. (Cells + 1)
        /\ Len(buffer[p]) = IF pos[p] = 1 THEN 0 ELSE pos[p] - 2
        /\ \A k \in 1 .. Len(buffer[p]) : buffer[p][k] \in {0, Distance[k]}

WriterInv ==
    \A p \in Process : pc[p] = "write" => fd[p] \in Inode /\ pos[p] \in 1 .. (Cells + 1)

IInv == TypeOK /\ FilesInv /\ ReaderInv /\ WriterInv /\ LoadedIsAdmissible

\* After a load that failed: building and saving.
Saving(l) == l \in {"build", "create", "write", "discard", "rename", "unlink", "rename2"}

\* What the lock of docs/runtime.md adds: one process at a time, the temporary file
\* as long as it has written and whole while it is renamed, and nothing saved over
\* a whole file.
LockInv ==
    /\ \A p, q \in Process : Busy(p) /\ Busy(q) => p = q
    /\ path # None => path # tmp
    /\ PublishedIsComplete
    /\ \A p \in Process :
          /\ pc[p] = "write" => fd[p] = tmp /\ files[tmp] = SubSeq(Image, 1, pos[p] - 1)
          /\ pc[p] \in {"rename", "unlink", "rename2"} => tmp # None /\ Complete(tmp)
          /\ ~ReadErrors /\ Saving(pc[p]) /\ path # None => ~Complete(path)
          /\ ~ReadErrors /\ crashes = 0 /\ policy[p] = "RequireWarm" => pc[p] \in {"idle", "check", "open", "read", "finished"}
          /\ policy[p] = "RequireWarm" /\ pc[p] \in {"open", "read"} => path # None
          /\ pc[p] = "read" => fd[p] = path
=============================================================================
