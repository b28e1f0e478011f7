------------------------------ MODULE Namespace ------------------------------
(***************************************************************************)
(* The namespace tree and its two background walkers: directory nodes     *)
(* (ds_dir_node in src/libmmux/src/mmux/directory/fs/directory_tree.h),    *)
(* recursive lease expiry of a directory, and the sync worker              *)
(* (sync_worker.cpp).  A file is seen here as the blocks it holds in       *)
(* memory, its flags, its backing path and its mode; how those blocks are  *)
(* laid out in chains is FileNode's subject.                               *)
(*                                                                         *)
(* The tree is two levels deep: directories under the root, files under    *)
(* the directories.  Locks: each method of ds_dir_node holds that          *)
(* directory's lock; path resolution takes the root's reader lock, so      *)
(* nothing that resolves a path runs while lease expiry holds the root's   *)
(* writer lock.  A thread that resolved a directory before that keeps its  *)
(* pointer and still reaches the directory.                                *)
(***************************************************************************)
EXTENDS Integers, FiniteSets

CONSTANTS
  Dirs,         \* directory nodes, each a child of the root
  Names,        \* child names inside a directory (ordered: std::map key)
  Files,        \* file nodes
  Blocks,       \* block identifiers
  Backings,     \* backing paths
  NoFile,       \* no child under a name
  NoDir,        \* no directory
  NB,           \* blocks a file holds in memory (num_blocks * chain_length)
  CreateFlags,  \* [Files -> SUBSET {"pinned", "mapped"}]: flags passed to create
  CreateBacking,\* [Files -> Backings]: backing path passed to create
  UB_ERASE      \* whether the erase inside the lease-expiry loop may end it

ASSUME NoFile \notin Files /\ NoDir \notin Dirs
ASSUME Names \subseteq Nat /\ Names # {} /\ NB \in Nat \ {0}
ASSUME CreateFlags \in [Files -> SUBSET {"pinned", "mapped"}]
ASSUME CreateBacking \in [Files -> Backings] /\ UB_ERASE \in BOOLEAN

VARIABLES
  dstate,   \* directory: "none", "linked" in the root, "gone" erased
  entries,  \* children_ of each directory: name -> file
  fstate,   \* file: "none", "in_memory", "on_disk", "gone" (unlinked)
  fblocks,  \* blocks the file holds in memory
  flags,    \* dstatus_.flags(): "pinned", "mapped"
  backing,  \* dstatus_.backing_path()
  free,     \* allocator pool
  cr,       \* create threads: parent and name resolved, file not yet added
  lx,       \* lease worker inside a directory's handle_lease_expiry
  sw,       \* sync worker's position in its epoch
  stop,     \* sync_worker::stop_
  ls,       \* a recursive_entries() listing of the root
  written   \* history: <<backing path, file>> of every flush of a file

vars == <<dstate, entries, fstate, fblocks, flags, backing, free, cr, lx, sw,
          stop, ls, written>>

NoPath == <<NoDir, 0>>
LxIdle == [d |-> NoDir, last |-> -1, cleared |-> TRUE, cb |-> {}]
SwIdle == [phase |-> "idle", dirs |-> {}, d |-> NoDir, names |-> {},
           nm |-> 0, f |-> NoFile, bk |-> CHOOSE k \in Backings : TRUE]
LsIdle == [phase |-> "idle", dirs |-> {}, d |-> NoDir]

-----------------------------------------------------------------------------
(***************************************************************************)
(* Helpers                                                                 *)
(***************************************************************************)

\* The file a path names through the root, NoFile if none.
At(d, nm) == IF dstate[d] = "linked" THEN entries[d][nm] ELSE NoFile

Reachable(f) == \E d \in Dirs, nm \in Names : At(d, nm) = f

\* ds_dir_node::children(): the names in d, read without d's lock.
Children(d) == {nm \in Names : entries[d][nm] # NoFile}

\* ds_dir_node::empty()
DirEmpty(d) == Children(d) = {}

\* The files under d, in the order std::map iterates them.
FilesIn(d) == {entries[d][nm] : nm \in Children(d)}

\* ds_file_node::dstatus(): what the sync worker reads of a file.
DStatus(f) == [mapped |-> "mapped" \in flags[f], backing_path |-> backing[f]]

\* Path resolution takes the root's reader lock.
RootFree == lx.d = NoDir

\* add_child and remove_child of the root, and lease expiry of a directory,
\* take the root's writer lock, which also waits for a listing that holds
\* the root's reader lock.
RootWritable == RootFree /\ ls.phase = "idle"

\* Mutants of Expire: the chains left "flushing" while the dump is under
\* way; reset blocks not reported in cleared_blocks.
ExpireFlushing(f) ==
  CASE "pinned" \in flags[f] ->
         [erase |-> FALSE, cb |-> {}, mode |-> fstate[f], flush |-> {}]
    [] "mapped" \in flags[f] ->
         [erase |-> FALSE, cb |-> fblocks[f], mode |-> "flushing",
          flush |-> {<<backing[f], f>>}]
    [] OTHER ->
         [erase |-> TRUE, cb |-> fblocks[f], mode |-> "gone", flush |-> {}]
ExpireNoCleared(f) ==
  CASE "pinned" \in flags[f] ->
         [erase |-> FALSE, cb |-> {}, mode |-> fstate[f], flush |-> {}]
    [] "mapped" \in flags[f] ->
         [erase |-> FALSE, cb |-> fblocks[f], mode |-> "on_disk",
          flush |-> {<<backing[f], f>>}]
    [] OTHER ->
         [erase |-> TRUE, cb |-> {}, mode |-> "gone", flush |-> {}]

\* ds_file_node::handle_lease_expiry of file f: the result it returns (the
\* parent erases the child on TRUE), the blocks it clears, the file's new
\* mode and the flush it issues.  Pinned: nothing.  Mapped: dump every tail
\* to the backing path, mode on_disk, kept.  Otherwise reset every block.
Expire(f) ==
  CASE "pinned" \in flags[f] ->
         [erase |-> FALSE, cb |-> {}, mode |-> fstate[f], flush |-> {}]
    [] "mapped" \in flags[f] ->
         [erase |-> FALSE, cb |-> fblocks[f], mode |-> "on_disk",
          flush |-> {<<backing[f], f>>}]
    [] OTHER ->
         [erase |-> TRUE, cb |-> fblocks[f], mode |-> "gone", flush |-> {}]

\* The file's state after handle_lease_expiry returned r.
AfterExpire(f, r) ==
  /\ fstate' = [fstate EXCEPT ![f] = r.mode]
  /\ fblocks' = [fblocks EXCEPT ![f] = @ \ r.cb]
  /\ written' = written \cup r.flush

-----------------------------------------------------------------------------
Init ==
  /\ dstate = [d \in Dirs |-> "none"]
  /\ entries = [d \in Dirs |-> [nm \in Names |-> NoFile]]
  /\ fstate = [f \in Files |-> "none"]
  /\ fblocks = [f \in Files |-> {}]
  /\ flags = CreateFlags
  /\ backing = CreateBacking
  /\ free = Blocks
  /\ cr = [f \in Files |-> NoPath]
  /\ lx = LxIdle
  /\ sw = SwIdle
  /\ stop = FALSE
  /\ ls = LsIdle
  /\ written = {}

-----------------------------------------------------------------------------
(***************************************************************************)
(* Namespace operations.  directory_tree.cpp is not in the repository:    *)
(* create_directory, create, remove and the resolution of a parent are     *)
(* modelled from spec.md 4.3 and 5; the children map changes are          *)
(* ds_dir_node::add_child and remove_child.                                *)
(***************************************************************************)

\* create_directory("/d"): root add_child, refused when the name exists.
CreateDir(d) ==
  /\ RootWritable
  /\ dstate[d] = "none"
  /\ dstate' = [dstate EXCEPT ![d] = "linked"]
  /\ UNCHANGED <<entries, fstate, fblocks, flags, backing, free, cr, lx, sw, written, stop, ls>>

\* remove("/d") of an empty directory: root remove_child.
RemoveDir(d) ==
  /\ RootWritable
  /\ dstate[d] = "linked"
  /\ DirEmpty(d)
  /\ dstate' = [dstate EXCEPT ![d] = "gone"]
  /\ UNCHANGED <<entries, fstate, fblocks, flags, backing, free, cr, lx, sw, written, stop, ls>>

\* create("/d/nm"), first half: get_node_as_dir resolves the parent under
\* the root's reader lock and keeps the pointer.
ResolveParent(f, d, nm) ==
  /\ RootFree
  /\ fstate[f] = "none"
  /\ cr[f] = NoPath
  /\ dstate[d] = "linked"
  /\ cr' = [cr EXCEPT ![f] = <<d, nm>>]
  /\ UNCHANGED <<dstate, entries, fstate, fblocks, flags, backing, free, lx, sw, written, stop, ls>>

\* create, second half, under the parent's lock only: refused when the name
\* exists or the allocator is short; otherwise allocate and set up the
\* file's blocks and add_child.  Nothing checks that the parent is still in
\* the tree.
AddFile(f) ==
  LET d == cr[f][1]
      nm == cr[f][2]
      S == CHOOSE S \in SUBSET free : Cardinality(S) = NB
  IN
  /\ cr[f] # NoPath
  /\ cr' = [cr EXCEPT ![f] = NoPath]
  /\ \/ /\ entries[d][nm] = NoFile
        /\ Cardinality(free) >= NB
        /\ entries' = [entries EXCEPT ![d][nm] = f]
        /\ fstate' = [fstate EXCEPT ![f] = "in_memory"]
        /\ fblocks' = [fblocks EXCEPT ![f] = S]
        /\ free' = free \ S
     \/ /\ entries[d][nm] # NoFile \/ Cardinality(free) < NB
        /\ UNCHANGED <<entries, fstate, fblocks, free, ls>>
  /\ UNCHANGED <<dstate, flags, backing, lx, sw, written, stop, ls>>

\* remove("/d/nm") of a file: reset and free its in-memory blocks,
\* remove_child.
RemoveFile(d, nm) ==
  LET f == At(d, nm) IN
  /\ RootFree
  /\ f # NoFile
  /\ entries' = [entries EXCEPT ![d][nm] = NoFile]
  /\ fstate' = [fstate EXCEPT ![f] = "gone"]
  /\ fblocks' = [fblocks EXCEPT ![f] = {}]
  /\ free' = free \cup fblocks[f]
  /\ UNCHANGED <<dstate, flags, backing, cr, lx, sw, written, stop, ls>>

\* ds_file_node::flags(int32_t) and ds_file_node::backing_path(prefix) on a
\* file reached by path.
SetFlags(f, fl) ==
  /\ RootFree
  /\ Reachable(f)
  /\ flags' = [flags EXCEPT ![f] = fl]
  /\ UNCHANGED <<dstate, entries, fstate, fblocks, backing, free, cr, lx, sw, written, stop, ls>>

SetBacking(f, k) ==
  /\ RootFree
  /\ Reachable(f)
  /\ backing' = [backing EXCEPT ![f] = k]
  /\ UNCHANGED <<dstate, entries, fstate, fblocks, flags, free, cr, lx, sw, written, stop, ls>>

-----------------------------------------------------------------------------
(***************************************************************************)
(* Lease expiry.  directory_tree::handle_lease_expiry(p) resolves the     *)
(* parent of p, calls the parent's handle_lease_expiry(cleared, name) and  *)
(* frees the cleared blocks.  For a file child that is one step under the  *)
(* parent's lock.  For a directory child d the root's writer lock is held  *)
(* while the loop walks d's children_ WITHOUT d's lock, each iteration     *)
(* calling d->handle_lease_expiry(entry), which takes d's lock and may     *)
(* erase that entry; the directory is erased when every child was.         *)
(***************************************************************************)

LeaseExpireFile(d, nm) ==
  LET f == At(d, nm)
      r == Expire(f)
  IN
  /\ RootFree
  /\ f # NoFile
  /\ AfterExpire(f, r)
  /\ entries' = IF r.erase THEN [entries EXCEPT ![d][nm] = NoFile] ELSE entries
  /\ free' = free \cup r.cb
  /\ UNCHANGED <<dstate, flags, backing, cr, lx, sw, stop, ls>>

LeaseExpireDir(d) ==
  /\ RootWritable
  /\ dstate[d] = "linked"
  /\ lx' = [LxIdle EXCEPT !.d = d]
  /\ UNCHANGED <<dstate, entries, fstate, fblocks, flags, backing, free, cr, sw, written, stop, ls>>

\* The names the loop has still to reach: std::map iterates in key order,
\* and an entry inserted behind the iterator is never seen.
Ahead == {nm \in Names : nm > lx.last /\ entries[lx.d][nm] # NoFile}

\* One iteration.  After the recursive call erased the entry, the loop's
\* ++ works on an invalidated iterator: undefined behaviour, modelled as the
\* loop either going on or ending there.
LeaseDirStep ==
  LET d  == lx.d
      nm == CHOOSE n \in Ahead : \A m \in Ahead : n <= m
      f  == entries[d][nm]
      r  == Expire(f)
  IN
  /\ lx.d # NoDir
  /\ Ahead # {}
  /\ AfterExpire(f, r)
  /\ entries' = IF r.erase THEN [entries EXCEPT ![d][nm] = NoFile] ELSE entries
  /\ \E ends \in IF r.erase /\ UB_ERASE THEN BOOLEAN ELSE {FALSE} :
       lx' = [lx EXCEPT !.last = IF ends THEN nm + Cardinality(Names) + 1
                                 ELSE nm,
                        !.cleared = @ /\ r.erase,
                        !.cb = @ \cup r.cb]
  /\ UNCHANGED <<dstate, flags, backing, free, cr, sw, stop, ls>>

\* Mutant: the directory erased whether or not every child was.
LeaseDirEndUncleared ==
  /\ lx.d # NoDir
  /\ Ahead = {}
  /\ dstate' = [dstate EXCEPT ![lx.d] = "gone"]
  /\ free' = free \cup lx.cb
  /\ lx' = LxIdle
  /\ UNCHANGED <<entries, fstate, fblocks, flags, backing, cr, sw, written, stop, ls>>

\* The loop is over: erase d from the root when every child was erased,
\* release the root, and the caller frees the cleared blocks.
LeaseDirEnd ==
  /\ lx.d # NoDir
  /\ Ahead = {}
  /\ dstate' = IF lx.cleared THEN [dstate EXCEPT ![lx.d] = "gone"] ELSE dstate
  /\ free' = free \cup lx.cb
  /\ lx' = LxIdle
  /\ UNCHANGED <<entries, fstate, fblocks, flags, backing, cr, sw, written, stop, ls>>

-----------------------------------------------------------------------------
(***************************************************************************)
(* sync, dump and load of a directory.  directory_tree resolves the path  *)
(* under the root's reader lock; ds_dir_node::sync, dump and load then    *)
(* hold the directory's writer lock and call the same method of every     *)
(* child with the backing path they were given.  directory_tree::dump     *)
(* frees the blocks the children cleared.                                 *)
(***************************************************************************)

\* Each in-memory child flushes its chains to k.
DirSync(d, k) ==
  /\ RootFree
  /\ dstate[d] = "linked"
  /\ written' = written \cup {<<k, f>> : f \in {g \in FilesIn(d) : fstate[g] = "in_memory"}}
  /\ UNCHANGED <<dstate, entries, fstate, fblocks, flags, backing, free, cr, lx, sw, stop, ls>>

\* Each child dumps its tails to k and resets the rest, whatever its mode
\* and flags, and goes on disk.
DirDump(d, k) ==
  LET F == FilesIn(d) IN
  /\ RootFree
  /\ dstate[d] = "linked"
  /\ fstate' = [f \in Files |-> IF f \in F THEN "on_disk" ELSE fstate[f]]
  /\ fblocks' = [f \in Files |-> IF f \in F THEN {} ELSE fblocks[f]]
  /\ free' = free \cup UNION {fblocks[f] : f \in F}
  /\ written' = written \cup {<<k, f>> : f \in F}
  /\ UNCHANGED <<dstate, entries, flags, backing, cr, lx, sw, stop, ls>>

\* Each child, in name order, allocates NB fresh blocks and loads them; the
\* first allocate that finds the pool short throws and ends the loop, the
\* children before it stay loaded.  The names of the blocks a child held
\* are overwritten.
DirLoad(d) ==
  LET C == Children(d)
      k == IF Cardinality(free) \div NB < Cardinality(C)
           THEN Cardinality(free) \div NB ELSE Cardinality(C)
      L == {nm \in C : Cardinality({m \in C : m < nm}) < k}
      P == CHOOSE P \in [L -> SUBSET free] :
             /\ \A nm \in L : Cardinality(P[nm]) = NB
             /\ \A nm, m \in L : nm # m => P[nm] \cap P[m] = {}
      Ld == {entries[d][nm] : nm \in L}
  IN
  /\ RootFree
  /\ dstate[d] = "linked"
  /\ fstate' = [f \in Files |-> IF f \in Ld THEN "in_memory" ELSE fstate[f]]
  /\ fblocks' = [f \in Files |->
                   IF f \in Ld THEN P[CHOOSE nm \in L : entries[d][nm] = f]
                   ELSE fblocks[f]]
  /\ free' = free \ UNION {P[nm] : nm \in L}
  /\ UNCHANGED <<dstate, entries, flags, backing, cr, lx, sw, stop, written, ls>>

-----------------------------------------------------------------------------
(***************************************************************************)
(* recursive_entries() of the root (a recursive directory listing): the    *)
(* root's reader lock is held for the whole walk, and                      *)
(* populate_recursive_entries visits the root's children_ and, for each    *)
(* directory, walks that directory's children_ with NO lock of its own.    *)
(***************************************************************************)

\* recursive_entries(): take the root's reader lock, read its children_
\* and start on the first directory among them (any, in the model), walking
\* that directory's children_.  A root with no directory is a listing
\* with no effect.
LsBegin ==
  LET D == {d \in Dirs : dstate[d] = "linked"} IN
  /\ ls.phase = "idle"
  /\ RootFree
  /\ \E d \in D : ls' = [phase |-> "list", dirs |-> D \ {d}, d |-> d]
  /\ UNCHANGED <<dstate, entries, fstate, fblocks, flags, backing, free, cr, lx, sw, written, stop>>

\* The walk of ls.d's children_ has reached its end: go on to the next
\* directory, or release the root's reader lock after the last.
LsNext ==
  /\ ls.phase = "list"
  /\ \/ ls.dirs = {} /\ ls' = LsIdle
     \/ \E d \in ls.dirs : ls' = [ls EXCEPT !.dirs = @ \ {d}, !.d = d]
  /\ UNCHANGED <<dstate, entries, fstate, fblocks, flags, backing, free, cr, lx, sw, written, stop>>

-----------------------------------------------------------------------------
(***************************************************************************)
(* The sync worker.  Each epoch sync_nodes() takes root->children() (no   *)
(* lock), and for each name: get_child; for a directory, its children()    *)
(* and the same per child; for a file, tree_->dstatus(path) and, when it   *)
(* is mapped, tree_->sync(path, backing path read in that dstatus).  An    *)
(* exception (the path vanished) ends the epoch; the loop then starts the  *)
(* next one.                                                               *)
(***************************************************************************)

\* Mutant: the loop never looks at stop_ again once started.
SwEpochNoStop ==
  /\ sw.phase = "idle"
  /\ sw' = [SwIdle EXCEPT !.phase = "root"]
  /\ UNCHANGED <<dstate, entries, fstate, fblocks, flags, backing, free, cr, lx, written, stop, ls>>

\* The loop's test of stop_ came out false: a new epoch.
SwEpoch ==
  /\ sw.phase = "idle"
  /\ ~stop
  /\ sw' = [SwIdle EXCEPT !.phase = "root"]
  /\ UNCHANGED <<dstate, entries, fstate, fblocks, flags, backing, free, cr, lx, written, stop, ls>>

\* root->children() walks the root's children_ with no lock at all: the
\* walk spans the steps from SwEpoch to SwRootChildren, and takes no lock,
\* so it runs even while lease expiry holds the root.
SwRootChildren ==
  /\ sw.phase = "root"
  /\ sw' = [sw EXCEPT !.phase = "dirs", !.dirs = {d \in Dirs : dstate[d] = "linked"}]
  /\ UNCHANGED <<dstate, entries, fstate, fblocks, flags, backing, free, cr, lx, written, stop, ls>>

\* get_child(d) under the root's reader lock; a vanished directory is
\* skipped, a present one is walked from its children() list.
SwDir(d) ==
  /\ sw.phase = "dirs"
  /\ d \in sw.dirs
  /\ RootFree
  /\ sw' = IF dstate[d] = "linked"
           THEN [sw EXCEPT !.phase = "list", !.dirs = @ \ {d}, !.d = d]
           ELSE [sw EXCEPT !.dirs = @ \ {d}]
  /\ UNCHANGED <<dstate, entries, fstate, fblocks, flags, backing, free, cr, lx, written, stop, ls>>

\* node->children() of that directory, again without its lock, from SwDir
\* to SwChildren.
SwChildren ==
  /\ sw.phase = "list"
  /\ sw' = [sw EXCEPT !.phase = "files", !.names = Children(sw.d)]
  /\ UNCHANGED <<dstate, entries, fstate, fblocks, flags, backing, free, cr, lx, written, stop, ls>>

SwDirDone ==
  /\ sw.phase = "files"
  /\ sw.names = {}
  /\ sw' = [sw EXCEPT !.phase = "dirs", !.d = NoDir]
  /\ UNCHANGED <<dstate, entries, fstate, fblocks, flags, backing, free, cr, lx, written, stop, ls>>

SwEpochDone ==
  /\ sw.phase = "dirs"
  /\ sw.dirs = {}
  /\ sw' = SwIdle
  /\ UNCHANGED <<dstate, entries, fstate, fblocks, flags, backing, free, cr, lx, written, stop, ls>>

\* The loop's test of stop_ came out true: the worker thread returns.
SwExit ==
  /\ sw.phase = "idle"
  /\ stop
  /\ sw' = [sw EXCEPT !.phase = "exited"]
  /\ UNCHANGED <<dstate, entries, fstate, fblocks, flags, backing, free, cr, lx, written, stop, ls>>

\* sync_worker::stop(), also run by ~sync_worker: set stop_, then join the
\* worker thread (the caller waits until SwExit).
Stop ==
  /\ ~stop
  /\ stop' = TRUE
  /\ UNCHANGED <<dstate, entries, fstate, fblocks, flags, backing, free, cr, lx, sw, written, ls>>

\* The next name of the children() list, in the std::map's key order:
\* get_child(nm), then tree_->dstatus(path): skip a vanished child, end the
\* epoch when the path no longer resolves (dstatus throws).  Otherwise
\* ds_file_node::dstatus() takes the file's reader lock and returns a
\* REFERENCE to dstatus_, the lock released on return: the copy the caller
\* makes of it follows in SwCopy, with no lock held.
SwStatus(nm) ==
  LET f == entries[sw.d][nm] IN
  /\ sw.phase = "files"
  /\ nm \in sw.names
  /\ \A m \in sw.names : nm <= m
  /\ RootFree
  /\ sw' = CASE f = NoFile -> [sw EXCEPT !.names = @ \ {nm}]
             [] At(sw.d, nm) = NoFile -> SwIdle
             [] OTHER -> [sw EXCEPT !.phase = "copy", !.nm = nm, !.f = f]
  /\ UNCHANGED <<dstate, entries, fstate, fblocks, flags, backing, free, cr, lx, written, stop, ls>>

\* The data_status copy, s.is_mapped(), and for a mapped file the backing
\* path kept for the sync that follows.
SwCopy ==
  /\ sw.phase = "copy"
  /\ sw' = IF DStatus(sw.f).mapped
           THEN [sw EXCEPT !.phase = "sync", !.f = NoFile, !.bk = DStatus(sw.f).backing_path]
           ELSE [sw EXCEPT !.phase = "files", !.f = NoFile, !.names = @ \ {sw.nm}]
  /\ UNCHANGED <<dstate, entries, fstate, fblocks, flags, backing, free, cr, lx, written, stop, ls>>

\* tree_->sync(path, bk): resolve the path again and run ds_file_node::sync
\* of whatever file is there now, which flushes its in-memory chains to bk.
SwSync ==
  LET g == At(sw.d, sw.nm) IN
  /\ sw.phase = "sync"
  /\ RootFree
  /\ IF g = NoFile
     THEN /\ sw' = SwIdle
          /\ UNCHANGED written
     ELSE /\ sw' = [sw EXCEPT !.phase = "files", !.names = @ \ {sw.nm}]
          /\ written' = IF fstate[g] = "in_memory"
                        THEN written \cup {<<sw.bk, g>>} ELSE written
  /\ UNCHANGED <<dstate, entries, fstate, fblocks, flags, backing, free, cr, lx, stop, ls>>

-----------------------------------------------------------------------------
\* The service is shut down: the sync worker has exited and nothing else
\* need happen.
Terminated == sw.phase = "exited" /\ UNCHANGED vars

Fl == SUBSET {"pinned", "mapped"}

Next ==
  \/ \E d \in Dirs : CreateDir(d) \/ RemoveDir(d) \/ LeaseExpireDir(d) \/ SwDir(d)
  \/ \E f \in Files, d \in Dirs, nm \in Names : ResolveParent(f, d, nm)
  \/ \E f \in Files : AddFile(f)
  \/ \E d \in Dirs, nm \in Names : RemoveFile(d, nm) \/ LeaseExpireFile(d, nm)
  \/ \E f \in Files : (\E fl \in Fl : SetFlags(f, fl)) \/ (\E k \in Backings : SetBacking(f, k))
  \/ \E d \in Dirs, k \in Backings : DirSync(d, k) \/ DirDump(d, k)
  \/ \E d \in Dirs : DirLoad(d)
  \/ LeaseDirStep \/ LeaseDirEnd
  \/ SwEpoch \/ SwRootChildren \/ SwChildren \/ SwDirDone \/ SwEpochDone \/ SwSync
  \/ SwCopy \/ \E nm \in Names : SwStatus(nm)
  \/ SwExit \/ Stop \/ Terminated
  \/ LsBegin \/ LsNext

\* Both workers are threads in a loop that sleeps between passes: a pass
\* once begun runs to its end, and the sync worker's next pass comes.  The
\* sync worker's steps need the root's reader lock, which the lease worker
\* takes for whole passes; between its passes the lease worker sleeps, so
\* the lock is free again and again: strong fairness for those steps.
Fairness ==
  /\ WF_vars(LeaseDirStep) /\ WF_vars(LeaseDirEnd)
  /\ WF_vars(SwEpoch) /\ WF_vars(SwDirDone) /\ WF_vars(SwEpochDone)
  /\ WF_vars(SwExit) /\ WF_vars(SwRootChildren) /\ WF_vars(SwChildren)
  /\ SF_vars(SwSync) /\ \A d \in Dirs : SF_vars(SwDir(d))
  /\ WF_vars(SwCopy) /\ \A nm \in Names : SF_vars(SwStatus(nm))

Spec == Init /\ [][Next]_vars /\ Fairness

-----------------------------------------------------------------------------
(***************************************************************************)
(* Properties                                                              *)
(***************************************************************************)

TypeOK ==
  /\ dstate \in [Dirs -> {"none", "linked", "gone"}]
  /\ entries \in [Dirs -> [Names -> Files \cup {NoFile}]]
  /\ fstate \in [Files -> {"none", "in_memory", "on_disk", "gone"}]
  /\ fblocks \in [Files -> SUBSET Blocks]
  /\ flags \in [Files -> Fl] /\ backing \in [Files -> Backings]
  /\ free \subseteq Blocks
  /\ cr \in [Files -> {NoPath} \cup (Dirs \X Names)]
  /\ lx.d \in Dirs \cup {NoDir} /\ lx.last \in Int
  /\ lx.cleared \in BOOLEAN /\ lx.cb \subseteq Blocks
  /\ sw.phase \in {"idle", "root", "dirs", "list", "files", "copy", "sync", "exited"}
  /\ stop \in BOOLEAN
  /\ sw.dirs \subseteq Dirs /\ sw.names \subseteq Names /\ sw.bk \in Backings
  /\ sw.f \in Files \cup {NoFile}
  /\ written \subseteq Backings \X Files
  /\ ls.phase \in {"idle", "list"} /\ ls.dirs \subseteq Dirs
  /\ ls.d \in Dirs \cup {NoDir}

\* A file that was created and not removed or expired away can still be
\* reached by its path: create (add_child into the directory it resolved)
\* and a directory's lease expiry (erasing the directory once its loop
\* found every child erased) never leave a live file inside a directory
\* that is no longer in the tree.
NoOrphans ==
  \A f \in Files : fstate[f] \in {"in_memory", "on_disk"} => Reachable(f)

\* Every block taken from the allocator is held in memory by a file that
\* can be reached by path, or was cleared by a lease pass that has not
\* freed it yet: remove, lease expiry and create lose no block (spec.md
\* 8.3 at the namespace level).
NsNoLeak ==
  Blocks \ free \subseteq lx.cb \cup UNION {fblocks[f] : f \in {g \in Files : Reachable(g)}}

\* Every flush the sync worker issues writes a mapped file's memory to the
\* backing path that file has at the time of the flush.
FlushTarget ==
  [][\A w \in written' \ written :
       "mapped" \in flags[w[2]] /\ backing[w[2]] = w[1]
    ]_vars

\* The data_status of f is written: its flags or backing path set, or its
\* chains' mode and blocks changed by a dump, load or mapped expiry.
\* (Removal and a plain expiry reset storage and unlink the node, and leave
\* its dstatus_ as it was.)
StatusWritten(f) ==
  \/ flags'[f] # flags[f] \/ backing'[f] # backing[f]
  \/ fstate'[f] # fstate[f] /\ fstate'[f] # "gone"

\* Three reads run with no lock on what they read:
\*  - ds_dir_node::children() reads children_ without the directory's
\*    lock, and the sync worker calls it on the root and on each directory;
\*  - populate_recursive_entries walks a subdirectory's children_ holding
\*    only the listed directory's lock;
\*  - ds_file_node::dstatus() returns a reference to dstatus_ once its lock
\*    is released, and the sync worker's tree_->dstatus(path) copies it.
\* Meanwhile create_directory, create, remove and lease expiry change the
\* children maps, and the setters, dump, load and expiry change dstatus_,
\* each under the node's lock.  Nothing a read holds is written while it is
\* under way: a std::map or data_status written during an unlocked read is
\* a data race, whose outcome is undefined.
NoUnlockedRace ==
  [][/\ sw.phase = "root" => dstate' = dstate
     /\ sw.phase = "list" => entries'[sw.d] = entries[sw.d]
     /\ ls.phase = "list" => entries'[ls.d] = entries[ls.d]
     /\ sw.phase = "copy" => ~StatusWritten(sw.f)
    ]_vars

\* sync_worker::stop() returns: once stop_ is set, the worker finishes the
\* epoch it is in (its steps still compete with lease expiry for the root's
\* lock), sees stop_ at the top of its loop and exits, so join ends.
StopJoins == stop ~> (sw.phase = "exited")

====
