--------------------------- MODULE MC_Namespace ---------------------------
(***************************************************************************)
(* Instantiates Namespace for TLC: two directories with two names each,   *)
(* three files, as many blocks, and two backing paths.                     *)
(***************************************************************************)
EXTENDS Namespace

CONSTANTS d1, d2, g1, g2, g3, b1, b2, b3, k1, k2, nofile, nodir

MCDirs     == {d1, d2}
OneDir     == {d1}
MCNames    == {1, 2}
MCFiles    == {g1, g2, g3}
TwoFiles   == {g1, g2}
TwoBlocks  == {b1, b2}
MCBlocks   == {b1, b2, b3}
MCBackings == {k1, k2}
\* Without backing-path changes the files keep k1: one backing path.
OneBacking == {k1}
\* g1 mapped, g2 pinned, g3 neither: each branch of lease expiry.
MCFlags    == [f \in Files |-> CASE f = g1 -> {"mapped"}
                                 [] f = g2 -> {"pinned"}
                                 [] OTHER  -> {}]
MCBacking  == [f \in Files |-> k1]

\* Clients that create a file only under a directory still in the tree
\* and not being walked by lease expiry.
SafeAddFile(f) ==
  /\ cr[f] # NoPath
  /\ dstate[cr[f][1]] = "linked"
  /\ lx.d # cr[f][1]
  /\ AddFile(f)

\* Clients whose parent is still in the tree when add_child runs, at any
\* point of a lease walk of that parent.
LiveParentAddFile(f) ==
  /\ cr[f] # NoPath
  /\ dstate[cr[f][1]] = "linked"
  /\ AddFile(f)

\* Clients load a directory whose files are all on disk.  Directories are
\* synced and dumped to the backing path k1 the files were created with.
LoadOnDisk(d) ==
  /\ \A f \in FilesIn(d) : fstate[f] = "on_disk"
  /\ DirLoad(d)

NextWith(Add(_), Flg(_), Dir(_), Lst) ==
  \/ \E d \in Dirs : CreateDir(d) \/ RemoveDir(d) \/ LeaseExpireDir(d) \/ SwDir(d)
  \/ \E f \in Files, d \in Dirs, nm \in Names : ResolveParent(f, d, nm)
  \/ \E f \in Files : Add(f)
  \/ \E d \in Dirs, nm \in Names : RemoveFile(d, nm) \/ LeaseExpireFile(d, nm)
  \/ \E f \in Files : Flg(f)
  \/ \E d \in Dirs : Dir(d)
  \/ LeaseDirStep \/ LeaseDirEnd
  \/ SwEpoch \/ SwRootChildren \/ SwChildren \/ SwDirDone \/ SwEpochDone \/ SwSync
  \/ SwCopy \/ \E nm \in Names : SwStatus(nm)
  \/ SwExit \/ Stop \/ Terminated
  \/ Lst

\* The tree without backing-path changes, under careful clients.
NoSetFlags(f) == FALSE
AnySetFlags(f) == \E fl \in Fl : SetFlags(f, fl)

\* sync, dump and load of a directory by a client.
NoDirOp(d) == FALSE
AnyDirOp(d) == DirSync(d, k1) \/ DirDump(d, k1) \/ LoadOnDisk(d)

\* Without, or with, a client listing the tree recursively.
NoListing == FALSE
Listing == LsBegin \/ LsNext

NextTree == NextWith(SafeAddFile, NoSetFlags, NoDirOp, NoListing)

\* Pinning and mapping changed, directories synced, dumped and loaded,
\* while both workers run.
NextFlags == NextWith(SafeAddFile, AnySetFlags, AnyDirOp, NoListing)
SpecFlags == Init /\ [][NextFlags]_vars /\ Fairness

NextWalkCreate  == NextWith(LiveParentAddFile, NoSetFlags, NoDirOp, NoListing)
SpecWalkCreate  == Init /\ [][NextWalkCreate]_vars
NextEraseUB     == NextTree
\* The tree's walkers against its writers, a recursive listing included.
NextRace        == NextWith(SafeAddFile, NoSetFlags, NoDirOp, Listing)
SpecRace        == Init /\ [][NextRace]_vars
SpecEraseUB     == Init /\ [][NextEraseUB]_vars

\* The sync worker against backing-path changes.
NextSync ==
  \/ NextTree
  \/ \E f \in Files, k \in Backings : SetBacking(f, k)
SpecSync == Init /\ [][NextSync]_vars

=============================================================================
