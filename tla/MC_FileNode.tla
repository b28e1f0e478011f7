---------------------------- MODULE MC_FileNode ----------------------------
(***************************************************************************)
(* Instantiates FileNode for TLC: two files, a small slot space and an     *)
(* allocator just large enough for splits and a reload to compete.         *)
(***************************************************************************)
EXTENDS FileNode

CONSTANTS f1, f2, b1, b2, b3, b4, b5, b6, b7, b8

MCNodes  == {f1, f2}
MCBlocks == {b1, b2, b3, b4, b5}

\* One file and four blocks: enough for a file split into every chain
\* layout SLOT_MAX = 3 admits while a split is in flight.
OneNode   == {f1}
FourBlocks == {b1, b2, b3, b4}
ThreeBlocks == {b1, b2, b3}
\* Two-replica chains: four chains of two blocks, every layout SLOT_MAX = 3
\* admits with a split in flight.
EightBlocks == {b1, b2, b3, b4, b5, b6, b7, b8}
TwoBlocks == {b1, b2}
MCFlags  == [n \in Nodes |-> IF n = f1 THEN {"mapped"} ELSE {}]

\* Explicit split and merge of slot ranges of a live file.
\* Callers split only ranges of two slots or more.
NextRepartition ==
  \/ \E n \in Nodes :
       \/ Create(n)
       \/ \E b, e \in 0..SLOT_MAX :
            \/ b < e /\ SetupSplit(n, b, e)
            \/ SetupMerge(n, b, e)
  \/ \E c \in ctxs : Finalize(c)

SpecRepartition == Init /\ [][NextRepartition]_vars /\ Fairness

\* Auto-scaling: add_block_to_file racing explicit merges.
NextCapacity ==
  \/ \E n \in Nodes :
       \/ Create(n) \/ SetupAddBlock(n)
       \/ \E b, e \in 0..SLOT_MAX : SetupMerge(n, b, e)
  \/ \E c \in ctxs : Finalize(c)

SpecCapacity == Init /\ [][NextCapacity]_vars /\ Fairness

\* Dump, load, sync, remove and lease expiry of single-chain files, in any
\* order: ds_dir_node::dump (956-957) and the lease loop (917-918) call
\* dump and handle_lease_expiry on every child, in memory or on disk, and
\* load does not look at the mode either.
NextPersistence ==
  \E n \in Nodes :
    \/ Create(n) \/ Sync(n) \/ RemoveFile(n)
    \/ Dump(n) \/ HandleLeaseExpiry(n) \/ Load(n)

SpecPersistence == Init /\ [][NextPersistence]_vars

\* add_block_to_file alone.
NextAddBlock ==
  \/ \E n \in Nodes : Create(n) \/ SetupAddBlock(n)
  \/ \E c \in ctxs : FinalizeSplit(c) \/ FinalizeFails(c)

SpecAddBlock == Init /\ [][NextAddBlock]_vars /\ Fairness

\* Splits of multi-slot ranges followed by Op (dump).
NextSplitThen(Op(_)) ==
  \/ \E n \in Nodes :
       \/ Create(n) \/ Op(n)
       \/ \E b, e \in 0..SLOT_MAX : b < e /\ SetupSplit(n, b, e)
  \/ \E c \in ctxs : FinalizeSplit(c) \/ FinalizeFails(c)

SpecSplitDump == Init /\ [][NextSplitThen(Dump)]_vars /\ Fairness

=============================================================================
