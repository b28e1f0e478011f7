------------------------------ MODULE FileNode ------------------------------
(***************************************************************************)
(* The capacity and persistence orchestrator of a file node               *)
(* (ds_file_node in src/libmmux/src/mmux/directory/fs/directory_tree.h),   *)
(* together with the two pieces of shared state it drives: the block       *)
(* allocator and the per-block state held by the storage servers.          *)
(*                                                                         *)
(* Every method of ds_file_node takes the node's writer lock for its whole *)
(* body, so each method is one atomic action here.  The lock is NOT held  *)
(* between setup_* and finalize_*: directory_tree calls them one after the *)
(* other, and other threads run in between.  An in-flight export_ctx      *)
(* (the value setup_* returns and finalize_* consumes) is an element of    *)
(* ctxs.                                                                   *)
(***************************************************************************)
EXTENDS Integers, Sequences, FiniteSets, SequencesExt

CONSTANTS
  Nodes,          \* file nodes (model values)
  Blocks,         \* block identifiers the allocator hands out
  NoNode,         \* owner of a storage block that no file has set up
  SLOT_MAX,       \* storage::block::SLOT_MAX: slots are 0..SLOT_MAX
  CHAIN_LENGTH,   \* data_status::chain_length() of every file
  NUM_BLOCKS,     \* num_blocks passed to create
  Sizes,          \* values storage_size() of a tail block may return
  Flags,          \* [Nodes -> SUBSET {"pinned", "mapped", "static_provisioned"}]
  STORAGE_FAULTS, \* whether a storage_management call may throw
  MAX_INFLIGHT    \* bound: threads between a setup_* and its finalize_*

ASSUME NoNode \notin Nodes
ASSUME SLOT_MAX \in Nat \ {0} /\ CHAIN_LENGTH \in Nat \ {0}
ASSUME NUM_BLOCKS \in 1..SLOT_MAX /\ Sizes \subseteq Nat
ASSUME Flags \in [Nodes -> SUBSET {"pinned", "mapped", "static_provisioned"}]
ASSUME STORAGE_FAULTS \in BOOLEAN /\ MAX_INFLIGHT \in Nat \ {0}

VARIABLES
  nstate,   \* "none" before create, "live" in the namespace, "gone" removed
  chains,   \* dstatus_.data_blocks(): sequence of replica_chain records
  adding,   \* adding_: recipient chains of splits not yet finalized
  ctxs,     \* export_ctx values held by threads between setup and finalize
  free,     \* the allocator's free pool
  srv,      \* storage-server state of each block
  backing,  \* slot ranges "{lo}_{hi}" written under each file's backing path
  stray     \* history: <<node, block>> of storage calls a node issued to a
            \* block that was not set up for it

vars == <<nstate, chains, adding, ctxs, free, srv, backing, stray>>

CL == CHAIN_LENGTH

Statuses == {"stable", "exporting", "importing"}          \* chain_status
Modes    == {"in_memory", "in_memory_grace", "flushing", "on_disk"}

Chain == [blocks : Seq(Blocks), lo : Int, hi : Int,
          status : Statuses, mode : Modes]

\* A block no file has set up, or that reset/dump cleared.
Empty == [owner |-> NoNode, lo |-> 0, hi |-> 0, st |-> "reset"]

-----------------------------------------------------------------------------
(***************************************************************************)
(* Helpers                                                                 *)
(***************************************************************************)

BlocksOf(c) == ToSet(c.blocks)

\* The range of chain i of nb as create and load compute it: slots_per_block
\* = SLOT_MAX / nb, the last chain stretched to SLOT_MAX.  With nb above
\* SLOT_MAX, slots_per_block is 0 and every chain but the last is empty.
SlotLo(nb, i) == (i - 1) * (SLOT_MAX \div nb)
SlotHi(nb, i) == IF i = nb THEN SLOT_MAX ELSE i * (SLOT_MAX \div nb) - 1

\* block_allocator::allocate(k): k distinct free blocks, in some order.
Allocated(k) == SetToSeq(CHOOSE S \in SUBSET free : Cardinality(S) = k)

\* data_status::find_replica_chain: first chain with the same block names;
\* 0 when there is none (the method then throws).
FindChain(cs, c) ==
  IF \E i \in DOMAIN cs : cs[i].blocks = c.blocks
  THEN CHOOSE i \in DOMAIN cs :
         /\ cs[i].blocks = c.blocks
         /\ \A j \in 1..(i - 1) : cs[j].blocks # c.blocks
  ELSE 0

\* First chain whose slot range is exactly [lo, hi], 0 when none.
FindRange(cs, lo, hi) ==
  IF \E i \in DOMAIN cs : cs[i].lo = lo /\ cs[i].hi = hi
  THEN CHOOSE i \in DOMAIN cs : /\ cs[i].lo = lo /\ cs[i].hi = hi
                                /\ \A j \in 1..(i - 1) :
                                     ~(cs[j].lo = lo /\ cs[j].hi = hi)
  ELSE 0

NumSlots(c) == c.hi - c.lo + 1

\* Storage calls of node n on blocks B that were not set up for n.
Strays(n, B) == {<<n, b>> : b \in {x \in B : srv[x].owner # n}}

\* setup_block / setup_and_set_importing of every block of chains cs.
SetUp(s, n, cs, st) ==
  [b \in DOMAIN s |->
     IF \E i \in DOMAIN cs : b \in BlocksOf(cs[i])
     THEN LET i == CHOOSE i \in DOMAIN cs : b \in BlocksOf(cs[i])
          IN [owner |-> n, lo |-> cs[i].lo, hi |-> cs[i].hi, st |-> st]
     ELSE s[b]]

\* set_exporting / set_importing: the block enters the given state.
Marked(s, B, st) ==
  [b \in DOMAIN s |-> IF b \in B THEN [s[b] EXCEPT !.st = st] ELSE s[b]]

\* set_regular(b, lo, hi)
Regular(s, B, lo, hi) ==
  [b \in DOMAIN s |->
     IF b \in B THEN [s[b] EXCEPT !.st = "regular", !.lo = lo, !.hi = hi]
     ELSE s[b]]

\* reset(b), and dump(b) which flushes the block and then clears it.
Cleared(s, B) == [b \in DOMAIN s |-> IF b \in B THEN Empty ELSE s[b]]

\* data_status::mark_dumped(i) / mode(i, on_disk): chain i goes on disk.
\* An index past the end writes outside the vector; modelled as lost.
MarkDumped(cs, i) ==
  IF i \in DOMAIN cs THEN [cs EXCEPT ![i].mode = "on_disk"] ELSE cs

AllChainBlocks(cs) == UNION {BlocksOf(cs[i]) : i \in DOMAIN cs}

\* Mutant: the block state "regular" is recorded as the chain's status.
ResizedRegular(c, lo, hi) == [c EXCEPT !.lo = lo, !.hi = hi, !.status = "regular"]

\* Mutant: the status is left as it was.
ResizedKeepStatus(c, lo, hi) == [c EXCEPT !.lo = lo, !.hi = hi]

\* update_data_block_slots(i, lo, hi) then set_data_block_status(i, stable).
Resized(c, lo, hi) == [c EXCEPT !.lo = lo, !.hi = hi, !.status = "stable"]

-----------------------------------------------------------------------------
Init ==
  /\ nstate = [n \in Nodes |-> "none"]
  /\ chains = [n \in Nodes |-> <<>>]
  /\ adding = [n \in Nodes |-> <<>>]
  /\ ctxs = {}
  /\ free = Blocks
  /\ srv = [b \in Blocks |-> Empty]
  /\ backing = [n \in Nodes |-> {}]
  /\ stray = {}

-----------------------------------------------------------------------------
(***************************************************************************)
(* Namespace operations that create and destroy a file node.  Their code  *)
(* (directory_tree.cpp) is not in the repository: modelled from spec.md    *)
(* 4.3.  create partitions [0, SLOT_MAX] the way load does, sets every     *)
(* block up, and fails with no change when the allocator is short.         *)
(***************************************************************************)
Create(n) ==
  /\ nstate[n] = "none"
  /\ Cardinality(free) >= NUM_BLOCKS * CL
  /\ LET S  == Allocated(NUM_BLOCKS * CL)
         cs == [i \in 1..NUM_BLOCKS |->
                  [blocks |-> SubSeq(S, (i - 1) * CL + 1, i * CL),
                   lo |-> SlotLo(NUM_BLOCKS, i), hi |-> SlotHi(NUM_BLOCKS, i),
                   status |-> "stable", mode |-> "in_memory"]]
     IN /\ nstate' = [nstate EXCEPT ![n] = "live"]
        /\ chains' = [chains EXCEPT ![n] = cs]
        /\ free' = free \ ToSet(S)
        /\ srv' = SetUp(srv, n, cs, "regular")
  /\ UNCHANGED <<adding, ctxs, backing, stray>>

\* remove(p) of a file: reset the blocks of its chains that still hold data
\* (an on_disk chain's blocks went back to the allocator when it was
\* dumped), free them, unlink the node.  The node object lives on in any
\* in-flight export_ctx.
RemoveFile(n) ==
  /\ nstate[n] = "live"
  /\ LET B == UNION {BlocksOf(c) : c \in {c \in ToSet(chains[n]) :
                                              c.mode # "on_disk"}}
     IN /\ srv' = Cleared(srv, B)
        /\ free' = free \cup B
        /\ stray' = stray \cup Strays(n, B)
  /\ nstate' = [nstate EXCEPT ![n] = "gone"]
  /\ UNCHANGED <<chains, adding, ctxs, backing>>

-----------------------------------------------------------------------------
(***************************************************************************)
(* Re-partitioning: setup_add_block, setup_slot_range_split,               *)
(* finalize_slot_range_split, setup_slot_range_merge,                      *)
(* finalize_slot_range_merge.                                              *)
(***************************************************************************)

\* setup_add_block's donor: the first chain of largest tail size among the
\* stable chains with more than one slot and a size above 0; chain 1 (index
\* 0 in the code) when no chain qualifies, whatever its status.
Donor(cs, sz) ==
  LET E == {i \in DOMAIN cs : /\ sz[i] > 0
                              /\ cs[i].status = "stable"
                              /\ NumSlots(cs[i]) # 1}
  IN IF E = {} THEN 1
     ELSE CHOOSE i \in E : \A j \in E : sz[j] < sz[i] \/ (sz[j] = sz[i] /\ i <= j)

\* The part setup_add_block and setup_slot_range_split share once the donor
\* i is chosen: mark it exporting, allocate the recipient of the upper half,
\* setup_and_set_importing each recipient block, set_exporting each donor
\* block, push the recipient on adding_.  allocate throws when the pool is
\* short and any storage call may throw: nothing is rolled back.
StartSplit(n, i) ==
  LET cs1  == [chains[n] EXCEPT ![i].status = "exporting"]
      from == cs1[i]
      mid  == (from.lo + from.hi) \div 2
  IN
  /\ chains' = [chains EXCEPT ![n] = cs1]
  /\ \/ /\ Cardinality(free) < CL
        /\ UNCHANGED <<adding, ctxs, free, srv, stray>>
     \/ /\ Cardinality(free) >= CL
        /\ LET to == [blocks |-> Allocated(CL), lo |-> mid + 1, hi |-> from.hi,
                      status |-> "stable", mode |-> "in_memory"]
               \* the first k - 1 of the 2 * CL storage calls
               Done(k) == [blocks |-> SubSeq(to.blocks, 1, Min({k - 1, CL}))]
               Exp(k)  == ToSet(SubSeq(from.blocks, 1, Max({0, k - 1 - CL})))
           IN
           /\ free' = free \ BlocksOf(to)
           /\ \/ /\ srv' = Marked(SetUp(srv, n, <<to>>, "importing"),
                                  BlocksOf(from), "exporting")
                 /\ stray' = stray \cup Strays(n, BlocksOf(from))
                 /\ adding' = [adding EXCEPT ![n] = Append(@, to)]
                 /\ ctxs' = ctxs \cup {[kind |-> "split", node |-> n,
                                        from |-> from, to |-> to]}
              \/ /\ STORAGE_FAULTS
                 /\ \E k \in 1..(2 * CL) :
                      /\ srv' = Marked(SetUp(srv, n, <<[to EXCEPT !.blocks =
                                         Done(k).blocks]>>, "importing"),
                                       Exp(k), "exporting")
                      /\ stray' = stray \cup Strays(n, Exp(k))
                 /\ UNCHANGED <<adding, ctxs>>
  /\ UNCHANGED <<nstate, backing>>

\* add_block_to_file -> setup_add_block.  The SLOT_MAX test counts only the
\* chains of the data status, not adding_.
SetupAddBlock(n) ==
  /\ nstate[n] = "live"
  /\ Cardinality(ctxs) < MAX_INFLIGHT
  /\ Len(chains[n]) # SLOT_MAX
  /\ \E sz \in [DOMAIN chains[n] -> Sizes] : StartSplit(n, Donor(chains[n], sz))

\* Mutant: the check that the chain is not already re-partitioning is lost.
SetupSplitAnyStatus(n, slot_begin, slot_end) ==
  LET i == FindRange(chains[n], slot_begin, slot_end)
  IN /\ nstate[n] = "live"
     /\ Cardinality(ctxs) < MAX_INFLIGHT
     /\ Len(chains[n]) # SLOT_MAX
     /\ i # 0
     /\ StartSplit(n, i)

\* split_slot_range(p, b, e) -> setup_slot_range_split: the first chain with
\* range exactly [b, e], refused when it is exporting or importing.
SetupSplit(n, slot_begin, slot_end) ==
  LET i == FindRange(chains[n], slot_begin, slot_end)
  IN /\ nstate[n] = "live"
     /\ Cardinality(ctxs) < MAX_INFLIGHT
     /\ Len(chains[n]) # SLOT_MAX
     /\ i # 0
     /\ chains[n][i].status = "stable"
     /\ StartSplit(n, i)

\* Mutant: the donor's blocks are set regular on the whole range they had
\* before the split.
FinalizeSplitOldRange(c) ==
  LET n   == c.node
      i   == FindChain(chains[n], c.from)
      mid == (c.from.lo + c.from.hi) \div 2
  IN
  /\ c \in ctxs /\ c.kind = "split" /\ i # 0
  /\ ctxs' = ctxs \ {c}
  /\ chains' = [chains EXCEPT ![n] =
        InsertAt([chains[n] EXCEPT ![i] = Resized(@, c.from.lo, mid)], i + 1, c.to)]
  /\ adding' = [adding EXCEPT ![n] = RemoveFirst(@, c.to)]
  /\ srv' = Regular(Regular(srv, BlocksOf(c.from), c.from.lo, c.from.hi),
                    BlocksOf(c.to), mid + 1, c.from.hi)
  /\ stray' = stray \cup Strays(n, BlocksOf(c.from) \cup BlocksOf(c.to))
  /\ UNCHANGED <<nstate, free, backing>>

\* finalize_slot_range_split: shrink the donor to [b, mid], mark it stable,
\* insert the recipient after it, drop it from adding_, set_regular both.
FinalizeSplit(c) ==
  LET n   == c.node
      cs  == chains[n]
      i   == FindChain(cs, c.from)
      mid == (c.from.lo + c.from.hi) \div 2
  IN
  /\ c \in ctxs
  /\ c.kind = "split"
  /\ ctxs' = ctxs \ {c}
  /\ i # 0
  /\ chains' = [chains EXCEPT ![n] =
        InsertAt([cs EXCEPT ![i] = Resized(@, c.from.lo, mid)], i + 1, c.to)]
  /\ adding' = [adding EXCEPT ![n] = RemoveFirst(@, c.to)]
  /\ srv' = Regular(Regular(srv, BlocksOf(c.from), c.from.lo, mid),
                    BlocksOf(c.to), mid + 1, c.from.hi)
  /\ stray' = stray \cup Strays(n, BlocksOf(c.from) \cup BlocksOf(c.to))
  /\ UNCHANGED <<nstate, free, backing>>

\* merge_slot_range(p, b, e) -> setup_slot_range_merge: the chain with range
\* [b, e] exports to its right neighbour, which must not be exporting.  The
\* export_ctx holds both chains as read before their status changes.
SetupMerge(n, slot_begin, slot_end) ==
  LET cs   == chains[n]
      i    == FindRange(cs, slot_begin, slot_end)
      from == cs[i]
      to   == cs[i + 1]
      Imp(k) == ToSet(SubSeq(to.blocks, 1, Min({k - 1, CL})))
      Exp(k) == ToSet(SubSeq(from.blocks, 1, Max({0, k - 1 - CL})))
  IN
  /\ nstate[n] = "live"
  /\ Cardinality(ctxs) < MAX_INFLIGHT
  /\ Len(cs) # 1
  /\ slot_end # SLOT_MAX
  /\ i # 0
  /\ from.status = "stable"
  /\ i + 1 \in DOMAIN cs
  /\ to.status # "exporting"
  /\ chains' = [chains EXCEPT ![n] = [cs EXCEPT ![i].status = "exporting",
                                                ![i + 1].status = "importing"]]
  /\ \/ /\ srv' = Marked(Marked(srv, BlocksOf(to), "importing"),
                         BlocksOf(from), "exporting")
        /\ stray' = stray \cup Strays(n, BlocksOf(from) \cup BlocksOf(to))
        /\ ctxs' = ctxs \cup {[kind |-> "merge", node |-> n,
                               from |-> from, to |-> to]}
     \/ /\ STORAGE_FAULTS
        /\ \E k \in 1..(2 * CL) :
             /\ srv' = Marked(Marked(srv, Imp(k), "importing"),
                              Exp(k), "exporting")
             /\ stray' = stray \cup Strays(n, Imp(k) \cup Exp(k))
        /\ UNCHANGED ctxs
  /\ UNCHANGED <<nstate, adding, free, backing>>

\* Mutant: the donor's blocks are reset but never given back to the
\* allocator.
FinalizeMergeNoFree(c) ==
  LET n   == c.node
      cs  == chains[n]
      j   == FindChain(cs, c.to)
      cs1 == [cs EXCEPT ![j] = Resized(@, c.from.lo, c.to.hi)]
      i   == FindChain(cs1, c.from)
  IN
  /\ c \in ctxs /\ c.kind = "merge" /\ j # 0 /\ i # 0
  /\ ctxs' = ctxs \ {c}
  /\ chains' = [chains EXCEPT ![n] = RemoveAt(cs1, i)]
  /\ srv' = Regular(Cleared(srv, BlocksOf(c.from)), BlocksOf(c.to),
                    c.from.lo, c.to.hi)
  /\ stray' = stray \cup Strays(n, BlocksOf(c.from) \cup BlocksOf(c.to))
  /\ UNCHANGED <<nstate, adding, free, backing>>

\* Mutant: the merged range is kept in the donor's blocks and the partner's
\* are dropped and freed.
FinalizeMergeKeepDonor(c) ==
  LET n   == c.node
      cs  == chains[n]
      i   == FindChain(cs, c.from)
      cs1 == [cs EXCEPT ![i] = Resized(@, c.from.lo, c.to.hi)]
      j   == FindChain(cs1, c.to)
  IN
  /\ c \in ctxs /\ c.kind = "merge" /\ j # 0 /\ i # 0
  /\ ctxs' = ctxs \ {c}
  /\ chains' = [chains EXCEPT ![n] = RemoveAt(cs1, j)]
  /\ srv' = Regular(Cleared(srv, BlocksOf(c.to)), BlocksOf(c.from),
                    c.from.lo, c.to.hi)
  /\ free' = free \cup BlocksOf(c.to)
  /\ stray' = stray \cup Strays(n, BlocksOf(c.from) \cup BlocksOf(c.to))
  /\ UNCHANGED <<nstate, adding, backing>>

\* finalize_slot_range_merge: widen the partner to [b, partner.end], mark it
\* stable, drop the donor, reset the donor's blocks, set_regular the
\* partner's, free the donor's blocks.
FinalizeMerge(c) ==
  LET n   == c.node
      cs  == chains[n]
      lo  == c.from.lo
      hi  == c.to.hi
      j   == FindChain(cs, c.to)
      cs1 == [cs EXCEPT ![j] = Resized(@, lo, hi)]
      i   == FindChain(cs1, c.from)
  IN
  /\ c \in ctxs
  /\ c.kind = "merge"
  /\ ctxs' = ctxs \ {c}
  /\ j # 0
  \* A donor gone while its partner stays (line 812 throwing after the
  \* partner was widened) needs the donor removed by another thread; no
  \* action removes an exporting chain but this one, so i # 0 whenever
  \* j # 0.
  /\ i # 0
  /\ chains' = [chains EXCEPT ![n] = RemoveAt(cs1, i)]
  /\ srv' = Regular(Cleared(srv, BlocksOf(c.from)), BlocksOf(c.to), lo, hi)
  /\ free' = free \cup BlocksOf(c.from)
  /\ stray' = stray \cup Strays(n, BlocksOf(c.from) \cup BlocksOf(c.to))
  /\ UNCHANGED <<nstate, adding, backing>>

\* Mutant: finalize_slot_range_split issues its set_regular calls before it
\* looks the donor up.
FinalizeFailsAfterRegular(c) ==
  /\ c \in ctxs
  /\ FindChain(chains[c.node], IF c.kind = "split" THEN c.from ELSE c.to) = 0
  /\ ctxs' = ctxs \ {c}
  /\ stray' = IF c.kind = "split"
              THEN stray \cup Strays(c.node, BlocksOf(c.from) \cup BlocksOf(c.to))
              ELSE stray
  /\ srv' = IF c.kind = "split"
            THEN LET mid == (c.from.lo + c.from.hi) \div 2
                 IN Regular(Regular(srv, BlocksOf(c.from), c.from.lo, mid),
                            BlocksOf(c.to), mid + 1, c.from.hi)
            ELSE srv
  /\ UNCHANGED <<nstate, chains, adding, free, backing>>

\* Both finalize methods start with find_replica_chain of the chain they
\* update first (the donor of a split, the partner of a merge); when it is
\* gone from the data status (merged away, replaced by load) it throws
\* before any change, and the thread's export_ctx is dropped.
FinalizeFails(c) ==
  /\ c \in ctxs
  /\ FindChain(chains[c.node], IF c.kind = "split" THEN c.from ELSE c.to) = 0
  /\ ctxs' = ctxs \ {c}
  /\ UNCHANGED <<nstate, chains, adding, free, srv, backing, stray>>

-----------------------------------------------------------------------------
(***************************************************************************)
(* Persistence: sync, dump, load, handle_lease_expiry.                     *)
(***************************************************************************)

\* The segment "{b}_{e}" each chain is written under.
Segment(c) == <<c.lo, c.hi>>

InMemory(c) == c.mode \in {"in_memory", "in_memory_grace"}

\* Mutant: the mode test is lost and every chain's tail is synced.
SyncEvery(n) ==
  /\ nstate[n] = "live"
  /\ backing' = [backing EXCEPT ![n] = @ \cup {Segment(c) : c \in ToSet(chains[n])}]
  /\ stray' = stray \cup Strays(n, {Last(c.blocks) : c \in ToSet(chains[n])})
  /\ UNCHANGED <<nstate, chains, adding, ctxs, free, srv>>

\* sync: storage sync of the tail of every in-memory chain.
Sync(n) ==
  LET C == {c \in ToSet(chains[n]) : InMemory(c)}
  IN
  /\ nstate[n] = "live"
  /\ backing' = [backing EXCEPT ![n] = @ \cup {Segment(c) : c \in C}]
  /\ stray' = stray \cup Strays(n, {Last(c.blocks) : c \in C})
  /\ UNCHANGED <<nstate, chains, adding, ctxs, free, srv>>

\* Mutant: the blocks are dumped and handed back but mark_dumped is never
\* called.
DumpUnmarked(n) ==
  LET B == AllChainBlocks(chains[n])
  IN
  /\ nstate[n] = "live"
  /\ srv' = Cleared(srv, B)
  /\ free' = free \cup B
  /\ backing' = [backing EXCEPT ![n] = @ \cup {Segment(chains[n][k]) : k \in DOMAIN chains[n]}]
  /\ stray' = stray \cup Strays(n, B)
  /\ UNCHANGED <<nstate, chains, adding, ctxs>>

\* dump: for every chain, dump the tail (position chain_length - 1) and
\* mark_dumped(chain_length - 1), reset the other positions; every block is
\* cleared, and directory_tree::dump frees the cleared blocks.  The index
\* passed to mark_dumped is the position in the chain, not the chain's index.
Dump(n) ==
  LET cs == chains[n]
      B  == AllChainBlocks(cs)
  IN
  /\ nstate[n] = "live"
  /\ srv' = Cleared(srv, B)
  /\ free' = free \cup B
  /\ chains' = [chains EXCEPT ![n] = MarkDumped(cs, CL)]
  /\ backing' = [backing EXCEPT ![n] = @ \cup {Segment(cs[k]) : k \in DOMAIN cs}]
  /\ stray' = stray \cup Strays(n, B)
  /\ UNCHANGED <<nstate, adding, ctxs>>

\* load: re-partition [0, SLOT_MAX] into as many chains as the data status
\* has, allocate each, setup_block and load every block, then
\* mark_loaded(i, names), which records the names, in_memory and stable but
\* keeps the chain's old slot range.  allocate throws part-way when the
\* pool runs short, leaving the chains before it loaded.
Load(n) ==
  LET cs  == chains[n]
      nb  == Len(cs)
      k   == Min({nb, Cardinality(free) \div CL})
      S   == Allocated(k * CL)
      new == [i \in 1..k |->
                [blocks |-> SubSeq(S, (i - 1) * CL + 1, i * CL),
                 lo |-> SlotLo(nb, i), hi |-> SlotHi(nb, i),
                 status |-> "stable", mode |-> "in_memory"]]
  IN
  /\ nstate[n] = "live"
  /\ k > 0
  /\ free' = free \ ToSet(S)
  /\ srv' = SetUp(srv, n, new, "regular")
  /\ chains' = [chains EXCEPT ![n] =
        [i \in DOMAIN cs |->
           IF i <= k THEN [cs[i] EXCEPT !.blocks = new[i].blocks,
                                        !.mode = "in_memory", !.status = "stable"]
           ELSE cs[i]]]
  /\ UNCHANGED <<nstate, adding, ctxs, backing, stray>>

\* handle_lease_expiry of a file that is not pinned, and the parent's
\* erase of the child when it returns true.  A mapped file is flushed like
\* dump (same mode(chain_length - 1, on_disk) index) and kept; any other
\* file has every block reset and is unlinked.  The cleared blocks are freed.
HandleLeaseExpiry(n) ==
  LET cs == chains[n]
      B  == AllChainBlocks(cs)
  IN
  /\ nstate[n] = "live"
  /\ "pinned" \notin Flags[n]
  /\ srv' = Cleared(srv, B)
  /\ free' = free \cup B
  /\ stray' = stray \cup Strays(n, B)
  /\ \/ /\ "mapped" \in Flags[n]
        /\ chains' = [chains EXCEPT ![n] = MarkDumped(cs, CL)]
        /\ backing' = [backing EXCEPT ![n] = @ \cup {Segment(cs[k]) : k \in DOMAIN cs}]
        /\ UNCHANGED nstate
     \/ /\ "mapped" \notin Flags[n]
        /\ nstate' = [nstate EXCEPT ![n] = "gone"]
        /\ UNCHANGED <<chains, backing>>
  /\ UNCHANGED <<adding, ctxs>>

\* The thread holding export_ctx c calls the finalize_* of its kind.
Finalize(c) == FinalizeSplit(c) \/ FinalizeMerge(c) \/ FinalizeFails(c)

-----------------------------------------------------------------------------
Next ==
  \/ \E n \in Nodes :
       \/ Create(n) \/ RemoveFile(n)
       \/ SetupAddBlock(n)
       \/ \E b, e \in 0..SLOT_MAX : SetupSplit(n, b, e) \/ SetupMerge(n, b, e)
       \/ Sync(n) \/ Dump(n) \/ Load(n) \/ HandleLeaseExpiry(n)
  \/ \E c \in ctxs : Finalize(c)

\* The thread that ran setup_* goes on to call finalize_*: every in-flight
\* export_ctx, named by the first block it brings in (the recipient of a
\* split, the donor of a merge), is eventually finalized.
Key(c) == <<c.kind, Head(IF c.kind = "split" THEN c.to.blocks ELSE c.from.blocks)>>

Fairness ==
  \A k \in {"split", "merge"} \X Blocks :
    WF_vars(\E c \in ctxs : Key(c) = k /\ Finalize(c))

Spec == Init /\ [][Next]_vars /\ Fairness

-----------------------------------------------------------------------------
(***************************************************************************)
(* Properties                                                              *)
(***************************************************************************)

Ctx == [kind : {"split", "merge"}, node : Nodes, from : Chain, to : Chain]

TypeOK ==
  /\ nstate \in [Nodes -> {"none", "live", "gone"}]
  /\ chains \in [Nodes -> Seq(Chain)]
  /\ adding \in [Nodes -> Seq(Chain)]
  /\ ctxs \subseteq Ctx
  /\ free \subseteq Blocks
  /\ srv \in [Blocks -> [owner : Nodes \cup {NoNode}, lo : Int, hi : Int,
                         st : {"reset", "regular", "importing", "exporting"}]]
  /\ backing \in [Nodes -> SUBSET (Int \X Int)]
  /\ stray \subseteq Nodes \X Blocks

Live == {n \in Nodes : nstate[n] = "live"}

\* spec.md 8.1: the slot ranges of a live file's chains, in order, are
\* non-empty and tile [0, SLOT_MAX] with no gap and no overlap, and every
\* recipient still on adding_ lies inside an exporting chain of the file.
\* Breaking it takes a setup and a finalize of two threads interleaved.
SlotPartition ==
  \A n \in Live :
    LET cs == chains[n] IN
    /\ Len(cs) > 0
    /\ cs[1].lo = 0
    /\ cs[Len(cs)].hi = SLOT_MAX
    /\ \A k \in DOMAIN cs : cs[k].lo <= cs[k].hi
    /\ \A k \in 1..(Len(cs) - 1) : cs[k + 1].lo = cs[k].hi + 1
    /\ \A a \in ToSet(adding[n]) :
         \E k \in DOMAIN cs : /\ cs[k].status = "exporting"
                              /\ cs[k].lo <= a.lo /\ a.hi <= cs[k].hi

\* What the storage servers serve agrees with the data status clients read:
\* every block of a stable in-memory chain of a live file is set up for that
\* file, regular, with exactly the chain's slot range.
StorageAgrees ==
  \A n \in Live : \A k \in DOMAIN chains[n] :
    LET c == chains[n][k] IN
    c.status = "stable" /\ InMemory(c) =>
      \A b \in BlocksOf(c) :
        srv[b] = [owner |-> n, lo |-> c.lo, hi |-> c.hi, st |-> "regular"]

\* No file node ever issues a storage call (set_regular, reset, dump, sync,
\* set_exporting, ...) to a block that is not set up for it: a block freed
\* and handed to another file must never be driven by the old one.
NoStrayCall == stray = {}

\* Every block named by an in-memory chain of a live file is held by the
\* allocator for it: not free, and in no other live file's in-memory chain.
InMemoryBlocksOwned ==
  \A n \in Live : \A k \in DOMAIN chains[n] :
    InMemory(chains[n][k]) =>
      /\ BlocksOf(chains[n][k]) \cap free = {}
      /\ \A m \in Live \ {n} : \A l \in DOMAIN chains[m] :
           InMemory(chains[m][l]) =>
             BlocksOf(chains[n][k]) \cap BlocksOf(chains[m][l]) = {}

\* spec.md 8.3 and 8.6: a block leaves the pool only to be used.  Every
\* allocated block is in a chain of a live file that still holds data, or in
\* the recipient of a split whose export_ctx a thread still holds.  A
\* recipient left on adding_ is not enough: only finalize_slot_range_split
\* takes a chain off adding_, so one whose finalize threw stays there for
\* good.
NoLeak ==
  \A b \in Blocks \ free :
    \/ \E n \in Live : \E k \in DOMAIN chains[n] :
         chains[n][k].mode # "on_disk" /\ b \in BlocksOf(chains[n][k])
    \/ \E c \in ctxs : c.kind = "split" /\ b \in BlocksOf(c.to)

\* A chain that a repartitioning marks exporting is eventually stable again
\* or gone from its file (merged away, file removed).
Exporting(n, b) ==
  \E k \in DOMAIN chains[n] : b \in BlocksOf(chains[n][k])
                             /\ chains[n][k].status = "exporting"

ExportingResolves ==
  \A n \in Nodes : \A b \in Blocks :
    Exporting(n, b) ~> (nstate[n] # "live" \/ ~Exporting(n, b))

-----------------------------------------------------------------------------
(***************************************************************************)
(* Refinement: the file node implements the layout SlotMap promises.  A    *)
(* live file's layout is its data status, chain by chain, each range held  *)
(* by its blocks while in memory and by none once on disk.                 *)
(***************************************************************************)
Layout ==
  [n \in Nodes |->
     IF nstate[n] = "live"
     THEN [k \in DOMAIN chains[n] |->
             [lo |-> chains[n][k].lo, hi |-> chains[n][k].hi,
              blocks |-> IF InMemory(chains[n][k]) THEN BlocksOf(chains[n][k])
                         ELSE {}]]
     ELSE <<>>]

SM == INSTANCE SlotMap WITH layout <- Layout

\* Every step of a file node (setup and finalize of a split or merge from
\* any thread, a failed storage call, sync, dump, load, lease expiry,
\* remove) is a step of SlotMap or leaves the layout unchanged: a split
\* cuts a range at its midpoint and keeps the donor's blocks on the lower
\* half, a merge keeps the partner's blocks, load brings ranges back with
\* their slots unchanged into blocks no range holds.
SlotMapSpec == SM!Spec


=============================================================================
