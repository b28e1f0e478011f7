# TLA+ models of the MMUX directory service

This directory holds TLA+ models of the directory service in
`src/libmmux/src/mmux/directory/fs/`, and the TLC configurations that check
them. The models focus on how a file's data is laid out over storage blocks
and how that layout changes at run time.

## The system

The directory keeps a namespace tree: `ds_dir_node` for directories and
`ds_file_node` for files (`directory_tree.h`).

Each file has a data status (`data_status`):
- a sequence of *replica chains*;
- each chain has `chain_length` storage blocks, a slot range inside
  `[0, SLOT_MAX]`, a `chain_status` (stable, exporting, importing) and a
  `storage_mode` (in_memory, in_memory_grace, flushing, on_disk).

A file node drives two shared services:
- **the block allocator**, which hands out and takes back block names;
- **the storage servers**, which set a block up for a file and slot range,
  mark it importing or exporting, set it regular, sync, dump, load and reset
  it.

Re-partitioning runs in two lock sections, called one after the other by the
`directory_tree` methods `add_block_to_file`, `split_slot_range` and
`merge_slot_range`:
- `setup_add_block`, `setup_slot_range_split` or `setup_slot_range_merge`
  marks the chains, allocates a recipient and calls the storage servers, then
  returns an `export_ctx`;
- `finalize_slot_range_split` or `finalize_slot_range_merge` later applies the
  new layout.

The file's lock is released between the two sections. Any other method of the
file can run in between: another split, a dump, a load, a lease expiry.

Background workers:
- the sync worker (`sync_worker.cpp`) periodically syncs mapped files;
- the lease expiry worker clears files whose lease has elapsed.

The clients and the storage manager talk to the directory over Thrift
(`directory_client.h`, `storage_management_client.cpp`, the service
factories).

`directory_tree.cpp`, `data_status`, `block_allocator` and the storage server
are not in the repository. They are modelled from `spec.md`, and marked
`spec_modelled` in `PROJECT.json`.

## Modules

### `FileNode.tla`

A set of file nodes, the allocator and the storage servers' per-block state.

**State:**

| Variable | What it models |
|---|---|
| `nstate[n]` | the file's place in the namespace: not created, live, or removed |
| `chains[n]` | `dstatus_.data_blocks()` |
| `adding[n]` | `adding_` |
| `ctxs` | every `export_ctx` held by a thread between setup and finalize |
| `free` | the allocator's pool |
| `srv[b]` | each block's owner, slot range and state on its storage server |
| `backing[n]` | the `{lo}_{hi}` segments written under the file's backing path |
| `stray` | history of storage calls a file issued to a block not set up for it |

**Actions.** Every method of `ds_file_node` holds the node's writer lock for its
whole body, so each method is one atomic action, with every storage and
allocator call it makes included:

| Action | Method |
|---|---|
| `SetupAddBlock` | `setup_add_block`, with the donor choice `Donor` and the shared body `StartSplit` |
| `SetupSplit` | `setup_slot_range_split` |
| `FinalizeSplit` | `finalize_slot_range_split` |
| `SetupMerge` | `setup_slot_range_merge` |
| `FinalizeMerge` | `finalize_slot_range_merge` |
| `FinalizeFails` | either finalize throwing at `find_replica_chain` when the chain it updates is gone |
| `Sync` | `sync` |
| `Dump` | `dump`, plus the caller freeing the cleared blocks |
| `Load` | `load` |
| `HandleLeaseExpiry` | `handle_lease_expiry`, plus the parent erasing the child and the caller freeing the blocks |
| `Create`, `RemoveFile` | the namespace operations, modelled from spec.md |

A setup whose allocation or storage call throws is a disjunct of the same
action. It keeps exactly the changes made before the throw: the donor marked
exporting, a prefix of the storage calls, and the allocated blocks. This is
because the code rolls nothing back.

### `MC_FileNode.tla`

Instantiates `FileNode` with model values and defines one next-state relation
per question. Each one is a subset of `Next` that lets TLC exhaust the
interesting interleavings within minutes:

| Relation | Operations |
|---|---|
| `NextRepartition` | create, splits of multi-slot ranges, merges, finalizes |
| `NextCapacity` | create, `add_block_to_file`, merges, finalizes |
| `NextPersistence` | create, sync, remove, dump, lease expiry or load of a file in any mode, as `ds_dir_node` calls them |
| `NextAddBlock`, `NextSplitThen(Dump)` | the narrow relations of the violation runs |

### `SlotMap.tla` and the refinement

`SlotMap` is what a file's layout promises its clients (spec.md 4.2, 4.4,
8.1). It is not a translation of code. Its one variable, `layout[n]`, is a
live file's sequence of slot ranges, each with the set of memory blocks that
hold it, or no blocks while the range is only in the backing store. Its
actions are:
- `Create`: a fresh tiling of `[0, SLOT_MAX]`;
- `Split`: a range cut at its midpoint, the upper half in fresh blocks;
- `Merge`: a range absorbed by its right neighbour's blocks;
- `Evict`: every range to the backing store;
- `Reload`: some ranges back into fresh blocks, with the same slots;
- `Drop`: the file is gone.

`FileNode.tla` ends with the refinement mapping `Layout`. It maps a live file
to its chains' ranges, with a chain's blocks when the chain is in memory and
none otherwise. `SM == INSTANCE SlotMap WITH layout <- Layout` makes
`SlotMapSpec == SM!Spec` a property of FileNode's runs. The setup steps,
storage calls, failed finalizes and syncs leave `Layout` unchanged, so they
are stuttering steps of `SlotMap`:
- the repartition run shows that splits and merges, with storage faults,
  implement it;
- the redump run shows dump, load, lease expiry and removal breaking it.
  They are called in any order, as `ds_dir_node` calls them. A second
  `dump` of a file already on disk frees blocks that another file has since
  been given. The next `load` then puts one block in two files' ranges, and
  `Reload` requires fresh blocks.

### `Namespace.tla`

The namespace tree and the two background walkers over it, taken from
`ds_dir_node` (`directory_tree.h` 841-1076) and `sync_worker.cpp`. Directories
sit under the root and files under directories. A file is seen only as:
- the blocks it holds in memory;
- its flags (pinned, mapped);
- its backing path;
- its mode.

Chain layout is `FileNode`'s subject.

**State:**

| Variable | What it models |
|---|---|
| `dstate[d]` | directory not created, linked in the root, or erased |
| `entries[d]` | `children_`: name to file (names are numbers, ordered like the `std::map` keys) |
| `fstate`, `fblocks`, `flags`, `backing` | each file's mode, in-memory blocks, `flags()` and `backing_path()` |
| `free` | the allocator's pool |
| `cr[f]` | a create between resolving its parent and `add_child` |
| `lx` | the lease worker inside a directory's `handle_lease_expiry`: the directory, the last name visited, `cleared`, `cleared_blocks` |
| `sw` | the sync worker's place in `sync_nodes`: its snapshot of directories and names, and the backing path it read |
| `stop` | `sync_worker::stop_` |
| `ls` | a client's `recursive_entries()` of the root: the subdirectory being walked and those still to come |
| `written` | history of every flush, as `<<backing path, file>>` |

**Locks.**
- Every `ds_dir_node` method holds that directory's lock.
- Path resolution takes the root's reader lock (`RootFree`). The root is held
  by a directory's lease expiry for its whole loop.
- The loop itself reads the directory's `children_` without the directory's
  lock. A create that already holds its parent pointer runs `add_child` under
  the parent's lock only.

**Actions:**

| Action | Code |
|---|---|
| `CreateDir`, `RemoveDir` | root `add_child` / `remove_child` |
| `ResolveParent`, `AddFile` | `create`: the parent resolved under the reader lock, then `add_child` with no check that the parent is still linked |
| `RemoveFile` | `remove_child`, with the file's blocks reset and freed |
| `SetFlags`, `SetBacking` | `ds_file_node::flags(int32_t)`, `backing_path(prefix)` |
| `LeaseExpireFile` | `ds_dir_node::handle_lease_expiry` for a file child: `Expire` is the file's `handle_lease_expiry` (pinned: nothing; mapped: dump, on_disk, kept; otherwise reset and erase) |
| `LeaseExpireDir`, `LeaseDirStep`, `LeaseDirEnd` | the same for a directory child: one step per loop iteration in key order; then erase if `cleared`, and free `cleared_blocks` |
| `DirSync`, `DirDump`, `DirLoad` | `ds_dir_node::sync`, `dump`, `load`: each child's method under the directory's lock. `DirLoad` loads children in name order until the allocator throws |
| `LsBegin`, `LsNext` | `recursive_entries` and `populate_recursive_entries`: the root's reader lock is held for the whole walk, and each subdirectory's `children_` is walked without that subdirectory's lock |
| `SwEpoch`, `SwRootChildren`, `SwDir`, `SwChildren`, `SwDirDone`, `SwStatus`, `SwCopy`, `SwSync`, `SwEpochDone` | `sync_nodes`, in these steps: <br>- `root->children()`, a walk with no lock, from `SwEpoch` to `SwRootChildren`; <br>- `get_child` of a directory; <br>- that directory's `children()`, again with no lock, from `SwDir` to `SwChildren`; <br>- `dstatus(path)` of a file, which returns a reference after the file's lock is released (`SwStatus`); <br>- the copy of that reference, with no lock, from `SwStatus` to `SwCopy`; <br>- `sync(path, backing)`. <br>An exception ends the epoch |
| `Stop`, `SwExit`, `Terminated` | `sync_worker::stop()` sets `stop_`, and the loop exits at its next test. `Terminated` is the service shut down |

`RootWritable` guards the steps that take the root's writer lock:
`CreateDir`, `RemoveDir` and `LeaseExpireDir`. Like `RootFree`, it waits for
a lease pass, and it also waits for a listing that holds the root's reader
lock.

**Undefined behaviour.** The loop erases the entry it visits, which is
undefined behaviour. With `UB_ERASE = TRUE` that step may end the loop; the
passing runs set it `FALSE`.

### `MC_Namespace.tla`

Instantiates `Namespace` with:
- one directory `d1` (`OneDir`) in every run;
- names `{1, 2}`, so that a file can be inserted behind the lease loop's
  iterator;
- one block per file (`NB = 1`);
- two backing paths.

The files differ between runs:
- **The passing run** has two files (`g1` mapped, `g2` pinned) and two
  blocks. `SetFlags` gives either file any flags, so every branch of lease
  expiry is taken.
- **The violation runs** have three files with fixed flags (`g3` has
  neither flag) and three blocks.

The relations differ in how a client's `add_child` may meet the tree:

| Relation | Clients |
|---|---|
| `NextTree` | create only under a linked directory outside its lease walk |
| `NextFlags` | the same, with flags changed at any time |
| `NextWalkCreate`, `NextEraseUB` | the interleaving each violation run needs, and nothing more |
| `NextSync` | `NextTree` with backing-path changes |
| `NextRace` | `NextTree` with a client's recursive listing |

Directory sync, dump and load (`AnyDirOp`) are part of `NextFlags`. Loading
is limited to directories whose files are all on disk.

## Properties

| Property | What it says |
|---|---|
| `TypeOK` | the type invariant |
| `SlotPartition` | the chains of a live file tile `[0, SLOT_MAX]` with non-empty, contiguous ranges, and every recipient on `adding_` lies in an exporting chain (spec.md 8.1) |
| `StorageAgrees` | every block of a stable in-memory chain is set up on its server for that file, regular, with exactly the chain's range |
| `NoStrayCall` | no file ever issues a storage call to a block not set up for it, such as a freed block re-allocated to another file |
| `InMemoryBlocksOwned` | in-memory chains name blocks that are not free and belong to no other live file |
| `NoLeak` | every allocated block is in a chain of a live file that still holds data, or in the recipient of a split whose `export_ctx` a thread still holds (spec.md 8.3, 8.6). A recipient left on `adding_` does not count: only `finalize_slot_range_split` takes a chain off `adding_` |
| `ExportingResolves` | a chain marked exporting is eventually stable again, merged away, or its file is gone (liveness) |
| `NoOrphans` (Namespace) | every live file can be reached by its path |
| `NsNoLeak` (Namespace) | every allocated block is held by a reachable file or sits in a lease pass's `cleared_blocks` |
| `FlushTarget` (Namespace) | every flush writes a mapped file to its current backing path |
| `StopJoins` (Namespace) | once `stop()` sets `stop_`, the worker loop exits, so the `join` in `stop()` returns (liveness) |
| `NoUnlockedRace` (Namespace) | nothing changes what an unlocked read is reading: a directory's `children_` while the sync worker's `children()`, or a listing's `populate_recursive_entries`, walks it; a file's `dstatus_` while `sync_nodes` copies the reference `dstatus()` returned |
| `SlotMapSpec` (FileNode) | FileNode implements `SlotMap` under `Layout` |

## Runs

All runs use these bounds:
- `SLOT_MAX = 3`, so 4 slots, which allows ranges of one, two and four slots;
- `CHAIN_LENGTH = 2` on eight blocks in repartition, so each setup
  and merge makes its storage calls per replica position and a storage fault
  can stop between them; `CHAIN_LENGTH = 1` elsewhere;
- `NUM_BLOCKS = 1`;
- tail sizes in `{0, 1}` (`{1}` in capacity: size 0 changes only the donor
  choice, which add_block_overlap checks);
- at most 2 threads between setup and finalize.

Blocks and files are model values. One file with four blocks (eight with two
replicas) lets a file reach three or four chains while a split is in flight.

| Run | Expect | Checks | Result |
|---|---|---|---|
| repartition | pass | `TypeOK`, `SlotPartition`, `StorageAgrees`, `SlotMapSpec` | Holds with storage faults on: with explicit splits and merges of multi-slot ranges of two-replica chains, 2 in flight, the partition and the storage agreement hold. 4429 states. |
| capacity | pass | `NoStrayCall` | Holds for `add_block_to_file` racing merges on 3 blocks, with tail sizes `{1}`. The allocator runs dry, a split's donor can be merged away before the split's finalize, and the donor falls back to chain 1 when no chain is stable with several slots. 578K states, 45 s. |
| split_leak | violation | `NoLeak` | The capacity configuration. Two `add_block_to_file` calls both take chain 0 as donor, and one finalizes. Chain 0 is then merged into its neighbour, and the other split's finalize throws at the donor lookup. Its recipient stays on `adding_` and is never freed. 8 states. |
| redump | violation | `SlotMapSpec` | Two files (one mapped) on 5 blocks. Sync, dump, load, remove and lease expiry are called in any order. f1 is dumped, f2 is created on f1's old block, and f1 is dumped again, which frees that block. f1's load then takes it too. 6 states. |
| add_block_overlap | violation | `SlotPartition` | Two `add_block_to_file` calls both fall back to chain 0. |
| dump_one_chain | violation | `InMemoryBlocksOwned` | Dump after a split marks one chain on disk and frees all the blocks. |
| no_rollback | violation | `ExportingResolves` | A failed allocation leaves the donor exporting forever. |

Namespace runs (one directory; the passing run has two files and two blocks, and the violation runs have three of each):

| Run | Expect | Checks | Result |
|---|---|---|---|
| namespace | pass | `TypeOK`, `NoOrphans`, `NsNoLeak`, `StopJoins` | Holds on one directory with two files and two blocks, with flags changed at any time, directories synced, dumped and loaded, and `stop()` called at any time, under the fairness below. One backing path: nothing in the run changes it, so a second one would only double the states. 172K states, about 1 min. |
| walk_create | violation | `NoOrphans` | A file is created behind the lease loop's iterator; the directory is erased around it. |
| erase_in_loop | violation | `NsNoLeak` | The erase ends the loop early; the directory goes with an unvisited file's block. |
| sync_stale_backing | violation | `FlushTarget` | The flush goes to the backing path read before a change. |
| children_race | violation | `NoUnlockedRace` | `create_directory` inserts into the root's `children_` while the sync worker's `root->children()` walks it, with no lock. A listing meets the same race in a subdirectory, and the copy of `dstatus()`'s reference can meet a flags, backing-path, dump, load or expiry write. |

Deadlock is checked in the Namespace runs. The sync worker can always begin
another epoch until `stop()`. After it exits, `Terminated` is the shut-down
service, which stutters.

Each finding is described in `PROJECT.json`, at its source line.

Each property of a passing run has a mutant in `FileNode.tla` or `Namespace.tla`: an operator
defined just before the definition it replaces, changed the way a plausible
bug would change it. TLC finds the property violated under the run's own
configuration when the mutant replaces its target.

## Fairness

The only fairness assumed is weak fairness of finalizing each in-flight
`export_ctx`, identified by the first block it brings in (`Key`). The thread
that ran a setup goes on to call the finalize in the same `directory_tree`
method, so nothing but a throw stops it. Per-context fairness is needed:
fairness of "some finalize" lets one context starve behind the others.

No fairness is assumed for client requests, sync, dump, load or lease expiry.

In `Namespace`:
- **Lease worker.** A directory pass, once begun, runs to its end
  (`LeaseDirStep` and `LeaseDirEnd`, weakly fair). It is one call on one
  thread.
- **Sync worker.** It loops forever and starts a new epoch after each one.
  Its epoch bookkeeping steps, including the two ends of the unlocked
  `children()` walks, the end of the unlocked `dstatus` copy (`SwCopy`)
  and the exit after `stop()`, are weakly fair. The
  thread runs them with no lock to wait for. Its lock-taking steps
  (`SwDir`, `SwStatus`, `SwSync`) are strongly fair: they need the root's
  reader lock, which the lease worker releases between passes, since it
  sleeps between them. That lock is therefore free infinitely often.
- **Lease passes.** Starting one is a policy decision, so `LeaseExpireDir`
  has no fairness. Neither do `Stop` and client listings.

## Abstractions

- **Slot ranges and storage.** A chain's blocks are model values, and its
  data is not modelled. The storage servers are reduced to the
  owner/range/state record that the properties compare.
- **Block sizes.** `storage_size` is a nondeterministic choice from `Sizes`.
- **find_replica_chain.** It matches a chain by its block names.
  `mark_loaded` records the new names, in_memory and stable, and keeps the
  chain's range. These are the `data_status` semantics read from spec.md 3.
- **No mode guards.** `dump`, `load` and `handle_lease_expiry` have no
  mode guard in the code. The redump run calls them on files in any mode.
- **Chain length.** `CHAIN_LENGTH = 2` in the repartition run, 1 elsewhere.
  With two replicas `dump` marks only chain index 1 on disk (the
  dump_one_chain defect), so the redump run keeps one replica to show a
  different defect.
- **Key order.** The sync worker takes a directory's files in name order,
  as `std::map` iteration does. The directories are model values, so
  `SwDir` takes them in any order.

## Not modelled, and why

Coverage: the map names about 530 of the 2027 implementation lines under
`src/`. Most of the rest cannot be modelled faithfully:
- **Declarations and forwards.** `directory_client.h`,
  `lease_renewal_worker.h`, `sync_worker.h` and the service handler headers
  are class declarations. The bodies of `directory_client`, the lease
  renewal loop and `directory_tree.cpp` are not in the repository.
  `storage_management_client.cpp` and `directory_service_factory.cpp` forward
  each call to Thrift in one line.
- **Type conversions.** `directory_type_conversions.h` copies 64-bit fields
  such as `last_write_time`. TLC's integers are 32-bit, and modelling the
  copies as the identity would show nothing.
- **block_response_client_map.cpp** is a lookup table. Its callers, the
  storage servers' chain tails, are not in the repository.
- **Plain getters and setters of `ds_node` and `ds_file_node`.** These are
  timestamps, permissions, tags, and the `dstatus`, `mode` and `chain_length`
  setters. Their callers are in `directory_tree.cpp`. Each setter can break
  a layout invariant if called at the wrong time, and only a caller decides
  when. The `mode`, `chain_length` and `dstatus` setters and the unlocked
  `last_write_time` setter are listed as hazards, each with the caller that
  would need modelling.
- **Run budget.** Races that need code outside the repository (the
  read-modify-write of `resolve_failures` through the `dstatus` setter,
  `touch`) are hazards with notes, not runs.

So the map stays near a quarter of the lines: the rest is declarations,
one-line forwards, and accessors whose effect depends on absent callers.

Still within reach, for later sittings:
1. **Namespace:**
   - rename, touch, `remove_all`;
   - paths deeper than two levels;
   - composing `FileNode` for the files, so that a lease pass meets a file
     mid-split.
   - `Namespace` gives an on-disk file no blocks. A second expiry, or a
     directory dump, of an on-disk file therefore clears nothing here. In
     the code it clears the dumped block names again; see the hazards at
     `directory_tree.h:512` and `:956`.
2. **Defects met while modelling that no violation run shows yet.** The run
   budget is spent. They are listed as hazards in `PROJECT.json`:
   - `load` after a split sets up an even partition that the data status
     does not record (`directory_tree.h:449`);
   - a mapped file whose lease expires twice clears its dumped blocks twice
     (`:512`). This is the redump path through expiry instead of dump;
   - `load` of a file still in memory allocates new blocks and never frees
     the old ones (`:440`);
   - the sync worker can skip a file forever. An earlier file in key order
     may vanish between `dstatus` and `sync` in every epoch, and that aborts
     the epoch (`sync_worker.cpp:31`). Showing it needs files re-created
     without bound;
   - `setup_add_block` falls back to chain 0 whatever its slot count, so
     on a file whose tails are empty it splits `[0, 0]` into an empty
     recipient `[1, 0]` (`:576`). `SlotPartition` catches it with
     `SLOT_MAX = 7`, `Sizes = {0}` and `SpecAddBlock` in 10 states.
     `setup_slot_range_split` accepts a one-slot range (`:666`) the same way;
   - `load` of a file with `SLOT_MAX + 1` chains computes
     `slots_per_block = 0` (`:449`);
   - a storage fault in setup leaks the recipient blocks (`:678`);
   - a create adds a file to a parent that was removed after the create
     resolved it (`:872`).
3. **`CHAIN_LENGTH = 2` in the capacity run.** It has 578K states with one
   replica.
