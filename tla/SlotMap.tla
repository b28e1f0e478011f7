------------------------------ MODULE SlotMap -------------------------------
(***************************************************************************)
(* What a file's data layout promises its clients (spec.md 4.2, 4.4, 8.1):  *)
(* the slot space [0, SLOT_MAX] of a live file is cut into consecutive      *)
(* ranges, each held by a set of memory blocks, or by none while the range  *)
(* lives only in the backing store.  Each operation is one atomic change of *)
(* that layout:                                                              *)
(*   create      a fresh tiling held by blocks no file holds;              *)
(*   split       a range is cut in two at its midpoint; the lower half      *)
(*               keeps its blocks, the upper half gets fresh ones;          *)
(*   merge       a range and its right neighbour become one range, held by  *)
(*               the neighbour's blocks;                                    *)
(*   evict       every range goes to the backing store;                     *)
(*   reload      some ranges come back into fresh blocks, unchanged;        *)
(*   drop        the file and its layout are gone.                          *)
(* The detailed FileNode specification implements this one under the        *)
(* mapping FileNode!Layout: its setup_* steps, storage calls, failed        *)
(* finalizes and syncs leave the layout unchanged.                          *)
(***************************************************************************)
EXTENDS Integers, Sequences, FiniteSets, SequencesExt

CONSTANTS Nodes, Blocks, SLOT_MAX

VARIABLE layout   \* [Nodes -> Seq([lo, hi, blocks])]; <<>> when not live

\* Blocks held by some range of some file.
Held == UNION {UNION {layout[n][k].blocks : k \in DOMAIN layout[n]} : n \in Nodes}

Fresh(B) == B # {} /\ B \cap Held = {}

\* The ranges of s, in order, cut [0, SLOT_MAX] with no gap and no overlap.
Tiles(s) ==
  /\ Len(s) > 0
  /\ s[1].lo = 0 /\ s[Len(s)].hi = SLOT_MAX
  /\ \A k \in DOMAIN s : s[k].lo <= s[k].hi
  /\ \A k \in 1..(Len(s) - 1) : s[k + 1].lo = s[k].hi + 1

\* Distinct ranges hold disjoint blocks.
Disjoint(s) ==
  \A k, l \in DOMAIN s : k # l => s[k].blocks \cap s[l].blocks = {}

Init == layout = [n \in Nodes |-> <<>>]

\* Only n's layout changes.
Others(n) == \A m \in Nodes \ {n} : layout'[m] = layout[m]

Create(n) ==
  LET s == layout'[n] IN
  /\ layout[n] = <<>>
  /\ Tiles(s) /\ Disjoint(s)
  /\ \A k \in DOMAIN s : Fresh(s[k].blocks)
  /\ Others(n)

Split(n, k) ==
  LET s   == layout[n]
      mid == (s[k].lo + s[k].hi) \div 2
  IN /\ k \in DOMAIN s
     /\ s[k].lo < s[k].hi /\ s[k].blocks # {}
     /\ \E B \in SUBSET Blocks :
          /\ Fresh(B)
          /\ layout' = [layout EXCEPT ![n] =
               InsertAt([s EXCEPT ![k].hi = mid], k + 1,
                        [lo |-> mid + 1, hi |-> s[k].hi, blocks |-> B])]

Merge(n, k) ==
  LET s == layout[n] IN
  /\ {k, k + 1} \subseteq DOMAIN s
  /\ layout' = [layout EXCEPT ![n] = RemoveAt([s EXCEPT ![k + 1].lo = s[k].lo], k)]

Evict(n) ==
  LET s == layout[n] IN
  /\ s # <<>>
  /\ layout' = [layout EXCEPT ![n] = [k \in DOMAIN s |-> [s[k] EXCEPT !.blocks = {}]]]

\* Each range either stays as it was or comes back, same slots, in fresh
\* blocks no other range takes; at least one comes back.
Reload(n) ==
  LET s == layout[n]
      t == layout'[n]
      K == {k \in DOMAIN s : t[k] # s[k]}
  IN /\ s # <<>>
     /\ DOMAIN t = DOMAIN s
     /\ K # {}
     /\ \A k \in K : /\ t[k].lo = s[k].lo /\ t[k].hi = s[k].hi
                     /\ Fresh(t[k].blocks)
     /\ Disjoint(t)
     /\ Others(n)

Drop(n) ==
  /\ layout[n] # <<>>
  /\ layout' = [layout EXCEPT ![n] = <<>>]

Next == \E n \in Nodes : \/ Create(n) \/ Evict(n) \/ Reload(n) \/ Drop(n)
                         \/ \E k \in DOMAIN layout[n] : Split(n, k) \/ Merge(n, k)

Spec == Init /\ [][Next]_layout

=============================================================================
