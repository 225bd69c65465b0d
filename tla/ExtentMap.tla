----------------------------- MODULE ExtentMap -----------------------------
(***************************************************************************)
(* The extent map of a thin volume (warp-block, extent.rs) and the read of *)
(* the volume through it (thin.rs).  The map is one tree under a lock, so  *)
(* an operation is one step; addresses are counted in blocks.              *)
(***************************************************************************)
EXTENDS Integers, Sequences, Folds

CONSTANTS
  VolumeBlocks,   \* virtual size
  BlockObjects    \* objects that hold block data

ASSUME VolumeAssumption == VolumeBlocks \in Nat \ {0}

Zero == <<"zero", 0>>   \* what a hole reads as
Addresses == 0 .. VolumeBlocks - 1

VARIABLES
  extents,     \* the tree: disjoint extents [off, len, obj, ooff, hole]
  written,     \* history: what each address was last set to
  cutOff       \* history: the addresses an insert dropped with an extent it overlapped

extentVars == <<extents, written, cutOff>>

ExtentInit ==
  /\ extents = {}
  /\ written = [a \in Addresses |-> Zero]
  /\ cutOff = {}

End(e) == e.off + e.len
Covers(e) == e.off .. End(e) - 1
Overlaps(e, start, end) == e.off < end /\ End(e) > start
DataAt(e, a) == IF e.hole THEN Zero ELSE <<e.obj, e.ooff + (a - e.off)>>

\* The extents an operation on start .. end - 1 takes out of the tree.
Overlapped(start, end) == {e \in extents : Overlaps(e, start, end)}

\* An extent that is only partly overlapped goes as a whole.  The counter of the
\* allocated bytes is left out here and in RemoveRange: nothing decides on it.
Insert(e) ==
  LET removed == Overlapped(e.off, End(e)) IN
  /\ extents' = (extents \ removed) \cup {e}
  /\ written' = [a \in Addresses |-> IF a \in Covers(e) THEN DataAt(e, a) ELSE written[a]]
  /\ cutOff' = (cutOff \cup UNION {Covers(f) : f \in removed}) \ Covers(e)

\* Mutant: the part after the range keeps the object offset of the whole extent.
PartsOutsideUnshifted(e, start, end) ==
  {p \in {[e EXCEPT !.len = start - e.off],
          [e EXCEPT !.off = end, !.len = End(e) - end]} : p.len > 0}

\* What remove_range keeps of an extent: the part before and the part after.
PartsOutside(e, start, end) ==
  {p \in {[e EXCEPT !.len = start - e.off],
          [e EXCEPT !.off = end, !.len = End(e) - end, !.ooff = @ + (end - e.off)]} : p.len > 0}

\* An empty range inside an extent splits it.
RemoveRange(start, end) ==
  LET removed == Overlapped(start, end)
      kept == UNION {PartsOutside(e, start, end) : e \in removed} IN
  /\ extents' = (extents \ removed) \cup kept
  /\ written' = [a \in Addresses |-> IF a \in start .. end - 1 THEN Zero ELSE written[a]]
  /\ cutOff' = cutOff \ (start .. end - 1)

\* An assumption on the callers of insert: the length is not zero.
NewExtents ==
  {e \in [off : Addresses, len : 1 .. VolumeBlocks, obj : BlockObjects, ooff : 0 .. 1,
          hole : BOOLEAN] :
     /\ End(e) <= VolumeBlocks
     /\ e.hole => e.ooff = 0}

ExtentNext ==
  \/ \E e \in NewExtents : Insert(e)
  \/ \E start \in Addresses : \E end \in start .. VolumeBlocks : RemoveRange(start, end)

ExtentSpec == ExtentInit /\ [][ExtentNext]_extentVars

-----------------------------------------------------------------------------
(* ThinVolume::read: a walk over the extents of the range in order of their *)
(* offsets.  What is read is the sequence of block values; "at" is          *)
(* current_offset.                                                          *)

ReadExtent(walk, e, end) ==
  LET gap   == [i \in 1 .. (IF walk.at < e.off THEN e.off - walk.at ELSE 0) |-> Zero]
      first == IF walk.at > e.off THEN walk.at ELSE e.off
      last  == (IF end < End(e) THEN end ELSE End(e)) - 1 IN
  [at |-> last + 1,
   got |-> walk.got \o gap \o [i \in 1 .. last - first + 1 |-> DataAt(e, first + i - 1)]]

\* The extent that the walk comes to after the others of the set s.
LastOf(s) == CHOOSE e \in s : \A f \in s : f.off <= e.off

ReadVolume(off, end) ==
  LET walk == MapThenFoldSet(LAMBDA e, w : ReadExtent(w, e, end), [at |-> off, got |-> <<>>],
                             LAMBDA e : e, LastOf, Overlapped(off, end))
  IN walk.got \o [i \in 1 .. end - walk.at |-> Zero]

\* A read of any range returns, block for block, what was last written or
\* discarded there, whatever extents it crosses; the addresses an insert cut off
\* with a partly overlapped extent, and only those, read as zero instead
\* (insert drops the whole extent, extent.rs:230).
ReadsLastWrite ==
  \A off \in Addresses : \A end \in off + 1 .. VolumeBlocks :
    ReadVolume(off, end)
      = [i \in 1 .. end - off |->
           IF off + i - 1 \in cutOff THEN Zero ELSE written[off + i - 1]]
=============================================================================
