----------------------------- MODULE MCBuffers -----------------------------
(***************************************************************************)
(* The safety of the buffer cache: two processes use three blocks through  *)
(* two buffers.  They either read and write, or read, one of them with a   *)
(* block of read-ahead.  Only one: breada holds a buffer while it looks    *)
(* for another, so two of them would wait for each other for ever.         *)
(***************************************************************************)
EXTENDS BufferCache, TLC

VARIABLE reads_ahead

Ahead == INSTANCE BufferCache WITH Value <- {0}, Ops <- {"ahead", "read"}

ReadingAhead == {p \in Proc : pc[p] # "idle" /\ op[p] = "ahead"}

MCInit == reads_ahead \in BOOLEAN /\ IF reads_ahead THEN Ahead!Init ELSE Init

MCNext == /\ UNCHANGED reads_ahead
          /\ \/ ~reads_ahead /\ Next
             \/ reads_ahead /\ Ahead!Next /\ Cardinality(ReadingAhead') <= 1

MCSpec == MCInit /\ [][MCNext]_<<vars, reads_ahead>>

Symmetry == Permutations(Proc) \cup Permutations(Number)
=============================================================================
