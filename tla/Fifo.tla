-------------------------------- MODULE Fifo --------------------------------
(***************************************************************************)
(* What a pipe promises: a bounded queue of bytes.  Bytes go in at one end *)
(* and come out at the other, in order, each to one reader, once.          *)
(***************************************************************************)
EXTENDS Naturals, Sequences

CONSTANTS Reader, Writer, Byte, Capacity

VARIABLES items,  \* the bytes in the pipe
          got,    \* what each reader's call has got so far
          sent    \* and what each writer's call has put in

vars == <<items, got, sent>>

Init == items = <<>> /\ got = [p \in Reader |-> <<>>] /\ sent = [p \in Writer |-> <<>>]

\* The end of a call.
EndGet(p) == got' = [got EXCEPT ![p] = <<>>] /\ UNCHANGED <<items, sent>>

EndPut(p) == sent' = [sent EXCEPT ![p] = <<>>] /\ UNCHANGED <<items, got>>

Put(p, bytes) ==
    /\ Len(items) + Len(bytes) <= Capacity
    /\ items' = items \o bytes
    /\ sent' = [sent EXCEPT ![p] = @ \o bytes]
    /\ UNCHANGED got

Get(p, n) ==
    /\ got' = [got EXCEPT ![p] = @ \o SubSeq(items, 1, n)]
    /\ items' = SubSeq(items, n + 1, Len(items))
    /\ UNCHANGED sent

\* Both ends are closed: what nobody has read is gone, and the next pipe is empty.
Drop == items' = <<>> /\ UNCHANGED <<got, sent>>

Next ==
    \/ \E p \in Reader : EndGet(p) \/ \E n \in 1..Len(items) : Get(p, n)
    \/ \E p \in Writer : EndPut(p) \/ \E n \in 1..Capacity : \E bytes \in [1..n -> Byte] : Put(p, bytes)
    \/ Drop

Spec == Init /\ [][Next]_vars
=============================================================================
