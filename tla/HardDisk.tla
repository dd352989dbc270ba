------------------------------ MODULE HardDisk ------------------------------
(***************************************************************************)
(* The hard disk driver, kernel/blk_drv/hd.c: do_hd_request starts what    *)
(* the first request of the queue needs next, and the interrupt handler    *)
(* that it has left in do_hd goes on from there, a sector at a time.       *)
(* Errors are counted and retried, with a reset of the controller and a    *)
(* recalibration once there are many.                                      *)
(*                                                                         *)
(* Handlers are not interrupted, and no process runs while do_hd_request   *)
(* loops: running is TRUE until it returns.  The place a new request gets  *)
(* behind the first one is any (RequestQueue has the elevator).            *)
(*                                                                         *)
(* The controller is external: it raises one interrupt for each sector of  *)
(* a READ or WRITE and one for a SPECIFY or RESTORE, with a good or a bad  *)
(* result; a bad one ends the command, and so does a WRITE for which it    *)
(* does not ask for data in time.                                          *)
(***************************************************************************)
EXTENDS Naturals, Sequences, SequencesExt

CONSTANTS nr_sects,   \* size of the partition
          MAX_ERRORS,
          MaxQueue,   \* bound on the queue, for TLC
          None

VARIABLES
    queue,        \* [cmd, first, sector, nr_sectors, half, errors], CURRENT first
    do_hd,        \* the handler for the next interrupt
    reset, recalibrate,
    running,      \* in do_hd_request
    controller,   \* the command it executes: [op, sector, left, half], or None
    \* history
    moved,        \* <<half of the buffer, sector>> transferred for CURRENT
    last          \* the request that has just ended: [req, moved, ok], or None

vars == <<queue, do_hd, reset, recalibrate, running, controller, moved, last>>

Init ==
    /\ queue = <<>>
    /\ do_hd = None
    /\ reset = TRUE
    /\ recalibrate = TRUE
    /\ running = FALSE
    /\ controller = None
    /\ moved = {}
    /\ last = None

CURRENT == Head(queue)

\* A request of make_request, for the block that begins at sector s; half is
\* how far its buffer pointer has moved.
Request(cmd, s) ==
    [cmd |-> cmd, first |-> s, sector |-> s, nr_sectors |-> 2, half |-> 0, errors |-> 0]
-----------------------------------------------------------------------------
\* add_request: into an idle queue, or anywhere behind CURRENT.
AddRequest(cmd, s) ==
    /\ ~running
    /\ Len(queue) < MaxQueue
    /\ IF queue = <<>>
       THEN queue' = <<Request(cmd, s)>> /\ running' = TRUE
       ELSE /\ \E n \in 2..(Len(queue) + 1) : queue' = InsertAt(queue, n, Request(cmd, s))
            /\ UNCHANGED running
    /\ last' = None
    /\ UNCHANGED <<do_hd, reset, recalibrate, controller, moved>>

\* end_request: q is the queue with CURRENT, and mv what has been moved, as they
\* are by now.
EndRequest(q, mv, ok) ==
    /\ queue' = Tail(q)
    /\ moved' = {}
    /\ last' = [req |-> Head(q), moved |-> mv, ok |-> ok]

\* Mutant: CURRENT is retried for ever.
BadRwIntrForgives(q) ==
    /\ queue' = q
    /\ last' = None
    /\ UNCHANGED moved
    /\ reset' \in {reset, TRUE}

\* bad_rw_intr.  After end_request it looks at the errors of the next request,
\* or through a null pointer.
bad_rw_intr(q) ==
    LET bad == [q EXCEPT ![1].errors = @ + 1] IN
    IF bad[1].errors >= MAX_ERRORS
    THEN /\ EndRequest(bad, moved, FALSE)
         /\ reset' \in IF Len(q) = 1 THEN {reset, TRUE}
                       ELSE {reset \/ q[2].errors > MAX_ERRORS \div 2}
    ELSE /\ queue' = bad
         /\ reset' = (reset \/ bad[1].errors > MAX_ERRORS \div 2)
         /\ last' = None
         /\ UNCHANGED moved

\* hd_out
hd_out(op, sector, left, half, intr_addr) ==
    /\ do_hd' = intr_addr
    /\ controller' = [op |-> op, sector |-> sector, left |-> left, half |-> half]

StartSector == CURRENT.sector

\* do_hd_request, from repeat on.
DoHdRequest ==
    /\ running
    /\ IF queue = <<>> THEN
           /\ running' = FALSE
           /\ last' = None
           /\ UNCHANGED <<queue, do_hd, reset, recalibrate, controller, moved>>
       ELSE IF CURRENT.sector + 2 > nr_sects THEN
           /\ EndRequest(queue, moved, FALSE)
           /\ UNCHANGED <<do_hd, reset, recalibrate, running, controller>>
       ELSE IF reset THEN
           /\ hd_out("SPECIFY", 0, 1, 0, "recal_intr")
           /\ reset' = FALSE
           /\ recalibrate' = TRUE
           /\ running' = FALSE
           /\ last' = None
           /\ UNCHANGED <<queue, moved>>
       ELSE IF recalibrate THEN
           /\ hd_out("RESTORE", 0, 1, 0, "recal_intr")
           /\ recalibrate' = FALSE
           /\ running' = FALSE
           /\ last' = None
           /\ UNCHANGED <<queue, reset, moved>>
       ELSE IF CURRENT.cmd = "WRITE" THEN
           \* The controller asks for the data in time, or it does not.
           \/ /\ hd_out("WRITE", StartSector, CURRENT.nr_sectors, CURRENT.half, "write_intr")
              /\ running' = FALSE
              /\ last' = None
              /\ UNCHANGED <<queue, reset, recalibrate, moved>>
           \/ /\ do_hd' = "write_intr"
              /\ bad_rw_intr(queue)
              /\ UNCHANGED <<recalibrate, running, controller>>
       ELSE
           /\ hd_out("READ", StartSector, CURRENT.nr_sectors, CURRENT.half, "read_intr")
           /\ running' = FALSE
           /\ last' = None
           /\ UNCHANGED <<queue, reset, recalibrate, moved>>
-----------------------------------------------------------------------------
(* Interrupts: hd_interrupt clears do_hd and calls what was in it. *)

\* The controller is done with a sector.
NextSector ==
    IF controller.left = 1 THEN None
    ELSE [controller EXCEPT !.sector = @ + 1, !.left = @ - 1]

\* win_result is not 0: the handlers count an error and start over.
BadInterrupt ==
    /\ ~running /\ controller # None
    /\ bad_rw_intr(queue)
    /\ do_hd' = None
    /\ controller' = None
    /\ running' = TRUE
    /\ UNCHANGED recalibrate

\* CURRENT with one sector read.
ReadOn == [CURRENT EXCEPT !.errors = 0, !.half = @ + 1, !.sector = @ + 1, !.nr_sectors = @ - 1]

read_intr ==
    /\ ~running /\ controller # None /\ do_hd = "read_intr"
    /\ LET mv == moved \cup {<<CURRENT.half, controller.sector>>}
           q == [queue EXCEPT ![1] = ReadOn]
       IN
       IF q[1].nr_sectors # 0
       THEN /\ queue' = q /\ moved' = mv /\ last' = None
            /\ UNCHANGED <<do_hd, running>>
       ELSE /\ EndRequest(q, mv, TRUE)
            /\ do_hd' = None
            /\ running' = TRUE
    /\ controller' = NextSector
    /\ UNCHANGED <<reset, recalibrate>>

\* Mutant: the second sector is written from where the first one was.
WriteOnSameHalf == [CURRENT EXCEPT !.sector = @ + 1, !.nr_sectors = @ - 1]

\* CURRENT with its first sector written.
WriteOn == [CURRENT EXCEPT !.half = @ + 1, !.sector = @ + 1, !.nr_sectors = @ - 1]

write_intr ==
    /\ ~running /\ controller # None /\ do_hd = "write_intr"
    /\ LET mv == moved \cup {<<controller.half, controller.sector>>} IN
       IF CURRENT.nr_sectors # 1
       THEN /\ queue' = [queue EXCEPT ![1] = WriteOn]
            /\ controller' = [NextSector EXCEPT !.half = WriteOn.half]
            /\ moved' = mv /\ last' = None
            /\ UNCHANGED <<do_hd, running>>
       ELSE /\ EndRequest([queue EXCEPT ![1].nr_sectors = 0], mv, TRUE)
            /\ controller' = NextSector
            /\ do_hd' = None
            /\ running' = TRUE
    /\ UNCHANGED <<reset, recalibrate>>

recal_intr ==
    /\ ~running /\ controller # None /\ do_hd = "recal_intr"
    /\ do_hd' = None
    /\ controller' = None
    /\ running' = TRUE
    /\ last' = None
    /\ UNCHANGED <<queue, reset, recalibrate, moved>>

Interrupt == BadInterrupt \/ read_intr \/ write_intr \/ recal_intr

\* A block that begins at nr_sects or later is not on the partition.
Next ==
    \/ \E cmd \in {"READ", "WRITE"}, b \in 0..(nr_sects \div 2) : AddRequest(cmd, 2 * b)
    \/ DoHdRequest
    \/ Interrupt

\* The controller answers every command.
Spec == Init /\ [][Next]_vars /\ WF_vars(DoHdRequest) /\ WF_vars(Interrupt)
-----------------------------------------------------------------------------
\* A request that ends well has moved both halves of its buffer, each from or to
\* its own sector, and nothing else, whatever had to be repeated.
CompleteTransfer ==
    last # None /\ last.ok =>
        last.moved = {<<0, last.req.first>>, <<1, last.req.first + 1>>}

\* However often the disk fails, CURRENT ends, well or not: nothing is retried
\* for ever.
CurrentEnds == queue # <<>> ~> last # None
=============================================================================
