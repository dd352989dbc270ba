------------------------------- MODULE Floppy --------------------------------
(***************************************************************************)
(* The floppy driver, kernel/blk_drv/floppy.c, and the motor functions of  *)
(* kernel/sched.c it leans on.  A request is carried through a chain of    *)
(* timers (the motor, the drive select) and interrupts (seek, transfer);   *)
(* errors send the chain through a reset or a recalibration.  A process    *)
(* asks whether a disk was changed (floppy_change) and selects a drive of  *)
(* its own accord.                                                         *)
(*                                                                         *)
(* f is the state of the driver, with bare telling whether it ever began   *)
(* to recover without a request; an operator that can end in several ways  *)
(* (the controller refuses a byte, an interrupt reports an error) returns  *)
(* the set of the states it can leave.  Timers are fired in any order.     *)
(* DMA and data are left out.                                              *)
(***************************************************************************)
EXTENDS Naturals, Sequences, FiniteSets, SequencesExt

CONSTANTS
    Drive, Track,   \* Track includes 0
    MAX_ERRORS,
    MaxQueue, MaxRequests,
    MaxGlitches     \* errors of the hardware in one behaviour

VARIABLES
    f,              \* the driver
    head,           \* [Drive -> Track]: where the heads really are
    change,         \* the process that calls floppy_change once: [pc, nr]
    requests        \* how many requests have been made

vars == <<f, head, change, requests>>

NULL == "none"
Idle == [op |-> NULL]

Init ==
    /\ f = [queue |-> <<>>, do_floppy |-> NULL, timers |-> <<>>, controller |-> Idle,
            reset |-> FALSE, recalibrate |-> FALSE, seek |-> FALSE, selected |-> FALSE,
            DOR |-> 0, current_drive |-> 0, current_track |-> 255, seek_track |-> 0,
            motor |-> {}, mon_timer |-> {}, off |-> {}, glitches |-> 0, bare |-> FALSE, fault |-> FALSE]
    /\ head = [d \in Drive |-> 0]
    /\ change = [pc |-> "none", nr |-> 0]
    /\ requests = 0

Request(d, t, bad) == [drive |-> d, track |-> t, beyond |-> bad, errors |-> 0]
CURRENT == f.queue[1]

-----------------------------------------------------------------------------
\* kernel/sched.c.  mon_timer holds the drives whose motor is still starting,
\* or that must settle after a select; off those whose moff_timer runs.

ticks_to_floppy_on(g, nr) ==
    LET dor == IF g.selected THEN g.DOR ELSE nr
    IN [g EXCEPT !.off = @ \ {nr}, !.DOR = dor, !.motor = @ \cup {nr},
                 !.mon_timer = IF dor # g.DOR \/ nr \notin g.motor THEN @ \cup {nr} ELSE @]

floppy_off(g, nr) == [g EXCEPT !.off = @ \cup {nr}]

floppy_deselect(g) == [g EXCEPT !.selected = FALSE]

end_request(g) == [floppy_off(g, g.queue[1].drive) EXCEPT !.queue = Tail(@)]

-----------------------------------------------------------------------------
\* The chain of a request.

\* Bytes for the controller: it takes them, or output_byte gives up and sets
\* reset.  One that is at work may do either.
Output(g, op, d, t) ==
    {[g EXCEPT !.controller = [op |-> op, drive |-> d, track |-> t]]}
    \cup (IF g.glitches < MaxGlitches \/ g.controller # Idle
          THEN {[g EXCEPT !.reset = TRUE, !.glitches = IF g.controller # Idle THEN @ ELSE @ + 1]}
          ELSE {})

reset_floppy(g) ==
    [g EXCEPT !.reset = FALSE, !.recalibrate = TRUE, !.do_floppy = "reset_interrupt",
              !.seek = FALSE, !.controller = [op |-> "reset"], !.bare = @ \/ g.queue = <<>>]

\* do_fd_request, after an output that may have failed.
OrReset(G) == {IF g.reset THEN reset_floppy(g) ELSE g : g \in G}

recalibrate_floppy(g) ==
    LET h == [g EXCEPT !.recalibrate = FALSE, !.current_track = 0,
                       !.do_floppy = "recal_interrupt", !.bare = @ \/ g.queue = <<>>]
    IN OrReset(Output(h, "recalibrate", h.current_drive, 0))

setup_rw_floppy(g) ==
    IF g.queue = <<>> THEN {[g EXCEPT !.fault = TRUE]}
    ELSE OrReset(Output([g EXCEPT !.do_floppy = "rw_interrupt"], "rw", g.current_drive, g.seek_track))

\* Mutant: no seek is needed on the track of the last request, on any drive.
TransferSeldomSeeks(g) ==
    IF g.current_track = g.seek_track THEN setup_rw_floppy(g)
    ELSE OrReset(Output([g EXCEPT !.do_floppy = "seek_interrupt"], "seek", g.current_drive, g.seek_track))

transfer(g) ==
    IF ~g.seek THEN setup_rw_floppy(g)
    ELSE OrReset(Output([g EXCEPT !.do_floppy = "seek_interrupt"], "seek", g.current_drive, g.seek_track))

floppy_on_interrupt(g) ==
    LET h == [g EXCEPT !.selected = TRUE]
    IN IF h.current_drive # h.DOR
       THEN {[h EXCEPT !.DOR = h.current_drive, !.timers = Append(@, "transfer")]}
       ELSE transfer(h)

\* INIT_REQUEST and the requests beyond the end of the disk, which end at once.
Valid(g) ==
    LET n == {i \in 1..Len(g.queue) : ~g.queue[i].beyond}
        first == IF n = {} THEN Len(g.queue) + 1 ELSE CHOOSE i \in n : \A j \in n : i <= j
    IN [g EXCEPT !.queue = SubSeq(@, first, Len(@)),
                 !.off = @ \cup {g.queue[i].drive : i \in 1..(first - 1)}]

do_fd_request(g0) ==
    LET g == [g0 EXCEPT !.seek = FALSE]
        v == Valid(g)
        r == v.queue[1]
        h == [v EXCEPT !.seek = v.current_drive # r.drive \/ v.current_track # r.track,
                       !.current_drive = r.drive, !.seek_track = r.track]
        on == ticks_to_floppy_on(h, r.drive)
    IN IF g.reset THEN {reset_floppy(g)}
       ELSE IF g.recalibrate THEN recalibrate_floppy(g)
       ELSE IF v.queue = <<>> THEN {v}
       ELSE IF r.drive \in on.mon_timer
            THEN {[on EXCEPT !.timers = Append(@, "floppy_on_interrupt")]}
       ELSE floppy_on_interrupt(on)

\* After end_request it goes on to the errors of the request behind, or of a
\* null pointer.
bad_flp_intr(g) ==
    LET h == [g EXCEPT !.queue[1].errors = @ + 1]
        many == h.queue[1].errors > MAX_ERRORS
        e == IF many THEN end_request(floppy_deselect(h)) ELSE h
    IN IF g.queue = <<>> THEN {[g EXCEPT !.fault = TRUE]}
       ELSE IF e.queue = <<>> THEN {[e EXCEPT !.reset = TRUE], [e EXCEPT !.recalibrate = TRUE]}
       ELSE IF e.queue[1].errors > MAX_ERRORS \div 2 THEN {[e EXCEPT !.reset = TRUE]}
       ELSE {[e EXCEPT !.recalibrate = TRUE]}

-----------------------------------------------------------------------------
\* The interrupts.  ok is what the controller reports; r is the state in which
\* the handler that do_floppy named starts, with do_floppy cleared.

Taken == [f EXCEPT !.do_floppy = NULL, !.controller = Idle]

Wrong == [Taken EXCEPT !.glitches = @ + 1]

Then(G) == f' \in UNION {IF g.fault THEN {g} ELSE do_fd_request(g) : g \in G}

\* Handlers that find the controller in order.
Succeeds ==
    LET c == f.controller
    IN /\ c # Idle
       /\ CASE f.do_floppy = "rw_interrupt" /\ f.queue = <<>> ->
                 f' = [Taken EXCEPT !.fault = TRUE] /\ UNCHANGED head
            [] f.do_floppy = "rw_interrupt" /\ f.queue # <<>> ->
                 c.op = "rw" /\ head[c.drive] = c.track
                 /\ Then({end_request(floppy_deselect(Taken))}) /\ UNCHANGED head
            [] f.do_floppy = "seek_interrupt" ->
                 c.op = "seek" /\ head' = [head EXCEPT ![c.drive] = c.track]
                 /\ f' \in setup_rw_floppy([Taken EXCEPT !.current_track = c.track])
            [] f.do_floppy = "recal_interrupt" ->
                 c.op = "recalibrate" /\ head' = [head EXCEPT ![c.drive] = 0]
                 /\ Then({[Taken EXCEPT !.recalibrate = FALSE]})
            [] OTHER -> Then({Taken}) /\ UNCHANGED head

\* Handlers that find an error, or nothing at all, or a head on another track.
Fails ==
    LET c == f.controller
        off == c.op = "rw" /\ head[c.drive] # c.track
    IN /\ c # Idle /\ c.op # "reset" /\ f.do_floppy # NULL
       /\ off \/ f.glitches < MaxGlitches
       /\ LET w == IF off THEN Taken ELSE Wrong
          IN Then(IF f.do_floppy = "recal_interrupt" THEN {[w EXCEPT !.reset = TRUE]}
                                                     ELSE bad_flp_intr(w))
       /\ UNCHANGED head

Interrupt == (Succeeds \/ Fails) /\ UNCHANGED <<change, requests>>

\* unexpected_floppy_interrupt
Unexpected ==
    /\ f.controller = Idle /\ f.do_floppy = NULL /\ f.glitches < MaxGlitches
    /\ f' \in {[Wrong EXCEPT !.reset = TRUE], [Wrong EXCEPT !.recalibrate = TRUE]}
    /\ UNCHANGED <<head, change, requests>>

\* A timer runs out.
Timer(i) ==
    /\ i \in 1..Len(f.timers)
    /\ LET g == [f EXCEPT !.timers = RemoveAt(@, i)]
       IN f' \in (IF f.timers[i] = "transfer" THEN transfer(g) ELSE floppy_on_interrupt(g))
    /\ UNCHANGED <<head, change, requests>>

\* do_floppy_timer: a motor is up to speed, or is turned off.
MotorUp(d) ==
    /\ d \in f.mon_timer
    /\ f' = [f EXCEPT !.mon_timer = @ \ {d}]
    /\ UNCHANGED <<head, change, requests>>

MotorOff(d) ==
    /\ d \in f.motor \cap f.off /\ d \notin f.mon_timer
    /\ f' = [f EXCEPT !.motor = @ \ {d}]
    /\ UNCHANGED <<head, change, requests>>

-----------------------------------------------------------------------------
\* add_request: an idle device is started at once.
AddRequest(r) ==
    /\ requests < MaxRequests /\ Len(f.queue) < MaxQueue
    /\ requests' = requests + 1
    /\ IF f.queue = <<>> THEN f' \in do_fd_request([f EXCEPT !.queue = <<r>>])
                         ELSE f' = [f EXCEPT !.queue = Append(@, r)]
    /\ UNCHANGED <<head, change>>

\* floppy_change: floppy_on, then the wait for the drive select.
ChangeCalled(nr) ==
    /\ change.pc = "none"
    /\ change' = [pc |-> "on", nr |-> nr]
    /\ UNCHANGED <<f, head, requests>>

ChangeOn ==
    /\ change.pc = "on"
    /\ f' = ticks_to_floppy_on(f, change.nr)
    /\ change' = [change EXCEPT !.pc = IF change.nr \in f'.mon_timer THEN "motor" ELSE "select"]
    /\ UNCHANGED <<head, requests>>

ChangeMotorUp ==
    /\ change.pc = "motor" /\ change.nr \notin f.mon_timer
    /\ change' = [change EXCEPT !.pc = "on"]
    /\ UNCHANGED <<f, head, requests>>

ChangeSelect ==
    /\ change.pc = "select"
    /\ IF f.DOR # change.nr
       THEN /\ ~f.selected
            /\ change' = [change EXCEPT !.pc = "on"]
            /\ UNCHANGED f
       ELSE /\ change' = [change EXCEPT !.pc = "out"]
            /\ f' = floppy_off(f, change.nr)
    /\ UNCHANGED <<head, requests>>

-----------------------------------------------------------------------------
Change == ChangeOn \/ ChangeMotorUp \/ ChangeSelect
Hardware == Interrupt \/ (\E i \in 1..Len(f.timers) : Timer(i)) \/ (\E d \in Drive : MotorUp(d))

Next ==
    /\ ~f.fault
    /\ \/ Hardware \/ Unexpected \/ Change
       \/ \E d \in Drive : MotorOff(d) \/ ChangeCalled(d)
       \/ \E d \in Drive, t \in Track : AddRequest(Request(d, t, FALSE))
       \/ \E d \in Drive : AddRequest(Request(d, 0, TRUE))

\* Timers and interrupts come, and a process that is woken runs.
Spec ==
    /\ Init /\ [][Next]_vars
    /\ WF_vars(~f.fault /\ Hardware)
    /\ WF_vars(~f.fault /\ Change)

-----------------------------------------------------------------------------
\* A transfer is started with the head of that drive on the track of the request
\* (floppy.c:432, 445), though one current_track serves all drives and resets
\* and drive changes come between.
HeadOnTrack ==
    ~f.bare /\ f.controller.op = "rw" => head[f.controller.drive] = f.controller.track

\* Every request is ended, well or with an error (floppy.c:417).
RequestsEnd == f.queue # <<>> ~> (f.queue = <<>> \/ f.fault)
=============================================================================
