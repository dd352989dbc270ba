-------------------------------- MODULE Tty --------------------------------
(***************************************************************************)
(* A terminal (kernel/chr_drv/tty_io.c, tty_ioctl.c, serial.c, rs_io.s):   *)
(* the three queues of a tty_struct, the line discipline that runs in the  *)
(* input interrupt, tty_read and tty_write with their sleeps, the          *)
(* transmitter interrupt, and the flushing ioctls.                         *)
(*                                                                         *)
(* A queue is the sequence of characters between tail and head of its      *)
(* ring; it holds at most SIZE - 1.  PUTCH does not look whether there is  *)
(* room: one character too many makes head meet tail, and the queue is     *)
(* empty.  Interrupts may come between any two steps of a process, also    *)
(* between the two halves of GETCH.  A behaviour is of one of four kinds:  *)
(*   "edit"   : the console, with all editing characters and no reader;    *)
(*   "read"   : readers with and without ICANON, no erase or kill typed;   *)
(*   "serial" : a writer on a serial line, sent by interrupts;             *)
(*   "console": writers on the console, whose write routine sends at once. *)
(* A reader whose character is erased between the halves of GETCH leaves   *)
(* tail ahead of head; that is why "edit" and "read" are apart.            *)
(***************************************************************************)
EXTENDS Naturals, Sequences, SequencesExt

CONSTANTS Proc,      \* processes that write
          SIZE,      \* TTY_BUF_SIZE
          MARGIN,    \* room under which tty_read takes part of a line (20)
          ROOM,      \* room a writer waits for (128)
          STARTUP,   \* rest of the output at which a writer is woken (256)
          Kinds,     \* the kinds of behaviour
          Text,      \* what one call of tty_write may write
          MaxTyped,  \* bound on the characters that arrive
          MaxCalls   \* bound on the calls of tty_write and of flush

VARIABLES kind, icanon, time,   \* fixed: the kind, L_CANON, VTIME # 0
          tty,        \* read_q, secondary, its data count, write_q, stopped
          signal,     \* signals of the reader
          rd,         \* the reader: pc, nr, minimum, the fetched c, b - buf
          wr, cr_flag,\* the writers, and the static flag of tty_write
          ier,        \* transmitter interrupt enabled
          left,       \* calls left to MaxCalls
          typed, got  \* histories of the input: arrived, delivered

vars == <<kind, icanon, time, tty, signal, rd, wr, cr_flag, ier, left, typed, got>>
fixed == <<kind, icanon, time>>

LEFT(q) == SIZE - 1 - Len(q)
FULL(q) == LEFT(q) = 0
PUTCH(q, c) == IF FULL(q) THEN <<>> ELSE Append(q, c)

Chars == CASE kind = "edit" -> {"a", "cr", "eof", "erase", "kill", "stop", "start"}
           [] kind = "read" /\ icanon -> {"a", "nl", "eof", "intr"}
           [] kind = "read" /\ ~icanon -> {"a", "nl", "intr"}   \* eof is like nl
           [] OTHER -> {}

Idle == [pc |-> "idle", nr |-> 0, minimum |-> 0, flag |-> FALSE, c |-> "", n |-> 0]

Init ==
    /\ kind \in Kinds /\ icanon \in BOOLEAN /\ time \in BOOLEAN
    /\ kind # "read" => icanon
    /\ icanon => ~time   \* VTIME is for raw input
    /\ tty = [read |-> <<>>, second |-> <<>>, data |-> 0, write |-> <<>>, stopped |-> FALSE]
    /\ signal = {} /\ rd = Idle
    /\ wr = [p \in Proc |-> [pc |-> "idle", text |-> <<>>]]
    /\ cr_flag = FALSE /\ ier = FALSE /\ left = MaxCalls
    /\ typed = <<>> /\ got = <<>>

-----------------------------------------------------------------------------
(* The line discipline.                                                    *)

EndsLine(c) == c \in {"nl", "eof"}

\* Mutant: the line before is erased too.
ErasesNewline(s) == s.second # <<>>
\* Erasing stops at the end of the line before.
CanErase(s) == s.second # <<>> /\ ~EndsLine(Last(s.second))
Erased(s) == [s EXCEPT !.second = Front(@)]
ErasedLine(s) ==
    [s EXCEPT !.second = SubSeq(@, 1, Max({0} \cup {i \in 1 .. Len(@) : EndsLine(@[i])}))]

\* One turn of the loop of copy_to_cooked.  The console echoes at once, so
\* the echo of an edited line never stays in write_q and is left out.
Cooked(s) ==
    LET raw == Head(s.read)
        c == IF raw = "cr" THEN "nl" ELSE raw
        t == [s EXCEPT !.read = Tail(@)]
    IN  CASE icanon /\ c = "kill"  -> ErasedLine(t)
          [] icanon /\ c = "erase" -> IF CanErase(t) THEN Erased(t) ELSE t
          [] icanon /\ c = "stop"  -> [t EXCEPT !.stopped = TRUE]
          [] icanon /\ c = "start" -> [t EXCEPT !.stopped = FALSE]
          [] c = "intr"            -> t
          [] OTHER -> [t EXCEPT !.data = IF EndsLine(c) THEN @ + 1 ELSE @,
                                !.second = PUTCH(@, c)]
\* Mutant: the room in the secondary queue is not looked at.
CooksAll(s) == FoldLeft(LAMBDA t, c : Cooked(t), s, s.read)
\* The whole loop: while there is input and room in the secondary queue.
copy_to_cooked(s) ==
    FoldLeft(LAMBDA t, c : IF FULL(t.second) THEN t ELSE Cooked(t), s, s.read)

\* An input interrupt: read_char of rs_io.s or put_queue of keyboard.S drops
\* the character when read_q is full, then do_tty_interrupt runs the
\* discipline, signals the group and wakes the reader.
Input(c) ==
    /\ c \in Chars /\ Len(typed) < MaxTyped
    /\ LET full == FULL(tty.read)
           s == IF full THEN tty ELSE [tty EXCEPT !.read = Append(@, c)]
           t == copy_to_cooked(s)
       IN  /\ tty' = t
           /\ typed' = IF full THEN typed ELSE Append(typed, c)
           /\ signal' = IF \E i \in 1 .. Len(s.read) - Len(t.read) : s.read[i] = "intr"
                        THEN signal \cup {"INT"} ELSE signal
    /\ rd' = IF rd.pc = "asleep" THEN [rd EXCEPT !.pc = "sleep"] ELSE rd
    /\ UNCHANGED <<fixed, wr, cr_flag, ier, left, got>>

-----------------------------------------------------------------------------
(* tty_read.                                                               *)

Reads(s) == tty' = s /\ UNCHANGED <<fixed, wr, cr_flag, ier, left, typed>>

\* The call: VTIME without VMIN arms an alarm and waits for one character.
ReadCall ==
    /\ kind = "read" /\ rd.pc = "idle"
    /\ \E nr \in {1, 2}, vmin \in {0, 2} :
        LET flag == time /\ vmin = 0
            min == IF flag THEN 1 ELSE vmin
        IN  rd' = [Idle EXCEPT !.pc = "loop", !.nr = nr, !.flag = flag,
                               !.minimum = IF min > nr THEN nr ELSE min]
    /\ signal' = {}
    /\ Reads(tty) /\ UNCHANGED got

\* The head of the loop: a signal ends the call; nothing to read, or only
\* part of a line, leads to sleep_if_empty; else the copying starts.
NoLine == tty.second = <<>> \/ (icanon /\ tty.data = 0 /\ LEFT(tty.second) > MARGIN)
ReadLoop ==
    /\ rd.pc = "loop"
    /\ rd' = [rd EXCEPT !.pc = CASE signal # {} -> "idle"
                                 [] signal = {} /\ NoLine -> "sleep"
                                 [] OTHER -> "fetch"]
    /\ signal' = IF rd.flag THEN signal \ {"ALRM"} ELSE signal
    /\ Reads(tty) /\ UNCHANGED got

\* sleep_if_empty tests with interrupts off, and again when it is woken.
SleepIfEmpty ==
    /\ rd.pc = "sleep"
    /\ rd' = [rd EXCEPT !.pc = IF signal = {} /\ tty.second = <<>> THEN "asleep" ELSE "loop"]
    /\ Reads(tty) /\ UNCHANGED <<signal, got>>
\* The two halves of GETCH.
Fetch ==
    /\ rd.pc = "fetch"
    /\ rd' = [rd EXCEPT !.pc = "advance", !.c = Head(tty.second)]
    /\ Reads(tty) /\ UNCHANGED <<signal, got>>

\* INC(tail), the count of lines, and what the loops decide.
Advance ==
    /\ rd.pc = "advance"
    /\ LET s == [tty EXCEPT !.second = Tail(@),
                            !.data = IF EndsLine(rd.c) THEN @ - 1 ELSE @]
           eof == rd.c = "eof" /\ icanon
           n == IF eof THEN rd.n ELSE rd.n + 1
           more == ~eof /\ n < rd.nr /\ s.second # <<>>
           enough == IF icanon THEN n > 0 ELSE n >= rd.minimum
       IN  /\ Reads(s)
           /\ rd' = [rd EXCEPT !.n = n, !.c = "",
                               !.pc = CASE more -> "fetch"
                                        [] eof \/ n = rd.nr \/ (~more /\ enough) -> "idle"
                                        [] OTHER -> "loop",
                               !.flag = @ \/ (time /\ ~icanon)]
    /\ got' = Append(got, rd.c)
    /\ UNCHANGED signal

\* The alarm of the reader, or a signal from elsewhere, wakes it.
ReaderSignal ==
    /\ kind = "read" /\ rd.pc # "idle" /\ signal = {}
    /\ signal' \in {{"INT"}} \cup (IF rd.flag THEN {{"ALRM"}} ELSE {})
    /\ rd' = IF rd.pc = "asleep" THEN [rd EXCEPT !.pc = "sleep"] ELSE rd
    /\ Reads(tty) /\ UNCHANGED got

-----------------------------------------------------------------------------
(* tty_write, the transmitter and the ioctls.                              *)

\* The processor is one: while a process copies, no other process runs.
Others(p) == \A q \in Proc \ {p} : wr[q].pc # "fill"
Writes == UNCHANGED <<fixed, signal, rd, typed, got>>

WriteCall(p) ==
    /\ kind \in {"serial", "console"} /\ wr[p].pc = "idle" /\ Others(p)
    /\ left > 0 /\ left' = left - 1
    /\ \E text \in Text : wr' = [wr EXCEPT ![p] = [pc |-> "full", text |-> text]]
    /\ UNCHANGED <<tty, cr_flag, ier>> /\ Writes

\* sleep_if_full: a full queue is waited for, with interrupts off, until
\* there is ROOM.
SleepIfFull(p) ==
    /\ wr[p].pc \in {"full", "woken"} /\ Others(p)
    /\ wr' = [wr EXCEPT ![p].pc =
                  IF LEFT(tty.write) < (IF @ = "full" THEN 1 ELSE ROOM)
                  THEN "asleep" ELSE "fill"]
    /\ UNCHANGED <<tty, cr_flag, ier, left>> /\ Writes

\* One character of the copying loop.  The console has OPOST and ONLCR: a
\* newline puts a carriage return first and is looked at again.
Put(p) ==
    /\ wr[p].pc = "fill" /\ wr[p].text # <<>> /\ ~FULL(tty.write)
    /\ LET c == Head(wr[p].text)
           cr == kind = "console" /\ c = "nl" /\ ~cr_flag
       IN  /\ tty' = [tty EXCEPT !.write = PUTCH(@, IF cr THEN "cr" ELSE c)]
           /\ cr_flag' = cr
           /\ wr' = [wr EXCEPT ![p].text = IF cr THEN @ ELSE Tail(@)]
    /\ UNCHANGED <<ier, left>> /\ Writes

\* tty->write(tty): rs_write enables the transmitter when there is something
\* to send, con_write shows everything; then schedule() if text is left.
Flushed(p) ==
    /\ wr[p].pc = "fill" /\ (wr[p].text = <<>> \/ FULL(tty.write))
    /\ wr' = [wr EXCEPT ![p].pc = IF wr[p].text = <<>> THEN "idle" ELSE "full"]
    /\ IF kind = "serial"
       THEN ier' = (ier \/ tty.write # <<>>) /\ UNCHANGED tty
       ELSE tty' = [tty EXCEPT !.write = <<>>] /\ UNCHANGED ier
    /\ UNCHANGED <<cr_flag, left>> /\ Writes

\* write_char of rs_io.s: send one character; wake the writers when STARTUP
\* or fewer are left; an empty queue turns the transmitter interrupt off.
Awake == [p \in Proc |-> IF wr[p].pc = "asleep" THEN [wr[p] EXCEPT !.pc = "woken"] ELSE wr[p]]
Transmit(wake) ==
    /\ ier
    /\ tty' = [tty EXCEPT !.write = IF @ = <<>> THEN @ ELSE Tail(@)]
    /\ wr' = IF wake THEN Awake ELSE wr
    /\ ier' = (Len(tty.write) > 1)
    /\ UNCHANGED <<cr_flag, left>> /\ Writes
\* Mutant: the writers are woken when exactly STARTUP are left.
WakesOnlyAtStartup == Transmit(Len(tty.write) = STARTUP)
write_char == Transmit(Len(tty.write) <= STARTUP \/ Len(tty.write) = 1)

\* TCFLSH of the output, or the flushing forms of TCSETS, while nobody copies.
flush ==
    /\ kind = "serial" /\ tty.write # <<>>
    /\ left > 0 /\ left' = left - 1
    /\ \A p \in Proc : wr[p].pc # "fill"
    /\ tty' = [tty EXCEPT !.write = <<>>]
    /\ UNCHANGED <<wr, cr_flag, ier>> /\ Writes

-----------------------------------------------------------------------------
tty_read == ReadLoop \/ SleepIfEmpty \/ Fetch \/ Advance
tty_write(p) == SleepIfFull(p) \/ Put(p) \/ Flushed(p)

Next == \/ \E c \in Chars : Input(c)
        \/ ReadCall \/ tty_read \/ ReaderSignal
        \/ \E p \in Proc : WriteCall(p) \/ tty_write(p)
        \/ write_char \/ flush

\* Processes that can run do, and the UART raises its interrupt again while
\* the transmitter is enabled.
Spec == /\ Init /\ [][Next]_vars
        /\ WF_vars(tty_read) /\ WF_vars(write_char)
        /\ \A p \in Proc : WF_vars(tty_write(p))

-----------------------------------------------------------------------------
(* Properties.                                                             *)

\* secondary.data, on which a canonical tty_read relies to tell whether a
\* line is complete, is the number of line ends in the secondary queue:
\* whatever is typed, erased or killed, and while a process takes characters
\* out that the interrupt puts in.
DataIsLines ==
    tty.data = Len(SelectSeq(tty.second, EndsLine))

\* What readers got, what waits in the two queues, is what arrived, once and
\* in order (the interrupt character goes to the group instead).
IsText(c) == c # "intr"
ReadInOrder ==
    kind = "read" => got \o tty.second \o SelectSeq(tty.read, IsText)
                       = SelectSeq(typed, IsText)

\* A canonical tty_read returns once a whole line is there, and a tty_write
\* to a serial line returns, also when the queue it waits for is flushed.
CallsReturn ==
    /\ (icanon /\ rd.pc # "idle" /\ tty.data > 0) ~> (rd.pc = "idle")
    /\ \A p \in Proc : (wr[p].pc # "idle") ~> (wr[p].pc = "idle")
=============================================================================
