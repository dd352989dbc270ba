------------------------------ MODULE Keyboard ------------------------------
(***************************************************************************)
(* The keyboard interrupt, kernel/chr_drv/keyboard.S: scan codes become    *)
(* bits of mode and leds and sequences of bytes in the console's read_q.   *)
(* A scan code is named by the routine key_table gives it.  The keyboard   *)
(* itself (what is held down, the codes it sends) is external.             *)
(***************************************************************************)
EXTENDS Naturals, Sequences, SequencesExt

CONSTANTS
    KeySets,    \* sets of keys, one of which is used
    SIZE,       \* of read_q
    MaxWire,    \* codes that may wait when a key moves
    MaxRepeat   \* bound on automatic repetition

VARIABLES
    keys,
    held, wire, repeats,    \* external: keys down, codes sent, repetitions left
    mode,                   \* caps, alt, ctrl and shift mode, as a set of bits
    leds, e0,
    read_q,                 \* bytes, each with its key, its place and the length of its sequence
    presses,                \* parity of the presses of caps lock
    rebooted

vars == <<keys, held, wire, repeats, mode, leds, e0, read_q, presses, rebooted>>

\* What a key sends when pressed and when released.
Make(key) ==
    CASE key = "rctrl" -> <<"E0", "ctrl">>
      [] key = "ralt" -> <<"E0", "alt">>
      [] key = "slash" -> <<"E0", "minus">>
      [] key = "left" -> <<"E0", "cursor">>
      [] key = "pause" -> IF {"ctrl", "rctrl"} \cap held = {} THEN <<"E1", "ctrl", "num", "E1", "unctrl", "none">>
                          ELSE <<"E0", "scroll", "E0", "none">>
      [] OTHER -> <<key>>
Break(key) ==
    CASE key \in {"ctrl", "alt", "lshift", "rshift", "caps"} -> <<"un" \o key>>
      [] key = "rctrl" -> <<"E0", "unctrl">>
      [] key = "ralt" -> <<"E0", "unalt">>
      [] key = "pause" -> <<>>
      [] key \in {"slash", "left"} -> <<"E0", "none">>
      [] OTHER -> <<"none">>

Init ==
    /\ keys \in KeySets /\ held = {} /\ wire = <<>> /\ repeats = MaxRepeat
    /\ mode = {} /\ leds = {"num"} /\ e0 = 0 /\ read_q = <<>>
    /\ presses = 0 /\ rebooted = FALSE

Press(key) ==
    /\ key \notin held
    /\ Len(wire) <= MaxWire
    /\ held' = held \cup {key}
    /\ wire' = wire \o Make(key)
    /\ presses' = IF key = "caps" THEN 1 - presses ELSE presses
    /\ UNCHANGED <<keys, repeats, mode, leds, e0, read_q, rebooted>>

Repeat(key) ==
    /\ key \in held /\ repeats > 0 /\ key # "pause"
    /\ Len(wire) <= MaxWire
    /\ wire' = wire \o Make(key)
    /\ repeats' = repeats - 1
    /\ UNCHANGED <<keys, held, mode, leds, e0, read_q, presses, rebooted>>

Release(key) ==
    /\ key \in held
    /\ Len(wire) <= MaxWire
    /\ held' = held \ {key}
    /\ wire' = wire \o Break(key)
    /\ UNCHANGED <<keys, repeats, mode, leds, e0, read_q, presses, rebooted>>

-----------------------------------------------------------------------------
\* Mutant: the head moves with every byte.
PutsWhatFits(q, key, n) ==
    LET fit == IF Len(q) + n <= SIZE - 1 THEN n ELSE SIZE - 1 - Len(q)
    IN q \o [i \in 1..fit |-> [key |-> key, place |-> i, of |-> n]]

\* put_queue: the head moves once, when all bytes are in.
put_queue(q, key, n) ==
    IF Len(q) + n <= SIZE - 1 THEN q \o [i \in 1..n |-> [key |-> key, place |-> i, of |-> n]] ELSE q

\* ctrl, alt, unctrl, unalt: the doubled bit is that of the right key.
Bit(name) == IF e0 = 0 THEN name ELSE "r" \o name

Toggled(s, b) == IF b \in s THEN s \ {b} ELSE s \cup {b}

\* Mutant: a repetition turns the lock again.
CapsEachTime == mode' = Toggled(mode, "lock") \cup {"caps"} /\ leds' = Toggled(leds, "caps")

\* caps: one press turns the lock once, however often its code comes.
caps ==
    IF "caps" \in mode THEN UNCHANGED <<mode, leds>>
    ELSE mode' = Toggled(mode, "lock") \cup {"caps"} /\ leds' = Toggled(leds, "caps")

Shift == {"lshift", "rshift"} \cap mode # {}

\* reboot: control, alt and del.
reboot(code) ==
    code = "del" /\ {"ctrl", "rctrl"} \cap mode # {} /\ {"alt", "ralt"} \cap mode # {}

\* do_self: alt-gr has no character for these keys, and puts nothing.
do_self(code) == IF "ralt" \in mode THEN read_q ELSE put_queue(read_q, code, 1)

\* cursor: e0, no num-lock or shift send an escape sequence.  ~ ends those that are digits.
cursor(code) ==
    put_queue(read_q, code, IF e0 = 1 \/ "num" \notin leds \/ Shift
                            THEN IF code = "del" THEN 4 ELSE 3 ELSE 1)

\* func compares %ecx, a register of whatever was interrupted, with 4.
func == {read_q, put_queue(read_q, "func", 4)}

\* What the routine may leave in read_q.
Queued(code) ==
    CASE code \in {"cursor", "del"} -> {cursor(code)}
      [] code = "func" -> func
      [] code = "self" -> {do_self(code)}
      [] code = "minus" -> {IF e0 = 1 THEN put_queue(read_q, "slash", 1) ELSE do_self(code)}
      [] OTHER -> {read_q}

\* key_table, but for the queue.
Handled(code) ==
    \/ code \in {"ctrl", "alt"} /\ mode' = mode \cup {Bit(code)} /\ UNCHANGED leds
    \/ /\ code \in {"unctrl", "unalt"}
       /\ mode' = mode \ {Bit(IF code = "unctrl" THEN "ctrl" ELSE "alt")}
       /\ UNCHANGED leds
    \/ code \in {"lshift", "rshift"} /\ mode' = mode \cup {code} /\ UNCHANGED leds
    \/ /\ code \in {"unlshift", "unrshift", "uncaps"}
       /\ mode' = mode \ {CASE code = "unlshift" -> "lshift" [] code = "unrshift" -> "rshift" [] OTHER -> "caps"}
       /\ UNCHANGED leds
    \/ code = "caps" /\ caps
    \/ code \in {"num", "scroll"} /\ leds' = Toggled(leds, code) /\ UNCHANGED mode
    \/ code \in {"cursor", "del", "func", "self", "minus", "none"} /\ UNCHANGED <<mode, leds>>

\* do_tty_interrupt takes bytes as long as the cooked queue has room.
do_tty_interrupt(q) == \E n \in 0..Len(q) : read_q' = SubSeq(q, n + 1, Len(q))

\* A code, e0 being cleared after its routine; then do_tty_interrupt.
keyboard_interrupt ==
    /\ wire # <<>> /\ ~rebooted
    /\ wire' = Tail(wire)
    /\ LET code == Head(wire)
       IN \/ /\ code \in {"E0", "E1"}
             /\ e0' = IF code = "E0" THEN 1 ELSE 2
             /\ do_tty_interrupt(read_q)
             /\ UNCHANGED <<mode, leds, rebooted>>
          \/ /\ code \notin {"E0", "E1"} /\ ~reboot(code)
             /\ e0' = 0
             /\ Handled(code)
             /\ \E q \in Queued(code) : do_tty_interrupt(q)
             /\ UNCHANGED rebooted
          \/ reboot(code) /\ rebooted' = TRUE /\ UNCHANGED <<mode, leds, e0, read_q>>
    /\ UNCHANGED <<keys, held, repeats, presses>>

Next ==
    \/ \E key \in keys : Press(key) \/ Repeat(key) \/ Release(key)
    \/ keyboard_interrupt

Spec == Init /\ [][Next]_vars

-----------------------------------------------------------------------------
\* When every code has been taken mode is what is held down and caps lock has
\* turned once per press (keyboard.S:124-177), prefixes, repetitions and the
\* pause key notwithstanding.
ModeIsHeld ==
    wire = <<>> =>
        /\ e0 = 0
        /\ mode \ {"lock"} = held \cap {"ctrl", "rctrl", "alt", "ralt", "lshift", "rshift", "caps"}
        /\ ("lock" \in mode) = (presses = 1)
        /\ ("caps" \in leds) = (presses = 1)

\* Of a sequence that does not fit nothing is queued: what a key puts into
\* read_q is there to its last byte, next to each other (keyboard.S:94-110).
WholeKeys ==
    /\ Len(read_q) < SIZE
    /\ \A i \in 1..Len(read_q) :
           read_q[i].place < read_q[i].of =>
               i < Len(read_q) /\ read_q[i + 1] = [read_q[i] EXCEPT !.place = @ + 1]
=============================================================================
