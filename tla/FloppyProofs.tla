---------------------------- MODULE FloppyProofs ----------------------------
(***************************************************************************)
(* For any drives, tracks, requests and errors of the hardware: a floppy   *)
(* transfer starts with the head of its drive on the track of its request. *)
(***************************************************************************)
EXTENDS Floppy, SequenceTheorems, WellFoundedInduction, TLAPS

\* What the theorem assumes: drive 0 and track 0 are there, and no track has the
\* number that stands for an unknown one.
Tracks == 0 \in Drive /\ 0 \in Track /\ 255 \notin Track

Fields ==
    {"queue", "do_floppy", "timers", "controller", "reset", "recalibrate", "seek", "selected",
     "DOR", "current_drive", "current_track", "seek_track", "motor", "mon_timer", "off",
     "glitches", "bare", "fault"}

FloppyReq == [drive : Drive, track : Track, beyond : BOOLEAN, errors : Nat]

\* The driver, as far as the heads are concerned.
Driver(g) ==
    /\ DOMAIN g = Fields
    /\ g.queue \in Seq(FloppyReq)
    /\ g.current_drive \in Drive /\ g.seek_track \in Track

\* current_track is where the head of the current drive is, or unknown; or errors
\* will make the driver find out before it goes on.
Sure(g, h) == g.current_track = 255 \/ h[g.current_drive] = g.current_track
Knows(g, h) == g.reset \/ g.recalibrate \/ Sure(g, h)

\* No command has been given.
Waits(g) == g.controller = Idle /\ g.do_floppy = NULL

\* Nothing is being done.
Rests(g, h) == g.timers = <<>> /\ Waits(g) /\ Knows(g, h)

\* A request may be transferred at once, or after a seek.
Ready(g, h) == ~g.seek => h[g.current_drive] = g.seek_track /\ Knows(g, h)
Timed(g, h) ==
    /\ g.timers \in {<<"transfer">>, <<"floppy_on_interrupt">>}
    /\ Waits(g) /\ Ready(g, h) /\ g.queue # <<>>

\* A command has been given.
Command(op, d, t) == [op |-> op, drive |-> d, track |-> t]
Transfers(g, h) ==
    /\ g.do_floppy = "rw_interrupt"
    /\ g.controller = Command("rw", g.current_drive, g.seek_track)
    /\ h[g.current_drive] = g.seek_track /\ Knows(g, h)
Seeks(g) ==
    /\ g.do_floppy = "seek_interrupt"
    /\ g.controller = Command("seek", g.current_drive, g.seek_track)
Recalibrates(g) ==
    /\ g.do_floppy = "recal_interrupt"
    /\ g.controller = Command("recalibrate", g.current_drive, 0)
    /\ g.current_track = 0
Resets(g) ==
    /\ g.do_floppy = "reset_interrupt"
    /\ g.controller = [op |-> "reset"]
    /\ g.recalibrate
Commanded(g, h) ==
    /\ g.timers = <<>> /\ g.queue # <<>>
    /\ Transfers(g, h) \/ Seeks(g) \/ Recalibrates(g) \/ Resets(g)

\* The inductive invariant of HeadOnTrack.
InOrder(g, h) == Driver(g) /\ (~g.bare => ~g.fault /\ (Rests(g, h) \/ Timed(g, h) \/ Commanded(g, h)))
FInv == DOMAIN head = Drive /\ InOrder(f, head)

-----------------------------------------------------------------------------
\* r is g with a command given.
Given(r, g, c) ==
    /\ DOMAIN r = Fields
    /\ r.queue = g.queue /\ r.timers = g.timers /\ r.do_floppy = g.do_floppy /\ r.controller = c
    /\ r.reset = g.reset /\ r.recalibrate = g.recalibrate /\ r.seek = g.seek
    /\ r.current_drive = g.current_drive /\ r.current_track = g.current_track
    /\ r.seek_track = g.seek_track /\ r.bare = g.bare /\ r.fault = g.fault

\* A reset puts everything in order.
LEMMA ResetInOrder ==
    ASSUME NEW g, NEW h, Driver(g), ~g.bare => ~g.fault /\ g.timers = <<>>
    PROVE  InOrder(reset_floppy(g), h)
<1> DEFINE r == reset_floppy(g)
<1>1. /\ DOMAIN r = Fields
      /\ r.queue = g.queue /\ r.current_drive = g.current_drive /\ r.seek_track = g.seek_track
      /\ r.timers = g.timers /\ r.fault = g.fault /\ r.bare = (g.bare \/ g.queue = <<>>)
      /\ r.do_floppy = "reset_interrupt" /\ r.controller = [op |-> "reset"] /\ r.recalibrate = TRUE
  BY SMTT(60) DEF Driver, Fields, reset_floppy
<1> HIDE DEF r
<1>2. Driver(r)
  BY ZenonT(60), <1>1 DEF Driver
<1>3. ~r.bare => ~g.bare /\ g.queue # <<>>
  BY ZenonT(60), <1>1
<1>4. ~r.bare => ~r.fault /\ Commanded(r, h)
  BY ZenonT(60), <1>1, <1>3 DEF Commanded, Resets
<1> QED
  BY ZenonT(60), <1>2, <1>4 DEF InOrder, r

\* A command is given, or its failure leads to a reset.
LEMMA OutputInOrder ==
    ASSUME NEW g, NEW h, NEW op, NEW d, NEW t, Driver(g), ~g.bare => ~g.fault /\ g.timers = <<>>,
           NEW r \in OrReset(Output(g, op, d, t))
    PROVE  InOrder(r, h) \/ Given(r, g, Command(op, d, t))
<1>1. PICK o \in Output(g, op, d, t) : r = IF o.reset THEN reset_floppy(o) ELSE o
  BY ZenonT(60) DEF OrReset
<1>2. \/ o = [g EXCEPT !.controller = Command(op, d, t)]
      \/ \E n : o = [g EXCEPT !.reset = TRUE, !.glitches = n]
  BY ZenonT(60), <1>1 DEF Output, Command
<1>3. /\ DOMAIN o = Fields /\ o.queue = g.queue /\ o.current_drive = g.current_drive
      /\ o.seek_track = g.seek_track /\ o.timers = g.timers /\ o.fault = g.fault /\ o.bare = g.bare
      /\ o.reset = g.reset \/ o.reset = TRUE
  <2>1. CASE o = [g EXCEPT !.controller = Command(op, d, t)]
    BY SMTT(60), <2>1 DEF Driver, Fields
  <2>2. CASE \E n : o = [g EXCEPT !.reset = TRUE, !.glitches = n]
    <3>1. PICK n : o = [g EXCEPT !.reset = TRUE, !.glitches = n]
      BY ZenonT(60), <2>2
    <3> QED
      BY SMTT(60), <3>1 DEF Driver, Fields
  <2> QED
    BY ZenonT(60), <1>2, <2>1, <2>2
<1>4. Driver(o) /\ (~o.bare => ~o.fault /\ o.timers = <<>>)
  BY ZenonT(60), <1>3 DEF Driver
<1>5. CASE o.reset
  BY ZenonT(60), <1>1, <1>4, <1>5, ResetInOrder
<1>6. CASE ~o.reset
  <2>1. o = [g EXCEPT !.controller = Command(op, d, t)]
    <3>1. ASSUME NEW n, o = [g EXCEPT !.reset = TRUE, !.glitches = n] PROVE FALSE
      BY SMTT(60), <3>1, <1>6 DEF Driver, Fields
    <3> QED
      BY ZenonT(60), <1>2, <3>1
  <2>2. Given(o, g, Command(op, d, t))
    BY SMTT(60), <2>1 DEF Given, Driver, Fields
  <2> QED
    BY ZenonT(60), <1>1, <1>6, <2>2
<1> QED
  BY ZenonT(60), <1>5, <1>6

\* A recalibration is on its way to track 0, or its failure leads to a reset.
LEMMA RecalibrateInOrder ==
    ASSUME NEW g, NEW h, Driver(g), ~g.bare => ~g.fault /\ g.timers = <<>>,
           NEW r \in recalibrate_floppy(g)
    PROVE  InOrder(r, h)
<1> DEFINE k == [g EXCEPT !.recalibrate = FALSE, !.current_track = 0,
                          !.do_floppy = "recal_interrupt", !.bare = @ \/ g.queue = <<>>]
           c == Command("recalibrate", k.current_drive, 0)
<1>1. /\ DOMAIN k = Fields
      /\ k.queue = g.queue /\ k.current_drive = g.current_drive /\ k.seek_track = g.seek_track
      /\ k.timers = g.timers /\ k.fault = g.fault /\ k.bare = (g.bare \/ g.queue = <<>>)
      /\ k.do_floppy = "recal_interrupt" /\ k.current_track = 0
  BY SMTT(60) DEF Driver, Fields
<1>2. r \in OrReset(Output(k, "recalibrate", k.current_drive, 0))
  BY ZenonT(60) DEF recalibrate_floppy
<1> HIDE DEF k
<1>3. Driver(k) /\ (~k.bare => ~k.fault /\ k.timers = <<>>) /\ (~k.bare => k.queue # <<>>)
  BY ZenonT(60), <1>1 DEF Driver
<1>4. InOrder(r, h) \/ Given(r, k, c)
  BY ZenonT(60), <1>2, <1>3, OutputInOrder
<1>5. ASSUME Given(r, k, c) PROVE InOrder(r, h)
  <2>1. Driver(r)
    BY ZenonT(60), <1>3, <1>5 DEF Driver, Given
  <2>2. ~r.bare => ~r.fault /\ r.timers = <<>> /\ r.queue # <<>>
    BY ZenonT(60), <1>3, <1>5 DEF Given
  <2>3. Recalibrates(r)
    BY ZenonT(60), <1>1, <1>5 DEF Recalibrates, Given
  <2> QED
    BY ZenonT(60), <2>1, <2>2, <2>3 DEF InOrder, Commanded
<1> QED
  BY ZenonT(60), <1>4, <1>5

\* transfer, with the head on its track.
LEMMA SetupInOrder ==
    ASSUME NEW g, NEW h, Driver(g), NEW r \in setup_rw_floppy(g),
           ~g.bare => ~g.fault /\ g.timers = <<>> /\ g.queue # <<>>,
           ~g.bare => h[g.current_drive] = g.seek_track /\ Knows(g, h)
    PROVE  InOrder(r, h)
<1>1. CASE g.queue = <<>>
  <2>1. r = [g EXCEPT !.fault = TRUE]
    BY ZenonT(60), <1>1 DEF setup_rw_floppy
  <2>2. DOMAIN r = Fields /\ r.queue = g.queue /\ r.current_drive = g.current_drive /\ r.seek_track = g.seek_track
        /\ r.bare = g.bare
    BY SMTT(60), <2>1 DEF Driver, Fields
  <2> QED
    BY ZenonT(60), <1>1, <2>2 DEF InOrder, Driver
<1>2. CASE g.queue # <<>>
  <2> DEFINE k == [g EXCEPT !.do_floppy = "rw_interrupt"]
             c == Command("rw", k.current_drive, k.seek_track)
  <2>1. /\ DOMAIN k = Fields
        /\ k.queue = g.queue /\ k.current_drive = g.current_drive /\ k.seek_track = g.seek_track
        /\ k.timers = g.timers /\ k.fault = g.fault /\ k.bare = g.bare
        /\ k.do_floppy = "rw_interrupt" /\ k.current_track = g.current_track
        /\ k.reset = g.reset /\ k.recalibrate = g.recalibrate
    BY SMTT(60) DEF Driver, Fields
  <2>2. r \in OrReset(Output(k, "rw", g.current_drive, g.seek_track))
    BY ZenonT(60), <1>2 DEF setup_rw_floppy
  <2> HIDE DEF k
  <2>3. Driver(k) /\ (~k.bare => ~k.fault /\ k.timers = <<>>) /\ (~k.bare => k.queue # <<>>)
    BY ZenonT(60), <2>1 DEF Driver
  <2>4. InOrder(r, h) \/ Given(r, k, c)
    BY ZenonT(60), <2>1, <2>2, <2>3, OutputInOrder
  <2>5. ASSUME Given(r, k, c) PROVE InOrder(r, h)
    <3>1. Driver(r)
      BY ZenonT(60), <2>3, <2>5 DEF Driver, Given
    <3>2. ~r.bare => ~r.fault /\ r.timers = <<>> /\ r.queue # <<>>
      BY ZenonT(60), <2>3, <2>5 DEF Given
    <3>3. r.do_floppy = "rw_interrupt" /\ r.controller = Command("rw", r.current_drive, r.seek_track)
      BY ZenonT(60), <2>1, <2>5 DEF Given
    <3>4. /\ r.current_drive = g.current_drive /\ r.seek_track = g.seek_track /\ r.bare = g.bare
          /\ r.reset = g.reset /\ r.recalibrate = g.recalibrate /\ r.current_track = g.current_track
      BY ZenonT(60), <2>1, <2>5 DEF Given
    <3>5. ~r.bare => h[r.current_drive] = r.seek_track
      BY ZenonT(60), <3>4
    <3>6. ~r.bare => Knows(r, h)
      BY ZenonT(60), <3>4 DEF Knows, Sure
    <3> QED
      BY ZenonT(60), <3>1, <3>2, <3>3, <3>5, <3>6 DEF InOrder, Commanded, Transfers
  <2> QED
    BY ZenonT(60), <2>4, <2>5
<1> QED
  BY ZenonT(60), <1>1, <1>2

\* transfer: with the head on its track the transfer begins, else a seek.
LEMMA TransferInOrder ==
    ASSUME NEW g, NEW h, Driver(g), NEW r \in transfer(g),
           ~g.bare => ~g.fault /\ g.timers = <<>> /\ g.queue # <<>>,
           ~g.bare => Ready(g, h)
    PROVE  InOrder(r, h)
<1>1. CASE ~g.seek
  BY ZenonT(60), <1>1, SetupInOrder DEF transfer, Ready
<1>2. CASE g.seek
  <2> DEFINE k == [g EXCEPT !.do_floppy = "seek_interrupt"]
             c == Command("seek", k.current_drive, k.seek_track)
  <2>1. /\ DOMAIN k = Fields
        /\ k.queue = g.queue /\ k.current_drive = g.current_drive /\ k.seek_track = g.seek_track
        /\ k.timers = g.timers /\ k.fault = g.fault /\ k.bare = g.bare
        /\ k.do_floppy = "seek_interrupt"
    BY SMTT(60) DEF Driver, Fields
  <2>2. r \in OrReset(Output(k, "seek", g.current_drive, g.seek_track))
    BY ZenonT(60), <1>2 DEF transfer
  <2> HIDE DEF k
  <2>3. Driver(k) /\ (~k.bare => ~k.fault /\ k.timers = <<>>) /\ (~k.bare => k.queue # <<>>)
    BY ZenonT(60), <2>1 DEF Driver
  <2>4. InOrder(r, h) \/ Given(r, k, c)
    BY ZenonT(60), <2>1, <2>2, <2>3, OutputInOrder
  <2>5. ASSUME Given(r, k, c) PROVE InOrder(r, h)
    <3>1. Driver(r)
      BY ZenonT(60), <2>3, <2>5 DEF Driver, Given
    <3>2. ~r.bare => ~r.fault /\ r.timers = <<>> /\ r.queue # <<>>
      BY ZenonT(60), <2>3, <2>5 DEF Given
    <3>3. Seeks(r)
      BY ZenonT(60), <2>1, <2>5 DEF Given, Seeks
    <3> QED
      BY ZenonT(60), <3>1, <3>2, <3>3 DEF InOrder, Commanded
  <2> QED
    BY ZenonT(60), <2>4, <2>5
<1> QED
  BY ZenonT(60), <1>1, <1>2

\* The motor is up to speed: the drive is selected, or the transfer begins.
LEMMA OnInOrder ==
    ASSUME NEW g, NEW h, Driver(g), NEW r \in floppy_on_interrupt(g),
           ~g.bare => ~g.fault /\ g.timers = <<>> /\ g.queue # <<>>,
           ~g.bare => Ready(g, h) /\ Waits(g)
    PROVE  InOrder(r, h)
<1> DEFINE k == [g EXCEPT !.selected = TRUE]
           e == [k EXCEPT !.DOR = k.current_drive, !.timers = Append(@, "transfer")]
<1>1. /\ DOMAIN k = Fields
      /\ k.queue = g.queue /\ k.current_drive = g.current_drive /\ k.seek_track = g.seek_track
      /\ k.timers = g.timers /\ k.fault = g.fault /\ k.bare = g.bare
      /\ k.do_floppy = g.do_floppy /\ k.controller = g.controller /\ k.current_track = g.current_track
      /\ k.reset = g.reset /\ k.recalibrate = g.recalibrate /\ k.seek = g.seek
  BY SMTT(60) DEF Driver, Fields
<1>2. r = e \/ r \in transfer(k)
  BY ZenonT(60) DEF floppy_on_interrupt
<1> HIDE DEF k
<1>3. Driver(k) /\ (~k.bare => ~k.fault /\ k.timers = <<>> /\ k.queue # <<>>)
  BY ZenonT(60), <1>1 DEF Driver
<1>4. ~k.bare => Ready(k, h) /\ Waits(k)
  BY ZenonT(60), <1>1 DEF Ready, Waits, Knows, Sure
<1>5. /\ DOMAIN e = Fields
      /\ e.queue = k.queue /\ e.current_drive = k.current_drive /\ e.seek_track = k.seek_track
      /\ e.timers = Append(k.timers, "transfer") /\ e.fault = k.fault /\ e.bare = k.bare
      /\ e.do_floppy = k.do_floppy /\ e.controller = k.controller /\ e.current_track = k.current_track
      /\ e.reset = k.reset /\ e.recalibrate = k.recalibrate /\ e.seek = k.seek
  BY SMTT(60), <1>3 DEF Driver, Fields
<1>6. Append(<<>>, "transfer") = <<"transfer">>
  BY SMTT(60)
<1> HIDE DEF e
<1>7. ASSUME r = e PROVE InOrder(r, h)
  <2>1. Driver(e)
    BY ZenonT(60), <1>3, <1>5 DEF Driver
  <2>2. ~e.bare => ~e.fault /\ e.timers = <<"transfer">> /\ e.queue # <<>>
    BY ZenonT(60), <1>3, <1>5, <1>6
  <2>3. ~e.bare => Ready(e, h) /\ Waits(e)
    BY ZenonT(60), <1>4, <1>5 DEF Ready, Waits, Knows, Sure
  <2> QED
    BY ZenonT(60), <1>7, <2>1, <2>2, <2>3 DEF InOrder, Timed
<1> QED
  BY ZenonT(60), <1>2, <1>3, <1>4, <1>7, TransferInOrder

-----------------------------------------------------------------------------
\* A set of natural numbers has a least element.
LEMMA LeastOf ==
    ASSUME NEW S, S \subseteq Nat, S # {}
    PROVE  \E x \in S : \A y \in S : x <= y
<1> DEFINE R == {ss \in Nat \X Nat : ss[1] < ss[2]}
<1>1. IsWellFoundedOn(R, Nat)
  BY ZenonT(60), NatLessThanWellFounded DEF OpToRel
<1> HIDE DEF R
<1>2. PICK x \in S : \A y \in S : ~(<<y, x>> \in R)
  BY ZenonT(60), <1>1, WFMin
<1>3. \A y \in S : ~(y < x)
  BY ZenonT(60), <1>2 DEF R
<1>4. \A y \in S : x <= y
  BY SMTT(60), <1>3
<1> QED
  BY ZenonT(60), <1>4

\* r is as good as g: motors, selects and glitches do not count.
Like(r, g) ==
    /\ DOMAIN r = Fields
    /\ r.queue = g.queue /\ r.timers = g.timers /\ r.do_floppy = g.do_floppy /\ r.controller = g.controller
    /\ r.reset = g.reset /\ r.recalibrate = g.recalibrate /\ r.seek = g.seek
    /\ r.current_drive = g.current_drive /\ r.current_track = g.current_track
    /\ r.seek_track = g.seek_track /\ r.bare = g.bare /\ r.fault = g.fault

\* What the invariant says of the driver speaks only of the fields that Like keeps.
LEMMA LikeFacts ==
    ASSUME NEW g, NEW r, NEW h, Like(r, g)
    PROVE  /\ Driver(g) => Driver(r)
           /\ Knows(r, h) <=> Knows(g, h)
           /\ Ready(r, h) <=> Ready(g, h)
           /\ Waits(r) <=> Waits(g)
<1>1. Driver(g) => Driver(r)
  BY ZenonT(60) DEF Like, Driver
<1>2. Knows(r, h) <=> Knows(g, h)
  BY ZenonT(60) DEF Like, Knows, Sure
<1>3. Ready(r, h) <=> Ready(g, h)
  BY ZenonT(60), <1>2 DEF Like, Ready
<1>4. Waits(r) <=> Waits(g)
  BY ZenonT(60) DEF Like, Waits
<1> QED
  BY ZenonT(60), <1>1, <1>2, <1>3, <1>4

\* A step that only touches motors and the drive select changes no order.
LEMMA LikeInOrder ==
    ASSUME NEW g, NEW r, NEW h, Like(r, g), InOrder(g, h)
    PROVE  InOrder(r, h)
<1>1. r.bare = g.bare /\ r.fault = g.fault
  BY ZenonT(60) DEF Like
<1>2. Rests(g, h) => Rests(r, h)
  BY ZenonT(60), LikeFacts DEF Rests, Like
<1>3. Timed(g, h) => Timed(r, h)
  BY ZenonT(60), LikeFacts DEF Timed, Like
<1>4. Commanded(g, h) => Commanded(r, h)
  <2>1. Transfers(g, h) => Transfers(r, h)
    BY ZenonT(60), LikeFacts DEF Transfers, Like
  <2>2. Seeks(g) => Seeks(r)
    BY ZenonT(60) DEF Seeks, Like
  <2>3. Recalibrates(g) => Recalibrates(r)
    BY ZenonT(60) DEF Recalibrates, Like
  <2>4. Resets(g) => Resets(r)
    BY ZenonT(60) DEF Resets, Like
  <2>5. r.timers = g.timers /\ r.queue = g.queue
    BY ZenonT(60) DEF Like
  <2> QED
    BY ZenonT(60), <2>1, <2>2, <2>3, <2>4, <2>5 DEF Commanded
<1> QED
  BY ZenonT(60), <1>1, <1>2, <1>3, <1>4, LikeFacts DEF InOrder

\* Motors, the drive select and their timers are such fields.
LEMMA MotorsLike ==
    ASSUME NEW g, NEW nr, Driver(g)
    PROVE  Like(ticks_to_floppy_on(g, nr), g) /\ Like(floppy_off(g, nr), g) /\ Like(floppy_deselect(g), g)
<1>1. Like(ticks_to_floppy_on(g, nr), g)
  BY SMTT(60) DEF ticks_to_floppy_on, Like, Driver, Fields
<1>2. Like(floppy_off(g, nr), g)
  BY SMTT(60) DEF floppy_off, Like, Driver, Fields
<1>3. Like(floppy_deselect(g), g)
  BY SMTT(60) DEF floppy_deselect, Like, Driver, Fields
<1> QED
  BY ZenonT(60), <1>1, <1>2, <1>3

\* Changing the first request leaves a queue of requests.
LEMMA FirstSet ==
    ASSUME NEW S, NEW q \in Seq(S), q # <<>>, NEW r \in S
    PROVE  [q EXCEPT ![1] = r] \in Seq(S) /\ [q EXCEPT ![1] = r] # <<>>
<1> DEFINE e == [q EXCEPT ![1] = r]
<1>1. 1 \in 1..Len(q)
  BY SMTT(60)
<1>2. e \in Seq(S) /\ Len(e) = Len(q)
  BY SMTT(60), <1>1, ExceptSeq
<1> HIDE DEF e
<1>3. e # <<>>
  BY SMTT(60), <1>1, <1>2
<1> QED
  BY ZenonT(60), <1>2, <1>3 DEF e

\* The first request of a queue, and the queue behind it.
LEMMA FirstOf == ASSUME NEW S, NEW q \in Seq(S), q # <<>> PROVE q[1] \in S /\ Tail(q) \in Seq(S)
  BY SMTT(60)

\* Requests that end at once leave a queue of requests.
LEMMA ValidFacts ==
    ASSUME NEW g, Driver(g)
    PROVE  LET v == Valid(g)
           IN  /\ Driver(v)
               /\ v.timers = g.timers /\ v.do_floppy = g.do_floppy /\ v.controller = g.controller
               /\ v.reset = g.reset /\ v.recalibrate = g.recalibrate
               /\ v.current_drive = g.current_drive /\ v.current_track = g.current_track
               /\ v.bare = g.bare /\ v.fault = g.fault
<1> DEFINE n == {i \in 1..Len(g.queue) : ~g.queue[i].beyond}
           first == IF n = {} THEN Len(g.queue) + 1 ELSE CHOOSE i \in n : \A j \in n : i <= j
           q == SubSeq(g.queue, first, Len(g.queue))
           o == g.off \cup {g.queue[i].drive : i \in 1..(first - 1)}
           v == [g EXCEPT !.queue = q, !.off = o]
<1>1. g.queue \in Seq(FloppyReq) /\ Len(g.queue) \in Nat
  BY SMTT(60) DEF Driver
<1>2. first \in 1..(Len(g.queue) + 1)
  <2>1. CASE n = {}
    <3>1. first = Len(g.queue) + 1
      BY ZenonT(60), <2>1
    <3> HIDE DEF first
    <3> QED
      BY SMTT(60), <3>1, <1>1
  <2>2. CASE n # {}
    <3>1. n \subseteq Nat /\ n \subseteq 1..Len(g.queue)
      BY SMTT(60), <1>1
    <3> HIDE DEF n
    <3>2. \E i \in n : \A j \in n : i <= j
      BY ZenonT(60), <2>2, <3>1, LeastOf
    <3>3. first \in n
      BY ZenonT(60), <2>2, <3>2
    <3> HIDE DEF first
    <3> QED
      BY SMTT(60), <3>1, <3>3, <1>1
  <2> QED
    BY ZenonT(60), <2>1, <2>2
<1>3. Valid(g) = v
  BY ZenonT(60) DEF Valid
<1> HIDE DEF n, first, o
<1>4. q \in Seq(FloppyReq)
  <2>1. first \in Int /\ Len(g.queue) \in Int
    BY SMTT(60), <1>1, <1>2
  <2>2. \A i \in first .. Len(g.queue) : g.queue[i] \in FloppyReq
    BY SMTT(60), <1>1, <1>2
  <2> QED
    BY ZenonT(60), <2>1, <2>2, SubSeqProperties
<1> HIDE DEF q
<1>5. /\ DOMAIN v = Fields /\ v.queue = q
      /\ v.timers = g.timers /\ v.do_floppy = g.do_floppy /\ v.controller = g.controller
      /\ v.reset = g.reset /\ v.recalibrate = g.recalibrate
      /\ v.current_drive = g.current_drive /\ v.current_track = g.current_track
      /\ v.seek_track = g.seek_track /\ v.bare = g.bare /\ v.fault = g.fault
  BY SMTT(60) DEF Driver, Fields
<1>6. Driver(v)
  <2> HIDE DEF v
  <2> QED
    BY ZenonT(60), <1>4, <1>5 DEF Driver
<1> HIDE DEF v
<1> QED
  BY ZenonT(60), <1>3, <1>5, <1>6

\* Nothing is being done, and what will be done first is known.
Over(g, h) == Driver(g) /\ (~g.bare => ~g.fault /\ Rests(g, h))

\* do_fd_request, called when nothing is being done, leaves the driver in order:
\* it resets, recalibrates, or starts the first valid request.
LEMMA DoFdRequestInOrder ==
    ASSUME Tracks, NEW g0, NEW h, Over(g0, h), NEW x \in do_fd_request(g0)
    PROVE  InOrder(x, h)
<1> DEFINE g == [g0 EXCEPT !.seek = FALSE]
           v == Valid(g)
           r == v.queue[1]
           sk == v.current_drive # r.drive \/ v.current_track # r.track
           k == [v EXCEPT !.seek = sk, !.current_drive = r.drive, !.seek_track = r.track]
           on == ticks_to_floppy_on(k, r.drive)
           e == [on EXCEPT !.timers = Append(@, "floppy_on_interrupt")]
<1>1. /\ DOMAIN g = Fields
      /\ g.queue = g0.queue /\ g.current_drive = g0.current_drive /\ g.seek_track = g0.seek_track
      /\ g.timers = g0.timers /\ g.fault = g0.fault /\ g.bare = g0.bare
      /\ g.do_floppy = g0.do_floppy /\ g.controller = g0.controller /\ g.current_track = g0.current_track
      /\ g.reset = g0.reset /\ g.recalibrate = g0.recalibrate
  BY SMTT(60) DEF Over, Driver, Fields
<1>2. \/ g.reset /\ x = reset_floppy(g)
      \/ g.recalibrate /\ x \in recalibrate_floppy(g)
      \/ ~g.reset /\ ~g.recalibrate /\ v.queue = <<>> /\ x = v
      \/ ~g.reset /\ ~g.recalibrate /\ v.queue # <<>> /\ (x = e \/ x \in floppy_on_interrupt(on))
  BY ZenonT(60) DEF do_fd_request
<1> HIDE DEF g
<1>3. Driver(g) /\ (~g.bare => ~g.fault /\ g.timers = <<>>) /\ (~g.bare => Waits(g) /\ Knows(g, h))
  BY ZenonT(60), <1>1 DEF Over, Rests, Driver, Waits, Knows, Sure
<1>4. ASSUME g.reset, x = reset_floppy(g) PROVE InOrder(x, h)
  BY ZenonT(60), <1>3, <1>4, ResetInOrder
<1>5. ASSUME g.recalibrate, x \in recalibrate_floppy(g) PROVE InOrder(x, h)
  BY ZenonT(60), <1>3, <1>5, RecalibrateInOrder
<1>6. /\ Driver(v)
      /\ v.timers = g.timers /\ v.do_floppy = g.do_floppy /\ v.controller = g.controller
      /\ v.reset = g.reset /\ v.recalibrate = g.recalibrate
      /\ v.current_drive = g.current_drive /\ v.current_track = g.current_track
      /\ v.bare = g.bare /\ v.fault = g.fault
  BY ZenonT(60), <1>3, ValidFacts
<1> HIDE DEF v
<1>7. Driver(v) /\ (~v.bare => ~v.fault /\ v.timers = <<>>) /\ (~v.bare => Waits(v) /\ Knows(v, h))
  BY ZenonT(60), <1>3, <1>6 DEF Waits, Knows, Sure
<1>8. ASSUME x = v PROVE InOrder(x, h)
  BY ZenonT(60), <1>7, <1>8 DEF InOrder, Rests
<1>9. ASSUME ~g.reset, ~g.recalibrate, v.queue # <<>>, x = e \/ x \in floppy_on_interrupt(on)
      PROVE  InOrder(x, h)
  <2>1. r \in FloppyReq
    BY ZenonT(60), <1>7, <1>9, FirstOf DEF Driver
  <2>2. r.drive \in Drive /\ r.track \in Track
    BY ZenonT(60), <2>1 DEF FloppyReq
  <2> HIDE DEF r
  <2>3. /\ DOMAIN k = Fields /\ k.queue = v.queue
        /\ k.timers = v.timers /\ k.do_floppy = v.do_floppy /\ k.controller = v.controller
        /\ k.reset = v.reset /\ k.recalibrate = v.recalibrate
        /\ k.current_drive = r.drive /\ k.current_track = v.current_track /\ k.seek_track = r.track
        /\ k.bare = v.bare /\ k.fault = v.fault
        /\ k.seek = sk
    <3> HIDE DEF sk
    <3> QED
      BY SMTT(60), <1>7 DEF Driver, Fields
  <2> HIDE DEF k
  <2>4. Driver(k) /\ (~k.bare => ~k.fault /\ k.timers = <<>> /\ k.queue # <<>>) /\ (~k.bare => Waits(k))
    BY ZenonT(60), <1>7, <1>9, <2>2, <2>3 DEF Driver, Waits
  <2>5. ~k.bare => Ready(k, h)
    <3>1. ~v.bare => Sure(v, h)
      BY ZenonT(60), <1>6, <1>7, <1>9 DEF Knows
    <3>2. r.track # 255
      BY ZenonT(60), <2>2 DEF Tracks
    <3>0. ~k.seek => v.current_drive = r.drive /\ v.current_track = r.track
      BY ZenonT(60), <2>3
    <3>3. ~k.bare /\ ~k.seek => h[r.drive] = r.track
      BY ZenonT(60), <2>3, <3>0, <3>1, <3>2 DEF Sure
    <3>4. ~k.bare /\ ~k.seek => h[k.current_drive] = k.seek_track /\ Sure(k, h)
      BY ZenonT(60), <2>3, <3>0, <3>3 DEF Sure
    <3> QED
      BY ZenonT(60), <3>4 DEF Ready, Knows
  <2>6. Like(on, k)
    BY ZenonT(60), <2>4, MotorsLike
  <2> HIDE DEF on
  <2>7. Driver(on) /\ (~on.bare => Ready(on, h) /\ Waits(on))
    BY ZenonT(60), <2>4, <2>5, <2>6, LikeFacts DEF Like
  <2>8. ~on.bare => ~on.fault /\ on.timers = <<>> /\ on.queue # <<>>
    BY ZenonT(60), <2>4, <2>6 DEF Like
  <2>9. CASE x \in floppy_on_interrupt(on)
    BY ZenonT(60), <2>7, <2>8, <2>9, OnInOrder
  <2>10. CASE x = e
    <3>1. Append(<<>>, "floppy_on_interrupt") = <<"floppy_on_interrupt">>
      BY SMTT(60)
    <3>2. /\ DOMAIN e = Fields /\ e.queue = on.queue
          /\ e.timers = Append(on.timers, "floppy_on_interrupt")
          /\ e.do_floppy = on.do_floppy /\ e.controller = on.controller
          /\ e.reset = on.reset /\ e.recalibrate = on.recalibrate /\ e.seek = on.seek
          /\ e.current_drive = on.current_drive /\ e.current_track = on.current_track
          /\ e.seek_track = on.seek_track /\ e.bare = on.bare /\ e.fault = on.fault
      BY SMTT(60), <2>7 DEF Driver, Fields
    <3> HIDE DEF e
    <3>3. Driver(e)
      BY ZenonT(60), <2>7, <3>2 DEF Driver
    <3>4. ~e.bare => ~e.fault /\ e.timers = <<"floppy_on_interrupt">> /\ e.queue # <<>>
      BY ZenonT(60), <2>8, <3>1, <3>2
    <3>5. ~e.bare => Ready(e, h) /\ Waits(e)
      BY ZenonT(60), <2>7, <3>2 DEF Ready, Waits, Knows, Sure
    <3> QED
      BY ZenonT(60), <2>10, <3>3, <3>4, <3>5 DEF InOrder, Timed
  <2> QED
    BY ZenonT(60), <1>9, <2>9, <2>10
<1> QED
  BY ZenonT(60), <1>2, <1>4, <1>5, <1>8, <1>9

\* An interrupt handler is over.
LEMMA ThenInOrder ==
    ASSUME Tracks, NEW G, NEW h, \A g \in G : Over(g, h),
           NEW x \in UNION {IF g.fault THEN {g} ELSE do_fd_request(g) : g \in G}
    PROVE  InOrder(x, h)
<1>1. PICK g \in G : x \in IF g.fault THEN {g} ELSE do_fd_request(g)
  BY ZenonT(60)
<1>2. CASE g.fault
  BY ZenonT(60), <1>1, <1>2 DEF Over, InOrder
<1>3. CASE ~g.fault
  BY ZenonT(60), <1>1, <1>3, DoFdRequestInOrder
<1> QED
  BY ZenonT(60), <1>2, <1>3

\* end_request takes the first request off and leaves the head alone.
LEMMA EndFacts ==
    ASSUME NEW g, Driver(g), g.queue # <<>>
    PROVE  LET e == end_request(g)
           IN  /\ Driver(e)
               /\ e.timers = g.timers /\ e.do_floppy = g.do_floppy /\ e.controller = g.controller
               /\ e.reset = g.reset /\ e.recalibrate = g.recalibrate
               /\ e.current_drive = g.current_drive /\ e.current_track = g.current_track
               /\ e.bare = g.bare /\ e.fault = g.fault
<1> DEFINE o == floppy_off(g, g.queue[1].drive)
           e == [o EXCEPT !.queue = Tail(@)]
<1>1. Like(o, g)
  BY ZenonT(60), MotorsLike
<1>2. end_request(g) = e
  BY ZenonT(60) DEF end_request
<1> HIDE DEF o
<1>3. Driver(o) /\ o.queue # <<>>
  BY ZenonT(60), <1>1, LikeFacts DEF Like
<1>4. /\ DOMAIN e = Fields /\ e.queue = Tail(o.queue)
      /\ e.timers = o.timers /\ e.do_floppy = o.do_floppy /\ e.controller = o.controller
      /\ e.reset = o.reset /\ e.recalibrate = o.recalibrate
      /\ e.current_drive = o.current_drive /\ e.current_track = o.current_track
      /\ e.seek_track = o.seek_track /\ e.bare = o.bare /\ e.fault = o.fault
  BY SMTT(60), <1>3 DEF Driver, Fields
<1> HIDE DEF e
<1>5. Driver(e)
  <2>1. Tail(o.queue) \in Seq(FloppyReq)
    BY ZenonT(60), <1>3, FirstOf DEF Driver
  <2> QED
    BY ZenonT(60), <1>3, <1>4, <2>1 DEF Driver
<1>6. /\ e.timers = g.timers /\ e.do_floppy = g.do_floppy /\ e.controller = g.controller
      /\ e.reset = g.reset /\ e.recalibrate = g.recalibrate
      /\ e.current_drive = g.current_drive /\ e.current_track = g.current_track
      /\ e.bare = g.bare /\ e.fault = g.fault
  BY ZenonT(60), <1>1, <1>4 DEF Like
<1> QED
  BY ZenonT(60), <1>2, <1>5, <1>6

\* end_request leaves nothing being done.
LEMMA EndOver == ASSUME NEW g, NEW h, Over(g, h), g.queue # <<>> PROVE Over(end_request(g), h)
<1> DEFINE e == end_request(g)
<1>1. /\ Driver(e)
      /\ e.timers = g.timers /\ e.do_floppy = g.do_floppy /\ e.controller = g.controller
      /\ e.reset = g.reset /\ e.recalibrate = g.recalibrate
      /\ e.current_drive = g.current_drive /\ e.current_track = g.current_track
      /\ e.bare = g.bare /\ e.fault = g.fault
  BY ZenonT(60), EndFacts DEF Over
<1> HIDE DEF e
<1>2. Over(e, h)
  BY ZenonT(60), <1>1 DEF Over, Rests, Waits, Knows, Sure
<1> QED
  BY ZenonT(60), <1>2 DEF e

\* No command is being carried out and no timer runs, whatever is known.
Still(g) == Driver(g) /\ (~g.bare => ~g.fault /\ g.timers = <<>> /\ Waits(g))

\* The same, while where the head is need not be known.
LEMMA EndStill == ASSUME NEW g, Still(g), g.queue # <<>> PROVE Still(end_request(g))
<1> DEFINE e == end_request(g)
<1>1. /\ Driver(e)
      /\ e.timers = g.timers /\ e.do_floppy = g.do_floppy /\ e.controller = g.controller
      /\ e.bare = g.bare /\ e.fault = g.fault
  BY ZenonT(60), EndFacts DEF Still
<1> HIDE DEF e
<1>2. Still(e)
  BY ZenonT(60), <1>1 DEF Still, Waits
<1> QED
  BY ZenonT(60), <1>2 DEF e

\* With reset or recalibrate set, the driver will find out where the head is.
LEMMA FlaggedOver ==
    ASSUME NEW g, NEW h, Still(g)
    PROVE  Over([g EXCEPT !.reset = TRUE], h) /\ Over([g EXCEPT !.recalibrate = TRUE], h)
<1> DEFINE a == [g EXCEPT !.reset = TRUE]
           b == [g EXCEPT !.recalibrate = TRUE]
<1>1. /\ DOMAIN a = Fields /\ a.queue = g.queue
      /\ a.timers = g.timers /\ a.do_floppy = g.do_floppy /\ a.controller = g.controller
      /\ a.reset = TRUE /\ a.current_drive = g.current_drive /\ a.seek_track = g.seek_track
      /\ a.bare = g.bare /\ a.fault = g.fault
  BY SMTT(60) DEF Still, Driver, Fields
<1>2. /\ DOMAIN b = Fields /\ b.queue = g.queue
      /\ b.timers = g.timers /\ b.do_floppy = g.do_floppy /\ b.controller = g.controller
      /\ b.recalibrate = TRUE /\ b.current_drive = g.current_drive /\ b.seek_track = g.seek_track
      /\ b.bare = g.bare /\ b.fault = g.fault
  BY SMTT(60) DEF Still, Driver, Fields
<1> HIDE DEF a, b
<1>3. Over(a, h)
  BY ZenonT(60), <1>1 DEF Over, Still, Driver, Rests, Waits, Knows
<1>4. Over(b, h)
  BY ZenonT(60), <1>2 DEF Over, Still, Driver, Rests, Waits, Knows
<1> QED
  BY ZenonT(60), <1>3, <1>4 DEF a, b

\* bad_flp_intr: an error is counted, and the driver will find out.
LEMMA BadOver ==
    ASSUME NEW g, NEW h, Still(g), ~g.bare => g.queue # <<>>, NEW x \in bad_flp_intr(g)
    PROVE  Over(x, h)
<1>1. CASE g.queue = <<>>
  <2>1. x = [g EXCEPT !.fault = TRUE]
    BY ZenonT(60), <1>1 DEF bad_flp_intr
  <2>2. /\ DOMAIN x = Fields /\ x.queue = g.queue
        /\ x.current_drive = g.current_drive /\ x.seek_track = g.seek_track /\ x.bare = g.bare
    BY SMTT(60), <2>1 DEF Still, Driver, Fields
  <2> QED
    BY ZenonT(60), <1>1, <2>2 DEF Over, Still, Driver
<1>2. CASE g.queue # <<>>
  <2> DEFINE r == [g.queue[1] EXCEPT !.errors = g.queue[1].errors + 1]
             q == [g.queue EXCEPT ![1] = r]
             k == [g EXCEPT !.queue[1].errors = @ + 1]
             de == floppy_deselect(k)
             e == IF k.queue[1].errors > MAX_ERRORS THEN end_request(de) ELSE k
  <2>1. q \in Seq(FloppyReq) /\ q # <<>>
    <3>1. g.queue \in Seq(FloppyReq) /\ 1 \in 1..Len(g.queue) /\ g.queue[1] \in FloppyReq
      BY SMTT(60), <1>2 DEF Still, Driver
    <3>2. r \in FloppyReq
      BY SMTT(60), <3>1 DEF FloppyReq
    <3> HIDE DEF r
    <3> QED
      BY ZenonT(60), <1>2, <3>1, <3>2, FirstSet
  <2>3. \/ x = [e EXCEPT !.reset = TRUE]
        \/ x = [e EXCEPT !.recalibrate = TRUE]
    BY ZenonT(60), <1>2 DEF bad_flp_intr
  <2>4. /\ DOMAIN k = Fields /\ k.queue = q
        /\ k.timers = g.timers /\ k.do_floppy = g.do_floppy /\ k.controller = g.controller
        /\ k.current_drive = g.current_drive /\ k.seek_track = g.seek_track
        /\ k.bare = g.bare /\ k.fault = g.fault
    BY SMTT(60) DEF Still, Driver, Fields
  <2> HIDE DEF q
  <2> HIDE DEF k
  <2>5. Still(k)
    BY ZenonT(60), <2>1, <2>4 DEF Still, Driver, Waits
  <2>6. Like(de, k)
    BY ZenonT(60), <2>5, MotorsLike DEF Still
  <2> HIDE DEF de
  <2>7. Still(de) /\ de.queue # <<>>
    BY ZenonT(60), <2>1, <2>4, <2>5, <2>6, LikeFacts DEF Still, Like
  <2>8. Still(end_request(de))
    BY ZenonT(60), <2>7, EndStill
  <2>9. Still(e)
    BY ZenonT(60), <2>5, <2>8
  <2> HIDE DEF e
  <2> QED
    BY ZenonT(60), <2>3, <2>9, FlaggedOver
<1> QED
  BY ZenonT(60), <1>1, <1>2

-----------------------------------------------------------------------------
\* The fields of a command.
LEMMA CommandFields ==
    ASSUME NEW op, NEW d, NEW t
    PROVE  Command(op, d, t).op = op /\ Command(op, d, t).drive = d /\ Command(op, d, t).track = t
  BY SMTT(60) DEF Command

\* Only one timer runs in order, and then none.
LEMMA TimerGone ==
    ASSUME NEW s \in {<<>>, <<"transfer">>, <<"floppy_on_interrupt">>}, NEW i \in 1..Len(s)
    PROVE  RemoveAt(s, i) = <<>>
<1>1. Len(s) = 1 /\ i = 1
  <2>1. CASE s = <<>>
    BY SMTT(60), <2>1
  <2>2. CASE s = <<"transfer">>
    BY SMTT(60), <2>2
  <2>3. CASE s = <<"floppy_on_interrupt">>
    BY SMTT(60), <2>3
  <2> QED
    BY ZenonT(60), <2>1, <2>2, <2>3
<1>2. RemoveAt(s, i) = [j \in 1..0 |-> IF j < i THEN s[j] ELSE s[j + 1]]
  BY SMTT(60), <1>1 DEF RemoveAt
<1> QED
  BY SMTT(60), <1>2

\* An interrupt has come: no command is being carried out.
LEMMA TakenStill ==
    ASSUME InOrder(f, head), f.controller # Idle, NEW n, NEW w, w = Taken \/ w = [Taken EXCEPT !.glitches = n]
    PROVE  /\ Still(w) /\ w.bare = f.bare /\ w.queue = f.queue
           /\ w.reset = f.reset /\ w.recalibrate = f.recalibrate
           /\ w.current_drive = f.current_drive /\ w.current_track = f.current_track
           /\ w.seek_track = f.seek_track
           /\ ~f.bare => Commanded(f, head)
<1> DEFINE t == [f EXCEPT !.do_floppy = "none", !.controller = [op |-> "none"]]
<1>0. Taken = t
  BY ZenonT(60) DEF Taken, NULL, Idle
<1>1. /\ DOMAIN w = Fields /\ w.queue = f.queue
      /\ w.timers = f.timers /\ w.do_floppy = "none" /\ w.controller = [op |-> "none"]
      /\ w.reset = f.reset /\ w.recalibrate = f.recalibrate
      /\ w.current_drive = f.current_drive /\ w.current_track = f.current_track
      /\ w.seek_track = f.seek_track /\ w.bare = f.bare /\ w.fault = f.fault
  <2>1. /\ DOMAIN t = Fields /\ t.queue = f.queue
        /\ t.timers = f.timers /\ t.do_floppy = "none" /\ t.controller = [op |-> "none"]
        /\ t.reset = f.reset /\ t.recalibrate = f.recalibrate
        /\ t.current_drive = f.current_drive /\ t.current_track = f.current_track
        /\ t.seek_track = f.seek_track /\ t.bare = f.bare /\ t.fault = f.fault
    BY SMTT(60) DEF InOrder, Driver, Fields
  <2> HIDE DEF t
  <2>2. CASE w = Taken
    BY ZenonT(60), <1>0, <2>1, <2>2
  <2>3. CASE w = [Taken EXCEPT !.glitches = n]
    <3>1. w = [t EXCEPT !.glitches = n]
      BY ZenonT(60), <1>0, <2>3
    <3>2. /\ DOMAIN w = Fields /\ w.queue = t.queue
          /\ w.timers = t.timers /\ w.do_floppy = t.do_floppy /\ w.controller = t.controller
          /\ w.reset = t.reset /\ w.recalibrate = t.recalibrate
          /\ w.current_drive = t.current_drive /\ w.current_track = t.current_track
          /\ w.seek_track = t.seek_track /\ w.bare = t.bare /\ w.fault = t.fault
      BY SMTT(60), <2>1, <3>1 DEF Fields
    <3> QED
      BY ZenonT(60), <2>1, <3>2
  <2> QED
    BY ZenonT(60), <2>2, <2>3
<1>2. ~f.bare => ~f.fault /\ Commanded(f, head)
  BY ZenonT(60) DEF InOrder, Rests, Timed, Waits
<1>3. Driver(w) /\ Waits(w)
  BY ZenonT(60), <1>1 DEF InOrder, Driver, Waits, NULL, Idle
<1>4. Still(w)
  BY ZenonT(60), <1>1, <1>2, <1>3 DEF Still, Commanded
<1> QED
  BY ZenonT(60), <1>1, <1>2, <1>4

\* An interrupt that reports an error keeps the invariant.
LEMMA FailsFInv == ASSUME Tracks, FInv, Fails PROVE FInv'
<1> DEFINE off == f.controller.op = "rw" /\ head[f.controller.drive] # f.controller.track
           w == IF off THEN Taken ELSE Wrong
           G == IF f.do_floppy = "recal_interrupt" THEN {[w EXCEPT !.reset = TRUE]} ELSE bad_flp_intr(w)
<1>1. f.controller # Idle /\ Then(G) /\ head' = head
  BY ZenonT(60) DEF Fails
<1>2. \E n : w = Taken \/ w = [Taken EXCEPT !.glitches = n]
  BY ZenonT(60) DEF Wrong
<1> HIDE DEF w
<1>3. Still(w) /\ (~w.bare => w.queue # <<>>)
  <2>1. PICK n : w = Taken \/ w = [Taken EXCEPT !.glitches = n]
    BY ZenonT(60), <1>2
  <2>2. InOrder(f, head)
    BY ZenonT(60) DEF FInv
  <2>3. Still(w) /\ w.bare = f.bare /\ w.queue = f.queue /\ (~f.bare => Commanded(f, head))
    BY ZenonT(60), <1>1, <2>1, <2>2, TakenStill
  <2> QED
    BY ZenonT(60), <2>3 DEF Commanded
<1>4. \A g \in G : Over(g, head)
  BY ZenonT(60), <1>3, FlaggedOver, BadOver
<1>5. InOrder(f', head)
  BY ZenonT(60), <1>1, <1>4, ThenInOrder DEF Then
<1> QED
  BY ZenonT(60), <1>1, <1>5 DEF FInv

\* An interrupt that reports success keeps the invariant: rw, seek, recalibrate, reset.
LEMMA SucceedsFInv == ASSUME Tracks, FInv, Succeeds PROVE FInv'
<1> DEFINE c == f.controller
<1>1. c # Idle
  BY ZenonT(60) DEF Succeeds
<1> DEFINE w == Taken
<1>2. /\ Still(w) /\ w.bare = f.bare /\ w.queue = f.queue
      /\ w.reset = f.reset /\ w.recalibrate = f.recalibrate
      /\ w.current_drive = f.current_drive /\ w.current_track = f.current_track
      /\ w.seek_track = f.seek_track
      /\ ~f.bare => Commanded(f, head)
  BY ZenonT(60), <1>1, TakenStill DEF FInv
<1>3. CASE f.do_floppy = "rw_interrupt" /\ f.queue = <<>>
  <2>1. f' = [w EXCEPT !.fault = TRUE] /\ head' = head
    BY ZenonT(60), <1>3 DEF Succeeds
  <2> HIDE DEF w
  <2>2. PICK r : r = [w EXCEPT !.fault = TRUE]
    BY ZenonT(60)
  <2>3. /\ DOMAIN r = Fields /\ r.queue = w.queue
        /\ r.current_drive = w.current_drive /\ r.seek_track = w.seek_track /\ r.bare = w.bare
    BY SMTT(60), <1>2, <2>2 DEF Still, Driver, Fields
  <2>4. f.bare
    BY ZenonT(60), <1>2, <1>3 DEF Commanded
  <2>5. InOrder(r, head)
    BY ZenonT(60), <1>2, <2>3, <2>4 DEF InOrder, Still, Driver
  <2> QED
    BY ZenonT(60), <2>1, <2>2, <2>5 DEF FInv
<1>4. CASE f.do_floppy = "rw_interrupt" /\ f.queue # <<>>
  <2> DEFINE d == floppy_deselect(w)
  <2>1. Then({end_request(d)}) /\ head' = head
    BY ZenonT(60), <1>4 DEF Succeeds
  <2> HIDE DEF w
  <2>2. Like(d, w)
    BY ZenonT(60), <1>2, MotorsLike DEF Still
  <2>3. ~w.bare => Knows(w, head)
    <3>1. ~f.bare => Transfers(f, head)
      BY ZenonT(60), <1>2, <1>4 DEF Commanded, Seeks, Recalibrates, Resets
    <3> QED
      BY ZenonT(60), <1>2, <3>1 DEF Transfers, Knows, Sure
  <2>4. Over(w, head)
    BY ZenonT(60), <1>2, <2>3 DEF Over, Still, Rests
  <2>5. Over(d, head) /\ d.queue # <<>>
    <3> HIDE DEF d
    <3>1. Driver(d) /\ (Knows(d, head) <=> Knows(w, head)) /\ (Waits(d) <=> Waits(w))
      BY ZenonT(60), <2>2, <2>4, LikeFacts DEF Over
    <3>2. d.bare = w.bare /\ d.fault = w.fault /\ d.timers = w.timers /\ d.queue = w.queue
      BY ZenonT(60), <2>2 DEF Like
    <3> QED
      BY ZenonT(60), <1>2, <1>4, <2>4, <3>1, <3>2 DEF Over, Rests
  <2> HIDE DEF d
  <2>6. \A g \in {end_request(d)} : Over(g, head)
    BY ZenonT(60), <2>5, EndOver
  <2>7. InOrder(f', head)
    BY ZenonT(60), <2>1, <2>6, ThenInOrder DEF Then
  <2> QED
    BY ZenonT(60), <2>1, <2>7 DEF FInv
<1>5. CASE f.do_floppy = "seek_interrupt"
  <2> DEFINE k == [w EXCEPT !.current_track = c.track]
             h == [head EXCEPT ![c.drive] = c.track]
  <2>1. f' \in setup_rw_floppy(k) /\ head' = h
    BY ZenonT(60), <1>5 DEF Succeeds
  <2> HIDE DEF w
  <2>2. /\ DOMAIN k = Fields /\ k.queue = w.queue /\ k.timers = w.timers
        /\ k.current_drive = w.current_drive /\ k.current_track = c.track
        /\ k.seek_track = w.seek_track /\ k.bare = w.bare /\ k.fault = w.fault
    <3> HIDE DEF c
    <3> QED
      BY SMTT(60), <1>2 DEF Still, Driver, Fields
  <2> HIDE DEF k
  <2>3. Driver(k) /\ (~k.bare => ~k.fault /\ k.timers = <<>> /\ k.queue # <<>>)
    BY ZenonT(60), <1>2, <2>2 DEF Still, Driver, Commanded
  <2>4. ~f.bare => c = Command("seek", f.current_drive, f.seek_track)
    BY ZenonT(60), <1>2, <1>5 DEF Commanded, Transfers, Seeks, Recalibrates, Resets
  <2>5. ~f.bare => c.drive = f.current_drive /\ c.track = f.seek_track
    <3> HIDE DEF c
    <3>1. ASSUME c = Command("seek", f.current_drive, f.seek_track)
          PROVE  c.drive = f.current_drive /\ c.track = f.seek_track
      BY SMTT(60), <3>1, CommandFields
    <3> QED
      BY ZenonT(60), <2>4, <3>1
  <2>6. DOMAIN h = Drive /\ (~f.bare => h[f.current_drive] = f.seek_track)
    <3>1. DOMAIN head = Drive /\ f.current_drive \in Drive
      BY ZenonT(60) DEF FInv, InOrder, Driver
    <3> HIDE DEF c
    <3>2. DOMAIN h = Drive
      BY SMTT(60), <3>1
    <3>3. ASSUME ~f.bare PROVE h[f.current_drive] = f.seek_track
      <4>1. c.drive = f.current_drive /\ c.track = f.seek_track
        BY ZenonT(60), <2>5, <3>3
      <4> QED
        BY SMTT(60), <3>1, <4>1
    <3> QED
      BY ZenonT(60), <3>2, <3>3
  <2> HIDE DEF h
  <2>7. ~k.bare => h[k.current_drive] = k.seek_track /\ Knows(k, h)
    BY ZenonT(60), <1>2, <2>2, <2>5, <2>6 DEF Knows, Sure
  <2>8. InOrder(f', h)
    BY ZenonT(60), <2>1, <2>3, <2>7, SetupInOrder
  <2> QED
    BY ZenonT(60), <2>1, <2>6, <2>8 DEF FInv
<1>6. CASE f.do_floppy = "recal_interrupt"
  <2> DEFINE k == [w EXCEPT !.recalibrate = FALSE]
             h == [head EXCEPT ![c.drive] = 0]
  <2>1. Then({k}) /\ head' = h
    BY ZenonT(60), <1>6 DEF Succeeds
  <2> HIDE DEF w
  <2>2. /\ DOMAIN k = Fields /\ k.queue = w.queue /\ k.timers = w.timers
        /\ k.controller = w.controller /\ k.do_floppy = w.do_floppy
        /\ k.current_drive = w.current_drive /\ k.current_track = w.current_track
        /\ k.seek_track = w.seek_track /\ k.bare = w.bare /\ k.fault = w.fault
    BY SMTT(60), <1>2 DEF Still, Driver, Fields
  <2> HIDE DEF k
  <2>3. Still(k)
    BY ZenonT(60), <1>2, <2>2 DEF Still, Driver, Waits
  <2>4. ~f.bare => c = Command("recalibrate", f.current_drive, 0) /\ f.current_track = 0
    BY ZenonT(60), <1>2, <1>6 DEF Commanded, Transfers, Seeks, Recalibrates, Resets
  <2>5. ~f.bare => c.drive = f.current_drive
    <3> HIDE DEF c
    <3>1. ASSUME c = Command("recalibrate", f.current_drive, 0)
          PROVE  c.drive = f.current_drive
      BY SMTT(60), <3>1, CommandFields
    <3> QED
      BY ZenonT(60), <2>4, <3>1
  <2>6. DOMAIN h = Drive /\ (~f.bare => h[f.current_drive] = 0)
    <3>1. DOMAIN head = Drive /\ f.current_drive \in Drive
      BY ZenonT(60) DEF FInv, InOrder, Driver
    <3> HIDE DEF c
    <3>2. DOMAIN h = Drive
      BY SMTT(60), <3>1
    <3>3. ASSUME ~f.bare PROVE h[f.current_drive] = 0
      <4>1. c.drive = f.current_drive
        BY ZenonT(60), <2>5, <3>3
      <4> QED
        BY SMTT(60), <3>1, <4>1
    <3> QED
      BY ZenonT(60), <3>2, <3>3
  <2> HIDE DEF h
  <2>7. ~k.bare => Knows(k, h)
    BY ZenonT(60), <1>2, <2>2, <2>4, <2>6 DEF Knows, Sure
  <2>8. \A g \in {k} : Over(g, h)
    BY ZenonT(60), <2>3, <2>7 DEF Over, Still, Rests
  <2>9. InOrder(f', h)
    BY ZenonT(60), <2>1, <2>8, ThenInOrder DEF Then
  <2> QED
    BY ZenonT(60), <2>1, <2>6, <2>9 DEF FInv
<1>7. CASE f.do_floppy \notin {"rw_interrupt", "seek_interrupt", "recal_interrupt"}
  <2>1. Then({w}) /\ head' = head
    BY ZenonT(60), <1>7 DEF Succeeds
  <2> HIDE DEF w
  <2>2. ~f.bare => f.recalibrate
    BY ZenonT(60), <1>2, <1>7 DEF Commanded, Transfers, Seeks, Recalibrates, Resets
  <2>3. \A g \in {w} : Over(g, head)
    BY ZenonT(60), <1>2, <2>2 DEF Over, Still, Rests, Knows
  <2>4. InOrder(f', head)
    BY ZenonT(60), <2>1, <2>3, ThenInOrder DEF Then
  <2> QED
    BY ZenonT(60), <2>1, <2>4 DEF FInv
<1> QED
  BY ZenonT(60), <1>3, <1>4, <1>5, <1>6, <1>7

\* An interrupt nobody waits for keeps the invariant.
LEMMA UnexpectedFInv == ASSUME FInv, Unexpected PROVE FInv'
<1> DEFINE n == Taken.glitches + 1
           t == [f EXCEPT !.do_floppy = "none", !.controller = [op |-> "none"]]
           k == [t EXCEPT !.glitches = n]
<1>1. /\ f.controller = Idle /\ f.do_floppy = NULL /\ head' = head
      /\ f' \in {[Wrong EXCEPT !.reset = TRUE], [Wrong EXCEPT !.recalibrate = TRUE]}
  BY ZenonT(60) DEF Unexpected
<1>2. Wrong = k
  BY ZenonT(60) DEF Wrong, Taken, NULL, Idle
<1>3. Like(k, f)
  <2> HIDE DEF n
  <2>1. f.controller = [op |-> "none"] /\ f.do_floppy = "none"
    BY ZenonT(60), <1>1 DEF NULL, Idle
  <2>2. DOMAIN f = Fields
    BY ZenonT(60) DEF FInv, InOrder, Driver
  <2>3. Like(t, f)
    BY SMTT(60), <2>1, <2>2 DEF Like, Fields
  <2> HIDE DEF t
  <2>4. Like(k, t)
    BY SMTT(60), <2>3 DEF Like, Fields
  <2> HIDE DEF k
  <2> QED
    BY ZenonT(60), <2>3, <2>4 DEF Like
<1> HIDE DEF k
<1>4. InOrder(k, head) /\ Waits(k)
  BY ZenonT(60), <1>1, <1>3, LikeInOrder, LikeFacts DEF FInv, Waits
<1>5. ASSUME NEW r, r = [k EXCEPT !.reset = TRUE] \/ r = [k EXCEPT !.recalibrate = TRUE]
      PROVE  InOrder(r, head)
  <2>1. /\ DOMAIN r = Fields /\ r.queue = k.queue /\ r.timers = k.timers
        /\ r.controller = k.controller /\ r.do_floppy = k.do_floppy /\ r.seek = k.seek
        /\ r.current_drive = k.current_drive /\ r.current_track = k.current_track
        /\ r.seek_track = k.seek_track /\ r.bare = k.bare /\ r.fault = k.fault
    <3>1. CASE r = [k EXCEPT !.reset = TRUE]
      BY SMTT(60), <1>4, <3>1 DEF InOrder, Driver, Fields
    <3>2. CASE r = [k EXCEPT !.recalibrate = TRUE]
      BY SMTT(60), <1>4, <3>2 DEF InOrder, Driver, Fields
    <3> QED
      BY ZenonT(60), <1>5, <3>1, <3>2
  <2>2. r.reset = TRUE \/ r.recalibrate = TRUE
    <3>1. CASE r = [k EXCEPT !.reset = TRUE]
      BY SMTT(60), <1>4, <3>1 DEF InOrder, Driver, Fields
    <3>2. CASE r = [k EXCEPT !.recalibrate = TRUE]
      BY SMTT(60), <1>4, <3>2 DEF InOrder, Driver, Fields
    <3> QED
      BY ZenonT(60), <1>5, <3>1, <3>2
  <2>3. Driver(r) /\ Waits(r) /\ Knows(r, head)
    BY ZenonT(60), <1>4, <2>1, <2>2 DEF InOrder, Driver, Waits, Knows
  <2>4. ~k.bare => ~k.fault /\ (Rests(k, head) \/ Timed(k, head))
    <3>1. Commanded(k, head) => FALSE
      <4>1. k.do_floppy = "none"
        BY ZenonT(60), <1>4 DEF Waits, NULL
      <4> QED
        BY ZenonT(60), <4>1 DEF Commanded, Transfers, Seeks, Recalibrates, Resets
    <3> QED
      BY ZenonT(60), <1>4, <3>1 DEF InOrder
  <2>5. Rests(k, head) => Rests(r, head)
    BY ZenonT(60), <2>1, <2>3 DEF Rests
  <2>6. Timed(k, head) => Timed(r, head)
    BY ZenonT(60), <2>1, <2>3 DEF Timed, Ready
  <2> QED
    BY ZenonT(60), <2>1, <2>3, <2>4, <2>5, <2>6 DEF InOrder
<1>6. InOrder(f', head)
  BY ZenonT(60), <1>1, <1>2, <1>5
<1> QED
  BY ZenonT(60), <1>1, <1>6 DEF FInv

\* A timer that runs out keeps the invariant.
LEMMA TimerFInv == ASSUME FInv, NEW i \in 1..Len(f.timers), Timer(i) PROVE FInv'
<1> DEFINE ts == RemoveAt(f.timers, i)
           g == [f EXCEPT !.timers = ts]
<1>1. /\ head' = head /\ i \in 1..Len(f.timers)
      /\ \/ f.timers[i] = "transfer" /\ f' \in transfer(g)
         \/ f.timers[i] # "transfer" /\ f' \in floppy_on_interrupt(g)
  BY ZenonT(60) DEF Timer
<1>2. ~f.bare => ts = <<>>
  <2> SUFFICES ASSUME ~f.bare PROVE ts = <<>>
    OBVIOUS
  <2>1. f.timers \in {<<>>, <<"transfer">>, <<"floppy_on_interrupt">>}
    BY ZenonT(60) DEF FInv, InOrder, Rests, Timed, Commanded
  <2> QED
    BY ZenonT(60), <2>1, TimerGone
<1> HIDE DEF ts
<1>3. /\ DOMAIN g = Fields /\ g.queue = f.queue /\ g.timers = ts
      /\ g.controller = f.controller /\ g.do_floppy = f.do_floppy /\ g.seek = f.seek
      /\ g.reset = f.reset /\ g.recalibrate = f.recalibrate
      /\ g.current_drive = f.current_drive /\ g.current_track = f.current_track
      /\ g.seek_track = f.seek_track /\ g.bare = f.bare /\ g.fault = f.fault
  BY SMTT(60) DEF FInv, InOrder, Driver, Fields
<1> HIDE DEF g
<1>4. ~f.bare => ~f.fault /\ Timed(f, head)
  <2>1. f.timers # <<>>
    BY SMTT(60), <1>1
  <2> QED
    BY ZenonT(60), <2>1 DEF FInv, InOrder, Rests, Commanded
<1>5. Driver(g)
  BY ZenonT(60), <1>3 DEF FInv, InOrder, Driver
<1>6. ~g.bare => ~g.fault /\ g.timers = <<>> /\ g.queue # <<>>
  BY ZenonT(60), <1>2, <1>3, <1>4 DEF Timed
<1>7. ~g.bare => Ready(g, head) /\ Waits(g)
  BY ZenonT(60), <1>3, <1>4 DEF Timed, Ready, Waits, Knows, Sure
<1>8. InOrder(f', head)
  BY ZenonT(60), <1>1, <1>5, <1>6, <1>7, TransferInOrder, OnInOrder
<1> QED
  BY ZenonT(60), <1>1, <1>8 DEF FInv

\* So does a step that only touches motors and the drive select,
LEMMA LikeFInv == ASSUME FInv, head' = head, Like(f', f) PROVE FInv'
  BY ZenonT(60), LikeInOrder DEF FInv

\* as the motor timers and floppy_change do.
LEMMA MotorFInv ==
    ASSUME FInv, NEW d, MotorUp(d) \/ MotorOff(d) \/ ChangeCalled(d) \/ Change PROVE FInv'
<1>0. Driver(f) /\ DOMAIN f = Fields
  BY ZenonT(60) DEF FInv, InOrder, Driver
<1>1. CASE MotorUp(d)
  <2>1. Like(f', f)
    BY SMTT(60), <1>0, <1>1 DEF MotorUp, Like, Fields
  <2> QED
    BY ZenonT(60), <1>1, <2>1, LikeFInv DEF MotorUp
<1>2. CASE MotorOff(d)
  <2>1. Like(f', f)
    BY SMTT(60), <1>0, <1>2 DEF MotorOff, Like, Fields
  <2> QED
    BY ZenonT(60), <1>2, <2>1, LikeFInv DEF MotorOff
<1>3. CASE f' = f /\ head' = head
  BY ZenonT(60), <1>3 DEF FInv
<1>4. CASE ChangeOn
  BY ZenonT(60), <1>0, <1>4, MotorsLike, LikeFInv DEF ChangeOn
<1>5. CASE ChangeSelect
  BY ZenonT(60), <1>0, <1>3, <1>5, MotorsLike, LikeFInv DEF ChangeSelect
<1> QED
  BY ZenonT(60), <1>1, <1>2, <1>3, <1>4, <1>5 DEF Change, ChangeCalled, ChangeMotorUp

\* A new request keeps the invariant.
LEMMA AddFInv == ASSUME Tracks, FInv, NEW r \in FloppyReq, AddRequest(r) PROVE FInv'
<1>0. Driver(f) /\ head' = head
  BY ZenonT(60) DEF FInv, InOrder, AddRequest
<1>1. CASE f.queue = <<>>
  <2> DEFINE q == <<r>>
             g == [f EXCEPT !.queue = q]
  <2>1. f' \in do_fd_request(g)
    BY ZenonT(60), <1>1 DEF AddRequest
  <2>2. q \in Seq(FloppyReq)
    BY SMTT(60)
  <2> HIDE DEF q
  <2>3. /\ DOMAIN g = Fields /\ g.queue = q /\ g.timers = f.timers
        /\ g.controller = f.controller /\ g.do_floppy = f.do_floppy
        /\ g.reset = f.reset /\ g.recalibrate = f.recalibrate
        /\ g.current_drive = f.current_drive /\ g.current_track = f.current_track
        /\ g.seek_track = f.seek_track /\ g.bare = f.bare /\ g.fault = f.fault
    BY SMTT(60), <1>0 DEF Driver, Fields
  <2> HIDE DEF g
  <2>4. ~f.bare => ~f.fault /\ Rests(f, head)
    BY ZenonT(60), <1>1 DEF FInv, InOrder, Timed, Commanded
  <2>5. Over(g, head)
    BY ZenonT(60), <1>0, <2>2, <2>3, <2>4 DEF Over, Driver, Rests, Waits, Knows, Sure
  <2>6. InOrder(f', head)
    BY ZenonT(60), <2>1, <2>5, DoFdRequestInOrder
  <2> QED
    BY ZenonT(60), <1>0, <2>6 DEF FInv
<1>2. CASE f.queue # <<>>
  <2> DEFINE q == Append(f.queue, r)
             g == [f EXCEPT !.queue = q]
  <2>1. f' = g
    BY ZenonT(60), <1>2 DEF AddRequest
  <2>2. q \in Seq(FloppyReq) /\ q # <<>>
    BY SMTT(60), <1>0 DEF Driver
  <2> HIDE DEF q
  <2>3. /\ DOMAIN g = Fields /\ g.queue = q /\ g.timers = f.timers
        /\ g.controller = f.controller /\ g.do_floppy = f.do_floppy /\ g.seek = f.seek
        /\ g.reset = f.reset /\ g.recalibrate = f.recalibrate
        /\ g.current_drive = f.current_drive /\ g.current_track = f.current_track
        /\ g.seek_track = f.seek_track /\ g.bare = f.bare /\ g.fault = f.fault
    BY SMTT(60), <1>0 DEF Driver, Fields
  <2> HIDE DEF g
  <2>4. Driver(g)
    BY ZenonT(60), <1>0, <2>2, <2>3 DEF Driver
  <2>5. Rests(f, head) => Rests(g, head)
    BY ZenonT(60), <2>3 DEF Rests, Waits, Knows, Sure
  <2>6. Timed(f, head) => Timed(g, head)
    BY ZenonT(60), <2>2, <2>3 DEF Timed, Ready, Waits, Knows, Sure
  <2>7. Commanded(f, head) => Commanded(g, head)
    <3>1. Transfers(f, head) => Transfers(g, head)
      BY ZenonT(60), <2>3 DEF Transfers, Knows, Sure
    <3>2. (Seeks(f) => Seeks(g)) /\ (Recalibrates(f) => Recalibrates(g)) /\ (Resets(f) => Resets(g))
      BY ZenonT(60), <2>3 DEF Seeks, Recalibrates, Resets
    <3> QED
      BY ZenonT(60), <2>2, <2>3, <3>1, <3>2 DEF Commanded
  <2>8. InOrder(g, head)
    BY ZenonT(60), <2>3, <2>4, <2>5, <2>6, <2>7 DEF FInv, InOrder
  <2> QED
    BY ZenonT(60), <1>0, <2>1, <2>8 DEF FInv
<1> QED
  BY ZenonT(60), <1>1, <1>2

\* Every step keeps the invariant.
LEMMA NextFInv == ASSUME Tracks, FInv, [Next]_vars PROVE FInv'
<1>1. CASE UNCHANGED vars
  BY ZenonT(60), <1>1 DEF vars, FInv
<1>2. CASE Next
  <2>1. ASSUME Interrupt PROVE FInv'
    BY ZenonT(60), <2>1, SucceedsFInv, FailsFInv DEF Interrupt
  <2>2. ASSUME Hardware PROVE FInv'
    BY ZenonT(60), <2>1, <2>2, TimerFInv, MotorFInv DEF Hardware
  <2>3. ASSUME NEW d \in Drive, NEW t \in Track, NEW b \in BOOLEAN PROVE Request(d, t, b) \in FloppyReq
    BY SMTT(60) DEF Request, FloppyReq
  <2>4. ASSUME NEW d \in Drive, NEW t \in Track, AddRequest(Request(d, t, FALSE)) PROVE FInv'
    BY ZenonT(60), <2>3, <2>4, AddFInv
  <2>5. ASSUME NEW d \in Drive, AddRequest(Request(d, 0, TRUE)) PROVE FInv'
    BY ZenonT(60), <2>3, <2>5, AddFInv DEF Tracks
  <2> QED
    BY ZenonT(60), <1>2, <2>2, <2>4, <2>5, UnexpectedFInv, MotorFInv DEF Next
<1> QED
  BY ZenonT(60), <1>1, <1>2

\* The invariant holds at first.
LEMMA InitFInv == ASSUME Tracks, Init PROVE FInv
<1>1. /\ DOMAIN f = Fields /\ f.queue = <<>> /\ f.timers = <<>> /\ f.do_floppy = NULL
      /\ f.controller = Idle /\ f.current_drive = 0 /\ f.current_track = 255 /\ f.seek_track = 0
      /\ f.fault = FALSE
  BY SMTT(60) DEF Init, Fields
<1>2. DOMAIN head = Drive
  BY ZenonT(60) DEF Init
<1>3. <<>> \in Seq(FloppyReq)
  BY SMTT(60)
<1>4. Driver(f) /\ Rests(f, head)
  BY ZenonT(60), <1>1, <1>3 DEF Driver, Rests, Waits, Knows, Sure, Tracks
<1> QED
  BY ZenonT(60), <1>1, <1>2, <1>4 DEF FInv, InOrder

\* The invariant implies HeadOnTrack.
LEMMA FInvTrack == ASSUME FInv PROVE HeadOnTrack
<1> SUFFICES ASSUME ~f.bare, f.controller.op = "rw"
             PROVE  head[f.controller.drive] = f.controller.track
  BY ZenonT(60) DEF HeadOnTrack
<1>1. Rests(f, head) \/ Timed(f, head) \/ Commanded(f, head)
  BY ZenonT(60) DEF FInv, InOrder
<1>2. ~Waits(f)
  <2>1. Idle.op = "none"
    BY SMTT(60) DEF Idle, NULL
  <2> QED
    BY ZenonT(60), <2>1 DEF Waits
<1>3. ~Seeks(f) /\ ~Recalibrates(f) /\ ~Resets(f)
  BY SMTT(60) DEF Seeks, Recalibrates, Resets, Command
<1>4. Transfers(f, head)
  BY ZenonT(60), <1>1, <1>2, <1>3 DEF Rests, Timed, Commanded
<1>5. f.controller.drive = f.current_drive /\ f.controller.track = f.seek_track
  BY SMTT(60), <1>4 DEF Transfers, Command
<1> QED
  BY ZenonT(60), <1>4, <1>5 DEF Transfers

\* A floppy transfer starts with the head of that drive on the track of the
\* request (floppy.c:432, 445), unless the driver has begun to recover without a
\* request: for any drives and tracks, whatever the errors and their order.
THEOREM HeadOnTrackHolds == ASSUME Tracks PROVE Spec => []HeadOnTrack
<1>1. Init => FInv
  BY ZenonT(60), InitFInv
<1>2. FInv /\ [Next]_vars => FInv'
  BY ZenonT(60), NextFInv
<1>3. FInv => HeadOnTrack
  BY ZenonT(60), FInvTrack
<1> QED
  BY <1>1, <1>2, <1>3, PTL DEF Spec
=============================================================================
