---------------------------- MODULE DriverProofs ----------------------------
(***************************************************************************)
(* For any size of the disk, any number of errors allowed and any requests *)
(* in any places of the queue: what the hard disk driver reports as done   *)
(* has been transferred, each half of the buffer from or to its sector.    *)
(*                                                                         *)
(* At the end of the module the keyboard: whatever keys there are and      *)
(* whatever the size of the queue, no sequence is cut off.                 *)
(***************************************************************************)
EXTENDS HardDisk, SequenceTheorems, TLAPS

\* What the theorem assumes of the constants.
DiskSizes == nr_sects \in Nat /\ MAX_ERRORS \in Nat

Req == [cmd : {"READ", "WRITE"}, first : Nat, sector : Nat, nr_sectors : Nat, half : Nat, errors : Nat]

\* How far a request has got: its sector, its count and its buffer move together.
On(r) == r.half \in {0, 1} /\ r.nr_sectors = 2 - r.half /\ r.sector = r.first + r.half

\* Only the first request of a queue has been begun.
Queued(q) == q \in Seq(Req) /\ \A i \in 1..Len(q) : On(q[i]) /\ (i > 1 => q[i].half = 0)

\* The controller does what the first request needs next.
Commanded ==
    controller # None =>
        /\ controller \in [op : {"SPECIFY", "RESTORE", "READ", "WRITE"}, sector : Nat, left : Nat, half : Nat]
        /\ do_hd \in {"read_intr", "write_intr"} =>
               controller.left = CURRENT.nr_sectors /\ controller.sector = CURRENT.sector
        /\ do_hd = "write_intr" => controller.half = CURRENT.half

\* What has been moved is the half that is done, also after errors and resets.
Moved(q) == IF q = <<>> THEN {} ELSE IF q[1].half = 0 THEN {} ELSE {<<0, q[1].first>>}

\* The inductive invariant of CompleteTransfer.
HInv ==
    /\ Queued(queue)
    /\ moved = Moved(queue)
    /\ running \/ queue = <<>> => controller = None
    /\ Commanded
    /\ CompleteTransfer

\* A queue without its first request.
LEMMA TailQueued ==
    ASSUME NEW q, Queued(q), q # <<>>
    PROVE  Queued(Tail(q)) /\ Moved(Tail(q)) = {}
<1>1. q \in Seq(Req) /\ Len(q) \in Nat /\ Len(q) > 0
  BY SMTT(60) DEF Queued
<1>2. /\ Tail(q) \in Seq(Req) /\ Len(Tail(q)) = Len(q) - 1
      /\ \A i \in 1..(Len(q) - 1) : Tail(q)[i] = q[i + 1]
  BY SMTT(60), <1>1
<1>3. \A i \in 1..(Len(q) - 1) : i + 1 \in 1..Len(q) /\ i + 1 > 1
  BY SMTT(60), <1>1
<1>4. \A i \in 1..Len(Tail(q)) : On(Tail(q)[i]) /\ Tail(q)[i].half = 0
  BY ZenonT(60), <1>2, <1>3 DEF Queued
<1>5. Tail(q) # <<>> => 1 \in 1..Len(Tail(q))
  BY SMTT(60), <1>2
<1> QED
  BY ZenonT(60), <1>2, <1>4, <1>5 DEF Queued, Moved

\* A queue whose first request has moved on.
LEMMA FirstQueued ==
    ASSUME NEW q, Queued(q), q # <<>>, NEW r \in Req, On(r)
    PROVE  LET n == [q EXCEPT ![1] = r]
           IN  Queued(n) /\ n # <<>> /\ n[1] = r /\ Head(n) = r /\ Tail(n) = Tail(q)
<1> DEFINE n == [q EXCEPT ![1] = r]
<1>1. q \in Seq(Req) /\ Len(q) \in Nat /\ Len(q) > 0 /\ 1 \in 1..Len(q)
  BY SMTT(60) DEF Queued
<1>2. /\ n \in Seq(Req) /\ Len(n) = Len(q)
      /\ \A j \in 1..Len(q) : n[j] = IF j = 1 THEN r ELSE q[j]
  BY SMTT(60), <1>1, ExceptSeq
<1> HIDE DEF n
<1>3. n # <<>> /\ n[1] = r /\ Head(n) = r
  BY SMTT(60), <1>1, <1>2
<1>4. Queued(n)
  <2>1. ~(1 > 1)
    BY SMTT(60)
  <2> QED
    BY ZenonT(60), <1>2, <2>1 DEF Queued
<1>5. Tail(n) = Tail(q)
  <2>1. /\ Tail(n) \in Seq(Req) /\ Tail(q) \in Seq(Req) /\ Len(Tail(n)) = Len(Tail(q))
    BY SMTT(60), <1>1, <1>2, <1>3
  <2>2. \A i \in 1..Len(Tail(n)) : Tail(n)[i] = Tail(q)[i]
    BY SMTT(60), <1>1, <1>2, <1>3
  <2> QED
    BY ZenonT(60), <2>1, <2>2, SeqEqual
<1> QED
  BY ZenonT(60), <1>3, <1>4, <1>5 DEF n

\* A queue with a new request behind the first one.
LEMMA InsertQueued ==
    ASSUME NEW q, Queued(q), q # <<>>, NEW n \in 2..(Len(q) + 1),
           NEW r \in Req, On(r), r.half = 0
    PROVE  /\ Queued(InsertAt(q, n, r)) /\ InsertAt(q, n, r) # <<>>
           /\ InsertAt(q, n, r)[1] = q[1]
<1> DEFINE a == SubSeq(q, 1, n - 1)
           b == SubSeq(q, n, Len(q))
           new == (a \o <<r>>) \o b
<1>1. q \in Seq(Req) /\ Len(q) \in Nat /\ Len(q) > 0 /\ n \in Nat
  BY SMTT(60) DEF Queued
<1>2. /\ a \in Seq(Req) /\ Len(a) = n - 1 /\ \A i \in 1..(n - 1) : a[i] = q[i]
  BY SMTT(60), <1>1
<1>3. /\ b \in Seq(Req) /\ Len(b) = Len(q) - n + 1 /\ \A i \in 1..(Len(q) - n + 1) : b[i] = q[n + i - 1]
  BY SMTT(60), <1>1
<1> HIDE DEF a, b
<1>4. <<r>> \in Seq(Req) /\ Len(<<r>>) = 1 /\ <<r>>[1] = r
  BY SMTT(60)
<1>5. /\ a \o <<r>> \in Seq(Req) /\ Len(a \o <<r>>) = n
      /\ \A i \in 1..n : (a \o <<r>>)[i] = IF i < n THEN q[i] ELSE r
  <2>1. /\ a \o <<r>> \in Seq(Req) /\ Len(a \o <<r>>) = Len(a) + Len(<<r>>)
        /\ \A i \in 1..(Len(a) + Len(<<r>>)) :
               (a \o <<r>>)[i] = IF i <= Len(a) THEN a[i] ELSE <<r>>[i - Len(a)]
    BY ZenonT(60), <1>2, <1>4, ConcatProperties
  <2>2. Len(a) + Len(<<r>>) = n
    BY SMTT(60), <1>1, <1>2, <1>4
  <2> QED
    BY SMTT(60), <1>1, <1>2, <1>4, <2>1, <2>2
<1> DEFINE front == a \o <<r>>
<1>6. /\ new = front \o b /\ new = InsertAt(q, n, r)
      /\ front \in Seq(Req) /\ Len(front) = n
      /\ \A i \in 1..n : front[i] = IF i < n THEN q[i] ELSE r
  BY ZenonT(60), <1>5 DEF InsertAt, a, b
<1> HIDE DEF front
<1>7. /\ new \in Seq(Req) /\ Len(new) = Len(q) + 1
      /\ \A i \in 1..(Len(q) + 1) : new[i] = IF i <= n THEN front[i] ELSE b[i - n]
  <2>1. /\ front \o b \in Seq(Req) /\ Len(front \o b) = Len(front) + Len(b)
        /\ \A i \in 1..(Len(front) + Len(b)) :
               (front \o b)[i] = IF i <= Len(front) THEN front[i] ELSE b[i - Len(front)]
    BY ZenonT(60), <1>3, <1>6, ConcatProperties
  <2>2. Len(front) = n /\ Len(front) + Len(b) = Len(q) + 1
    BY SMTT(60), <1>1, <1>3, <1>6
  <2> QED
    BY ZenonT(60), <1>6, <2>1, <2>2
<1>8. \A i \in 1..(Len(q) + 1) : new[i] = IF i < n THEN q[i] ELSE IF i = n THEN r ELSE q[i - 1]
  <2> SUFFICES ASSUME NEW i \in 1..(Len(q) + 1)
               PROVE  new[i] = IF i < n THEN q[i] ELSE IF i = n THEN r ELSE q[i - 1]
    BY ZenonT(60)
  <2>1. new[i] = IF i <= n THEN front[i] ELSE b[i - n]
    BY ZenonT(60), <1>7
  <2>2. i <= n => front[i] = IF i < n THEN q[i] ELSE r
    BY SMTT(60), <1>1, <1>6
  <2>3. ~(i <= n) => b[i - n] = q[i - 1]
    <3> SUFFICES ASSUME ~(i <= n) PROVE b[i - n] = q[i - 1]
      BY ZenonT(60)
    <3>1. i - n \in 1..(Len(q) - n + 1) /\ n + (i - n) - 1 = i - 1
      BY SMTT(60), <1>1
    <3> QED
      BY ZenonT(60), <1>3, <3>1
  <2> HIDE DEF new
  <2> QED
    BY SMTT(60), <1>1, <2>1, <2>2, <2>3
<1> HIDE DEF new
<1>9. ASSUME NEW i \in 1..Len(new)
      PROVE  On(new[i]) /\ (i > 1 => new[i].half = 0)
  <2>1. i \in 1..(Len(q) + 1)
    BY ZenonT(60), <1>7
  <2>2. CASE i < n
    <3>1. i \in 1..Len(q) /\ new[i] = q[i]
      BY SMTT(60), <1>1, <1>8, <2>1, <2>2
    <3> QED
      BY ZenonT(60), <3>1 DEF Queued
  <2>3. CASE i = n
    BY SMTT(60), <1>1, <1>8, <2>1, <2>3
  <2>4. CASE i > n
    <3>1. i - 1 \in 1..Len(q) /\ i - 1 > 1 /\ new[i] = q[i - 1]
      BY SMTT(60), <1>1, <1>8, <2>1, <2>4
    <3> QED
      BY ZenonT(60), <3>1 DEF Queued
  <2> QED
    BY SMTT(60), <1>1, <2>1, <2>2, <2>3, <2>4
<1>10. new # <<>> /\ new[1] = q[1]
  BY SMTT(60), <1>1, <1>7, <1>8
<1> QED
  BY ZenonT(60), <1>6, <1>7, <1>9, <1>10 DEF Queued
-----------------------------------------------------------------------------
\* The part of the invariant about the queue and what has been moved.
Kept == Queued(queue)' /\ (moved = Moved(queue))' /\ CompleteTransfer'

\* end_request without success.
LEMMA EndsBadly ==
    ASSUME NEW q, Queued(q), q # <<>>, EndRequest(q, moved, FALSE)
    PROVE  Kept
<1>1. queue' = Tail(q) /\ moved' = {} /\ last'.ok = FALSE
  BY ZenonT(60) DEF EndRequest
<1>2. Queued(Tail(q)) /\ Moved(Tail(q)) = {}
  BY ZenonT(60), TailQueued
<1> QED
  BY ZenonT(60), <1>1, <1>2 DEF Kept, CompleteTransfer, Queued, Moved

\* bad_rw_intr: an error more, and the end of the request or another try.
LEMMA BadKept ==
    ASSUME HInv, queue # <<>>, bad_rw_intr(queue)
    PROVE  Kept
<1> DEFINE r == [queue[1] EXCEPT !.errors = @ + 1]
           bad == [queue EXCEPT ![1] = r]
<1>1. Queued(queue) /\ queue[1] \in Req /\ On(queue[1])
  <2>1. Queued(queue) /\ queue \in Seq(Req)
    BY ZenonT(60) DEF HInv, Queued
  <2>2. 1 \in 1..Len(queue)
    BY SMTT(60), <2>1
  <2> QED
    BY ZenonT(60), <2>1, <2>2, ElementOfSeq DEF Queued
<1>2. r \in Req /\ r.half = queue[1].half /\ r.first = queue[1].first /\ On(r)
  BY SMTT(60), <1>1 DEF Req, On
<1>3. Queued(bad) /\ bad # <<>> /\ bad[1] = r
  <2> HIDE DEF r
  <2> QED
    BY ZenonT(60), <1>1, <1>2, FirstQueued
<1>4. \/ EndRequest(bad, moved, FALSE)
      \/ queue' = bad /\ last' = None /\ moved' = moved
  BY ZenonT(60) DEF bad_rw_intr
<1> HIDE DEF bad, r
<1>5. CASE EndRequest(bad, moved, FALSE)
  BY ZenonT(60), <1>3, <1>5, EndsBadly
<1>6. CASE queue' = bad /\ last' = None /\ moved' = moved
  <2>1. Moved(bad) = Moved(queue)
    BY ZenonT(60), <1>2, <1>3 DEF Moved
  <2> QED
    BY ZenonT(60), <1>3, <1>6, <2>1 DEF Kept, HInv, CompleteTransfer, Queued, Moved
<1> QED
  BY ZenonT(60), <1>4, <1>5, <1>6

\* Facts about the first request.
LEMMA CurrentFacts ==
    ASSUME HInv, queue # <<>>
    PROVE  /\ CURRENT = queue[1] /\ CURRENT \in Req /\ On(CURRENT)
           /\ moved = IF CURRENT.half = 0 THEN {} ELSE {<<0, CURRENT.first>>}
<1>1. queue \in Seq(Req) /\ Queued(queue)
  BY ZenonT(60) DEF HInv, Queued
<1>2. CURRENT = queue[1] /\ 1 \in 1..Len(queue)
  BY SMTT(60), <1>1 DEF CURRENT
<1> QED
  BY ZenonT(60), <1>1, <1>2, ElementOfSeq DEF HInv, Moved, Queued

\* make_request, into an idle queue or behind the first request.
LEMMA AddHInv ==
    ASSUME DiskSizes, HInv, NEW cmd \in {"READ", "WRITE"}, NEW s \in Nat, AddRequest(cmd, s)
    PROVE  HInv'
<1> DEFINE r == Request(cmd, s)
<1>1. r \in Req /\ On(r) /\ r.half = 0
  BY SMTT(60) DEF Request, Req, On
<1>2. ~running /\ last' = None /\ UNCHANGED <<do_hd, controller, moved>>
  BY ZenonT(60) DEF AddRequest
<1>3. CASE queue = <<>>
  <2>1. queue' = <<r>> /\ running' = TRUE
    BY ZenonT(60), <1>3 DEF AddRequest
  <2> HIDE DEF r
  <2>2. <<r>> \in Seq(Req) /\ Len(<<r>>) = 1 /\ <<r>>[1] = r /\ <<r>> # <<>> /\ \A i \in 1..1 : i = 1
    BY SMTT(60), <1>1
  <2>3. Queued(<<r>>)
    <3>1. ~(1 > 1)
      BY SMTT(60)
    <3> QED
      BY ZenonT(60), <1>1, <2>2, <3>1 DEF Queued
  <2>4. moved = {} /\ Moved(<<r>>) = {} /\ controller = None
    BY ZenonT(60), <1>1, <1>3, <2>2 DEF HInv, Moved
  <2>5. Queued(queue') /\ moved' = Moved(queue')
    BY ZenonT(60), <1>2, <2>1, <2>3, <2>4
  <2> QED
    BY ZenonT(60), <1>2, <2>4, <2>5 DEF HInv, Commanded, CompleteTransfer, Queued, Moved
<1>4. CASE queue # <<>>
  <2>1. PICK n \in 2..(Len(queue) + 1) : queue' = InsertAt(queue, n, r) /\ running' = running
    BY ZenonT(60), <1>4 DEF AddRequest
  <2> HIDE DEF r
  <2>2. Queued(queue)
    BY ZenonT(60) DEF HInv
  <2>3. Queued(queue') /\ queue' # <<>> /\ queue'[1] = queue[1]
    BY ZenonT(60), <1>1, <1>4, <2>1, <2>2, InsertQueued
  <2>4. CURRENT' = CURRENT
    BY SMTT(60), <1>4, <2>2, <2>3 DEF CURRENT, Queued
  <2>5. Moved(queue') = Moved(queue)
    BY ZenonT(60), <1>4, <2>3 DEF Moved
  <2>6. Commanded'
    BY ZenonT(60), <1>2, <2>4 DEF HInv, Commanded
  <2> QED
    BY ZenonT(60), <1>2, <1>4, <2>1, <2>3, <2>5, <2>6 DEF HInv, CompleteTransfer, Queued, Moved
<1> QED
  BY ZenonT(60), <1>3, <1>4

\* A command for the controller, about the first request or about none.
LEMMA HdOutHInv ==
    ASSUME HInv, queue # <<>>, last' = None, running' = FALSE, UNCHANGED <<queue, moved>>,
           \/ \E op \in {"SPECIFY", "RESTORE"} : hd_out(op, 0, 1, 0, "recal_intr")
           \/ hd_out("READ", StartSector, CURRENT.nr_sectors, CURRENT.half, "read_intr")
           \/ hd_out("WRITE", StartSector, CURRENT.nr_sectors, CURRENT.half, "write_intr")
    PROVE  HInv'
<1>1. CURRENT' = CURRENT /\ CURRENT \in Req
  BY ZenonT(60), CurrentFacts DEF CURRENT
<1>2. Commanded'
  <2>1. CASE \E op \in {"SPECIFY", "RESTORE"} : hd_out(op, 0, 1, 0, "recal_intr")
    BY SMTT(60), <2>1 DEF hd_out, Commanded
  <2>2. CASE \/ hd_out("READ", StartSector, CURRENT.nr_sectors, CURRENT.half, "read_intr")
             \/ hd_out("WRITE", StartSector, CURRENT.nr_sectors, CURRENT.half, "write_intr")
    <3> DEFINE c == CURRENT
    <3>1. /\ do_hd' \in {"read_intr", "write_intr"}
          /\ \E op \in {"READ", "WRITE"} :
                controller' = [op |-> op, sector |-> c.sector, left |-> c.nr_sectors, half |-> c.half]
      BY ZenonT(60), <2>2 DEF hd_out, StartSector
    <3>2. c.sector \in Nat /\ c.nr_sectors \in Nat /\ c.half \in Nat /\ CURRENT' = c
      BY ZenonT(60), <1>1 DEF Req
    <3> HIDE DEF c
    <3> QED
      BY SMTT(60), <3>1, <3>2 DEF Commanded
  <2> QED
    BY ZenonT(60), <2>1, <2>2
<1> QED
  BY ZenonT(60), <1>2 DEF HInv, CompleteTransfer, Queued, Moved
-----------------------------------------------------------------------------
LEMMA InitHInv == ASSUME Init PROVE HInv
<1>1. <<>> \in Seq(Req) /\ \A i \in 1..Len(<<>>) : FALSE
  BY SMTT(60)
<1> QED
  BY ZenonT(60), <1>1 DEF Init, HInv, Queued, Moved, Commanded, CompleteTransfer

\* What do_hd_request does with the first request.
LEMMA DoHdRequestHInv == ASSUME HInv, DoHdRequest PROVE HInv'
<1>1. running /\ controller = None
  BY ZenonT(60) DEF DoHdRequest, HInv
<1>2. CASE queue = <<>>
  <2>1. last' = None /\ UNCHANGED <<queue, do_hd, controller, moved>>
    BY ZenonT(60), <1>2 DEF DoHdRequest
  <2> QED
    BY ZenonT(60), <1>1, <2>1 DEF HInv, Commanded, CompleteTransfer, Queued, Moved
<1>3. CASE queue # <<>>
  <2>1. \/ EndRequest(queue, moved, FALSE) /\ UNCHANGED <<running, controller>>
        \/ bad_rw_intr(queue) /\ UNCHANGED <<running, controller>>
        \/ /\ last' = None /\ running' = FALSE /\ UNCHANGED <<queue, moved>>
           /\ \/ \E op \in {"SPECIFY", "RESTORE"} : hd_out(op, 0, 1, 0, "recal_intr")
              \/ hd_out("READ", StartSector, CURRENT.nr_sectors, CURRENT.half, "read_intr")
              \/ hd_out("WRITE", StartSector, CURRENT.nr_sectors, CURRENT.half, "write_intr")
    BY ZenonT(60), <1>3 DEF DoHdRequest
  <2>2. CASE EndRequest(queue, moved, FALSE) /\ UNCHANGED <<running, controller>>
    <3>1. Queued(queue)
      BY ZenonT(60) DEF HInv
    <3> QED
      BY ZenonT(60), <1>1, <1>3, <2>2, <3>1, EndsBadly DEF HInv, Kept, Commanded
  <2>3. CASE bad_rw_intr(queue) /\ UNCHANGED <<running, controller>>
    <3>1. Kept
      BY ZenonT(60), <1>3, <2>3, BadKept
    <3> QED
      BY ZenonT(60), <1>1, <2>3, <3>1 DEF HInv, Kept, Commanded
  <2> QED
    BY ZenonT(60), <1>3, <2>1, <2>2, <2>3, HdOutHInv
<1> QED
  BY ZenonT(60), <1>2, <1>3

\* A bad result, and the end of a SPECIFY or RESTORE.
LEMMA BadInterruptHInv == ASSUME HInv, BadInterrupt PROVE HInv'
<1>1. queue # <<>> /\ bad_rw_intr(queue) /\ controller' = None
  BY ZenonT(60) DEF BadInterrupt, HInv
<1>2. Kept
  BY ZenonT(60), <1>1, BadKept
<1> QED
  BY ZenonT(60), <1>1, <1>2 DEF HInv, Kept, Commanded

LEMMA RecalIntrHInv == ASSUME HInv, recal_intr PROVE HInv'
  BY ZenonT(60) DEF HInv, recal_intr, Commanded, CompleteTransfer, Queued, Moved

\* The request that has moved its first sector.
OneDone(r) ==
    /\ r \in Req /\ On(r) /\ r.half = 1
    /\ r.first = CURRENT.first /\ r.sector = CURRENT.sector + 1 /\ r.nr_sectors = CURRENT.nr_sectors - 1

Advanced(c, h, s, n) == [c EXCEPT !.half = h, !.sector = s, !.nr_sectors = n]

LEMMA RequestOn ==
    ASSUME NEW c \in Req, NEW h \in Nat, NEW s \in Nat, NEW n \in Nat
    PROVE  LET r == Advanced(c, h, s, n)
           IN  r \in Req /\ r.first = c.first /\ r.half = h /\ r.sector = s /\ r.nr_sectors = n
<1> DEFINE a == [c EXCEPT !.half = h]
           b == [a EXCEPT !.sector = s]
           r == [b EXCEPT !.nr_sectors = n]
<1>1. a \in Req /\ a.first = c.first /\ a.half = h
  BY SMTT(60) DEF Req
<1>2. r = Advanced(c, h, s, n)
  BY ZenonT(60) DEF Advanced
<1> HIDE DEF a
<1>3. b \in Req /\ b.first = c.first /\ b.half = h /\ b.sector = s
  BY SMTT(60), <1>1 DEF Req
<1> HIDE DEF b
<1>4. r \in Req /\ r.first = c.first /\ r.half = h /\ r.sector = s /\ r.nr_sectors = n
  BY SMTT(60), <1>3 DEF Req
<1> QED
  BY ZenonT(60), <1>2, <1>4

\* CURRENT with one sector more read or written.
LEMMA SectorOn ==
    ASSUME CURRENT \in Req, On(CURRENT), NEW r \in {ReadOn, WriteOn}
    PROVE  /\ r \in Req /\ r.first = CURRENT.first /\ r.half = CURRENT.half + 1
           /\ r.sector = CURRENT.sector + 1 /\ r.nr_sectors = CURRENT.nr_sectors - 1
<1> DEFINE e == [CURRENT EXCEPT !.errors = 0]
           h == CURRENT.half + 1
           s == CURRENT.sector + 1
           n == CURRENT.nr_sectors - 1
<1>1. h \in Nat /\ s \in Nat /\ n \in Nat
  BY SMTT(60) DEF On, Req
<1>2. e \in Req /\ e.first = CURRENT.first
  BY SMTT(60) DEF Req
<1>3. WriteOn = Advanced(CURRENT, h, s, n)
  BY ZenonT(60) DEF WriteOn, Advanced
<1>4. ReadOn = Advanced(e, h, s, n)
  BY SMTT(60) DEF ReadOn, Advanced
<1>5. CASE r = WriteOn
  <2> HIDE DEF h, s, n, e
  <2> DEFINE x == Advanced(CURRENT, h, s, n)
  <2>2. x \in Req /\ x.first = CURRENT.first /\ x.half = h /\ x.sector = s /\ x.nr_sectors = n
    BY SMTT(60), <1>1, RequestOn
  <2>3. r = x
    BY ZenonT(60), <1>3, <1>5
  <2> HIDE DEF x
  <2>1. r \in Req /\ r.first = CURRENT.first /\ r.half = h /\ r.sector = s /\ r.nr_sectors = n
    BY ZenonT(60), <1>2, <2>2, <2>3
  <2> QED
    BY ZenonT(60), <2>1 DEF h, s, n
<1>6. CASE r = ReadOn
  <2> HIDE DEF h, s, n, e
  <2> DEFINE x == Advanced(e, h, s, n)
  <2>2. x \in Req /\ x.first = e.first /\ x.half = h /\ x.sector = s /\ x.nr_sectors = n
    BY SMTT(60), <1>1, <1>2, RequestOn
  <2>3. r = x
    BY ZenonT(60), <1>2, <1>4, <1>6
  <2> HIDE DEF x
  <2>1. r \in Req /\ r.first = CURRENT.first /\ r.half = h /\ r.sector = s /\ r.nr_sectors = n
    BY ZenonT(60), <1>2, <2>2, <2>3
  <2> QED
    BY ZenonT(60), <2>1 DEF h, s, n
<1> QED
  BY ZenonT(60), <1>5, <1>6

LEMMA CommandOn ==
    ASSUME NEW c \in [op : {"SPECIFY", "RESTORE", "READ", "WRITE"}, sector : Nat, left : Nat, half : Nat],
           NEW a \in Nat, NEW b \in Nat
    PROVE  LET n == [c EXCEPT !.sector = a, !.left = b]
           IN  /\ n \in [op : {"SPECIFY", "RESTORE", "READ", "WRITE"}, sector : Nat, left : Nat, half : Nat]
               /\ n.left = b /\ n.sector = a
<1> DEFINE C == [op : {"SPECIFY", "RESTORE", "READ", "WRITE"}, sector : Nat, left : Nat, half : Nat]
           m == [c EXCEPT !.sector = a]
           n == [m EXCEPT !.left = b]
<1>1. m \in C /\ m.sector = a
  BY SMTT(60)
<1>2. n = [c EXCEPT !.sector = a, !.left = b]
  BY ZenonT(60)
<1>3. n \in C /\ n.left = b /\ n.sector = a
  <2> HIDE DEF m
  <2> QED
    BY SMTT(60), <1>1
<1> QED
  BY ZenonT(60), <1>2, <1>3

LEMMA FirstSector ==
    ASSUME HInv, queue # <<>>, controller # None, do_hd \in {"read_intr", "write_intr"},
           CURRENT.half = 0, NEW r, OneDone(r),
           queue' = [queue EXCEPT ![1] = r], moved' = moved \cup {<<0, controller.sector>>},
           last' = None, UNCHANGED <<do_hd, running>>,
           controller' \in {NextSector, [NextSector EXCEPT !.half = 1]},
           do_hd = "write_intr" => controller' = [NextSector EXCEPT !.half = 1]
    PROVE  HInv'
<1>1. /\ Queued(queue)
      /\ CURRENT = queue[1] /\ CURRENT \in Req /\ On(CURRENT) /\ moved = {}
  BY ZenonT(60), CurrentFacts DEF HInv
<1>2. Queued(queue') /\ queue' # <<>> /\ queue'[1] = r
  BY ZenonT(60), <1>1, FirstQueued DEF OneDone
<1>3. CURRENT' = r
  BY SMTT(60), <1>2 DEF CURRENT, Queued
<1>4. controller.sector = CURRENT.sector /\ controller.left = CURRENT.nr_sectors
  BY ZenonT(60) DEF HInv, Commanded
<1>5. CURRENT.sector = CURRENT.first /\ CURRENT.nr_sectors = 2
  BY SMTT(60), <1>1 DEF On, Req
<1>6. moved' = Moved(queue')
  <2>1. r.half # 0 /\ r.first = CURRENT.first
    BY SMTT(60) DEF OneDone
  <2> QED
    BY ZenonT(60), <1>1, <1>2, <1>4, <1>5, <2>1 DEF Moved
<1>7. Commanded'
  <2> DEFINE C == [op : {"SPECIFY", "RESTORE", "READ", "WRITE"}, sector : Nat, left : Nat, half : Nat]
             n == [controller EXCEPT !.sector = @ + 1, !.left = @ - 1]
             w == [n EXCEPT !.half = 1]
  <2>1. controller \in C
    BY ZenonT(60) DEF HInv, Commanded
  <2>2. controller.left = 2
    BY ZenonT(60), <1>4, <1>5
  <2>3. n \in C /\ n.left = 1 /\ n.sector = controller.sector + 1
    <3>1. controller.sector + 1 \in Nat /\ 2 - 1 = 1 /\ 1 \in Nat
      BY SMTT(60), <2>1
    <3> DEFINE a == controller.sector + 1
    <3>2. n = [controller EXCEPT !.sector = a, !.left = 1]
      BY ZenonT(60), <2>2, <3>1
    <3> HIDE DEF a, n
    <3> QED
      BY ZenonT(60), <2>1, <3>1, <3>2, CommandOn DEF a
  <2>4. NextSector = n
    BY SMTT(60), <2>2 DEF NextSector
  <2>5. r.sector = controller.sector + 1 /\ r.nr_sectors = 1 /\ r.half = 1
    BY SMTT(60), <1>4, <1>5 DEF OneDone
  <2> HIDE DEF n
  <2>6. w \in C /\ w.left = n.left /\ w.sector = n.sector /\ w.half = 1
    BY SMTT(60), <2>3
  <2>7. do_hd' = do_hd
    BY ZenonT(60)
  <2>8. controller' \in C /\ controller'.left = 1 /\ controller'.sector = controller.sector + 1
        /\ (do_hd = "write_intr" => controller'.half = 1)
    <3> HIDE DEF w, C
    <3>1. controller' \in {n, w} /\ (do_hd = "write_intr" => controller' = w)
      BY ZenonT(60), <2>4 DEF w
    <3> QED
      BY ZenonT(60), <3>1, <2>3, <2>6
  <2> QED
    BY ZenonT(60), <1>3, <2>5, <2>7, <2>8 DEF Commanded
<1>8. (running \/ queue = <<>>)' => (controller = None)'
  BY ZenonT(60), <1>2 DEF HInv
<1>9. CompleteTransfer'
  BY ZenonT(60) DEF CompleteTransfer
<1>10. Queued(queue)' /\ (moved = Moved(queue))'
  BY ZenonT(60), <1>2, <1>6 DEF Queued, Moved
<1> QED
  BY ZenonT(60), <1>7, <1>8, <1>9, <1>10 DEF HInv

LEMMA FirstReplaced ==
    ASSUME NEW s \in Seq(Req), s # <<>>, NEW r \in Req
    PROVE  LET q == [s EXCEPT ![1] = r] IN Head(q) = r /\ Tail(q) = Tail(s)
<1> DEFINE q == [s EXCEPT ![1] = r]
<1>1. Len(s) \in Nat /\ Len(s) > 0 /\ q \in Seq(Req) /\ Len(q) = Len(s) /\ q # <<>>
  BY SMTT(60)
<1>2. q[1] = r /\ \A i \in 1..(Len(s) - 1) : q[i + 1] = s[i + 1]
  BY SMTT(60), <1>1
<1> HIDE DEF q
<1>3. Head(q) = q[1]
  BY SMTT(60), <1>1
<1>4. /\ Tail(q) \in Seq(Req) /\ Tail(s) \in Seq(Req) /\ Len(Tail(q)) = Len(Tail(s))
      /\ \A i \in 1..Len(Tail(q)) : Tail(q)[i] = Tail(s)[i]
  BY SMTT(60), <1>1, <1>2
<1>5. Tail(q) = Tail(s)
  BY ZenonT(60), <1>4, SeqEqual
<1> QED
  BY ZenonT(60), <1>2, <1>3, <1>5 DEF q

\* The second sector ends the request, with both halves moved.
LEMMA SecondSector ==
    ASSUME HInv, queue # <<>>, controller # None, do_hd \in {"read_intr", "write_intr"},
           CURRENT.half = 1, NEW r \in Req, r.first = CURRENT.first,
           EndRequest([queue EXCEPT ![1] = r], moved \cup {<<1, controller.sector>>}, TRUE), controller' = NextSector
    PROVE  HInv'
<1>1. CURRENT \in Req /\ On(CURRENT) /\ moved = {<<0, CURRENT.first>>}
  <2>1. 1 # 0
    BY SMTT(60)
  <2> QED
    BY ZenonT(60), <2>1, CurrentFacts
<1>2. CURRENT.sector = CURRENT.first + 1 /\ CURRENT.nr_sectors = 1
  BY SMTT(60), <1>1 DEF On, Req
<1>3. controller.sector = CURRENT.sector /\ controller.left = CURRENT.nr_sectors
  BY ZenonT(60) DEF HInv, Commanded
<1>4. controller' = None
  BY ZenonT(60), <1>2, <1>3 DEF NextSector
<1> DEFINE q == [queue EXCEPT ![1] = r]
<1>5. Queued(queue) /\ Head(q) = r /\ Tail(q) = Tail(queue)
  <2>1. Queued(queue) /\ queue \in Seq(Req)
    BY ZenonT(60) DEF HInv, Queued
  <2> QED
    BY ZenonT(60), <2>1, FirstReplaced
<1> HIDE DEF q
<1>6. Queued(queue)' /\ (moved = Moved(queue))'
  <2>1. queue' = Tail(q) /\ moved' = {}
    BY ZenonT(60) DEF EndRequest, q
  <2> QED
    BY ZenonT(60), <1>5, <2>1, TailQueued DEF Queued, Moved
<1>7. CompleteTransfer'
  <2>1. last' = [req |-> r, moved |-> moved \cup {<<1, controller.sector>>}, ok |-> TRUE]
    BY ZenonT(60), <1>5 DEF EndRequest, q
  <2>2. last'.moved = moved \cup {<<1, controller.sector>>} /\ last'.req = r
    BY ZenonT(60), <2>1
  <2>3. last'.moved = {<<0, CURRENT.first>>, <<1, CURRENT.first + 1>>}
    BY ZenonT(60), <1>1, <1>2, <1>3, <2>2
  <2> QED
    BY ZenonT(60), <2>2, <2>3 DEF CompleteTransfer
<1> QED
  BY ZenonT(60), <1>4, <1>6, <1>7 DEF HInv, Commanded

LEMMA ReadIntrHInv == ASSUME HInv, read_intr PROVE HInv'
<1>1. queue # <<>> /\ controller # None /\ do_hd = "read_intr" /\ controller' = NextSector
  BY ZenonT(60) DEF read_intr, HInv
<1>2. Queued(queue) /\ CURRENT = queue[1] /\ CURRENT \in Req /\ On(CURRENT)
  BY ZenonT(60), <1>1, CurrentFacts DEF HInv
<1> DEFINE q == [queue EXCEPT ![1] = ReadOn]
<1>3. q[1] = ReadOn
  BY SMTT(60), <1>1, <1>2 DEF Queued
<1>4. CASE CURRENT.half = 0
  <2>1. OneDone(ReadOn) /\ ReadOn.nr_sectors # 0
    <3>1. /\ ReadOn \in Req /\ ReadOn.first = CURRENT.first /\ ReadOn.half = CURRENT.half + 1
          /\ ReadOn.sector = CURRENT.sector + 1 /\ ReadOn.nr_sectors = CURRENT.nr_sectors - 1
      BY ZenonT(60), <1>2, SectorOn
    <3>2. CURRENT.first \in Nat /\ CURRENT.sector \in Nat /\ CURRENT.nr_sectors = 2 /\ CURRENT.sector = CURRENT.first + 0
      BY SMTT(60), <1>2, <1>4 DEF On, Req
    <3> QED
      BY SMTT(60), <1>4, <3>1, <3>2 DEF OneDone, On
  <2>2. /\ queue' = [queue EXCEPT ![1] = ReadOn] /\ moved' = moved \cup {<<0, controller.sector>>}
        /\ last' = None /\ UNCHANGED <<do_hd, running>>
    BY ZenonT(60), <1>3, <1>4, <2>1 DEF read_intr
  <2>3. do_hd # "write_intr"
    BY ZenonT(60), <1>1
  <2> QED
    BY ZenonT(60), <1>1, <1>4, <2>1, <2>2, <2>3, FirstSector
<1>5. CASE CURRENT.half = 1
  <2>1. ReadOn \in Req /\ ReadOn.nr_sectors = 0 /\ ReadOn.first = CURRENT.first
    <3>1. ReadOn \in Req /\ ReadOn.first = CURRENT.first /\ ReadOn.nr_sectors = CURRENT.nr_sectors - 1
      BY ZenonT(60), <1>2, SectorOn
    <3>2. CURRENT.nr_sectors = 1
      BY SMTT(60), <1>2, <1>5 DEF On
    <3> QED
      BY SMTT(60), <3>1, <3>2
  <2>2. EndRequest(q, moved \cup {<<1, controller.sector>>}, TRUE)
    BY ZenonT(60), <1>3, <1>5, <2>1 DEF read_intr
  <2> QED
    BY ZenonT(60), <1>1, <1>5, <2>1, <2>2, SecondSector
<1> QED
  BY ZenonT(60), <1>2, <1>4, <1>5 DEF On

LEMMA WriteIntrHInv == ASSUME HInv, write_intr PROVE HInv'
<1>1. queue # <<>> /\ controller # None /\ do_hd = "write_intr" /\ controller.half = CURRENT.half
  BY ZenonT(60) DEF write_intr, HInv, Commanded
<1>2. Queued(queue) /\ CURRENT = queue[1] /\ CURRENT \in Req /\ On(CURRENT)
  BY ZenonT(60), <1>1, CurrentFacts DEF HInv
<1>3. CASE CURRENT.half = 0
  <2>1. OneDone(WriteOn) /\ CURRENT.nr_sectors # 1 /\ WriteOn.half = 1
    <3>1. /\ WriteOn \in Req /\ WriteOn.first = CURRENT.first /\ WriteOn.half = CURRENT.half + 1
          /\ WriteOn.sector = CURRENT.sector + 1 /\ WriteOn.nr_sectors = CURRENT.nr_sectors - 1
      BY ZenonT(60), <1>2, SectorOn
    <3>2. CURRENT.first \in Nat /\ CURRENT.sector \in Nat /\ CURRENT.nr_sectors = 2 /\ CURRENT.sector = CURRENT.first + 0
      BY SMTT(60), <1>2, <1>3 DEF On, Req
    <3> QED
      BY SMTT(60), <1>3, <3>1, <3>2 DEF OneDone, On
  <2>2. /\ queue' = [queue EXCEPT ![1] = WriteOn] /\ moved' = moved \cup {<<0, controller.sector>>}
        /\ last' = None /\ UNCHANGED <<do_hd, running>> /\ controller' = [NextSector EXCEPT !.half = 1]
    BY ZenonT(60), <1>1, <1>3, <2>1 DEF write_intr
  <2> QED
    BY ZenonT(60), <1>1, <1>3, <2>1, <2>2, FirstSector
<1>4. CASE CURRENT.half = 1
  <2> DEFINE r == [queue[1] EXCEPT !.nr_sectors = 0]
  <2>1. r \in Req /\ r.first = CURRENT.first /\ CURRENT.nr_sectors = 1
    BY SMTT(60), <1>2, <1>4 DEF On, Req
  <2>2. /\ EndRequest([queue EXCEPT ![1] = r], moved \cup {<<1, controller.sector>>}, TRUE)
        /\ controller' = NextSector
    BY ZenonT(60), <1>1, <1>4, <2>1 DEF write_intr
  <2> HIDE DEF r
  <2> QED
    BY ZenonT(60), <1>1, <1>4, <2>1, <2>2, SecondSector
<1> QED
  BY ZenonT(60), <1>2, <1>3, <1>4 DEF On

LEMMA NextHInv == ASSUME DiskSizes, HInv, [Next]_vars PROVE HInv'
<1>1. CASE \E cmd \in {"READ", "WRITE"}, b \in 0..(nr_sects \div 2) : AddRequest(cmd, 2 * b)
  <2>1. PICK cmd \in {"READ", "WRITE"}, b \in 0..(nr_sects \div 2) : AddRequest(cmd, 2 * b)
    BY ZenonT(60), <1>1
  <2>2. 2 * b \in Nat
    BY SMTT(60)
  <2> QED
    BY ZenonT(60), <2>1, <2>2, AddHInv
<1>2. CASE UNCHANGED vars
  BY ZenonT(60), <1>2 DEF vars, HInv, Queued, Moved, Commanded, CompleteTransfer, CURRENT
<1> QED
  BY ZenonT(60), <1>1, <1>2, DoHdRequestHInv, BadInterruptHInv, ReadIntrHInv, WriteIntrHInv,
     RecalIntrHInv DEF Next, Interrupt

\* Whatever the controller fails to do and whatever is repeated, reset or
\* recalibrated, a request that end_request reports as done has moved the first
\* half of its buffer from or to its first sector and the second half from or to
\* the second one, and nothing else.
THEOREM CompleteTransferHolds == ASSUME DiskSizes PROVE Spec => []CompleteTransfer
<1>1. Init => HInv
  BY ZenonT(60), InitHInv
<1>2. HInv /\ [Next]_vars => HInv'
  BY ZenonT(60), NextHInv
<1>3. HInv => CompleteTransfer
  BY ZenonT(60) DEF HInv
<1> QED
  BY <1>1, <1>2, <1>3, PTL DEF Spec
-----------------------------------------------------------------------------
\* The keyboard.
CONSTANTS KeySets, SIZE, MaxWire, MaxRepeat
VARIABLES keys, held, wire, repeats, mode, leds, e0, read_q, presses, rebooted
Keys == INSTANCE Keyboard

\* A byte in the queue.
Byte == [key : {"cursor", "del", "func", "self", "minus", "slash"}, place : Nat, of : Nat]

\* Every sequence that begins or goes on in q goes on to its end.
Whole(q) ==
    /\ q \in Seq(Byte) /\ Len(q) < SIZE
    /\ \A i \in 1..Len(q) :
           q[i].place < q[i].of => i < Len(q) /\ q[i + 1] = [q[i] EXCEPT !.place = @ + 1]

LEMMA PutWhole ==
    ASSUME SIZE \in Nat, NEW q, Whole(q), NEW n \in Nat,
           NEW key \in {"cursor", "del", "func", "self", "minus", "slash"}
    PROVE  Whole(Keys!put_queue(q, key, n))
<1> DEFINE b(i) == [key |-> key, place |-> i, of |-> n]
           s == [i \in 1..n |-> b(i)]
           z == q \o s
<1>1. CASE ~(Len(q) + n <= SIZE - 1)
  BY ZenonT(60), <1>1 DEF Keys!put_queue
<1>2. CASE Len(q) + n <= SIZE - 1
  <2>1. \A i \in Nat : b(i) \in Byte /\ b(i).place = i /\ b(i).of = n /\ [b(i) EXCEPT !.place = @ + 1] = b(i + 1)
    BY SMTT(60) DEF Byte
  <2>2. s \in Seq(Byte) /\ Len(s) = n /\ \A i \in 1..n : s[i] = b(i)
    <3>1. 1..n \subseteq Nat
      BY SMTT(60)
    <3> HIDE DEF b
    <3>2. s \in [1..n -> Byte] /\ \A i \in 1..n : s[i] = b(i)
      BY ZenonT(60), <2>1, <3>1
    <3> HIDE DEF s
    <3>3. s \in Seq(Byte) /\ Len(s) = n
      BY SMTT(60), <3>2
    <3> QED
      BY ZenonT(60), <3>2, <3>3
  <2>3. q \in Seq(Byte) /\ Len(q) \in Nat
    BY SMTT(60) DEF Whole
  <2>4. Keys!put_queue(q, key, n) = z
    BY ZenonT(60), <1>2 DEF Keys!put_queue
  <2> HIDE DEF s, b
  <2>5. /\ z \in Seq(Byte) /\ Len(z) = Len(q) + n /\ Len(z) < SIZE
        /\ \A i \in 1..Len(q) : z[i] = q[i]
        /\ \A i \in 1..n : z[Len(q) + i] = s[i]
    BY SMTT(60), <1>2, <2>2, <2>3
  <2> HIDE DEF z
  <2>6. ASSUME NEW i \in 1..Len(z), z[i].place < z[i].of
        PROVE  i < Len(z) /\ z[i + 1] = [z[i] EXCEPT !.place = @ + 1]
    <3>1. CASE i \in 1..Len(q)
      <4>1. i < Len(q) /\ q[i + 1] = [q[i] EXCEPT !.place = @ + 1]
        BY ZenonT(60), <2>5, <2>6, <3>1 DEF Whole
      <4>2. i + 1 \in 1..Len(q) /\ i < Len(z)
        BY SMTT(60), <2>3, <2>5, <3>1, <4>1
      <4> QED
        BY ZenonT(60), <2>5, <3>1, <4>1, <4>2
    <3>2. CASE i \notin 1..Len(q)
      <4> DEFINE j == i - Len(q)
      <4>1. j \in 1..n /\ j \in Nat /\ i = Len(q) + j
        BY SMTT(60), <2>3, <2>5, <3>2
      <4> HIDE DEF j
      <4>2. z[i] = b(j)
        BY ZenonT(60), <2>2, <2>5, <4>1
      <4>3. j < n
        BY ZenonT(60), <2>1, <2>6, <4>1, <4>2
      <4>4. j + 1 \in 1..n /\ i + 1 = Len(q) + (j + 1) /\ i < Len(z)
        BY SMTT(60), <2>3, <2>5, <4>1, <4>3
      <4>5. z[i + 1] = b(j + 1)
        BY ZenonT(60), <2>2, <2>5, <4>4
      <4> QED
        BY ZenonT(60), <2>1, <4>1, <4>2, <4>4, <4>5
    <3> QED
      BY ZenonT(60), <3>1, <3>2
  <2> QED
    BY ZenonT(60), <2>4, <2>5, <2>6 DEF Whole
<1> QED
  BY ZenonT(60), <1>1, <1>2

\* do_tty_interrupt takes bytes from the front.
LEMMA RestWhole ==
    ASSUME SIZE \in Nat, NEW q, Whole(q), NEW n \in 0..Len(q)
    PROVE  Whole(SubSeq(q, n + 1, Len(q)))
<1> DEFINE z == SubSeq(q, n + 1, Len(q))
<1>1. q \in Seq(Byte) /\ Len(q) \in Nat /\ n \in Nat
  BY SMTT(60) DEF Whole
<1>2. /\ z \in Seq(Byte) /\ Len(z) = Len(q) - n
      /\ \A i \in 1..Len(z) : z[i] = q[n + i]
  BY SMTT(60), <1>1
<1> HIDE DEF z
<1>3. Len(z) < SIZE
  BY SMTT(60), <1>1, <1>2 DEF Whole
<1>4. ASSUME NEW i \in 1..Len(z), z[i].place < z[i].of
      PROVE  i < Len(z) /\ z[i + 1] = [z[i] EXCEPT !.place = @ + 1]
  <2>1. n + i \in 1..Len(q) /\ z[i] = q[n + i]
    BY SMTT(60), <1>1, <1>2
  <2>2. n + i < Len(q) /\ q[(n + i) + 1] = [q[n + i] EXCEPT !.place = @ + 1]
    BY ZenonT(60), <1>4, <2>1 DEF Whole
  <2>3. i < Len(z) /\ i + 1 \in 1..Len(z) /\ n + (i + 1) = (n + i) + 1
    BY SMTT(60), <1>1, <1>2, <2>2
  <2> QED
    BY ZenonT(60), <1>2, <2>1, <2>2, <2>3
<1>5. Whole(z)
  BY ZenonT(60), <1>2, <1>3, <1>4 DEF Whole
<1> QED
  BY ZenonT(60), <1>5 DEF z

LEMMA NextWhole == ASSUME SIZE \in Nat, Whole(read_q), [Keys!Next]_(Keys!vars) PROVE Whole(read_q')
<1>1. CASE read_q' = read_q
  BY ZenonT(60), <1>1
<1>2. ASSUME NEW q, Whole(q), Keys!do_tty_interrupt(q) PROVE Whole(read_q')
  <2>1. PICK n \in 0..Len(q) : read_q' = SubSeq(q, n + 1, Len(q))
    BY ZenonT(60), <1>2 DEF Keys!do_tty_interrupt
  <2>2. Whole(SubSeq(q, n + 1, Len(q)))
    BY ZenonT(60), <1>2, RestWhole
  <2> QED
    BY ZenonT(60), <2>1, <2>2
<1>3. ASSUME NEW code, NEW q \in Keys!Queued(code) PROVE Whole(q)
  <2>1. 1 \in Nat /\ 3 \in Nat /\ 4 \in Nat
    BY SMTT(60)
  <2>2. \A key \in {"cursor", "del", "func", "self", "minus", "slash"}, n \in {1, 3, 4} :
            Whole(Keys!put_queue(read_q, key, n))
    BY ZenonT(60), <2>1, PutWhole
  <2>3. CASE code \in {"cursor", "del"}
    <3>1. \E n \in {1, 3, 4} : q = Keys!put_queue(read_q, code, n)
      BY ZenonT(60), <2>3 DEF Keys!Queued, Keys!cursor
    <3> QED
      BY ZenonT(60), <2>2, <2>3, <3>1
  <2>4. CASE code \notin {"cursor", "del"}
    <3>1. \/ q = read_q
          \/ \E key \in {"func", "self", "minus", "slash"}, n \in {1, 4} : q = Keys!put_queue(read_q, key, n)
      BY ZenonT(60), <2>4 DEF Keys!Queued, Keys!func, Keys!do_self
    <3> QED
      BY ZenonT(60), <2>2, <3>1
  <2> QED
    BY ZenonT(60), <2>3, <2>4
<1>4. CASE Keys!keyboard_interrupt
  BY ZenonT(60), <1>1, <1>2, <1>3, <1>4 DEF Keys!keyboard_interrupt
<1>5. CASE \E key \in keys : Keys!Press(key) \/ Keys!Repeat(key) \/ Keys!Release(key)
  BY ZenonT(60), <1>1, <1>5 DEF Keys!Press, Keys!Repeat, Keys!Release
<1>6. CASE UNCHANGED Keys!vars
  BY ZenonT(60), <1>1, <1>6 DEF Keys!vars
<1> QED
  BY ZenonT(60), <1>4, <1>5, <1>6 DEF Keys!Next

\* put_queue moves the head of read_q once per sequence and do_tty_interrupt takes
\* bytes from the front only: of what a key sends either every byte that has not
\* been taken is in the queue, side by side, or none is, and the queue is never
\* filled to the place where it would look empty.
THEOREM WholeKeysHolds ==
    ASSUME SIZE \in Nat \ {0} PROVE Keys!Spec => []Keys!WholeKeys
<1>1. Keys!Init => Whole(read_q)
  <2>1. <<>> \in Seq(Byte) /\ Len(<<>>) = 0 /\ 0 < SIZE /\ \A i \in 1..0 : FALSE
    BY SMTT(60)
  <2> QED
    BY ZenonT(60), <2>1 DEF Keys!Init, Whole
<1>2. Whole(read_q) /\ [Keys!Next]_(Keys!vars) => Whole(read_q)'
  <2>1. ASSUME Whole(read_q), [Keys!Next]_(Keys!vars) PROVE Whole(read_q')
    BY ZenonT(60), <2>1, NextWhole
  <2> QED
    BY ZenonT(60), <2>1 DEF Whole
<1>3. Whole(read_q) => Keys!WholeKeys
  BY ZenonT(60) DEF Whole, Keys!WholeKeys
<1> QED
  BY <1>1, <1>2, <1>3, PTL DEF Keys!Spec
=============================================================================
