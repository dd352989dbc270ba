---------------------------- MODULE BufferCache ----------------------------
(***************************************************************************)
(* The buffer cache of fs/buffer.c with its two ends: the block device     *)
(* system calls of fs/block_dev.c and sys_sync above it, make_request of   *)
(* kernel/blk_drv/ll_rw_blk.c and the end of a request below it.           *)
(*                                                                         *)
(* The kernel is not preempted: a process that runs in it keeps the CPU    *)
(* (cpu) until it sleeps or returns.  An action is the code from one point *)
(* where another process may have run, or from one call, to the next.      *)
(* sleep_on and wake_up are the abstract ones of WaitSet.  The device may  *)
(* serve its requests in any order; RequestQueue models the order.         *)
(***************************************************************************)
EXTENDS Naturals, Sequences, FiniteSets

CONSTANTS Proc,       \* processes that use block devices
          NB,         \* NR_BUFFERS, buffers are 1..NB
          Device,     \* device numbers
          Number,     \* block numbers on a device
          NR_REQUEST, \* request slots; writes use the lower two thirds
          Value,      \* contents of a block
          Ops,        \* which of the operations below are called
          Errors,     \* TRUE if a request may end in an I/O error
          None        \* NULL, no block, nobody

ASSUME ProcAssumption == IsFiniteSet(Proc)
ASSUME NBAssumption == NB \in Nat \ {0}
ASSUME RequestAssumption == NR_REQUEST \in Nat \ {0, 1}
ASSUME OpsAssumption == Ops \subseteq {"read", "write", "full", "ahead", "sync"}
ASSUME ValueAssumption == Value # {}
ASSUME ErrorsAssumption == Errors \in BOOLEAN

Buffer == 1..NB
Block == Device \X Number
Slots == 1..NR_REQUEST
WriteSlots == 1..((NR_REQUEST * 2) \div 3)

\* struct request, while in use; moved once the data have been transferred.
Request == [bh : Buffer, cmd : {"READ", "WRITE"}, moved : BOOLEAN]

ASSUME NoneAssumption == /\ None \notin Proc
                         /\ None \notin Nat \cup {"READ", "WRITE", "full"}
                         /\ None \notin Device \cup Block
ASSUME RecordAssumption == None \notin Request

\* What a process may sleep on: a buffer's b_wait, buffer_wait, wait_for_request.
buffer_wait == NB + 1
wait_for_request == NB + 2
Queue == 1..(NB + 2)

VARIABLES
    \* struct buffer_head
    block,       \* <<b_dev, b_blocknr>>, or None while b_dev is 0
    b_count, b_lock, b_dirt, b_uptodate,
    data,        \* b_data
    free_list,   \* all buffers, in the order getblk looks at them
    \* the devices
    request,     \* the request in each slot in use
    disk,
    \* a process
    cpu,         \* the process that runs in the kernel
    pc,
    wait,        \* the queue it sleeps on
    op,
    want,        \* the blocks it has yet to get
    bh,          \* the buffer getblk looks at or has found
    keep,        \* the buffer bread, breada or getblk returned
    dev,         \* the argument of sync_dev, None in sys_sync
    i,           \* how far sys_sync or sync_dev has come
    rw,          \* the command of its call of make_request
    \* history
    latest,      \* what was last written to a block
    failed       \* blocks a write of which has ended in an error

bufferVars == <<block, b_count, b_lock, b_dirt, b_uptodate, data, free_list>>
deviceVars == <<request, disk>>
historyVars == <<latest, failed>>
localVars == <<op, want, bh, keep, dev, i, rw>>
vars == <<bufferVars, deviceVars, cpu, pc, wait, localVars, historyVars>>

Zero == CHOOSE v \in Value : TRUE

Init ==
    /\ block = [b \in Buffer |-> None]
    /\ b_count = [b \in Buffer |-> 0]
    /\ b_lock = [b \in Buffer |-> FALSE]
    /\ b_dirt = [b \in Buffer |-> FALSE]
    /\ b_uptodate = [b \in Buffer |-> FALSE]
    /\ data = [b \in Buffer |-> Zero]
    /\ free_list = [b \in Buffer |-> b]
    /\ request = [r \in Slots |-> None]
    /\ disk = [k \in Block |-> Zero]
    /\ cpu = None
    /\ pc = [p \in Proc |-> "idle"]
    /\ wait = [p \in Proc |-> None]
    /\ op = [p \in Proc |-> None]
    /\ want = [p \in Proc |-> <<>>]
    /\ bh = [p \in Proc |-> None]
    /\ keep = [p \in Proc |-> None]
    /\ dev = [p \in Proc |-> None]
    /\ i = [p \in Proc |-> 1]
    /\ rw = [p \in Proc |-> None]
    /\ latest = disk
    /\ failed = {}
-----------------------------------------------------------------------------
(* The process that runs, and how it goes on. *)

\* p is at label l, awake, and nobody else runs in the kernel.
At(p, l) == pc[p] = l /\ wait[p] = None /\ cpu \in {None, p}

Goto(p, l) ==
    /\ pc' = [pc EXCEPT ![p] = l]
    /\ cpu' = p
    /\ UNCHANGED wait

\* A step that only moves p on.
Moves(p, l) ==
    /\ Goto(p, l)
    /\ UNCHANGED <<bufferVars, deviceVars, historyVars, localVars>>

\* Back to user mode, or to a place where the caller may fault a page in.
Leave(p, l) ==
    /\ pc' = [pc EXCEPT ![p] = l]
    /\ cpu' = None
    /\ UNCHANGED wait

\* sleep_on(q); p tries again at the same label.
SleepOn(p, q) ==
    /\ wait' = [wait EXCEPT ![p] = q]
    /\ cpu' = None
    /\ UNCHANGED <<bufferVars, deviceVars, historyVars, localVars, pc>>

Awakened(queues) == [p \in Proc |-> IF wait[p] \in queues THEN None ELSE wait[p]]
-----------------------------------------------------------------------------
(* getblk *)

\* find_buffer
Found(k) == {b \in Buffer : block[b] = k}

Badness(b) == (IF b_dirt[b] THEN 2 ELSE 0) + (IF b_lock[b] THEN 1 ELSE 0)

\* The buffer of the free list that getblk settles for: unused, of the least
\* badness, the first of these.
Victims ==
    LET unused == {n \in 1..NB : b_count[free_list[n]] = 0}
    IN  {free_list[n] : n \in {m \in unused :
            \A l \in unused : \/ Badness(free_list[m]) < Badness(free_list[l])
                              \/ /\ Badness(free_list[m]) = Badness(free_list[l])
                                 /\ m <= l}}

\* repeat: look the block up, take a reference before waiting for it; or else
\* choose a buffer to reuse; or wait until some buffer is released.
Getblk(p) ==
    /\ At(p, "getblk")
    /\ LET k == Head(want[p]) IN
       IF Found(k) # {} THEN
           \E b \in Found(k) :
               /\ b_count' = [b_count EXCEPT ![b] = @ + 1]
               /\ bh' = [bh EXCEPT ![p] = b]
               /\ Goto(p, "hashed")
               /\ UNCHANGED <<block, b_lock, b_dirt, b_uptodate, data, free_list,
                              deviceVars, historyVars, op, want, keep, dev, i, rw>>
       ELSE IF Victims # {} THEN
           \E b \in Victims :
               /\ bh' = [bh EXCEPT ![p] = b]
               /\ Goto(p, "victim")
               /\ UNCHANGED <<bufferVars, deviceVars, historyVars,
                              op, want, keep, dev, i, rw>>
       ELSE SleepOn(p, buffer_wait)

\* The rest of get_hash_table.
Hashed(p) ==
    /\ At(p, "hashed")
    /\ LET b == bh[p] IN
       IF b_lock[b] THEN SleepOn(p, b)
       ELSE IF block[b] = Head(want[p]) THEN Moves(p, "got")
       ELSE
           /\ b_count' = [b_count EXCEPT ![b] = @ - 1]
           /\ Goto(p, "getblk")
           /\ UNCHANGED <<block, b_lock, b_dirt, b_uptodate, data, free_list,
                          deviceVars, historyVars, localVars>>

\* The free list with b taken out and put at its end.
MovedToEnd(b) ==
    [n \in 1..NB |-> IF n = NB THEN b
                     ELSE IF \E m \in 1..n : free_list[m] = b THEN free_list[n + 1]
                     ELSE free_list[n]]

\* Mutant: the caller gets no reference.
ReuseUncounted(b, k) ==
    /\ b_dirt' = [b_dirt EXCEPT ![b] = FALSE]
    /\ b_uptodate' = [b_uptodate EXCEPT ![b] = FALSE]
    /\ block' = [block EXCEPT ![b] = k]
    /\ UNCHANGED <<b_count, b_lock, data, free_list>>

\* Buffer b becomes the buffer of block k, at the end of the free list.
Reuse(b, k) ==
    /\ b_count' = [b_count EXCEPT ![b] = 1]
    /\ b_dirt' = [b_dirt EXCEPT ![b] = FALSE]
    /\ b_uptodate' = [b_uptodate EXCEPT ![b] = FALSE]
    /\ block' = [block EXCEPT ![b] = k]
    /\ free_list' = MovedToEnd(b)
    /\ UNCHANGED <<b_lock, data>>

\* Mutant: somebody may have taken the buffer, nobody looks.
NeverTaken(b) == FALSE

Taken(b) == b_count[b] > 0

\* Mutant: what is in the buffer is dropped.
NeverDirty(b) == FALSE

MustWrite(b) == b_dirt[b]

\* Mutant: somebody may have added the block, nobody looks.
NeverAppeared(k) == FALSE

Appeared(k) == Found(k) # {}

\* The rest of getblk: wait for the chosen buffer, start again if it was taken,
\* have it written if it is dirty, start again if the block has appeared.
Victim(p) ==
    /\ At(p, "victim")
    /\ LET b == bh[p] IN
       IF b_lock[b] THEN SleepOn(p, b)
       ELSE IF Taken(b) THEN Moves(p, "getblk")
       ELSE IF MustWrite(b) THEN
           /\ dev' = [dev EXCEPT ![p] = block[b][1]]
           /\ Goto(p, "sync")
           /\ UNCHANGED <<bufferVars, deviceVars, historyVars, op, want, bh, keep, i, rw>>
       ELSE IF Appeared(Head(want[p])) THEN Moves(p, "getblk")
       ELSE
           /\ Reuse(b, Head(want[p]))
           /\ Goto(p, "got")
           /\ UNCHANGED <<deviceVars, historyVars, localVars>>
-----------------------------------------------------------------------------
(* sys_sync and sync_dev: one pass, or two, over all buffers. *)

Scanned(n) == ((n - 1) % NB) + 1

Sync(p) ==
    /\ At(p, "sync")
    /\ LET b == Scanned(i[p])
           all == dev[p] = None
           matches == all \/ (block[b] # None /\ block[b][1] = dev[p])
       IN
       IF i[p] > (IF all THEN NB ELSE 2 * NB) THEN
           /\ i' = [i EXCEPT ![p] = 1]
           /\ dev' = [dev EXCEPT ![p] = None]
           /\ op' = [op EXCEPT ![p] = IF all THEN None ELSE @]
           /\ IF all THEN Leave(p, "idle") ELSE Goto(p, "victim")
           /\ UNCHANGED <<bufferVars, deviceVars, historyVars, want, bh, keep, rw>>
       ELSE IF matches /\ b_lock[b] THEN SleepOn(p, b)
       ELSE IF matches /\ b_dirt[b] THEN
           /\ rw' = [rw EXCEPT ![p] = "WRITE"]
           /\ Goto(p, "lock")
           /\ UNCHANGED <<bufferVars, deviceVars, historyVars,
                          op, want, bh, keep, dev, i>>
       ELSE
           /\ i' = [i EXCEPT ![p] = @ + 1]
           /\ Goto(p, "sync")
           /\ UNCHANGED <<bufferVars, deviceVars, historyVars,
                          op, want, bh, keep, dev, rw>>
-----------------------------------------------------------------------------
(* make_request *)

\* The buffer p's request is about.
Target(p) == IF rw[p] = "WRITE" THEN Scanned(i[p]) ELSE keep[p]

\* Where the caller of ll_rw_block goes on: in the scan, or in bread or breada.
Resume(p) ==
    /\ rw' = [rw EXCEPT ![p] = None]
    /\ i' = [i EXCEPT ![p] = IF rw[p] = "WRITE" THEN @ + 1 ELSE @]
    /\ Goto(p, IF rw[p] = "WRITE" THEN "sync"
               ELSE IF want[p] # <<>> THEN "getblk" ELSE "wait")
    /\ UNCHANGED <<op, want, bh, keep, dev>>

\* There is nothing to write, or the block has been read already.
Needless(cmd, b) == (cmd = "WRITE" /\ ~b_dirt[b]) \/ (cmd = "READ" /\ b_uptodate[b])

\* lock_buffer, and the check once the lock is held.
Lock(p) ==
    /\ At(p, "lock")
    /\ LET b == Target(p) IN
       IF b_lock[b] THEN SleepOn(p, b)
       ELSE IF Needless(rw[p], b) THEN
           /\ Resume(p)
           /\ UNCHANGED <<bufferVars, deviceVars, historyVars>>
       ELSE
           /\ b_lock' = [b_lock EXCEPT ![b] = TRUE]
           /\ Goto(p, "slot")
           /\ UNCHANGED <<block, b_count, b_dirt, b_uptodate, data, free_list,
                          deviceVars, historyVars, localVars>>

\* The empty slot make_request takes: the last of those the command may use.
Empty(cmd) ==
    LET may == {r \in (IF cmd = "READ" THEN Slots ELSE WriteSlots) : request[r] = None}
    IN  {r \in may : \A s \in may : s <= r}

\* add_request.
AddRequest(r, cmd, b) ==
    /\ request' = [request EXCEPT ![r] = [bh |-> b, cmd |-> cmd, moved |-> FALSE]]
    /\ b_dirt' = [b_dirt EXCEPT ![b] = FALSE]

Slot(p) ==
    /\ At(p, "slot")
    /\ IF Empty(rw[p]) = {} THEN SleepOn(p, wait_for_request)
       ELSE /\ \E r \in Empty(rw[p]) : AddRequest(r, rw[p], Target(p))
            /\ Resume(p)
            /\ UNCHANGED <<block, b_count, b_lock, b_uptodate, data, free_list,
                           disk, historyVars>>
-----------------------------------------------------------------------------
(* The system calls. *)

\* A block device is read or written a block at a time (block_read, block_write);
\* "full" is a write of a whole block, "ahead" a read with one block read ahead.
Start(p, o, k, next) ==
    /\ At(p, "idle") /\ cpu = None
    /\ next # k
    /\ op' = [op EXCEPT ![p] = o]
    /\ want' = [want EXCEPT ![p] = IF o = "sync" THEN <<>>
                                   ELSE IF o = "ahead" THEN <<k, next>> ELSE <<k>>]
    /\ Goto(p, IF o = "sync" THEN "sync" ELSE "getblk")
    /\ UNCHANGED <<bufferVars, deviceVars, historyVars, bh, keep, dev, i, rw>>

\* bread and breada once getblk has returned the block itself; block_write
\* of a whole block goes on with what getblk returned.
Got(p) ==
    /\ At(p, "got") /\ keep[p] = None
    /\ LET b == bh[p] IN
       /\ keep' = [keep EXCEPT ![p] = b]
       /\ bh' = [bh EXCEPT ![p] = None]
       /\ want' = [want EXCEPT ![p] = Tail(@)]
       /\ IF op[p] = "full" THEN Leave(p, "use") /\ UNCHANGED rw
          ELSE IF ~b_uptodate[b] THEN
              Goto(p, "lock") /\ rw' = [rw EXCEPT ![p] = "READ"]
          ELSE
              /\ Goto(p, IF Tail(want[p]) # <<>> THEN "getblk" ELSE "wait")
              /\ UNCHANGED rw
       /\ UNCHANGED <<bufferVars, deviceVars, historyVars, op, dev, i>>

\* breada once getblk has returned a further block, tmp.  A READA request never
\* waits: it is for bh, is dropped when bh is locked or no slot is empty, and
\* does nothing when bh has been read.  The reference to tmp goes silently.
ReadAhead(p) ==
    /\ At(p, "got") /\ keep[p] # None
    /\ LET tmp == bh[p]
           b == keep[p]
           reads == ~b_uptodate[tmp] /\ ~b_lock[b] /\ ~b_uptodate[b] /\ Empty("READ") # {}
       IN
       /\ b_count' = [b_count EXCEPT ![tmp] = @ - 1]
       /\ bh' = [bh EXCEPT ![p] = None]
       /\ want' = [want EXCEPT ![p] = Tail(@)]
       /\ Goto(p, IF Tail(want[p]) # <<>> THEN "getblk" ELSE "wait")
       /\ IF reads
          THEN /\ \E r \in Empty("READ") : AddRequest(r, "READ", b)
               /\ b_lock' = [b_lock EXCEPT ![b] = TRUE]
          ELSE UNCHANGED <<request, b_dirt, b_lock>>
       /\ UNCHANGED <<block, b_uptodate, data, free_list, disk, historyVars,
                      op, keep, dev, i, rw>>

\* The end of bread and breada: wait for the data; give the buffer back if
\* they could not be read.
Wait(p) ==
    /\ At(p, "wait")
    /\ IF b_lock[keep[p]] THEN SleepOn(p, keep[p])
       ELSE /\ IF b_uptodate[keep[p]] THEN Leave(p, "use") ELSE Goto(p, "brelse")
            /\ UNCHANGED <<bufferVars, deviceVars, historyVars, localVars>>

\* The caller copies the data out, or in and marks the buffer dirty.
Use(p, v) ==
    /\ At(p, "use")
    /\ LET b == keep[p] IN
       IF op[p] \in {"write", "full"} THEN
           /\ data' = [data EXCEPT ![b] = v]
           /\ b_dirt' = [b_dirt EXCEPT ![b] = TRUE]
           /\ latest' = [latest EXCEPT ![block[b]] = v]
       ELSE UNCHANGED <<data, b_dirt, latest>>
    /\ Goto(p, "brelse")
    /\ UNCHANGED <<block, b_count, b_lock, b_uptodate, free_list, deviceVars,
                   failed, localVars>>

\* Mutant: nobody is told.
WakesNobody == {}

BrelseWakes == {buffer_wait}

Brelse(p) ==
    /\ At(p, "brelse")
    /\ IF b_lock[keep[p]] THEN SleepOn(p, keep[p])
       ELSE /\ b_count' = [b_count EXCEPT ![keep[p]] = @ - 1]
            /\ keep' = [keep EXCEPT ![p] = None]
            /\ op' = [op EXCEPT ![p] = None]
            /\ pc' = [pc EXCEPT ![p] = "idle"]
            /\ cpu' = None
            /\ wait' = Awakened(BrelseWakes)
            /\ UNCHANGED <<block, b_lock, b_dirt, b_uptodate, data, free_list,
                           deviceVars, historyVars, want, bh, dev, i, rw>>
-----------------------------------------------------------------------------
(* The device and its interrupt. *)

\* The data move between the buffer and the disk.
Transfer(r) ==
    /\ request[r] # None /\ ~request[r].moved
    /\ LET b == request[r].bh IN
       IF request[r].cmd = "READ"
       THEN data' = [data EXCEPT ![b] = disk[block[b]]] /\ UNCHANGED disk
       ELSE disk' = [disk EXCEPT ![block[b]] = data[b]] /\ UNCHANGED data
    /\ request' = [request EXCEPT ![r].moved = TRUE]
    /\ UNCHANGED <<block, b_count, b_lock, b_dirt, b_uptodate, free_list, cpu, pc, wait,
                   localVars, historyVars>>

\* Mutant: the buffer is marked clean when the request ends.
EndRequestCleans(r, uptodate) ==
    /\ request[r] # None /\ uptodate /\ request[r].moved
    /\ LET b == request[r].bh IN
       /\ b_uptodate' = [b_uptodate EXCEPT ![b] = TRUE]
       /\ b_dirt' = [b_dirt EXCEPT ![b] = FALSE]
       /\ b_lock' = [b_lock EXCEPT ![b] = FALSE]
       /\ wait' = Awakened({b, wait_for_request})
    /\ request' = [request EXCEPT ![r] = None]
    /\ UNCHANGED <<block, b_count, data, free_list, disk, cpu, pc, localVars,
                   historyVars>>

\* end_request, from the device's interrupt.
EndRequest(r, uptodate) ==
    /\ request[r] # None
    /\ IF uptodate THEN request[r].moved ELSE Errors
    /\ LET b == request[r].bh IN
       /\ b_uptodate' = [b_uptodate EXCEPT ![b] = uptodate]
       /\ b_lock' = [b_lock EXCEPT ![b] = FALSE]
       /\ wait' = Awakened({b, wait_for_request})
       /\ failed' = IF ~uptodate /\ request[r].cmd = "WRITE"
                    THEN failed \cup {block[b]} ELSE failed
    /\ request' = [request EXCEPT ![r] = None]
    /\ UNCHANGED <<block, b_count, b_dirt, data, free_list, disk, cpu, pc, localVars,
                   latest>>
-----------------------------------------------------------------------------
Step(p) ==
    \/ Getblk(p) \/ Hashed(p) \/ Victim(p)
    \/ Sync(p) \/ Lock(p) \/ Slot(p)
    \/ Got(p) \/ ReadAhead(p) \/ Wait(p) \/ Brelse(p)
    \/ \E v \in Value : Use(p, v)

Disk(r) == Transfer(r) \/ \E uptodate \in BOOLEAN : EndRequest(r, uptodate)

Next ==
    \/ \E p \in Proc : Step(p) \/ \E o \in Ops, k, next \in Block : Start(p, o, k, next)
    \/ \E r \in Slots : Disk(r)

\* A process in the kernel gets the CPU again; the device serves its requests.
Fairness ==
    /\ \A p \in Proc : WF_vars(Step(p))
    /\ \A r \in Slots : WF_vars(Disk(r))

Spec == Init /\ [][Next]_vars /\ Fairness
-----------------------------------------------------------------------------
TypeOK ==
    /\ block \in [Buffer -> Block \cup {None}]
    /\ b_count \in [Buffer -> Nat]
    /\ b_lock \in [Buffer -> BOOLEAN]
    /\ b_dirt \in [Buffer -> BOOLEAN]
    /\ b_uptodate \in [Buffer -> BOOLEAN]
    /\ data \in [Buffer -> Value]
    /\ free_list \in [1..NB -> Buffer]
    /\ request \in [Slots -> {None} \cup Request]
    /\ disk \in [Block -> Value]
    /\ cpu \in Proc \cup {None}
    /\ pc \in [Proc -> {"idle", "getblk", "hashed", "victim", "sync", "lock", "slot",
                        "got", "wait", "use", "brelse"}]
    /\ wait \in [Proc -> Queue \cup {None}]
    /\ op \in [Proc -> Ops \cup {None}]
    /\ want \in [Proc -> Seq(Block)]
    /\ bh \in [Proc -> Buffer \cup {None}]
    /\ keep \in [Proc -> Buffer \cup {None}]
    /\ dev \in [Proc -> Device \cup {None}]
    /\ i \in [Proc -> Nat \ {0}]
    /\ rw \in [Proc -> {"READ", "WRITE", None}]
    /\ latest \in [Block -> Value]
    /\ failed \subseteq Block

\* "this buffer is the only one of it's kind" (buffer.c:244): no block is in the
\* cache twice, though getblk sleeps between looking for it and adding it.
OnlyOneOfItsKind ==
    \A b, c \in Buffer : block[b] = block[c] /\ block[b] # None => b = c

Keepers(b) == {p \in Proc : keep[p] = b}
Seekers(b) == {p \in Proc : bh[p] = b /\ pc[p] \in {"hashed", "got"}}

\* b_count is the number of processes that refer to the buffer, so that brelse
\* never frees a free buffer (buffer.c:261-262) and no reference is leaked.
CountIsReferences ==
    \A b \in Buffer : b_count[b] = Cardinality(Keepers(b)) + Cardinality(Seekers(b))

\* A buffer changes its block only when it is "unused (b_count=0), unlocked
\* (b_lock=0), and clean" (buffer.c:245), all the sleeping in between aside.
ReusedOnlyWhenFree ==
    [][\A b \in Buffer : block'[b] # block[b] =>
           b_count[b] = 0 /\ ~b_lock[b] /\ ~b_dirt[b]]_vars

InRequest(b) == {r \in Slots : request[r] # None /\ request[r].bh = b}
Locking(b) == {p \in Proc : pc[p] = "slot" /\ Target(p) = b}

OneOwner(b) ==
    /\ b_lock[b] <=> InRequest(b) # {} \/ Locking(b) # {}
    /\ InRequest(b) = {} \/ Locking(b) = {}
    /\ \A r, s \in InRequest(b) : r = s
    /\ \A p, q \in Locking(b) : p = q

\* A locked buffer has exactly one owner, the request it is in or the process
\* that is still looking for a slot: no lock is left behind, none given up early.
LockHasOneOwner == \A b \in Buffer : OneOwner(b)

\* A process that uses a buffer sees what was last written to the block, by
\* whomever, however often the block was dropped from the cache in between
\* (SystemProgramming/docs/01_file.md:7).
ReadsLatest ==
    \A p \in Proc :
        pc[p] = "use" /\ op[p] # "full" /\ block[keep[p]] \notin failed =>
            data[keep[p]] = latest[block[keep[p]]]

\* Nothing written is dropped: as long as no write has failed, the last value
\* written to a block is on the disk, on its way there, or in a dirty buffer.
NothingLost ==
    \A k \in Block \ failed :
        \/ disk[k] = latest[k]
        \/ \E b \in Buffer :
            /\ block[b] = k /\ data[b] = latest[k]
            /\ b_dirt[b] \/ \E r \in Slots :
                                /\ request[r] # None
                                /\ request[r].bh = b /\ request[r].cmd = "WRITE"

\* Nobody is forgotten on a queue and no group of processes waits for itself:
\* as long as somebody is in the kernel, calls go on returning.
CallsComplete ==
    \/ []<>(\A p \in Proc : pc[p] = "idle")
    \/ []<><<\E p \in Proc : pc[p] # "idle" /\ pc'[p] = "idle">>_vars
=============================================================================
