-------------------------------- MODULE Pipe --------------------------------
(***************************************************************************)
(* A pipe, fs/pipe.c: a page used as a ring by processes that read and     *)
(* write any number of bytes, sleep while it is empty or full, and close   *)
(* their end (sys_close, and iput of fs/inode.c for the pipe's inode).     *)
(*                                                                         *)
(* The readers share one open file and the writers another, as after a     *)
(* fork; each process has one end.  The kernel is not preempted: who runs  *)
(* in it (cpu) goes on until it sleeps or returns.  The copy to or from    *)
(* the caller's memory may meet a page that has to be read in: if that can *)
(* happen (faults), the caller may sleep between moving the tail or head   *)
(* and copying.                                                            *)
(***************************************************************************)
EXTENDS Naturals, Sequences, SequencesExt, FiniteSets, FiniteSetsExt

CONSTANTS Reader, Writer,
          PAGE_SIZE,
          Byte,
          MaxCount,   \* the largest count of a call, for TLC
          Faults,     \* the values of faults
          None

Proc == Reader \cup Writer

VARIABLES
    page,       \* the page at i_size
    head, tail, \* PIPE_HEAD, PIPE_TAIL
    i_count,    \* ends that are open
    cpu, pc,
    asleep,     \* on i_wait
    count,      \* what is left of a call
    got,        \* what the call has read
    sent,       \* what the call has sent
    faults,     \* the processes whose copies may sleep in a page fault
    copy,       \* a copy to be done: [from, bytes]
    sigpipe     \* the last write was ended by SIGPIPE

vars == <<page, head, tail, i_count, cpu, pc, asleep, count, got, sent, faults,
          copy, sigpipe>>

Init ==
    /\ page = [n \in 0..(PAGE_SIZE - 1) |-> 0]
    /\ head = 0 /\ tail = 0
    /\ i_count = 2
    /\ cpu = None
    /\ pc = [p \in Proc |-> "user"]
    /\ asleep = [p \in Proc |-> FALSE]
    /\ count = [p \in Proc |-> 0]
    /\ got = [p \in Reader |-> <<>>]
    /\ sent = [p \in Writer |-> <<>>]
    /\ copy = [p \in Proc |-> None]
    /\ sigpipe = [p \in Writer |-> FALSE]
    /\ faults \in Faults
-----------------------------------------------------------------------------
PIPE_SIZE == (head + PAGE_SIZE - tail) % PAGE_SIZE

At(p, l) == pc[p] = l /\ ~asleep[p] /\ cpu \in {None, p}

Goto(p, l, c) == pc' = [pc EXCEPT ![p] = l] /\ cpu' = c

\* The sleepers after wake_up.
WakeAll == [p \in Proc |-> FALSE]

\* The call's variables are gone.
Forgotten(p) ==
    /\ count' = [count EXCEPT ![p] = 0]
    /\ got' = [q \in Reader |-> IF q = p THEN <<>> ELSE got[q]]
    /\ sent' = [q \in Writer |-> IF q = p THEN <<>> ELSE sent[q]]

\* Mutant: the sleepers are left alone.
LeavesSilently(p) == Goto(p, "user", None) /\ UNCHANGED asleep /\ Forgotten(p)

\* wake_up(&inode->i_wait); return.
Leaves(p) == Goto(p, "user", None) /\ asleep' = WakeAll /\ Forgotten(p)

\* wake_up(&inode->i_wait); sleep_on(&inode->i_wait).
WakesAndSleeps(p) ==
    /\ asleep' = [WakeAll EXCEPT ![p] = TRUE]
    /\ cpu' = None
    /\ UNCHANGED <<pc, count, got, sent>>

\* Mutant: the end of the page is not a bound.
ChunkOfAnySize(pos, size, n) == Min({n, size})

\* chars: what is left of the page, of the call, and of the data or the room.
Chunk(pos, size, n) == Min({PAGE_SIZE - pos, n, size})

Advanced(pos, chars) == (pos + chars) % PAGE_SIZE

Start(p, l, n) ==
    /\ At(p, "user") /\ cpu = None
    /\ Goto(p, l, p)
    /\ count' = [count EXCEPT ![p] = n]
    /\ UNCHANGED <<page, head, tail, i_count, asleep, copy, got, sent>>
-----------------------------------------------------------------------------
(* read_pipe *)

StartRead(p, n) == Start(p, "read", n) /\ UNCHANGED sigpipe

\* Nothing to read: return if there are no writers, or else sleep.
ReadWaits(p) ==
    /\ At(p, "read") /\ count[p] > 0 /\ PIPE_SIZE = 0
    /\ IF i_count # 2 THEN Leaves(p) ELSE WakesAndSleeps(p)
    /\ UNCHANGED <<page, head, tail, i_count, copy, sigpipe>>

\* The tail moves, then the bytes are copied; here or, if the caller's page has
\* to be read in, in CopyOut.
ReadChunk(p) ==
    LET chars == Chunk(tail, PIPE_SIZE, count[p])
        bytes == [n \in 1..chars |-> page[tail + n - 1]]
    IN
    /\ At(p, "read") /\ count[p] > 0 /\ PIPE_SIZE # 0
    /\ count' = [count EXCEPT ![p] = @ - chars]
    /\ tail' = Advanced(tail, chars)
    /\ \/ /\ got' = [got EXCEPT ![p] = @ \o bytes]
          /\ Goto(p, "read", p)
          /\ UNCHANGED copy
       \/ /\ p \in faults
          /\ copy' = [copy EXCEPT ![p] = [from |-> tail, bytes |-> bytes]]
          /\ Goto(p, "copyout", None)
          /\ UNCHANGED got
    /\ UNCHANGED <<page, head, i_count, asleep, sent, sigpipe>>

CopyOut(p) ==
    /\ At(p, "copyout")
    /\ got' = [got EXCEPT ![p] = @ \o [n \in 1..Len(copy[p].bytes) |->
                                           page[copy[p].from + n - 1]]]
    /\ copy' = [copy EXCEPT ![p] = None]
    /\ Goto(p, "read", p)
    /\ UNCHANGED <<page, head, tail, i_count, asleep, count, sent, sigpipe>>

ReadReturns(p) ==
    /\ At(p, "read") /\ count[p] = 0
    /\ Leaves(p)
    /\ UNCHANGED <<page, head, tail, i_count, copy, sigpipe>>
-----------------------------------------------------------------------------
(* write_pipe *)

StartWrite(p, n) == Start(p, "write", n) /\ sigpipe' = [sigpipe EXCEPT ![p] = FALSE]

\* No room: SIGPIPE if there are no readers, or else sleep.
WriteWaits(p) ==
    /\ At(p, "write") /\ count[p] > 0 /\ PIPE_SIZE = PAGE_SIZE - 1
    /\ IF i_count # 2
       THEN sigpipe' = [sigpipe EXCEPT ![p] = TRUE] /\ Leaves(p)
       ELSE UNCHANGED sigpipe /\ WakesAndSleeps(p)
    /\ UNCHANGED <<page, head, tail, i_count, copy>>

\* The page with bytes from position pos on.
Filled(pos, bytes) ==
    [n \in 0..(PAGE_SIZE - 1) |->
        IF n >= pos /\ n < pos + Len(bytes) THEN bytes[n - pos + 1] ELSE page[n]]

\* What is written; with faults no property looks at it.
Written == IF faults = {} THEN Byte ELSE {CHOOSE b \in Byte : TRUE}

\* The head moves, then the bytes are copied; here or in CopyIn.
WriteChunk(p) ==
    LET chars == Chunk(head, PAGE_SIZE - 1 - PIPE_SIZE, count[p]) IN
    /\ At(p, "write") /\ count[p] > 0 /\ PIPE_SIZE # PAGE_SIZE - 1
    /\ count' = [count EXCEPT ![p] = @ - chars]
    /\ head' = Advanced(head, chars)
    /\ \E bytes \in [1..chars -> Written] :
        /\ sent' = [sent EXCEPT ![p] = @ \o bytes]
        /\ \/ /\ page' = Filled(head, bytes)
              /\ Goto(p, "write", p)
              /\ UNCHANGED copy
           \/ /\ p \in faults
              /\ copy' = [copy EXCEPT ![p] = [from |-> head, bytes |-> bytes]]
              /\ Goto(p, "copyin", None)
              /\ UNCHANGED page
    /\ UNCHANGED <<tail, i_count, asleep, got, sigpipe>>

CopyIn(p) ==
    /\ At(p, "copyin")
    /\ page' = Filled(copy[p].from, copy[p].bytes)
    /\ copy' = [copy EXCEPT ![p] = None]
    /\ Goto(p, "write", p)
    /\ UNCHANGED <<head, tail, i_count, asleep, count, got, sent, sigpipe>>

WriteReturns(p) ==
    /\ At(p, "write") /\ count[p] = 0
    /\ Leaves(p)
    /\ UNCHANGED <<page, head, tail, i_count, copy, sigpipe>>
-----------------------------------------------------------------------------
\* sys_close of p's end.  The last process of that end has iput wake everybody.
Close(p) ==
    LET end == IF p \in Reader THEN Reader ELSE Writer IN
    /\ At(p, "user") /\ cpu = None
    /\ pc' = [pc EXCEPT ![p] = "closed"]
    /\ IF \A q \in end \ {p} : pc[q] = "closed"
       THEN i_count' = i_count - 1 /\ asleep' = WakeAll
       ELSE UNCHANGED <<i_count, asleep>>
    /\ UNCHANGED <<page, head, tail, cpu, count, got, sent, copy, sigpipe>>

\* sys_pipe, on a fresh page, and forks, once the old pipe is gone.
SysPipe ==
    /\ i_count = 0
    /\ i_count' = 2
    /\ page' = [n \in 0..(PAGE_SIZE - 1) |-> 0]
    /\ head' = 0 /\ tail' = 0
    /\ pc' = [p \in Proc |-> "user"]
    /\ UNCHANGED <<cpu, asleep, count, got, sent, copy, sigpipe, faults>>

Kernel(p) ==
    /\ \/ p \in Reader /\ (ReadWaits(p) \/ ReadChunk(p) \/ CopyOut(p) \/ ReadReturns(p))
       \/ p \in Writer /\ (WriteWaits(p) \/ WriteChunk(p) \/ CopyIn(p) \/ WriteReturns(p))
    /\ UNCHANGED faults

User(p) ==
    /\ \/ p \in Reader /\ \E n \in 1..MaxCount : StartRead(p, n)
       \/ p \in Writer /\ \E n \in 1..MaxCount : StartWrite(p, n)
       \/ Close(p)
    /\ UNCHANGED faults

Next ==
    \/ \E p \in Proc : Kernel(p) \/ User(p)
    \/ SysPipe

\* A process that can go on in the kernel does.
Spec == Init /\ [][Next]_vars /\ \A p \in Proc : WF_vars(Kernel(p))
-----------------------------------------------------------------------------
\* The bytes in the ring, from the tail to the head.
Contents == [n \in 1..PIPE_SIZE |-> page[(tail + n - 1) % PAGE_SIZE]]

Queue == INSTANCE Fifo WITH
             items <- IF faults # {} THEN <<>> ELSE Contents,
             got <- IF faults # {} THEN [p \in Reader |-> <<>>] ELSE got,
             sent <- IF faults # {} THEN [p \in Writer |-> <<>>] ELSE sent,
             Capacity <- PAGE_SIZE - 1

\* Unless a copy faults (the mapping says nothing of that case),
\* read_pipe and write_pipe implement a queue of PAGE_SIZE - 1 bytes: positions
\* that wrap around, chunks cut at the end of the page and several readers and
\* writers never lose, repeat or reorder a byte.
ImplementsFifo == Queue!Spec

\* Nobody sleeps on for whom there is something to do: data or no writer for a
\* reader, room or no reader for a writer (pipe.c wakes up late, not at each chunk).
NobodyForgotten ==
    /\ \A p \in Reader : pc[p] = "read" /\ asleep[p] /\ (PIPE_SIZE > 0 \/ i_count # 2)
                            ~> ~asleep[p]
    /\ \A p \in Writer : pc[p] = "write" /\ asleep[p]
                            /\ (PIPE_SIZE < PAGE_SIZE - 1 \/ i_count # 2)
                            ~> ~asleep[p]

=============================================================================
