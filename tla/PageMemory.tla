----------------------------- MODULE PageMemory -----------------------------
(***************************************************************************)
(* The pages of user memory, mm/memory.c: reference counts (mem_map), page *)
(* tables, copying on write after fork, loading on demand, and sharing a   *)
(* page with another process that runs the same program.                   *)
(*                                                                         *)
(* An address is a page table and an entry of it; a page's contents are    *)
(* one value.  The kernel sleeps in the middle of do_no_page (bread_page), *)
(* between a system call's verify_area and its write to the caller's       *)
(* memory, and in do_execve when it closes files.  In kernel mode the      *)
(* processor ignores write protection, hence verify_area.                  *)
(***************************************************************************)
EXTENDS Naturals, FiniteSets, FiniteSetsExt

CONSTANTS Proc,
          Frame,          \* physical pages
          Table, Entry,   \* page tables of a process, entries of a table
          Program,        \* the addresses below end_data
          Executable,
          Value,          \* what processes write
          Calls,          \* the values of calls
          None

Address == Table \X Entry

\* A page table entry that is present.
Pte == [frame : Frame, w : BOOLEAN, dirty : BOOLEAN]

ASSUME FiniteAssumption ==
    IsFiniteSet(Proc) /\ IsFiniteSet(Frame) /\ IsFiniteSet(Table) /\ IsFiniteSet(Entry)
ASSUME NoneAssumption ==
    None \notin Frame /\ None \notin Address /\ None \notin Pte /\ None \notin Executable

VARIABLES
    mem_map,    \* how often each frame is used
    memory,     \* what is in it
    dir,        \* the page directory: where each process has its tables
    pte,        \* page table entries, [frame, w, dirty] or None
    executable, \* the program of each process
    state,      \* free, run, load (in bread_page), exec (in sys_close)
    at, held,   \* the address and the frame of a load
    buffer,     \* where a system call is going to write
    kernel,     \* frames the rest of the kernel has
    calls,      \* the system calls that programs make
    view        \* history: what each process should find in its memory

vars == <<mem_map, memory, dir, pte, executable, state, at, held, buffer, kernel, calls,
          view>>

NoTables == [t \in Table |-> None]
NoPages == [a \in Address |-> None]
Blank == [a \in Address |-> 0]

Init ==
    /\ mem_map = [f \in Frame |-> 0]
    /\ memory = [f \in Frame |-> 0]
    /\ dir = [p \in Proc |-> NoTables]
    /\ pte = [p \in Proc |-> NoPages]
    /\ executable = [p \in Proc |-> None]
    /\ state = [p \in Proc |-> "run"]
    /\ at = [p \in Proc |-> None]
    /\ held = at
    /\ buffer = at
    /\ kernel = {}
    /\ calls \in Calls
    /\ view = [p \in Proc |-> Blank]
-----------------------------------------------------------------------------
Free == {f \in Frame : mem_map[f] = 0}

Present(p, a) == pte[p][a] # None

\* p is in user mode; p is about to use address a, in user mode or in a call.
InUser(p) == state[p] = "run" /\ buffer[p] = None
Uses(p, a) == state[p] = "run" /\ buffer[p] \in {None, a}

\* The addresses of p that lie in frame f; how often p uses f, with its tables
\* and what it loads.
Pages(p, f) == {a \in Address : Present(p, a) /\ pte[p][a].frame = f}
Refs(p, f) ==
    Cardinality(Pages(p, f)) + Cardinality({t \in Table : dir[p][t] = f})
        + (IF held[p] = f THEN 1 ELSE 0)

\* mem_map after free_page_tables of all that p has (and free_page of what it loads).
Released(p) == [f \in Frame |-> mem_map[f] - Refs(p, f)]

\* What is left in memory: a free page counts as zeroed, which get_free_page does
\* before anybody sees it.
Cleared(p) == [f \in Frame |-> IF Released(p)[f] = 0 THEN 0 ELSE memory[f]]

\* do_exit, with the parent's wait: the process is gone.  Also from oom().
Exits(p) ==
    /\ mem_map' = Released(p)
    /\ dir' = [dir EXCEPT ![p] = NoTables]
    /\ pte' = [pte EXCEPT ![p] = NoPages]
    /\ executable' = [executable EXCEPT ![p] = None]
    /\ state' = [state EXCEPT ![p] = "free"]
    /\ at' = [at EXCEPT ![p] = None]
    /\ held' = [held EXCEPT ![p] = None]
    /\ buffer' = [buffer EXCEPT ![p] = None]
    /\ view' = [view EXCEPT ![p] = Blank]
    /\ memory' = Cleared(p)
    /\ UNCHANGED kernel

\* The frames the table for address a may be in: where it is, or one of frames.
TableIn(p, a, frames) == IF dir[p][a[1]] = None THEN frames ELSE {dir[p][a[1]]}

\* An entry for a in table t, for a frame f that then has n uses.
Maps(p, a, t, f, n) ==
    /\ mem_map' = [mem_map EXCEPT ![t] = 1, ![f] = n]
    /\ dir' = [dir EXCEPT ![p][a[1]] = t]

Writable(f) == [frame |-> f, w |-> TRUE, dirty |-> FALSE]
-----------------------------------------------------------------------------
(* Write protection: un_wp_page, from do_wp_page and write_verify *)

\* Mutant: a shared page is taken for an unshared one.
AloneAnyway(f) == TRUE

Alone(f) == mem_map[f] = 1

\* Mutant: the old page keeps its count.
CopiedKeeping(old, f) == [mem_map EXCEPT ![f] = 1]

\* mem_map when f takes over from a page that others go on using.
Copied(old, f) == [mem_map EXCEPT ![old] = @ - 1, ![f] = 1]

un_wp_page(p, a) ==
    LET old == pte[p][a].frame IN
    IF Alone(old)
    THEN pte' = [pte EXCEPT ![p][a].w = TRUE] /\ UNCHANGED <<mem_map, memory>>
    ELSE \E f \in Free :
            /\ mem_map' = Copied(old, f)
            /\ pte' = [pte EXCEPT ![p][a] = Writable(f)]
            /\ memory' = [memory EXCEPT ![f] = memory[old]]

NoRoomToCopy(p, a) == ~Alone(pte[p][a].frame) /\ Free = {}

\* do_wp_page, on a write in user mode, which is then tried again.
DoWpPage(p, a) ==
    /\ InUser(p) /\ Present(p, a) /\ ~pte[p][a].w
    /\ \/ /\ un_wp_page(p, a)
          /\ UNCHANGED <<dir, executable, state, at, held, buffer, kernel, view>>
       \/ NoRoomToCopy(p, a) /\ Exits(p)

\* The processor sets the dirty bit.
Writes(p, a, v) ==
    /\ memory' = [memory EXCEPT ![pte[p][a].frame] = v]
    /\ pte' = [pte EXCEPT ![p][a].dirty = TRUE]
    /\ view' = [view EXCEPT ![p][a] = v]

UserWrite(p, a, v) ==
    /\ InUser(p) /\ Present(p, a) /\ pte[p][a].w
    /\ Writes(p, a, v)
    /\ UNCHANGED <<mem_map, dir, executable, state, at, held, buffer, kernel>>

\* A system call with a buffer: verify_area, write_verify.
VerifyArea(p, a) ==
    /\ "read" \in calls
    /\ InUser(p)
    /\ \/ /\ IF Present(p, a) /\ ~pte[p][a].w
             THEN un_wp_page(p, a)
             ELSE UNCHANGED <<mem_map, pte, memory>>
          /\ buffer' = [buffer EXCEPT ![p] = a]
          /\ UNCHANGED <<dir, executable, state, at, held, kernel, view>>
       \/ Present(p, a) /\ ~pte[p][a].w /\ NoRoomToCopy(p, a) /\ Exits(p)

\* Later it writes (put_fs_byte): protected or not.
KernelWrite(p, v) ==
    LET a == buffer[p] IN
    /\ state[p] = "run" /\ a # None
    /\ Present(p, a)
    /\ Writes(p, a, v)
    /\ buffer' = [buffer EXCEPT ![p] = None]
    /\ UNCHANGED <<mem_map, dir, executable, state, at, held, kernel>>
-----------------------------------------------------------------------------
(* Absent pages: do_no_page *)

OfProgram(p, a) == executable[p] # None /\ a \in Program

\* The processes that share_page can get the page from.
Sharers(p, a) ==
    {q \in Proc \ {p} : /\ executable[q] = executable[p]
                        /\ Present(q, a)
                        /\ ~pte[q][a].dirty}

\* What is left when the frames run out: get_empty_page, do_no_page and
\* try_to_share give back what they have and call oom().
OutOfMemory(p, a) ==
    LET table == IF dir[p][a[1]] = None THEN 1 ELSE 0
        new == IF OfProgram(p, a) /\ Sharers(p, a) # {} THEN table
               ELSE IF OfProgram(p, a) THEN 1 ELSE 1 + table
    IN
    /\ Uses(p, a) /\ ~Present(p, a)
    /\ Cardinality(Free) < new
    /\ Exits(p)

GetEmptyPage(p, a) ==
    /\ Uses(p, a) /\ ~Present(p, a) /\ ~OfProgram(p, a)
    /\ \E f \in Free : \E t \in TableIn(p, a, Free \ {f}) :
        /\ Maps(p, a, t, f, 1)
        /\ pte' = [pte EXCEPT ![p][a] = Writable(f)]
        /\ memory' = [memory EXCEPT ![f] = 0]
    /\ UNCHANGED <<executable, state, at, held, buffer, kernel, view>>

\* The entry is write-protected in q and copied to p.
SharedBy(p, q, a) ==
    LET e == [pte[q][a] EXCEPT !.w = FALSE] IN [pte EXCEPT ![q][a] = e, ![p][a] = e]

SharePage(p, a) ==
    /\ Uses(p, a) /\ ~Present(p, a) /\ OfProgram(p, a)
    /\ \E q \in Sharers(p, a) : \E t \in TableIn(p, a, Free) :
        /\ Maps(p, a, t, pte[q][a].frame, mem_map[pte[q][a].frame] + 1)
        /\ pte' = SharedBy(p, q, a)
    /\ UNCHANGED <<memory, executable, state, at, held, buffer, kernel, view>>

\* A page is taken and bread_page sleeps.
StartLoad(p, a) ==
    /\ Uses(p, a) /\ ~Present(p, a) /\ OfProgram(p, a) /\ Sharers(p, a) = {}
    /\ \E f \in Free :
        /\ mem_map' = [mem_map EXCEPT ![f] = 1]
        /\ held' = [held EXCEPT ![p] = f]
    /\ at' = [at EXCEPT ![p] = a]
    /\ state' = [state EXCEPT ![p] = "load"]
    /\ UNCHANGED <<memory, dir, pte, executable, buffer, kernel, view>>

EndLoad(p) ==
    LET a == at[p]
        f == held[p]
    IN
    /\ state[p] = "load"
    /\ \/ /\ \E t \in TableIn(p, a, Free) : Maps(p, a, t, f, mem_map[f])
          /\ pte' = [pte EXCEPT ![p][a] = Writable(f)]
          /\ memory' = [memory EXCEPT ![f] = executable[p]]
          /\ state' = [state EXCEPT ![p] = "run"]
          /\ at' = [at EXCEPT ![p] = None]
          /\ held' = [held EXCEPT ![p] = None]
          /\ UNCHANGED <<executable, buffer, kernel, view>>
       \/ dir[p][a[1]] = None /\ Free = {} /\ Exits(p)
-----------------------------------------------------------------------------
(* fork, exec, exit *)

\* p's entries once the pages of these tables are write-protected.
Protected(p, tables) ==
    [a \in Address |-> IF a[1] \in tables /\ Present(p, a)
                       THEN [pte[p][a] EXCEPT !.w = FALSE] ELSE pte[p][a]]

Tables(p) == {t \in Table : dir[p][t] # None}

\* copy_mem: copy_page_tables for a new process q.
Fork(p, q) ==
    /\ "fork" \in calls
    /\ InUser(p) /\ state[q] = "free"
    /\ \E new \in [Tables(p) -> Free] :
        /\ \A t, u \in Tables(p) : new[t] = new[u] => t = u
        /\ dir' = [dir EXCEPT ![q] = [t \in Table |-> IF t \in Tables(p) THEN new[t] ELSE None]]
        /\ mem_map' = [f \in Frame |->
                          IF \E t \in Tables(p) : new[t] = f THEN 1
                          ELSE mem_map[f] + Cardinality(Pages(p, f))]
    /\ pte' = [pte EXCEPT ![p] = Protected(p, Table),
                          ![q] = [a \in Address |-> IF Present(p, a)
                                     THEN [pte[p][a] EXCEPT !.w = FALSE] ELSE None]]
    /\ executable' = [executable EXCEPT ![q] = executable[p]]
    /\ state' = [state EXCEPT ![q] = "run"]
    /\ view' = [view EXCEPT ![q] = view[p]]
    /\ UNCHANGED <<memory, at, held, buffer, kernel>>

\* No frame for one of the tables: copy_mem frees what it has copied.  The pages
\* of the tables that were copied stay write-protected in the parent.
ForkFails(p) ==
    /\ "fork" \in calls
    /\ InUser(p) /\ \E q \in Proc : state[q] = "free"
    /\ Cardinality(Free) < Cardinality(Tables(p))
    /\ \E copied \in kSubset(Cardinality(Free), Tables(p)) :
           pte' = [pte EXCEPT ![p] = Protected(p, copied)]
    /\ UNCHANGED <<mem_map, memory, dir, executable, state, at, held, buffer, kernel, view>>

\* do_execve frees the old memory; the new is loaded on demand.
NewMemory(p, e) ==
    /\ mem_map' = Released(p)
    /\ dir' = [dir EXCEPT ![p] = NoTables]
    /\ pte' = [pte EXCEPT ![p] = NoPages]
    /\ state' = [state EXCEPT ![p] = "run"]
    /\ view' = [view EXCEPT ![p] = [a \in Address |-> IF a \in Program THEN e ELSE 0]]
    /\ memory' = Cleared(p)
    /\ UNCHANGED <<at, held, buffer, kernel>>

Exec(p, e) ==
    /\ "exec" \in calls
    /\ InUser(p)
    /\ executable' = [executable EXCEPT ![p] = e]
    /\ NewMemory(p, e)

\* With a file to be closed on exec, sys_close sleeps after the new executable
\* has been set and before the old memory is freed.
ExecCloses(p, e) ==
    /\ "cloexec" \in calls
    /\ InUser(p)
    /\ executable' = [executable EXCEPT ![p] = e]
    /\ state' = [state EXCEPT ![p] = "exec"]
    /\ UNCHANGED <<mem_map, memory, dir, pte, at, held, buffer, kernel, view>>

ExecFrees(p) ==
    /\ state[p] = "exec"
    /\ NewMemory(p, executable[p])
    /\ UNCHANGED executable

Exit(p) == InUser(p) /\ Exits(p)

\* Pages for pipes, task structures and arguments come and go.
KernelTakes ==
    /\ \E f \in Free :
        /\ kernel' = kernel \cup {f}
        /\ mem_map' = [mem_map EXCEPT ![f] = 1]
    /\ UNCHANGED <<memory, dir, pte, executable, state, at, held, buffer, view>>

KernelFrees ==
    /\ \E f \in kernel :
        /\ kernel' = kernel \ {f}
        /\ mem_map' = [mem_map EXCEPT ![f] = @ - 1]
    /\ UNCHANGED <<memory, dir, pte, executable, state, at, held, buffer, view>>

Next ==
    /\ \/ \E p \in Proc, a \in Address :
           \/ DoWpPage(p, a) \/ VerifyArea(p, a)
           \/ OutOfMemory(p, a) \/ GetEmptyPage(p, a) \/ SharePage(p, a) \/ StartLoad(p, a)
           \/ \E v \in Value : UserWrite(p, a, v)
       \/ \E p \in Proc, v \in Value : KernelWrite(p, v)
       \/ \E p \in Proc : EndLoad(p) \/ ForkFails(p) \/ ExecFrees(p) \/ Exit(p)
       \/ \E p, q \in Proc : Fork(p, q)
       \/ \E p \in Proc, e \in Executable : Exec(p, e) \/ ExecCloses(p, e)
       \/ KernelTakes \/ KernelFrees
    /\ UNCHANGED calls

Spec == Init /\ [][Next]_vars
-----------------------------------------------------------------------------
\* mem_map counts exactly the entries, tables, loads and kernel pages in a frame:
\* no page is lost, none is given out twice, whatever fails half-way (free_page
\* does not panic, put_page does not complain that mem_map disagrees).
CountIsUses ==
    \A f \in Frame :
        mem_map[f] = Cardinality({u \in Proc \X Address : u[2] \in Pages(u[1], f)})
                        + Cardinality({u \in Proc \X Table : dir[u[1]][u[2]] = f})
                        + Cardinality({p \in Proc : held[p] = f})
                        + (IF f \in kernel THEN 1 ELSE 0)

\* A process finds in its memory what it, or its parent before the fork, wrote
\* there, or else its program or zeroes: as long as programs fork and do not exec
\* (copying on write alone) or exec and do not fork (sharing alone).  For the two
\* together see SharesOnlyTheProgram, and for exec with files to close.
OwnMemory ==
    calls \subseteq {"fork", "read"} \/ calls \subseteq {"exec"} =>
    \A p \in Proc, a \in Address :
        state[p] # "exec" /\ Present(p, a) => memory[pte[p][a].frame] = view[p][a]

\* "checks the page ... to see if it exists, and if it is clean. If so, share it"
\* and "this assumes that ... they share the same executable" (memory.c:285-290):
\* a shared page has what a load from the executable would give.
SharesOnlyTheProgram ==
    [][\A p \in Proc, a \in Address :
          /\ state[p] = "run" /\ ~Present(p, a) /\ pte'[p][a] # None
          /\ mem_map[pte'[p][a].frame] > 0
          => memory[pte'[p][a].frame] = executable[p]]_vars
=============================================================================
