-------------------------- MODULE OwnMemoryProofs --------------------------
(***************************************************************************)
(* For any number of processes, frames, tables and entries, a process      *)
(* finds in its memory what it should.                                     *)
(*                                                                         *)
(* The inductive invariant, MInv: a page has what its process should find, *)
(* and whoever can write it is alone in its frame.  The code knows that    *)
(* only by mem_map being 1, so all of it rests on the counts, CInv         *)
(* (AloneIn).                                                              *)
(***************************************************************************)
EXTENDS PageMemoryProofs


-----------------------------------------------------------------------------
(* What is in memory *)

ForkOnly == calls \subseteq {"fork", "read"}
ExecOnly == calls \subseteq {"exec"}

\* What a process finds where it has not been: its program or zeroes.
Untouched(p, a) == IF OfProgram(p, a) THEN executable[p] ELSE 0

\* A page has what its process should find, and who can write it is alone in it.
\* With sharing, a protected page has not been written since it was loaded.
PageOK(p, a) ==
    /\ Present(p, a) =>
          /\ memory[FrameAt(p, a)] = view[p][a]
          /\ pte[p][a].w => mem_map[FrameAt(p, a)] = 1
          /\ ExecOnly /\ ~pte[p][a].w => ~pte[p][a].dirty
          /\ ExecOnly /\ OfProgram(p, a) /\ ~pte[p][a].dirty => memory[FrameAt(p, a)] = executable[p]
    /\ ~Present(p, a) => view[p][a] = Untouched(p, a)

\* A system call only writes where the process itself may.
ProcOK(p) ==
    /\ state[p] # "exec"
    /\ state[p] = "load" => OfProgram(p, at[p])
    /\ state[p] = "free" => buffer[p] = None
    /\ ForkOnly => executable[p] = None
    /\ ForkOnly => \A b \in Address : buffer[p] = b /\ Present(p, b) => pte[p][b].w
    /\ ExecOnly => buffer[p] = None

OInv == (\A p \in Proc, a \in Address : PageOK(p, a)) /\ (\A p \in Proc : ProcOK(p))

MInv == CInv /\ (ForkOnly \/ ExecOnly => OInv)

\* Who is alone in a frame.
LEMMA AloneIn ==
    ASSUME CInv, NEW p \in Proc, NEW a \in Address, Present(p, a), mem_map[FrameAt(p, a)] = 1
    PROVE  \A q \in Proc, b \in Address : FrameAt(q, b) = FrameAt(p, a) => q = p /\ b = a
<1>1. PICK f \in Frame : f = FrameAt(p, a)
  BY ZenonT(60), PageUsed
<1>2. MTypeOK /\ CountIsUses
  BY ZenonT(60) DEF CInv
<1>3. <<p, a>> \in Mapped(f)
  BY ZenonT(60), <1>1, <1>2, FrameType
<1>4. Mapped(f) = {<<p, a>>}
  BY ZenonT(60), <1>1, <1>2, <1>3, OneUse
<1>5. ASSUME NEW q \in Proc, NEW b \in Address, FrameAt(q, b) = f PROVE q = p /\ b = a
  <2>1. <<q, b>> \in Mapped(f)
    BY ZenonT(60), <1>2, <1>5, FrameType
  <2>2. <<q, b>> = <<p, a>>
    BY ZenonT(60), <1>4, <2>1
  <2> QED
    BY SMTT(60), <2>2
<1> QED
  BY ZenonT(60), <1>1, <1>5

\* How a page and a process stay in order.
LEMMA PageKept ==
    ASSUME NEW q \in Proc, NEW b \in Address, PageOK(q, b), calls' = calls, pte'[q][b] = pte[q][b],
           view'[q][b] = view[q][b], executable'[q] = executable[q],
           Present(q, b) => memory'[FrameAt(q, b)] = memory[FrameAt(q, b)],
           Present(q, b) /\ mem_map[FrameAt(q, b)] = 1 => mem_map'[FrameAt(q, b)] = 1
    PROVE  PageOK(q, b)'
<1>1. (Present(q, b)' <=> Present(q, b)) /\ FrameAt(q, b)' = FrameAt(q, b)
  BY SMTT(60) DEF Present, FrameAt
<1>2. (ExecOnly' <=> ExecOnly) /\ (OfProgram(q, b)' <=> OfProgram(q, b)) /\ Untouched(q, b)' = Untouched(q, b)
  BY ZenonT(60) DEF ExecOnly, OfProgram, Untouched
<1>3. CASE Present(q, b)
  <2>1. /\ memory'[FrameAt(q, b)] = view'[q][b]
        /\ pte'[q][b].w => mem_map'[FrameAt(q, b)] = 1
        /\ ExecOnly /\ ~pte'[q][b].w => ~pte'[q][b].dirty
        /\ ExecOnly /\ OfProgram(q, b) /\ ~pte'[q][b].dirty => memory'[FrameAt(q, b)] = executable'[q]
    BY ZenonT(60), <1>3 DEF PageOK
  <2> QED
    BY ZenonT(60), <1>1, <1>2, <1>3, <2>1 DEF PageOK
<1>4. CASE ~Present(q, b)
  <2>1. view'[q][b] = Untouched(q, b)
    BY ZenonT(60), <1>4 DEF PageOK
  <2> QED
    BY ZenonT(60), <1>1, <1>2, <1>4, <2>1 DEF PageOK
<1> QED
  BY ZenonT(60), <1>3, <1>4

LEMMA ProcKept ==
    ASSUME NEW q \in Proc, ProcOK(q), calls' = calls, state'[q] = state[q], at'[q] = at[q],
           executable'[q] = executable[q], buffer'[q] = buffer[q],
           \A b \in Address : pte'[q][b] = pte[q][b]
    PROVE  ProcOK(q)'
<1>1. (ForkOnly' <=> ForkOnly) /\ (ExecOnly' <=> ExecOnly)
  BY ZenonT(60) DEF ForkOnly, ExecOnly
<1>2. /\ state'[q] # "exec"
      /\ state'[q] = "load" => OfProgram(q, at[q])'
      /\ state'[q] = "free" => buffer'[q] = None
      /\ ForkOnly => executable'[q] = None
      /\ ExecOnly => buffer'[q] = None
  BY ZenonT(60) DEF ProcOK, OfProgram
<1>3. ForkOnly => \A b \in Address : buffer'[q] = b /\ Present(q, b)' => pte'[q][b].w
  BY ZenonT(60) DEF ProcOK, Present
<1> QED
  BY ZenonT(60), <1>1, <1>2, <1>3 DEF ProcOK, OfProgram

LEMMA ProcIdle ==
    ASSUME NEW q \in Proc, state'[q] = "run" \/ state'[q] = "free", buffer'[q] = None, ForkOnly' => executable'[q] = None
    PROVE  ProcOK(q)'
<1>1. state'[q] # "exec" /\ state'[q] # "load"
  BY SMTT(60)
<1>2. \A b \in Address : buffer'[q] # b
  BY ZenonT(60), NoneAssumption
<1> QED
  BY ZenonT(60), <1>1, <1>2 DEF ProcOK

\* p gives up its memory.
LEMMA ReleasedKept ==
    ASSUME CInv, OInv, NEW p \in Proc, mem_map' = Released(p), dir' = [dir EXCEPT ![p] = NoTables],
           pte' = [pte EXCEPT ![p] = NoPages], held' = [held EXCEPT ![p] = None], kernel' = kernel,
           memory' = Cleared(p), calls' = calls,
           NEW q \in Proc, q # p, NEW b \in Address, view'[q][b] = view[q][b], executable'[q] = executable[q]
    PROVE  PageOK(q, b)'
<1>1. /\ pte'[q][b] = pte[q][b]
      /\ Present(q, b) => mem_map'[FrameAt(q, b)] >= 1 /\ mem_map'[FrameAt(q, b)] <= mem_map[FrameAt(q, b)]
      /\ mem_map' \in [Frame -> Nat]
  BY ZenonT(60), ReleaseCounts
<1>2. PageOK(q, b)
  BY ZenonT(60) DEF OInv
<1>3. ASSUME Present(q, b) PROVE memory'[FrameAt(q, b)] = memory[FrameAt(q, b)]
  <2>1. FrameAt(q, b) \in Frame
    BY ZenonT(60), <1>3, PageUsed
  <2>2. mem_map'[FrameAt(q, b)] # 0
    BY SMTT(60), <1>1, <1>3
  <2>3. Released(p)[FrameAt(q, b)] # 0
    BY ZenonT(60), <2>2
  <2> QED
    BY ZenonT(60), <2>1, <2>3 DEF Cleared
<1>4. ASSUME Present(q, b), mem_map[FrameAt(q, b)] = 1 PROVE mem_map'[FrameAt(q, b)] = 1
  <2>1. FrameAt(q, b) \in Frame
    BY ZenonT(60), <1>4, PageUsed
  <2>2. mem_map'[FrameAt(q, b)] \in Nat
    BY ZenonT(60), <1>1, <2>1
  <2> QED
    BY SMTT(60), <1>1, <1>4, <2>2
<1> QED
  BY ZenonT(60), <1>1, <1>2, <1>3, <1>4, PageKept

LEMMA ExitsOwn == ASSUME CInv, OInv, NEW p \in Proc, Exits(p), calls' = calls PROVE OInv'
<1>1. /\ mem_map' = Released(p) /\ dir' = [dir EXCEPT ![p] = NoTables]
      /\ pte' = [pte EXCEPT ![p] = NoPages] /\ held' = [held EXCEPT ![p] = None] /\ kernel' = kernel
      /\ memory' = Cleared(p)
  BY ZenonT(60) DEF Exits
<1>2. RestOK /\ pte \in [Proc -> [Address -> Pte \cup {None}]]
  BY ZenonT(60), RestType DEF CInv, MTypeOK
<1>3. /\ \A q \in Proc : q # p => view'[q] = view[q] /\ executable'[q] = executable[q] /\ state'[q] = state[q]
                                 /\ at'[q] = at[q] /\ buffer'[q] = buffer[q] /\ pte'[q] = pte[q]
      /\ view'[p] = Blank /\ executable'[p] = None /\ state'[p] = "free" /\ buffer'[p] = None /\ pte'[p] = NoPages
  <2>1. /\ \A q \in Proc : q # p => view'[q] = view[q] /\ executable'[q] = executable[q] /\ state'[q] = state[q]
        /\ view'[p] = Blank /\ executable'[p] = None /\ state'[p] = "free"
    BY SMTT(60), <1>2 DEF Exits, RestOK
  <2>2. /\ \A q \in Proc : q # p => at'[q] = at[q] /\ buffer'[q] = buffer[q] /\ pte'[q] = pte[q]
        /\ buffer'[p] = None /\ pte'[p] = NoPages
    BY SMTT(60), <1>2 DEF Exits, RestOK
  <2> QED
    BY ZenonT(60), <2>1, <2>2
<1>4. ASSUME NEW q \in Proc, NEW b \in Address PROVE PageOK(q, b)'
  <2>1. CASE q = p
    <3>1. ~Present(p, b)' /\ view'[p][b] = 0
      BY ZenonT(60), <1>3 DEF Present, NoPages, Blank
    <3>2. Untouched(p, b)' = 0
      BY ZenonT(60), <1>3 DEF Untouched, OfProgram
    <3> QED
      BY ZenonT(60), <2>1, <3>1, <3>2 DEF PageOK
  <2>2. CASE q # p
    <3>1. view'[q][b] = view[q][b] /\ executable'[q] = executable[q]
      BY ZenonT(60), <1>3, <2>2
    <3> QED
      BY ZenonT(60), <1>1, <2>2, <3>1, ReleasedKept
  <2> QED
    BY ZenonT(60), <2>1, <2>2
<1>5. ASSUME NEW q \in Proc PROVE ProcOK(q)'
  <2>1. CASE q = p
    BY ZenonT(60), <1>3, <2>1, ProcIdle
  <2>2. CASE q # p
    <3>1. ProcOK(q)
      BY ZenonT(60) DEF OInv
    <3>2. /\ executable'[q] = executable[q] /\ state'[q] = state[q] /\ at'[q] = at[q] /\ buffer'[q] = buffer[q]
          /\ \A b \in Address : pte'[q][b] = pte[q][b]
      BY ZenonT(60), <1>3, <2>2
    <3> QED
      BY ZenonT(60), <3>1, <3>2, ProcKept
  <2> QED
    BY ZenonT(60), <2>1, <2>2
<1> QED
  BY ZenonT(60), <1>4, <1>5 DEF OInv

LEMMA ExecOwn == ASSUME CInv, OInv, NEW p \in Proc, NEW e \in Executable, Exec(p, e), calls' = calls PROVE OInv'
<1>1. /\ mem_map' = Released(p) /\ dir' = [dir EXCEPT ![p] = NoTables]
      /\ pte' = [pte EXCEPT ![p] = NoPages] /\ held' = held /\ kernel' = kernel
      /\ memory' = Cleared(p)
  BY ZenonT(60) DEF Exec, NewMemory
<1>2. RestOK /\ pte \in [Proc -> [Address -> Pte \cup {None}]] /\ held \in [Proc -> Frame \cup {None}]
  BY ZenonT(60), RestType DEF CInv, MTypeOK
<1>3. held' = [held EXCEPT ![p] = None]
  <2>1. held[p] = None
    BY ZenonT(60), RunHolds DEF Exec, InUser
  <2> QED
    BY SMTT(60), <1>1, <1>2, <2>1
<1>4. /\ \A q \in Proc : q # p => view'[q] = view[q] /\ executable'[q] = executable[q] /\ state'[q] = state[q]
                                 /\ at'[q] = at[q] /\ buffer'[q] = buffer[q] /\ pte'[q] = pte[q]
      /\ view'[p] = [a \in Address |-> IF a \in Program THEN e ELSE 0]
      /\ executable'[p] = e /\ state'[p] = "run" /\ buffer'[p] = None /\ pte'[p] = NoPages
  <2>1. /\ \A q \in Proc : q # p => view'[q] = view[q] /\ executable'[q] = executable[q] /\ state'[q] = state[q]
        /\ view'[p] = [a \in Address |-> IF a \in Program THEN e ELSE 0] /\ executable'[p] = e /\ state'[p] = "run"
    BY SMTT(60), <1>2 DEF Exec, NewMemory, RestOK
  <2>2. /\ \A q \in Proc : q # p => at'[q] = at[q] /\ buffer'[q] = buffer[q] /\ pte'[q] = pte[q]
        /\ buffer'[p] = None /\ pte'[p] = NoPages
    BY SMTT(60), <1>2 DEF Exec, InUser, NewMemory, RestOK
  <2> QED
    BY ZenonT(60), <2>1, <2>2
<1>5. ~ForkOnly'
  <2>1. "exec" \in calls'
    BY ZenonT(60) DEF Exec
  <2>2. "exec" \notin {"fork", "read"}
    BY SMTT(60)
  <2> QED
    BY ZenonT(60), <2>1, <2>2 DEF ForkOnly
<1>6. ASSUME NEW q \in Proc, NEW b \in Address PROVE PageOK(q, b)'
  <2>1. CASE q = p
    <3>1. ~Present(p, b)' /\ view'[p][b] = IF b \in Program THEN e ELSE 0
      BY ZenonT(60), <1>4 DEF Present, NoPages
    <3>2. Untouched(p, b)' = IF b \in Program THEN e ELSE 0
      BY ZenonT(60), <1>4, NoneAssumption DEF Untouched, OfProgram
    <3> QED
      BY ZenonT(60), <2>1, <3>1, <3>2 DEF PageOK
  <2>2. CASE q # p
    <3>1. view'[q][b] = view[q][b] /\ executable'[q] = executable[q]
      BY ZenonT(60), <1>4, <2>2
    <3> QED
      BY ZenonT(60), <1>1, <1>3, <2>2, <3>1, ReleasedKept
  <2> QED
    BY ZenonT(60), <2>1, <2>2
<1>7. ASSUME NEW q \in Proc PROVE ProcOK(q)'
  <2>1. CASE q = p
    BY ZenonT(60), <1>4, <1>5, <2>1, ProcIdle
  <2>2. CASE q # p
    <3>1. ProcOK(q)
      BY ZenonT(60) DEF OInv
    <3>2. /\ executable'[q] = executable[q] /\ state'[q] = state[q] /\ at'[q] = at[q] /\ buffer'[q] = buffer[q]
          /\ \A b \in Address : pte'[q][b] = pte[q][b]
      BY ZenonT(60), <1>4, <2>2
    <3> QED
      BY ZenonT(60), <3>1, <3>2, ProcKept
  <2> QED
    BY ZenonT(60), <2>1, <2>2
<1> QED
  BY ZenonT(60), <1>6, <1>7 DEF OInv

-----------------------------------------------------------------------------
\* un_wp_page.
LEMMA UnprotectedOwn ==
    ASSUME CInv, OInv, NEW p \in Proc, NEW a \in Address, Present(p, a), ~pte[p][a].w, Unprotected(p, a),
           UNCHANGED <<executable, view, calls>>
    PROVE  \A q \in Proc, b \in Address : PageOK(q, b)'
<1>1. /\ pte'[p][a] \in Pte /\ pte'[p][a].w = TRUE /\ Present(p, a)'
      /\ \A q \in Proc, b \in Address : <<q, b>> # <<p, a>> => pte'[q][b] = pte[q][b]
  BY ZenonT(60) DEF Unprotected
<1>2. /\ FrameAt(p, a) \in Frame /\ mem_map \in [Frame -> Nat] /\ DOMAIN memory = Frame
  BY ZenonT(60), PageUsed DEF CInv, MTypeOK
<1>3. PageOK(p, a)
  BY ZenonT(60) DEF OInv
<1>4. (ExecOnly' <=> ExecOnly) /\ (OfProgram(p, a)' <=> OfProgram(p, a))
  BY ZenonT(60) DEF ExecOnly, OfProgram
<1>5. CASE /\ mem_map[FrameAt(p, a)] = 1 /\ UNCHANGED <<mem_map, memory>>
           /\ FrameAt(p, a)' = FrameAt(p, a) /\ pte'[p][a].dirty = pte[p][a].dirty
  <2>1. PageOK(p, a)'
    <3>1. /\ memory'[FrameAt(p, a)] = view'[p][a]
          /\ mem_map'[FrameAt(p, a)] = 1
          /\ ExecOnly /\ OfProgram(p, a) /\ ~pte'[p][a].dirty => memory'[FrameAt(p, a)] = executable'[p]
      BY ZenonT(60), <1>3, <1>5 DEF PageOK
    <3> QED
      BY ZenonT(60), <1>1, <1>4, <1>5, <3>1 DEF PageOK
  <2>2. ASSUME NEW q \in Proc, NEW b \in Address, <<q, b>> # <<p, a>> PROVE PageOK(q, b)'
    <3>1. PageOK(q, b) /\ pte'[q][b] = pte[q][b]
      BY ZenonT(60), <1>1, <2>2 DEF OInv
    <3> QED
      BY ZenonT(60), <1>5, <3>1, PageKept
  <2> QED
    BY SMTT(60), <2>1, <2>2
<1>6. CASE /\ mem_map[FrameAt(p, a)] # 1
           /\ FrameAt(p, a)' \in Free
           /\ pte'[p][a].dirty = FALSE
           /\ mem_map' = [mem_map EXCEPT ![FrameAt(p, a)] = @ - 1, ![FrameAt(p, a)'] = 1]
           /\ memory' = [memory EXCEPT ![FrameAt(p, a)'] = memory[FrameAt(p, a)]]
  <2>1. PICK f \in Free : f = FrameAt(p, a)'
    BY ZenonT(60), <1>6
  <2>2. PICK old \in Frame : old = FrameAt(p, a)
    BY ZenonT(60), <1>2
  <2>3. f \in Frame /\ mem_map[f] = 0 /\ \A q \in Proc, b \in Address : FrameAt(q, b) # f
    BY ZenonT(60), NotFree
  <2>4. f # old
    BY ZenonT(60), <2>2, <2>3
  <2>5. mem_map' = [mem_map EXCEPT ![old] = @ - 1, ![f] = 1] /\ memory' = [memory EXCEPT ![f] = memory[old]] /\ mem_map[old] # 1
    BY ZenonT(60), <1>6, <2>1, <2>2
  <2>6. /\ mem_map'[f] = 1 /\ memory'[f] = memory[old]
        /\ \A g \in Frame : g # f => memory'[g] = memory[g]
        /\ \A g \in Frame : g # f /\ g # old => mem_map'[g] = mem_map[g]
    BY SMTT(60), <1>2, <2>3, <2>4, <2>5
  <2>7. PageOK(p, a)'
    <3>1. memory[old] = view'[p][a]
      BY ZenonT(60), <1>3, <2>2 DEF PageOK
    <3>2. ExecOnly /\ OfProgram(p, a) => memory[old] = executable'[p]
      BY ZenonT(60), <1>3, <2>2 DEF PageOK
    <3> QED
      BY ZenonT(60), <1>1, <1>4, <2>1, <2>6, <3>1, <3>2 DEF PageOK
  <2>8. ASSUME NEW q \in Proc, NEW b \in Address, <<q, b>> # <<p, a>> PROVE PageOK(q, b)'
    <3>1. PageOK(q, b) /\ pte'[q][b] = pte[q][b]
      BY ZenonT(60), <1>1, <2>8 DEF OInv
    <3>2. FrameAt(q, b) # f /\ (Present(q, b) => FrameAt(q, b) \in Frame)
      BY ZenonT(60), <2>3, PageUsed
    <3>3. Present(q, b) => memory'[FrameAt(q, b)] = memory[FrameAt(q, b)]
      BY ZenonT(60), <2>6, <3>2
    <3>4. Present(q, b) /\ mem_map[FrameAt(q, b)] = 1 => mem_map'[FrameAt(q, b)] = 1
      BY ZenonT(60), <2>5, <2>6, <3>2
    <3> QED
      BY ZenonT(60), <3>1, <3>3, <3>4, PageKept
  <2> QED
    BY SMTT(60), <2>7, <2>8
<1> QED
  BY ZenonT(60), <1>5, <1>6 DEF Unprotected

\* A write by who may write.
LEMMA WritesOwn ==
    ASSUME CInv, OInv, NEW p \in Proc, NEW a \in Address, NEW v, Present(p, a), pte[p][a].w, Writes(p, a, v),
           UNCHANGED <<mem_map, executable, calls>>
    PROVE  \A q \in Proc, b \in Address : PageOK(q, b)'
<1>1. Written(p, a)
  BY ZenonT(60), WritesEffect
<1>2. /\ pte'[p][a] \in Pte /\ pte'[p][a].w = pte[p][a].w /\ pte'[p][a].dirty = TRUE
      /\ \A q \in Proc, b \in Address : <<q, b>> # <<p, a>> => pte'[q][b] = pte[q][b]
      /\ FrameAt(p, a)' = FrameAt(p, a) /\ Present(p, a)'
  BY ZenonT(60), <1>1 DEF Written
<1>3. PICK f \in Frame : f = FrameAt(p, a) /\ f = pte[p][a].frame
  BY ZenonT(60), FrameType DEF CInv
<1>4. DOMAIN memory = Frame /\ DOMAIN view = Proc /\ \A q \in Proc : DOMAIN view[q] = Address
  BY ZenonT(60) DEF CInv, MTypeOK
<1>5. memory' = [memory EXCEPT ![f] = v] /\ view' = [view EXCEPT ![p][a] = v]
  BY ZenonT(60), <1>3 DEF Writes
<1>6. memory'[f] = v /\ \A g \in Frame : g # f => memory'[g] = memory[g]
  BY SMTT(60), <1>4, <1>5
<1>7. view'[p][a] = v
  BY SMTT(60), <1>4, <1>5
<1>8. ASSUME NEW q \in Proc, NEW b \in Address, <<q, b>> # <<p, a>> PROVE view'[q][b] = view[q][b]
  BY SMTT(60), <1>4, <1>5, <1>8
<1>9. mem_map[f] = 1
  <2>1. PageOK(p, a)
    BY ZenonT(60) DEF OInv
  <2> QED
    BY ZenonT(60), <1>3, <2>1 DEF PageOK
<1>10. PageOK(p, a)'
  <2>1. memory'[FrameAt(p, a)'] = view'[p][a] /\ mem_map'[FrameAt(p, a)'] = 1 /\ pte'[p][a].w
    BY ZenonT(60), <1>2, <1>3, <1>6, <1>7, <1>9
  <2> QED
    BY ZenonT(60), <1>2, <2>1 DEF PageOK
<1>11. ASSUME NEW q \in Proc, NEW b \in Address, <<q, b>> # <<p, a>> PROVE PageOK(q, b)'
  <2>1. PageOK(q, b) /\ pte'[q][b] = pte[q][b] /\ view'[q][b] = view[q][b] /\ executable'[q] = executable[q]
    BY ZenonT(60), <1>2, <1>8, <1>11 DEF OInv
  <2>2. FrameAt(q, b) # f
    <3>1. \A r \in Proc, c \in Address : FrameAt(r, c) = FrameAt(p, a) => r = p /\ c = a
      BY ZenonT(60), <1>3, <1>9, AloneIn
    <3> QED
      BY ZenonT(60), <1>3, <1>11, <3>1
  <2>3. Present(q, b) => memory'[FrameAt(q, b)] = memory[FrameAt(q, b)]
    BY ZenonT(60), <1>6, <2>2, PageUsed
  <2>4. Present(q, b) /\ mem_map[FrameAt(q, b)] = 1 => mem_map'[FrameAt(q, b)] = 1
    BY ZenonT(60)
  <2> QED
    BY ZenonT(60), <2>1, <2>3, <2>4, PageKept
<1> QED
  BY SMTT(60), <1>10, <1>11

\* The processes when only entries of p change.
LEMMA OthersKept ==
    ASSUME OInv, NEW p \in Proc, UNCHANGED <<executable, state, at, calls>>,
           \A q \in Proc, b \in Address : q # p => pte'[q][b] = pte[q][b],
           \A q \in Proc : q # p => buffer'[q] = buffer[q],
           ProcOK(p)'
    PROVE  \A q \in Proc : ProcOK(q)'
<1>1. ASSUME NEW q \in Proc, q # p PROVE ProcOK(q)'
  <2>1. ProcOK(q) /\ buffer'[q] = buffer[q] /\ \A b \in Address : pte'[q][b] = pte[q][b]
    BY ZenonT(60), <1>1 DEF OInv
  <2>2. executable'[q] = executable[q] /\ state'[q] = state[q] /\ at'[q] = at[q]
    BY ZenonT(60)
  <2> QED
    BY ZenonT(60), <2>1, <2>2, ProcKept
<1> QED
  BY ZenonT(60), <1>1

LEMMA DoWpPageOwn == ASSUME CInv, OInv, NEW p \in Proc, NEW a \in Address, DoWpPage(p, a), calls' = calls PROVE OInv'
<1>1. CASE Exits(p)
  BY ZenonT(60), <1>1, ExitsOwn
<1>2. CASE ~Exits(p)
  <2>1. /\ un_wp_page(p, a) /\ Present(p, a) /\ ~pte[p][a].w /\ state[p] = "run" /\ buffer[p] = None
        /\ UNCHANGED <<executable, state, at, buffer, view, calls>>
    BY ZenonT(60), <1>2 DEF DoWpPage, InUser
  <2>2. Unprotected(p, a)
    BY ZenonT(60), <2>1, UnwpEffect
  <2>3. \A q \in Proc, b \in Address : PageOK(q, b)'
    BY ZenonT(60), <2>1, <2>2, UnprotectedOwn
  <2>4. ProcOK(p)'
    <3>1. ForkOnly' => executable'[p] = None
      BY ZenonT(60), <2>1 DEF OInv, ProcOK, ForkOnly
    <3> QED
      BY ZenonT(60), <2>1, <3>1, ProcIdle
  <2>5. \A q \in Proc, b \in Address : q # p => pte'[q][b] = pte[q][b]
    BY SMTT(60), <2>2 DEF Unprotected
  <2>6. \A q \in Proc : ProcOK(q)'
    BY ZenonT(60), <2>1, <2>4, <2>5, OthersKept
  <2> QED
    BY ZenonT(60), <2>3, <2>6 DEF OInv
<1> QED
  BY ZenonT(60), <1>1, <1>2

LEMMA VerifyAreaOwn ==
    ASSUME CInv, OInv, ForkOnly \/ ExecOnly, NEW p \in Proc, NEW a \in Address, VerifyArea(p, a), calls' = calls
    PROVE  OInv'
<1>1. CASE Exits(p)
  BY ZenonT(60), <1>1, ExitsOwn
<1>2. CASE ~Exits(p)
  <2>1. /\ IF Present(p, a) /\ ~pte[p][a].w THEN un_wp_page(p, a) ELSE UNCHANGED <<mem_map, pte, memory>>
        /\ buffer' = [buffer EXCEPT ![p] = a] /\ state[p] = "run"
        /\ UNCHANGED <<dir, executable, state, at, held, kernel, view, calls>>
    BY ZenonT(60), <1>2 DEF VerifyArea, InUser
  <2>2. ~ExecOnly /\ ForkOnly
    <3>1. "read" \in calls
      BY ZenonT(60) DEF VerifyArea
    <3>2. "read" \notin {"exec"}
      BY SMTT(60)
    <3> QED
      BY ZenonT(60), <3>1, <3>2 DEF ExecOnly
  <2>3. buffer \in [Proc -> Address \cup {None}]
    BY ZenonT(60) DEF CInv, MTypeOK
  <2>4. buffer'[p] = a /\ \A q \in Proc : q # p => buffer'[q] = buffer[q]
    BY SMTT(60), <2>1, <2>3
  <2>5. /\ \A q \in Proc, b \in Address : PageOK(q, b)'
        /\ \A q \in Proc, b \in Address : q # p => pte'[q][b] = pte[q][b]
        /\ Present(p, a)' => pte'[p][a].w
    <3>1. CASE Present(p, a) /\ ~pte[p][a].w
      <4>1. un_wp_page(p, a)
        BY ZenonT(60), <2>1, <3>1
      <4>2. Unprotected(p, a)
        BY ZenonT(60), <3>1, <4>1, UnwpEffect
      <4>3. \A q \in Proc, b \in Address : PageOK(q, b)'
        BY ZenonT(60), <2>1, <3>1, <4>2, UnprotectedOwn
      <4>4. \A q \in Proc, b \in Address : q # p => pte'[q][b] = pte[q][b]
        BY SMTT(60), <4>2 DEF Unprotected
      <4>5. pte'[p][a].w
        BY ZenonT(60), <4>2 DEF Unprotected
      <4> QED
        BY ZenonT(60), <4>3, <4>4, <4>5
    <3>2. CASE ~(Present(p, a) /\ ~pte[p][a].w)
      <4>1. UNCHANGED <<mem_map, pte, memory>>
        BY ZenonT(60), <2>1, <3>2
      <4>2. ASSUME NEW q \in Proc, NEW b \in Address PROVE PageOK(q, b)'
        <5>1. PageOK(q, b)
          BY ZenonT(60) DEF OInv
        <5> QED
          BY ZenonT(60), <2>1, <4>1, <5>1, PageKept
      <4>3. Present(p, a)' => pte'[p][a].w
        BY ZenonT(60), <3>2, <4>1 DEF Present
      <4> QED
        BY ZenonT(60), <4>1, <4>2, <4>3
    <3> QED
      BY ZenonT(60), <3>1, <3>2
  <2>6. ProcOK(p)'
    <3>1. state'[p] = "run" /\ executable'[p] = executable[p] /\ ~ExecOnly'
      BY ZenonT(60), <2>1, <2>2 DEF ExecOnly
    <3>2. state'[p] # "exec" /\ state'[p] # "load" /\ state'[p] # "free"
      BY SMTT(60), <3>1
    <3>3. executable[p] = None
      BY ZenonT(60), <2>2 DEF OInv, ProcOK
    <3>4. \A b \in Address : buffer'[p] = b /\ Present(p, b)' => pte'[p][b].w
      BY ZenonT(60), <2>4, <2>5
    <3> QED
      BY ZenonT(60), <3>1, <3>2, <3>3, <3>4 DEF ProcOK
  <2>7. \A q \in Proc : ProcOK(q)'
    BY ZenonT(60), <2>1, <2>4, <2>5, <2>6, OthersKept
  <2> QED
    BY ZenonT(60), <2>5, <2>7 DEF OInv
<1> QED
  BY ZenonT(60), <1>1, <1>2

LEMMA UserWriteOwn ==
    ASSUME CInv, OInv, NEW p \in Proc, NEW a \in Address, NEW v, UserWrite(p, a, v), calls' = calls
    PROVE  OInv'
<1>1. /\ Present(p, a) /\ pte[p][a].w /\ Writes(p, a, v) /\ state[p] = "run" /\ buffer[p] = None
      /\ UNCHANGED <<mem_map, executable, state, at, buffer, calls>>
  BY ZenonT(60) DEF UserWrite, InUser
<1>2. \A q \in Proc, b \in Address : PageOK(q, b)'
  BY ZenonT(60), <1>1, WritesOwn
<1>3. ProcOK(p)'
  <2>1. ForkOnly' => executable'[p] = None
    BY ZenonT(60), <1>1 DEF OInv, ProcOK, ForkOnly
  <2> QED
    BY ZenonT(60), <1>1, <2>1, ProcIdle
<1>4. Written(p, a)
  BY ZenonT(60), <1>1, WritesEffect
<1>5. \A q \in Proc, b \in Address : q # p => pte'[q][b] = pte[q][b]
  BY SMTT(60), <1>4 DEF Written
<1>6. \A q \in Proc : ProcOK(q)'
  BY ZenonT(60), <1>1, <1>3, <1>5, OthersKept
<1> QED
  BY ZenonT(60), <1>2, <1>6 DEF OInv

LEMMA KernelWriteOwn ==
    ASSUME CInv, OInv, ForkOnly \/ ExecOnly, NEW p \in Proc, NEW v, KernelWrite(p, v), calls' = calls
    PROVE  OInv'
<1>1. buffer \in [Proc -> Address \cup {None}]
  BY ZenonT(60) DEF CInv, MTypeOK
<1>2. PICK a \in Address : a = buffer[p]
  BY ZenonT(60), <1>1 DEF KernelWrite
<1>3. /\ Present(p, a) /\ Writes(p, a, v) /\ buffer' = [buffer EXCEPT ![p] = None] /\ state[p] = "run"
      /\ UNCHANGED <<mem_map, executable, state, at, calls>>
  BY ZenonT(60), <1>2 DEF KernelWrite
<1>4. pte[p][a].w
  <2>1. ForkOnly
    BY ZenonT(60), <1>2, NoneAssumption DEF OInv, ProcOK
  <2> QED
    BY ZenonT(60), <1>2, <1>3, <2>1 DEF OInv, ProcOK
<1>5. \A q \in Proc, b \in Address : PageOK(q, b)'
  BY ZenonT(60), <1>3, <1>4, WritesOwn
<1>6. buffer'[p] = None /\ \A q \in Proc : q # p => buffer'[q] = buffer[q]
  BY SMTT(60), <1>1, <1>3
<1>7. ProcOK(p)'
  <2>1. ForkOnly' => executable'[p] = None
    BY ZenonT(60), <1>3 DEF OInv, ProcOK, ForkOnly
  <2> QED
    BY ZenonT(60), <1>3, <1>6, <2>1, ProcIdle
<1>8. Written(p, a)
  BY ZenonT(60), <1>3, WritesEffect
<1>9. \A q \in Proc, b \in Address : q # p => pte'[q][b] = pte[q][b]
  BY SMTT(60), <1>8 DEF Written
<1>10. \A q \in Proc : ProcOK(q)'
  BY ZenonT(60), <1>3, <1>6, <1>7, <1>9, OthersKept
<1> QED
  BY ZenonT(60), <1>5, <1>10 DEF OInv

-----------------------------------------------------------------------------
\* A frame f is entered at a for p, in table t; who else has a page sees nothing.
LEMMA OtherPages ==
    ASSUME CInv, OInv, NEW p \in Proc, NEW a \in Address, NEW t \in Frame, NEW f \in Frame, NEW n,
           Maps(p, a, t, f, n), dir[p][a[1]] = t \/ t \in Free,
           NEW q \in Proc, NEW b \in Address, FrameAt(q, b) # f,
           pte'[q][b] = pte[q][b], memory' = memory \/ \E x : memory' = [memory EXCEPT ![f] = x],
           UNCHANGED <<executable, view, calls>>
    PROVE  PageOK(q, b)'
<1>1. mem_map \in [Frame -> Nat] /\ DOMAIN memory = Frame
  BY ZenonT(60) DEF CInv, MTypeOK
<1>2. FrameAt(q, b) # t
  <2>1. CASE t \in Free
    BY ZenonT(60), <2>1, NotFree
  <2>2. CASE dir[p][a[1]] = t
    <3>1. a[1] \in Table
      BY SMTT(60) DEF Address
    <3>2. dir[p][a[1]] # None
      BY ZenonT(60), <2>2, NoneAssumption
    <3>3. FrameAt(q, b) # dir[p][a[1]]
      BY SMTT(60), <3>1, <3>2, TableApart
    <3> QED
      BY ZenonT(60), <2>2, <3>3
  <2> QED
    BY ZenonT(60), <2>1, <2>2
<1>3. mem_map' = [mem_map EXCEPT ![t] = 1, ![f] = n]
  BY ZenonT(60) DEF Maps
<1>4. \A g \in Frame : g # t /\ g # f => mem_map'[g] = mem_map[g]
  BY SMTT(60), <1>1, <1>3
<1>5. \A g \in Frame : g # f => memory'[g] = memory[g]
  <2>1. CASE memory' = memory
    BY ZenonT(60), <2>1
  <2>2. CASE \E x : memory' = [memory EXCEPT ![f] = x]
    <3>1. PICK x : memory' = [memory EXCEPT ![f] = x]
      BY ZenonT(60), <2>2
    <3> QED
      BY SMTT(60), <1>1, <3>1
  <2> QED
    BY ZenonT(60), <2>1, <2>2
<1>6. PageOK(q, b) /\ view'[q][b] = view[q][b] /\ executable'[q] = executable[q]
  BY ZenonT(60) DEF OInv
<1>7. Present(q, b) => FrameAt(q, b) \in Frame
  BY ZenonT(60), PageUsed
<1>8. Present(q, b) => memory'[FrameAt(q, b)] = memory[FrameAt(q, b)]
  BY ZenonT(60), <1>5, <1>7
<1>9. Present(q, b) /\ mem_map[FrameAt(q, b)] = 1 => mem_map'[FrameAt(q, b)] = 1
  BY ZenonT(60), <1>2, <1>4, <1>7
<1> QED
  BY ZenonT(60), <1>6, <1>8, <1>9, PageKept

LEMMA GetEmptyPageOwn ==
    ASSUME CInv, OInv, ForkOnly \/ ExecOnly, NEW p \in Proc, NEW a \in Address, GetEmptyPage(p, a), calls' = calls
    PROVE  OInv'
<1>1. PICK f \in Free : \E t \in TableIn(p, a, Free \ {f}) :
          /\ Maps(p, a, t, f, 1)
          /\ pte' = [pte EXCEPT ![p][a] = Writable(f)]
          /\ memory' = [memory EXCEPT ![f] = 0]
  BY ZenonT(60) DEF GetEmptyPage
<1>2. PICK t \in TableIn(p, a, Free \ {f}) :
          /\ Maps(p, a, t, f, 1)
          /\ pte' = [pte EXCEPT ![p][a] = Writable(f)]
          /\ memory' = [memory EXCEPT ![f] = 0]
  BY ZenonT(60), <1>1
<1>3. /\ UNCHANGED <<executable, state, at, buffer, view, calls>>
      /\ state[p] = "run" /\ ~Present(p, a) /\ ~OfProgram(p, a)
  BY ZenonT(60) DEF GetEmptyPage, Uses
<1>4. /\ f \in Frame /\ \A q \in Proc, u \in Table : dir[q][u] # f
      /\ \A q \in Proc, b \in Address : FrameAt(q, b) # f
  BY ZenonT(60), NotFree
<1>5. t \in Frame /\ t # f /\ (dir[p][a[1]] = t \/ t \in Free)
  <2>1. Free \ {f} \subseteq Free /\ f \notin Free \ {f}
    BY ZenonT(60)
  <2> QED
    BY ZenonT(60), <1>4, <2>1, TableFrame
<1>6. MTypeOK
  BY ZenonT(60) DEF CInv
<1>7. /\ pte'[p][a] # None /\ pte'[p][a].w = TRUE
      /\ FrameAt(p, a)' = f
      /\ \A q \in Proc, b \in Address : <<q, b>> # <<p, a>> => pte'[q][b] = pte[q][b]
  <2>1. Sets(p, a, Writable(f))
    BY ZenonT(60), <1>2 DEF Sets
  <2>2. f \in Frame
    BY ZenonT(60), <1>4
  <2>3. pte'[p][a] # None /\ pte'[p][a].w = TRUE /\ FrameAt(p, a)' = f
    BY ZenonT(60), <1>6, <2>1, <2>2, WritableSet
  <2>4. \A q \in Proc, b \in Address :
            <<q, b>> # <<p, a>> => pte'[q][b] = pte[q][b] /\ FrameAt(q, b)' = FrameAt(q, b)
    BY ZenonT(60), <1>6, <2>1, <2>2, WritableSet
  <2> QED
    BY ZenonT(60), <2>3, <2>4
<1>8. mem_map'[f] = 1 /\ memory'[f] = 0
  BY SMTT(60), <1>2, <1>4, <1>5, <1>6 DEF Maps, MTypeOK
<1>9. PageOK(p, a)'
  <2>1. PageOK(p, a)
    BY ZenonT(60) DEF OInv
  <2>2. view'[p][a] = 0
    BY ZenonT(60), <1>3, <2>1 DEF PageOK, Untouched
  <2>3. ~OfProgram(p, a)'
    BY ZenonT(60), <1>3 DEF OfProgram
  <2>4. Present(p, a)'
    BY ZenonT(60), <1>7 DEF Present
  <2> QED
    BY ZenonT(60), <1>7, <1>8, <2>2, <2>3, <2>4 DEF PageOK
<1>10. ASSUME NEW q \in Proc, NEW b \in Address, <<q, b>> # <<p, a>> PROVE PageOK(q, b)'
  <2>1. pte'[q][b] = pte[q][b] /\ FrameAt(q, b) # f
    BY ZenonT(60), <1>4, <1>7, <1>10
  <2>2. Maps(p, a, t, f, 1) /\ \E x : memory' = [memory EXCEPT ![f] = x]
    BY ZenonT(60), <1>2
  <2> QED
    BY ZenonT(60), <1>3, <1>4, <1>5, <2>1, <2>2, OtherPages
<1>11. ProcOK(p)'
  <2>1. state'[p] # "exec" /\ state'[p] # "load" /\ state'[p] # "free"
    BY SMTT(60), <1>3
  <2>2. ProcOK(p)
    BY ZenonT(60) DEF OInv
  <2>3. (ForkOnly' => ForkOnly) /\ (ExecOnly' => ExecOnly) /\ executable'[p] = executable[p] /\ buffer'[p] = buffer[p]
    BY ZenonT(60), <1>3 DEF ForkOnly, ExecOnly
  <2>4. ASSUME ForkOnly, NEW b \in Address, buffer'[p] = b, Present(p, b)' PROVE pte'[p][b].w
    <3>1. CASE b = a
      BY ZenonT(60), <1>7, <3>1
    <3>2. CASE b # a
      <4>1. pte'[p][b] = pte[p][b]
        BY SMTT(60), <1>7, <3>2
      <4> QED
        BY ZenonT(60), <2>2, <2>3, <2>4, <4>1 DEF ProcOK, Present
    <3> QED
      BY ZenonT(60), <3>1, <3>2
  <2>5. (ForkOnly => executable'[p] = None) /\ (ExecOnly => buffer'[p] = None)
    BY ZenonT(60), <2>2, <2>3 DEF ProcOK
  <2> QED
    BY ZenonT(60), <2>1, <2>3, <2>4, <2>5 DEF ProcOK
<1>12. \A q \in Proc, b \in Address : q # p => pte'[q][b] = pte[q][b]
  BY SMTT(60), <1>7
<1>13. \A q \in Proc : ProcOK(q)'
  BY ZenonT(60), <1>3, <1>11, <1>12, OthersKept
<1>14. \A q \in Proc, b \in Address : PageOK(q, b)'
  BY SMTT(60), <1>9, <1>10
<1> QED
  BY ZenonT(60), <1>13, <1>14 DEF OInv

\* With sharing there are no forks, and without it no programs.
LEMMA OnlyExec ==
    ASSUME OInv, ForkOnly \/ ExecOnly, NEW p \in Proc, NEW a, OfProgram(p, a)
    PROVE  ExecOnly
BY ZenonT(60) DEF OInv, ProcOK, OfProgram

LEMMA EndLoadOwn ==
    ASSUME CInv, OInv, ForkOnly \/ ExecOnly, NEW p \in Proc, EndLoad(p), calls' = calls
    PROVE  OInv'
<1>1. CASE Exits(p)
  BY ZenonT(60), <1>1, ExitsOwn
<1>2. CASE ~Exits(p)
  <2>1. /\ state[p] = "load"
        /\ \E t \in TableIn(p, at[p], Free) : Maps(p, at[p], t, held[p], mem_map[held[p]])
        /\ pte' = [pte EXCEPT ![p][at[p]] = Writable(held[p])]
        /\ memory' = [memory EXCEPT ![held[p]] = executable[p]]
        /\ state' = [state EXCEPT ![p] = "run"]
        /\ at' = [at EXCEPT ![p] = None]
        /\ UNCHANGED <<executable, buffer, view, calls>>
    BY ZenonT(60), <1>2 DEF EndLoad
  <2>2. PICK t \in TableIn(p, at[p], Free) : Maps(p, at[p], t, held[p], mem_map[held[p]])
    BY ZenonT(60), <2>1
  <2>3. at[p] \in Address /\ ~Present(p, at[p]) /\ held[p] # None
    BY ZenonT(60), <2>1 DEF CInv, Phases, Phase
  <2>4. /\ held[p] \in Frame /\ mem_map[held[p]] = 1
        /\ \A r \in Proc, u \in Table : dir[r][u] # held[p]
        /\ \A r \in Proc, b \in Address : FrameAt(r, b) # held[p]
    BY ZenonT(60), <2>3, HeldApart
  <2>5. PICK f \in Frame : f = held[p]
    BY ZenonT(60), <2>4
  <2>6. PICK a \in Address : a = at[p]
    BY ZenonT(60), <2>3
  <2>7. MTypeOK
    BY ZenonT(60) DEF CInv
  <2>8. /\ Maps(p, a, t, f, 1) /\ Sets(p, a, Writable(f)) /\ t \in TableIn(p, a, Free)
        /\ ~Present(p, a) /\ mem_map[f] = 1 /\ memory' = [memory EXCEPT ![f] = executable[p]]
    BY ZenonT(60), <2>1, <2>2, <2>3, <2>4, <2>5, <2>6 DEF Sets
  <2>9. (\A r \in Proc, u \in Table : dir[r][u] # f) /\ (\A r \in Proc, b \in Address : FrameAt(r, b) # f)
    BY ZenonT(60), <2>4, <2>5
  <2>10. t \in Frame /\ t # f /\ (dir[p][a[1]] = t \/ t \in Free)
    <3>1. Free \subseteq Free /\ f \notin Free
      BY SMTT(60), <2>8 DEF Free
    <3>2. t \in TableIn(p, a, Free)
      BY ZenonT(60), <2>8
    <3> QED
      BY ZenonT(60), <2>9, <3>1, <3>2, TableFrame
  <2>11. /\ pte'[p][a] # None /\ pte'[p][a].w = TRUE /\ pte'[p][a].dirty = FALSE
         /\ FrameAt(p, a)' = f
         /\ \A q \in Proc, b \in Address : <<q, b>> # <<p, a>> => pte'[q][b] = pte[q][b]
    <3>1. Sets(p, a, Writable(f))
      BY ZenonT(60), <2>8
    <3>2. /\ pte'[p][a] # None /\ pte'[p][a].w = TRUE /\ pte'[p][a].dirty = FALSE
          /\ FrameAt(p, a)' = f
      BY ZenonT(60), <2>7, <3>1, WritableSet
    <3>3. \A q \in Proc, b \in Address :
              <<q, b>> # <<p, a>> => pte'[q][b] = pte[q][b] /\ FrameAt(q, b)' = FrameAt(q, b)
      BY ZenonT(60), <2>7, <3>1, WritableSet
    <3> QED
      BY ZenonT(60), <3>2, <3>3
  <2>12. mem_map'[f] = 1 /\ memory'[f] = executable[p]
    BY SMTT(60), <2>7, <2>8, <2>10 DEF Maps, MTypeOK
  <2>13. OfProgram(p, a) /\ ExecOnly /\ buffer[p] = None
    <3>1. OfProgram(p, a)
      BY ZenonT(60), <2>1, <2>6 DEF OInv, ProcOK
    <3>2. ExecOnly
      BY ZenonT(60), <3>1, OnlyExec
    <3> QED
      BY ZenonT(60), <3>1, <3>2 DEF OInv, ProcOK
  <2>14. PageOK(p, a)'
    <3>1. PageOK(p, a)
      BY ZenonT(60) DEF OInv
    <3>2. view'[p][a] = executable[p] /\ executable'[p] = executable[p]
      BY ZenonT(60), <2>1, <2>8, <2>13, <3>1 DEF PageOK, Untouched
    <3>3. Present(p, a)'
      BY ZenonT(60), <2>11 DEF Present
    <3> QED
      BY ZenonT(60), <2>11, <2>12, <3>2, <3>3 DEF PageOK
  <2>15. ASSUME NEW q \in Proc, NEW b \in Address, <<q, b>> # <<p, a>> PROVE PageOK(q, b)'
    <3>1. pte'[q][b] = pte[q][b] /\ FrameAt(q, b) # f
      BY ZenonT(60), <2>9, <2>11, <2>15
    <3>2. Maps(p, a, t, f, 1) /\ \E x : memory' = [memory EXCEPT ![f] = x]
      BY ZenonT(60), <2>8
    <3> QED
      BY ZenonT(60), <2>1, <2>10, <3>1, <3>2, OtherPages
  <2>16. state'[p] = "run" /\ \A q \in Proc : q # p => state'[q] = state[q] /\ at'[q] = at[q]
    BY SMTT(60), <2>1, <2>7 DEF MTypeOK
  <2>17. ASSUME NEW q \in Proc PROVE ProcOK(q)'
    <3>1. CASE q = p
      <4>1. buffer'[p] = None /\ executable'[p] = executable[p]
        BY ZenonT(60), <2>1, <2>13
      <4>2. ForkOnly' => executable'[p] = None
        BY ZenonT(60), <2>1, <4>1 DEF OInv, ProcOK, ForkOnly
      <4> QED
        BY ZenonT(60), <2>16, <3>1, <4>1, <4>2, ProcIdle
    <3>2. CASE q # p
      <4>1. ProcOK(q)
        BY ZenonT(60) DEF OInv
      <4>2. \A b \in Address : pte'[q][b] = pte[q][b]
        BY SMTT(60), <2>11, <3>2
      <4>3. state'[q] = state[q] /\ at'[q] = at[q] /\ executable'[q] = executable[q] /\ buffer'[q] = buffer[q]
        BY ZenonT(60), <2>1, <2>16, <3>2
      <4> QED
        BY ZenonT(60), <2>1, <4>1, <4>2, <4>3, ProcKept
    <3> QED
      BY ZenonT(60), <3>1, <3>2
  <2>18. \A q \in Proc, b \in Address : PageOK(q, b)'
    BY SMTT(60), <2>14, <2>15
  <2> QED
    BY ZenonT(60), <2>17, <2>18 DEF OInv
<1> QED
  BY ZenonT(60), <1>1, <1>2

-----------------------------------------------------------------------------
LEMMA SharePageOwn ==
    ASSUME CInv, OInv, ForkOnly \/ ExecOnly, NEW p \in Proc, NEW a \in Address, SharePage(p, a), calls' = calls
    PROVE  OInv'
<1>1. PICK q \in Sharers(p, a) : \E t \in TableIn(p, a, Free) :
          /\ Maps(p, a, t, pte[q][a].frame, mem_map[pte[q][a].frame] + 1)
          /\ pte' = SharedBy(p, q, a)
  BY ZenonT(60) DEF SharePage
<1>2. PICK t \in TableIn(p, a, Free) :
          /\ Maps(p, a, t, pte[q][a].frame, mem_map[pte[q][a].frame] + 1)
          /\ pte' = SharedBy(p, q, a)
  BY ZenonT(60), <1>1
<1>3. /\ UNCHANGED <<memory, executable, state, at, buffer, view, calls>>
      /\ ~Present(p, a) /\ OfProgram(p, a)
  BY ZenonT(60) DEF SharePage, Uses
<1>4. q \in Proc /\ q # p /\ Present(q, a) /\ executable[q] = executable[p] /\ ~pte[q][a].dirty
  BY ZenonT(60) DEF Sharers
<1>5. MTypeOK
  BY ZenonT(60) DEF CInv
<1>6. Shared(p, q, a)
  BY ZenonT(60), <1>2, <1>4, <1>5, SharedIs
<1>7. PICK f \in Frame : f = pte[q][a].frame /\ FrameAt(q, a) = f
  BY ZenonT(60), <1>4, <1>5, FrameType
<1>8. /\ pte'[p][a] # None /\ pte'[q][a] = pte'[p][a]
      /\ pte'[p][a].frame = f /\ pte'[p][a].w = FALSE /\ ~pte'[p][a].dirty
      /\ \A r \in Proc, b \in Address : <<r, b>> # <<p, a>> /\ <<r, b>> # <<q, a>> => pte'[r][b] = pte[r][b]
  BY ZenonT(60), <1>4, <1>6, <1>7, NoneAssumption DEF Shared
<1>9. ExecOnly
  BY ZenonT(60), <1>3, OnlyExec
<1>10. OfProgram(q, a)
  BY ZenonT(60), <1>3, <1>4 DEF OfProgram
<1>11. memory[f] = executable[q] /\ memory[f] = view[q][a]
  <2>1. PageOK(q, a)
    BY ZenonT(60), <1>4 DEF OInv
  <2> QED
    BY ZenonT(60), <1>4, <1>7, <1>9, <1>10, <2>1 DEF PageOK
<1>12. PageOK(p, a)'
  <2>1. PageOK(p, a)
    BY ZenonT(60) DEF OInv
  <2>2. view'[p][a] = executable[p] /\ executable'[p] = executable[p]
    BY ZenonT(60), <1>3, <2>1 DEF PageOK, Untouched
  <2>3. memory'[f] = view'[p][a] /\ memory'[f] = executable'[p]
    BY ZenonT(60), <1>3, <1>4, <1>11, <2>2
  <2>4. Present(p, a)' /\ FrameAt(p, a)' = f
    BY ZenonT(60), <1>8 DEF Present, FrameAt
  <2> QED
    BY ZenonT(60), <1>8, <2>3, <2>4 DEF PageOK
<1>13. PageOK(q, a)'
  <2>1. memory'[f] = view'[q][a] /\ memory'[f] = executable'[q]
    BY ZenonT(60), <1>3, <1>11
  <2>2. Present(q, a)' /\ FrameAt(q, a)' = f
    BY ZenonT(60), <1>8 DEF Present, FrameAt
  <2>3. pte'[q][a].w = FALSE /\ ~pte'[q][a].dirty
    BY ZenonT(60), <1>8
  <2> QED
    BY ZenonT(60), <2>1, <2>2, <2>3 DEF PageOK
<1>14. t \in Frame /\ t # f /\ (dir[p][a[1]] = t \/ t \in Free)
  <2>1. f \notin Free
    BY ZenonT(60), <1>4, <1>7, NotFree
  <2>2. ASSUME NEW r \in Proc, NEW u \in Table PROVE dir[r][u] # f
    <3>1. CASE dir[r][u] = None
      BY ZenonT(60), <3>1, NoneAssumption
    <3>2. CASE dir[r][u] # None
      <4>1. FrameAt(q, a) # dir[r][u]
        BY SMTT(60), <1>4, <3>2, TableApart
      <4> QED
        BY ZenonT(60), <1>7, <4>1
    <3> QED
      BY ZenonT(60), <3>1, <3>2
  <2>3. Free \subseteq Free
    BY ZenonT(60)
  <2> QED
    BY ZenonT(60), <2>1, <2>2, <2>3, TableFrame
<1>15. PICK n : n = mem_map[f] + 1
  BY ZenonT(60)
<1>16. Maps(p, a, t, f, n)
  BY ZenonT(60), <1>2, <1>7, <1>15
<1>17. ASSUME NEW r \in Proc, NEW b \in Address, <<r, b>> # <<p, a>>, <<r, b>> # <<q, a>> PROVE PageOK(r, b)'
  <2>1. pte'[r][b] = pte[r][b]
    BY ZenonT(60), <1>8, <1>17
  <2>2. CASE FrameAt(r, b) # f
    <3>1. memory' = memory
      BY ZenonT(60), <1>3
    <3> QED
      BY ZenonT(60), <1>3, <1>14, <1>16, <2>1, <2>2, <3>1, OtherPages
  <2>3. CASE FrameAt(r, b) = f
    <3>1. mem_map[f] # 1
      <4>1. ASSUME mem_map[f] = 1 PROVE FALSE
        <5>1. \A s \in Proc, c \in Address : FrameAt(s, c) = FrameAt(q, a) => s = q /\ c = a
          BY ZenonT(60), <1>4, <1>7, <4>1, AloneIn
        <5>2. r = q /\ b = a
          BY ZenonT(60), <1>7, <2>3, <5>1
        <5> QED
          BY ZenonT(60), <1>17, <5>2
      <4> QED
        BY ZenonT(60), <4>1
    <3>2. PageOK(r, b) /\ view'[r][b] = view[r][b] /\ executable'[r] = executable[r] /\ calls' = calls
      BY ZenonT(60), <1>3 DEF OInv
    <3>3. memory'[FrameAt(r, b)] = memory[FrameAt(r, b)]
      BY ZenonT(60), <1>3
    <3>4. mem_map[FrameAt(r, b)] # 1
      BY ZenonT(60), <2>3, <3>1
    <3> QED
      BY ZenonT(60), <2>1, <3>2, <3>3, <3>4, PageKept
  <2> QED
    BY ZenonT(60), <2>2, <2>3
<1>18. \A r \in Proc, b \in Address : PageOK(r, b)'
  BY SMTT(60), <1>4, <1>12, <1>13, <1>17
<1>19. ASSUME NEW r \in Proc PROVE ProcOK(r)'
  <2>1. ProcOK(r) /\ (ExecOnly' <=> ExecOnly) /\ (ForkOnly' <=> ForkOnly)
    BY ZenonT(60), <1>3 DEF OInv, ExecOnly, ForkOnly
  <2>2. executable'[r] = executable[r] /\ state'[r] = state[r] /\ at'[r] = at[r] /\ buffer'[r] = buffer[r]
    BY ZenonT(60), <1>3
  <2>3. buffer'[r] = None
    BY ZenonT(60), <1>9, <2>1, <2>2 DEF ProcOK
  <2>4. \A b \in Address : buffer'[r] # b
    BY ZenonT(60), <2>3, NoneAssumption
  <2>5. /\ state'[r] # "exec"
        /\ state'[r] = "load" => OfProgram(r, at[r])'
        /\ ForkOnly => executable'[r] = None
    BY ZenonT(60), <1>3, <2>1, <2>2 DEF ProcOK, OfProgram
  <2> QED
    BY ZenonT(60), <2>1, <2>3, <2>4, <2>5 DEF ProcOK, OfProgram
<1> QED
  BY ZenonT(60), <1>18, <1>19 DEF OInv

\* A frame that no page is in changes hands.
LEMMA FrameChanges ==
    ASSUME CInv, OInv, NEW f \in Frame, NEW n, mem_map' = [mem_map EXCEPT ![f] = n],
           \A q \in Proc, b \in Address : FrameAt(q, b) # f, UNCHANGED <<memory, pte, executable, view, calls>>
    PROVE  \A q \in Proc, b \in Address : PageOK(q, b)'
<1>1. ASSUME NEW q \in Proc, NEW b \in Address PROVE PageOK(q, b)'
  <2>1. PageOK(q, b)
    BY ZenonT(60) DEF OInv
  <2>2. Present(q, b) => FrameAt(q, b) \in Frame
    BY ZenonT(60), PageUsed
  <2>3. mem_map \in [Frame -> Nat]
    BY ZenonT(60) DEF CInv, MTypeOK
  <2>4. Present(q, b) => mem_map'[FrameAt(q, b)] = mem_map[FrameAt(q, b)]
    BY SMTT(60), <2>2, <2>3
  <2>5. Present(q, b) /\ mem_map[FrameAt(q, b)] = 1 => mem_map'[FrameAt(q, b)] = 1
    BY ZenonT(60), <2>4
  <2> QED
    BY ZenonT(60), <2>1, <2>5, PageKept
<1> QED
  BY ZenonT(60), <1>1

LEMMA KernelOwn == ASSUME CInv, OInv, KernelTakes \/ KernelFrees, calls' = calls PROVE OInv'
<1>1. UNCHANGED <<memory, pte, executable, state, at, buffer, view, calls>>
  BY ZenonT(60) DEF KernelTakes, KernelFrees
<1>2. \A q \in Proc, b \in Address : PageOK(q, b)'
  <2>1. CASE KernelTakes
    <3>1. PICK f \in Free : mem_map' = [mem_map EXCEPT ![f] = 1]
      BY ZenonT(60), <2>1 DEF KernelTakes
    <3>2. f \in Frame /\ \A q \in Proc, b \in Address : FrameAt(q, b) # f
      BY ZenonT(60), NotFree
    <3> QED
      BY ZenonT(60), <1>1, <3>1, <3>2, FrameChanges
  <2>2. CASE KernelFrees
    <3>1. PICK f \in kernel : mem_map' = [mem_map EXCEPT ![f] = @ - 1]
      BY ZenonT(60), <2>2 DEF KernelFrees
    <3>2. f \in Frame /\ \A q \in Proc, b \in Address : FrameAt(q, b) # f
      BY ZenonT(60), KernelApart
    <3>3. PICK n : n = mem_map[f] - 1
      BY ZenonT(60)
    <3>4. mem_map' = [mem_map EXCEPT ![f] = n]
      BY ZenonT(60), <3>1, <3>3
    <3> QED
      BY ZenonT(60), <1>1, <3>2, <3>4, FrameChanges
  <2> QED
    BY ZenonT(60), <2>1, <2>2
<1>3. ASSUME NEW q \in Proc PROVE ProcOK(q)'
  <2>1. ProcOK(q)
    BY ZenonT(60) DEF OInv
  <2> QED
    BY ZenonT(60), <1>1, <2>1, ProcKept
<1> QED
  BY ZenonT(60), <1>2, <1>3 DEF OInv

LEMMA StartLoadOwn ==
    ASSUME CInv, OInv, NEW p \in Proc, NEW a \in Address, StartLoad(p, a), calls' = calls, ForkOnly \/ ExecOnly
    PROVE  OInv'
<1>1. PICK f \in Free : mem_map' = [mem_map EXCEPT ![f] = 1]
  BY ZenonT(60) DEF StartLoad
<1>2. /\ UNCHANGED <<memory, pte, executable, buffer, view, calls>> /\ OfProgram(p, a)
      /\ at' = [at EXCEPT ![p] = a] /\ state' = [state EXCEPT ![p] = "load"]
  BY ZenonT(60) DEF StartLoad
<1>3. f \in Frame /\ \A q \in Proc, b \in Address : FrameAt(q, b) # f
  BY ZenonT(60), NotFree
<1>4. \A q \in Proc, b \in Address : PageOK(q, b)'
  BY ZenonT(60), <1>1, <1>2, <1>3, FrameChanges
<1>5. /\ state'[p] = "load" /\ at'[p] = a
      /\ \A q \in Proc : q # p => state'[q] = state[q] /\ at'[q] = at[q]
  BY SMTT(60), <1>2 DEF CInv, MTypeOK
<1>6. ASSUME NEW q \in Proc PROVE ProcOK(q)'
  <2>1. ProcOK(q)
    BY ZenonT(60) DEF OInv
  <2>2. CASE q # p
    BY ZenonT(60), <1>2, <1>5, <2>1, <2>2, ProcKept
  <2>3. CASE q = p
    <3>1. state'[q] # "exec" /\ state'[q] # "free"
      BY SMTT(60), <1>5, <2>3
    <3>2. OfProgram(q, at[q])'
      BY ZenonT(60), <1>2, <1>5, <2>3 DEF OfProgram
    <3>3. (ForkOnly' <=> ForkOnly) /\ (ExecOnly' <=> ExecOnly) /\ executable'[q] = executable[q] /\ buffer'[q] = buffer[q]
      BY ZenonT(60), <1>2 DEF ForkOnly, ExecOnly
    <3>4. ExecOnly
      BY ZenonT(60), <1>2, OnlyExec
    <3>5. buffer'[q] = None /\ (ForkOnly => executable'[q] = None)
      BY ZenonT(60), <2>1, <3>3, <3>4 DEF ProcOK
    <3>6. \A b \in Address : buffer'[q] # b
      BY ZenonT(60), <3>5, NoneAssumption
    <3> QED
      BY ZenonT(60), <3>1, <3>2, <3>3, <3>5, <3>6 DEF ProcOK
  <2> QED
    BY ZenonT(60), <2>2, <2>3
<1> QED
  BY ZenonT(60), <1>4, <1>6 DEF OInv

\* Fork, with room and without.
LEMMA OnlyFork == ASSUME ForkOnly \/ ExecOnly, "fork" \in calls PROVE ForkOnly /\ ~ExecOnly
<1>1. "fork" \notin {"exec"}
  BY SMTT(60)
<1> QED
  BY ZenonT(60), <1>1 DEF ExecOnly

LEMMA ForkFailsOwn ==
    ASSUME CInv, OInv, ForkOnly \/ ExecOnly, NEW p \in Proc, ForkFails(p), calls' = calls
    PROVE  OInv'
<1>1. /\ UNCHANGED <<mem_map, memory, executable, state, at, buffer, view, calls>>
      /\ state[p] = "run" /\ buffer[p] = None /\ "fork" \in calls
  BY ZenonT(60) DEF ForkFails, InUser
<1>2. Protects(p) /\ \A q \in Proc, b \in Address : FrameAt(q, b)' = FrameAt(q, b)
  BY ZenonT(60), ForkFailsSafe
<1>3. ForkOnly /\ ~ExecOnly
  BY ZenonT(60), <1>1, OnlyFork
<1>4. ~ExecOnly'
  BY ZenonT(60), <1>1, <1>3 DEF ExecOnly
<1>5. ASSUME NEW b \in Address PROVE PageOK(p, b)'
  <2>1. PageOK(p, b) /\ FrameAt(p, b)' = FrameAt(p, b)
    BY ZenonT(60), <1>2 DEF OInv
  <2>2. CASE pte[p][b] = None
    <3>1. ~Present(p, b)'
      BY ZenonT(60), <1>2, <2>2 DEF Protects, Present
    <3>2. view'[p][b] = Untouched(p, b)
      BY ZenonT(60), <1>1, <2>1, <2>2 DEF PageOK, Present
    <3>3. Untouched(p, b)' = Untouched(p, b)
      BY ZenonT(60), <1>1 DEF Untouched, OfProgram
    <3> QED
      BY ZenonT(60), <3>1, <3>2, <3>3 DEF PageOK
  <2>3. CASE pte[p][b] # None
    <3>1. Present(p, b)' /\ (pte'[p][b].w => pte[p][b].w)
      BY ZenonT(60), <1>2, <2>3 DEF Protects, Present
    <3>2. memory'[FrameAt(p, b)] = view'[p][b] /\ (pte[p][b].w => mem_map'[FrameAt(p, b)] = 1)
      BY ZenonT(60), <1>1, <2>1, <2>3 DEF PageOK, Present
    <3> QED
      BY ZenonT(60), <1>4, <2>1, <3>1, <3>2 DEF PageOK
  <2> QED
    BY ZenonT(60), <2>2, <2>3
<1>6. ASSUME NEW q \in Proc, NEW b \in Address, q # p PROVE PageOK(q, b)'
  <2>1. PageOK(q, b) /\ pte'[q][b] = pte[q][b]
    BY ZenonT(60), <1>2, <1>6 DEF OInv, Protects
  <2> QED
    BY ZenonT(60), <1>1, <2>1, PageKept
<1>7. \A q \in Proc, b \in Address : PageOK(q, b)'
  BY ZenonT(60), <1>5, <1>6
<1>8. ProcOK(p)'
  <2>1. ForkOnly' => executable'[p] = None
    BY ZenonT(60), <1>1 DEF OInv, ProcOK, ForkOnly
  <2> QED
    BY ZenonT(60), <1>1, <2>1, ProcIdle
<1>9. \A q \in Proc, b \in Address : q # p => pte'[q][b] = pte[q][b]
  BY ZenonT(60), <1>2 DEF Protects
<1>10. \A q \in Proc : ProcOK(q)'
  BY ZenonT(60), <1>1, <1>8, <1>9, OthersKept
<1> QED
  BY ZenonT(60), <1>7, <1>10 DEF OInv

LEMMA ForkOwn ==
    ASSUME CInv, OInv, ForkOnly \/ ExecOnly, NEW p \in Proc, NEW q \in Proc, Fork(p, q), calls' = calls
    PROVE  OInv'
<1>1. state[p] = "run" /\ buffer[p] = None /\ state[q] = "free" /\ "fork" \in calls
  BY ZenonT(60) DEF Fork, InUser
<1>2. Copies(p, q) /\ p # q
  BY ZenonT(60), ForkSafe
<1>3. ForkOnly /\ ~ExecOnly /\ ~ExecOnly'
  BY ZenonT(60), <1>1, OnlyFork DEF ExecOnly
<1>4. /\ executable' = [executable EXCEPT ![q] = executable[p]]
      /\ state' = [state EXCEPT ![q] = "run"]
      /\ view' = [view EXCEPT ![q] = view[p]]
      /\ UNCHANGED <<memory, at, held, buffer, kernel>>
  BY ZenonT(60) DEF Fork
<1>5. RestOK
  BY ZenonT(60), RestType DEF CInv
<1>6. /\ executable'[q] = executable[p] /\ state'[q] = "run" /\ view'[q] = view[p]
      /\ \A r \in Proc : r # q => executable'[r] = executable[r] /\ state'[r] = state[r] /\ view'[r] = view[r]
  BY SMTT(60), <1>4, <1>5 DEF RestOK
<1>7. executable[p] = None /\ executable[q] = None
  BY ZenonT(60), <1>3 DEF OInv, ProcOK
<1>8. buffer[q] = None
  BY ZenonT(60), <1>1 DEF OInv, ProcOK
<1>9. executable'[p] = None /\ executable'[q] = None /\ view'[p] = view[p]
  BY ZenonT(60), <1>2, <1>6, <1>7
<1>10. ASSUME NEW r \in {p, q}, NEW b \in Address PROVE PageOK(r, b)'
  <2>1. r \in Proc /\ executable'[r] = None /\ view'[r] = view[p]
    BY ZenonT(60), <1>6, <1>9, <1>10
  <2>2. PageOK(p, b)
    BY ZenonT(60) DEF OInv
  <2>3. CASE pte[p][b] = None
    <3>1. ~Present(r, b)'
      BY ZenonT(60), <1>2, <1>10, <2>3 DEF Copies, Present
    <3>2. view[p][b] = 0
      BY ZenonT(60), <1>7, <2>2, <2>3 DEF PageOK, Present, Untouched, OfProgram
    <3>3. Untouched(r, b)' = 0
      BY ZenonT(60), <2>1 DEF Untouched, OfProgram
    <3>4. view'[r][b] = Untouched(r, b)'
      BY ZenonT(60), <2>1, <3>2, <3>3
    <3> QED
      BY ZenonT(60), <3>1, <3>4 DEF PageOK
  <2>4. CASE pte[p][b] # None
    <3>1. pte'[r][b] # None /\ pte'[r][b].frame = pte[p][b].frame /\ ~pte'[r][b].w
      <4>1. CASE r = p
        BY ZenonT(60), <1>2, <2>4, <4>1 DEF Copies
      <4>2. CASE r = q
        BY ZenonT(60), <1>2, <2>4, <4>2 DEF Copies
      <4> QED
        BY ZenonT(60), <1>10, <4>1, <4>2
    <3>2. Present(r, b)' /\ FrameAt(r, b)' = FrameAt(p, b)
      BY ZenonT(60), <2>4, <3>1 DEF Present, FrameAt
    <3>3. memory'[FrameAt(p, b)] = view'[r][b]
      BY ZenonT(60), <1>4, <2>1, <2>2, <2>4 DEF PageOK, Present
    <3> QED
      BY ZenonT(60), <1>3, <3>1, <3>2, <3>3 DEF PageOK
  <2> QED
    BY ZenonT(60), <2>3, <2>4
<1>11. ASSUME NEW r \in Proc, NEW b \in Address, r \notin {p, q} PROVE PageOK(r, b)'
  <2>1. PageOK(r, b) /\ pte'[r][b] = pte[r][b] /\ view'[r][b] = view[r][b] /\ executable'[r] = executable[r]
    BY ZenonT(60), <1>2, <1>6, <1>11 DEF OInv, Copies
  <2>2. ASSUME Present(r, b), mem_map[FrameAt(r, b)] = 1 PROVE mem_map'[FrameAt(r, b)] = 1
    <3>1. \A s \in Proc, c \in Address : FrameAt(s, c) = FrameAt(r, b) => s = r /\ c = b
      BY ZenonT(60), <2>2, AloneIn
    <3>2. FrameAt(r, b) \in Frame
      BY ZenonT(60), <2>2, PageUsed
    <3>3. Pages(p, FrameAt(r, b)) = {}
      <4>1. ASSUME NEW c \in Address, Present(p, c), pte[p][c].frame = FrameAt(r, b) PROVE FALSE
        <5>1. FrameAt(p, c) = FrameAt(r, b)
          BY ZenonT(60), <4>1 DEF FrameAt, Present
        <5> QED
          BY ZenonT(60), <1>11, <3>1, <5>1
      <4> QED
        BY ZenonT(60), <4>1 DEF Pages
    <3>4. PICK new : NewTables(p, q, new)
      <4>1. PICK new \in [Tables(p) -> Free] :
                /\ \A t, u \in Tables(p) : new[t] = new[u] => t = u
                /\ dir' = [dir EXCEPT ![q] = [t \in Table |-> IF t \in Tables(p) THEN new[t] ELSE None]]
                /\ mem_map' = [f \in Frame |->
                                  IF \E t \in Tables(p) : new[t] = f THEN 1
                                  ELSE mem_map[f] + Cardinality(Pages(p, f))]
        BY ZenonT(60) DEF Fork
      <4>2. NewTables(p, q, new)
        BY ZenonT(60), <4>1 DEF NewTables
      <4> QED
        BY ZenonT(60), <4>2
    <3>5. dir[q] = NoTables /\ pte[q] = NoPages
      BY ZenonT(60), <1>1 DEF CInv, Phases, Phase
    <3>6. mem_map'[FrameAt(r, b)] = mem_map[FrameAt(r, b)]
      BY ZenonT(60), <1>2, <1>4, <2>2, <3>3, <3>4, <3>5, ForkCounts
    <3> QED
      BY ZenonT(60), <2>2, <3>6
  <2>3. memory' = memory
    BY ZenonT(60), <1>4
  <2> QED
    BY ZenonT(60), <2>1, <2>2, <2>3, PageKept
<1>12. \A r \in Proc, b \in Address : PageOK(r, b)'
  BY ZenonT(60), <1>10, <1>11
<1>13. ASSUME NEW r \in Proc PROVE ProcOK(r)'
  <2>1. CASE r = q
    BY ZenonT(60), <1>4, <1>6, <1>8, <1>9, <2>1, ProcIdle
  <2>2. CASE r = p
    <3>1. state'[p] = "run" /\ buffer'[p] = None
      BY ZenonT(60), <1>1, <1>2, <1>4, <1>6
    <3> QED
      BY ZenonT(60), <1>9, <2>2, <3>1, ProcIdle
  <2>3. CASE r \notin {p, q}
    <3>1. ProcOK(r) /\ \A b \in Address : pte'[r][b] = pte[r][b]
      BY ZenonT(60), <1>2, <2>3 DEF OInv, Copies
    <3>2. executable'[r] = executable[r] /\ state'[r] = state[r] /\ at'[r] = at[r] /\ buffer'[r] = buffer[r]
      BY ZenonT(60), <1>4, <1>6, <2>3
    <3> QED
      BY ZenonT(60), <3>1, <3>2, ProcKept
  <2> QED
    BY ZenonT(60), <2>1, <2>2, <2>3
<1> QED
  BY ZenonT(60), <1>12, <1>13 DEF OInv

-----------------------------------------------------------------------------
LEMMA InitOwn == Init => MInv
<1> SUFFICES ASSUME Init PROVE MInv
  BY ZenonT(60)
<1>1. CInv
  BY ZenonT(60), InitSafe
<1>2. /\ pte = [p \in Proc |-> NoPages] /\ executable = [p \in Proc |-> None] /\ state = [p \in Proc |-> "run"]
      /\ at = [p \in Proc |-> None] /\ buffer = [p \in Proc |-> None] /\ view = [p \in Proc |-> Blank]
  BY ZenonT(60) DEF Init
<1>3. ASSUME NEW p \in Proc, NEW a \in Address PROVE PageOK(p, a)
  <2>1. pte[p][a] = None /\ view[p][a] = 0 /\ executable[p] = None
    BY ZenonT(60), <1>2 DEF NoPages, Blank
  <2> QED
    BY ZenonT(60), <2>1 DEF PageOK, Present, Untouched, OfProgram
<1>4. ASSUME NEW p \in Proc PROVE ProcOK(p)
  <2>1. state[p] = "run" /\ buffer[p] = None /\ executable[p] = None
    BY ZenonT(60), <1>2
  <2>2. state[p] # "exec" /\ state[p] # "load"
    BY SMTT(60), <2>1
  <2>3. \A b \in Address : buffer[p] # b
    BY ZenonT(60), <2>1, NoneAssumption
  <2> QED
    BY ZenonT(60), <2>1, <2>2, <2>3 DEF ProcOK
<1> QED
  BY ZenonT(60), <1>1, <1>3, <1>4 DEF MInv, OInv

LEMMA AddressOwn ==
    ASSUME CInv, OInv, ForkOnly \/ ExecOnly, calls' = calls, NEW p \in Proc, NEW a \in Address,
           \/ DoWpPage(p, a) \/ VerifyArea(p, a)
           \/ OutOfMemory(p, a) \/ GetEmptyPage(p, a) \/ SharePage(p, a) \/ StartLoad(p, a)
           \/ \E v \in Value : UserWrite(p, a, v)
    PROVE  OInv'
<1>1. CASE DoWpPage(p, a)
  BY ZenonT(60), <1>1, DoWpPageOwn
<1>2. CASE VerifyArea(p, a)
  BY ZenonT(60), <1>2, VerifyAreaOwn
<1>3. CASE OutOfMemory(p, a)
  BY ZenonT(60), <1>3, ExitsOwn DEF OutOfMemory
<1>4. CASE GetEmptyPage(p, a)
  BY ZenonT(60), <1>4, GetEmptyPageOwn
<1>5. CASE SharePage(p, a)
  BY ZenonT(60), <1>5, SharePageOwn
<1>6. CASE StartLoad(p, a)
  BY ZenonT(60), <1>6, StartLoadOwn
<1>7. ASSUME NEW v \in Value, UserWrite(p, a, v) PROVE OInv'
  BY ZenonT(60), <1>7, UserWriteOwn
<1> QED
  BY ZenonT(60), <1>1, <1>2, <1>3, <1>4, <1>5, <1>6, <1>7

LEMMA NextOwn == MInv /\ [Next]_vars => MInv'
<1> SUFFICES ASSUME MInv, [Next]_vars PROVE MInv'
  BY ZenonT(60)
<1>1. CInv /\ CInv'
  BY ZenonT(60), NextSafe DEF MInv
<1>2. calls' = calls
  BY ZenonT(60) DEF Next, vars
<1>3. SUFFICES ASSUME ForkOnly \/ ExecOnly PROVE OInv'
  BY ZenonT(60), <1>1, <1>2 DEF MInv, ForkOnly, ExecOnly
<1>4. OInv
  BY ZenonT(60), <1>3 DEF MInv
<1>5. CASE UNCHANGED vars
  <2>1. UNCHANGED <<mem_map, memory, pte, executable, state, at, buffer, view>>
    BY ZenonT(60), <1>5 DEF vars
  <2>2. ASSUME NEW q \in Proc, NEW b \in Address PROVE PageOK(q, b)'
    <3>1. PageOK(q, b)
      BY ZenonT(60), <1>4 DEF OInv
    <3> QED
      BY ZenonT(60), <1>2, <2>1, <3>1, PageKept
  <2>3. ASSUME NEW q \in Proc PROVE ProcOK(q)'
    <3>1. ProcOK(q)
      BY ZenonT(60), <1>4 DEF OInv
    <3> QED
      BY ZenonT(60), <1>2, <2>1, <3>1, ProcKept
  <2> QED
    BY ZenonT(60), <2>2, <2>3 DEF OInv
<1>6. CASE Next
  <2>1. ASSUME NEW p \in Proc, NEW a \in Address,
               \/ DoWpPage(p, a) \/ VerifyArea(p, a)
               \/ OutOfMemory(p, a) \/ GetEmptyPage(p, a) \/ SharePage(p, a) \/ StartLoad(p, a)
               \/ \E v \in Value : UserWrite(p, a, v)
        PROVE  OInv'
    BY ZenonT(60), <1>1, <1>2, <1>3, <1>4, <2>1, AddressOwn
  <2>2. ASSUME NEW p \in Proc, NEW v \in Value, KernelWrite(p, v) PROVE OInv'
    BY ZenonT(60), <1>1, <1>2, <1>3, <1>4, <2>2, KernelWriteOwn
  <2>3. ASSUME NEW p \in Proc, EndLoad(p) \/ ForkFails(p) \/ ExecFrees(p) \/ Exit(p) PROVE OInv'
    <3>1. ~ExecFrees(p)
      BY ZenonT(60), <1>4 DEF ExecFrees, OInv, ProcOK
    <3> QED
      BY ZenonT(60), <1>1, <1>2, <1>3, <1>4, <2>3, <3>1, EndLoadOwn, ForkFailsOwn, ExitsOwn DEF Exit
  <2>4. ASSUME NEW p \in Proc, NEW q \in Proc, Fork(p, q) PROVE OInv'
    BY ZenonT(60), <1>1, <1>2, <1>3, <1>4, <2>4, ForkOwn
  <2>5. ASSUME NEW p \in Proc, NEW e \in Executable, Exec(p, e) \/ ExecCloses(p, e) PROVE OInv'
    <3>1. "cloexec" \notin {"fork", "read"} /\ "cloexec" \notin {"exec"}
      BY SMTT(60)
    <3>2. ~ExecCloses(p, e)
      BY ZenonT(60), <1>3, <3>1 DEF ExecCloses, ForkOnly, ExecOnly
    <3> QED
      BY ZenonT(60), <1>1, <1>2, <1>4, <2>5, <3>2, ExecOwn
  <2>6. CASE KernelTakes \/ KernelFrees
    BY ZenonT(60), <1>1, <1>2, <1>4, <2>6, KernelOwn
  <2> QED
    BY ZenonT(60), <1>6, <2>1, <2>2, <2>3, <2>4, <2>5, <2>6 DEF Next
<1> QED
  BY ZenonT(60), <1>5, <1>6

\* While programs fork and do not exec (un_wp_page copies what is shared before it
\* is written) or exec and do not fork (try_to_share shares only what is clean),
\* every page a process has mapped holds what that process should find there, for
\* any number of processes, frames and tables and whatever runs out of memory.
THEOREM OwnMemoryHolds == Spec => []OwnMemory
<1>1. MInv => OwnMemory
  <2>1. ASSUME MInv, ForkOnly \/ ExecOnly, NEW p \in Proc, NEW a \in Address, Present(p, a)
        PROVE  memory[pte[p][a].frame] = view[p][a]
    <3>1. PageOK(p, a)
      BY ZenonT(60), <2>1 DEF MInv, OInv
    <3> QED
      BY ZenonT(60), <2>1, <3>1 DEF PageOK, FrameAt, Present
  <2> QED
    BY ZenonT(60), <2>1 DEF OwnMemory, ForkOnly, ExecOnly
<1> QED
  BY InitOwn, NextOwn, <1>1, PTL DEF Spec
=============================================================================
