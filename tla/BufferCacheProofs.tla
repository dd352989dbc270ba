------------------------- MODULE BufferCacheProofs --------------------------
(***************************************************************************)
(* For any number of processes, buffers, blocks and request slots: no      *)
(* block is cached twice, a buffer is reused only while it is unused,      *)
(* unlocked and clean, every buffer lock has exactly one owner, readers    *)
(* see what was last written, and nothing written is lost.                 *)
(*                                                                         *)
(* First the inductive invariant IInv of the control, and that every step  *)
(* of a process preserves it: getblk and its search for a victim;          *)
(* make_request, which locks the buffer and waits for a slot; sync_dev and *)
(* the start of a call; what bread and breada do with the buffer getblk    *)
(* gives them; its use and its release.                                    *)
(*                                                                         *)
(* Then what the buffers, the requests and the disk hold: the invariant    *)
(* behind ReadsLatest and NothingLost, preserved by every step on top of   *)
(* IInv.  block_write of a whole block, "full", is left out: it puts data  *)
(* into a buffer that is not up to date.  Then the device's steps, and the *)
(* theorems.                                                               *)
(***************************************************************************)
EXTENDS BufferCache, FiniteSetTheorems, TLAPS

\* Where a process is, its local variables are set.
Ctl ==
    \A p \in Proc :
        /\ pc[p] \in {"getblk", "hashed", "victim", "got"} \/ dev[p] # None => want[p] # <<>>
        /\ pc[p] \in {"hashed", "victim", "got"} \/ dev[p] # None => bh[p] \in Buffer
        /\ pc[p] \in {"wait", "use", "brelse"} \/ rw[p] = "READ" => keep[p] \in Buffer
        /\ dev[p] # None => pc[p] \in {"sync", "lock", "slot"}
        /\ rw[p] = "READ" => dev[p] = None
        /\ pc[p] \in {"lock", "slot"} <=> rw[p] # None

\* A buffer that is dirty, locked or referred to has a block.
HasBlock ==
    /\ \A b \in Buffer : b_dirt[b] \/ b_lock[b] => block[b] # None
    /\ \A p \in Proc : keep[p] # None => block[keep[p]] # None
    /\ \A p \in Proc : pc[p] \in {"hashed", "got"} => block[bh[p]] # None

IInv ==
    /\ TypeOK /\ Ctl /\ HasBlock
    /\ OnlyOneOfItsKind /\ LockHasOneOwner /\ CountIsReferences

USE NBAssumption, NoneAssumption

LEMMA ScannedType == ASSUME NEW n \in Nat \ {0} PROVE Scanned(n) \in Buffer
  BY SMTT(60) DEF Scanned, Buffer

LEMMA BufferNotNone == None \notin Buffer
  BY SMTT(60) DEF Buffer

LEMMA TargetType ==
    ASSUME TypeOK, Ctl, NEW p \in Proc, pc[p] \in {"lock", "slot"}
    PROVE  Target(p) \in Buffer
<1>1. i[p] \in Nat \ {0}
  BY ZenonT(60) DEF TypeOK
<1>2. rw[p] \in {"READ", "WRITE"}
  BY ZenonT(60) DEF TypeOK, Ctl
<1> QED
  BY ZenonT(60), <1>1, <1>2, ScannedType DEF Target, Ctl

\* The lock's owners stay as they are when nobody starts or stops looking for a
\* slot and no request comes or goes.
LEMMA LockFrame ==
    ASSUME LockHasOneOwner, UNCHANGED <<request, b_lock>>,
           \A q \in Proc : pc'[q] = "slot" <=> pc[q] = "slot",
           \A q \in Proc : pc[q] = "slot" =>
               rw'[q] = rw[q] /\ i'[q] = i[q] /\ keep'[q] = keep[q]
    PROVE  LockHasOneOwner'
<1>1. ASSUME NEW b \in Buffer PROVE InRequest(b)' = InRequest(b)
  BY ZenonT(60) DEF InRequest
<1>2. ASSUME NEW b \in Buffer PROVE Locking(b)' = Locking(b)
  BY ZenonT(60) DEF Locking, Target, Scanned
<1> QED
  BY SMTT(60), <1>1, <1>2 DEF LockHasOneOwner, OneOwner

LEMMA RefsFinite ==
    ASSUME NEW b
    PROVE  /\ IsFiniteSet(Keepers(b)) /\ Cardinality(Keepers(b)) \in Nat
           /\ IsFiniteSet(Seekers(b)) /\ Cardinality(Seekers(b)) \in Nat
           /\ IsFiniteSet(Keepers(b)') /\ Cardinality(Keepers(b)') \in Nat
           /\ IsFiniteSet(Seekers(b)') /\ Cardinality(Seekers(b)') \in Nat
<1>1. /\ Keepers(b) \in SUBSET Proc /\ Seekers(b) \in SUBSET Proc
      /\ Keepers(b)' \in SUBSET Proc /\ Seekers(b)' \in SUBSET Proc
  BY ZenonT(60) DEF Keepers, Seekers
<1> QED
  BY ZenonT(60), <1>1, ProcAssumption, FS_Subset, FS_CardinalityType

\* The references stay as they are when nobody takes one or gives one up.
LEMMA CountFrame ==
    ASSUME CountIsReferences, b_count' = b_count,
           \A q \in Proc : keep'[q] = keep[q],
           \A q \in Proc : pc'[q] \in {"hashed", "got"} <=> pc[q] \in {"hashed", "got"},
           \A q \in Proc : pc[q] \in {"hashed", "got"} => bh'[q] = bh[q]
    PROVE  CountIsReferences'
<1>1. ASSUME NEW b \in Buffer
      PROVE  Keepers(b)' = Keepers(b) /\ Seekers(b)' = Seekers(b)
  BY ZenonT(60) DEF Keepers, Seekers
<1> QED
  BY ZenonT(60), <1>1 DEF CountIsReferences

\* One more process looks at b.
LEMMA SeekerAdded ==
    ASSUME CountIsReferences, NEW p \in Proc, NEW b \in Buffer,
           b_count \in [Buffer -> Nat],
           b_count' = [b_count EXCEPT ![b] = b_count[b] + 1],
           keep' = keep,
           pc[p] \notin {"hashed", "got"}, pc'[p] \in {"hashed", "got"}, bh'[p] = b,
           \A q \in Proc \ {p} : pc'[q] = pc[q] /\ bh'[q] = bh[q]
    PROVE  CountIsReferences'
<1> SUFFICES ASSUME NEW c \in Buffer
             PROVE  b_count'[c] = Cardinality(Keepers(c)') + Cardinality(Seekers(c)')
  BY ZenonT(60) DEF CountIsReferences
<1>1. Keepers(c)' = Keepers(c)
  BY ZenonT(60) DEF Keepers
<1>2. CASE c = b
  <2>1. Seekers(b)' = Seekers(b) \cup {p} /\ p \notin Seekers(b)
    BY ZenonT(60) DEF Seekers
  <2>2. IsFiniteSet(Seekers(b))
    BY ZenonT(60), RefsFinite
  <2>3. Cardinality(Seekers(b) \cup {p}) = Cardinality(Seekers(b)) + 1
    BY ZenonT(60), <2>1, <2>2, FS_AddElement
  <2> QED
    BY SMTT(60), <1>1, <1>2, <2>1, <2>3, RefsFinite DEF CountIsReferences
<1>3. CASE c # b
  <2>1. Seekers(c)' = Seekers(c)
    BY ZenonT(60), <1>3 DEF Seekers
  <2> QED
    BY ZenonT(60), <1>1, <1>3, <2>1 DEF CountIsReferences
<1> QED
  BY ZenonT(60), <1>2, <1>3

\* One process less looks at b; there was one, so b_count was positive.
LEMMA SeekerRemoved ==
    ASSUME CountIsReferences, NEW p \in Proc, NEW b \in Buffer,
           b_count \in [Buffer -> Nat],
           b_count' = [b_count EXCEPT ![b] = b_count[b] - 1],
           keep' = keep,
           pc[p] \in {"hashed", "got"}, bh[p] = b, pc'[p] \notin {"hashed", "got"},
           \A q \in Proc \ {p} : pc'[q] = pc[q] /\ bh'[q] = bh[q]
    PROVE  CountIsReferences' /\ b_count' \in [Buffer -> Nat]
<1>0. p \in Seekers(b)
  BY ZenonT(60) DEF Seekers
<1>1. Cardinality(Seekers(b)) > 0
  BY SMTT(60), <1>0, RefsFinite, FS_EmptySet
<1>2. b_count' \in [Buffer -> Nat]
  BY SMTT(60), <1>1, RefsFinite DEF CountIsReferences
<1>3. ASSUME NEW c \in Buffer
      PROVE  b_count'[c] = Cardinality(Keepers(c)') + Cardinality(Seekers(c)')
  <2>1. Keepers(c)' = Keepers(c)
    BY ZenonT(60) DEF Keepers
  <2>2. CASE c = b
    <3>1. Seekers(b)' = Seekers(b) \ {p}
      BY ZenonT(60) DEF Seekers
    <3>2. IsFiniteSet(Seekers(b))
      BY ZenonT(60), RefsFinite
    <3>3. Cardinality(Seekers(b) \ {p}) = Cardinality(Seekers(b)) - 1
      BY ZenonT(60), <1>0, <3>2, FS_RemoveElement
    <3> QED
      BY SMTT(60), <2>1, <2>2, <3>1, <3>3, RefsFinite DEF CountIsReferences
  <2>3. CASE c # b
    <3>1. Seekers(c)' = Seekers(c)
      BY ZenonT(60), <2>3 DEF Seekers
    <3> QED
      BY ZenonT(60), <2>1, <2>3, <3>1 DEF CountIsReferences
  <2> QED
    BY ZenonT(60), <2>2, <2>3
<1> QED
  BY ZenonT(60), <1>2, <1>3 DEF CountIsReferences

LEMMA InitIInv == Init => IInv
<1> SUFFICES ASSUME Init PROVE IInv
  BY ZenonT(60)
<1>1. Zero \in Value
  BY ZenonT(60), ValueAssumption DEF Zero
<1>2. TypeOK
  <2>1. want \in [Proc -> Seq(Block)]
    BY SMTT(60) DEF Init
  <2>2. /\ data \in [Buffer -> Value]
        /\ disk \in [Block -> Value]
        /\ latest \in [Block -> Value]
    BY ZenonT(60), <1>1 DEF Init
  <2>3. free_list \in [1..NB -> Buffer]
    BY ZenonT(60) DEF Init, Buffer
  <2>4. request \in [Slots -> {None} \cup Request]
    BY ZenonT(60) DEF Init
  <2>5. /\ block \in [Buffer -> Block \cup {None}]
        /\ b_count \in [Buffer -> Nat]
        /\ b_lock \in [Buffer -> BOOLEAN]
        /\ b_dirt \in [Buffer -> BOOLEAN]
        /\ b_uptodate \in [Buffer -> BOOLEAN]
        /\ failed \subseteq Block
    BY ZenonT(60) DEF Init
  <2>6. /\ cpu \in Proc \cup {None}
        /\ pc \in [Proc -> {"idle", "getblk", "hashed", "victim", "sync", "lock", "slot",
                            "got", "wait", "use", "brelse"}]
        /\ wait \in [Proc -> Queue \cup {None}]
        /\ op \in [Proc -> Ops \cup {None}]
        /\ bh \in [Proc -> Buffer \cup {None}]
        /\ keep \in [Proc -> Buffer \cup {None}]
        /\ dev \in [Proc -> Device \cup {None}]
        /\ i \in [Proc -> Nat \ {0}]
        /\ rw \in [Proc -> {"READ", "WRITE", None}]
    BY SMTT(60) DEF Init
  <2> QED
    BY ZenonT(60), <2>1, <2>2, <2>3, <2>4, <2>5, <2>6 DEF TypeOK
<1>3. Ctl /\ HasBlock /\ OnlyOneOfItsKind
  BY ZenonT(60), NoneAssumption DEF Init, Ctl, HasBlock, OnlyOneOfItsKind
<1>4. LockHasOneOwner
  BY ZenonT(60) DEF Init, LockHasOneOwner, OneOwner, InRequest, Locking
<1>5. CountIsReferences
  <2> SUFFICES ASSUME NEW b \in Buffer
               PROVE  b_count[b] = Cardinality(Keepers(b)) + Cardinality(Seekers(b))
    BY ZenonT(60) DEF CountIsReferences
  <2>1. Keepers(b) = {} /\ Seekers(b) = {}
    BY ZenonT(60), BufferNotNone DEF Init, Keepers, Seekers
  <2> QED
    BY SMTT(60), <2>1, FS_EmptySet DEF Init
<1> QED
  BY ZenonT(60), <1>2, <1>3, <1>4, <1>5 DEF IInv

\* Sleeping changes nothing but who has the CPU.
LEMMA SleepOnIInv ==
    ASSUME IInv, NEW p \in Proc, NEW q \in Queue, SleepOn(p, q)
    PROVE  IInv'
<1> USE DEF SleepOn, bufferVars, deviceVars, historyVars, localVars
<1>1. TypeOK'
  BY ZenonT(60) DEF IInv, TypeOK
<1>2. Ctl' /\ HasBlock' /\ OnlyOneOfItsKind'
  BY ZenonT(60) DEF IInv, Ctl, HasBlock, OnlyOneOfItsKind
<1>3. LockHasOneOwner' /\ CountIsReferences'
  BY ZenonT(60), LockFrame, CountFrame DEF IInv
<1> QED
  BY ZenonT(60), <1>1, <1>2, <1>3 DEF IInv

LEMMA QueueType == Buffer \subseteq Queue /\ buffer_wait \in Queue /\ wait_for_request \in Queue
  BY SMTT(60) DEF Buffer, Queue, buffer_wait, wait_for_request

LEMMA AwakenedType ==
    ASSUME TypeOK, NEW queues PROVE Awakened(queues) \in [Proc -> Queue \cup {None}]
  BY ZenonT(60) DEF TypeOK, Awakened

\* A request for b in slot r that was empty.
LEMMA RequestAdded ==
    ASSUME IInv, NEW r \in Slots, NEW cmd \in {"READ", "WRITE"}, NEW b \in Buffer,
           request[r] = None, AddRequest(r, cmd, b)
    PROVE  /\ request' \in [Slots -> {None} \cup Request]
           /\ b_dirt' \in [Buffer -> BOOLEAN]
           /\ \A c \in Buffer : b_dirt'[c] => b_dirt[c]
           /\ InRequest(b)' = InRequest(b) \cup {r}
           /\ \A c \in Buffer \ {b} : InRequest(c)' = InRequest(c)
<1> DEFINE rec == [bh |-> b, cmd |-> cmd, moved |-> FALSE]
<1>1. rec \in Request
  BY ZenonT(60) DEF Request
<1>2. rec # None
  BY ZenonT(60), <1>1, RecordAssumption
<1>3. rec.bh = b
  BY ZenonT(60)
<1>4. request' = [request EXCEPT ![r] = rec] /\ b_dirt' = [b_dirt EXCEPT ![b] = FALSE]
  BY ZenonT(60) DEF AddRequest
<1> HIDE DEF rec
<1>5. request' \in [Slots -> {None} \cup Request] /\ b_dirt' \in [Buffer -> BOOLEAN]
  BY ZenonT(60), <1>1, <1>4 DEF IInv, TypeOK
<1>6. \A c \in Buffer : b_dirt'[c] => b_dirt[c]
  BY ZenonT(60), <1>4 DEF IInv, TypeOK
<1>7. \A s \in Slots : request'[s] = IF s = r THEN rec ELSE request[s]
  BY ZenonT(60), <1>4 DEF IInv, TypeOK
<1>8. InRequest(b)' = InRequest(b) \cup {r}
  BY ZenonT(60), <1>2, <1>3, <1>7 DEF InRequest
<1>9. \A c \in Buffer \ {b} : InRequest(c)' = InRequest(c)
  BY ZenonT(60), <1>2, <1>3, <1>7 DEF InRequest
<1> QED
  BY ZenonT(60), <1>5, <1>6, <1>8, <1>9

LEMMA EmptySlot ==
    ASSUME NEW cmd, NEW r \in Empty(cmd) PROVE r \in Slots /\ request[r] = None
<1>1. WriteSlots \subseteq Slots
  BY SMTT(60), RequestAssumption DEF WriteSlots, Slots
<1> QED
  BY ZenonT(60), <1>1 DEF Empty

\* Only the owner of b changes.
LEMMA LockStep ==
    ASSUME LockHasOneOwner, NEW b \in Buffer, OneOwner(b)',
           \A c \in Buffer \ {b} : /\ b_lock'[c] = b_lock[c]
                                   /\ InRequest(c)' = InRequest(c)
                                   /\ Locking(c)' = Locking(c)
    PROVE  LockHasOneOwner'
  BY SMTT(60) DEF LockHasOneOwner, OneOwner

LEMMA TailType ==
    ASSUME TypeOK, NEW p \in Proc, want[p] # <<>>,
           want' = [want EXCEPT ![p] = Tail(want[p])]
    PROVE  /\ want' \in [Proc -> Seq(Block)] /\ want'[p] = Tail(want[p])
           /\ \A q \in Proc \ {p} : want'[q] = want[q]
<1>1. want \in [Proc -> Seq(Block)]
  BY ZenonT(60) DEF TypeOK
<1>2. Tail(want[p]) \in Seq(Block)
  BY SMTT(60), <1>1
<1> QED
  BY ZenonT(60), <1>1, <1>2
-----------------------------------------------------------------------------
USE NBAssumption, NoneAssumption

LEMMA GetblkIInv ==
    ASSUME IInv, NEW p \in Proc, Getblk(p)
    PROVE  IInv'
<1> DEFINE k == Head(want[p])
<1>1. k \in Block /\ pc[p] = "getblk"
  BY SMTT(60) DEF IInv, TypeOK, Ctl, Getblk, At
<1>2. ASSUME NEW b \in Found(k),
             b_count' = [b_count EXCEPT ![b] = @ + 1],
             bh' = [bh EXCEPT ![p] = b],
             Goto(p, "hashed"),
             UNCHANGED <<block, b_lock, b_dirt, b_uptodate, data, free_list,
                         deviceVars, historyVars, op, want, keep, dev, i, rw>>
      PROVE IInv'
  <2> USE DEF deviceVars, historyVars, Goto
  <2>0. b \in Buffer /\ block[b] = k /\ k # None
    BY ZenonT(60), <1>1 DEF Found, Block
  <2>1. TypeOK'
    BY SMTT(60), <1>1, <1>2, <2>0 DEF IInv, TypeOK
  <2>2. Ctl'
    BY ZenonT(60), <1>1, <1>2, <2>0 DEF IInv, TypeOK, Ctl
  <2>3. HasBlock' /\ OnlyOneOfItsKind'
    BY ZenonT(60), <1>1, <1>2, <2>0 DEF IInv, TypeOK, HasBlock, OnlyOneOfItsKind
  <2>4. LockHasOneOwner'
    BY ZenonT(60), <1>1, <1>2, <2>0, LockFrame DEF IInv, TypeOK
  <2>5. CountIsReferences'
    BY ZenonT(60), <1>1, <1>2, <2>0, SeekerAdded DEF IInv, TypeOK
  <2> QED
    BY ZenonT(60), <2>1, <2>2, <2>3, <2>4, <2>5 DEF IInv
<1>3. ASSUME NEW b \in Victims,
             bh' = [bh EXCEPT ![p] = b],
             Goto(p, "victim"),
             UNCHANGED <<bufferVars, deviceVars, historyVars, op, want, keep, dev, i, rw>>
      PROVE IInv'
  <2> USE DEF bufferVars, deviceVars, historyVars, Goto
  <2>0. b \in Buffer
    BY SMTT(60) DEF Victims, IInv, TypeOK
  <2>1. TypeOK'
    BY ZenonT(60), <1>1, <1>3, <2>0 DEF IInv, TypeOK
  <2>2. Ctl'
    BY ZenonT(60), <1>1, <1>3, <2>0 DEF IInv, TypeOK, Ctl
  <2>3. HasBlock' /\ OnlyOneOfItsKind'
    BY ZenonT(60), <1>1, <1>3, <2>0 DEF IInv, TypeOK, HasBlock, OnlyOneOfItsKind
  <2>4. LockHasOneOwner'
    BY ZenonT(60), <1>1, <1>3, <2>0, LockFrame DEF IInv, TypeOK
  <2>5. CountIsReferences'
    BY ZenonT(60), <1>1, <1>3, <2>0, CountFrame DEF IInv, TypeOK
  <2> QED
    BY ZenonT(60), <2>1, <2>2, <2>3, <2>4, <2>5 DEF IInv
<1>4. CASE SleepOn(p, buffer_wait)
  BY ZenonT(60), <1>4, QueueType, SleepOnIInv
<1> QED
  BY ZenonT(60), <1>2, <1>3, <1>4 DEF Getblk

LEMMA HashedIInv ==
    ASSUME IInv, NEW p \in Proc, Hashed(p)
    PROVE  IInv'
<1> DEFINE b == bh[p]
<1>1. b \in Buffer /\ pc[p] = "hashed"
  BY ZenonT(60) DEF IInv, Ctl, Hashed, At
<1>2. CASE SleepOn(p, b)
  BY ZenonT(60), <1>1, <1>2, QueueType, SleepOnIInv
<1>3. CASE Moves(p, "got")
  <2> USE DEF Moves, Goto, bufferVars, deviceVars, historyVars, localVars
  <2>1. TypeOK'
    BY ZenonT(60), <1>1, <1>3 DEF IInv, TypeOK
  <2>2. Ctl'
    BY ZenonT(60), <1>1, <1>3 DEF IInv, TypeOK, Ctl
  <2>3. HasBlock' /\ OnlyOneOfItsKind'
    BY ZenonT(60), <1>1, <1>3 DEF IInv, TypeOK, HasBlock, OnlyOneOfItsKind
  <2>4. LockHasOneOwner'
    BY ZenonT(60), <1>1, <1>3, LockFrame DEF IInv, TypeOK
  <2>5. CountIsReferences'
    BY ZenonT(60), <1>1, <1>3, CountFrame DEF IInv, TypeOK
  <2> QED
    BY ZenonT(60), <2>1, <2>2, <2>3, <2>4, <2>5 DEF IInv
<1>4. CASE /\ b_count' = [b_count EXCEPT ![b] = @ - 1]
           /\ Goto(p, "getblk")
           /\ UNCHANGED <<block, b_lock, b_dirt, b_uptodate, data, free_list,
                          deviceVars, historyVars, localVars>>
  <2> USE DEF Goto, deviceVars, historyVars, localVars
  <2>0. CountIsReferences' /\ b_count' \in [Buffer -> Nat]
    BY ZenonT(60), <1>1, <1>4, SeekerRemoved DEF IInv, TypeOK
  <2>1. TypeOK'
    BY ZenonT(60), <1>1, <1>4, <2>0 DEF IInv, TypeOK
  <2>2. Ctl'
    BY ZenonT(60), <1>1, <1>4 DEF IInv, TypeOK, Ctl
  <2>3. HasBlock' /\ OnlyOneOfItsKind'
    BY ZenonT(60), <1>1, <1>4 DEF IInv, TypeOK, HasBlock, OnlyOneOfItsKind
  <2>4. LockHasOneOwner'
    BY ZenonT(60), <1>1, <1>4, LockFrame DEF IInv, TypeOK
  <2>5. CountIsReferences'
    BY ZenonT(60), <2>0
  <2> QED
    BY ZenonT(60), <2>1, <2>2, <2>3, <2>4, <2>5 DEF IInv
<1> QED
  BY ZenonT(60), <1>2, <1>3, <1>4 DEF Hashed

LEMMA VictimIInv ==
    ASSUME IInv, NEW p \in Proc, Victim(p)
    PROVE  IInv'
<1> DEFINE b == bh[p]
           k == Head(want[p])
<1>1. b \in Buffer /\ pc[p] = "victim" /\ k \in Block /\ k # None
  BY SMTT(60) DEF IInv, TypeOK, Ctl, Victim, At, Block
<1>2. CASE SleepOn(p, b)
  BY ZenonT(60), <1>1, <1>2, QueueType, SleepOnIInv
<1>3. CASE Moves(p, "getblk")
  <2> USE DEF Moves, Goto, bufferVars, deviceVars, historyVars, localVars
  <2>1. TypeOK'
    BY ZenonT(60), <1>1, <1>3 DEF IInv, TypeOK
  <2>2. Ctl'
    BY ZenonT(60), <1>1, <1>3 DEF IInv, TypeOK, Ctl
  <2>3. HasBlock' /\ OnlyOneOfItsKind'
    BY ZenonT(60), <1>1, <1>3 DEF IInv, TypeOK, HasBlock, OnlyOneOfItsKind
  <2>4. LockHasOneOwner'
    BY ZenonT(60), <1>1, <1>3, LockFrame DEF IInv, TypeOK
  <2>5. CountIsReferences'
    BY ZenonT(60), <1>1, <1>3, CountFrame DEF IInv, TypeOK
  <2> QED
    BY ZenonT(60), <2>1, <2>2, <2>3, <2>4, <2>5 DEF IInv
<1>4. CASE /\ b_dirt[b]
           /\ dev' = [dev EXCEPT ![p] = block[b][1]]
           /\ Goto(p, "sync")
           /\ UNCHANGED <<bufferVars, deviceVars, historyVars, op, want, bh, keep, i, rw>>
  <2> USE DEF Goto, bufferVars, deviceVars, historyVars
  <2>0. block[b] \in Block /\ block[b][1] \in Device
    BY SMTT(60), <1>1, <1>4 DEF IInv, TypeOK, HasBlock, Block
  <2>1. TypeOK'
    BY ZenonT(60), <1>1, <1>4, <2>0 DEF IInv, TypeOK
  <2>2. Ctl'
    BY ZenonT(60), <1>1, <1>4, <2>0 DEF IInv, TypeOK, Ctl
  <2>3. HasBlock' /\ OnlyOneOfItsKind'
    BY SMTT(60), <1>1, <1>4, <2>0 DEF IInv, TypeOK, HasBlock, OnlyOneOfItsKind
  <2>4. LockHasOneOwner'
    BY ZenonT(60), <1>1, <1>4, <2>0, LockFrame DEF IInv, TypeOK
  <2>5. CountIsReferences'
    BY ZenonT(60), <1>1, <1>4, <2>0, CountFrame DEF IInv, TypeOK
  <2> QED
    BY ZenonT(60), <2>1, <2>2, <2>3, <2>4, <2>5 DEF IInv
<1>5. CASE /\ ~b_lock[b] /\ ~Taken(b) /\ ~Appeared(k)
           /\ Reuse(b, k)
           /\ Goto(p, "got")
           /\ UNCHANGED <<deviceVars, historyVars, localVars>>
  <2> USE DEF Goto, deviceVars, historyVars, localVars, Reuse
  <2>a. b_count[b] = 0 /\ \A c \in Buffer : block[c] # k
    BY SMTT(60), <1>1, <1>5 DEF Taken, Appeared, Found, IInv, TypeOK
  <2>b. free_list' \in [1..NB -> Buffer]
    BY SMTT(60), <1>1, <1>5 DEF MovedToEnd, IInv, TypeOK
  <2>c. b_count' = [b_count EXCEPT ![b] = b_count[b] + 1]
    <3>1. b_count' = [b_count EXCEPT ![b] = 1]
      BY ZenonT(60), <1>5
    <3> HIDE DEF b, k, Reuse, Goto, deviceVars, historyVars, localVars
    <3>2. b_count[b] + 1 = 1
      BY SMTT(60), <2>a
    <3> QED
      BY ZenonT(60), <3>1, <3>2
  <2>d. /\ keep' = keep
        /\ pc'[p] = "got" /\ bh'[p] = b
        /\ \A q \in Proc \ {p} : pc'[q] = pc[q] /\ bh'[q] = bh[q]
    BY ZenonT(60), <1>1, <1>5 DEF IInv, TypeOK
  <2>1. TypeOK'
    BY ZenonT(60), <1>1, <1>5, <2>a, <2>b DEF IInv, TypeOK
  <2>2. Ctl'
    BY ZenonT(60), <1>1, <1>5, <2>a DEF IInv, TypeOK, Ctl
  <2>3. HasBlock' /\ OnlyOneOfItsKind'
    <3>1. /\ \A c \in Buffer : block'[c] = IF c = b THEN k ELSE block[c]
          /\ \A c \in Buffer : (b_dirt'[c] => b_dirt[c]) /\ b_lock'[c] = b_lock[c]
          /\ keep' = keep /\ bh' = bh /\ pc' = [pc EXCEPT ![p] = "got"]
      BY ZenonT(60), <1>1, <1>5 DEF IInv, TypeOK
    <3> HIDE DEF b, k, Reuse, Goto, localVars
    <3>2. OnlyOneOfItsKind'
      BY ZenonT(60), <1>1, <2>a, <3>1 DEF IInv, OnlyOneOfItsKind
    <3>3. \A c \in Buffer : block[c] # None => block'[c] # None
      BY ZenonT(60), <1>1, <3>1
    <3>4. HasBlock'
      BY SMTT(60), <1>1, <3>1, <3>3 DEF IInv, TypeOK, HasBlock, Ctl, b
    <3> QED
      BY ZenonT(60), <3>2, <3>4
  <2>4. LockHasOneOwner'
    BY ZenonT(60), <1>1, <1>5, <2>a, LockFrame DEF IInv, TypeOK
  <2>5. CountIsReferences'
    <3> HIDE DEF b, Reuse, Goto, localVars
    <3> QED
      BY ZenonT(60), <1>1, <2>c, <2>d, SeekerAdded DEF IInv, TypeOK
  <2> QED
    BY ZenonT(60), <2>1, <2>2, <2>3, <2>4, <2>5 DEF IInv
<1> QED
  BY ZenonT(60), <1>2, <1>3, <1>4, <1>5 DEF Victim, MustWrite
-----------------------------------------------------------------------------
\* Returning from make_request: what it needs of the caller's variables.
LEMMA ResumeCtl ==
    ASSUME IInv, NEW p \in Proc, pc[p] \in {"lock", "slot"}, Resume(p)
    PROVE  /\ Ctl'
           /\ i' \in [Proc -> Nat \ {0}]
           /\ rw' \in [Proc -> {"READ", "WRITE", None}]
           /\ cpu' \in Proc \cup {None}
           /\ pc' \in [Proc -> {"idle", "getblk", "hashed", "victim", "sync", "lock", "slot",
                                "got", "wait", "use", "brelse"}]
           /\ pc'[p] \in {"sync", "getblk", "wait"}
           /\ \A q \in Proc \ {p} : pc'[q] = pc[q] /\ rw'[q] = rw[q] /\ i'[q] = i[q]
           /\ UNCHANGED <<wait, op, want, bh, keep, dev>>
<1> USE DEF Resume, Goto
<1>1. /\ i' \in [Proc -> Nat \ {0}]
      /\ rw' \in [Proc -> {"READ", "WRITE", None}]
      /\ cpu' \in Proc \cup {None}
      /\ pc' \in [Proc -> {"idle", "getblk", "hashed", "victim", "sync", "lock", "slot",
                           "got", "wait", "use", "brelse"}]
  BY SMTT(60) DEF IInv, TypeOK
<1>2. /\ pc'[p] = IF rw[p] = "WRITE" THEN "sync"
                  ELSE IF want[p] # <<>> THEN "getblk" ELSE "wait"
      /\ rw'[p] = None
      /\ \A q \in Proc \ {p} : pc'[q] = pc[q] /\ rw'[q] = rw[q] /\ i'[q] = i[q]
  BY ZenonT(60) DEF IInv, TypeOK
<1>3. rw[p] \in {"READ", "WRITE"}
  BY ZenonT(60) DEF IInv, TypeOK, Ctl
<1>4. UNCHANGED <<wait, op, want, bh, keep, dev>>
  BY ZenonT(60)
<1> HIDE DEF Resume, Goto
<1>5. Ctl'
  BY ZenonT(60), <1>2, <1>3, <1>4 DEF IInv, Ctl
<1> QED
  BY ZenonT(60), <1>1, <1>2, <1>4, <1>5

LEMMA LockIInv ==
    ASSUME IInv, NEW p \in Proc, Lock(p)
    PROVE  IInv'
<1>0. Target(p) \in Buffer /\ pc[p] = "lock"
  BY ZenonT(60), TargetType DEF IInv, Lock, At
<1>a. PICK b \in Buffer : b = Target(p)
  BY ZenonT(60), <1>0
<1>1. b \in Buffer /\ b = Target(p) /\ pc[p] = "lock"
  BY ZenonT(60), <1>0, <1>a
<1>2. CASE SleepOn(p, b)
  BY ZenonT(60), <1>1, <1>2, QueueType, SleepOnIInv
<1>3. CASE Resume(p) /\ UNCHANGED <<bufferVars, deviceVars, historyVars>>
  <2> USE DEF bufferVars, deviceVars, historyVars
  <2>0. /\ Ctl'
        /\ i' \in [Proc -> Nat \ {0}]
        /\ rw' \in [Proc -> {"READ", "WRITE", None}]
        /\ cpu' \in Proc \cup {None}
        /\ pc' \in [Proc -> {"idle", "getblk", "hashed", "victim", "sync", "lock", "slot",
                             "got", "wait", "use", "brelse"}]
        /\ pc'[p] \in {"sync", "getblk", "wait"}
        /\ \A q \in Proc \ {p} : pc'[q] = pc[q] /\ rw'[q] = rw[q] /\ i'[q] = i[q]
        /\ UNCHANGED <<wait, op, want, bh, keep, dev>>
    BY ZenonT(60), <1>1, <1>3, ResumeCtl
  <2>1. TypeOK'
    BY ZenonT(60), <1>1, <1>3, <2>0 DEF IInv, TypeOK
  <2>2. Ctl'
    BY ZenonT(60), <1>1, <1>3, <2>0 DEF IInv, TypeOK, Ctl
  <2>3. HasBlock' /\ OnlyOneOfItsKind'
    BY ZenonT(60), <1>1, <1>3, <2>0 DEF IInv, TypeOK, HasBlock, OnlyOneOfItsKind
  <2>4. LockHasOneOwner'
    BY ZenonT(60), <1>1, <1>3, <2>0, LockFrame DEF IInv, TypeOK
  <2>5. CountIsReferences'
    BY ZenonT(60), <1>1, <1>3, <2>0, CountFrame DEF IInv, TypeOK
  <2> QED
    BY ZenonT(60), <2>1, <2>2, <2>3, <2>4, <2>5 DEF IInv
<1>4. CASE /\ ~b_lock[b] /\ ~Needless(rw[p], b)
           /\ b_lock' = [b_lock EXCEPT ![b] = TRUE]
           /\ Goto(p, "slot")
           /\ UNCHANGED <<block, b_count, b_dirt, b_uptodate, data, free_list,
                          deviceVars, historyVars, localVars>>
  <2> USE DEF Goto, deviceVars, historyVars, localVars
  <2>0. /\ \A c \in Buffer : InRequest(c)' = InRequest(c)
        /\ Locking(b)' = Locking(b) \cup {p}
        /\ \A c \in Buffer \ {b} : Locking(c)' = Locking(c)
    <3>1. \A q \in Proc : Target(q)' = Target(q)
      BY ZenonT(60), <1>4 DEF Target, Scanned
    <3>2. pc'[p] = "slot" /\ \A q \in Proc \ {p} : pc'[q] = pc[q]
      BY ZenonT(60), <1>4 DEF IInv, TypeOK
    <3>3. request' = request
      BY ZenonT(60), <1>4
    <3> QED
      BY ZenonT(60), <1>1, <3>1, <3>2, <3>3 DEF InRequest, Locking
  <2>a. block[b] # None
    <3>1. CASE rw[p] = "WRITE"
      BY ZenonT(60), <1>1, <1>4, <3>1 DEF IInv, HasBlock, Needless
    <3>2. CASE rw[p] # "WRITE"
      BY ZenonT(60), <1>1, <3>2, BufferNotNone DEF IInv, HasBlock, Target
    <3> QED
      BY ZenonT(60), <3>1, <3>2
  <2>1. TypeOK'
    BY ZenonT(60), <1>1, <1>4 DEF IInv, TypeOK
  <2>2. Ctl'
    BY ZenonT(60), <1>1, <1>4 DEF IInv, TypeOK, Ctl
  <2>3. HasBlock' /\ OnlyOneOfItsKind'
    BY ZenonT(60), <1>1, <1>4, <2>a DEF IInv, TypeOK, HasBlock, OnlyOneOfItsKind
  <2>4. LockHasOneOwner'
    <3>1. InRequest(b) = {} /\ Locking(b) = {}
      BY ZenonT(60), <1>1, <1>4 DEF IInv, LockHasOneOwner, OneOwner
    <3>2. InRequest(b)' = {} /\ Locking(b)' = {p} /\ b_lock'[b]
      BY ZenonT(60), <1>1, <1>4, <2>0, <3>1 DEF IInv, TypeOK
    <3>3. OneOwner(b)'
      BY ZenonT(60), <3>2 DEF OneOwner
    <3>4. \A c \in Buffer \ {b} : b_lock'[c] = b_lock[c]
      BY ZenonT(60), <1>4 DEF IInv, TypeOK
    <3> QED
      BY ZenonT(60), <1>1, <2>0, <3>3, <3>4, LockStep DEF IInv
  <2>5. CountIsReferences'
    BY ZenonT(60), <1>1, <1>4, CountFrame DEF IInv, TypeOK
  <2> QED
    BY ZenonT(60), <2>1, <2>2, <2>3, <2>4, <2>5 DEF IInv
<1> QED
  BY ZenonT(60), <1>1, <1>2, <1>3, <1>4 DEF Lock

LEMMA SlotIInv ==
    ASSUME IInv, NEW p \in Proc, Slot(p)
    PROVE  IInv'
<1>0. Target(p) \in Buffer /\ pc[p] = "slot" /\ rw[p] \in {"READ", "WRITE"}
  BY ZenonT(60), TargetType DEF IInv, Slot, At, Ctl, TypeOK
<1>a. PICK b \in Buffer : b = Target(p)
  BY ZenonT(60), <1>0
<1>1. b \in Buffer /\ b = Target(p) /\ pc[p] = "slot" /\ rw[p] \in {"READ", "WRITE"}
  BY ZenonT(60), <1>0, <1>a
<1>2. CASE SleepOn(p, wait_for_request)
  BY ZenonT(60), <1>2, QueueType, SleepOnIInv
<1>3. ASSUME NEW r \in Empty(rw[p]), AddRequest(r, rw[p], b), Resume(p),
             UNCHANGED <<block, b_count, b_lock, b_uptodate, data, free_list,
                         disk, historyVars>>
      PROVE  IInv'
  <2> USE DEF historyVars
  <2>0. /\ Ctl'
        /\ i' \in [Proc -> Nat \ {0}]
        /\ rw' \in [Proc -> {"READ", "WRITE", None}]
        /\ cpu' \in Proc \cup {None}
        /\ pc' \in [Proc -> {"idle", "getblk", "hashed", "victim", "sync", "lock", "slot",
                             "got", "wait", "use", "brelse"}]
        /\ pc'[p] \in {"sync", "getblk", "wait"}
        /\ \A q \in Proc \ {p} : pc'[q] = pc[q] /\ rw'[q] = rw[q] /\ i'[q] = i[q]
        /\ UNCHANGED <<wait, op, want, bh, keep, dev>>
    BY ZenonT(60), <1>1, <1>3, ResumeCtl
  <2>a. r \in Slots /\ request[r] = None
    BY ZenonT(60), EmptySlot
  <2>b. /\ request' \in [Slots -> {None} \cup Request]
        /\ b_dirt' \in [Buffer -> BOOLEAN]
        /\ \A c \in Buffer : b_dirt'[c] => b_dirt[c]
        /\ InRequest(b)' = InRequest(b) \cup {r}
        /\ \A c \in Buffer \ {b} : InRequest(c)' = InRequest(c)
    <3>1. PICK cmd \in {"READ", "WRITE"} : cmd = rw[p]
      BY ZenonT(60), <1>1
    <3>2. AddRequest(r, cmd, b)
      BY ZenonT(60), <1>3, <3>1
    <3> QED
      BY SMTT(60), <2>a, <3>2, RequestAdded
  <2>c. /\ p \in Locking(b)
        /\ Locking(b)' = Locking(b) \ {p}
        /\ \A c \in Buffer \ {b} : Locking(c)' = Locking(c)
    <3>1. \A q \in Proc \ {p} : Target(q)' = Target(q)
      BY ZenonT(60), <2>0 DEF Target, Scanned
    <3>2. pc'[p] # "slot" /\ \A q \in Proc \ {p} : pc'[q] = pc[q]
      BY ZenonT(60), <2>0
    <3> QED
      BY ZenonT(60), <1>1, <3>1, <3>2 DEF Locking
  <2>1. TypeOK'
    BY ZenonT(60), <1>1, <1>3, <2>0, <2>b DEF IInv, TypeOK
  <2>2. Ctl'
    BY ZenonT(60), <1>1, <1>3, <2>0, <2>b DEF IInv, TypeOK, Ctl
  <2>3. HasBlock' /\ OnlyOneOfItsKind'
    BY ZenonT(60), <1>1, <1>3, <2>0, <2>b DEF IInv, TypeOK, HasBlock, OnlyOneOfItsKind
  <2>4. LockHasOneOwner'
    <3>1. InRequest(b) = {} /\ Locking(b) = {p} /\ b_lock[b]
      BY SMTT(60), <1>1, <2>c DEF IInv, LockHasOneOwner, OneOwner
    <3>2. InRequest(b)' = {r} /\ Locking(b)' = {} /\ b_lock'[b]
      BY ZenonT(60), <1>3, <2>b, <2>c, <3>1
    <3>3. OneOwner(b)'
      BY ZenonT(60), <3>2 DEF OneOwner
    <3>4. \A c \in Buffer \ {b} : b_lock'[c] = b_lock[c]
      BY ZenonT(60), <1>3
    <3> QED
      BY ZenonT(60), <1>1, <2>b, <2>c, <3>3, <3>4, LockStep DEF IInv
  <2>5. CountIsReferences'
    BY ZenonT(60), <1>1, <1>3, <2>0, <2>b, CountFrame DEF IInv, TypeOK
  <2> QED
    BY ZenonT(60), <2>1, <2>2, <2>3, <2>4, <2>5 DEF IInv
<1> QED
  BY ZenonT(60), <1>1, <1>2, <1>3 DEF Slot
-----------------------------------------------------------------------------
\* The scan of sys_sync moves on to the next buffer.
LEMMA Increment ==
    ASSUME NEW f \in [Proc -> Nat \ {0}], NEW p \in Proc
    PROVE  [f EXCEPT ![p] = @ + 1] \in [Proc -> Nat \ {0}]
<1>1. f[p] + 1 \in Nat \ {0}
  BY SMTT(60)
<1> QED
  BY ZenonT(60), <1>1

\* One step of sys_sync or sync_dev's scan.
LEMMA SyncIInv ==
    ASSUME IInv, NEW p \in Proc, Sync(p)
    PROVE  IInv'
<1> DEFINE b == Scanned(i[p])
<1>1. b \in Buffer /\ pc[p] = "sync" /\ i[p] \in Nat \ {0}
  BY ZenonT(60), ScannedType DEF IInv, TypeOK, Sync, At
<1> HIDE DEF b
<1>2. CASE SleepOn(p, b)
  BY ZenonT(60), <1>1, <1>2, QueueType, SleepOnIInv
<1>3. CASE /\ i' = [i EXCEPT ![p] = 1]
           /\ dev' = [dev EXCEPT ![p] = None]
           /\ op' = [op EXCEPT ![p] = IF dev[p] = None THEN None ELSE @]
           /\ IF dev[p] = None THEN Leave(p, "idle") ELSE Goto(p, "victim")
           /\ UNCHANGED <<bufferVars, deviceVars, historyVars, want, bh, keep, rw>>
  <2> USE DEF Goto, Leave, bufferVars, deviceVars, historyVars
  <2>0. /\ pc' \in [Proc -> {"idle", "getblk", "hashed", "victim", "sync", "lock", "slot",
                             "got", "wait", "use", "brelse"}]
        /\ cpu' \in Proc \cup {None} /\ wait' = wait
        /\ op' \in [Proc -> Ops \cup {None}]
        /\ dev' \in [Proc -> Device \cup {None}]
    BY ZenonT(60), <1>1, <1>3 DEF IInv, TypeOK
  <2>1. TypeOK'
    <3> HIDE DEF Goto, Leave
    <3> QED
      BY SMTT(60), <1>3, <2>0 DEF IInv, TypeOK
  <2>a. /\ dev'[p] = None /\ pc'[p] \in {"idle", "victim"} /\ (pc'[p] = "victim" => dev[p] # None)
        /\ \A q \in Proc \ {p} : pc'[q] = pc[q] /\ dev'[q] = dev[q]
    BY ZenonT(60), <1>1, <1>3 DEF IInv, TypeOK
  <2>b. UNCHANGED <<want, bh, keep, rw>>
    BY ZenonT(60), <1>3
  <2>2. Ctl'
    <3>0. Ctl
      BY ZenonT(60) DEF IInv
    <3>1. rw[p] = None
      BY ZenonT(60), <1>1, <3>0 DEF Ctl
    <3>2. \A q \in Proc :
              /\ pc'[q] \in {"getblk", "hashed", "victim", "got"} \/ dev'[q] # None => want'[q] # <<>>
              /\ pc'[q] \in {"hashed", "victim", "got"} \/ dev'[q] # None => bh'[q] \in Buffer
      BY ZenonT(60), <2>a, <2>b, <3>0 DEF Ctl
    <3>3. \A q \in Proc :
              /\ pc'[q] \in {"wait", "use", "brelse"} \/ rw'[q] = "READ" => keep'[q] \in Buffer
              /\ dev'[q] # None => pc'[q] \in {"sync", "lock", "slot"}
              /\ rw'[q] = "READ" => dev'[q] = None
              /\ pc'[q] \in {"lock", "slot"} <=> rw'[q] # None
      BY ZenonT(60), <2>a, <2>b, <3>0, <3>1 DEF Ctl
    <3> QED
      BY ZenonT(60), <3>2, <3>3 DEF Ctl
  <2>3. HasBlock' /\ OnlyOneOfItsKind'
    <3>1. HasBlock /\ OnlyOneOfItsKind
      BY ZenonT(60) DEF IInv
    <3>2. UNCHANGED <<block, b_dirt, b_lock, keep, bh>>
      BY ZenonT(60), <1>3
    <3> HIDE DEF Goto, Leave
    <3> QED
      BY ZenonT(60), <2>a, <3>1, <3>2 DEF HasBlock, OnlyOneOfItsKind
  <2>4. LockHasOneOwner'
    BY ZenonT(60), <1>1, <1>3, LockFrame DEF IInv, TypeOK
  <2>5. CountIsReferences'
    BY ZenonT(60), <1>1, <1>3, CountFrame DEF IInv, TypeOK
  <2> QED
    BY ZenonT(60), <2>1, <2>2, <2>3, <2>4, <2>5 DEF IInv
<1>4. CASE /\ rw' = [rw EXCEPT ![p] = "WRITE"]
           /\ Goto(p, "lock")
           /\ UNCHANGED <<bufferVars, deviceVars, historyVars, op, want, bh, keep, dev, i>>
  <2> USE DEF Goto, bufferVars, deviceVars, historyVars
  <2>1. TypeOK'
    BY ZenonT(60), <1>1, <1>4 DEF IInv, TypeOK
  <2>2. Ctl'
    BY ZenonT(60), <1>1, <1>4 DEF IInv, TypeOK, Ctl
  <2>3. HasBlock' /\ OnlyOneOfItsKind'
    BY ZenonT(60), <1>1, <1>4 DEF IInv, TypeOK, HasBlock, OnlyOneOfItsKind
  <2>4. LockHasOneOwner'
    BY ZenonT(60), <1>1, <1>4, LockFrame DEF IInv, TypeOK
  <2>5. CountIsReferences'
    BY ZenonT(60), <1>1, <1>4, CountFrame DEF IInv, TypeOK
  <2> QED
    BY ZenonT(60), <2>1, <2>2, <2>3, <2>4, <2>5 DEF IInv
<1>5. CASE /\ i' = [i EXCEPT ![p] = @ + 1]
           /\ Goto(p, "sync")
           /\ UNCHANGED <<bufferVars, deviceVars, historyVars, op, want, bh, keep, dev, rw>>
  <2> USE DEF Goto, bufferVars, deviceVars, historyVars
  <2>1. TypeOK'
    <3>1. i \in [Proc -> Nat \ {0}] 
      BY ZenonT(60) DEF IInv, TypeOK
    <3>2. i' \in [Proc -> Nat \ {0}]
      BY ZenonT(60), <1>5, <3>1, Increment
    <3> QED
      BY ZenonT(60), <1>1, <1>5, <3>2 DEF IInv, TypeOK
  <2>2. Ctl'
    BY ZenonT(60), <1>1, <1>5 DEF IInv, TypeOK, Ctl
  <2>3. HasBlock' /\ OnlyOneOfItsKind'
    BY ZenonT(60), <1>1, <1>5 DEF IInv, TypeOK, HasBlock, OnlyOneOfItsKind
  <2>4. LockHasOneOwner'
    BY ZenonT(60), <1>1, <1>5, LockFrame DEF IInv, TypeOK
  <2>5. CountIsReferences'
    BY ZenonT(60), <1>1, <1>5, CountFrame DEF IInv, TypeOK
  <2> QED
    BY ZenonT(60), <2>1, <2>2, <2>3, <2>4, <2>5 DEF IInv
<1> QED
  BY ZenonT(60), <1>2, <1>3, <1>4, <1>5 DEF Sync, b

LEMMA StartIInv ==
    ASSUME IInv, NEW p \in Proc, NEW o \in Ops, NEW k \in Block, NEW next \in Block,
           Start(p, o, k, next)
    PROVE  IInv'
<1> USE DEF Start, Goto, bufferVars, deviceVars, historyVars
<1>1. /\ pc[p] = "idle" /\ dev[p] = None /\ rw[p] = None
      /\ pc'[p] \in {"sync", "getblk"} /\ (pc'[p] = "getblk" => want'[p] # <<>>)
      /\ \A q \in Proc \ {p} : pc'[q] = pc[q] /\ want'[q] = want[q]
  BY ZenonT(60) DEF IInv, TypeOK, Ctl, At
<1>2. TypeOK'
  <2>1. want' \in [Proc -> Seq(Block)]
    <3>1. <<>> \in Seq(Block) /\ <<k>> \in Seq(Block) /\ <<k, next>> \in Seq(Block)
      BY SMTT(60)
    <3> QED
      BY ZenonT(60), <3>1 DEF IInv, TypeOK
  <2>2. op' \in [Proc -> Ops \cup {None}] /\ cpu' \in Proc \cup {None}
    BY ZenonT(60) DEF IInv, TypeOK
  <2>3. pc' \in [Proc -> {"idle", "getblk", "hashed", "victim", "sync", "lock", "slot",
                          "got", "wait", "use", "brelse"}]
    BY ZenonT(60) DEF IInv, TypeOK
  <2> QED
    BY ZenonT(60), <2>1, <2>2, <2>3 DEF IInv, TypeOK
<1>3. UNCHANGED <<bufferVars, deviceVars, historyVars, bh, keep, dev, i, rw>>
  BY ZenonT(60)
<1> HIDE DEF Start, Goto
<1>4. Ctl'
  BY ZenonT(60), <1>1, <1>3 DEF IInv, Ctl
<1>5. HasBlock' /\ OnlyOneOfItsKind'
  BY ZenonT(60), <1>1, <1>3 DEF IInv, HasBlock, OnlyOneOfItsKind
<1>6. LockHasOneOwner' /\ CountIsReferences'
  BY ZenonT(60), <1>1, <1>3, LockFrame, CountFrame DEF IInv
<1> QED
  BY ZenonT(60), <1>2, <1>4, <1>5, <1>6 DEF IInv

\* The reference of getblk becomes the one of its caller.
LEMMA SeekerKeeps ==
    ASSUME CountIsReferences, NEW p \in Proc, NEW b \in Buffer,
           b_count' = b_count, keep[p] = None, keep'[p] = b, bh[p] = b,
           pc[p] \in {"hashed", "got"}, pc'[p] \notin {"hashed", "got"},
           \A q \in Proc \ {p} : keep'[q] = keep[q] /\ pc'[q] = pc[q] /\ bh'[q] = bh[q]
    PROVE  CountIsReferences'
<1> SUFFICES ASSUME NEW c \in Buffer
             PROVE  b_count'[c] = Cardinality(Keepers(c)') + Cardinality(Seekers(c)')
  BY ZenonT(60) DEF CountIsReferences
<1>1. CASE c = b
  <2>1. Keepers(b)' = Keepers(b) \cup {p} /\ p \notin Keepers(b)
    BY ZenonT(60), BufferNotNone DEF Keepers
  <2>2. Seekers(b)' = Seekers(b) \ {p} /\ p \in Seekers(b)
    BY ZenonT(60) DEF Seekers
  <2>3. IsFiniteSet(Keepers(b)) /\ IsFiniteSet(Seekers(b))
    BY ZenonT(60), RefsFinite
  <2>4. Cardinality(Keepers(b) \cup {p}) = Cardinality(Keepers(b)) + 1
    BY ZenonT(60), <2>1, <2>3, FS_AddElement
  <2>5. Cardinality(Seekers(b) \ {p}) = Cardinality(Seekers(b)) - 1
    BY ZenonT(60), <2>2, <2>3, FS_RemoveElement
  <2>6. b_count'[b] = Cardinality(Keepers(b)) + Cardinality(Seekers(b))
    BY ZenonT(60) DEF CountIsReferences
  <2>7. Cardinality(Keepers(b)) \in Nat /\ Cardinality(Seekers(b)) \in Nat
    BY ZenonT(60), RefsFinite
  <2> QED
    BY SMTT(60), <1>1, <2>1, <2>2, <2>4, <2>5, <2>6, <2>7
<1>2. CASE c # b
  <2>1. Keepers(c)' = Keepers(c) /\ Seekers(c)' = Seekers(c)
    BY ZenonT(60), <1>2, BufferNotNone DEF Keepers, Seekers
  <2> QED
    BY ZenonT(60), <2>1 DEF CountIsReferences
<1> QED
  BY ZenonT(60), <1>1, <1>2

LEMMA GotIInv ==
    ASSUME IInv, NEW p \in Proc, Got(p)
    PROVE  IInv'
<1>0. bh[p] \in Buffer /\ pc[p] = "got" /\ keep[p] = None /\ want[p] # <<>>
  BY ZenonT(60) DEF IInv, Ctl, Got, At
<1>a. PICK b \in Buffer : b = bh[p]
  BY ZenonT(60), <1>0
<1> USE DEF Got, Goto, Leave, bufferVars, deviceVars, historyVars
<1>1. /\ keep' \in [Proc -> Buffer \cup {None}] /\ keep'[p] = b
      /\ bh' \in [Proc -> Buffer \cup {None}] /\ bh'[p] = None
      /\ \A q \in Proc \ {p} : keep'[q] = keep[q] /\ bh'[q] = bh[q]
  BY ZenonT(60), <1>a DEF IInv, TypeOK
<1>2. /\ want' \in [Proc -> Seq(Block)] /\ want'[p] = Tail(want[p])
      /\ \A q \in Proc \ {p} : want'[q] = want[q]
  <2>1. want' = [want EXCEPT ![p] = Tail(want[p])]
    BY ZenonT(60)
  <2> QED
    BY ZenonT(60), <1>0, <2>1, TailType DEF IInv
<1>b. /\ pc \in [Proc -> {"idle", "getblk", "hashed", "victim", "sync", "lock", "slot",
                         "got", "wait", "use", "brelse"}]
      /\ rw \in [Proc -> {"READ", "WRITE", None}]
  BY ZenonT(60) DEF IInv, TypeOK
<1>3. /\ pc' \in [Proc -> {"idle", "getblk", "hashed", "victim", "sync", "lock", "slot",
                          "got", "wait", "use", "brelse"}]
      /\ rw' \in [Proc -> {"READ", "WRITE", None}]
      /\ cpu' \in Proc \cup {None} /\ wait' = wait
      /\ \A q \in Proc \ {p} : pc'[q] = pc[q] /\ rw'[q] = rw[q]
  BY ZenonT(60), <1>b
<1>4. \/ pc'[p] \in {"use", "wait"} /\ rw'[p] = rw[p]
      \/ pc'[p] = "getblk" /\ rw'[p] = rw[p] /\ Tail(want[p]) # <<>>
      \/ pc'[p] = "lock" /\ rw'[p] = "READ"
  BY ZenonT(60), <1>b
<1>5. UNCHANGED <<bufferVars, deviceVars, historyVars, op, dev, i>>
  BY ZenonT(60)
<1> HIDE DEF Got, Goto, Leave
<1>6. TypeOK'
  BY ZenonT(60), <1>1, <1>2, <1>3, <1>5 DEF IInv, TypeOK
<1>c. rw[p] = None /\ dev[p] = None
  BY ZenonT(60), <1>0 DEF IInv, Ctl
<1>7. Ctl'
  <2>1. /\ pc'[p] = "getblk" => want'[p] # <<>>
        /\ pc'[p] \in {"lock", "slot"} <=> rw'[p] # None
        /\ pc'[p] \notin {"hashed", "victim", "got"}
        /\ dev'[p] = None /\ keep'[p] \in Buffer
    BY ZenonT(60), <1>c, <1>1, <1>2, <1>4, <1>5
  <2>2. \A q \in Proc \ {p} : /\ pc'[q] = pc[q] /\ want'[q] = want[q] /\ bh'[q] = bh[q]
                             /\ keep'[q] = keep[q] /\ rw'[q] = rw[q] /\ dev'[q] = dev[q]
    BY ZenonT(60), <1>1, <1>2, <1>3, <1>5
  <2> QED
    BY ZenonT(60), <2>1, <2>2 DEF IInv, Ctl
<1>8. HasBlock' /\ OnlyOneOfItsKind'
  <2>1. block[b] # None
    BY ZenonT(60), <1>0, <1>a DEF IInv, HasBlock
  <2>2. pc'[p] \notin {"hashed", "got"}
    BY ZenonT(60), <1>4
  <2> QED
    BY ZenonT(60), <1>1, <1>3, <1>5, <2>1, <2>2 DEF IInv, HasBlock, OnlyOneOfItsKind
<1>9. LockHasOneOwner'
  BY ZenonT(60), <1>0, <1>1, <1>3, <1>4, <1>5, LockFrame DEF IInv
<1>10. CountIsReferences'
  BY ZenonT(60), <1>0, <1>a, <1>1, <1>3, <1>4, <1>5, SeekerKeeps DEF IInv
<1> QED
  BY ZenonT(60), <1>6, <1>7, <1>8, <1>9, <1>10 DEF IInv
-----------------------------------------------------------------------------
LEMMA WaitIInv ==
    ASSUME IInv, NEW p \in Proc, Wait(p)
    PROVE  IInv'
<1>1. pc[p] = "wait" /\ keep[p] \in Buffer
  BY ZenonT(60) DEF Wait, At, IInv, Ctl
<1>2. CASE SleepOn(p, keep[p])
  BY ZenonT(60), <1>1, <1>2, QueueType, SleepOnIInv
<1>3. CASE /\ Leave(p, "use") \/ Goto(p, "brelse")
           /\ UNCHANGED <<bufferVars, deviceVars, historyVars, localVars>>
  <2> USE DEF Goto, Leave, bufferVars, deviceVars, historyVars, localVars
  <2>0. /\ pc' \in [Proc -> {"idle", "getblk", "hashed", "victim", "sync", "lock", "slot",
                          "got", "wait", "use", "brelse"}]
        /\ cpu' \in Proc \cup {None} /\ wait' = wait
        /\ pc'[p] \in {"use", "brelse"} /\ \A q \in Proc \ {p} : pc'[q] = pc[q]
    <3>1. pc \in [Proc -> {"idle", "getblk", "hashed", "victim", "sync", "lock", "slot",
                          "got", "wait", "use", "brelse"}]
      BY ZenonT(60) DEF IInv, TypeOK
    <3> QED
      BY ZenonT(60), <1>3, <3>1
  <2> HIDE DEF Goto, Leave
  <2>1. TypeOK'
    BY ZenonT(60), <1>1, <1>3, <2>0 DEF IInv, TypeOK
  <2>2. Ctl'
    BY ZenonT(60), <1>1, <1>3, <2>0 DEF IInv, TypeOK, Ctl
  <2>3. HasBlock' /\ OnlyOneOfItsKind'
    BY ZenonT(60), <1>1, <1>3, <2>0 DEF IInv, TypeOK, HasBlock, OnlyOneOfItsKind
  <2>4. LockHasOneOwner'
    BY ZenonT(60), <1>1, <1>3, <2>0, LockFrame DEF IInv, TypeOK
  <2>5. CountIsReferences'
    BY ZenonT(60), <1>1, <1>3, <2>0, CountFrame DEF IInv, TypeOK
  <2> QED
    BY ZenonT(60), <2>1, <2>2, <2>3, <2>4, <2>5 DEF IInv
<1> QED
  BY ZenonT(60), <1>2, <1>3 DEF Wait

LEMMA UseIInv ==
    ASSUME IInv, NEW p \in Proc, NEW v \in Value, Use(p, v)
    PROVE  IInv'
<1>0. pc[p] = "use" /\ keep[p] \in Buffer
  BY ZenonT(60) DEF Use, At, IInv, Ctl
<1>a. PICK b \in Buffer : b = keep[p]
  BY ZenonT(60), <1>0
<1>b. block[b] \in Block
  BY ZenonT(60), <1>a, BufferNotNone DEF IInv, TypeOK, HasBlock
<1>1. /\ Goto(p, "brelse")
      /\ UNCHANGED <<block, b_count, b_lock, b_uptodate, free_list, deviceVars,
                     failed, localVars>>
  BY ZenonT(60) DEF Use
<1>2. \/ /\ data' = [data EXCEPT ![b] = v]
         /\ b_dirt' = [b_dirt EXCEPT ![b] = TRUE]
         /\ latest' = [latest EXCEPT ![block[b]] = v]
      \/ UNCHANGED <<data, b_dirt, latest>>
  BY ZenonT(60), <1>a DEF Use
<1>3. /\ data' \in [Buffer -> Value] /\ b_dirt' \in [Buffer -> BOOLEAN]
      /\ latest' \in [Block -> Value]
      /\ \A c \in Buffer \ {b} : b_dirt'[c] = b_dirt[c]
  <2>1. /\ data \in [Buffer -> Value] /\ b_dirt \in [Buffer -> BOOLEAN]
        /\ latest \in [Block -> Value]
    BY ZenonT(60) DEF IInv, TypeOK
  <2>2. PICK k \in Block : k = block[b]
    BY ZenonT(60), <1>b
  <2>3. latest' \in [Block -> Value]
    BY ZenonT(60), <1>2, <2>1, <2>2
  <2> QED
    BY ZenonT(60), <1>2, <2>1, <2>3
<1> USE DEF Goto, deviceVars, localVars
<1>4. TypeOK'
  BY ZenonT(60), <1>1, <1>3 DEF IInv, TypeOK
<1>5. Ctl'
  BY ZenonT(60), <1>0, <1>1 DEF IInv, TypeOK, Ctl
<1>6. HasBlock' /\ OnlyOneOfItsKind'
  <2>1. block[b] # None
    BY ZenonT(60), <1>b
  <2>2. /\ UNCHANGED <<block, b_lock, keep, bh>>
        /\ \A q \in Proc : pc'[q] \in {"hashed", "got"} => pc[q] \in {"hashed", "got"}
    BY ZenonT(60), <1>1 DEF IInv, TypeOK
  <2> QED
    BY ZenonT(60), <1>3, <2>1, <2>2 DEF IInv, HasBlock, OnlyOneOfItsKind
<1>7. LockHasOneOwner' /\ CountIsReferences'
  BY ZenonT(60), <1>0, <1>1, LockFrame, CountFrame DEF IInv, TypeOK
<1> QED
  BY ZenonT(60), <1>4, <1>5, <1>6, <1>7 DEF IInv

\* A caller gives its reference up.
LEMMA KeeperRemoved ==
    ASSUME CountIsReferences, NEW p \in Proc, NEW b \in Buffer,
           b_count \in [Buffer -> Nat],
           b_count' = [b_count EXCEPT ![b] = b_count[b] - 1],
           keep[p] = b, keep'[p] = None, bh' = bh,
           pc[p] \notin {"hashed", "got"}, pc'[p] \notin {"hashed", "got"},
           \A q \in Proc \ {p} : pc'[q] = pc[q] /\ keep'[q] = keep[q]
    PROVE  CountIsReferences' /\ b_count' \in [Buffer -> Nat]
<1>0. p \in Keepers(b)
  BY ZenonT(60) DEF Keepers
<1>1. Cardinality(Keepers(b)) > 0
  BY SMTT(60), <1>0, RefsFinite, FS_EmptySet
<1>2. b_count' \in [Buffer -> Nat]
  BY SMTT(60), <1>1, RefsFinite DEF CountIsReferences
<1>3. ASSUME NEW c \in Buffer
      PROVE  b_count'[c] = Cardinality(Keepers(c)') + Cardinality(Seekers(c)')
  <2>1. Seekers(c)' = Seekers(c)
    BY ZenonT(60) DEF Seekers
  <2>2. CASE c = b
    <3>1. Keepers(b)' = Keepers(b) \ {p}
      BY ZenonT(60), BufferNotNone DEF Keepers
    <3>2. IsFiniteSet(Keepers(b))
      BY ZenonT(60), RefsFinite
    <3>3. Cardinality(Keepers(b) \ {p}) = Cardinality(Keepers(b)) - 1
      BY ZenonT(60), <1>0, <3>2, FS_RemoveElement
    <3>4. /\ b_count[b] = Cardinality(Keepers(b)) + Cardinality(Seekers(b))
          /\ Cardinality(Keepers(b)) \in Nat /\ Cardinality(Seekers(b)) \in Nat
      BY ZenonT(60), RefsFinite DEF CountIsReferences
    <3> QED
      BY SMTT(60), <2>1, <2>2, <3>1, <3>3, <3>4
  <2>3. CASE c # b
    <3>1. Keepers(c)' = Keepers(c)
      BY ZenonT(60), <2>3, BufferNotNone DEF Keepers
    <3> QED
      BY ZenonT(60), <2>1, <2>3, <3>1 DEF CountIsReferences
  <2> QED
    BY ZenonT(60), <2>2, <2>3
<1> QED
  BY ZenonT(60), <1>2, <1>3 DEF CountIsReferences

LEMMA BrelseIInv ==
    ASSUME IInv, NEW p \in Proc, Brelse(p)
    PROVE  IInv'
<1>0. pc[p] = "brelse" /\ keep[p] \in Buffer
  BY ZenonT(60) DEF Brelse, At, IInv, Ctl
<1>a. PICK b \in Buffer : b = keep[p]
  BY ZenonT(60), <1>0
<1>1. CASE SleepOn(p, keep[p])
  BY ZenonT(60), <1>0, <1>1, QueueType, SleepOnIInv
<1>2. CASE /\ b_count' = [b_count EXCEPT ![b] = b_count[b] - 1]
           /\ keep' = [keep EXCEPT ![p] = None]
           /\ op' = [op EXCEPT ![p] = None]
           /\ pc' = [pc EXCEPT ![p] = "idle"]
           /\ cpu' = None
           /\ wait' = Awakened(BrelseWakes)
           /\ UNCHANGED <<block, b_lock, b_dirt, b_uptodate, data, free_list,
                          deviceVars, historyVars, want, bh, dev, i, rw>>
  <2> USE DEF deviceVars, historyVars
  <2>1. /\ keep \in [Proc -> Buffer \cup {None}]
        /\ pc \in [Proc -> {"idle", "getblk", "hashed", "victim", "sync", "lock", "slot",
                          "got", "wait", "use", "brelse"}]
        /\ op \in [Proc -> Ops \cup {None}]
        /\ b_count \in [Buffer -> Nat]
    BY ZenonT(60) DEF IInv, TypeOK
  <2>2. /\ keep' \in [Proc -> Buffer \cup {None}] /\ keep'[p] = None
        /\ pc' \in [Proc -> {"idle", "getblk", "hashed", "victim", "sync", "lock", "slot",
                          "got", "wait", "use", "brelse"}] /\ pc'[p] = "idle"
        /\ op' \in [Proc -> Ops \cup {None}]
        /\ \A q \in Proc \ {p} : pc'[q] = pc[q] /\ keep'[q] = keep[q]
    BY ZenonT(60), <1>2, <2>1
  <2>3. wait' \in [Proc -> Queue \cup {None}]
    BY ZenonT(60), <1>2, AwakenedType DEF IInv
  <2>4. CountIsReferences' /\ b_count' \in [Buffer -> Nat]
    BY ZenonT(60), <1>0, <1>a, <1>2, <2>1, <2>2, KeeperRemoved DEF IInv
  <2>5. TypeOK'
    BY ZenonT(60), <1>2, <2>2, <2>3, <2>4 DEF IInv, TypeOK
  <2>6. rw[p] = None /\ dev[p] = None
    BY ZenonT(60), <1>0 DEF IInv, Ctl
  <2>7. Ctl'
    BY ZenonT(60), <1>2, <2>2, <2>6 DEF IInv, Ctl
  <2>8. HasBlock' /\ OnlyOneOfItsKind'
    BY ZenonT(60), <1>2, <2>2 DEF IInv, HasBlock, OnlyOneOfItsKind
  <2>a. LockHasOneOwner
    BY ZenonT(60) DEF IInv
  <2>b. UNCHANGED <<request, b_lock, rw, i>>
    BY ZenonT(60), <1>2
  <2>c. \A q \in Proc : pc'[q] = "slot" <=> pc[q] = "slot"
    BY ZenonT(60), <1>0, <2>2
  <2>d. \A q \in Proc : pc[q] = "slot" => rw'[q] = rw[q] /\ i'[q] = i[q] /\ keep'[q] = keep[q]
    BY ZenonT(60), <1>0, <2>2, <2>b
  <2>9. LockHasOneOwner'
    BY ZenonT(60), <2>a, <2>b, <2>c, <2>d, LockFrame
  <2> QED
    BY ZenonT(60), <2>4, <2>5, <2>7, <2>8, <2>9 DEF IInv
<1> QED
  BY ZenonT(60), <1>a, <1>1, <1>2 DEF Brelse

LEMMA ReadAheadIInv ==
    ASSUME IInv, NEW p \in Proc, ReadAhead(p)
    PROVE  IInv'
<1>0. /\ bh[p] \in Buffer /\ keep[p] \in Buffer
      /\ pc[p] = "got" /\ want[p] # <<>>
  BY ZenonT(60) DEF IInv, TypeOK, Ctl, ReadAhead, At
<1>a. PICK tmp \in Buffer, b \in Buffer : tmp = bh[p] /\ b = keep[p]
  BY ZenonT(60), <1>0
<1> USE DEF ReadAhead, Goto, historyVars
<1>1. /\ bh' \in [Proc -> Buffer \cup {None}] /\ bh'[p] = None
      /\ \A q \in Proc \ {p} : bh'[q] = bh[q]
      /\ want' \in [Proc -> Seq(Block)] /\ want'[p] = Tail(want[p])
      /\ \A q \in Proc \ {p} : want'[q] = want[q]
  <2>1. want' = [want EXCEPT ![p] = Tail(want[p])] /\ bh' = [bh EXCEPT ![p] = None]
    BY ZenonT(60)
  <2>2. bh \in [Proc -> Buffer \cup {None}]
    BY ZenonT(60) DEF IInv, TypeOK
  <2> QED
    BY ZenonT(60), <1>0, <2>1, <2>2, TailType DEF IInv
<1>2. /\ pc' \in [Proc -> {"idle", "getblk", "hashed", "victim", "sync", "lock", "slot",
                          "got", "wait", "use", "brelse"}]
      /\ cpu' \in Proc \cup {None} /\ wait' = wait
      /\ pc'[p] = IF Tail(want[p]) # <<>> THEN "getblk" ELSE "wait"
      /\ \A q \in Proc \ {p} : pc'[q] = pc[q]
  BY ZenonT(60) DEF IInv, TypeOK
<1>3. /\ UNCHANGED <<block, b_uptodate, data, free_list, disk, historyVars,
                     op, keep, dev, i, rw>>
      /\ b_count' = [b_count EXCEPT ![tmp] = b_count[tmp] - 1]
  BY ZenonT(60), <1>a
<1>4. \/ /\ ~b_lock[b] /\ b_lock' = [b_lock EXCEPT ![b] = TRUE]
         /\ \E r \in Empty("READ") : AddRequest(r, "READ", b)
      \/ UNCHANGED <<request, b_dirt, b_lock>>
  BY ZenonT(60), <1>a
<1> HIDE DEF ReadAhead, Goto
<1>5. CountIsReferences' /\ b_count' \in [Buffer -> Nat]
  BY ZenonT(60), <1>0, <1>a, <1>1, <1>2, <1>3, SeekerRemoved DEF IInv, TypeOK
<1>6. Ctl'
  BY ZenonT(60), <1>0, <1>1, <1>2, <1>3 DEF IInv, Ctl
<1>7. block[b] # None
  BY ZenonT(60), <1>a, BufferNotNone DEF IInv, HasBlock
<1>8. \A q \in Proc : Target(q)' = Target(q)
  BY ZenonT(60), <1>3 DEF Target, Scanned
<1>9. \A c \in Buffer : Locking(c)' = Locking(c)
  BY ZenonT(60), <1>0, <1>2, <1>8 DEF Locking
<1>10. CASE UNCHANGED <<request, b_dirt, b_lock>>
  <2>1. TypeOK'
    BY ZenonT(60), <1>1, <1>2, <1>3, <1>5, <1>10 DEF IInv, TypeOK
  <2>2. HasBlock' /\ OnlyOneOfItsKind'
    BY ZenonT(60), <1>2, <1>3, <1>1, <1>10 DEF IInv, HasBlock, OnlyOneOfItsKind
  <2>3. LockHasOneOwner'
    <3>1. LockHasOneOwner
      BY ZenonT(60) DEF IInv
    <3>2. UNCHANGED <<request, b_lock, rw, keep, i>>
      BY ZenonT(60), <1>3, <1>10
    <3>3. \A q \in Proc : pc'[q] = "slot" <=> pc[q] = "slot"
      BY ZenonT(60), <1>0, <1>2
    <3> QED
      BY ZenonT(60), <3>1, <3>2, <3>3, LockFrame
  <2> QED
    BY ZenonT(60), <1>5, <1>6, <2>1, <2>2, <2>3 DEF IInv
<1>11. ASSUME NEW r \in Empty("READ"), AddRequest(r, "READ", b),
              ~b_lock[b], b_lock' = [b_lock EXCEPT ![b] = TRUE]
       PROVE  IInv'
  <2>1. r \in Slots /\ request[r] = None
    BY ZenonT(60), EmptySlot
  <2>2. /\ request' \in [Slots -> {None} \cup Request]
        /\ b_dirt' \in [Buffer -> BOOLEAN]
        /\ \A c \in Buffer : b_dirt'[c] => b_dirt[c]
        /\ InRequest(b)' = InRequest(b) \cup {r}
        /\ \A c \in Buffer \ {b} : InRequest(c)' = InRequest(c)
    BY ZenonT(60), <1>11, <2>1, RequestAdded
  <2>3. /\ b_lock' \in [Buffer -> BOOLEAN] /\ b_lock'[b]
        /\ \A c \in Buffer \ {b} : b_lock'[c] = b_lock[c]
    BY ZenonT(60), <1>11 DEF IInv, TypeOK
  <2>4. TypeOK'
    BY ZenonT(60), <1>1, <1>2, <1>3, <1>5, <2>2, <2>3 DEF IInv, TypeOK
  <2>5. HasBlock' /\ OnlyOneOfItsKind'
    BY ZenonT(60), <1>1, <1>2, <1>3, <1>7, <2>2, <2>3 DEF IInv, HasBlock, OnlyOneOfItsKind
  <2>6. InRequest(b) = {} /\ Locking(b) = {}
    BY ZenonT(60), <1>11 DEF IInv, LockHasOneOwner, OneOwner
  <2>7. InRequest(b)' = {r} /\ Locking(b)' = {}
    BY ZenonT(60), <1>9, <2>2, <2>6
  <2>8. OneOwner(b)'
    BY ZenonT(60), <2>3, <2>7 DEF OneOwner
  <2>9. LockHasOneOwner'
    BY ZenonT(60), <1>9, <2>2, <2>3, <2>8, LockStep DEF IInv
  <2> QED
    BY ZenonT(60), <1>5, <1>6, <2>4, <2>5, <2>9 DEF IInv
<1> QED
  BY ZenonT(60), <1>4, <1>10, <1>11
-----------------------------------------------------------------------------

\* No write of b's block has failed.
Sound(b) == block[b] # None /\ block[b] \notin failed

\* An up-to-date buffer has the last value written; a dirty one is up to date.
BufferHolds(b) ==
    Sound(b) => /\ b_uptodate[b] => data[b] = latest[block[b]]
                /\ b_dirt[b] => b_uptodate[b]

\* A write takes valid data; a read is for a buffer without, and has brought
\* the last value once it has moved.
RequestHolds(r) ==
    request[r] # None /\ Sound(request[r].bh) =>
        IF request[r].cmd = "WRITE" THEN b_uptodate[request[r].bh]
        ELSE /\ ~b_uptodate[request[r].bh]
             /\ request[r].moved =>
                    data[request[r].bh] = latest[block[request[r].bh]]

\* What make_request has found under the lock stays so until it has a slot; a
\* user's buffer stays valid.
ProcessHolds(p) ==
    /\ pc[p] = "slot" /\ Sound(Target(p)) =>
           IF rw[p] = "WRITE" THEN b_dirt[Target(p)] ELSE ~b_uptodate[Target(p)]
    /\ pc[p] = "use" /\ Sound(keep[p]) => b_uptodate[keep[p]]

\* The disk is behind only where a buffer will be, or is being, written.
Pending(b) ==
    /\ b_uptodate[b]
    /\ b_dirt[b] \/ \E r \in Slots : /\ request[r] # None /\ request[r].bh = b
                                     /\ request[r].cmd = "WRITE" /\ ~request[r].moved

DiskHolds(k) == disk[k] = latest[k] \/ \E b \in Buffer : block[b] = k /\ Pending(b)

DInv ==
    /\ \A b \in Buffer : BufferHolds(b)
    /\ \A r \in Slots : RequestHolds(r)
    /\ \A p \in Proc : ProcessHolds(p)
    /\ \A k \in Block \ failed : DiskHolds(k)

dataVars == <<block, b_dirt, b_uptodate, data, request, disk, latest, failed>>

\* A step of p that leaves the data and the other processes alone.
Local(p) ==
    /\ UNCHANGED dataVars
    /\ \A q \in Proc \ {p} : /\ pc'[q] = pc[q] /\ keep'[q] = keep[q]
                             /\ rw'[q] = rw[q] /\ i'[q] = i[q]

Quiet == {"idle", "getblk", "hashed", "victim", "sync", "lock", "got", "wait", "brelse"}

LEMMA InitDInv == Init => DInv
<1> SUFFICES ASSUME Init PROVE DInv
  BY ZenonT(60)
<1>1. \A b \in Buffer : BufferHolds(b)
  BY ZenonT(60) DEF Init, BufferHolds, Sound
<1>2. \A r \in Slots : RequestHolds(r)
  BY ZenonT(60) DEF Init, RequestHolds
<1>3. \A p \in Proc : ProcessHolds(p)
  BY ZenonT(60) DEF Init, ProcessHolds
<1>4. \A k \in Block \ failed : DiskHolds(k)
  BY ZenonT(60) DEF Init, DiskHolds
<1> QED
  BY ZenonT(60), <1>1, <1>2, <1>3, <1>4 DEF DInv

LEMMA LocalDInv ==
    ASSUME DInv, NEW p \in Proc, Local(p), ProcessHolds(p)'
    PROVE  DInv'
<1> USE DEF Local, dataVars, Sound
<1>1. \A b \in Buffer : BufferHolds(b)'
  BY ZenonT(60) DEF DInv, BufferHolds
<1>2. \A r \in Slots : RequestHolds(r)'
  BY ZenonT(60) DEF DInv, RequestHolds
<1>3. ASSUME NEW q \in Proc \ {p} PROVE ProcessHolds(q)'
  BY ZenonT(60) DEF DInv, ProcessHolds, Target, Scanned
<1>4. \A k \in (Block \ failed)' : DiskHolds(k)'
  BY SMTT(60) DEF DInv, DiskHolds, Pending
<1> QED
  BY ZenonT(60), <1>1, <1>2, <1>3, <1>4 DEF DInv

LEMMA QuietDInv ==
    ASSUME DInv, NEW p \in Proc, Local(p), pc'[p] \in Quiet
    PROVE  DInv'
<1>1. ProcessHolds(p)'
  BY ZenonT(60) DEF ProcessHolds, Quiet
<1> QED
  BY ZenonT(60), <1>1, LocalDInv

LEMMA SleepOnDInv ==
    ASSUME DInv, NEW p \in Proc, NEW q, SleepOn(p, q)
    PROVE  DInv'
<1> USE DEF SleepOn, bufferVars, deviceVars, historyVars, localVars
<1>1. ProcessHolds(p)'
  BY ZenonT(60) DEF DInv, ProcessHolds, Target, Scanned, Sound
<1>2. Local(p)
  BY ZenonT(60) DEF Local, dataVars
<1> QED
  BY ZenonT(60), <1>1, <1>2, LocalDInv

\* The steps that only look for a buffer or give one back.
LEMMA QuietSteps ==
    ASSUME IInv, DInv, NEW p \in Proc, Getblk(p) \/ Hashed(p) \/ Sync(p) \/ Brelse(p)
    PROVE  DInv'
<1> USE DEF bufferVars, deviceVars, historyVars, localVars, Goto, Leave, Moves,
            Local, dataVars, Quiet
<1>1. /\ pc \in [Proc -> Quiet \cup {"slot", "use"}]
      /\ keep \in [Proc -> Buffer \cup {None}]
      /\ rw \in [Proc -> {"READ", "WRITE", None}]
      /\ i \in [Proc -> Nat \ {0}]
  BY ZenonT(60) DEF IInv, TypeOK
<1>2. CASE \E q : SleepOn(p, q)
  BY ZenonT(60), <1>2, SleepOnDInv
<1>3. ASSUME Getblk(p), ~ \E q : SleepOn(p, q) PROVE Local(p) /\ pc'[p] \in Quiet
  BY ZenonT(60), <1>1, <1>3 DEF Getblk
<1>4. ASSUME Hashed(p), ~ \E q : SleepOn(p, q) PROVE Local(p) /\ pc'[p] \in Quiet
  BY ZenonT(60), <1>1, <1>4 DEF Hashed
<1>6. ASSUME Sync(p), ~ \E q : SleepOn(p, q) PROVE Local(p) /\ pc'[p] \in Quiet
  BY ZenonT(60), <1>1, <1>6 DEF Sync
<1>7. ASSUME Brelse(p), ~ \E q : SleepOn(p, q) PROVE Local(p) /\ pc'[p] \in Quiet
  BY ZenonT(60), <1>1, <1>7 DEF Brelse
<1> QED
  BY ZenonT(60), <1>2, <1>3, <1>4, <1>6, <1>7, QuietDInv

\* b is free: in no request, about to be in none, kept by nobody.
LEMMA FreeBuffer ==
    ASSUME IInv, NEW b \in Buffer, ~b_lock[b], b_count[b] = 0
    PROVE  /\ \A r \in Slots : request[r] # None => request[r].bh # b
           /\ \A q \in Proc : pc[q] = "slot" => Target(q) # b
           /\ \A q \in Proc : keep[q] # b
<1>1. InRequest(b) = {} /\ Locking(b) = {}
  BY ZenonT(60) DEF IInv, LockHasOneOwner, OneOwner
<1>2. Cardinality(Keepers(b)) = 0
  BY SMTT(60), RefsFinite DEF IInv, CountIsReferences
<1>3. Keepers(b) = {}
  BY ZenonT(60), <1>2, RefsFinite, FS_EmptySet
<1> QED
  BY ZenonT(60), <1>1, <1>3 DEF InRequest, Locking, Keepers

LEMMA ReuseDInv ==
    ASSUME IInv, DInv, NEW p \in Proc, NEW b \in Buffer, NEW k \in Block,
           ~b_lock[b], b_count[b] = 0, ~b_dirt[b], \A c \in Buffer : block[c] # k,
           Reuse(b, k), Goto(p, "got"), UNCHANGED <<deviceVars, historyVars, localVars>>
    PROVE  DInv'
<1>1. /\ block' = [block EXCEPT ![b] = k]
      /\ b_dirt' = [b_dirt EXCEPT ![b] = FALSE]
      /\ b_uptodate' = [b_uptodate EXCEPT ![b] = FALSE]
      /\ pc' = [pc EXCEPT ![p] = "got"]
      /\ UNCHANGED <<data, request, disk, latest, failed, keep, rw, i>>
  BY ZenonT(60) DEF Reuse, Goto, deviceVars, historyVars, localVars
<1>2. /\ \A c \in Buffer \ {b} : /\ block'[c] = block[c] /\ b_dirt'[c] = b_dirt[c]
                                 /\ b_uptodate'[c] = b_uptodate[c]
      /\ ~b_dirt'[b] /\ ~b_uptodate'[b]
      /\ pc'[p] = "got" /\ \A q \in Proc \ {p} : pc'[q] = pc[q]
  BY ZenonT(60), <1>1 DEF IInv, TypeOK
<1>3. /\ \A r \in Slots : request[r] # None => request[r].bh \in Buffer \ {b}
      /\ \A q \in Proc : pc[q] = "slot" => Target(q) \in Buffer \ {b}
      /\ \A q \in Proc : pc[q] = "use" => keep[q] \in Buffer \ {b}
  BY ZenonT(60), FreeBuffer, TargetType DEF IInv, TypeOK, Request, Ctl
<1>4. \A q \in Proc : Target(q)' = Target(q)
  BY ZenonT(60), <1>1 DEF Target, Scanned
<1> USE DEF Sound
<1>5. ASSUME NEW c \in Buffer PROVE BufferHolds(c)'
  <2>1. CASE c # b
    <3>1. BufferHolds(c)
      BY ZenonT(60) DEF DInv
    <3>2. /\ block'[c] = block[c] /\ b_dirt'[c] = b_dirt[c] /\ b_uptodate'[c] = b_uptodate[c]
          /\ data' = data /\ latest' = latest /\ failed' = failed
      BY ZenonT(60), <1>1, <1>2, <2>1
    <3> QED
      BY ZenonT(60), <3>1, <3>2 DEF BufferHolds
  <2>2. ~b_dirt'[b] /\ ~b_uptodate'[b]
    BY ZenonT(60), <1>2
  <2>3. BufferHolds(b)'
    BY ZenonT(60), <2>2 DEF BufferHolds
  <2> QED
    BY ZenonT(60), <2>1, <2>3
<1>6. ASSUME NEW r \in Slots PROVE RequestHolds(r)'
  <2>1. request' = request /\ data' = data /\ latest' = latest /\ failed' = failed
    BY ZenonT(60), <1>1
  <2>2. CASE request[r] = None
    BY ZenonT(60), <2>1, <2>2 DEF RequestHolds
  <2>3. CASE request[r] # None
    <3>1. request[r].bh \in Buffer \ {b}
      BY ZenonT(60), <1>3, <2>3
    <3>2. block'[request[r].bh] = block[request[r].bh] /\ b_uptodate'[request[r].bh] = b_uptodate[request[r].bh]
      BY ZenonT(60), <1>2, <3>1
    <3>3. RequestHolds(r)
      BY ZenonT(60) DEF DInv
    <3> QED
      BY ZenonT(60), <2>1, <3>2, <3>3 DEF RequestHolds
  <2> QED
    BY ZenonT(60), <2>2, <2>3
<1>7. ASSUME NEW q \in Proc PROVE ProcessHolds(q)'
  <2>1. CASE q = p
    BY ZenonT(60), <1>2, <2>1 DEF ProcessHolds
  <2>2. CASE q # p
    <3>1. pc'[q] = pc[q] /\ keep'[q] = keep[q] /\ rw'[q] = rw[q] /\ failed' = failed /\ Target(q)' = Target(q)
      BY ZenonT(60), <1>1, <1>2, <1>4, <2>2
    <3>2. pc[q] = "slot" =>
              /\ block'[Target(q)] = block[Target(q)]
              /\ b_uptodate'[Target(q)] = b_uptodate[Target(q)]
              /\ b_dirt'[Target(q)] = b_dirt[Target(q)]
      BY ZenonT(60), <1>2, <1>3
    <3>3. pc[q] = "use" => block'[keep[q]] = block[keep[q]] /\ b_uptodate'[keep[q]] = b_uptodate[keep[q]]
      BY ZenonT(60), <1>2, <1>3
    <3>4. ProcessHolds(q)
      BY ZenonT(60) DEF DInv
    <3> QED
      BY ZenonT(60), <3>1, <3>2, <3>3, <3>4 DEF ProcessHolds
  <2> QED
    BY ZenonT(60), <2>1, <2>2
<1>8. ASSUME NEW n \in Block \ failed PROVE DiskHolds(n)'
  <2>1. ASSUME NEW c \in Buffer, block[c] = n, Pending(c)
        PROVE  block'[c] = n /\ Pending(c)'
    <3>1. CASE c = b
      <4>1. \A r \in Slots : request[r] # None => request[r].bh # b
        BY ZenonT(60), <1>3
      <4> QED
        BY ZenonT(60), <2>1, <3>1, <4>1 DEF Pending
    <3>2. CASE c # b
      <4>1. block'[c] = n /\ b_uptodate'[c] = b_uptodate[c] /\ b_dirt'[c] = b_dirt[c] /\ request' = request
        BY ZenonT(60), <1>1, <1>2, <2>1, <3>2
      <4> QED
        BY ZenonT(60), <2>1, <4>1 DEF Pending
    <3> QED
      BY ZenonT(60), <3>1, <3>2
  <2> QED
    BY ZenonT(60), <1>1, <2>1 DEF DInv, DiskHolds
<1> QED
  BY ZenonT(60), <1>1, <1>5, <1>6, <1>7, <1>8 DEF DInv

LEMMA VictimDInv ==
    ASSUME IInv, DInv, NEW p \in Proc, Victim(p)
    PROVE  DInv'
<1>1. PICK b \in Buffer, k \in Block : b = bh[p] /\ k = Head(want[p])
  BY SMTT(60) DEF IInv, TypeOK, Ctl, Victim, At
<1>2. CASE \E q : SleepOn(p, q)
  BY ZenonT(60), <1>2, SleepOnDInv
<1>3. CASE /\ Goto(p, "getblk") \/ Goto(p, "sync")
           /\ UNCHANGED <<bufferVars, deviceVars, historyVars, keep, rw, i>>
  <2>1. pc \in [Proc -> Quiet \cup {"slot", "use"}]
    BY ZenonT(60) DEF IInv, TypeOK, Quiet
  <2>2. Local(p) /\ pc'[p] \in Quiet
    BY ZenonT(60), <1>3, <2>1 DEF Local, dataVars, Goto, bufferVars, deviceVars, historyVars, Quiet
  <2> QED
    BY ZenonT(60), <2>2, QuietDInv
<1>4. CASE /\ ~b_lock[b] /\ ~Taken(b) /\ ~MustWrite(b) /\ ~Appeared(k)
           /\ Reuse(b, k) /\ Goto(p, "got")
           /\ UNCHANGED <<deviceVars, historyVars, localVars>>
  <2>1. b_count[b] = 0 /\ ~b_dirt[b]
    <3>1. b_count[b] \in Nat
      BY ZenonT(60) DEF IInv, TypeOK
    <3> QED
      BY SMTT(60), <1>4, <3>1 DEF Taken, MustWrite
  <2>2. \A c \in Buffer : block[c] # k
    BY ZenonT(60), <1>4 DEF Appeared, Found
  <2> QED
    BY ZenonT(60), <1>4, <2>1, <2>2, ReuseDInv
<1> QED
  BY ZenonT(60), <1>1, <1>2, <1>3, <1>4 DEF Victim, Moves, localVars

\* A request for b enters slot r.
LEMMA AddDInv ==
    ASSUME IInv, DInv, NEW p \in Proc, NEW r \in Slots, NEW cmd \in {"READ", "WRITE"},
           NEW b \in Buffer, request[r] = None, AddRequest(r, cmd, b),
           Sound(b) => IF cmd = "WRITE" THEN b_dirt[b] ELSE ~b_uptodate[b],
           \A q \in Proc \ {p} : pc[q] = "slot" => Target(q) # b,
           UNCHANGED <<block, b_uptodate, data, disk, latest, failed>>,
           pc'[p] \in Quiet,
           \A q \in Proc \ {p} : /\ pc'[q] = pc[q] /\ keep'[q] = keep[q]
                                 /\ rw'[q] = rw[q] /\ i'[q] = i[q]
    PROVE  DInv'
<1> DEFINE rec == [bh |-> b, cmd |-> cmd, moved |-> FALSE]
<1>1. rec.bh = b /\ rec.cmd = cmd /\ rec.moved = FALSE
  BY SMTT(60)
<1>a. rec \in Request
  BY ZenonT(60) DEF Request
<1>2. rec # None
  BY ZenonT(60), <1>a, RecordAssumption
<1>b. request' = [request EXCEPT ![r] = rec] /\ b_dirt' = [b_dirt EXCEPT ![b] = FALSE]
  BY ZenonT(60) DEF AddRequest
<1> HIDE DEF rec
<1>3. /\ \A s \in Slots : request'[s] = IF s = r THEN rec ELSE request[s]
      /\ ~b_dirt'[b] /\ \A c \in Buffer \ {b} : b_dirt'[c] = b_dirt[c]
  BY ZenonT(60), <1>b DEF IInv, TypeOK
<1>4. \A q \in Proc \ {p} : Target(q)' = Target(q)
  BY ZenonT(60) DEF Target, Scanned
<1>5. \A q \in Proc \ {p} : pc[q] = "slot" => Target(q) \in Buffer \ {b}
  BY ZenonT(60), TargetType DEF IInv
<1> USE DEF Sound
<1>6. \A c \in Buffer : BufferHolds(c)'
  BY ZenonT(60), <1>3 DEF DInv, BufferHolds
<1>7. \A s \in Slots : RequestHolds(s)'
  <2>1. Sound(b) /\ cmd = "WRITE" => b_uptodate[b]
    BY ZenonT(60) DEF DInv, BufferHolds
  <2>2. RequestHolds(r)'
    <3>1. request'[r].bh = b /\ request'[r].cmd = cmd /\ ~request'[r].moved
      BY ZenonT(60), <1>1, <1>3
    <3> QED
      BY ZenonT(60), <2>1, <3>1 DEF RequestHolds
  <2>3. ASSUME NEW s \in Slots \ {r} PROVE RequestHolds(s)'
    <3>1. request'[s] = request[s]
      BY ZenonT(60), <1>3
    <3>2. RequestHolds(s)
      BY ZenonT(60) DEF DInv
    <3>3. /\ block' = block /\ b_uptodate' = b_uptodate /\ data' = data
          /\ latest' = latest /\ failed' = failed
      BY ZenonT(60)
    <3> QED
      BY ZenonT(60), <3>1, <3>2, <3>3 DEF RequestHolds
  <2> QED
    BY ZenonT(60), <2>2, <2>3
<1>8. ASSUME NEW q \in Proc PROVE ProcessHolds(q)'
  <2>1. CASE q = p
    BY ZenonT(60), <2>1 DEF ProcessHolds, Quiet
  <2>2. CASE q # p
    <3>1. pc'[q] = pc[q] /\ keep'[q] = keep[q] /\ rw'[q] = rw[q] /\ Target(q)' = Target(q)
      BY ZenonT(60), <1>4, <2>2
    <3>2. pc[q] = "slot" => b_dirt'[Target(q)] = b_dirt[Target(q)]
      BY ZenonT(60), <1>3, <1>5, <2>2
    <3>3. ProcessHolds(q)
      BY ZenonT(60) DEF DInv
    <3>4. block' = block /\ b_uptodate' = b_uptodate /\ failed' = failed
      BY ZenonT(60)
    <3> QED
      BY ZenonT(60), <3>1, <3>2, <3>3, <3>4 DEF ProcessHolds
  <2> QED
    BY ZenonT(60), <2>1, <2>2
<1>9. ASSUME NEW n \in Block \ failed PROVE DiskHolds(n)'
  <2>1. ASSUME NEW c \in Buffer \ {b}, block[c] = n, Pending(c)
        PROVE  Pending(c)'
    BY ZenonT(60), <1>3, <2>1 DEF Pending
  <2>2. ASSUME block[b] = n, Pending(b) PROVE Pending(b)'
    <3>1. b_uptodate[b] /\ cmd = "WRITE"
      BY ZenonT(60), <2>2 DEF Pending
    <3>2. request'[r] # None /\ request'[r].bh = b /\ request'[r].cmd = "WRITE" /\ ~request'[r].moved
      BY ZenonT(60), <1>1, <1>2, <1>3, <3>1
    <3> QED
      BY ZenonT(60), <3>1, <3>2 DEF Pending
  <2>3. ASSUME NEW c \in Buffer, block[c] = n, Pending(c) PROVE Pending(c)'
    BY ZenonT(60), <2>1, <2>2, <2>3
  <2> QED
    BY ZenonT(60), <2>3 DEF DInv, DiskHolds
<1> QED
  BY ZenonT(60), <1>6, <1>7, <1>8, <1>9 DEF DInv

\* make_request looks again once it has the lock, so what it has found stays so.
LEMMA LockDInv ==
    ASSUME IInv, DInv, NEW p \in Proc, Lock(p)
    PROVE  DInv'
<1>0. Target(p) \in Buffer /\ pc[p] = "lock" /\ rw[p] \in {"READ", "WRITE"}
  BY ZenonT(60), TargetType DEF IInv, Lock, At, Ctl, TypeOK
<1>1. /\ pc \in [Proc -> Quiet \cup {"slot", "use"}]
      /\ rw \in [Proc -> {"READ", "WRITE", None}]
      /\ i \in [Proc -> Nat \ {0}]
  BY ZenonT(60) DEF IInv, TypeOK, Quiet
<1>2. CASE \E q : SleepOn(p, q)
  BY ZenonT(60), <1>2, SleepOnDInv
<1> USE DEF bufferVars, deviceVars, historyVars, localVars, Goto, Local, dataVars, Quiet
<1>3. CASE Resume(p) /\ UNCHANGED <<bufferVars, deviceVars, historyVars>>
  <2>1. Local(p) /\ pc'[p] \in Quiet
    BY ZenonT(60), <1>1, <1>3 DEF Resume
  <2> QED
    BY ZenonT(60), <2>1, QuietDInv
<1>4. CASE /\ ~Needless(rw[p], Target(p))
           /\ Goto(p, "slot")
           /\ UNCHANGED <<block, b_count, b_dirt, b_uptodate, data, free_list,
                          deviceVars, historyVars, localVars>>
  <2>1. Local(p) /\ pc'[p] = "slot"
    BY ZenonT(60), <1>1, <1>4
  <2>2. Target(p)' = Target(p) /\ rw'[p] = rw[p] /\ UNCHANGED <<b_dirt, b_uptodate>>
    BY ZenonT(60), <1>4 DEF Target, Scanned
  <2>3. ProcessHolds(p)'
    <3> HIDE DEF Local
    <3> QED
      BY ZenonT(60), <1>0, <1>4, <2>1, <2>2 DEF Needless, ProcessHolds
  <2> QED
    BY ZenonT(60), <2>1, <2>3, LocalDInv
<1> QED
  BY ZenonT(60), <1>2, <1>3, <1>4 DEF Lock

LEMMA SlotDInv ==
    ASSUME IInv, DInv, NEW p \in Proc, Slot(p)
    PROVE  DInv'
<1>1. PICK b \in Buffer, cmd \in {"READ", "WRITE"} :
          b = Target(p) /\ cmd = rw[p] /\ pc[p] = "slot"
  BY ZenonT(60), TargetType DEF IInv, Slot, At, Ctl, TypeOK
<1>2. CASE \E q : SleepOn(p, q)
  BY ZenonT(60), <1>2, SleepOnDInv
<1>3. ASSUME NEW r \in Empty(rw[p]), AddRequest(r, rw[p], b), Resume(p),
             UNCHANGED <<block, b_count, b_lock, b_uptodate, data, free_list,
                         disk, historyVars>>
      PROVE  DInv'
  <2>1. r \in Slots /\ request[r] = None
    BY ZenonT(60), EmptySlot
  <2>2. Sound(b) => IF cmd = "WRITE" THEN b_dirt[b] ELSE ~b_uptodate[b]
    BY ZenonT(60), <1>1 DEF DInv, ProcessHolds
  <2>3. \A q \in Proc \ {p} : pc[q] = "slot" => Target(q) # b
    <3>1. p \in Locking(b)
      BY ZenonT(60), <1>1 DEF Locking
    <3>2. \A q \in Locking(b) : q = p
      BY ZenonT(60), <3>1 DEF IInv, LockHasOneOwner, OneOwner
    <3> QED
      BY ZenonT(60), <3>2 DEF Locking
  <2>4. /\ pc'[p] \in Quiet
        /\ \A q \in Proc \ {p} : /\ pc'[q] = pc[q] /\ keep'[q] = keep[q]
                                 /\ rw'[q] = rw[q] /\ i'[q] = i[q]
    BY ZenonT(60), <1>3 DEF Resume, Goto, Quiet, IInv, TypeOK
  <2>5. AddRequest(r, cmd, b)
    BY ZenonT(60), <1>1, <1>3
  <2>6. UNCHANGED <<block, b_uptodate, data, disk, latest, failed>>
    BY ZenonT(60), <1>3 DEF historyVars
  <2> QED
    BY ZenonT(60), <2>1, <2>2, <2>3, <2>4, <2>5, <2>6, AddDInv
<1> QED
  BY ZenonT(60), <1>1, <1>2, <1>3 DEF Slot

LEMMA ReadAheadDInv ==
    ASSUME IInv, DInv, NEW p \in Proc, ReadAhead(p)
    PROVE  DInv'
<1>1. PICK b \in Buffer : b = keep[p]
  BY ZenonT(60) DEF IInv, TypeOK, ReadAhead
<1>2. /\ pc'[p] \in Quiet
      /\ \A q \in Proc \ {p} : /\ pc'[q] = pc[q] /\ keep'[q] = keep[q]
                               /\ rw'[q] = rw[q] /\ i'[q] = i[q]
      /\ UNCHANGED <<block, b_uptodate, data, disk, latest, failed>>
  BY ZenonT(60) DEF ReadAhead, Goto, Quiet, IInv, TypeOK, historyVars
<1>3. CASE UNCHANGED <<request, b_dirt>>
  <2>1. Local(p)
    BY ZenonT(60), <1>2, <1>3 DEF Local, dataVars
  <2> QED
    BY ZenonT(60), <1>2, <2>1, QuietDInv
<1>4. ASSUME NEW r \in Empty("READ"), AddRequest(r, "READ", b), ~b_lock[b], ~b_uptodate[b]
      PROVE  DInv'
  <2>1. r \in Slots /\ request[r] = None
    BY ZenonT(60), EmptySlot
  <2>2. \A q \in Proc : pc[q] = "slot" => Target(q) # b
    <3>1. Locking(b) = {}
      BY ZenonT(60), <1>4 DEF IInv, LockHasOneOwner, OneOwner
    <3> QED
      BY ZenonT(60), <3>1 DEF Locking
  <2> QED
    BY ZenonT(60), <1>2, <1>4, <2>1, <2>2, AddDInv
<1> QED
  BY ZenonT(60), <1>1, <1>3, <1>4 DEF ReadAhead

LEMMA GotDInv ==
    ASSUME IInv, DInv, "full" \notin Ops, NEW p \in Proc, Got(p)
    PROVE  DInv'
<1>1. op[p] # "full"
  BY SMTT(60) DEF IInv, TypeOK
<1>2. Local(p) /\ pc'[p] \in Quiet
  BY ZenonT(60), <1>1 DEF Got, Goto, bufferVars, deviceVars, historyVars, IInv, TypeOK,
                          Local, dataVars, Quiet
<1> QED
  BY ZenonT(60), <1>2, QuietDInv

LEMMA WaitDInv ==
    ASSUME IInv, DInv, NEW p \in Proc, Wait(p)
    PROVE  DInv'
<1>1. CASE \E q : SleepOn(p, q)
  BY ZenonT(60), <1>1, SleepOnDInv
<1>2. CASE /\ IF b_uptodate[keep[p]] THEN Leave(p, "use") ELSE Goto(p, "brelse")
           /\ UNCHANGED <<bufferVars, deviceVars, historyVars, localVars>>
  <2>1. /\ Local(p) /\ keep' = keep /\ b_uptodate' = b_uptodate
        /\ pc'[p] = IF b_uptodate[keep[p]] THEN "use" ELSE "brelse"
    BY ZenonT(60), <1>2 DEF Leave, Goto, bufferVars, deviceVars, historyVars, localVars,
                            IInv, TypeOK, Local, dataVars
  <2>2. ProcessHolds(p)'
    BY ZenonT(60), <2>1 DEF ProcessHolds
  <2> QED
    BY ZenonT(60), <2>1, <2>2, LocalDInv
<1> QED
  BY ZenonT(60), <1>1, <1>2 DEF Wait

LEMMA StartDInv ==
    ASSUME IInv, DInv, NEW p \in Proc, NEW o, NEW k, NEW next, Start(p, o, k, next)
    PROVE  DInv'
<1>1. Local(p) /\ pc'[p] \in Quiet
  BY ZenonT(60) DEF Start, Goto, bufferVars, deviceVars, historyVars, IInv, TypeOK,
                    Local, dataVars, Quiet
<1> QED
  BY ZenonT(60), <1>1, QuietDInv

\* The caller writes into the buffer: it is the only one of its block, and valid.
LEMMA UseDInv ==
    ASSUME IInv, DInv, NEW p \in Proc, NEW v \in Value, Use(p, v)
    PROVE  DInv'
<1>1. PICK b \in Buffer, k \in Block : b = keep[p] /\ k = block[b] /\ pc[p] = "use"
  BY SMTT(60), BufferNotNone DEF Use, At, IInv, Ctl, TypeOK, HasBlock
<1>2. /\ UNCHANGED <<block, b_uptodate, request, disk, failed, keep, rw, i>>
      /\ pc'[p] = "brelse" /\ \A q \in Proc \ {p} : pc'[q] = pc[q]
  BY ZenonT(60) DEF Use, Goto, deviceVars, localVars, IInv, TypeOK
<1>3. CASE UNCHANGED <<data, b_dirt, latest>>
  <2>1. Local(p) /\ pc'[p] \in Quiet
    BY ZenonT(60), <1>2, <1>3 DEF Local, dataVars, Quiet
  <2> QED
    BY ZenonT(60), <2>1, QuietDInv
<1>4. CASE /\ data' = [data EXCEPT ![b] = v]
           /\ b_dirt' = [b_dirt EXCEPT ![b] = TRUE]
           /\ latest' = [latest EXCEPT ![k] = v]
  <2>1. /\ data'[b] = v /\ b_dirt'[b] /\ latest'[k] = v
        /\ \A c \in Buffer \ {b} : data'[c] = data[c] /\ b_dirt'[c] = b_dirt[c]
        /\ \A n \in Block \ {k} : latest'[n] = latest[n]
    BY ZenonT(60), <1>4 DEF IInv, TypeOK
  <2>2. \A c \in Buffer \ {b} : block[c] # None => block[c] \in Block \ {k}
    BY ZenonT(60), <1>1 DEF IInv, TypeOK, OnlyOneOfItsKind
  <2>3. Sound(b) => b_uptodate[b]
    BY ZenonT(60), <1>1 DEF DInv, ProcessHolds
  <2>4. \A q \in Proc : Target(q)' = Target(q)
    BY ZenonT(60), <1>2 DEF Target, Scanned
  <2> USE DEF Sound
  <2>5. ASSUME NEW c \in Buffer PROVE BufferHolds(c)'
    <3>1. CASE c = b
      BY ZenonT(60), <1>1, <1>2, <2>1, <2>3, <3>1 DEF BufferHolds
    <3>2. CASE c # b
      <4>1. data'[c] = data[c] /\ b_dirt'[c] = b_dirt[c]
        BY ZenonT(60), <2>1, <3>2
      <4>2. block[c] # None => latest'[block[c]] = latest[block[c]]
        BY ZenonT(60), <2>1, <2>2, <3>2
      <4> QED
        BY ZenonT(60), <1>2, <4>1, <4>2 DEF DInv, BufferHolds
    <3> QED
      BY ZenonT(60), <3>1, <3>2
  <2>6. \A r \in Slots : RequestHolds(r)'
    <3>1. \A r \in Slots : request[r] # None => request[r].bh \in Buffer
      BY ZenonT(60) DEF IInv, TypeOK, Request
    <3>2. ASSUME NEW r \in Slots, request[r] # None, request[r].bh = b PROVE RequestHolds(r)'
      BY ZenonT(60), <1>1, <1>2, <2>1, <2>3, <3>2 DEF DInv, RequestHolds
    <3>3. ASSUME NEW r \in Slots, request[r] # None, request[r].bh # b PROVE RequestHolds(r)'
      <4> DEFINE c == request[r].bh
      <4>1. c \in Buffer /\ data'[c] = data[c]
        BY ZenonT(60), <2>1, <3>1, <3>3
      <4>2. block[c] # None => latest'[block[c]] = latest[block[c]]
        BY ZenonT(60), <2>1, <2>2, <3>3, <4>1
      <4> QED
        BY ZenonT(60), <1>2, <4>1, <4>2 DEF DInv, RequestHolds
    <3> QED
      BY ZenonT(60), <1>2, <3>2, <3>3 DEF RequestHolds
  <2>7. \A q \in Proc : ProcessHolds(q)'
    <3>1. \A q \in Proc : pc[q] = "slot" => Target(q) \in Buffer
      BY ZenonT(60), TargetType DEF IInv
    <3>2. ASSUME NEW q \in Proc, q # p PROVE ProcessHolds(q)'
      <4>1. pc'[q] = pc[q] /\ keep'[q] = keep[q] /\ rw'[q] = rw[q] /\ Target(q)' = Target(q)
        BY ZenonT(60), <1>2, <2>4, <3>2
      <4>2. pc[q] = "slot" /\ b_dirt[Target(q)] => b_dirt'[Target(q)]
        BY ZenonT(60), <2>1, <3>1
      <4> QED
        BY ZenonT(60), <1>2, <4>1, <4>2 DEF DInv, ProcessHolds
    <3>3. ProcessHolds(p)'
      BY ZenonT(60), <1>2 DEF ProcessHolds
    <3> QED
      BY ZenonT(60), <3>2, <3>3
  <2>8. ASSUME NEW n \in Block \ failed PROVE DiskHolds(n)'
    <3>1. CASE n = k
      <4>1. Pending(b)'
        BY ZenonT(60), <1>1, <1>2, <2>1, <2>3, <3>1 DEF Pending
      <4> QED
        BY ZenonT(60), <1>1, <1>2, <3>1, <4>1 DEF DiskHolds
    <3>2. CASE n # k
      <4>1. ASSUME NEW c \in Buffer, block[c] = n, Pending(c) PROVE Pending(c)'
        BY ZenonT(60), <1>1, <1>2, <2>1, <3>2, <4>1 DEF Pending
      <4> QED
        BY ZenonT(60), <1>2, <2>1, <3>2, <4>1 DEF DInv, DiskHolds
    <3> QED
      BY ZenonT(60), <3>1, <3>2
  <2> QED
    BY ZenonT(60), <1>2, <2>5, <2>6, <2>7, <2>8 DEF DInv
<1> QED
  BY ZenonT(60), <1>1, <1>3, <1>4 DEF Use

LEMMA RequestFacts ==
    ASSUME IInv, NEW r \in Slots, request[r] # None
    PROVE  /\ request[r] \in Request
           /\ request[r].bh \in Buffer
           /\ r \in InRequest(request[r].bh)
           /\ b_lock[request[r].bh]
           /\ block[request[r].bh] \in Block
<1>1. request[r] \in Request
  BY ZenonT(60) DEF IInv, TypeOK
<1>2. request[r].bh \in Buffer
  BY ZenonT(60), <1>1 DEF Request
<1>3. r \in InRequest(request[r].bh)
  BY ZenonT(60) DEF InRequest
<1>4. b_lock[request[r].bh]
  BY ZenonT(60), <1>2, <1>3 DEF IInv, LockHasOneOwner, OneOwner
<1>5. block[request[r].bh] \in Block
  BY ZenonT(60), <1>2, <1>4 DEF IInv, TypeOK, HasBlock
<1> QED
  BY ZenonT(60), <1>1, <1>2, <1>3, <1>4, <1>5

\* Nobody but request r has to do with its buffer.
LEMMA OnlyRequest ==
    ASSUME IInv, NEW r \in Slots, request[r] # None
    PROVE  /\ \A s \in Slots \ {r} : request[s] # None =>
                  request[s].bh \in Buffer \ {request[r].bh}
           /\ \A q \in Proc : pc[q] = "slot" => Target(q) \in Buffer \ {request[r].bh}
<1>1. PICK b \in Buffer : b = request[r].bh /\ r \in InRequest(b)
  BY ZenonT(60), RequestFacts
<1>2. (\A s \in InRequest(b) : s = r) /\ Locking(b) = {}
  BY ZenonT(60), <1>1 DEF IInv, LockHasOneOwner, OneOwner
<1>3. \A s \in Slots : request[s] # None => request[s].bh \in Buffer
  BY ZenonT(60), RequestFacts
<1>4. \A q \in Proc : pc[q] = "slot" => Target(q) \in Buffer
  BY ZenonT(60), TargetType DEF IInv
<1> QED
  BY ZenonT(60), <1>1, <1>2, <1>3, <1>4 DEF InRequest, Locking

LEMMA TransferDInv ==
    ASSUME IInv, DInv, NEW r \in Slots, Transfer(r)
    PROVE  DInv'
<1>0. request[r] # None /\ ~request[r].moved
  BY ZenonT(60) DEF Transfer
<1>1. PICK b \in Buffer, k \in Block, cmd \in {"READ", "WRITE"} :
          b = request[r].bh /\ k = block[b] /\ cmd = request[r].cmd
  BY ZenonT(60), <1>0, RequestFacts DEF Request
<1> DEFINE rec == [request[r] EXCEPT !.moved = TRUE]
<1>a. request[r] \in Request
  BY ZenonT(60), <1>0, RequestFacts
<1>2. rec.bh = b /\ rec.cmd = cmd /\ rec.moved = TRUE /\ rec \in Request
  BY ZenonT(60), <1>1, <1>a DEF Request
<1>3. rec # None
  BY ZenonT(60), <1>2, RecordAssumption
<1>b. request' = [request EXCEPT ![r] = rec]
  BY ZenonT(60) DEF Transfer
<1> HIDE DEF rec
<1>4. /\ UNCHANGED <<block, b_dirt, b_uptodate, pc, keep, rw, i, latest, failed>>
      /\ \A s \in Slots : request'[s] = IF s = r THEN rec ELSE request[s]
  BY ZenonT(60), <1>b DEF Transfer, localVars, historyVars, IInv, TypeOK
<1>5. \A q \in Proc : ProcessHolds(q)'
  BY ZenonT(60), <1>4 DEF DInv, ProcessHolds, Sound, Target, Scanned
<1> USE DEF Sound
<1>6. CASE cmd = "READ" /\ data' = [data EXCEPT ![b] = disk[k]] /\ UNCHANGED disk
  <2>1. data'[b] = disk[k] /\ \A c \in Buffer \ {b} : data'[c] = data[c]
    BY ZenonT(60), <1>6 DEF IInv, TypeOK
  <2>2. Sound(b) => ~b_uptodate[b]
    BY ZenonT(60), <1>0, <1>1, <1>6 DEF DInv, RequestHolds
  <2>3. Sound(b) => disk[k] = latest[k]
    <3> SUFFICES ASSUME Sound(b) PROVE disk[k] = latest[k]
      BY ZenonT(60)
    <3>1. \A c \in Buffer : block[c] = k => c = b
      BY ZenonT(60), <1>1 DEF IInv, OnlyOneOfItsKind
    <3>2. ~Pending(b)
      BY ZenonT(60), <2>2 DEF Pending
    <3>3. DiskHolds(k)
      BY ZenonT(60), <1>1 DEF DInv
    <3> QED
      BY ZenonT(60), <3>1, <3>2, <3>3 DEF DiskHolds
  <2>4. \A c \in Buffer : BufferHolds(c)'
    BY ZenonT(60), <1>4, <2>1, <2>2 DEF DInv, BufferHolds
  <2>5. RequestHolds(r)'
    <3>1. request'[r] = rec
      BY ZenonT(60), <1>4
    <3>2. Sound(b)' => Sound(b)
      BY ZenonT(60), <1>4
    <3> QED
      BY ZenonT(60), <1>1, <1>2, <1>4, <1>6, <2>1, <2>2, <2>3, <3>1, <3>2 DEF RequestHolds
  <2>6. ASSUME NEW s \in Slots \ {r} PROVE RequestHolds(s)'
    <3>1. request'[s] = request[s]
      BY ZenonT(60), <1>4
    <3>2. request[s] # None => request[s].bh \in Buffer \ {b}
      BY ZenonT(60), <1>0, <1>1, OnlyRequest
    <3>3. request[s] # None => data'[request[s].bh] = data[request[s].bh]
      BY ZenonT(60), <2>1, <3>2
    <3> QED
      BY ZenonT(60), <1>4, <3>1, <3>3 DEF DInv, RequestHolds
  <2>7. ASSUME NEW n \in Block \ failed PROVE DiskHolds(n)'
    <3>1. ASSUME NEW c \in Buffer, Pending(c) PROVE Pending(c)'
      BY ZenonT(60), <1>1, <1>4, <1>6, <3>1 DEF Pending
    <3> QED
      BY ZenonT(60), <1>4, <1>6, <3>1 DEF DInv, DiskHolds
  <2> QED
    BY ZenonT(60), <1>4, <1>5, <2>4, <2>5, <2>6, <2>7 DEF DInv
<1>7. CASE cmd = "WRITE" /\ disk' = [disk EXCEPT ![k] = data[b]] /\ UNCHANGED data
  <2>1. disk'[k] = data[b] /\ \A n \in Block \ {k} : disk'[n] = disk[n]
    BY ZenonT(60), <1>7 DEF IInv, TypeOK
  <2>2. Sound(b) => b_uptodate[b] /\ data[b] = latest[k]
    BY ZenonT(60), <1>0, <1>1, <1>7 DEF DInv, RequestHolds, BufferHolds
  <2>3. \A c \in Buffer : BufferHolds(c)'
    BY ZenonT(60), <1>4, <1>7 DEF DInv, BufferHolds
  <2>4. RequestHolds(r)'
    BY ZenonT(60), <1>1, <1>2, <1>4, <1>7, <2>2 DEF RequestHolds
  <2>5. \A s \in Slots \ {r} : RequestHolds(s)'
    BY ZenonT(60), <1>4, <1>7 DEF DInv, RequestHolds
  <2>6. ASSUME NEW n \in Block \ failed PROVE DiskHolds(n)'
    <3>1. CASE n = k
      BY ZenonT(60), <1>1, <1>4, <2>1, <2>2, <3>1 DEF DiskHolds
    <3>2. CASE n # k
      <4>1. ASSUME NEW c \in Buffer \ {b}, Pending(c) PROVE Pending(c)'
        BY ZenonT(60), <1>1, <1>4, <4>1 DEF Pending
      <4> QED
        BY ZenonT(60), <1>1, <1>4, <2>1, <3>2, <4>1 DEF DInv, DiskHolds
    <3> QED
      BY ZenonT(60), <3>1, <3>2
  <2> QED
    BY ZenonT(60), <1>4, <1>5, <2>3, <2>4, <2>5, <2>6 DEF DInv
<1> QED
  BY ZenonT(60), <1>1, <1>6, <1>7 DEF Transfer

LEMMA EndRequestDInv ==
    ASSUME IInv, DInv, NEW r \in Slots, NEW uptodate \in BOOLEAN, EndRequest(r, uptodate)
    PROVE  DInv'
<1>0. request[r] # None /\ (uptodate => request[r].moved)
  BY ZenonT(60) DEF EndRequest
<1>1. PICK b \in Buffer, k \in Block, cmd \in {"READ", "WRITE"} :
          b = request[r].bh /\ k = block[b] /\ cmd = request[r].cmd
  BY ZenonT(60), <1>0, RequestFacts DEF Request
<1>2. /\ UNCHANGED <<block, b_dirt, data, pc, keep, rw, i, disk, latest>>
      /\ \A s \in Slots : request'[s] = IF s = r THEN None ELSE request[s]
      /\ \A c \in Buffer : b_uptodate'[c] = IF c = b THEN uptodate ELSE b_uptodate[c]
  BY ZenonT(60), <1>1 DEF EndRequest, localVars, IInv, TypeOK
<1>3. failed \subseteq failed' /\ (~uptodate /\ cmd = "WRITE" => k \in failed')
  BY ZenonT(60), <1>1 DEF EndRequest
<1>4. block[b] \notin failed' /\ cmd = "WRITE" => uptodate /\ b_uptodate[b]
  BY ZenonT(60), <1>0, <1>1, <1>3 DEF DInv, RequestHolds, Sound
<1>5. block[b] \notin failed' /\ cmd = "READ" =>
          ~b_uptodate[b] /\ (uptodate => data[b] = latest[k])
  BY ZenonT(60), <1>0, <1>1, <1>3 DEF DInv, RequestHolds, Sound
<1> USE DEF Sound
<1>6. \A c \in Buffer : BufferHolds(c)'
  BY ZenonT(60), <1>1, <1>2, <1>3, <1>4, <1>5 DEF DInv, BufferHolds
<1>7. ASSUME NEW s \in Slots PROVE RequestHolds(s)'
  <2>1. CASE s = r \/ request[s] = None
    BY ZenonT(60), <1>2, <2>1 DEF RequestHolds
  <2>2. CASE s # r /\ request[s] # None
    <3>1. request'[s] = request[s] /\ request[s].bh \in Buffer /\ request[s].bh # b
      BY ZenonT(60), <1>0, <1>1, <1>2, <2>2, OnlyRequest
    <3>2. b_uptodate'[request[s].bh] = b_uptodate[request[s].bh]
      BY ZenonT(60), <1>2, <3>1
    <3>3. RequestHolds(s)
      BY ZenonT(60) DEF DInv
    <3>4. Sound(request[s].bh)' => Sound(request[s].bh)
      BY ZenonT(60), <1>2, <1>3, <3>1
    <3>5. data' = data /\ latest' = latest /\ block' = block
      BY ZenonT(60), <1>2
    <3> QED
      BY ZenonT(60), <3>1, <3>2, <3>3, <3>4, <3>5 DEF RequestHolds
  <2> QED
    BY ZenonT(60), <2>1, <2>2
<1>8. \A q \in Proc : ProcessHolds(q)'
  <2>1. \A q \in Proc : Target(q)' = Target(q)
    BY ZenonT(60), <1>2 DEF Target, Scanned
  <2>2. \A q \in Proc : pc[q] = "use" => keep[q] \in Buffer
    BY ZenonT(60) DEF IInv, Ctl
  <2>3. ASSUME NEW q \in Proc PROVE ProcessHolds(q)'
    <3>1. ProcessHolds(q)
      BY ZenonT(60) DEF DInv
    <3>2. pc[q] = "slot" => Target(q) \in Buffer \ {b}
      BY ZenonT(60), <1>0, <1>1, OnlyRequest
    <3>3. pc[q] = "slot" => b_uptodate'[Target(q)] = b_uptodate[Target(q)]
      BY ZenonT(60), <1>2, <3>2
    <3>4. ASSUME pc[q] = "use", Sound(keep[q])' PROVE b_uptodate'[keep[q]]
      <4>1. b_uptodate[keep[q]]
        BY ZenonT(60), <1>2, <1>3, <3>1, <3>4 DEF ProcessHolds
      <4>2. CASE keep[q] # b
        BY ZenonT(60), <1>2, <2>2, <3>4, <4>1, <4>2
      <4>3. CASE keep[q] = b
        <5>1. block[b] \notin failed'
          BY ZenonT(60), <1>2, <3>4, <4>3
        <5>2. uptodate
          BY ZenonT(60), <1>1, <1>4, <1>5, <4>1, <4>3, <5>1
        <5> QED
          BY ZenonT(60), <1>2, <4>3, <5>2
      <4> QED
        BY ZenonT(60), <4>2, <4>3
    <3>5. /\ pc' = pc /\ keep' = keep /\ rw' = rw /\ b_dirt' = b_dirt /\ block' = block
          /\ failed \subseteq failed' /\ Target(q)' = Target(q)
      BY ZenonT(60), <1>2, <1>3, <2>1
    <3> QED
      BY ZenonT(60), <3>1, <3>3, <3>4, <3>5 DEF ProcessHolds
  <2> QED
    BY ZenonT(60), <2>3
<1>9. ASSUME NEW n \in Block \ failed' PROVE DiskHolds(n)'
  <2>1. ASSUME NEW c \in Buffer \ {b}, Pending(c) PROVE Pending(c)'
    BY ZenonT(60), <1>1, <1>2, <2>1 DEF Pending
  <2>2. ASSUME block[b] = n, Pending(b) PROVE Pending(b)'
    <3>1. uptodate /\ cmd = "WRITE"
      BY ZenonT(60), <1>4, <1>5, <2>2 DEF Pending
    <3>2. b_dirt[b]
      BY ZenonT(60), <1>0, <1>1, <2>2, <3>1, OnlyRequest DEF Pending
    <3> QED
      BY ZenonT(60), <1>2, <3>1, <3>2 DEF Pending
  <2>3. n \in Block \ failed
    BY ZenonT(60), <1>3
  <2> QED
    BY ZenonT(60), <1>2, <2>1, <2>2, <2>3 DEF DInv, DiskHolds
<1> QED
  BY ZenonT(60), <1>6, <1>7, <1>8, <1>9 DEF DInv

\* Every step preserves what the buffers, the requests and the disk hold.
LEMMA NextDInv ==
    ASSUME "full" \notin Ops, IInv, DInv, [Next]_vars
    PROVE  DInv'
<1>1. ASSUME NEW p \in Proc, Step(p) PROVE DInv'
  BY ZenonT(60), <1>1, QuietSteps, VictimDInv, LockDInv, SlotDInv, GotDInv, ReadAheadDInv,
     WaitDInv, UseDInv DEF Step
<1>2. ASSUME NEW p \in Proc, NEW o \in Ops, NEW k \in Block, NEW next \in Block,
             Start(p, o, k, next)
      PROVE  DInv'
  BY ZenonT(60), <1>2, StartDInv
<1>3. ASSUME NEW r \in Slots, Disk(r) PROVE DInv'
  BY ZenonT(60), <1>3, TransferDInv, EndRequestDInv DEF Disk
<1>4. CASE UNCHANGED vars
  <2> USE DEF vars, bufferVars, deviceVars, historyVars, localVars, Sound
  <2>1. \A b \in Buffer : BufferHolds(b)'
    BY ZenonT(60), <1>4 DEF DInv, BufferHolds
  <2>2. \A r \in Slots : RequestHolds(r)'
    BY ZenonT(60), <1>4 DEF DInv, RequestHolds
  <2>3. \A p \in Proc : ProcessHolds(p)'
    BY ZenonT(60), <1>4 DEF DInv, ProcessHolds, Target, Scanned
  <2>4. ASSUME NEW k \in Block \ failed PROVE DiskHolds(k)'
    <3>1. \A b \in Buffer : Pending(b) => Pending(b)'
      BY ZenonT(60), <1>4 DEF Pending
    <3>2. disk' = disk /\ latest' = latest /\ block' = block
      BY ZenonT(60), <1>4
    <3>3. DiskHolds(k)
      BY ZenonT(60) DEF DInv
    <3> QED
      BY ZenonT(60), <3>1, <3>2, <3>3 DEF DiskHolds
  <2>5. failed' = failed
    BY ZenonT(60), <1>4
  <2> QED
    BY ZenonT(60), <2>1, <2>2, <2>3, <2>4, <2>5 DEF DInv
<1> QED
  BY ZenonT(60), <1>1, <1>2, <1>3, <1>4 DEF Next

\* What a user reads, and where the last value of a block is, follow.
LEMMA DataFollows ==
    ASSUME IInv, DInv
    PROVE  ReadsLatest /\ NothingLost
<1>1. ReadsLatest
  <2>1. \A p \in Proc : pc[p] = "use" => keep[p] \in Buffer /\ block[keep[p]] # None
    BY ZenonT(60), BufferNotNone DEF IInv, Ctl, HasBlock
  <2> QED
    BY ZenonT(60), <2>1 DEF ReadsLatest, DInv, ProcessHolds, BufferHolds, Sound
<1>2. NothingLost
  <2>1. ASSUME NEW k \in Block \ failed, NEW b \in Buffer, block[b] = k, Pending(b)
        PROVE  /\ data[b] = latest[k]
               /\ b_dirt[b] \/ \E r \in Slots : /\ request[r] # None
                                                /\ request[r].bh = b /\ request[r].cmd = "WRITE"
    BY ZenonT(60), <2>1 DEF DInv, BufferHolds, Sound, Pending
  <2>2. \A k \in Block \ failed : DiskHolds(k)
    BY ZenonT(60) DEF DInv
  <2>3. ASSUME NEW k \in Block \ failed, disk[k] # latest[k]
        PROVE  \E b \in Buffer :
                   /\ block[b] = k /\ data[b] = latest[k]
                   /\ b_dirt[b] \/ \E r \in Slots : /\ request[r] # None
                                                    /\ request[r].bh = b /\ request[r].cmd = "WRITE"
    <3>1. PICK b \in Buffer : block[b] = k /\ Pending(b)
      BY ZenonT(60), <2>2, <2>3 DEF DiskHolds
    <3> QED
      BY ZenonT(60), <2>1, <3>1
  <2> QED
    BY ZenonT(60), <2>3 DEF NothingLost
<1> QED
  BY ZenonT(60), <1>1, <1>2
-----------------------------------------------------------------------------
LEMMA TransferIInv ==
    ASSUME IInv, NEW r \in Slots, Transfer(r)
    PROVE  IInv'
<1>0. request[r] # None
  BY ZenonT(60) DEF Transfer
<1>1. request[r] \in Request /\ request[r].bh \in Buffer /\ block[request[r].bh] \in Block
  BY ZenonT(60), <1>0, RequestFacts
<1>2. data' \in [Buffer -> Value] /\ disk' \in [Block -> Value]
  <2>1. data \in [Buffer -> Value] /\ disk \in [Block -> Value]
    BY ZenonT(60) DEF IInv, TypeOK
  <2> QED
    BY ZenonT(60), <1>1, <2>1 DEF Transfer
<1> DEFINE rec == [request[r] EXCEPT !.moved = TRUE]
<1>3. rec \in Request /\ rec.bh = request[r].bh
  BY ZenonT(60), <1>1 DEF Request
<1>4. rec # None
  BY ZenonT(60), <1>3, RecordAssumption
<1>5. /\ request' = [request EXCEPT ![r] = rec]
      /\ UNCHANGED <<block, b_count, b_lock, b_dirt, b_uptodate, free_list, cpu, pc, wait,
                     localVars, historyVars>>
  BY ZenonT(60) DEF Transfer
<1> HIDE DEF rec
<1>6. request' \in [Slots -> {None} \cup Request]
      /\ \A s \in Slots : request'[s] = IF s = r THEN rec ELSE request[s]
  BY ZenonT(60), <1>3, <1>5 DEF IInv, TypeOK
<1> USE DEF localVars, historyVars
<1>7. TypeOK'
  BY ZenonT(60), <1>2, <1>5, <1>6 DEF IInv, TypeOK
<1>8. Ctl' /\ HasBlock' /\ OnlyOneOfItsKind'
  BY ZenonT(60), <1>5 DEF IInv, Ctl, HasBlock, OnlyOneOfItsKind
<1>9. LockHasOneOwner'
  <2>1. ASSUME NEW c \in Buffer PROVE InRequest(c)' = InRequest(c)
    BY ZenonT(60), <1>0, <1>3, <1>4, <1>6 DEF InRequest
  <2>2. ASSUME NEW c \in Buffer PROVE Locking(c)' = Locking(c)
    BY ZenonT(60), <1>5 DEF Locking, Target, Scanned
  <2>3. b_lock' = b_lock
    BY ZenonT(60), <1>5
  <2>4. ASSUME NEW c \in Buffer PROVE OneOwner(c)'
    <3>1. OneOwner(c)
      BY ZenonT(60) DEF IInv, LockHasOneOwner
    <3>2. InRequest(c)' = InRequest(c) /\ Locking(c)' = Locking(c)
      BY ZenonT(60), <2>1, <2>2
    <3> QED
      BY ZenonT(60), <2>3, <3>1, <3>2 DEF OneOwner
  <2> QED
    BY ZenonT(60), <2>4 DEF LockHasOneOwner
<1>10. CountIsReferences'
  BY ZenonT(60), <1>5, CountFrame DEF IInv
<1> QED
  BY ZenonT(60), <1>7, <1>8, <1>9, <1>10 DEF IInv

LEMMA EndRequestIInv ==
    ASSUME IInv, NEW r \in Slots, NEW uptodate \in BOOLEAN, EndRequest(r, uptodate)
    PROVE  IInv'
<1>0. request[r] # None
  BY ZenonT(60) DEF EndRequest
<1>a. PICK b \in Buffer : b = request[r].bh
  BY ZenonT(60), <1>0, RequestFacts
<1>1. r \in InRequest(b) /\ b_lock[b] /\ block[b] \in Block
  BY ZenonT(60), <1>0, <1>a, RequestFacts
<1>2. /\ b_uptodate' = [b_uptodate EXCEPT ![b] = uptodate]
      /\ b_lock' = [b_lock EXCEPT ![b] = FALSE]
      /\ wait' = Awakened({b, wait_for_request})
      /\ failed' \in {failed, failed \cup {block[b]}}
      /\ request' = [request EXCEPT ![r] = None]
      /\ UNCHANGED <<block, b_count, b_dirt, data, free_list, disk, cpu, pc, localVars,
                     latest>>
  BY ZenonT(60), <1>a DEF EndRequest
<1>3. /\ b_uptodate' \in [Buffer -> BOOLEAN] /\ b_lock' \in [Buffer -> BOOLEAN]
      /\ ~b_lock'[b] /\ \A c \in Buffer \ {b} : b_lock'[c] = b_lock[c]
      /\ failed' \subseteq Block
  <2>1. /\ b_uptodate \in [Buffer -> BOOLEAN] /\ b_lock \in [Buffer -> BOOLEAN]
        /\ failed \subseteq Block
    BY ZenonT(60) DEF IInv, TypeOK
  <2> QED
    BY ZenonT(60), <1>1, <1>2, <2>1
<1>4. /\ request' \in [Slots -> {None} \cup Request]
      /\ \A s \in Slots : request'[s] = IF s = r THEN None ELSE request[s]
  BY ZenonT(60), <1>2 DEF IInv, TypeOK
<1>5. wait' \in [Proc -> Queue \cup {None}]
  BY ZenonT(60), <1>2, AwakenedType DEF IInv
<1> USE DEF localVars
<1>6. TypeOK'
  BY ZenonT(60), <1>2, <1>3, <1>4, <1>5 DEF IInv, TypeOK
<1>7. Ctl'
  BY ZenonT(60), <1>2 DEF IInv, Ctl
<1>8. HasBlock' /\ OnlyOneOfItsKind'
  BY ZenonT(60), <1>2, <1>3 DEF IInv, HasBlock, OnlyOneOfItsKind
<1>9. LockHasOneOwner'
  <2>1. InRequest(b) = {r} /\ Locking(b) = {}
    <3>1. OneOwner(b)
      BY ZenonT(60) DEF IInv, LockHasOneOwner
    <3> QED
      BY ZenonT(60), <1>1, <3>1 DEF OneOwner
  <2>2. InRequest(b)' = {}
    BY ZenonT(60), <1>4, <2>1 DEF InRequest
  <2>3. \A c \in Buffer \ {b} : InRequest(c)' = InRequest(c)
    BY ZenonT(60), <1>a, <1>4 DEF InRequest
  <2>4. \A c \in Buffer : Locking(c)' = Locking(c)
    BY ZenonT(60), <1>2 DEF Locking, Target, Scanned
  <2>5. OneOwner(b)'
    BY ZenonT(60), <1>3, <2>1, <2>2, <2>4 DEF OneOwner
  <2> QED
    BY ZenonT(60), <1>3, <2>3, <2>4, <2>5, LockStep DEF IInv
<1>10. CountIsReferences'
  BY ZenonT(60), <1>2, CountFrame DEF IInv
<1> QED
  BY ZenonT(60), <1>6, <1>7, <1>8, <1>9, <1>10 DEF IInv

LEMMA NextIInv == IInv /\ [Next]_vars => IInv'
<1> SUFFICES ASSUME IInv, [Next]_vars PROVE IInv'
  BY ZenonT(60)
<1>1. ASSUME NEW p \in Proc, Step(p) PROVE IInv'
  BY ZenonT(60), <1>1, GetblkIInv, HashedIInv, VictimIInv, SyncIInv, LockIInv, SlotIInv, GotIInv,
     ReadAheadIInv, WaitIInv, BrelseIInv, UseIInv DEF Step
<1>2. ASSUME NEW p \in Proc, NEW o \in Ops, NEW k \in Block, NEW next \in Block,
             Start(p, o, k, next)
      PROVE IInv'
  BY ZenonT(60), <1>2, StartIInv
<1>3. ASSUME NEW r \in Slots, Disk(r) PROVE IInv'
  BY ZenonT(60), <1>3, TransferIInv, EndRequestIInv DEF Disk
<1>4. CASE UNCHANGED vars
  <2> USE DEF vars, bufferVars, deviceVars, historyVars, localVars
  <2>1. TypeOK' /\ Ctl' /\ HasBlock' /\ OnlyOneOfItsKind'
    BY ZenonT(60), <1>4 DEF IInv, TypeOK, Ctl, HasBlock, OnlyOneOfItsKind
  <2>2. LockHasOneOwner' /\ CountIsReferences'
    BY ZenonT(60), <1>4, LockFrame, CountFrame DEF IInv
  <2> QED
    BY ZenonT(60), <2>1, <2>2 DEF IInv
<1> QED
  BY ZenonT(60), <1>1, <1>2, <1>3, <1>4 DEF Next

\* The inductive invariant holds for every number of buffers, slots and processes.
THEOREM CacheInvariant == Spec => []IInv
<1>1. Init => IInv
  BY ZenonT(60), InitIInv
<1>2. IInv /\ [Next]_vars => IInv'
  BY ZenonT(60), NextIInv
<1> QED
  BY <1>1, <1>2, PTL DEF Spec

\* No block is ever in the cache twice: the check after the last sleep of getblk
\* (buffer.c:240-243) suffices, whatever ran while it slept.
THEOREM OnlyOneOfItsKindHolds == Spec => []OnlyOneOfItsKind
<1>1. IInv => OnlyOneOfItsKind
  BY ZenonT(60) DEF IInv
<1> QED
  BY <1>1, CacheInvariant, PTL

\* b_count counts the processes that refer to a buffer: brelse (buffer.c:256-264)
\* never gives back what nobody has.
THEOREM CountIsReferencesHolds == Spec => []CountIsReferences
<1>1. IInv => CountIsReferences
  BY ZenonT(60) DEF IInv
<1> QED
  BY <1>1, CacheInvariant, PTL

\* Every locked buffer is in exactly one request, or belongs to the one process
\* that looks for a slot for it in make_request (ll_rw_blk.c:88-143).
THEOREM LockHasOneOwnerHolds == Spec => []LockHasOneOwner
<1>1. IInv => LockHasOneOwner
  BY ZenonT(60) DEF IInv
<1> QED
  BY <1>1, CacheInvariant, PTL

\* All variables keep their types: getblk, bread and the request end always see
\* a buffer where they use one, and b_count never goes below zero.
THEOREM TypeCorrect == Spec => []TypeOK
<1>1. IInv => TypeOK
  BY ZenonT(60) DEF IInv
<1> QED
  BY <1>1, CacheInvariant, PTL

\* getblk gives a buffer to another block only while it is unused, unlocked and
\* clean (buffer.c:245), however long it slept since it chose the buffer.
THEOREM ReusedOnlyWhenFreeHolds == Spec => ReusedOnlyWhenFree
<1> DEFINE Free == \A b \in Buffer : block'[b] # block[b] =>
                       b_count[b] = 0 /\ ~b_lock[b] /\ ~b_dirt[b]
<1>1. IInv /\ Next => Free
  <2> SUFFICES ASSUME IInv, Next PROVE Free
    BY ZenonT(60)
  <2>1. ASSUME NEW p \in Proc, Victim(p) PROVE Free
    <3>1. CASE UNCHANGED block
      BY ZenonT(60), <3>1
    <3>2. CASE /\ ~b_lock[bh[p]] /\ ~Taken(bh[p]) /\ ~MustWrite(bh[p])
               /\ Reuse(bh[p], Head(want[p]))
      <4>1. bh[p] \in Buffer
        BY ZenonT(60), <2>1 DEF IInv, Ctl, Victim, At
      <4>2. /\ ~b_lock[bh[p]] /\ b_count[bh[p]] = 0 /\ ~b_dirt[bh[p]]
        <5>1. b_count[bh[p]] \in Nat
          BY ZenonT(60), <4>1 DEF IInv, TypeOK
        <5> QED
          BY SMTT(60), <3>2, <5>1 DEF Taken, MustWrite
      <4>3. \A c \in Buffer : c # bh[p] => block'[c] = block[c]
        BY ZenonT(60), <3>2, <4>1 DEF Reuse, IInv, TypeOK
      <4> QED
        BY ZenonT(60), <4>2, <4>3
    <3> QED
      BY ZenonT(60), <2>1, <3>1, <3>2 DEF Victim, SleepOn, Moves, bufferVars
  <2>2. ASSUME NEW p \in Proc, Step(p), ~Victim(p) PROVE UNCHANGED block
    BY ZenonT(60), <2>2 DEF Step, Getblk, Hashed, Sync, Lock, Slot, Got, ReadAhead, Wait, Use, Brelse,
                SleepOn, Moves, bufferVars
  <2>3. ASSUME NEW p \in Proc, NEW o \in Ops, NEW k \in Block, NEW next \in Block,
               Start(p, o, k, next)
        PROVE UNCHANGED block
    BY ZenonT(60), <2>3 DEF Start, bufferVars
  <2>4. ASSUME NEW r \in Slots, Disk(r) PROVE UNCHANGED block
    BY ZenonT(60), <2>4 DEF Disk, Transfer, EndRequest
  <2> QED
    BY ZenonT(60), <2>1, <2>2, <2>3, <2>4 DEF Next
<1>2. IInv /\ [Next]_vars => [Free]_vars
  BY ZenonT(60), <1>1
<1> QED
  BY <1>2, CacheInvariant, PTL DEF Spec, ReusedOnlyWhenFree

\* With the data: both invariants together are inductive.
THEOREM DataInvariant ==
    ASSUME "full" \notin Ops
    PROVE  Spec => [](IInv /\ DInv)
<1>1. Init => IInv /\ DInv
  BY ZenonT(60), InitIInv, InitDInv
<1>2. IInv /\ DInv /\ [Next]_vars => IInv' /\ DInv'
  BY ZenonT(60), NextIInv, NextDInv
<1> QED
  BY <1>1, <1>2, PTL DEF Spec

\* Unless whole blocks are written without being read, whoever uses a buffer sees
\* what was last written to its block: no read overtakes a write, no buffer is
\* valid before its data are there, none is reused with data not yet written.
THEOREM ReadsLatestHolds ==
    ASSUME "full" \notin Ops
    PROVE  Spec => []ReadsLatest
<1>1. IInv /\ DInv => ReadsLatest
  BY ZenonT(60), DataFollows
<1> QED
  BY <1>1, DataInvariant, PTL

\* What was last written to a block is on the disk, or in a buffer that is dirty
\* or in a write request, unless a write of the block has failed.
THEOREM NothingLostHolds ==
    ASSUME "full" \notin Ops
    PROVE  Spec => []NothingLost
<1>1. IInv /\ DInv => NothingLost
  BY ZenonT(60), DataFollows
<1> QED
  BY <1>1, DataInvariant, PTL
=============================================================================
