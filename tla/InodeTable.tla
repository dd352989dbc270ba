----------------------------- MODULE InodeTable -----------------------------
(***************************************************************************)
(* The in-core inodes and the super blocks under interleaving: iget, iput, *)
(* get_empty_inode, read_inode, write_inode, sync_inodes (fs/inode.c),     *)
(* new_inode and free_inode (fs/bitmap.c), mount and umount (fs/super.c).  *)
(*                                                                         *)
(* A step goes from one place where the kernel may sleep to the next.      *)
(* Waiting for i_lock or s_lock is a guard: whoever is woken looks again.  *)
(* Of an inode's contents the link count and a value are kept; disk[d][n]  *)
(* is what the buffer cache has of it.  A process holds one inode.         *)
(***************************************************************************)
EXTENDS Naturals, Sequences, FiniteSets

CONSTANTS
    Proc,
    NR_INODE, NR_SUPER,
    Nr,         \* inode numbers of a device; 1 is ROOT_INO
    Unused,     \* those no inode has at first
    MaxValue,   \* bound on changes to an inode
    Uses        \* sets of what processes do, one of which is chosen

ROOT_INO == 1
ROOT_DEV == 1
Dev == {1, 2}
Slot == 1..NR_INODE
Sb == 1..NR_SUPER

VARIABLES
    w,      \* inode_table, super_block, the disks, and what they should hold
    at,     \* for each process: its stack of labels, inodes and numbers
    uses, panic

vars == <<w, at, uses, panic>>

Zero == [dev |-> 0, num |-> 0, count |-> 0, dirt |-> FALSE, lock |-> FALSE,
         nlinks |-> 0, value |-> 0, mount |-> FALSE]
NoSb == [dev |-> 0, lock |-> FALSE, imount |-> 0]
Idle == [stack |-> <<"idle">>, inode |-> 0, empty |-> 0, dev |-> 0, nr |-> 0, sb |-> 0]

\* mount_root: the root inode is held by its super block and its first process.
Init ==
    /\ w = [inode |-> [s \in Slot |-> IF s # 1 THEN Zero
                          ELSE [Zero EXCEPT !.dev = ROOT_DEV, !.num = ROOT_INO, !.count = 4, !.nlinks = 1]],
            sb |-> [b \in Sb |-> IF b # 1 THEN NoSb ELSE [NoSb EXCEPT !.dev = ROOT_DEV, !.imount = 1]],
            disk |-> [d \in Dev |-> [n \in Nr |-> [nlinks |-> 1, value |-> 0]]],
            imap |-> [d \in Dev |-> Nr \ Unused],    \* the bitmap
            linked |-> [d \in Dev |-> Nr \ Unused],  \* what directories name
            latest |-> [d \in Dev |-> [n \in Nr |-> 0]]]
    /\ at = [p \in Proc |-> Idle]
    /\ uses \in Uses /\ panic = "none"

At(p, label) == Head(at[p].stack) = label
Goes(p, a, w2) == panic = "none" /\ at' = [at EXCEPT ![p] = a] /\ w' = w2 /\ UNCHANGED <<uses, panic>>
Panics(why) == panic = "none" /\ panic' = why /\ UNCHANGED <<w, at, uses>>

\* Calls, jumps and returns of a process in state a.
To(a, label) == [a EXCEPT !.stack = <<label>> \o Tail(@)]
Calling(a, label, next) == [a EXCEPT !.stack = <<label, next>> \o Tail(@)]
Return(a) == IF Len(a.stack) = 2 THEN Idle ELSE [a EXCEPT !.stack = Tail(@)]

InCore(d, n) == {s \in Slot : w.inode[s].dev = d /\ w.inode[s].num = n}
Of(d) == {b \in Sb : w.sb[b].dev = d}
Lowest(S) == CHOOSE s \in S : \A t \in S : s <= t

-----------------------------------------------------------------------------
\* get_empty_inode: any unused slot may be the next in the round of last_inode.
get_empty_inode(p) ==
    /\ At(p, "get_empty_inode")
    /\ LET unused == {s \in Slot : w.inode[s].count = 0}
       IN IF unused = {} THEN Panics("No free inodes in mem")
          ELSE \E s \in unused :
             /\ ~w.inode[s].lock
             /\ IF w.inode[s].dirt
                THEN Goes(p, [Calling(at[p], "write_inode", "get_empty_inode") EXCEPT !.inode = s],
                          [w EXCEPT !.inode[s].lock = TRUE])
                ELSE Goes(p, [Return(at[p]) EXCEPT !.empty = s],
                          [w EXCEPT !.inode[s] = [Zero EXCEPT !.count = 1]])

\* Mutant: iget gives up its scan at an inode that is locked.
IgetWithoutWait(p) ==
    /\ At(p, "iget")
    /\ LET found == {s \in InCore(at[p].dev, at[p].nr) : ~w.inode[s].lock}
           e == at[p].empty
       IN IF found = {}
          THEN Goes(p, [To(at[p], "read_inode") EXCEPT !.inode = e, !.empty = 0],
                    [w EXCEPT !.inode[e].dev = at[p].dev, !.inode[e].num = at[p].nr, !.inode[e].lock = TRUE])
          ELSE Goes(p, [Return(at[p]) EXCEPT !.inode = Lowest(found), !.empty = 0],
                    [w EXCEPT !.inode[Lowest(found)].count = @ + 1, !.inode[e].count = @ - 1])

\* iget with its empty inode in hand: the first match is waited for and taken, a
\* mounted one leads to the root of the mounted device, and without a match the
\* empty inode is locked and read.
iget(p) ==
    /\ At(p, "iget")
    /\ LET found == InCore(at[p].dev, at[p].nr)
           e == at[p].empty
           s == Lowest(found)
           mounted == {b \in Sb : w.sb[b].imount = s}
       IN IF found = {}
          THEN Goes(p, [To(at[p], "read_inode") EXCEPT !.inode = e, !.empty = 0],
                    [w EXCEPT !.inode[e].dev = at[p].dev, !.inode[e].num = at[p].nr, !.inode[e].lock = TRUE])
          ELSE /\ ~w.inode[s].lock
               /\ IF w.inode[s].mount /\ mounted # {}
                  THEN Goes(p, [at[p] EXCEPT !.dev = w.sb[Lowest(mounted)].dev, !.nr = ROOT_INO], w)
                  ELSE Goes(p, [Return(at[p]) EXCEPT !.inode = s, !.empty = 0],
                            [w EXCEPT !.inode[s].count = @ + 1, !.inode[e].count = @ - 1])

\* read_inode, from the lock to the unlock.
read_inode(p) ==
    /\ At(p, "read_inode")
    /\ LET s == at[p].inode
           i == w.inode[s]
       IN IF Of(i.dev) = {} THEN Panics("trying to read inode without dev")
          ELSE /\ ~w.sb[Lowest(Of(i.dev))].lock
               /\ Goes(p, Return(at[p]),
                       [w EXCEPT !.inode[s].nlinks = w.disk[i.dev][i.num].nlinks,
                                 !.inode[s].value = w.disk[i.dev][i.num].value, !.inode[s].lock = FALSE])

\* write_inode, from the lock to the unlock.
write_inode(p) ==
    /\ At(p, "write_inode")
    /\ LET s == at[p].inode
           i == w.inode[s]
           free == [w EXCEPT !.inode[s].lock = FALSE]
       IN IF ~i.dirt \/ i.dev = 0 THEN Goes(p, Return(at[p]), free)
          ELSE IF Of(i.dev) = {} THEN Panics("trying to write inode without device")
          ELSE /\ ~w.sb[Lowest(Of(i.dev))].lock
               /\ Goes(p, Return(at[p]),
                       [free EXCEPT !.inode[s].dirt = FALSE,
                                    !.disk[i.dev][i.num] = [nlinks |-> i.nlinks, value |-> i.value]])

\* Mutant: a reference is given back before the inode is written.
IputUnwritten(p) ==
    /\ At(p, "iput")
    /\ LET s == at[p].inode
       IN /\ ~w.inode[s].lock
          /\ Goes(p, [Return(at[p]) EXCEPT !.inode = 0], [w EXCEPT !.inode[s].count = @ - 1])

\* iput: all is looked at again after each sleep.
iput(p) ==
    /\ At(p, "iput")
    /\ LET s == at[p].inode
           i == w.inode[s]
       IN /\ ~i.lock
          /\ IF i.count = 0 THEN Panics("iput: trying to free free inode")
             ELSE IF i.count > 1 \/ i.dev = 0 \/ (i.nlinks # 0 /\ ~i.dirt)
             THEN Goes(p, [Return(at[p]) EXCEPT !.inode = 0], [w EXCEPT !.inode[s].count = @ - 1])
             ELSE IF i.nlinks = 0 THEN Goes(p, To(at[p], "truncate"), w)
             ELSE Goes(p, Calling(at[p], "write_inode", "iput"), [w EXCEPT !.inode[s].lock = TRUE])

\* truncate has slept over its blocks: free_inode.
free_inode(p) ==
    /\ At(p, "truncate")
    /\ LET s == at[p].inode
           i == w.inode[s]
       IN IF i.count > 1 THEN Panics("free_inode")
          ELSE IF i.nlinks # 0 \/ Of(i.dev) = {} THEN Panics("trying to free inode")
          ELSE /\ ~w.sb[Lowest(Of(i.dev))].lock
               /\ Goes(p, [Return(at[p]) EXCEPT !.inode = 0],
                       [w EXCEPT !.imap[i.dev] = @ \ {i.num}, !.inode[s] = Zero])

\* new_inode, with its empty inode in hand.
new_inode(p) ==
    /\ At(p, "new_inode")
    /\ LET d == at[p].dev
           free == Nr \ w.imap[d]
           n == Lowest(free)
           e == at[p].empty
       IN IF Of(d) = {} THEN Panics("new_inode with unknown device")
          ELSE /\ ~w.sb[Lowest(Of(d))].lock
               /\ IF free = {}
                  THEN Goes(p, [To(at[p], "iput") EXCEPT !.inode = e, !.empty = 0], w)
                  ELSE Goes(p, [Return(at[p]) EXCEPT !.inode = e, !.empty = 0],
                            [w EXCEPT !.imap[d] = @ \cup {n}, !.linked[d] = @ \cup {n}, !.latest[d][n] = 0,
                                      !.inode[e] = [Zero EXCEPT !.dev = d, !.num = n, !.count = 1,
                                                                !.nlinks = 1, !.dirt = TRUE]])

-----------------------------------------------------------------------------
\* What processes do with inodes.

\* A directory entry is read, and the number is used after the block and the
\* directory have been given back (namei, open_namei).
Look(p) ==
    /\ At(p, "idle") /\ "look" \in uses
    /\ \E n \in w.linked[ROOT_DEV] :
          Goes(p, [at[p] EXCEPT !.stack = <<"get_empty_inode", "iget", "using">> \o @, !.dev = ROOT_DEV, !.nr = n], w)

Create(p) ==
    /\ At(p, "idle") /\ "create" \in uses
    /\ Goes(p, [at[p] EXCEPT !.stack = <<"get_empty_inode", "new_inode", "using">> \o @, !.dev = ROOT_DEV], w)

\* new_inode failed
NoInode(p) == At(p, "using") /\ at[p].inode = 0 /\ Goes(p, Idle, w)

Using(p) == At(p, "using") /\ at[p].inode # 0
Held(p) == w.inode[at[p].inode]

Change(p) ==
    /\ Using(p) /\ "change" \in uses
    /\ w.latest[Held(p).dev][Held(p).num] < MaxValue
    /\ LET v == w.latest[Held(p).dev][Held(p).num] + 1
       IN Goes(p, at[p], [w EXCEPT !.inode[at[p].inode].value = v, !.inode[at[p].inode].dirt = TRUE,
                                   !.latest[Held(p).dev][Held(p).num] = v])

\* unlink, of an inode that is not a root
Unlink(p) ==
    /\ Using(p) /\ "unlink" \in uses
    /\ Held(p).num \in w.linked[Held(p).dev] \ {ROOT_INO}
    /\ Goes(p, at[p], [w EXCEPT !.inode[at[p].inode].nlinks = 0, !.inode[at[p].inode].dirt = TRUE,
                                !.linked[Held(p).dev] = @ \ {Held(p).num}])

Put(p) == Using(p) /\ Goes(p, To(at[p], "iput"), w)

Sync(p) ==
    /\ At(p, "idle") /\ "sync" \in uses
    /\ Goes(p, [at[p] EXCEPT !.stack = <<"sync_inodes">> \o @, !.nr = 1], w)

sync_inodes(p) ==
    /\ At(p, "sync_inodes")
    /\ LET s == at[p].nr
           next == [at[p] EXCEPT !.nr = s + 1]
       IN IF s > NR_INODE THEN Goes(p, Return(at[p]), w)
          ELSE /\ ~w.inode[s].lock
               /\ IF w.inode[s].dirt
                  THEN Goes(p, [Calling(next, "write_inode", "sync_inodes") EXCEPT !.inode = s],
                            [w EXCEPT !.inode[s].lock = TRUE])
                  ELSE Goes(p, next, w)

-----------------------------------------------------------------------------
\* mount of device 2 on the inode that is held, and umount.
Floppy == 2
Busy(p) == Goes(p, To(at[p], "iput"), w)

\* The end of sys_mount, with super block b of v read.
Mounted(p, v, b) ==
    IF v.sb[b].imount # 0 \/ Held(p).mount THEN Goes(p, To(at[p], "iput"), v)
    ELSE Goes(p, Idle, [v EXCEPT !.sb[b].imount = at[p].inode, !.inode[at[p].inode].mount = TRUE,
                                 !.inode[at[p].inode].dirt = TRUE])

sys_mount(p) ==
    /\ Using(p) /\ "mount" \in uses /\ Held(p).dev = ROOT_DEV
    /\ IF Held(p).count # 1 \/ Held(p).num = ROOT_INO THEN Busy(p)
       ELSE Goes(p, To(at[p], "read_super"), w)

\* read_super up to the lock of a new super block
read_super(p) ==
    /\ At(p, "read_super")
    /\ LET free == Of(0)
       IN IF Of(Floppy) # {}
          THEN ~w.sb[Lowest(Of(Floppy))].lock /\ Mounted(p, w, Lowest(Of(Floppy)))
          ELSE IF free = {} THEN Busy(p)
          ELSE Goes(p, [To(at[p], "lock_super") EXCEPT !.sb = Lowest(free)],
                    [w EXCEPT !.sb[Lowest(free)].dev = Floppy, !.sb[Lowest(free)].imount = 0])

lock_super(p) ==
    /\ At(p, "lock_super") /\ ~w.sb[at[p].sb].lock
    /\ Goes(p, To(at[p], "bread"), [w EXCEPT !.sb[at[p].sb].lock = TRUE])

\* The super block and the bitmaps are read, or one of them is not.
SuperRead(p) ==
    /\ At(p, "bread")
    /\ LET b == at[p].sb
       IN \/ Mounted(p, [w EXCEPT !.sb[b].lock = FALSE], b)
          \/ Goes(p, To(at[p], "iput"), [w EXCEPT !.sb[b].lock = FALSE, !.sb[b].dev = 0])

Umounting == \E q \in Proc : \E i \in 1..Len(at[q].stack) : at[q].stack[i] = "umounted"

sys_umount(p) ==
    /\ At(p, "idle") /\ "umount" \in uses /\ Of(Floppy) # {}
    /\ "one umount" \in uses => ~Umounting
    /\ LET b == Lowest(Of(Floppy))
           dir == w.sb[b].imount
       IN /\ ~w.sb[b].lock /\ dir # 0
          /\ \A s \in Slot : w.inode[s].dev = Floppy => w.inode[s].count = 0
          /\ Goes(p, [at[p] EXCEPT !.stack = <<"iput", "umounted">> \o @, !.inode = dir, !.sb = b],
                  [w EXCEPT !.inode[dir].mount = FALSE])

\* s_imount is cleared, and put_super up to its lock
put_super(p) ==
    /\ At(p, "umounted") \/ (At(p, "put_super") /\ ~w.sb[at[p].sb].lock)
    /\ LET v == IF At(p, "umounted") THEN [w EXCEPT !.sb[at[p].sb].imount = 0] ELSE w
           b == Lowest(Of(Floppy))
       IN IF Of(Floppy) = {} THEN Goes(p, [To(at[p], "sync_inodes") EXCEPT !.nr = 1], v)
          ELSE IF v.sb[b].lock THEN Goes(p, [To(at[p], "put_super") EXCEPT !.sb = b], v)
          ELSE IF v.sb[b].imount # 0 THEN Goes(p, [To(at[p], "sync_inodes") EXCEPT !.nr = 1], v)
          ELSE Goes(p, [To(at[p], "free_super") EXCEPT !.sb = b], [v EXCEPT !.sb[b].lock = TRUE, !.sb[b].dev = 0])

free_super(p) ==
    /\ At(p, "free_super")
    /\ Goes(p, [To(at[p], "sync_inodes") EXCEPT !.nr = 1], [w EXCEPT !.sb[at[p].sb].lock = FALSE])

Halted == panic # "none" /\ UNCHANGED vars

Step(p) ==
    \/ get_empty_inode(p) \/ iget(p) \/ read_inode(p) \/ write_inode(p) \/ iput(p) \/ free_inode(p) \/ new_inode(p)
    \/ Look(p) \/ Create(p) \/ NoInode(p) \/ Change(p) \/ Unlink(p) \/ Put(p) \/ Sync(p) \/ sync_inodes(p)
    \/ sys_mount(p) \/ read_super(p) \/ lock_super(p) \/ SuperRead(p) \/ sys_umount(p) \/ put_super(p) \/ free_super(p)

Next == Halted \/ \E p \in Proc : Step(p)

Spec == Init /\ [][Next]_vars

-----------------------------------------------------------------------------
Reading(s) == \E p \in Proc : At(p, "read_inode") /\ at[p].inode = s

\* However lookups, writes and mounts interleave, an inode is in core once
\* (inode.c:252-282), and what was last done to it is there, or on disk when it
\* is not in core: write_inode and iput (inode.c:174-188) lose no change.
OneCopy ==
    \A d \in Dev, n \in Nr :
        /\ Cardinality(InCore(d, n)) <= 1
        /\ n \in w.imap[d] =>
              w.latest[d][n] = IF \E s \in InCore(d, n) : ~Reading(s)
                               THEN w.inode[Lowest(InCore(d, n))].value ELSE w.disk[d][n].value

\* Processes that hold a reference: not those that write for sync or get_empty_inode,
\* nor umount, which gives back that of the super block.
Holds(p, s) ==
    \/ at[p].empty = s
    \/ /\ at[p].inode = s
       /\ \A i \in 1..Len(at[p].stack) : at[p].stack[i] \notin {"sync_inodes", "get_empty_inode", "umounted"}
MountedOn(s) == {b \in Sb : w.sb[b].imount = s /\ \A p \in Proc : ~(At(p, "umounted") /\ at[p].sb = b)}

\* i_count is the number of those who use the inode, and nobody's inode is clean
\* and unlocked, so that get_empty_inode may take it at once (inode.c:207-222).
\* free_inode never meets an inode with more than one user (bitmap.c:117).
CountIsHolders ==
    /\ panic # "free_inode"
    /\ panic = "none" =>
        \A s \in Slot :
            /\ w.inode[s].count = Cardinality({p \in Proc : Holds(p, s)}) + Cardinality(MountedOn(s))
                                  + (IF s = 1 THEN 3 ELSE 0)
            /\ w.inode[s].count = 0 => ~w.inode[s].dirt /\ ~w.inode[s].lock
=============================================================================
