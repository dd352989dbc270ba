----------------------------- MODULE FileSystem -----------------------------
(***************************************************************************)
(* The file system of linux-0.11 on one device: the inode and zone bitmaps  *)
(* (fs/bitmap.c), the zone tree of an inode (_bmap in fs/inode.c,           *)
(* fs/truncate.c), directories and path names (fs/namei.c), the open file   *)
(* table and the descriptors of the processes (fs/open.c, fs/fcntl.c,       *)
(* fs/file_dev.c, fs/read_write.c, and their part of kernel/fork.c and      *)
(* kernel/exit.c).                                                          *)
(*                                                                          *)
(* A system call is one step: every block it needs is in the buffer cache,  *)
(* so it never sleeps (module InodeTable is about the sleeps).  The caller  *)
(* is the superuser, as mkdir, rmdir and mknod demand, and no block fails   *)
(* to be read.  Sizes are in directory entries or in blocks, not in bytes.  *)
(***************************************************************************)
EXTENDS Integers, FiniteSets, SequencesExt

CONSTANTS
    Proc,       \* the processes; FirstProc is the one alive at the start
    FirstProc,
    NI, NZ,     \* s_ninodes, and the number of data zones
    NR_FILE, NR_OPEN,
    DIRECT,     \* direct zones of an inode: 7
    ADDRS,      \* zone numbers in an indirect block: 512
    DIR_ENTRIES_PER_BLOCK,
    MaxBlock,   \* bound: the last block of a file that is written
    Paths,      \* the path names used: [abs, comps], comps # <<>>
    Flags,      \* the open flags used: sets of "creat", "excl", "trunc", "wr"
    Calls       \* sets of calls; a behaviour makes only the calls of one of them

VARIABLES
    fs,         \* bitmaps, inodes, blocks, in-core counts, and the panic message
    file_table, \* f_count, f_inode and f_pos of each open file
    filp,       \* the descriptors of each process, 0 for a closed one
    pwd, root,  \* the directories of each process, 0 once it has exited
    calls       \* the calls made in this behaviour

vars == <<fs, file_table, filp, pwd, root, calls>>

Ino == 1 .. NI
Zone == 1 .. NZ
ROOT_INO == 1
File == 1 .. NR_FILE
FD == 0 .. NR_OPEN - 1

Lowest(S) == CHOOSE x \in S : \A y \in S : x <= y
LowestOr(S, default) == IF S = {} THEN default ELSE Lowest(S)
Panic(s, msg) == [s EXCEPT !.panic = IF @ = "none" THEN msg ELSE @]

(* A block, seen as a piece of a directory or as a block of zone numbers. *)
NoEntry == [name |-> "", inode |-> 0]
ZeroBlock == [entry |-> [k \in 0 .. DIR_ENTRIES_PER_BLOCK - 1 |-> NoEntry],
              addr |-> [k \in 0 .. ADDRS - 1 |-> 0]]
BlankInode == [mode |-> "none", nlinks |-> 0, size |-> 0,
               zone |-> [k \in 0 .. DIRECT + 1 |-> 0]]

(***************************************************************************)
(* Bitmaps.                                                                *)
(***************************************************************************)
free_block(s, z) ==
    IF z \in s.zmap THEN [s EXCEPT !.zmap = @ \ {z}]
                    ELSE Panic(s, "free_block: bit already cleared")

(* Mutant: the block is not cleared. *)
KeepsStaleBlock(s) ==
    IF s.zmap = Zone THEN <<s, 0>>
    ELSE LET z == Lowest(Zone \ s.zmap) IN <<[s EXCEPT !.zmap = @ \cup {z}], z>>

new_block(s) ==
    IF s.zmap = Zone THEN <<s, 0>>
    ELSE LET z == Lowest(Zone \ s.zmap)
         IN  <<[s EXCEPT !.zmap = @ \cup {z}, !.data[z] = ZeroBlock], z>>

free_inode(s, i) ==
    IF s.count[i] > 1 THEN Panic(s, "free_inode")
    ELSE IF s.inode[i].nlinks # 0 THEN Panic(s, "trying to free inode with links")
    ELSE [s EXCEPT !.imap = @ \ {i}, !.inode[i] = BlankInode, !.count[i] = 0]

new_inode(s) ==
    IF s.imap = Ino THEN <<s, 0>>
    ELSE LET i == Lowest(Ino \ s.imap)
         IN  <<[s EXCEPT !.imap = @ \cup {i}, !.count[i] = 1,
                         !.inode[i] = [BlankInode EXCEPT !.nlinks = 1]], i>>

(***************************************************************************)
(* The zones of an inode: direct, through one block of numbers, through    *)
(* two.  Each level takes the zone in a slot, filling the slot first when  *)
(* the caller creates; 0 means there is none.                              *)
(***************************************************************************)
Slot(s, z, create) == IF create /\ z = 0 THEN new_block(s) ELSE <<s, z>>

InInode(s, i, k, create) ==
    LET Filled(r) == <<[r[1] EXCEPT !.inode[i].zone[k] = r[2]], r[2]>>
    IN  Filled(Slot(s, s.inode[i].zone[k], create))

InBlock(level, k, create) ==
    LET s == level[1]  b == level[2]
        Filled(r) == <<[r[1] EXCEPT !.data[b].addr[k] = r[2]], r[2]>>
    IN  IF b = 0 THEN level ELSE Filled(Slot(s, s.data[b].addr[k], create))

Bmap(s, i, block, create) ==
    LET b1 == block - DIRECT
        b2 == b1 - ADDRS
    IN  IF block < DIRECT THEN InInode(s, i, block, create)
        ELSE IF b1 < ADDRS THEN InBlock(InInode(s, i, DIRECT, create), b1, create)
        ELSE InBlock(InBlock(InInode(s, i, DIRECT + 1, create), b2 \div ADDRS, create),
                     b2 % ADDRS, create)

bmap(s, i, block) == Bmap(s, i, block, FALSE)[2]
create_block(s, i, block) == Bmap(s, i, block, TRUE)

(* What a block of zone numbers lists, in the order it is walked. *)
Listed(s, b) == SelectSeq([k \in 1 .. ADDRS |-> s.data[b].addr[k - 1]], LAMBDA z : z # 0)

free_ind(s, b) ==
    IF b = 0 THEN s ELSE free_block(FoldLeft(free_block, s, Listed(s, b)), b)

free_dind(s, b) ==
    IF b = 0 THEN s ELSE free_block(FoldLeft(free_ind, s, Listed(s, b)), b)

truncate(s, i) ==
    LET n == s.inode[i]
        direct == SelectSeq([k \in 1 .. DIRECT |-> n.zone[k - 1]], LAMBDA z : z # 0)
        freed == free_dind(free_ind(FoldLeft(free_block, s, direct), n.zone[DIRECT]),
                           n.zone[DIRECT + 1])
    IN  IF n.mode \notin {"reg", "dir"} THEN s
        ELSE [freed EXCEPT !.inode[i].zone = BlankInode.zone, !.inode[i].size = 0]

(***************************************************************************)
(* References to an in-core inode.                                         *)
(***************************************************************************)
iget(s, i) == [s EXCEPT !.count[i] = @ + 1]

iput(s, i) ==
    IF i = 0 THEN s
    ELSE IF s.count[i] = 0 THEN Panic(s, "iput: trying to free free inode")
    ELSE IF s.count[i] > 1 THEN [s EXCEPT !.count[i] = @ - 1]
    ELSE IF s.inode[i].nlinks = 0 THEN free_inode(truncate(s, i), i)
    ELSE [s EXCEPT !.count[i] = 0]

(***************************************************************************)
(* Directories.  Entry number k of a directory is in its block             *)
(* k \div DIR_ENTRIES_PER_BLOCK.                                           *)
(***************************************************************************)
Entry(s, d, k) ==
    LET In(z) == IF z = 0 THEN NoEntry ELSE s.data[z].entry[k % DIR_ENTRIES_PER_BLOCK]
    IN  In(bmap(s, d, k \div DIR_ENTRIES_PER_BLOCK))

SetEntry(s, d, k, e) ==
    LET In(z) == [s EXCEPT !.data[z].entry[k % DIR_ENTRIES_PER_BLOCK] = e]
    IN  In(bmap(s, d, k \div DIR_ENTRIES_PER_BLOCK))

ClearEntry(s, d, k) == SetEntry(s, d, k, [Entry(s, d, k) EXCEPT !.inode = 0])

IsDir(s, i) == s.inode[i].mode = "dir"

(* For the superuser only the special case of a deleted file is left. *)
permission(s, i) == s.inode[i].nlinks # 0

(* ".." in the root of the process is a faked ".". *)
find_entry(s, p, d, name) ==
    LET wanted == IF name = ".." /\ d = root[p] THEN "." ELSE name
        Match(e) == e.inode # 0 /\ e.name = wanted
    IN  IF name = "" \/ s.inode[d].zone[0] = 0 THEN -1
        ELSE LowestOr({k \in 0 .. s.inode[d].size - 1 : Match(Entry(s, d, k))}, -1)

(* The entry is named but its inode is left at 0: the caller fills it in. *)
AddAt(s, d, k, name) ==
    LET Named(t) == SetEntry(t, d, k, [name |-> name, inode |-> 0])
        In(r) == IF r[2] = 0 THEN <<r[1], -1>>
                 ELSE <<Named([r[1] EXCEPT !.inode[d].size = IF k < @ THEN @ ELSE k + 1]), k>>
    IN  In(create_block(s, d, k \div DIR_ENTRIES_PER_BLOCK))

add_entry(s, d, name) ==
    LET n == s.inode[d]
    IN  IF n.zone[0] = 0 THEN <<s, -1>>
        ELSE AddAt(s, d, Lowest({j \in 0 .. n.size : j = n.size \/ Entry(s, d, j).inode = 0}), name)

(* A directory is empty when it has nothing but its first two entries. *)
empty_dir(s, i) ==
    /\ s.inode[i].size >= 2 /\ s.inode[i].zone[0] # 0
    /\ Entry(s, i, 0) = [name |-> ".", inode |-> i]
    /\ Entry(s, i, 1).name = ".." /\ Entry(s, i, 1).inode # 0
    /\ \A k \in 2 .. s.inode[i].size - 1 : Entry(s, i, k).inode = 0

(***************************************************************************)
(* Path names.  A walk is the pair of the file system and the inode it     *)
(* holds, 0 when it has failed and holds none.                             *)
(***************************************************************************)
Holding(s, i) == <<iget(s, i), i>>
Dropping(s, i) == <<iput(s, i), 0>>
IsSearchable(s, d) == IsDir(s, d) /\ permission(s, d)

Enter(p, w, name) ==
    LET s == w[1]  d == w[2]
        At(k) == IF k = -1 THEN Dropping(s, d) ELSE Holding(iput(s, d), Entry(s, d, k).inode)
    IN  IF d = 0 THEN w
        ELSE IF IsSearchable(s, d) THEN At(find_entry(s, p, d, name)) ELSE Dropping(s, d)

get_dir(s, p, path) ==
    LET Checked(w) == IF w[2] = 0 \/ IsSearchable(w[1], w[2]) THEN w ELSE Dropping(w[1], w[2])
    IN  Checked(FoldLeft(LAMBDA w, name : Enter(p, w, name),
                         Holding(s, IF path.abs THEN root[p] ELSE pwd[p]), Front(path.comps)))

dir_namei(s, p, path) == get_dir(s, p, path)
basename(path) == Last(path.comps)

(* namei: a name that ends in "/" is its directory. *)
namei(s, p, path) ==
    LET In(w) == IF basename(path) = "" THEN w ELSE Enter(p, w, basename(path))
    IN  In(dir_namei(s, p, path))

(* The outcome of open_namei: the file system and the inode, 0 on an error. *)
Created(s, d, name) ==
    LET Entered(i, a) ==
            IF a[2] = -1 THEN Dropping(iput([a[1] EXCEPT !.inode[i].nlinks = @ - 1], i), d)
            ELSE <<iput(SetEntry(a[1], d, a[2], [name |-> name, inode |-> i]), d), i>>
        Made(r) == IF r[2] = 0 THEN Dropping(s, d)
                   ELSE Entered(r[2], add_entry([r[1] EXCEPT !.inode[r[2]].mode = "reg"], d, name))
    IN  Made(new_inode(s))

ExistingOpened(s, flag, i) ==
    LET Held(t) == IF (IsDir(t, i) /\ flag \cap {"wr", "trunc"} # {}) \/ ~permission(t, i)
                   THEN Dropping(t, i)
                   ELSE <<IF "trunc" \in flag THEN truncate(t, i) ELSE t, i>>
    IN  IF "excl" \in flag THEN <<s, 0>> ELSE Held(iget(s, i))

open_namei(s, p, path, flag) ==
    LET name == basename(path)
        At(t, d, k) == IF k # -1 THEN ExistingOpened(iput(t, d), flag, Entry(t, d, k).inode)
                       ELSE IF "creat" \in flag /\ permission(t, d) THEN Created(t, d, name)
                       ELSE Dropping(t, d)
        In(w) == IF w[2] = 0 \/ (name = "" /\ flag \subseteq {"excl"}) THEN w
                 ELSE IF name = "" THEN Dropping(w[1], w[2])
                 ELSE At(w[1], w[2], find_entry(w[1], p, w[2], name))
    IN  In(dir_namei(s, p, path))

(***************************************************************************)
(* The calls that change the tree.  Each is a function from the file       *)
(* system before the call to the one after it.                             *)
(***************************************************************************)

(* What mknod, mkdir and link do before they add: the directory is held and *)
(* the name is free; otherwise nothing is held.                             *)
ToAdd(s, p, path) ==
    LET In(w) == IF \/ w[2] = 0
                    \/ /\ basename(path) # "" /\ permission(w[1], w[2])
                       /\ find_entry(w[1], p, w[2], basename(path)) = -1
                 THEN w ELSE Dropping(w[1], w[2])
    IN  In(dir_namei(s, p, path))

sys_mknod(s, p, path, kind) ==
    LET name == basename(path)
        Entered(d, i, a) ==
            IF a[2] = -1 THEN iput([iput(a[1], d) EXCEPT !.inode[i].nlinks = 0], i)
            ELSE iput(iput(SetEntry(a[1], d, a[2], [name |-> name, inode |-> i]), d), i)
        Made(t, d, r) ==
            IF r[2] = 0 THEN iput(t, d)
            ELSE Entered(d, r[2], add_entry([r[1] EXCEPT !.inode[r[2]].mode = kind,
                             !.inode[r[2]].zone[0] = IF kind = "reg" THEN 0 ELSE 1], d, name))
        In(w) == IF w[2] = 0 THEN w[1] ELSE Made(w[1], w[2], new_inode(w[1]))
    IN  In(ToAdd(s, p, path))

(* The error path after add_entry frees the first zone and then lets iput   *)
(* truncate the directory, which frees it again.                            *)
sys_mkdir(s, p, path) ==
    LET name == basename(path)
        Dots(t, d, i, z) ==
            [t EXCEPT !.data[z].entry[0] = [name |-> ".", inode |-> i],
                      !.data[z].entry[1] = [name |-> "..", inode |-> d],
                      !.inode[i].nlinks = 2, !.inode[i].mode = "dir"]
        Entered(d, i, z, a) ==
            IF a[2] = -1 THEN iput([free_block(iput(a[1], d), z) EXCEPT !.inode[i].nlinks = 0], i)
            ELSE iput(iput([SetEntry(a[1], d, a[2], [name |-> name, inode |-> i])
                               EXCEPT !.inode[d].nlinks = @ + 1], d), i)
        Sized(t, d, i, z) ==
            IF z = 0 THEN iput([iput(t, d) EXCEPT !.inode[i].nlinks = @ - 1], i)
            ELSE Entered(d, i, z, add_entry(Dots(t, d, i, z), d, name))
        Zoned(d, i, b) ==
            Sized([b[1] EXCEPT !.inode[i].size = 2, !.inode[i].zone[0] = b[2]], d, i, b[2])
        Made(t, d, r) == IF r[2] = 0 THEN iput(t, d) ELSE Zoned(d, r[2], new_block(r[1]))
        In(w) == IF w[2] = 0 THEN w[1] ELSE Made(w[1], w[2], new_inode(w[1]))
    IN  In(ToAdd(s, p, path))

(* What rmdir and unlink do before they remove: the directory d and the     *)
(* inode i of its entry k are held; otherwise nothing is held.              *)
ToRemove(s, p, path) ==
    LET Nothing(t) == [s |-> t, d |-> 0, k |-> 0, i |-> 0]
        At(t, d, k) ==
            LET Held(i) == [s |-> iget(t, i), d |-> d, k |-> k, i |-> i]
            IN  IF k = -1 THEN Nothing(iput(t, d)) ELSE Held(Entry(t, d, k).inode)
        In(w) == IF w[2] = 0 THEN Nothing(w[1])
                 ELSE IF basename(path) = "" \/ ~permission(w[1], w[2])
                 THEN Nothing(iput(w[1], w[2]))
                 ELSE At(w[1], w[2], find_entry(w[1], p, w[2], basename(path)))
    IN  In(dir_namei(s, p, path))

sys_rmdir(s, p, path) ==
    LET Gone(t, d, i) == [t EXCEPT !.inode[i].nlinks = 0, !.inode[d].nlinks = @ - 1]
        Put(t, d, i) == iput(iput(t, d), i)
        With(h) == IF h.d = 0 THEN h.s
                   ELSE IF \/ h.s.count[h.i] > 1 \/ h.i = h.d
                           \/ ~IsDir(h.s, h.i) \/ ~empty_dir(h.s, h.i)
                   THEN Put(h.s, h.d, h.i)
                   ELSE Put(Gone(ClearEntry(h.s, h.d, h.k), h.d, h.i), h.d, h.i)
    IN  With(ToRemove(s, p, path))

sys_unlink(s, p, path) ==
    LET Gone(t, i) == [t EXCEPT !.inode[i].nlinks = IF @ = 0 THEN 0 ELSE @ - 1]
        Put(t, d, i) == iput(iput(t, i), d)
        With(h) == IF h.d = 0 THEN h.s
                   ELSE Put(IF IsDir(h.s, h.i) THEN h.s
                            ELSE Gone(ClearEntry(h.s, h.d, h.k), h.i), h.d, h.i)
    IN  With(ToRemove(s, p, path))

sys_link(s, p, oldpath, newpath) ==
    LET name == basename(newpath)
        Entered(d, i, a) ==
            IF a[2] = -1 THEN iput(iput(a[1], d), i)
            ELSE iput([iput(SetEntry(a[1], d, a[2], [name |-> name, inode |-> i]), d)
                          EXCEPT !.inode[i].nlinks = @ + 1], i)
        In(i, w) == IF w[2] = 0 THEN iput(w[1], i)
                    ELSE Entered(w[2], i, add_entry(w[1], w[2], name))
        With(o) == IF o[2] = 0 THEN o[1]
                   ELSE IF IsDir(o[1], o[2]) THEN iput(o[1], o[2])
                   ELSE In(o[2], ToAdd(o[1], p, newpath))
    IN  With(namei(s, p, oldpath))

(***************************************************************************)
(* The calls of a process.                                                 *)
(***************************************************************************)
Live == {p \in Proc : pwd[p] # 0}
NoFile == [f_count |-> 0, f_inode |-> 0, f_pos |-> 0]

(* A call that changes nothing but the file system. *)
Call(s) == fs' = s /\ UNCHANGED <<file_table, filp, pwd, root>>

Mkdir(p) == \E path \in Paths : Call(sys_mkdir(fs, p, path))
Rmdir(p) == \E path \in Paths : Call(sys_rmdir(fs, p, path))
Mknod(p) == \E path \in Paths, kind \in {"reg", "blk", "chr"} : Call(sys_mknod(fs, p, path, kind))
Unlink(p) == \E path \in Paths : Call(sys_unlink(fs, p, path))
Link(p) == \E old, new \in Paths : Call(sys_link(fs, p, old, new))

(* open and creat: descriptor and file are taken before the name is looked   *)
(* up.  A character device may be the terminal of a process without one.     *)
Open(p) ==
    \E path \in Paths, flag \in Flags, noTty \in BOOLEAN :
        LET fds == {fd \in FD : filp[p][fd] = 0}
            files == {f \in File : file_table[f].f_count = 0}
            Opened(s, i, terminal) ==
                /\ noTty => terminal
                /\ IF i = 0 THEN Call(s)
                   ELSE IF noTty THEN Call(iput(s, i))
                   ELSE /\ fs' = s
                        /\ filp' = [filp EXCEPT ![p][Lowest(fds)] = Lowest(files)]
                        /\ file_table' = [file_table EXCEPT ![Lowest(files)] =
                                             [f_count |-> 1, f_inode |-> i, f_pos |-> 0]]
                        /\ UNCHANGED <<pwd, root>>
            With(r) == Opened(r[1], r[2], r[2] # 0 /\ r[1].inode[r[2]].mode = "chr")
        IN  /\ fds # {} /\ files # {}
            /\ With(open_namei(fs, p, path, flag))

(* Descriptors fds of p are closed one after the other. *)
Closed(s, ft, p, fds) ==
    LET Close1(v, fd) ==
            LET f == filp[p][fd]
                g == [v.ft[f] EXCEPT !.f_count = @ - 1]
            IN  IF f = 0 THEN v
                ELSE IF v.ft[f].f_count = 0
                THEN [v EXCEPT !.s = Panic(@, "Close: file count is 0")]
                ELSE IF g.f_count # 0 THEN [v EXCEPT !.ft[f] = g]
                ELSE [v EXCEPT !.ft[f] = NoFile, !.s = iput(@, g.f_inode)]
    IN  FoldLeft(Close1, [s |-> s, ft |-> ft], SetToSortSeq(fds, <))

Close(p) ==
    \E fd \in FD :
        LET v == Closed(fs, file_table, p, {fd})
        IN  /\ filp[p][fd] # 0
            /\ filp' = [filp EXCEPT ![p][fd] = 0]
            /\ fs' = v.s /\ file_table' = v.ft
            /\ UNCHANGED <<pwd, root>>

(* dup2 closes the wanted descriptor first, even when it is the one to copy. *)
Dup2(p) ==
    \E old, new \in FD :
        LET v == Closed(fs, file_table, p, {new})
            fl == [filp EXCEPT ![p][new] = 0]
            f == fl[p][old]
        IN  /\ fs' = v.s
            /\ IF f = 0 THEN filp' = fl /\ file_table' = v.ft
               ELSE /\ filp' = [fl EXCEPT ![p][new] = f]
                    /\ file_table' = [v.ft EXCEPT ![f].f_count = @ + 1]
            /\ UNCHANGED <<pwd, root>>

(* dup and F_DUPFD: the first free descriptor not below arg. *)
Dup(p) ==
    \E fd, arg \in FD :
        LET free == {g \in FD : g >= arg /\ filp[p][g] = 0}
        IN  /\ filp[p][fd] # 0 /\ free # {}
            /\ filp' = [filp EXCEPT ![p][Lowest(free)] = filp[p][fd]]
            /\ file_table' = [file_table EXCEPT ![filp[p][fd]].f_count = @ + 1]
            /\ UNCHANGED <<fs, pwd, root>>

Lseek(p) ==
    \E fd \in FD, pos \in 0 .. MaxBlock :
        /\ filp[p][fd] # 0
        /\ file_table' = [file_table EXCEPT ![filp[p][fd]].f_pos = pos]
        /\ UNCHANGED <<fs, filp, pwd, root>>

(* sys_read stops at the size; file_read takes a hole for zeros. *)
Read(p) ==
    \E fd \in FD :
        LET f == filp[p][fd]
            i == file_table[f].f_inode
        IN  /\ f # 0
            /\ fs.inode[i].mode \in {"reg", "dir"}
            /\ file_table[f].f_pos < fs.inode[i].size
            /\ file_table' = [file_table EXCEPT ![f].f_pos = @ + 1]
            /\ UNCHANGED <<fs, filp, pwd, root>>

(* One block is written; O_APPEND, which fcntl can set at any time, makes    *)
(* the end of the file the position and leaves f_pos alone.                  *)
Write(p) ==
    \E fd \in FD, append \in BOOLEAN :
        LET f == filp[p][fd]
            i == file_table[f].f_inode
            pos == IF append THEN fs.inode[i].size ELSE file_table[f].f_pos
            r == create_block(fs, i, pos)
        IN  /\ f # 0
            /\ fs.inode[i].mode = "reg"
            /\ pos <= MaxBlock
            /\ IF r[2] = 0 THEN fs' = r[1] /\ UNCHANGED file_table
               ELSE /\ fs' = [r[1] EXCEPT !.inode[i].size = IF pos < @ THEN @ ELSE pos + 1]
                    /\ file_table' = [file_table EXCEPT ![f].f_pos =
                                         IF append THEN @ ELSE pos + 1]
            /\ UNCHANGED <<filp, pwd, root>>

(* chmod, chown: owner and rights are not modelled, the inode is put again.  *)
(* So do utime and access with a name.                                       *)
Chmod(s, p, path) ==
    LET With(r) == iput(r[1], r[2]) IN With(namei(s, p, path))
Utime(p) == \E path \in Paths : Call(Chmod(fs, p, path))

(* chdir and chroot replace dir, one of pwd and root, by a directory. *)
Moved(p, path, dir) ==
    LET With(t, i) == IF i = 0 THEN <<t, dir>>
                      ELSE IF IsDir(t, i) THEN <<iput(t, dir), i>> ELSE <<iput(t, i), dir>>
        Found(r) == With(r[1], r[2])
    IN  Found(namei(fs, p, path))

Chdir(p) ==
    \E path \in Paths :
        LET To(m) == fs' = m[1] /\ pwd' = [pwd EXCEPT ![p] = m[2]]
        IN  To(Moved(p, path, pwd[p])) /\ UNCHANGED <<file_table, filp, root>>

Chroot(p) ==
    \E path \in Paths :
        LET To(m) == fs' = m[1] /\ root' = [root EXCEPT ![p] = m[2]]
        IN  To(Moved(p, path, root[p])) /\ UNCHANGED <<file_table, filp, pwd>>

(* Mutant: the count of the root directory is left alone. *)
ForkForgetsRoot(p) ==
    \E q \in Proc \ Live :
        /\ filp' = [filp EXCEPT ![q] = filp[p]]
        /\ file_table' = [f \in File |-> [file_table[f] EXCEPT !.f_count =
                              @ + Cardinality({fd \in FD : filp[p][fd] = f})]]
        /\ fs' = iget(fs, pwd[p])
        /\ pwd' = [pwd EXCEPT ![q] = pwd[p]]
        /\ root' = [root EXCEPT ![q] = root[p]]

(* copy_process: the child shares the open files and the directories. *)
Fork(p) ==
    \E q \in Proc \ Live :
        /\ filp' = [filp EXCEPT ![q] = filp[p]]
        /\ file_table' = [f \in File |-> [file_table[f] EXCEPT !.f_count =
                              @ + Cardinality({fd \in FD : filp[p][fd] = f})]]
        /\ fs' = iget(iget(fs, pwd[p]), root[p])
        /\ pwd' = [pwd EXCEPT ![q] = pwd[p]]
        /\ root' = [root EXCEPT ![q] = root[p]]

(* do_exit; the first process stands for init, which stays. *)
Exit(p) ==
    LET v == Closed(fs, file_table, p, FD)
    IN  /\ p # FirstProc
        /\ fs' = iput(iput(v.s, pwd[p]), root[p])
        /\ file_table' = v.ft
        /\ filp' = [filp EXCEPT ![p] = [fd \in FD |-> 0]]
        /\ pwd' = [pwd EXCEPT ![p] = 0]
        /\ root' = [root EXCEPT ![p] = 0]

(* panic: the machine stands still. *)
Halted == fs.panic # "none" /\ UNCHANGED vars

(* The device as mkfs leaves it, mounted as root: the root inode is held by  *)
(* the two fields of its super block and by the first process.               *)
Init ==
    LET z == 1
        dots == [ZeroBlock EXCEPT !.entry[0] = [name |-> ".", inode |-> ROOT_INO],
                                  !.entry[1] = [name |-> "..", inode |-> ROOT_INO]]
    IN  /\ fs = [imap |-> {ROOT_INO}, zmap |-> {z},
                 inode |-> [i \in Ino |-> IF i # ROOT_INO THEN BlankInode
                     ELSE [BlankInode EXCEPT !.mode = "dir", !.nlinks = 2,
                                             !.size = 2, !.zone[0] = z]],
                 data |-> [x \in Zone |-> IF x = z THEN dots ELSE ZeroBlock],
                 count |-> [i \in Ino |-> IF i = ROOT_INO THEN 4 ELSE 0],
                 panic |-> "none"]
        /\ file_table = [f \in File |-> NoFile]
        /\ filp = [p \in Proc |-> [fd \in FD |-> 0]]
        /\ pwd = [p \in Proc |-> IF p = FirstProc THEN ROOT_INO ELSE 0]
        /\ root = pwd
        /\ calls \in Calls

Step(p) ==
    /\ fs.panic = "none"
    /\ UNCHANGED calls
    /\ \/ "mkdir" \in calls /\ (Mkdir(p) \/ Rmdir(p))
       \/ "mknod" \in calls /\ Mknod(p)
       \/ "link" \in calls /\ Link(p)
       \/ "unlink" \in calls /\ Unlink(p)
       \/ "open" \in calls /\ (Open(p) \/ Close(p))
       \/ "dup" \in calls /\ (Dup(p) \/ Dup2(p))
       \/ "write" \in calls /\ (Lseek(p) \/ Read(p) \/ Write(p))
       \/ "chdir" \in calls /\ (Chdir(p) \/ Chroot(p))
       \/ "utime" \in calls /\ Utime(p)
       \/ "fork" \in calls /\ (Fork(p) \/ Exit(p))

Next == Halted \/ \E p \in Live : Step(p)
Spec == Init /\ [][Next]_vars

(***************************************************************************)
(* Properties.                                                             *)
(***************************************************************************)
Dirs == {i \in fs.imap : IsDir(fs, i)}
Entries(d) == {k \in 0 .. fs.inode[d].size - 1 : Entry(fs, d, k).inode # 0}
Naming(i) == UNION {{d} \X {k \in Entries(d) : Entry(fs, d, k).inode = i} : d \in Dirs}

(* The link count of every file and directory is the number of directory     *)
(* entries that name it, whatever calls were made and however they failed.   *)
LinksAreEntries ==
    fs.panic = "none" => \A i \in fs.imap : fs.inode[i].nlinks = Cardinality(Naming(i))

(* The places from which a zone is used: slots of inodes and of the blocks   *)
(* of zone numbers under them.                                               *)
Indirect(b) == IF b = 0 THEN {} ELSE {<<b, k>> : k \in 0 .. ADDRS - 1}
Uses ==
    LET slots == {<<"inode", i, k>> : i \in {j \in fs.imap : fs.inode[j].mode \in {"reg", "dir"}},
                                       k \in 0 .. DIRECT + 1}
        single == UNION {Indirect(fs.inode[i].zone[DIRECT]) : i \in fs.imap}
        double == UNION {Indirect(fs.inode[i].zone[DIRECT + 1]) : i \in fs.imap}
        below == UNION {Indirect(fs.data[x[1]].addr[x[2]]) : x \in double}
    IN  slots \cup {<<"block", x[1], x[2]>> : x \in single \cup double \cup below}
ZoneAt(u) == IF u[1] = "inode" THEN fs.inode[u[2]].zone[u[3]] ELSE fs.data[u[2]].addr[u[3]]

(* The zone bitmap is exact: every zone marked used is used from exactly     *)
(* one place, and no other zone is used, so nothing leaks when a call fails  *)
(* half way and no two files share a block.                                  *)
ZonesAreOwned ==
    fs.panic = "none" =>
        /\ \A u \in Uses : ZoneAt(u) \in fs.zmap \cup {0}
        /\ \A z \in fs.zmap : Cardinality({u \in Uses : ZoneAt(u) = z}) = 1

(* An inode is marked used exactly as long as it has a name or is held, and  *)
(* it is held by as many open files, current directories and roots as its    *)
(* count says (the super block holds the root twice).                        *)
HeldAsCounted ==
    fs.panic = "none" =>
        /\ \A f \in File : file_table[f].f_count =
                Cardinality({<<p, fd>> \in Proc \X FD : filp[p][fd] = f})
        /\ \A i \in Ino : fs.count[i] =
                Cardinality({f \in File : file_table[f].f_inode = i})
                + Cardinality({p \in Proc : pwd[p] = i}) + Cardinality({p \in Proc : root[p] = i})
                + (IF i = ROOT_INO THEN 2 ELSE 0)
        /\ fs.imap = {i \in Ino : fs.inode[i].nlinks > 0 \/ fs.count[i] > 0}

(* Every directory but the root has exactly one name, in the directory its   *)
(* ".." leads to, and no directory has two entries of one name: the          *)
(* directories are a tree.                                                   *)
DirectoriesAreATree ==
    fs.panic = "none" =>
        \A d \in Dirs :
            /\ \A j, k \in Entries(d) : j # k => Entry(fs, d, j).name # Entry(fs, d, k).name
            /\ d # ROOT_INO =>
                   \E e \in Dirs \ {d} :
                       /\ Entry(fs, d, 1).inode = e
                       /\ {x[1] : x \in {y \in Naming(d) :
                              Entry(fs, y[1], y[2]).name \notin {".", ".."}}} = {e}

(* What is on the disk is consistent after every call, also one that failed  *)
(* half way: links, zones and the tree of directories.  The machine stops    *)
(* for one reason only, the error path of mkdir that frees a zone twice      *)
(* (namei.c:519-527).                                                        *)
DiskConsistent ==
    /\ fs.panic \in {"none", "free_block: bit already cleared"}
    /\ LinksAreEntries /\ ZonesAreOwned /\ DirectoriesAreATree

(* bitmap.c panics when a block is freed twice: it never should be.          *)
NoBlockFreedTwice == fs.panic # "free_block: bit already cleared"
=============================================================================
