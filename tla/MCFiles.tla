------------------------------ MODULE MCFiles ------------------------------
(***************************************************************************)
(* Side by side, one of them chosen by which: the file system on a device  *)
(* so small that names, inodes and zones all run out; the in-core inodes   *)
(* of two processes; the process log with a queue for sleep_on or one for  *)
(* interruptible_sleep_on; the keyboard; and the floppy driver for two     *)
(* drives that do not always work.                                         *)
(***************************************************************************)
EXTENDS Floppy

CONSTANT Proc

VARIABLES
    which,
    fs, file_table, filp, pwd, root, calls,                                  \* FileSystem
    w, at, uses, panic,                                                      \* InodeTable
    k, cpu,                                                                  \* ProcessLog
    keys, held, wire, repeats, mode, leds, e0, read_q, presses, rebooted     \* Keyboard

P(abs, comps) == [abs |-> abs, comps |-> comps]
SmallPaths == {P(FALSE, <<"a">>), P(TRUE, <<"b">>), P(FALSE, <<"a", "b">>),
               P(TRUE, <<"b", "..", "">>), P(FALSE, <<"..", "a">>)}
SmallFlags == {{}, {"creat", "trunc"}, {"creat", "excl", "wr"}}
SmallCalls == {{"mkdir", "link", "unlink", "mknod"}, {"open", "unlink", "write"},
               {"open", "unlink", "mkdir", "utime"}, {"open", "mknod", "dup", "fork"},
               {"mkdir", "chdir", "fork"}}

Files == INSTANCE FileSystem
            WITH FirstProc <- 1, NI <- 4, NZ <- 4, NR_FILE <- 1, NR_OPEN <- 2, DIRECT <- 1,
                 ADDRS <- 1, DIR_ENTRIES_PER_BLOCK <- 3, MaxBlock <- 2, Paths <- SmallPaths,
                 Flags <- SmallFlags, Calls <- SmallCalls

SmallUses == {{"look", "change", "sync"}, {"create", "change", "unlink"},
              {"look", "mount", "umount", "one umount", "change"}}

Inodes == INSTANCE InodeTable
            WITH NR_INODE <- 4, NR_SUPER <- 2, Nr <- {1, 2, 3}, Unused <- {3}, MaxValue <- 1,
                 Uses <- SmallUses

Log == INSTANCE ProcessLog WITH Pid <- 0..3, Queue <- {"s"}, IQueue <- {}
ILog == INSTANCE ProcessLog WITH Pid <- 0..3, Queue <- {}, IQueue <- {"i"}

SmallKeys == {{"ctrl", "rctrl", "pause"}, {"lshift", "caps", "del"}, {"ctrl", "ralt", "del"},
              {"alt", "num", "left"}, {"minus", "slash", "func"}, {"rshift", "scroll", "self", "ralt"}}

Keys == INSTANCE Keyboard WITH KeySets <- SmallKeys, SIZE <- 6, MaxWire <- 1, MaxRepeat <- 1

fsVars == <<fs, file_table, filp, pwd, root, calls>>
inodeVars == <<w, at, uses, panic>>
logVars == <<k, cpu>>
keyVars == <<keys, held, wire, repeats, mode, leds, e0, read_q, presses, rebooted>>
mcvars == <<which, fsVars, inodeVars, logVars, keyVars, vars>>

MCInit ==
    /\ which \in {"fs", "inodes", "log", "ilog", "keys", "fd"}
    /\ Files!Init
    /\ IF which = "ilog" THEN ILog!Init ELSE Log!Init
    /\ Inodes!Init /\ Keys!Init /\ Init
    /\ which # "fs" => calls = {"open", "unlink", "write"}
    /\ which # "inodes" => "sync" \in uses
    /\ which # "keys" => "pause" \in keys

Only(parts) ==
    /\ which \in parts
    /\ UNCHANGED which
    /\ which # "fs" => UNCHANGED fsVars
    /\ which # "inodes" => UNCHANGED inodeVars
    /\ which \notin {"log", "ilog"} => UNCHANGED logVars
    /\ which # "keys" => UNCHANGED keyVars
    /\ which # "fd" => UNCHANGED vars

MCNext ==
    \/ Only({"fs"}) /\ Files!Next
    \/ Only({"inodes"}) /\ Inodes!Next
    \/ Only({"log"}) /\ Log!Next
    \/ Only({"ilog"}) /\ ILog!Next
    \/ Only({"keys"}) /\ Keys!Next
    \/ Only({"fd"}) /\ Next

MCSpec == MCInit /\ [][MCNext]_mcvars
-----------------------------------------------------------------------------
\* What is on the disk is consistent after every call, also one that failed half
\* way: link counts, the zone bitmap and the tree of directories (namei.c, inode.c,
\* bitmap.c, truncate.c).
DiskConsistent == which = "fs" => Files!DiskConsistent

\* Inodes and open files are held by as many users as their counts say, and an
\* inode is marked used exactly as long as it has a name or is held (inode.c:140-190,
\* open.c:138-221, fcntl.c:18-42).
HeldAsCounted == which = "fs" => Files!HeldAsCounted

\* However lookups, writes and mounts interleave, an inode is in core once and no
\* change to it is lost (inode.c:174-188, 252-282).
OneCopy == which = "inodes" => Inodes!OneCopy

\* i_count is the number of those who use an inode, through all the sleeps of
\* iget, iput, mount and umount (inode.c:140-190, 244-295, super.c).
CountIsHolders == which = "inodes" => Inodes!CountIsHolders

\* While stat_log.py accepts the log, the last line of a process is its real
\* state (stat_log.py:323-365).
LogIsTrue ==
    /\ which = "log" => Log!LogIsTrue
    /\ which = "ilog" => ILog!LogIsTrue

\* The mode flags are those of the keys that are held down (keyboard.S:111-161).
ModeIsHeld == which = "keys" => Keys!ModeIsHeld

\* A key's sequence is in the queue as a whole or not at all (keyboard.S:83-109).
WholeKeys == which = "keys" => Keys!WholeKeys

\* A block is never freed twice (bitmap.c:70).
NoBlockFreedTwice == which = "fs" => Files!NoBlockFreedTwice

\* No process is logged after its E (stat_log.py:72).
ExitedStaysExited == which = "ilog" => ILog!ExitedStaysExited
=============================================================================
