-------------------------------- MODULE Exec --------------------------------
(***************************************************************************)
(* do_execve, fs/exec.c: from the name of a file, its arguments and its    *)
(* environment to a new program, through the pages that copy_strings fills *)
(* from the top down, and through the interpreter of a script.             *)
(*                                                                         *)
(* A step ends where the kernel may sleep: namei, bread, and the reading   *)
(* of user memory by copy_strings.  A string is a sequence of characters;  *)
(* a file name is a string of one.  Segments are left out.                 *)
(***************************************************************************)
EXTENDS Integers, FiniteSets, FiniteSetsExt, SequencesExt

CONSTANTS
    Proc,
    File,           \* file names
    Header,         \* what each file is: [kind, interp, arg]
    Args,           \* the arguments and environments passed: [argv, env]
    PAGE_SIZE, MAX_ARG_PAGES, GAP,  \* 4096, 32 and 4 bytes left out at the top
    FREE            \* pages of memory free at the start

VARIABLES
    free,   \* free pages
    i_count,\* users of each inode
    e,      \* the locals of do_execve, per process
    image   \* what the process runs: its file, argument pages, argv and envp

vars == <<free, i_count, e, image>>

Nul == "nul"
NoFile == "no file"
Idle == [at |-> "idle"]
NoPages == [a \in 0..(PAGE_SIZE * MAX_ARG_PAGES - 1) |-> "none"]
NoImage == [file |-> NoFile, pages |-> 0, argv |-> <<>>, envp |-> <<>>, call |-> Idle]

Init ==
    /\ free = FREE
    /\ i_count = [f \in File |-> 0]
    /\ e = [q \in Proc |-> Idle]
    /\ image = [q \in Proc |-> NoImage]

-----------------------------------------------------------------------------
\* Mutant: a page that was got for an earlier string is not looked for.
BytePerPage(c, ch) ==
    LET p == c.p - 1
        o == IF c.offset - 1 < 0 THEN PAGE_SIZE - 1 ELSE c.offset - 1
    IN [c EXCEPT !.p = p, !.offset = o, !.page = @ \cup {p \div PAGE_SIZE}, !.mem[(p \div PAGE_SIZE) * PAGE_SIZE + o] = ch]

\* One byte of copy_strings, into page[p / PAGE_SIZE], which may have to be got.
\* c.p = 0 is its failure.
Byte(c, ch) ==
    LET p == c.p - 1
        o == IF c.offset - 1 < 0 THEN p % PAGE_SIZE ELSE c.offset - 1
        pag == IF c.offset - 1 < 0 THEN p \div PAGE_SIZE ELSE c.pag
    IN IF c.p = 0 THEN c
       ELSE IF pag \notin c.page /\ c.free = Cardinality(c.page) THEN [c EXCEPT !.p = 0]
       ELSE [c EXCEPT !.p = p, !.offset = o, !.pag = pag, !.page = @ \cup {pag},
                      !.mem[pag * PAGE_SIZE + o] = ch]

\* copy_strings: the last string first, each from its end.
copy_strings(c, strings) ==
    LET bytes == FlattenSeq([i \in 1..Len(strings) |-> strings[i] \o <<Nul>>])
    IN IF c.p = 0 THEN c ELSE FoldLeft(Byte, [c EXCEPT !.offset = 0, !.pag = -1], Reverse(bytes))

\* A call of copy_strings after the other, on the pages of process q.
Copied(q, lists) ==
    LET c0 == [p |-> e[q].p, page |-> e[q].page, mem |-> e[q].mem, free |-> free + Cardinality(e[q].page),
               offset |-> 0, pag |-> -1]
    IN FoldLeft(copy_strings, c0, lists)

\* create_tables: n strings from p on, and where the next one starts.
RECURSIVE Strings(_, _, _)
Strings(mem, p, n) ==
    LET end == Min({a \in DOMAIN mem : a >= p /\ mem[a] = Nul})
        rest == Strings(mem, end + 1, n - 1)
    IN IF n <= 0 THEN [list |-> <<>>, p |-> p]
       ELSE [list |-> <<SubSeq([i \in 1..(end - p) |-> mem[p + i - 1]], 1, end - p)>> \o rest.list, p |-> rest.p]

-----------------------------------------------------------------------------
\* exec_error2 gives the inode back, exec_error1 the pages.
Error1(q) ==
    /\ free' = free + Cardinality(e[q].page)
    /\ e' = [e EXCEPT ![q] = Idle]
    /\ UNCHANGED image
Error2(q) == i_count' = [i_count EXCEPT ![e[q].file] = @ - 1] /\ Error1(q)

do_execve(q) ==
    /\ e[q] = Idle
    /\ \E f \in File, a \in Args :
          /\ Header[f].kind # "absent"
          /\ i_count' = [i_count EXCEPT ![f] = @ + 1]
          /\ e' = [e EXCEPT ![q] = [at |-> "header", file |-> f, name |-> f, argv |-> a.argv, env |-> a.env,
                                    argc |-> Len(a.argv), sh_bang |-> 0, page |-> {}, mem |-> NoPages,
                                    p |-> PAGE_SIZE * MAX_ARG_PAGES - GAP]]
          /\ UNCHANGED <<free, image>>

\* From restart_interp to the next sleep: the kind of file and what its first block says.
\* A script gives its inode back and has its strings spliced in; the script of a
\* script is not looked at.
Restart(q) ==
    /\ e[q].at = "header"
    /\ LET h == Header[e[q].file]
           script == h.kind = "script" /\ e[q].sh_bang = 0
           arg == IF h.arg = <<>> THEN <<>> ELSE <<h.arg>>
           c == Copied(q, <<e[q].env, Tail(e[q].argv), <<<<e[q].name>>>>, arg, <<<<h.interp>>>>>>)
       IN \/ ~script /\ h.kind # "program" /\ Error2(q)
          \/ script /\ h.interp = "" /\ Error2(q)
          \/ /\ script /\ h.interp # ""
             /\ i_count' = [i_count EXCEPT ![e[q].file] = @ - 1]
             /\ IF c.p = 0 THEN free' = free + Cardinality(e[q].page) /\ e' = [e EXCEPT ![q] = Idle]
                ELSE /\ free' = free + Cardinality(e[q].page) - Cardinality(c.page)
                     /\ e' = [e EXCEPT ![q].p = c.p, ![q].page = c.page, ![q].mem = c.mem, ![q].at = "interp",
                                       ![q].sh_bang = 1, ![q].argc = @ - 1 + 2 + Len(arg)]
             /\ UNCHANGED image
          \/ h.kind = "program" /\ e' = [e EXCEPT ![q].at = "copy"] /\ UNCHANGED <<free, i_count, image>>

\* namei of the interpreter
Interp(q) ==
    /\ e[q].at = "interp"
    /\ LET f == Header[e[q].name].interp
       IN IF Header[f].kind = "absent" THEN Error1(q) /\ UNCHANGED i_count
          ELSE /\ i_count' = [i_count EXCEPT ![f] = @ + 1]
               /\ e' = [e EXCEPT ![q].file = f, ![q].at = "header"]
               /\ UNCHANGED <<free, image>>

\* Mutant: the old program's file stays in use.
KeepsExecutable(q) == i_count' = i_count

\* The executable of the process is the new file.
SetsExecutable(q) ==
    i_count' = IF image[q].file = NoFile THEN i_count ELSE [i_count EXCEPT ![image[q].file] = @ - 1]

\* Copy, unless the script has done so, and the point of no return.
Commit(q) ==
    /\ e[q].at = "copy"
    /\ LET c == IF e[q].sh_bang = 0 THEN Copied(q, <<e[q].env, e[q].argv>>) ELSE Copied(q, <<>>)
           argv == Strings(c.mem, c.p, e[q].argc)
       IN IF c.p = 0 THEN Error2(q)
          ELSE /\ SetsExecutable(q)
               /\ image' = [image EXCEPT ![q] = [file |-> e[q].file, pages |-> Cardinality(c.page), argv |-> argv.list,
                                envp |-> Strings(c.mem, argv.p, Len(e[q].env)).list, call |-> [name |-> e[q].name, argv |-> e[q].argv, env |-> e[q].env]]]
               /\ free' = free + Cardinality(e[q].page) - Cardinality(c.page) + image[q].pages
               /\ e' = [e EXCEPT ![q] = Idle]

Next == \E q \in Proc : do_execve(q) \/ Restart(q) \/ Interp(q) \/ Commit(q)

Spec == Init /\ [][Next]_vars

-----------------------------------------------------------------------------
\* What the program should see of a call: a script is run by its interpreter, with
\* the interpreter's name and argument and the name of the script before the
\* arguments that followed the script's own name.
Expected(call) ==
    LET h == Header[call.name]
    IN IF h.kind # "script" THEN call.argv
       ELSE <<<<h.interp>>>> \o (IF h.arg = <<>> THEN <<>> ELSE <<h.arg>>) \o <<<<call.name>>>> \o Tail(call.argv)

\* A new program finds its arguments and its environment whole and in order
\* (exec.c:46-70, 104-152, 265-280), however they fall on pages.
ArgsArrive ==
    \A q \in Proc : image[q].file # NoFile =>
        image[q].argv = Expected(image[q].call) /\ image[q].envp = image[q].call.env

\* Whether an exec fails, at whatever point, or not, no page and no inode is lost
\* or given back twice (exec.c:319-321, 347-351).
NothingLeaks ==
    /\ free + FoldSet(LAMBDA q, n : n + image[q].pages + Cardinality(IF e[q] = Idle THEN {} ELSE e[q].page), 0, Proc) = FREE
    /\ \A f \in File : i_count[f] = Cardinality({q \in Proc : image[q].file = f})
                                  + Cardinality({q \in Proc : e[q] # Idle /\ e[q].at # "interp" /\ e[q].file = f})
=============================================================================
