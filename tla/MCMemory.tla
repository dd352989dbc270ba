------------------------------ MODULE MCMemory ------------------------------
(***************************************************************************)
(* Side by side, one of them chosen by which: the pages of two processes  *)
(* whose program has the table text to itself; two processes that execute  *)
(* files, some of them scripts; the allocator of kernel memory; and the    *)
(* console with a screen of two short lines.                               *)
(***************************************************************************)
EXTENDS PageMemory

CONSTANTS text, data

VARIABLES which,
          free, i_count, e, image,   \* Exec
          m, search, panic,          \* Malloc
          c, alphabet, card          \* Console

H(kind, interp, arg) == [kind |-> kind, interp |-> interp, arg |-> arg]
Headers ==
    [b |-> H("program", "", <<>>), s |-> H("script", "b", <<"o">>), t |-> H("script", "s", <<>>),
     u |-> H("script", "n", <<>>), d |-> H("directory", "", <<>>), n |-> H("absent", "", <<>>),
     e |-> H("script", "", <<>>)]
SomeArgs == {[argv |-> <<<<"x">>, <<>>>>, env |-> <<<<"v", "w">>>>],
             [argv |-> <<<<"x">>, <<"y", "z", "y">>>>, env |-> <<>>]}

\* What is written to the console: one of these sets of characters.
Texts == { {"a", "LF", "CR", "ESC", "[", "D", "M", "1", "2", ";", "r"},
           {"a", "ESC", "[", "1", "2", "?", ";", "H", "@", "P", "L", "M", "J", "K"},
           {"a", "DEL", "BS", "HT", "ESC", "[", "0", "1", "A", "B", "C", "D", "E", "F", "G", "d"},
           {"a", "ESC", "[", "1", "7", "8", "s", "u", "B", "C"}, {"a", "ESC", "[", "0", "1", "m", "P", "M"} }

Text == {text} \X Entry

Loader == INSTANCE Exec
            WITH Proc <- {1, 2}, File <- DOMAIN Headers, Header <- Headers, Args <- SomeArgs,
                 PAGE_SIZE <- 4, MAX_ARG_PAGES <- 4, GAP <- 1, FREE <- 8
Heap == INSTANCE Malloc
            WITH NPage <- 4, PAGE_SIZE <- 2, Sizes <- {1, 2}, NDesc <- 4, MaxDesc <- 4,
                 FreeInInterrupt <- FALSE
Screen == INSTANCE Console
            WITH video_num_columns <- 2, video_num_lines <- 2, Rows <- 3, TAB <- 2, NPAR <- 2,
                 MaxPar <- 2, Alphabets <- Texts, Cards <- {"EGA", "MDA"}

execVars == <<free, i_count, e, image>>
heapVars == <<m, search, panic>>
screenVars == <<c, alphabet, card>>
mcvars == <<which, vars, execVars, heapVars, screenVars>>

MCInit ==
    /\ which \in {"pages", "exec", "heap", "screen"}
    /\ Init /\ Loader!Init /\ Heap!Init /\ Screen!Init
    /\ which # "pages" => calls = {"exec"}
    /\ which # "screen" => card = "EGA" /\ "LF" \in alphabet
    /\ card = "MDA" => "LF" \in alphabet   \* the card matters to scrolling

Only(part) ==
    /\ which = part
    /\ UNCHANGED which
    /\ part # "pages" => UNCHANGED vars
    /\ part # "exec" => UNCHANGED execVars
    /\ part # "heap" => UNCHANGED heapVars
    /\ part # "screen" => UNCHANGED screenVars

MCNext ==
    \/ Only("pages") /\ Next
    \/ Only("exec") /\ Loader!Next
    \/ Only("heap") /\ Heap!Next
    \/ Only("screen") /\ Screen!Next

MCSpec == MCInit /\ [][MCNext]_mcvars

-----------------------------------------------------------------------------
\* A new program finds its arguments and its environment whole and in order
\* (exec.c:46-70, 104-152, 265-280), however they fall on pages.
ArgsArrive == which = "exec" => Loader!ArgsArrive

\* Whether an exec fails, at whatever point, or not, no page and no inode is lost
\* or given back twice (exec.c:319-321, 347-351).
NothingLeaks == which = "exec" => Loader!NothingLeaks

\* Every object of a page in use is either given out or in the page's free list,
\* and free_s finds every address malloc gave out (malloc.c:168-228), with malloc
\* called by interrupts in the middle of its search.
BucketsIntact == which = "heap" => Heap!BucketsIntact

\* The window of video memory shows what a screen would show, and the cursor is
\* where its coordinates say (console.c:87-94, 107-240).
ShowsTheScreen == which = "screen" => Screen!ShowsTheScreen
=============================================================================
