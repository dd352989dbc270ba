------------------------------- MODULE Malloc -------------------------------
(***************************************************************************)
(* The kernel's malloc and free_s, lib/malloc.c: pages cut into objects of *)
(* one size, each page with a bucket descriptor, the descriptors chained   *)
(* by size.  Interrupts may call both while free_s searches the chains,    *)
(* which it does with interrupts on; everything else runs under cli, and a *)
(* call made by an interrupt runs to its end.                              *)
(*                                                                         *)
(* An object is <<page, offset>>; NULL is 0 for a descriptor and Nil for   *)
(* an object.  link is the word at the start of a free object.             *)
(***************************************************************************)
EXTENDS Integers, Sequences, FiniteSets

CONSTANTS
    NPage,      \* pages
    PAGE_SIZE,
    Sizes,      \* bucket_dir: the sizes 1..n, in order
    NDesc,      \* descriptors that fit in a page of them
    MaxDesc,    \* bound on descriptors
    FreeInInterrupt \* whether an interrupt may call free_s too

VARIABLES
    m,          \* chains, descriptors, free descriptors, links, free pages, objects given out
    search,     \* the free_s that is searching: its object, directory, descriptor, prev
    panic

vars == <<m, search, panic>>

Nil == <<0, 0>>
Objects(g, size) == {<<g, o>> : o \in {k * size : k \in 0..((PAGE_SIZE \div size) - 1)}}
NoDesc == [page |-> 0, next |-> 0, freeptr |-> Nil, refcnt |-> 0, size |-> 0]
Idle == [obj |-> Nil, size |-> 0, bdir |-> 0, bdesc |-> 0, prev |-> 0]

Init ==
    /\ m = [chain |-> [s \in Sizes |-> 0], desc |-> [b \in 1..MaxDesc |-> NoDesc], free_desc |-> 0,
            descs |-> 0, link |-> [g \in 1..NPage |-> [o \in 0..(PAGE_SIZE - 1) |-> Nil]],
            pages |-> 1..NPage, given |-> {}]
    /\ search = Idle /\ panic = "none"

\* Each step is taken with the kernel alive.
Does(m2, s2) == panic = "none" /\ m' = m2 /\ search' = s2 /\ UNCHANGED panic
Panics(why) == panic = "none" /\ panic' = why /\ UNCHANGED <<m, search>>

\* The descriptors from b on, in the order of their chain.
RECURSIVE From(_, _)
From(h, b) == IF b = 0 THEN <<>> ELSE <<b>> \o From(h, h.desc[b].next)
InChain(h, s) == LET c == From(h, h.chain[s]) IN {c[i] : i \in DOMAIN c}
First(S, h, s) == LET c == From(h, h.chain[s]) IN c[CHOOSE i \in DOMAIN c : c[i] \in S /\ \A j \in 1..(i - 1) : c[j] \notin S]

-----------------------------------------------------------------------------
\* get_free_page takes the last free page.
get_free_page(h) == CHOOSE g \in h.pages : \A k \in h.pages : k <= g
WithoutPage(h) == [h EXCEPT !.pages = @ \ {get_free_page(h)}]

\* init_bucket_desc: a page of descriptors in a row.
init_bucket_desc(h) ==
    LET first == h.descs + 1
        last == h.descs + NDesc
    IN [WithoutPage(h) EXCEPT !.descs = last, !.free_desc = first,
           !.desc = [b \in DOMAIN @ |-> IF b < first \/ b > last THEN @[b]
                                        ELSE [@[b] EXCEPT !.next = IF b = last THEN h.free_desc ELSE b + 1]]]

\* A new page of objects of size s, chained, behind a free descriptor.
NewBucket(h, s) ==
    LET b == h.free_desc
        g == get_free_page(h)
        linked == [o \in 0..(PAGE_SIZE - 1) |-> IF <<g, o>> \in Objects(g, s) /\ <<g, o + s>> \in Objects(g, s)
                                                THEN <<g, o + s>> ELSE Nil]
    IN [WithoutPage(h) EXCEPT !.free_desc = h.desc[b].next, !.chain[s] = b, !.link[g] = linked,
           !.desc[b] = [page |-> g, next |-> h.chain[s], freeptr |-> <<g, 0>>, refcnt |-> 0, size |-> s]]

\* The word at its start is the caller's from now on.
Taken(h, b) ==
    LET obj == h.desc[b].freeptr
    IN [h EXCEPT !.desc[b].freeptr = h.link[obj[1]][obj[2]], !.desc[b].refcnt = @ + 1, !.given = @ \cup {obj},
                 !.link[obj[1]][obj[2]] = Nil]

malloc(len) ==
    LET s == CHOOSE z \in Sizes : z >= len /\ \A y \in Sizes : y >= len => z <= y
        roomy == {b \in InChain(m, s) : m.desc[b].freeptr # Nil}
    IN IF roomy # {} THEN Does(Taken(m, First(roomy, m, s)), search)
       ELSE IF m.free_desc # 0
       THEN IF m.pages = {} THEN Panics("memory")
            ELSE Does(Taken(NewBucket(m, s), m.free_desc), search)
       ELSE /\ m.descs + NDesc <= MaxDesc
            /\ IF Cardinality(m.pages) < 2 THEN Panics("memory")
               ELSE LET h == init_bucket_desc(m) IN Does(Taken(NewBucket(h, s), h.free_desc), search)

\* Mutant: prev, found before the interrupts went off, is trusted.
TrustsPrev(h, s, b, prev) == prev

\* The descriptor before b in its chain, looked for again when prev is not it.
Before(h, s, b, prev) ==
    IF (prev # 0 /\ h.desc[prev].next # b) \/ (prev = 0 /\ h.chain[s] # b)
    THEN LET c == {a \in InChain(h, s) : h.desc[a].next = b} IN IF c = {} THEN 0 ELSE CHOOSE a \in c : TRUE
    ELSE prev

\* free_s from found on, with interrupts off.  A page nobody uses is given back.
Released(obj, s, b, prev, after) ==
    LET put == [m EXCEPT !.link[obj[1]][obj[2]] = m.desc[b].freeptr, !.desc[b].freeptr = obj,
                         !.desc[b].refcnt = @ - 1, !.given = @ \ {obj}]
        a == Before(put, s, b, prev)
        out == IF a # 0 THEN [put EXCEPT !.desc[a].next = m.desc[b].next]
               ELSE [put EXCEPT !.chain[s] = m.desc[b].next]
    IN IF put.desc[b].refcnt # 0 THEN Does(put, after)
       ELSE IF a = 0 /\ m.chain[s] # b THEN Panics("chains")
       ELSE Does([out EXCEPT !.pages = @ \cup {m.desc[b].page}, !.desc[b].next = m.free_desc, !.free_desc = b], after)

\* free_s that nothing interrupts, or that an interrupt calls.
free_s(obj) ==
    /\ search = Idle \/ FreeInInterrupt
    /\ obj \in m.given /\ obj # search.obj
    /\ LET S == {s \in Sizes : \E b \in InChain(m, s) : m.desc[b].page = obj[1]}
           s == CHOOSE z \in S : TRUE
           b == CHOOSE a \in InChain(m, s) : m.desc[a].page = obj[1]
           pre == {a \in InChain(m, s) : m.desc[a].next = b}
       IN IF S = {} THEN Panics("address")
          ELSE Released(obj, s, b, IF pre = {} THEN 0 ELSE CHOOSE a \in pre : TRUE, search)

\* free_s called by a process, with or without the size of the object.
Search(obj, size) ==
    /\ search = Idle /\ obj \in m.given
    /\ Does(m, [obj |-> obj, size |-> size, bdir |-> 1, bdesc |-> m.chain[1], prev |-> 0])

\* One turn of its loops.
SearchOn ==
    /\ search # Idle
    /\ LET s == search.bdir
           b == search.bdesc
           later == [search EXCEPT !.bdir = s + 1, !.bdesc = IF s + 1 \in Sizes THEN m.chain[s + 1] ELSE 0, !.prev = 0]
       IN IF s \notin Sizes THEN Panics("address")
          ELSE IF s < search.size \/ b = 0 THEN Does(m, later)
          ELSE IF m.desc[b].page = search.obj[1] THEN Released(search.obj, s, b, search.prev, Idle)
          ELSE Does(m, [search EXCEPT !.bdesc = m.desc[b].next, !.prev = b])

Halted == panic # "none" /\ UNCHANGED vars

Next ==
    \/ \E len \in Sizes : malloc(len)
    \/ \E obj \in m.given : free_s(obj)
    \/ \E obj \in m.given, size \in Sizes \cup {0} :
           /\ size = 0 \/ \E s \in Sizes : size <= s /\ \E b \in InChain(m, s) : m.desc[b].page = obj[1]
           /\ Search(obj, size)
    \/ SearchOn
    \/ Halted

Spec == Init /\ [][Next]_vars

-----------------------------------------------------------------------------
\* The free objects of a page, along their links.
RECURSIVE Free(_, _)
Free(obj, seen) == IF obj = Nil \/ obj \in seen THEN seen ELSE Free(m.link[obj[1]][obj[2]], seen \cup {obj})

\* With malloc called by interrupts between the search of free_s and its end,
\* every object of a page in use is either given out or in the page's free list,
\* refcnt counts those given out, pages and descriptors are in one place each, and
\* free_s refuses no address malloc gave out (malloc.c:168-170, 181-228).
BucketsIntact ==
    /\ panic \in {"none", "memory"}
    /\ \A s \in Sizes : \A b \in InChain(m, s) :
          LET g == m.desc[b].page
              mine == {x \in m.given : x[1] = g}
          IN /\ Free(m.desc[b].freeptr, {}) = Objects(g, s) \ mine
             /\ m.desc[b].refcnt = Cardinality(mine) /\ mine # {}
             /\ g \notin m.pages /\ m.desc[b].size = s
    /\ \A x \in m.given : \E s \in Sizes : \E b \in InChain(m, s) : m.desc[b].page = x[1]
    /\ Len(From(m, m.free_desc)) + Cardinality(UNION {InChain(m, s) : s \in Sizes}) = m.descs
=============================================================================
