-------------------------- MODULE PageMemoryProofs --------------------------
(***************************************************************************)
(* For any number of processes, frames, tables and entries, mem_map counts *)
(* the uses of each frame.                                                 *)
(*                                                                         *)
(* The inductive invariant, CInv: mem_map is the sum of the cardinalities  *)
(* of the entries, the tables and the loads that use a frame, and tables,  *)
(* loads and kernel pages are alone in theirs.  Every action is reduced to *)
(* what it does to the set of uses of each frame (Sets, Enters, LosesRow,  *)
(* Copies, Protects).                                                      *)
(***************************************************************************)
EXTENDS PageMemory, FiniteSetTheorems, TLAPS

\* The uses of a frame, by kind.
Mapped(f) == {u \in Proc \X Address : u[2] \in Pages(u[1], f)}
InTable(f) == {u \in Proc \X Table : dir[u[1]][u[2]] = f}
Loading(f) == {p \in Proc : held[p] = f}

MTypeOK ==
    /\ mem_map \in [Frame -> Nat]
    /\ DOMAIN memory = Frame
    /\ dir \in [Proc -> [Table -> Frame \cup {None}]]
    /\ pte \in [Proc -> [Address -> Pte \cup {None}]]
    /\ executable \in [Proc -> Executable \cup {None}]
    /\ state \in [Proc -> {"free", "run", "load", "exec"}]
    /\ at \in [Proc -> Address \cup {None}]
    /\ held \in [Proc -> Frame \cup {None}]
    /\ buffer \in [Proc -> Address \cup {None}]
    /\ kernel \subseteq Frame
    /\ DOMAIN view = Proc /\ \A p \in Proc : DOMAIN view[p] = Address

\* What state says of a process.
Phase(p) ==
    /\ held[p] # None <=> state[p] = "load"
    /\ state[p] = "load" => at[p] \in Address /\ ~Present(p, at[p])
    /\ state[p] = "free" => dir[p] = NoTables /\ pte[p] = NoPages

Phases == \A p \in Proc : Phase(p)

\* Tables, pages that are loaded and pages of the kernel are not shared.
Exclusive ==
    /\ \A p \in Proc, t \in Table : dir[p][t] # None => mem_map[dir[p][t]] = 1
    /\ \A p \in Proc : held[p] # None => mem_map[held[p]] = 1
    /\ \A f \in kernel : mem_map[f] = 1

CInv == MTypeOK /\ Phases /\ Exclusive /\ CountIsUses

-----------------------------------------------------------------------------
\* Addresses and places in tables are finitely many.
LEMMA FiniteUses ==
    /\ IsFiniteSet(Address)
    /\ IsFiniteSet(Proc \X Address)
    /\ IsFiniteSet(Proc \X Table)
    /\ \A f : IsFiniteSet(Mapped(f)) /\ IsFiniteSet(InTable(f)) /\ IsFiniteSet(Loading(f))
    /\ \A p, f : IsFiniteSet(Pages(p, f)) /\ IsFiniteSet({t \in Table : dir[p][t] = f})
<1>1. IsFiniteSet(Address)
  BY ZenonT(60), FiniteAssumption, FS_Product DEF Address
<1>2. IsFiniteSet(Proc \X Address) /\ IsFiniteSet(Proc \X Table)
  BY ZenonT(60), FiniteAssumption, FS_Product, <1>1
<1>3. \A S, T : IsFiniteSet(S) /\ T \subseteq S => IsFiniteSet(T)
  BY ZenonT(60), FS_Subset
<1>4. ASSUME NEW f PROVE IsFiniteSet(Mapped(f)) /\ IsFiniteSet(InTable(f)) /\ IsFiniteSet(Loading(f))
  <2>1. Mapped(f) \subseteq Proc \X Address /\ InTable(f) \subseteq Proc \X Table /\ Loading(f) \subseteq Proc
    BY ZenonT(60) DEF Mapped, InTable, Loading
  <2> QED
    BY ZenonT(60), <1>2, <1>3, <2>1, FiniteAssumption
<1>5. ASSUME NEW p, NEW f PROVE IsFiniteSet(Pages(p, f)) /\ IsFiniteSet({t \in Table : dir[p][t] = f})
  <2>1. Pages(p, f) \subseteq Address /\ {t \in Table : dir[p][t] = f} \subseteq Table
    BY ZenonT(60) DEF Pages
  <2> QED
    BY ZenonT(60), <1>1, <1>3, <2>1, FiniteAssumption
<1> QED
  BY ZenonT(60), <1>1, <1>2, <1>4, <1>5

\* One element more, one less.
LEMMA CountAdds ==
    ASSUME NEW S, NEW x, IsFiniteSet(S), x \notin S
    PROVE  Cardinality(S \cup {x}) = Cardinality(S) + 1 /\ Cardinality(S) \in Nat
  BY SMTT(60), FS_AddElement, FS_CardinalityType

LEMMA CountRemoves ==
    ASSUME NEW S, NEW x, IsFiniteSet(S), x \in S
    PROVE  Cardinality(S \ {x}) = Cardinality(S) - 1 /\ Cardinality(S) \in Nat
  BY SMTT(60), FS_RemoveElement, FS_CardinalityType

\* A pair of a set with one first component.
LEMMA CountOfOne ==
    ASSUME NEW p, NEW S, IsFiniteSet(S)
    PROVE  Cardinality({p} \X S) = Cardinality(S) /\ IsFiniteSet({p} \X S)
<1>1. IsFiniteSet({p}) /\ Cardinality({p}) = 1
  BY ZenonT(60), FS_Singleton
<1>2. IsFiniteSet({p} \X S) /\ Cardinality({p} \X S) = Cardinality({p}) * Cardinality(S)
  BY ZenonT(60), <1>1, FS_Product
<1>3. Cardinality(S) \in Nat
  BY ZenonT(60), FS_CardinalityType
<1> QED
  BY SMTT(60), <1>1, <1>2, <1>3

\* The uses of a frame and its count.
Kernels(f) == IF f \in kernel THEN 1 ELSE 0

LEMMA Counted ==
    ASSUME NEW f \in Frame, MTypeOK, CountIsUses
    PROVE  /\ mem_map[f] = Cardinality(Mapped(f)) + Cardinality(InTable(f)) + Cardinality(Loading(f)) + Kernels(f)
           /\ Cardinality(Mapped(f)) \in Nat /\ Cardinality(InTable(f)) \in Nat
           /\ Cardinality(Loading(f)) \in Nat /\ Kernels(f) \in Nat /\ mem_map[f] \in Nat
<1>1. mem_map[f] = Cardinality(Mapped(f)) + Cardinality(InTable(f)) + Cardinality(Loading(f)) + Kernels(f)
  BY ZenonT(60) DEF CountIsUses, Mapped, InTable, Loading, Kernels
<1>2. /\ Cardinality(Mapped(f)) \in Nat /\ Cardinality(InTable(f)) \in Nat /\ Cardinality(Loading(f)) \in Nat
  BY ZenonT(60), FiniteUses, FS_CardinalityType
<1>3. Kernels(f) \in Nat
  BY SMTT(60) DEF Kernels
<1>4. mem_map[f] \in Nat
  BY ZenonT(60) DEF MTypeOK
<1> QED
  BY ZenonT(60), <1>1, <1>2, <1>3, <1>4

\* A set with an element counts.
LEMMA CountsOne ==
    ASSUME NEW S, IsFiniteSet(S), NEW x \in S
    PROVE  Cardinality(S) >= 1 /\ (Cardinality(S) = 1 => S = {x})
<1>1. Cardinality(S) \in Nat /\ Cardinality(S) # 0
  BY ZenonT(60), FS_CardinalityType, FS_EmptySet
<1>2. ASSUME Cardinality(S) = 1 PROVE S = {x}
  <2>1. PICK y : S = {y}
    BY ZenonT(60), <1>2, FS_Singleton
  <2> QED
    BY ZenonT(60), <2>1
<1> QED
  BY SMTT(60), <1>1, <1>2

\* A free frame has no use.
LEMMA FreeFrame ==
    ASSUME NEW f \in Frame, MTypeOK, CountIsUses, mem_map[f] = 0
    PROVE  Mapped(f) = {} /\ InTable(f) = {} /\ Loading(f) = {} /\ f \notin kernel
<1>1. Cardinality(Mapped(f)) = 0 /\ Cardinality(InTable(f)) = 0 /\ Cardinality(Loading(f)) = 0 /\ Kernels(f) = 0
  BY SMTT(60), Counted
<1>2. f \notin kernel
  BY SMTT(60), <1>1 DEF Kernels
<1> QED
  BY ZenonT(60), <1>1, <1>2, FS_EmptySet, FiniteUses

\* A frame with one use that is a table, a load, of the kernel or a page has no other.
LEMMA OneUse ==
    ASSUME NEW f \in Frame, MTypeOK, CountIsUses, mem_map[f] = 1
    PROVE  /\ \A u \in Mapped(f) : Mapped(f) = {u} /\ InTable(f) = {} /\ Loading(f) = {} /\ f \notin kernel
           /\ \A u \in InTable(f) : InTable(f) = {u} /\ Mapped(f) = {} /\ Loading(f) = {} /\ f \notin kernel
           /\ \A u \in Loading(f) : Loading(f) = {u} /\ Mapped(f) = {} /\ InTable(f) = {} /\ f \notin kernel
           /\ f \in kernel => Mapped(f) = {} /\ InTable(f) = {} /\ Loading(f) = {}
<1> DEFINE M == Cardinality(Mapped(f))
           T == Cardinality(InTable(f))
           L == Cardinality(Loading(f))
           K == Kernels(f)
<1>1. M + T + L + K = 1 /\ M \in Nat /\ T \in Nat /\ L \in Nat /\ K \in Nat
  BY ZenonT(60), Counted
<1>2. IsFiniteSet(Mapped(f)) /\ IsFiniteSet(InTable(f)) /\ IsFiniteSet(Loading(f))
  BY ZenonT(60), FiniteUses
<1>3. f \in kernel <=> K = 1
  BY SMTT(60) DEF Kernels
<1>4. /\ M = 0 => Mapped(f) = {}
      /\ T = 0 => InTable(f) = {}
      /\ L = 0 => Loading(f) = {}
  BY ZenonT(60), <1>2, FS_EmptySet
<1>5. ASSUME NEW u \in Mapped(f) PROVE Mapped(f) = {u} /\ InTable(f) = {} /\ Loading(f) = {} /\ f \notin kernel
  <2>1. M >= 1 /\ (M = 1 => Mapped(f) = {u})
    BY ZenonT(60), <1>2, <1>5, CountsOne
  <2>2. M = 1 /\ T = 0 /\ L = 0 /\ K # 1
    BY SMTT(60), <1>1, <2>1
  <2> QED
    BY ZenonT(60), <1>3, <1>4, <2>1, <2>2
<1>6. ASSUME NEW u \in InTable(f) PROVE InTable(f) = {u} /\ Mapped(f) = {} /\ Loading(f) = {} /\ f \notin kernel
  <2>1. T >= 1 /\ (T = 1 => InTable(f) = {u})
    BY ZenonT(60), <1>2, <1>6, CountsOne
  <2>2. T = 1 /\ M = 0 /\ L = 0 /\ K # 1
    BY SMTT(60), <1>1, <2>1
  <2> QED
    BY ZenonT(60), <1>3, <1>4, <2>1, <2>2
<1>7. ASSUME NEW u \in Loading(f) PROVE Loading(f) = {u} /\ Mapped(f) = {} /\ InTable(f) = {} /\ f \notin kernel
  <2>1. L >= 1 /\ (L = 1 => Loading(f) = {u})
    BY ZenonT(60), <1>2, <1>7, CountsOne
  <2>2. L = 1 /\ M = 0 /\ T = 0 /\ K # 1
    BY SMTT(60), <1>1, <2>1
  <2> QED
    BY ZenonT(60), <1>3, <1>4, <2>1, <2>2
<1>8. ASSUME f \in kernel PROVE Mapped(f) = {} /\ InTable(f) = {} /\ Loading(f) = {}
  <2>1. K = 1
    BY ZenonT(60), <1>3, <1>8
  <2>2. M = 0 /\ T = 0 /\ L = 0
    BY SMTT(60), <1>1, <2>1
  <2> QED
    BY ZenonT(60), <1>4, <2>2
<1> QED
  BY ZenonT(60), <1>5, <1>6, <1>7, <1>8

\* The frame of an address, None where no page is; 1 when f is it.
FrameAt(p, a) == IF pte[p][a] = None THEN None ELSE pte[p][a].frame
Is(x, f) == IF x = f THEN 1 ELSE 0

LEMMA FrameType ==
    ASSUME MTypeOK, NEW p \in Proc, NEW a \in Address
    PROVE  /\ FrameAt(p, a) \in Frame \cup {None}
           /\ Present(p, a) => pte[p][a] \in Pte /\ FrameAt(p, a) = pte[p][a].frame /\ FrameAt(p, a) \in Frame
           /\ ~Present(p, a) => FrameAt(p, a) = None
           /\ \A f \in Frame : <<p, a>> \in Mapped(f) <=> FrameAt(p, a) = f
<1>1. pte[p][a] \in Pte \cup {None}
  BY SMTT(60) DEF MTypeOK
<1>2. ASSUME Present(p, a) PROVE pte[p][a] \in Pte /\ FrameAt(p, a) = pte[p][a].frame /\ FrameAt(p, a) \in Frame
  <2>1. pte[p][a] \in Pte /\ FrameAt(p, a) = pte[p][a].frame
    BY ZenonT(60), <1>1, <1>2 DEF Present, FrameAt
  <2>2. pte[p][a].frame \in Frame
    BY SMTT(60), <2>1 DEF Pte
  <2> QED
    BY ZenonT(60), <2>1, <2>2
<1>3. ~Present(p, a) => FrameAt(p, a) = None
  BY ZenonT(60) DEF Present, FrameAt
<1>4. ASSUME NEW f \in Frame PROVE <<p, a>> \in Mapped(f) <=> FrameAt(p, a) = f
  <2>1. <<p, a>> \in Mapped(f) <=> a \in Pages(p, f)
    BY SMTT(60) DEF Mapped
  <2>2. a \in Pages(p, f) <=> Present(p, a) /\ pte[p][a].frame = f
    BY ZenonT(60) DEF Pages
  <2> QED
    BY ZenonT(60), <2>1, <2>2, <1>2, <1>3, NoneAssumption
<1> QED
  BY ZenonT(60), <1>2, <1>3, <1>4

\* What may lie in one frame with what.
LEMMA TableApart ==
    ASSUME CInv, NEW q \in Proc, NEW t \in Table, dir[q][t] # None
    PROVE  /\ dir[q][t] \in Frame /\ mem_map[dir[q][t]] = 1 /\ dir[q][t] \notin kernel
           /\ \A r \in Proc, b \in Address : FrameAt(r, b) # dir[q][t]
           /\ \A r \in Proc : held[r] # dir[q][t]
           /\ \A r \in Proc, u \in Table : dir[r][u] = dir[q][t] => r = q /\ u = t
<1>1. dir[q][t] \in Frame
  BY SMTT(60) DEF CInv, MTypeOK
<1>2. <<q, t>> \in InTable(dir[q][t])
  BY SMTT(60) DEF InTable
<1>3. mem_map[dir[q][t]] = 1
  BY ZenonT(60) DEF CInv, Exclusive
<1>4. InTable(dir[q][t]) = {<<q, t>>} /\ Mapped(dir[q][t]) = {} /\ Loading(dir[q][t]) = {} /\ dir[q][t] \notin kernel
  BY ZenonT(60), <1>1, <1>2, <1>3, OneUse DEF CInv
<1>5. ASSUME NEW r \in Proc, NEW b \in Address PROVE FrameAt(r, b) # dir[q][t]
  BY ZenonT(60), <1>1, <1>4, FrameType DEF CInv
<1>6. ASSUME NEW r \in Proc PROVE held[r] # dir[q][t]
  BY ZenonT(60), <1>4 DEF Loading
<1>7. ASSUME NEW r \in Proc, NEW u \in Table, dir[r][u] = dir[q][t] PROVE r = q /\ u = t
  <2>1. <<r, u>> \in InTable(dir[q][t])
    BY SMTT(60), <1>7 DEF InTable
  <2>2. <<r, u>> = <<q, t>>
    BY ZenonT(60), <1>4, <2>1
  <2> QED
    BY SMTT(60), <2>2
<1> QED
  BY ZenonT(60), <1>1, <1>3, <1>4, <1>5, <1>6, <1>7

LEMMA HeldApart ==
    ASSUME CInv, NEW q \in Proc, held[q] # None
    PROVE  /\ held[q] \in Frame /\ mem_map[held[q]] = 1 /\ held[q] \notin kernel
           /\ \A r \in Proc, b \in Address : FrameAt(r, b) # held[q]
           /\ \A r \in Proc, u \in Table : dir[r][u] # held[q]
           /\ \A r \in Proc : held[r] = held[q] => r = q
<1>1. held[q] \in Frame
  BY ZenonT(60) DEF CInv, MTypeOK
<1>2. q \in Loading(held[q])
  BY ZenonT(60) DEF Loading
<1>3. mem_map[held[q]] = 1
  BY ZenonT(60) DEF CInv, Exclusive
<1>4. Loading(held[q]) = {q} /\ Mapped(held[q]) = {} /\ InTable(held[q]) = {} /\ held[q] \notin kernel
  BY ZenonT(60), <1>1, <1>2, <1>3, OneUse DEF CInv
<1>5. ASSUME NEW r \in Proc, NEW b \in Address PROVE FrameAt(r, b) # held[q]
  BY ZenonT(60), <1>1, <1>4, FrameType DEF CInv
<1>6. ASSUME NEW r \in Proc, NEW u \in Table PROVE dir[r][u] # held[q]
  <2>1. <<r, u>> \notin InTable(held[q])
    BY ZenonT(60), <1>4
  <2> QED
    BY SMTT(60), <2>1 DEF InTable
<1>7. ASSUME NEW r \in Proc, held[r] = held[q] PROVE r = q
  <2>1. r \in Loading(held[q])
    BY ZenonT(60), <1>7 DEF Loading
  <2> QED
    BY ZenonT(60), <1>4, <2>1
<1> QED
  BY ZenonT(60), <1>1, <1>3, <1>4, <1>5, <1>6, <1>7

LEMMA KernelApart ==
    ASSUME CInv, NEW f \in kernel
    PROVE  /\ f \in Frame /\ mem_map[f] = 1
           /\ \A r \in Proc, b \in Address : FrameAt(r, b) # f
           /\ \A r \in Proc, u \in Table : dir[r][u] # f
           /\ \A r \in Proc : held[r] # f
<1>1. f \in Frame /\ mem_map[f] = 1
  BY ZenonT(60) DEF CInv, MTypeOK, Exclusive
<1>2. Loading(f) = {} /\ Mapped(f) = {} /\ InTable(f) = {}
  BY ZenonT(60), <1>1, OneUse DEF CInv
<1>3. ASSUME NEW r \in Proc, NEW b \in Address PROVE FrameAt(r, b) # f
  BY ZenonT(60), <1>1, <1>2, FrameType DEF CInv
<1>4. ASSUME NEW r \in Proc, NEW u \in Table PROVE dir[r][u] # f
  <2>1. <<r, u>> \notin InTable(f)
    BY ZenonT(60), <1>2
  <2> QED
    BY SMTT(60), <2>1 DEF InTable
<1>5. ASSUME NEW r \in Proc PROVE held[r] # f
  BY ZenonT(60), <1>2 DEF Loading
<1> QED
  BY ZenonT(60), <1>1, <1>3, <1>4, <1>5

LEMMA PageUsed ==
    ASSUME CInv, NEW q \in Proc, NEW b \in Address, Present(q, b)
    PROVE  FrameAt(q, b) \in Frame /\ FrameAt(q, b) # None /\ mem_map[FrameAt(q, b)] \in Nat /\ mem_map[FrameAt(q, b)] >= 1
<1>1. FrameAt(q, b) \in Frame
  BY ZenonT(60), FrameType DEF CInv
<1>2. <<q, b>> \in Mapped(FrameAt(q, b))
  BY ZenonT(60), <1>1, FrameType DEF CInv
<1>3. Mapped(FrameAt(q, b)) # {}
  BY ZenonT(60), <1>2
<1>4. mem_map[FrameAt(q, b)] # 0
  BY ZenonT(60), <1>1, <1>3, FreeFrame DEF CInv
<1>5. mem_map[FrameAt(q, b)] \in Nat
  BY ZenonT(60), <1>1 DEF CInv, MTypeOK
<1>6. mem_map[FrameAt(q, b)] >= 1
  BY SMTT(60), <1>4, <1>5
<1> QED
  BY ZenonT(60), <1>1, <1>5, <1>6, NoneAssumption

-----------------------------------------------------------------------------
\* Two sets that differ at one place at most.
LEMMA OneChanges ==
    ASSUME NEW M, NEW N, NEW u, IsFiniteSet(M), IsFiniteSet(N), \A x : x # u => (x \in M <=> x \in N)
    PROVE  Cardinality(N) = Cardinality(M) + (IF u \in N THEN 1 ELSE 0) - (IF u \in M THEN 1 ELSE 0)
<1>1. M \ {u} = N \ {u}
  BY ZenonT(60)
<1>2. /\ Cardinality(M \ {u}) = IF u \in M THEN Cardinality(M) - 1 ELSE Cardinality(M)
      /\ Cardinality(N \ {u}) = IF u \in N THEN Cardinality(N) - 1 ELSE Cardinality(N)
  BY ZenonT(60), FS_RemoveElement
<1>3. Cardinality(M) \in Nat /\ Cardinality(N) \in Nat
  BY ZenonT(60), FS_CardinalityType
<1> QED
  BY SMTT(60), <1>1, <1>2, <1>3

\* The uses after a step are finitely many as well.
LEMMA FiniteUsesNext ==
    \A f : IsFiniteSet(Mapped(f)') /\ IsFiniteSet(InTable(f)') /\ IsFiniteSet(Loading(f)')
<1>1. ASSUME NEW f PROVE Mapped(f)' \subseteq Proc \X Address /\ InTable(f)' \subseteq Proc \X Table /\ Loading(f)' \subseteq Proc
  BY ZenonT(60) DEF Mapped, InTable, Loading
<1>2. \A S, T : IsFiniteSet(S) /\ T \subseteq S => IsFiniteSet(T)
  BY ZenonT(60), FS_Subset
<1> QED
  BY ZenonT(60), <1>1, <1>2, FiniteUses, FiniteAssumption

\* How CountIsUses is shown after a step.
LEMMA CountsNext ==
    ASSUME \A f \in Frame :
              mem_map'[f] = Cardinality(Mapped(f)') + Cardinality(InTable(f)') + Cardinality(Loading(f)') + Kernels(f)'
    PROVE  CountIsUses'
  BY ZenonT(60) DEF CountIsUses, Mapped, InTable, Loading, Kernels

\* A step that changes one entry, one table and one load at most keeps the counts
\* right if it changes mem_map by as much.
LEMMA CountsChange ==
    ASSUME CInv, NEW p \in Proc, NEW a \in Address, NEW k \in Table,
           \A q \in Proc, b \in Address : <<q, b>> # <<p, a>> => FrameAt(q, b)' = FrameAt(q, b),
           \A q \in Proc, t \in Table : <<q, t>> # <<p, k>> => dir'[q][t] = dir[q][t],
           \A q \in Proc : q # p => held'[q] = held[q],
           kernel' = kernel,
           \A f \in Frame : mem_map'[f] = mem_map[f] + Is(FrameAt(p, a)', f) - Is(FrameAt(p, a), f)
                                            + Is(dir'[p][k], f) - Is(dir[p][k], f)
                                            + Is(held'[p], f) - Is(held[p], f)
    PROVE  CountIsUses'
<1> SUFFICES ASSUME NEW f \in Frame
             PROVE  mem_map'[f] = Cardinality(Mapped(f)') + Cardinality(InTable(f)') + Cardinality(Loading(f)') + Kernels(f)'
  BY ZenonT(60), CountsNext
<1>1. /\ IsFiniteSet(Mapped(f)) /\ IsFiniteSet(InTable(f)) /\ IsFiniteSet(Loading(f))
      /\ IsFiniteSet(Mapped(f)') /\ IsFiniteSet(InTable(f)') /\ IsFiniteSet(Loading(f)')
  BY ZenonT(60), FiniteUses, FiniteUsesNext
<1>2. Cardinality(Mapped(f)') = Cardinality(Mapped(f)) + Is(FrameAt(p, a)', f) - Is(FrameAt(p, a), f)
  <2>1. (\A q \in Proc, b \in Address : <<q, b>> \in Mapped(f) <=> FrameAt(q, b) = f) /\ (\A q \in Proc, b \in Address : <<q, b>> \in Mapped(f)' <=> FrameAt(q, b)' = f)
    <3>1. \A q \in Proc, b \in Address : <<q, b>> \in Mapped(f) <=> FrameAt(q, b) = f
      BY ZenonT(60), FrameType DEF CInv
    <3>2. ASSUME NEW q \in Proc, NEW b \in Address PROVE <<q, b>> \in Mapped(f)' <=> FrameAt(q, b)' = f
      <4>1. <<q, b>> \in Mapped(f)' <=> b \in Pages(q, f)'
        BY SMTT(60) DEF Mapped
      <4>2. b \in Pages(q, f)' <=> pte'[q][b] # None /\ pte'[q][b].frame = f
        BY ZenonT(60) DEF Pages, Present
      <4>3. FrameAt(q, b)' = f <=> pte'[q][b] # None /\ pte'[q][b].frame = f
        BY ZenonT(60), NoneAssumption DEF FrameAt
      <4> QED
        BY ZenonT(60), <4>1, <4>2, <4>3
    <3> QED
      BY ZenonT(60), <3>1, <3>2
  <2>2. ASSUME NEW x, x # <<p, a>> PROVE x \in Mapped(f) <=> x \in Mapped(f)'
    <3>1. CASE x \in Proc \X Address
      <4>1. PICK q \in Proc, b \in Address : x = <<q, b>>
        BY SMTT(60), <3>1
      <4> QED
        BY SMTT(60), <2>1, <2>2, <4>1
    <3>2. CASE x \notin Proc \X Address
      BY ZenonT(60), <3>2 DEF Mapped
    <3> QED
      BY ZenonT(60), <3>1, <3>2
  <2>3. Cardinality(Mapped(f)') = Cardinality(Mapped(f)) + (IF <<p, a>> \in Mapped(f)' THEN 1 ELSE 0) - (IF <<p, a>> \in Mapped(f) THEN 1 ELSE 0)
    BY SMTT(60), <1>1, <2>2, OneChanges
  <2> QED
    BY SMTT(60), <2>1, <2>3 DEF Is
<1>3. Cardinality(InTable(f)') = Cardinality(InTable(f)) + Is(dir'[p][k], f) - Is(dir[p][k], f)
  <2>1. (\A q \in Proc, t \in Table : <<q, t>> \in InTable(f) <=> dir[q][t] = f) /\ (\A q \in Proc, t \in Table : <<q, t>> \in InTable(f)' <=> dir'[q][t] = f)
    <3>1. ASSUME NEW q \in Proc, NEW t \in Table PROVE <<q, t>> \in InTable(f) <=> dir[q][t] = f
      BY SMTT(60) DEF InTable
    <3>2. ASSUME NEW q \in Proc, NEW t \in Table PROVE <<q, t>> \in InTable(f)' <=> dir'[q][t] = f
      BY SMTT(60) DEF InTable
    <3> QED
      BY ZenonT(60), <3>1, <3>2
  <2>2. ASSUME NEW x, x # <<p, k>> PROVE x \in InTable(f) <=> x \in InTable(f)'
    <3>1. CASE x \in Proc \X Table
      <4>1. PICK q \in Proc, t \in Table : x = <<q, t>>
        BY SMTT(60), <3>1
      <4> QED
        BY SMTT(60), <2>1, <2>2, <4>1
    <3>2. CASE x \notin Proc \X Table
      BY ZenonT(60), <3>2 DEF InTable
    <3> QED
      BY ZenonT(60), <3>1, <3>2
  <2>3. Cardinality(InTable(f)') = Cardinality(InTable(f)) + (IF <<p, k>> \in InTable(f)' THEN 1 ELSE 0) - (IF <<p, k>> \in InTable(f) THEN 1 ELSE 0)
    BY SMTT(60), <1>1, <2>2, OneChanges
  <2> QED
    BY SMTT(60), <2>1, <2>3 DEF Is
<1>4. Cardinality(Loading(f)') = Cardinality(Loading(f)) + Is(held'[p], f) - Is(held[p], f)
  <2>1. (\A q \in Proc : q \in Loading(f) <=> held[q] = f) /\ (\A q \in Proc : q \in Loading(f)' <=> held'[q] = f)
    BY ZenonT(60) DEF Loading
  <2>2. ASSUME NEW x, x # p PROVE x \in Loading(f) <=> x \in Loading(f)'
    BY ZenonT(60), <2>1, <2>2 DEF Loading
  <2>3. Cardinality(Loading(f)') = Cardinality(Loading(f)) + (IF p \in Loading(f)' THEN 1 ELSE 0) - (IF p \in Loading(f) THEN 1 ELSE 0)
    BY SMTT(60), <1>1, <2>2, OneChanges
  <2> QED
    BY ZenonT(60), <2>1, <2>3 DEF Is
<1>5. Kernels(f)' = Kernels(f)
  BY ZenonT(60) DEF Kernels
<1>6. /\ mem_map[f] = Cardinality(Mapped(f)) + Cardinality(InTable(f)) + Cardinality(Loading(f)) + Kernels(f)
      /\ Cardinality(Mapped(f)) \in Nat /\ Cardinality(InTable(f)) \in Nat
      /\ Cardinality(Loading(f)) \in Nat /\ Kernels(f) \in Nat /\ mem_map[f] \in Nat
  BY ZenonT(60), Counted DEF CInv
<1>7. \A x : Is(x, f) \in {0, 1}
  BY SMTT(60) DEF Is
<1>8. mem_map'[f] = mem_map[f] + Is(FrameAt(p, a)', f) - Is(FrameAt(p, a), f)
                       + Is(dir'[p][k], f) - Is(dir[p][k], f) + Is(held'[p], f) - Is(held[p], f)
  BY ZenonT(60)
<1> HIDE DEF Is
<1> QED
  BY SMTT(60), <1>2, <1>3, <1>4, <1>5, <1>6, <1>7, <1>8

\* A step that leaves all pages where they are.
LEMMA SameFrames ==
    ASSUME CInv, UNCHANGED <<mem_map, dir, held, kernel>>,
           \A q \in Proc, b \in Address : FrameAt(q, b)' = FrameAt(q, b)
    PROVE  CountIsUses' /\ Exclusive'
<1>1. ASSUME NEW f \in Frame PROVE Mapped(f)' = Mapped(f)
  <2>1. ASSUME NEW q \in Proc, NEW b \in Address PROVE b \in Pages(q, f)' <=> b \in Pages(q, f)
    <3>1. b \in Pages(q, f)' <=> pte'[q][b] # None /\ pte'[q][b].frame = f
      BY ZenonT(60) DEF Pages, Present
    <3>2. b \in Pages(q, f) <=> pte[q][b] # None /\ pte[q][b].frame = f
      BY ZenonT(60) DEF Pages, Present
    <3>3. FrameAt(q, b)' = FrameAt(q, b)
      BY ZenonT(60)
    <3>4. FrameAt(q, b)' = f <=> pte'[q][b] # None /\ pte'[q][b].frame = f
      BY ZenonT(60), NoneAssumption DEF FrameAt
    <3>5. FrameAt(q, b) = f <=> pte[q][b] # None /\ pte[q][b].frame = f
      BY ZenonT(60), NoneAssumption DEF FrameAt
    <3> QED
      BY ZenonT(60), <3>1, <3>2, <3>3, <3>4, <3>5
  <2>2. \A u \in Proc \X Address : u[1] \in Proc /\ u[2] \in Address
    BY SMTT(60)
  <2>3. \A u \in Proc \X Address : u[2] \in Pages(u[1], f)' <=> u[2] \in Pages(u[1], f)
    BY ZenonT(60), <2>1, <2>2
  <2> HIDE DEF Pages
  <2> QED
    BY ZenonT(60), <2>3 DEF Mapped
<1>2. ASSUME NEW f \in Frame
      PROVE  mem_map'[f] = Cardinality(Mapped(f)') + Cardinality(InTable(f)') + Cardinality(Loading(f)') + Kernels(f)'
  <2>1. mem_map[f] = Cardinality(Mapped(f)) + Cardinality(InTable(f)) + Cardinality(Loading(f)) + Kernels(f)
    BY ZenonT(60), Counted DEF CInv
  <2>2. InTable(f)' = InTable(f) /\ Loading(f)' = Loading(f) /\ Kernels(f)' = Kernels(f) /\ mem_map' = mem_map
    BY ZenonT(60) DEF InTable, Loading, Kernels
  <2> QED
    BY ZenonT(60), <1>1, <2>1, <2>2
<1>3. CountIsUses'
  BY ZenonT(60), <1>2, CountsNext
<1>4. Exclusive'
  BY ZenonT(60) DEF CInv, Exclusive
<1> QED
  BY ZenonT(60), <1>3, <1>4

\* The entry of p for a becomes e.
Sets(p, a, e) == pte' = [pte EXCEPT ![p][a] = e]

\* One entry is set.
LEMMA EntrySet ==
    ASSUME MTypeOK, NEW p \in Proc, NEW a \in Address, NEW e \in Pte, Sets(p, a, e)
    PROVE  /\ pte' \in [Proc -> [Address -> Pte \cup {None}]]
           /\ pte'[p][a] = e /\ FrameAt(p, a)' = e.frame /\ Present(p, a)'
           /\ \A q \in Proc, b \in Address : <<q, b>> # <<p, a>> => pte'[q][b] = pte[q][b] /\ FrameAt(q, b)' = FrameAt(q, b)
<1>7. pte' = [pte EXCEPT ![p][a] = e]
  BY ZenonT(60) DEF Sets
<1>1. pte \in [Proc -> [Address -> Pte \cup {None}]]
  BY ZenonT(60) DEF MTypeOK
<1>2. pte' \in [Proc -> [Address -> Pte \cup {None}]] /\ pte'[p][a] = e
  BY SMTT(60), <1>1, <1>7
<1>3. ASSUME NEW q \in Proc, NEW b \in Address, <<q, b>> # <<p, a>> PROVE pte'[q][b] = pte[q][b]
  BY SMTT(60), <1>1, <1>3, <1>7
<1>4. e # None
  BY ZenonT(60), NoneAssumption
<1>5. FrameAt(p, a)' = e.frame /\ Present(p, a)'
  BY ZenonT(60), <1>2, <1>4 DEF FrameAt, Present
<1>6. ASSUME NEW q \in Proc, NEW b \in Address, <<q, b>> # <<p, a>> PROVE FrameAt(q, b)' = FrameAt(q, b)
  <2>1. pte'[q][b] = pte[q][b]
    BY <1>3, <1>6, ZenonT(60)
  <2> QED
    BY SMTT(60), <2>1 DEF FrameAt
<1> QED
  BY ZenonT(60), <1>2, <1>3, <1>5, <1>6

\* un_wp_page: the page is the process's own now.
Unprotected(p, a) ==
    /\ pte' \in [Proc -> [Address -> Pte \cup {None}]]
    /\ pte'[p][a] \in Pte /\ pte'[p][a].w = TRUE /\ Present(p, a)' /\ FrameAt(p, a)' = pte'[p][a].frame
    /\ \A q \in Proc, b \in Address : <<q, b>> # <<p, a>> => pte'[q][b] = pte[q][b] /\ FrameAt(q, b)' = FrameAt(q, b)
    /\ \/ /\ mem_map[FrameAt(p, a)] = 1
          /\ UNCHANGED <<mem_map, memory>>
          /\ FrameAt(p, a)' = FrameAt(p, a)
          /\ pte'[p][a].dirty = pte[p][a].dirty
       \/ /\ mem_map[FrameAt(p, a)] # 1
          /\ FrameAt(p, a)' \in Free
          /\ pte'[p][a].dirty = FALSE
          /\ mem_map' = [mem_map EXCEPT ![FrameAt(p, a)] = @ - 1, ![FrameAt(p, a)'] = 1]
          /\ memory' = [memory EXCEPT ![FrameAt(p, a)'] = memory[FrameAt(p, a)]]

LEMMA WritableType == ASSUME NEW f \in Frame PROVE Writable(f) \in Pte /\ Writable(f).frame = f /\ Writable(f).w = TRUE /\ Writable(f).dirty = FALSE
  BY SMTT(60) DEF Writable, Pte

LEMMA WithBit ==
    ASSUME NEW x \in Pte, NEW v \in BOOLEAN
    PROVE  /\ [x EXCEPT !.w = v] \in Pte /\ [x EXCEPT !.w = v].w = v
           /\ [x EXCEPT !.w = v].frame = x.frame /\ [x EXCEPT !.w = v].dirty = x.dirty
           /\ [x EXCEPT !.dirty = v] \in Pte /\ [x EXCEPT !.dirty = v].dirty = v
           /\ [x EXCEPT !.dirty = v].frame = x.frame /\ [x EXCEPT !.dirty = v].w = x.w
  BY SMTT(60) DEF Pte

LEMMA UnwpEffect ==
    ASSUME CInv, NEW p \in Proc, NEW a \in Address, Present(p, a), un_wp_page(p, a)
    PROVE  Unprotected(p, a)
<1>1. pte[p][a] \in Pte /\ FrameAt(p, a) = pte[p][a].frame /\ FrameAt(p, a) \in Frame
  BY ZenonT(60), FrameType DEF CInv
<1>2. MTypeOK
  BY ZenonT(60) DEF CInv
<1> DEFINE e == [pte[p][a] EXCEPT !.w = TRUE]
<1>3. CASE Alone(pte[p][a].frame) /\ pte' = [pte EXCEPT ![p][a].w = TRUE] /\ UNCHANGED <<mem_map, memory>>
  <2>1. Sets(p, a, e)
    BY ZenonT(60), <1>3 DEF Sets
  <2>2. e \in Pte /\ e.w = TRUE /\ e.frame = pte[p][a].frame /\ e.dirty = pte[p][a].dirty
    BY ZenonT(60), <1>1, WithBit
  <2> HIDE DEF e
  <2>3. /\ pte' \in [Proc -> [Address -> Pte \cup {None}]]
        /\ pte'[p][a] = e /\ FrameAt(p, a)' = e.frame /\ Present(p, a)'
        /\ \A q \in Proc, b \in Address : <<q, b>> # <<p, a>> => pte'[q][b] = pte[q][b] /\ FrameAt(q, b)' = FrameAt(q, b)
    BY ZenonT(60), <1>2, <2>1, <2>2, EntrySet
  <2>4. mem_map[FrameAt(p, a)] = 1
    BY ZenonT(60), <1>1, <1>3 DEF Alone
  <2> QED
    BY ZenonT(60), <1>1, <1>3, <2>2, <2>3, <2>4 DEF Unprotected
<1>4. ASSUME NEW f \in Free,
             ~Alone(pte[p][a].frame), mem_map' = Copied(pte[p][a].frame, f), pte' = [pte EXCEPT ![p][a] = Writable(f)],
             memory' = [memory EXCEPT ![f] = memory[pte[p][a].frame]]
      PROVE  Unprotected(p, a)
  <2>1. f \in Frame
    BY ZenonT(60) DEF Free
  <2>2. Writable(f) \in Pte /\ Writable(f).frame = f /\ Writable(f).w = TRUE /\ Writable(f).dirty = FALSE
    BY ZenonT(60), <2>1, WritableType
  <2>3. /\ pte' \in [Proc -> [Address -> Pte \cup {None}]]
        /\ pte'[p][a] = Writable(f) /\ FrameAt(p, a)' = Writable(f).frame /\ Present(p, a)'
        /\ \A q \in Proc, b \in Address : <<q, b>> # <<p, a>> => pte'[q][b] = pte[q][b] /\ FrameAt(q, b)' = FrameAt(q, b)
    <3>1. Sets(p, a, Writable(f))
      BY ZenonT(60), <1>4 DEF Sets
    <3> QED
      BY ZenonT(60), <1>2, <2>2, <3>1, EntrySet
  <2>4. mem_map[FrameAt(p, a)] # 1
    BY ZenonT(60), <1>1, <1>4 DEF Alone
  <2>5. mem_map' = [mem_map EXCEPT ![FrameAt(p, a)] = @ - 1, ![f] = 1]
    BY ZenonT(60), <1>1, <1>4 DEF Copied
  <2> QED
    BY ZenonT(60), <1>1, <1>4, <2>2, <2>3, <2>4, <2>5 DEF Unprotected
<1> QED
  BY ZenonT(60), <1>3, <1>4 DEF un_wp_page

\* A frame in use is not free.
LEMMA NotFree ==
    ASSUME CInv, NEW f \in Free
    PROVE  /\ f \in Frame /\ mem_map[f] = 0 /\ f \notin kernel
           /\ \A q \in Proc, b \in Address : FrameAt(q, b) # f
           /\ \A q \in Proc, t \in Table : dir[q][t] # f
           /\ \A q \in Proc : held[q] # f
<1>1. f \in Frame /\ mem_map[f] = 0
  BY ZenonT(60) DEF Free
<1>2. Mapped(f) = {} /\ InTable(f) = {} /\ Loading(f) = {} /\ f \notin kernel
  BY ZenonT(60), <1>1, FreeFrame DEF CInv
<1>3. ASSUME NEW q \in Proc, NEW b \in Address PROVE FrameAt(q, b) # f
  BY ZenonT(60), <1>1, <1>2, FrameType DEF CInv
<1>4. ASSUME NEW q \in Proc, NEW t \in Table PROVE dir[q][t] # f
  <2>1. <<q, t>> \notin InTable(f)
    BY ZenonT(60), <1>2
  <2> QED
    BY SMTT(60), <2>1 DEF InTable
<1>5. ASSUME NEW q \in Proc PROVE held[q] # f
  BY ZenonT(60), <1>2 DEF Loading
<1> QED
  BY ZenonT(60), <1>1, <1>2, <1>3, <1>4, <1>5

LEMMA UnprotectedCounts ==
    ASSUME CInv, NEW p \in Proc, NEW a \in Address, Present(p, a), Unprotected(p, a), UNCHANGED <<dir, held, kernel>>
    PROVE  CountIsUses' /\ Exclusive' /\ mem_map' \in [Frame -> Nat]
<1>1. /\ pte' \in [Proc -> [Address -> Pte \cup {None}]]
      /\ \A q \in Proc, b \in Address : <<q, b>> # <<p, a>> => FrameAt(q, b)' = FrameAt(q, b)
  BY ZenonT(60) DEF Unprotected
<1>2. CASE mem_map' = mem_map /\ FrameAt(p, a)' = FrameAt(p, a)
  <2>1. \A q \in Proc, b \in Address : FrameAt(q, b)' = FrameAt(q, b)
    BY SMTT(60), <1>1, <1>2
  <2>2. UNCHANGED <<mem_map, dir, held, kernel>>
    BY ZenonT(60), <1>2
  <2>3. mem_map' \in [Frame -> Nat]
    BY ZenonT(60), <1>2 DEF CInv, MTypeOK
  <2> QED
    BY ZenonT(60), <2>1, <2>2, <2>3, SameFrames
<1>3. CASE /\ mem_map[FrameAt(p, a)] # 1 /\ FrameAt(p, a)' \in Free
           /\ mem_map' = [mem_map EXCEPT ![FrameAt(p, a)] = @ - 1, ![FrameAt(p, a)'] = 1]
  <2> DEFINE old == FrameAt(p, a)
             new == FrameAt(p, a)'
  <2>1. old \in Frame /\ mem_map[old] >= 1 /\ mem_map \in [Frame -> Nat]
    BY ZenonT(60), PageUsed DEF CInv, MTypeOK
  <2>2. /\ new \in Frame /\ mem_map[new] = 0 /\ new # old /\ new \notin kernel
        /\ \A q \in Proc, t \in Table : dir[q][t] # new
        /\ \A q \in Proc : held[q] # new
    BY ZenonT(60), <1>3, NotFree
  <2> HIDE DEF old, new
  <2>3. mem_map' = [mem_map EXCEPT ![old] = @ - 1, ![new] = 1]
    BY ZenonT(60), <1>3 DEF old, new
  <2>4. mem_map' \in [Frame -> Nat]
    BY SMTT(60), <2>1, <2>2, <2>3
  <2>5. \A f \in Frame : mem_map'[f] = mem_map[f] + Is(new, f) - Is(old, f)
    BY SMTT(60), <2>1, <2>2, <2>3 DEF Is
  <2>6. a[1] \in Table
    BY SMTT(60) DEF Address
  <2>7. CountIsUses'
    <3>1. ASSUME NEW f \in Frame
          PROVE  mem_map'[f] = mem_map[f] + Is(FrameAt(p, a)', f) - Is(FrameAt(p, a), f)
                                  + Is(dir'[p][a[1]], f) - Is(dir[p][a[1]], f)
                                  + Is(held'[p], f) - Is(held[p], f)
      <4>1. \A x : Is(x, f) \in Nat
        BY SMTT(60) DEF Is
      <4>2. mem_map'[f] = mem_map[f] + Is(new, f) - Is(old, f) /\ mem_map[f] \in Nat
        BY ZenonT(60), <2>1, <2>5
      <4>3. dir' = dir /\ held' = held
        BY ZenonT(60)
      <4> QED
        BY SMTT(60), <4>1, <4>2, <4>3 DEF old, new
    <3>2. \A q \in Proc, t \in Table : <<q, t>> # <<p, a[1]>> => dir'[q][t] = dir[q][t]
      BY ZenonT(60)
    <3>3. \A q \in Proc : q # p => held'[q] = held[q]
      BY ZenonT(60)
    <3> QED
      BY ZenonT(60), <1>1, <2>6, <3>1, <3>2, <3>3, CountsChange
  <2>8. /\ \A q \in Proc, t \in Table : dir[q][t] # None => dir[q][t] \in Frame /\ dir[q][t] # old
        /\ \A q \in Proc : held[q] # None => held[q] \in Frame /\ held[q] # old
        /\ \A f \in kernel : f # old /\ f \in Frame
    <3>1. ASSUME NEW q \in Proc, NEW t \in Table, dir[q][t] # None PROVE dir[q][t] \in Frame /\ dir[q][t] # old
      BY SMTT(60), <3>1, TableApart DEF old
    <3>2. ASSUME NEW q \in Proc, held[q] # None PROVE held[q] \in Frame /\ held[q] # old
      BY ZenonT(60), <3>2, HeldApart DEF old
    <3>3. ASSUME NEW f \in kernel PROVE f # old /\ f \in Frame
      BY ZenonT(60), <3>3, KernelApart DEF old
    <3> QED
      BY ZenonT(60), <3>1, <3>2, <3>3
  <2>9. \A f \in Frame : f # old /\ f # new => mem_map'[f] = mem_map[f]
    BY SMTT(60), <2>1, <2>2, <2>3
  <2>10. Exclusive'
    <3>1. ASSUME NEW q \in Proc, NEW t \in Table, dir[q][t] # None PROVE mem_map'[dir[q][t]] = 1
      BY ZenonT(60), <2>2, <2>8, <2>9, <3>1 DEF CInv, Exclusive
    <3>2. ASSUME NEW q \in Proc, held[q] # None PROVE mem_map'[held[q]] = 1
      BY ZenonT(60), <2>2, <2>8, <2>9, <3>2 DEF CInv, Exclusive
    <3>3. ASSUME NEW f \in kernel PROVE mem_map'[f] = 1
      BY ZenonT(60), <2>2, <2>8, <2>9, <3>3 DEF CInv, Exclusive
    <3> QED
      BY ZenonT(60), <3>1, <3>2, <3>3 DEF Exclusive
  <2> QED
    BY ZenonT(60), <2>4, <2>7, <2>10
<1> QED
  BY ZenonT(60), <1>2, <1>3 DEF Unprotected

\* A page f is entered at a, in a table t that is there or is new.
LEMMA MapsCounts ==
    ASSUME CInv, NEW p \in Proc, NEW a \in Address, NEW t \in Frame, NEW f \in Frame, NEW n \in Nat,
           ~Present(p, a), Maps(p, a, t, f, n), t # f,
           dir[p][a[1]] = t \/ (dir[p][a[1]] = None /\ t \in Free),
           FrameAt(p, a)' = f,
           \A q \in Proc, b \in Address : <<q, b>> # <<p, a>> => FrameAt(q, b)' = FrameAt(q, b),
           kernel' = kernel, \A q \in Proc : q # p => held'[q] = held[q],
           held'[p] = held[p] \/ (held[p] = f /\ held'[p] = None),
           n = mem_map[f] + 1 + Is(held'[p], f) - Is(held[p], f),
           \A q \in Proc, u \in Table : dir[q][u] # f,
           \A q \in Proc : held'[q] # f,
           f \notin kernel
    PROVE  CountIsUses' /\ Exclusive' /\ mem_map' \in [Frame -> Nat] /\ dir' \in [Proc -> [Table -> Frame \cup {None}]]
<1> DEFINE k == a[1]
<1>1. k \in Table
  BY SMTT(60) DEF Address
<1>2. /\ mem_map \in [Frame -> Nat] /\ dir \in [Proc -> [Table -> Frame \cup {None}]]
      /\ held \in [Proc -> Frame \cup {None}] /\ kernel \subseteq Frame
  BY ZenonT(60) DEF CInv, MTypeOK
<1>3. mem_map' = [mem_map EXCEPT ![t] = 1, ![f] = n] /\ dir' = [dir EXCEPT ![p][k] = t]
  BY ZenonT(60) DEF Maps
<1>4. FrameAt(p, a) = None
  BY ZenonT(60) DEF Present, FrameAt
<1>5. None \notin Frame
  BY ZenonT(60), NoneAssumption
<1> HIDE DEF k
<1>6. /\ dir' \in [Proc -> [Table -> Frame \cup {None}]] /\ dir'[p][k] = t
      /\ \A q \in Proc, u \in Table : <<q, u>> # <<p, k>> => dir'[q][u] = dir[q][u]
  <2>1. dir' \in [Proc -> [Table -> Frame \cup {None}]] /\ dir'[p][k] = t
    BY SMTT(60), <1>1, <1>2, <1>3
  <2>2. ASSUME NEW q \in Proc, NEW u \in Table, <<q, u>> # <<p, k>> PROVE dir'[q][u] = dir[q][u]
    BY SMTT(60), <1>1, <1>2, <1>3, <2>2
  <2> QED
    BY ZenonT(60), <2>1, <2>2
<1>7. /\ mem_map' \in [Frame -> Nat] /\ mem_map'[t] = 1 /\ mem_map'[f] = n
      /\ \A g \in Frame : g # t /\ g # f => mem_map'[g] = mem_map[g]
  BY SMTT(60), <1>2, <1>3
<1>8. mem_map[t] = IF dir[p][k] = None THEN 0 ELSE 1
  <2>1. CASE dir[p][k] = None
    <3>1. t \in Free
      BY ZenonT(60), <1>5, <2>1 DEF k
    <3> QED
      BY ZenonT(60), <2>1, <3>1 DEF Free
  <2>2. CASE dir[p][k] # None
    <3>1. dir[p][k] = t
      BY ZenonT(60), <2>2 DEF k
    <3>2. mem_map[t] = 1
      BY ZenonT(60), <1>1, <2>2, <3>1, TableApart
    <3> QED
      BY ZenonT(60), <2>2, <3>2
  <2> QED
    BY ZenonT(60), <2>1, <2>2
<1>9. dir[p][k] = t \/ dir[p][k] = None
  BY ZenonT(60) DEF k
<1>10. held[p] # t /\ held'[p] # t
  <2>1. CASE dir[p][k] = None
    <3>1. t \in Free
      BY ZenonT(60), <1>5, <2>1 DEF k
    <3>2. held[p] # t
      BY ZenonT(60), <3>1, NotFree
    <3> QED
      BY SMTT(60), <3>2, <1>5
  <2>2. CASE dir[p][k] # None
    <3>1. held[p] # t
      BY SMTT(60), <1>1, <1>9, <2>2, TableApart
    <3> QED
      BY SMTT(60), <3>1, <1>5
  <2> QED
    BY ZenonT(60), <2>1, <2>2
<1>11. ASSUME NEW g \in Frame
       PROVE  mem_map'[g] = mem_map[g] + Is(FrameAt(p, a)', g) - Is(FrameAt(p, a), g)
                                + Is(dir'[p][k], g) - Is(dir[p][k], g) + Is(held'[p], g) - Is(held[p], g)
  <2>1. mem_map[g] \in Nat
    BY ZenonT(60), <1>2
  <2>2. CASE g = t
    <3>1. Is(FrameAt(p, a)', g) = 0 /\ Is(FrameAt(p, a), g) = 0 /\ Is(held'[p], g) = 0 /\ Is(held[p], g) = 0 /\ Is(dir'[p][k], g) = 1
      BY ZenonT(60), <1>4, <1>5, <1>6, <1>10, <2>2 DEF Is
    <3>2. Is(dir[p][k], g) = IF dir[p][k] = None THEN 0 ELSE 1
      BY ZenonT(60), <1>5, <1>9, <2>2 DEF Is
    <3> QED
      BY SMTT(60), <1>7, <1>8, <2>2, <3>1, <3>2
  <2>3. CASE g = f
    <3>1. Is(FrameAt(p, a)', g) = 1 /\ Is(FrameAt(p, a), g) = 0 /\ Is(dir'[p][k], g) = 0 /\ Is(dir[p][k], g) = 0
      BY ZenonT(60), <1>1, <1>4, <1>5, <1>6, <2>3 DEF Is
    <3>2. Is(held'[p], g) \in Nat /\ Is(held[p], g) \in Nat
      BY SMTT(60) DEF Is
    <3> QED
      BY SMTT(60), <1>7, <2>1, <2>3, <3>1, <3>2
  <2>4. CASE g # t /\ g # f
    <3>1. Is(FrameAt(p, a)', g) = 0 /\ Is(FrameAt(p, a), g) = 0 /\ Is(dir'[p][k], g) = 0
      BY ZenonT(60), <1>4, <1>5, <1>6, <2>4 DEF Is
    <3>2. Is(dir[p][k], g) = 0
      BY ZenonT(60), <1>5, <1>9, <2>4 DEF Is
    <3>3. Is(held'[p], g) = Is(held[p], g) /\ Is(held[p], g) \in Nat
      <4>1. Is(held'[p], g) = Is(held[p], g)
        BY ZenonT(60), <1>5, <2>4 DEF Is
      <4>2. Is(held[p], g) \in Nat
        BY SMTT(60) DEF Is
      <4> QED
        BY ZenonT(60), <4>1, <4>2
    <3> QED
      BY SMTT(60), <1>7, <2>1, <2>4, <3>1, <3>2, <3>3
  <2> QED
    BY ZenonT(60), <2>2, <2>3, <2>4
<1>12. CountIsUses'
  BY ZenonT(60), <1>1, <1>6, <1>11, CountsChange
<1>13. Exclusive'
  <2>1. ASSUME NEW q \in Proc, NEW u \in Table, dir'[q][u] # None PROVE mem_map'[dir'[q][u]] = 1
    <3>1. CASE <<q, u>> = <<p, k>>
      <4>1. q = p /\ u = k
        BY SMTT(60), <3>1
      <4> QED
        BY ZenonT(60), <1>6, <1>7, <4>1
    <3>2. CASE <<q, u>> # <<p, k>>
      <4>1. dir'[q][u] = dir[q][u]
        BY ZenonT(60), <1>6, <3>2
      <4>2. dir[q][u] \in Frame /\ mem_map[dir[q][u]] = 1 /\ dir[q][u] # f
        BY ZenonT(60), <2>1, <4>1, TableApart
      <4> QED
        BY ZenonT(60), <1>7, <4>1, <4>2
    <3> QED
      BY ZenonT(60), <3>1, <3>2
  <2>2. ASSUME NEW q \in Proc, held'[q] # None PROVE mem_map'[held'[q]] = 1
    <3>1. held'[q] = held[q] /\ held[q] # None /\ held[q] # f
      BY SMTT(60), <2>2
    <3>2. held[q] \in Frame /\ mem_map[held[q]] = 1
      BY ZenonT(60), <3>1, HeldApart
    <3> QED
      BY ZenonT(60), <1>7, <3>1, <3>2
  <2>3. ASSUME NEW g \in kernel' PROVE mem_map'[g] = 1
    <3>1. g \in kernel /\ g # f
      BY ZenonT(60)
    <3>2. g \in Frame /\ mem_map[g] = 1
      BY ZenonT(60), <3>1, KernelApart
    <3> QED
      BY ZenonT(60), <1>7, <3>1, <3>2
  <2> QED
    BY ZenonT(60), <2>1, <2>2, <2>3 DEF Exclusive
<1> QED
  BY ZenonT(60), <1>6, <1>7, <1>12, <1>13


-----------------------------------------------------------------------------
\* The tables of p in frame f.
TablesOf(p, f) == {t \in Table : dir[p][t] = f}

\* Taking a set away that is all there, and adding one that is not.
LEMMA CountLess ==
    ASSUME NEW S, NEW T, IsFiniteSet(S), T \subseteq S
    PROVE  Cardinality(S \ T) = Cardinality(S) - Cardinality(T) /\ Cardinality(T) \in Nat /\ Cardinality(T) <= Cardinality(S)
<1>1. S \cap T = T
  BY ZenonT(60)
<1>2. Cardinality(S \ T) = Cardinality(S) - Cardinality(S \cap T)
  BY ZenonT(60), FS_Difference
<1>3. IsFiniteSet(T) /\ Cardinality(T) <= Cardinality(S)
  BY ZenonT(60), FS_Subset
<1>4. Cardinality(T) \in Nat
  BY ZenonT(60), <1>3, FS_CardinalityType
<1> QED
  BY ZenonT(60), <1>1, <1>2, <1>3, <1>4

LEMMA CountMore ==
    ASSUME NEW S, NEW T, IsFiniteSet(S), IsFiniteSet(T), S \cap T = {}
    PROVE  Cardinality(S \cup T) = Cardinality(S) + Cardinality(T) /\ Cardinality(S) \in Nat /\ Cardinality(T) \in Nat
<1>1. Cardinality(S \cup T) = Cardinality(S) + Cardinality(T) - Cardinality(S \cap T)
  BY ZenonT(60), FS_Union
<1>2. Cardinality(S \cap T) = 0
  BY ZenonT(60), FS_EmptySet
<1>3. Cardinality(S) \in Nat /\ Cardinality(T) \in Nat
  BY ZenonT(60), FS_CardinalityType
<1> QED
  BY SMTT(60), <1>1, <1>2, <1>3

\* Membership in the uses, before and after a step.
LEMMA UsesAre ==
    ASSUME NEW f
    PROVE  /\ \A q \in Proc, b \in Address : <<q, b>> \in Mapped(f) <=> b \in Pages(q, f)
           /\ \A q \in Proc, b \in Address : <<q, b>> \in Mapped(f)' <=> b \in Pages(q, f)'
           /\ \A q \in Proc, t \in Table : <<q, t>> \in InTable(f) <=> dir[q][t] = f
           /\ \A q \in Proc, t \in Table : <<q, t>> \in InTable(f)' <=> dir'[q][t] = f
<1>1. ASSUME NEW q \in Proc, NEW b \in Address PROVE <<q, b>> \in Mapped(f) <=> b \in Pages(q, f)
  BY SMTT(60) DEF Mapped
<1>2. ASSUME NEW q \in Proc, NEW b \in Address PROVE <<q, b>> \in Mapped(f)' <=> b \in Pages(q, f)'
  BY SMTT(60) DEF Mapped
<1>3. ASSUME NEW q \in Proc, NEW t \in Table PROVE <<q, t>> \in InTable(f) <=> dir[q][t] = f
  BY SMTT(60) DEF InTable
<1>4. ASSUME NEW q \in Proc, NEW t \in Table PROVE <<q, t>> \in InTable(f)' <=> dir'[q][t] = f
  BY SMTT(60) DEF InTable
<1> QED
  BY ZenonT(60), <1>1, <1>2, <1>3, <1>4

\* N is M, a relation between processes and things of X, without what p has, S.
LosesRow(M, N, p, X, S) ==
    /\ M \subseteq Proc \X X /\ N \subseteq Proc \X X /\ S \subseteq X
    /\ \A b \in X : <<p, b>> \in M <=> b \in S
    /\ \A b \in X : <<p, b>> \notin N
    /\ \A q \in Proc, b \in X : q # p => (<<q, b>> \in N <=> <<q, b>> \in M)

LEMMA RowLess ==
    ASSUME NEW p \in Proc, NEW X, NEW M, NEW N, NEW S, LosesRow(M, N, p, X, S)
    PROVE  N = M \ ({p} \X S) /\ {p} \X S \subseteq M
<1> USE DEF LosesRow
<1>1. ASSUME NEW q \in Proc, NEW b \in X PROVE <<q, b>> \in {p} \X S <=> q = p /\ b \in S
  BY SMTT(60)
<1>2. ASSUME NEW q \in Proc, NEW b \in X PROVE <<q, b>> \in N <=> <<q, b>> \in M \ ({p} \X S)
  <2>1. CASE q = p
    BY ZenonT(60), <1>1, <2>1
  <2>2. CASE q # p
    BY ZenonT(60), <1>1, <2>2
  <2> QED
    BY ZenonT(60), <2>1, <2>2
<1>3. ASSUME NEW x PROVE x \in N <=> x \in M \ ({p} \X S)
  <2>1. CASE x \in Proc \X X
    <3>1. PICK q \in Proc, b \in X : x = <<q, b>>
      BY SMTT(60), <2>1
    <3> QED
      BY ZenonT(60), <1>2, <3>1
  <2>2. CASE x \notin Proc \X X
    BY ZenonT(60), <2>2
  <2> QED
    BY ZenonT(60), <2>1, <2>2
<1>4. ASSUME NEW x \in {p} \X S PROVE x \in M
  <2>1. PICK b \in S : x = <<p, b>>
    BY SMTT(60), <1>4
  <2> QED
    BY ZenonT(60), <2>1
<1> QED
  BY ZenonT(60), <1>3, <1>4

\* p gives up its pages, its tables and what it loads.
LEMMA ReleaseCounts ==
    ASSUME CInv, NEW p \in Proc, mem_map' = Released(p), dir' = [dir EXCEPT ![p] = NoTables],
           pte' = [pte EXCEPT ![p] = NoPages], held' = [held EXCEPT ![p] = None], kernel' = kernel
    PROVE  /\ CountIsUses' /\ Exclusive' /\ mem_map' \in [Frame -> Nat]
           /\ dir' \in [Proc -> [Table -> Frame \cup {None}]]
           /\ pte' \in [Proc -> [Address -> Pte \cup {None}]]
           /\ held' \in [Proc -> Frame \cup {None}]
           /\ \A q \in Proc, b \in Address : q # p => pte'[q][b] = pte[q][b]
           /\ \A b \in Address : pte'[p][b] = None
           /\ \A q \in Proc, b \in Address :
                  q # p /\ Present(q, b) => mem_map'[FrameAt(q, b)] >= 1 /\ mem_map'[FrameAt(q, b)] <= mem_map[FrameAt(q, b)]
<1>1. /\ mem_map \in [Frame -> Nat] /\ dir \in [Proc -> [Table -> Frame \cup {None}]]
      /\ pte \in [Proc -> [Address -> Pte \cup {None}]] /\ held \in [Proc -> Frame \cup {None}]
  BY ZenonT(60) DEF CInv, MTypeOK
<1>2. /\ dir' \in [Proc -> [Table -> Frame \cup {None}]]
      /\ \A t \in Table : dir'[p][t] = None
      /\ \A q \in Proc, t \in Table : q # p => dir'[q][t] = dir[q][t]
  BY SMTT(60), <1>1 DEF NoTables
<1>3. /\ pte' \in [Proc -> [Address -> Pte \cup {None}]]
      /\ \A b \in Address : pte'[p][b] = None
      /\ \A q \in Proc, b \in Address : q # p => pte'[q][b] = pte[q][b]
  BY SMTT(60), <1>1 DEF NoPages
<1>4. /\ held' \in [Proc -> Frame \cup {None}]
      /\ held'[p] = None
      /\ \A q \in Proc : q # p => held'[q] = held[q]
  BY SMTT(60), <1>1
<1>5. ASSUME NEW f \in Frame
      PROVE  /\ Cardinality(Mapped(f)') = Cardinality(Mapped(f)) - Cardinality(Pages(p, f))
             /\ Cardinality(Pages(p, f)) \in Nat /\ Cardinality(Pages(p, f)) <= Cardinality(Mapped(f))
  <2>1. \A q \in Proc, b \in Address : /\ q # p => (b \in Pages(q, f)' <=> b \in Pages(q, f))
                                       /\ b \notin Pages(p, f)'
    BY ZenonT(60), <1>3 DEF Pages, Present
  <2>2. Mapped(f) \subseteq Proc \X Address /\ Mapped(f)' \subseteq Proc \X Address /\ Pages(p, f) \subseteq Address
    BY ZenonT(60) DEF Mapped, Pages
  <2>3. /\ \A b \in Address : <<p, b>> \in Mapped(f) <=> b \in Pages(p, f)
        /\ \A b \in Address : <<p, b>> \notin Mapped(f)'
        /\ \A q \in Proc, b \in Address : q # p => (<<q, b>> \in Mapped(f)' <=> <<q, b>> \in Mapped(f))
    <3>1. \A b \in Address : <<p, b>> \in Mapped(f) <=> b \in Pages(p, f)
      BY ZenonT(60), UsesAre
    <3>2. \A b \in Address : <<p, b>> \notin Mapped(f)'
      BY ZenonT(60), UsesAre, <2>1
    <3>3. ASSUME NEW q \in Proc, NEW b \in Address, q # p PROVE <<q, b>> \in Mapped(f)' <=> <<q, b>> \in Mapped(f)
      BY ZenonT(60), UsesAre, <2>1, <3>3
    <3> QED
      BY ZenonT(60), <3>1, <3>2, <3>3
  <2>4. Mapped(f)' = Mapped(f) \ ({p} \X Pages(p, f)) /\ {p} \X Pages(p, f) \subseteq Mapped(f)
    <3>1. LosesRow(Mapped(f), Mapped(f)', p, Address, Pages(p, f))
      BY ZenonT(60), <2>2, <2>3 DEF LosesRow
    <3> QED
      BY ZenonT(60), <3>1, RowLess
  <2>5. Cardinality({p} \X Pages(p, f)) = Cardinality(Pages(p, f))
    BY ZenonT(60), FiniteUses, CountOfOne
  <2> HIDE DEF Mapped, Pages
  <2>6. /\ Cardinality(Mapped(f) \ ({p} \X Pages(p, f))) = Cardinality(Mapped(f)) - Cardinality({p} \X Pages(p, f))
        /\ Cardinality({p} \X Pages(p, f)) \in Nat /\ Cardinality({p} \X Pages(p, f)) <= Cardinality(Mapped(f))
    BY ZenonT(60), <2>4, FiniteUses, CountLess
  <2> QED
    BY ZenonT(60), <2>4, <2>5, <2>6
<1>6. ASSUME NEW f \in Frame
      PROVE  /\ Cardinality(InTable(f)') = Cardinality(InTable(f)) - Cardinality(TablesOf(p, f))
             /\ Cardinality(TablesOf(p, f)) \in Nat /\ Cardinality(TablesOf(p, f)) <= Cardinality(InTable(f))
  <2>1. InTable(f) \subseteq Proc \X Table /\ InTable(f)' \subseteq Proc \X Table /\ TablesOf(p, f) \subseteq Table
    BY ZenonT(60) DEF InTable, TablesOf
  <2>2. f # None
    BY ZenonT(60), NoneAssumption
  <2>3. /\ \A b \in Table : <<p, b>> \in InTable(f) <=> b \in TablesOf(p, f)
        /\ \A b \in Table : <<p, b>> \notin InTable(f)'
        /\ \A q \in Proc, b \in Table : q # p => (<<q, b>> \in InTable(f)' <=> <<q, b>> \in InTable(f))
    <3>1. \A b \in Table : <<p, b>> \in InTable(f) <=> b \in TablesOf(p, f)
      BY ZenonT(60), UsesAre DEF TablesOf
    <3>2. ASSUME NEW b \in Table PROVE <<p, b>> \notin InTable(f)'
      <4>1. dir'[p][b] # f
        BY ZenonT(60), <1>2, <2>2
      <4> QED
        BY ZenonT(60), <4>1, UsesAre
    <3>3. ASSUME NEW q \in Proc, NEW b \in Table, q # p PROVE <<q, b>> \in InTable(f)' <=> <<q, b>> \in InTable(f)
      <4>1. dir'[q][b] = dir[q][b]
        BY ZenonT(60), <1>2, <3>3
      <4> QED
        BY SMTT(60), UsesAre, <4>1
    <3> QED
      BY ZenonT(60), <3>1, <3>2, <3>3
  <2>4. InTable(f)' = InTable(f) \ ({p} \X TablesOf(p, f)) /\ {p} \X TablesOf(p, f) \subseteq InTable(f)
    <3>1. LosesRow(InTable(f), InTable(f)', p, Table, TablesOf(p, f))
      BY ZenonT(60), <2>1, <2>3 DEF LosesRow
    <3> QED
      BY ZenonT(60), <3>1, RowLess
  <2>5. Cardinality({p} \X TablesOf(p, f)) = Cardinality(TablesOf(p, f))
    <3>1. IsFiniteSet(TablesOf(p, f))
      BY ZenonT(60), FiniteAssumption, FS_Subset DEF TablesOf
    <3> QED
      BY ZenonT(60), <3>1, CountOfOne
  <2>6. /\ Cardinality(InTable(f) \ ({p} \X TablesOf(p, f))) = Cardinality(InTable(f)) - Cardinality({p} \X TablesOf(p, f))
        /\ Cardinality({p} \X TablesOf(p, f)) \in Nat /\ Cardinality({p} \X TablesOf(p, f)) <= Cardinality(InTable(f))
    BY ZenonT(60), <2>4, FiniteUses, CountLess
  <2> QED
    BY ZenonT(60), <2>4, <2>5, <2>6
<1>7. ASSUME NEW f \in Frame
      PROVE  /\ Cardinality(Loading(f)') = Cardinality(Loading(f)) - (IF held[p] = f THEN 1 ELSE 0)
             /\ Cardinality(Loading(f)') \in Nat
  <2>1. f # None
    BY ZenonT(60), NoneAssumption
  <2>2. Loading(f)' = Loading(f) \ {p}
    BY ZenonT(60), <1>4, <2>1 DEF Loading
  <2>3. p \in Loading(f) <=> held[p] = f
    BY ZenonT(60) DEF Loading
  <2>4. Cardinality(Loading(f) \ {p}) = IF p \in Loading(f) THEN Cardinality(Loading(f)) - 1 ELSE Cardinality(Loading(f))
    BY ZenonT(60), FiniteUses, FS_RemoveElement
  <2>5. Cardinality(Loading(f)) \in Nat /\ Cardinality(Loading(f)') \in Nat
    BY ZenonT(60), FiniteUses, FiniteUsesNext, FS_CardinalityType
  <2> QED
    BY SMTT(60), <2>2, <2>3, <2>4, <2>5
<1>8. ASSUME NEW f \in Frame
      PROVE  /\ mem_map'[f] = mem_map[f] - Cardinality(Pages(p, f)) - Cardinality(TablesOf(p, f)) - (IF held[p] = f THEN 1 ELSE 0)
             /\ mem_map'[f] = Cardinality(Mapped(f)') + Cardinality(InTable(f)') + Cardinality(Loading(f)') + Kernels(f)'
             /\ mem_map'[f] \in Nat /\ mem_map'[f] >= Cardinality(Mapped(f)') /\ mem_map'[f] <= mem_map[f]
  <2>1. mem_map'[f] = mem_map[f] - (Cardinality(Pages(p, f)) + Cardinality(TablesOf(p, f)) + (IF held[p] = f THEN 1 ELSE 0))
    BY ZenonT(60) DEF Released, Refs, TablesOf
  <2>2. /\ mem_map[f] = Cardinality(Mapped(f)) + Cardinality(InTable(f)) + Cardinality(Loading(f)) + Kernels(f)
        /\ Cardinality(Mapped(f)) \in Nat /\ Cardinality(InTable(f)) \in Nat
        /\ Cardinality(Loading(f)) \in Nat /\ Kernels(f) \in Nat /\ mem_map[f] \in Nat
    BY ZenonT(60), Counted DEF CInv
  <2>3. Kernels(f)' = Kernels(f)
    BY ZenonT(60) DEF Kernels
  <2> QED
    BY SMTT(60), <1>5, <1>6, <1>7, <2>1, <2>2, <2>3
<1>9. CountIsUses'
  BY ZenonT(60), <1>8, CountsNext
<1>10. mem_map' \in [Frame -> Nat]
  <2>1. mem_map' = [f \in Frame |-> mem_map[f] - Refs(p, f)]
    BY ZenonT(60) DEF Released
  <2> QED
    BY ZenonT(60), <1>8, <2>1
<1>11. ASSUME NEW f \in Frame, mem_map[f] = 1, Pages(p, f) = {}, TablesOf(p, f) = {}, held[p] # f
       PROVE  mem_map'[f] = 1
  <2>1. Cardinality(Pages(p, f)) = 0 /\ Cardinality(TablesOf(p, f)) = 0
    BY ZenonT(60), <1>11, FS_EmptySet
  <2> QED
    <3>1. mem_map'[f] = mem_map[f] - Cardinality(Pages(p, f)) - Cardinality(TablesOf(p, f)) - (IF held[p] = f THEN 1 ELSE 0)
      BY ZenonT(60), <1>8
    <3> QED
      BY SMTT(60), <1>11, <2>1, <3>1
<1>12. ASSUME NEW f \in Frame, \A b \in Address : FrameAt(p, b) # f PROVE Pages(p, f) = {}
  BY ZenonT(60), <1>12 DEF Pages, Present, FrameAt
<1>13. Exclusive'
  <2>1. ASSUME NEW q \in Proc, NEW t \in Table, dir'[q][t] # None PROVE mem_map'[dir'[q][t]] = 1
    <3>1. q # p /\ dir'[q][t] = dir[q][t] /\ dir[q][t] # None
      BY ZenonT(60), <1>2, <2>1
    <3>5. /\ dir[q][t] \in Frame /\ mem_map[dir[q][t]] = 1 /\ dir[q][t] \notin kernel
          /\ \A r \in Proc, b \in Address : FrameAt(r, b) # dir[q][t]
          /\ \A r \in Proc : held[r] # dir[q][t]
          /\ \A r \in Proc, u \in Table : dir[r][u] = dir[q][t] => r = q /\ u = t
      BY ZenonT(60), <3>1, TableApart
    <3>2. /\ dir[q][t] \in Frame /\ mem_map[dir[q][t]] = 1 /\ held[p] # dir[q][t]
          /\ \A b \in Address : FrameAt(p, b) # dir[q][t]
          /\ \A u \in Table : dir[p][u] # dir[q][t]
      BY SMTT(60), <3>1, <3>5
    <3>3. TablesOf(p, dir[q][t]) = {}
      BY ZenonT(60), <3>2 DEF TablesOf
    <3> QED
      BY ZenonT(60), <1>11, <1>12, <3>1, <3>2, <3>3
  <2>2. ASSUME NEW q \in Proc, held'[q] # None PROVE mem_map'[held'[q]] = 1
    <3>1. q # p /\ held'[q] = held[q] /\ held[q] # None
      BY ZenonT(60), <1>4, <2>2
    <3>2. /\ held[q] \in Frame /\ mem_map[held[q]] = 1 /\ held[p] # held[q]
          /\ \A b \in Address : FrameAt(p, b) # held[q]
          /\ \A u \in Table : dir[p][u] # held[q]
      BY ZenonT(60), <3>1, HeldApart
    <3>3. TablesOf(p, held[q]) = {}
      BY ZenonT(60), <3>2 DEF TablesOf
    <3> QED
      BY ZenonT(60), <1>11, <1>12, <3>1, <3>2, <3>3
  <2>3. ASSUME NEW f \in kernel' PROVE mem_map'[f] = 1
    <3>1. f \in kernel
      BY ZenonT(60), <2>3
    <3>2. /\ f \in Frame /\ mem_map[f] = 1 /\ held[p] # f
          /\ \A b \in Address : FrameAt(p, b) # f
          /\ \A u \in Table : dir[p][u] # f
      BY ZenonT(60), <3>1, KernelApart
    <3>3. TablesOf(p, f) = {}
      BY ZenonT(60), <3>2 DEF TablesOf
    <3> QED
      BY ZenonT(60), <1>11, <1>12, <3>2, <3>3
  <2> QED
    BY ZenonT(60), <2>1, <2>2, <2>3 DEF Exclusive
<1>14. ASSUME NEW q \in Proc, NEW b \in Address, q # p, Present(q, b)
       PROVE  mem_map'[FrameAt(q, b)] >= 1 /\ mem_map'[FrameAt(q, b)] <= mem_map[FrameAt(q, b)]
  <2>1. PICK f \in Frame : f = FrameAt(q, b)
    BY ZenonT(60), <1>14, PageUsed
  <2>2. b \in Pages(q, f)'
    <3>1. pte'[q][b] = pte[q][b] /\ pte[q][b] # None /\ pte[q][b].frame = f
      BY ZenonT(60), <1>3, <1>14, <2>1 DEF FrameAt, Present
    <3> QED
      BY ZenonT(60), <3>1 DEF Pages, Present
  <2>3. <<q, b>> \in Mapped(f)'
    BY ZenonT(60), <2>2, UsesAre
  <2>4. Cardinality(Mapped(f)') >= 1
    BY ZenonT(60), <2>3, FiniteUsesNext, CountsOne
  <2>5. Cardinality(Mapped(f)') \in Nat
    BY ZenonT(60), FiniteUsesNext, FS_CardinalityType
  <2>6. mem_map'[f] \in Nat /\ mem_map'[f] >= Cardinality(Mapped(f)') /\ mem_map'[f] <= mem_map[f]
    BY ZenonT(60), <1>8, <2>1
  <2>7. mem_map'[f] >= 1 /\ mem_map'[f] <= mem_map[f]
    BY SMTT(60), <2>4, <2>5, <2>6
  <2> QED
    BY ZenonT(60), <2>1, <2>7
<1> QED
  BY ZenonT(60), <1>2, <1>3, <1>4, <1>9, <1>10, <1>13, <1>14

-----------------------------------------------------------------------------
\* A frame that is nobody's before the step has no uses at all.
LEMMA NoUses ==
    ASSUME CInv, NEW f \in Frame, mem_map[f] = 0
    PROVE  Cardinality(Mapped(f)) = 0 /\ Cardinality(InTable(f)) = 0 /\ Cardinality(Loading(f)) = 0 /\ Kernels(f) = 0
<1>1. /\ mem_map[f] = Cardinality(Mapped(f)) + Cardinality(InTable(f)) + Cardinality(Loading(f)) + Kernels(f)
      /\ Cardinality(Mapped(f)) \in Nat /\ Cardinality(InTable(f)) \in Nat
      /\ Cardinality(Loading(f)) \in Nat /\ Kernels(f) \in Nat /\ mem_map[f] \in Nat
  BY ZenonT(60), Counted DEF CInv
<1> QED
  BY SMTT(60), <1>1

\* The entries of two processes after fork.
Copies(p, q) ==
    /\ pte' \in [Proc -> [Address -> Pte \cup {None}]]
    /\ \A r \in Proc, b \in Address : r \notin {p, q} => pte'[r][b] = pte[r][b]
    /\ \A b \in Address : pte[p][b] = None => pte'[p][b] = None /\ pte'[q][b] = None
    /\ \A b \in Address : pte[p][b] # None =>
           /\ pte'[p][b] # None /\ pte'[p][b].frame = pte[p][b].frame /\ ~pte'[p][b].w
           /\ pte'[q][b] = pte'[p][b]

LEMMA TwoSet ==
    ASSUME NEW p \in Proc, NEW q \in Proc, p # q, NEW P, NEW Q, pte' = [pte EXCEPT ![p] = P, ![q] = Q],
           NEW R, pte \in [Proc -> R], P \in R, Q \in R
    PROVE  pte' \in [Proc -> R] /\ pte'[p] = P /\ pte'[q] = Q /\ \A r \in Proc : r \notin {p, q} => pte'[r] = pte[r]
BY SMTT(60)

LEMMA ForkCopies ==
    ASSUME MTypeOK, NEW p \in Proc, NEW q \in Proc, p # q,
           pte' = [pte EXCEPT ![p] = Protected(p, Table),
                              ![q] = [a \in Address |-> IF Present(p, a)
                                         THEN [pte[p][a] EXCEPT !.w = FALSE] ELSE None]]
    PROVE  Copies(p, q)
<1> DEFINE P == Protected(p, Table)
           Q == [a \in Address |-> IF Present(p, a) THEN [pte[p][a] EXCEPT !.w = FALSE] ELSE None]
<1>1. pte \in [Proc -> [Address -> Pte \cup {None}]]
  BY ZenonT(60) DEF MTypeOK
<1>2. ASSUME NEW b \in Address, pte[p][b] # None
      PROVE  /\ P[b] = [pte[p][b] EXCEPT !.w = FALSE] /\ Q[b] = [pte[p][b] EXCEPT !.w = FALSE]
             /\ P[b] \in Pte /\ P[b] # None /\ P[b].frame = pte[p][b].frame /\ ~P[b].w
  <2>1. b[1] \in Table
    BY SMTT(60) DEF Address
  <2>2. P[b] = [pte[p][b] EXCEPT !.w = FALSE] /\ Q[b] = [pte[p][b] EXCEPT !.w = FALSE]
    BY ZenonT(60), <1>2, <2>1 DEF Protected, Present
  <2>3. pte[p][b] \in Pte
    BY SMTT(60), <1>1, <1>2
  <2>4. /\ [pte[p][b] EXCEPT !.w = FALSE] \in Pte /\ [pte[p][b] EXCEPT !.w = FALSE].w = FALSE
        /\ [pte[p][b] EXCEPT !.w = FALSE].frame = pte[p][b].frame
    BY ZenonT(60), <2>3, WithBit
  <2> HIDE DEF P, Q
  <2> QED
    BY ZenonT(60), <2>2, <2>4, NoneAssumption
<1>3. ASSUME NEW b \in Address, pte[p][b] = None PROVE P[b] = None /\ Q[b] = None
  BY ZenonT(60), <1>3 DEF Protected, Present
<1>4. ASSUME NEW b \in Address PROVE P[b] \in Pte \cup {None} /\ Q[b] \in Pte \cup {None}
  <2> HIDE DEF P, Q
  <2> QED
    BY ZenonT(60), <1>2, <1>3
<1>5. P \in [Address -> Pte \cup {None}] /\ Q \in [Address -> Pte \cup {None}]
  <2>1. P = [a \in Address |-> P[a]] /\ Q = [a \in Address |-> Q[a]]
    BY ZenonT(60) DEF Protected
  <2> HIDE DEF P, Q
  <2> QED
    BY SMTT(60), <1>4, <2>1
<1>6. pte' = [pte EXCEPT ![p] = P, ![q] = Q]
  BY ZenonT(60)
<1> HIDE DEF P, Q
<1>7. /\ pte' \in [Proc -> [Address -> Pte \cup {None}]] /\ pte'[p] = P /\ pte'[q] = Q
      /\ \A r \in Proc : r \notin {p, q} => pte'[r] = pte[r]
  <2> DEFINE R == [Address -> Pte \cup {None}]
  <2>1. pte \in [Proc -> R] /\ P \in R /\ Q \in R
    BY ZenonT(60), <1>1, <1>5
  <2>2. pte' \in [Proc -> R] /\ pte'[p] = P /\ pte'[q] = Q /\ \A r \in Proc : r \notin {p, q} => pte'[r] = pte[r]
    <3> HIDE DEF R
    <3> QED
      BY ZenonT(60), <1>6, <2>1, TwoSet
  <2> QED
    BY ZenonT(60), <2>2
<1>8. ASSUME NEW b \in Address, pte[p][b] # None
      PROVE  /\ pte'[p][b] # None /\ pte'[p][b].frame = pte[p][b].frame /\ ~pte'[p][b].w
             /\ pte'[q][b] = pte'[p][b]
  BY ZenonT(60), <1>2, <1>7, <1>8
<1>9. \A b \in Address : pte[p][b] = None => pte'[p][b] = None /\ pte'[q][b] = None
  BY ZenonT(60), <1>3, <1>7
<1>10. \A r \in Proc, b \in Address : r \notin {p, q} => pte'[r][b] = pte[r][b]
  BY ZenonT(60), <1>7
<1> QED
  BY ZenonT(60), <1>7, <1>8, <1>9, <1>10 DEF Copies

\* The new tables of a fork.
NewTables(p, q, new) ==
    /\ new \in [Tables(p) -> Free]
    /\ \A t, u \in Tables(p) : new[t] = new[u] => t = u
    /\ dir' = [dir EXCEPT ![q] = [t \in Table |-> IF t \in Tables(p) THEN new[t] ELSE None]]
    /\ mem_map' = [f \in Frame |->
                      IF \E t \in Tables(p) : new[t] = f THEN 1
                      ELSE mem_map[f] + Cardinality(Pages(p, f))]

LEMMA ForkCounts ==
    ASSUME CInv, NEW p \in Proc, NEW q \in Proc, p # q, Copies(p, q), dir[q] = NoTables, pte[q] = NoPages,
           NEW new, NewTables(p, q, new), UNCHANGED <<held, kernel>>
    PROVE  /\ CountIsUses' /\ Exclusive' /\ mem_map' \in [Frame -> Nat]
           /\ dir' \in [Proc -> [Table -> Frame \cup {None}]]
           /\ \A r \in Proc, b \in Address :
                  Present(r, b) /\ Pages(p, FrameAt(r, b)) = {} => mem_map'[FrameAt(r, b)] = mem_map[FrameAt(r, b)]
<1>1. /\ mem_map \in [Frame -> Nat] /\ dir \in [Proc -> [Table -> Frame \cup {None}]]
      /\ pte \in [Proc -> [Address -> Pte \cup {None}]] /\ held \in [Proc -> Frame \cup {None}]
  BY ZenonT(60) DEF CInv, MTypeOK
<1>2. /\ new \in [Tables(p) -> Free]
      /\ \A t, u \in Tables(p) : new[t] = new[u] => t = u
      /\ \A f \in Frame : mem_map'[f] = IF \E t \in Tables(p) : new[t] = f THEN 1 ELSE mem_map[f] + Cardinality(Pages(p, f))
  BY ZenonT(60) DEF NewTables
<1>3. Tables(p) \subseteq Table /\ Free \subseteq Frame
  BY ZenonT(60) DEF Tables, Free
<1>4. /\ dir' \in [Proc -> [Table -> Frame \cup {None}]]
      /\ \A t \in Table : dir'[q][t] = IF t \in Tables(p) THEN new[t] ELSE None
      /\ \A r \in Proc, t \in Table : r # q => dir'[r][t] = dir[r][t]
  <2> DEFINE D == [t \in Table |-> IF t \in Tables(p) THEN new[t] ELSE None]
  <2>1. D \in [Table -> Frame \cup {None}] /\ \A t \in Table : D[t] = IF t \in Tables(p) THEN new[t] ELSE None
    BY SMTT(60), <1>2, <1>3
  <2>2. dir' = [dir EXCEPT ![q] = D]
    BY ZenonT(60) DEF NewTables
  <2> HIDE DEF D
  <2>3. dir' \in [Proc -> [Table -> Frame \cup {None}]] /\ dir'[q] = D /\ \A r \in Proc : r # q => dir'[r] = dir[r]
    BY SMTT(60), <1>1, <2>1, <2>2
  <2> QED
    BY ZenonT(60), <2>1, <2>3
<1>5. \A f \in Frame : Cardinality(Pages(p, f)) \in Nat
  BY ZenonT(60), FiniteUses, FS_CardinalityType
<1>6. mem_map' \in [Frame -> Nat]
  <2>1. mem_map' = [f \in Frame |-> IF \E t \in Tables(p) : new[t] = f THEN 1 ELSE mem_map[f] + Cardinality(Pages(p, f))]
    BY ZenonT(60) DEF NewTables
  <2>2. ASSUME NEW f \in Frame
        PROVE  (IF \E t \in Tables(p) : new[t] = f THEN 1 ELSE mem_map[f] + Cardinality(Pages(p, f))) \in Nat
    <3>1. mem_map[f] + Cardinality(Pages(p, f)) \in Nat
      BY SMTT(60), <1>1, <1>5
    <3> QED
      BY SMTT(60), <3>1
  <2> QED
    BY ZenonT(60), <2>1, <2>2
<1>7. ASSUME NEW f \in Frame
      PROVE  Cardinality(Mapped(f)') = Cardinality(Mapped(f)) + Cardinality(Pages(p, f)) /\ Cardinality(Mapped(f)) \in Nat
  <2>1. ASSUME NEW b \in Address PROVE b \in Pages(q, f)' <=> b \in Pages(p, f)
    <3>1. b \in Pages(q, f)' <=> pte'[q][b] # None /\ pte'[q][b].frame = f
      BY ZenonT(60) DEF Pages, Present
    <3>2. b \in Pages(p, f) <=> pte[p][b] # None /\ pte[p][b].frame = f
      BY ZenonT(60) DEF Pages, Present
    <3> QED
      BY ZenonT(60), <3>1, <3>2 DEF Copies
  <2>2. ASSUME NEW b \in Address PROVE b \notin Pages(q, f)
    BY ZenonT(60) DEF Pages, Present, NoPages
  <2>3. ASSUME NEW r \in Proc, NEW b \in Address, r # q PROVE b \in Pages(r, f)' <=> b \in Pages(r, f)
    <3>1. b \in Pages(r, f)' <=> pte'[r][b] # None /\ pte'[r][b].frame = f
      BY ZenonT(60) DEF Pages, Present
    <3>2. b \in Pages(r, f) <=> pte[r][b] # None /\ pte[r][b].frame = f
      BY ZenonT(60) DEF Pages, Present
    <3>3. CASE r = p
      BY ZenonT(60), <3>1, <3>2, <3>3 DEF Copies
    <3>4. CASE r # p
      BY ZenonT(60), <2>3, <3>1, <3>2, <3>4 DEF Copies
    <3> QED
      BY ZenonT(60), <3>3, <3>4
  <2>4. LosesRow(Mapped(f)', Mapped(f), q, Address, Pages(p, f))
    <3>1. Mapped(f) \subseteq Proc \X Address /\ Mapped(f)' \subseteq Proc \X Address /\ Pages(p, f) \subseteq Address
      BY ZenonT(60) DEF Mapped, Pages
    <3>2. \A b \in Address : <<q, b>> \in Mapped(f)' <=> b \in Pages(p, f)
      BY ZenonT(60), UsesAre, <2>1
    <3>3. \A b \in Address : <<q, b>> \notin Mapped(f)
      BY ZenonT(60), UsesAre, <2>2
    <3>4. \A r \in Proc, b \in Address : r # q => (<<r, b>> \in Mapped(f) <=> <<r, b>> \in Mapped(f)')
      BY ZenonT(60), UsesAre, <2>3
    <3> QED
      BY ZenonT(60), <3>1, <3>2, <3>3, <3>4 DEF LosesRow
  <2>5. Mapped(f) = Mapped(f)' \ ({q} \X Pages(p, f)) /\ {q} \X Pages(p, f) \subseteq Mapped(f)'
    BY ZenonT(60), <2>4, RowLess
  <2>6. Cardinality(Mapped(f)' \ ({q} \X Pages(p, f))) = Cardinality(Mapped(f)') - Cardinality({q} \X Pages(p, f))
    BY ZenonT(60), <2>5, FiniteUsesNext, CountLess
  <2>7. Cardinality({q} \X Pages(p, f)) = Cardinality(Pages(p, f))
    BY ZenonT(60), FiniteUses, CountOfOne
  <2>8. Cardinality(Mapped(f)) = Cardinality(Mapped(f)') - Cardinality(Pages(p, f))
    BY ZenonT(60), <2>5, <2>6, <2>7
  <2>9. Cardinality(Mapped(f)) \in Nat /\ Cardinality(Mapped(f)') \in Nat
    BY ZenonT(60), FiniteUses, FiniteUsesNext, FS_CardinalityType
  <2> QED
    BY SMTT(60), <1>5, <2>8, <2>9
<1>8. ASSUME NEW f \in Frame
      PROVE  /\ Cardinality(InTable(f)') = Cardinality(InTable(f)) + (IF \E t \in Tables(p) : new[t] = f THEN 1 ELSE 0)
             /\ Cardinality(InTable(f)) \in Nat
  <2> DEFINE S == {t \in Tables(p) : new[t] = f}
  <2>1. f # None
    BY ZenonT(60), NoneAssumption
  <2>2. LosesRow(InTable(f)', InTable(f), q, Table, S)
    <3>1. InTable(f) \subseteq Proc \X Table /\ InTable(f)' \subseteq Proc \X Table /\ S \subseteq Table
      BY ZenonT(60), <1>3 DEF InTable
    <3>2. ASSUME NEW t \in Table PROVE <<q, t>> \in InTable(f)' <=> t \in S
      <4>1. <<q, t>> \in InTable(f)' <=> dir'[q][t] = f
        BY ZenonT(60), UsesAre
      <4>2. dir'[q][t] = f <=> t \in S
        BY SMTT(60), <1>4, <2>1
      <4> QED
        BY ZenonT(60), <4>1, <4>2
    <3>3. ASSUME NEW t \in Table PROVE <<q, t>> \notin InTable(f)
      <4>1. dir[q][t] = None
        BY ZenonT(60) DEF NoTables
      <4>2. <<q, t>> \in InTable(f) <=> dir[q][t] = f
        BY ZenonT(60), UsesAre
      <4> QED
        BY ZenonT(60), <4>1, <4>2, <2>1
    <3>4. ASSUME NEW r \in Proc, NEW t \in Table, r # q PROVE <<r, t>> \in InTable(f) <=> <<r, t>> \in InTable(f)'
      <4>1. dir'[r][t] = dir[r][t]
        BY ZenonT(60), <1>4, <3>4
      <4> QED
        BY SMTT(60), UsesAre, <4>1
    <3> HIDE DEF S
    <3> QED
      BY ZenonT(60), <3>1, <3>2, <3>3, <3>4 DEF LosesRow
  <2>3. S \subseteq Table
    BY ZenonT(60), <1>3
  <2>4. IsFiniteSet(S)
    BY ZenonT(60), <2>3, FiniteAssumption, FS_Subset
  <2>5. Cardinality(S) = IF \E t \in Tables(p) : new[t] = f THEN 1 ELSE 0
    <3>1. CASE \E t \in Tables(p) : new[t] = f
      <4>1. PICK t \in Tables(p) : new[t] = f
        BY ZenonT(60), <3>1
      <4>2. S = {t}
        BY ZenonT(60), <1>2, <4>1
      <4>3. Cardinality({t}) = 1
        BY ZenonT(60), FS_Singleton
      <4> QED
        BY ZenonT(60), <3>1, <4>2, <4>3
    <3>2. CASE ~\E t \in Tables(p) : new[t] = f
      <4>1. S = {}
        BY ZenonT(60), <3>2
      <4> QED
        BY ZenonT(60), <3>2, <4>1, FS_EmptySet
    <3> QED
      BY ZenonT(60), <3>1, <3>2
  <2> HIDE DEF S
  <2>6. InTable(f) = InTable(f)' \ ({q} \X S) /\ {q} \X S \subseteq InTable(f)'
    BY ZenonT(60), <2>2, RowLess
  <2>7. Cardinality(InTable(f)' \ ({q} \X S)) = Cardinality(InTable(f)') - Cardinality({q} \X S)
    BY ZenonT(60), <2>6, FiniteUsesNext, CountLess
  <2>8. Cardinality({q} \X S) = Cardinality(S)
    BY ZenonT(60), <2>4, CountOfOne
  <2>9. Cardinality(InTable(f)) = Cardinality(InTable(f)') - Cardinality(S)
    BY ZenonT(60), <2>6, <2>7, <2>8
  <2>10. Cardinality(InTable(f)) \in Nat /\ Cardinality(InTable(f)') \in Nat
    BY ZenonT(60), FiniteUses, FiniteUsesNext, FS_CardinalityType
  <2> QED
    BY SMTT(60), <2>5, <2>9, <2>10
<1>9. ASSUME NEW f \in Frame
      PROVE  mem_map'[f] = Cardinality(Mapped(f)') + Cardinality(InTable(f)') + Cardinality(Loading(f)') + Kernels(f)'
  <2>1. Loading(f)' = Loading(f) /\ Kernels(f)' = Kernels(f)
    BY ZenonT(60) DEF Loading, Kernels
  <2>2. /\ mem_map[f] = Cardinality(Mapped(f)) + Cardinality(InTable(f)) + Cardinality(Loading(f)) + Kernels(f)
        /\ Cardinality(Mapped(f)) \in Nat /\ Cardinality(InTable(f)) \in Nat
        /\ Cardinality(Loading(f)) \in Nat /\ Kernels(f) \in Nat /\ mem_map[f] \in Nat
    BY ZenonT(60), Counted DEF CInv
  <2>3. CASE \E t \in Tables(p) : new[t] = f
    <3>1. f \in Free
      <4>1. PICK t \in Tables(p) : new[t] = f
        BY ZenonT(60), <2>3
      <4>2. new[t] \in Free
        BY ZenonT(60), <1>2
      <4> QED
        BY ZenonT(60), <4>1, <4>2
    <3>2. mem_map[f] = 0 /\ \A b \in Address : FrameAt(p, b) # f
      BY ZenonT(60), <3>1, NotFree
    <3>3. Pages(p, f) = {}
      BY ZenonT(60), <3>2 DEF Pages, Present, FrameAt
    <3>4. Cardinality(Pages(p, f)) = 0
      BY ZenonT(60), <3>3, FS_EmptySet
    <3>5. mem_map'[f] = 1
      BY ZenonT(60), <1>2, <2>3
    <3>6. Cardinality(InTable(f)') = Cardinality(InTable(f)) + 1
      BY ZenonT(60), <1>8, <2>3
    <3> QED
      BY SMTT(60), <1>7, <2>1, <2>2, <3>2, <3>4, <3>5, <3>6
  <2>4. CASE ~\E t \in Tables(p) : new[t] = f
    <3>1. mem_map'[f] = mem_map[f] + Cardinality(Pages(p, f))
      BY ZenonT(60), <1>2, <2>4
    <3>2. Cardinality(InTable(f)') = Cardinality(InTable(f)) + 0
      BY ZenonT(60), <1>8, <2>4
    <3> QED
      BY SMTT(60), <1>5, <1>7, <2>1, <2>2, <3>1, <3>2
  <2> QED
    BY ZenonT(60), <2>3, <2>4
<1>10. CountIsUses'
  BY ZenonT(60), <1>9, CountsNext
<1>11. ASSUME NEW f \in Frame, Pages(p, f) = {}, mem_map[f] # 0 PROVE mem_map'[f] = mem_map[f]
  <2>1. ~\E t \in Tables(p) : new[t] = f
    <3>1. \A t \in Tables(p) : new[t] \in Free
      BY ZenonT(60), <1>2
    <3>2. f \notin Free
      BY ZenonT(60), <1>11 DEF Free
    <3> QED
      BY ZenonT(60), <3>1, <3>2
  <2>2. mem_map'[f] = mem_map[f] + Cardinality(Pages(p, f))
    BY ZenonT(60), <1>2, <2>1
  <2>3. Cardinality(Pages(p, f)) = 0
    BY ZenonT(60), <1>11, FS_EmptySet
  <2> QED
    BY SMTT(60), <1>1, <2>2, <2>3
<1>12. ASSUME NEW f \in Frame, \A b \in Address : FrameAt(p, b) # f PROVE Pages(p, f) = {}
  BY ZenonT(60), <1>12 DEF Pages, Present, FrameAt
<1>13. Exclusive'
  <2>1. ASSUME NEW r \in Proc, NEW t \in Table, dir'[r][t] # None PROVE mem_map'[dir'[r][t]] = 1
    <3>1. CASE r = q
      <4>1. t \in Tables(p) /\ dir'[r][t] = new[t]
        BY SMTT(60), <1>4, <2>1, <3>1
      <4>2. new[t] \in Frame
        BY ZenonT(60), <1>2, <1>3, <4>1
      <4> QED
        BY ZenonT(60), <1>2, <4>1, <4>2
    <3>2. CASE r # q
      <4>1. dir'[r][t] = dir[r][t] /\ dir[r][t] # None
        BY ZenonT(60), <1>4, <2>1, <3>2
      <4>2. /\ dir[r][t] \in Frame /\ mem_map[dir[r][t]] = 1
            /\ \A s \in Proc, b \in Address : FrameAt(s, b) # dir[r][t]
        BY ZenonT(60), <4>1, TableApart
      <4>3. mem_map[dir[r][t]] # 0
        BY SMTT(60), <4>2
      <4> QED
        BY ZenonT(60), <1>11, <1>12, <4>1, <4>2, <4>3
    <3> QED
      BY ZenonT(60), <3>1, <3>2
  <2>2. ASSUME NEW r \in Proc, held'[r] # None PROVE mem_map'[held'[r]] = 1
    <3>1. held'[r] = held[r] /\ held[r] # None
      BY ZenonT(60), <2>2
    <3>2. /\ held[r] \in Frame /\ mem_map[held[r]] = 1
          /\ \A s \in Proc, b \in Address : FrameAt(s, b) # held[r]
      BY ZenonT(60), <3>1, HeldApart
    <3>3. mem_map[held[r]] # 0
      BY SMTT(60), <3>2
    <3> QED
      BY ZenonT(60), <1>11, <1>12, <3>1, <3>2, <3>3
  <2>3. ASSUME NEW f \in kernel' PROVE mem_map'[f] = 1
    <3>1. f \in kernel
      BY ZenonT(60), <2>3
    <3>2. f \in Frame /\ mem_map[f] = 1 /\ \A s \in Proc, b \in Address : FrameAt(s, b) # f
      BY ZenonT(60), <3>1, KernelApart
    <3>3. mem_map[f] # 0
      BY SMTT(60), <3>2
    <3> QED
      BY ZenonT(60), <1>11, <1>12, <3>2, <3>3
  <2> QED
    BY ZenonT(60), <2>1, <2>2, <2>3 DEF Exclusive
<1>14. ASSUME NEW r \in Proc, NEW b \in Address, Present(r, b), Pages(p, FrameAt(r, b)) = {}
       PROVE  mem_map'[FrameAt(r, b)] = mem_map[FrameAt(r, b)]
  <2>1. FrameAt(r, b) \in Frame /\ mem_map[FrameAt(r, b)] \in Nat /\ mem_map[FrameAt(r, b)] >= 1
    BY ZenonT(60), <1>14, PageUsed
  <2>2. mem_map[FrameAt(r, b)] # 0
    BY SMTT(60), <2>1
  <2> QED
    BY ZenonT(60), <1>11, <1>14, <2>1, <2>2
<1> QED
  BY ZenonT(60), <1>4, <1>6, <1>10, <1>13, <1>14

-----------------------------------------------------------------------------
\* The types that the counting does not need.
RestOK ==
    /\ DOMAIN memory = Frame
    /\ executable \in [Proc -> Executable \cup {None}]
    /\ state \in [Proc -> {"free", "run", "load", "exec"}]
    /\ at \in [Proc -> Address \cup {None}]
    /\ buffer \in [Proc -> Address \cup {None}]
    /\ DOMAIN view = Proc /\ \A p \in Proc : DOMAIN view[p] = Address

LEMMA RestType == MTypeOK => RestOK
BY ZenonT(60) DEF MTypeOK, RestOK

LEMMA TypeOfRest ==
    ASSUME RestOK', mem_map' \in [Frame -> Nat], dir' \in [Proc -> [Table -> Frame \cup {None}]],
           pte' \in [Proc -> [Address -> Pte \cup {None}]], held' \in [Proc -> Frame \cup {None}], kernel' \subseteq Frame
    PROVE  MTypeOK'
BY ZenonT(60) DEF MTypeOK, RestOK

\* How the phase of a process is kept.
LEMMA PhaseKept ==
    ASSUME NEW q \in Proc, Phase(q), held'[q] = held[q], state'[q] = state[q], at'[q] = at[q],
           state[q] = "free" => dir'[q] = dir[q] /\ pte'[q] = pte[q],
           \A b \in Address : pte[q][b] = None => pte'[q][b] = None
    PROVE  Phase(q)'
<1>1. held'[q] # None <=> state'[q] = "load"
  BY ZenonT(60) DEF Phase
<1>2. state'[q] = "load" => at'[q] \in Address /\ ~Present(q, at[q])'
  BY ZenonT(60) DEF Phase, Present
<1>3. state'[q] = "free" => dir'[q] = NoTables /\ pte'[q] = NoPages
  BY ZenonT(60) DEF Phase
<1> QED
  BY ZenonT(60), <1>1, <1>2, <1>3 DEF Phase, Present, NoTables, NoPages

LEMMA PhaseRuns ==
    ASSUME NEW q \in Proc, state'[q] \in {"run", "exec"}, held'[q] = None
    PROVE  Phase(q)'
BY SMTT(60) DEF Phase

LEMMA RunHolds == ASSUME CInv, NEW p \in Proc, state[p] = "run" \/ state[p] = "exec" PROVE held[p] = None
BY SMTT(60) DEF CInv, Phases, Phase

\* do_exit.
LEMMA ExitsSafe == ASSUME CInv, NEW p \in Proc, Exits(p) PROVE CInv'
<1>1. /\ mem_map' = Released(p) /\ dir' = [dir EXCEPT ![p] = NoTables]
      /\ pte' = [pte EXCEPT ![p] = NoPages] /\ held' = [held EXCEPT ![p] = None] /\ kernel' = kernel
  BY ZenonT(60) DEF Exits
<1>2. /\ CountIsUses' /\ Exclusive' /\ mem_map' \in [Frame -> Nat]
      /\ dir' \in [Proc -> [Table -> Frame \cup {None}]]
      /\ pte' \in [Proc -> [Address -> Pte \cup {None}]]
      /\ held' \in [Proc -> Frame \cup {None}]
  BY ZenonT(60), <1>1, ReleaseCounts
<1>3. RestOK
  BY ZenonT(60), RestType DEF CInv
<1>4. RestOK'
  <2>1. DOMAIN memory' = Frame
    BY ZenonT(60) DEF Exits, Cleared
  <2>2. /\ executable' \in [Proc -> Executable \cup {None}]
        /\ state' \in [Proc -> {"free", "run", "load", "exec"}]
        /\ at' \in [Proc -> Address \cup {None}]
        /\ buffer' \in [Proc -> Address \cup {None}]
    BY SMTT(60), <1>3 DEF RestOK, Exits
  <2>3. DOMAIN view' = Proc /\ \A q \in Proc : DOMAIN view'[q] = Address
    BY SMTT(60), <1>3 DEF RestOK, Exits, Blank
  <2> QED
    BY ZenonT(60), <2>1, <2>2, <2>3 DEF RestOK
<1>5. MTypeOK'
  <2>1. kernel' \subseteq Frame
    BY ZenonT(60), <1>1 DEF CInv, MTypeOK
  <2> QED
    BY ZenonT(60), <1>2, <1>4, <2>1, TypeOfRest
<1>6. ASSUME NEW q \in Proc PROVE Phase(q)'
  <2>1. CASE q = p
    <3>1. state'[p] = "free" /\ held'[p] = None /\ dir'[p] = NoTables /\ pte'[p] = NoPages
      BY SMTT(60), <1>3 DEF Exits, CInv, MTypeOK, RestOK
    <3> QED
      BY SMTT(60), <2>1, <3>1 DEF Phase, NoTables, NoPages
  <2>2. CASE q # p
    <3>1. /\ held'[q] = held[q] /\ state'[q] = state[q] /\ at'[q] = at[q]
          /\ dir'[q] = dir[q] /\ pte'[q] = pte[q]
      BY SMTT(60), <1>3, <2>2 DEF Exits, CInv, MTypeOK, RestOK
    <3>2. Phase(q)
      BY ZenonT(60) DEF CInv, Phases
    <3> QED
      BY ZenonT(60), <3>1, <3>2, PhaseKept
  <2> QED
    BY ZenonT(60), <2>1, <2>2
<1> QED
  BY ZenonT(60), <1>2, <1>5, <1>6 DEF CInv, Phases

\* do_execve once the old memory goes.
LEMMA NewMemorySafe ==
    ASSUME CInv, NEW p \in Proc, NEW e, held[p] = None, NewMemory(p, e), executable' \in [Proc -> Executable \cup {None}]
    PROVE  CInv'
<1>1. /\ mem_map' = Released(p) /\ dir' = [dir EXCEPT ![p] = NoTables]
      /\ pte' = [pte EXCEPT ![p] = NoPages] /\ held' = held /\ kernel' = kernel
  BY ZenonT(60) DEF NewMemory
<1>2. held' = [held EXCEPT ![p] = None]
  BY SMTT(60), <1>1 DEF CInv, MTypeOK
<1>3. /\ CountIsUses' /\ Exclusive' /\ mem_map' \in [Frame -> Nat]
      /\ dir' \in [Proc -> [Table -> Frame \cup {None}]]
      /\ pte' \in [Proc -> [Address -> Pte \cup {None}]]
      /\ held' \in [Proc -> Frame \cup {None}]
  BY ZenonT(60), <1>1, <1>2, ReleaseCounts
<1>4. RestOK
  BY ZenonT(60), RestType DEF CInv
<1>5. RestOK'
  <2>1. DOMAIN memory' = Frame
    BY ZenonT(60) DEF NewMemory, Cleared
  <2>2. /\ state' \in [Proc -> {"free", "run", "load", "exec"}]
        /\ at' \in [Proc -> Address \cup {None}]
        /\ buffer' \in [Proc -> Address \cup {None}]
    BY SMTT(60), <1>4 DEF RestOK, NewMemory
  <2>3. DOMAIN view' = Proc /\ \A q \in Proc : DOMAIN view'[q] = Address
    BY SMTT(60), <1>4 DEF RestOK, NewMemory
  <2> QED
    BY ZenonT(60), <2>1, <2>2, <2>3 DEF RestOK
<1>6. MTypeOK'
  <2>1. kernel' \subseteq Frame
    BY ZenonT(60), <1>1 DEF CInv, MTypeOK
  <2> QED
    BY ZenonT(60), <1>3, <1>5, <2>1, TypeOfRest
<1>7. ASSUME NEW q \in Proc PROVE Phase(q)'
  <2>1. CASE q = p
    <3>1. state'[p] = "run" /\ held'[p] = None
      BY SMTT(60), <1>1, <1>4 DEF NewMemory, RestOK
    <3> QED
      BY ZenonT(60), <2>1, <3>1, PhaseRuns
  <2>2. CASE q # p
    <3>1. /\ held'[q] = held[q] /\ state'[q] = state[q] /\ at'[q] = at[q]
          /\ dir'[q] = dir[q] /\ pte'[q] = pte[q]
      BY SMTT(60), <1>1, <1>4, <2>2 DEF NewMemory, CInv, MTypeOK, RestOK
    <3>2. Phase(q)
      BY ZenonT(60) DEF CInv, Phases
    <3> QED
      BY ZenonT(60), <3>1, <3>2, PhaseKept
  <2> QED
    BY ZenonT(60), <2>1, <2>2
<1> QED
  BY ZenonT(60), <1>3, <1>6, <1>7 DEF CInv, Phases

-----------------------------------------------------------------------------
\* No page appears for q.
LEMMA PhaseStays ==
    ASSUME NEW q \in Proc, Phase(q), held'[q] = held[q], state'[q] = state[q], at'[q] = at[q],
           state[q] = "free" => dir'[q] = dir[q], pte' \in [Proc -> [Address -> Pte \cup {None}]],
           \A b \in Address : pte[q][b] = None => pte'[q][b] = None
    PROVE  Phase(q)'
<1>1. CASE state[q] = "free"
  <2>1. \A b \in Address : pte[q][b] = None
    BY ZenonT(60), <1>1 DEF Phase, NoPages
  <2>2. \A b \in Address : pte'[q][b] = None
    BY ZenonT(60), <2>1
  <2>3. pte'[q] = NoPages
    BY SMTT(60), <2>2 DEF NoPages
  <2>4. pte[q] = NoPages
    BY ZenonT(60), <1>1 DEF Phase
  <2> QED
    BY ZenonT(60), <1>1, <2>3, <2>4, PhaseKept
<1>2. CASE state[q] # "free"
  BY ZenonT(60), <1>2, PhaseKept
<1> QED
  BY ZenonT(60), <1>1, <1>2

\* All phases, when only entries change.
LEMMA PhasesStay ==
    ASSUME CInv, UNCHANGED <<held, state, at, dir>>, pte' \in [Proc -> [Address -> Pte \cup {None}]],
           \A q \in Proc, b \in Address : pte[q][b] = None => pte'[q][b] = None
    PROVE  Phases'
<1>1. ASSUME NEW q \in Proc PROVE Phase(q)'
  <2>1. Phase(q)
    BY ZenonT(60) DEF CInv, Phases
  <2> QED
    BY ZenonT(60), <2>1, PhaseStays
<1> QED
  BY ZenonT(60), <1>1 DEF Phases

\* One entry of p changes, and was there.
LEMMA UnprotectedSafe ==
    ASSUME CInv, NEW p \in Proc, NEW a \in Address, Present(p, a), Unprotected(p, a),
           UNCHANGED <<dir, executable, state, at, held, kernel, view>>, buffer' \in [Proc -> Address \cup {None}]
    PROVE  CInv'
<1>1. CountIsUses' /\ Exclusive' /\ mem_map' \in [Frame -> Nat]
  BY ZenonT(60), UnprotectedCounts
<1>2. /\ pte' \in [Proc -> [Address -> Pte \cup {None}]]
      /\ \A q \in Proc, b \in Address : <<q, b>> # <<p, a>> => pte'[q][b] = pte[q][b]
  BY ZenonT(60) DEF Unprotected
<1>3. ASSUME NEW q \in Proc, NEW b \in Address, pte[q][b] = None PROVE pte'[q][b] = None
  BY SMTT(60), <1>2, <1>3 DEF Present
<1>4. Phases'
  BY ZenonT(60), <1>2, <1>3, PhasesStay
<1>5. RestOK
  BY ZenonT(60), RestType DEF CInv
<1>6. DOMAIN memory' = Frame
  <2>1. CASE memory' = memory
    BY ZenonT(60), <1>5, <2>1 DEF RestOK
  <2>2. CASE memory' = [memory EXCEPT ![FrameAt(p, a)'] = memory[FrameAt(p, a)]]
    BY SMTT(60), <1>5, <2>2 DEF RestOK
  <2> QED
    BY ZenonT(60), <2>1, <2>2 DEF Unprotected
<1>7. RestOK'
  BY ZenonT(60), <1>5, <1>6 DEF RestOK
<1>8. MTypeOK'
  <2>1. dir' \in [Proc -> [Table -> Frame \cup {None}]] /\ held' \in [Proc -> Frame \cup {None}] /\ kernel' \subseteq Frame
    BY ZenonT(60) DEF CInv, MTypeOK
  <2> QED
    BY ZenonT(60), <1>1, <1>2, <1>7, <2>1, TypeOfRest
<1> QED
  BY ZenonT(60), <1>1, <1>4, <1>8 DEF CInv

\* What Writes does to the entries.
Written(p, a) ==
    /\ pte' \in [Proc -> [Address -> Pte \cup {None}]]
    /\ pte'[p][a] \in Pte /\ pte'[p][a].frame = pte[p][a].frame /\ pte'[p][a].w = pte[p][a].w /\ pte'[p][a].dirty = TRUE
    /\ \A q \in Proc, b \in Address : <<q, b>> # <<p, a>> => pte'[q][b] = pte[q][b]
    /\ \A q \in Proc, b \in Address : FrameAt(q, b)' = FrameAt(q, b)
    /\ \A q \in Proc, b \in Address : Present(q, b)' <=> Present(q, b)

LEMMA WritesEffect ==
    ASSUME CInv, NEW p \in Proc, NEW a \in Address, NEW v, Present(p, a), Writes(p, a, v)
    PROVE  Written(p, a)
<1> DEFINE e == [pte[p][a] EXCEPT !.dirty = TRUE]
<1>1. pte[p][a] \in Pte /\ FrameAt(p, a) = pte[p][a].frame
  BY ZenonT(60), FrameType DEF CInv
<1>2. MTypeOK
  BY ZenonT(60) DEF CInv
<1>3. Sets(p, a, e)
  BY ZenonT(60) DEF Writes, Sets
<1>4. e \in Pte /\ e.dirty = TRUE /\ e.frame = pte[p][a].frame /\ e.w = pte[p][a].w
  BY ZenonT(60), <1>1, WithBit
<1> HIDE DEF e
<1>5. /\ pte' \in [Proc -> [Address -> Pte \cup {None}]]
      /\ pte'[p][a] = e /\ FrameAt(p, a)' = e.frame /\ Present(p, a)'
      /\ \A q \in Proc, b \in Address : <<q, b>> # <<p, a>> => pte'[q][b] = pte[q][b] /\ FrameAt(q, b)' = FrameAt(q, b)
  BY ZenonT(60), <1>2, <1>3, <1>4, EntrySet
<1>6. ASSUME NEW q \in Proc, NEW b \in Address PROVE FrameAt(q, b)' = FrameAt(q, b) /\ (Present(q, b)' <=> Present(q, b))
  <2>1. CASE <<q, b>> = <<p, a>>
    <3>1. q = p /\ b = a
      BY SMTT(60), <2>1
    <3> QED
      BY ZenonT(60), <1>1, <1>4, <1>5, <3>1
  <2>2. CASE <<q, b>> # <<p, a>>
    <3>1. pte'[q][b] = pte[q][b] /\ FrameAt(q, b)' = FrameAt(q, b)
      BY ZenonT(60), <1>5, <2>2
    <3> QED
      BY SMTT(60), <3>1 DEF Present
  <2> QED
    BY ZenonT(60), <2>1, <2>2
<1> QED
  BY ZenonT(60), <1>4, <1>5, <1>6 DEF Written

LEMMA WritesSafe ==
    ASSUME CInv, NEW p \in Proc, NEW a \in Address, NEW v, Present(p, a), Writes(p, a, v),
           UNCHANGED <<mem_map, dir, executable, state, at, held, kernel>>, buffer' \in [Proc -> Address \cup {None}]
    PROVE  CInv'
<1>1. Written(p, a)
  BY ZenonT(60), WritesEffect
<1>2. /\ pte' \in [Proc -> [Address -> Pte \cup {None}]]
      /\ \A q \in Proc, b \in Address : FrameAt(q, b)' = FrameAt(q, b)
      /\ \A q \in Proc, b \in Address : Present(q, b)' <=> Present(q, b)
  BY ZenonT(60), <1>1 DEF Written
<1>3. CountIsUses' /\ Exclusive'
  BY ZenonT(60), <1>2, SameFrames
<1>4. ASSUME NEW q \in Proc, NEW b \in Address, pte[q][b] = None PROVE pte'[q][b] = None
  BY ZenonT(60), <1>2, <1>4 DEF Present
<1>5. Phases'
  BY ZenonT(60), <1>2, <1>4, PhasesStay
<1>6. RestOK
  BY ZenonT(60), RestType DEF CInv
<1>7. DOMAIN memory' = Frame /\ DOMAIN view' = Proc /\ \A q \in Proc : DOMAIN view'[q] = Address
  <2>1. memory' = [memory EXCEPT ![pte[p][a].frame] = v] /\ view' = [view EXCEPT ![p][a] = v]
    BY ZenonT(60) DEF Writes
  <2>2. DOMAIN memory' = Frame
    BY SMTT(60), <1>6, <2>1 DEF RestOK
  <2> QED
    BY SMTT(60), <1>6, <2>1, <2>2 DEF RestOK
<1>8. RestOK'
  BY ZenonT(60), <1>6, <1>7 DEF RestOK
<1>9. MTypeOK'
  <2>1. /\ dir' \in [Proc -> [Table -> Frame \cup {None}]] /\ held' \in [Proc -> Frame \cup {None}] /\ kernel' \subseteq Frame
        /\ mem_map' \in [Frame -> Nat]
    BY ZenonT(60) DEF CInv, MTypeOK
  <2> QED
    BY ZenonT(60), <1>2, <1>8, <2>1, TypeOfRest
<1> QED
  BY ZenonT(60), <1>3, <1>5, <1>9 DEF CInv

\* The actions of a process that change no frame.
LEMMA BufferSafe ==
    ASSUME CInv, UNCHANGED <<mem_map, memory, dir, pte, executable, state, at, held, kernel, view>>,
           buffer' \in [Proc -> Address \cup {None}]
    PROVE  CInv'
<1>1. MTypeOK'
  BY ZenonT(60) DEF CInv, MTypeOK
<1>2. Phases'
  BY ZenonT(60), PhasesStay DEF CInv, MTypeOK
<1>3. \A q \in Proc, b \in Address : FrameAt(q, b)' = FrameAt(q, b)
  BY ZenonT(60) DEF FrameAt
<1>4. CountIsUses' /\ Exclusive'
  BY ZenonT(60), <1>3, SameFrames
<1> QED
  BY ZenonT(60), <1>1, <1>2, <1>4 DEF CInv

LEMMA ExecClosesSafe == ASSUME CInv, NEW p \in Proc, NEW e \in Executable, ExecCloses(p, e) PROVE CInv'
<1>1. UNCHANGED <<mem_map, memory, dir, pte, at, held, buffer, kernel, view>> /\ state[p] = "run"
  BY ZenonT(60) DEF ExecCloses, InUser
<1>2. executable' \in [Proc -> Executable \cup {None}] /\ state' \in [Proc -> {"free", "run", "load", "exec"}]
  BY SMTT(60) DEF CInv, MTypeOK, ExecCloses
<1>3. MTypeOK'
  BY ZenonT(60), <1>1, <1>2 DEF CInv, MTypeOK
<1>4. ASSUME NEW q \in Proc PROVE Phase(q)'
  <2>1. CASE q = p
    <3>1. state'[p] = "exec" /\ held'[p] = None
      BY SMTT(60), <1>1, RunHolds DEF ExecCloses, CInv, MTypeOK
    <3> QED
      BY ZenonT(60), <2>1, <3>1, PhaseRuns
  <2>2. CASE q # p
    <3>1. held'[q] = held[q] /\ state'[q] = state[q] /\ at'[q] = at[q] /\ dir'[q] = dir[q] /\ pte'[q] = pte[q]
      BY SMTT(60), <1>1, <2>2 DEF ExecCloses, CInv, MTypeOK
    <3>2. Phase(q)
      BY ZenonT(60) DEF CInv, Phases
    <3> QED
      BY ZenonT(60), <3>1, <3>2, PhaseKept
  <2> QED
    BY ZenonT(60), <2>1, <2>2
<1>5. \A q \in Proc, b \in Address : FrameAt(q, b)' = FrameAt(q, b)
  BY ZenonT(60), <1>1 DEF FrameAt
<1>6. CountIsUses' /\ Exclusive'
  BY ZenonT(60), <1>1, <1>5, SameFrames
<1> QED
  BY ZenonT(60), <1>3, <1>4, <1>6 DEF CInv, Phases

\* Fork without room for the tables protects pages.
Protects(p) ==
    /\ pte' \in [Proc -> [Address -> Pte \cup {None}]]
    /\ \A q \in Proc, b \in Address : q # p => pte'[q][b] = pte[q][b]
    /\ \A b \in Address : pte[p][b] = None => pte'[p][b] = None
    /\ \A b \in Address : pte[p][b] # None =>
           /\ pte'[p][b] # None /\ pte'[p][b].frame = pte[p][b].frame
           /\ pte'[p][b].w => pte[p][b].w

LEMMA ProtectedIs ==
    ASSUME MTypeOK, NEW p \in Proc, NEW copied, pte' = [pte EXCEPT ![p] = Protected(p, copied)]
    PROVE  Protects(p)
<1> DEFINE P == Protected(p, copied)
<1>1. pte \in [Proc -> [Address -> Pte \cup {None}]]
  BY ZenonT(60) DEF MTypeOK
<1>2. ASSUME NEW b \in Address, pte[p][b] # None
      PROVE  P[b] \in Pte /\ P[b] # None /\ P[b].frame = pte[p][b].frame /\ (P[b].w => pte[p][b].w)
  <2>1. P[b] = [pte[p][b] EXCEPT !.w = FALSE] \/ P[b] = pte[p][b]
    BY ZenonT(60) DEF Protected
  <2>2. pte[p][b] \in Pte
    BY SMTT(60), <1>1, <1>2
  <2>3. /\ [pte[p][b] EXCEPT !.w = FALSE] \in Pte /\ [pte[p][b] EXCEPT !.w = FALSE].w = FALSE
        /\ [pte[p][b] EXCEPT !.w = FALSE].frame = pte[p][b].frame
    BY ZenonT(60), <2>2, WithBit
  <2> HIDE DEF P
  <2> QED
    BY ZenonT(60), <2>1, <2>2, <2>3, NoneAssumption
<1>3. ASSUME NEW b \in Address, pte[p][b] = None PROVE P[b] = None
  BY ZenonT(60), <1>3 DEF Protected, Present
<1>4. P \in [Address -> Pte \cup {None}]
  <2>1. P = [a \in Address |-> P[a]]
    BY ZenonT(60) DEF Protected
  <2> HIDE DEF P
  <2>2. \A b \in Address : P[b] \in Pte \cup {None}
    BY ZenonT(60), <1>2, <1>3
  <2> QED
    BY SMTT(60), <2>1, <2>2
<1>5. pte' = [pte EXCEPT ![p] = P]
  BY ZenonT(60)
<1> HIDE DEF P
<1>6. pte' \in [Proc -> [Address -> Pte \cup {None}]] /\ pte'[p] = P /\ \A r \in Proc : r # p => pte'[r] = pte[r]
  BY SMTT(60), <1>1, <1>4, <1>5
<1>7. \A q \in Proc, b \in Address : q # p => pte'[q][b] = pte[q][b]
  BY ZenonT(60), <1>6
<1>8. \A b \in Address : pte[p][b] = None => pte'[p][b] = None
  BY ZenonT(60), <1>3, <1>6
<1>9. \A b \in Address : pte[p][b] # None =>
           /\ pte'[p][b] # None /\ pte'[p][b].frame = pte[p][b].frame
           /\ pte'[p][b].w => pte[p][b].w
  BY ZenonT(60), <1>2, <1>6
<1> QED
  BY ZenonT(60), <1>6, <1>7, <1>8, <1>9 DEF Protects

LEMMA ProtectsSafe ==
    ASSUME CInv, NEW p \in Proc, Protects(p),
           UNCHANGED <<mem_map, memory, dir, executable, state, at, held, buffer, kernel, view>>
    PROVE  CInv' /\ \A q \in Proc, b \in Address : FrameAt(q, b)' = FrameAt(q, b)
<1>1. ASSUME NEW q \in Proc, NEW b \in Address PROVE FrameAt(q, b)' = FrameAt(q, b)
  <2>1. CASE q = p /\ pte[p][b] = None
    BY SMTT(60), <2>1 DEF FrameAt, Protects
  <2>2. CASE q = p /\ pte[p][b] # None
    BY SMTT(60), <2>2 DEF FrameAt, Protects
  <2>3. CASE q # p
    <3>1. pte'[q][b] = pte[q][b]
      BY ZenonT(60), <2>3 DEF Protects
    <3> QED
      BY SMTT(60), <3>1 DEF FrameAt
  <2> QED
    BY ZenonT(60), <2>1, <2>2, <2>3
<1>2. CountIsUses' /\ Exclusive'
  BY ZenonT(60), <1>1, SameFrames
<1>3. MTypeOK'
  BY ZenonT(60) DEF CInv, MTypeOK, Protects
<1>4. ASSUME NEW q \in Proc, NEW b \in Address, pte[q][b] = None PROVE pte'[q][b] = None
  BY ZenonT(60), <1>4 DEF Protects
<1>5. Phases'
  BY ZenonT(60), <1>4, PhasesStay DEF Protects
<1> QED
  BY ZenonT(60), <1>1, <1>2, <1>3, <1>5 DEF CInv

-----------------------------------------------------------------------------
\* Pages of the kernel.
LEMMA KernelCounts ==
    ASSUME CInv, UNCHANGED <<dir, pte, held>>,
           \A g \in Frame : mem_map'[g] = mem_map[g] + Kernels(g)' - Kernels(g)
    PROVE  CountIsUses'
<1>1. ASSUME NEW f \in Frame
      PROVE  mem_map'[f] = Cardinality(Mapped(f)') + Cardinality(InTable(f)') + Cardinality(Loading(f)') + Kernels(f)'
  <2>1. Mapped(f)' = Mapped(f) /\ InTable(f)' = InTable(f) /\ Loading(f)' = Loading(f)
    BY ZenonT(60) DEF Mapped, InTable, Loading, Pages, Present
  <2>2. /\ mem_map[f] = Cardinality(Mapped(f)) + Cardinality(InTable(f)) + Cardinality(Loading(f)) + Kernels(f)
        /\ Cardinality(Mapped(f)) \in Nat /\ Cardinality(InTable(f)) \in Nat
        /\ Cardinality(Loading(f)) \in Nat /\ Kernels(f) \in Nat /\ mem_map[f] \in Nat
    BY ZenonT(60), Counted DEF CInv
  <2>3. Kernels(f)' \in Nat
    BY SMTT(60) DEF Kernels
  <2> QED
    BY SMTT(60), <2>1, <2>2, <2>3
<1> QED
  BY ZenonT(60), <1>1, CountsNext

\* The tables, loads and kernel pages that a step leaves alone.
LEMMA ExclusiveKept ==
    ASSUME CInv, \A q \in Proc, t \in Table : dir[q][t] # None => mem_map'[dir[q][t]] = mem_map[dir[q][t]],
           \A q \in Proc : held[q] # None => mem_map'[held[q]] = mem_map[held[q]]
    PROVE  /\ \A q \in Proc, t \in Table : dir[q][t] # None => mem_map'[dir[q][t]] = 1
           /\ \A q \in Proc : held[q] # None => mem_map'[held[q]] = 1
<1>0. Exclusive
  BY ZenonT(60) DEF CInv
<1>1. ASSUME NEW q \in Proc, NEW t \in Table, dir[q][t] # None PROVE mem_map'[dir[q][t]] = 1
  <2>1. mem_map[dir[q][t]] = 1
    BY ZenonT(60), <1>0, <1>1 DEF Exclusive
  <2>2. mem_map'[dir[q][t]] = mem_map[dir[q][t]]
    BY ZenonT(60), <1>1
  <2> QED
    BY ZenonT(60), <2>1, <2>2
<1>2. ASSUME NEW q \in Proc, held[q] # None PROVE mem_map'[held[q]] = 1
  BY ZenonT(60), <1>2 DEF CInv, Exclusive
<1> QED
  BY ZenonT(60), <1>1, <1>2

LEMMA KernelTakesSafe == ASSUME CInv, KernelTakes PROVE CInv'
<1>1. PICK f \in Free : kernel' = kernel \cup {f} /\ mem_map' = [mem_map EXCEPT ![f] = 1]
  BY ZenonT(60) DEF KernelTakes
<1>2. UNCHANGED <<memory, dir, pte, executable, state, at, held, buffer, view>>
  BY ZenonT(60) DEF KernelTakes
<1>3. /\ f \in Frame /\ mem_map[f] = 0 /\ f \notin kernel
      /\ \A q \in Proc, t \in Table : dir[q][t] # f
      /\ \A q \in Proc : held[q] # f
  BY ZenonT(60), NotFree
<1>4. /\ mem_map \in [Frame -> Nat] /\ kernel \subseteq Frame /\ dir \in [Proc -> [Table -> Frame \cup {None}]]
      /\ held \in [Proc -> Frame \cup {None}]
  BY ZenonT(60) DEF CInv, MTypeOK
<1>5. mem_map' \in [Frame -> Nat] /\ mem_map'[f] = 1 /\ \A g \in Frame : g # f => mem_map'[g] = mem_map[g]
  BY SMTT(60), <1>1, <1>3, <1>4
<1>6. ASSUME NEW g \in Frame PROVE mem_map'[g] = mem_map[g] + Kernels(g)' - Kernels(g)
  <2>1. CASE g = f
    <3>1. Kernels(g)' = 1 /\ Kernels(g) = 0
      BY ZenonT(60), <1>1, <1>3, <2>1 DEF Kernels
    <3> QED
      BY SMTT(60), <1>3, <1>5, <2>1, <3>1
  <2>2. CASE g # f
    <3>1. Kernels(g)' = Kernels(g)
      BY ZenonT(60), <1>1, <2>2 DEF Kernels
    <3>2. Kernels(g) \in Nat
      BY SMTT(60) DEF Kernels
    <3> QED
      BY SMTT(60), <1>4, <1>5, <2>2, <3>1, <3>2
  <2> QED
    BY ZenonT(60), <2>1, <2>2
<1>7. CountIsUses'
  BY ZenonT(60), <1>2, <1>6, KernelCounts
<1>8. MTypeOK'
  <2>1. kernel' \subseteq Frame
    BY ZenonT(60), <1>1, <1>3, <1>4
  <2> QED
    BY ZenonT(60), <1>2, <1>5, <2>1 DEF CInv, MTypeOK
<1>9. Exclusive'
  <2>1. \A q \in Proc, t \in Table : dir[q][t] # None => mem_map'[dir[q][t]] = mem_map[dir[q][t]]
    BY SMTT(60), <1>3, <1>4, <1>5
  <2>2. \A q \in Proc : held[q] # None => mem_map'[held[q]] = mem_map[held[q]]
    BY SMTT(60), <1>3, <1>4, <1>5
  <2>3. /\ \A q \in Proc, t \in Table : dir[q][t] # None => mem_map'[dir[q][t]] = 1
        /\ \A q \in Proc : held[q] # None => mem_map'[held[q]] = 1
    BY ZenonT(60), <2>1, <2>2, ExclusiveKept
  <2>4. \A g \in kernel' : mem_map'[g] = 1
    BY ZenonT(60), <1>1, <1>3, <1>4, <1>5 DEF CInv, Exclusive
  <2> QED
    BY ZenonT(60), <1>2, <2>3, <2>4 DEF Exclusive
<1>10. Phases'
  BY ZenonT(60), <1>2, PhasesStay DEF CInv, MTypeOK
<1> QED
  BY ZenonT(60), <1>7, <1>8, <1>9, <1>10 DEF CInv

LEMMA KernelFreesSafe == ASSUME CInv, KernelFrees PROVE CInv'
<1>1. PICK f \in kernel : kernel' = kernel \ {f} /\ mem_map' = [mem_map EXCEPT ![f] = @ - 1]
  BY ZenonT(60) DEF KernelFrees
<1>2. UNCHANGED <<memory, dir, pte, executable, state, at, held, buffer, view>>
  BY ZenonT(60) DEF KernelFrees
<1>3. /\ f \in Frame /\ mem_map[f] = 1
      /\ \A q \in Proc, t \in Table : dir[q][t] # f
      /\ \A q \in Proc : held[q] # f
  BY ZenonT(60), KernelApart
<1>4. /\ mem_map \in [Frame -> Nat] /\ kernel \subseteq Frame /\ dir \in [Proc -> [Table -> Frame \cup {None}]]
      /\ held \in [Proc -> Frame \cup {None}]
  BY ZenonT(60) DEF CInv, MTypeOK
<1>5. mem_map' \in [Frame -> Nat] /\ mem_map'[f] = 0 /\ \A g \in Frame : g # f => mem_map'[g] = mem_map[g]
  BY SMTT(60), <1>1, <1>3, <1>4
<1>6. ASSUME NEW g \in Frame PROVE mem_map'[g] = mem_map[g] + Kernels(g)' - Kernels(g)
  <2>1. CASE g = f
    <3>1. Kernels(g)' = 0 /\ Kernels(g) = 1
      BY ZenonT(60), <1>1, <1>3, <2>1 DEF Kernels
    <3> QED
      BY SMTT(60), <1>3, <1>5, <2>1, <3>1
  <2>2. CASE g # f
    <3>1. Kernels(g)' = Kernels(g)
      BY ZenonT(60), <1>1, <2>2 DEF Kernels
    <3>2. Kernels(g) \in Nat
      BY SMTT(60) DEF Kernels
    <3> QED
      BY SMTT(60), <1>4, <1>5, <2>2, <3>1, <3>2
  <2> QED
    BY ZenonT(60), <2>1, <2>2
<1>7. CountIsUses'
  BY ZenonT(60), <1>2, <1>6, KernelCounts
<1>8. MTypeOK'
  <2>1. kernel' \subseteq Frame
    BY ZenonT(60), <1>1, <1>3, <1>4
  <2> QED
    BY ZenonT(60), <1>2, <1>5, <2>1 DEF CInv, MTypeOK
<1>9. Exclusive'
  <2>1. \A q \in Proc, t \in Table : dir[q][t] # None => mem_map'[dir[q][t]] = mem_map[dir[q][t]]
    BY SMTT(60), <1>3, <1>4, <1>5
  <2>2. \A q \in Proc : held[q] # None => mem_map'[held[q]] = mem_map[held[q]]
    BY SMTT(60), <1>3, <1>4, <1>5
  <2>3. /\ \A q \in Proc, t \in Table : dir[q][t] # None => mem_map'[dir[q][t]] = 1
        /\ \A q \in Proc : held[q] # None => mem_map'[held[q]] = 1
    BY ZenonT(60), <2>1, <2>2, ExclusiveKept
  <2>4. \A g \in kernel' : mem_map'[g] = 1
    BY ZenonT(60), <1>1, <1>3, <1>4, <1>5 DEF CInv, Exclusive
  <2> QED
    BY ZenonT(60), <1>2, <2>3, <2>4 DEF Exclusive
<1>10. Phases'
  BY ZenonT(60), <1>2, PhasesStay DEF CInv, MTypeOK
<1> QED
  BY ZenonT(60), <1>7, <1>8, <1>9, <1>10 DEF CInv

\* A frame is taken for a load.
LEMMA StartLoadSafe == ASSUME CInv, NEW p \in Proc, NEW a \in Address, StartLoad(p, a) PROVE CInv'
<1>1. PICK f \in Free : mem_map' = [mem_map EXCEPT ![f] = 1] /\ held' = [held EXCEPT ![p] = f]
  BY ZenonT(60) DEF StartLoad
<1>2. /\ UNCHANGED <<memory, dir, pte, executable, buffer, kernel, view>>
      /\ at' = [at EXCEPT ![p] = a] /\ state' = [state EXCEPT ![p] = "load"]
      /\ state[p] = "run" /\ ~Present(p, a)
  BY ZenonT(60) DEF StartLoad, Uses
<1>3. /\ f \in Frame /\ mem_map[f] = 0 /\ f \notin kernel /\ f # None
      /\ \A q \in Proc, t \in Table : dir[q][t] # f
      /\ \A q \in Proc : held[q] # f
  BY ZenonT(60), NotFree, NoneAssumption
<1>4. /\ mem_map \in [Frame -> Nat] /\ kernel \subseteq Frame /\ dir \in [Proc -> [Table -> Frame \cup {None}]]
      /\ held \in [Proc -> Frame \cup {None}] /\ at \in [Proc -> Address \cup {None}]
      /\ state \in [Proc -> {"free", "run", "load", "exec"}]
  BY ZenonT(60) DEF CInv, MTypeOK
<1>5. mem_map' \in [Frame -> Nat] /\ mem_map'[f] = 1 /\ \A g \in Frame : g # f => mem_map'[g] = mem_map[g]
  BY SMTT(60), <1>1, <1>3, <1>4
<1>6. held[p] = None
  BY ZenonT(60), <1>2, RunHolds
<1>7. /\ held' \in [Proc -> Frame \cup {None}] /\ held'[p] = f /\ \A q \in Proc : q # p => held'[q] = held[q]
      /\ at' \in [Proc -> Address \cup {None}] /\ at'[p] = a /\ \A q \in Proc : q # p => at'[q] = at[q]
      /\ state' \in [Proc -> {"free", "run", "load", "exec"}] /\ state'[p] = "load"
      /\ \A q \in Proc : q # p => state'[q] = state[q]
  BY SMTT(60), <1>1, <1>2, <1>3, <1>4
<1>8. CountIsUses'
  <2>1. a[1] \in Table
    BY SMTT(60) DEF Address
  <2>2. \A q \in Proc, b \in Address : FrameAt(q, b)' = FrameAt(q, b)
    BY ZenonT(60), <1>2 DEF FrameAt
  <2>3. ASSUME NEW g \in Frame
        PROVE  mem_map'[g] = mem_map[g] + Is(FrameAt(p, a)', g) - Is(FrameAt(p, a), g)
                                + Is(dir'[p][a[1]], g) - Is(dir[p][a[1]], g)
                                + Is(held'[p], g) - Is(held[p], g)
    <3>1. Is(FrameAt(p, a)', g) = Is(FrameAt(p, a), g) /\ Is(dir'[p][a[1]], g) = Is(dir[p][a[1]], g)
      BY ZenonT(60), <1>2, <2>2
    <3>2. \A x : Is(x, g) \in Nat
      BY SMTT(60) DEF Is
    <3>3. Is(held'[p], g) = IF g = f THEN 1 ELSE 0
      BY ZenonT(60), <1>7 DEF Is
    <3>4. Is(held[p], g) = 0
      BY ZenonT(60), <1>6, NoneAssumption DEF Is
    <3>5. mem_map'[g] = mem_map[g] + (IF g = f THEN 1 ELSE 0) /\ mem_map[g] \in Nat
      BY SMTT(60), <1>3, <1>4, <1>5
    <3> HIDE DEF Is
    <3> QED
      BY SMTT(60), <3>1, <3>2, <3>3, <3>4, <3>5
  <2>4. \A q \in Proc, t \in Table : dir'[q][t] = dir[q][t]
    BY ZenonT(60), <1>2
  <2>5. kernel' = kernel
    BY ZenonT(60), <1>2
  <2> QED
    BY ZenonT(60), <1>7, <2>1, <2>2, <2>3, <2>4, <2>5, CountsChange
<1>9. MTypeOK'
  BY ZenonT(60), <1>2, <1>5, <1>7 DEF CInv, MTypeOK
<1>10. Exclusive'
  <2>1. \A q \in Proc, t \in Table : dir[q][t] # None => mem_map'[dir[q][t]] = mem_map[dir[q][t]]
    BY SMTT(60), <1>3, <1>4, <1>5
  <2>2. \A q \in Proc : held[q] # None => mem_map'[held[q]] = mem_map[held[q]]
    BY SMTT(60), <1>3, <1>4, <1>5
  <2>3. /\ \A q \in Proc, t \in Table : dir[q][t] # None => mem_map'[dir[q][t]] = 1
        /\ \A q \in Proc : held[q] # None => mem_map'[held[q]] = 1
    BY ZenonT(60), <2>1, <2>2, ExclusiveKept
  <2>4. \A g \in kernel : mem_map'[g] = 1
    BY ZenonT(60), <1>3, <1>4, <1>5 DEF CInv, Exclusive
  <2>5. ASSUME NEW q \in Proc, held'[q] # None PROVE mem_map'[held'[q]] = 1
    <3>1. CASE q = p
      BY ZenonT(60), <1>5, <1>7, <3>1
    <3>2. CASE q # p
      BY ZenonT(60), <1>7, <2>3, <2>5, <3>2
    <3> QED
      BY ZenonT(60), <3>1, <3>2
  <2> QED
    BY ZenonT(60), <1>2, <2>3, <2>4, <2>5 DEF Exclusive
<1>11. ASSUME NEW q \in Proc PROVE Phase(q)'
  <2>1. CASE q = p
    <3>1. ~Present(p, a)'
      BY ZenonT(60), <1>2 DEF Present
    <3>2. held'[p] # None /\ state'[p] = "load" /\ at'[p] = a
      BY ZenonT(60), <1>3, <1>7
    <3>3. state'[p] # "free"
      BY SMTT(60), <3>2
    <3> QED
      BY SMTT(60), <2>1, <3>1, <3>2, <3>3 DEF Phase, Present
  <2>2. CASE q # p
    <3>1. held'[q] = held[q] /\ state'[q] = state[q] /\ at'[q] = at[q] /\ dir'[q] = dir[q] /\ pte'[q] = pte[q]
      BY ZenonT(60), <1>2, <1>7, <2>2
    <3>2. Phase(q)
      BY ZenonT(60) DEF CInv, Phases
    <3> QED
      BY ZenonT(60), <3>1, <3>2, PhaseKept
  <2> QED
    BY ZenonT(60), <2>1, <2>2
<1> QED
  BY ZenonT(60), <1>8, <1>9, <1>10, <1>11 DEF CInv, Phases

-----------------------------------------------------------------------------
\* The table of an address: there, or a free frame other than f.
LEMMA TableFrame ==
    ASSUME CInv, NEW p \in Proc, NEW a \in Address, NEW f, NEW F, F \subseteq Free, NEW t \in TableIn(p, a, F),
           f \notin F, \A q \in Proc, u \in Table : dir[q][u] # f
    PROVE  t \in Frame /\ t # f /\ (dir[p][a[1]] = t \/ (dir[p][a[1]] = None /\ t \in Free))
<1>1. a[1] \in Table
  BY SMTT(60) DEF Address
<1>2. CASE dir[p][a[1]] = None
  <2>1. t \in F
    BY ZenonT(60), <1>2 DEF TableIn
  <2> QED
    BY ZenonT(60), <1>2, <2>1 DEF Free
<1>3. CASE dir[p][a[1]] # None
  <2>1. t = dir[p][a[1]]
    BY ZenonT(60), <1>3 DEF TableIn
  <2>2. dir[p][a[1]] \in Frame
    BY ZenonT(60), <1>1, <1>3, TableApart
  <2> QED
    BY ZenonT(60), <1>1, <2>1, <2>2
<1> QED
  BY ZenonT(60), <1>2, <1>3

\* Everybody's phase when p, which runs after the step, gets a page.
LEMMA PhasesRun ==
    ASSUME CInv, NEW p \in Proc, state'[p] = "run", held'[p] = None,
           pte' \in [Proc -> [Address -> Pte \cup {None}]],
           \A q \in Proc : q # p => held'[q] = held[q] /\ state'[q] = state[q] /\ at'[q] = at[q] /\ dir'[q] = dir[q],
           \A q \in Proc, b \in Address : q # p /\ pte[q][b] = None => pte'[q][b] = None
    PROVE  Phases'
<1>1. ASSUME NEW q \in Proc PROVE Phase(q)'
  <2>1. CASE q = p
    <3>1. state'[p] \in {"run", "exec"}
      BY ZenonT(60)
    <3> QED
      BY ZenonT(60), <2>1, <3>1, PhaseRuns
  <2>2. CASE q # p
    <3>1. Phase(q)
      BY ZenonT(60) DEF CInv, Phases
    <3>2. held'[q] = held[q] /\ state'[q] = state[q] /\ at'[q] = at[q] /\ dir'[q] = dir[q]
      BY ZenonT(60), <2>2
    <3>3. \A b \in Address : pte[q][b] = None => pte'[q][b] = None
      BY ZenonT(60), <2>2
    <3> QED
      BY ZenonT(60), <3>1, <3>2, <3>3, PhaseStays
  <2> QED
    BY ZenonT(60), <2>1, <2>2
<1> QED
  BY ZenonT(60), <1>1 DEF Phases

LEMMA OtherTables ==
    ASSUME CInv, NEW p \in Proc, NEW a, NEW t, NEW f, NEW n, Maps(p, a, t, f, n)
    PROVE  \A q \in Proc : q # p => dir'[q] = dir[q]
BY SMTT(60) DEF CInv, MTypeOK, Maps

\* How MapsCounts is used.
Enters(p, a, t, f, n) ==
    /\ ~Present(p, a) /\ Maps(p, a, t, f, n) /\ t # f
    /\ dir[p][a[1]] = t \/ (dir[p][a[1]] = None /\ t \in Free)
    /\ FrameAt(p, a)' = f
    /\ \A q \in Proc, b \in Address : <<q, b>> # <<p, a>> => FrameAt(q, b)' = FrameAt(q, b)
    /\ kernel' = kernel
    /\ \A q \in Proc : q # p => held'[q] = held[q]
    /\ held'[p] = held[p] \/ (held[p] = f /\ held'[p] = None)
    /\ n = mem_map[f] + 1 + Is(held'[p], f) - Is(held[p], f)
    /\ \A q \in Proc, u \in Table : dir[q][u] # f
    /\ \A q \in Proc : held'[q] # f
    /\ f \notin kernel

LEMMA EntersCounts ==
    ASSUME CInv, NEW p \in Proc, NEW a \in Address, NEW t \in Frame, NEW f \in Frame, NEW n \in Nat, Enters(p, a, t, f, n)
    PROVE  CountIsUses' /\ Exclusive' /\ mem_map' \in [Frame -> Nat] /\ dir' \in [Proc -> [Table -> Frame \cup {None}]]
<1>1. ~Present(p, a) /\ Maps(p, a, t, f, n) /\ t # f /\ FrameAt(p, a)' = f /\ kernel' = kernel /\ f \notin kernel
  BY ZenonT(60) DEF Enters
<1>2. dir[p][a[1]] = t \/ (dir[p][a[1]] = None /\ t \in Free)
  BY ZenonT(60) DEF Enters
<1>3. \A q \in Proc, b \in Address : <<q, b>> # <<p, a>> => FrameAt(q, b)' = FrameAt(q, b)
  BY ZenonT(60) DEF Enters
<1>4. (\A q \in Proc : q # p => held'[q] = held[q]) /\ (held'[p] = held[p] \/ (held[p] = f /\ held'[p] = None))
  BY ZenonT(60) DEF Enters
<1>5. n = mem_map[f] + 1 + Is(held'[p], f) - Is(held[p], f)
  BY ZenonT(60) DEF Enters
<1>6. (\A q \in Proc, u \in Table : dir[q][u] # f) /\ (\A q \in Proc : held'[q] # f)
  BY ZenonT(60) DEF Enters
<1> QED
  BY ZenonT(60), <1>1, <1>2, <1>3, <1>4, <1>5, <1>6, MapsCounts

LEMMA WritableSet ==
    ASSUME MTypeOK, NEW p \in Proc, NEW a \in Address, NEW f \in Frame, Sets(p, a, Writable(f))
    PROVE  /\ pte' \in [Proc -> [Address -> Pte \cup {None}]]
           /\ pte'[p][a] \in Pte /\ pte'[p][a] # None /\ pte'[p][a].frame = f /\ pte'[p][a].w = TRUE /\ pte'[p][a].dirty = FALSE
           /\ FrameAt(p, a)' = f
           /\ \A q \in Proc, b \in Address : <<q, b>> # <<p, a>> => pte'[q][b] = pte[q][b] /\ FrameAt(q, b)' = FrameAt(q, b)
<1>1. PICK e \in Pte : e = Writable(f) /\ e.frame = f /\ e.w = TRUE /\ e.dirty = FALSE
  BY ZenonT(60), WritableType
<1>2. Sets(p, a, e)
  BY ZenonT(60), <1>1
<1>3. /\ pte' \in [Proc -> [Address -> Pte \cup {None}]]
      /\ pte'[p][a] = e /\ FrameAt(p, a)' = e.frame /\ Present(p, a)'
      /\ \A q \in Proc, b \in Address : <<q, b>> # <<p, a>> => pte'[q][b] = pte[q][b] /\ FrameAt(q, b)' = FrameAt(q, b)
  BY ZenonT(60), <1>2, EntrySet
<1> QED
  BY ZenonT(60), <1>1, <1>3, NoneAssumption

\* A new empty page.
LEMMA GetEmptyPageSafe == ASSUME CInv, NEW p \in Proc, NEW a \in Address, GetEmptyPage(p, a) PROVE CInv'
<1>1. PICK f \in Free : \E t \in TableIn(p, a, Free \ {f}) :
          /\ Maps(p, a, t, f, 1)
          /\ pte' = [pte EXCEPT ![p][a] = Writable(f)]
          /\ memory' = [memory EXCEPT ![f] = 0]
  BY ZenonT(60) DEF GetEmptyPage
<1>2. PICK t \in TableIn(p, a, Free \ {f}) :
          /\ Maps(p, a, t, f, 1)
          /\ pte' = [pte EXCEPT ![p][a] = Writable(f)]
          /\ memory' = [memory EXCEPT ![f] = 0]
  BY ZenonT(60), <1>1
<1>3. UNCHANGED <<executable, state, at, held, buffer, kernel, view>> /\ state[p] = "run" /\ ~Present(p, a)
  BY ZenonT(60) DEF GetEmptyPage, Uses
<1>4. /\ f \in Frame /\ mem_map[f] = 0 /\ f \notin kernel
      /\ \A q \in Proc, u \in Table : dir[q][u] # f
      /\ \A q \in Proc : held[q] # f
  BY ZenonT(60), NotFree
<1>5. t \in Frame /\ t # f /\ (dir[p][a[1]] = t \/ (dir[p][a[1]] = None /\ t \in Free))
  <2>1. Free \ {f} \subseteq Free /\ f \notin Free \ {f}
    BY ZenonT(60)
  <2> QED
    BY ZenonT(60), <1>4, <2>1, TableFrame
<1>6. MTypeOK
  BY ZenonT(60) DEF CInv
<1>8. /\ pte' \in [Proc -> [Address -> Pte \cup {None}]]
      /\ FrameAt(p, a)' = f
      /\ \A q \in Proc, b \in Address : <<q, b>> # <<p, a>> => pte'[q][b] = pte[q][b] /\ FrameAt(q, b)' = FrameAt(q, b)
  <2>1. Sets(p, a, Writable(f))
    BY ZenonT(60), <1>2 DEF Sets
  <2> QED
    BY ZenonT(60), <1>4, <1>6, <2>1, WritableSet
<1>9. CountIsUses' /\ Exclusive' /\ mem_map' \in [Frame -> Nat] /\ dir' \in [Proc -> [Table -> Frame \cup {None}]]
  <2>1. 1 \in Nat /\ 1 = mem_map[f] + 1 + Is(held'[p], f) - Is(held[p], f)
    <3>1. held'[p] # f /\ held[p] # f
      BY ZenonT(60), <1>3, <1>4
    <3> QED
      BY SMTT(60), <1>4, <3>1 DEF Is
  <2>2. kernel' = kernel /\ \A q \in Proc : held'[q] = held[q] /\ held'[q] # f
    BY ZenonT(60), <1>3, <1>4
  <2>3. \A q \in Proc, b \in Address : <<q, b>> # <<p, a>> => FrameAt(q, b)' = FrameAt(q, b)
    BY ZenonT(60), <1>8
  <2> QED
    <3>1. Enters(p, a, t, f, 1)
      BY ZenonT(60), <1>2, <1>3, <1>4, <1>5, <1>8, <2>1, <2>2, <2>3 DEF Enters
    <3> QED
      BY ZenonT(60), <1>4, <1>5, <2>1, <3>1, EntersCounts
<1>10. RestOK
  BY ZenonT(60), <1>6, RestType
<1>11. MTypeOK'
  <2>1. DOMAIN memory' = Frame
    BY SMTT(60), <1>2, <1>10 DEF RestOK
  <2>2. RestOK'
    BY ZenonT(60), <1>3, <1>10, <2>1 DEF RestOK
  <2>3. held' \in [Proc -> Frame \cup {None}] /\ kernel' \subseteq Frame
    BY ZenonT(60), <1>3, <1>6 DEF MTypeOK
  <2> QED
    BY ZenonT(60), <1>8, <1>9, <2>2, <2>3, TypeOfRest
<1>12. Phases'
  <2>1. held[p] = None
    BY ZenonT(60), <1>3, RunHolds
  <2>2. \A q \in Proc : q # p => dir'[q] = dir[q]
    BY ZenonT(60), <1>2, OtherTables
  <2>3. \A q \in Proc, b \in Address : q # p /\ pte[q][b] = None => pte'[q][b] = None
    BY SMTT(60), <1>8
  <2>4. state'[p] = "run" /\ held'[p] = None
    BY ZenonT(60), <1>3, <2>1
  <2>5. \A q \in Proc : q # p => held'[q] = held[q] /\ state'[q] = state[q] /\ at'[q] = at[q] /\ dir'[q] = dir[q]
    BY ZenonT(60), <1>3, <2>2
  <2> QED
    BY ZenonT(60), <1>8, <2>3, <2>4, <2>5, PhasesRun
<1> QED
  BY ZenonT(60), <1>9, <1>11, <1>12 DEF CInv

\* What was loaded is entered.
LEMMA EndLoadSafe == ASSUME CInv, NEW p \in Proc, EndLoad(p) PROVE CInv'
<1>1. CASE Exits(p)
  BY ZenonT(60), <1>1, ExitsSafe
<1>2. CASE ~Exits(p)
  <2> DEFINE a == at[p]
             f == held[p]
  <2>1. /\ state[p] = "load"
        /\ \E t \in TableIn(p, a, Free) : Maps(p, a, t, f, mem_map[f])
        /\ pte' = [pte EXCEPT ![p][a] = Writable(f)]
        /\ memory' = [memory EXCEPT ![f] = executable[p]]
        /\ state' = [state EXCEPT ![p] = "run"]
        /\ at' = [at EXCEPT ![p] = None]
        /\ held' = [held EXCEPT ![p] = None]
        /\ UNCHANGED <<executable, buffer, kernel, view>>
    BY ZenonT(60), <1>2 DEF EndLoad
  <2>2. PICK t \in TableIn(p, a, Free) : Maps(p, a, t, f, mem_map[f])
    BY ZenonT(60), <2>1
  <2>3. a \in Address /\ ~Present(p, a) /\ f # None
    BY ZenonT(60), <2>1 DEF CInv, Phases, Phase
  <2>4. /\ f \in Frame /\ mem_map[f] = 1 /\ f \notin kernel
        /\ \A r \in Proc, u \in Table : dir[r][u] # f
        /\ \A r \in Proc : held[r] = f => r = p
    BY ZenonT(60), <2>3, HeldApart
  <2>5. PICK g \in Frame : g = f
    BY ZenonT(60), <2>4
  <2>6. PICK b \in Address : b = a
    BY ZenonT(60), <2>3
  <2>7. MTypeOK /\ RestOK
    BY ZenonT(60), RestType DEF CInv
  <2>8. /\ Maps(p, b, t, g, 1) /\ pte' = [pte EXCEPT ![p][b] = Writable(g)] /\ t \in TableIn(p, b, Free)
        /\ ~Present(p, b) /\ mem_map[g] = 1 /\ g \notin kernel /\ held[p] = g
        /\ \A r \in Proc, u \in Table : dir[r][u] # g
        /\ \A r \in Proc : held[r] = g => r = p
    BY ZenonT(60), <2>1, <2>2, <2>3, <2>4, <2>5, <2>6
  <2>9. DOMAIN memory' = Frame
    BY SMTT(60), <2>1, <2>7 DEF RestOK
  <2>10. /\ state' = [state EXCEPT ![p] = "run"]
         /\ at' = [at EXCEPT ![p] = None]
         /\ held' = [held EXCEPT ![p] = None]
         /\ UNCHANGED <<executable, buffer, kernel, view>>
    BY ZenonT(60), <2>1
  <2> HIDE DEF a, f
  <2>11. t \in Frame /\ t # g /\ (dir[p][b[1]] = t \/ (dir[p][b[1]] = None /\ t \in Free))
    <3>1. Free \subseteq Free /\ g \notin Free
      BY SMTT(60), <2>8 DEF Free
    <3> QED
      <4>1. t \in TableIn(p, b, Free)
        BY ZenonT(60), <2>8
      <4>2. \A q \in Proc, u \in Table : dir[q][u] # g
        BY ZenonT(60), <2>8
      <4> QED
        BY ZenonT(60), <3>1, <4>1, <4>2, TableFrame
  <2>13. /\ pte' \in [Proc -> [Address -> Pte \cup {None}]]
         /\ FrameAt(p, b)' = g
         /\ \A q \in Proc, c \in Address : <<q, c>> # <<p, b>> => pte'[q][c] = pte[q][c] /\ FrameAt(q, c)' = FrameAt(q, c)
    <3>1. Sets(p, b, Writable(g))
      BY ZenonT(60), <2>8 DEF Sets
    <3> QED
      BY ZenonT(60), <2>7, <3>1, WritableSet
  <2>14. /\ held' \in [Proc -> Frame \cup {None}] /\ held'[p] = None /\ \A q \in Proc : q # p => held'[q] = held[q]
         /\ at' \in [Proc -> Address \cup {None}] /\ \A q \in Proc : q # p => at'[q] = at[q]
         /\ state' \in [Proc -> {"free", "run", "load", "exec"}] /\ state'[p] = "run"
         /\ \A q \in Proc : q # p => state'[q] = state[q]
    BY SMTT(60), <2>7, <2>10 DEF MTypeOK
  <2>15. CountIsUses' /\ Exclusive' /\ mem_map' \in [Frame -> Nat] /\ dir' \in [Proc -> [Table -> Frame \cup {None}]]
    <3>1. 1 \in Nat /\ 1 = mem_map[g] + 1 + Is(held'[p], g) - Is(held[p], g)
      <4>1. held'[p] # g /\ held[p] = g
        BY ZenonT(60), <2>8, <2>14, NoneAssumption
      <4> QED
        BY SMTT(60), <2>8, <4>1 DEF Is
    <3>2. kernel' = kernel /\ \A q \in Proc : held'[q] # g
      BY ZenonT(60), <2>8, <2>10, <2>14, NoneAssumption
    <3>3. \A q \in Proc, c \in Address : <<q, c>> # <<p, b>> => FrameAt(q, c)' = FrameAt(q, c)
      BY ZenonT(60), <2>13
    <3> QED
      <4>1. Enters(p, b, t, g, 1)
        BY ZenonT(60), <2>8, <2>11, <2>13, <2>14, <3>1, <3>2, <3>3 DEF Enters
      <4> QED
        BY ZenonT(60), <2>11, <3>1, <4>1, EntersCounts
  <2>16. MTypeOK'
    <3>1. RestOK'
      BY ZenonT(60), <2>7, <2>9, <2>10, <2>14 DEF RestOK
    <3>2. kernel' \subseteq Frame
      BY ZenonT(60), <2>7, <2>10 DEF MTypeOK
    <3> QED
      BY ZenonT(60), <2>13, <2>14, <2>15, <3>1, <3>2, TypeOfRest
  <2>17. Phases'
    <3>1. \A q \in Proc : q # p => dir'[q] = dir[q]
      BY ZenonT(60), <2>8, OtherTables
    <3>2. \A q \in Proc, c \in Address : q # p /\ pte[q][c] = None => pte'[q][c] = None
      BY SMTT(60), <2>13
    <3>3. \A q \in Proc : q # p => held'[q] = held[q] /\ state'[q] = state[q] /\ at'[q] = at[q] /\ dir'[q] = dir[q]
      BY ZenonT(60), <2>14, <3>1
    <3> QED
      BY ZenonT(60), <2>13, <2>14, <3>2, <3>3, PhasesRun
  <2> QED
    BY ZenonT(60), <2>15, <2>16, <2>17 DEF CInv
<1> QED
  BY ZenonT(60), <1>1, <1>2

\* What share_page does to the entries.
Shared(p, q, a) ==
    /\ pte' \in [Proc -> [Address -> Pte \cup {None}]]
    /\ pte'[p][a] \in Pte /\ pte'[q][a] = pte'[p][a]
    /\ pte'[p][a].frame = pte[q][a].frame /\ pte'[p][a].w = FALSE /\ pte'[p][a].dirty = pte[q][a].dirty
    /\ \A r \in Proc, b \in Address : <<r, b>> # <<p, a>> /\ <<r, b>> # <<q, a>> => pte'[r][b] = pte[r][b]

LEMMA SharedIs ==
    ASSUME MTypeOK, NEW p \in Proc, NEW q \in Proc, p # q, NEW a \in Address, Present(q, a), pte' = SharedBy(p, q, a)
    PROVE  Shared(p, q, a)
<1> DEFINE e == [pte[q][a] EXCEPT !.w = FALSE]
<1>1. pte \in [Proc -> [Address -> Pte \cup {None}]]
  BY ZenonT(60) DEF MTypeOK
<1>2. pte[q][a] \in Pte
  BY SMTT(60), <1>1 DEF Present
<1>3. e \in Pte /\ e.w = FALSE /\ e.frame = pte[q][a].frame /\ e.dirty = pte[q][a].dirty
  BY ZenonT(60), <1>2, WithBit
<1>4. pte' = [pte EXCEPT ![q][a] = e, ![p][a] = e]
  BY ZenonT(60) DEF SharedBy
<1> HIDE DEF e
<1>5. pte' \in [Proc -> [Address -> Pte \cup {None}]]
  <2> DEFINE E == Pte \cup {None}
  <2>1. pte \in [Proc -> [Address -> E]] /\ e \in E
    BY ZenonT(60), <1>1, <1>3
  <2>2. pte' \in [Proc -> [Address -> E]]
    <3> HIDE DEF E
    <3>1. PICK y : y = [pte EXCEPT ![q][a] = e]
      BY ZenonT(60)
    <3>2. y \in [Proc -> [Address -> E]]
      BY SMTT(60), <2>1, <3>1
    <3>3. pte' = [y EXCEPT ![p][a] = e]
      BY ZenonT(60), <1>4, <3>1
    <3> QED
      BY SMTT(60), <2>1, <3>2, <3>3
  <2> QED
    BY ZenonT(60), <2>2
<1>6. pte'[p][a] = e /\ pte'[q][a] = e
  BY SMTT(60), <1>1, <1>3, <1>4
<1>7. ASSUME NEW r \in Proc, NEW b \in Address, <<r, b>> # <<p, a>>, <<r, b>> # <<q, a>> PROVE pte'[r][b] = pte[r][b]
  BY SMTT(60), <1>1, <1>3, <1>4, <1>7
<1> QED
  BY ZenonT(60), <1>3, <1>5, <1>6, <1>7 DEF Shared

LEMMA SharePageSafe ==
    ASSUME CInv, NEW p \in Proc, NEW a \in Address, SharePage(p, a)
    PROVE  CInv'
<1>1. PICK q \in Sharers(p, a) : \E t \in TableIn(p, a, Free) :
          /\ Maps(p, a, t, pte[q][a].frame, mem_map[pte[q][a].frame] + 1)
          /\ pte' = SharedBy(p, q, a)
  BY ZenonT(60) DEF SharePage
<1>2. PICK t \in TableIn(p, a, Free) :
          /\ Maps(p, a, t, pte[q][a].frame, mem_map[pte[q][a].frame] + 1)
          /\ pte' = SharedBy(p, q, a)
  BY ZenonT(60), <1>1
<1>3. UNCHANGED <<memory, executable, state, at, held, buffer, kernel, view>> /\ state[p] = "run" /\ ~Present(p, a)
  BY ZenonT(60) DEF SharePage, Uses
<1>4. q \in Proc /\ q # p /\ Present(q, a)
  BY ZenonT(60) DEF Sharers
<1>5. MTypeOK /\ RestOK
  BY ZenonT(60), RestType DEF CInv
<1>6. Shared(p, q, a)
  BY ZenonT(60), <1>2, <1>4, <1>5, SharedIs
<1>7. PICK f \in Frame : f = pte[q][a].frame /\ FrameAt(q, a) = f
  BY ZenonT(60), <1>4, <1>5, FrameType
<1>8. mem_map[f] \in Nat /\ mem_map[f] >= 1
  BY ZenonT(60), <1>4, <1>7, PageUsed
<1>9. PICK n \in Nat : n = mem_map[f] + 1
  BY SMTT(60), <1>8
<1>10. Maps(p, a, t, f, n)
  BY ZenonT(60), <1>2, <1>7, <1>9
<1>11. /\ f \notin kernel
       /\ \A r \in Proc, u \in Table : dir[r][u] # f
       /\ \A r \in Proc : held[r] # f
  <2>1. ASSUME NEW r \in Proc, NEW u \in Table PROVE dir[r][u] # f
    <3>1. CASE dir[r][u] = None
      BY ZenonT(60), <3>1, NoneAssumption
    <3>2. CASE dir[r][u] # None
      <4>1. FrameAt(q, a) # dir[r][u]
        BY SMTT(60), <1>4, <3>2, TableApart
      <4> QED
        BY ZenonT(60), <1>7, <4>1
    <3> QED
      BY ZenonT(60), <3>1, <3>2
  <2>2. ASSUME NEW r \in Proc PROVE held[r] # f
    <3>1. CASE held[r] = None
      BY ZenonT(60), <3>1, NoneAssumption
    <3>2. CASE held[r] # None
      <4>1. FrameAt(q, a) # held[r]
        BY ZenonT(60), <1>4, <3>2, HeldApart
      <4> QED
        BY ZenonT(60), <1>7, <4>1
    <3> QED
      BY ZenonT(60), <3>1, <3>2
  <2>3. f \notin kernel
    BY ZenonT(60), <1>4, <1>7, KernelApart
  <2> QED
    BY ZenonT(60), <2>1, <2>2, <2>3
<1>12. t \in Frame /\ t # f /\ (dir[p][a[1]] = t \/ (dir[p][a[1]] = None /\ t \in Free))
  <2>1. Free \subseteq Free /\ f \notin Free
    BY SMTT(60), <1>8 DEF Free
  <2> QED
    BY ZenonT(60), <1>2, <1>11, <2>1, TableFrame
<1>13. FrameAt(p, a)' = f
  <2>1. pte'[p][a] # None /\ pte'[p][a].frame = f
    BY ZenonT(60), <1>6, <1>7, NoneAssumption DEF Shared
  <2> QED
    BY ZenonT(60), <2>1 DEF FrameAt
<1>14. ASSUME NEW r \in Proc, NEW b \in Address, <<r, b>> # <<p, a>> PROVE FrameAt(r, b)' = FrameAt(r, b)
  <2>1. CASE <<r, b>> = <<q, a>>
    <3>1. r = q /\ b = a
      BY SMTT(60), <2>1
    <3>2. pte'[q][a] # None /\ pte'[q][a].frame = f
      BY ZenonT(60), <1>6, <1>7, NoneAssumption DEF Shared
    <3>3. FrameAt(q, a)' = f
      BY ZenonT(60), <3>2 DEF FrameAt
    <3> QED
      BY ZenonT(60), <1>7, <3>1, <3>3
  <2>2. CASE <<r, b>> # <<q, a>>
    <3>1. pte'[r][b] = pte[r][b]
      BY ZenonT(60), <1>6, <1>14, <2>2 DEF Shared
    <3> QED
      BY SMTT(60), <3>1 DEF FrameAt
  <2> QED
    BY ZenonT(60), <2>1, <2>2
<1>15. CountIsUses' /\ Exclusive' /\ mem_map' \in [Frame -> Nat] /\ dir' \in [Proc -> [Table -> Frame \cup {None}]]
  <2>1. n = mem_map[f] + 1 + Is(held'[p], f) - Is(held[p], f)
    <3>1. held'[p] # f /\ held[p] # f
      BY ZenonT(60), <1>3, <1>11
    <3> QED
      BY SMTT(60), <1>8, <1>9, <3>1 DEF Is
  <2>2. kernel' = kernel /\ \A r \in Proc : held'[r] = held[r] /\ held'[r] # f
    BY ZenonT(60), <1>3, <1>11
  <2> QED
    <3>1. Enters(p, a, t, f, n)
      BY ZenonT(60), <1>3, <1>10, <1>11, <1>12, <1>13, <1>14, <2>1, <2>2 DEF Enters
    <3> QED
      BY ZenonT(60), <1>12, <3>1, EntersCounts
<1>16. pte' \in [Proc -> [Address -> Pte \cup {None}]]
  BY ZenonT(60), <1>6 DEF Shared
<1>17. MTypeOK'
  <2>1. RestOK'
    BY ZenonT(60), <1>3, <1>5 DEF RestOK
  <2>2. held' \in [Proc -> Frame \cup {None}] /\ kernel' \subseteq Frame
    BY ZenonT(60), <1>3, <1>5 DEF MTypeOK
  <2> QED
    BY ZenonT(60), <1>15, <1>16, <2>1, <2>2, TypeOfRest
<1>18. Phases'
  <2>1. held'[p] = None /\ state'[p] = "run"
    BY ZenonT(60), <1>3, RunHolds
  <2>2. \A r \in Proc : r # p => dir'[r] = dir[r]
    BY ZenonT(60), <1>10, OtherTables
  <2>3. ASSUME NEW r \in Proc, NEW b \in Address, r # p, pte[r][b] = None PROVE pte'[r][b] = None
    <3>1. <<r, b>> # <<p, a>> /\ <<r, b>> # <<q, a>>
      BY SMTT(60), <1>4, <2>3 DEF Present
    <3> QED
      BY ZenonT(60), <1>6, <2>3, <3>1 DEF Shared
  <2>4. \A r \in Proc : r # p => held'[r] = held[r] /\ state'[r] = state[r] /\ at'[r] = at[r] /\ dir'[r] = dir[r]
    BY ZenonT(60), <1>3, <2>2
  <2> QED
    BY ZenonT(60), <1>16, <2>1, <2>3, <2>4, PhasesRun
<1> QED
  BY ZenonT(60), <1>15, <1>17, <1>18 DEF CInv

\* fork.
LEMMA ForkSafe == ASSUME CInv, NEW p \in Proc, NEW q \in Proc, Fork(p, q) PROVE CInv' /\ Copies(p, q) /\ p # q
<1>1. state[p] = "run" /\ state[q] = "free"
  BY ZenonT(60) DEF Fork, InUser
<1>2. p # q
  BY SMTT(60), <1>1
<1>3. dir[q] = NoTables /\ pte[q] = NoPages /\ held[q] = None
  BY SMTT(60), <1>1 DEF CInv, Phases, Phase
<1>4. MTypeOK /\ RestOK
  BY ZenonT(60), RestType DEF CInv
<1>5. Copies(p, q)
  BY ZenonT(60), <1>2, <1>4, ForkCopies DEF Fork
<1>6. PICK new : NewTables(p, q, new)
  <2>1. PICK new \in [Tables(p) -> Free] :
            /\ \A t, u \in Tables(p) : new[t] = new[u] => t = u
            /\ dir' = [dir EXCEPT ![q] = [t \in Table |-> IF t \in Tables(p) THEN new[t] ELSE None]]
            /\ mem_map' = [f \in Frame |->
                              IF \E t \in Tables(p) : new[t] = f THEN 1
                              ELSE mem_map[f] + Cardinality(Pages(p, f))]
    BY ZenonT(60) DEF Fork
  <2>2. NewTables(p, q, new)
    BY ZenonT(60), <2>1 DEF NewTables
  <2> QED
    BY ZenonT(60), <2>2
<1>7. /\ executable' = [executable EXCEPT ![q] = executable[p]]
      /\ state' = [state EXCEPT ![q] = "run"]
      /\ view' = [view EXCEPT ![q] = view[p]]
      /\ UNCHANGED <<memory, at, held, buffer, kernel>>
  BY ZenonT(60) DEF Fork
<1>8. CountIsUses' /\ Exclusive' /\ mem_map' \in [Frame -> Nat] /\ dir' \in [Proc -> [Table -> Frame \cup {None}]]
  BY ZenonT(60), <1>2, <1>3, <1>5, <1>6, <1>7, ForkCounts
<1>9. pte' \in [Proc -> [Address -> Pte \cup {None}]]
  BY ZenonT(60), <1>5 DEF Copies
<1>10. MTypeOK'
  <2>1. executable' \in [Proc -> Executable \cup {None}]
    BY SMTT(60), <1>4, <1>7 DEF RestOK
  <2>2. state' \in [Proc -> {"free", "run", "load", "exec"}]
    BY SMTT(60), <1>4, <1>7 DEF RestOK
  <2>3. DOMAIN view' = Proc /\ \A r \in Proc : DOMAIN view'[r] = Address
    BY SMTT(60), <1>4, <1>7 DEF RestOK
  <2>4. RestOK'
    BY ZenonT(60), <1>4, <1>7, <2>1, <2>2, <2>3 DEF RestOK
  <2>5. held' \in [Proc -> Frame \cup {None}] /\ kernel' \subseteq Frame
    BY ZenonT(60), <1>4, <1>7 DEF MTypeOK
  <2> QED
    BY ZenonT(60), <1>8, <1>9, <2>4, <2>5, TypeOfRest
<1>11. Phases'
  <2>1. state'[q] = "run" /\ \A r \in Proc : r # q => state'[r] = state[r]
    BY SMTT(60), <1>4, <1>7 DEF RestOK
  <2>2. held'[q] = None
    BY ZenonT(60), <1>3, <1>7
  <2>3. \A r \in Proc : r # q => dir'[r] = dir[r]
    <3>1. dir' = [dir EXCEPT ![q] = [t \in Table |-> IF t \in Tables(p) THEN new[t] ELSE None]]
      BY ZenonT(60), <1>6 DEF NewTables
    <3> QED
      BY ZenonT(60), <1>4, <3>1 DEF MTypeOK
  <2>4. \A r \in Proc : r # q => held'[r] = held[r] /\ state'[r] = state[r] /\ at'[r] = at[r] /\ dir'[r] = dir[r]
    BY ZenonT(60), <1>7, <2>1, <2>3
  <2>5. ASSUME NEW r \in Proc, NEW b \in Address, r # q, pte[r][b] = None PROVE pte'[r][b] = None
    <3>1. CASE r = p
      BY ZenonT(60), <1>5, <2>5, <3>1 DEF Copies
    <3>2. CASE r # p
      BY ZenonT(60), <1>5, <2>5, <3>2 DEF Copies
    <3> QED
      BY ZenonT(60), <3>1, <3>2
  <2> QED
    BY ZenonT(60), <1>9, <2>1, <2>2, <2>4, <2>5, PhasesRun
<1> QED
  BY ZenonT(60), <1>2, <1>5, <1>8, <1>10, <1>11 DEF CInv

-----------------------------------------------------------------------------
LEMMA InitSafe == Init => CInv
<1> SUFFICES ASSUME Init PROVE CInv
  BY ZenonT(60)
<1>1. /\ mem_map = [f \in Frame |-> 0] /\ memory = [f \in Frame |-> 0] /\ dir = [p \in Proc |-> NoTables]
      /\ pte = [p \in Proc |-> NoPages] /\ executable = [p \in Proc |-> None] /\ state = [p \in Proc |-> "run"]
      /\ at = [p \in Proc |-> None] /\ held = [p \in Proc |-> None] /\ buffer = [p \in Proc |-> None]
      /\ kernel = {} /\ view = [p \in Proc |-> Blank]
  BY ZenonT(60) DEF Init
<1>2. NoTables \in [Table -> Frame \cup {None}] /\ NoPages \in [Address -> Pte \cup {None}] /\ DOMAIN Blank = Address
  BY SMTT(60) DEF NoTables, NoPages, Blank
<1>3. MTypeOK
  <2>1. mem_map \in [Frame -> Nat] /\ DOMAIN memory = Frame /\ kernel \subseteq Frame
    BY SMTT(60), <1>1
  <2>2. dir \in [Proc -> [Table -> Frame \cup {None}]] /\ pte \in [Proc -> [Address -> Pte \cup {None}]]
    BY ZenonT(60), <1>1, <1>2
  <2>3. /\ executable \in [Proc -> Executable \cup {None}] /\ state \in [Proc -> {"free", "run", "load", "exec"}]
        /\ at \in [Proc -> Address \cup {None}] /\ held \in [Proc -> Frame \cup {None}]
        /\ buffer \in [Proc -> Address \cup {None}]
    BY SMTT(60), <1>1
  <2>4. DOMAIN view = Proc /\ \A p \in Proc : DOMAIN view[p] = Address
    BY ZenonT(60), <1>1, <1>2
  <2> QED
    BY ZenonT(60), <2>1, <2>2, <2>3, <2>4 DEF MTypeOK
<1>4. Phases
  <2>1. ASSUME NEW p \in Proc PROVE Phase(p)
    <3>1. held[p] = None /\ state[p] = "run"
      BY ZenonT(60), <1>1
    <3> QED
      BY SMTT(60), <3>1 DEF Phase
  <2> QED
    BY ZenonT(60), <2>1 DEF Phases
<1>5. /\ \A p \in Proc, t \in Table : dir[p][t] = None
      /\ \A p \in Proc, a \in Address : pte[p][a] = None
      /\ \A p \in Proc : held[p] = None
  BY ZenonT(60), <1>1 DEF NoTables, NoPages
<1>6. Exclusive
  BY ZenonT(60), <1>1, <1>5 DEF Exclusive
<1>7. CountIsUses
  <2>1. ASSUME NEW f \in Frame
        PROVE  mem_map[f] = Cardinality(Mapped(f)) + Cardinality(InTable(f)) + Cardinality(Loading(f)) + Kernels(f)
    <3>1. f # None
      BY ZenonT(60), NoneAssumption
    <3>2. Mapped(f) = {}
      <4>1. ASSUME NEW u \in Proc \X Address PROVE u[2] \notin Pages(u[1], f)
        <5>1. u[1] \in Proc /\ u[2] \in Address
          BY SMTT(60), <4>1
        <5> QED
          BY ZenonT(60), <1>5, <5>1 DEF Pages, Present
      <4> QED
        BY ZenonT(60), <4>1 DEF Mapped
    <3>3. InTable(f) = {}
      <4>1. ASSUME NEW u \in Proc \X Table PROVE dir[u[1]][u[2]] # f
        <5>1. u[1] \in Proc /\ u[2] \in Table
          BY SMTT(60), <4>1
        <5> QED
          BY ZenonT(60), <1>5, <3>1, <5>1
      <4> QED
        BY ZenonT(60), <4>1 DEF InTable
    <3>4. Loading(f) = {}
      BY ZenonT(60), <1>5, <3>1 DEF Loading
    <3>5. Cardinality({}) = 0
      BY ZenonT(60), FS_EmptySet
    <3>6. mem_map[f] = 0 /\ Kernels(f) = 0
      BY ZenonT(60), <1>1 DEF Kernels
    <3> QED
      BY SMTT(60), <3>2, <3>3, <3>4, <3>5, <3>6
  <2> QED
    BY ZenonT(60), <2>1 DEF CountIsUses, Mapped, InTable, Loading, Kernels
<1> QED
  BY ZenonT(60), <1>3, <1>4, <1>6, <1>7 DEF CInv

\* The actions of a process at an address.
LEMMA AddressSafe ==
    ASSUME CInv, NEW p \in Proc, NEW a \in Address,
           \/ DoWpPage(p, a) \/ VerifyArea(p, a)
           \/ OutOfMemory(p, a) \/ GetEmptyPage(p, a) \/ SharePage(p, a) \/ StartLoad(p, a)
           \/ \E v \in Value : UserWrite(p, a, v)
    PROVE  CInv'
<1>1. buffer \in [Proc -> Address \cup {None}]
  BY ZenonT(60) DEF CInv, MTypeOK
<1>2. CASE DoWpPage(p, a)
  <2>1. CASE Exits(p)
    BY ZenonT(60), <2>1, ExitsSafe
  <2>2. CASE ~Exits(p)
    <3>1. un_wp_page(p, a) /\ Present(p, a) /\ UNCHANGED <<dir, executable, state, at, held, buffer, kernel, view>>
      BY ZenonT(60), <1>2, <2>2 DEF DoWpPage
    <3>2. Unprotected(p, a)
      BY ZenonT(60), <3>1, UnwpEffect
    <3> QED
      BY ZenonT(60), <1>1, <3>1, <3>2, UnprotectedSafe
  <2> QED
    BY ZenonT(60), <2>1, <2>2
<1>3. CASE VerifyArea(p, a)
  <2>1. CASE Exits(p)
    BY ZenonT(60), <2>1, ExitsSafe
  <2>2. CASE ~Exits(p)
    <3>1. /\ IF Present(p, a) /\ ~pte[p][a].w THEN un_wp_page(p, a) ELSE UNCHANGED <<mem_map, pte, memory>>
          /\ buffer' = [buffer EXCEPT ![p] = a]
          /\ UNCHANGED <<dir, executable, state, at, held, kernel, view>>
      BY ZenonT(60), <1>3, <2>2 DEF VerifyArea
    <3>2. buffer' \in [Proc -> Address \cup {None}]
      BY SMTT(60), <1>1, <3>1
    <3>3. CASE Present(p, a) /\ ~pte[p][a].w
      <4>1. un_wp_page(p, a)
        BY ZenonT(60), <3>1, <3>3
      <4>2. Unprotected(p, a)
        BY ZenonT(60), <3>3, <4>1, UnwpEffect
      <4> QED
        BY ZenonT(60), <3>1, <3>2, <3>3, <4>2, UnprotectedSafe
    <3>4. CASE ~(Present(p, a) /\ ~pte[p][a].w)
      <4>1. UNCHANGED <<mem_map, pte, memory>>
        BY ZenonT(60), <3>1, <3>4
      <4> QED
        BY ZenonT(60), <3>1, <3>2, <4>1, BufferSafe
    <3> QED
      BY ZenonT(60), <3>3, <3>4
  <2> QED
    BY ZenonT(60), <2>1, <2>2
<1>4. CASE OutOfMemory(p, a)
  BY ZenonT(60), <1>4, ExitsSafe DEF OutOfMemory
<1>5. CASE GetEmptyPage(p, a)
  BY ZenonT(60), <1>5, GetEmptyPageSafe
<1>6. CASE SharePage(p, a)
  BY ZenonT(60), <1>6, SharePageSafe
<1>7. CASE StartLoad(p, a)
  BY ZenonT(60), <1>7, StartLoadSafe
<1>8. ASSUME NEW v \in Value, UserWrite(p, a, v) PROVE CInv'
  <2>1. Present(p, a) /\ Writes(p, a, v) /\ UNCHANGED <<mem_map, dir, executable, state, at, held, buffer, kernel>>
    BY ZenonT(60), <1>8 DEF UserWrite
  <2> QED
    BY ZenonT(60), <1>1, <2>1, WritesSafe
<1> QED
  BY ZenonT(60), <1>2, <1>3, <1>4, <1>5, <1>6, <1>7, <1>8

LEMMA KernelWriteSafe == ASSUME CInv, NEW p \in Proc, NEW v \in Value, KernelWrite(p, v) PROVE CInv'
<1>1. buffer \in [Proc -> Address \cup {None}]
  BY ZenonT(60) DEF CInv, MTypeOK
<1>2. PICK a \in Address : a = buffer[p]
  BY ZenonT(60), <1>1 DEF KernelWrite
<1>3. /\ Present(p, a) /\ Writes(p, a, v) /\ buffer' = [buffer EXCEPT ![p] = None]
      /\ UNCHANGED <<mem_map, dir, executable, state, at, held, kernel>>
  BY ZenonT(60), <1>2 DEF KernelWrite
<1>4. buffer' \in [Proc -> Address \cup {None}]
  BY SMTT(60), <1>1, <1>3
<1> QED
  BY ZenonT(60), <1>3, <1>4, WritesSafe

LEMMA ForkFailsSafe ==
    ASSUME CInv, NEW p \in Proc, ForkFails(p)
    PROVE  CInv' /\ Protects(p) /\ \A q \in Proc, b \in Address : FrameAt(q, b)' = FrameAt(q, b)
<1>1. PICK copied : pte' = [pte EXCEPT ![p] = Protected(p, copied)]
  BY ZenonT(60) DEF ForkFails
<1>2. MTypeOK
  BY ZenonT(60) DEF CInv
<1>3. Protects(p)
  BY ZenonT(60), <1>1, <1>2, ProtectedIs
<1>4. UNCHANGED <<mem_map, memory, dir, executable, state, at, held, buffer, kernel, view>>
  BY ZenonT(60) DEF ForkFails
<1> QED
  BY ZenonT(60), <1>3, <1>4, ProtectsSafe

LEMMA ExecSafe == ASSUME CInv, NEW p \in Proc, NEW e \in Executable, Exec(p, e) PROVE CInv'
<1>1. held[p] = None
  BY ZenonT(60), RunHolds DEF Exec, InUser
<1>2. executable' \in [Proc -> Executable \cup {None}]
  BY SMTT(60) DEF Exec, CInv, MTypeOK
<1> QED
  BY ZenonT(60), <1>1, <1>2, NewMemorySafe DEF Exec

LEMMA ExecFreesSafe == ASSUME CInv, NEW p \in Proc, ExecFrees(p) PROVE CInv'
<1>1. held[p] = None
  BY ZenonT(60), RunHolds DEF ExecFrees
<1>2. executable' \in [Proc -> Executable \cup {None}]
  BY ZenonT(60) DEF ExecFrees, CInv, MTypeOK
<1> QED
  BY ZenonT(60), <1>1, <1>2, NewMemorySafe DEF ExecFrees

LEMMA NextSafe == CInv /\ [Next]_vars => CInv'
<1> SUFFICES ASSUME CInv, [Next]_vars PROVE CInv'
  BY ZenonT(60)
<1>1. CASE UNCHANGED vars
  <2>1. UNCHANGED <<mem_map, memory, dir, pte, executable, state, at, held, buffer, kernel, view>>
    BY ZenonT(60), <1>1 DEF vars
  <2>2. buffer' \in [Proc -> Address \cup {None}]
    BY ZenonT(60), <2>1 DEF CInv, MTypeOK
  <2> QED
    BY ZenonT(60), <2>1, <2>2, BufferSafe
<1>2. CASE Next
  <2>1. ASSUME NEW p \in Proc, NEW a \in Address,
               \/ DoWpPage(p, a) \/ VerifyArea(p, a)
               \/ OutOfMemory(p, a) \/ GetEmptyPage(p, a) \/ SharePage(p, a) \/ StartLoad(p, a)
               \/ \E v \in Value : UserWrite(p, a, v)
        PROVE  CInv'
    BY ZenonT(60), <2>1, AddressSafe
  <2>2. ASSUME NEW p \in Proc, NEW v \in Value, KernelWrite(p, v) PROVE CInv'
    BY ZenonT(60), <2>2, KernelWriteSafe
  <2>3. ASSUME NEW p \in Proc, EndLoad(p) \/ ForkFails(p) \/ ExecFrees(p) \/ Exit(p) PROVE CInv'
    BY ZenonT(60), <2>3, EndLoadSafe, ForkFailsSafe, ExecFreesSafe, ExitsSafe DEF Exit
  <2>4. ASSUME NEW p \in Proc, NEW q \in Proc, Fork(p, q) PROVE CInv'
    BY ZenonT(60), <2>4, ForkSafe
  <2>5. ASSUME NEW p \in Proc, NEW e \in Executable, Exec(p, e) \/ ExecCloses(p, e) PROVE CInv'
    BY ZenonT(60), <2>5, ExecSafe, ExecClosesSafe
  <2>6. CASE KernelTakes \/ KernelFrees
    BY ZenonT(60), <2>6, KernelTakesSafe, KernelFreesSafe
  <2> QED
    BY ZenonT(60), <1>2, <2>1, <2>2, <2>3, <2>4, <2>5, <2>6 DEF Next
<1> QED
  BY ZenonT(60), <1>1, <1>2

\* However faults, loads, forks, execs, exits and failures of them interleave,
\* mem_map is exactly the number of entries, tables, loads and kernel pages that
\* use each frame, for any number of processes, frames and tables.
THEOREM CountIsUsesHolds == Spec => []CountIsUses
<1>1. CInv => CountIsUses
  BY ZenonT(60) DEF CInv
<1> QED
  BY InitSafe, NextSafe, <1>1, PTL DEF Spec
=============================================================================
