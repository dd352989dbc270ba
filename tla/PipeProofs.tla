----------------------------- MODULE PipeProofs -----------------------------
(***************************************************************************)
(* For any page size, any readers and writers and any counts: a pipe whose *)
(* copies do not fault implements Fifo.  For any set of tasks: sleep_on    *)
(* and wake_up, which pipes and all the kernel wait with, implement a wait *)
(* set.                                                                    *)
(***************************************************************************)
EXTENDS Pipe, SequenceTheorems, TLAPS

\* What the theorems assume of the constants.
Sizes ==
    /\ PAGE_SIZE \in Nat /\ PAGE_SIZE > 1
    /\ MaxCount \in Nat
    /\ Reader \cap Writer = {}

\* What may be on the page: bytes, and the zeros of a fresh one.
Cell == Byte \cup {0}

Pos == 0..(PAGE_SIZE - 1)

\* The inductive invariant: without faults no copy is put off, and the page, the
\* two positions and what the calls have moved keep their types.
PInv ==
    faults = {} =>
        /\ page \in [Pos -> Cell]
        /\ head \in Pos /\ tail \in Pos
        /\ count \in [Proc -> Nat]
        /\ got \in [Reader -> Seq(Cell)]
        /\ sent \in [Writer -> Seq(Byte)]
        /\ pc \in [Proc -> {"user", "read", "write", "closed"}]

\* A position that has run at most once past the end of the page.
LEMMA Wrap ==
    ASSUME Sizes, NEW x \in Nat, x < 2 * PAGE_SIZE
    PROVE  x % PAGE_SIZE = IF x < PAGE_SIZE THEN x ELSE x - PAGE_SIZE
  BY SMTT(60) DEF Sizes

\* PIPE_SIZE and Contents for a page, a head and a tail: of this state or the next.
SizeOf(h, t) == (h + PAGE_SIZE - t) % PAGE_SIZE
Ring(pg, h, t) == [n \in 1..SizeOf(h, t) |-> pg[(t + n - 1) % PAGE_SIZE]]

LEMMA SizeFacts ==
    ASSUME Sizes, NEW h \in Pos, NEW t \in Pos
    PROVE  /\ SizeOf(h, t) = IF h >= t THEN h - t ELSE h + PAGE_SIZE - t
           /\ SizeOf(h, t) \in 0..(PAGE_SIZE - 1)
<1>1. h + PAGE_SIZE - t \in Nat /\ h + PAGE_SIZE - t < 2 * PAGE_SIZE
  BY SMTT(60) DEF Sizes, Pos
<1> QED
  BY SMTT(60), <1>1, Wrap DEF Sizes, Pos, SizeOf

\* The place of the n-th byte behind position t.
Place(t, n) == IF t + n - 1 < PAGE_SIZE THEN t + n - 1 ELSE t + n - 1 - PAGE_SIZE

\* The bytes in the ring are a sequence.
LEMMA RingFacts ==
    ASSUME Sizes, NEW h \in Pos, NEW t \in Pos, NEW pg \in [Pos -> Cell]
    PROVE  /\ Ring(pg, h, t) \in Seq(Cell)
           /\ Len(Ring(pg, h, t)) = SizeOf(h, t)
           /\ \A n \in 1..SizeOf(h, t) : Ring(pg, h, t)[n] = pg[Place(t, n)]
<1>1. SizeOf(h, t) \in 0..(PAGE_SIZE - 1) /\ SizeOf(h, t) \in Nat
  BY SMTT(60), SizeFacts DEF Sizes
<1>2. ASSUME NEW n \in 1..SizeOf(h, t)
      PROVE  (t + n - 1) % PAGE_SIZE = Place(t, n) /\ Place(t, n) \in Pos
  <2>1. t + n - 1 \in Nat /\ t + n - 1 < 2 * PAGE_SIZE
    BY SMTT(60), <1>1 DEF Pos, Sizes
  <2>2. (t + n - 1) % PAGE_SIZE = Place(t, n)
    <3> DEFINE x == t + n - 1
    <3>1. x \in Nat /\ x < 2 * PAGE_SIZE
      BY ZenonT(60), <2>1
    <3>2. Place(t, n) = IF x < PAGE_SIZE THEN x ELSE x - PAGE_SIZE
      BY SMTT(60), <1>1, <2>1 DEF Place, Pos, Sizes
    <3> HIDE DEF x
    <3>3. x % PAGE_SIZE = Place(t, n)
      BY ZenonT(60), <3>1, <3>2, Wrap
    <3> QED
      BY ZenonT(60), <3>3 DEF x
  <2>3. Place(t, n) \in Pos
    BY SMTT(60), <2>1 DEF Pos, Sizes, Place
  <2> QED
    BY ZenonT(60), <2>2, <2>3
<1>3. \A n \in 1..SizeOf(h, t) : pg[(t + n - 1) % PAGE_SIZE] \in Cell
  BY ZenonT(60), <1>2
<1>4. Ring(pg, h, t) \in Seq(Cell) /\ Len(Ring(pg, h, t)) = SizeOf(h, t)
  BY SMTT(60), <1>1, <1>3 DEF Ring
<1>5. \A n \in 1..SizeOf(h, t) : Ring(pg, h, t)[n] = pg[(t + n - 1) % PAGE_SIZE]
  BY ZenonT(60) DEF Ring
<1> QED
  BY ZenonT(60), <1>2, <1>4, <1>5

\* The least of the three bounds of a chunk.
LEMMA ChunkFacts ==
    ASSUME NEW a \in Nat, NEW b \in Nat, NEW c \in Nat
    PROVE  /\ Min({a, b, c}) \in {a, b, c}
           /\ Min({a, b, c}) <= a /\ Min({a, b, c}) <= b /\ Min({a, b, c}) <= c
<1>1. \E x \in {a, b, c} : \A y \in {a, b, c} : x <= y
  BY SMTT(60)
<1> QED
  BY SMTT(60), <1>1 DEF Min

\* A position that has moved by a chunk.
LEMMA AdvancedFacts ==
    ASSUME Sizes, NEW t \in Pos, NEW n \in Nat, n <= PAGE_SIZE - t
    PROVE  /\ Advanced(t, n) = IF t + n < PAGE_SIZE THEN t + n ELSE t + n - PAGE_SIZE
           /\ Advanced(t, n) \in Pos
<1>1. t + n \in Nat /\ t + n < 2 * PAGE_SIZE
  BY SMTT(60) DEF Pos, Sizes
<1> QED
  BY SMTT(60), <1>1, Wrap DEF Advanced, Pos, Sizes

\* A chunk at the tail is the front of the contents, and what is left is the rest.
LEMMA ReadIsFront ==
    ASSUME Sizes, NEW h \in Pos, NEW t \in Pos, NEW pg \in [Pos -> Cell],
           NEW n \in Nat, n <= SizeOf(h, t), n <= PAGE_SIZE - t
    PROVE  LET items == Ring(pg, h, t)
               bytes == [i \in 1..n |-> pg[t + i - 1]]
           IN  /\ bytes = SubSeq(items, 1, n)
               /\ bytes \in Seq(Cell)
               /\ Ring(pg, h, Advanced(t, n)) = SubSeq(items, n + 1, Len(items))
<1> DEFINE items == Ring(pg, h, t)
           bytes == [i \in 1..n |-> pg[t + i - 1]]
           u == Advanced(t, n)
           rest == Ring(pg, h, u)
<1>1. SizeOf(h, t) \in 0..(PAGE_SIZE - 1)
  BY ZenonT(60), SizeFacts
<1>2. u \in Pos /\ u = IF t + n < PAGE_SIZE THEN t + n ELSE t + n - PAGE_SIZE
  BY ZenonT(60), AdvancedFacts
<1>3. /\ items \in Seq(Cell) /\ Len(items) = SizeOf(h, t)
      /\ \A k \in 1..SizeOf(h, t) : items[k] = pg[Place(t, k)]
  BY ZenonT(60), RingFacts
<1>4. /\ rest \in Seq(Cell) /\ Len(rest) = SizeOf(h, u)
      /\ \A k \in 1..SizeOf(h, u) : rest[k] = pg[Place(u, k)]
  <2> HIDE DEF u
  <2> QED
    BY ZenonT(60), <1>2, RingFacts
<1>5. SizeOf(h, u) = SizeOf(h, t) - n
  <2> HIDE DEF u
  <2>1. SizeOf(h, u) = IF h >= u THEN h - u ELSE h + PAGE_SIZE - u
    BY ZenonT(60), <1>2, SizeFacts
  <2>2. SizeOf(h, t) = IF h >= t THEN h - t ELSE h + PAGE_SIZE - t
    BY ZenonT(60), SizeFacts
  <2> QED
    BY SMTT(60), <1>1, <1>2, <2>1, <2>2 DEF Pos, Sizes
<1>6. bytes \in Seq(Cell) /\ Len(bytes) = n
  <2>1. \A i \in 1..n : pg[t + i - 1] \in Cell
    BY SMTT(60) DEF Pos, Sizes
  <2> QED
    BY SMTT(60), <2>1
<1>7. bytes = SubSeq(items, 1, n)
  <2> HIDE DEF items
  <2>1. /\ SubSeq(items, 1, n) \in Seq(Cell) /\ Len(SubSeq(items, 1, n)) = n
        /\ \A i \in 1..n : SubSeq(items, 1, n)[i] = items[i]
    BY SMTT(60), <1>1, <1>3
  <2>2. \A i \in 1..n : bytes[i] = items[i]
    BY SMTT(60), <1>1, <1>3 DEF Place, Pos, Sizes
  <2>3. \A i \in 1..Len(bytes) : bytes[i] = SubSeq(items, 1, n)[i]
    BY ZenonT(60), <1>6, <2>1, <2>2
  <2> HIDE DEF bytes
  <2> QED
    BY ZenonT(60), <1>6, <2>1, <2>3, SeqEqual
<1>8. rest = SubSeq(items, n + 1, Len(items))
  <2> HIDE DEF items, rest, u
  <2> DEFINE sub == SubSeq(items, n + 1, Len(items))
  <2>1. /\ sub \in Seq(Cell) /\ Len(sub) = SizeOf(h, t) - n
        /\ \A i \in 1..(SizeOf(h, t) - n) : sub[i] = items[n + i]
    BY SMTT(60), <1>1, <1>3
  <2> HIDE DEF sub
  <2>2. ASSUME NEW i \in 1..(SizeOf(h, t) - n)
        PROVE  rest[i] = items[n + i]
    <3>1. n + i \in 1..SizeOf(h, t) /\ i \in 1..SizeOf(h, u)
      BY SMTT(60), <1>1, <1>5
    <3>2. Place(u, i) = Place(t, n + i)
      BY SMTT(60), <1>1, <1>2, <3>1 DEF Place, Pos, Sizes
    <3> QED
      BY ZenonT(60), <1>3, <1>4, <3>1, <3>2
  <2>3. Len(rest) = Len(sub) /\ \A i \in 1..Len(rest) : rest[i] = sub[i]
    BY ZenonT(60), <1>4, <1>5, <2>1, <2>2
  <2>4. rest = sub
    BY ZenonT(60), <1>4, <2>1, <2>3, SeqEqual
  <2> QED
    BY ZenonT(60), <2>4 DEF sub
<1> QED
  BY ZenonT(60), <1>6, <1>7, <1>8

\* new is the page pg with n bytes written from h on.
Overlaid(new, pg, h, n, bytes) ==
    \A k \in Pos : new[k] = IF k >= h /\ k < h + n THEN bytes[k - h + 1] ELSE pg[k]

\* Bytes written at the head come behind the contents.
LEMMA WriteIsBack ==
    ASSUME Sizes, NEW h \in Pos, NEW t \in Pos, NEW pg \in [Pos -> Cell],
           NEW n \in Nat, n <= PAGE_SIZE - 1 - SizeOf(h, t), n <= PAGE_SIZE - h,
           NEW bytes \in [1..n -> Byte],
           NEW new \in [Pos -> Cell], Overlaid(new, pg, h, n, bytes)
    PROVE  Ring(new, Advanced(h, n), t) = Ring(pg, h, t) \o bytes
<1> DEFINE items == Ring(pg, h, t)
           u == Advanced(h, n)
           more == Ring(new, u, t)
           both == items \o bytes
<1>1. SizeOf(h, t) \in 0..(PAGE_SIZE - 1)
  BY ZenonT(60), SizeFacts
<1>2. u \in Pos /\ u = IF h + n < PAGE_SIZE THEN h + n ELSE h + n - PAGE_SIZE
  BY ZenonT(60), AdvancedFacts
<1>3. /\ items \in Seq(Cell) /\ Len(items) = SizeOf(h, t)
      /\ \A k \in 1..SizeOf(h, t) : items[k] = pg[Place(t, k)]
  BY ZenonT(60), RingFacts
<1>4. /\ more \in Seq(Cell) /\ Len(more) = SizeOf(u, t)
      /\ \A k \in 1..SizeOf(u, t) : more[k] = new[Place(t, k)]
  <2> HIDE DEF u
  <2> QED
    BY ZenonT(60), <1>2, RingFacts
<1>5. SizeOf(h, t) = IF h >= t THEN h - t ELSE h + PAGE_SIZE - t
  BY ZenonT(60), SizeFacts
<1>6. SizeOf(u, t) = SizeOf(h, t) + n
  <2> HIDE DEF u
  <2>1. SizeOf(u, t) = IF u >= t THEN u - t ELSE u + PAGE_SIZE - t
    BY ZenonT(60), <1>2, SizeFacts
  <2> QED
    BY SMTT(60), <1>1, <1>2, <1>5, <2>1 DEF Pos, Sizes
<1>7. bytes \in Seq(Cell) /\ Len(bytes) = n
  BY SMTT(60) DEF Cell
<1> HIDE DEF items, more, u
<1>8. /\ both \in Seq(Cell) /\ Len(both) = SizeOf(h, t) + n
      /\ \A k \in 1..(SizeOf(h, t) + n) :
             both[k] = IF k <= SizeOf(h, t) THEN items[k] ELSE bytes[k - SizeOf(h, t)]
  <2>1. /\ both \in Seq(Cell) /\ Len(both) = Len(items) + Len(bytes)
        /\ \A k \in 1..(Len(items) + Len(bytes)) :
               both[k] = IF k <= Len(items) THEN items[k] ELSE bytes[k - Len(items)]
    BY ZenonT(60), <1>3, <1>7, ConcatProperties
  <2> QED
    BY ZenonT(60), <1>3, <1>7, <2>1
<1> HIDE DEF both
<1>9. ASSUME NEW k \in 1..(SizeOf(h, t) + n)
      PROVE  more[k] = both[k]
  <2>1. more[k] = new[Place(t, k)]
    BY ZenonT(60), <1>4, <1>6
  <2>2. CASE k <= SizeOf(h, t)
    <3>1. k \in 1..SizeOf(h, t)
      BY SMTT(60), <1>1, <2>2
    <3>2. Place(t, k) \in Pos /\ ~(Place(t, k) >= h /\ Place(t, k) < h + n)
      BY SMTT(60), <1>1, <1>5, <3>1 DEF Place, Pos, Sizes
    <3>3. new[Place(t, k)] = pg[Place(t, k)]
      BY ZenonT(60), <3>2 DEF Overlaid
    <3> QED
      BY ZenonT(60), <1>3, <1>8, <2>1, <2>2, <3>1, <3>3
  <2>3. CASE ~(k <= SizeOf(h, t))
    <3>1. /\ Place(t, k) \in Pos /\ Place(t, k) >= h /\ Place(t, k) < h + n
          /\ Place(t, k) - h + 1 = k - SizeOf(h, t)
      BY SMTT(60), <1>1, <1>5, <2>3 DEF Place, Pos, Sizes
    <3>2. new[Place(t, k)] = bytes[k - SizeOf(h, t)]
      BY ZenonT(60), <3>1 DEF Overlaid
    <3> QED
      BY ZenonT(60), <1>8, <2>1, <2>3, <3>2
  <2> QED
    BY ZenonT(60), <2>2, <2>3
<1>10. Len(more) = Len(both) /\ \A k \in 1..Len(more) : more[k] = both[k]
  BY ZenonT(60), <1>4, <1>6, <1>8, <1>9
<1>11. more = both
  BY ZenonT(60), <1>4, <1>8, <1>10, SeqEqual
<1> QED
  BY ZenonT(60), <1>11 DEF more, both, u, items

-----------------------------------------------------------------------------
\* What a step must do when no copy faults: keep the invariant and be one of Fifo.
Good == PInv' /\ [Queue!Next]_(Queue!vars)

\* A step that moves no byte is none of Fifo.
LEMMA StutterGood ==
    ASSUME PInv, faults' = faults, count' \in [Proc -> Nat],
           pc' \in [Proc -> {"user", "read", "write", "closed"}],
           UNCHANGED <<page, head, tail, got, sent>>
    PROVE  Good
<1>1. PInv'
  BY ZenonT(60) DEF PInv
<1>2. Contents' = Contents
  BY ZenonT(60) DEF Contents, PIPE_SIZE
<1>3. UNCHANGED Queue!vars
  BY ZenonT(60), <1>2 DEF Queue!vars
<1> QED
  BY ZenonT(60), <1>1, <1>3 DEF Good

\* The end of a call of read_pipe or write_pipe.
LEMMA LeavesGood ==
    ASSUME Sizes, PInv, faults = {}, faults' = {}, NEW p \in Proc, Leaves(p),
           UNCHANGED <<page, head, tail>>
    PROVE  Good
<1>1. /\ count' = [count EXCEPT ![p] = 0] /\ pc' = [pc EXCEPT ![p] = "user"]
      /\ got' = [q \in Reader |-> IF q = p THEN <<>> ELSE got[q]]
      /\ sent' = [q \in Writer |-> IF q = p THEN <<>> ELSE sent[q]]
  BY ZenonT(60) DEF Leaves, Forgotten, Goto
<1>2. /\ count \in [Proc -> Nat] /\ got \in [Reader -> Seq(Cell)] /\ sent \in [Writer -> Seq(Byte)]
      /\ pc \in [Proc -> {"user", "read", "write", "closed"}]
      /\ page \in [Pos -> Cell] /\ head \in Pos /\ tail \in Pos
  BY ZenonT(60) DEF PInv
<1>3. /\ count' \in [Proc -> Nat] /\ pc' \in [Proc -> {"user", "read", "write", "closed"}]
      /\ got' \in [Reader -> Seq(Cell)] /\ sent' \in [Writer -> Seq(Byte)]
  BY SMTT(60), <1>1, <1>2
<1>4. PInv'
  BY ZenonT(60), <1>2, <1>3 DEF PInv
<1>5. Contents' = Contents
  BY ZenonT(60) DEF Contents, PIPE_SIZE
<1>6. CASE p \in Reader
  <2>1. sent' = sent /\ got' = [got EXCEPT ![p] = <<>>]
    <3>1. p \notin Writer
      BY ZenonT(60), <1>6 DEF Sizes
    <3> QED
      BY ZenonT(60), <1>1, <1>2, <3>1
  <2>2. Queue!EndGet(p)
    BY ZenonT(60), <1>5, <2>1 DEF Queue!EndGet
  <2> QED
    BY ZenonT(60), <1>4, <1>6, <2>2 DEF Good, Queue!Next
<1>7. CASE p \in Writer
  <2>1. got' = got /\ sent' = [sent EXCEPT ![p] = <<>>]
    <3>1. p \notin Reader
      BY ZenonT(60), <1>7 DEF Sizes
    <3> QED
      BY ZenonT(60), <1>1, <1>2, <3>1
  <2>2. Queue!EndPut(p)
    BY ZenonT(60), <1>5, <2>1 DEF Queue!EndPut
  <2> QED
    BY ZenonT(60), <1>4, <1>7, <2>2 DEF Good, Queue!Next
<1> QED
  BY ZenonT(60), <1>6, <1>7 DEF Proc

\* A chunk of read_pipe takes the front of the queue.
LEMMA ReadChunkGood ==
    ASSUME Sizes, PInv, faults = {}, faults' = {}, NEW p \in Reader, ReadChunk(p)
    PROVE  Good
<1> DEFINE chars == Chunk(tail, PIPE_SIZE, count[p])
           bytes == [n \in 1..chars |-> page[tail + n - 1]]
<1>1. /\ count[p] > 0 /\ PIPE_SIZE # 0
      /\ count' = [count EXCEPT ![p] = @ - chars]
      /\ tail' = Advanced(tail, chars)
      /\ got' = [got EXCEPT ![p] = @ \o bytes]
      /\ pc' = [pc EXCEPT ![p] = "read"]
      /\ UNCHANGED <<page, head, sent>>
  BY ZenonT(60) DEF ReadChunk, Goto
<1>2. /\ count \in [Proc -> Nat] /\ got \in [Reader -> Seq(Cell)] /\ sent \in [Writer -> Seq(Byte)]
      /\ pc \in [Proc -> {"user", "read", "write", "closed"}]
      /\ page \in [Pos -> Cell] /\ head \in Pos /\ tail \in Pos
  BY ZenonT(60) DEF PInv
<1>3. PIPE_SIZE = SizeOf(head, tail) /\ Contents = Ring(page, head, tail)
  BY ZenonT(60) DEF PIPE_SIZE, SizeOf, Contents, Ring
<1>4. PIPE_SIZE \in 1..(PAGE_SIZE - 1) /\ count[p] \in Nat \ {0} /\ PAGE_SIZE - tail \in Nat \ {0}
  <2>1. SizeOf(head, tail) \in 0..(PAGE_SIZE - 1)
    BY ZenonT(60), <1>2, SizeFacts
  <2>2. count[p] \in Nat
    BY ZenonT(60), <1>2 DEF Proc
  <2> QED
    BY SMTT(60), <1>1, <1>2, <1>3, <2>1, <2>2 DEF Pos, Sizes
<1>5. /\ chars \in 1..PIPE_SIZE /\ chars \in Nat /\ chars <= count[p]
      /\ chars <= PIPE_SIZE /\ chars <= PAGE_SIZE - tail
  <2>1. /\ chars \in {PAGE_SIZE - tail, count[p], PIPE_SIZE}
        /\ chars <= PAGE_SIZE - tail /\ chars <= count[p] /\ chars <= PIPE_SIZE
    <3>1. PAGE_SIZE - tail \in Nat /\ count[p] \in Nat /\ PIPE_SIZE \in Nat
      BY SMTT(60), <1>4
    <3> QED
      BY ZenonT(60), <3>1, ChunkFacts DEF Chunk
  <2> HIDE DEF chars
  <2> QED
    BY SMTT(60), <1>4, <2>1
<1> HIDE DEF chars
<1>6. /\ bytes = SubSeq(Contents, 1, chars) /\ bytes \in Seq(Cell)
      /\ Ring(page, head, Advanced(tail, chars)) = SubSeq(Contents, chars + 1, Len(Contents))
      /\ Advanced(tail, chars) \in Pos
  BY ZenonT(60), <1>2, <1>3, <1>5, ReadIsFront, AdvancedFacts
<1>7. Contents' = SubSeq(Contents, chars + 1, Len(Contents))
  <2>1. Contents' = Ring(page', head', tail')
    BY ZenonT(60) DEF PIPE_SIZE, SizeOf, Contents, Ring
  <2> QED
    BY ZenonT(60), <1>1, <1>6, <2>1
<1>8. chars \in 1..Len(Contents)
  BY ZenonT(60), <1>2, <1>3, <1>5, RingFacts
<1> HIDE DEF bytes
<1>9. PInv'
  <2>1. got[p] \o bytes \in Seq(Cell)
    <3>1. got[p] \in Seq(Cell)
      BY ZenonT(60), <1>2
    <3> QED
      BY ZenonT(60), <1>6, <3>1, ConcatProperties
  <2>2. count[p] - chars \in Nat
    BY SMTT(60), <1>4, <1>5
  <2>3. got' \in [Reader -> Seq(Cell)]
    BY ZenonT(60), <1>1, <1>2, <2>1
  <2>4. count' \in [Proc -> Nat] /\ pc' \in [Proc -> {"user", "read", "write", "closed"}]
    BY ZenonT(60), <1>1, <1>2, <2>2
  <2> QED
    BY ZenonT(60), <1>1, <1>2, <1>6, <2>3, <2>4 DEF PInv
<1>10. Queue!Get(p, chars)
  BY ZenonT(60), <1>1, <1>6, <1>7 DEF Queue!Get
<1> QED
  BY ZenonT(60), <1>8, <1>9, <1>10 DEF Good, Queue!Next

\* A chunk of write_pipe goes to the back of the queue, which has room for it.
LEMMA WriteChunkGood ==
    ASSUME Sizes, PInv, faults = {}, faults' = {}, NEW p \in Writer, WriteChunk(p)
    PROVE  Good
<1> DEFINE room == PAGE_SIZE - 1 - PIPE_SIZE
           chars == Chunk(head, room, count[p])
<1>1. PICK bytes \in [1..chars -> Written] :
      /\ count[p] > 0 /\ PIPE_SIZE # PAGE_SIZE - 1
      /\ count' = [count EXCEPT ![p] = @ - chars]
      /\ head' = Advanced(head, chars)
      /\ sent' = [sent EXCEPT ![p] = @ \o bytes]
      /\ page' = Filled(head, bytes)
      /\ pc' = [pc EXCEPT ![p] = "write"]
      /\ UNCHANGED <<tail, got>>
  BY ZenonT(60) DEF WriteChunk, Goto
<1>2. /\ count \in [Proc -> Nat] /\ got \in [Reader -> Seq(Cell)] /\ sent \in [Writer -> Seq(Byte)]
      /\ pc \in [Proc -> {"user", "read", "write", "closed"}]
      /\ page \in [Pos -> Cell] /\ head \in Pos /\ tail \in Pos
  BY ZenonT(60) DEF PInv
<1>3. PIPE_SIZE = SizeOf(head, tail) /\ Contents = Ring(page, head, tail)
  BY ZenonT(60) DEF PIPE_SIZE, SizeOf, Contents, Ring
<1>4. /\ PIPE_SIZE \in 0..(PAGE_SIZE - 2) /\ room \in Nat \ {0}
      /\ count[p] \in Nat \ {0} /\ PAGE_SIZE - head \in Nat \ {0}
  <2>1. SizeOf(head, tail) \in 0..(PAGE_SIZE - 1)
    BY ZenonT(60), <1>2, SizeFacts
  <2>2. count[p] \in Nat
    BY ZenonT(60), <1>2 DEF Proc
  <2> QED
    BY SMTT(60), <1>1, <1>2, <1>3, <2>1, <2>2 DEF Pos, Sizes
<1>5. /\ chars \in Nat \ {0} /\ chars <= count[p] /\ chars <= room /\ chars <= PAGE_SIZE - head
  <2>1. /\ chars \in {PAGE_SIZE - head, count[p], room}
        /\ chars <= PAGE_SIZE - head /\ chars <= count[p] /\ chars <= room
    <3>1. PAGE_SIZE - head \in Nat /\ count[p] \in Nat /\ room \in Nat
      BY SMTT(60), <1>4
    <3> QED
      BY ZenonT(60), <3>1, ChunkFacts DEF Chunk
  <2> HIDE DEF chars, room
  <2> QED
    BY SMTT(60), <1>4, <2>1
<1>6. bytes \in [1..chars -> Byte]
  BY ZenonT(60) DEF Written
<1> HIDE DEF chars
<1>7. bytes \in Seq(Byte) /\ Len(bytes) = chars
  BY SMTT(60), <1>5, <1>6
<1>8. /\ page' \in [Pos -> Cell]
      /\ Overlaid(page', page, head, chars, bytes)
  <2>1. page' = [k \in Pos |-> IF k >= head /\ k < head + chars
                               THEN bytes[k - head + 1] ELSE page[k]]
    BY ZenonT(60), <1>1, <1>7 DEF Filled, Pos
  <2>2. ASSUME NEW k \in Pos, k >= head /\ k < head + chars
        PROVE  bytes[k - head + 1] \in Cell
    <3>1. k - head + 1 \in 1..chars
      BY SMTT(60), <1>2, <1>5, <2>2 DEF Pos
    <3> QED
      BY ZenonT(60), <1>6, <3>1 DEF Cell
  <2> QED
    BY ZenonT(60), <1>2, <2>1, <2>2 DEF Overlaid
<1>9. Contents' = Contents \o bytes
  <2>1. Contents' = Ring(page', head', tail')
    BY ZenonT(60) DEF PIPE_SIZE, SizeOf, Contents, Ring
  <2>2. chars \in Nat /\ chars <= PAGE_SIZE - 1 - SizeOf(head, tail)
    BY ZenonT(60), <1>3, <1>5
  <2>3. Ring(page', Advanced(head, chars), tail) = Ring(page, head, tail) \o bytes
    <3>1. chars <= PAGE_SIZE - head
      BY ZenonT(60), <1>5
    <3>2. head \in Pos /\ tail \in Pos /\ page \in [Pos -> Cell]
      BY ZenonT(60), <1>2
    <3> QED
      BY SMTT(60), <1>6, <1>8, <2>2, <3>1, <3>2, WriteIsBack
  <2> QED
    BY ZenonT(60), <1>1, <1>3, <2>1, <2>3
<1>10. Len(Contents) + Len(bytes) <= PAGE_SIZE - 1
  <2>1. Len(Contents) = PIPE_SIZE
    BY ZenonT(60), <1>2, <1>3, RingFacts
  <2> QED
    BY SMTT(60), <1>4, <1>5, <1>7, <2>1 DEF Sizes
<1>11. PInv'
  <2>1. sent[p] \o bytes \in Seq(Byte)
    <3>1. sent[p] \in Seq(Byte)
      BY ZenonT(60), <1>2
    <3> QED
      BY ZenonT(60), <1>7, <3>1, ConcatProperties
  <2>2. count[p] - chars \in Nat
    BY SMTT(60), <1>4, <1>5
  <2>3. sent' \in [Writer -> Seq(Byte)]
    BY ZenonT(60), <1>1, <1>2, <2>1
  <2>4. count' \in [Proc -> Nat] /\ pc' \in [Proc -> {"user", "read", "write", "closed"}]
    BY ZenonT(60), <1>1, <1>2, <2>2
  <2>5. head' \in Pos
    BY ZenonT(60), <1>1, <1>2, <1>5, AdvancedFacts
  <2>6. tail' \in Pos /\ got' \in [Reader -> Seq(Cell)]
    BY ZenonT(60), <1>1, <1>2
  <2> QED
    BY ZenonT(60), <1>8, <2>3, <2>4, <2>5, <2>6 DEF PInv
<1>12. Queue!Put(p, bytes)
  BY ZenonT(60), <1>1, <1>9, <1>10 DEF Queue!Put
<1>13. chars \in 1..(PAGE_SIZE - 1)
  BY SMTT(60), <1>4, <1>5 DEF Sizes
<1> QED
  BY ZenonT(60), <1>6, <1>11, <1>12, <1>13 DEF Good, Queue!Next

\* sys_pipe, once both ends are closed, starts with an empty queue.
LEMMA SysPipeGood ==
    ASSUME Sizes, PInv, faults = {}, faults' = {}, SysPipe
    PROVE  Good
<1>1. /\ page' = [n \in Pos |-> 0] /\ head' = 0 /\ tail' = 0
      /\ pc' = [p \in Proc |-> "user"] /\ UNCHANGED <<count, got, sent>>
  BY ZenonT(60) DEF SysPipe, Pos
<1>2. 0 \in Pos /\ page' \in [Pos -> Cell]
  BY SMTT(60), <1>1 DEF Pos, Sizes, Cell
<1>3. PInv'
  BY ZenonT(60), <1>1, <1>2 DEF PInv
<1>4. Contents' = <<>>
  <2>1. Contents' = Ring(page', 0, 0)
    <3>1. Contents' = Ring(page', head', tail')
      BY ZenonT(60) DEF PIPE_SIZE, SizeOf, Contents, Ring
    <3> QED
      BY ZenonT(60), <1>1, <3>1
  <2>2. SizeOf(0, 0) = 0
    BY SMTT(60), <1>2, SizeFacts
  <2>3. Ring(page', 0, 0) \in Seq(Cell) /\ Len(Ring(page', 0, 0)) = 0
    BY ZenonT(60), <1>2, <2>2, RingFacts
  <2>4. Ring(page', 0, 0) = <<>>
    BY SMTT(60), <2>3, EmptySeq
  <2> QED
    BY ZenonT(60), <2>1, <2>4
<1>5. Queue!Drop
  BY ZenonT(60), <1>1, <1>4 DEF Queue!Drop
<1> QED
  BY ZenonT(60), <1>3, <1>5 DEF Good, Queue!Next

\* The initial state: an empty ring.
LEMMA InitGood == ASSUME Sizes, Init PROVE PInv /\ Queue!Init
<1>1. /\ page = [n \in Pos |-> 0] /\ head = 0 /\ tail = 0
      /\ pc = [p \in Proc |-> "user"] /\ count = [p \in Proc |-> 0]
      /\ got = [p \in Reader |-> <<>>] /\ sent = [p \in Writer |-> <<>>]
  BY ZenonT(60) DEF Init, Pos
<1>2. /\ 0 \in Pos /\ page \in [Pos -> Cell] /\ count \in [Proc -> Nat]
      /\ pc \in [Proc -> {"user", "read", "write", "closed"}]
  BY SMTT(60), <1>1 DEF Pos, Sizes, Cell
<1>3. got \in [Reader -> Seq(Cell)] /\ sent \in [Writer -> Seq(Byte)]
  <2>1. <<>> \in Seq(Cell) /\ <<>> \in Seq(Byte)
    BY SMTT(60)
  <2> QED
    BY ZenonT(60), <1>1, <2>1
<1>4. PInv
  BY ZenonT(60), <1>1, <1>2, <1>3 DEF PInv
<1>5. Contents = <<>>
  <2>1. Contents = Ring(page, 0, 0)
    <3>1. Contents = Ring(page, head, tail)
      BY ZenonT(60) DEF PIPE_SIZE, SizeOf, Contents, Ring
    <3> QED
      BY ZenonT(60), <1>1, <3>1
  <2>2. SizeOf(0, 0) = 0
    BY SMTT(60), <1>2, SizeFacts
  <2>3. Ring(page, 0, 0) \in Seq(Cell) /\ Len(Ring(page, 0, 0)) = 0
    BY ZenonT(60), <1>2, <2>2, RingFacts
  <2>4. Ring(page, 0, 0) = <<>>
    BY SMTT(60), <2>3, EmptySeq
  <2> QED
    BY ZenonT(60), <2>1, <2>4
<1> QED
  BY ZenonT(60), <1>1, <1>4, <1>5 DEF Queue!Init

\* Every step, step by step.
LEMMA NextGood ==
    ASSUME Sizes, PInv, [Next]_vars
    PROVE  Good
<1>1. faults' = faults
  BY ZenonT(60) DEF Next, Kernel, User, SysPipe, vars
<1>2. CASE faults # {}
  <2>1. PInv' /\ UNCHANGED Queue!vars
    BY ZenonT(60), <1>1, <1>2 DEF PInv, Queue!vars
  <2> QED
    BY ZenonT(60), <2>1 DEF Good
<1>3. CASE faults = {}
  <2>0. /\ faults' = {}
        /\ count \in [Proc -> Nat] /\ pc \in [Proc -> {"user", "read", "write", "closed"}]
    BY ZenonT(60), <1>1, <1>3 DEF PInv
  <2>1. CASE SysPipe
    BY ZenonT(60), <1>3, <2>0, <2>1, SysPipeGood
  <2>2. CASE UNCHANGED vars
    <3>1. UNCHANGED <<page, head, tail, got, sent, count, pc>>
      BY ZenonT(60), <2>2 DEF vars
    <3> QED
      BY ZenonT(60), <1>1, <2>0, <3>1, StutterGood
  <2>3. ASSUME NEW p \in Proc, ReadReturns(p) \/ WriteReturns(p)
        PROVE  Good
    BY ZenonT(60), <1>3, <2>0, <2>3, LeavesGood DEF ReadReturns, WriteReturns
  <2>4. ASSUME NEW p \in Proc, ReadWaits(p) \/ WriteWaits(p)
        PROVE  Good
    <3>1. UNCHANGED <<page, head, tail>>
      BY ZenonT(60), <2>4 DEF ReadWaits, WriteWaits
    <3>2. Leaves(p) \/ WakesAndSleeps(p)
      BY ZenonT(60), <2>4 DEF ReadWaits, WriteWaits
    <3>3. CASE Leaves(p)
      BY ZenonT(60), <1>3, <2>0, <3>1, <3>3, LeavesGood
    <3>4. CASE WakesAndSleeps(p)
      <4>1. UNCHANGED <<pc, count, got, sent>>
        BY ZenonT(60), <3>4 DEF WakesAndSleeps
      <4> QED
        BY ZenonT(60), <1>1, <2>0, <3>1, <4>1, StutterGood
    <3> QED
      BY ZenonT(60), <3>2, <3>3, <3>4
  <2>5. ASSUME NEW p \in Proc, CopyOut(p) \/ CopyIn(p)
        PROVE  Good
    <3>1. pc[p] \in {"copyout", "copyin"}
      BY ZenonT(60), <2>5 DEF CopyOut, CopyIn, At
    <3>2. pc[p] \in {"user", "read", "write", "closed"}
      BY ZenonT(60), <2>0
    <3> QED
      BY ZenonT(60), <3>1, <3>2
  <2>6. ASSUME NEW p \in Proc, User(p)
        PROVE  Good
    <3>1. /\ UNCHANGED <<page, head, tail, got, sent>>
          /\ \/ \E l \in {"read", "write"}, n \in 1..MaxCount :
                    /\ pc' = [pc EXCEPT ![p] = l]
                    /\ count' = [count EXCEPT ![p] = n]
             \/ pc' = [pc EXCEPT ![p] = "closed"] /\ count' = count
      BY ZenonT(60), <2>6 DEF User, StartRead, StartWrite, Start, Close, Goto
    <3>2. \A n \in 1..MaxCount : n \in Nat
      BY SMTT(60) DEF Sizes
    <3>3. count' \in [Proc -> Nat] /\ pc' \in [Proc -> {"user", "read", "write", "closed"}]
      BY ZenonT(60), <2>0, <3>1, <3>2
    <3> QED
      BY ZenonT(60), <1>1, <3>1, <3>3, StutterGood
  <2> QED
    <3>1. ASSUME NEW p \in Proc, Kernel(p)
          PROVE  Good
      BY ZenonT(60), <1>3, <2>0, <2>3, <2>4, <2>5, <3>1, ReadChunkGood, WriteChunkGood DEF Kernel
    <3> QED
      BY ZenonT(60), <2>1, <2>2, <2>6, <3>1 DEF Next
<1> QED
  BY ZenonT(60), <1>2, <1>3

\* read_pipe and write_pipe implement a queue of PAGE_SIZE - 1 bytes, for every
\* page size, every number of readers and writers and every count: no byte is
\* lost, repeated or reordered (fs/pipe.c:13-69).
THEOREM PipeIsFifo == ASSUME Sizes PROVE Spec => ImplementsFifo
<1>1. Init => PInv /\ Queue!Init
  BY ZenonT(60), InitGood
<1>2. PInv /\ [Next]_vars => PInv' /\ [Queue!Next]_(Queue!vars)
  BY ZenonT(60), NextGood DEF Good
<1> QED
  BY <1>1, <1>2, PTL DEF Spec, ImplementsFifo, Queue!Spec
-----------------------------------------------------------------------------
\* The wait queue: the same code on one queue, for any set of tasks.
CONSTANTS Task, NULL
VARIABLES p, tmp, state, at, released
W == INSTANCE WaitQueue WITH pc <- at

NullOutside == NULL \notin Task

(***************************************************************************)
(* The inductive invariant: the frames inside sleep_on form chains.  A     *)
(* frame's tmp is a sleeping task that no other frame and not *p refers    *)
(* to, and a wake_up covers a chain as a whole.                            *)
(***************************************************************************)
HeadAsleep ==
    p # NULL => at[p] = "in" /\ state[p] = W!UNINTERRUPTIBLE /\ p \notin released

FrameLinks ==
    \A t \in W!Inside : tmp[t] # NULL =>
        /\ at[tmp[t]] = "in"
        /\ state[tmp[t]] = W!UNINTERRUPTIBLE
        /\ t \in released <=> tmp[t] \in released
        /\ tmp[t] # p

OneParent ==
    \A t, u \in W!Inside : tmp[t] # NULL /\ tmp[t] = tmp[u] => t = u

SleeperLinked ==
    \A t \in W!Inside : state[t] = W!UNINTERRUPTIBLE =>
        t = p \/ \E u \in W!Inside : tmp[u] = t

ChainInv ==
    /\ NullOutside
    /\ W!TypeOK
    /\ released \subseteq W!Inside
    /\ HeadAsleep
    /\ FrameLinks
    /\ OneParent
    /\ SleeperLinked
    /\ W!NoSpuriousReturn

\* The initial state, with every task outside sleep_on, satisfies ChainInv.
LEMMA InitChain == ASSUME NullOutside PROVE W!Init => ChainInv
  BY SMTT(60)
  DEF NullOutside, W!Init, ChainInv, W!TypeOK, W!Inside, HeadAsleep, FrameLinks, OneParent,
      SleeperLinked, W!NoSpuriousReturn, W!RUNNING, W!UNINTERRUPTIBLE

\* sleep_on, sched.c:151-162, keeps the frames chained.
LEMMA SleepOnChain ==
  ASSUME ChainInv, NEW t \in Task, W!SleepOn(t)
  PROVE  ChainInv'
  <1> USE DEF NullOutside, ChainInv, W!SleepOn, W!Inside, W!RUNNING, W!UNINTERRUPTIBLE
  <1>1. W!TypeOK'
    BY SMTT(60) DEF W!TypeOK
  <1>2. HeadAsleep'
    BY SMTT(60) DEF W!TypeOK, HeadAsleep
  <1>3. FrameLinks'
    BY SMTT(60) DEF W!TypeOK, HeadAsleep, FrameLinks
  <1>4. OneParent'
    BY SMTT(60) DEF W!TypeOK, FrameLinks, OneParent
  <1>5. SleeperLinked'
    <2> SUFFICES ASSUME NEW s \in W!Inside', state'[s] = W!UNINTERRUPTIBLE, s # t
                 PROVE  \E u \in W!Inside' : tmp'[u] = s
      BY SMTT(60) DEF SleeperLinked
    <2>1. s \in W!Inside /\ state[s] = W!UNINTERRUPTIBLE
      BY SMTT(60) DEF W!TypeOK
    <2>2. CASE s = p
      BY SMTT(60), <2>2 DEF W!TypeOK
    <2>3. CASE \E u \in W!Inside : tmp[u] = s
      BY SMTT(60), <2>3 DEF W!TypeOK
    <2> QED
      BY SMTT(60), <2>1, <2>2, <2>3 DEF SleeperLinked
  <1>6. W!NoSpuriousReturn' /\ (released \subseteq W!Inside)'
    BY SMTT(60) DEF W!TypeOK, W!NoSpuriousReturn
  <1> QED
    BY SMTT(60), <1>1, <1>2, <1>3, <1>4, <1>5, <1>6

\* The return from sleep_on, sched.c:163-165, keeps the frames chained.
LEMMA ResumeChain ==
  ASSUME ChainInv, NEW t \in Task, W!Resume(t)
  PROVE  ChainInv'
  <1> USE DEF NullOutside, ChainInv, W!Resume, W!Inside, W!RUNNING, W!UNINTERRUPTIBLE
  <1>1. W!TypeOK'
    BY SMTT(60) DEF W!TypeOK
  <1>2. t \in released /\ (tmp[t] # NULL => tmp[t] \in released /\ tmp[t] # t)
    BY SMTT(60) DEF W!TypeOK, W!NoSpuriousReturn, FrameLinks
  <1>3. HeadAsleep'
    BY SMTT(60), <1>2 DEF W!TypeOK, HeadAsleep
  <1>4. \A u \in W!Inside : tmp[u] # t
    BY SMTT(60) DEF W!TypeOK, FrameLinks
  <1>5. FrameLinks'
    <2> SUFFICES ASSUME NEW u \in W!Inside', tmp'[u] # NULL
                 PROVE  /\ at'[tmp'[u]] = "in"
                        /\ state'[tmp'[u]] = W!UNINTERRUPTIBLE
                        /\ u \in released' <=> tmp'[u] \in released'
                        /\ tmp'[u] # p'
      BY SMTT(60) DEF FrameLinks
    <2>1. u # t /\ u \in W!Inside /\ tmp'[u] = tmp[u] /\ tmp[u] \in Task
      BY SMTT(60) DEF W!TypeOK
    <2>2. tmp[u] # t /\ tmp[u] # tmp[t]
      BY SMTT(60), <1>4, <2>1 DEF OneParent
    <2> QED
      BY SMTT(60), <2>1, <2>2 DEF W!TypeOK, FrameLinks
  <1>6. OneParent'
    BY SMTT(60) DEF W!TypeOK, OneParent
  <1>7. SleeperLinked'
    <2> SUFFICES ASSUME NEW s \in W!Inside', state'[s] = W!UNINTERRUPTIBLE, s # p
                 PROVE  \E u \in W!Inside' : tmp'[u] = s
      BY SMTT(60) DEF SleeperLinked
    <2>1. s # t /\ s \in W!Inside /\ state[s] = W!UNINTERRUPTIBLE /\ s # tmp[t]
      BY SMTT(60) DEF W!TypeOK
    <2>2. PICK u \in W!Inside : tmp[u] = s
      BY SMTT(60), <2>1 DEF SleeperLinked
    <2> QED
      BY SMTT(60), <2>1, <2>2 DEF W!TypeOK
  <1>8. W!NoSpuriousReturn' /\ (released \subseteq W!Inside)'
    BY SMTT(60), <1>2 DEF W!TypeOK, W!NoSpuriousReturn
  <1> QED
    BY SMTT(60), <1>1, <1>3, <1>5, <1>6, <1>7, <1>8

\* wake_up, sched.c:188-194, keeps the frames chained.
LEMMA WakeUpChain ==
  ASSUME ChainInv, W!WakeUp
  PROVE  ChainInv'
  <1> USE DEF NullOutside, ChainInv, W!WakeUp, W!Inside, W!RUNNING, W!UNINTERRUPTIBLE
  <1>1. W!TypeOK'
    BY SMTT(60) DEF W!TypeOK
  <1>2. HeadAsleep'
    BY SMTT(60) DEF HeadAsleep
  <1>3. FrameLinks'
    BY SMTT(60) DEF W!TypeOK, FrameLinks
  <1>4. OneParent'
    BY SMTT(60) DEF W!TypeOK, OneParent
  <1>5. SleeperLinked'
    BY SMTT(60) DEF W!TypeOK, SleeperLinked
  <1>6. W!NoSpuriousReturn' /\ (released \subseteq W!Inside)'
    BY SMTT(60) DEF W!TypeOK, W!NoSpuriousReturn
  <1> QED
    BY SMTT(60), <1>1, <1>2, <1>3, <1>4, <1>5, <1>6

\* Every step of the specification keeps ChainInv.
LEMMA NextChain == ChainInv /\ [W!Next]_(W!vars) => ChainInv'
  <1> SUFFICES ASSUME ChainInv, [W!Next]_(W!vars) PROVE ChainInv'
    OBVIOUS
  <1>1. CASE W!WakeUp
    BY SMTT(60), <1>1, WakeUpChain
  <1>2. ASSUME NEW t \in Task, W!SleepOn(t) PROVE ChainInv'
    BY SMTT(60), <1>2, SleepOnChain
  <1>3. ASSUME NEW t \in Task, W!Resume(t) PROVE ChainInv'
    BY SMTT(60), <1>3, ResumeChain
  <1>4. CASE UNCHANGED W!vars
    BY SMTT(60), <1>4 DEF W!vars, ChainInv, W!TypeOK, W!Inside, HeadAsleep, FrameLinks, OneParent,
                SleeperLinked, W!NoSpuriousReturn
  <1> QED
    BY SMTT(60), <1>1, <1>2, <1>3, <1>4 DEF W!Next

\* The chain invariant holds of every behaviour of sleep_on and wake_up.
LEMMA ChainInvariant == ASSUME NullOutside PROVE W!Spec => []ChainInv
  <1>1. W!Init => ChainInv
    BY ZenonT(60), InitChain
  <1> QED
    BY <1>1, NextChain, PTL DEF W!Spec

\* No task returns from sleep_on without a wake_up after it went to sleep.
THEOREM NoSpuriousReturnHolds == ASSUME NullOutside PROVE W!Spec => []W!NoSpuriousReturn
  <1>1. ChainInv => W!NoSpuriousReturn
    BY SMTT(60) DEF ChainInv
  <1>2. W!Spec => []ChainInv
    BY ChainInvariant
  <1> QED
    BY <1>1, <1>2, PTL

\* No sleeper is lost from the list on the kernel stacks.
THEOREM NoOrphanHolds == ASSUME NullOutside PROVE W!Spec => []W!NoOrphan
  <1>1. ChainInv => W!NoOrphan
    <2> SUFFICES ASSUME ChainInv, NEW t \in W!Inside, state[t] = W!UNINTERRUPTIBLE
                 PROVE  \/ p = t /\ \A u \in W!Inside : tmp[u] # t
                        \/ /\ p # t
                           /\ \E u \in W!Inside :
                                /\ tmp[u] = t
                                /\ u \in released <=> t \in released
                                /\ \A v \in W!Inside : tmp[v] = t => v = u
      BY SMTT(60) DEF W!NoOrphan
    <2>0. t \in Task /\ t # NULL
      BY SMTT(60) DEF W!Inside, ChainInv, NullOutside
    <2>1. CASE p = t
      BY SMTT(60), <2>0, <2>1 DEF ChainInv, FrameLinks
    <2>2. CASE p # t
      <3>1. PICK u \in W!Inside : tmp[u] = t
        BY SMTT(60), <2>2 DEF ChainInv, SleeperLinked
      <3> QED
        BY SMTT(60), <2>0, <2>2, <3>1 DEF ChainInv, FrameLinks, OneParent
    <2> QED
      BY SMTT(60), <2>1, <2>2
  <1>2. W!Spec => []ChainInv
    BY ChainInvariant
  <1> QED
    BY <1>1, <1>2, PTL

\* Sleepers are woken strictly from the head of the queue.
THEOREM StrictlyFromHeadHolds == ASSUME NullOutside PROVE W!Spec => []W!StrictlyFromHead
  <1>1. ChainInv => W!StrictlyFromHead
    BY SMTT(60) DEF ChainInv, FrameLinks, W!StrictlyFromHead
  <1>2. W!Spec => []ChainInv
    BY ChainInvariant
  <1> QED
    BY <1>1, <1>2, PTL

\* sleep_on and wake_up, step by step, do what WaitSet promises: wake_up
\* releases exactly the tasks asleep at that moment, and only a released task
\* returns.
THEOREM WaitSetRefinement == ASSUME NullOutside PROVE W!Spec => W!StepsAsWaitSet
  <1> USE DEF W!Abstract!vars
  <1>1. W!Init => W!Abstract!Init
    BY SMTT(60) DEF W!Init, W!Inside, W!Abstract!Init
  <1>2. ChainInv /\ [W!Next]_(W!vars) => [W!Abstract!Next]_(W!Abstract!vars)
    <2> SUFFICES ASSUME ChainInv, [W!Next]_(W!vars)
                 PROVE  [W!Abstract!Next]_(W!Abstract!vars)
      OBVIOUS
    <2>1. CASE W!WakeUp
      <3>1. W!Inside' = W!Inside
        BY SMTT(60), <2>1 DEF W!WakeUp, W!Inside
      <3> QED
        BY SMTT(60), <2>1, <3>1 DEF W!WakeUp, ChainInv, W!Abstract!Next, W!Abstract!Wake
    <2>2. ASSUME NEW t \in Task, W!SleepOn(t)
          PROVE  [W!Abstract!Next]_(W!Abstract!vars)
      <3>1. W!Inside' = W!Inside \cup {t} /\ t \notin W!Inside
        BY SMTT(60), <2>2 DEF W!SleepOn, W!Inside, ChainInv, W!TypeOK
      <3>2. W!Abstract!Sleep(t)
        BY SMTT(60), <2>2, <3>1 DEF W!SleepOn, ChainInv, W!Abstract!Sleep
      <3> QED
        BY SMTT(60), <3>2 DEF W!Abstract!Next
    <2>3. ASSUME NEW t \in Task, W!Resume(t)
          PROVE  [W!Abstract!Next]_(W!Abstract!vars)
      <3>1. W!Inside' = W!Inside \ {t} /\ t \in released
        BY SMTT(60), <2>3 DEF W!Resume, W!Inside, ChainInv, W!TypeOK, W!NoSpuriousReturn
      <3>2. W!Abstract!Return(t)
        BY SMTT(60), <2>3, <3>1 DEF W!Resume, W!Abstract!Return
      <3> QED
        BY SMTT(60), <3>2 DEF W!Abstract!Next
    <2>4. CASE UNCHANGED W!vars
      BY SMTT(60), <2>4 DEF W!vars, W!Inside
    <2> QED
      BY SMTT(60), <2>1, <2>2, <2>3, <2>4 DEF W!Next
  <1>3. W!Spec => []ChainInv
    BY ChainInvariant
  <1> QED
    BY <1>1, <1>2, <1>3, PTL DEF W!Spec, W!StepsAsWaitSet
=============================================================================
