--------------------------- MODULE ProgramProofs ---------------------------
(***************************************************************************)
(* The user programs.  For any connections, any sizes of the pool and      *)
(* either dispatcher: an event loop never waits on with channels in its    *)
(* list.  For any number of consumers, any size of the ring and any number *)
(* of messages: what the consumers take has been made, each message is     *)
(* taken once, and through the ring in the order in which they were made.  *)
(***************************************************************************)
EXTENDS Reactor, SequenceTheorems, TLAPS

LoopFields == {"pc", "pending", "bytes", "entries", "watched", "ready"}
ConnFields == {"st", "fd", "loop", "data", "unread", "eof", "reset"}

\* The main thread is still starting the pool.
StartUp == {"create", "check", "condwait"}

\* The records have their fields, and sockets and bytes are what they are.
Shape ==
    /\ DOMAIN loop = Loop
    /\ \A l \in Loop : DOMAIN loop[l] = LoopFields /\ loop[l].bytes \in Nat
    /\ DOMAIN conn = Conn
    /\ \A c \in Conn : DOMAIN conn[c] = ConnFields /\ conn[c].fd \in Fd \cup {None}
    /\ starting \in Nat \ {0}

\* The byte a loop is about to read is there.
ByteIsThere == \A l \in Loop : Wakeup \in loop[l].ready => loop[l].bytes > 0

\* Nothing is in a list before the pool is up, and then no thread is still about
\* to make its loop.
StartedFirst ==
    /\ loop[0].pc \in StartUp => \A l \in Loop : loop[l].pending = <<>>
    /\ \A l \in Loop : loop[l].pc = "init" =>
           loop[0].pc \in {"check", "condwait"} /\ l = starting

\* The inductive invariant of NoLostWakeup.
RInv ==
    /\ Shape
    /\ ByteIsThere
    /\ StartedFirst
    /\ loop[0].pc = "wakeup" => accepting \in Conn
    /\ NoLostWakeup

\* What the theorem assumes of the constants: one of the pools is the largest.
Pools == ThreadNums \subseteq Nat /\ \E m \in ThreadNums : \A n \in ThreadNums : n <= m

LEMMA MainLoop == ASSUME Pools PROVE 0 \in Loop
<1>1. Max(ThreadNums) \in Nat
  <2>1. PICK m \in ThreadNums : \A n \in ThreadNums : n <= m
    BY ZenonT(60) DEF Pools
  <2>2. \A n \in ThreadNums : m >= n
    BY SMTT(60), <2>1 DEF Pools
  <2>3. Max(ThreadNums) \in ThreadNums
    BY ZenonT(60), <2>2 DEF Max
  <2> QED
    BY ZenonT(60), <2>3 DEF Pools
<1> QED
  BY SMTT(60), <1>1 DEF Loop

\* Nothing is in a list, no byte is written and no thread runs at the start.
LEMMA InitRInv == ASSUME Pools, Init PROVE RInv
<1>0. 0 \in Loop
  BY ZenonT(60), MainLoop
<1>1. /\ loop = [l \in Loop |->
                [pc |-> IF l = 0 THEN "create" ELSE "none", pending |-> <<>>, bytes |-> 0,
                 entries |-> [f \in Fd |-> None], watched |-> {}, ready |-> {}]]
      /\ conn = [c \in Conn |-> [st |-> "none", fd |-> None, loop |-> 0, data |-> FALSE,
                               unread |-> FALSE, eof |-> FALSE, reset |-> FALSE]]
      /\ starting = 1
  BY ZenonT(60) DEF Init
<1>2. Shape
  BY SMTT(60), <1>1 DEF Shape, LoopFields, ConnFields
<1>3. \A l \in Loop : /\ loop[l].pending = <<>> /\ loop[l].ready = {}
                      /\ loop[l].pc \in {"create", "none"}
  BY SMTT(60), <1>1
<1>4. ByteIsThere /\ NoLostWakeup
  BY ZenonT(60), <1>3 DEF ByteIsThere, NoLostWakeup
<1>5. StartedFirst /\ loop[0].pc # "wakeup"
  BY ZenonT(60), <1>0, <1>3 DEF StartedFirst
<1> QED
  BY ZenonT(60), <1>2, <1>4, <1>5 DEF RInv

\* A step that leaves the sockets and the loops of the connections alone.
KeepsConn ==
    /\ DOMAIN conn' = Conn
    /\ \A c \in Conn : /\ DOMAIN conn'[c] = ConnFields
                       /\ conn'[c].fd = conn[c].fd /\ conn'[c].loop = conn[c].loop

LEMMA SameConn == ASSUME Shape, conn' = conn PROVE KeepsConn
  BY ZenonT(60) DEF Shape, KeepsConn

\* A step in which only loop l changes.
OnlyLoop(l) == DOMAIN loop' = Loop /\ \A k \in Loop : k # l => loop'[k] = loop[k]

\* A loop that runs does a step of its own: if it is to wait next its list is empty.
LEMMA LoopStep ==
    ASSUME Pools, RInv, NEW l \in Loop, OnlyLoop(l),
           loop[l].pc \in {"poll", "dispatch"},
           DOMAIN loop'[l] = LoopFields, loop'[l].bytes \in Nat,
           Wakeup \in loop'[l].ready => loop'[l].bytes > 0,
           loop'[l].pc \in {"poll", "dispatch", "hung"},
           loop'[l].pc = "poll" => loop'[l].pending = <<>>,
           loop'[l].pending = <<>> \/ loop'[l].pending = loop[l].pending,
           KeepsConn, starting' = starting, accepting' = accepting
    PROVE  RInv'
<1>0. 0 \in Loop /\ Shape /\ ByteIsThere /\ StartedFirst /\ NoLostWakeup
  BY ZenonT(60), MainLoop DEF RInv
<1>1. DOMAIN loop' = Loop /\ \A k \in Loop : k # l => loop'[k] = loop[k]
  BY ZenonT(60) DEF OnlyLoop
<1>2. Shape'
  BY ZenonT(60), <1>0, <1>1 DEF Shape, KeepsConn
<1>3. ByteIsThere'
  BY ZenonT(60), <1>0, <1>1 DEF ByteIsThere
<1>4. StartedFirst'
  <2>1. \A k \in Loop : loop[k].pending = <<>> => loop'[k].pending = <<>>
    BY ZenonT(60), <1>1
  <2>2. loop'[0].pc \in StartUp => loop[0].pc \in StartUp
    BY ZenonT(60), <1>0, <1>1 DEF StartUp
  <2>3. \A k \in Loop : loop'[k].pc = "init" => loop[k].pc = "init" /\ l # 0
    BY ZenonT(60), <1>0, <1>1 DEF StartedFirst
  <2> QED
    BY ZenonT(60), <1>0, <1>1, <2>1, <2>2, <2>3 DEF StartedFirst
<1>5. loop'[0].pc = "wakeup" => loop[0].pc = "wakeup" /\ accepting' \in Conn
  BY ZenonT(60), <1>0, <1>1 DEF RInv
<1>6. NoLostWakeup'
  <2> SUFFICES ASSUME NEW k \in Loop, loop'[k].pc = "poll", loop'[k].pending # <<>>
               PROVE  \/ loop'[k].bytes > 0
                      \/ loop'[0].pc = "wakeup" /\ conn'[accepting'].loop = k
    BY ZenonT(60) DEF NoLostWakeup
  <2>1. k # l /\ loop'[k] = loop[k]
    BY ZenonT(60), <1>1
  <2>2. loop[k].bytes > 0 \/ (loop[0].pc = "wakeup" /\ conn[accepting].loop = k)
    BY ZenonT(60), <1>0, <2>1 DEF NoLostWakeup
  <2>3. CASE loop[0].pc = "wakeup" /\ conn[accepting].loop = k
    <3>1. l # 0 /\ loop'[0].pc = "wakeup" /\ accepting \in Conn
      BY ZenonT(60), <1>0, <1>1, <2>3 DEF RInv
    <3> QED
      BY ZenonT(60), <2>3, <3>1 DEF KeepsConn
  <2> QED
    BY ZenonT(60), <2>1, <2>2, <2>3
<1> QED
  BY ZenonT(60), <1>2, <1>3, <1>4, <1>5, <1>6 DEF RInv

\* event_loop_handle_pending_channel empties the list and leaves the rest alone.
LEMMA HandlesAll ==
    ASSUME NEW s, DOMAIN s = LoopFields
    PROVE  LET r == event_loop_handle_pending_channel(s)
           IN  /\ DOMAIN r = LoopFields /\ r.pending = <<>>
               /\ r.pc = s.pc /\ r.bytes = s.bytes /\ r.ready = s.ready
<1>1. \E e, w : event_loop_handle_pending_channel(s)
                    = [s EXCEPT !.pending = <<>>, !.entries = e, !.watched = w]
  BY ZenonT(60) DEF event_loop_handle_pending_channel
<1>2. PICK e, w : event_loop_handle_pending_channel(s)
                    = [s EXCEPT !.pending = <<>>, !.entries = e, !.watched = w]
  BY ZenonT(60), <1>1
<1> QED
  BY ZenonT(60), <1>2 DEF LoopFields

\* Wakeup is among the events only if there is a byte: it is nobody's socket.
LEMMA WakeupEvent ==
    ASSUME Shape, NEW l \in Loop, Wakeup \in Events(l)
    PROVE  loop[l].bytes > 0
<1>1. Wakeup # Listen /\ Wakeup \notin Fd \cup {None}
  BY SMTT(60) DEF Wakeup, Listen, Fd, None
<1>2. ~HasEvent(Wakeup)
  BY ZenonT(60), <1>1 DEF HasEvent, Shape
<1> QED
  BY ZenonT(60), <1>1, <1>2 DEF Events

\* The dispatch functions, up to the callbacks.
LEMMA DispatchRInv ==
    ASSUME Pools, RInv, NEW l \in Loop, Dispatch(l)
    PROVE  RInv'
<1>0. /\ Shape /\ DOMAIN loop[l] = LoopFields /\ loop[l].bytes \in Nat /\ loop[l].pc = "poll"
      /\ starting' = starting /\ accepting' = accepting /\ conn' = conn
      /\ Wakeup \in loop[l].ready => loop[l].bytes > 0
      /\ DOMAIN loop = Loop
  BY ZenonT(60) DEF RInv, Shape, Dispatch, ByteIsThere
<1>1. KeepsConn
  BY ZenonT(60), <1>0, SameConn
<1>2. CASE Events(l) = {}
  <2> DEFINE r == event_loop_handle_pending_channel(loop[l])
  <2>1. /\ DOMAIN r = LoopFields /\ r.pending = <<>>
        /\ r.pc = loop[l].pc /\ r.bytes = loop[l].bytes /\ r.ready = loop[l].ready
    BY ZenonT(60), <1>0, HandlesAll
  <2>2. loop' = [loop EXCEPT ![l] = r]
    BY ZenonT(60), <1>2 DEF Dispatch
  <2> HIDE DEF r
  <2>3. OnlyLoop(l) /\ loop'[l] = r
    BY ZenonT(60), <1>0, <2>2 DEF OnlyLoop
  <2> QED
    BY ZenonT(60), <1>0, <1>1, <2>1, <2>3, LoopStep
<1>3. CASE Events(l) # {}
  <2>1. loop' = [loop EXCEPT ![l].pc = "dispatch", ![l].ready = Events(l)]
    BY ZenonT(60), <1>3 DEF Dispatch
  <2>2. /\ OnlyLoop(l)
        /\ DOMAIN loop'[l] = LoopFields /\ loop'[l].pending = loop[l].pending
        /\ loop'[l].pc = "dispatch" /\ loop'[l].bytes = loop[l].bytes
        /\ loop'[l].ready = Events(l)
    BY ZenonT(60), <1>0, <2>1 DEF LoopFields, OnlyLoop
  <2>3. Wakeup \in loop'[l].ready => loop'[l].bytes > 0
    BY ZenonT(60), <1>0, <2>2, WakeupEvent
  <2> QED
    BY ZenonT(60), <1>0, <1>1, <2>2, <2>3, LoopStep
<1> QED
  BY ZenonT(60), <1>2, <1>3

\* The end of dispatch, and the byte on the socket pair.
LEMMA EndRInv ==
    ASSUME Pools, RInv, NEW l \in Loop, EndDispatch(l) \/ HandleWakeup(l)
    PROVE  RInv'
<1>0. /\ Shape /\ DOMAIN loop[l] = LoopFields /\ loop[l].bytes \in Nat /\ loop[l].pc = "dispatch"
      /\ starting' = starting /\ accepting' = accepting /\ conn' = conn
      /\ Wakeup \in loop[l].ready => loop[l].bytes > 0
      /\ DOMAIN loop = Loop
  BY ZenonT(60) DEF RInv, Shape, EndDispatch, HandleWakeup, ByteIsThere
<1>1. KeepsConn
  BY ZenonT(60), <1>0, SameConn
<1>2. CASE EndDispatch(l)
  <2> DEFINE t == event_loop_handle_pending_channel(loop[l])
  <2>1. DOMAIN t = LoopFields /\ t.pending = <<>> /\ t.bytes = loop[l].bytes /\ t.ready = loop[l].ready
    BY ZenonT(60), <1>0, HandlesAll
  <2>2. loop' = [loop EXCEPT ![l] = [t EXCEPT !.pc = "poll"]]
    BY ZenonT(60), <1>2 DEF EndDispatch
  <2> HIDE DEF t
  <2>3. /\ OnlyLoop(l)
        /\ DOMAIN loop'[l] = LoopFields /\ loop'[l].pending = <<>> /\ loop'[l].pc = "poll"
        /\ loop'[l].bytes = loop[l].bytes /\ loop'[l].ready = loop[l].ready
    BY ZenonT(60), <1>0, <2>1, <2>2 DEF LoopFields, OnlyLoop
  <2> QED
    BY ZenonT(60), <1>0, <1>1, <2>3, LoopStep
<1>3. CASE HandleWakeup(l)
  <2>1. loop' = [loop EXCEPT ![l].ready = @ \ {Wakeup}, ![l].bytes = @ - 1]
    BY ZenonT(60), <1>3 DEF HandleWakeup
  <2>2. /\ OnlyLoop(l)
        /\ DOMAIN loop'[l] = LoopFields /\ loop'[l].pending = loop[l].pending
        /\ loop'[l].pc = "dispatch" /\ loop'[l].bytes = loop[l].bytes - 1
        /\ Wakeup \notin loop'[l].ready
    BY ZenonT(60), <1>0, <2>1 DEF LoopFields, OnlyLoop
  <2>3. loop[l].bytes - 1 \in Nat
    <3>1. loop[l].bytes > 0
      BY ZenonT(60), <1>0, <1>3 DEF HandleWakeup
    <3> QED
      BY SMTT(60), <1>0, <3>1
  <2> QED
    BY ZenonT(60), <1>0, <1>1, <2>2, <2>3, LoopStep
<1> QED
  BY ZenonT(60), <1>2, <1>3

\* The callbacks of a connection.
LEMMA ActivateRInv ==
    ASSUME Pools, RInv, NEW l \in Loop, Activate(l)
    PROVE  RInv'
<1>0. PICK f \in Fd : HandleMessage(l, f) \/ HandleClosed(l, f) \/ CloseOnError(l, f)
  BY ZenonT(60) DEF Activate
<1>1. /\ Shape /\ DOMAIN loop = Loop /\ DOMAIN loop[l] = LoopFields
      /\ loop[l].bytes \in Nat /\ loop[l].pc = "dispatch"
      /\ starting' = starting /\ accepting' = accepting
      /\ Wakeup \in loop[l].ready => loop[l].bytes > 0
  BY ZenonT(60), <1>0
     DEF RInv, Shape, HandleMessage, HandleClosed, CloseOnError, ByteIsThere, Activated
<1>2. KeepsConn
  <2>1. ASSUME NEW c, conn' = [conn EXCEPT ![c].unread = FALSE]
        PROVE  KeepsConn
    BY ZenonT(60), <1>1, <2>1 DEF Shape, KeepsConn, ConnFields
  <2>2. ASSUME NEW c, NEW st, conn' = [conn EXCEPT ![c].st = st]
        PROVE  KeepsConn
    BY ZenonT(60), <1>1, <2>2 DEF Shape, KeepsConn, ConnFields
  <2> QED
    BY ZenonT(60), <1>0, <2>1, <2>2 DEF HandleMessage, HandleClosed, CloseOnError
<1>3. CASE HandleMessage(l, f)
  <2>1. loop' \in {loop, [loop EXCEPT ![l].ready = @ \ {f}], [loop EXCEPT ![l].pc = "hung"]}
    BY ZenonT(60), <1>3 DEF HandleMessage, tcp_connection_send_data, channel_write_event_enable, Goes
  <2>2. /\ OnlyLoop(l)
        /\ DOMAIN loop'[l] = LoopFields /\ loop'[l].pending = loop[l].pending
        /\ loop'[l].pc \in {"dispatch", "hung"} /\ loop'[l].bytes = loop[l].bytes
        /\ Wakeup \in loop'[l].ready => Wakeup \in loop[l].ready
    <3>1. CASE loop' = loop
      BY ZenonT(60), <1>1, <3>1 DEF OnlyLoop
    <3>2. CASE loop' = [loop EXCEPT ![l].ready = @ \ {f}]
      BY ZenonT(60), <1>1, <3>2 DEF LoopFields, OnlyLoop
    <3>3. CASE loop' = [loop EXCEPT ![l].pc = "hung"]
      BY ZenonT(60), <1>1, <3>3 DEF LoopFields, OnlyLoop
    <3> QED
      BY ZenonT(60), <2>1, <3>1, <3>2, <3>3
  <2> QED
    BY ZenonT(60), <1>1, <1>2, <2>2, LoopStep
<1>4. CASE CloseOnError(l, f)
  <2>1. loop' = [loop EXCEPT ![l].ready = @ \ {f}, ![l].watched = @ \ {f}]
    BY ZenonT(60), <1>4 DEF CloseOnError
  <2>2. /\ OnlyLoop(l)
        /\ DOMAIN loop'[l] = LoopFields /\ loop'[l].pending = loop[l].pending
        /\ loop'[l].pc = "dispatch" /\ loop'[l].bytes = loop[l].bytes
        /\ Wakeup \in loop'[l].ready => Wakeup \in loop[l].ready
    BY ZenonT(60), <1>1, <2>1 DEF LoopFields, OnlyLoop
  <2> QED
    BY ZenonT(60), <1>1, <1>2, <2>2, LoopStep
<1>5. CASE HandleClosed(l, f)
  <2> DEFINE s == Buffered(loop[l], loop[l].entries[f], f, "remove")
             t == event_loop_handle_pending_channel(s)
  <2>1. /\ DOMAIN s = LoopFields /\ s.pc = loop[l].pc /\ s.bytes = loop[l].bytes
        /\ s.ready = loop[l].ready
    BY ZenonT(60), <1>1 DEF Buffered, LoopFields
  <2>2. loop' = [loop EXCEPT ![l] = [t EXCEPT !.ready = @ \ {f}]]
    BY ZenonT(60), <1>5 DEF HandleClosed
  <2> HIDE DEF s
  <2>3. /\ DOMAIN t = LoopFields /\ t.pending = <<>>
        /\ t.pc = s.pc /\ t.bytes = s.bytes /\ t.ready = s.ready
    BY ZenonT(60), <2>1, HandlesAll
  <2> HIDE DEF t
  <2>4. /\ OnlyLoop(l)
        /\ DOMAIN loop'[l] = LoopFields /\ loop'[l].pending = <<>>
        /\ loop'[l].pc = "dispatch" /\ loop'[l].bytes = loop[l].bytes
        /\ Wakeup \in loop'[l].ready => Wakeup \in loop[l].ready
    <3>1. OnlyLoop(l) /\ loop'[l] = [t EXCEPT !.ready = @ \ {f}]
      BY ZenonT(60), <1>1, <2>2 DEF OnlyLoop
    <3>2. /\ DOMAIN loop'[l] = LoopFields /\ loop'[l].pending = t.pending
          /\ loop'[l].pc = t.pc /\ loop'[l].bytes = t.bytes /\ loop'[l].ready = t.ready \ {f}
      BY ZenonT(60), <2>3, <3>1 DEF LoopFields
    <3> QED
      BY ZenonT(60), <1>1, <2>1, <2>3, <3>1, <3>2
  <2> QED
    BY ZenonT(60), <1>1, <1>2, <2>4, LoopStep
<1> QED
  BY ZenonT(60), <1>0, <1>3, <1>4, <1>5

\* The start of the pool.
LEMMA StartRInv ==
    ASSUME Pools, RInv, CreateThread \/ tcp_server_start \/ CheckStarted
    PROVE  RInv'
<1>0. /\ 0 \in Loop /\ Shape /\ ByteIsThere /\ StartedFirst /\ NoLostWakeup
      /\ DOMAIN loop = Loop /\ loop[0].pc \in {"create", "check"} /\ starting \in Nat \ {0}
      /\ conn' = conn /\ \A l \in Loop : loop[l].pending = <<>>
  BY ZenonT(60), MainLoop
     DEF RInv, CreateThread, tcp_server_start, CheckStarted, StartedFirst, StartUp, Shape
<1>1. KeepsConn
  BY ZenonT(60), <1>0, SameConn
<1>2. /\ DOMAIN loop' = Loop
      /\ \A l \in Loop : /\ DOMAIN loop'[l] = LoopFields /\ loop'[l].pending = <<>>
                         /\ loop'[l].bytes = loop[l].bytes /\ loop'[l].ready = loop[l].ready
  <2>1. CASE CreateThread
    <3>1. loop' = [loop EXCEPT ![0].pc = "check", ![starting].pc = "init"]
      BY ZenonT(60), <2>1 DEF CreateThread
    <3> QED
      BY ZenonT(60), <1>0, <3>1 DEF Shape, LoopFields
  <2>2. ASSUME NEW q, Goes(0, q)
        PROVE  <1>2!1 /\ <1>2!2
    BY ZenonT(60), <1>0, <2>2 DEF Shape, LoopFields, Goes
  <2> QED
    BY ZenonT(60), <2>1, <2>2 DEF tcp_server_start, CheckStarted
<1>3. starting' \in Nat \ {0}
  <2>1. starting' = starting \/ starting' = starting + 1
    BY ZenonT(60) DEF CreateThread, tcp_server_start, CheckStarted
  <2> QED
    BY SMTT(60), <1>0, <2>1
<1>4. Shape'
  BY ZenonT(60), <1>0, <1>1, <1>2, <1>3 DEF Shape, KeepsConn
<1>5. ByteIsThere' /\ NoLostWakeup'
  BY ZenonT(60), <1>0, <1>2 DEF ByteIsThere, NoLostWakeup
<1>6. loop'[0].pc # "wakeup" /\ \A l \in Loop : loop'[l].pc = "init" =>
           loop'[0].pc \in {"check", "condwait"} /\ l = starting'
  <2>1. \A l \in Loop : loop[l].pc = "init" => loop[0].pc = "check" /\ l = starting
    BY ZenonT(60), <1>0 DEF StartedFirst
  <2>2. CASE CreateThread
    <3>1. /\ loop' = [loop EXCEPT ![0].pc = "check", ![starting].pc = "init"]
          /\ starting' = starting /\ loop[0].pc = "create" /\ starting # 0
      BY SMTT(60), <1>0, <2>2 DEF CreateThread
    <3>2. loop'[0].pc = "check"
      BY ZenonT(60), <1>0, <3>1 DEF Shape, LoopFields
    <3>3. \A l \in Loop : l # starting /\ l # 0 => loop'[l].pc = loop[l].pc
      BY ZenonT(60), <1>0, <3>1 DEF Shape, LoopFields
    <3> QED
      BY ZenonT(60), <2>1, <3>1, <3>2, <3>3
  <2>3. CASE tcp_server_start
    <3>1. loop' = [loop EXCEPT ![0].pc = "poll"] /\ loop[0].pc = "create"
      BY ZenonT(60), <2>3 DEF tcp_server_start, Goes
    <3> QED
      BY ZenonT(60), <1>0, <2>1, <3>1 DEF Shape, LoopFields
  <2>4. CASE CheckStarted
    <3>1. CASE loop[starting].pc = "init"
      <4>1. loop' = [loop EXCEPT ![0].pc = "condwait"] /\ starting' = starting
        BY ZenonT(60), <2>4, <3>1 DEF CheckStarted, Goes
      <4> QED
        BY ZenonT(60), <1>0, <2>1, <4>1 DEF Shape, LoopFields
    <3>2. CASE loop[starting].pc # "init"
      <4>1. loop' = [loop EXCEPT ![0].pc = "create"]
        BY ZenonT(60), <2>4, <3>2 DEF CheckStarted, Goes
      <4> QED
        BY ZenonT(60), <1>0, <2>1, <3>2, <4>1 DEF Shape, LoopFields
    <3> QED
      BY ZenonT(60), <3>1, <3>2
  <2> QED
    BY ZenonT(60), <2>2, <2>3, <2>4
<1>7. StartedFirst'
  BY ZenonT(60), <1>2, <1>6 DEF StartedFirst
<1> QED
  BY ZenonT(60), <1>4, <1>5, <1>6, <1>7 DEF RInv

\* A thread has made its loop, while nothing can be in its list.
LEMMA ThreadInitRInv ==
    ASSUME Pools, RInv, NEW l \in Loop, ThreadInit(l)
    PROVE  RInv'
<1>0. /\ 0 \in Loop /\ Shape /\ ByteIsThere /\ StartedFirst
      /\ DOMAIN loop = Loop /\ loop[l].pc = "init" /\ loop[0].pc \in {"check", "condwait"}
      /\ l = starting /\ starting' = starting /\ conn' = conn
      /\ \A k \in Loop : loop[k].pending = <<>>
  BY ZenonT(60), MainLoop DEF RInv, ThreadInit, StartedFirst, StartUp, Shape
<1>1. KeepsConn /\ l # 0
  BY ZenonT(60), <1>0, SameConn
<1>2. loop' = [loop EXCEPT ![l].pc = "poll", ![0].pc = IF @ = "condwait" THEN "check" ELSE @]
  BY ZenonT(60) DEF ThreadInit
<1>3. /\ DOMAIN loop' = Loop
      /\ \A k \in Loop : /\ DOMAIN loop'[k] = LoopFields /\ loop'[k].pending = <<>>
                         /\ loop'[k].bytes = loop[k].bytes /\ loop'[k].ready = loop[k].ready
      /\ \A k \in Loop : k # l /\ k # 0 => loop'[k].pc = loop[k].pc
      /\ loop'[l].pc = "poll"
  BY ZenonT(60), <1>0, <1>1, <1>2 DEF Shape, LoopFields
<1>4. loop'[0].pc = "check"
  BY ZenonT(60), <1>0, <1>1, <1>2 DEF Shape, LoopFields
<1>5. Shape'
  BY ZenonT(60), <1>0, <1>1, <1>3 DEF Shape, KeepsConn
<1>6. ByteIsThere' /\ NoLostWakeup'
  BY ZenonT(60), <1>0, <1>3 DEF ByteIsThere, NoLostWakeup
<1>7. StartedFirst'
  BY ZenonT(60), <1>0, <1>3, <1>4 DEF StartedFirst
<1> QED
  BY ZenonT(60), <1>4, <1>5, <1>6, <1>7 DEF RInv

\* A connection's channel goes into the list of a loop; if it is another thread's,
\* the main thread owes it a byte.
LEMMA AcceptRInv ==
    ASSUME Pools, RInv, NEW c \in Conn, NEW fd \in Fd \cup {None}, Accept(c, fd)
    PROVE  RInv'
<1>0. /\ 0 \in Loop /\ Shape /\ ByteIsThere /\ StartedFirst /\ NoLostWakeup
      /\ DOMAIN loop = Loop /\ loop[0].pc = "dispatch"
      /\ starting' = starting /\ accepting' = c
  BY ZenonT(60), MainLoop DEF RInv, Accept, Shape
<1> DEFINE added == Buffered(loop[Chosen], c, fd, "add")
           all == IF Chosen = 0 THEN event_loop_handle_pending_channel(added) ELSE added
<1>1. /\ conn' = [conn EXCEPT ![c] = [conn[c] EXCEPT !.st = IF fd = None THEN "closed" ELSE "open",
                                                     !.fd = fd, !.loop = Chosen]]
      /\ loop' = [[loop EXCEPT ![Chosen] = all]
                  EXCEPT ![0].ready = @ \ {Listen},
                         ![0].pc = IF Chosen = 0 THEN "data" ELSE "wakeup"]
  BY ZenonT(60) DEF Accept, tcp_connection_new
<1>2. /\ DOMAIN conn' = Conn /\ conn'[c].loop = Chosen
      /\ \A d \in Conn : DOMAIN conn'[d] = ConnFields /\ conn'[d].fd \in Fd \cup {None}
  BY ZenonT(60), <1>0, <1>1 DEF Shape, ConnFields
<1>3. Chosen \in Loop =>
        /\ DOMAIN all = LoopFields /\ all.pc = loop[Chosen].pc
        /\ all.bytes = loop[Chosen].bytes /\ all.ready = loop[Chosen].ready
  <2> SUFFICES ASSUME Chosen \in Loop
               PROVE  /\ DOMAIN all = LoopFields /\ all.pc = loop[Chosen].pc
                      /\ all.bytes = loop[Chosen].bytes /\ all.ready = loop[Chosen].ready
    BY ZenonT(60)
  <2>1. /\ DOMAIN added = LoopFields /\ added.pc = loop[Chosen].pc
        /\ added.bytes = loop[Chosen].bytes /\ added.ready = loop[Chosen].ready
    BY ZenonT(60), <1>0 DEF Shape, LoopFields, Buffered
  <2> HIDE DEF added
  <2> QED
    BY ZenonT(60), <2>1, HandlesAll
<1> HIDE DEF all
<1>4. /\ DOMAIN loop' = Loop
      /\ loop'[0].pc = IF Chosen = 0 THEN "data" ELSE "wakeup"
      /\ \A k \in Loop : k # 0 /\ k # Chosen => loop'[k] = loop[k]
      /\ Chosen # 0 => \A k \in Loop : k # 0 /\ k = Chosen => loop'[k] = all
      /\ \A k \in Loop : k = 0 =>
             /\ DOMAIN loop'[k] = LoopFields /\ loop'[k].bytes = loop[k].bytes
             /\ loop'[k].ready = loop[k].ready \ {Listen}
  <2> DEFINE given == [loop EXCEPT ![Chosen] = all]
  <2>1. /\ DOMAIN given = Loop
        /\ \A k \in Loop : given[k] = IF k = Chosen THEN all ELSE loop[k]
    BY ZenonT(60), <1>0
  <2>2. loop' = [given EXCEPT ![0].ready = @ \ {Listen},
                              ![0].pc = IF Chosen = 0 THEN "data" ELSE "wakeup"]
    BY ZenonT(60), <1>1
  <2> HIDE DEF given
  <2>3. /\ DOMAIN given[0] = LoopFields /\ given[0].bytes = loop[0].bytes
        /\ given[0].ready = loop[0].ready
    BY ZenonT(60), <1>0, <1>3, <2>1 DEF Shape
  <2>4. /\ DOMAIN loop' = Loop
        /\ \A k \in Loop : k # 0 => loop'[k] = given[k]
    BY ZenonT(60), <2>1, <2>2
  <2>5. /\ DOMAIN loop'[0] = LoopFields /\ loop'[0].bytes = given[0].bytes
        /\ loop'[0].ready = given[0].ready \ {Listen}
        /\ loop'[0].pc = IF Chosen = 0 THEN "data" ELSE "wakeup"
    BY ZenonT(60), <1>0, <2>1, <2>2, <2>3 DEF LoopFields
  <2> QED
    BY ZenonT(60), <2>1, <2>3, <2>4, <2>5
<1>5. \A k \in Loop : /\ DOMAIN loop'[k] = LoopFields /\ loop'[k].bytes = loop[k].bytes
                      /\ Wakeup \in loop'[k].ready => Wakeup \in loop[k].ready
                      /\ k # 0 => loop'[k].pc = loop[k].pc
  BY ZenonT(60), <1>0, <1>3, <1>4 DEF Shape
<1>6. Shape'
  BY ZenonT(60), <1>0, <1>2, <1>4, <1>5 DEF Shape
<1>7. ByteIsThere'
  BY ZenonT(60), <1>0, <1>5 DEF ByteIsThere
<1>8. StartedFirst'
  <2>1. \A k \in Loop : loop'[k].pc # "init"
    BY ZenonT(60), <1>0, <1>4, <1>5 DEF StartedFirst
  <2> QED
    BY ZenonT(60), <1>4, <2>1 DEF StartedFirst, StartUp
<1>9. NoLostWakeup'
  <2> SUFFICES ASSUME NEW k \in Loop, loop'[k].pc = "poll", loop'[k].pending # <<>>
               PROVE  \/ loop'[k].bytes > 0
                      \/ loop'[0].pc = "wakeup" /\ conn'[accepting'].loop = k
    BY ZenonT(60) DEF NoLostWakeup
  <2>1. k # 0
    BY ZenonT(60), <1>4
  <2>2. CASE k = Chosen
    BY ZenonT(60), <1>0, <1>2, <1>4, <2>1, <2>2
  <2>3. CASE k # Chosen
    BY ZenonT(60), <1>0, <1>4, <2>1, <2>3 DEF NoLostWakeup
  <2> QED
    BY ZenonT(60), <2>2, <2>3
<1> QED
  BY ZenonT(60), <1>0, <1>6, <1>7, <1>8, <1>9 DEF RInv

\* The main thread writes the byte it owes, and finishes with the connection.
LEMMA WakeupRInv ==
    ASSUME Pools, RInv, event_loop_wakeup \/ SetData
    PROVE  RInv'
<1>0. /\ 0 \in Loop /\ Shape /\ ByteIsThere /\ StartedFirst /\ NoLostWakeup
      /\ DOMAIN loop = Loop /\ starting' = starting
      /\ loop[0].pc \in {"wakeup", "data"}
  BY ZenonT(60), MainLoop DEF RInv, event_loop_wakeup, SetData, Shape
<1>1. KeepsConn
  <2>1. CASE conn' = conn
    BY ZenonT(60), <1>0, <2>1, SameConn
  <2>2. CASE conn' = [conn EXCEPT ![accepting].data = TRUE]
    BY ZenonT(60), <1>0, <2>2 DEF Shape, KeepsConn, ConnFields
  <2> QED
    BY ZenonT(60), <2>1, <2>2 DEF event_loop_wakeup, SetData
<1>2. /\ DOMAIN loop' = Loop
      /\ loop'[0].pc \in {"data", "dispatch"}
      /\ \A k \in Loop : /\ DOMAIN loop'[k] = LoopFields /\ loop'[k].ready = loop[k].ready
                         /\ loop'[k].pending = loop[k].pending
                         /\ loop'[k].bytes \in {loop[k].bytes, loop[k].bytes + 1}
                         /\ k # 0 => loop'[k].pc = loop[k].pc
      /\ loop[0].pc = "wakeup" =>
            \A k \in Loop : k = conn[accepting].loop => loop'[k].bytes = loop[k].bytes + 1
  <2>1. CASE event_loop_wakeup
    <3> DEFINE a == conn[accepting].loop
    <3>1. loop' = [loop EXCEPT ![0].pc = "data", ![a].bytes = @ + 1]
      BY ZenonT(60), <2>1 DEF event_loop_wakeup
    <3> HIDE DEF a
    <3>2. /\ DOMAIN loop' = Loop /\ loop'[0].pc = "data"
          /\ \A k \in Loop : /\ DOMAIN loop'[k] = LoopFields /\ loop'[k].ready = loop[k].ready
                             /\ loop'[k].pending = loop[k].pending
                             /\ k # 0 => loop'[k].pc = loop[k].pc
      BY ZenonT(60), <1>0, <3>1 DEF Shape, LoopFields
    <3>3. \A k \in Loop : loop'[k].bytes = IF k = a THEN loop[k].bytes + 1 ELSE loop[k].bytes
      BY ZenonT(60), <1>0, <3>1 DEF Shape, LoopFields
    <3> QED
      BY ZenonT(60), <3>2, <3>3 DEF a
  <2>2. CASE SetData
    <3>1. loop' = [loop EXCEPT ![0].pc = "dispatch"] /\ loop[0].pc = "data"
      BY ZenonT(60), <2>2 DEF SetData, Goes
    <3> QED
      BY ZenonT(60), <1>0, <3>1 DEF Shape, LoopFields
  <2> QED
    BY ZenonT(60), <2>1, <2>2
<1>3. \A k \in Loop : loop'[k].bytes \in Nat /\ (loop[k].bytes > 0 => loop'[k].bytes > 0)
  <2>1. \A k \in Loop : loop[k].bytes \in Nat
    BY ZenonT(60), <1>0 DEF Shape
  <2> QED
    BY SMTT(60), <1>2, <2>1
<1>4. Shape'
  BY ZenonT(60), <1>0, <1>1, <1>2, <1>3 DEF Shape, KeepsConn
<1>5. ByteIsThere'
  BY ZenonT(60), <1>0, <1>2, <1>3 DEF ByteIsThere
<1>6. StartedFirst'
  <2>1. \A k \in Loop : loop'[k].pc # "init"
    BY ZenonT(60), <1>0, <1>2 DEF StartedFirst
  <2> QED
    BY ZenonT(60), <1>2, <2>1 DEF StartedFirst, StartUp
<1>7. NoLostWakeup'
  <2> SUFFICES ASSUME NEW k \in Loop, loop'[k].pc = "poll", loop'[k].pending # <<>>
               PROVE  loop'[k].bytes > 0
    BY ZenonT(60) DEF NoLostWakeup
  <2>1. k # 0
    BY ZenonT(60), <1>2
  <2>2. loop[k].bytes > 0 \/ (loop[0].pc = "wakeup" /\ k = conn[accepting].loop)
    BY ZenonT(60), <1>0, <1>2, <2>1 DEF NoLostWakeup
  <2>3. loop[k].bytes \in Nat
    BY ZenonT(60), <1>0 DEF Shape
  <2>4. CASE loop[0].pc = "wakeup" /\ k = conn[accepting].loop
    <3>1. loop'[k].bytes = loop[k].bytes + 1
      BY ZenonT(60), <1>2, <2>4
    <3> QED
      BY SMTT(60), <2>3, <3>1
  <2> QED
    BY ZenonT(60), <1>3, <2>2, <2>4
<1> QED
  BY ZenonT(60), <1>2, <1>4, <1>5, <1>6, <1>7 DEF RInv

\* The clients, and steps that change nothing.
LEMMA ClientsRInv ==
    ASSUME Pools, RInv, loop' = loop, starting' = starting, accepting' = accepting, KeepsConn
    PROVE  RInv'
<1>1. Shape' /\ ByteIsThere' /\ StartedFirst'
  BY ZenonT(60) DEF RInv, Shape, ByteIsThere, StartedFirst, KeepsConn
<1>2. NoLostWakeup'
  BY ZenonT(60) DEF RInv, NoLostWakeup, KeepsConn
<1> QED
  BY ZenonT(60), <1>1, <1>2 DEF RInv

LEMMA NextRInv == ASSUME Pools, RInv, [Next]_vars PROVE RInv'
<1>0. Shape
  BY ZenonT(60) DEF RInv
<1>1. ASSUME NEW l \in Loop, Thread(l)
      PROVE  RInv'
  BY ZenonT(60), <1>1, ThreadInitRInv, DispatchRInv, EndRInv, ActivateRInv, StartRInv, AcceptRInv,
     WakeupRInv DEF Thread, Established
<1>2. CASE Clients
  <2>1. PICK c \in Conn : Connect(c) \/ Send(c) \/ Fin(c) \/ Reset(c)
    BY ZenonT(60), <1>2 DEF Clients
  <2>2. loop' = loop /\ starting' = starting /\ accepting' = accepting
    BY ZenonT(60), <2>1 DEF Connect, Send, Fin, Reset, Client
  <2>3. KeepsConn
    <3>1. CASE Connect(c)
      BY ZenonT(60), <1>0, <3>1 DEF Connect, Client, Shape, KeepsConn, ConnFields
    <3>2. CASE Send(c)
      BY ZenonT(60), <1>0, <3>2 DEF Send, Client, Shape, KeepsConn, ConnFields
    <3>3. CASE Fin(c)
      BY ZenonT(60), <1>0, <3>3 DEF Fin, Client, Shape, KeepsConn, ConnFields
    <3>4. CASE Reset(c)
      BY ZenonT(60), <1>0, <3>4 DEF Reset, Client, Shape, KeepsConn, ConnFields
    <3> QED
      BY ZenonT(60), <2>1, <3>1, <3>2, <3>3, <3>4
  <2> QED
    BY ZenonT(60), <2>2, <2>3, ClientsRInv
<1>3. CASE UNCHANGED vars
  <2>1. loop' = loop /\ starting' = starting /\ accepting' = accepting /\ conn' = conn
    BY ZenonT(60), <1>3 DEF vars
  <2> QED
    BY ZenonT(60), <1>0, <2>1, SameConn, ClientsRInv
<1> QED
  BY ZenonT(60), <1>1, <1>2, <1>3 DEF Next

\* No wake-up is lost, for any number of threads and connections and with poll as
\* with epoll: a loop that waits with channels in its list has a byte to read, or
\* the main thread is about to write it (event_loop.c:61-93).
THEOREM NoLostWakeupHolds == ASSUME Pools PROVE Spec => []NoLostWakeup
<1>1. Init => RInv
  BY ZenonT(60), InitRInv
<1>2. RInv /\ [Next]_vars => RInv'
  BY ZenonT(60), NextRInv
<1>3. RInv => NoLostWakeup
  BY ZenonT(60) DEF RInv
<1> QED
  BY <1>1, <1>2, <1>3, PTL DEF Spec
-----------------------------------------------------------------------------
(* The producers and consumers (Threads).                                  *)

CONSTANTS Programs, Consumer, NUM, MaxMade
VARIABLES program, made, taken, producer, consumer, head, queue, sem, in, out, listFault

List == INSTANCE Threads WITH fault <- listFault

\* What the theorem assumes of the constants.
Sizes == Programs \subseteq {"cond", "sem"} /\ NUM \in Nat /\ NUM > 0 /\ Consumer # {}

\* The list and what was taken from it hold different messages out of 1 .. m.
Apart(h, tk, m) ==
    /\ h \in Seq(Nat) /\ tk \in Seq(Nat)
    /\ \A i \in 1..Len(h) : h[i] \in 1..m
    /\ \A i \in 1..Len(tk) : tk[i] \in 1..m
    /\ \A i, j \in 1..Len(h) : h[i] = h[j] => i = j
    /\ \A i, j \in 1..Len(tk) : tk[i] = tk[j] => i = j
    /\ \A i \in 1..Len(h), j \in 1..Len(tk) : h[i] # tk[j]

CondInv ==
    /\ producer \in {"make", "signal"}
    /\ \A c \in Consumer : consumer[c] \in {"lock", "wait", "woken"}
    /\ Apart(head, taken, made)

\* A place of the ring, for a number less than twice its size.
W(x) == IF x < NUM THEN x ELSE x - NUM

\* c messages after the first g lie in the ring from place b on.
Full(q, b, g, c) == \A d \in 1..c : q[W(b + d - 1)] = g + d

Is(b) == IF b THEN 1 ELSE 0

\* Where the next message to be taken is: a consumer moves out after it has taken.
Base(pc, o) == IF pc \in {"clear", "post"} THEN W(o + 1) ELSE o

\* The semaphores count the messages that are in the ring and the places that
\* are not, less what either side has in hand.
SemData(pp, pc, g, m, s, i, o, q) ==
    /\ g \in Nat /\ m \in Nat /\ g =< m
    /\ s.product \in Nat /\ s.product = m - g - Is(pp = "post") - Is(pc = "get")
    /\ s.blank \in Nat /\ s.blank = NUM - (m - g) - Is(pp = "put") - Is(pc \in {"clear", "post"})
    /\ o \in 0..(NUM - 1)
    /\ i = W(Base(pc, o) + (m - g) - Is(pp = "post"))
    /\ DOMAIN q = 0..(NUM - 1)
    /\ Full(q, Base(pc, o), g, m - g)

SemInv ==
    /\ producer \in {"make", "put", "post"}
    /\ consumer[List!First] \in {"lock", "get", "clear", "post"}
    /\ \A c \in Consumer : consumer[c] # "wait"
    /\ taken \in Seq(Nat) /\ \A i \in 1..Len(taken) : taken[i] = i
    /\ DOMAIN sem = {"blank", "product"}
    /\ SemData(producer, consumer[List!First], Len(taken), made, sem, in, out, queue)

\* The inductive invariant of TakenOnce.
TInv ==
    /\ ~listFault /\ made \in Nat /\ DOMAIN consumer = Consumer
    /\ program \in {"cond", "sem"}
    /\ program = "cond" => CondInv
    /\ program = "sem" => SemInv
-----------------------------------------------------------------------------
LEMMA FirstConsumes == ASSUME Sizes PROVE List!First \in Consumer
  BY ZenonT(60) DEF List!First, Sizes

LEMMA AddedApart ==
    ASSUME NEW h, NEW tk, NEW m \in Nat, Apart(h, tk, m)
    PROVE  Apart(<<m + 1>> \o h, tk, m + 1)
<1> DEFINE n == <<m + 1>> \o h
<1>1. h \in Seq(Nat) /\ Len(h) \in Nat /\ tk \in Seq(Nat)
  BY SMTT(60) DEF Apart
<1>2. n \in Seq(Nat) /\ Len(n) = Len(h) + 1 /\ n[1] = m + 1 /\ \A i \in 2..(Len(h) + 1) : n[i] = h[i - 1]
  BY SMTT(60), <1>1
<1> HIDE DEF n
<1>3. \A i \in 1..Len(n) : (i = 1 /\ n[i] = m + 1) \/ (i - 1 \in 1..Len(h) /\ i \in Nat /\ n[i] = h[i - 1])
  BY SMTT(60), <1>1, <1>2
<1>4. /\ \A i \in 1..Len(h) : h[i] \in 1..m /\ h[i] # m + 1 /\ h[i] \in 1..(m + 1)
      /\ \A i \in 1..Len(tk) : tk[i] \in 1..(m + 1) /\ tk[i] # m + 1
      /\ m + 1 \in 1..(m + 1)
  BY SMTT(60) DEF Apart
<1>5. \A i \in 1..Len(n) : n[i] \in 1..(m + 1)
  BY ZenonT(60), <1>3, <1>4
<1>6. ASSUME NEW i \in 1..Len(n), NEW j \in 1..Len(n), n[i] = n[j] PROVE i = j
  <2>1. i - 1 = j - 1 /\ i \in Nat /\ j \in Nat => i = j
    BY SMTT(60)
  <2> QED
    BY ZenonT(60), <1>3, <1>4, <1>6, <2>1 DEF Apart
<1>7. \A i \in 1..Len(n), j \in 1..Len(tk) : n[i] # tk[j]
  BY ZenonT(60), <1>3, <1>4 DEF Apart
<1>8. Apart(n, tk, m + 1)
  BY ZenonT(60), <1>1, <1>2, <1>4, <1>5, <1>6, <1>7 DEF Apart
<1> QED
  BY ZenonT(60), <1>8 DEF n

LEMMA TakenApart ==
    ASSUME NEW h, NEW tk, NEW m \in Nat, Apart(h, tk, m), h # <<>>
    PROVE  Apart(Tail(h), Append(tk, Head(h)), m)
<1> DEFINE n == Tail(h)
           t == Append(tk, Head(h))
<1>1. h \in Seq(Nat) /\ Len(h) \in Nat /\ Len(h) > 0 /\ tk \in Seq(Nat) /\ Len(tk) \in Nat /\ 1 \in 1..Len(h)
  BY SMTT(60) DEF Apart
<1>2. n \in Seq(Nat) /\ Len(n) = Len(h) - 1 /\ \A i \in 1..Len(n) : n[i] = h[i + 1]
  BY SMTT(60), <1>1
<1>3. /\ t \in Seq(Nat) /\ Len(t) = Len(tk) + 1
      /\ \A i \in 1..Len(t) : (i \in 1..Len(tk) /\ t[i] = tk[i]) \/ (i = Len(tk) + 1 /\ t[i] = h[1])
  BY SMTT(60), <1>1
<1> HIDE DEF n, t
<1>4. \A i \in 1..Len(n) : i + 1 \in 1..Len(h) /\ i + 1 # 1 /\ i \in Nat
  BY SMTT(60), <1>1, <1>2
<1>5. \A i, j \in Nat : i + 1 = j + 1 => i = j
  BY SMTT(60)
<1>6. /\ \A i \in 1..Len(n) : n[i] \in 1..m
      /\ \A i, j \in 1..Len(n) : n[i] = n[j] => i = j
  <2>1. ASSUME NEW i \in 1..Len(n), NEW j \in 1..Len(n), n[i] = n[j] PROVE i = j
    <3>1. h[i + 1] = h[j + 1] /\ i + 1 \in 1..Len(h) /\ j + 1 \in 1..Len(h)
      BY ZenonT(60), <1>2, <1>4, <2>1
    <3>2. i + 1 = j + 1 /\ i \in Nat /\ j \in Nat
      BY ZenonT(60), <1>4, <3>1 DEF Apart
    <3> QED
      BY ZenonT(60), <1>5, <3>2
  <2>2. \A i \in 1..Len(n) : n[i] \in 1..m
    BY ZenonT(60), <1>2, <1>4 DEF Apart
  <2> QED
    BY ZenonT(60), <2>1, <2>2
<1>7. /\ \A i \in 1..Len(t) : t[i] \in 1..m
      /\ \A i, j \in 1..Len(t) : t[i] = t[j] => i = j
  BY ZenonT(60), <1>1, <1>3 DEF Apart
<1>8. ASSUME NEW i \in 1..Len(n), NEW j \in 1..Len(t) PROVE n[i] # t[j]
  <2>1. n[i] = h[i + 1] /\ i + 1 \in 1..Len(h) /\ i + 1 # 1
    BY ZenonT(60), <1>2, <1>4
  <2>2. h[i + 1] # h[1]
    BY ZenonT(60), <1>1, <2>1 DEF Apart
  <2>3. \A x \in 1..Len(tk) : h[i + 1] # tk[x]
    BY ZenonT(60), <2>1 DEF Apart
  <2> QED
    BY ZenonT(60), <1>3, <2>1, <2>2, <2>3
<1>9. Apart(n, t, m)
  BY ZenonT(60), <1>2, <1>3, <1>6, <1>7, <1>8 DEF Apart
<1> QED
  BY ZenonT(60), <1>9 DEF n, t
-----------------------------------------------------------------------------
LEMMA Wraps ==
    ASSUME Sizes, NEW b \in 0..(NUM - 1)
    PROVE  /\ (b + 1) % NUM = W(b + 1) /\ W(b + 1) \in 0..(NUM - 1)
           /\ \A d \in 0..(NUM - 1) : W(W(b + 1) + d) = W(b + (d + 1)) /\ W(W(b + d) + 1) = W(b + (d + 1))
<1>1. (b + 1) % NUM = W(b + 1)
  <2>1. CASE b + 1 = NUM
    <3>1. NUM % NUM = 0
      BY SMTT(60) DEF Sizes
    <3>2. W(b + 1) = 0
      BY SMTT(60), <2>1 DEF W, Sizes
    <3> QED
      BY ZenonT(60), <2>1, <3>1, <3>2
  <2>2. CASE b + 1 # NUM
    <3> DEFINE x == b + 1
    <3>1. x \in 0..(NUM - 1) /\ x < NUM
      BY SMTT(60), <2>2 DEF Sizes
    <3> HIDE DEF x
    <3>2. x % NUM = x
      BY SMTT(60), <3>1 DEF Sizes
    <3> QED
      BY ZenonT(60), <3>1, <3>2 DEF W, x
  <2> QED
    BY ZenonT(60), <2>1, <2>2
<1>2. W(b + 1) \in 0..(NUM - 1)
  BY SMTT(60) DEF W, Sizes
<1>3. \A d \in 0..(NUM - 1) : W(W(b + 1) + d) = W(b + (d + 1)) /\ W(W(b + d) + 1) = W(b + (d + 1))
  BY SMTT(60) DEF W, Sizes
<1> QED
  BY ZenonT(60), <1>1, <1>2, <1>3

LEMMA FullStored ==
    ASSUME Sizes, NEW b \in 0..(NUM - 1), NEW g \in Nat, NEW c \in Nat, c < NUM, NEW q,
           DOMAIN q = 0..(NUM - 1), Full(q, b, g, c)
    PROVE  Full([q EXCEPT ![W(b + c)] = g + c + 1], b, g, c + 1)
<1> DEFINE n == [q EXCEPT ![W(b + c)] = g + c + 1]
<1> SUFFICES ASSUME NEW d \in 1..(c + 1) PROVE n[W(b + d - 1)] = g + d
  BY ZenonT(60) DEF Full
<1>1. W(b + c) \in DOMAIN q
  BY SMTT(60) DEF W, Sizes
<1>2. CASE d = c + 1
  <2>1. b + d - 1 = b + c /\ g + d = g + c + 1
    BY SMTT(60), <1>2
  <2> QED
    BY ZenonT(60), <1>1, <2>1
<1>3. CASE d # c + 1
  <2>1. d \in 1..c /\ W(b + d - 1) # W(b + c) /\ W(b + d - 1) \in DOMAIN q
    BY SMTT(60), <1>3 DEF W, Sizes
  <2> QED
    BY ZenonT(60), <2>1 DEF Full
<1> QED
  BY ZenonT(60), <1>2, <1>3

LEMMA FullTaken ==
    ASSUME Sizes, NEW b \in 0..(NUM - 1), NEW g \in Nat, NEW c \in Nat, 0 < c, c =< NUM, NEW q,
           Full(q, b, g, c)
    PROVE  q[b] = g + 1 /\ Full(q, W(b + 1), g + 1, c - 1)
<1>1. q[b] = g + 1
  <2>1. 1 \in 1..c /\ W(b + 1 - 1) = b
    <3>1. 1 \in 1..c /\ b + 1 - 1 = b /\ b < NUM
      BY SMTT(60) DEF Sizes
    <3> QED
      BY ZenonT(60), <3>1 DEF W
  <2> QED
    BY ZenonT(60), <2>1 DEF Full
<1>2. ASSUME NEW d \in 1..(c - 1) PROVE q[W(W(b + 1) + d - 1)] = (g + 1) + d
  <2>1. d + 1 \in 1..c /\ W(W(b + 1) + d - 1) = W(b + (d + 1) - 1) /\ g + (d + 1) = (g + 1) + d
    <3>1. d \in Int /\ 1 =< d /\ d < c
      BY SMTT(60)
    <3>2. d + 1 \in 1..c /\ g + (d + 1) = (g + 1) + d
      BY SMTT(60), <3>1
    <3>3. W(W(b + 1) + d - 1) = W(b + (d + 1) - 1)
      BY SMTT(60), <3>1 DEF W, Sizes
    <3> QED
      BY ZenonT(60), <3>2, <3>3
  <2> QED
    BY ZenonT(60), <2>1 DEF Full
<1> QED
  BY ZenonT(60), <1>1, <1>2 DEF Full

LEMMA FullCleared ==
    ASSUME Sizes, NEW o \in 0..(NUM - 1), NEW g \in Nat, NEW c \in Nat, c < NUM, NEW q,
           DOMAIN q = 0..(NUM - 1), Full(q, W(o + 1), g, c)
    PROVE  Full([q EXCEPT ![o] = 0], W(o + 1), g, c)
<1> SUFFICES ASSUME NEW d \in 1..c PROVE [q EXCEPT ![o] = 0][W(W(o + 1) + d - 1)] = g + d
  BY ZenonT(60) DEF Full
<1>1. W(W(o + 1) + d - 1) # o /\ W(W(o + 1) + d - 1) \in DOMAIN q
  BY SMTT(60) DEF W, Sizes
<1> QED
  BY ZenonT(60), <1>1 DEF Full
-----------------------------------------------------------------------------
\* The steps through the semaphores.
LEMMA SemFacts ==
    ASSUME Sizes, NEW pp, NEW pc, NEW g, NEW m, NEW s, NEW i, NEW o, NEW q,
           SemData(pp, pc, g, m, s, i, o, q)
    PROVE  /\ g \in Nat /\ m \in Nat /\ m - g \in Nat /\ m - g =< NUM
           /\ o \in 0..(NUM - 1) /\ Base(pc, o) \in 0..(NUM - 1)
           /\ Is(pp = "put") \in {0, 1} /\ Is(pp = "post") \in {0, 1} /\ Is(pc = "get") \in {0, 1}
           /\ Is(pc \in {"clear", "post"}) \in {0, 1}
           /\ m - g >= Is(pp = "post") + Is(pc = "get")
           /\ m - g + Is(pp = "put") + Is(pc \in {"clear", "post"}) =< NUM
<1>1. /\ Is(pp = "put") \in {0, 1} /\ Is(pp = "post") \in {0, 1} /\ Is(pc = "get") \in {0, 1}
      /\ Is(pc \in {"clear", "post"}) \in {0, 1}
  BY ZenonT(60) DEF Is
<1>2. o \in 0..(NUM - 1)
  BY ZenonT(60) DEF SemData
<1>3. Base(pc, o) \in 0..(NUM - 1)
  <2>1. W(o + 1) \in 0..(NUM - 1)
    BY ZenonT(60), <1>2, Wraps
  <2> QED
    BY ZenonT(60), <1>2, <2>1 DEF Base
<1> DEFINE a == Is(pp = "post")
           b == Is(pc = "get")
           c == Is(pp = "put")
           d == Is(pc \in {"clear", "post"})
<1>4. /\ g \in Nat /\ m \in Nat /\ g =< m
      /\ s.product \in Nat /\ s.product = m - g - a - b
      /\ s.blank \in Nat /\ s.blank = NUM - (m - g) - c - d
  BY ZenonT(60) DEF SemData
<1>5. a \in {0, 1} /\ b \in {0, 1} /\ c \in {0, 1} /\ d \in {0, 1}
  BY ZenonT(60), <1>1
<1> HIDE DEF a, b, c, d
<1>6. m - g \in Nat /\ m - g =< NUM /\ m - g >= a + b /\ m - g + c + d =< NUM
  BY SMTT(60), <1>4, <1>5 DEF Sizes
<1> QED
  BY ZenonT(60), <1>1, <1>2, <1>3, <1>4, <1>6 DEF a, b, c, d

LEMMA SemWaitBlankData ==
    ASSUME Sizes, NEW pc, NEW g, NEW m, NEW s, NEW i, NEW o, NEW q, DOMAIN s = {"blank", "product"},
           SemData("make", pc, g, m, s, i, o, q), s.blank > 0
    PROVE  SemData("put", pc, g, m, [s EXCEPT !.blank = @ - 1], i, o, q)
<1> DEFINE n == [s EXCEPT !.blank = @ - 1]
<1>1. n.blank = s.blank - 1 /\ n.product = s.product
  BY ZenonT(60)
<1>2. Is("make" = "post") = 0 /\ Is("put" = "post") = 0 /\ Is("put" = "put") = 1 /\ Is("make" = "put") = 0
  BY ZenonT(60) DEF Is
<1> DEFINE d == Is(pc \in {"clear", "post"})
<1>3. d \in {0, 1} /\ g \in Nat /\ m \in Nat
  BY ZenonT(60), SemFacts
<1>4. s.blank \in Nat /\ s.blank = NUM - (m - g) - 0 - d
  BY ZenonT(60), <1>2 DEF SemData
<1> HIDE DEF d, n
<1>5. n.blank \in Nat /\ n.blank = NUM - (m - g) - 1 - d
  BY SMTT(60), <1>1, <1>3, <1>4 DEF Sizes
<1>6. SemData("put", pc, g, m, n, i, o, q)
  BY ZenonT(60), <1>1, <1>2, <1>5 DEF SemData, d
<1> QED
  BY ZenonT(60), <1>6 DEF n

LEMMA PutData ==
    ASSUME Sizes, NEW pc, NEW g, NEW m, NEW s, NEW i, NEW o, NEW q,
           SemData("put", pc, g, m, s, i, o, q)
    PROVE  SemData("post", pc, g, m + 1, s, i, o, [q EXCEPT ![i] = m + 1])
<1> DEFINE n == [q EXCEPT ![i] = m + 1]
           b == Base(pc, o)
           d == Is(pc \in {"clear", "post"})
           e == Is(pc = "get")
<1>1. Is("put" = "post") = 0 /\ Is("post" = "post") = 1 /\ Is("put" = "put") = 1 /\ Is("post" = "put") = 0
  BY ZenonT(60) DEF Is
<1>2. /\ g \in Nat /\ m \in Nat /\ m - g \in Nat /\ b \in 0..(NUM - 1)
      /\ d \in {0, 1} /\ e \in {0, 1} /\ m - g + 1 + d =< NUM
  BY ZenonT(60), <1>1, SemFacts
<1>3. /\ i = W(b + (m - g) - 0) /\ DOMAIN q = 0..(NUM - 1) /\ Full(q, b, g, m - g)
      /\ s.product \in Nat /\ s.product = m - g - 0 - e
      /\ s.blank \in Nat /\ s.blank = NUM - (m - g) - 1 - d /\ o \in 0..(NUM - 1) /\ g =< m
  BY ZenonT(60), <1>1 DEF SemData
<1> HIDE DEF d, e, b
<1>4. m - g < NUM /\ b + (m - g) - 0 = b + (m - g) /\ g + (m - g) + 1 = m + 1 /\ m - g + 1 = (m + 1) - g
  BY SMTT(60), <1>2 DEF Sizes
<1>5. Full(n, b, g, (m + 1) - g)
  <2>1. Full([q EXCEPT ![W(b + (m - g))] = g + (m - g) + 1], b, g, m - g + 1)
    BY ZenonT(60), <1>2, <1>3, <1>4, FullStored
  <2> QED
    BY ZenonT(60), <1>3, <1>4, <2>1
<1>6. /\ m + 1 \in Nat /\ g =< m + 1 /\ s.product = (m + 1) - g - 1 - e
      /\ s.blank = NUM - ((m + 1) - g) - 0 - d /\ b + ((m + 1) - g) - 1 = b + (m - g) - 0
  BY SMTT(60), <1>2, <1>3 DEF Sizes
<1>7. DOMAIN n = 0..(NUM - 1)
  BY ZenonT(60), <1>3
<1> HIDE DEF n
<1>8. /\ s.product = (m + 1) - g - Is("post" = "post") - Is(pc = "get")
      /\ s.blank = NUM - ((m + 1) - g) - Is("post" = "put") - Is(pc \in {"clear", "post"})
      /\ i = W(Base(pc, o) + ((m + 1) - g) - Is("post" = "post"))
      /\ Full(n, Base(pc, o), g, (m + 1) - g)
  BY ZenonT(60), <1>1, <1>3, <1>5, <1>6 DEF d, e, b
<1>9. SemData("post", pc, g, m + 1, s, i, o, n)
  BY ZenonT(60), <1>2, <1>3, <1>6, <1>7, <1>8 DEF SemData
<1> QED
  BY ZenonT(60), <1>9 DEF n

LEMMA PostProductData ==
    ASSUME Sizes, NEW pc, NEW g, NEW m, NEW s, NEW i, NEW o, NEW q, DOMAIN s = {"blank", "product"},
           SemData("post", pc, g, m, s, i, o, q)
    PROVE  SemData("make", pc, g, m, [s EXCEPT !.product = @ + 1], (i + 1) % NUM, o, q)
<1> DEFINE n == [s EXCEPT !.product = @ + 1]
           b == Base(pc, o)
           e == Is(pc = "get")
           x == m - g - 1
<1>1. n.product = s.product + 1 /\ n.blank = s.blank
  BY ZenonT(60)
<1>2. Is("make" = "post") = 0 /\ Is("post" = "post") = 1 /\ Is("make" = "put") = 0 /\ Is("post" = "put") = 0
  BY ZenonT(60) DEF Is
<1>3. /\ g \in Nat /\ m \in Nat /\ m - g \in Nat /\ m - g =< NUM /\ b \in 0..(NUM - 1)
      /\ e \in {0, 1} /\ m - g >= 1 + e
  BY ZenonT(60), <1>2, SemFacts
<1>4. s.product \in Nat /\ s.product = m - g - 1 - e /\ i = W(b + (m - g) - 1)
  BY ZenonT(60), <1>2 DEF SemData
<1> HIDE DEF e, b, n
<1>5. n.product \in Nat /\ n.product = m - g - 0 - e
  BY SMTT(60), <1>1, <1>3, <1>4
<1>6. x \in 0..(NUM - 1) /\ b + (m - g) - 1 = b + x /\ x + 1 = m - g /\ b + (m - g) = b + (m - g) - 0
  BY SMTT(60), <1>3 DEF Sizes
<1> HIDE DEF x
<1>7. i = W(b + x) /\ i \in 0..(NUM - 1)
  <2>1. W(b + x) \in 0..(NUM - 1)
    BY SMTT(60), <1>3, <1>6 DEF W, Sizes
  <2> QED
    BY ZenonT(60), <1>4, <1>6, <2>1
<1>8. (i + 1) % NUM = W(b + (m - g) - 0)
  <2>1. (i + 1) % NUM = W(i + 1)
    BY ZenonT(60), <1>7, Wraps
  <2>2. W(W(b + x) + 1) = W(b + (x + 1))
    BY ZenonT(60), <1>3, <1>6, Wraps
  <2> QED
    BY ZenonT(60), <1>6, <1>7, <2>1, <2>2
<1>9. /\ n.product = m - g - Is("make" = "post") - Is(pc = "get")
      /\ n.blank \in Nat /\ n.blank = NUM - (m - g) - Is("make" = "put") - Is(pc \in {"clear", "post"})
      /\ (i + 1) % NUM = W(Base(pc, o) + (m - g) - Is("make" = "post"))
  BY ZenonT(60), <1>1, <1>2, <1>5, <1>8 DEF SemData, e, b
<1>10. SemData("make", pc, g, m, n, (i + 1) % NUM, o, q)
  BY ZenonT(60), <1>5, <1>9 DEF SemData
<1> QED
  BY ZenonT(60), <1>10 DEF n

LEMMA SemWaitProductData ==
    ASSUME Sizes, NEW pp, NEW g, NEW m, NEW s, NEW i, NEW o, NEW q, DOMAIN s = {"blank", "product"},
           SemData(pp, "lock", g, m, s, i, o, q), s.product > 0
    PROVE  SemData(pp, "get", g, m, [s EXCEPT !.product = @ - 1], i, o, q)
<1> DEFINE n == [s EXCEPT !.product = @ - 1]
           a == Is(pp = "post")
<1>1. n.product = s.product - 1 /\ n.blank = s.blank
  BY ZenonT(60)
<1>2. /\ Is("lock" = "get") = 0 /\ Is("get" = "get") = 1
      /\ Is("lock" \in {"clear", "post"}) = 0 /\ Is("get" \in {"clear", "post"}) = 0
      /\ Base("lock", o) = o /\ Base("get", o) = o
  BY ZenonT(60) DEF Is, Base
<1>3. a \in {0, 1} /\ g \in Nat /\ m \in Nat
  BY ZenonT(60), SemFacts
<1>4. s.product \in Nat /\ s.product = m - g - a - 0
  BY ZenonT(60), <1>2 DEF SemData
<1> HIDE DEF a, n
<1>5. n.product \in Nat /\ n.product = m - g - a - 1
  BY SMTT(60), <1>1, <1>3, <1>4
<1>6. SemData(pp, "get", g, m, n, i, o, q)
  BY ZenonT(60), <1>1, <1>2, <1>5 DEF SemData, a
<1> QED
  BY ZenonT(60), <1>6 DEF n

LEMMA GetData ==
    ASSUME Sizes, NEW pp, NEW g, NEW m, NEW s, NEW i, NEW o, NEW q,
           SemData(pp, "get", g, m, s, i, o, q)
    PROVE  q[o] = g + 1 /\ SemData(pp, "clear", g + 1, m, s, i, o, q)
<1> DEFINE a == Is(pp = "post")
           u == Is(pp = "put")
<1>1. /\ Is("clear" = "get") = 0 /\ Is("get" = "get") = 1
      /\ Is("clear" \in {"clear", "post"}) = 1 /\ Is("get" \in {"clear", "post"}) = 0
      /\ Base("clear", o) = W(o + 1) /\ Base("get", o) = o
  BY ZenonT(60) DEF Is, Base
<1>2. /\ g \in Nat /\ m \in Nat /\ m - g \in Nat /\ m - g =< NUM /\ o \in 0..(NUM - 1)
      /\ a \in {0, 1} /\ u \in {0, 1} /\ m - g >= a + 1
  BY ZenonT(60), <1>1, SemFacts
<1>3. /\ i = W(o + (m - g) - a) /\ DOMAIN q = 0..(NUM - 1) /\ Full(q, o, g, m - g)
      /\ s.product \in Nat /\ s.product = m - g - a - 1
      /\ s.blank \in Nat /\ s.blank = NUM - (m - g) - u - 0
  BY ZenonT(60), <1>1 DEF SemData
<1> HIDE DEF a, u
<1> DEFINE x == m - (g + 1) - a
<1>4. /\ 0 < m - g /\ g + 1 \in Nat /\ g + 1 =< m /\ m - g - 1 = m - (g + 1)
      /\ s.product = m - (g + 1) - a - 0 /\ s.blank = NUM - (m - (g + 1)) - u - 1
      /\ x \in 0..(NUM - 1) /\ o + (m - g) - a = o + (x + 1)
      /\ W(o + 1) + (m - (g + 1)) - a = W(o + 1) + x
  <2>1. W(o + 1) \in 0..(NUM - 1)
    BY ZenonT(60), <1>2, Wraps
  <2>2. /\ 0 < m - g /\ g + 1 \in Nat /\ g + 1 =< m /\ m - g - 1 = m - (g + 1)
        /\ s.product = m - (g + 1) - a - 0 /\ s.blank = NUM - (m - (g + 1)) - u - 1
    BY SMTT(60), <1>2, <1>3 DEF Sizes
  <2>3. x \in 0..(NUM - 1) /\ o + (m - g) - a = o + (x + 1)
    BY SMTT(60), <1>2 DEF Sizes
  <2> QED
    BY ZenonT(60), <2>2, <2>3
<1> HIDE DEF x
<1>5. q[o] = g + 1 /\ Full(q, W(o + 1), g + 1, m - (g + 1))
  <2> DEFINE c == m - g
  <2>1. c \in Nat /\ 0 < c /\ c =< NUM /\ Full(q, o, g, c) /\ c - 1 = m - (g + 1)
    BY ZenonT(60), <1>2, <1>3, <1>4
  <2> HIDE DEF c
  <2>2. q[o] = g + 1 /\ Full(q, W(o + 1), g + 1, c - 1)
    BY SMTT(60), <1>2, <2>1, FullTaken
  <2> QED
    BY ZenonT(60), <2>1, <2>2
<1>6. i = W(W(o + 1) + (m - (g + 1)) - a)
  <2>1. W(W(o + 1) + x) = W(o + (x + 1))
    BY ZenonT(60), <1>2, <1>4, Wraps
  <2> QED
    BY ZenonT(60), <1>3, <1>4, <2>1
<1>7. /\ s.product = m - (g + 1) - Is(pp = "post") - Is("clear" = "get")
      /\ s.blank = NUM - (m - (g + 1)) - Is(pp = "put") - Is("clear" \in {"clear", "post"})
      /\ i = W(Base("clear", o) + (m - (g + 1)) - Is(pp = "post"))
      /\ Full(q, Base("clear", o), g + 1, m - (g + 1))
  BY ZenonT(60), <1>1, <1>4, <1>5, <1>6 DEF a, u
<1> QED
  BY ZenonT(60), <1>2, <1>3, <1>4, <1>5, <1>7 DEF SemData

LEMMA ClearData ==
    ASSUME Sizes, NEW pp, NEW g, NEW m, NEW s, NEW i, NEW o, NEW q,
           SemData(pp, "clear", g, m, s, i, o, q)
    PROVE  SemData(pp, "post", g, m, s, i, o, [q EXCEPT ![o] = 0])
<1> DEFINE n == [q EXCEPT ![o] = 0]
           u == Is(pp = "put")
<1>1. /\ Is("clear" = "get") = 0 /\ Is("post" = "get") = 0
      /\ Is("clear" \in {"clear", "post"}) = 1 /\ Is("post" \in {"clear", "post"}) = 1
      /\ Base("clear", o) = W(o + 1) /\ Base("post", o) = W(o + 1)
  BY ZenonT(60) DEF Is, Base
<1>2. g \in Nat /\ m \in Nat /\ m - g \in Nat /\ o \in 0..(NUM - 1) /\ u \in {0, 1} /\ m - g + u + 1 =< NUM
  BY ZenonT(60), <1>1, SemFacts
<1> HIDE DEF u
<1>3. m - g < NUM
  BY SMTT(60), <1>2 DEF Sizes
<1>4. DOMAIN q = 0..(NUM - 1) /\ Full(q, W(o + 1), g, m - g)
  BY ZenonT(60), <1>1 DEF SemData
<1>5. Full(n, W(o + 1), g, m - g)
  BY ZenonT(60), <1>2, <1>3, <1>4, FullCleared
<1>6. DOMAIN n = 0..(NUM - 1)
  BY ZenonT(60), <1>4
<1> HIDE DEF n
<1>7. SemData(pp, "post", g, m, s, i, o, n)
  BY ZenonT(60), <1>1, <1>5, <1>6 DEF SemData
<1> QED
  BY ZenonT(60), <1>7 DEF n

LEMMA PostBlankData ==
    ASSUME Sizes, NEW pp, NEW g, NEW m, NEW s, NEW i, NEW o, NEW q, DOMAIN s = {"blank", "product"},
           SemData(pp, "post", g, m, s, i, o, q)
    PROVE  SemData(pp, "lock", g, m, [s EXCEPT !.blank = @ + 1], i, (o + 1) % NUM, q)
<1> DEFINE n == [s EXCEPT !.blank = @ + 1]
           u == Is(pp = "put")
           w == (o + 1) % NUM
<1>1. n.blank = s.blank + 1 /\ n.product = s.product
  BY ZenonT(60)
<1>2. o \in 0..(NUM - 1) /\ u \in {0, 1} /\ g \in Nat /\ m \in Nat
  BY ZenonT(60), SemFacts
<1>3. w = W(o + 1) /\ w \in 0..(NUM - 1)
  BY ZenonT(60), <1>2, Wraps
<1> HIDE DEF w, n
<1>4. /\ Is("lock" = "get") = 0 /\ Is("post" = "get") = 0
      /\ Is("lock" \in {"clear", "post"}) = 0 /\ Is("post" \in {"clear", "post"}) = 1
      /\ Base("post", o) = w /\ Base("lock", w) = w
  BY ZenonT(60), <1>3 DEF Is, Base
<1>5. s.blank \in Nat /\ s.blank = NUM - (m - g) - u - 1
  BY ZenonT(60), <1>4 DEF SemData
<1> HIDE DEF u
<1>6. n.blank \in Nat /\ n.blank = NUM - (m - g) - u - 0
  BY SMTT(60), <1>1, <1>2, <1>5 DEF Sizes
<1>7. SemData(pp, "lock", g, m, n, i, w, q)
  BY ZenonT(60), <1>1, <1>3, <1>4, <1>6 DEF SemData, u
<1> QED
  BY ZenonT(60), <1>7 DEF n, w
-----------------------------------------------------------------------------
LEMMA InitTInv == ASSUME Sizes, List!Init PROVE TInv
<1>1. <<>> \in Seq(Nat) /\ Len(<<>>) = 0 /\ \A i \in 1..0 : FALSE
  BY SMTT(60)
<1>2. List!First \in Consumer /\ consumer[List!First] = "lock" /\ DOMAIN consumer = Consumer
      /\ \A c \in Consumer : consumer[c] = "lock"
  BY ZenonT(60), FirstConsumes DEF List!Init
<1>3. Apart(<<>>, <<>>, 0)
  BY ZenonT(60), <1>1 DEF Apart
<1>4. SemData("make", "lock", 0, 0, sem, 0, 0, queue)
  <2>1. /\ sem.blank = NUM /\ sem.product = 0 /\ DOMAIN queue = 0..(NUM - 1)
    BY ZenonT(60) DEF List!Init
  <2>2. /\ Is("make" = "post") = 0 /\ Is("make" = "put") = 0 /\ Is("lock" = "get") = 0
        /\ Is("lock" \in {"clear", "post"}) = 0 /\ Base("lock", 0) = 0
    BY ZenonT(60) DEF Is, Base
  <2>3. /\ 0 \in Nat /\ 0 =< 0 /\ 0 \in 0..(NUM - 1) /\ NUM \in Nat /\ 0 < NUM /\ 0 - 0 = 0
        /\ 0 = 0 - 0 - 0 - 0 /\ NUM = NUM - (0 - 0) - 0 - 0 /\ 0 + (0 - 0) - 0 = 0
    BY SMTT(60) DEF Sizes
  <2>4. Full(queue, 0, 0, 0)
    BY ZenonT(60), <1>1 DEF Full
  <2>5. W(0) = 0
    BY ZenonT(60), <2>3 DEF W
  <2> QED
    BY ZenonT(60), <2>1, <2>2, <2>3, <2>4, <2>5 DEF SemData
<1>5. DOMAIN sem = {"blank", "product"}
  BY SMTT(60) DEF List!Init
<1>6. SemInv /\ CondInv
  BY ZenonT(60), <1>1, <1>2, <1>3, <1>4, <1>5 DEF SemInv, CondInv, List!Init
<1>7. 0 \in Nat
  BY SMTT(60)
<1> QED
  BY ZenonT(60), <1>2, <1>6, <1>7 DEF TInv, List!Init, Sizes

LEMMA ProduceTInv == ASSUME TInv, List!Produce PROVE TInv'
<1>1. program = "cond" /\ made \in Nat /\ Apart(head, taken, made)
  BY ZenonT(60) DEF TInv, CondInv, List!Produce
<1>2. made + 1 \in Nat
  BY SMTT(60), <1>1
<1>3. Apart(<<made + 1>> \o head, taken, made + 1)
  BY ZenonT(60), <1>1, AddedApart
<1>4. CondInv'
  BY ZenonT(60), <1>1, <1>3 DEF TInv, CondInv, List!Produce, Apart
<1> QED
  BY ZenonT(60), <1>1, <1>2, <1>4 DEF TInv, List!Produce

LEMMA SignalTInv == ASSUME TInv, List!Signal PROVE TInv'
<1>1. /\ program = "cond" /\ program' = program /\ producer' = "make"
      /\ UNCHANGED <<made, taken, head, listFault>> /\ CondInv /\ DOMAIN consumer = Consumer
  BY ZenonT(60) DEF TInv, List!Signal, List!cond
<1>2. consumer' = consumer \/ \E c \in Consumer : consumer' = [consumer EXCEPT ![c] = "woken"]
  BY ZenonT(60) DEF List!Signal, List!Waiting
<1>3. DOMAIN consumer' = Consumer /\ \A c \in Consumer : consumer'[c] \in {"lock", "wait", "woken"}
  BY ZenonT(60), <1>1, <1>2 DEF CondInv
<1>4. CondInv'
  BY ZenonT(60), <1>1, <1>3 DEF CondInv, Apart
<1> QED
  BY ZenonT(60), <1>1, <1>3, <1>4 DEF TInv

LEMMA SpuriousTInv == ASSUME TInv, NEW c \in Consumer, List!Spurious(c) PROVE TInv'
<1>1. program = "cond" /\ CondInv /\ DOMAIN consumer = Consumer
  BY ZenonT(60) DEF TInv, List!Spurious, SemInv
<1>2. /\ program' = program /\ consumer' = [consumer EXCEPT ![c] = "woken"]
      /\ UNCHANGED <<made, taken, head, listFault, producer>>
  BY ZenonT(60) DEF List!Spurious, List!cond
<1>3. DOMAIN consumer' = Consumer /\ \A d \in Consumer : consumer'[d] \in {"lock", "wait", "woken"}
  BY ZenonT(60), <1>1, <1>2 DEF CondInv
<1>4. CondInv'
  BY ZenonT(60), <1>1, <1>2, <1>3 DEF CondInv, Apart
<1> QED
  BY ZenonT(60), <1>1, <1>2, <1>3, <1>4 DEF TInv

LEMMA ConsumeTInv == ASSUME TInv, NEW c \in Consumer, List!Consume(c) PROVE TInv'
<1>1. program = "cond" /\ CondInv /\ DOMAIN consumer = Consumer /\ made \in Nat /\ ~listFault
  BY ZenonT(60) DEF TInv, List!Consume
<1>2. /\ program' = program /\ UNCHANGED <<made, producer>>
      /\ \E v \in {"lock", "wait"} : consumer' = [consumer EXCEPT ![c] = v]
      /\ listFault' = listFault
      /\ \/ UNCHANGED <<taken, head>>
         \/ head # <<>> /\ head' = Tail(head) /\ taken' = Append(taken, Head(head))
  BY ZenonT(60) DEF List!Consume, List!Take, List!cond
<1>3. DOMAIN consumer' = Consumer /\ \A d \in Consumer : consumer'[d] \in {"lock", "wait", "woken"}
  BY ZenonT(60), <1>1, <1>2 DEF CondInv
<1>4. Apart(head', taken', made)
  <2>1. CASE UNCHANGED <<taken, head>>
    BY ZenonT(60), <1>1, <2>1 DEF CondInv
  <2>2. CASE head # <<>> /\ head' = Tail(head) /\ taken' = Append(taken, Head(head))
    <3>1. Apart(Tail(head), Append(taken, Head(head)), made)
      BY ZenonT(60), <1>1, <2>2, TakenApart DEF CondInv
    <3> QED
      BY ZenonT(60), <2>2, <3>1
  <2> QED
    BY ZenonT(60), <1>2, <2>1, <2>2
<1>5. CondInv'
  BY ZenonT(60), <1>1, <1>2, <1>3, <1>4 DEF CondInv, Apart
<1> QED
  BY ZenonT(60), <1>1, <1>2, <1>3, <1>5 DEF TInv
-----------------------------------------------------------------------------
\* The semaphores' data in the next state.
NextData == SemData(producer', consumer'[List!First], Len(taken'), made', sem', in', out', queue')

LEMMA SemPrimed ==
    ASSUME Sizes, SemInv, NextData, ~listFault, made' \in Nat, DOMAIN consumer = Consumer,
           program' = "sem", listFault' = listFault, producer' \in {"make", "put", "post"}, DOMAIN sem' = DOMAIN sem,
           \/ consumer' = consumer
           \/ \E v \in {"lock", "get", "clear", "post"} : consumer' = [consumer EXCEPT ![List!First] = v],
           taken' \in Seq(Nat), \A i \in 1..Len(taken') : taken'[i] = i
    PROVE  TInv'
<1>1. List!First \in Consumer
  BY ZenonT(60), FirstConsumes
<1>2. /\ DOMAIN consumer' = Consumer
      /\ consumer'[List!First] \in {"lock", "get", "clear", "post"}
      /\ \A c \in Consumer : consumer'[c] # "wait"
  BY ZenonT(60), <1>1 DEF SemInv
<1>3. SemInv'
  BY ZenonT(60), <1>2 DEF SemInv, NextData, SemData, Base, W, Full, Is
<1> QED
  BY ZenonT(60), <1>2, <1>3 DEF TInv

\* The steps of the producer.
LEMMA ProducerTInv == ASSUME Sizes, TInv, List!SemWaitBlank \/ List!Put \/ List!PostProduct PROVE TInv'
<1>1. program = "sem" /\ SemInv /\ ~listFault /\ made \in Nat /\ DOMAIN consumer = Consumer
  BY ZenonT(60) DEF TInv, CondInv, List!SemWaitBlank, List!Put, List!PostProduct
<1>2. program' = "sem" /\ UNCHANGED <<taken, consumer, listFault, out>>
  BY ZenonT(60), <1>1 DEF List!SemWaitBlank, List!Put, List!PostProduct, List!cond
<1>3. /\ taken \in Seq(Nat) /\ \A i \in 1..Len(taken) : taken[i] = i
      /\ DOMAIN sem = {"blank", "product"}
      /\ SemData(producer, consumer[List!First], Len(taken), made, sem, in, out, queue)
  BY ZenonT(60), <1>1 DEF SemInv
<1>4. CASE List!SemWaitBlank
  <2>1. /\ producer = "make" /\ sem.blank > 0 /\ sem' = [sem EXCEPT !.blank = @ - 1] /\ producer' = "put"
        /\ UNCHANGED <<made, queue, in>>
    BY ZenonT(60), <1>4 DEF List!SemWaitBlank
  <2>2. SemData("put", consumer[List!First], Len(taken), made, [sem EXCEPT !.blank = @ - 1], in, out, queue)
    BY ZenonT(60), <1>3, <2>1, SemWaitBlankData
  <2>3. NextData /\ DOMAIN sem' = DOMAIN sem
    BY ZenonT(60), <1>2, <2>1, <2>2 DEF NextData
  <2> QED
    BY ZenonT(60), <1>1, <1>2, <1>3, <2>1, <2>3, SemPrimed
<1>5. CASE List!Put
  <2>1. /\ producer = "put" /\ made' = made + 1 /\ queue' = [queue EXCEPT ![in] = made + 1]
        /\ producer' = "post" /\ UNCHANGED <<sem, in>>
    BY ZenonT(60), <1>5 DEF List!Put
  <2>2. SemData("post", consumer[List!First], Len(taken), made + 1, sem, in, out, [queue EXCEPT ![in] = made + 1])
    BY ZenonT(60), <1>3, <2>1, PutData
  <2>3. NextData
    BY ZenonT(60), <1>2, <2>1, <2>2 DEF NextData
  <2>4. made' \in Nat
    BY SMTT(60), <1>1, <2>1
  <2> QED
    BY ZenonT(60), <1>1, <1>2, <1>3, <2>1, <2>3, <2>4, SemPrimed
<1>6. CASE List!PostProduct
  <2>1. /\ producer = "post" /\ sem' = [sem EXCEPT !.product = @ + 1] /\ in' = (in + 1) % NUM
        /\ producer' = "make" /\ UNCHANGED <<made, queue>>
    BY ZenonT(60), <1>6 DEF List!PostProduct
  <2>2. SemData("make", consumer[List!First], Len(taken), made, [sem EXCEPT !.product = @ + 1], (in + 1) % NUM, out, queue)
    BY ZenonT(60), <1>3, <2>1, PostProductData
  <2>3. NextData /\ DOMAIN sem' = DOMAIN sem
    BY ZenonT(60), <1>2, <2>1, <2>2 DEF NextData
  <2> QED
    BY ZenonT(60), <1>1, <1>2, <1>3, <2>1, <2>3, SemPrimed
<1> QED
  BY ZenonT(60), <1>4, <1>5, <1>6

\* The steps of the consumer.
LEMMA ConsumerTInv == ASSUME Sizes, TInv, List!SemWaitProduct \/ List!Get \/ List!Clear \/ List!PostBlank PROVE TInv'
<1>0. List!First \in Consumer
  BY ZenonT(60), FirstConsumes
<1>1. program = "sem" /\ SemInv /\ ~listFault /\ made \in Nat /\ DOMAIN consumer = Consumer
  BY ZenonT(60), <1>0 DEF TInv, CondInv, List!SemWaitProduct, List!Get, List!Clear, List!PostBlank
<1>2. program' = "sem" /\ UNCHANGED <<made, producer, listFault, in>>
  BY ZenonT(60), <1>1 DEF List!SemWaitProduct, List!Get, List!Clear, List!PostBlank, List!cond, List!ring
<1>3. /\ taken \in Seq(Nat) /\ \A i \in 1..Len(taken) : taken[i] = i
      /\ DOMAIN sem = {"blank", "product"} /\ producer \in {"make", "put", "post"}
      /\ SemData(producer, consumer[List!First], Len(taken), made, sem, in, out, queue)
  BY ZenonT(60), <1>1 DEF SemInv
<1>4. \A v : [consumer EXCEPT ![List!First] = v][List!First] = v
  BY ZenonT(60), <1>0, <1>1
<1>5. CASE List!SemWaitProduct
  <2>1. /\ consumer[List!First] = "lock" /\ sem.product > 0 /\ sem' = [sem EXCEPT !.product = @ - 1]
        /\ consumer' = [consumer EXCEPT ![List!First] = "get"] /\ UNCHANGED <<taken, queue, out>>
    BY ZenonT(60), <1>5 DEF List!SemWaitProduct
  <2>2. SemData(producer, "get", Len(taken), made, [sem EXCEPT !.product = @ - 1], in, out, queue)
    BY ZenonT(60), <1>3, <2>1, SemWaitProductData
  <2>3. NextData /\ DOMAIN sem' = DOMAIN sem
    BY ZenonT(60), <1>2, <1>4, <2>1, <2>2 DEF NextData
  <2> QED
    BY ZenonT(60), <1>1, <1>2, <1>3, <2>1, <2>3, SemPrimed
<1>6. CASE List!Get
  <2>1. /\ consumer[List!First] = "get" /\ taken' = Append(taken, queue[out])
        /\ consumer' = [consumer EXCEPT ![List!First] = "clear"] /\ UNCHANGED <<sem, queue, out>>
    BY ZenonT(60), <1>6 DEF List!Get, List!ring
  <2>2. queue[out] = Len(taken) + 1 /\ SemData(producer, "clear", Len(taken) + 1, made, sem, in, out, queue)
    BY ZenonT(60), <1>3, <2>1, GetData
  <2>3. /\ taken' \in Seq(Nat) /\ Len(taken') = Len(taken) + 1
        /\ \A i \in 1..Len(taken') : taken'[i] = i
    BY SMTT(60), <1>3, <2>1, <2>2
  <2>4. NextData
    BY ZenonT(60), <1>2, <1>4, <2>1, <2>2, <2>3 DEF NextData
  <2> QED
    BY ZenonT(60), <1>1, <1>2, <1>3, <2>1, <2>3, <2>4, SemPrimed
<1>7. CASE List!Clear
  <2>1. /\ consumer[List!First] = "clear" /\ queue' = [queue EXCEPT ![out] = 0]
        /\ consumer' = [consumer EXCEPT ![List!First] = "post"] /\ UNCHANGED <<sem, taken, out>>
    BY ZenonT(60), <1>7 DEF List!Clear
  <2>2. SemData(producer, "post", Len(taken), made, sem, in, out, [queue EXCEPT ![out] = 0])
    BY ZenonT(60), <1>3, <2>1, ClearData
  <2>3. NextData
    BY ZenonT(60), <1>2, <1>4, <2>1, <2>2 DEF NextData
  <2> QED
    BY ZenonT(60), <1>1, <1>2, <1>3, <2>1, <2>3, SemPrimed
<1>8. CASE List!PostBlank
  <2>1. /\ consumer[List!First] = "post" /\ sem' = [sem EXCEPT !.blank = @ + 1] /\ out' = (out + 1) % NUM
        /\ consumer' = [consumer EXCEPT ![List!First] = "lock"] /\ UNCHANGED <<taken, queue>>
    BY ZenonT(60), <1>8 DEF List!PostBlank
  <2>2. SemData(producer, "lock", Len(taken), made, [sem EXCEPT !.blank = @ + 1], in, (out + 1) % NUM, queue)
    BY ZenonT(60), <1>3, <2>1, PostBlankData
  <2>3. NextData /\ DOMAIN sem' = DOMAIN sem
    BY ZenonT(60), <1>2, <1>4, <2>1, <2>2 DEF NextData
  <2> QED
    BY ZenonT(60), <1>1, <1>2, <1>3, <2>1, <2>3, SemPrimed
<1> QED
  BY ZenonT(60), <1>5, <1>6, <1>7, <1>8

LEMMA NextTInv == ASSUME Sizes, TInv, [List!Next]_(List!vars) PROVE TInv'
<1>1. CASE UNCHANGED List!vars
  BY ZenonT(60), <1>1 DEF List!vars, List!cond, List!ring, TInv, CondInv, SemInv, Apart, SemData, Full, Base, W, Is
<1> QED
  BY ZenonT(60), <1>1, ProduceTInv, SignalTInv, ProducerTInv, ConsumerTInv, SpuriousTInv, ConsumeTInv
     DEF List!Next

LEMMA TakenOnceNow == ASSUME TInv PROVE List!TakenOnce
<1>1. CASE program = "cond"
  BY ZenonT(60), <1>1 DEF TInv, CondInv, Apart, List!TakenOnce
<1>2. CASE program = "sem"
  <2>1. /\ taken \in Seq(Nat) /\ Len(taken) \in Nat /\ made \in Nat /\ Len(taken) =< made /\ ~listFault
        /\ \A i \in 1..Len(taken) : taken[i] = i
    BY ZenonT(60), <1>2 DEF TInv, SemInv, SemData
  <2>2. \A i \in 1..Len(taken) : taken[i] \in 1..made
    BY SMTT(60), <2>1
  <2> QED
    BY ZenonT(60), <2>1, <2>2 DEF List!TakenOnce
<1> QED
  BY ZenonT(60), <1>1, <1>2 DEF TInv

\* Whatever the order in which producer and consumers run, with spurious wake-ups
\* and signals nobody waits for: no consumer follows a null head, each message is
\* taken at most once and only after it was made, and with the semaphores the
\* ring gives them in the order they were made - a slot is neither overwritten
\* before it is read nor read before it is written.
THEOREM TakenOnceHolds == ASSUME Sizes PROVE List!Spec => []List!TakenOnce
<1>1. List!Init => TInv
  BY ZenonT(60), InitTInv
<1>2. TInv /\ [List!Next]_(List!vars) => TInv'
  BY ZenonT(60), NextTInv
<1>3. TInv => List!TakenOnce
  BY ZenonT(60), TakenOnceNow
<1> QED
  BY <1>1, <1>2, <1>3, PTL DEF List!Spec
=============================================================================
