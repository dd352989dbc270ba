------------------------------- MODULE Reactor -------------------------------
(***************************************************************************)
(* The event loops of the network library (NetWork/lib): a main thread     *)
(* that accepts connections and deals them out to the threads of a pool,   *)
(* each of which runs an event loop over poll or epoll.  A connection is   *)
(* given to a loop through its list of pending channels and a byte on a    *)
(* socket pair that ends the loop's wait.                                  *)
(*                                                                         *)
(* Loop 0 is the main thread's.  The wake-up channel of a loop and the     *)
(* listening channel are never removed and are left implicit: a loop       *)
(* always watches its socket pair, the main loop also the listening socket.*)
(***************************************************************************)
EXTENDS Integers, Sequences, FiniteSets, FiniteSetsExt, SequencesExt

CONSTANTS
    Conn,           \* the connections clients may open (1..n)
    POLL_SIZE,      \* INIT_POLL_SIZE, less the permanent channels
    Dispatchers,    \* the event dispatchers built in: "poll", "epoll"
    ThreadNums,     \* the sizes of the thread pool
    Servers         \* "tcp": callbacks that use no data; "http": they do

VARIABLES
    loop,           \* [Loop -> record]: thread, pending list, map, dispatcher
    conn,           \* [Conn -> record]: a tcp_connection and its socket
    position,       \* thread_pool.position
    starting,       \* the thread the main thread is creating
    accepting,      \* the connection the main thread is setting up
    setting,        \* settings of the build and of the server
    fault           \* "none", or the undefined step the process has died of

vars == <<loop, conn, position, starting, accepting, setting, fault>>

None == 0
Wakeup == -1
Listen == -2
Fd == 1..Cardinality(Conn)
Loop == 0..Max(ThreadNums)

IsPoll == setting.dispatcher = "poll"

Init ==
    /\ setting \in [dispatcher : Dispatchers, threads : ThreadNums, server : Servers]
    /\ loop = [l \in Loop |->
                [pc |-> IF l = 0 THEN "create" ELSE "none", pending |-> <<>>, bytes |-> 0,
                 entries |-> [f \in Fd |-> None], watched |-> {}, ready |-> {}]]
    /\ conn = [c \in Conn |-> [st |-> "none", fd |-> None, loop |-> 0, data |-> FALSE,
                               unread |-> FALSE, eof |-> FALSE, reset |-> FALSE]]
    /\ position = 0
    /\ starting = 1
    /\ accepting = None
    /\ fault = "none"

-----------------------------------------------------------------------------
\* The map of channels and the dispatcher's set, s = [entries, watched].

\* Finds no free slot once INIT_POLL_SIZE channels are watched, logs and goes on.
poll_add(s, f) ==
    IF Cardinality(s.watched) >= POLL_SIZE THEN s ELSE [s EXCEPT !.watched = @ \cup {f}]

\* Mutant: every slot is given up.
poll_del_all(s, f) == [s EXCEPT !.watched = {}]

poll_del(s, f) == [s EXCEPT !.watched = @ \ {f}]

epoll_add(s, f) == [s EXCEPT !.watched = @ \cup {f}]

epoll_del(s, f) == [s EXCEPT !.watched = @ \ {f}]

event_loop_handle_pending_add(s, c, f) ==
    LET t == [s EXCEPT !.entries[f] = c]
    IN IF f = None \/ s.entries[f] # None THEN s
       ELSE IF IsPoll THEN poll_add(t, f) ELSE epoll_add(t, f)

event_loop_handle_pending_remove(s, f) ==
    LET t == IF IsPoll THEN poll_del(s, f) ELSE epoll_del(s, f)
    IN [t EXCEPT !.entries[f] = None]

\* event_loop_handle_pending_channel: the whole list, under the mutex.
event_loop_handle_pending_channel(s) ==
    LET one(t, e) == IF e.type = "add" THEN event_loop_handle_pending_add(t, e.channel, e.fd)
                                       ELSE event_loop_handle_pending_remove(t, e.fd)
        all == FoldLeft(one, s, s.pending)
    IN [s EXCEPT !.pending = <<>>, !.entries = all.entries, !.watched = all.watched]

\* event_loop_channel_buffer_nolock
Buffered(s, c, fd, type) ==
    [s EXCEPT !.pending = Append(@, [type |-> type, channel |-> c, fd |-> fd])]

-----------------------------------------------------------------------------
\* Start-up of the pool: thread_pool_start, event_loop_thread_start.

Goes(l, p) == loop' = [loop EXCEPT ![l].pc = p]

CreateThread ==
    /\ loop[0].pc = "create" /\ starting <= setting.threads
    /\ loop' = [loop EXCEPT ![0].pc = "check", ![starting].pc = "init"]
    /\ UNCHANGED <<conn, position, starting, accepting, setting, fault>>

\* The rest of it: the listening channel is added, the main loop runs.
tcp_server_start ==
    /\ loop[0].pc = "create" /\ starting > setting.threads
    /\ Goes(0, "poll")
    /\ UNCHANGED <<conn, position, starting, accepting, setting, fault>>

\* while (eventLoop == NULL) pthread_cond_wait(...)
CheckStarted ==
    /\ loop[0].pc = "check"
    /\ IF loop[starting].pc = "init"
       THEN Goes(0, "condwait") /\ UNCHANGED starting
       ELSE Goes(0, "create") /\ starting' = starting + 1
    /\ UNCHANGED <<conn, position, accepting, setting, fault>>

\* event_loop_thread_run: makes the loop and signals, holding the mutex.
ThreadInit(l) ==
    /\ loop[l].pc = "init"
    /\ loop' = [loop EXCEPT ![l].pc = "poll",
                            ![0].pc = IF @ = "condwait" THEN "check" ELSE @]
    /\ UNCHANGED <<conn, position, starting, accepting, setting, fault>>

-----------------------------------------------------------------------------
\* event_loop_run and the dispatch functions.

HasEvent(f) == \E c \in Conn :
    /\ conn[c].fd = f /\ conn[c].st = "open"
    /\ conn[c].unread \/ conn[c].eof \/ conn[c].reset

Events(l) ==
    {f \in loop[l].watched : HasEvent(f)}
        \cup (IF loop[l].bytes > 0 THEN {Wakeup} ELSE {})
        \cup (IF l = 0 /\ \E c \in Conn : conn[c].st = "backlog" THEN {Listen} ELSE {})

\* poll gives up after a second, epoll_wait never does.
Dispatch(l) ==
    /\ loop[l].pc = "poll"
    /\ IF Events(l) = {}
       THEN /\ IsPoll
            /\ loop[l].pending # <<>>
            /\ loop' = [loop EXCEPT ![l] = event_loop_handle_pending_channel(@)]
       ELSE loop' = [loop EXCEPT ![l].pc = "dispatch", ![l].ready = Events(l)]
    /\ UNCHANGED <<conn, position, starting, accepting, setting, fault>>

\* The end of dispatch, and the pending channels after it.
EndDispatch(l) ==
    /\ loop[l].pc = "dispatch" /\ loop[l].ready = {}
    /\ loop' = [loop EXCEPT ![l] = [event_loop_handle_pending_channel(@) EXCEPT !.pc = "poll"]]
    /\ UNCHANGED <<conn, position, starting, accepting, setting, fault>>

HandleWakeup(l) ==
    /\ loop[l].pc = "dispatch" /\ Wakeup \in loop[l].ready
    /\ loop' = [loop EXCEPT ![l].ready = @ \ {Wakeup}, ![l].bytes = @ - 1]
    /\ UNCHANGED <<conn, position, starting, accepting, setting, fault>>

-----------------------------------------------------------------------------
\* handle_connection_established, in the main thread.

\* No connection's socket is ever closed except by epoll_dispatch.
FreeFd == Min(Fd \ {conn[c].fd : c \in {d \in Conn : conn[d].st \in {"open", "closed"}}})

\* thread_pool_get_loop
Chosen == IF setting.threads = 0 THEN 0 ELSE position + 1

\* The socket of the connection, -1 when accept has failed, and its event loop;
\* tcpConnection->data is not set yet.
tcp_connection_new(c, fd) ==
    [conn[c] EXCEPT !.st = IF fd = None THEN "closed" ELSE "open", !.fd = fd, !.loop = Chosen]

\* accept, tcp_connection_new: the channel goes to the pending list of the
\* chosen loop, which the main loop handles at once when it is its own.  accept
\* may fail for a client that is gone: its -1 goes the same way.
Accept(c, fd) ==
    /\ loop[0].pc = "dispatch" /\ Listen \in loop[0].ready
    /\ conn[c].st = "backlog"
    /\ fd = FreeFd \/ (fd = None /\ conn[c].reset)
    /\ position' = IF Chosen = 0 THEN 0 ELSE Chosen % setting.threads
    /\ conn' = [conn EXCEPT ![c] = tcp_connection_new(c, fd)]
    /\ LET added == Buffered(loop[Chosen], c, fd, "add")
           all == IF Chosen = 0 THEN event_loop_handle_pending_channel(added) ELSE added
       IN loop' = [[loop EXCEPT ![Chosen] = all]
                   EXCEPT ![0].ready = @ \ {Listen},
                          ![0].pc = IF Chosen = 0 THEN "data" ELSE "wakeup"]
    /\ accepting' = c
    /\ UNCHANGED <<starting, setting, fault>>

\* Mutant: nothing is written to the socket pair.
WakesNobody ==
    /\ loop[0].pc = "wakeup"
    /\ Goes(0, "data")
    /\ UNCHANGED <<conn, position, starting, accepting, setting, fault>>

\* event_loop_wakeup, once the mutex is released.
event_loop_wakeup ==
    /\ loop[0].pc = "wakeup"
    /\ loop' = [loop EXCEPT ![0].pc = "data", ![conn[accepting].loop].bytes = @ + 1]
    /\ UNCHANGED <<conn, position, starting, accepting, setting, fault>>

\* tcpConnection->data = tcpServer->data, when tcp_connection_new has returned.
SetData ==
    /\ loop[0].pc = "data"
    /\ Goes(0, "dispatch")
    /\ conn' = [conn EXCEPT ![accepting].data = TRUE]
    /\ UNCHANGED <<position, starting, accepting, setting, fault>>

-----------------------------------------------------------------------------
\* channel_event_activate for a connection.

Activated(l, f) ==
    /\ loop[l].pc = "dispatch" /\ f \in loop[l].ready /\ f \in loop[l].watched

\* Takes the connection for an event loop.  The words it finds in place of the
\* mutex and of is_handle_pending hang the thread or fail the assertion.
channel_write_event_enable(l) ==
    \/ Goes(l, "hung") /\ UNCHANGED fault
    \/ fault' = "not an event loop" /\ UNCHANGED loop

\* The answer to the message: write takes it all, or the rest is appended to the
\* output buffer and write events are enabled.
tcp_connection_send_data(l, f) ==
    \/ loop' = [loop EXCEPT ![l].ready = @ \ {f}] /\ UNCHANGED fault
    \/ channel_write_event_enable(l)

\* handle_read when the socket has data: buffer_socket_read, then the message
\* callback, which for an HTTP server follows tcpConnection->data.
HandleMessage(l, f) ==
    LET c == loop[l].entries[f]
    IN /\ Activated(l, f)
       /\ c # None /\ conn[c].unread /\ ~conn[c].reset
       /\ conn' = [conn EXCEPT ![c].unread = FALSE]
       /\ IF setting.server = "http" /\ ~conn[c].data
          THEN fault' = "data not set" /\ UNCHANGED loop
          ELSE tcp_connection_send_data(l, f)
       /\ UNCHANGED <<position, starting, accepting, setting>>

\* handle_connection_closed, at the end of the stream or on an error: the
\* channel leaves the loop, the socket stays open.
HandleClosed(l, f) ==
    LET c == loop[l].entries[f]
        rest == event_loop_handle_pending_channel(Buffered(loop[l], c, f, "remove"))
    IN /\ Activated(l, f)
       /\ c # None
       /\ conn[c].reset \/ ~conn[c].unread
       /\ IsPoll \/ ~conn[c].reset
       /\ conn' = [conn EXCEPT ![c].st = "closed"]
       /\ loop' = [loop EXCEPT ![l] = [rest EXCEPT !.ready = @ \ {f}]]
       /\ UNCHANGED <<position, starting, accepting, setting, fault>>

\* epoll_dispatch closes a socket that has failed and leaves its map entry.
CloseOnError(l, f) ==
    /\ Activated(l, f) /\ ~IsPoll
    /\ \E c \in Conn :
          /\ conn[c].fd = f /\ conn[c].st = "open" /\ conn[c].reset
          /\ conn' = [conn EXCEPT ![c].st = "gone"]
    /\ loop' = [loop EXCEPT ![l].ready = @ \ {f}, ![l].watched = @ \ {f}]
    /\ UNCHANGED <<position, starting, accepting, setting, fault>>

-----------------------------------------------------------------------------
\* The clients.

Client(c, e) ==
    /\ conn' = [conn EXCEPT ![c] = e]
    /\ UNCHANGED <<loop, position, starting, accepting, setting, fault>>

Connect(c) == conn[c].st = "none" /\ Client(c, [conn[c] EXCEPT !.st = "backlog"])

Speaks(c) == conn[c].st \in {"backlog", "open"} /\ ~conn[c].eof /\ ~conn[c].reset

Send(c) == Speaks(c) /\ ~conn[c].unread /\ Client(c, [conn[c] EXCEPT !.unread = TRUE])

Fin(c) == Speaks(c) /\ Client(c, [conn[c] EXCEPT !.eof = TRUE])

Reset(c) == Speaks(c) /\ Client(c, [conn[c] EXCEPT !.reset = TRUE])

-----------------------------------------------------------------------------
Established == \E c \in Conn, fd \in Fd \cup {None} : Accept(c, fd)
Activate(l) == \E f \in Fd : HandleMessage(l, f) \/ HandleClosed(l, f) \/ CloseOnError(l, f)

Thread(l) ==
    /\ fault = "none"
    /\ \/ ThreadInit(l) \/ Dispatch(l) \/ EndDispatch(l) \/ HandleWakeup(l) \/ Activate(l)
       \/ l = 0 /\ (CreateThread \/ tcp_server_start \/ CheckStarted \/ Established \/ event_loop_wakeup \/ SetData)

Clients == fault = "none" /\ \E c \in Conn : Connect(c) \/ Send(c) \/ Fin(c) \/ Reset(c)

Next == (\E l \in Loop : Thread(l)) \/ Clients

\* The threads are scheduled fairly and poll returns; clients owe nothing.
Spec == Init /\ [][Next]_vars /\ \A l \in Loop : WF_vars(Thread(l))

-----------------------------------------------------------------------------
\* No wake-up is lost (event_loop.c:61): when a loop waits with channels in its
\* list, there is a byte on its socket pair, or the main thread is about to
\* write one.
NoLostWakeup ==
    \A l \in Loop : loop[l].pc = "poll" /\ loop[l].pending # <<>> =>
        \/ loop[l].bytes > 0
        \/ loop[0].pc = "wakeup" /\ conn[accepting].loop = l

\* What a client of a watched connection sends is read (event_loop.c:241).
MessageIsRead ==
    \A c \in Conn : (conn[c].unread /\ conn[c].fd \in loop[conn[c].loop].watched)
                        ~> (~conn[c].unread \/ conn[c].st # "open" \/ fault # "none"
                              \/ loop[conn[c].loop].pc = "hung")

\* tcp_server.c:151 "for callback use": a callback finds the server's data.
CallbackHasData == fault # "data not set"
=============================================================================
