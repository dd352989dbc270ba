----------------------------- MODULE ByteBuffer -----------------------------
(***************************************************************************)
(* The buffer of a connection (NetWork/lib/buffer.c).  data holds the      *)
(* bytes below writeIndex, so that writeIndex is its length; what lies     *)
(* beyond is not initialised.  realloc does not fail here.                 *)
(***************************************************************************)
EXTENDS Naturals, Sequences

CONSTANT INIT_BUFFER_SIZE

buffer_new == [data |-> <<>>, readIndex |-> 0, total_size |-> INIT_BUFFER_SIZE]

buffer_writeable_size(b) == b.total_size - Len(b.data)

Readable(b) == SubSeq(b.data, b.readIndex + 1, Len(b.data))

\* The bytes already read make room for the new ones, or the buffer grows.
make_room(b, size) ==
    IF buffer_writeable_size(b) >= size THEN b
    ELSE IF b.readIndex + buffer_writeable_size(b) >= size
    THEN [b EXCEPT !.data = Readable(b), !.readIndex = 0]
    ELSE [b EXCEPT !.total_size = @ + size]

buffer_append(b, bytes) == [make_room(b, Len(bytes)) EXCEPT !.data = @ \o bytes]

\* readv into the free part, and into a buffer on the stack for the rest.
buffer_socket_read(b, bytes) ==
    LET n == buffer_writeable_size(b)
    IN IF Len(bytes) <= n THEN [b EXCEPT !.data = @ \o bytes]
       ELSE buffer_append([b EXCEPT !.data = @ \o SubSeq(bytes, 1, n)],
                          SubSeq(bytes, n + 1, Len(bytes)))

\* What one readv can take.
ReadSize(b) == buffer_writeable_size(b) + INIT_BUFFER_SIZE
=============================================================================
