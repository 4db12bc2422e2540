------------------------------- MODULE Streams -------------------------------
(***************************************************************************)
(* A memory buffer (mem/sys_mem.c, mem/membuf.c) between streams: bytes    *)
(* are put in it by the program or read from a descriptor, and go out to   *)
(* a descriptor or back to the program, in pieces of any size.             *)
(*                                                                         *)
(* The i-th byte put in or read is the number i, so that a byte that is    *)
(* lost, doubled or overwritten shows.  Newlines are some of the bytes.    *)
(* One thread works on the buffer and leaves the VM's lock in read() and   *)
(* write() (`op' says where it is); another one may add bytes meanwhile,   *)
(* and leave the lock too when it flushes a full buffer (`other').         *)
(*                                                                         *)
(* Where the two calls work on bytes that the other has moved, `clash' is  *)
(* set: the pending calls end, with what they do then, and no new one is   *)
(* followed.                                                               *)
(***************************************************************************)
EXTENDS Integers, Sequences, SequencesExt, FiniteSetsExt

CONSTANTS
    Growable,     \* MEM_ALLOC: the buffer can be reallocated
    Bufio,        \* MEM_OSTREAM_BUFIO: the program's output streams take buffers
    Partial,      \* when write() may take only some of the bytes: in a "flush", in
                  \* "close", when a full buffer is written out to make room ("add")
    LateError,    \* may read() fail after the buffer was filled once?
    AddDuring,    \* during which of the first thread's calls the other one adds bytes
    Newlines,     \* the bytes that are newlines
    InitialLen,   \* length of the buffer at first
    BufSize,      \* SYS_BUFSIZE, which is also MEM_BUFLINE here
    MaxPut,       \* bytes that are put in at once
    MaxBytes      \* bound: bytes in all

Capacity == 4 * (MaxBytes + InitialLen)  \* bound: memory
Endless == MaxBytes + 1                  \* a count that is never reached

ASSUME StreamsAssumption ==
    /\ Growable \in BOOLEAN /\ Bufio \in BOOLEAN /\ LateError \in BOOLEAN
    /\ Partial \subseteq {"flush", "close", "add"}
    /\ AddDuring \subseteq {"flush", "close", "add", "read", "line"} /\ Newlines \subseteq Nat
    /\ InitialLen \in Nat \ {0} /\ BufSize \in Nat \ {0}
    /\ MaxPut \in Nat /\ MaxBytes \in Nat

\* A fact of arithmetic that proofs cite: the provers know nothing of powers.
ASSUME PowersAssumption == \A i \in 1..MaxBytes : 2^i \in Nat /\ i < 2^i

VARIABLES
    mb,           \* struct membuf: mem (data), len, offset
    streams,      \* the streams of the buffer: MEM_ISTREAM, MEM_OSTREAM of mb->flags
    put,          \* how many bytes came so far
    out,          \* the bytes that left, in order
    op,           \* the call of the first thread that is outside the VM's lock
    other,        \* the call of the other thread that is outside the VM's lock
    clash,        \* history: a call worked on bytes that the other had moved
    line,         \* the last line that membuf_read returned: nil or its bytes, and
                  \* whether a newline ended it
    closed        \* membuf_close was called

vars == <<mb, streams, put, out, op, other, clash, line, closed>>

Idle == [kind |-> "idle"]
NoLine == [bytes |-> <<>>, ended |-> FALSE, nil |-> TRUE]
HasOutput == "output" \in streams

Init ==
    /\ mb = [mem |-> [i \in 1..Capacity |-> 0], len |-> InitialLen, offset |-> 0]
    /\ streams = {} /\ put = 0 /\ out = <<>> /\ op = Idle /\ other = Idle
    /\ clash = FALSE /\ line = NoLine /\ closed = FALSE

\* The first k bytes of the buffer, all of them, and the next k bytes to come.
First(b, k) == [i \in 1..k |-> b.mem[i]]
Content(b) == First(b, b.offset)
New(k) == [i \in 1..k |-> put + i]

-----------------------------------------------------------------------------
(***************************************************************************)
(* Operations on the buffer.                                               *)
(***************************************************************************)
\* memcpy of q to position off of the buffer.
Copied(b, off, q) ==
    [b EXCEPT !.mem = [i \in 1..Capacity |->
                         IF i \in (off + 1)..(off + Len(q)) THEN q[i - off] ELSE @[i]],
              !.offset = off + Len(q)]

\* Mutant: the rest is not moved to the front.
sys_buffer_read_nextKept(b, n) == [b EXCEPT !.offset = @ - n]

\* The first n bytes are gone: the rest is moved to the front.
sys_buffer_read_next(b, n) ==
    LET rest == b.offset - n IN
    [b EXCEPT !.offset = rest,
              !.mem = [i \in 1..Capacity |-> IF i <= rest THEN @[i + n] ELSE @[i]]]

\* Mutant: the length is doubled once.
GrownOnce(len, newlen) == 2 * len

\* The length is doubled until it is more than newlen.
Grown(len, newlen) == Min({l \in {len * 2^i : i \in 1..MaxBytes} : l > newlen})

\* membuf_addlstring when no output stream is involved: q is added at the
\* position off, or only room is made for q (at = FALSE); off and len are what
\* the function has read before it called the stream.
AddGrow(b, off, len, newlen, q, at) ==
    LET g == [b EXCEPT !.len = Grown(len, newlen)] IN
    IF ~Growable THEN [ok |-> FALSE, b |-> b]
    ELSE [ok |-> TRUE, b |-> IF at THEN Copied(g, off, q) ELSE g]

\* The rest of membuf_addlstring after the output stream took nw of sz bytes
\* (b is the buffer as it then is).  After a success offset is read again.
AddAfterStream(b, off, q, at, success) ==
    IF success /\ Len(q) < b.len - b.offset
    THEN [ok |-> TRUE, b |-> IF at THEN Copied(b, b.offset, q) ELSE b]
    ELSE AddGrow(b, IF success THEN b.offset ELSE off, b.len, off + Len(q), q, at)

Fits(b, q) == b.offset + Len(q) < b.len

\* stream_write: what is left in the buffer after its output stream took nw of
\* its first sz bytes.  A stream that takes no buffers is given a string.
stream_write(b, sz, nw) ==
    IF Bufio THEN sys_buffer_read_next(b, nw)
    ELSE IF nw = sz THEN [b EXCEPT !.offset = 0] ELSE b

\* What an output stream may take of sz bytes that are written out to make room.
Takes(sz, nw) == nw <= sz /\ (nw \notin {0, sz} => "add" \in Partial)

-----------------------------------------------------------------------------
(***************************************************************************)
(* Streams; putting bytes in and flushing.                                 *)
(***************************************************************************)
MayCall == op = Idle /\ other = Idle /\ ~closed /\ ~clash

\* membuf:input and membuf:output, given a stream (on) or nil.
membuf_assosiate(type, on) ==
    /\ MayCall
    /\ streams' = IF on THEN streams \cup {type} ELSE streams \ {type}
    /\ UNCHANGED <<mb, put, out, op, other, clash, line, closed>>

\* membuf:write (at), membuf:reserve (~at) of k bytes.
membuf_addlstring(k, at) ==
    /\ MayCall /\ put + k <= MaxBytes
    /\ IF Fits(mb, New(k))
       THEN /\ mb' = IF at THEN Copied(mb, mb.offset, New(k)) ELSE mb
            /\ put' = IF at THEN put + k ELSE put
            /\ UNCHANGED op
       ELSE IF HasOutput
       THEN /\ op' = [kind |-> "add", k |-> k, at |-> at, off |-> mb.offset]
            /\ UNCHANGED <<mb, put>>
       ELSE LET r == AddGrow(mb, mb.offset, mb.len, mb.offset + k, New(k), at) IN
            /\ mb' = r.b
            /\ put' = IF at /\ r.ok THEN put + k ELSE put
            /\ UNCHANGED op
    /\ UNCHANGED <<streams, out, other, clash, line, closed>>

\* The add o goes on: the output stream took nw of the bytes that o had found, or
\* failed (nw = 0).  The offset and the length that o had read are stale then when
\* others have added bytes: after a failure o writes over them, and the room it makes
\* may be too small when there are more of them than o had found.
Resumed(o, nw) ==
    LET b == stream_write(mb, o.off, nw)
        r == AddAfterStream(b, o.off, New(o.k), o.at, nw = o.off)
    IN
    /\ o.kind = "add" /\ Takes(o.off, nw)
    /\ out' = out \o First(mb, nw)
    /\ mb' = r.b
    /\ put' = IF o.at /\ r.ok THEN put + o.k ELSE put
    /\ clash' = (clash \/ (mb.offset # o.off /\ (nw # o.off \/ b.offset > o.off)))
    /\ UNCHANGED <<streams, line, closed>>

AddResumes(nw) == Resumed(op, nw) /\ op' = Idle /\ UNCHANGED other
OtherResumes(nw) == Resumed(other, nw) /\ other' = Idle /\ UNCHANGED op

\* membuf:flush and membuf:close.
membuf_flush(close) ==
    /\ MayCall /\ HasOutput
    /\ op' = [kind |-> "flush", close |-> close, sz |-> mb.offset]
    /\ UNCHANGED <<streams, mb, put, out, other, clash, line, closed>>

\* sys_write is back in the VM's lock: write() took nw of sz bytes.
sys_write(nw) ==
    /\ op.kind = "flush"
    /\ nw < op.sz => (IF op.close THEN "close" ELSE "flush") \in Partial
    /\ out' = out \o First(mb, nw)
    /\ mb' = IF op.close THEN [mb EXCEPT !.offset = 0] ELSE stream_write(mb, op.sz, nw)
    /\ closed' = op.close
    /\ op' = Idle
    /\ UNCHANGED <<streams, put, other, clash, line>>

\* fd:write, sd:write or sd:send is given the buffer itself.
WriteBuffer ==
    /\ MayCall
    /\ op' = [kind |-> "write", sz |-> mb.offset]
    /\ UNCHANGED <<streams, mb, put, out, other, clash, line, closed>>

\* The socket took nw bytes, none when it returned EAGAIN; the others stay.
sock_write(nw) ==
    /\ op.kind = "write" /\ (nw < op.sz => "flush" \in Partial)
    /\ out' = out \o First(mb, nw)
    /\ mb' = sys_buffer_read_next(mb, nw)
    /\ op' = Idle
    /\ UNCHANGED <<streams, put, other, clash, line, closed>>

\* sd:send does the same for a single buffer.
sock_send(nw) == sock_write(nw)

\* The call that the first thread is in, as AddDuring names it.
During ==
    IF op.kind = "write" THEN "flush"
    ELSE IF op.kind = "flush" /\ op.close THEN "close"
    ELSE op.kind

\* Another thread writes to the buffer while the first is outside the lock.  When
\* the bytes do not fit it writes the buffer out as well, or moves it to a larger
\* block: the first thread's call then sends, counts or stores bytes that are no
\* longer there.  (What it sends from a block that was freed is not told apart.)
OtherAdds(k) ==
    /\ During \in AddDuring /\ other = Idle
    /\ put + k + (IF op.kind = "add" THEN op.k ELSE 0) <= MaxBytes
    /\ IF Fits(mb, New(k))
       THEN /\ mb' = Copied(mb, mb.offset, New(k)) /\ put' = put + k
            /\ UNCHANGED <<other, clash>>
       ELSE /\ clash' = TRUE
            /\ IF HasOutput
               THEN /\ other' = [kind |-> "add", k |-> k, at |-> TRUE, off |-> mb.offset]
                    /\ UNCHANGED <<mb, put>>
               ELSE LET r == AddGrow(mb, mb.offset, mb.len, mb.offset + k, New(k), TRUE) IN
                    /\ mb' = r.b
                    /\ put' = IF r.ok THEN put + k ELSE put
                    /\ UNCHANGED other
    /\ UNCHANGED <<streams, out, op, line, closed>>

-----------------------------------------------------------------------------
(***************************************************************************)
(* Reading from a descriptor: sys_read, sock_read, sock_recv.  The bytes   *)
(* go to the buffer at position `at', or to a string that grows by blocks; *)
(* `size' is the room for the next read(), n the count that is left.       *)
(***************************************************************************)
sys_buffer_write_init(b, tostring) ==
    IF tostring THEN [at |-> 0, size |-> BufSize] ELSE [at |-> b.offset, size |-> b.len - b.offset]

\* A program reads a string when the buffer is empty (else its bytes would overtake).
sys_read(tostring, n) ==
    LET w == sys_buffer_write_init(mb, tostring) IN
    /\ MayCall
    /\ tostring => mb.offset = 0
    /\ op' = [kind |-> "read", str |-> tostring, got |-> <<>>, at |-> w.at, size |-> w.size,
              n |-> n, any |-> FALSE]
    /\ UNCHANGED <<streams, mb, put, out, other, clash, line, closed>>

\* The same loop over a socket (for sd:recv without "peek").
sock_read(tostring, n) == sys_read(tostring, n)
sock_recv(tostring, n) == sys_read(tostring, n)

\* The memory after read() put nr bytes at position at.
Stored(b, at, nr) ==
    [b EXCEPT !.mem = [i \in 1..Capacity |-> IF i \in (at + 1)..(at + nr) THEN put + i - at ELSE @[i]]]

\* sys_buffer_write_done: `tail' more bytes, which is -1 after an error.
WriteDone(b, got, tail) ==
    IF op.str
    THEN /\ out' = out \o (IF tail >= 0 THEN got ELSE SubSeq(got, 1, Len(got) - 1))
         /\ mb' = b
    ELSE /\ mb' = [b EXCEPT !.offset = @ + tail]
         /\ UNCHANGED out

\* sys_buffer_write_next: the buffer is full; it is written out, if it has an
\* output stream (which takes nw bytes), or grows.  This is one step: whatever
\* another thread adds to a full buffer meanwhile does not fit.
sys_buffer_write_next(b, nw) ==
    LET full == [b EXCEPT !.offset = b.len] IN
    IF HasOutput
    THEN AddAfterStream(stream_write(full, b.len, nw), b.len, <<>>, FALSE, nw = b.len)
    ELSE AddGrow(full, b.len, b.len, b.len, <<>>, FALSE)

\* read() returns nr bytes: 0 at the end of input, or when it is asked for none
\* because the buffer is full already.  The blocks of a string double.
ReadReturns(nr, nw) ==
    LET rlen == IF op.n <= op.size THEN op.n ELSE op.size
        n == IF op.n = Endless THEN Endless ELSE op.n - nr
        b == IF op.str THEN mb ELSE Stored(mb, op.at, nr)
        got == IF op.str THEN op.got \o New(nr) ELSE <<>>
        r == sys_buffer_write_next(b, nw)
    IN
    /\ op.kind = "read" /\ nr <= rlen /\ put + nr <= MaxBytes
    /\ nr = 0 => rlen = 0 \/ put = MaxBytes
    /\ put' = put + nr
    /\ IF n # 0 /\ nr = rlen
       THEN IF op.str
            THEN /\ op' = [op EXCEPT !.n = n, !.any = TRUE, !.got = got,
                                     !.size = IF op.got = <<>> THEN @ ELSE 2 * Len(op.got)]
                 /\ nw = 0 /\ UNCHANGED <<mb, out>>
            ELSE /\ Takes(b.len, nw) /\ (nw # 0 => HasOutput)
                 /\ out' = out \o First(b, nw)
                 /\ mb' = IF r.ok THEN r.b ELSE [r.b EXCEPT !.offset = @ + nr]
                 /\ op' = IF r.ok THEN [op EXCEPT !.n = n, !.any = @ \/ nr > 0, !.at = r.b.offset,
                                                  !.size = r.b.len - r.b.offset]
                          ELSE Idle
       ELSE /\ nw = 0
            /\ op' = Idle
            /\ WriteDone(b, got, nr)
    /\ UNCHANGED <<streams, other, clash, line, closed>>

\* read() fails; what came before is returned.
ReadFails ==
    /\ op.kind = "read" /\ (op.any => LateError)
    /\ IF op.any THEN WriteDone(mb, op.got, -1) ELSE UNCHANGED <<mb, out>>
    /\ op' = Idle
    /\ UNCHANGED <<streams, put, other, clash, line, closed>>

-----------------------------------------------------------------------------
(***************************************************************************)
(* membuf:read                                                             *)
(***************************************************************************)
\* The first l bytes of the buffer go to the program.  (From an empty buffer with
\* an input stream the stream's own read is called: sys_read.)
read_bytes(l) ==
    LET k == Min({l, mb.offset}) IN
    /\ MayCall /\ mb.offset > 0
    /\ out' = out \o First(mb, k)
    /\ mb' = sys_buffer_read_next(mb, k)
    /\ UNCHANGED <<streams, put, op, other, clash, line, closed>>

NewlineIn(q) == {i \in DOMAIN q : q[i] \in Newlines}

\* Mutant: the bytes that are in the buffer already are not searched.
BufferedLineNone(b) == 0

\* The position of the first newline in the buffer, or 0.
BufferedLine(b) == IF NewlineIn(Content(b)) = {} THEN 0 ELSE Min(NewlineIn(Content(b)))

\* A line that the buffer holds.
ReadBuffered ==
    LET i == BufferedLine(mb) IN
    /\ MayCall /\ i > 0
    /\ line' = [bytes |-> First(mb, i - 1), ended |-> TRUE, nil |-> FALSE]
    /\ out' = out \o First(mb, i)
    /\ mb' = sys_buffer_read_next(mb, i)
    /\ UNCHANGED <<streams, put, op, other, clash, closed>>

\* Otherwise pieces of at most BufSize bytes are read from the input stream and
\* added, until one has a newline, whose rest then stays in the buffer, or
\* nothing comes.  The stream is not read under the VM's lock, but the buffer
\* is only touched between the reads.
ReadsLine ==
    /\ MayCall /\ "input" \in streams /\ BufferedLine(mb) = 0
    /\ op' = [kind |-> "line"]
    /\ UNCHANGED <<streams, mb, put, out, other, clash, line, closed>>

\* What followed the newline is all that the buffer holds then.  (An output stream
\* is called with nothing to take.)
KeepTail(b, q) ==
    LET e == [b EXCEPT !.offset = 0] IN
    IF q = <<>> THEN e
    ELSE IF Fits(e, q) THEN Copied(e, 0, q)
    ELSE AddGrow(e, 0, e.len, Len(q), q, TRUE).b

\* membuf_addlstring of a piece q as one step: to make room, the output stream
\* takes nw bytes of the buffer, the line's beginning among them.
Added(b, q, nw) ==
    IF Fits(b, q) THEN [ok |-> TRUE, b |-> Copied(b, b.offset, q)]
    ELSE IF HasOutput
    THEN AddAfterStream(stream_write(b, b.offset, nw), b.offset, q, TRUE, nw = b.offset)
    ELSE AddGrow(b, b.offset, b.len, b.offset + Len(q), q, TRUE)

\* A piece of nr bytes.  A line without bytes is returned as nil.
PieceComes(nr, nw) ==
    LET q == New(nr)
        nl == IF NewlineIn(q) = {} THEN 0 ELSE Min(NewlineIn(q))
        head == IF nl = 0 THEN q ELSE SubSeq(q, 1, nl - 1)
        r == IF head = <<>> THEN [ok |-> TRUE, b |-> mb] ELSE Added(mb, head, nw)
        bytes == Content(r.b)
    IN
    /\ op.kind = "line" /\ nr \in 1..BufSize /\ put + nr <= MaxBytes
    /\ Takes(mb.offset, nw) /\ (nw # 0 => HasOutput /\ head # <<>> /\ ~Fits(mb, head))
    /\ put' = put + nr
    /\ IF nl = 0 \/ ~r.ok
       THEN /\ mb' = r.b
            /\ op' = IF r.ok THEN op ELSE Idle
            /\ out' = out \o First(mb, nw)
            /\ UNCHANGED line
       ELSE /\ line' = [bytes |-> bytes, ended |-> TRUE, nil |-> bytes = <<>>]
            /\ out' = out \o First(mb, nw) \o bytes \o <<q[nl]>>
            /\ mb' = KeepTail(r.b, SubSeq(q, nl + 1, nr))
            /\ op' = Idle
    /\ UNCHANGED <<streams, other, clash, closed>>

\* All that the buffer holds is the line, nil when it holds nothing.
RestIsLine ==
    /\ line' = [bytes |-> Content(mb), ended |-> FALSE, nil |-> Content(mb) = <<>>]
    /\ out' = out \o Content(mb)
    /\ mb' = [mb EXCEPT !.offset = 0]
    /\ op' = Idle
    /\ UNCHANGED <<streams, put, other, clash, closed>>

NothingComes == op.kind = "line" /\ RestIsLine
NoInput == MayCall /\ "input" \notin streams /\ BufferedLine(mb) = 0 /\ RestIsLine

Next ==
    \/ \E type \in {"input", "output"}, on \in BOOLEAN : membuf_assosiate(type, on)
    \/ \E k \in 1..MaxPut : OtherAdds(k) \/ \E at \in BOOLEAN : membuf_addlstring(k, at)
    \/ \E nw \in 0..MaxBytes :
         \/ AddResumes(nw) \/ OtherResumes(nw)
         \/ op.kind = "flush" /\ nw <= op.sz /\ sys_write(nw)
         \/ op.kind = "write" /\ nw <= op.sz /\ (sock_write(nw) \/ sock_send(nw))
         \/ \E nr \in 0..MaxBytes : ReadReturns(nr, nw) \/ PieceComes(nr, nw)
    \/ \E close \in BOOLEAN : membuf_flush(close)
    \/ WriteBuffer
    \/ \E str \in BOOLEAN, n \in 1..Endless :
         sys_read(str, n) \/ sock_read(str, n) \/ sock_recv(str, n)
    \/ ReadFails
    \/ \E l \in 1..MaxPut : read_bytes(l)
    \/ ReadBuffered \/ ReadsLine \/ NothingComes \/ NoInput

Spec == Init /\ [][Next]_vars

-----------------------------------------------------------------------------
(***************************************************************************)
(* Properties                                                              *)
(***************************************************************************)
\* The bytes outside the buffer that a call has read and not yet delivered.
InFlight == IF op.kind = "read" THEN op.got ELSE <<>>

\* What left, what the buffer holds and what a call is about to deliver are all
\* the bytes that came, in order.
Intact == out \o Content(mb) \o InFlight = [i \in 1..put |-> i]

\* No byte is lost, doubled or overtaken between the streams, whatever the sizes of
\* reads, writes and of the buffer and whatever fits into it while another thread
\* is in write(): until two threads flush or move the buffer at once, or a
\* membuf_addlstring goes on with an offset that is stale.
Conserved == ~clash => Intact

Bounded ==
    /\ mb.offset \in 0..mb.len
    /\ \A i \in (mb.len + 1)..Capacity : mb.mem[i] = 0

\* The buffer's end is never passed: every memcpy and read() stays inside it, until
\* two threads are in each other's way as above.
WithinLen == ~clash => Bounded

\* A line that membuf:read("*l") returns holds no newline, and unless the input
\* dried up a newline follows its last byte: pieces that come from the stream
\* one by one neither cut nor join lines.
WholeLines ==
    /\ NewlineIn(line.bytes) = {}
    /\ (line.ended /\ line.bytes # <<>>) => Last(line.bytes) + 1 \in Newlines

\* nil, for which a program stops reading lines, means that the input dried up.
NilAtEnd == line.nil => ~line.ended
=============================================================================
