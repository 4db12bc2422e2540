------------------------------ MODULE PipeBuffer ------------------------------
(***************************************************************************)
(* The storage of a pipe (thread_pipe.c): a ring of buffers, each of them  *)
(* a ring of bytes, into which pipe:put copies messages and from which     *)
(* pipe:get copies them out.  Both run under the pipe's lock, so each is   *)
(* one atomic action; how threads wait for each other is module PipeSync.  *)
(*                                                                         *)
(* A buffer's memory is kept cell by cell.  A cell holds <<m, k>>, the     *)
(* k-th unit of message m (unit 0 carries the size), or the sentinel, a    *)
(* size of 0.  Memory is never cleared: a cell keeps what was last written *)
(* there.  A unit is a number of bytes; messages are 1..MaxPuts in the     *)
(* order of the calls.                                                     *)
(*                                                                         *)
(* Once a copy has left the memory it belongs to, C says nothing about     *)
(* what comes next, and the model stops there (wild).                      *)
(***************************************************************************)
EXTENDS Integers, Sequences

CONSTANTS
    Sizes,     \* sizes of messages, their header included
    MinSize,   \* buffer_min_size of pipe_new
    MaxSize,   \* buffer_max_size of pipe_new
    Extra,     \* PIPE_BUF_EXTRASIZE
    UintMod,   \* offsets and sizes are unsigned int: they count modulo this
    MaxPuts    \* bound: number of messages put

\* pipe_new refuses buffers smaller than 8 times the largest message (all that the
\* code relies on is that a message fits into an empty buffer) and a maximum above
\* 2^31, half of UintMod.
ASSUME SizesAssumption ==
    /\ Sizes \subseteq Nat \ {0}
    /\ MinSize \in Nat /\ MaxSize \in Nat /\ Extra \in Nat \ {0}
    /\ Extra < MinSize /\ MinSize <= MaxSize
    /\ \A s \in Sizes : s <= MinSize - Extra
    /\ UintMod \in Nat /\ 2 * MaxSize <= UintMod
    /\ MaxPuts \in Nat

VARIABLES
    nbuf,      \* number of buffers allocated: they are 1..nbuf
    begin,     \* per buffer: offset of the oldest message
    end,       \* per buffer: offset behind the newest message
    len,       \* per buffer: its size
    next_buf,  \* per buffer: the next one, a circular list
    mem,       \* per buffer: its cells
    rbuf,      \* pp->rbuf
    wbuf,      \* pp->wbuf
    nmsg,      \* pp->nmsg: number of messages
    buf_size,  \* pp->buf_size: size of the next buffer to allocate
    size,      \* history: the sizes of the messages put so far
    queue,     \* history: the messages put and not yet got, oldest first
    out,       \* what the last pipe:get returned; Garbage, or a message
    overrun,   \* history: 1 once a put has found wbuf full with begin = end
    freed,     \* the buffers deallocated by pipe_close
    wild       \* 1 once a copy was made that its memory does not hold

vars == <<nbuf, begin, end, len, next_buf, mem, rbuf, wbuf, nmsg, buf_size,
          size, queue, out, overrun, freed, wild>>

Buffers == 1..nbuf

Sentinel == <<0, 0>>
Blank == <<0, 1>>  \* memory never written
Garbage == 0

\* The conversion to unsigned int.
Uint(x) == x % UintMod

\* The pipe is there, and nothing was copied out of its bounds.
InUse == freed = {} /\ wild = 0

\* A copy out of bounds.
Stray ==
    /\ wild' = 1
    /\ UNCHANGED <<nbuf, begin, end, len, next_buf, mem, rbuf, wbuf, nmsg,
                   buf_size, size, queue, out, overrun, freed>>

-----------------------------------------------------------------------------

Init ==
    /\ nbuf = 1
    /\ begin = [b \in 1..1 |-> 0]
    /\ end = [b \in 1..1 |-> 0]
    /\ len = [b \in 1..1 |-> MinSize - Extra]
    /\ next_buf = [b \in 1..1 |-> 1]
    /\ mem = [b \in 1..1 |-> [o \in 0..(MinSize - Extra) |-> Blank]]
    /\ rbuf = 1
    /\ wbuf = 1
    /\ nmsg = 0
    /\ buf_size = MinSize
    /\ size = <<>>
    /\ queue = <<>>
    /\ out = Garbage
    /\ overrun = 0
    /\ freed = {}
    /\ wild = 0

-----------------------------------------------------------------------------
(* pipe:put                                                                *)

Wrapped == end[wbuf] < begin[wbuf]

\* Mutant: one unit more than there is.
RoomTooLarge == (IF Wrapped THEN begin[wbuf] ELSE len[wbuf]) - end[wbuf] + 1

\* The space up to the oldest message, or up to the end of the buffer.
Room == (IF Wrapped THEN begin[wbuf] ELSE len[wbuf]) - end[wbuf]

CanWrap(s) == ~Wrapped /\ begin[wbuf] > s

\* Mutant: any next buffer is taken for a free one.
NextIsAny == next_buf[wbuf] # wbuf

NextIsFree ==
    /\ next_buf[wbuf] # wbuf
    /\ begin[next_buf[wbuf]] = 0
    /\ end[next_buf[wbuf]] = 0

CanGrow == Uint(2 * buf_size) <= MaxSize

\* The memory of a buffer after the message of size s is copied to offset o.
Copied(cells, o, s) ==
    [i \in DOMAIN cells |->
        IF i \in o..(o + s - 1) THEN <<Len(size) + 1, i - o>> ELSE cells[i]]

Accept(s) ==
    /\ nmsg' = nmsg + 1
    /\ size' = Append(size, s)
    /\ queue' = Append(queue, Len(size) + 1)
    /\ overrun' = IF begin[wbuf] = end[wbuf] /\ end[wbuf] # 0 THEN 1 ELSE overrun
    /\ UNCHANGED <<rbuf, out, freed, wild>>

PutInPlace(s) ==
    /\ s <= Room
    /\ mem' = [mem EXCEPT ![wbuf] = Copied(@, end[wbuf], s)]
    /\ end' = [end EXCEPT ![wbuf] = @ + s]
    /\ UNCHANGED <<nbuf, begin, len, next_buf, wbuf, buf_size>>

PutWrapped(s) ==
    /\ s > Room /\ CanWrap(s)
    /\ mem' = [mem EXCEPT ![wbuf] = Copied([@ EXCEPT ![end[wbuf]] = Sentinel], 0, s)]
    /\ end' = [end EXCEPT ![wbuf] = s]
    /\ UNCHANGED <<nbuf, begin, len, next_buf, wbuf, buf_size>>

PutInNext(s) ==
    /\ s > Room /\ ~CanWrap(s) /\ NextIsFree
    /\ wbuf' = next_buf[wbuf]
    /\ mem' = [mem EXCEPT ![wbuf'] = Copied(@, 0, s)]
    /\ end' = [end EXCEPT ![wbuf'] = s]
    /\ UNCHANGED <<nbuf, begin, len, next_buf, buf_size>>

\* Attribute f of the buffers, extended to a new one.
Extended(f, x) == [b \in 1..(nbuf + 1) |-> IF b = nbuf + 1 THEN x ELSE f[b]]

\* malloc may fail: then pipe:put waits, as it does when CanGrow is false.
NeedsNew(s) == s > Room /\ ~CanWrap(s) /\ ~NextIsFree /\ CanGrow

PutInNew(s) ==
    /\ NeedsNew(s) /\ s <= buf_size - Extra
    /\ nbuf' = nbuf + 1
    /\ wbuf' = nbuf + 1
    /\ begin' = Extended(begin, 0)
    /\ end' = Extended(end, s)
    /\ len' = Extended(len, Uint(buf_size - Extra))
    /\ next_buf' = Extended([next_buf EXCEPT ![wbuf] = nbuf + 1], next_buf[wbuf])
    /\ mem' = Extended(mem, Copied([o \in 0..(buf_size - Extra) |-> Blank], 0, s))
    /\ buf_size' = Uint(2 * buf_size)

\* malloc(buf_size) returns less memory than the message needs, when buf_size has
\* come to UintMod and wrapped around to 0.
PutStray(s) == NeedsNew(s) /\ s > buf_size - Extra /\ Stray

\* The call that finds no room leaves the storage alone and waits.
pipe_put(s) ==
    /\ InUse
    /\ Len(size) < MaxPuts
    /\ \/ /\ PutInPlace(s) \/ PutWrapped(s) \/ PutInNext(s) \/ PutInNew(s)
          /\ Accept(s)
       \/ PutStray(s)

-----------------------------------------------------------------------------
(* pipe:get                                                                *)

\* Where the oldest message of rbuf starts.
ReadOffset ==
    IF mem[rbuf][begin[rbuf]] = Sentinel THEN 0 ELSE begin[rbuf]

\* The message whose size field is at ReadOffset.
ReadMessage == mem[rbuf][ReadOffset][1]

SizeIsThere == mem[rbuf][ReadOffset] \in {<<m, 0>> : m \in 1..Len(size)}

Intact ==
    \A k \in 0..(size[ReadMessage] - 1) : mem[rbuf][ReadOffset + k] = <<ReadMessage, k>>

\* Mutant: the reader goes on to the next buffer though the pipe is empty.
ReadBufferAfterEager(b) == IF b = end[rbuf] THEN next_buf[rbuf] ELSE rbuf

\* The buffer to read next, when begin has come to b.
ReadBufferAfter(b) == IF b = end[rbuf] /\ nmsg > 1 THEN next_buf[rbuf] ELSE rbuf

GetMessage ==
    /\ SizeIsThere
    /\ LET b == ReadOffset + size[ReadMessage]
       IN  /\ out' = IF Intact THEN ReadMessage ELSE Garbage
           /\ begin' = [begin EXCEPT ![rbuf] =
                            IF b = end[rbuf] \/ b = len[rbuf] THEN 0 ELSE b]
           /\ end' = [end EXCEPT ![rbuf] = IF b = @ THEN 0 ELSE @]
           /\ rbuf' = ReadBufferAfter(b)
    /\ nmsg' = nmsg - 1
    /\ queue' = Tail(queue)
    /\ UNCHANGED <<nbuf, len, next_buf, mem, wbuf, buf_size, size, overrun, freed, wild>>

\* When a message was overwritten the cell may hold payload: as many bytes as it
\* happens to say are copied, out of the buffer and past the end of `msg'.
GetStray == ~SizeIsThere /\ Stray

pipe_get == InUse /\ nmsg > 0 /\ (GetMessage \/ GetStray)

-----------------------------------------------------------------------------
(* pipe_close, when the last reference to the pipe goes                    *)

\* The loop frees a buffer and goes on to the next one, until that is wbuf: the
\* buffers rpb[0], rpb[1], ... of the circular list, rpb[n] being the first wbuf.
pipe_close ==
    /\ InUse
    /\ \E n \in 1..nbuf : \E rpb \in [0..n -> Buffers] :
          /\ rpb[0] = rbuf /\ rpb[n] = wbuf
          /\ \A i \in 1..n : rpb[i] = next_buf[rpb[i - 1]]
          /\ \A i \in 1..(n - 1) : rpb[i] # wbuf
          /\ freed' = {rpb[i] : i \in 0..(n - 1)}
    /\ UNCHANGED <<nbuf, begin, end, len, next_buf, mem, rbuf, wbuf, nmsg,
                   buf_size, size, queue, out, overrun, wild>>

Next == pipe_get \/ pipe_close \/ \E s \in Sizes : pipe_put(s)

Spec == Init /\ [][Next]_vars

-----------------------------------------------------------------------------

\* Offsets, links and cells of the ring have their types.
TypeOK ==
    /\ nbuf \in Nat \ {0}
    /\ begin \in [Buffers -> Nat]
    /\ end \in [Buffers -> Nat]
    /\ len \in [Buffers -> Nat]
    /\ next_buf \in [Buffers -> Buffers]
    /\ DOMAIN mem = Buffers
    /\ \A b \in Buffers : mem[b] \in [0..len[b] -> (0..Len(size)) \X Nat]
    /\ rbuf \in Buffers /\ wbuf \in Buffers
    /\ nmsg \in Nat /\ nmsg = Len(queue)
    /\ buf_size \in {0} \cup MinSize..MaxSize
    /\ size \in Seq(Sizes)
    /\ queue \in Seq(1..Len(size))
    /\ overrun \in 0..1
    /\ freed \subseteq Buffers
    /\ wild \in 0..1

\* Every buffer has room for any message, the offsets stay within the buffer, and so
\* does every message whose size field is in it, even when messages were overwritten.
CopiesFit ==
    /\ \A b \in Buffers : \A s \in Sizes : s <= len[b]
    /\ \A b \in Buffers : begin[b] <= len[b] /\ end[b] <= len[b]
    /\ \A b \in Buffers : \A o \in 0..len[b] : \A m \in 1..Len(size) :
          mem[b][o] = <<m, 0>> => o + size[m] <= len[b]

\* No copy of pipe:put or pipe:get leaves its buffer, until a put has met a buffer that
\* is full with begin = end (then pipe:get may take payload for a size), or buf_size has
\* wrapped around, which happens to a pipe with the largest maximum, 2^31, the default.
InBounds ==
    /\ CopiesFit
    /\ wild = 1 => overrun = 1 \/ buf_size = 0

\* pipe:get returns the messages in the order of the puts, each of them whole,
\* across wrapped buffers, freed buffers taken again and new ones linked into the
\* ring, as long as no put has met a buffer that is full with begin = end.
FifoUnlessOverrun ==
    [][nmsg' < nmsg /\ overrun = 0 => out' = Head(queue)]_vars

\* "string expected, got" (test/thread/vms.lua:55-57): what is got is what was put.
Fifo == [][nmsg' < nmsg => out' = Head(queue)]_vars

\* While no message was overwritten, reader and writer agree on the ring: rbuf has a
\* message to read as long as there are any, and an empty pipe starts over at the front
\* of its one buffer in use.  So it always has room for a message, and no writer waits
\* for a reader that waits for a message.
RingReady ==
    overrun = 0 => IF nmsg > 0 THEN SizeIsThere
                   ELSE rbuf = wbuf /\ begin[wbuf] = 0 /\ end[wbuf] = 0
=============================================================================
