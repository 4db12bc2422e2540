-------------------------- MODULE PipeBuffer_proofs --------------------------
(***************************************************************************)
(* Proofs about PipeBuffer, for any sizes of messages and of buffers and   *)
(* any number of messages: the copies of pipe_put and pipe_get stay within *)
(* their buffers, and as long as no message was overwritten the reader     *)
(* finds the oldest message, whole, where it looks for it.                 *)
(***************************************************************************)
EXTENDS PipeBuffer, TLAPS

Safe == TypeOK /\ CopiesFit

LEMMA InitSafe == Init => Safe
  <1>. SUFFICES ASSUME Init PROVE Safe
    OBVIOUS
  <1>. DEFINE n == MinSize - Extra
  <1>1. n \in Nat /\ \A s \in Sizes : s <= n
    BY SizesAssumption
  <1>2. /\ nbuf = 1 /\ begin = [b \in 1..1 |-> 0] /\ end = [b \in 1..1 |-> 0]
        /\ len = [b \in 1..1 |-> n] /\ next_buf = [b \in 1..1 |-> 1]
        /\ mem = [b \in 1..1 |-> [o \in 0..n |-> <<0, 1>>]]
        /\ rbuf = 1 /\ wbuf = 1 /\ nmsg = 0 /\ buf_size = MinSize
        /\ size = <<>> /\ queue = <<>> /\ overrun = 0 /\ freed = {} /\ wild = 0
    BY DEF Init, Blank
  <1>3. buf_size - Extra = n
    BY <1>2
  <1>. HIDE DEF n
  <1>4. [o \in 0..n |-> <<0, 1>>] \in [0..n -> (0..0) \X Nat]
    OBVIOUS
  <1>5. Len(size) = 0 /\ Len(queue) = 0 /\ size \in Seq(Sizes) /\ queue \in Seq(1..0)
    BY <1>2
  <1>6. TypeOK
    BY <1>1, <1>2, <1>4, <1>5, SizesAssumption DEF TypeOK, Buffers
  <1>7. CopiesFit
    BY <1>1, <1>2, <1>3, <1>5 DEF CopiesFit, Buffers
  <1>. QED BY <1>6, <1>7 DEF Safe

-----------------------------------------------------------------------------
(* The memory of one buffer of size n, when the messages have the sizes z. *)

CellsOK(cells, n, z) ==
    /\ cells \in [0..n -> (0..Len(z)) \X Nat]
    /\ \A o \in 0..n : \A m \in 1..Len(z) : cells[o] = <<m, 0>> => o + z[m] <= n

\* Cells that are in order stay so when a message is put elsewhere.
LEMMA CellsKept ==
  ASSUME NEW n \in Nat, NEW z \in Seq(Nat), NEW s \in Nat, NEW cells, CellsOK(cells, n, z)
  PROVE  CellsOK(cells, n, Append(z, s))
  <1>1. /\ Len(Append(z, s)) = Len(z) + 1 /\ Len(z) \in Nat
        /\ \A m \in 1..Len(z) : Append(z, s)[m] = z[m]
    OBVIOUS
  <1>2. cells \in [0..n -> (0..(Len(z) + 1)) \X Nat]
    BY <1>1 DEF CellsOK
  <1>3. ASSUME NEW o \in 0..n, NEW m \in 1..(Len(z) + 1), cells[o] = <<m, 0>>
        PROVE  o + Append(z, s)[m] <= n
    <2>1. cells[o] \in (0..Len(z)) \X Nat
      BY DEF CellsOK
    <2>2. m \in 1..Len(z)
      BY <1>1, <1>3, <2>1
    <2>. QED BY <1>1, <1>3, <2>2 DEF CellsOK
  <1>. QED BY <1>1, <1>2, <1>3 DEF CellsOK

\* So they do when the message that is put is copied into them, within bounds.
LEMMA CopiedOK ==
  ASSUME NEW n \in Nat, NEW s \in Nat, NEW o \in Nat, o + s <= n, size \in Seq(Nat),
         NEW cells, CellsOK(cells, n, size)
  PROVE  CellsOK(Copied(cells, o, s), n, Append(size, s))
  <1>. DEFINE c == Copied(cells, o, s)
              k == Len(size) + 1
  <1>1. /\ Len(Append(size, s)) = k /\ Len(size) \in Nat /\ k \in Nat
        /\ Append(size, s)[k] = s
        /\ \A m \in 1..Len(size) : Append(size, s)[m] = size[m]
    OBVIOUS
  <1>2. DOMAIN cells = 0..n /\ \A i \in 0..n : cells[i] \in (0..Len(size)) \X Nat
    BY DEF CellsOK
  <1>3. /\ DOMAIN c = 0..n
        /\ \A i \in 0..n : c[i] = IF i \in o..(o + s - 1) THEN <<k, i - o>> ELSE cells[i]
        /\ c = [i \in 0..n |-> c[i]]
    BY <1>2 DEF Copied
  <1>. HIDE DEF c
  <1>4. ASSUME NEW i \in 0..n PROVE c[i] \in (0..k) \X Nat
    <2>1. CASE i \in o..(o + s - 1)
      BY <1>1, <1>3, <2>1
    <2>2. CASE i \notin o..(o + s - 1)
      <3>1. c[i] = cells[i]
        BY <1>3, <2>2
      <3>2. cells[i] \in (0..Len(size)) \X Nat
        BY <1>2
      <3>. QED BY <1>1, <3>1, <3>2
    <2>. QED BY <2>1, <2>2
  <1>5. c \in [0..n -> (0..k) \X Nat]
    BY <1>3, <1>4
  <1>6. ASSUME NEW i \in 0..n, NEW m \in 1..k, c[i] = <<m, 0>>
        PROVE  i + Append(size, s)[m] <= n
    <2>1. CASE i \in o..(o + s - 1)
      <3>1. c[i] = <<k, i - o>>
        BY <1>3, <2>1
      <3>2. m = k /\ i = o
        BY <1>6, <3>1, <2>1
      <3>. QED BY <3>2, <1>1
    <2>2. CASE i \notin o..(o + s - 1)
      <3>1. cells[i] = <<m, 0>>
        BY <1>3, <1>6, <2>2
      <3>2. cells[i] \in (0..Len(size)) \X Nat
        BY <1>2
      <3>3. m \in 1..Len(size)
        BY <1>1, <3>1, <3>2
      <3>4. i + size[m] <= n
        BY <3>1, <3>3 DEF CellsOK
      <3>. QED BY <1>1, <3>3, <3>4
    <2>. QED BY <2>1, <2>2
  <1>. QED BY <1>1, <1>5, <1>6 DEF CellsOK, c

-----------------------------------------------------------------------------
(* The same invariant, buffer by buffer.                                   *)

BufferOK(b) ==
    /\ len[b] \in Nat /\ \A s \in Sizes : s <= len[b]
    /\ begin[b] \in 0..len[b] /\ end[b] \in 0..len[b]
    /\ next_buf[b] \in Buffers
    /\ CellsOK(mem[b], len[b], size)

Ring ==
    /\ nbuf \in Nat \ {0}
    /\ begin = [b \in Buffers |-> begin[b]] /\ end = [b \in Buffers |-> end[b]]
    /\ len = [b \in Buffers |-> len[b]] /\ next_buf = [b \in Buffers |-> next_buf[b]]
    /\ DOMAIN mem = Buffers
    /\ rbuf \in Buffers /\ wbuf \in Buffers
    /\ buf_size \in {0} \cup MinSize..MaxSize

Content ==
    /\ nmsg \in Nat /\ nmsg = Len(queue)
    /\ size \in Seq(Sizes) /\ queue \in Seq(1..Len(size))
    /\ overrun \in 0..1
    /\ freed \subseteq Buffers
    /\ wild \in 0..1

SafeByBuffer == Ring /\ Content /\ \A b \in Buffers : BufferOK(b)

LEMMA SizeIsNat == size \in Seq(Sizes) => size \in Seq(Nat)
  <1>. SUFFICES ASSUME size \in Seq(Sizes) PROVE size \in Seq(Nat)
    OBVIOUS
  <1>1. /\ size = [i \in 1..Len(size) |-> size[i]] /\ Len(size) \in Nat
        /\ \A i \in 1..Len(size) : size[i] \in Sizes
    OBVIOUS
  <1>2. \A i \in 1..Len(size) : size[i] \in Nat
    BY <1>1, SizesAssumption
  <1>. QED BY <1>1, <1>2

LEMMA ToBuffers == Safe => SafeByBuffer
  <1>. SUFFICES ASSUME Safe PROVE SafeByBuffer
    OBVIOUS
  <1>. USE DEF Safe
  <1>1. Ring
    <2>1. /\ nbuf \in Nat \ {0} /\ rbuf \in Buffers /\ wbuf \in Buffers
          /\ buf_size \in {0} \cup MinSize..MaxSize
      BY DEF TypeOK
    <2>3. /\ begin = [b \in Buffers |-> begin[b]] /\ end = [b \in Buffers |-> end[b]]
          /\ len = [b \in Buffers |-> len[b]]
          /\ next_buf = [b \in Buffers |-> next_buf[b]]
          /\ DOMAIN mem = Buffers
      BY DEF TypeOK
    <2>. QED BY <2>1, <2>3 DEF Ring
  <1>2. Content
    BY DEF TypeOK, Content
  <1>3. ASSUME NEW b \in Buffers PROVE BufferOK(b)
    <2>1. /\ len[b] \in Nat /\ begin[b] \in Nat /\ end[b] \in Nat
          /\ next_buf[b] \in Buffers
          /\ mem[b] \in [0..len[b] -> (0..Len(size)) \X Nat]
      BY DEF TypeOK
    <2>2. /\ begin[b] <= len[b] /\ end[b] <= len[b] /\ \A s \in Sizes : s <= len[b]
          /\ \A o \in 0..len[b] : \A m \in 1..Len(size) :
                mem[b][o] = <<m, 0>> => o + size[m] <= len[b]
      BY DEF CopiesFit
    <2>. QED BY <2>1, <2>2 DEF BufferOK, CellsOK
  <1>. QED BY <1>1, <1>2, <1>3 DEF SafeByBuffer

LEMMA FromBuffers == SafeByBuffer => Safe
  <1>. SUFFICES ASSUME SafeByBuffer PROVE Safe
    OBVIOUS
  <1>1. ASSUME NEW b \in Buffers
        PROVE  /\ len[b] \in Nat /\ begin[b] \in Nat /\ end[b] \in Nat
               /\ next_buf[b] \in Buffers
               /\ mem[b] \in [0..len[b] -> (0..Len(size)) \X Nat]
               /\ begin[b] <= len[b] /\ end[b] <= len[b]
               /\ \A s \in Sizes : s <= len[b]
               /\ \A o \in 0..len[b] : \A m \in 1..Len(size) :
                     mem[b][o] = <<m, 0>> => o + size[m] <= len[b]
    <2>1. BufferOK(b)
      BY DEF SafeByBuffer
    <2>. QED BY <2>1 DEF BufferOK, CellsOK
  <1>2. TypeOK
    <2>1. /\ begin \in [Buffers -> Nat] /\ end \in [Buffers -> Nat]
          /\ len \in [Buffers -> Nat] /\ next_buf \in [Buffers -> Buffers]
          /\ DOMAIN mem = Buffers
      BY <1>1 DEF SafeByBuffer, Ring
    <2>. QED BY <1>1, <2>1 DEF SafeByBuffer, Ring, Content, TypeOK
  <1>3. CopiesFit
    BY <1>1 DEF CopiesFit
  <1>. QED BY <1>2, <1>3 DEF Safe

-----------------------------------------------------------------------------
(* pipe:get                                                                *)

\* The three cases of what GetMessage does to rbuf.
LEMMA GetSafe == SafeByBuffer /\ nmsg > 0 /\ GetMessage => SafeByBuffer'
  <1>. SUFFICES ASSUME SafeByBuffer, nmsg > 0, GetMessage PROVE SafeByBuffer'
    OBVIOUS
  <1>. DEFINE o == ReadOffset
              m == ReadMessage
              x == o + size[m]
  <1>1. /\ UNCHANGED <<nbuf, len, next_buf, mem, wbuf, buf_size, size, overrun, freed, wild>>
        /\ nmsg > 0 /\ nmsg' = nmsg - 1 /\ queue' = Tail(queue) /\ SizeIsThere
        /\ begin' = [begin EXCEPT ![rbuf] = IF x = end[rbuf] \/ x = len[rbuf] THEN 0 ELSE x]
        /\ end' = [end EXCEPT ![rbuf] = IF x = @ THEN 0 ELSE @]
        /\ rbuf' = IF x = end[rbuf] /\ nmsg > 1 THEN next_buf[rbuf] ELSE rbuf
    BY DEF GetMessage, ReadBufferAfter
  <1>2. Ring /\ Content /\ rbuf \in Buffers /\ Buffers' = Buffers /\ BufferOK(rbuf)
    BY <1>1 DEF SafeByBuffer, Ring, Buffers
  <1>3. x \in 0..len[rbuf]
    <2>1. o \in 0..len[rbuf]
      BY <1>2 DEF BufferOK, ReadOffset
    <2>2. m \in 1..Len(size) /\ mem[rbuf][o] = <<m, 0>>
      BY <1>1 DEF SizeIsThere, ReadMessage
    <2>3. size[m] \in Nat
      BY <1>2, <2>2, SizeIsNat DEF Content
    <2>4. o + size[m] <= len[rbuf]
      BY <1>2, <2>1, <2>2 DEF BufferOK, CellsOK
    <2>. QED BY <1>2, <2>1, <2>3, <2>4 DEF BufferOK
  <1>. HIDE DEF o, m, x
  <1>4. Content'
    <2>1. queue \in Seq(1..Len(size)) /\ queue # <<>> /\ Len(queue) = nmsg /\ nmsg \in Nat
      BY <1>1, <1>2 DEF Content
    <2>2. Tail(queue) \in Seq(1..Len(size)) /\ Len(Tail(queue)) = nmsg - 1
      BY <2>1
    <2>. QED BY <1>1, <1>2, <2>1, <2>2 DEF Content
  <1>5. /\ begin' = [b \in Buffers |-> begin'[b]] /\ end' = [b \in Buffers |-> end'[b]]
        /\ \A b \in Buffers : b # rbuf => begin'[b] = begin[b] /\ end'[b] = end[b]
        /\ begin'[rbuf] \in {0, x} /\ end'[rbuf] \in {0, end[rbuf]}
    BY <1>1, <1>2 DEF Ring
  <1>6. rbuf' \in Buffers
    BY <1>1, <1>2 DEF BufferOK
  <1>7. Ring'
    BY <1>1, <1>2, <1>5, <1>6 DEF Ring
  <1>8. ASSUME NEW b \in Buffers PROVE BufferOK(b)'
    <2>1. BufferOK(b) /\ Buffers' = Buffers
      BY <1>2 DEF SafeByBuffer
    <2>2. begin'[b] \in 0..len[b] /\ end'[b] \in 0..len[b]
      BY <1>2, <1>3, <1>5, <2>1 DEF BufferOK
    <2>. QED BY <1>1, <2>1, <2>2 DEF BufferOK
  <1>. QED BY <1>2, <1>4, <1>7, <1>8 DEF SafeByBuffer

LEMMA StraySafe == SafeByBuffer /\ Stray => SafeByBuffer'
  <1>. SUFFICES ASSUME SafeByBuffer, Stray PROVE SafeByBuffer'
    OBVIOUS
  <1>1. /\ UNCHANGED <<nbuf, begin, end, len, next_buf, mem, rbuf, wbuf, nmsg,
                       buf_size, size, queue, overrun, freed>>
        /\ wild' = 1
    BY DEF Stray
  <1>2. Buffers' = Buffers
    BY <1>1 DEF Buffers
  <1>3. Ring' /\ Content'
    BY <1>1, <1>2 DEF SafeByBuffer, Ring, Content
  <1>4. \A b \in Buffers : BufferOK(b)'
    BY <1>1, <1>2 DEF SafeByBuffer, BufferOK
  <1>. QED BY <1>2, <1>3, <1>4 DEF SafeByBuffer

LEMMA CloseSafe == SafeByBuffer /\ pipe_close => SafeByBuffer'
  <1>. SUFFICES ASSUME SafeByBuffer, pipe_close PROVE SafeByBuffer'
    OBVIOUS
  <1>1. UNCHANGED <<nbuf, begin, end, len, next_buf, mem, rbuf, wbuf, nmsg,
                   buf_size, size, queue, out, overrun, wild>>
    BY DEF pipe_close
  <1>2. freed' \subseteq Buffers
    <2>1. PICK n \in 1..nbuf : \E rpb \in [0..n -> Buffers] :
                freed' = {rpb[i] : i \in 0..(n - 1)}
      BY DEF pipe_close
    <2>2. PICK rpb \in [0..n -> Buffers] : freed' = {rpb[i] : i \in 0..(n - 1)}
      BY <2>1
    <2>3. \A i \in 0..(n - 1) : rpb[i] \in Buffers
      <3>1. 0..(n - 1) \subseteq 0..n
        BY <2>1 DEF SafeByBuffer, Ring
      <3>. QED BY <3>1
    <2>. QED BY <2>2, <2>3
  <1>3. Buffers' = Buffers
    BY <1>1 DEF Buffers
  <1>4. Ring' /\ Content'
    BY <1>1, <1>2, <1>3 DEF SafeByBuffer, Ring, Content
  <1>5. \A b \in Buffers : BufferOK(b)'
    BY <1>1, <1>3 DEF SafeByBuffer, BufferOK
  <1>. QED BY <1>3, <1>4, <1>5 DEF SafeByBuffer

-----------------------------------------------------------------------------
(* pipe:put                                                                *)

LEMMA AcceptContent ==
  ASSUME Content, NEW s \in Sizes, Accept(s), freed \subseteq Buffers'
  PROVE  Content'
  <1>1. /\ nmsg' = nmsg + 1 /\ size' = Append(size, s)
        /\ queue' = Append(queue, Len(size) + 1) /\ overrun' \in 0..1 /\ freed' = freed
        /\ wild' \in 0..1
    BY DEF Accept, Content
  <1>2. /\ nmsg \in Nat /\ nmsg = Len(queue) /\ size \in Seq(Sizes)
        /\ queue \in Seq(1..Len(size)) /\ Len(size) \in Nat
    BY DEF Content
  <1>3. Append(size, s) \in Seq(Sizes) /\ Len(Append(size, s)) = Len(size) + 1
    BY <1>2
  <1>4. queue \in Seq(1..(Len(size) + 1))
    <2>1. /\ queue = [i \in 1..Len(queue) |-> queue[i]]
          /\ \A i \in 1..Len(queue) : queue[i] \in 1..Len(size)
      BY <1>2
    <2>2. \A i \in 1..Len(queue) : queue[i] \in 1..(Len(size) + 1)
      BY <1>2, <2>1
    <2>. QED BY <1>2, <2>1, <2>2
  <1>5. /\ Append(queue, Len(size) + 1) \in Seq(1..(Len(size) + 1))
        /\ Len(Append(queue, Len(size) + 1)) = nmsg + 1
    BY <1>2, <1>4
  <1>. QED BY <1>1, <1>2, <1>3, <1>5 DEF Content

\* A message of size s copied to offset o of buffer w, which then ends behind it.
LEMMA StoreSafe ==
  ASSUME SafeByBuffer, NEW s \in Sizes, Accept(s), NEW w \in Buffers, NEW o \in Nat,
         o + s <= len[w], NEW cells, CellsOK(cells, len[w], size),
         mem' = [mem EXCEPT ![w] = Copied(cells, o, s)],
         end' = [end EXCEPT ![w] = o + s],
         wbuf' \in Buffers, UNCHANGED <<nbuf, begin, len, next_buf, buf_size>>
  PROVE  SafeByBuffer'
  <1>1. /\ Ring /\ Content /\ Buffers' = Buffers /\ s \in Nat /\ size \in Seq(Nat)
        /\ rbuf' = rbuf /\ size' = Append(size, s)
    BY SizesAssumption, SizeIsNat DEF SafeByBuffer, Content, Accept, Buffers
  <1>2. Content'
    BY <1>1, AcceptContent DEF Content
  <1>3. /\ DOMAIN mem' = Buffers /\ end' = [b \in Buffers |-> end'[b]]
        /\ end'[w] = o + s /\ mem'[w] = Copied(cells, o, s)
        /\ \A b \in Buffers : b # w => mem'[b] = mem[b] /\ end'[b] = end[b]
    BY <1>1 DEF Ring
  <1>4. Ring'
    BY <1>1, <1>3 DEF Ring
  <1>5. ASSUME NEW b \in Buffers PROVE BufferOK(b)'
    <2>1. BufferOK(b) /\ len[b] \in Nat
      BY DEF SafeByBuffer, BufferOK
    <2>2. CellsOK(mem'[b], len[b], Append(size, s))
      <3>1. CASE b = w
        BY <1>1, <1>3, <2>1, <3>1, CopiedOK
      <3>2. CASE b # w
        <4>1. mem'[b] = mem[b] /\ CellsOK(mem[b], len[b], size)
          BY <1>3, <2>1, <3>2 DEF BufferOK
        <4>. QED BY <1>1, <2>1, <4>1, CellsKept
      <3>. QED BY <3>1, <3>2
    <2>3. end'[b] \in 0..len[b]
      BY <1>1, <1>3, <2>1 DEF BufferOK
    <2>. QED BY <1>1, <2>1, <2>2, <2>3 DEF BufferOK
  <1>. QED BY <1>1, <1>2, <1>4, <1>5 DEF SafeByBuffer

LEMMA SentinelOK ==
  ASSUME NEW n \in Nat, NEW e \in 0..n, NEW cells, CellsOK(cells, n, size),
         Len(size) \in Nat
  PROVE  CellsOK([cells EXCEPT ![e] = Sentinel], n, size)
  <1>. DEFINE c == [cells EXCEPT ![e] = Sentinel]
  <1>1. /\ c \in [0..n -> (0..Len(size)) \X Nat] /\ c[e] = <<0, 0>>
        /\ \A i \in 0..n : i # e => c[i] = cells[i]
    BY DEF CellsOK, Sentinel
  <1>. HIDE DEF c
  <1>2. ASSUME NEW i \in 0..n, NEW m \in 1..Len(size), c[i] = <<m, 0>>
        PROVE  i # e
    BY <1>1, <1>2
  <1>3. CellsOK(c, n, size)
    BY <1>1, <1>2 DEF CellsOK
  <1>. QED BY <1>3 DEF c

LEMMA PutInPlaceSafe ==
  ASSUME SafeByBuffer, NEW s \in Sizes, PutInPlace(s), Accept(s)
  PROVE  SafeByBuffer'
  <1>1. wbuf \in Buffers /\ BufferOK(wbuf) /\ s \in Nat
    BY SizesAssumption DEF SafeByBuffer, Ring
  <1>2. /\ begin[wbuf] \in 0..len[wbuf] /\ end[wbuf] \in 0..len[wbuf] /\ len[wbuf] \in Nat
        /\ CellsOK(mem[wbuf], len[wbuf], size)
    BY <1>1 DEF BufferOK
  <1>3. end[wbuf] \in Nat /\ end[wbuf] + s <= len[wbuf]
    BY <1>1, <1>2 DEF PutInPlace, Room
  <1>4. /\ mem' = [mem EXCEPT ![wbuf] = Copied(mem[wbuf], end[wbuf], s)]
        /\ end' = [end EXCEPT ![wbuf] = end[wbuf] + s]
        /\ wbuf' \in Buffers /\ UNCHANGED <<nbuf, begin, len, next_buf, buf_size>>
    BY <1>1 DEF PutInPlace
  <1>. QED BY <1>1, <1>2, <1>3, <1>4, StoreSafe

LEMMA PutWrappedSafe ==
  ASSUME SafeByBuffer, NEW s \in Sizes, PutWrapped(s), Accept(s)
  PROVE  SafeByBuffer'
  <1>. DEFINE cells == [mem[wbuf] EXCEPT ![end[wbuf]] = Sentinel]
  <1>1. wbuf \in Buffers /\ BufferOK(wbuf) /\ s \in Nat /\ Len(size) \in Nat
    BY SizesAssumption DEF SafeByBuffer, Ring, Content
  <1>2. /\ begin[wbuf] \in 0..len[wbuf] /\ end[wbuf] \in 0..len[wbuf] /\ len[wbuf] \in Nat
        /\ CellsOK(mem[wbuf], len[wbuf], size)
    BY <1>1 DEF BufferOK
  <1>3. CellsOK(cells, len[wbuf], size)
    BY <1>1, <1>2, SentinelOK
  <1>4. 0 + s <= len[wbuf] /\ 0 + s = s
    BY <1>1, <1>2 DEF PutWrapped, CanWrap
  <1>5. /\ mem' = [mem EXCEPT ![wbuf] = Copied(cells, 0, s)]
        /\ end' = [end EXCEPT ![wbuf] = 0 + s]
        /\ wbuf' \in Buffers /\ UNCHANGED <<nbuf, begin, len, next_buf, buf_size>>
    BY <1>1, <1>4 DEF PutWrapped
  <1>. HIDE DEF cells
  <1>. QED BY <1>1, <1>3, <1>4, <1>5, StoreSafe

LEMMA PutInNextSafe ==
  ASSUME SafeByBuffer, NEW s \in Sizes, PutInNext(s), Accept(s)
  PROVE  SafeByBuffer'
  <1>. DEFINE w == next_buf[wbuf]
  <1>1. wbuf \in Buffers /\ BufferOK(wbuf) /\ s \in Nat
    BY SizesAssumption DEF SafeByBuffer, Ring
  <1>2. w \in Buffers /\ BufferOK(w)
    BY <1>1 DEF SafeByBuffer, BufferOK
  <1>3. CellsOK(mem[w], len[w], size) /\ 0 + s <= len[w] /\ 0 + s = s
    BY <1>1, <1>2 DEF BufferOK
  <1>4. /\ mem' = [mem EXCEPT ![w] = Copied(mem[w], 0, s)]
        /\ end' = [end EXCEPT ![w] = 0 + s]
        /\ wbuf' \in Buffers /\ UNCHANGED <<nbuf, begin, len, next_buf, buf_size>>
    BY <1>2, <1>3 DEF PutInNext
  <1>. HIDE DEF w
  <1>. QED BY <1>1, <1>2, <1>3, <1>4, StoreSafe

\* A new buffer that holds the message is one that holds any message, and the next one is
\* twice as large, unless its size wraps around to 0.
LEMMA NewSize ==
  ASSUME buf_size \in {0} \cup MinSize..MaxSize, NEW s \in Sizes, CanGrow, s <= buf_size - Extra
  PROVE  /\ buf_size - Extra \in Nat /\ \A z \in Sizes : z <= buf_size - Extra
         /\ Uint(buf_size - Extra) = buf_size - Extra
         /\ Uint(2 * buf_size) \in {0} \cup MinSize..MaxSize
         /\ Uint(2 * buf_size) = 0 => 2 * MaxSize = UintMod
  <1>1. /\ MinSize \in Nat /\ MaxSize \in Nat /\ Extra \in Nat /\ Extra > 0 /\ Extra < MinSize
        /\ MinSize <= MaxSize /\ UintMod \in Nat /\ 2 * MaxSize <= UintMod
        /\ s \in Nat /\ \A z \in Sizes : z \in Nat /\ z <= MinSize - Extra
    BY SizesAssumption
  <1>2. buf_size \in Nat /\ MinSize <= buf_size /\ buf_size <= MaxSize
    BY <1>1
  <1>3. \A x \in Nat : x < UintMod => x % UintMod = x
    BY <1>1
  <1>4. UintMod > 0 => UintMod % UintMod = 0
    BY <1>1
  <1>5. buf_size - Extra \in Nat /\ \A z \in Sizes : z <= buf_size - Extra
    BY <1>1, <1>2
  <1>6. Uint(buf_size - Extra) = buf_size - Extra
    BY <1>1, <1>2, <1>3, <1>5 DEF Uint
  <1>7. CASE 2 * buf_size < UintMod
    <2>1. Uint(2 * buf_size) = 2 * buf_size
      BY <1>2, <1>3, <1>7 DEF Uint
    <2>2. 2 * buf_size <= MaxSize
      BY <2>1 DEF CanGrow
    <2>. QED BY <1>1, <1>2, <1>5, <1>6, <2>1, <2>2
  <1>8. CASE ~(2 * buf_size < UintMod)
    <2>1. 2 * buf_size = UintMod /\ buf_size = MaxSize /\ UintMod > 0
      BY <1>1, <1>2, <1>8
    <2>2. Uint(2 * buf_size) = 0
      BY <1>4, <2>1 DEF Uint
    <2>. QED BY <1>5, <1>6, <2>1, <2>2
  <1>. QED BY <1>7, <1>8

LEMMA PutInNewSafe ==
  ASSUME SafeByBuffer, NEW s \in Sizes, PutInNew(s), Accept(s)
  PROVE  SafeByBuffer'
  <1>0. PICK w \in Nat : w = nbuf + 1
    BY DEF SafeByBuffer, Ring
  <1>. DEFINE n == buf_size - Extra
              blank == [o \in 0..n |-> Blank]
              nb == [next_buf EXCEPT ![wbuf] = w]
  <1>1. /\ Ring /\ Content /\ nbuf \in Nat \ {0} /\ wbuf \in Buffers /\ BufferOK(wbuf)
        /\ s \in Nat /\ size \in Seq(Nat) /\ Len(size) \in Nat
        /\ rbuf' = rbuf /\ rbuf \in Buffers /\ size' = Append(size, s)
    BY SizesAssumption, SizeIsNat DEF SafeByBuffer, Ring, Content, Accept
  <1>2. /\ n \in Nat /\ \A z \in Sizes : z <= n
        /\ Uint(n) = n /\ Uint(2 * buf_size) \in {0} \cup MinSize..MaxSize
    BY <1>1, NewSize DEF Ring, PutInNew, NeedsNew
  <1>3. /\ nbuf' = w /\ wbuf' = w /\ buf_size' = Uint(2 * buf_size)
        /\ begin' = Extended(begin, 0) /\ end' = Extended(end, s)
        /\ len' = Extended(len, n) /\ next_buf' = Extended(nb, next_buf[wbuf])
        /\ mem' = Extended(mem, Copied(blank, 0, s))
    BY <1>0, <1>2 DEF PutInNew
  <1>4. CellsOK(blank, n, size)
    BY <1>1, <1>2 DEF CellsOK, Blank
  <1>5. CellsOK(Copied(blank, 0, s), n, Append(size, s))
    BY <1>1, <1>2, <1>4, CopiedOK
  <1>6. Buffers' = Buffers \cup {w} /\ Buffers' = 1..w /\ w \notin Buffers
    <2>1. nbuf \in Nat /\ w = nbuf + 1 /\ nbuf' = w /\ w \in Nat
      BY <1>0, <1>1, <1>3
    <2>2. Buffers = 1..nbuf /\ Buffers' = 1..w
      BY <2>1 DEF Buffers
    <2>. QED BY <2>1, <2>2
  <1>. HIDE DEF n, blank
  <1>7. Content'
    BY <1>1, <1>6, AcceptContent DEF Content
  <1>8. \A b \in Buffers : nb[b] \in Buffers'
    BY <1>1, <1>6 DEF Ring, SafeByBuffer, BufferOK
  <1>. HIDE DEF nb
  <1>9. /\ begin' = [b \in Buffers' |-> begin'[b]] /\ end' = [b \in Buffers' |-> end'[b]]
        /\ len' = [b \in Buffers' |-> len'[b]]
        /\ next_buf' = [b \in Buffers' |-> next_buf'[b]] /\ DOMAIN mem' = Buffers'
    BY <1>0, <1>3, <1>6 DEF Extended
  <1>10. buf_size' \in {0} \cup MinSize..MaxSize
    BY <1>2, <1>3
  <1>11. Ring'
    BY <1>1, <1>3, <1>6, <1>9, <1>10 DEF Ring
  <1>12. BufferOK(w)'
    <2>1. /\ begin'[w] = 0 /\ end'[w] = s /\ len'[w] = n /\ next_buf'[w] = next_buf[wbuf]
          /\ mem'[w] = Copied(blank, 0, s)
      BY <1>0, <1>1, <1>3 DEF Extended
    <2>2. next_buf[wbuf] \in Buffers'
      BY <1>1, <1>6 DEF BufferOK
    <2>3. s \in 0..n /\ 0 \in 0..n
      BY <1>1, <1>2
    <2>4. CellsOK(mem'[w], len'[w], size')
      BY <1>1, <1>5, <2>1
    <2>. QED BY <1>2, <2>1, <2>2, <2>3, <2>4 DEF BufferOK
  <1>13. ASSUME NEW b \in Buffers PROVE BufferOK(b)'
    <2>1. BufferOK(b) /\ b # w /\ b \in 1..w
      BY <1>6 DEF SafeByBuffer
    <2>2. /\ begin'[b] = begin[b] /\ end'[b] = end[b] /\ len'[b] = len[b]
          /\ next_buf'[b] = nb[b] /\ mem'[b] = mem[b]
      BY <1>0, <1>3, <2>1 DEF Extended
    <2>3. CellsOK(mem[b], len[b], Append(size, s))
      <3>1. CellsOK(mem[b], len[b], size) /\ len[b] \in Nat
        BY <2>1 DEF BufferOK
      <3>. QED BY <1>1, <3>1, CellsKept
    <2>. QED BY <1>1, <1>8, <2>1, <2>2, <2>3 DEF BufferOK
  <1>14. ASSUME NEW b \in Buffers' PROVE BufferOK(b)'
    <2>1. b = w \/ b \in Buffers
      BY <1>6
    <2>. QED BY <1>12, <1>13, <2>1
  <1>. QED BY <1>7, <1>11, <1>14 DEF SafeByBuffer

-----------------------------------------------------------------------------

LEMMA NextSafe == Safe /\ [Next]_vars => Safe'
  <1>. SUFFICES ASSUME Safe, [Next]_vars PROVE Safe'
    OBVIOUS
  <1>1. SafeByBuffer
    BY ToBuffers
  <1>2. SafeByBuffer'
    <2>1. CASE pipe_get
      BY <1>1, <2>1, GetSafe, StraySafe DEF pipe_get, GetStray
    <2>2. CASE pipe_close
      BY <1>1, <2>2, CloseSafe
    <2>3. ASSUME NEW s \in Sizes, pipe_put(s) PROVE SafeByBuffer'
      <3>1. \/ Accept(s) /\ (PutInPlace(s) \/ PutWrapped(s) \/ PutInNext(s) \/ PutInNew(s))
            \/ Stray
        BY <2>3 DEF pipe_put, PutStray
      <3>. QED BY <1>1, <3>1, PutInPlaceSafe, PutWrappedSafe, PutInNextSafe, PutInNewSafe, StraySafe
    <2>4. CASE UNCHANGED vars
      <3>1. /\ Buffers' = Buffers /\ Ring' /\ Content'
        BY <1>1, <2>4 DEF SafeByBuffer, Ring, Content, Buffers, vars
      <3>2. \A b \in Buffers : BufferOK(b)'
        BY <1>1, <2>4, <3>1 DEF SafeByBuffer, BufferOK, vars
      <3>. QED BY <3>1, <3>2 DEF SafeByBuffer
    <2>. QED BY <2>1, <2>2, <2>3, <2>4 DEF Next
  <1>3. (SafeByBuffer => Safe)'
    BY FromBuffers, PTL
  <1>. QED BY <1>2, <1>3

LEMMA SpecSafe == Spec => []Safe
  BY InitSafe, NextSafe, PTL DEF Spec

\* The offsets, the links of the ring and the cells keep their types: a put
\* links a new buffer into the circular list and never leaves it.
THEOREM TypeCorrect == Spec => []TypeOK
  <1>1. Safe => TypeOK
    BY DEF Safe
  <1>. QED BY SpecSafe, <1>1, PTL

-----------------------------------------------------------------------------
(***************************************************************************)
(* Where the messages are, as long as none was overwritten.  The messages  *)
(* in the pipe are Oldest..Newest; message m stands in buffer f[m], at     *)
(* offset o[m].                                                            *)
(***************************************************************************)
Newest == Len(size)
Oldest == Newest - nmsg + 1
InPipe == Oldest..Newest

\* Message m is whole, in buffer b at offset x.
Whole(b, x, m) ==
    /\ b \in Buffers /\ x + size[m] <= len[b]
    /\ \A k \in 0..(size[m] - 1) : mem[b][x + k] = <<m, k>>

\* Buffer b is used from begin to end, or from begin to its last and from 0 to end.
Turned(b) == end[b] <= begin[b]

\* Message m is in the part of b that is used.
Inside(b, x, m) ==
    /\ end[b] > 0
    /\ IF Turned(b) THEN x + size[m] <= end[b] \/ begin[b] <= x
       ELSE begin[b] <= x /\ x + size[m] <= end[b]

\* In buffer b, a message at offset x is older than message n at y.
Older(b, x, y, n) ==
    \/ Turned(b) /\ begin[b] <= x
    \/ x < y /\ (Turned(b) => y + size[n] <= end[b])

\* After message m, at b and x, comes the one at c and y: behind it, at the front of the same
\* buffer, to which the sentinel points, or at the front of the next buffer.
Followed(b, x, m, c, y) ==
    \/ c = b /\ y = x + size[m]
    \/ c = b /\ y = 0 /\ mem[b][x + size[m]] = Sentinel
    \/ c = next_buf[b] /\ c # b /\ b # wbuf /\ y = 0 /\ end[b] = x + size[m]

Layout(f, o) ==
    /\ \A m \in InPipe : Whole(f[m], o[m], m) /\ Inside(f[m], o[m], m)
    /\ \A m, n \in InPipe : m < n /\ f[m] = f[n] => Older(f[m], o[m], o[n], n)
    /\ \A m \in Oldest..(Newest - 1) : Followed(f[m], o[m], m, f[m + 1], o[m + 1])
    /\ nmsg > 0 => /\ f[Oldest] = rbuf /\ o[Oldest] = ReadOffset
                   /\ f[Newest] = wbuf /\ o[Newest] + size[Newest] = end[wbuf]

\* Only the buffer that is read from starts elsewhere than at its front, and an empty pipe
\* starts over.
Fronts ==
    /\ \A b \in Buffers : b # rbuf => begin[b] = 0
    /\ nmsg = 0 => rbuf = wbuf /\ begin[wbuf] = 0 /\ end[wbuf] = 0

Numbered == nmsg <= Len(size) /\ \A i \in 1..nmsg : queue[i] = Len(size) - nmsg + i
Tracked == overrun = 0 => Fronts /\ \E f, o \in [Nat -> Nat] : Layout(f, o)

\* What the types say of buffers and messages.
LEMMA RingIs ==
  ASSUME Safe
  PROVE  /\ rbuf \in Buffers /\ wbuf \in Buffers /\ nmsg \in Nat /\ Len(size) \in Nat
         /\ \A b \in Buffers : /\ begin[b] \in Nat /\ end[b] \in Nat /\ len[b] \in Nat
                               /\ begin[b] <= len[b] /\ end[b] <= len[b] /\ next_buf[b] \in Buffers
                               /\ mem[b] \in [0..len[b] -> (0..Len(size)) \X Nat]
                               /\ \A s \in Sizes : s <= len[b]
         /\ \A s \in Sizes : s \in Nat /\ s > 0
         /\ \A m \in 1..Len(size) : size[m] \in Nat /\ size[m] > 0
  <1>1. /\ rbuf \in Buffers /\ wbuf \in Buffers /\ nmsg \in Nat /\ size \in Seq(Sizes)
        /\ \A b \in Buffers : /\ begin[b] \in Nat /\ end[b] \in Nat /\ len[b] \in Nat
                              /\ next_buf[b] \in Buffers
                              /\ mem[b] \in [0..len[b] -> (0..Len(size)) \X Nat]
    BY DEF Safe, TypeOK
  <1>2. \A b \in Buffers : begin[b] <= len[b] /\ end[b] <= len[b] /\ \A s \in Sizes : s <= len[b]
    BY DEF Safe, CopiesFit
  <1>3. \A s \in Sizes : s \in Nat /\ s > 0
    <2>1. \A s \in Sizes : s \in Nat /\ s # 0
      BY SizesAssumption
    <2>2. \A n \in Nat : n # 0 => n > 0
      OBVIOUS
    <2>. QED BY <2>1, <2>2
  <1>4. Len(size) \in Nat /\ \A m \in 1..Len(size) : size[m] \in Sizes
    BY <1>1
  <1>. QED BY <1>1, <1>2, <1>3, <1>4

LEMMA InPipeIs ==
  ASSUME Safe, Numbered
  PROVE  /\ Newest \in Nat /\ Oldest \in Nat /\ Oldest > 0 /\ Newest = Len(size)
         /\ \A m \in InPipe : m \in Nat /\ m \in 1..Len(size) /\ size[m] \in Nat /\ size[m] > 0
         /\ nmsg > 0 => Oldest \in InPipe /\ Newest \in InPipe
         /\ nmsg = Newest - Oldest + 1
  <1>1. nmsg \in Nat /\ Len(size) \in Nat /\ nmsg <= Len(size)
    BY RingIs DEF Numbered
  <1>2. Newest \in Nat /\ Oldest \in Nat /\ Oldest > 0 /\ nmsg = Newest - Oldest + 1 /\ Newest = Len(size)
    BY <1>1 DEF Newest, Oldest
  <1>3. \A m \in InPipe : m \in Nat /\ m \in 1..Len(size)
    BY <1>2 DEF InPipe
  <1>4. nmsg > 0 => Oldest \in InPipe /\ Newest \in InPipe
    BY <1>2 DEF InPipe
  <1>. QED BY <1>2, <1>3, <1>4, RingIs

\* Two messages do not overlap: a cell belongs to one of them.
LEMMA Disjoint ==
  ASSUME Safe, Numbered, NEW b, NEW x \in Nat, NEW y \in Nat, NEW m \in InPipe, NEW n \in InPipe,
         m # n, Whole(b, x, m), Whole(b, y, n)
  PROVE  x + size[m] <= y \/ y + size[n] <= x
  <1>1. size[m] \in Nat /\ size[m] > 0 /\ size[n] \in Nat /\ size[n] > 0
    BY InPipeIs
  <1>2. mem[b][x] = <<m, 0>> /\ mem[b][y] = <<n, 0>>
    <2>1. 0 \in 0..(size[m] - 1) /\ 0 \in 0..(size[n] - 1) /\ x + 0 = x /\ y + 0 = y
      BY <1>1
    <2>. QED BY <2>1 DEF Whole
  <1>3. ASSUME x <= y, y < x + size[m] PROVE FALSE
    <2>1. y - x \in 0..(size[m] - 1) /\ x + (y - x) = y
      BY <1>1, <1>3
    <2>2. mem[b][y] = <<m, y - x>>
      BY <2>1 DEF Whole
    <2>. QED BY <1>2, <2>2
  <1>4. ASSUME y <= x, x < y + size[n] PROVE FALSE
    <2>1. x - y \in 0..(size[n] - 1) /\ y + (x - y) = x
      BY <1>1, <1>4
    <2>2. mem[b][x] = <<n, x - y>>
      BY <2>1 DEF Whole
    <2>. QED BY <1>2, <2>2
  <1>. QED BY <1>1, <1>3, <1>4

\* The oldest message is where pipe_get looks for it.
LEMMA OldestIs ==
  ASSUME Safe, Numbered, NEW f \in [Nat -> Nat], NEW o \in [Nat -> Nat], Layout(f, o), nmsg > 0
  PROVE  /\ mem[rbuf][ReadOffset] = <<Oldest, 0>> /\ ReadMessage = Oldest
         /\ SizeIsThere /\ Intact
  <1>1. /\ Oldest \in InPipe /\ Oldest \in 1..Len(size) /\ size[Oldest] \in Nat /\ size[Oldest] > 0
        /\ f[Oldest] = rbuf /\ o[Oldest] = ReadOffset /\ o[Oldest] \in Nat
    BY InPipeIs DEF Layout
  <1>2. Whole(rbuf, ReadOffset, Oldest)
    BY <1>1 DEF Layout
  <1>3. 0 \in 0..(size[Oldest] - 1) /\ ReadOffset + 0 = ReadOffset
    <2>1. \A n \in Nat : n > 0 => 0 \in 0..(n - 1)
      OBVIOUS
    <2>2. ReadOffset \in Nat /\ \A n \in Nat : n + 0 = n
      BY <1>1
    <2>3. size[Oldest] \in Nat /\ size[Oldest] > 0
      BY <1>1
    <2>. QED BY <2>1, <2>2, <2>3, Zenon
  <1>4. mem[rbuf][ReadOffset] = <<Oldest, 0>>
    BY <1>2, <1>3 DEF Whole
  <1>5. ReadMessage = Oldest
    BY <1>4 DEF ReadMessage
  <1>6. Intact
    BY <1>2, <1>5 DEF Intact, Whole
  <1>7. SizeIsThere
    <2>1. \A m \in 1..Len(size) : <<m, 0>> \in {<<n, 0>> : n \in 1..Len(size)}
      OBVIOUS
    <2>. QED BY <1>1, <1>4, <2>1, Zenon DEF SizeIsThere
  <1>. QED BY <1>4, <1>5, <1>6, <1>7

LEMMA GetLayout ==
  ASSUME Safe, Numbered, NEW f \in [Nat -> Nat], NEW o \in [Nat -> Nat], Layout(f, o), Fronts, nmsg > 0, GetMessage
  PROVE  Layout(f, o)' /\ Fronts'
  <1>. DEFINE a == Oldest
              z == Newest
              r == rbuf
              B == begin[rbuf]
              E == end[rbuf]
              L == len[rbuf]
              x == o[Oldest]
              e == o[Oldest] + size[Oldest]
  <1>1. nmsg > 0 /\ nmsg' = nmsg - 1 /\ UNCHANGED <<nbuf, len, next_buf, mem, wbuf, size>>
    BY DEF GetMessage
  <1>2. /\ a \in InPipe /\ z \in InPipe /\ a \in Nat /\ a > 0 /\ z \in Nat /\ a <= z /\ nmsg = z - a + 1
        /\ \A m \in InPipe : m \in Nat /\ size[m] \in Nat /\ size[m] > 0 /\ o[m] \in Nat
    BY <1>1, InPipeIs DEF InPipe
  <1>3. /\ r \in Buffers /\ wbuf \in Buffers /\ B \in Nat /\ E \in Nat /\ L \in Nat /\ B <= L /\ E <= L
        /\ next_buf[r] \in Buffers /\ \A b \in Buffers : begin[b] \in Nat /\ end[b] \in Nat
    BY RingIs
  <1>4. /\ f[a] = r /\ x = ReadOffset /\ f[z] = wbuf /\ o[z] + size[z] = end[wbuf]
        /\ x \in Nat /\ e \in Nat /\ e > x /\ e <= L
    <2>1. f[a] = r /\ x = ReadOffset /\ f[z] = wbuf /\ o[z] + size[z] = end[wbuf]
      BY <1>1 DEF Layout
    <2>2. Whole(r, x, a)
      BY <1>2, <2>1 DEF Layout
    <2>3. e <= L
      BY <2>2 DEF Whole
    <2>. QED BY <1>2, <2>1, <2>3
  <1>5. /\ begin' = [begin EXCEPT ![r] = IF e = E \/ e = L THEN 0 ELSE e]
        /\ end' = [end EXCEPT ![r] = IF e = E THEN 0 ELSE E]
        /\ rbuf' = IF e = E /\ nmsg > 1 THEN next_buf[r] ELSE r
    <2>1. ReadOffset + size[ReadMessage] = e
      BY <1>1, <1>4, OldestIs
    <2>. QED BY <2>1 DEF GetMessage, ReadBufferAfter
  <1>6. begin \in [Buffers -> Nat] /\ end \in [Buffers -> Nat]
    BY DEF Safe, TypeOK
  <1>7. /\ begin'[r] = (IF e = E \/ e = L THEN 0 ELSE e) /\ end'[r] = (IF e = E THEN 0 ELSE E)
        /\ \A b \in Buffers : b # r => begin'[b] = begin[b] /\ end'[b] = end[b]
        /\ Buffers' = Buffers
    BY <1>1, <1>3, <1>5, <1>6 DEF Buffers
  <1>8. /\ Oldest' = a + 1 /\ Newest' = z
        /\ \A m : m \in InPipe' <=> m \in InPipe /\ m # a
    <2>1. nmsg \in Nat /\ Len(size) \in Nat /\ a = Len(size) - nmsg + 1 /\ z = Len(size)
      BY RingIs DEF Oldest, Newest
    <2>2. Newest' = z /\ Oldest' = Len(size) - (nmsg - 1) + 1
      BY <1>1 DEF Oldest, Newest
    <2>3. Oldest' = a + 1
      BY <2>1, <2>2
    <2>4. \A m : m \in (a + 1)..z <=> m \in a..z /\ m # a
      BY <1>2
    <2>. QED BY <2>2, <2>3, <2>4 DEF InPipe
  <1>9. /\ \A m \in InPipe : Whole(f[m], o[m], m) /\ Inside(f[m], o[m], m)
        /\ \A m, n \in InPipe : m < n /\ f[m] = f[n] => Older(f[m], o[m], o[n], n)
        /\ \A m \in a..(z - 1) : Followed(f[m], o[m], m, f[m + 1], o[m + 1])
    BY DEF Layout
  \* Message a is at begin, or at the front behind the sentinel.
  <1>10. x = B \/ (x = 0 /\ mem[r][B] = Sentinel)
    BY <1>4 DEF ReadOffset
  <1>11. /\ E > 0 /\ (E > B => x = B /\ e <= E) /\ (E <= B => x = B \/ e <= E)
    <2>1. Inside(r, x, a)
      BY <1>2, <1>4, <1>9
    <2>. QED BY <1>2, <1>3, <1>4, <1>10, <2>1 DEF Inside, Turned
  <1>. DEFINE High == E <= B /\ x = B
  <1>12. (High => e > E) /\ (~High => e <= E)
    BY <1>3, <1>4, <1>11
  \* Where the other messages of this buffer are.
  <1>13. ASSUME NEW m \in InPipe, m # a, f[m] = r
         PROVE  /\ High => e <= o[m] \/ o[m] + size[m] <= E
                /\ ~High => e <= o[m] /\ o[m] + size[m] <= E
                /\ o[m] + size[m] <= x \/ e <= o[m]
                /\ o[m] + size[m] <= L
    <2>1. Whole(r, x, a) /\ Whole(r, o[m], m) /\ Inside(r, o[m], m) /\ Older(r, x, o[m], m)
      BY <1>2, <1>4, <1>9, <1>13 DEF InPipe
    <2>2. o[m] + size[m] <= x \/ e <= o[m]
      BY <1>2, <1>4, <1>13, <2>1, Disjoint
    <2>3. o[m] + size[m] <= L
      BY <2>1 DEF Whole
    <2>4. IF E <= B THEN o[m] + size[m] <= E \/ B <= o[m] ELSE B <= o[m] /\ o[m] + size[m] <= E
      BY <2>1 DEF Inside, Turned
    <2>5. (E <= B /\ B <= x) \/ (x < o[m] /\ (E <= B => o[m] + size[m] <= E))
      BY <2>1 DEF Older, Turned
    <2>6. o[m] \in Nat /\ size[m] \in Nat /\ size[m] > 0
      BY <1>2
    <2>. QED BY <1>3, <1>4, <1>11, <2>2, <2>3, <2>4, <2>5, <2>6
  <1>14. ASSUME e = E, NEW m \in InPipe, m # a PROVE f[m] # r
    <2>. SUFFICES ASSUME f[m] = r PROVE FALSE
      OBVIOUS
    <2>1. e <= o[m] /\ o[m] + size[m] <= E
      BY <1>3, <1>4, <1>12, <1>13, <1>14
    <2>. QED BY <1>2, <1>3, <1>4, <1>14, <2>1
  <1>15. ASSUME NEW m \in InPipe, m # a PROVE Whole(f[m], o[m], m)'
    BY <1>1, <1>7, <1>9 DEF Whole
  <1>16. ASSUME NEW m \in InPipe, m # a PROVE Inside(f[m], o[m], m)'
    <2>0. f[m] \in Buffers
      BY <1>9 DEF Whole
    <2>1. CASE f[m] # r
      <3>1. begin'[f[m]] = begin[f[m]] /\ end'[f[m]] = end[f[m]] /\ size' = size
        BY <1>1, <1>7, <2>0, <2>1
      <3>. QED BY <1>9, <3>1 DEF Inside, Turned
    <2>2. CASE f[m] = r
      <3>1. e # E
        BY <1>14, <1>16, <2>2
      <3>2. end'[r] = E /\ begin'[r] = (IF e = L THEN 0 ELSE e) /\ size' = size
        BY <1>1, <1>7, <3>1
      <3>3. o[m] \in Nat /\ size[m] \in Nat /\ size[m] > 0
        BY <1>2
      <3>4. /\ High => e <= o[m] \/ o[m] + size[m] <= E
            /\ ~High => e <= o[m] /\ o[m] + size[m] <= E
            /\ o[m] + size[m] <= L
        BY <1>13, <1>16, <2>2
      <3>. HIDE DEF High
      <3>5. /\ E > 0
            /\ IF E <= begin'[r] THEN o[m] + size[m] <= E \/ begin'[r] <= o[m]
               ELSE begin'[r] <= o[m] /\ o[m] + size[m] <= E
        BY <1>3, <1>4, <1>11, <1>12, <3>1, <3>2, <3>3, <3>4
      <3>. QED BY <2>2, <3>2, <3>5 DEF Inside, Turned
    <2>. QED BY <2>1, <2>2
  <1>17. ASSUME NEW m \in InPipe, NEW n \in InPipe, m # a, n # a, m < n, f[m] = f[n]
         PROVE  Older(f[m], o[m], o[n], n)'
    <2>0. f[m] \in Buffers /\ Older(f[m], o[m], o[n], n)
      BY <1>9, <1>17 DEF Whole
    <2>1. CASE f[m] # r
      <3>1. begin'[f[m]] = begin[f[m]] /\ end'[f[m]] = end[f[m]] /\ size' = size
        BY <1>1, <1>7, <2>0, <2>1
      <3>. QED BY <2>0, <3>1 DEF Older, Turned
    <2>2. CASE f[m] = r
      <3>1. e # E
        BY <1>14, <1>17, <2>2
      <3>2. end'[r] = E /\ begin'[r] = (IF e = L THEN 0 ELSE e) /\ size' = size
        BY <1>1, <1>7, <3>1
      <3>3. /\ o[m] \in Nat /\ size[m] \in Nat /\ size[m] > 0
            /\ o[n] \in Nat /\ size[n] \in Nat /\ size[n] > 0
        BY <1>2
      <3>4. /\ High => e <= o[m] \/ o[m] + size[m] <= E
            /\ ~High => e <= o[m] /\ o[m] + size[m] <= E
            /\ o[m] + size[m] <= x \/ e <= o[m]
            /\ o[m] + size[m] <= L
        BY <1>13, <1>17, <2>2
      <3>5. (E <= B /\ B <= o[m]) \/ (o[m] < o[n] /\ (E <= B => o[n] + size[n] <= E))
        BY <2>0, <2>2 DEF Older, Turned
      <3>6. \/ E <= begin'[r] /\ begin'[r] <= o[m]
            \/ o[m] < o[n] /\ (E <= begin'[r] => o[n] + size[n] <= E)
        <4>1. CASE High
          BY <1>3, <1>4, <1>11, <1>12, <3>1, <3>2, <3>3, <3>4, <3>5, <4>1
        <4>2. CASE ~High
          BY <1>3, <1>4, <1>11, <1>12, <3>1, <3>2, <3>3, <3>4, <3>5, <4>2
        <4>. QED BY <4>1, <4>2
      <3>. QED BY <2>2, <3>2, <3>6 DEF Older, Turned
    <2>. QED BY <2>1, <2>2
  <1>18. ASSUME NEW m \in (a + 1)..(z - 1) PROVE Followed(f[m], o[m], m, f[m + 1], o[m + 1])'
    <2>1. m \in a..(z - 1) /\ m \in InPipe /\ m # a
      BY <1>2 DEF InPipe
    <2>2. f[m] \in Buffers /\ Followed(f[m], o[m], m, f[m + 1], o[m + 1])
      BY <1>9, <2>1 DEF Whole
    <2>3. end'[f[m]] = end[f[m]]
      BY <1>7, <1>14, <2>1, <2>2
    <2>. QED BY <1>1, <2>2, <2>3 DEF Followed
  <1>19. ASSUME nmsg' > 0
         PROVE  /\ f[a + 1] = rbuf' /\ o[a + 1] = ReadOffset'
                /\ f[z] = wbuf' /\ o[z] + size'[z] = end'[wbuf']
    <2>1. a \in a..(z - 1) /\ a + 1 \in InPipe /\ a + 1 # a /\ z # a /\ nmsg > 1
      BY <1>1, <1>2, <1>19 DEF InPipe
    <2>2. f[z] = wbuf' /\ o[z] + size'[z] = end'[wbuf']
      BY <1>1, <1>2, <1>3, <1>4, <1>7, <1>14, <2>1
    <2>3. Followed(r, x, a, f[a + 1], o[a + 1])
      BY <1>4, <1>9, <2>1
    <2>4. CASE e = E
      <3>1. f[a + 1] # r
        BY <1>14, <2>1, <2>4
      <3>2. f[a + 1] = next_buf[r] /\ o[a + 1] = 0 /\ rbuf' = next_buf[r]
        BY <1>5, <2>1, <2>3, <2>4, <3>1 DEF Followed
      <3>3. begin'[rbuf'] = 0
        BY <1>3, <1>7, <3>1, <3>2 DEF Fronts
      <3>. QED BY <2>2, <3>2, <3>3 DEF ReadOffset
    <2>5. CASE e # E
      <3>1. rbuf' = r /\ begin'[r] = (IF e = L THEN 0 ELSE e)
        BY <1>5, <1>7, <2>5
      <3>2. f[a + 1] = r /\ (o[a + 1] = e \/ (o[a + 1] = 0 /\ mem[r][e] = Sentinel))
        BY <2>3, <2>5 DEF Followed
      <3>3. Whole(r, o[a + 1], a + 1) /\ o[a + 1] \in Nat /\ size[a + 1] \in Nat /\ size[a + 1] > 0
        BY <1>2, <1>9, <2>1, <3>2
      <3>4. mem[r][o[a + 1]] = <<a + 1, 0>> /\ o[a + 1] + size[a + 1] <= L
        <4>1. 0 \in 0..(size[a + 1] - 1) /\ o[a + 1] + 0 = o[a + 1]
          BY <3>3
        <4>. QED BY <3>3, <4>1 DEF Whole
      <3>5. mem[r][o[a + 1]] # Sentinel
        BY <1>2, <3>4 DEF Sentinel
      <3>6. o[a + 1] = ReadOffset'
        <4>1. CASE o[a + 1] = e
          <5>1. e # L
            BY <1>3, <1>4, <3>3, <3>4, <4>1
          <5>. QED BY <1>1, <3>1, <3>5, <4>1, <5>1 DEF ReadOffset
        <4>2. CASE o[a + 1] = 0 /\ mem[r][e] = Sentinel
          BY <1>1, <3>1, <4>2 DEF ReadOffset
        <4>. QED BY <3>2, <4>1, <4>2
      <3>. QED BY <2>2, <3>1, <3>2, <3>6
    <2>. QED BY <2>4, <2>5
  <1>20. Fronts'
    <2>1. ASSUME NEW b \in Buffers, b # rbuf' PROVE begin'[b] = 0
      <3>1. CASE b = r
        BY <1>5, <1>7, <2>1, <3>1
      <3>2. CASE b # r
        BY <1>7, <3>2 DEF Fronts
      <3>. QED BY <3>1, <3>2
    <2>2. ASSUME nmsg' = 0 PROVE rbuf' = wbuf' /\ begin'[wbuf'] = 0 /\ end'[wbuf'] = 0
      <3>1. a = z /\ nmsg = 1
        BY <1>1, <1>2, <2>2
      <3>2. wbuf = r /\ e = E
        BY <1>4, <3>1
      <3>. QED BY <1>1, <1>5, <1>7, <3>1, <3>2
    <2>. QED BY <1>7, <2>1, <2>2 DEF Fronts
  <1>21. Layout(f, o)'
    <2>1. \A m \in InPipe' : Whole(f[m], o[m], m)' /\ Inside(f[m], o[m], m)'
      BY <1>8, <1>15, <1>16
    <2>2. \A m, n \in InPipe' : m < n /\ f[m] = f[n] => Older(f[m], o[m], o[n], n)'
      BY <1>8, <1>17
    <2>3. \A m \in Oldest'..(Newest' - 1) : Followed(f[m], o[m], m, f[m + 1], o[m + 1])'
      BY <1>8, <1>18
    <2>. QED BY <1>8, <1>19, <2>1, <2>2, <2>3 DEF Layout
  <1>. QED BY <1>20, <1>21

\* A put makes one more message the newest.
LEMMA OneMoreIs ==
  ASSUME Safe, Numbered, NEW s \in Sizes, Accept(s)
  PROVE  /\ Newest' = Newest + 1 /\ Oldest' = Oldest /\ nmsg \in Nat /\ nmsg' = nmsg + 1 /\ rbuf' = rbuf
         /\ Newest \in Nat /\ Oldest \in Nat /\ Newest = Len(size) /\ s \in Nat /\ s > 0
         /\ size'[Newest + 1] = s /\ \A m \in InPipe : size'[m] = size[m]
         /\ \A m : m \in InPipe' <=> m \in InPipe \/ m = Newest + 1
         /\ \A m \in InPipe : m \in Nat /\ m < Newest + 1
         /\ nmsg = 0 \/ (nmsg > 0 /\ Oldest \in InPipe /\ Newest \in InPipe)
         /\ overrun' = 0 => overrun = 0 /\ (begin[wbuf] = end[wbuf] => end[wbuf] = 0)
  <1>1. /\ Newest \in Nat /\ Oldest \in Nat /\ nmsg = Newest - Oldest + 1 /\ Newest = Len(size)
        /\ \A m \in InPipe : m \in 1..Len(size)
        /\ nmsg > 0 => Oldest \in InPipe /\ Newest \in InPipe
    BY InPipeIs
  <1>2. nmsg \in Nat /\ s \in Nat /\ s > 0
    BY RingIs
  <1>3. nmsg' = nmsg + 1 /\ size' = Append(size, s) /\ rbuf' = rbuf
    BY DEF Accept
  <1>4. size \in Seq(Sizes)
    BY DEF Safe, TypeOK
  <1>5. /\ Len(size') = Len(size) + 1 /\ size'[Len(size) + 1] = s
        /\ \A m \in 1..Len(size) : size'[m] = size[m]
    BY <1>3, <1>4
  <1>6. Newest' = Newest + 1 /\ Oldest' = (Newest + 1) - (nmsg + 1) + 1 /\ Oldest = Newest - nmsg + 1
    BY <1>3, <1>5 DEF Newest, Oldest
  <1>7. Oldest' = Oldest
    BY <1>1, <1>2, <1>6
  <1>8. \A m : m \in Oldest..(Newest + 1) <=> m \in Oldest..Newest \/ m = Newest + 1
    BY <1>1, <1>2
  <1>9. \A m : m \in InPipe' <=> m \in InPipe \/ m = Newest + 1
    BY <1>6, <1>7, <1>8 DEF InPipe
  <1>10. \A m \in InPipe : m \in Nat /\ m < Newest + 1
    BY <1>1
  <1>11. ASSUME overrun' = 0 PROVE overrun = 0 /\ (begin[wbuf] = end[wbuf] => end[wbuf] = 0)
    <2>1. overrun' = IF begin[wbuf] = end[wbuf] /\ end[wbuf] # 0 THEN 1 ELSE overrun
      BY DEF Accept
    <2>2. CASE begin[wbuf] = end[wbuf] /\ end[wbuf] # 0
      BY <1>11, <2>1, <2>2
    <2>3. CASE ~(begin[wbuf] = end[wbuf] /\ end[wbuf] # 0)
      BY <1>11, <2>1, <2>3
    <2>. QED BY <2>2, <2>3
  <1>12. nmsg = 0 \/ nmsg > 0
    BY <1>2
  <1>. QED BY <1>1, <1>2, <1>3, <1>5, <1>6, <1>7, <1>9, <1>10, <1>11, <1>12

\* A put leaves the messages where they are.
Kept(f, o) ==
    /\ \A m \in InPipe : Whole(f[m], o[m], m)' /\ Inside(f[m], o[m], m)'
    /\ \A m, k \in InPipe : m < k /\ f[m] = f[k] => Older(f[m], o[m], o[k], k)'
    /\ \A m \in Oldest..(Newest - 1) : Followed(f[m], o[m], m, f[m + 1], o[m + 1])'
    /\ nmsg > 0 => f[Oldest] = rbuf' /\ o[Oldest] = ReadOffset'

\* It puts message n, of size s, to offset p of buffer w, behind message z.
Added(f, o, s, w, p, z, n) ==
    /\ z = Newest /\ n = z + 1
    /\ Whole(w, p, n)' /\ Inside(w, p, n)'
    /\ \A m \in InPipe : f[m] = w => Older(w, o[m], p, n)'
    /\ nmsg > 0 => Followed(f[z], o[z], z, w, p)'
    /\ nmsg = 0 => w = rbuf' /\ p = ReadOffset'
    /\ w \in Nat /\ p \in Nat /\ w = wbuf' /\ p + s = end'[w]

\* The layout with one more message, n, put to offset p of buffer w.
LEMMA OneMore ==
  ASSUME Safe, Numbered, NEW s \in Sizes, Accept(s), NEW f \in [Nat -> Nat], NEW o \in [Nat -> Nat],
         NEW w, NEW p, NEW z, NEW n, Kept(f, o), Added(f, o, s, w, p, z, n)
  PROVE  \E g, h \in [Nat -> Nat] : Layout(g, h)'
  <1>0. z = Newest /\ n = z + 1 /\ w \in Nat /\ p \in Nat
    BY DEF Added
  <1>1. /\ z \in Nat /\ n \in Nat /\ z = Newest /\ n = z + 1 /\ Oldest \in Nat /\ nmsg \in Nat
        /\ Newest' = n /\ Oldest' = Oldest /\ size'[n] = s
        /\ \A m : m \in InPipe' <=> m \in InPipe \/ m = n
        /\ \A m \in InPipe : m \in Nat /\ m < n
        /\ nmsg = 0 \/ (nmsg > 0 /\ Oldest \in InPipe /\ z \in InPipe)
        /\ nmsg = z - Oldest + 1
    <2>0. Newest \in Nat
      BY ONLY Safe, Numbered, InPipeIs
    <2>1. z \in Nat /\ n \in Nat
      BY ONLY <1>0, <2>0
    <2>2. nmsg = z - Oldest + 1
      BY ONLY <1>0, Safe, Numbered, InPipeIs
    <2>. QED BY ONLY <1>0, <2>1, <2>2, Safe, Numbered, s \in Sizes, Accept(s), OneMoreIs
  <1>2. PICK g \in [Nat -> Nat], h \in [Nat -> Nat] :
          /\ g[n] = w /\ h[n] = p
          /\ \A m \in Nat : m # n => g[m] = f[m] /\ h[m] = o[m]
    <2>. DEFINE g == [f EXCEPT ![n] = w]
                h == [o EXCEPT ![n] = p]
    <2>1. /\ g \in [Nat -> Nat] /\ h \in [Nat -> Nat] /\ g[n] = w /\ h[n] = p
          /\ \A m \in Nat : m # n => g[m] = f[m] /\ h[m] = o[m]
      BY ONLY <1>1, f \in [Nat -> Nat], o \in [Nat -> Nat], <1>0
    <2>. HIDE DEF g, h
    <2>. QED BY ONLY <2>1
  <1>3. \A m \in InPipe : g[m] = f[m] /\ h[m] = o[m] /\ m # n /\ ~(n < m)
    BY ONLY <1>1, <1>2
  <1>4. ASSUME NEW m \in InPipe' PROVE Whole(g[m], h[m], m)' /\ Inside(g[m], h[m], m)'
    <2>1. CASE m = n
      <3>1. g[m] = w /\ h[m] = p
        BY ONLY <1>2, <2>1
      <3>2. Whole(w, p, n)' /\ Inside(w, p, n)'
        BY DEF Added
      <3>. QED BY ONLY <2>1, <3>1, <3>2 DEF Whole, Inside, Turned
    <2>2. CASE m \in InPipe
      <3>1. g[m] = f[m] /\ h[m] = o[m] /\ Whole(f[m], o[m], m)' /\ Inside(f[m], o[m], m)'
        BY <1>3, <2>2 DEF Kept
      <3>. QED BY ONLY <3>1 DEF Whole, Inside, Turned
    <2>. QED BY <1>1, <2>1, <2>2
  <1>5. ASSUME NEW m \in InPipe', NEW k \in InPipe', m < k, g[m] = g[k]
        PROVE  Older(g[m], h[m], h[k], k)'
    <2>1. CASE m \in InPipe /\ k = n
      <3>1. g[m] = w /\ h[m] = o[m] /\ h[k] = p /\ f[m] = w
        BY ONLY <1>2, <1>3, <1>5, <2>1
      <3>2. Older(w, o[m], p, n)'
        BY <2>1, <3>1 DEF Added
      <3>. QED BY ONLY <2>1, <3>1, <3>2 DEF Older, Turned
    <2>2. CASE m \in InPipe /\ k \in InPipe
      <3>1. g[m] = f[m] /\ h[m] = o[m] /\ g[k] = f[k] /\ h[k] = o[k]
        BY ONLY <1>3, <2>2
      <3>2. Older(f[m], o[m], o[k], k)'
        BY <1>5, <2>2, <3>1 DEF Kept
      <3>. QED BY ONLY <3>1, <3>2 DEF Older, Turned
    <2>3. CASE m = n
      <3>1. k = n \/ ~(n < k)
        BY ONLY <1>1, <1>3, <1>5
      <3>2. ~(n < n)
        BY ONLY <1>1
      <3>. QED BY ONLY <1>5, <2>3, <3>1, <3>2
    <2>. QED BY ONLY <1>1, <1>5, <2>1, <2>2, <2>3
  <1>6. ASSUME NEW m \in Oldest'..(Newest' - 1)
        PROVE  Followed(g[m], h[m], m, g[m + 1], h[m + 1])'
    <2>1. CASE m = z
      <3>1. z \in InPipe /\ nmsg > 0 /\ z + 1 = n
        BY ONLY <1>1, <1>6, <2>1
      <3>2. g[z] = f[z] /\ h[z] = o[z] /\ g[z + 1] = w /\ h[z + 1] = p
        BY ONLY <1>2, <1>3, <3>1
      <3>3. Followed(f[z], o[z], z, w, p)'
        BY <3>1 DEF Added
      <3>. QED BY ONLY <2>1, <3>2, <3>3 DEF Followed
    <2>2. CASE m # z
      <3>1. m \in Oldest..(Newest - 1) /\ m \in InPipe /\ m + 1 \in InPipe
        BY ONLY <1>1, <1>6, <2>2 DEF InPipe
      <3>2. g[m] = f[m] /\ h[m] = o[m] /\ g[m + 1] = f[m + 1] /\ h[m + 1] = o[m + 1]
        BY ONLY <1>3, <3>1
      <3>3. Followed(f[m], o[m], m, f[m + 1], o[m + 1])'
        BY <3>1 DEF Kept
      <3>. QED BY ONLY <3>2, <3>3 DEF Followed
    <2>. QED BY <2>1, <2>2
  <1>7. /\ g[Oldest'] = rbuf' /\ h[Oldest'] = ReadOffset'
        /\ g[Newest'] = wbuf' /\ h[Newest'] + size'[Newest'] = end'[wbuf']
    <2>1. g[n] = wbuf' /\ h[n] + size'[n] = end'[wbuf']
      BY <1>1, <1>2 DEF Added
    <2>2. CASE nmsg = 0
      <3>1. Oldest = n
        BY ONLY <1>1, <2>2
      <3>2. w = rbuf' /\ p = ReadOffset'
        BY <2>2 DEF Added
      <3>. QED BY ONLY <1>1, <1>2, <2>1, <3>1, <3>2
    <2>3. CASE nmsg > 0
      <3>1. Oldest \in InPipe /\ f[Oldest] = rbuf' /\ o[Oldest] = ReadOffset'
        BY <1>1, <2>3 DEF Kept
      <3>. QED BY ONLY <1>1, <1>3, <2>1, <3>1
    <2>. QED BY ONLY <1>1, <2>2, <2>3
  <1>8. Layout(g, h)'
    BY ONLY <1>4, <1>5, <1>6, <1>7 DEF Layout
  <1>. QED BY <1>8

\* c are the cells of a buffer of size L after a message of size s is copied to offset x.
IsCopy(c, cells, L, x, s) ==
    /\ \A k \in 0..(s - 1) : c[x + k] = <<Len(size) + 1, k>>
    /\ \A i \in 0..L : i < x \/ x + s <= i => c[i] = cells[i]

LEMMA CopiedIs ==
  ASSUME NEW L \in Nat, NEW cells, DOMAIN cells = 0..L, NEW x \in Nat, NEW s \in Nat, x + s <= L
  PROVE  IsCopy(Copied(cells, x, s), cells, L, x, s)
  <1>1. ASSUME NEW k \in 0..(s - 1) PROVE Copied(cells, x, s)[x + k] = <<Len(size) + 1, k>>
    <2>1. x + k \in 0..L /\ x + k \in x..(x + s - 1) /\ (x + k) - x = k
      OBVIOUS
    <2>. QED BY <2>1 DEF Copied
  <1>2. ASSUME NEW i \in 0..L, i < x \/ x + s <= i PROVE Copied(cells, x, s)[i] = cells[i]
    <2>1. i \notin x..(x + s - 1)
      BY <1>2
    <2>. QED BY <2>1 DEF Copied
  <1>. QED BY <1>1, <1>2 DEF IsCopy

\* What a put knows of the messages in the pipe.
LEMMA PutKnows ==
  ASSUME Safe, Numbered, NEW f \in [Nat -> Nat], NEW o \in [Nat -> Nat], Layout(f, o), NEW m \in InPipe
  PROVE  /\ m \in Nat /\ size[m] \in Nat /\ size[m] > 0 /\ o[m] \in Nat
         /\ f[m] \in Buffers /\ o[m] + size[m] <= len[f[m]] /\ end[f[m]] > 0
         /\ Whole(f[m], o[m], m) /\ Inside(f[m], o[m], m)
  <1>1. m \in Nat /\ size[m] \in Nat /\ size[m] > 0
    BY InPipeIs
  <1>2. Whole(f[m], o[m], m) /\ Inside(f[m], o[m], m)
    BY DEF Layout
  <1>3. f[m] \in Buffers /\ o[m] + size[m] <= len[f[m]] /\ end[f[m]] > 0
    BY <1>2 DEF Whole, Inside
  <1>. QED BY <1>1, <1>2, <1>3

LEMMA PutInPlaceLayout ==
  ASSUME Safe, Numbered, NEW f \in [Nat -> Nat], NEW o \in [Nat -> Nat], Layout(f, o), Fronts,
         NEW s \in Sizes, Accept(s), PutInPlace(s), overrun' = 0
  PROVE  Fronts' /\ \E g, h \in [Nat -> Nat] : Layout(g, h)'
  <1>. DEFINE w == wbuf
              x == end[wbuf]
              B == begin[wbuf]
              L == len[wbuf]
  <1>1. /\ Newest \in Nat /\ nmsg \in Nat /\ nmsg' = nmsg + 1 /\ rbuf' = rbuf /\ s \in Nat /\ s > 0
        /\ size'[Newest + 1] = s /\ Newest = Len(size) /\ \A m \in InPipe : size'[m] = size[m]
        /\ nmsg = 0 \/ (nmsg > 0 /\ Oldest \in InPipe /\ Newest \in InPipe)
        /\ B = x => x = 0
    BY OneMoreIs
  <1>2. /\ w \in Buffers /\ w \in Nat /\ rbuf \in Buffers /\ x \in Nat /\ B \in Nat /\ L \in Nat
        /\ B <= L /\ x <= L /\ DOMAIN mem[w] = 0..L
        /\ \A b \in Buffers : begin[b] \in Nat /\ end[b] \in Nat
    <2>1. w \in Nat
      BY RingIs DEF Safe, TypeOK, Buffers
    <2>. QED BY <2>1, RingIs
  <1>3. /\ s <= Room /\ mem' = [mem EXCEPT ![w] = Copied(mem[w], x, s)]
        /\ end' = [end EXCEPT ![w] = x + s]
        /\ UNCHANGED <<nbuf, begin, len, next_buf, wbuf>>
    BY DEF PutInPlace
  <1>0. s \in Nat /\ s > 0 /\ x \in Nat /\ B \in Nat /\ L \in Nat /\ B <= L /\ x <= L
    BY <1>1, <1>2
  \* Between the message and the end of its room.
  <1>4. /\ x + s <= L /\ (x < B => x + s <= B)
        /\ x > 0 => x < B \/ B < x
    <2>1. s <= (IF x < B THEN B ELSE L) - x
      BY <1>3 DEF Room, Wrapped
    <2>2. B = x => x = 0
      BY <1>1
    <2>. QED BY ONLY <1>0, <2>1, <2>2
  <1>5. end \in [Buffers -> Nat] /\ DOMAIN mem = Buffers
    BY DEF Safe, TypeOK
  <1>6. /\ Buffers' = Buffers /\ end'[w] = x + s /\ mem'[w] = Copied(mem[w], x, s)
        /\ \A b \in Buffers : b # w => end'[b] = end[b] /\ mem'[b] = mem[b]
    BY <1>2, <1>3, <1>5 DEF Buffers
  <1>7. /\ \A k \in 0..(s - 1) : mem'[w][x + k] = <<Newest + 1, k>>
        /\ \A i \in 0..L : i < x \/ x + s <= i => mem'[w][i] = mem[w][i]
    <2>1. DOMAIN mem[w] = 0..L /\ Newest + 1 = Len(size) + 1
      BY <1>1, <1>2
    <2>2. IsCopy(Copied(mem[w], x, s), mem[w], L, x, s)
      BY ONLY <1>0, <1>4, <2>1, CopiedIs
    <2>. QED BY ONLY <1>6, <2>1, <2>2 DEF IsCopy
  <1>8. ASSUME NEW m \in InPipe
        PROVE  /\ m \in Nat /\ size[m] \in Nat /\ size[m] > 0 /\ o[m] \in Nat /\ size'[m] = size[m]
               /\ f[m] \in Buffers /\ o[m] + size[m] <= len[f[m]]
               /\ Whole(f[m], o[m], m) /\ Inside(f[m], o[m], m)
    BY <1>1, PutKnows
  <1>9. ASSUME NEW m \in InPipe, f[m] = w
        PROVE  /\ x > 0 /\ o[m] + size[m] <= L
               /\ IF x < B THEN o[m] + size[m] <= x \/ B <= o[m] ELSE B < x /\ B <= o[m] /\ o[m] + size[m] <= x
    <2>1. x > 0 /\ IF x <= B THEN o[m] + size[m] <= x \/ B <= o[m] ELSE B <= o[m] /\ o[m] + size[m] <= x
      BY <1>8, <1>9 DEF Inside, Turned
    <2>2. o[m] + size[m] <= L
      BY <1>8, <1>9
    <2>. QED BY ONLY <1>0, <1>4, <2>1, <2>2
  <1>10. ASSUME NEW m \in InPipe PROVE Whole(f[m], o[m], m)' /\ Inside(f[m], o[m], m)'
    <2>1. CASE f[m] # w
      <3>1. mem'[f[m]] = mem[f[m]] /\ end'[f[m]] = end[f[m]]
        BY <1>6, <1>8, <2>1
      <3>2. /\ Whole(f[m], o[m], m) /\ Inside(f[m], o[m], m) /\ size'[m] = size[m]
            /\ begin' = begin /\ len' = len /\ Buffers' = Buffers
        BY <1>3, <1>6, <1>8
      <3>3. Whole(f[m], o[m], m)'
        BY ONLY <3>1, <3>2 DEF Whole
      <3>4. Inside(f[m], o[m], m)'
        BY ONLY <3>1, <3>2 DEF Inside, Turned
      <3>. QED BY <3>3, <3>4
    <2>2. CASE f[m] = w
      <3>0. /\ o[m] \in Nat /\ size[m] \in Nat /\ size[m] > 0 /\ x > 0 /\ o[m] + size[m] <= L
            /\ IF x < B THEN o[m] + size[m] <= x \/ B <= o[m] ELSE B < x /\ B <= o[m] /\ o[m] + size[m] <= x
        BY <1>8, <1>9, <2>2
      <3>1. ASSUME NEW k \in 0..(size[m] - 1) PROVE mem'[w][o[m] + k] = <<m, k>>
        <4>1. mem[w][o[m] + k] = <<m, k>>
          BY <1>8, <2>2 DEF Whole
        <4>2. o[m] + k \in 0..L /\ (o[m] + k < x \/ x + s <= o[m] + k)
          BY ONLY <1>0, <1>4, <3>0, k \in 0..(size[m] - 1)
        <4>. QED BY <1>7, <4>1, <4>2
      <3>2. Whole(f[m], o[m], m)'
        BY <1>2, <1>3, <1>6, <1>8, <1>9, <2>2, <3>1 DEF Whole
      <3>3. /\ x + s > 0
            /\ IF x + s <= B THEN o[m] + size[m] <= x + s \/ B <= o[m]
               ELSE B <= o[m] /\ o[m] + size[m] <= x + s
        BY ONLY <1>0, <1>4, <3>0
      <3>4. Inside(f[m], o[m], m)'
        BY <1>3, <1>6, <1>8, <2>2, <3>3 DEF Inside, Turned
      <3>. QED BY <3>2, <3>4
    <2>. QED BY <2>1, <2>2
  <1>11. ASSUME NEW m \in InPipe, NEW k \in InPipe, m < k, f[m] = f[k]
         PROVE  Older(f[m], o[m], o[k], k)'
    <2>0. Older(f[m], o[m], o[k], k)
      BY <1>11 DEF Layout
    <2>1. CASE f[m] # w
      <3>1. end'[f[m]] = end[f[m]] /\ size'[k] = size[k]
        BY <1>6, <1>8, <2>1
      <3>. QED BY <1>3, <2>0, <3>1 DEF Older, Turned
    <2>2. CASE f[m] = w
      <3>1. (x <= B /\ B <= o[m]) \/ (o[m] < o[k] /\ (x <= B => o[k] + size[k] <= x))
        BY <2>0, <2>2 DEF Older, Turned
      <3>2. (x + s <= B /\ B <= o[m]) \/ (o[m] < o[k] /\ (x + s <= B => o[k] + size[k] <= x + s))
        <4>1. o[k] \in Nat /\ size[k] \in Nat /\ o[m] \in Nat /\ size[m] \in Nat
          BY <1>8
        <4>2. x > 0
          BY <1>9, <1>11, <2>2
        <4>. QED BY ONLY <1>0, <1>4, <3>1, <4>1, <4>2
      <3>. QED BY <1>3, <1>6, <1>8, <2>2, <3>2 DEF Older, Turned
    <2>. QED BY <2>1, <2>2
  <1>12. ASSUME NEW m \in Oldest..(Newest - 1)
         PROVE  Followed(f[m], o[m], m, f[m + 1], o[m + 1])'
    <2>1. m \in InPipe /\ m + 1 \in InPipe /\ m < m + 1
      <3>1. Newest \in Nat /\ Oldest \in Nat
        BY InPipeIs
      <3>. QED BY ONLY <3>1, m \in Oldest..(Newest - 1) DEF InPipe
    <2>2. Followed(f[m], o[m], m, f[m + 1], o[m + 1])
      BY DEF Layout
    <2>3. size'[m] = size[m] /\ f[m] \in Buffers
      BY <1>8, <2>1
    <2>4. CASE f[m] # w
      <3>1. mem'[f[m]] = mem[f[m]] /\ end'[f[m]] = end[f[m]]
        BY <1>6, <2>3, <2>4
      <3>. QED BY <1>3, <2>2, <2>3, <3>1 DEF Followed
    <2>5. CASE f[m] = w
      <3>1. CASE f[m + 1] = f[m] /\ o[m + 1] = o[m] + size[m]
        BY <2>3, <3>1 DEF Followed
      <3>2. CASE f[m + 1] = f[m] /\ o[m + 1] = 0 /\ mem[f[m]][o[m] + size[m]] = Sentinel
        <4>1. Older(w, o[m], 0, m + 1)
          BY <2>1, <2>5, <3>2 DEF Layout
        <4>2. x <= B /\ B <= o[m]
          BY <1>8, <2>1, <4>1 DEF Older, Turned
        <4>3. o[m] + size[m] \in 0..L /\ x + s <= o[m] + size[m]
          <5>1. o[m] \in Nat /\ size[m] \in Nat /\ size[m] > 0 /\ x > 0 /\ o[m] + size[m] <= L
            BY <1>8, <1>9, <2>1, <2>5
          <5>. QED BY ONLY <1>0, <1>4, <4>2, <5>1
        <4>4. mem'[w][o[m] + size[m]] = Sentinel
          BY <1>7, <2>5, <3>2, <4>3
        <4>. QED BY <2>3, <2>5, <3>2, <4>4 DEF Followed
      <3>. QED BY <2>2, <2>5, <3>1, <3>2 DEF Followed
    <2>. QED BY <2>4, <2>5
  <1>13. ASSUME nmsg > 0
         PROVE  /\ f[Oldest] = rbuf' /\ o[Oldest] = ReadOffset'
                /\ f[Newest] = w /\ o[Newest] + size[Newest] = x
    <2>0. Oldest \in InPipe
      BY <1>13, InPipeIs
    <2>1. /\ f[Oldest] = rbuf /\ o[Oldest] = ReadOffset /\ Oldest \in InPipe
          /\ f[Newest] = w /\ o[Newest] + size[Newest] = x
      BY ONLY <1>13, <2>0, Layout(f, o) DEF Layout
    <2>2. mem'[rbuf][begin[rbuf]] = mem[rbuf][begin[rbuf]]
      <3>1. CASE rbuf # w
        BY <1>2, <1>6, <3>1
      <3>2. CASE rbuf = w
        <4>1. x > 0
          BY <1>9, <2>1, <3>2
        <4>2. B \in 0..L /\ (B < x \/ x + s <= B)
          BY <1>1, <1>2, <1>4, <4>1
        <4>. QED BY <1>7, <3>2, <4>2
      <3>. QED BY <3>1, <3>2
    <2>. QED BY <1>1, <1>3, <2>1, <2>2 DEF ReadOffset
  <1>14. ASSUME nmsg = 0 PROVE w = rbuf' /\ x = ReadOffset'
    <2>1. rbuf = w /\ B = 0 /\ x = 0
      BY <1>14 DEF Fronts
    <2>. QED BY <1>1, <1>3, <2>1 DEF ReadOffset
  <1>15. Fronts'
    BY <1>1, <1>3, <1>6 DEF Fronts
  <1>16. PICK z, n, W, p : z = Newest /\ n = z + 1 /\ W = w /\ p = x
    OBVIOUS
  <1>17. Whole(W, p, n)' /\ Inside(W, p, n)'
    <2>1. Whole(W, p, n)'
      BY <1>1, <1>2, <1>3, <1>4, <1>6, <1>7, <1>16 DEF Whole
    <2>2. /\ x + s > 0
          /\ IF x + s <= B THEN x + s <= x + s \/ B <= x ELSE B <= x /\ x + s <= x + s
      BY ONLY <1>0, <1>4
    <2>3. Inside(W, p, n)'
      BY <1>1, <1>3, <1>6, <1>16, <2>2 DEF Inside, Turned
    <2>. QED BY <2>1, <2>3
  <1>18. ASSUME NEW m \in InPipe, f[m] = W PROVE Older(W, o[m], p, n)'
    <2>1. (x + s <= B /\ B <= o[m]) \/ (o[m] < x /\ (x + s <= B => x + s <= x + s))
      <3>1. o[m] \in Nat /\ size[m] \in Nat /\ size[m] > 0
        BY <1>8
      <3>2. IF x < B THEN o[m] + size[m] <= x \/ B <= o[m] ELSE B < x /\ B <= o[m] /\ o[m] + size[m] <= x
        BY <1>9, <1>16, <1>18
      <3>. QED BY ONLY <1>0, <1>4, <3>1, <3>2
    <2>. QED BY <1>1, <1>3, <1>6, <1>16, <2>1 DEF Older, Turned
  <1>19. ASSUME nmsg > 0 PROVE Followed(f[z], o[z], z, W, p)'
    <2>1. size'[z] = size[z]
      <3>1. Newest \in InPipe
        BY <1>19, InPipeIs
      <3>. QED BY <1>8, <1>16, <3>1
    <2>. QED BY <1>13, <1>16, <1>19, <2>1 DEF Followed
  <1>20. W \in Nat /\ p \in Nat /\ W = wbuf' /\ p + s = end'[W]
    BY <1>2, <1>3, <1>6, <1>16
  <1>21. nmsg = 0 => W = rbuf' /\ p = ReadOffset'
    BY <1>14, <1>16
  <1>22. Added(f, o, s, W, p, z, n)
    BY ONLY <1>16, <1>17, <1>18, <1>19, <1>20, <1>21 DEF Added
  <1>23. Kept(f, o)
    BY ONLY <1>10, <1>11, <1>12, <1>13 DEF Kept
  <1>24. \E g, h \in [Nat -> Nat] : Layout(g, h)'
    BY <1>22, <1>23, OneMore
  <1>. QED BY <1>15, <1>24

LEMMA PutWrappedLayout ==
  ASSUME Safe, Numbered, NEW f \in [Nat -> Nat], NEW o \in [Nat -> Nat], Layout(f, o), Fronts,
         NEW s \in Sizes, Accept(s), PutWrapped(s), overrun' = 0
  PROVE  Fronts' /\ \E g, h \in [Nat -> Nat] : Layout(g, h)'
  <1>. DEFINE w == wbuf
              x == end[wbuf]
              B == begin[wbuf]
              L == len[wbuf]
              c == [mem[wbuf] EXCEPT ![end[wbuf]] = Sentinel]
  <1>1. /\ Newest \in Nat /\ nmsg \in Nat /\ nmsg' = nmsg + 1 /\ rbuf' = rbuf
        /\ size'[Newest + 1] = s /\ Newest = Len(size)
    BY OneMoreIs
  <1>2. w \in Buffers /\ rbuf \in Buffers /\ w \in Nat
    BY RingIs DEF Safe, TypeOK, Buffers
  <1>0. s \in Nat /\ s > 0 /\ x \in Nat /\ B \in Nat /\ L \in Nat /\ B <= L /\ x <= L
    BY RingIs
  <1>3. /\ ~Wrapped /\ B > s /\ mem' = [mem EXCEPT ![w] = Copied(c, 0, s)]
        /\ end' = [end EXCEPT ![w] = s]
        /\ UNCHANGED <<nbuf, begin, len, next_buf, wbuf>>
    BY DEF PutWrapped, CanWrap
  <1>4. s < B /\ B < x /\ x <= L
    <2>1. ~(x < B) /\ B > s
      BY <1>3 DEF Wrapped
    <2>2. B = x => x = 0
      BY OneMoreIs
    <2>. QED BY ONLY <1>0, <2>1, <2>2
  <1>5. end \in [Buffers -> Nat] /\ DOMAIN mem = Buffers /\ DOMAIN mem[w] = 0..L
    BY <1>2 DEF Safe, TypeOK
  <1>6. /\ Buffers' = Buffers /\ end'[w] = s /\ mem'[w] = Copied(c, 0, s)
        /\ \A b \in Buffers : b # w => end'[b] = end[b] /\ mem'[b] = mem[b]
    BY <1>2, <1>3, <1>5 DEF Buffers
  <1>7. /\ \A k \in 0..(s - 1) : mem'[w][0 + k] = <<Newest + 1, k>>
        /\ \A i \in 0..L : s <= i /\ i # x => mem'[w][i] = mem[w][i]
        /\ mem'[w][x] = Sentinel
    <2>1. /\ DOMAIN c = 0..L /\ x \in 0..L /\ c[x] = Sentinel
          /\ \A i \in 0..L : i # x => c[i] = mem[w][i]
      <3>1. x \in 0..L
        BY ONLY <1>0
      <3>. QED BY ONLY <1>5, <3>1
    <2>. HIDE DEF c
    <2>2. 0 \in Nat /\ 0 + s = s /\ s <= L /\ s <= x
      BY ONLY <1>0, <1>4
    <2>3. IsCopy(Copied(c, 0, s), c, L, 0, s)
      BY ONLY <1>0, <2>1, <2>2, CopiedIs
    <2>4. mem'[w] = Copied(c, 0, s) /\ Newest = Len(size)
      BY <1>1, <1>6
    <2>5. \A k \in 0..(s - 1) : mem'[w][0 + k] = <<Newest + 1, k>>
      BY ONLY <2>3, <2>4 DEF IsCopy
    <2>6. \A i \in 0..L : s <= i => mem'[w][i] = c[i]
      BY ONLY <2>2, <2>3, <2>4 DEF IsCopy
    <2>. QED BY ONLY <2>1, <2>2, <2>5, <2>6
  <1>. HIDE DEF c
  <1>8. ASSUME NEW m \in InPipe
        PROVE  /\ o[m] \in Nat /\ size[m] \in Nat /\ size[m] > 0 /\ size'[m] = size[m]
               /\ f[m] \in Buffers /\ o[m] + size[m] <= len[f[m]]
               /\ Whole(f[m], o[m], m) /\ Inside(f[m], o[m], m)
    BY PutKnows, OneMoreIs
  <1>9. ASSUME NEW m \in InPipe, f[m] = w PROVE B <= o[m] /\ o[m] + size[m] <= x
    <2>1. IF x <= B THEN o[m] + size[m] <= x \/ B <= o[m] ELSE B <= o[m] /\ o[m] + size[m] <= x
      BY <1>8, <1>9 DEF Inside, Turned
    <2>. QED BY ONLY <1>0, <1>4, <2>1
  <1>10. ASSUME NEW m \in InPipe PROVE Whole(f[m], o[m], m)' /\ Inside(f[m], o[m], m)'
    <2>1. CASE f[m] # w
      <3>1. mem'[f[m]] = mem[f[m]] /\ end'[f[m]] = end[f[m]]
        BY <1>6, <1>8, <2>1
      <3>2. /\ Whole(f[m], o[m], m) /\ Inside(f[m], o[m], m) /\ size'[m] = size[m]
            /\ begin' = begin /\ len' = len /\ Buffers' = Buffers
        BY <1>3, <1>6, <1>8
      <3>3. Whole(f[m], o[m], m)'
        BY ONLY <3>1, <3>2 DEF Whole
      <3>4. Inside(f[m], o[m], m)'
        BY ONLY <3>1, <3>2 DEF Inside, Turned
      <3>. QED BY <3>3, <3>4
    <2>2. CASE f[m] = w
      <3>0. o[m] \in Nat /\ size[m] \in Nat /\ size[m] > 0 /\ B <= o[m] /\ o[m] + size[m] <= x
        BY <1>8, <1>9, <2>2
      <3>1. ASSUME NEW k \in 0..(size[m] - 1) PROVE mem'[w][o[m] + k] = <<m, k>>
        <4>1. mem[w][o[m] + k] = <<m, k>>
          BY <1>8, <2>2 DEF Whole
        <4>2. o[m] + k \in 0..L /\ s <= o[m] + k /\ o[m] + k # x
          BY ONLY <1>0, <1>4, <3>0, k \in 0..(size[m] - 1)
        <4>. QED BY <1>7, <4>1, <4>2
      <3>2. Whole(f[m], o[m], m)'
        BY <1>2, <1>3, <1>6, <1>8, <2>2, <3>1 DEF Whole
      <3>3. Inside(f[m], o[m], m)'
        <4>1. s > 0 /\ s <= B
          BY ONLY <1>0, <1>4
        <4>. QED BY <1>3, <1>6, <2>2, <3>0, <4>1 DEF Inside, Turned
      <3>. QED BY <3>2, <3>3
    <2>. QED BY <2>1, <2>2
  <1>11. ASSUME NEW m \in InPipe, NEW k \in InPipe, m < k, f[m] = f[k]
         PROVE  Older(f[m], o[m], o[k], k)'
    <2>0. Older(f[m], o[m], o[k], k)
      BY <1>11 DEF Layout
    <2>1. CASE f[m] # w
      <3>1. end'[f[m]] = end[f[m]] /\ size'[k] = size[k] /\ begin' = begin
        BY <1>3, <1>6, <1>8, <2>1
      <3>. QED BY ONLY <2>0, <3>1 DEF Older, Turned
    <2>2. CASE f[m] = w
      <3>1. s <= B /\ B <= o[m]
        BY <1>0, <1>4, <1>9, <1>11, <2>2
      <3>. QED BY <1>3, <1>6, <2>2, <3>1 DEF Older, Turned
    <2>. QED BY <2>1, <2>2
  <1>12. ASSUME NEW m \in Oldest..(Newest - 1)
         PROVE  Followed(f[m], o[m], m, f[m + 1], o[m + 1])'
    <2>1. m \in InPipe /\ m + 1 \in InPipe /\ m < m + 1
      <3>1. Newest \in Nat /\ Oldest \in Nat
        BY InPipeIs
      <3>. QED BY ONLY <3>1, m \in Oldest..(Newest - 1) DEF InPipe
    <2>2. Followed(f[m], o[m], m, f[m + 1], o[m + 1])
      BY DEF Layout
    <2>3. size'[m] = size[m] /\ f[m] \in Buffers
      BY <1>8, <2>1
    <2>4. CASE f[m] # w
      <3>1. mem'[f[m]] = mem[f[m]] /\ end'[f[m]] = end[f[m]]
        BY <1>6, <2>3, <2>4
      <3>. QED BY <1>3, <2>2, <2>3, <3>1 DEF Followed
    <2>5. CASE f[m] = w
      <3>1. CASE f[m + 1] = f[m] /\ o[m + 1] = o[m] + size[m]
        BY <2>3, <3>1 DEF Followed
      <3>2. CASE f[m + 1] = f[m] /\ o[m + 1] = 0
        <4>1. B <= 0
          BY <1>9, <2>1, <2>5, <3>2
        <4>. QED BY ONLY <1>0, <1>4, <4>1
      <3>. QED BY <2>2, <2>5, <3>1, <3>2 DEF Followed
    <2>. QED BY <2>4, <2>5
  <1>13. nmsg > 0 /\ rbuf = w
    <2>1. B # 0
      BY ONLY <1>0, <1>4
    <2>2. nmsg # 0 /\ rbuf = w
      BY <1>2, <2>1 DEF Fronts
    <2>3. nmsg \in Nat
      BY <1>1
    <2>. QED BY ONLY <2>2, <2>3
  <1>14. /\ f[Oldest] = rbuf' /\ o[Oldest] = ReadOffset'
         /\ f[Newest] = w /\ o[Newest] + size[Newest] = x /\ Newest \in InPipe
    <2>1. /\ f[Oldest] = rbuf /\ o[Oldest] = ReadOffset
          /\ f[Newest] = w /\ o[Newest] + size[Newest] = x
      BY ONLY <1>13, Layout(f, o) DEF Layout
    <2>2. B \in 0..L /\ s <= B /\ B # x
      BY ONLY <1>0, <1>4
    <2>3. mem'[w][B] = mem[w][B]
      BY <1>7, <2>2
    <2>4. Newest \in InPipe
      BY <1>13, InPipeIs
    <2>. QED BY <1>1, <1>3, <1>13, <2>1, <2>3, <2>4 DEF ReadOffset
  <1>15. Fronts'
    BY <1>1, <1>3, <1>6 DEF Fronts
  <1>16. PICK z, n, W, p : z = Newest /\ n = z + 1 /\ W = w /\ p = 0
    OBVIOUS
  <1>17. Whole(W, p, n)' /\ Inside(W, p, n)'
    <2>1. 0 + s <= L /\ s > 0 /\ s <= B /\ 0 + s <= s
      BY ONLY <1>0, <1>4
    <2>2. Whole(W, p, n)'
      BY <1>1, <1>2, <1>3, <1>6, <1>7, <1>16, <2>1 DEF Whole
    <2>3. Inside(W, p, n)'
      BY <1>1, <1>3, <1>6, <1>16, <2>1 DEF Inside, Turned
    <2>. QED BY <2>2, <2>3
  <1>18. ASSUME NEW m \in InPipe, f[m] = W PROVE Older(W, o[m], p, n)'
    <2>1. s <= B /\ B <= o[m]
      BY <1>0, <1>4, <1>9, <1>16, <1>18
    <2>. QED BY <1>3, <1>6, <1>16, <2>1 DEF Older, Turned
  <1>19. Followed(f[z], o[z], z, W, p)'
    <2>1. size'[z] = size[z]
      BY <1>8, <1>14, <1>16
    <2>. QED BY <1>7, <1>14, <1>16, <2>1 DEF Followed
  <1>20. W \in Nat /\ p \in Nat /\ W = wbuf' /\ p + s = end'[W]
    BY <1>0, <1>2, <1>3, <1>6, <1>16
  <1>21. ~(nmsg = 0)
    BY <1>1, <1>13
  <1>22. Added(f, o, s, W, p, z, n)
    BY ONLY <1>16, <1>17, <1>18, <1>19, <1>20, <1>21 DEF Added
  <1>23. Kept(f, o)
    BY ONLY <1>10, <1>11, <1>12, <1>14 DEF Kept
  <1>24. \E g, h \in [Nat -> Nat] : Layout(g, h)'
    BY <1>22, <1>23, OneMore
  <1>. QED BY <1>15, <1>24

\* The message goes to the front of another buffer, d, which holds none.
LEMMA PutElsewhere ==
  ASSUME Safe, Numbered, NEW f \in [Nat -> Nat], NEW o \in [Nat -> Nat], Layout(f, o), Fronts,
         NEW s \in Sizes, Accept(s), NEW d \in Nat, d = wbuf', d # wbuf,
         \A b : b \in Buffers' <=> b \in Buffers \/ b = d,
         \A m \in InPipe : f[m] # d,
         \A b \in Buffers : b # d =>
           /\ begin'[b] = begin[b] /\ end'[b] = end[b] /\ len'[b] = len[b] /\ mem'[b] = mem[b]
           /\ b # wbuf => next_buf'[b] = next_buf[b],
         next_buf'[wbuf] = d, begin'[d] = 0, end'[d] = s, s <= len'[d],
         \A k \in 0..(s - 1) : mem'[d][0 + k] = <<Newest + 1, k>>,
         nmsg > 0
  PROVE  Fronts' /\ \E g, h \in [Nat -> Nat] : Layout(g, h)'
  <1>1. /\ Newest \in Nat /\ nmsg \in Nat /\ nmsg' = nmsg + 1 /\ rbuf' = rbuf /\ s \in Nat /\ s > 0
        /\ size'[Newest + 1] = s /\ Oldest \in InPipe /\ Newest \in InPipe
    <2>1. Oldest \in InPipe /\ Newest \in InPipe
      BY ONLY Safe, Numbered, nmsg > 0, InPipeIs
    <2>. QED BY ONLY <2>1, Safe, Numbered, s \in Sizes, Accept(s), OneMoreIs
  <1>2. /\ f[Oldest] = rbuf /\ o[Oldest] = ReadOffset
        /\ f[Newest] = wbuf /\ o[Newest] + size[Newest] = end[wbuf]
    BY DEF Layout
  <1>3. wbuf \in Buffers /\ rbuf \in Buffers /\ rbuf # d
    BY <1>1, <1>2, RingIs
  <1>4. ASSUME NEW m \in InPipe
        PROVE  /\ f[m] \in Buffers /\ f[m] # d /\ f[m] \in Buffers' /\ size'[m] = size[m]
               /\ begin'[f[m]] = begin[f[m]] /\ end'[f[m]] = end[f[m]]
               /\ len'[f[m]] = len[f[m]] /\ mem'[f[m]] = mem[f[m]]
               /\ f[m] # wbuf => next_buf'[f[m]] = next_buf[f[m]]
    <2>1. f[m] \in Buffers /\ size'[m] = size[m]
      BY PutKnows, OneMoreIs
    <2>. QED BY <2>1
  <1>5. ASSUME NEW m \in InPipe PROVE Whole(f[m], o[m], m)' /\ Inside(f[m], o[m], m)'
    <2>1. Whole(f[m], o[m], m) /\ Inside(f[m], o[m], m)
      BY DEF Layout
    <2>2. Whole(f[m], o[m], m)'
      BY ONLY <1>4, <2>1, m \in InPipe DEF Whole
    <2>3. Inside(f[m], o[m], m)'
      BY ONLY <1>4, <2>1, m \in InPipe DEF Inside, Turned
    <2>. QED BY <2>2, <2>3
  <1>6. ASSUME NEW m \in InPipe, NEW k \in InPipe, m < k, f[m] = f[k]
        PROVE  Older(f[m], o[m], o[k], k)'
    <2>1. Older(f[m], o[m], o[k], k)
      BY <1>6 DEF Layout
    <2>. QED BY ONLY <1>4, <2>1, m \in InPipe, k \in InPipe DEF Older, Turned
  <1>7. ASSUME NEW m \in Oldest..(Newest - 1)
        PROVE  Followed(f[m], o[m], m, f[m + 1], o[m + 1])'
    <2>1. m \in InPipe
      <3>1. Newest \in Nat /\ Oldest \in Nat
        BY InPipeIs
      <3>. QED BY ONLY <3>1, m \in Oldest..(Newest - 1) DEF InPipe
    <2>2. Followed(f[m], o[m], m, f[m + 1], o[m + 1])
      BY DEF Layout
    <2>3. f[m] # wbuf'
      BY <1>4, <2>1
    <2>. QED BY ONLY <1>4, <2>1, <2>2, <2>3 DEF Followed
  <1>8. f[Oldest] = rbuf' /\ o[Oldest] = ReadOffset'
    <2>1. begin'[rbuf] = begin[rbuf] /\ mem'[rbuf] = mem[rbuf]
      BY <1>3
    <2>. QED BY ONLY <1>1, <1>2, <2>1 DEF ReadOffset
  <1>9. Fronts'
    <2>1. ASSUME NEW b \in Buffers', b # rbuf' PROVE begin'[b] = 0
      BY <1>1, <2>1 DEF Fronts
    <2>2. nmsg' # 0
      BY ONLY <1>1
    <2>. QED BY ONLY <2>1, <2>2 DEF Fronts
  <1>10. PICK z, n, p : z = Newest /\ n = z + 1 /\ p = 0
    OBVIOUS
  <1>11. Whole(d, p, n)' /\ Inside(d, p, n)'
    <2>1. s <= s /\ 0 + s = s /\ ~(s <= 0) /\ 0 <= 0 /\ p \in Nat
      BY ONLY <1>1, <1>10
    <2>2. Whole(d, p, n)'
      <3>1. d \in Buffers' /\ size'[n] = s /\ 0 + s <= len'[d]
        BY <1>1, <1>10, <2>1
      <3>2. \A k \in 0..(s - 1) : mem'[d][p + k] = <<n, k>>
        BY <1>10
      <3>. QED BY ONLY <1>10, <3>1, <3>2 DEF Whole
    <2>3. Inside(d, p, n)'
      <3>1. size'[n] = s /\ begin'[d] = 0 /\ end'[d] = s
        BY <1>1, <1>10
      <3>. QED BY ONLY <1>1, <1>10, <2>1, <3>1 DEF Inside, Turned
    <2>. QED BY <2>2, <2>3
  <1>12. Followed(f[z], o[z], z, d, p)'
    <2>1. f[z] = wbuf /\ z \in InPipe /\ o[z] + size[z] = end[wbuf] /\ d = wbuf' /\ d # wbuf /\ next_buf'[wbuf] = d
      BY <1>1, <1>2, <1>10
    <2>2. end'[wbuf] = end[wbuf] /\ size'[z] = size[z]
      BY <1>3, <1>4, <2>1
    <2>. QED BY ONLY <1>10, <2>1, <2>2 DEF Followed
  <1>13. d \in Nat /\ p \in Nat /\ d = wbuf' /\ p + s = end'[d] /\ ~(nmsg = 0)
    BY <1>1, <1>10
  <1>14. \A m \in InPipe : f[m] # d
    OBVIOUS
  <1>15. Added(f, o, s, d, p, z, n)
    BY ONLY <1>10, <1>11, <1>12, <1>13, <1>14 DEF Added
  <1>16. Kept(f, o)
    BY ONLY <1>5, <1>6, <1>7, <1>8 DEF Kept
  <1>17. \E g, h \in [Nat -> Nat] : Layout(g, h)'
    BY ONLY Safe, Numbered, s \in Sizes, Accept(s), f \in [Nat -> Nat], o \in [Nat -> Nat],
            <1>15, <1>16, OneMore
  <1>. QED BY <1>9, <1>17

LEMMA PutInNextLayout ==
  ASSUME Safe, Numbered, NEW f \in [Nat -> Nat], NEW o \in [Nat -> Nat], Layout(f, o), Fronts,
         NEW s \in Sizes, Accept(s), PutInNext(s)
  PROVE  Fronts' /\ \E g, h \in [Nat -> Nat] : Layout(g, h)'
  <1>1. PICK d : d = next_buf[wbuf]
    OBVIOUS
  <1>2. /\ s > Room /\ d # wbuf /\ begin[d] = 0 /\ end[d] = 0 /\ wbuf' = d
        /\ mem' = [mem EXCEPT ![d] = Copied(mem[d], 0, s)] /\ end' = [end EXCEPT ![d] = s]
        /\ UNCHANGED <<nbuf, begin, len, next_buf>>
    BY <1>1 DEF PutInNext, NextIsFree
  <1>3. /\ d \in Buffers /\ wbuf \in Buffers /\ len[d] \in Nat /\ s \in Nat /\ s > 0 /\ s <= len[d]
        /\ s <= len[wbuf] /\ len[wbuf] \in Nat /\ nmsg \in Nat
    BY <1>1, RingIs
  <1>4. d \in Nat /\ end \in [Buffers -> Nat] /\ DOMAIN mem = Buffers /\ DOMAIN mem[d] = 0..len[d]
    <2>1. nbuf \in Nat /\ end \in [Buffers -> Nat] /\ DOMAIN mem = Buffers /\ DOMAIN mem[d] = 0..len[d]
      BY <1>3 DEF Safe, TypeOK
    <2>2. d \in Nat
      BY ONLY <1>3, <2>1 DEF Buffers
    <2>. QED BY ONLY <2>1, <2>2
  <1>5. /\ Buffers' = Buffers /\ end'[d] = s /\ mem'[d] = Copied(mem[d], 0, s)
        /\ \A b \in Buffers : b # d => end'[b] = end[b] /\ mem'[b] = mem[b]
    BY <1>2, <1>3, <1>4 DEF Buffers
  <1>6. \A k \in 0..(s - 1) : mem'[d][0 + k] = <<Newest + 1, k>>
    <2>1. 0 + s <= len[d] /\ 0 \in Nat
      BY ONLY <1>3
    <2>2. IsCopy(Copied(mem[d], 0, s), mem[d], len[d], 0, s)
      BY ONLY <1>3, <1>4, <2>1, CopiedIs
    <2>. QED BY ONLY <1>5, <2>2 DEF IsCopy, Newest
  <1>7. nmsg > 0
    <2>1. ASSUME nmsg = 0 PROVE FALSE
      <3>1. begin[wbuf] = 0 /\ end[wbuf] = 0
        BY <2>1 DEF Fronts
      <3>2. Room = len[wbuf] - 0
        BY ONLY <3>1 DEF Room, Wrapped
      <3>. QED BY ONLY <1>2, <1>3, <3>2
    <2>2. nmsg \in Nat
      BY <1>3
    <2>. QED BY ONLY <2>1, <2>2
  <1>8. \A m \in InPipe : f[m] # d
    BY <1>2, PutKnows
  <1>9. /\ d = wbuf' /\ d # wbuf /\ next_buf'[wbuf] = d /\ begin'[d] = 0 /\ end'[d] = s /\ s <= len'[d]
        /\ \A b : b \in Buffers' <=> b \in Buffers \/ b = d
        /\ \A b \in Buffers : b # d =>
             /\ begin'[b] = begin[b] /\ end'[b] = end[b] /\ len'[b] = len[b] /\ mem'[b] = mem[b]
             /\ b # wbuf => next_buf'[b] = next_buf[b]
    BY ONLY <1>1, <1>2, <1>3, <1>5
  <1>. QED BY <1>4, <1>6, <1>7, <1>8, <1>9, PutElsewhere

LEMMA PutInNewLayout ==
  ASSUME Safe, Numbered, NEW f \in [Nat -> Nat], NEW o \in [Nat -> Nat], Layout(f, o), Fronts,
         NEW s \in Sizes, Accept(s), PutInNew(s)
  PROVE  Fronts' /\ \E g, h \in [Nat -> Nat] : Layout(g, h)'
  <1>1. PICK d : d = nbuf + 1
    OBVIOUS
  <1>. DEFINE L == buf_size - Extra
              c == [i \in 0..(buf_size - Extra) |-> Blank]
  <1>2. /\ s > Room /\ nbuf' = d /\ wbuf' = d /\ begin' = Extended(begin, 0) /\ end' = Extended(end, s)
        /\ len' = Extended(len, L) /\ next_buf' = Extended([next_buf EXCEPT ![wbuf] = d], next_buf[wbuf])
        /\ mem' = Extended(mem, Copied(c, 0, s))
    <2>1. buf_size \in {0} \cup MinSize..MaxSize /\ CanGrow /\ s <= buf_size - Extra
      BY DEF Safe, TypeOK, PutInNew, NeedsNew
    <2>2. Uint(L) = L
      BY <2>1, NewSize
    <2>. QED BY <1>1, <2>2 DEF PutInNew, NeedsNew
  <1>3. /\ wbuf \in Buffers /\ s \in Nat /\ s > 0 /\ s <= len[wbuf] /\ len[wbuf] \in Nat /\ nmsg \in Nat
    BY RingIs
  <1>4. L \in Nat /\ s <= L
    <2>1. buf_size \in Int /\ s <= buf_size - Extra
      BY SizesAssumption DEF Safe, TypeOK, PutInNew
    <2>2. Extra \in Nat
      BY SizesAssumption
    <2>. QED BY ONLY <1>3, <2>1, <2>2
  <1>5. nbuf \in Nat /\ next_buf \in [Buffers -> Buffers]
    BY DEF Safe, TypeOK
  <1>6. /\ d \in Nat /\ d \notin Buffers /\ 1..(nbuf + 1) = Buffers'
        /\ \A b : b \in Buffers' <=> b \in Buffers \/ b = d
    <2>1. d \in Nat /\ d \notin 1..nbuf /\ \A b : b \in 1..d <=> b \in 1..nbuf \/ b = d
      BY ONLY <1>1, <1>5
    <2>. QED BY ONLY <1>1, <1>2, <2>1 DEF Buffers
  <1>7. /\ begin'[d] = 0 /\ end'[d] = s /\ len'[d] = L /\ mem'[d] = Copied(c, 0, s)
        /\ \A b \in Buffers : /\ begin'[b] = begin[b] /\ end'[b] = end[b] /\ len'[b] = len[b]
                              /\ mem'[b] = mem[b] /\ next_buf'[b] = [next_buf EXCEPT ![wbuf] = d][b]
    <2>. HIDE DEF L, c
    <2>. QED BY <1>1, <1>2, <1>6 DEF Extended
  <1>8. next_buf'[wbuf] = d /\ \A b \in Buffers : b # wbuf => next_buf'[b] = next_buf[b]
    BY <1>3, <1>5, <1>7
  <1>9. \A k \in 0..(s - 1) : mem'[d][0 + k] = <<Newest + 1, k>>
    <2>1. 0 + s <= L /\ 0 \in Nat
      BY ONLY <1>3, <1>4
    <2>2. DOMAIN c = 0..L
      OBVIOUS
    <2>. HIDE DEF L, c
    <2>3. IsCopy(Copied(c, 0, s), c, L, 0, s)
      BY ONLY <1>3, <1>4, <2>1, <2>2, CopiedIs
    <2>. QED BY ONLY <1>7, <2>3 DEF IsCopy, Newest
  <1>. HIDE DEF L, c
  <1>10. nmsg > 0
    <2>1. ASSUME nmsg = 0 PROVE FALSE
      <3>1. begin[wbuf] = 0 /\ end[wbuf] = 0
        BY <2>1 DEF Fronts
      <3>2. Room = len[wbuf] - 0
        BY ONLY <3>1 DEF Room, Wrapped
      <3>. QED BY ONLY <1>2, <1>3, <3>2
    <2>2. nmsg \in Nat
      BY <1>3
    <2>. QED BY ONLY <2>1, <2>2
  <1>11. \A m \in InPipe : f[m] # d
    BY <1>6, PutKnows
  <1>12. /\ d = wbuf' /\ d # wbuf /\ s <= len'[d]
         /\ \A b \in Buffers : b # d =>
              /\ begin'[b] = begin[b] /\ end'[b] = end[b] /\ len'[b] = len[b] /\ mem'[b] = mem[b]
              /\ b # wbuf => next_buf'[b] = next_buf[b]
    BY ONLY <1>2, <1>3, <1>4, <1>6, <1>7, <1>8
  <1>. QED BY <1>6, <1>7, <1>8, <1>9, <1>10, <1>11, <1>12, PutElsewhere

-----------------------------------------------------------------------------

\* What a step may be.
LEMMA Steps ==
  ASSUME [Next]_vars
  PROVE  \/ pipe_get /\ GetMessage
         \/ \E s \in Sizes :
              Accept(s) /\ (PutInPlace(s) \/ PutWrapped(s) \/ PutInNext(s) \/ PutInNew(s))
         \/ pipe_close \/ Stray \/ UNCHANGED vars
  BY DEF Next, pipe_get, pipe_put, GetStray, PutStray

LEMMA NumberedStep ==
  ASSUME Safe, Numbered, [Next]_vars
  PROVE  Numbered'
  <1>1. /\ nmsg \in Nat /\ Len(size) \in Nat /\ nmsg <= Len(size) /\ nmsg = Len(queue)
        /\ queue \in Seq(1..Len(size)) /\ size \in Seq(Sizes)
    BY RingIs DEF Safe, TypeOK, Numbered
  <1>2. CASE pipe_get /\ GetMessage
    <2>1. nmsg > 0 /\ nmsg' = nmsg - 1 /\ queue' = Tail(queue) /\ size' = size
      BY <1>2 DEF pipe_get, GetMessage
    <2>2. \A i \in 1..(nmsg - 1) : Tail(queue)[i] = queue[i + 1] /\ i + 1 \in 1..nmsg
      BY ONLY <1>1, <2>1
    <2>3. ASSUME NEW i \in 1..nmsg' PROVE queue'[i] = Len(size') - nmsg' + i
      <3>0. i \in 1..(nmsg - 1) /\ i \in Int
        BY ONLY <1>1, <2>1, <2>3
      <3>1. queue'[i] = queue[i + 1] /\ i + 1 \in 1..nmsg /\ i \in Int
        BY ONLY <2>1, <2>2, <3>0
      <3>2. queue[i + 1] = Len(size) - nmsg + (i + 1)
        BY <3>1 DEF Numbered
      <3>3. Len(size) - nmsg + (i + 1) = Len(size) - (nmsg - 1) + i
        BY ONLY <1>1, <3>1
      <3>. QED BY ONLY <2>1, <3>1, <3>2, <3>3
    <2>4. nmsg' <= Len(size')
      BY ONLY <1>1, <2>1
    <2>. QED BY ONLY <2>3, <2>4 DEF Numbered
  <1>3. ASSUME NEW s \in Sizes, Accept(s) PROVE Numbered'
    <2>1. nmsg' = nmsg + 1 /\ size' = Append(size, s) /\ queue' = Append(queue, Len(size) + 1)
      BY <1>3 DEF Accept
    <2>2. /\ Len(size') = Len(size) + 1 /\ queue'[nmsg + 1] = Len(size) + 1
          /\ \A i \in 1..nmsg : queue'[i] = queue[i]
      BY ONLY <1>1, <2>1, s \in Sizes
    <2>3. ASSUME NEW i \in 1..nmsg' PROVE queue'[i] = Len(size') - nmsg' + i
      <3>1. CASE i = nmsg + 1
        BY ONLY <1>1, <2>1, <2>2, <3>1
      <3>2. CASE i # nmsg + 1
        <4>1. i \in 1..nmsg /\ i \in Int
          BY ONLY <1>1, <2>1, <2>3, <3>2
        <4>2. queue[i] = Len(size) - nmsg + i
          BY <4>1 DEF Numbered
        <4>3. (Len(size) + 1) - (nmsg + 1) + i = Len(size) - nmsg + i
          BY ONLY <1>1, <4>1
        <4>. QED BY ONLY <2>1, <2>2, <4>1, <4>2, <4>3
      <3>. QED BY ONLY <3>1, <3>2
    <2>4. nmsg' <= Len(size')
      BY ONLY <1>1, <2>1, <2>2
    <2>. QED BY ONLY <2>3, <2>4 DEF Numbered
  <1>4. CASE pipe_close \/ Stray \/ UNCHANGED vars
    <2>1. nmsg' = nmsg /\ size' = size /\ queue' = queue
      BY <1>4 DEF pipe_close, Stray, vars
    <2>. QED BY <2>1 DEF Numbered
  <1>. QED BY <1>2, <1>3, <1>4, Steps

LEMMA TrackedStep ==
  ASSUME Safe, Numbered, Tracked, [Next]_vars
  PROVE  Tracked'
  <1>. SUFFICES ASSUME overrun' = 0
                PROVE  Fronts' /\ \E g, h \in [Nat -> Nat] : Layout(g, h)'
    BY DEF Tracked
  <1>1. ASSUME overrun = 0
        PROVE  Fronts /\ \E f, o \in [Nat -> Nat] : Layout(f, o)
    BY <1>1 DEF Tracked
  <1>2. CASE pipe_get /\ GetMessage
    <2>1. overrun = 0 /\ nmsg > 0
      BY <1>2 DEF pipe_get, GetMessage
    <2>2. PICK f \in [Nat -> Nat], o \in [Nat -> Nat] : Layout(f, o)
      BY <1>1, <2>1
    <2>3. Layout(f, o)' /\ Fronts'
      BY <1>1, <1>2, <2>1, <2>2, GetLayout
    <2>. QED BY <2>3
  <1>3. ASSUME NEW s \in Sizes, Accept(s), PutInPlace(s) \/ PutWrapped(s) \/ PutInNext(s) \/ PutInNew(s)
        PROVE  Fronts' /\ \E g, h \in [Nat -> Nat] : Layout(g, h)'
    <2>1. Accept(s) /\ (PutInPlace(s) \/ PutWrapped(s) \/ PutInNext(s) \/ PutInNew(s))
      BY <1>3
    <2>2. overrun = 0
      BY <2>1, OneMoreIs
    <2>3. PICK f \in [Nat -> Nat], o \in [Nat -> Nat] : Layout(f, o)
      BY <1>1, <2>2
    <2>. QED BY <1>1, <2>1, <2>2, <2>3, PutInPlaceLayout, PutWrappedLayout, PutInNextLayout, PutInNewLayout
  <1>4. CASE pipe_close \/ Stray \/ UNCHANGED vars
    <2>1. /\ UNCHANGED <<nbuf, begin, end, len, next_buf, mem, rbuf, wbuf, nmsg, size, overrun>>
      BY <1>4 DEF pipe_close, Stray, vars
    <2>2. overrun = 0
      BY <2>1
    <2>3. PICK f \in [Nat -> Nat], o \in [Nat -> Nat] : Layout(f, o)
      BY <1>1, <2>2
    <2>4. Fronts'
      BY <1>1, <2>1, <2>2 DEF Fronts, Buffers
    <2>5. /\ Newest' = Newest /\ Oldest' = Oldest /\ InPipe' = InPipe /\ Buffers' = Buffers
          /\ ReadOffset' = ReadOffset
      BY ONLY <2>1 DEF Newest, Oldest, InPipe, Buffers, ReadOffset
    <2>6. \A m \in InPipe : Whole(f[m], o[m], m)' /\ Inside(f[m], o[m], m)'
      <3>1. \A m \in InPipe : Whole(f[m], o[m], m) /\ Inside(f[m], o[m], m)
        BY <2>3 DEF Layout
      <3>2. \A m \in InPipe : Whole(f[m], o[m], m)'
        BY ONLY <2>1, <2>5, <3>1 DEF Whole
      <3>3. \A m \in InPipe : Inside(f[m], o[m], m)'
        BY ONLY <2>1, <3>1 DEF Inside, Turned
      <3>. QED BY ONLY <3>2, <3>3
    <2>7. \A m, n \in InPipe : m < n /\ f[m] = f[n] => Older(f[m], o[m], o[n], n)'
      <3>1. \A m, n \in InPipe : m < n /\ f[m] = f[n] => Older(f[m], o[m], o[n], n)
        BY <2>3 DEF Layout
      <3>. QED BY ONLY <2>1, <3>1 DEF Older, Turned
    <2>8. \A m \in Oldest..(Newest - 1) : Followed(f[m], o[m], m, f[m + 1], o[m + 1])'
      <3>1. \A m \in Oldest..(Newest - 1) : Followed(f[m], o[m], m, f[m + 1], o[m + 1])
        BY <2>3 DEF Layout
      <3>. QED BY ONLY <2>1, <3>1 DEF Followed
    <2>9. nmsg > 0 => /\ f[Oldest] = rbuf /\ o[Oldest] = ReadOffset
                      /\ f[Newest] = wbuf /\ o[Newest] + size[Newest] = end[wbuf]
      BY <2>3 DEF Layout
    <2>10. Layout(f, o)'
      BY ONLY <2>1, <2>5, <2>6, <2>7, <2>8, <2>9 DEF Layout
    <2>. QED BY <2>4, <2>10
  <1>. QED BY <1>2, <1>3, <1>4, Steps

LEMMA TrackedInit ==
  ASSUME Init
  PROVE  Numbered /\ Tracked
  <1>1. /\ nbuf = 1 /\ nmsg = 0 /\ size = <<>> /\ rbuf = 1 /\ wbuf = 1
        /\ begin[1] = 0 /\ end[1] = 0
    BY DEF Init
  <1>2. Len(size) = 0
    BY ONLY <1>1
  <1>3. Numbered
    BY ONLY <1>1, <1>2 DEF Numbered
  <1>4. Fronts
    BY ONLY <1>1 DEF Fronts, Buffers
  <1>5. PICK f \in [Nat -> Nat] : TRUE
    <2>1. [i \in Nat |-> 0] \in [Nat -> Nat]
      OBVIOUS
    <2>. QED BY ONLY <2>1
  <1>6. InPipe = {} /\ Oldest..(Newest - 1) = {} /\ ~(nmsg > 0)
    <2>1. 1..0 = {} /\ 1..(0 - 1) = {} /\ ~(0 > 0)
      OBVIOUS
    <2>2. Newest = 0 /\ Oldest = 1
      BY ONLY <1>1, <1>2 DEF Newest, Oldest
    <2>. QED BY ONLY <1>1, <2>1, <2>2 DEF InPipe
  <1>7. Layout(f, f)
    BY ONLY <1>6 DEF Layout
  <1>. QED BY <1>3, <1>4, <1>5, <1>7 DEF Tracked

LEMMA SpecTracked == Spec => [](Safe /\ Numbered /\ Tracked)
  <1>1. Init => Numbered /\ Tracked
    BY TrackedInit
  <1>2. Safe /\ Numbered /\ Tracked /\ [Next]_vars => Numbered' /\ Tracked'
    BY NumberedStep, TrackedStep
  <1>. QED BY <1>1, <1>2, SpecSafe, PTL DEF Spec

\* As long as no message was overwritten, the reader finds a message where it looks for
\* one (rbuf and its begin, thread_pipe.c:418) whenever nmsg says that there are any, and
\* an empty pipe has its whole buffer free, so that a message always fits.
THEOREM RingCorrect == Spec => []RingReady
  <1>1. ASSUME Safe, Numbered, Tracked PROVE RingReady
    <2>1. ASSUME overrun = 0, nmsg > 0 PROVE SizeIsThere
      <3>1. PICK f \in [Nat -> Nat], o \in [Nat -> Nat] : Layout(f, o)
        BY <1>1, <2>1 DEF Tracked
      <3>. QED BY <1>1, <2>1, <3>1, OldestIs
    <2>2. ASSUME overrun = 0, ~(nmsg > 0)
          PROVE  rbuf = wbuf /\ begin[wbuf] = 0 /\ end[wbuf] = 0
      <3>1. nmsg \in Nat
        BY <1>1, RingIs
      <3>2. nmsg = 0
        BY ONLY <2>2, <3>1
      <3>. QED BY <1>1, <2>2, <3>2 DEF Tracked, Fronts
    <2>. QED BY <2>1, <2>2 DEF RingReady
  <1>2. Safe /\ Numbered /\ Tracked => RingReady
    BY <1>1
  <1>. QED BY <1>2, SpecTracked, PTL

\* Messages are got in the order in which they were put and each of them whole, whatever
\* their sizes, across wrapped buffers, buffers taken again and buffers linked into the
\* ring, as long as no put has found the buffer full with begin = end (thread_pipe.c:331
\* takes such a buffer for an empty one).
THEOREM FifoCorrect == Spec => FifoUnlessOverrun
  <1>1. ASSUME Safe, Numbered, Tracked, [Next]_vars, nmsg' < nmsg, overrun = 0
        PROVE  out' = Head(queue)
    <2>0. nmsg \in Nat
      BY <1>1, RingIs
    <2>1. pipe_get /\ GetMessage
      <3>1. ASSUME NEW s \in Sizes, Accept(s) PROVE FALSE
        <4>1. nmsg' = nmsg + 1
          BY <3>1 DEF Accept
        <4>. QED BY ONLY <1>1, <2>0, <4>1
      <3>2. CASE pipe_close \/ Stray \/ UNCHANGED vars
        <4>1. nmsg' = nmsg
          BY <3>2 DEF pipe_close, Stray, vars
        <4>. QED BY ONLY <1>1, <2>0, <4>1
      <3>. QED BY <1>1, <3>1, <3>2, Steps
    <2>2. nmsg > 0 /\ out' = IF Intact THEN ReadMessage ELSE Garbage
      BY <2>1 DEF pipe_get, GetMessage
    <2>3. PICK f \in [Nat -> Nat], o \in [Nat -> Nat] : Layout(f, o)
      BY <1>1 DEF Tracked
    <2>4. out' = Oldest
      BY <1>1, <2>2, <2>3, OldestIs
    <2>5. 1 \in 1..nmsg /\ queue # <<>> /\ queue \in Seq(1..Len(size))
      <3>1. nmsg = Len(queue) /\ queue \in Seq(1..Len(size))
        BY <1>1 DEF Safe, TypeOK
      <3>. QED BY ONLY <2>0, <2>2, <3>1
    <2>6. queue[1] = Len(size) - nmsg + 1
      BY <1>1, <2>5 DEF Numbered
    <2>7. Head(queue) = queue[1]
      BY ONLY <2>5
    <2>. QED BY ONLY <2>4, <2>6, <2>7 DEF Oldest, Newest
  <1>2. Safe /\ Numbered /\ Tracked /\ [Next]_vars
          => [nmsg' < nmsg /\ overrun = 0 => out' = Head(queue)]_vars
    BY <1>1
  <1>. QED BY <1>2, SpecTracked, PTL DEF Spec, FifoUnlessOverrun


-----------------------------------------------------------------------------
\* A copy out of bounds: by a put into a buffer whose size has wrapped around to 0, or by a
\* get after a message was overwritten.
Strayed == wild = 1 => overrun = 1 \/ buf_size = 0

LEMMA StrayedStep ==
  ASSUME Safe, Numbered, Tracked, Strayed, [Next]_vars
  PROVE  Strayed'
  <1>1. CASE wild' = wild /\ overrun' \in {overrun, 1} /\ buf_size' = buf_size
    BY <1>1 DEF Strayed
  <1>2. CASE InUse /\ UNCHANGED wild
    BY <1>2 DEF Strayed, InUse
  <1>3. CASE pipe_get /\ GetStray
    <2>1. nmsg > 0 /\ ~SizeIsThere /\ UNCHANGED <<overrun, buf_size>> /\ overrun \in 0..1
      BY <1>3 DEF pipe_get, GetStray, Stray, Safe, TypeOK
    <2>2. ASSUME overrun = 0 PROVE FALSE
      <3>1. PICK f \in [Nat -> Nat], o \in [Nat -> Nat] : Layout(f, o)
        BY <2>2 DEF Tracked
      <3>. QED BY <2>1, <3>1, OldestIs
    <2>3. overrun = 1
      BY ONLY <2>1, <2>2
    <2>. QED BY <2>1, <2>3 DEF Strayed
  <1>4. ASSUME NEW s \in Sizes, PutStray(s) PROVE Strayed'
    <2>1. /\ s > buf_size - Extra /\ UNCHANGED buf_size /\ buf_size \in {0} \cup MinSize..MaxSize
      BY <1>4 DEF PutStray, Stray, Safe, TypeOK
    <2>2. buf_size = 0
      BY <2>1, SizesAssumption
    <2>. QED BY <2>1, <2>2 DEF Strayed
  <1>5. CASE UNCHANGED vars
    BY <1>1, <1>5 DEF vars
  <1>6. \/ InUse /\ UNCHANGED wild
        \/ pipe_get /\ GetStray
        \/ UNCHANGED vars
        \/ \E s \in Sizes : PutStray(s)
    BY DEF Next, pipe_get, pipe_put, pipe_close, GetMessage, Accept
  <1>. QED BY <1>2, <1>3, <1>4, <1>5, <1>6

LEMMA SpecStrayed == Spec => [](Safe /\ Strayed)
  <1>1. Init => Strayed
    BY DEF Init, Strayed
  <1>2. Safe /\ Numbered /\ Tracked /\ Strayed /\ [Next]_vars => Strayed'
    BY StrayedStep
  <1>. QED BY <1>1, <1>2, SpecTracked, PTL DEF Spec

\* Whatever the sizes of messages and buffers, no copy of pipe_put (memcpy at
\* thread_pipe.c:383) or of pipe_get (thread_pipe.c:427) goes beyond the end of a buffer,
\* until a put has met a full buffer with begin = end, or buf_size has wrapped around.
THEOREM BoundsCorrect == Spec => []InBounds
  <1>1. Safe /\ Strayed => InBounds
    BY DEF Safe, Strayed, InBounds
  <1>. QED BY SpecStrayed, <1>1, PTL

\* A pipe whose maximum is less than 2^31 never gets a buf_size of 0 (thread_pipe.c:357): with
\* it, only a message that was overwritten makes a copy go astray.
THEOREM SmallerPipes == 2 * MaxSize < UintMod => (Spec => [](wild = 1 => overrun = 1))
  <1>. SUFFICES ASSUME 2 * MaxSize < UintMod PROVE Spec => [](wild = 1 => overrun = 1)
    OBVIOUS
  <1>1. Init => buf_size # 0
    BY SizesAssumption DEF Init
  <1>2. ASSUME Safe, buf_size # 0, [Next]_vars PROVE buf_size' # 0
    <2>1. CASE buf_size' = buf_size
      BY <1>2, <2>1
    <2>2. ASSUME NEW s \in Sizes, PutInNew(s) PROVE buf_size' # 0
      <3>1. /\ buf_size \in {0} \cup MinSize..MaxSize /\ CanGrow /\ s <= buf_size - Extra
            /\ buf_size' = Uint(2 * buf_size)
        BY <1>2, <2>2 DEF Safe, TypeOK, PutInNew, NeedsNew
      <3>2. Uint(2 * buf_size) = 0 => 2 * MaxSize = UintMod
        BY <3>1, NewSize
      <3>3. 2 * MaxSize # UintMod
        BY SizesAssumption
      <3>. QED BY <3>1, <3>2, <3>3
    <2>3. CASE pipe_get /\ GetMessage
      BY <2>1, <2>3 DEF GetMessage
    <2>4. ASSUME NEW s \in Sizes, PutInPlace(s) \/ PutWrapped(s) \/ PutInNext(s) PROVE buf_size' # 0
      BY <2>1, <2>4 DEF PutInPlace, PutWrapped, PutInNext
    <2>5. CASE pipe_close \/ Stray \/ UNCHANGED vars
      BY <2>1, <2>5 DEF pipe_close, Stray, vars
    <2>. QED BY <1>2, <2>2, <2>3, <2>4, <2>5, Steps
  <1>3. Safe /\ buf_size # 0 /\ [Next]_vars => (buf_size # 0)'
    BY <1>2
  <1>4. Strayed /\ buf_size # 0 => (wild = 1 => overrun = 1)
    BY DEF Strayed
  <1>. QED BY <1>1, <1>3, <1>4, SpecStrayed, PTL DEF Spec
=============================================================================
