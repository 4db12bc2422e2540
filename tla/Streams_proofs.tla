---------------------------- MODULE Streams_proofs ----------------------------
(***************************************************************************)
(* Proofs about Streams, for buffers, pieces and inputs of any size: no    *)
(* byte is lost, doubled or overtaken, no byte is stored behind the end of *)
(* the buffer, and lines are neither cut nor joined.                       *)
(*                                                                         *)
(* They hold when calls succeed as far as the code can tell: the buffer    *)
(* can grow; write() takes all bytes or none when the buffer is written    *)
(* out to make room or is closed; a read() that filled the buffer once     *)
(* does not fail later; and when another thread leaves alone a buffer that *)
(* is read into, read from by lines or closed, and any buffer whose stream *)
(* is given strings, which such a stream takes as a whole.  Without any    *)
(* one of these TLC finds a byte lost or doubled, or a line cut.  While    *)
(* write() runs another thread may add bytes; the theorems speak of the    *)
(* buffer up to the add that flushes or moves it under that write(), or    *)
(* goes on with an offset that is stale (clash).                           *)
(***************************************************************************)
EXTENDS Streams, TLAPS, WellFoundedInduction

Orderly ==
    /\ Growable /\ ~LateError
    /\ {"add", "close"} \cap Partial = {} /\ AddDuring \subseteq {"flush", "add"}
    /\ Bufio \/ (Partial = {} /\ AddDuring = {})

-----------------------------------------------------------------------------
(***************************************************************************)
(* The inductive invariant.  The bytes that came are cut into three: those *)
(* that left, those in the buffer, those in flight.                        *)
(***************************************************************************)
\* q holds the bytes n + 1, n + 2, ...
Counts(q, n) == q \in Seq(Nat) /\ \A i \in 1..Len(q) : q[i] = n + i

BufOK(b) ==
    /\ b \in [mem : [1..Capacity -> Nat], len : Nat \ {0}, offset : Nat]
    /\ b.offset <= b.len
    /\ \A i \in (b.len + 1)..Capacity : b.mem[i] = 0

Holds(b, n) == b.offset <= Capacity /\ \A i \in 1..b.offset : b.mem[i] = n + i

Reads == [kind : {"read"}, str : BOOLEAN, got : Seq(Nat), at : Nat, size : Nat,
          n : Nat \ {0}, any : BOOLEAN]

\* The call o outside the lock agrees with the buffer b, when p bytes came.
OpOK(o, b, p) ==
    /\ o.kind \in {"idle", "line", "add", "flush", "write", "read"}
    /\ o.kind = "line" => NewlineIn(Content(b)) = {}
    /\ o.kind = "add" => /\ o.at \in BOOLEAN /\ o.k \in Nat /\ o.off \in 0..b.offset
                         /\ p + o.k <= MaxBytes /\ b.len <= o.off + o.k
                         /\ AddDuring = {} => o.off = b.offset
    /\ o.kind = "flush" => /\ o.close \in BOOLEAN /\ o.sz \in 0..b.offset
                           /\ (o.close \/ AddDuring = {}) => o.sz = b.offset
    /\ o.kind = "write" => o.sz \in 0..b.offset
    /\ o.kind = "read" => /\ o \in Reads /\ (~o.any => o.got = <<>>)
                          /\ IF o.str THEN b.offset = 0
                             ELSE o.got = <<>> /\ o.at = b.offset /\ o.size = b.len - b.offset

Inv ==
    /\ other = Idle /\ put \in 0..MaxBytes
    /\ Counts(out, 0)
    /\ BufOK(mb) /\ Holds(mb, Len(out))
    /\ Counts(InFlight, Len(out) + mb.offset)
    /\ put = Len(out) + mb.offset + Len(InFlight)
    /\ OpOK(op, mb, put)
    /\ WholeLines

-----------------------------------------------------------------------------
(***************************************************************************)
(* Sequences of bytes.                                                     *)
(***************************************************************************)
LEMMA NoBytes == ASSUME NEW n PROVE Counts(<<>>, n) /\ Len(<<>>) = 0
  BY DEF Counts

LEMMA JoinedBytes ==
  ASSUME NEW n \in Nat, NEW p, NEW q, Counts(p, n), Counts(q, n + Len(p))
  PROVE  Counts(p \o q, n) /\ Len(p \o q) = Len(p) + Len(q)
  <1>1. /\ p \o q \in Seq(Nat) /\ Len(p \o q) = Len(p) + Len(q)
        /\ Len(p) \in Nat /\ Len(q) \in Nat
        /\ \A i \in 1..Len(p) : (p \o q)[i] = p[i]
        /\ \A i \in (Len(p) + 1)..(Len(p) + Len(q)) : (p \o q)[i] = q[i - Len(p)]
    BY DEF Counts
  <1>2. ASSUME NEW i \in 1..(Len(p) + Len(q)) PROVE (p \o q)[i] = n + i
    <2>1. CASE i <= Len(p)
      BY <1>1, <2>1 DEF Counts
    <2>2. CASE i > Len(p)
      <3>1. i - Len(p) \in 1..Len(q) /\ (p \o q)[i] = q[i - Len(p)]
        BY <1>1, <2>2
      <3>. QED BY <1>1, <3>1 DEF Counts
    <2>. QED BY <1>1, <2>1, <2>2
  <1>. QED BY <1>1, <1>2 DEF Counts

\* Any bytes that are given by a function.
LEMMA Listed ==
  ASSUME NEW n \in Nat, NEW k \in Nat, NEW q, q = [i \in 1..k |-> q[i]],
         \A i \in 1..k : q[i] = n + i
  PROVE  Counts(q, n) /\ Len(q) = k
  <1>1. \A i \in 1..k : q[i] \in Nat
    OBVIOUS
  <1>2. q \in [1..k -> Nat]
    BY <1>1
  <1>3. q \in Seq(Nat) /\ Len(q) = k
    BY <1>2
  <1>. QED BY <1>3 DEF Counts

LEMMA NewBytes ==
  ASSUME put \in Nat, NEW k \in Nat PROVE Counts(New(k), put) /\ Len(New(k)) = k
  <1>. DEFINE q == New(k)
  <1>1. q = [i \in 1..k |-> put + i]
    BY DEF New
  <1>2. q = [i \in 1..k |-> q[i]] /\ \A i \in 1..k : q[i] = put + i
    BY <1>1
  <1>. HIDE DEF q
  <1>3. Counts(q, put) /\ Len(q) = k
    BY <1>2, Listed
  <1>. QED BY <1>3 DEF q

LEMMA HeadBytes ==
  ASSUME NEW n \in Nat, NEW b, BufOK(b), Holds(b, n), NEW k \in 0..b.offset
  PROVE  Counts(First(b, k), n) /\ Len(First(b, k)) = k
  <1>. DEFINE q == First(b, k)
  <1>1. q = [i \in 1..k |-> b.mem[i]]
    BY DEF First
  <1>2. b.offset \in Nat /\ k \in Nat /\ 1..k \subseteq 1..b.offset
    BY DEF BufOK
  <1>3. q = [i \in 1..k |-> q[i]] /\ \A i \in 1..k : q[i] = n + i
    BY <1>1, <1>2 DEF Holds
  <1>. HIDE DEF q
  <1>4. Counts(q, n) /\ Len(q) = k
    BY <1>2, <1>3, Listed
  <1>. QED BY <1>4 DEF q

LEMMA ContentBytes ==
  ASSUME NEW n \in Nat, NEW b, BufOK(b), Holds(b, n)
  PROVE  Counts(Content(b), n) /\ Len(Content(b)) = b.offset
  <1>1. b.offset \in 0..b.offset
    BY DEF BufOK
  <1>. QED BY <1>1, HeadBytes DEF Content

LEMMA FirstBytes ==
  ASSUME NEW n \in Nat, NEW q, Counts(q, n), NEW k \in 0..Len(q)
  PROVE  Counts(SubSeq(q, 1, k), n) /\ Len(SubSeq(q, 1, k)) = k
  <1>0. q \in Seq(Nat) /\ Len(q) \in Nat /\ k \in Nat
    BY DEF Counts
  <1>1. PICK p : p = SubSeq(q, 1, k)
    OBVIOUS
  <1>2. p \in Seq(Nat) /\ Len(p) = k /\ \A i \in 1..k : p[i] = q[i]
    BY <1>0, <1>1
  <1>3. ASSUME NEW i \in 1..k PROVE p[i] = n + i
    <2>1. i \in 1..Len(q)
      BY <1>0
    <2>2. q[i] = n + i
      BY <2>1 DEF Counts
    <2>. QED BY <1>2, <2>2
  <1>4. Counts(p, n)
    BY <1>2, <1>3 DEF Counts
  <1>. QED BY <1>1, <1>2, <1>4

LEMMA LastBytes ==
  ASSUME NEW n \in Nat, NEW q, Counts(q, n), NEW k \in 0..Len(q)
  PROVE  /\ Counts(SubSeq(q, k + 1, Len(q)), n + k)
         /\ Len(SubSeq(q, k + 1, Len(q))) = Len(q) - k
  <1>. DEFINE p == SubSeq(q, k + 1, Len(q))
  <1>0. q \in Seq(Nat) /\ Len(q) \in Nat /\ k \in Nat
    BY DEF Counts
  <1>1. p \in Seq(Nat) /\ Len(p) = Len(q) - k /\ \A i \in 1..(Len(q) - k) : p[i] = q[i + k]
    BY <1>0, SMTT(30)
  <1>. HIDE DEF p
  <1>2. \A i \in 1..Len(p) : p[i] = n + k + i
    BY <1>0, <1>1 DEF Counts
  <1>3. Counts(p, n + k)
    BY <1>1, <1>2 DEF Counts
  <1>. QED BY <1>1, <1>3 DEF p

-----------------------------------------------------------------------------
(***************************************************************************)
(* Operations on the buffer.                                               *)
(***************************************************************************)
LEMMA CapacityIs == Capacity \in Nat /\ MaxBytes \in Nat /\ MaxBytes <= Capacity
  BY StreamsAssumption DEF Capacity

LEMMA LeastOf ==
  ASSUME NEW T, T \subseteq Nat, T # {} PROVE Min(T) \in T /\ \A y \in T : Min(T) <= y
  <1>1. \E x \in T : \A y \in T : ~(<<y, x>> \in OpToRel(<, Nat))
    BY WFMin, NatLessThanWellFounded
  <1>2. \E x \in T : \A y \in T : ~(y < x)
    BY <1>1 DEF OpToRel
  <1>3. \E x \in T : \A y \in T : x <= y
    BY <1>2
  <1>. QED BY <1>3 DEF Min

\* A buffer that grows has room for newlen bytes, and one more.
LEMMA GrownIs ==
  ASSUME NEW len \in Nat \ {0}, NEW newlen \in Nat, len <= newlen, newlen <= MaxBytes
  PROVE  Grown(len, newlen) \in Nat /\ newlen < Grown(len, newlen)
  <1>. DEFINE S == {len * 2^i : i \in 1..MaxBytes}
              T == {l \in S : l > newlen}
  <1>0. MaxBytes \in Nat \ {0}
    BY StreamsAssumption
  <1>1. ASSUME NEW i \in 1..MaxBytes PROVE len * 2^i \in Nat
    <2>1. 2^i \in Nat
      BY PowersAssumption
    <2>. QED BY <2>1
  <1>2. T \subseteq Nat
    BY <1>1
  <1>3. 2^MaxBytes \in Nat /\ MaxBytes < 2^MaxBytes
    BY <1>0, PowersAssumption
  <1>4. \A p \in Nat : p <= len * p
    OBVIOUS
  <1>5. len * 2^MaxBytes > newlen
    BY <1>0, <1>1, <1>3, <1>4
  <1>6. len * 2^MaxBytes \in T
    BY <1>0, <1>5
  <1>7. Grown(len, newlen) = Min(T)
    BY DEF Grown
  <1>. HIDE DEF T
  <1>8. Min(T) \in T
    BY <1>2, <1>6, LeastOf
  <1>. QED BY <1>2, <1>7, <1>8 DEF T

\* memcpy behind the bytes that are there.
LEMMA CopiedBytes ==
  ASSUME NEW n \in Nat, NEW b, BufOK(b), Holds(b, n), NEW q, Counts(q, n + b.offset),
         b.offset + Len(q) <= b.len, b.offset + Len(q) <= Capacity
  PROVE  LET c == Copied(b, b.offset, q)
         IN  BufOK(c) /\ Holds(c, n) /\ c.offset = b.offset + Len(q) /\ c.len = b.len
  <1>. DEFINE off == b.offset
              m == [i \in 1..Capacity |->
                      IF i \in (off + 1)..(off + Len(q)) THEN q[i - off] ELSE b.mem[i]]
              c == Copied(b, off, q)
  <1>1. /\ off \in Nat /\ b.len \in Nat \ {0} /\ off <= b.len /\ b.mem \in [1..Capacity -> Nat]
        /\ b = [mem |-> b.mem, len |-> b.len, offset |-> off]
        /\ \A i \in (b.len + 1)..Capacity : b.mem[i] = 0
    BY DEF BufOK
  <1>2. q \in Seq(Nat) /\ Len(q) \in Nat /\ \A i \in 1..Len(q) : q[i] = n + off + i
    BY <1>1 DEF Counts
  <1>a. c = [b EXCEPT !.mem = m, !.offset = off + Len(q)]
    BY DEF Copied
  <1>4. ASSUME NEW i \in 1..Capacity PROVE
          /\ m[i] = IF i \in (off + 1)..(off + Len(q)) THEN n + i ELSE b.mem[i]
          /\ m[i] \in Nat
    <2>1. CASE i \in (off + 1)..(off + Len(q))
      <3>1. i - off \in 1..Len(q)
        BY <1>1, <1>2, <2>1
      <3>. QED BY <1>1, <1>2, <2>1, <3>1, SMTT(30)
    <2>2. CASE i \notin (off + 1)..(off + Len(q))
      BY <1>1, <2>2
    <2>. QED BY <2>1, <2>2
  <1>5. m \in [1..Capacity -> Nat]
    BY <1>4
  <1>. HIDE DEF m, c
  <1>3. c = [mem |-> m, len |-> b.len, offset |-> off + Len(q)]
    BY <1>1, <1>a
  <1>6. c.mem = m /\ c.len = b.len /\ c.offset = off + Len(q)
    BY <1>3
  <1>7. BufOK(c)
    <2>1. c \in [mem : [1..Capacity -> Nat], len : Nat \ {0}, offset : Nat]
      BY <1>1, <1>2, <1>3, <1>5
    <2>2. c.offset <= c.len
      BY <1>1, <1>2, <1>6
    <2>3. \A i \in (c.len + 1)..Capacity : c.mem[i] = 0
      BY <1>1, <1>2, <1>4, <1>6, CapacityIs, SMTT(30)
    <2>. QED BY <2>1, <2>2, <2>3 DEF BufOK
  <1>8. Holds(c, n)
    BY <1>1, <1>2, <1>4, <1>6, CapacityIs DEF Holds
  <1>. QED BY <1>6, <1>7, <1>8 DEF c, off

\* The first k bytes go.
LEMMA MovedBytes ==
  ASSUME NEW n \in Nat, NEW b, BufOK(b), Holds(b, n), NEW k \in 0..b.offset
  PROVE  LET c == sys_buffer_read_next(b, k)
         IN  BufOK(c) /\ Holds(c, n + k) /\ c.offset = b.offset - k /\ c.len = b.len
  <1>. DEFINE rest == b.offset - k
              m == [i \in 1..Capacity |-> IF i <= rest THEN b.mem[i + k] ELSE b.mem[i]]
              c == sys_buffer_read_next(b, k)
  <1>1. /\ b.offset \in Nat /\ b.len \in Nat \ {0} /\ b.offset <= b.len
        /\ b.mem \in [1..Capacity -> Nat] /\ b = [mem |-> b.mem, len |-> b.len, offset |-> b.offset]
        /\ \A i \in (b.len + 1)..Capacity : b.mem[i] = 0
    BY DEF BufOK
  <1>2. b.offset <= Capacity /\ (\A i \in 1..b.offset : b.mem[i] = n + i) /\ rest \in Nat /\ k \in Nat
    BY <1>1 DEF Holds
  <1>a. c = [b EXCEPT !.offset = rest, !.mem = m]
    BY DEF sys_buffer_read_next
  <1>4. ASSUME NEW i \in 1..Capacity
        PROVE  m[i] = (IF i <= rest THEN n + k + i ELSE b.mem[i]) /\ m[i] \in Nat
    <2>1. CASE i <= rest
      <3>1. i + k \in 1..b.offset
        BY <1>1, <1>2, <2>1, CapacityIs
      <3>. QED BY <1>1, <1>2, <2>1, <3>1
    <2>2. CASE ~(i <= rest)
      BY <1>1, <2>2
    <2>. QED BY <2>1, <2>2
  <1>5. m \in [1..Capacity -> Nat]
    BY <1>4
  <1>. HIDE DEF m, c
  <1>3. c = [mem |-> m, len |-> b.len, offset |-> rest]
    BY <1>1, <1>a
  <1>6. c.mem = m /\ c.len = b.len /\ c.offset = rest
    BY <1>3
  <1>7. BufOK(c)
    <2>1. c \in [mem : [1..Capacity -> Nat], len : Nat \ {0}, offset : Nat]
      BY <1>1, <1>2, <1>3, <1>5
    <2>2. c.offset <= c.len
      BY <1>1, <1>2, <1>6
    <2>3. \A i \in (c.len + 1)..Capacity : c.mem[i] = 0
      BY <1>1, <1>2, <1>4, <1>6, CapacityIs
    <2>. QED BY <2>1, <2>2, <2>3 DEF BufOK
  <1>8. Holds(c, n + k)
    BY <1>1, <1>2, <1>4, <1>6, CapacityIs DEF Holds
  <1>. QED BY <1>6, <1>7, <1>8 DEF c, rest

\* All bytes go at once.
LEMMA EmptiedBytes ==
  ASSUME NEW n \in Nat, NEW b, BufOK(b)
  PROVE  LET c == [b EXCEPT !.offset = 0]
         IN  BufOK(c) /\ Holds(c, n) /\ c.offset = 0 /\ c.len = b.len
  <1>. DEFINE c == [b EXCEPT !.offset = 0]
  <1>1. c.mem = b.mem /\ c.len = b.len /\ c.offset = 0 /\ c = [mem |-> b.mem, len |-> b.len, offset |-> 0]
    BY DEF BufOK
  <1>. HIDE DEF c
  <1>2. BufOK(c) /\ Holds(c, n)
    BY <1>1, CapacityIs DEF BufOK, Holds
  <1>. QED BY <1>1, <1>2 DEF c

\* The length is set to a larger one.
LEMMA LongerBytes ==
  ASSUME NEW n \in Nat, NEW b, BufOK(b), Holds(b, n), NEW l \in Nat, b.len <= l
  PROVE  LET c == [b EXCEPT !.len = l]
         IN  BufOK(c) /\ Holds(c, n) /\ c.offset = b.offset /\ c.len = l
  <1>. DEFINE c == [b EXCEPT !.len = l]
  <1>1. c.mem = b.mem /\ c.len = l /\ c.offset = b.offset /\ c = [mem |-> b.mem, len |-> l, offset |-> b.offset]
    BY DEF BufOK
  <1>. HIDE DEF c
  <1>2. BufOK(c) /\ Holds(c, n)
    BY <1>1, CapacityIs DEF BufOK, Holds
  <1>. QED BY <1>1, <1>2 DEF c

\* membuf_addlstring when the buffer grows.
LEMMA AddGrowBytes ==
  ASSUME Growable, NEW n \in Nat, NEW b, BufOK(b), Holds(b, n), NEW q \in Seq(Nat),
         NEW newlen \in Nat, NEW at \in BOOLEAN, at => Counts(q, n + b.offset),
         b.len <= newlen, newlen <= MaxBytes, b.offset + Len(q) <= newlen
  PROVE  LET r == AddGrow(b, b.offset, b.len, newlen, q, at)
         IN  /\ r.ok /\ BufOK(r.b) /\ Holds(r.b, n) /\ newlen < r.b.len
             /\ r.b.offset = IF at THEN b.offset + Len(q) ELSE b.offset
  <1>. DEFINE l == Grown(b.len, newlen)
              g == [b EXCEPT !.len = l]
              c == Copied(g, b.offset, q)
              r == AddGrow(b, b.offset, b.len, newlen, q, at)
  <1>0. b.len \in Nat \ {0} /\ b.offset \in Nat /\ Len(q) \in Nat
    BY DEF BufOK
  <1>1. l \in Nat /\ newlen < l
    BY <1>0, GrownIs
  <1>2. r = [ok |-> TRUE, b |-> IF at THEN c ELSE g]
    BY DEF AddGrow
  <1>. HIDE DEF l
  <1>3. BufOK(g) /\ Holds(g, n) /\ g.offset = b.offset /\ g.len = l
    <2>1. b.len <= l
      BY <1>0, <1>1
    <2>. QED BY <1>1, <2>1, LongerBytes
  <1>. HIDE DEF g
  <1>4. ASSUME at PROVE BufOK(c) /\ Holds(c, n) /\ c.offset = b.offset + Len(q) /\ c.len = l
    <2>1. Counts(q, n + g.offset)
      BY <1>3, <1>4
    <2>2. g.offset + Len(q) <= g.len /\ g.offset + Len(q) <= Capacity
      BY <1>0, <1>1, <1>3, CapacityIs
    <2>3. c = Copied(g, g.offset, q)
      BY <1>3
    <2>. HIDE DEF c
    <2>4. BufOK(Copied(g, g.offset, q)) /\ Holds(Copied(g, g.offset, q), n)
          /\ Copied(g, g.offset, q).offset = g.offset + Len(q) /\ Copied(g, g.offset, q).len = g.len
      BY <1>3, <2>1, <2>2, CopiedBytes
    <2>. QED BY <1>3, <2>3, <2>4
  <1>. HIDE DEF c, r
  <1>5. r.ok /\ r.b = (IF at THEN c ELSE g)
    BY <1>2
  <1>6. BufOK(r.b) /\ Holds(r.b, n) /\ r.b.len = l /\ r.b.offset = IF at THEN b.offset + Len(q) ELSE b.offset
    BY <1>3, <1>4, <1>5
  <1>. QED BY <1>1, <1>5, <1>6 DEF r

\* The output stream takes k bytes, of the first sz.
LEMMA StreamBytes ==
  ASSUME NEW n \in Nat, NEW b, BufOK(b), Holds(b, n), NEW sz \in 0..b.offset, NEW k \in 0..sz,
         Bufio \/ (k = sz /\ sz = b.offset) \/ (k = 0 /\ sz # 0)
  PROVE  LET c == stream_write(b, sz, k)
         IN  BufOK(c) /\ Holds(c, n + k) /\ c.offset = b.offset - k /\ c.len = b.len
  <1>0. b.offset \in Nat /\ k \in 0..b.offset /\ n + k \in Nat /\ n + 0 = n /\ b.offset - 0 = b.offset
    BY DEF BufOK
  <1>1. CASE Bufio
    <2>1. stream_write(b, sz, k) = sys_buffer_read_next(b, k)
      BY <1>1 DEF stream_write
    <2>. QED BY <1>0, <2>1, MovedBytes
  <1>2. CASE ~Bufio /\ k = sz
    <2>1. stream_write(b, sz, k) = [b EXCEPT !.offset = 0] /\ b.offset - k = 0
      BY <1>0, <1>2 DEF stream_write
    <2>. QED BY <1>0, <2>1, EmptiedBytes
  <1>3. CASE ~Bufio /\ k # sz
    <2>1. stream_write(b, sz, k) = b /\ k = 0
      BY <1>3 DEF stream_write
    <2>. QED BY <1>0, <2>1
  <1>. QED BY <1>1, <1>2, <1>3

-----------------------------------------------------------------------------
(***************************************************************************)
(* The first state, and steps in general.                                  *)
(***************************************************************************)
LEMMA InFlightIs ==
  InFlight = IF op.kind = "read" THEN op.got ELSE <<>>
  BY DEF InFlight

LEMMA InitInv == Init => Inv
  <1>. SUFFICES ASSUME Init PROVE Inv
    OBVIOUS
  <1>1. /\ mb = [mem |-> [i \in 1..Capacity |-> 0], len |-> InitialLen, offset |-> 0]
        /\ put = 0 /\ out = <<>> /\ op = [kind |-> "idle"] /\ other = Idle
        /\ line = [bytes |-> <<>>, ended |-> FALSE, nil |-> TRUE]
    BY DEF Init, Idle, NoLine
  <1>2. BufOK(mb) /\ Holds(mb, 0)
    BY <1>1, StreamsAssumption, CapacityIs DEF BufOK, Holds
  <1>3. InFlight = <<>>
    BY <1>1, InFlightIs
  <1>4. Counts(<<>>, 0) /\ Len(<<>>) = 0 /\ mb.offset = 0 /\ put \in 0..MaxBytes
    BY <1>1, NoBytes, StreamsAssumption
  <1>5. OpOK(op, mb, put)
    BY <1>1 DEF OpOK
  <1>6. WholeLines
    BY <1>1 DEF WholeLines, NewlineIn
  <1>. QED BY <1>1, <1>2, <1>3, <1>4, <1>5, <1>6 DEF Inv

\* What is known while a call is outside the lock or may begin.
LEMMA State ==
  ASSUME Inv
  PROVE  /\ Len(out) \in Nat /\ mb.offset \in Nat /\ mb.len \in Nat \ {0} /\ mb.offset <= mb.len
         /\ put \in Nat /\ put <= MaxBytes /\ MaxBytes \in Nat /\ MaxBytes <= Capacity /\ Capacity \in Nat
         /\ InFlight \in Seq(Nat) /\ Len(InFlight) \in Nat
         /\ Len(out) + mb.offset <= put
         /\ (InFlight = <<>> => put = Len(out) + mb.offset)
  <1>1. /\ out \in Seq(Nat) /\ InFlight \in Seq(Nat) /\ put \in 0..MaxBytes
        /\ put = Len(out) + mb.offset + Len(InFlight)
        /\ mb.offset \in Nat /\ mb.len \in Nat \ {0} /\ mb.offset <= mb.len
    BY DEF Inv, Counts, BufOK
  <1>2. Len(out) \in Nat /\ Len(InFlight) \in Nat /\ (InFlight = <<>> => Len(InFlight) = 0)
    BY <1>1
  <1>. QED BY <1>1, <1>2, CapacityIs

\* A call begins or ends with nothing in flight.
LEMMA StepKeeps ==
  ASSUME Inv, other' = other, WholeLines', put' \in 0..MaxBytes,
         Counts(out', 0), BufOK(mb'), Holds(mb', Len(out')),
         Counts(InFlight', Len(out') + mb'.offset),
         put' = Len(out') + mb'.offset + Len(InFlight'), OpOK(op', mb', put')
  PROVE  Inv'
  BY DEF Inv

\* The first k bytes leave: those in the buffer follow them.
LEMMA TakenBytes ==
  ASSUME Inv, NEW k \in 0..mb.offset
  PROVE  LET o == out \o First(mb, k)
         IN  Counts(o, 0) /\ Len(o) = Len(out) + k
  <1>. DEFINE p == First(mb, k)
  <1>1. Counts(out, 0) /\ Len(out) \in Nat /\ BufOK(mb) /\ Holds(mb, Len(out)) /\ 0 + Len(out) = Len(out)
    BY State DEF Inv
  <1>3. Counts(p, Len(out)) /\ Len(p) = k
    BY <1>1, HeadBytes
  <1>. HIDE DEF p
  <1>4. Counts(out \o p, 0) /\ Len(out \o p) = Len(out) + k
    BY <1>1, <1>3, JoinedBytes, SMTT(30)
  <1>. QED BY <1>4 DEF p

LEMMA LinesKept == ASSUME WholeLines, line' = line PROVE WholeLines'
  BY DEF WholeLines

LEMMA InFlightNext ==
  InFlight' = IF op'.kind = "read" THEN op'.got ELSE <<>>
  BY DEF InFlight

LEMMA IdleOK == ASSUME NEW b, NEW p PROVE OpOK(Idle, b, p) /\ Idle.kind = "idle"
  BY DEF OpOK, Idle

LEMMA IdleNow ==
  ASSUME Inv, op = Idle PROVE InFlight = <<>> /\ put = Len(out) + mb.offset
  BY IdleOK, InFlightIs, State

LEMMA IdleNext == ASSUME op' = Idle PROVE InFlight' = <<>>
  BY IdleOK, InFlightNext

\* The step ends with nothing in flight.
LEMMA DoneKeeps ==
  ASSUME Inv, other' = other, WholeLines', put' \in 0..MaxBytes, op' = Idle,
         Counts(out', 0), BufOK(mb'), Holds(mb', Len(out')), put' = Len(out') + mb'.offset
  PROVE  Inv'
  <1>1. InFlight' = <<>> /\ OpOK(op', mb', put')
    BY IdleNext, IdleOK
  <1>2. Counts(InFlight', Len(out') + mb'.offset) /\ Len(InFlight') = 0
    BY <1>1, NoBytes
  <1>3. Len(out') \in Nat /\ mb'.offset \in Nat
    BY DEF Counts, BufOK
  <1>4. put' = Len(out') + mb'.offset + Len(InFlight')
    BY <1>2, <1>3
  <1>. QED BY <1>1, <1>2, <1>4, StepKeeps

\* The call leaves the lock, and nothing else happens.
LEMMA BeginKeeps ==
  ASSUME Inv, UNCHANGED <<other, mb, put, out, line>>, op = Idle, InFlight' = <<>>,
         OpOK(op', mb, put)
  PROVE  Inv'
  <1>1. put = Len(out) + mb.offset
    BY IdleNow
  <1>2. Counts(InFlight', Len(out') + mb'.offset) /\ Len(InFlight') = 0
    BY NoBytes
  <1>3. put' = Len(out') + mb'.offset + Len(InFlight')
    BY <1>1, <1>2, State
  <1>4. /\ put' \in 0..MaxBytes /\ Counts(out', 0) /\ BufOK(mb') /\ Holds(mb', Len(out')) /\ WholeLines'
        /\ OpOK(op', mb', put')
    BY LinesKept DEF Inv
  <1>. QED BY <1>2, <1>3, <1>4, StepKeeps

-----------------------------------------------------------------------------
(***************************************************************************)
(* Putting bytes in and flushing.                                          *)
(***************************************************************************)
\* The buffer membuf_addlstring finds when the output stream's method returned:
\* n bytes are out, and the string q (the one to add when "at") did not fit before.
AfterStream(n, b, q, at, off, success) ==
  /\ n \in Nat /\ q \in Seq(Nat) /\ at \in BOOLEAN /\ off \in Nat /\ success \in BOOLEAN
  /\ BufOK(b) /\ Holds(b, n)
  /\ at => Counts(q, n + b.offset)
  /\ ~success => off = b.offset
  /\ b.offset <= off /\ b.len <= off + Len(q) /\ off + Len(q) <= MaxBytes

\* What it makes of it, r: the bytes after the n, q after them, and room for one more.
AddedAfter(r, n, b, q, at) ==
  /\ r.ok /\ BufOK(r.b) /\ Holds(r.b, n) /\ r.b.offset < r.b.len
  /\ r.b.offset = IF at THEN b.offset + Len(q) ELSE b.offset

\* What membuf_addlstring does after it called the output stream.
LEMMA AddAfterBytes ==
  ASSUME Growable, NEW n, NEW b, NEW q, NEW at, NEW off, NEW success,
         AfterStream(n, b, q, at, off, success)
  PROVE  AddedAfter(AddAfterStream(b, off, q, at, success), n, b, q, at)
  <1>. USE DEF AfterStream, AddedAfter
  <1>. DEFINE r == AddAfterStream(b, off, q, at, success)
              c == Copied(b, b.offset, q)
              g == AddGrow(b, b.offset, b.len, off + Len(q), q, at)
  <1>0. b.offset \in Nat /\ b.len \in Nat \ {0} /\ Len(q) \in Nat /\ off + Len(q) \in Nat
        /\ b.offset + Len(q) <= off + Len(q)
    BY DEF BufOK
  <1>1. CASE success /\ Len(q) < b.len - b.offset
    <2>1. r = [ok |-> TRUE, b |-> IF at THEN c ELSE b]
      BY <1>1 DEF AddAfterStream
    <2>2. b.offset + Len(q) <= b.len /\ b.offset + Len(q) <= Capacity
      BY <1>0, <1>1, CapacityIs
    <2>3. at => BufOK(c) /\ Holds(c, n) /\ c.offset = b.offset + Len(q) /\ c.len = b.len
      BY <2>2, CopiedBytes
    <2>. HIDE DEF r, c
    <2>4. r.ok /\ r.b = IF at THEN c ELSE b
      BY <2>1
    <2>5. /\ r.ok /\ BufOK(r.b) /\ Holds(r.b, n) /\ r.b.len = b.len
          /\ r.b.offset = IF at THEN b.offset + Len(q) ELSE b.offset
      BY <2>3, <2>4
    <2>6. r.b.offset < r.b.len
      BY <1>0, <1>1, <2>5
    <2>. QED BY <2>5, <2>6 DEF r
  <1>2. CASE ~(success /\ Len(q) < b.len - b.offset)
    <2>1. r = AddGrow(b, IF success THEN b.offset ELSE off, b.len, off + Len(q), q, at)
      BY <1>2 DEF AddAfterStream
    <2>2. (IF success THEN b.offset ELSE off) = b.offset
      OBVIOUS
    <2>3. r = g
      BY <2>1, <2>2
    <2>4. /\ g.ok /\ BufOK(g.b) /\ Holds(g.b, n) /\ off + Len(q) < g.b.len
          /\ g.b.offset = IF at THEN b.offset + Len(q) ELSE b.offset
      BY <1>0, AddGrowBytes
    <2>. HIDE DEF r, g
    <2>5. g.b.len \in Nat
      BY <2>4 DEF BufOK
    <2>6. g.b.offset < g.b.len
      BY <1>0, <2>4, <2>5
    <2>. QED BY <2>3, <2>4, <2>6 DEF r
  <1>. QED BY <1>1, <1>2

LEMMA AddKeeps ==
  ASSUME Orderly, Inv, NEW k \in 1..MaxPut, NEW at \in BOOLEAN, membuf_addlstring(k, at)
  PROVE  Inv'
  <1>. DEFINE q == New(k)
              c == Copied(mb, mb.offset, q)
              r == AddGrow(mb, mb.offset, mb.len, mb.offset + k, q, at)
  <1>1. /\ op = Idle /\ put + k <= MaxBytes /\ other' = other /\ out' = out /\ line' = line
        /\ InFlight = <<>> /\ put = Len(out) + mb.offset /\ k \in Nat
    BY IdleNow, StreamsAssumption DEF membuf_addlstring, MayCall
  <1>2. Counts(q, put) /\ Len(q) = k /\ q \in Seq(Nat)
    BY <1>1, State, NewBytes DEF Counts
  <1>3. Counts(out, 0) /\ BufOK(mb) /\ Holds(mb, Len(out)) /\ WholeLines'
    BY <1>1, LinesKept DEF Inv
  <1>4. put + k \in 0..MaxBytes /\ Len(out) + mb.offset = put /\ put \in 0..MaxBytes
    BY <1>1, State
  <1>5. Fits(mb, q) <=> mb.offset + k < mb.len
    BY <1>2 DEF Fits
  <1>6. CASE Fits(mb, q)
    <2>1. /\ mb' = (IF at THEN c ELSE mb) /\ put' = (IF at THEN put + k ELSE put) /\ op' = op
      BY <1>6 DEF membuf_addlstring
    <2>. HIDE DEF q
    <2>a. mb.offset + Len(q) < mb.len
      BY <1>6 DEF Fits
    <2>2. mb.offset + Len(q) <= mb.len /\ mb.offset + Len(q) <= Capacity
      BY <1>1, <1>2, <2>a, State, SMTT(30)
    <2>3. BufOK(c) /\ Holds(c, Len(out)) /\ c.offset = mb.offset + k
      <3>1. Len(out) \in Nat /\ Counts(q, Len(out) + mb.offset)
        BY <1>2, <1>4, State
      <3>. QED BY <1>2, <1>3, <2>2, <3>1, CopiedBytes
    <2>. HIDE DEF c
    <2>4. BufOK(mb') /\ Holds(mb', Len(out')) /\ put' \in 0..MaxBytes /\ Counts(out', 0)
      BY <1>1, <1>3, <1>4, <2>1, <2>3
    <2>5. put' = Len(out') + mb'.offset
      BY <1>1, <2>1, <2>3, State
    <2>. QED BY <1>1, <1>3, <2>1, <2>4, <2>5, DoneKeeps
  <1>7. CASE ~Fits(mb, q) /\ HasOutput
    <2>1. /\ op' = [kind |-> "add", k |-> k, at |-> at, off |-> mb.offset]
          /\ mb' = mb /\ put' = put
      BY <1>7 DEF membuf_addlstring
    <2>. HIDE DEF q
    <2>2. op'.kind = "add" /\ op'.k = k /\ op'.at = at /\ op'.off = mb.offset
      BY <2>1
    <2>3. InFlight' = <<>>
      BY <2>2, InFlightNext
    <2>4. mb.len <= mb.offset + k /\ mb.offset \in 0..mb.offset
      BY <1>1, <1>5, <1>7, State
    <2>5. OpOK(op', mb, put)
      BY <1>1, <2>2, <2>4 DEF OpOK
    <2>. QED BY <1>1, <2>1, <2>3, <2>5, BeginKeeps
  <1>8. CASE ~Fits(mb, q) /\ ~HasOutput
    <2>1. /\ mb' = r.b /\ put' = (IF at /\ r.ok THEN put + k ELSE put) /\ op' = op
      BY <1>8 DEF membuf_addlstring
    <2>. HIDE DEF q
    <2>2. /\ mb.len <= mb.offset + k /\ mb.offset + k <= MaxBytes /\ mb.offset + k \in Nat
          /\ mb.offset + Len(q) <= mb.offset + k
      <3>1. ~(mb.offset + Len(q) < mb.len)
        BY <1>8 DEF Fits
      <3>2. Len(q) = k /\ mb.offset \in Nat /\ mb.len \in Nat /\ k \in Nat
        BY <1>1, <1>2, State
      <3>3. mb.offset + k <= MaxBytes
        BY <1>1, State
      <3>. HIDE DEF r, c
      <3>. QED BY <3>1, <3>2, <3>3
    <2>3. /\ r.ok /\ BufOK(r.b) /\ Holds(r.b, Len(out))
          /\ r.b.offset = IF at THEN mb.offset + k ELSE mb.offset
      <3>1. Growable /\ Len(out) \in Nat /\ (at => Counts(q, Len(out) + mb.offset))
        BY <1>2, <1>4, State DEF Orderly
      <3>. HIDE DEF r
      <3>2. LET x == AddGrow(mb, mb.offset, mb.len, mb.offset + k, q, at)
            IN  /\ x.ok /\ BufOK(x.b) /\ Holds(x.b, Len(out))
                /\ x.b.offset = IF at THEN mb.offset + Len(q) ELSE mb.offset
        BY <1>2, <1>3, <2>2, <3>1, AddGrowBytes
      <3>. QED BY <1>2, <3>2 DEF r
    <2>. HIDE DEF r
    <2>4. BufOK(mb') /\ Holds(mb', Len(out')) /\ put' \in 0..MaxBytes /\ Counts(out', 0)
      BY <1>1, <1>3, <1>4, <2>1, <2>3
    <2>5. put' = Len(out') + mb'.offset
      BY <1>1, <2>1, <2>3, State
    <2>. QED BY <1>1, <1>3, <2>1, <2>4, <2>5, DoneKeeps
  <1>. QED BY <1>6, <1>7, <1>8

LEMMA AddResumesKeeps ==
  ASSUME Orderly, Inv, NEW nw \in 0..MaxBytes, AddResumes(nw), ~clash'
  PROVE  Inv'
  <1>. DEFINE n == Len(out) + nw
              q == New(op.k)
              b == stream_write(mb, op.off, nw)
              r == AddAfterStream(b, op.off, q, op.at, nw = op.off)
  <1>1. /\ op.kind = "add" /\ other' = other /\ line' = line /\ op' = Idle /\ mb' = r.b
        /\ out' = out \o First(mb, nw)
        /\ put' = (IF op.at /\ r.ok THEN put + op.k ELSE put)
        /\ nw <= op.off /\ nw \in {0, op.off}
        /\ ~(mb.offset # op.off /\ (nw # op.off \/ b.offset > op.off))
    BY DEF AddResumes, Resumed, Takes, Orderly
  <1>2. /\ op.at \in BOOLEAN /\ op.k \in Nat /\ op.off \in 0..mb.offset
        /\ put + op.k <= MaxBytes /\ mb.len <= op.off + op.k
        /\ AddDuring = {} => op.off = mb.offset
    BY <1>1 DEF Inv, OpOK
  <1>3. Counts(out, 0) /\ BufOK(mb) /\ Holds(mb, Len(out)) /\ WholeLines'
    BY <1>1, LinesKept DEF Inv
  <1>4. /\ nw \in 0..op.off /\ nw \in 0..mb.offset /\ n \in Nat /\ op.off \in Nat
        /\ n + (mb.offset - nw) = Len(out) + mb.offset
    <2>1. nw \in Nat /\ op.off \in Nat /\ op.off <= mb.offset /\ mb.offset \in Nat /\ Len(out) \in Nat
      BY <1>2, State
    <2>2. nw <= op.off
      BY <1>1
    <2>. HIDE DEF b, r, q
    <2>. QED BY <2>1, <2>2
  <1>5. Bufio \/ (nw = op.off /\ op.off = mb.offset) \/ (nw = 0 /\ op.off # 0)
    BY <1>1, <1>2 DEF Orderly
  <1>6. BufOK(b) /\ Holds(b, n) /\ b.offset = mb.offset - nw /\ b.len = mb.len
    <2>1. Len(out) \in Nat /\ op.off \in 0..mb.offset /\ nw \in 0..op.off
      BY <1>2, <1>4, State
    <2>. QED BY ONLY <1>3, <1>5, <2>1, StreamBytes, ZenonT(30)
  <1>7. put = n + b.offset
    BY <1>1, <1>4, <1>6, InFlightIs, State
  <1>8. Counts(q, put) /\ Len(q) = op.k /\ q \in Seq(Nat)
    BY <1>2, State, NewBytes DEF Counts
  <1>. HIDE DEF n, b, q
  <1>9. b.offset \in Nat /\ b.offset <= op.off /\ (nw # op.off => op.off = b.offset)
    <2>1. nw \in {0, op.off} /\ (mb.offset = op.off \/ (nw = op.off /\ ~(b.offset > op.off)))
      BY <1>1
    <2>2. op.off \in Nat /\ mb.offset \in Nat /\ nw \in 0..mb.offset
      BY <1>4, State
    <2>. HIDE DEF r
    <2>. QED BY <1>6, <2>1, <2>2
  <1>10. r.ok /\ BufOK(r.b) /\ Holds(r.b, n) /\ r.b.offset = IF op.at THEN b.offset + Len(q) ELSE b.offset
    <2>1. /\ Growable /\ n \in Nat /\ (op.at => Counts(q, n + b.offset)) /\ op.off \in Nat
          /\ b.len <= op.off + Len(q) /\ op.off + Len(q) <= MaxBytes
      <3>1. Growable /\ (op.at => Counts(q, n + b.offset)) /\ b.len <= op.off + Len(q)
        BY <1>2, <1>6, <1>7, <1>8 DEF Orderly
      <3>2. op.off <= put
        <4>1. op.off <= mb.offset /\ Len(out) + mb.offset <= put /\ Len(out) \in Nat
              /\ mb.offset \in Nat /\ put \in Nat
          BY <1>2, State
        <4>. QED BY <1>4, <4>1
      <3>3. op.off + Len(q) <= MaxBytes
        <4>1. put \in Nat /\ MaxBytes \in Nat
          BY State
        <4>. HIDE DEF r
        <4>. QED BY <1>2, <1>4, <1>8, <3>2, <4>1
      <3>. QED BY <1>4, <3>1, <3>3
    <2>2. PICK success \in BOOLEAN : success <=> nw = op.off
      OBVIOUS
    <2>3. r = AddAfterStream(b, op.off, q, op.at, success)
      BY <2>2
    <2>4. ~success => op.off = b.offset
      BY <1>9, <2>2
    <2>. HIDE DEF r
    <2>5. AfterStream(n, b, q, op.at, op.off, success)
      BY <1>2, <1>6, <1>8, <1>9, <2>1, <2>4 DEF AfterStream
    <2>6. AddedAfter(AddAfterStream(b, op.off, q, op.at, success), n, b, q, op.at)
      BY <2>1, <2>5, AddAfterBytes
    <2>. QED BY <2>3, <2>6 DEF AddedAfter
  <1>. HIDE DEF r
  <1>11. Counts(out', 0) /\ Len(out') = n
    BY <1>1, <1>4, TakenBytes DEF n
  <1>12. BufOK(mb') /\ Holds(mb', Len(out'))
    BY <1>1, <1>10, <1>11
  <1>13. put' = Len(out') + mb'.offset /\ put' \in 0..MaxBytes
    <2>1. put' = (IF op.at THEN put + op.k ELSE put) /\ Len(out') = n
          /\ mb'.offset = IF op.at THEN b.offset + op.k ELSE b.offset
      BY <1>1, <1>8, <1>10, <1>11
    <2>2. n \in Nat /\ b.offset \in Nat /\ op.k \in Nat /\ put = n + b.offset /\ op.at \in BOOLEAN
      BY <1>2, <1>4, <1>7, <1>9
    <2>3. put \in Nat /\ put <= MaxBytes /\ put + op.k <= MaxBytes /\ MaxBytes \in Nat
      BY <1>2, State
    <2>. QED BY <2>1, <2>2, <2>3
  <1>. QED BY <1>1, <1>3, <1>11, <1>12, <1>13, DoneKeeps

LEMMA FlushKeeps ==
  ASSUME Inv, NEW close \in BOOLEAN, membuf_flush(close) PROVE Inv'
  <1>1. /\ op = Idle /\ op' = [kind |-> "flush", close |-> close, sz |-> mb.offset]
        /\ UNCHANGED <<other, mb, put, out, line>>
    BY DEF membuf_flush, MayCall
  <1>2. op'.kind = "flush" /\ op'.close = close /\ op'.sz = mb.offset
    BY <1>1
  <1>3. OpOK(op', mb, put)
    BY <1>2, State DEF OpOK
  <1>4. InFlight' = <<>>
    BY <1>2, InFlightNext
  <1>. QED BY <1>1, <1>3, <1>4, BeginKeeps

LEMMA WriteBufferKeeps == ASSUME Inv, WriteBuffer PROVE Inv'
  <1>1. /\ op = Idle /\ op' = [kind |-> "write", sz |-> mb.offset]
        /\ UNCHANGED <<other, mb, put, out, line>>
    BY DEF WriteBuffer, MayCall
  <1>2. op'.kind = "write" /\ op'.sz = mb.offset
    BY <1>1
  <1>3. OpOK(op', mb, put)
    BY <1>2, State DEF OpOK
  <1>4. InFlight' = <<>>
    BY <1>2, InFlightNext
  <1>. QED BY <1>1, <1>3, <1>4, BeginKeeps

\* The first nw bytes have left.
LEMMA LeaveKeeps ==
  ASSUME Inv, InFlight = <<>>, NEW nw \in 0..mb.offset, other' = other, put' = put,
         WholeLines', op' = Idle, out' = out \o First(mb, nw),
         BufOK(mb'), Holds(mb', Len(out) + nw), mb'.offset = mb.offset - nw
  PROVE  Inv'
  <1>1. Counts(out', 0) /\ Len(out') = Len(out) + nw
    BY TakenBytes
  <1>2. put' = Len(out') + mb'.offset
    BY <1>1, State
  <1>3. put' \in 0..MaxBytes /\ Holds(mb', Len(out'))
    BY <1>1 DEF Inv
  <1>. QED BY <1>1, <1>2, <1>3, DoneKeeps

LEMMA WriteKeeps ==
  ASSUME Orderly, Inv, NEW nw \in 0..MaxBytes, op.kind = "flush", nw <= op.sz, sys_write(nw)
  PROVE  Inv'
  <1>1. /\ other' = other /\ line' = line /\ put' = put /\ op' = Idle
        /\ out' = out \o First(mb, nw)
        /\ mb' = (IF op.close THEN [mb EXCEPT !.offset = 0] ELSE stream_write(mb, op.sz, nw))
        /\ nw < op.sz => (IF op.close THEN "close" ELSE "flush") \in Partial
    BY DEF sys_write
  <1>2. /\ op.close \in BOOLEAN /\ op.sz \in 0..mb.offset
        /\ (op.close \/ AddDuring = {}) => op.sz = mb.offset
    BY DEF Inv, OpOK
  <1>3. BufOK(mb) /\ Holds(mb, Len(out)) /\ WholeLines' /\ InFlight = <<>>
    BY <1>1, LinesKept, InFlightIs DEF Inv
  <1>4. nw \in 0..op.sz /\ nw \in 0..mb.offset /\ Len(out) + nw \in Nat
    BY <1>2, State
  <1>5. CASE op.close
    <2>1. nw = mb.offset /\ mb.offset - nw = 0
      BY <1>1, <1>2, <1>4, <1>5, State, SMTT(30) DEF Orderly
    <2>2. mb' = [mb EXCEPT !.offset = 0]
      BY <1>1, <1>5
    <2>3. BufOK(mb') /\ Holds(mb', Len(out) + nw) /\ mb'.offset = 0
      BY <1>3, <1>4, <2>2, EmptiedBytes
    <2>. QED BY <1>1, <1>3, <1>4, <2>1, <2>3, LeaveKeeps
  <1>6. CASE ~op.close
    <2>1. Bufio \/ (nw = op.sz /\ op.sz = mb.offset)
      <3>. SUFFICES ASSUME ~Bufio PROVE nw = op.sz /\ op.sz = mb.offset
        OBVIOUS
      <3>1. Partial = {} /\ AddDuring = {}
        BY DEF Orderly
      <3>2. ~(nw < op.sz) /\ op.sz = mb.offset
        BY <1>1, <1>2, <3>1
      <3>. QED BY <1>2, <1>4, <3>2, State
    <2>2. mb' = stream_write(mb, op.sz, nw)
      BY <1>1, <1>6
    <2>3. BufOK(mb') /\ Holds(mb', Len(out) + nw) /\ mb'.offset = mb.offset - nw
      <3>1. Len(out) \in Nat /\ op.sz \in 0..mb.offset /\ nw \in 0..op.sz
        BY <1>2, <1>4, State
      <3>2. Bufio \/ (nw = op.sz /\ op.sz = mb.offset) \/ (nw = 0 /\ op.sz # 0)
        BY <2>1
      <3>. QED BY ONLY <1>3, <2>2, <3>1, <3>2, StreamBytes, ZenonT(30)
    <2>. QED BY <1>1, <1>3, <1>4, <2>3, LeaveKeeps
  <1>. QED BY <1>2, <1>5, <1>6

LEMMA SockWriteKeeps ==
  ASSUME Inv, NEW nw \in 0..MaxBytes, op.kind = "write", nw <= op.sz, sock_write(nw)
  PROVE  Inv'
  <1>1. /\ other' = other /\ line' = line /\ put' = put /\ op' = Idle
        /\ out' = out \o First(mb, nw) /\ mb' = sys_buffer_read_next(mb, nw)
    BY DEF sock_write
  <1>2. op.sz \in 0..mb.offset
    BY DEF Inv, OpOK
  <1>3. BufOK(mb) /\ Holds(mb, Len(out)) /\ WholeLines' /\ InFlight = <<>>
    BY <1>1, LinesKept, InFlightIs DEF Inv
  <1>4. nw \in 0..mb.offset
    BY <1>2, State
  <1>5. BufOK(mb') /\ Holds(mb', Len(out) + nw) /\ mb'.offset = mb.offset - nw
    BY <1>1, <1>3, <1>4, State, MovedBytes
  <1>. QED BY <1>1, <1>3, <1>4, <1>5, LeaveKeeps

LEMMA OtherAddsKeeps ==
  ASSUME Orderly, Inv, NEW k \in 1..MaxPut, OtherAdds(k), ~clash' PROVE Inv'
  <1>. DEFINE q == New(k)
              c == Copied(mb, mb.offset, q)
  <1>1. /\ During \in AddDuring /\ put + k + (IF op.kind = "add" THEN op.k ELSE 0) <= MaxBytes
        /\ Fits(mb, q) /\ mb' = c /\ put' = put + k /\ UNCHANGED <<other, out, op, line>>
    BY DEF OtherAdds
  <1>. HIDE DEF q
  <1>2. /\ op.kind \in {"flush", "write", "add"} /\ AddDuring # {} /\ (op.kind = "flush" => ~op.close)
    BY <1>1, StreamsAssumption DEF Orderly, During
  <1>3. InFlight = <<>> /\ InFlight' = <<>> /\ k \in Nat
    BY <1>1, <1>2, InFlightIs, InFlightNext, StreamsAssumption
  <1>4. /\ put = Len(out) + mb.offset /\ Len(out) \in Nat /\ mb.offset \in Nat /\ put \in Nat
    BY <1>3, State
  <1>5. Counts(q, Len(out) + mb.offset) /\ Len(q) = k
    BY <1>3, <1>4, NewBytes DEF q
  <1>6. mb.offset + Len(q) < mb.len
    BY <1>1 DEF Fits
  <1>a. op.kind = "add" => op.k \in Nat
    BY DEF Inv, OpOK
  <1>b. put + k <= MaxBytes
    <2>1. CASE op.kind = "add"
      <3>1. put + k + op.k <= MaxBytes
        BY <1>1, <2>1
      <3>. QED BY <1>3, <1>4, <1>a, <2>1, <3>1, State
    <2>2. CASE op.kind # "add"
      <3>1. put + k + 0 <= MaxBytes
        BY <1>1, <2>2
      <3>. QED BY <1>3, <1>4, <3>1
    <2>. QED BY <2>1, <2>2
  <1>7. mb.offset + Len(q) <= mb.len /\ mb.offset + Len(q) <= Capacity
    BY <1>3, <1>4, <1>5, <1>6, <1>b, State
  <1>8. BufOK(mb) /\ Holds(mb, Len(out)) /\ WholeLines' /\ Counts(out', 0)
    BY <1>1, LinesKept DEF Inv
  <1>9. BufOK(c) /\ Holds(c, Len(out)) /\ c.offset = mb.offset + k /\ c.len = mb.len
    BY <1>4, <1>5, <1>7, <1>8, CopiedBytes
  <1>. HIDE DEF c
  <1>10. BufOK(mb') /\ Holds(mb', Len(out')) /\ mb'.offset = mb.offset + k /\ mb'.len = mb.len
    BY <1>1, <1>9
  <1>11. Counts(InFlight', Len(out') + mb'.offset) /\ Len(InFlight') = 0
    BY <1>3, NoBytes
  <1>12. put' = Len(out') + mb'.offset + Len(InFlight') /\ put' \in 0..MaxBytes
    BY <1>1, <1>3, <1>4, <1>10, <1>11, <1>b, State, SMTT(30)
  <1>13. OpOK(op', mb', put')
    <2>1. OpOK(op, mb, put) /\ op' = op
      BY <1>1 DEF Inv
    <2>2. CASE op.kind = "add"
      <3>1. put + k + op.k <= MaxBytes
        BY <1>1, <2>2
      <3>2. put' + op.k <= MaxBytes
        BY <1>1, <3>1
      <3>3. /\ op.at \in BOOLEAN /\ op.k \in Nat /\ op.off \in 0..mb.offset
            /\ mb.len <= op.off + op.k
        BY <2>1, <2>2 DEF OpOK
      <3>4. op.off \in 0..mb'.offset /\ mb'.len <= op.off + op.k
        BY <1>3, <1>4, <1>10, <3>3
      <3>. QED BY <1>2, <2>1, <2>2, <3>2, <3>3, <3>4 DEF OpOK
    <2>3. CASE op.kind # "add"
      BY <1>2, <1>3, <1>4, <1>10, <2>1, <2>3 DEF OpOK
    <2>. QED BY <2>2, <2>3
  <1>. QED BY <1>1, <1>8, <1>10, <1>11, <1>12, <1>13, StepKeeps

-----------------------------------------------------------------------------
(***************************************************************************)
(* Reading from a descriptor.                                              *)
(***************************************************************************)
LEMMA ReadKeeps ==
  ASSUME Inv, NEW str \in BOOLEAN, NEW n \in 1..Endless, sys_read(str, n) PROVE Inv'
  <1>. DEFINE w == sys_buffer_write_init(mb, str)
  <1>1. /\ op = Idle /\ (str => mb.offset = 0)
        /\ op' = [kind |-> "read", str |-> str, got |-> <<>>, at |-> w.at, size |-> w.size,
                  n |-> n, any |-> FALSE]
        /\ UNCHANGED <<other, mb, put, out, line>>
    BY DEF sys_read, MayCall
  <1>2. w = IF str THEN [at |-> 0, size |-> BufSize] ELSE [at |-> mb.offset, size |-> mb.len - mb.offset]
    BY DEF sys_buffer_write_init
  <1>. HIDE DEF w
  <1>3. w.at = (IF str THEN 0 ELSE mb.offset) /\ w.size = IF str THEN BufSize ELSE mb.len - mb.offset
    BY <1>2
  <1>4. w.at \in Nat /\ w.size \in Nat
    BY <1>3, State, StreamsAssumption
  <1>5. /\ op'.kind = "read" /\ op'.str = str /\ op'.got = <<>> /\ op'.at = w.at
        /\ op'.size = w.size
    BY <1>1
  <1>6. op' \in Reads
    <2>1. n \in Nat \ {0} /\ <<>> \in Seq(Nat)
      BY StreamsAssumption DEF Endless
    <2>. QED BY <1>1, <1>4, <2>1 DEF Reads
  <1>7. OpOK(op', mb, put)
    BY <1>1, <1>3, <1>5, <1>6 DEF OpOK
  <1>8. InFlight' = <<>>
    BY <1>5, InFlightNext
  <1>. QED BY <1>1, <1>7, <1>8, BeginKeeps

LEMMA ReadFailsKeeps == ASSUME Orderly, Inv, ReadFails PROVE Inv'
  <1>1. op.kind = "read" /\ ~op.any /\ UNCHANGED <<mb, out, other, put, line>> /\ op' = Idle
    BY DEF ReadFails, Orderly
  <1>2. op.got = <<>>
    BY <1>1 DEF Inv, OpOK
  <1>3. InFlight = <<>>
    BY <1>1, <1>2, InFlightIs
  <1>4. put = Len(out) + mb.offset
    BY <1>3, State
  <1>5. /\ put' \in 0..MaxBytes /\ Counts(out', 0) /\ BufOK(mb') /\ Holds(mb', Len(out'))
        /\ WholeLines' /\ put' = Len(out') + mb'.offset
    BY <1>1, <1>4, LinesKept DEF Inv
  <1>. QED BY <1>1, <1>5, DoneKeeps

\* read() into the buffer copies the bytes that come, but leaves the offset.
LEMMA StoredIsCopied ==
  ASSUME put \in Nat, BufOK(mb), NEW nr \in Nat
  PROVE  LET b == Stored(mb, mb.offset, nr)
         IN  /\ [b EXCEPT !.offset = mb.offset + nr] = Copied(mb, mb.offset, New(nr))
             /\ b.len = mb.len /\ b.offset = mb.offset
  <1>. DEFINE off == mb.offset
              q == New(nr)
              m == [i \in 1..Capacity |-> IF i \in (off + 1)..(off + nr) THEN put + i - off ELSE mb.mem[i]]
              k == [i \in 1..Capacity |->
                      IF i \in (off + 1)..(off + Len(q)) THEN q[i - off] ELSE mb.mem[i]]
  <1>1. Len(q) = nr /\ \A i \in 1..nr : q[i] = put + i
    BY NewBytes DEF Counts
  <1>2. off \in Nat /\ mb = [mem |-> mb.mem, len |-> mb.len, offset |-> off]
    BY DEF BufOK
  <1>3. Stored(mb, off, nr) = [mb EXCEPT !.mem = m]
    BY DEF Stored
  <1>4. Copied(mb, off, q) = [mb EXCEPT !.mem = k, !.offset = off + Len(q)]
    BY DEF Copied
  <1>. HIDE DEF q
  <1>5. ASSUME NEW i \in 1..Capacity PROVE m[i] = k[i]
    <2>1. CASE i \in (off + 1)..(off + nr)
      <3>1. i - off \in 1..nr /\ put + (i - off) = put + i - off
        BY <1>2, <2>1
      <3>. QED BY <1>1, <2>1, <3>1
    <2>2. CASE i \notin (off + 1)..(off + nr)
      BY <1>1, <2>2
    <2>. QED BY <2>1, <2>2
  <1>6. m = k
    BY <1>5
  <1>. HIDE DEF m, k
  <1>7. Stored(mb, off, nr) = [mem |-> m, len |-> mb.len, offset |-> off]
    BY <1>2, <1>3
  <1>8. Copied(mb, off, q) = [mem |-> m, len |-> mb.len, offset |-> off + nr]
    BY <1>1, <1>2, <1>4, <1>6
  <1>. QED BY <1>7, <1>8 DEF q

\* What leaves a buffer that is not yet the one of the next state.
LEMMA TakenFrom ==
  ASSUME Counts(out, 0), NEW b, BufOK(b), Holds(b, Len(out)), NEW k \in 0..b.offset
  PROVE  LET o == out \o First(b, k)
         IN  Counts(o, 0) /\ Len(o) = Len(out) + k
  <1>. DEFINE p == First(b, k)
  <1>1. Len(out) \in Nat /\ 0 + Len(out) = Len(out)
    BY DEF Counts
  <1>3. Counts(p, Len(out)) /\ Len(p) = k
    BY <1>1, HeadBytes
  <1>. HIDE DEF p
  <1>4. Counts(out \o p, 0) /\ Len(out \o p) = Len(out) + k
    BY <1>1, <1>3, JoinedBytes, SMTT(30)
  <1>. QED BY <1>4 DEF p

\* A full buffer is written out or grows.
LEMMA WriteNextBytes ==
  ASSUME Growable, NEW n \in Nat, NEW b, b.len \in Nat \ {0}, b.len <= MaxBytes,
         BufOK([b EXCEPT !.offset = b.len]), Holds([b EXCEPT !.offset = b.len], n),
         [b EXCEPT !.offset = b.len].offset = b.len, [b EXCEPT !.offset = b.len].len = b.len,
         NEW nw \in {0, b.len}, nw # 0 => HasOutput
  PROVE  LET r == sys_buffer_write_next(b, nw)
         IN  /\ r.ok /\ BufOK(r.b) /\ Holds(r.b, n + nw) /\ r.b.offset < r.b.len
             /\ r.b.offset = b.len - nw
  <1>. DEFINE full == [b EXCEPT !.offset = b.len]
              c == stream_write(full, b.len, nw)
              r == sys_buffer_write_next(b, nw)
  <1>1. BufOK(full) /\ Holds(full, n) /\ full.offset = b.len /\ full.len = b.len
    OBVIOUS
  <1>2. IF HasOutput THEN r = AddAfterStream(c, b.len, <<>>, FALSE, nw = b.len)
        ELSE r = AddGrow(full, b.len, b.len, b.len, <<>>, FALSE)
    BY DEF sys_buffer_write_next
  <1>. HIDE DEF full
  <1>3. <<>> \in Seq(Nat) /\ Len(<<>>) = 0 /\ nw \in Nat /\ n + nw \in Nat /\ b.len + 0 = b.len
        /\ nw \in 0..b.len /\ b.len \in 0..b.len /\ b.len - 0 = b.len
    OBVIOUS
  <1>a. PICK at \in BOOLEAN : ~at
    OBVIOUS
  <1>b. PICK e \in Seq(Nat) : e = <<>>
    BY <1>3
  <1>4. CASE HasOutput
    <2>1. Bufio \/ (nw = b.len /\ b.len = full.offset) \/ (nw = 0 /\ b.len # 0)
      BY <1>1
    <2>2. BufOK(c) /\ Holds(c, n + nw) /\ c.offset = b.len - nw /\ c.len = b.len
      BY <1>1, <1>3, <2>1, StreamBytes
    <2>. HIDE DEF c
    <2>3. PICK success \in BOOLEAN : success <=> nw = b.len
      OBVIOUS
    <2>4. r = AddAfterStream(c, b.len, e, at, success)
      BY <1>2, <1>4, <1>a, <1>b, <2>3
    <2>. HIDE DEF r
    <2>5. c.offset <= b.len /\ (~success => b.len = c.offset) /\ b.len \in Nat
      BY <1>3, <2>2, <2>3
    <2>6. c.len <= b.len + Len(e) /\ b.len + Len(e) <= MaxBytes
      BY <1>3, <1>b, <2>2
    <2>7. AddedAfter(AddAfterStream(c, b.len, e, at, success), n + nw, c, e, at)
      <3>1. AfterStream(n + nw, c, e, at, b.len, success)
        BY <1>3, <1>a, <2>2, <2>5, <2>6 DEF AfterStream
      <3>. QED BY <3>1, AddAfterBytes
    <2>8. r.ok /\ BufOK(r.b) /\ Holds(r.b, n + nw) /\ r.b.offset < r.b.len /\ r.b.offset = b.len - nw
      BY <1>a, <2>2, <2>4, <2>7 DEF AddedAfter
    <2>. QED BY <2>8 DEF r
  <1>5. CASE ~HasOutput
    <2>1. nw = 0 /\ n + nw = n /\ b.len - nw = b.len
      BY <1>5
    <2>2. r = AddGrow(full, full.offset, full.len, b.len, e, at)
      BY <1>1, <1>2, <1>5, <1>a, <1>b
    <2>. HIDE DEF r
    <2>3. full.len <= b.len /\ full.offset + Len(e) <= b.len /\ b.len \in Nat
      BY <1>1, <1>3, <1>b
    <2>4. LET x == AddGrow(full, full.offset, full.len, b.len, e, at)
          IN  /\ x.ok /\ BufOK(x.b) /\ Holds(x.b, n) /\ b.len < x.b.len
              /\ x.b.offset = IF at THEN full.offset + Len(e) ELSE full.offset
      BY <1>1, <1>a, <2>3, AddGrowBytes
    <2>5. r.ok /\ BufOK(r.b) /\ Holds(r.b, n + nw) /\ r.b.offset < r.b.len /\ r.b.offset = b.len - nw
      BY <1>1, <1>a, <2>1, <2>2, <2>4
    <2>. QED BY <2>5 DEF r
  <1>. QED BY <1>4, <1>5

LEMMA ReadReturnsKeeps ==
  ASSUME Orderly, Inv, NEW nr \in 0..MaxBytes, NEW nw \in 0..MaxBytes, ReadReturns(nr, nw)
  PROVE  Inv'
  <1>. DEFINE rlen == IF op.n <= op.size THEN op.n ELSE op.size
              n == IF op.n = Endless THEN Endless ELSE op.n - nr
              b == IF op.str THEN mb ELSE Stored(mb, op.at, nr)
              got == IF op.str THEN op.got \o New(nr) ELSE <<>>
              r == sys_buffer_write_next(b, nw)
              full == [b EXCEPT !.offset = b.len]
              c == Copied(mb, mb.offset, New(nr))
  <1>1. /\ op.kind = "read" /\ nr <= rlen /\ put + nr <= MaxBytes /\ put' = put + nr
        /\ other' = other /\ line' = line
    BY DEF ReadReturns
  <1>2. /\ op \in Reads
        /\ IF op.str THEN mb.offset = 0
           ELSE op.got = <<>> /\ op.at = mb.offset /\ op.size = mb.len - mb.offset
    BY <1>1 DEF Inv, OpOK
  <1>3. /\ op.str \in BOOLEAN /\ op.got \in Seq(Nat) /\ op.at \in Nat /\ op.size \in Nat
        /\ op.n \in Nat \ {0} /\ nr \in Nat
    BY <1>2 DEF Reads
  <1>4. /\ Counts(out, 0) /\ BufOK(mb) /\ Holds(mb, Len(out)) /\ WholeLines'
        /\ Len(out) \in Nat /\ mb.offset \in Nat /\ put \in Nat /\ mb.len \in Nat \ {0}
        /\ put' \in 0..MaxBytes
    <2>1. put \in Nat /\ put + nr <= MaxBytes /\ put' = put + nr /\ nr \in Nat /\ MaxBytes \in Nat
      BY <1>1, <1>3, State
    <2>2. put' \in 0..MaxBytes
      BY <2>1
    <2>3. Counts(out, 0) /\ BufOK(mb) /\ Holds(mb, Len(out)) /\ WholeLines
      BY DEF Inv
    <2>4. WholeLines'
      BY <1>1, <2>3, LinesKept
    <2>5. Len(out) \in Nat /\ mb.offset \in Nat /\ mb.len \in Nat \ {0}
      BY State
    <2>. QED BY <2>1, <2>2, <2>3, <2>4, <2>5
  <1>5. InFlight = op.got /\ Counts(op.got, Len(out) + mb.offset) /\ put = Len(out) + mb.offset + Len(op.got)
    BY <1>1, InFlightIs DEF Inv
  <1>6. Counts(New(nr), put) /\ Len(New(nr)) = nr
    BY <1>3, <1>4, NewBytes
  <1>7. CASE op.str
    <2>1. mb.offset = 0 /\ b = mb /\ got = op.got \o New(nr)
      BY <1>2, <1>7
    <2>2. Counts(op.got, Len(out)) /\ put = Len(out) + Len(op.got) /\ Len(op.got) \in Nat
      BY <1>3, <1>4, <1>5, <2>1
    <2>3. Counts(got, Len(out)) /\ Len(got) = Len(op.got) + nr
      <3>1. Counts(New(nr), Len(out) + Len(op.got))
        BY <1>6, <2>2
      <3>2. PICK p, q : p = op.got /\ q = New(nr)
        OBVIOUS
      <3>3. Len(out) \in Nat /\ Counts(p, Len(out)) /\ Counts(q, Len(out) + Len(p))
        BY <1>4, <2>2, <3>1, <3>2
      <3>4. Counts(p \o q, Len(out)) /\ Len(p \o q) = Len(p) + Len(q)
        BY <3>3, JoinedBytes
      <3>. HIDE DEF got
      <3>. QED BY <1>6, <2>1, <3>2, <3>4
    <2>4. CASE n # 0 /\ nr = rlen
      <3>1. /\ op' = [op EXCEPT !.n = n, !.any = TRUE, !.got = got,
                               !.size = IF op.got = <<>> THEN @ ELSE 2 * Len(op.got)]
            /\ UNCHANGED <<mb, out>>
        BY <1>7, <2>4 DEF ReadReturns
      <3>2. n \in Nat \ {0}
        BY <1>1, <1>3, <2>4, StreamsAssumption DEF Endless
      <3>3. (IF op.got = <<>> THEN op.size ELSE 2 * Len(op.got)) \in Nat
        BY <1>3, <2>2
      <3>4. got \in Seq(Nat)
        BY <2>3 DEF Counts
      <3>. HIDE DEF got, n
      <3>5. op' \in Reads
        BY <1>2, <3>1, <3>2, <3>3, <3>4 DEF Reads
      <3>6. op'.kind = "read" /\ op'.str /\ op'.got = got /\ op'.any
        BY <1>1, <1>2, <1>7, <3>1 DEF Reads
      <3>7. OpOK(op', mb', put')
        BY <2>1, <3>1, <3>5, <3>6 DEF OpOK
      <3>8. InFlight' = got
        BY <3>6, InFlightNext
      <3>9. Counts(InFlight', Len(out') + mb'.offset)
        BY <1>4, <2>1, <2>3, <3>1, <3>8
      <3>10. put' = Len(out') + mb'.offset + Len(InFlight')
        BY <1>1, <1>3, <1>4, <2>1, <2>2, <2>3, <3>1, <3>8
      <3>. QED BY <1>1, <1>4, <3>1, <3>7, <3>9, <3>10, StepKeeps
    <2>5. CASE ~(n # 0 /\ nr = rlen)
      <3>1. op' = Idle /\ WriteDone(b, got, nr)
        BY <2>5 DEF ReadReturns
      <3>. HIDE DEF got, b
      <3>2. out' = out \o got /\ mb' = b
        <4>1. nr >= 0
          BY <1>3
        <4>. QED BY <1>7, <3>1, <4>1 DEF WriteDone
      <3>3. Counts(out', 0) /\ Len(out') = Len(out) + Len(got)
        <4>1. 0 + Len(out) = Len(out)
          BY <1>4
        <4>2. Counts(got, 0 + Len(out))
          BY <2>3, <4>1
        <4>3. Counts(out \o got, 0) /\ Len(out \o got) = Len(out) + Len(got)
          BY <1>4, <4>2, JoinedBytes
        <4>. QED BY <3>2, <4>3
      <3>4. mb' = mb
        BY <2>1, <3>2
      <3>5. BufOK(mb') /\ Holds(mb', Len(out'))
        BY <1>4, <2>1, <3>4, CapacityIs DEF Holds
      <3>6. put' = Len(out') + mb'.offset
        BY <1>1, <1>3, <1>4, <2>1, <2>2, <2>3, <3>3, <3>4
      <3>. QED BY <1>1, <1>4, <3>1, <3>3, <3>5, <3>6, DoneKeeps
    <2>. QED BY <2>4, <2>5
  <1>8. CASE ~op.str
    <2>1. /\ b = Stored(mb, mb.offset, nr) /\ got = <<>> /\ op.size = mb.len - mb.offset
          /\ op.got = <<>>
      BY <1>2, <1>8
    <2>2. put = Len(out) + mb.offset
      BY <1>4, <1>5, <2>1
    <2>3. nr <= op.size /\ mb.offset + nr <= mb.len /\ Len(out) + mb.offset + nr <= MaxBytes
          /\ mb.offset + nr <= Capacity
      <3>1. nr <= op.size
        BY <1>1, <1>3
      <3>. HIDE DEF b, c, got
      <3>. QED BY <1>1, <1>3, <1>4, <2>1, <2>2, <3>1, CapacityIs, SMTT(30)
    <2>4. [b EXCEPT !.offset = mb.offset + nr] = c /\ b.len = mb.len /\ b.offset = mb.offset
      BY <1>3, <1>4, <2>1, StoredIsCopied
    <2>5. BufOK(c) /\ Holds(c, Len(out)) /\ c.offset = mb.offset + nr /\ c.len = mb.len
      <3>1. Counts(New(nr), Len(out) + mb.offset)
        BY <1>6, <2>2
      <3>2. mb.offset + Len(New(nr)) <= mb.len /\ mb.offset + Len(New(nr)) <= Capacity
        BY <1>6, <2>3
      <3>. QED BY <1>4, <1>6, <3>1, <3>2, CopiedBytes
    <2>6. CASE n # 0 /\ nr = rlen
      <3>1. nr = op.size
        BY <1>1, <1>3, <1>4, <2>6, StreamsAssumption DEF Endless
      <3>2. /\ nw \in {0, b.len} /\ (nw # 0 => HasOutput) /\ out' = out \o First(b, nw)
            /\ mb' = (IF r.ok THEN r.b ELSE [r.b EXCEPT !.offset = @ + nr])
            /\ op' = (IF r.ok THEN [op EXCEPT !.n = n, !.any = @ \/ nr > 0, !.at = r.b.offset,
                                             !.size = r.b.len - r.b.offset]
                      ELSE Idle)
        BY <1>8, <2>6 DEF ReadReturns, Takes, Orderly
      <3>3. n \in Nat \ {0}
        BY <1>1, <1>3, <2>6, StreamsAssumption DEF Endless
      <3>4. mb.offset + nr = mb.len
        BY <1>4, <2>1, <3>1
      <3>5. full = c
        BY <2>4, <3>4
      <3>. HIDE DEF c, b
      <3>6. BufOK(full) /\ Holds(full, Len(out)) /\ full.offset = b.len /\ full.len = b.len
        BY <2>4, <2>5, <3>4, <3>5
      <3>7. b.len \in Nat \ {0} /\ Len(out) + b.len <= MaxBytes /\ b.len <= MaxBytes
        BY <1>4, <2>3, <2>4, <3>4, CapacityIs
      <3>8. /\ r.ok /\ BufOK(r.b) /\ Holds(r.b, Len(out) + nw) /\ r.b.offset < r.b.len
            /\ r.b.offset = b.len - nw
        <4>. HIDE DEF r
        <4>1. LET x == sys_buffer_write_next(b, nw)
              IN  /\ x.ok /\ BufOK(x.b) /\ Holds(x.b, Len(out) + nw) /\ x.b.offset < x.b.len
                  /\ x.b.offset = b.len - nw
          BY <1>4, <3>2, <3>6, <3>7, WriteNextBytes DEF Orderly
        <4>. QED BY <4>1 DEF r
      <3>. HIDE DEF r, full, n
      <3>9. nw \in 0..full.offset
        BY <3>2, <3>6, <3>7
      <3>10. Counts(out', 0) /\ Len(out') = Len(out) + nw
        <4>1. First(full, nw) = First(b, nw)
          <5>1. full.mem = b.mem
            BY <1>3, <1>4, <2>1 DEF full, b, Stored, BufOK
          <5>. QED BY <5>1 DEF First
        <4>2. Counts(out \o First(full, nw), 0) /\ Len(out \o First(full, nw)) = Len(out) + nw
          BY <1>4, <3>6, <3>9, TakenFrom
        <4>. QED BY <3>2, <4>1, <4>2
      <3>11. mb' = r.b /\ op' = [op EXCEPT !.n = n, !.any = @ \/ nr > 0, !.at = r.b.offset,
                                            !.size = r.b.len - r.b.offset]
        BY <3>2, <3>8
      <3>12. r.b.offset \in Nat /\ r.b.len \in Nat /\ r.b.len - r.b.offset \in Nat
             /\ r.b.len - r.b.offset > 0
        <4>1. r.b.offset \in Nat /\ r.b.len \in Nat
          BY <3>8 DEF BufOK
        <4>. QED BY <3>8, <4>1
      <3>13. op' \in Reads
        BY <1>2, <3>3, <3>11, <3>12 DEF Reads
      <3>14. /\ op'.kind = "read" /\ ~op'.str /\ op'.got = <<>> /\ op'.at = r.b.offset
             /\ op'.size = r.b.len - r.b.offset
        BY <1>1, <1>2, <1>8, <2>1, <3>11 DEF Reads
      <3>15. OpOK(op', mb', put')
        BY <3>11, <3>12, <3>13, <3>14 DEF OpOK
      <3>16. InFlight' = <<>>
        BY <3>14, InFlightNext
      <3>17. Counts(InFlight', Len(out') + mb'.offset) /\ Len(InFlight') = 0
        BY <3>16, NoBytes
      <3>18. put' = Len(out') + mb'.offset + Len(InFlight')
        <4>1. put' = Len(out) + b.len /\ nw \in Nat
          BY <1>1, <1>3, <1>4, <2>2, <2>4, <3>4
        <4>. QED BY <1>4, <3>7, <3>8, <3>10, <3>11, <3>17, <4>1
      <3>19. BufOK(mb') /\ Holds(mb', Len(out'))
        BY <3>8, <3>10, <3>11
      <3>. QED BY <1>1, <1>4, <3>10, <3>15, <3>17, <3>18, <3>19, StepKeeps
    <2>7. CASE ~(n # 0 /\ nr = rlen)
      <3>1. op' = Idle /\ WriteDone(b, got, nr)
        BY <2>7 DEF ReadReturns
      <3>2. mb' = [b EXCEPT !.offset = @ + nr] /\ out' = out
        BY <1>8, <3>1 DEF WriteDone
      <3>3. mb' = c
        BY <2>4, <3>2
      <3>. HIDE DEF c
      <3>4. BufOK(mb') /\ Holds(mb', Len(out')) /\ Counts(out', 0) /\ mb'.offset = mb.offset + nr
        BY <1>4, <2>5, <3>2, <3>3
      <3>5. put' = Len(out') + mb'.offset
        BY <1>1, <1>3, <1>4, <2>2, <3>2, <3>4
      <3>. QED BY <1>1, <1>4, <3>1, <3>4, <3>5, DoneKeeps
    <2>. QED BY <2>6, <2>7
  <1>. QED BY <1>3, <1>7, <1>8

-----------------------------------------------------------------------------
(***************************************************************************)
(* membuf:read.  As the bytes in the buffer are known by their numbers, so *)
(* are the newlines in it.                                                 *)
(***************************************************************************)
LEMMA NewlinesAre ==
  ASSUME NEW n \in Nat, NEW q, Counts(q, n)
  PROVE  NewlineIn(q) = {i \in 1..Len(q) : n + i \in Newlines}
  <1>1. DOMAIN q = 1..Len(q) /\ \A i \in 1..Len(q) : q[i] = n + i
    BY DEF Counts
  <1>. QED BY <1>1 DEF NewlineIn

\* The first newline of q, if it has one.
LEMMA FirstNewline ==
  ASSUME NEW n \in Nat, NEW q, Counts(q, n), NewlineIn(q) # {}
  PROVE  LET i == Min(NewlineIn(q))
         IN  /\ i \in 1..Len(q) /\ n + i \in Newlines
             /\ \A j \in 1..(i - 1) : n + j \notin Newlines
  <1>. DEFINE i == Min(NewlineIn(q))
  <1>0. Len(q) \in Nat
    BY DEF Counts
  <1>1. NewlineIn(q) = {j \in 1..Len(q) : n + j \in Newlines} /\ Len(q) \in Nat
    BY <1>0, NewlinesAre
  <1>2. NewlineIn(q) \subseteq Nat
    BY <1>1
  <1>3. i \in NewlineIn(q) /\ \A y \in NewlineIn(q) : i <= y
    BY <1>2, LeastOf
  <1>. HIDE DEF i
  <1>4. i \in 1..Len(q) /\ n + i \in Newlines
    BY <1>1, <1>3
  <1>5. ASSUME NEW j \in 1..(i - 1), n + j \in Newlines PROVE FALSE
    <2>1. j \in 1..Len(q)
      BY <1>1, <1>4
    <2>2. i <= j
      BY <1>1, <1>3, <1>5, <2>1
    <2>. QED BY <1>4, <2>2
  <1>. QED BY <1>4, <1>5 DEF i

\* A line that is cut off before its newline.
LEMMA LineIsWhole ==
  ASSUME NEW n \in Nat, Counts(line'.bytes, n),
         \A j \in 1..Len(line'.bytes) : n + j \notin Newlines,
         line'.ended => n + Len(line'.bytes) + 1 \in Newlines
  PROVE  WholeLines'
  <1>. DEFINE q == line'.bytes
  <1>1. q \in Seq(Nat) /\ Len(q) \in Nat /\ \A i \in 1..Len(q) : q[i] = n + i
    BY DEF Counts
  <1>2. NewlineIn(q) = {}
    <2>1. NewlineIn(q) = {j \in 1..Len(q) : n + j \in Newlines}
      BY NewlinesAre
    <2>2. \A j \in 1..Len(q) : n + j \notin Newlines
      OBVIOUS
    <2>. HIDE DEF q
    <2>. QED BY <2>1, <2>2
  <1>3. ASSUME q # <<>> PROVE Last(q) = n + Len(q)
    <2>1. Len(q) \in 1..Len(q)
      BY <1>1, <1>3
    <2>. QED BY <1>1, <2>1 DEF Last
  <1>4. line'.ended /\ q # <<>> => Last(q) + 1 \in Newlines
    BY <1>1, <1>3
  <1>. QED BY <1>2, <1>4 DEF WholeLines

LEMMA ReadBytesKeeps == ASSUME Inv, NEW l \in 1..MaxPut, read_bytes(l) PROVE Inv'
  <1>. DEFINE k == Min({l, mb.offset})
  <1>1. /\ op = Idle /\ out' = out \o First(mb, k)
        /\ mb' = sys_buffer_read_next(mb, k) /\ UNCHANGED <<other, put, op, line>>
    BY DEF read_bytes, MayCall
  <1>2. l \in Nat /\ mb.offset \in Nat
    BY State, StreamsAssumption
  <1>3. {l, mb.offset} \subseteq Nat /\ {l, mb.offset} # {}
    BY <1>2
  <1>4. k \in {l, mb.offset} /\ k <= mb.offset
    BY <1>3, LeastOf
  <1>. HIDE DEF k
  <1>5. k \in 0..mb.offset
    BY <1>2, <1>4
  <1>6. BufOK(mb) /\ Holds(mb, Len(out)) /\ WholeLines' /\ InFlight = <<>>
    BY <1>1, LinesKept, IdleNow DEF Inv
  <1>7. BufOK(mb') /\ Holds(mb', Len(out) + k) /\ mb'.offset = mb.offset - k
    BY <1>1, <1>5, <1>6, State, MovedBytes
  <1>. QED BY <1>1, <1>5, <1>6, <1>7, LeaveKeeps

LEMMA ReadBufferedKeeps == ASSUME Inv, ReadBuffered PROVE Inv'
  <1>. DEFINE q == Content(mb)
              i == Min(NewlineIn(q))
              p == First(mb, i - 1)
  <1>1. /\ op = Idle /\ BufferedLine(mb) > 0
        /\ line' = [bytes |-> First(mb, BufferedLine(mb) - 1), ended |-> TRUE, nil |-> FALSE]
        /\ out' = out \o First(mb, BufferedLine(mb))
        /\ mb' = sys_buffer_read_next(mb, BufferedLine(mb)) /\ UNCHANGED <<other, put, op>>
    BY DEF ReadBuffered, MayCall
  <1>2. NewlineIn(q) # {} /\ BufferedLine(mb) = i
    BY <1>1 DEF BufferedLine
  <1>3. /\ BufOK(mb) /\ Holds(mb, Len(out)) /\ InFlight = <<>> /\ Len(out) \in Nat
        /\ mb.offset \in Nat
    BY <1>1, IdleNow, State DEF Inv
  <1>4. Counts(q, Len(out)) /\ Len(q) = mb.offset
    BY <1>3, ContentBytes
  <1>. HIDE DEF q
  <1>5. /\ i \in 1..Len(q) /\ Len(out) + i \in Newlines
        /\ \A j \in 1..(i - 1) : Len(out) + j \notin Newlines
    BY <1>2, <1>3, <1>4, FirstNewline
  <1>. HIDE DEF i
  <1>6. i \in 0..mb.offset /\ i - 1 \in 0..mb.offset /\ i - 1 + 1 = i /\ i \in Nat
    BY <1>3, <1>4, <1>5
  <1>7. Counts(p, Len(out)) /\ Len(p) = i - 1
    BY <1>3, <1>6, HeadBytes
  <1>8. line'.bytes = p /\ Len(out) + Len(p) + 1 \in Newlines
    <2>1. line' = [bytes |-> p, ended |-> TRUE, nil |-> FALSE]
      BY <1>1, <1>2
    <2>. HIDE DEF p
    <2>2. Len(out) + Len(p) + 1 = Len(out) + i
      BY <1>3, <1>6, <1>7
    <2>. QED BY <1>5, <2>1, <2>2
  <1>. HIDE DEF p
  <1>9. WholeLines'
    BY <1>3, <1>5, <1>7, <1>8, LineIsWhole
  <1>10. BufOK(mb') /\ Holds(mb', Len(out) + i) /\ mb'.offset = mb.offset - i
    BY <1>1, <1>2, <1>3, <1>6, MovedBytes
  <1>11. out' = out \o First(mb, i)
    BY <1>1, <1>2
  <1>. QED BY <1>1, <1>3, <1>6, <1>9, <1>10, <1>11, LeaveKeeps

LEMMA NoBufferedLine == ASSUME Inv, BufferedLine(mb) = 0 PROVE NewlineIn(Content(mb)) = {}
  <1>. SUFFICES ASSUME NewlineIn(Content(mb)) # {} PROVE FALSE
    OBVIOUS
  <1>1. BufferedLine(mb) = Min(NewlineIn(Content(mb)))
    BY DEF BufferedLine
  <1>2. Counts(Content(mb), Len(out)) /\ Len(out) \in Nat
    BY State, ContentBytes DEF Inv
  <1>3. Min(NewlineIn(Content(mb))) \in 1..Len(Content(mb))
    BY <1>2, FirstNewline
  <1>. QED BY <1>1, <1>3

LEMMA ReadsLineKeeps == ASSUME Inv, ReadsLine PROVE Inv'
  <1>1. /\ op = Idle /\ BufferedLine(mb) = 0 /\ op' = [kind |-> "line"]
        /\ UNCHANGED <<other, mb, put, out, line>>
    BY DEF ReadsLine, MayCall
  <1>2. OpOK(op', mb, put)
    BY <1>1, NoBufferedLine DEF OpOK
  <1>3. InFlight' = <<>>
    BY <1>1, InFlightNext
  <1>. QED BY <1>1, <1>2, <1>3, BeginKeeps

LEMMA RestKeeps ==
  ASSUME Inv, InFlight = <<>>, NewlineIn(Content(mb)) = {}, RestIsLine PROVE Inv'
  <1>. DEFINE q == Content(mb)
  <1>1. /\ line' = [bytes |-> q, ended |-> FALSE, nil |-> q = <<>>] /\ out' = out \o q
        /\ mb' = [mb EXCEPT !.offset = 0] /\ op' = Idle /\ UNCHANGED <<other, put>>
    BY DEF RestIsLine
  <1>2. /\ BufOK(mb) /\ Holds(mb, Len(out)) /\ Counts(out, 0) /\ Len(out) \in Nat
        /\ mb.offset \in Nat /\ put \in 0..MaxBytes
    BY State DEF Inv
  <1>3. put = Len(out) + mb.offset
    BY State
  <1>4. Counts(q, Len(out)) /\ Len(q) = mb.offset
    BY <1>2, ContentBytes
  <1>5. NewlineIn(q) = {}
    OBVIOUS
  <1>. HIDE DEF q
  <1>6. \A j \in 1..Len(q) : Len(out) + j \notin Newlines
    BY <1>2, <1>4, <1>5, NewlinesAre
  <1>7. line'.bytes = q /\ ~line'.ended
    BY <1>1
  <1>8. WholeLines'
    BY <1>2, <1>4, <1>6, <1>7, LineIsWhole
  <1>9. Counts(out', 0) /\ Len(out') = Len(out) + mb.offset
    <2>1. Counts(q, 0 + Len(out))
      BY <1>2, <1>4
    <2>2. Counts(out \o q, 0) /\ Len(out \o q) = Len(out) + Len(q)
      BY <1>2, <2>1, JoinedBytes
    <2>. QED BY <1>1, <1>4, <2>2
  <1>10. Len(out') \in Nat
    BY <1>2, <1>9
  <1>11. BufOK(mb') /\ Holds(mb', Len(out')) /\ mb'.offset = 0
    BY <1>1, <1>2, <1>10, EmptiedBytes
  <1>12. put' = Len(out') + mb'.offset /\ put' \in 0..MaxBytes
    BY <1>1, <1>2, <1>3, <1>9, <1>11
  <1>. QED BY <1>1, <1>8, <1>9, <1>11, <1>12, DoneKeeps

LEMMA NothingComesKeeps == ASSUME Inv, NothingComes PROVE Inv'
  <1>1. op.kind = "line" /\ RestIsLine
    BY DEF NothingComes
  <1>2. InFlight = <<>> /\ NewlineIn(Content(mb)) = {}
    BY <1>1, InFlightIs DEF Inv, OpOK
  <1>. QED BY <1>1, <1>2, RestKeeps

LEMMA NoInputKeeps == ASSUME Inv, NoInput PROVE Inv'
  <1>1. op = Idle /\ BufferedLine(mb) = 0 /\ RestIsLine
    BY DEF NoInput, MayCall
  <1>. QED BY <1>1, IdleNow, NoBufferedLine, RestKeeps

\* The buffer grows for q.
LEMMA GrownFor ==
  ASSUME Growable, NEW n \in Nat, NEW b, BufOK(b), Holds(b, n), NEW q, Counts(q, n + b.offset),
         b.offset + Len(q) <= MaxBytes, ~Fits(b, q)
  PROVE  LET r == AddGrow(b, b.offset, b.len, b.offset + Len(q), q, TRUE)
         IN  r.ok /\ BufOK(r.b) /\ Holds(r.b, n) /\ r.b.offset = b.offset + Len(q)
  <1>1. b.offset \in Nat /\ b.len \in Nat \ {0} /\ q \in Seq(Nat) /\ Len(q) \in Nat
        /\ b.offset + Len(q) \in Nat
    BY DEF BufOK, Counts
  <1>2. ~(b.offset + Len(q) < b.len)
    BY DEF Fits
  <1>3. b.len <= b.offset + Len(q)
    BY <1>1, <1>2
  <1>4. PICK at \in BOOLEAN : at
    OBVIOUS
  <1>5. PICK newlen \in Nat : newlen = b.offset + Len(q)
    BY <1>1
  <1>6. b.len <= newlen /\ newlen <= MaxBytes /\ b.offset + Len(q) <= newlen
        /\ (at => Counts(q, n + b.offset))
    BY <1>3, <1>5
  <1>7. LET r == AddGrow(b, b.offset, b.len, newlen, q, at)
        IN  /\ r.ok /\ BufOK(r.b) /\ Holds(r.b, n)
            /\ r.b.offset = IF at THEN b.offset + Len(q) ELSE b.offset
    BY <1>1, <1>6, AddGrowBytes
  <1>. QED BY <1>4, <1>5, <1>7

LEMMA CopiedFits ==
  ASSUME NEW n \in Nat, NEW b, BufOK(b), Holds(b, n), NEW q, Counts(q, n + b.offset),
         b.offset + Len(q) <= MaxBytes, Fits(b, q)
  PROVE  LET c == Copied(b, b.offset, q)
         IN  BufOK(c) /\ Holds(c, n) /\ c.offset = b.offset + Len(q)
  <1>1. b.offset + Len(q) < b.len
    BY DEF Fits
  <1>2. b.offset \in Nat /\ b.len \in Nat /\ Len(q) \in Nat
    BY DEF BufOK, Counts
  <1>3. b.offset + Len(q) <= b.len /\ b.offset + Len(q) <= Capacity
    BY <1>1, <1>2, CapacityIs
  <1>. QED BY <1>3, CopiedBytes

\* A piece is added; the output stream took nw bytes, all or none, if it was called.
PieceReady(n, b, q, nw) ==
  /\ Growable /\ n \in Nat /\ BufOK(b) /\ Holds(b, n) /\ Counts(q, n + b.offset)
  /\ b.offset + Len(q) <= MaxBytes /\ nw \in {0, b.offset}
  /\ nw # 0 => HasOutput /\ ~Fits(b, q)

LEMMA PieceAdded ==
  ASSUME NEW n, NEW b, NEW q, NEW nw, PieceReady(n, b, q, nw)
  PROVE  LET r == Added(b, q, nw)
         IN  r.ok /\ BufOK(r.b) /\ Holds(r.b, n + nw) /\ r.b.offset = b.offset - nw + Len(q)
  <1>. USE DEF PieceReady
  <1>. DEFINE c == Copied(b, b.offset, q)
              d == stream_write(b, b.offset, nw)
              g == AddGrow(b, b.offset, b.len, b.offset + Len(q), q, TRUE)
              r == Added(b, q, nw)
  <1>1. b.offset \in Nat /\ b.len \in Nat \ {0} /\ q \in Seq(Nat) /\ Len(q) \in Nat
        /\ b.offset + Len(q) \in Nat /\ nw \in 0..b.offset /\ n + nw \in Nat
        /\ b.offset \in 0..b.offset
    BY DEF BufOK, Counts
  <1>2. CASE Fits(b, q)
    <2>1. r = [ok |-> TRUE, b |-> c] /\ nw = 0
      BY <1>2 DEF Added
    <2>2. BufOK(c) /\ Holds(c, n) /\ c.offset = b.offset + Len(q)
      BY <1>2, CopiedFits
    <2>. HIDE DEF c, r
    <2>3. r.ok /\ r.b = c /\ n + nw = n /\ b.offset - nw + Len(q) = b.offset + Len(q)
      BY <1>1, <2>1
    <2>. QED BY <2>2, <2>3 DEF r
  <1>3. CASE ~Fits(b, q) /\ HasOutput
    <2>1. Bufio \/ (nw = b.offset /\ b.offset = b.offset) \/ (nw = 0 /\ b.offset # 0)
      OBVIOUS
    <2>2. BufOK(d) /\ Holds(d, n + nw) /\ d.offset = b.offset - nw /\ d.len = b.len
      BY <1>1, <2>1, StreamBytes
    <2>a. PICK at \in BOOLEAN : at
      OBVIOUS
    <2>3. PICK success \in BOOLEAN : success <=> nw = b.offset
      OBVIOUS
    <2>4. r = AddAfterStream(d, b.offset, q, at, success)
      BY <1>3, <2>3, <2>a DEF Added
    <2>. HIDE DEF d, r
    <2>5. d.offset <= b.offset /\ (~success => b.offset = d.offset) /\ b.len <= b.offset + Len(q)
      <3>1. ~(b.offset + Len(q) < b.len)
        BY <1>3 DEF Fits
      <3>. QED BY <1>1, <2>2, <2>3, <3>1
    <2>6. Counts(q, n + nw + d.offset)
      <3>1. n + nw + d.offset = n + b.offset
        BY <1>1, <2>2
      <3>. QED BY <3>1
    <2>7. AfterStream(n + nw, d, q, at, b.offset, success)
      BY <1>1, <2>2, <2>5, <2>6 DEF AfterStream
    <2>8. AddedAfter(AddAfterStream(d, b.offset, q, at, success), n + nw, d, q, at)
      BY <2>7, AddAfterBytes
    <2>9. r.ok /\ BufOK(r.b) /\ Holds(r.b, n + nw) /\ r.b.offset = b.offset - nw + Len(q)
      BY <2>2, <2>4, <2>8, <2>a DEF AddedAfter
    <2>. QED BY <2>9 DEF r
  <1>4. CASE ~Fits(b, q) /\ ~HasOutput
    <2>1. r = g /\ nw = 0
      BY <1>4 DEF Added
    <2>2. g.ok /\ BufOK(g.b) /\ Holds(g.b, n) /\ g.b.offset = b.offset + Len(q)
      BY ONLY <1>4, PieceReady(n, b, q, nw), GrownFor, ZenonT(30) DEF PieceReady
    <2>. HIDE DEF g, r
    <2>3. n + nw = n /\ b.offset - nw + Len(q) = b.offset + Len(q)
      BY <1>1, <2>1
    <2>4. r.ok /\ BufOK(r.b) /\ Holds(r.b, n + nw) /\ r.b.offset = b.offset - nw + Len(q)
      BY <2>1, <2>2, <2>3
    <2>. QED BY <2>4 DEF r
  <1>. QED BY <1>2, <1>3, <1>4

\* What follows the newline is kept.
LEMMA TailKept ==
  ASSUME Growable, NEW n \in Nat, NEW b, BufOK(b), NEW q, Counts(q, n), Len(q) <= MaxBytes
  PROVE  LET c == KeepTail(b, q) IN BufOK(c) /\ Holds(c, n) /\ c.offset = Len(q)
  <1>. DEFINE e == [b EXCEPT !.offset = 0]
              g == AddGrow(e, e.offset, e.len, e.offset + Len(q), q, TRUE)
  <1>1. BufOK(e) /\ Holds(e, n) /\ e.offset = 0
    BY EmptiedBytes
  <1>2. KeepTail(b, q) = IF q = <<>> THEN e ELSE IF Fits(e, q) THEN Copied(e, 0, q)
                         ELSE AddGrow(e, 0, e.len, Len(q), q, TRUE).b
    BY DEF KeepTail
  <1>. HIDE DEF e
  <1>3. n + e.offset = n /\ e.offset + Len(q) = Len(q) /\ Len(q) \in Nat
    BY <1>1 DEF Counts
  <1>4. Counts(q, n + e.offset) /\ e.offset + Len(q) <= MaxBytes
    BY <1>3
  <1>6. CASE q = <<>>
    BY <1>1, <1>2, <1>3, <1>6
  <1>7. CASE q # <<>> /\ Fits(e, q)
    <2>1. KeepTail(b, q) = Copied(e, e.offset, q)
      BY <1>1, <1>2, <1>7
    <2>2. LET c == Copied(e, e.offset, q)
          IN  BufOK(c) /\ Holds(c, n) /\ c.offset = e.offset + Len(q)
      BY <1>1, <1>4, <1>7, CopiedFits
    <2>. QED BY <1>3, <2>1, <2>2
  <1>8. CASE q # <<>> /\ ~Fits(e, q)
    <2>1. KeepTail(b, q) = g.b
      BY <1>1, <1>2, <1>3, <1>8
    <2>2. g.ok /\ BufOK(g.b) /\ Holds(g.b, n) /\ g.b.offset = e.offset + Len(q)
      BY ONLY <1>1, <1>4, <1>8, Growable, n \in Nat, GrownFor, ZenonT(30)
    <2>. HIDE DEF g
    <2>. QED BY <1>3, <2>1, <2>2
  <1>. QED BY <1>6, <1>7, <1>8

LEMMA PieceComesKeeps ==
  ASSUME Orderly, Inv, NEW nr \in 0..MaxBytes, NEW nw \in 0..MaxBytes, PieceComes(nr, nw)
  PROVE  Inv'
  <1>. DEFINE q == New(nr)
              nl == IF NewlineIn(q) = {} THEN 0 ELSE Min(NewlineIn(q))
              head == IF nl = 0 THEN q ELSE SubSeq(q, 1, nl - 1)
              r == IF head = <<>> THEN [ok |-> TRUE, b |-> mb] ELSE Added(mb, head, nw)
              bytes == Content(r.b)
              tail == SubSeq(q, nl + 1, nr)
              sent == out \o First(mb, nw)
              n == Len(out) + nw
              off == mb.offset - nw
  <1>1. /\ op.kind = "line" /\ nr \in 1..BufSize /\ put + nr <= MaxBytes /\ put' = put + nr
        /\ other' = other /\ nw \in {0, mb.offset}
        /\ (nw # 0 => HasOutput /\ head # <<>> /\ ~Fits(mb, head))
        /\ IF nl = 0 \/ ~r.ok
           THEN mb' = r.b /\ op' = (IF r.ok THEN op ELSE Idle) /\ out' = sent /\ line' = line
           ELSE /\ line' = [bytes |-> bytes, ended |-> TRUE, nil |-> bytes = <<>>]
                /\ out' = sent \o bytes \o <<q[nl]>>
                /\ mb' = KeepTail(r.b, tail) /\ op' = Idle
    BY DEF PieceComes, Takes, Orderly
  <1>. HIDE DEF q, nl, head, tail, r, bytes
  <1>2. /\ BufOK(mb) /\ Holds(mb, Len(out)) /\ Counts(out, 0) /\ Len(out) \in Nat /\ nr \in Nat
        /\ mb.offset \in Nat /\ put \in Nat /\ MaxBytes \in Nat /\ WholeLines /\ Growable
    BY State, StreamsAssumption DEF Inv, Orderly
  <1>3. put = Len(out) + mb.offset
    BY <1>1, InFlightIs, State
  <1>4. NewlineIn(Content(mb)) = {}
    BY <1>1 DEF Inv, OpOK
  <1>5. Counts(Content(mb), Len(out)) /\ Len(Content(mb)) = mb.offset
    BY <1>2, ContentBytes
  <1>6. \A j \in 1..mb.offset : Len(out) + j \notin Newlines
    BY <1>2, <1>4, <1>5, NewlinesAre
  <1>7. Counts(q, put) /\ Len(q) = nr
    BY <1>2, NewBytes DEF q
  <1>8. /\ put' \in 0..MaxBytes /\ mb.offset + nr <= MaxBytes
        /\ nw \in 0..mb.offset /\ n \in Nat /\ off \in Nat /\ put = n + off
    <2>. HIDE DEF sent
    <2>1. (nw = 0 \/ nw = mb.offset) /\ put + nr <= MaxBytes /\ put' = put + nr
      BY <1>1
    <2>2. nw \in 0..mb.offset
      BY <1>2, <2>1
    <2>3. nw \in Nat /\ n \in Nat /\ off \in Nat /\ put = n + off
      BY <1>2, <1>3, <2>2
    <2>4. put' \in 0..MaxBytes /\ mb.offset + nr <= MaxBytes
      BY <1>2, <1>3, <2>1
    <2>. QED BY <2>2, <2>3, <2>4
  <1>9. Counts(sent, 0) /\ Len(sent) = n
    BY <1>8, TakenBytes
  <1>. HIDE DEF sent
  <1>10. ASSUME NEW h \in Nat, h <= nr, Counts(head, put), Len(head) = h
         PROVE  r.ok /\ BufOK(r.b) /\ Holds(r.b, n) /\ r.b.offset = off + h
    <2>1. CASE head = <<>>
      <3>1. r = [ok |-> TRUE, b |-> mb] /\ h = 0 /\ nw = 0
        BY <1>1, <1>10, <2>1 DEF r
      <3>2. r.ok /\ r.b = mb /\ n = Len(out) /\ off + h = mb.offset
        BY <1>2, <3>1
      <3>. QED BY <1>2, <3>2
    <2>2. CASE head # <<>>
      <3>1. r = Added(mb, head, nw)
        BY <2>2 DEF r
      <3>2. Counts(head, Len(out) + mb.offset) /\ mb.offset + Len(head) <= MaxBytes
        BY <1>2, <1>3, <1>8, <1>10
      <3>3. nw \in {0, mb.offset} /\ (nw # 0 => HasOutput /\ ~Fits(mb, head))
        BY <1>1
      <3>4. LET x == Added(mb, head, nw)
            IN  /\ x.ok /\ BufOK(x.b) /\ Holds(x.b, Len(out) + nw)
                /\ x.b.offset = mb.offset - nw + Len(head)
        <4>1. PieceReady(Len(out), mb, head, nw)
          BY <1>2, <3>2, <3>3 DEF PieceReady
        <4>. QED BY <4>1, PieceAdded
      <3>. QED BY <1>10, <3>1, <3>4
    <2>. QED BY <2>1, <2>2
  <1>11. \A j \in 1..off : n + j \notin Newlines
    <2>. SUFFICES ASSUME NEW j \in 1..off PROVE n + j \notin Newlines
      OBVIOUS
    <2>1. nw + j \in 1..mb.offset /\ n + j = Len(out) + (nw + j)
      BY <1>2, <1>8
    <2>. QED BY <1>6, <2>1
  <1>. HIDE DEF n, off
  <1>12. CASE NewlineIn(q) = {}
    <2>1. nl = 0 /\ head = q
      BY <1>12 DEF nl, head
    <2>2. r.ok /\ BufOK(r.b) /\ Holds(r.b, n) /\ r.b.offset = off + nr
      BY <1>2, <1>7, <1>10, <2>1
    <2>3. mb' = r.b /\ op' = op /\ out' = sent /\ line' = line
      BY <1>1, <2>1, <2>2
    <2>4. BufOK(mb') /\ Holds(mb', Len(out')) /\ mb'.offset = off + nr /\ Counts(out', 0)
      BY <1>9, <2>2, <2>3
    <2>5. WholeLines'
      BY <1>2, <2>3, LinesKept
    <2>6. \A j \in 1..nr : put + j \notin Newlines
      BY <1>2, <1>7, <1>12, NewlinesAre, ZenonT(30)
    <2>7. \A j \in 1..(off + nr) : n + j \notin Newlines
      <3>. SUFFICES ASSUME NEW j \in 1..(off + nr) PROVE n + j \notin Newlines
        OBVIOUS
      <3>1. CASE j <= off
        BY <1>8, <1>11, <3>1
      <3>2. CASE j > off
        <4>1. j - off \in 1..nr /\ n + j = put + (j - off)
          BY <1>2, <1>8, <3>2
        <4>. QED BY <2>6, <4>1
      <3>. QED BY <1>2, <1>8, <3>1, <3>2
    <2>8. NewlineIn(Content(mb')) = {}
      <3>1. Counts(Content(r.b), n) /\ Len(Content(r.b)) = off + nr
        BY <1>8, <2>2, ContentBytes
      <3>2. NewlineIn(Content(r.b)) = {i \in 1..(off + nr) : n + i \in Newlines}
        BY <1>8, <3>1, NewlinesAre
      <3>. QED BY <2>3, <2>7, <3>2
    <2>9. OpOK(op', mb', put')
      BY <1>1, <2>3, <2>8 DEF OpOK
    <2>10. InFlight' = <<>>
      BY <1>1, <2>3, InFlightNext
    <2>11. Counts(InFlight', Len(out') + mb'.offset) /\ Len(InFlight') = 0
      BY <2>10, NoBytes
    <2>12. put' = Len(out') + mb'.offset + Len(InFlight')
      BY <1>1, <1>2, <1>8, <1>9, <2>3, <2>4, <2>11
    <2>. QED BY <1>1, <1>8, <2>4, <2>5, <2>9, <2>11, <2>12, StepKeeps
  <1>13. CASE NewlineIn(q) # {}
    <2>1. nl = Min(NewlineIn(q))
      BY <1>13 DEF nl
    <2>2. nl \in 1..nr /\ put + nl \in Newlines /\ \A j \in 1..(nl - 1) : put + j \notin Newlines
      BY <1>2, <1>7, <1>13, <2>1, FirstNewline
    <2>3. nl \in Nat \ {0} /\ nl # 0 /\ nl - 1 \in Nat /\ nl - 1 \in 0..Len(q) /\ nl \in 0..Len(q)
          /\ nl - 1 <= nr
      BY <1>2, <1>7, <2>2
    <2>4. head = SubSeq(q, 1, nl - 1)
      BY <2>3 DEF head
    <2>5. Counts(head, put) /\ Len(head) = nl - 1
      BY <1>2, <1>7, <2>3, <2>4, FirstBytes
    <2>6. r.ok /\ BufOK(r.b) /\ Holds(r.b, n) /\ r.b.offset = off + (nl - 1)
      BY <1>10, <2>3, <2>5
    <2>7. /\ line' = [bytes |-> bytes, ended |-> TRUE, nil |-> bytes = <<>>]
          /\ out' = sent \o bytes \o <<q[nl]>> /\ mb' = KeepTail(r.b, tail) /\ op' = Idle
      BY <1>1, <2>3, <2>6
    <2>8. Counts(bytes, n) /\ Len(bytes) = off + (nl - 1)
      BY <1>8, <2>6, ContentBytes DEF bytes
    <2>9. WholeLines'
      <3>1. line'.bytes = bytes /\ n + Len(bytes) + 1 = put + nl
        BY <1>8, <2>3, <2>7, <2>8, SMTT(30)
      <3>2. ASSUME NEW j \in 1..Len(bytes) PROVE n + j \notin Newlines
        <4>0. j \in Nat \ {0} /\ off \in Nat
          BY <1>8, <2>3, <2>8
        <4>1. CASE j <= off
          <5>1. j \in 1..off
            BY <4>0, <4>1
          <5>. QED BY <1>11, <5>1
        <4>2. CASE j > off
          <5>1. j - off \in 1..(nl - 1) /\ n + j = put + (j - off)
            BY <1>2, <1>8, <2>3, <2>8, <4>2, SMTT(30)
          <5>. QED BY <2>2, <5>1
        <4>. QED BY <1>8, <2>3, <2>8, <4>1, <4>2
      <3>. QED BY <1>8, <2>2, <2>8, <3>1, <3>2, LineIsWhole
    <2>10. Counts(out', 0) /\ Len(out') = put + nl
      <3>1. Counts(bytes, 0 + Len(sent))
        BY <1>8, <1>9, <2>8
      <3>2. Counts(sent \o bytes, 0) /\ Len(sent \o bytes) = Len(sent) + Len(bytes)
        BY <1>9, <3>1, JoinedBytes
      <3>3. Len(sent \o bytes) = put + (nl - 1)
        BY <1>8, <1>9, <2>3, <2>8, <3>2, SMTT(30)
      <3>4. q[nl] = put + nl
        BY <1>7, <2>2 DEF Counts
      <3>5. PICK s : s = <<q[nl]>>
        OBVIOUS
      <3>6. Counts(s, 0 + Len(sent \o bytes)) /\ Len(s) = 1
        <4>1. s = <<put + nl>> /\ put + nl \in Nat /\ 0 + Len(sent \o bytes) + 1 = put + nl
          BY <1>2, <2>3, <3>3, <3>4, <3>5
        <4>2. s \in Seq(Nat) /\ Len(s) = 1 /\ s[1] = put + nl
          BY <4>1
        <4>. QED BY <4>1, <4>2 DEF Counts
      <3>7. Counts(sent \o bytes \o s, 0) /\ Len(sent \o bytes \o s) = Len(sent \o bytes) + Len(s)
        BY <3>2, <3>6, JoinedBytes, ZenonT(30)
      <3>8. out' = sent \o bytes \o s
        BY <2>7, <3>5
      <3>9. Len(sent \o bytes \o s) = put + nl
        BY <1>2, <2>3, <3>3, <3>6, <3>7
      <3>. QED BY <3>7, <3>8, <3>9
    <2>11. Counts(tail, put + nl) /\ Len(tail) = nr - nl
      BY <1>2, <1>7, <2>3, LastBytes DEF tail
    <2>12. BufOK(mb') /\ Holds(mb', Len(out')) /\ mb'.offset = nr - nl
      <3>1. put + nl \in Nat /\ Len(tail) <= MaxBytes
        BY <1>2, <1>8, <2>2, <2>3, <2>11
      <3>2. LET c == KeepTail(r.b, tail)
            IN  BufOK(c) /\ Holds(c, put + nl) /\ c.offset = Len(tail)
        BY <1>2, <2>6, <2>11, <3>1, TailKept
      <3>. QED BY <2>7, <2>10, <2>11, <3>2
    <2>13. put' = Len(out') + mb'.offset
      BY <1>1, <1>2, <2>3, <2>10, <2>12
    <2>. QED BY <1>1, <1>8, <2>7, <2>9, <2>10, <2>12, <2>13, DoneKeeps
  <1>. QED BY <1>12, <1>13

-----------------------------------------------------------------------------
(***************************************************************************)
(* All steps, and what the invariant says of the bytes.  Once two calls    *)
(* are in each other's way only the lines are followed: no line is being   *)
(* read then, and no call begins.                                          *)
(***************************************************************************)
LEMMA AssosiateKeeps ==
  ASSUME Inv, NEW type, NEW on, membuf_assosiate(type, on) PROVE Inv'
  <1>1. op = Idle /\ UNCHANGED <<mb, put, out, op, other, line>>
    BY DEF membuf_assosiate, MayCall
  <1>2. InFlight' = <<>> /\ OpOK(op', mb, put)
    BY <1>1, IdleNext, IdleOK
  <1>. QED BY <1>1, <1>2, BeginKeeps

LEMMA NextKeeps == ASSUME Orderly, Inv, [Next]_vars, ~clash' PROVE Inv'
  <1>1. CASE UNCHANGED vars
    <2>1. InFlight' = InFlight
      BY <1>1 DEF vars, InFlight
    <2>2. WholeLines'
      BY <1>1, LinesKept DEF Inv, vars
    <2>3. OpOK(op', mb', put')
      BY <1>1 DEF Inv, vars
    <2>. QED BY <1>1, <2>1, <2>2, <2>3, StepKeeps DEF Inv, vars
  <1>2. CASE \E k \in 1..MaxPut : OtherAdds(k) \/ \E at \in BOOLEAN : membuf_addlstring(k, at)
    BY <1>2, OtherAddsKeeps, AddKeeps
  <1>3. ASSUME NEW nw \in 0..MaxBytes, AddResumes(nw) \/ OtherResumes(nw) PROVE Inv'
    <2>1. ~OtherResumes(nw)
      BY DEF OtherResumes, Resumed, Inv, Idle
    <2>. QED BY <1>3, <2>1, AddResumesKeeps
  <1>4. ASSUME NEW nw \in 0..MaxBytes, op.kind = "flush" /\ nw <= op.sz /\ sys_write(nw) PROVE Inv'
    BY <1>4, WriteKeeps
  <1>5. ASSUME NEW nw \in 0..MaxBytes,
               op.kind = "write" /\ nw <= op.sz /\ (sock_write(nw) \/ sock_send(nw))
        PROVE  Inv'
    BY <1>5, SockWriteKeeps DEF sock_send
  <1>6. ASSUME NEW nw \in 0..MaxBytes, NEW nr \in 0..MaxBytes, ReadReturns(nr, nw) \/ PieceComes(nr, nw)
        PROVE  Inv'
    BY <1>6, ReadReturnsKeeps, PieceComesKeeps
  <1>7. CASE \E type \in {"input", "output"}, on \in BOOLEAN : membuf_assosiate(type, on)
    BY <1>7, AssosiateKeeps
  <1>8. CASE \E close \in BOOLEAN : membuf_flush(close)
    BY <1>8, FlushKeeps
  <1>9. CASE WriteBuffer
    BY <1>9, WriteBufferKeeps
  <1>10. CASE \E str \in BOOLEAN, n \in 1..Endless :
                sys_read(str, n) \/ sock_read(str, n) \/ sock_recv(str, n)
    BY <1>10, ReadKeeps DEF sock_read, sock_recv
  <1>11. CASE ReadFails
    BY <1>11, ReadFailsKeeps
  <1>12. CASE \E l \in 1..MaxPut : read_bytes(l)
    BY <1>12, ReadBytesKeeps
  <1>13. CASE ReadBuffered \/ ReadsLine \/ NothingComes \/ NoInput
    BY <1>13, ReadBufferedKeeps, ReadsLineKeeps, NothingComesKeeps, NoInputKeeps
  <1>. QED
    BY <1>1, <1>2, <1>3, <1>4, <1>5, <1>6, <1>7, <1>8, <1>9, <1>10, <1>11, <1>12, <1>13 DEF Next

LinesLeft == WholeLines /\ op.kind \notin {"line", "read"}

\* Calls that begin, and those that neither add bytes nor go on adding them.
LEMMA ClashStays ==
  ASSUME Next
  PROVE  (\E k : OtherAdds(k)) \/ (\E nw : AddResumes(nw) \/ OtherResumes(nw)) \/ clash' = clash
  <1>1. ASSUME NEW type, NEW on, membuf_assosiate(type, on) PROVE clash' = clash
    BY <1>1 DEF membuf_assosiate
  <1>2. ASSUME NEW k, NEW at, membuf_addlstring(k, at) PROVE clash' = clash
    BY <1>2 DEF membuf_addlstring
  <1>3. ASSUME NEW nw, sys_write(nw) \/ sock_write(nw) \/ sock_send(nw) PROVE clash' = clash
    BY <1>3 DEF sys_write, sock_write, sock_send
  <1>4. ASSUME NEW nr, NEW nw, ReadReturns(nr, nw) \/ PieceComes(nr, nw) PROVE clash' = clash
    BY <1>4 DEF ReadReturns, PieceComes
  <1>5. ASSUME NEW close, membuf_flush(close) PROVE clash' = clash
    BY <1>5 DEF membuf_flush
  <1>6. ASSUME NEW str, NEW n, sys_read(str, n) \/ sock_read(str, n) \/ sock_recv(str, n)
        PROVE  clash' = clash
    BY <1>6 DEF sys_read, sock_read, sock_recv
  <1>7. ASSUME NEW l, read_bytes(l) PROVE clash' = clash
    BY <1>7 DEF read_bytes
  <1>8. ASSUME WriteBuffer \/ ReadFails \/ ReadBuffered \/ ReadsLine PROVE clash' = clash
    BY <1>8 DEF WriteBuffer, ReadFails, ReadBuffered, ReadsLine
  <1>9. ASSUME NothingComes \/ NoInput PROVE clash' = clash
    BY <1>9 DEF NothingComes, NoInput, RestIsLine
  <1>. QED BY <1>1, <1>2, <1>3, <1>4, <1>5, <1>6, <1>7, <1>8, <1>9 DEF Next

\* The step in which the calls meet reads no line.
LEMMA ClashBegins == ASSUME Orderly, Inv, [Next]_vars, ~clash, clash' PROVE LinesLeft'
  <1>1. WholeLines /\ Idle.kind \notin {"line", "read"}
    BY DEF Inv, Idle
  <1>2. ASSUME NEW k, OtherAdds(k) PROVE line' = line /\ op'.kind \notin {"line", "read"}
    <2>1. During \in AddDuring /\ op' = op /\ line' = line
      BY <1>2 DEF OtherAdds
    <2>. QED BY <2>1 DEF Orderly, During
  <1>3. ASSUME NEW nw, AddResumes(nw) PROVE line' = line /\ op'.kind \notin {"line", "read"}
    BY <1>1, <1>3 DEF AddResumes, Resumed
  <1>4. ASSUME NEW nw, OtherResumes(nw) PROVE FALSE
    BY <1>4 DEF OtherResumes, Resumed, Inv, Idle
  <1>5. ~UNCHANGED vars /\ clash' # clash
    BY DEF vars
  <1>6. line' = line /\ op'.kind \notin {"line", "read"}
    BY <1>2, <1>3, <1>4, <1>5, ClashStays
  <1>. QED BY <1>1, <1>6, LinesKept DEF LinesLeft

\* Pending calls end.
LEMMA ClashEnds == ASSUME LinesLeft, [Next]_vars, clash PROVE LinesLeft' /\ clash'
  <1>. DEFINE L == line' = line /\ clash' /\ op'.kind \notin {"line", "read"}
  <1>1. Idle.kind \notin {"line", "read"} /\ ~MayCall
    BY DEF Idle, MayCall
  <1>2. CASE UNCHANGED vars
    BY <1>2, LinesKept DEF vars, LinesLeft
  <1>3. ASSUME NEW k, OtherAdds(k) PROVE L
    BY <1>3 DEF OtherAdds, LinesLeft
  <1>4. ASSUME NEW nw, AddResumes(nw) PROVE L
    BY <1>1, <1>4 DEF AddResumes, Resumed
  <1>5. ASSUME NEW nw, OtherResumes(nw) PROVE L
    BY <1>5 DEF OtherResumes, Resumed, LinesLeft
  <1>6. ASSUME NEW nw, sys_write(nw) \/ sock_write(nw) \/ sock_send(nw) PROVE L
    BY <1>1, <1>6 DEF sys_write, sock_write, sock_send
  <1>7. ASSUME NEW nr, NEW nw, ReadReturns(nr, nw) \/ PieceComes(nr, nw) PROVE FALSE
    BY <1>7 DEF ReadReturns, PieceComes, LinesLeft
  <1>8. ~ReadFails /\ ~NothingComes
    BY DEF ReadFails, NothingComes, LinesLeft
  <1>9. ASSUME NEW k, NEW at PROVE ~membuf_assosiate(k, at) /\ ~membuf_addlstring(k, at)
    BY <1>1 DEF membuf_assosiate, membuf_addlstring
  <1>10. ASSUME NEW str, NEW n
         PROVE  ~sys_read(str, n) /\ ~sock_read(str, n) /\ ~sock_recv(str, n)
    BY <1>1 DEF sys_read, sock_read, sock_recv
  <1>11. ASSUME NEW l PROVE ~membuf_flush(l) /\ ~read_bytes(l)
    BY <1>1 DEF membuf_flush, read_bytes
  <1>12. ~WriteBuffer /\ ~ReadBuffered /\ ~ReadsLine /\ ~NoInput
    BY <1>1 DEF WriteBuffer, ReadBuffered, ReadsLine, NoInput
  <1>13. CASE Next
    <2>1. L
      <3>. HIDE DEF L
      <3>. QED
        BY <1>3, <1>4, <1>5, <1>6, <1>7, <1>8, <1>9, <1>10, <1>11, <1>12, <1>13 DEF Next
    <2>. QED BY <2>1, LinesKept DEF LinesLeft
  <1>. QED BY <1>2, <1>13

LEMMA InvConserved == ASSUME Inv PROVE Intact
  <1>. DEFINE c == Content(mb)
              f == InFlight
              all == out \o c \o f
  <1>1. /\ Counts(out, 0) /\ Len(out) \in Nat /\ mb.offset \in Nat /\ put \in Nat
        /\ Counts(f, Len(out) + mb.offset) /\ put = Len(out) + mb.offset + Len(f)
    BY State DEF Inv
  <1>2. Counts(c, Len(out)) /\ Len(c) = mb.offset
    BY <1>1, ContentBytes DEF Inv
  <1>. HIDE DEF c, f
  <1>3. Counts(c, 0 + Len(out))
    BY <1>1, <1>2
  <1>4. Counts(out \o c, 0) /\ Len(out \o c) = Len(out) + Len(c)
    BY <1>1, <1>3, JoinedBytes
  <1>5. Counts(f, 0 + Len(out \o c))
    BY <1>1, <1>2, <1>4
  <1>6. Counts(all, 0) /\ Len(all) = Len(out \o c) + Len(f)
    BY <1>4, <1>5, JoinedBytes, ZenonT(30)
  <1>7. Len(all) = put
    BY <1>1, <1>2, <1>4, <1>6
  <1>. HIDE DEF all
  <1>8. all \in [1..put -> Nat] /\ \A i \in 1..put : all[i] = i
    BY <1>6, <1>7 DEF Counts
  <1>9. all = [i \in 1..put |-> i]
    BY <1>8
  <1>. QED BY <1>9 DEF Intact, all, c, f

IInv == IF clash THEN LinesLeft ELSE Inv

LEMMA Invariance == ASSUME Orderly PROVE Spec => []IInv
  <1>1. Init => IInv
    BY InitInv DEF Init, IInv
  <1>2. ASSUME IInv, [Next]_vars PROVE IInv'
    <2>1. CASE clash
      BY <1>2, <2>1, ClashEnds DEF IInv
    <2>2. CASE ~clash
      BY <1>2, <2>2, NextKeeps, ClashBegins DEF IInv
    <2>. QED BY <2>1, <2>2
  <1>. QED BY <1>1, <1>2, PTL DEF Spec

\* In the bytes that left the buffer, those it holds and those a call has in hand no
\* byte that was put in or read is missing, repeated or out of order: membuf_addlstring,
\* the streams' reads and writes and sys_buffer_read_next cut them in the same places,
\* as long as no call works on bytes that another thread's flush or add has moved.
THEOREM BytesConserved == Orderly => (Spec => []Conserved)
  <1>. SUFFICES ASSUME Orderly PROVE Spec => []Conserved
    OBVIOUS
  <1>1. Spec => []IInv
    BY Invariance
  <1>2. IInv => Conserved
    BY InvConserved DEF IInv, Conserved
  <1>. QED BY <1>1, <1>2, PTL

\* Neither memcpy nor read() writes behind the end of the buffer: the room that
\* membuf_addlstring and sys_buffer_write_next find or make is enough, until two
\* threads are in each other's way.
THEOREM BufferBounded == Orderly => (Spec => []WithinLen)
  <1>. SUFFICES ASSUME Orderly PROVE Spec => []WithinLen
    OBVIOUS
  <1>1. Spec => []IInv
    BY Invariance
  <1>2. IInv => WithinLen
    BY DEF IInv, Inv, BufOK, WithinLen, Bounded
  <1>. QED BY <1>1, <1>2, PTL

\* membuf:read returns whole lines, from what the buffer holds or from pieces that
\* come from the stream.
THEOREM LinesCorrect == Orderly => (Spec => []WholeLines)
  <1>. SUFFICES ASSUME Orderly PROVE Spec => []WholeLines
    OBVIOUS
  <1>1. Spec => []IInv
    BY Invariance
  <1>2. IInv => WholeLines
    BY DEF IInv, Inv, LinesLeft
  <1>. QED BY <1>1, <1>2, PTL
=============================================================================
