---------------------------- MODULE Signals_proofs ----------------------------
(***************************************************************************)
(* Proofs about Signals, for any number of queues, events, children and    *)
(* signals, wherever the handler runs.                                     *)
(*                                                                         *)
(* The inductive invariant has a part for each signal's list, one for each *)
(* event and one for each queue.  An event belongs to the queue it is      *)
(* added to, and all that happens to it is done by that queue's thread:    *)
(* the parts are tied together by where the thread stands (`at') and what  *)
(* it wants the lock for (`op').                                           *)
(***************************************************************************)
EXTENDS Signals, TLAPS, FiniteSetTheorems

Ats == {"run", "wait", "reset", "signals", "closing", "closed"}
Dos == {"none", "add", "del", "done", "collect", "unlink"}
Ops == [do : Dos, ev : Events \cup {NONE}]

QueueTypes ==
    [sig_ready : SUBSET (Signos \cup {EVQ_SIGEVQ}), fd : BOOLEAN, sig_cs : BOOLEAN,
     ev_ready : Seq(Events)]
HandlerTypes == [signo : Signos, locked : BOOLEAN, rest : Seq(Events)]
LoopTypes == [at : Ats, op : Ops, signos : SUBSET Signos, found : Seq(Events)]

TypeOK ==
    /\ list \in [Signos -> Seq(Events)]
    /\ disp \in [Signos -> {"dfl", "ign", "handler"}]
    /\ pending \subseteq Signos
    /\ handler \in [Hosts -> Seq(HandlerTypes)]
    /\ evq \in [Events -> Queues \cup {NONE}]
    /\ slot \in [Events -> {"free", "idle", "active", "deleted"}]
    /\ queue \in [Queues -> QueueTypes]
    /\ loop \in [Queues -> LoopTypes]

\* The list of a signal.
ListOK(s) ==
    /\ IsInjective(list[s]) /\ \A e \in Range(list[s]) : What[e].signo = s
    /\ list[s] # <<>> => disp[s] # "dfl"
    /\ disp[s] = "handler" => list[s] # <<>>

\* An event: whether it is in the list depends on what its queue is about to do.
EventOK(e) ==
    LET q == What[e].evq
        l == loop[q]
    IN
    /\ evq[e] \in {NONE, q}
    /\ evq[e] = q => slot[e] \in {"idle", "active"} /\ l.at # "closed"
    /\ (e \in Range(list[What[e].signo])) <=> IF l.op.ev = e THEN l.op.do # "add" ELSE evq[e] = q
    /\ l.op.ev = e => IF l.op.do = "add" THEN evq[e] = q ELSE evq[e] = NONE

\* The thread of a queue: what it may be doing where, and which events it has in hand.
ThreadOK(q) ==
    LET l == loop[q] IN
    /\ l.op.do \in {"unlink", "collect"} => l.at = "signals"
    /\ l.op.do = "collect" => l.signos # {}
    /\ l.op.do = "done" => l.at = "closing"
    /\ l.op.do \in {"add", "del"} => l.at \in {"run", "wait"}
    /\ l.op.ev = NONE <=> l.op.do \in {"none", "collect"}
    /\ l.op.ev # NONE => What[l.op.ev].evq = q
    /\ l.found # <<>> => l.at = "signals" /\ l.op.do # "collect"
    /\ l.at \in {"closing", "closed"} => queue[q].ev_ready = <<>>

ReadyOK(q) ==
    /\ IsInjective(queue[q].ev_ready) /\ IsInjective(loop[q].found)
    /\ \A e \in Range(queue[q].ev_ready) : What[e].evq = q /\ slot[e] \in {"active", "deleted"}
    /\ \A e \in Range(loop[q].found) : evq[e] = q /\ slot[e] = "idle"

Inv ==
    /\ TypeOK /\ NoLostSignal
    /\ \A s \in Signos : ListOK(s)
    /\ \A e \in Events : EventOK(e)
    /\ \A q \in Queues : ThreadOK(q) /\ ReadyOK(q)

-----------------------------------------------------------------------------
(***************************************************************************)
(* Lists without repetition.                                               *)
(***************************************************************************)
LEMMA Concatenated ==
  ASSUME NEW S, NEW a \in Seq(S), NEW b \in Seq(S)
  PROVE  /\ a \o b \in Seq(S) /\ DOMAIN (a \o b) = 1..(Len(a) + Len(b))
         /\ \A j \in 1..(Len(a) + Len(b)) :
              (a \o b)[j] = IF j <= Len(a) THEN a[j] ELSE b[j - Len(a)]
  OBVIOUS

LEMMA Pushed ==
  ASSUME NEW S, NEW l \in Seq(S), NEW e \in S
  PROVE  /\ <<e>> \o l \in Seq(S) /\ <<e>> \o l # <<>>
         /\ Range(<<e>> \o l) = {e} \cup Range(l)
         /\ IsInjective(l) /\ e \notin Range(l) => IsInjective(<<e>> \o l)
  <1>. DEFINE m == <<e>> \o l
  <1>0. /\ m \in Seq(S) /\ Len(m) = Len(l) + 1 /\ m[1] = e /\ Len(l) \in Nat
        /\ \A i \in 2..Len(m) : i - 1 \in 1..Len(l) /\ m[i] = l[i - 1]
        /\ DOMAIN m = 1..Len(m) /\ DOMAIN l = 1..Len(l)
    OBVIOUS
  <1>. HIDE DEF m
  <1>2. \A i \in 2..(Len(l) + 1) : i - 1 \in DOMAIN l /\ m[i] = l[i - 1]
    BY <1>0
  <1>1. /\ m \in Seq(S) /\ DOMAIN m = 1..(Len(l) + 1) /\ DOMAIN l = 1..Len(l)
        /\ Len(l) \in Nat /\ m[1] = e /\ \A i \in 1..Len(l) : i + 1 \in DOMAIN m /\ m[i + 1] = l[i]
    BY <1>0
  <1>3. Range(m) \subseteq {e} \cup Range(l)
    BY <1>1, <1>2 DEF Range
  <1>4. {e} \cup Range(l) \subseteq Range(m)
    BY <1>1 DEF Range
  <1>5. ASSUME IsInjective(l), e \notin Range(l) PROVE IsInjective(m)
    <2>. SUFFICES ASSUME NEW i \in DOMAIN m, NEW j \in DOMAIN m, m[i] = m[j], i # j PROVE FALSE
      BY DEF IsInjective
    <2>1. CASE i = 1
      BY <1>1, <1>2, <1>5, <2>1 DEF Range
    <2>2. CASE j = 1
      BY <1>1, <1>2, <1>5, <2>2 DEF Range
    <2>3. CASE i # 1 /\ j # 1
      <3>1. i \in 2..(Len(l) + 1) /\ j \in 2..(Len(l) + 1)
        BY <1>1, <2>3
      <3>2. i - 1 = j - 1
        BY <1>2, <1>5, <3>1 DEF IsInjective
      <3>. QED BY <3>1, <3>2
    <2>. QED BY <2>1, <2>2, <2>3
  <1>6. m # <<>>
    BY <1>1
  <1>. QED BY <1>1, <1>3, <1>4, <1>5, <1>6 DEF m

LEMMA EmptyList == IsInjective(<<>>) /\ Range(<<>>) = {}
  BY DEF IsInjective, Range

LEMMA RangeIn == ASSUME NEW S, NEW l \in Seq(S) PROVE Range(l) \subseteq S
  BY DEF Range

LEMMA Popped ==
  ASSUME NEW S, NEW l \in Seq(S), l # <<>>, IsInjective(l)
  PROVE  /\ Head(l) \in S /\ Tail(l) \in Seq(S) /\ IsInjective(Tail(l))
         /\ Head(l) \in Range(l) /\ Range(Tail(l)) = Range(l) \ {Head(l)}
  <1>. DEFINE m == Tail(l)
  <1>1. /\ m \in Seq(S) /\ Len(m) = Len(l) - 1 /\ DOMAIN m = 1..(Len(l) - 1)
        /\ DOMAIN l = 1..Len(l) /\ Len(l) \in Nat \ {0} /\ Head(l) = l[1] /\ l[1] \in S
        /\ \A i \in 1..(Len(l) - 1) : m[i] = l[i + 1]
    OBVIOUS
  <1>. HIDE DEF m
  <1>2. IsInjective(m)
    BY <1>1, SMTT(30) DEF IsInjective
  <1>3. Head(l) \in Range(l)
    BY <1>1 DEF Range
  <1>4. ASSUME NEW x \in Range(m) PROVE x \in Range(l) \ {Head(l)}
    <2>1. PICK i \in 1..(Len(l) - 1) : x = l[i + 1]
      BY <1>1, <1>4 DEF Range
    <2>2. i + 1 \in DOMAIN l /\ 1 \in DOMAIN l /\ i + 1 # 1
      BY <1>1
    <2>. QED BY <1>1, <2>1, <2>2 DEF Range, IsInjective
  <1>5. ASSUME NEW x \in Range(l) \ {Head(l)} PROVE x \in Range(m)
    <2>1. PICK i \in DOMAIN l : x = l[i]
      BY <1>5 DEF Range
    <2>2. i # 1 /\ i - 1 \in 1..(Len(l) - 1)
      BY <1>1, <1>5, <2>1
    <2>3. m[i - 1] = l[i]
      BY <1>1, <2>1, <2>2
    <2>. QED BY <1>1, <2>1, <2>2, <2>3 DEF Range
  <1>. QED BY <1>1, <1>2, <1>3, <1>4, <1>5 DEF m

LEMMA Removed ==
  ASSUME NEW S, NEW l \in Seq(S), NEW i \in DOMAIN l, IsInjective(l)
  PROVE  /\ RemoveAt(l, i) \in Seq(S) /\ IsInjective(RemoveAt(l, i))
         /\ Range(RemoveAt(l, i)) = Range(l) \ {l[i]}
  <1>. DEFINE m == RemoveAt(l, i)
  <1>1. /\ m \in Seq(S) /\ DOMAIN m = 1..(Len(l) - 1)
        /\ DOMAIN l = 1..Len(l) /\ Len(l) \in Nat \ {0} /\ i \in 1..Len(l)
        /\ \A j \in 1..(Len(l) - 1) : m[j] = IF j < i THEN l[j] ELSE l[j + 1]
    <2>. DEFINE a == SubSeq(l, 1, i - 1)
                b == SubSeq(l, i + 1, Len(l))
    <2>1. Len(l) \in Nat /\ DOMAIN l = 1..Len(l) /\ i \in 1..Len(l)
      OBVIOUS
    <2>2. a \in Seq(S) /\ Len(a) = i - 1 /\ \A j \in 1..(i - 1) : a[j] = l[j]
      BY <2>1
    <2>3. b \in Seq(S) /\ Len(b) = Len(l) - i /\ \A j \in 1..(Len(l) - i) : b[j] = l[i + j]
      BY <2>1
    <2>4. m = a \o b
      BY DEF RemoveAt
    <2>. HIDE DEF a, b, m
    <2>5. /\ m \in Seq(S) /\ DOMAIN m = 1..(Len(a) + Len(b))
          /\ \A j \in 1..(Len(a) + Len(b)) : m[j] = IF j <= Len(a) THEN a[j] ELSE b[j - Len(a)]
      BY <2>2, <2>3, <2>4, Concatenated
    <2>6. DOMAIN m = 1..(Len(l) - 1)
      BY <2>1, <2>2, <2>3, <2>5
    <2>7. ASSUME NEW j \in 1..(Len(l) - 1) PROVE m[j] = IF j < i THEN l[j] ELSE l[j + 1]
      <3>1. j \in 1..(Len(a) + Len(b))
        BY <2>1, <2>2, <2>3
      <3>2. CASE j < i
        <4>1. j \in 1..(i - 1) /\ j <= Len(a)
          BY <2>1, <2>2, <3>2
        <4>. QED BY <2>2, <2>5, <3>1, <3>2, <4>1
      <3>3. CASE ~(j < i)
        <4>1. j - (i - 1) \in 1..(Len(l) - i) /\ ~(j <= Len(a)) /\ i + (j - (i - 1)) = j + 1
          BY <2>1, <2>2, <3>3
        <4>. QED BY <2>2, <2>3, <2>5, <3>1, <3>3, <4>1, SMTT(30)
      <3>. QED BY <3>2, <3>3
    <2>8. Len(l) \in Nat \ {0}
      BY <2>1
    <2>. QED BY <2>1, <2>5, <2>6, <2>7, <2>8
  <1>. HIDE DEF m
  <1>2. IsInjective(m)
    <2>. SUFFICES ASSUME NEW j \in DOMAIN m, NEW k \in DOMAIN m, m[j] = m[k] PROVE j = k
      BY DEF IsInjective
    <2>. DEFINE at(x) == IF x < i THEN x ELSE x + 1
    <2>1. at(j) \in DOMAIN l /\ at(k) \in DOMAIN l /\ l[at(j)] = l[at(k)]
      BY <1>1
    <2>2. at(j) = at(k)
      BY <2>1 DEF IsInjective
    <2>. QED BY <1>1, <2>2
  <1>3. ASSUME NEW x \in Range(m) PROVE x \in Range(l) \ {l[i]}
    <2>1. PICK j \in 1..(Len(l) - 1) : x = m[j]
      BY <1>1, <1>3 DEF Range
    <2>. DEFINE k == IF j < i THEN j ELSE j + 1
    <2>2. k \in DOMAIN l /\ k # i /\ x = l[k]
      BY <1>1, <2>1
    <2>. QED BY <1>1, <2>2 DEF Range, IsInjective
  <1>4. ASSUME NEW x \in Range(l) \ {l[i]} PROVE x \in Range(m)
    <2>1. PICK j \in DOMAIN l : x = l[j]
      BY <1>4 DEF Range
    <2>2. j # i
      BY <1>4, <2>1
    <2>. DEFINE k == IF j < i THEN j ELSE j - 1
    <2>3. k \in DOMAIN m /\ m[k] = x
      BY <1>1, <2>1, <2>2
    <2>. QED BY <2>3 DEF Range
  <1>. QED BY <1>1, <1>2, <1>3, <1>4 DEF m

LEMMA Joined ==
  ASSUME NEW S, NEW l \in Seq(S), NEW m \in Seq(S), IsInjective(l), IsInjective(m),
         Range(l) \cap Range(m) = {}
  PROVE  IsInjective(l \o m)
  <1>. DEFINE n == l \o m
  <1>1. /\ DOMAIN n = 1..(Len(l) + Len(m)) /\ DOMAIN l = 1..Len(l) /\ DOMAIN m = 1..Len(m)
        /\ Len(l) \in Nat /\ Len(m) \in Nat
        /\ \A i \in 1..(Len(l) + Len(m)) : n[i] = IF i <= Len(l) THEN l[i] ELSE m[i - Len(l)]
    OBVIOUS
  <1>. HIDE DEF n
  <1>2. /\ \A i \in DOMAIN n : i <= Len(l) => i \in DOMAIN l /\ n[i] = l[i] /\ n[i] \in Range(l)
        /\ \A i \in DOMAIN n : i > Len(l) =>
             i - Len(l) \in DOMAIN m /\ n[i] = m[i - Len(l)] /\ n[i] \in Range(m)
    BY <1>1 DEF Range
  <1>. SUFFICES ASSUME NEW i \in DOMAIN n, NEW j \in DOMAIN n, n[i] = n[j] PROVE i = j
    BY DEF n, IsInjective
  <1>3. CASE i <= Len(l) /\ j <= Len(l)
    BY <1>1, <1>2, <1>3 DEF IsInjective
  <1>4. CASE i > Len(l) /\ j > Len(l)
    <2>1. i - Len(l) = j - Len(l)
      BY <1>2, <1>4 DEF IsInjective
    <2>. QED BY <1>1, <2>1
  <1>5. CASE i <= Len(l) /\ j > Len(l)
    BY <1>2, <1>5
  <1>6. CASE i > Len(l) /\ j <= Len(l)
    BY <1>2, <1>6
  <1>7. i \in Nat /\ j \in Nat
    BY <1>1
  <1>. QED BY <1>1, <1>3, <1>4, <1>5, <1>6, <1>7

-----------------------------------------------------------------------------
(***************************************************************************)
(* A step of the thread of queue q leaves the other queues' events alone.  *)
(***************************************************************************)
LEMMA Owners == ASSUME NEW e \in Events PROVE What[e].evq \in Queues /\ What[e].signo \in Signos
  BY SignalsAssumption DEF Signos

LEMMA QueueStep ==
  ASSUME Inv, NEW q \in Queues, TypeOK', NoLostSignal', \A s \in Signos : ListOK(s)',
         \A r \in Queues \ {q} : loop'[r] = loop[r] /\ queue'[r].ev_ready = queue[r].ev_ready,
         \A e \in Events : What[e].evq # q =>
           /\ evq'[e] = evq[e] /\ slot'[e] = slot[e]
           /\ e \in Range(list'[What[e].signo]) <=> e \in Range(list[What[e].signo]),
         \A e \in Events : What[e].evq = q => EventOK(e)',
         ThreadOK(q)', ReadyOK(q)'
  PROVE  Inv'
  <1>1. ASSUME NEW e \in Events, What[e].evq # q PROVE EventOK(e)'
    BY <1>1, Owners DEF Inv, EventOK
  <1>2. ASSUME NEW r \in Queues, r # q PROVE ThreadOK(r)'
    BY <1>2 DEF Inv, ThreadOK
  <1>3. ASSUME NEW r \in Queues, r # q PROVE ReadyOK(r)'
    <2>1. \A e \in Range(queue[r].ev_ready) : e \in Events /\ What[e].evq = r
      BY DEF Inv, TypeOK, QueueTypes, ReadyOK, Range
    <2>2. \A e \in Range(loop[r].found) : e \in Events /\ evq[e] = r
      BY DEF Inv, TypeOK, LoopTypes, ReadyOK, Range
    <2>3. \A e \in Range(loop[r].found) : What[e].evq = r
      BY <2>2, SignalsAssumption DEF Inv, EventOK
    <2>. QED BY <1>3, <2>1, <2>2, <2>3 DEF Inv, ReadyOK
  <1>. QED BY <1>1, <1>2, <1>3 DEF Inv

\* Steps of queue q that leave the lists, and what is signalled, alone.
LEMMA PlainStep ==
  ASSUME Inv, NEW q \in Queues, UNCHANGED <<list, disp, pending, handler>>,
         evq' \in [Events -> Queues \cup {NONE}],
         slot' \in [Events -> {"free", "idle", "active", "deleted"}],
         queue' \in [Queues -> QueueTypes], loop' \in [Queues -> LoopTypes],
         \A r \in Queues \ {q} : loop'[r] = loop[r] /\ queue'[r].ev_ready = queue[r].ev_ready,
         \A r \in Queues : queue'[r].sig_ready = queue[r].sig_ready /\ queue'[r].fd = queue[r].fd,
         loop[q].at = "closed" => loop'[q].at = "closed",
         \A e \in Events : What[e].evq # q => evq'[e] = evq[e] /\ slot'[e] = slot[e],
         \A e \in Events : What[e].evq = q => EventOK(e)',
         ThreadOK(q)', ReadyOK(q)'
  PROVE  Inv'
  <1>1. TypeOK'
    BY DEF Inv, TypeOK
  <1>2. NoLostSignal'
    BY DEF Inv, NoLostSignal
  <1>3. \A s \in Signos : ListOK(s)'
    BY DEF Inv, ListOK
  <1>. QED BY <1>1, <1>2, <1>3, QueueStep

\* What is known of a queue, its thread and its events.
LEMMA Known ==
  ASSUME Inv
  PROVE  /\ evq \in [Events -> Queues \cup {NONE}]
         /\ slot \in [Events -> {"free", "idle", "active", "deleted"}]
         /\ queue \in [Queues -> QueueTypes] /\ loop \in [Queues -> LoopTypes]
         /\ \A e \in Events : EventOK(e)
         /\ \A q \in Queues : ThreadOK(q) /\ ReadyOK(q)
         /\ NONE \notin Events /\ NONE \notin Queues
  BY SignalsAssumption DEF Inv, TypeOK

LEMMA LevqAdd ==
  ASSUME Inv, NEW q \in Queues, NEW e \in Events, levq_add(q, e)
  PROVE  Inv'
  <1>. USE Known
  <1>1. /\ loop[q].at \in {"run", "wait"} /\ loop[q].op = NoOp /\ slot[e] = "free"
        /\ What[e].evq = q
        /\ slot' = [slot EXCEPT ![e] = "idle"] /\ evq' = [evq EXCEPT ![e] = q]
        /\ loop' = [loop EXCEPT ![q].op = [do |-> "add", ev |-> e]]
        /\ UNCHANGED <<list, disp, pending, handler, queue>>
    BY DEF levq_add, InProgram, lists, kernel
  <1>2. /\ loop' \in [Queues -> LoopTypes]
        /\ \A r \in Queues \ {q} : loop'[r] = loop[r]
        /\ loop'[q].at = loop[q].at /\ loop'[q].found = loop[q].found
        /\ loop'[q].op.do = "add" /\ loop'[q].op.ev = e
    BY <1>1, ZenonT(90) DEF LoopTypes, Ops, Dos
  <1>3. loop[q].op.ev = NONE /\ loop[q].found = <<>>
    BY <1>1 DEF NoOp, ThreadOK
  <1>4. evq[e] = NONE /\ e \notin Range(list[What[e].signo])
    BY <1>1, <1>3 DEF EventOK
  <1>5. ASSUME NEW x \in Events, What[x].evq = q PROVE EventOK(x)'
    BY <1>1, <1>2, <1>3, <1>4, <1>5 DEF EventOK
  <1>6. ThreadOK(q)'
    BY <1>1, <1>2, <1>3 DEF ThreadOK
  <1>7. ReadyOK(q)'
    BY <1>1, <1>2, <1>3 DEF ReadyOK, Range
  <1>. QED BY <1>1, <1>2, <1>5, <1>6, <1>7, PlainStep

LEMMA LevqDel ==
  ASSUME Inv, NEW q \in Queues, NEW e \in Events, levq_del(q, e)
  PROVE  Inv'
  <1>. USE Known
  <1>1. /\ loop[q].at \in {"run", "wait"} /\ loop[q].op = NoOp /\ slot[e] \in {"idle", "active"}
        /\ What[e].evq = q /\ UNCHANGED <<list, disp, pending, handler, queue>>
    BY DEF levq_del, InProgram, lists, kernel
  <1>2. loop[q].op.ev = NONE /\ loop[q].found = <<>>
    BY <1>1 DEF NoOp, ThreadOK
  <1>3. ASSUME evq[e] # NONE, evq' = [evq EXCEPT ![e] = NONE],
               loop' = [loop EXCEPT ![q].op = [do |-> "del", ev |-> e]], slot' = slot
        PROVE  Inv'
    <2>1. /\ loop' \in [Queues -> LoopTypes]
          /\ \A r \in Queues \ {q} : loop'[r] = loop[r]
          /\ loop'[q].at = loop[q].at /\ loop'[q].found = loop[q].found
          /\ loop'[q].op.do = "del" /\ loop'[q].op.ev = e
      BY <1>3 DEF LoopTypes, Ops, Dos
    <2>2. ASSUME NEW x \in Events, What[x].evq = q PROVE EventOK(x)'
      BY <1>1, <1>2, <1>3, <2>1, <2>2 DEF EventOK
    <2>3. ThreadOK(q)'
      BY <1>1, <1>2, <1>3, <2>1 DEF ThreadOK
    <2>4. ReadyOK(q)'
      BY <1>1, <1>2, <1>3, <2>1 DEF ReadyOK, Range
    <2>. QED BY <1>1, <1>3, <2>1, <2>2, <2>3, <2>4, PlainStep
  <1>4. ASSUME evq[e] = NONE, slot' = [slot EXCEPT ![e] = "deleted"], UNCHANGED <<evq, loop>>
        PROVE  Inv'
    <2>1. ASSUME NEW x \in Events, What[x].evq = q PROVE EventOK(x)'
      BY <1>1, <1>4, <2>1 DEF EventOK
    <2>2. ThreadOK(q)'
      BY <1>1, <1>4 DEF ThreadOK
    <2>3. ReadyOK(q)'
      <3>1. \A x \in Range(queue[q].ev_ready) : x \in Events
        BY DEF QueueTypes, Range
      <3>. QED BY <1>1, <1>2, <1>4, <3>1 DEF ReadyOK, Range
    <2>. QED BY <1>1, <1>4, <2>1, <2>2, <2>3, PlainStep
  <1>. QED BY <1>3, <1>4 DEF levq_del

\* The end of a VM's queue.
LEMMA LevqDone ==
  ASSUME Inv, NEW q \in Queues, levq_done(q)
  PROVE  Inv'
  <1>. USE Known
  <1>1. /\ loop[q].at \in {"run", "closing"} /\ loop[q].op = NoOp /\ queue[q].ev_ready = <<>>
        /\ UNCHANGED <<list, disp, pending, handler, queue>>
    BY DEF levq_done, lists, kernel
  <1>2. loop[q].op.ev = NONE /\ loop[q].found = <<>>
    BY <1>1 DEF NoOp, ThreadOK
  <1>3. ASSUME NEW e \in Events, evq[e] = q, evq' = [evq EXCEPT ![e] = NONE], slot' = slot,
               loop' = [loop EXCEPT ![q].at = "closing", ![q].op = [do |-> "done", ev |-> e]]
        PROVE  Inv'
    <2>0. What[e].evq = q
      BY <1>3 DEF EventOK
    <2>1. /\ loop' \in [Queues -> LoopTypes]
          /\ \A r \in Queues \ {q} : loop'[r] = loop[r]
          /\ loop'[q].at = "closing" /\ loop'[q].found = loop[q].found
          /\ loop'[q].op.do = "done" /\ loop'[q].op.ev = e
      <3>. DEFINE l == [loop[q] EXCEPT !.at = "closing", !.op = [do |-> "done", ev |-> e]]
      <3>1. /\ l \in LoopTypes /\ l.at = "closing" /\ l.found = loop[q].found
            /\ l.op = [do |-> "done", ev |-> e]
        BY DEF LoopTypes, Ops, Dos, Ats
      <3>2. loop' = [loop EXCEPT ![q] = l]
        BY <1>3
      <3>. HIDE DEF l
      <3>. QED BY <3>1, <3>2
    <2>2. ASSUME NEW x \in Events, What[x].evq = q PROVE EventOK(x)'
      BY <1>1, <1>2, <1>3, <2>0, <2>1, <2>2 DEF EventOK
    <2>3. ThreadOK(q)'
      BY <1>1, <1>2, <1>3, <2>0, <2>1 DEF ThreadOK
    <2>4. ReadyOK(q)'
      BY <1>1, <1>2, <1>3, <2>1 DEF ReadyOK, Range
    <2>. QED BY <1>1, <1>3, <2>0, <2>1, <2>2, <2>3, <2>4, PlainStep
  <1>4. ASSUME \A e \in Events : evq[e] # q, loop' = [loop EXCEPT ![q].at = "closed"],
               slot' = [e \in Events |-> IF What[e].evq = q THEN "free" ELSE slot[e]], evq' = evq
        PROVE  Inv'
    <2>1. /\ loop' \in [Queues -> LoopTypes]
          /\ \A r \in Queues \ {q} : loop'[r] = loop[r]
          /\ loop'[q].at = "closed" /\ loop'[q].found = loop[q].found /\ loop'[q].op = loop[q].op
      BY <1>4 DEF LoopTypes, Ats
    <2>2. ASSUME NEW x \in Events, What[x].evq = q PROVE EventOK(x)'
      BY <1>1, <1>2, <1>4, <2>1, <2>2 DEF EventOK
    <2>3. ThreadOK(q)'
      BY <1>1, <1>2, <1>4, <2>1 DEF ThreadOK, NoOp
    <2>4. ReadyOK(q)'
      BY <1>1, <1>2, <1>4, <2>1 DEF ReadyOK, Range
    <2>5. slot' \in [Events -> {"free", "idle", "active", "deleted"}]
      BY <1>4
    <2>. QED BY <1>1, <1>4, <2>1, <2>2, <2>3, <2>4, <2>5, PlainStep
  <1>. QED BY <1>3, <1>4 DEF levq_done, Freed

-----------------------------------------------------------------------------
(***************************************************************************)
(* Linking and unlinking, under the lock.                                  *)
(***************************************************************************)
LEMMA Opened ==
  ASSUME Inv, NEW q \in Queues, loop' = [loop EXCEPT ![q].op = NoOp]
  PROVE  /\ loop' \in [Queues -> LoopTypes]
         /\ \A r \in Queues \ {q} : loop'[r] = loop[r]
         /\ loop'[q].at = loop[q].at /\ loop'[q].found = loop[q].found
         /\ loop'[q].op.do = "none" /\ loop'[q].op.ev = NONE
         /\ \A r \in Queues : loop'[r].at = loop[r].at
  BY Known DEF LoopTypes, Ops, Dos, NoOp

LEMMA SignalAdd ==
  ASSUME Inv, NEW q \in Queues, signal_add(q)
  PROVE  Inv'
  <1>. USE Known
  <1>. DEFINE e == loop[q].op.ev
              s == What[e].signo
  <1>1. /\ loop[q].op.do = "add" /\ UNCHANGED <<pending, handler, evq, slot, queue>>
        /\ list' = [list EXCEPT ![s] = <<e>> \o @]
        /\ disp' = IF list[s] = <<>> THEN [disp EXCEPT ![s] = "handler"] ELSE disp
        /\ loop' = [loop EXCEPT ![q].op = NoOp]
    BY DEF signal_add, Holds, events
  <1>2. e \in Events /\ What[e].evq = q
    BY <1>1 DEF ThreadOK, LoopTypes, Ops
  <1>3. s \in Signos /\ evq[e] = q /\ e \notin Range(list[s])
    BY <1>1, <1>2, Owners, ZenonT(30) DEF EventOK
  <1>4. list[s] \in Seq(Events) /\ IsInjective(list[s]) /\ list \in [Signos -> Seq(Events)]
        /\ disp \in [Signos -> {"dfl", "ign", "handler"}]
    BY <1>3 DEF Inv, TypeOK, ListOK
  <1>. HIDE DEF s, e
  <1>5. /\ list'[s] \in Seq(Events) /\ list'[s] # <<>> /\ IsInjective(list'[s])
        /\ Range(list'[s]) = {e} \cup Range(list[s])
        /\ \A z \in Signos \ {s} : list'[z] = list[z]
    BY <1>1, <1>2, <1>3, <1>4, Pushed
  <1>6. TypeOK'
    <2>1. list' \in [Signos -> Seq(Events)]
      BY <1>1, <1>3, <1>4, <1>5
    <2>2. disp' \in [Signos -> {"dfl", "ign", "handler"}]
      BY <1>1, <1>4
    <2>. QED BY <1>1, <2>1, <2>2, Opened DEF Inv, TypeOK
  <1>7. NoLostSignal'
    BY <1>1, Opened DEF Inv, NoLostSignal
  <1>8. ASSUME NEW z \in Signos PROVE ListOK(z)'
    <2>1. CASE z = s
      <3>1. disp'[s] # "dfl"
        BY <1>1, <1>3, <1>4 DEF Inv, ListOK
      <3>2. \A x \in Range(list[s]) : What[x].signo = s
        BY <1>3 DEF Inv, ListOK
      <3>3. What[e].signo = s
        BY DEF s
      <3>. QED BY <1>5, <2>1, <3>1, <3>2, <3>3 DEF ListOK
    <2>2. CASE z # s
      BY <1>1, <1>4, <1>5, <2>2 DEF Inv, ListOK
    <2>. QED BY <2>1, <2>2
  <1>9. ASSUME NEW x \in Events
        PROVE  x \in Range(list'[What[x].signo]) <=> (x \in Range(list[What[x].signo]) \/ x = e)
    <2>1. What[e].signo = s
      BY DEF s
    <2>. QED BY <1>5, <2>1, Owners
  <1>10. ASSUME NEW x \in Events, What[x].evq = q PROVE EventOK(x)'
    <2>1. loop[q].op.ev = e
      BY DEF e
    <2>2. /\ loop'[q].at = loop[q].at /\ loop'[q].op.do = "none" /\ loop'[q].op.ev = NONE
          /\ evq'[x] = evq[x] /\ slot'[x] = slot[x] /\ x # NONE /\ EventOK(x)
      BY <1>1, Opened
    <2>3. x = e => evq[x] = q
      BY <1>3
    <2>. QED BY <1>1, <1>9, <1>10, <2>1, <2>2, <2>3 DEF EventOK
  <1>11. ThreadOK(q)'
    BY <1>1, Opened DEF ThreadOK
  <1>12. ReadyOK(q)'
    BY <1>1, Opened DEF ReadyOK
  <1>. QED BY <1>1, <1>2, <1>6, <1>7, <1>8, <1>9, <1>10, <1>11, <1>12, Opened, QueueStep

LEMMA Unlinked ==
  ASSUME Inv, NEW q \in Queues, loop[q].op.do \in {"del", "done", "unlink"},
         signal_del(What[loop[q].op.ev].signo, loop[q].op.ev),
         loop' = [loop EXCEPT ![q].op = NoOp], UNCHANGED <<handler, evq, queue>>,
         slot' \in [Events -> {"free", "idle", "active", "deleted"}],
         \A x \in Events : \/ slot'[x] = slot[x]
                           \/ /\ x = loop[q].op.ev /\ loop[q].op.do = "del"
                              /\ slot[x] = "idle" \/ (slot[x] = "active" /\ slot'[x] = "deleted")
  PROVE  Inv'
  <1>. USE Known
  <1>. DEFINE e == loop[q].op.ev
              s == What[e].signo
  <1>1. e \in Events /\ What[e].evq = q
    BY DEF ThreadOK, LoopTypes, Ops
  <1>2. s \in Signos /\ evq[e] = NONE
    BY <1>1, Owners DEF EventOK
  <1>3. list[s] \in Seq(Events) /\ IsInjective(list[s]) /\ list \in [Signos -> Seq(Events)]
        /\ disp \in [Signos -> {"dfl", "ign", "handler"}] /\ pending \subseteq Signos
    BY <1>2 DEF Inv, TypeOK, ListOK
  <1>. HIDE DEF s, e
  <1>4. PICK i \in DOMAIN list[s] :
          list[s][i] = e /\ list' = [list EXCEPT ![s] = RemoveAt(@, i)]
    BY DEF signal_del, s, e
  <1>5. /\ list'[s] \in Seq(Events) /\ IsInjective(list'[s])
        /\ Range(list'[s]) = Range(list[s]) \ {e}
        /\ \A z \in Signos \ {s} : list'[z] = list[z]
    BY <1>2, <1>3, <1>4, Removed
  <1>6. /\ disp' = IF list'[s] = <<>> THEN [disp EXCEPT ![s] = "dfl"] ELSE disp
        /\ pending' \subseteq pending
    BY DEF signal_del, Discarded, s, e
  <1>7. TypeOK'
    <2>1. list' \in [Signos -> Seq(Events)]
      BY <1>2, <1>3, <1>4, <1>5
    <2>2. disp' \in [Signos -> {"dfl", "ign", "handler"}]
      BY <1>3, <1>6
    <2>3. pending' \subseteq Signos
      BY <1>3, <1>6
    <2>. QED BY <2>1, <2>2, <2>3, Opened DEF Inv, TypeOK
  <1>8. NoLostSignal'
    BY Opened DEF Inv, NoLostSignal
  <1>9. ASSUME NEW z \in Signos PROVE ListOK(z)'
    <2>1. CASE z = s
      <3>1. list[s] # <<>>
        BY <1>4
      <3>2. disp[s] # "dfl"
        BY <1>2, <3>1 DEF Inv, ListOK
      <3>3. \A x \in Range(list[s]) : What[x].signo = s
        BY <1>2 DEF Inv, ListOK
      <3>4. (list'[s] # <<>> => disp'[s] # "dfl") /\ (disp'[s] = "handler" => list'[s] # <<>>)
        BY <1>2, <1>3, <1>6, <3>2
      <3>. QED BY <1>5, <2>1, <3>3, <3>4 DEF ListOK
    <2>2. CASE z # s
      BY <1>3, <1>5, <1>6, <2>2 DEF Inv, ListOK
    <2>. QED BY <2>1, <2>2
  <1>10. ASSUME NEW x \in Events
         PROVE  x \in Range(list'[What[x].signo]) <=> (x \in Range(list[What[x].signo]) /\ x # e)
    <2>1. What[e].signo = s
      BY DEF s
    <2>. QED BY <1>5, <2>1, Owners
  <1>11. ASSUME NEW x \in Events, What[x].evq = q PROVE EventOK(x)'
    <2>1. loop[q].op.ev = e
      BY DEF e
    <2>4. /\ loop'[q].at = loop[q].at /\ loop'[q].op.do = "none" /\ loop'[q].op.ev = NONE
          /\ evq'[x] = evq[x] /\ x # NONE /\ EventOK(x)
      BY Opened
    <2>2. CASE x = e
      BY <1>2, <1>10, <1>11, <2>2, <2>4 DEF EventOK
    <2>3. CASE x # e
      <3>1. slot'[x] = slot[x]
        BY <2>1, <2>3
      <3>. QED BY <1>10, <1>11, <2>1, <2>3, <2>4, <3>1 DEF EventOK
    <2>. QED BY <2>2, <2>3
  <1>12. ThreadOK(q)'
    BY Opened DEF ThreadOK
  <1>13. ReadyOK(q)'
    <2>1. \A x \in Range(queue[q].ev_ready) : x \in Events
      BY DEF QueueTypes, Range
    <2>2. \A x \in Range(loop[q].found) : x \in Events
      BY DEF LoopTypes, Range
    <2>3. loop[q].op.do = "del" => loop[q].found = <<>>
      BY DEF ThreadOK
    <2>4. \A x \in Range(queue[q].ev_ready) : slot'[x] \in {"active", "deleted"}
      BY <2>1 DEF ReadyOK
    <2>5. \A x \in Range(loop[q].found) : slot'[x] = "idle"
      BY <2>2, <2>3 DEF ReadyOK, Range
    <2>. QED BY <2>4, <2>5, Opened DEF ReadyOK
  <1>14. \A x \in Events : What[x].evq # q => slot'[x] = slot[x]
    BY <1>1 DEF e
  <1>. QED BY <1>1, <1>7, <1>8, <1>9, <1>10, <1>11, <1>12, <1>13, <1>14, Opened, QueueStep

LEMMA Unlinks ==
  ASSUME Inv, NEW q \in Queues, levq_del_event(q) \/ levq_done_event(q) \/ evq_del(q)
  PROVE  Inv'
  <1>. USE Known
  <1>1. CASE levq_done_event(q) \/ evq_del(q)
    BY <1>1, Unlinked DEF levq_done_event, evq_del, Holds, events
  <1>2. CASE levq_del_event(q)
    <2>1. loop[q].op.do = "del" /\ loop[q].op.ev \in Events
      BY <1>2 DEF levq_del_event, Holds, ThreadOK, LoopTypes, Ops
    <2>2. /\ slot' \in [Events -> {"free", "idle", "active", "deleted"}]
          /\ \A x \in Events : \/ slot'[x] = slot[x]
                               \/ /\ x = loop[q].op.ev /\ loop[q].op.do = "del"
                                  /\ slot[x] = "idle" \/ (slot[x] = "active" /\ slot'[x] = "deleted")
      BY <1>2, <2>1 DEF levq_del_event, Freed
    <2>. QED BY <1>2, <2>1, <2>2, Unlinked DEF levq_del_event
  <1>. QED BY <1>1, <1>2

-----------------------------------------------------------------------------
(***************************************************************************)
(* The kernel, the handler and the dispositions.                           *)
(***************************************************************************)
\* Steps that touch none of the events, nor what the queues' threads do.
LEMMA OutsideStep ==
  ASSUME Inv, UNCHANGED <<list, evq, slot, loop>>, pending' \subseteq Signos,
         disp' \in [Signos -> {"dfl", "ign", "handler"}],
         \A s \in Signos : /\ list[s] # <<>> => disp'[s] # "dfl"
                           /\ disp'[s] = "handler" => list[s] # <<>>,
         handler' \in [Hosts -> Seq(HandlerTypes)],
         queue' \in [Queues -> QueueTypes],
         \A q \in Queues : queue'[q].ev_ready = queue[q].ev_ready,
         NoLostSignal'
  PROVE  Inv'
  <1>1. TypeOK'
    BY DEF Inv, TypeOK
  <1>2. \A s \in Signos : ListOK(s)'
    BY DEF Inv, ListOK
  <1>3. \A e \in Events : EventOK(e)'
    BY DEF Inv, EventOK
  <1>4. \A q \in Queues : ThreadOK(q)'
    BY DEF Inv, ThreadOK
  <1>5. \A q \in Queues : ReadyOK(q)'
    BY DEF Inv, ReadyOK
  <1>. QED BY <1>1, <1>2, <1>3, <1>4, <1>5 DEF Inv

\* evq_signal leaves the queue with something to wake it.
LEMMA Signalled ==
  ASSUME Inv, NEW q \in Queues, NEW s \in Signos \cup {EVQ_SIGEVQ},
         queue' = [queue EXCEPT ![q] = evq_signal(@, s)], loop' = loop
  PROVE  /\ queue' \in [Queues -> QueueTypes] /\ NoLostSignal'
         /\ \A r \in Queues : queue'[r].ev_ready = queue[r].ev_ready
  <1>. USE Known
  <1>. DEFINE n == evq_signal(queue[q], s)
  <1>1. n \in QueueTypes /\ n.ev_ready = queue[q].ev_ready
    BY DEF QueueTypes, evq_signal
  <1>2. n.fd \/ loop[q].at = "closed"
    BY DEF QueueTypes, evq_signal, Inv, NoLostSignal
  <1>3. queue' = [queue EXCEPT ![q] = n]
    OBVIOUS
  <1>. HIDE DEF n
  <1>4. queue' \in [Queues -> QueueTypes] /\ \A r \in Queues : queue'[r].ev_ready = queue[r].ev_ready
    BY <1>1, <1>3
  <1>5. \A r \in Queues : queue'[r] = IF r = q THEN n ELSE queue[r]
    BY <1>3
  <1>6. NoLostSignal'
    BY <1>2, <1>5 DEF Inv, NoLostSignal
  <1>. QED BY <1>4, <1>6

LEMMA Outside ==
  ASSUME Inv,
         \/ \E s \in Signos : Kill(s)
         \/ \E c \in Children : Exit(c)
         \/ \E t \in Hosts : \E s \in Signos : Deliver(s, t)
         \/ \E q \in Queues : Lock(q)
  PROVE  Inv'
  <1>. DEFINE Goal == /\ UNCHANGED <<list, evq, slot, loop, disp, queue>> /\ pending' \subseteq Signos
                      /\ handler' \in [Hosts -> Seq(HandlerTypes)]
  <1>1. Goal
    <2>0. pending \subseteq Signos /\ handler \in [Hosts -> Seq(HandlerTypes)]
      BY DEF Inv, TypeOK
    <2>1. ASSUME NEW s \in Signos, Kill(s) PROVE Goal
      BY <2>0, <2>1 DEF Kill, Sent, lists, events
    <2>2. ASSUME NEW c \in Children, Exit(c) PROVE Goal
      BY <2>0, <2>2 DEF Exit, Sent, lists, events, Signos
    <2>3. ASSUME NEW s \in Signos, NEW t \in Hosts, Deliver(s, t) PROVE Goal
      <3>. DEFINE h == [signo |-> s, locked |-> FALSE, rest |-> <<>>]
      <3>1. h \in HandlerTypes
        BY DEF HandlerTypes
      <3>4. handler[t] \in Seq(HandlerTypes)
        BY <2>0
      <3>2. /\ UNCHANGED <<list, evq, slot, loop, disp, queue>> /\ pending' = pending \ {s}
            /\ handler' = [handler EXCEPT ![t] = <<h>> \o handler[t]]
        BY <2>3 DEF Deliver, lists
      <3>. HIDE DEF h
      <3>3. <<h>> \o handler[t] \in Seq(HandlerTypes)
        BY <3>1, <3>4
      <3>. QED BY <2>0, <3>2, <3>3
    <2>4. ASSUME NEW q \in Queues, Lock(q) PROVE Goal
      BY <2>0, <2>4 DEF Lock, kernel, events
    <2>. QED BY <2>1, <2>2, <2>3, <2>4
  <1>2. NoLostSignal'
    BY <1>1 DEF Inv, NoLostSignal
  <1>. QED BY <1>1, <1>2, OutsideStep DEF Inv, TypeOK, ListOK

\* The innermost handler of a thread goes on.
LEMMA Innermost ==
  ASSUME NEW t \in Hosts, handler \in [Hosts -> Seq(HandlerTypes)], handler[t] # <<>>,
         NEW h \in HandlerTypes, Becomes(t, h)
  PROVE  handler' \in [Hosts -> Seq(HandlerTypes)]
  <1>1. Tail(handler[t]) \in Seq(HandlerTypes)
    OBVIOUS
  <1>2. <<h>> \o Tail(handler[t]) \in Seq(HandlerTypes)
    BY <1>1
  <1>. QED BY <1>2 DEF Becomes

LEMMA Handler ==
  ASSUME Inv, \/ \E t \in Hosts : HandlerStep(t)
              \/ \E q \in Queues, s \in Named \cup {EVQ_SIGEVQ} : levq_signal(q, s)
  PROVE  Inv'
  <1>. USE Known
  <1>0. /\ list \in [Signos -> Seq(Events)] /\ handler \in [Hosts -> Seq(HandlerTypes)]
        /\ disp \in [Signos -> {"dfl", "ign", "handler"}] /\ pending \subseteq Signos
        /\ \A s \in Signos : /\ list[s] # <<>> => disp[s] # "dfl"
                             /\ disp[s] = "handler" => list[s] # <<>>
    BY DEF Inv, TypeOK, ListOK
  <1>1. ASSUME NEW q \in Queues, NEW s \in Named \cup {EVQ_SIGEVQ}, levq_signal(q, s) PROVE Inv'
    <2>1. /\ UNCHANGED <<list, evq, slot, loop, disp, pending, handler>>
          /\ queue' = [queue EXCEPT ![q] = evq_signal(@, s)] /\ s \in Signos \cup {EVQ_SIGEVQ}
      BY <1>1 DEF levq_signal, lists, events, Named, Signos
    <2>. QED BY <1>0, <2>1, Signalled, OutsideStep
  <1>2. ASSUME NEW t \in Hosts, signal_handler_lock(t) PROVE Inv'
    <2>. DEFINE h == Head(handler[t])
                n == [h EXCEPT !.locked = TRUE, !.rest = list[h.signo]]
    <2>1. /\ UNCHANGED <<list, evq, slot, loop, disp, pending, queue>>
          /\ handler[t] # <<>> /\ Becomes(t, n)
      BY <1>2 DEF signal_handler_lock, InHandler, kernel, events
    <2>2. h \in HandlerTypes
      BY <1>0, <2>1
    <2>3. n \in HandlerTypes
      BY <1>0, <2>2 DEF HandlerTypes
    <2>4. handler' \in [Hosts -> Seq(HandlerTypes)]
      BY <1>0, <2>1, <2>3, Innermost
    <2>5. NoLostSignal'
      BY <2>1 DEF Inv, NoLostSignal
    <2>. QED BY <1>0, <2>1, <2>4, <2>5, OutsideStep
  <1>3. ASSUME NEW t \in Hosts, signal_handler_end(t) PROVE Inv'
    <2>1. /\ UNCHANGED <<list, evq, slot, loop, disp, pending, queue>>
          /\ handler[t] # <<>> /\ handler' = [handler EXCEPT ![t] = Tail(handler[t])]
      BY <1>3 DEF signal_handler_end, InHandler, kernel, events
    <2>2. handler' \in [Hosts -> Seq(HandlerTypes)]
      BY <1>0, <2>1
    <2>3. NoLostSignal'
      BY <2>1 DEF Inv, NoLostSignal
    <2>. QED BY <1>0, <2>1, <2>2, <2>3, OutsideStep
  <1>4. ASSUME NEW t \in Hosts, signal_handler(t) PROVE Inv'
    <2>. DEFINE h == Head(handler[t])
                q == evq[Head(h.rest)]
                n == [h EXCEPT !.rest = Tail(@)]
    <2>1. /\ UNCHANGED <<list, evq, slot, loop, disp, pending>>
          /\ handler[t] # <<>> /\ h.rest # <<>> /\ Becomes(t, n)
          /\ UNCHANGED queue \/ (q # NONE /\ queue' = [queue EXCEPT ![q] = evq_signal(@, h.signo)])
      BY <1>4 DEF signal_handler, InHandler, kernel, lists, events
    <2>2. h \in HandlerTypes
      <3>1. handler[t] \in Seq(HandlerTypes) /\ handler[t] # <<>>
        BY <1>0, <2>1
      <3>. QED BY <3>1
    <2>. HIDE DEF h
    <2>3. /\ Head(h.rest) \in Events /\ n \in HandlerTypes
          /\ h.signo \in Signos \cup {EVQ_SIGEVQ}
      <3>1. h.rest \in Seq(Events) /\ h.rest # <<>> /\ h.signo \in Signos
        BY <2>1, <2>2 DEF HandlerTypes
      <3>2. Head(h.rest) \in Events /\ Tail(h.rest) \in Seq(Events)
        BY <3>1
      <3>. QED BY <2>2, <3>1, <3>2 DEF HandlerTypes
    <2>4. q \in Queues \cup {NONE}
      BY <2>3
    <2>5. handler' \in [Hosts -> Seq(HandlerTypes)]
      BY <1>0, <2>1, <2>3, Innermost
    <2>. HIDE DEF q, n
    <2>6. CASE UNCHANGED queue
      <3>1. NoLostSignal'
        BY <2>1, <2>6 DEF Inv, NoLostSignal
      <3>. QED BY <1>0, <2>1, <2>5, <2>6, <3>1, OutsideStep
    <2>7. CASE q # NONE /\ queue' = [queue EXCEPT ![q] = evq_signal(@, h.signo)]
      <3>1. q \in Queues
        BY <2>4, <2>7
      <3>2. queue' \in [Queues -> QueueTypes] /\ NoLostSignal'
            /\ \A r \in Queues : queue'[r].ev_ready = queue[r].ev_ready
        BY <2>1, <2>3, <2>7, <3>1, Signalled
      <3>. QED BY <1>0, <2>1, <2>5, <3>2, OutsideStep
    <2>. QED BY <2>1, <2>6, <2>7
  <1>. QED BY <1>1, <1>2, <1>3, <1>4 DEF HandlerStep

LEMMA Ignore ==
  ASSUME Inv, NEW q \in Queues, NEW s \in Named, NEW ignore \in BOOLEAN,
         evq_ignore_signal(q, s, ignore)
  PROVE  Inv'
  <1>0. /\ handler \in [Hosts -> Seq(HandlerTypes)]
        /\ disp \in [Signos -> {"dfl", "ign", "handler"}] /\ pending \subseteq Signos
        /\ \A z \in Signos : /\ list[z] # <<>> => disp[z] # "dfl"
                             /\ disp[z] = "handler" => list[z] # <<>>
    BY DEF Inv, TypeOK, ListOK
  <1>. DEFINE d == CASE ignore -> "ign" [] list[s] # <<>> -> "handler" [] OTHER -> "dfl"
  <1>1. /\ UNCHANGED <<list, evq, slot, loop, handler, queue>>
        /\ disp' = [disp EXCEPT ![s] = d] /\ pending' \subseteq pending
    BY DEF evq_ignore_signal, Discarded, lists, events
  <1>2. /\ d \in {"dfl", "ign", "handler"}
        /\ list[s] # <<>> => d # "dfl"
        /\ d = "handler" => list[s] # <<>>
    OBVIOUS
  <1>. HIDE DEF d
  <1>3. NoLostSignal'
    BY <1>1 DEF Inv, NoLostSignal
  <1>4. disp' \in [Signos -> {"dfl", "ign", "handler"}]
        /\ \A z \in Signos : /\ list[z] # <<>> => disp'[z] # "dfl"
                             /\ disp'[z] = "handler" => list[z] # <<>>
    BY <1>0, <1>1, <1>2
  <1>. QED BY <1>0, <1>1, <1>3, <1>4, OutsideStep, Known

-----------------------------------------------------------------------------
(***************************************************************************)
(* The loop of a queue.                                                    *)
(***************************************************************************)
\* A step that moves the thread without touching events.
LEMMA MoveStep ==
  ASSUME Inv, NEW q \in Queues, NEW l \in LoopTypes, loop' = [loop EXCEPT ![q] = l],
         UNCHANGED <<list, disp, pending, handler, evq, slot>>,
         queue' \in [Queues -> QueueTypes], \A r \in Queues : queue'[r].ev_ready = queue[r].ev_ready,
         NoLostSignal', l.op.ev = NONE, l.op.do \in {"none", "collect"},
         l.op.do = "collect" => l.at = "signals" /\ l.signos # {},
         loop[q].op.ev = NONE, loop[q].at \notin {"closing", "closed"},
         l.at \notin {"closing", "closed"},
         l.found # <<>> => l.at = "signals" /\ l.op.do # "collect",
         IsInjective(l.found), \A e \in Range(l.found) : evq[e] = q /\ slot[e] = "idle"
  PROVE  Inv'
  <1>. USE Known
  <1>1. loop' \in [Queues -> LoopTypes] /\ loop'[q] = l /\ \A r \in Queues \ {q} : loop'[r] = loop[r]
    OBVIOUS
  <1>2. TypeOK'
    BY <1>1 DEF Inv, TypeOK
  <1>3. \A s \in Signos : ListOK(s)'
    BY DEF Inv, ListOK
  <1>4. ASSUME NEW x \in Events, What[x].evq = q PROVE EventOK(x)'
    BY <1>1, <1>4 DEF EventOK
  <1>5. ThreadOK(q)'
    BY <1>1 DEF ThreadOK
  <1>6. ReadyOK(q)'
    BY <1>1 DEF ReadyOK
  <1>. QED BY <1>1, <1>2, <1>3, <1>4, <1>5, <1>6, QueueStep

\* Where the thread stands when no lock is wanted.
LEMMA Idle ==
  ASSUME Inv, NEW q \in Queues, loop[q].op = NoOp
  PROVE  loop[q].op.ev = NONE /\ (loop[q].at # "signals" => loop[q].found = <<>>)
  BY Known DEF NoOp, ThreadOK

LEMMA ProcessInterrupt ==
  ASSUME Inv, NEW q \in Queues, signal_process_interrupt(q) \/ Reset(q)
  PROVE  Inv'
  <1>. USE Known
  <1>1. CASE signal_process_interrupt(q)
    <2>. DEFINE l == [loop[q] EXCEPT !.at = "reset"]
    <2>1. /\ loop[q].at = "wait" /\ loop[q].op = NoOp /\ loop' = [loop EXCEPT ![q] = l]
          /\ queue' = [queue EXCEPT ![q].sig_cs = TRUE]
          /\ UNCHANGED <<list, disp, pending, handler, evq, slot>>
      BY <1>1 DEF signal_process_interrupt, lists, kernel, events
    <2>2. loop[q].op.ev = NONE /\ loop[q].found = <<>>
      BY <2>1, Idle
    <2>3. l \in LoopTypes /\ l.at = "reset" /\ l.op = NoOp /\ l.found = <<>>
      BY <2>1, <2>2 DEF LoopTypes, Ats
    <2>. HIDE DEF l
    <2>4. /\ queue' \in [Queues -> QueueTypes]
          /\ \A r \in Queues : /\ queue'[r].ev_ready = queue[r].ev_ready
                               /\ queue'[r].sig_ready = queue[r].sig_ready
                               /\ queue'[r].fd = queue[r].fd
      BY <2>1, ZenonT(30) DEF QueueTypes
    <2>5. \A r \in Queues : loop[r].at = "closed" => loop'[r].at = "closed"
      BY <2>1
    <2>6. NoLostSignal'
      BY <2>4, <2>5 DEF Inv, NoLostSignal
    <2>7. l.op.do = "none" /\ l.op.ev = NONE
      BY <2>3 DEF NoOp
    <2>8. IsInjective(l.found) /\ \A e \in Range(l.found) : evq[e] = q /\ slot[e] = "idle"
      BY <2>3, EmptyList
    <2>9. \A r \in Queues : queue'[r].ev_ready = queue[r].ev_ready
      BY <2>4
    <2>10. loop[q].at \notin {"closing", "closed"} /\ l.at \notin {"closing", "closed"}
      BY <2>1, <2>3
    <2>11. queue' \in [Queues -> QueueTypes] /\ loop' = [loop EXCEPT ![q] = l] /\ l.found = <<>>
      BY <2>1, <2>3, <2>4
    <2>. QED BY <2>1, <2>2, <2>3, <2>6, <2>7, <2>8, <2>9, <2>10, <2>11, MoveStep
  <1>2. CASE Reset(q)
    <2>. DEFINE l == [loop[q] EXCEPT !.at = "signals", !.signos = queue[q].sig_ready \ {EVQ_SIGEVQ}]
                n == Taken(queue[q])
    <2>1. /\ loop[q].at = "reset" /\ loop' = [loop EXCEPT ![q] = l] /\ queue' = [queue EXCEPT ![q] = n]
          /\ UNCHANGED <<list, disp, pending, handler, evq, slot>>
      BY <1>2 DEF Reset, lists, kernel, events
    <2>2. loop[q].op.do = "none" /\ loop[q].op.ev = NONE /\ loop[q].found = <<>>
      BY <2>1 DEF ThreadOK, LoopTypes, Ops, Dos
    <2>3. l \in LoopTypes /\ l.at = "signals" /\ l.op = loop[q].op /\ l.found = <<>>
      BY <2>2, ZenonT(30) DEF LoopTypes, QueueTypes, Ats
    <2>4. n \in QueueTypes /\ n.ev_ready = queue[q].ev_ready /\ n.sig_ready = {}
      BY DEF QueueTypes, Taken
    <2>. HIDE DEF l, n
    <2>5. /\ queue' \in [Queues -> QueueTypes]
          /\ \A r \in Queues : queue'[r].ev_ready = queue[r].ev_ready
      BY <2>1, <2>4
    <2>6. \A r \in Queues \ {q} : queue'[r] = queue[r] /\ loop'[r] = loop[r]
      BY <2>1
    <2>7. queue'[q].sig_ready = {}
      BY <2>1, <2>4
    <2>8. NoLostSignal'
      BY <2>6, <2>7 DEF Inv, NoLostSignal
    <2>9. IsInjective(l.found) /\ \A e \in Range(l.found) : evq[e] = q /\ slot[e] = "idle"
      BY <2>3, EmptyList
    <2>10. loop[q].at \notin {"closing", "closed"} /\ l.at \notin {"closing", "closed"}
      BY <2>1, <2>3
    <2>11. l.op.do = "none" /\ l.op.ev = NONE
      BY <2>2, <2>3
    <2>. QED BY <2>1, <2>2, <2>3, <2>5, <2>8, <2>9, <2>10, <2>11, MoveStep
  <1>. QED BY <1>1, <1>2

LEMMA SignalChosen ==
  ASSUME Inv, NEW q \in Queues, NextSignal(q)
  PROVE  Inv'
  <1>. USE Known
  <1>1. /\ loop[q].at = "signals" /\ loop[q].op = NoOp /\ loop[q].found = <<>>
        /\ UNCHANGED <<list, disp, pending, handler, evq, slot, queue>>
    BY DEF NextSignal, lists, kernel, events
  <1>2. loop[q].op.ev = NONE
    BY <1>1, Idle
  <1>3. ASSUME NEW l \in LoopTypes, loop' = [loop EXCEPT ![q] = l], l.found = <<>>, l.op.ev = NONE,
               (l.op.do = "collect" /\ l.at = "signals" /\ l.signos # {}) \/ (l.op.do = "none" /\ l.at = "run")
        PROVE  Inv'
    <2>1. \A r \in Queues : loop[r].at = "closed" => loop'[r].at = "closed"
      BY <1>1, <1>3
    <2>2. NoLostSignal'
      BY <1>1, <2>1 DEF Inv, NoLostSignal
    <2>. QED BY <1>1, <1>2, <1>3, <2>2, EmptyList, MoveStep
  <1>4. CASE loop[q].signos # {} /\ loop' = [loop EXCEPT ![q].op = [do |-> "collect", ev |-> NONE]]
    <2>. DEFINE l == [loop[q] EXCEPT !.op = [do |-> "collect", ev |-> NONE]]
    <2>1. /\ l \in LoopTypes /\ l.found = <<>> /\ l.op.ev = NONE
          /\ l.op.do = "collect" /\ l.at = "signals" /\ l.signos # {}
      BY <1>1, <1>4 DEF LoopTypes, Ops, Dos
    <2>2. loop' = [loop EXCEPT ![q] = l]
      BY <1>4
    <2>. QED BY <1>3, <2>1, <2>2
  <1>5. CASE loop' = [loop EXCEPT ![q].at = "run"]
    <2>. DEFINE l == [loop[q] EXCEPT !.at = "run"]
    <2>1. /\ l \in LoopTypes /\ l.found = <<>> /\ l.op = NoOp /\ l.at = "run"
      BY <1>1 DEF LoopTypes, Ats
    <2>3. l.op.ev = NONE /\ l.op.do = "none"
      BY <2>1 DEF NoOp
    <2>2. loop' = [loop EXCEPT ![q] = l]
      BY <1>5
    <2>. QED BY <1>3, <2>1, <2>2, <2>3
  <1>. QED BY <1>4, <1>5 DEF NextSignal

\* What is collected from a list is this queue's, and nothing twice.
LEMMA ProcessActives ==
  ASSUME Inv, NEW q \in Queues, signal_process_actives(q)
  PROVE  Inv'
  <1>. USE Known
  <1>. DEFINE s == Min(loop[q].signos)
              F(f) == [k \in DOMAIN f |-> list[s][f[k]]]
              l(f) == [loop[q] EXCEPT !.op = NoOp, !.signos = @ \ {s}, !.found = F(f)]
  <1>1. loop[q].op.do = "collect" /\ UNCHANGED <<list, disp, pending, handler, evq, slot, queue>>
    BY DEF signal_process_actives, Holds, kernel, events
  <1>2. loop[q].at = "signals" /\ loop[q].op.ev = NONE /\ loop[q].signos # {}
    BY <1>1 DEF ThreadOK
  <1>3. PICK f \in [1..Cardinality(Mine(q, s)) -> Mine(q, s)] :
          /\ \A j, k \in DOMAIN f : j < k => f[j] > f[k]
          /\ loop' = [loop EXCEPT ![q] = l(f)]
    BY ZenonT(30) DEF signal_process_actives
  <1>4. s \in Signos
    <2>1. loop[q].signos \subseteq {2, 17}
      BY DEF LoopTypes, Signos, SIGINT, SIGCHLD
    <2>2. \E x \in loop[q].signos : \A y \in loop[q].signos : x <= y
      BY <1>2, <2>1
    <2>. QED BY <2>1, <2>2 DEF Min, Signos, SIGINT, SIGCHLD
  <1>. HIDE DEF s
  <1>5. list[s] \in Seq(Events) /\ IsInjective(list[s])
    BY <1>4 DEF Inv, TypeOK, ListOK
  <1>6. Mine(q, s) \subseteq DOMAIN list[s] /\ DOMAIN list[s] \subseteq Nat
    BY <1>5 DEF Mine
  <1>. DEFINE N == Cardinality(Mine(q, s))
  <1>7. N \in Nat
    <2>1. DOMAIN list[s] = 1..Len(list[s]) /\ Len(list[s]) \in Int
      BY <1>5
    <2>2. IsFiniteSet(1..Len(list[s]))
      BY <2>1, FS_Interval
    <2>3. IsFiniteSet(Mine(q, s))
      BY <1>6, <2>1, <2>2, FS_Subset
    <2>. QED BY <2>3, FS_CardinalityType
  <1>. HIDE DEF N
  <1>8. DOMAIN f = 1..N /\ DOMAIN F(f) = 1..N
    BY <1>3 DEF N
  <1>9. \A k \in 1..N : f[k] \in Mine(q, s) /\ F(f)[k] = list[s][f[k]]
    BY <1>3, <1>8
  <1>10. F(f) \in Seq(Events) /\ \A e \in Range(F(f)) : evq[e] = q /\ slot[e] = "idle"
    <2>0. \A i \in Mine(q, s) : /\ list[s][i] \in Events
                                /\ evq[list[s][i]] = q /\ slot[list[s][i]] = "idle"
      BY <1>5 DEF Mine
    <2>1. \A k \in 1..N : /\ F(f)[k] \in Events
                          /\ evq[F(f)[k]] = q /\ slot[F(f)[k]] = "idle"
      BY <1>9, <2>0
    <2>2. F(f) \in [1..N -> Events]
      BY <1>8, <2>1
    <2>. QED BY <1>7, <1>8, <2>1, <2>2, SMTT(30) DEF Range
  <1>11. IsInjective(F(f))
    <2>. SUFFICES ASSUME NEW j \in 1..N, NEW k \in 1..N, F(f)[j] = F(f)[k] PROVE j = k
      BY <1>8 DEF IsInjective
    <2>1. f[j] = f[k] /\ f[j] \in Nat
      BY <1>5, <1>6, <1>9 DEF IsInjective
    <2>2. ~(j < k) /\ ~(k < j)
      BY <1>3, <1>8, <2>1
    <2>. QED BY <1>7, <2>2
  <1>. HIDE DEF F
  <1>12. l(f) \in LoopTypes /\ l(f).at = "signals" /\ l(f).op = NoOp /\ l(f).found = F(f)
    BY <1>2, <1>10, ZenonT(30) DEF LoopTypes, Ops, Dos, NoOp
  <1>. HIDE DEF l
  <1>13. \A r \in Queues : loop[r].at = "closed" => loop'[r].at = "closed"
    BY <1>2, <1>3
  <1>14. NoLostSignal'
    BY <1>1, <1>13 DEF Inv, NoLostSignal
  <1>15. l(f).op.do = "none" /\ l(f).op.ev = NONE
    BY <1>12 DEF NoOp
  <1>16. loop' = [loop EXCEPT ![q] = l(f)]
    BY <1>3
  <1>. QED BY <1>1, <1>2, <1>10, <1>11, <1>12, <1>14, <1>15, <1>16, MoveStep

\* The next event that was found is queued for its callback, or left.
LEMMA ProcessActive ==
  ASSUME Inv, NEW q \in Queues, evq_process_active(q)
  PROVE  Inv'
  <1>. USE Known
  <1>. DEFINE f == loop[q].found
              e == Head(f)
  <1>1. /\ loop[q].at = "signals" /\ loop[q].op = NoOp /\ f # <<>>
        /\ UNCHANGED <<list, disp, pending, handler>>
    BY DEF evq_process_active, lists
  <1>2. loop[q].op.ev = NONE /\ loop[q].op.do = "none"
    BY <1>1 DEF NoOp
  <1>3. f \in Seq(Events) /\ IsInjective(f) /\ queue[q].ev_ready \in Seq(Events)
    BY DEF LoopTypes, QueueTypes, ReadyOK
  <1>. HIDE DEF f
  <1>4. /\ e \in Events /\ Tail(f) \in Seq(Events) /\ IsInjective(Tail(f))
        /\ e \in Range(f) /\ Range(Tail(f)) = Range(f) \ {e}
    BY <1>1, <1>3, Popped
  <1>5. evq[e] = q /\ slot[e] = "idle" /\ \A x \in Range(f) : evq[x] = q /\ slot[x] = "idle"
    BY <1>4 DEF ReadyOK, f
  <1>6. What[e].evq = q
    BY <1>4, <1>5 DEF EventOK
  <1>. HIDE DEF e
  <1>7. ASSUME NEW op \in Ops, loop' = [loop EXCEPT ![q].found = Tail(f), ![q].op = op]
        PROVE  /\ loop' \in [Queues -> LoopTypes]
               /\ \A r \in Queues \ {q} : loop'[r] = loop[r]
               /\ loop'[q].at = "signals" /\ loop'[q].found = Tail(f) /\ loop'[q].op = op
    <2>. DEFINE l == [loop[q] EXCEPT !.found = Tail(f), !.op = op]
    <2>1. l \in LoopTypes /\ l.at = "signals" /\ l.found = Tail(f) /\ l.op = op
      BY <1>1, <1>4 DEF LoopTypes
    <2>2. loop' = [loop EXCEPT ![q] = l]
      BY <1>7
    <2>. HIDE DEF l
    <2>. QED BY <2>1, <2>2
  <1>8. /\ NoOp \in Ops /\ NoOp.do = "none" /\ NoOp.ev = NONE
        /\ [loop EXCEPT ![q].found = Tail(f)] = [loop EXCEPT ![q].found = Tail(f), ![q].op = NoOp]
    <2>1. NoOp \in Ops /\ NoOp.do = "none" /\ NoOp.ev = NONE
      BY DEF NoOp, Ops, Dos
    <2>2. [loop[q] EXCEPT !.found = Tail(f)] = [loop[q] EXCEPT !.found = Tail(f), !.op = NoOp]
      BY <1>1 DEF LoopTypes
    <2>. QED BY <2>1, <2>2
  <1>9. CASE UNCHANGED <<evq, slot, queue>> /\ loop' = [loop EXCEPT ![q].found = Tail(f)]
    <2>1. /\ loop' \in [Queues -> LoopTypes]
          /\ \A r \in Queues \ {q} : loop'[r] = loop[r]
          /\ loop'[q].at = "signals" /\ loop'[q].found = Tail(f)
          /\ loop'[q].op.do = "none" /\ loop'[q].op.ev = NONE
      BY <1>7, <1>8, <1>9
    <2>2. ASSUME NEW x \in Events, What[x].evq = q PROVE EventOK(x)'
      BY <1>1, <1>2, <1>9, <2>1, <2>2 DEF EventOK
    <2>3. ThreadOK(q)'
      BY <1>9, <2>1 DEF ThreadOK
    <2>4. ReadyOK(q)'
      BY <1>4, <1>5, <1>9, <2>1 DEF ReadyOK
    <2>. QED BY <1>1, <1>9, <2>1, <2>2, <2>3, <2>4, PlainStep
  <1>10. ASSUME slot' = [slot EXCEPT ![e] = "active"],
                queue' = [queue EXCEPT ![q].ev_ready = <<e>> \o @],
                \/ /\ evq' = [evq EXCEPT ![e] = NONE]
                   /\ loop' = [loop EXCEPT ![q].found = Tail(f),
                                           ![q].op = [do |-> "unlink", ev |-> e]]
                \/ evq' = evq /\ loop' = [loop EXCEPT ![q].found = Tail(f)]
         PROVE  Inv'
    <2>1. /\ loop' \in [Queues -> LoopTypes]
          /\ \A r \in Queues \ {q} : loop'[r] = loop[r]
          /\ loop'[q].at = "signals" /\ loop'[q].found = Tail(f)
          /\ \/ evq' = [evq EXCEPT ![e] = NONE] /\ loop'[q].op.do = "unlink" /\ loop'[q].op.ev = e
             \/ evq' = evq /\ loop'[q].op.do = "none" /\ loop'[q].op.ev = NONE
      <3>. DEFINE o == [do |-> "unlink", ev |-> e]
      <3>1. o \in Ops /\ o.do = "unlink" /\ o.ev = e
        BY <1>4 DEF Ops, Dos
      <3>. HIDE DEF o
      <3>2. CASE /\ evq' = [evq EXCEPT ![e] = NONE]
                 /\ loop' = [loop EXCEPT ![q].found = Tail(f), ![q].op = o]
        BY <1>7, <3>1, <3>2
      <3>3. CASE evq' = evq /\ loop' = [loop EXCEPT ![q].found = Tail(f)]
        BY <1>7, <1>8, <3>3
      <3>. QED BY <1>10, <3>2, <3>3 DEF o
    <2>. DEFINE n == <<e>> \o queue[q].ev_ready
    <2>2. e \notin Range(queue[q].ev_ready)
      BY <1>5 DEF ReadyOK
    <2>3. n \in Seq(Events) /\ IsInjective(n) /\ Range(n) = {e} \cup Range(queue[q].ev_ready)
      BY <1>3, <1>4, <2>2, Pushed DEF ReadyOK
    <2>4. queue' = [queue EXCEPT ![q].ev_ready = n]
      BY <1>10
    <2>. HIDE DEF n
    <2>5. /\ queue' \in [Queues -> QueueTypes] /\ queue'[q].ev_ready = n
          /\ \A r \in Queues \ {q} : queue'[r] = queue[r]
          /\ \A r \in Queues : queue'[r].sig_ready = queue[r].sig_ready /\ queue'[r].fd = queue[r].fd
      BY <2>3, <2>4, ZenonT(30) DEF QueueTypes
    <2>6. \A x \in Events : slot'[x] = IF x = e THEN "active" ELSE slot[x]
      BY <1>10
    <2>7. \A x \in Events \ {e} : evq'[x] = evq[x]
      BY <2>1
    <2>8. ASSUME NEW x \in Events, What[x].evq = q PROVE EventOK(x)'
      <3>1. CASE x = e
        BY <1>1, <1>2, <1>4, <1>5, <2>1, <2>6, <2>8, <3>1 DEF EventOK
      <3>2. CASE x # e
        BY <1>1, <1>2, <2>1, <2>6, <2>7, <2>8, <3>2 DEF EventOK
      <3>. QED BY <3>1, <3>2
    <2>9. ThreadOK(q)'
      BY <1>4, <1>6, <2>1, <2>5 DEF ThreadOK
    <2>10. ReadyOK(q)'
      <3>1. \A x \in Range(n) : x \in Events /\ What[x].evq = q
        BY <1>4, <1>6, <2>3, RangeIn DEF ReadyOK
      <3>2. \A x \in Range(n) : slot'[x] \in {"active", "deleted"}
        BY <2>3, <2>6, <3>1 DEF ReadyOK
      <3>3. \A x \in Range(Tail(f)) : x \in Events \ {e}
        BY <1>4, RangeIn
      <3>4. \A x \in Range(Tail(f)) : evq'[x] = q /\ slot'[x] = "idle"
        BY <1>4, <1>5, <2>6, <2>7, <3>3
      <3>. QED BY <1>4, <2>1, <2>3, <2>5, <3>1, <3>2, <3>4 DEF ReadyOK
    <2>11. evq' \in [Events -> Queues \cup {NONE}]
           /\ slot' \in [Events -> {"free", "idle", "active", "deleted"}]
      BY <1>10, <2>1
    <2>12. \A x \in Events : What[x].evq # q => evq'[x] = evq[x] /\ slot'[x] = slot[x]
      BY <1>6, <2>6, <2>7
    <2>. QED BY <1>1, <2>1, <2>5, <2>8, <2>9, <2>10, <2>11, <2>12, PlainStep
  <1>. QED BY <1>9, <1>10 DEF evq_process_active, f, e

\* sys_evq_loop takes a ready event, or waits.
LEMMA EvqLoop ==
  ASSUME Inv, NEW q \in Queues, sys_evq_loop(q)
  PROVE  Inv'
  <1>. USE Known
  <1>1. /\ loop[q].at = "run" /\ loop[q].op = NoOp
        /\ UNCHANGED <<list, disp, pending, handler, evq>>
    BY DEF sys_evq_loop, lists, kernel
  <1>2. loop[q].op.ev = NONE /\ loop[q].op.do = "none" /\ loop[q].found = <<>>
    BY <1>1 DEF NoOp, ThreadOK
  <1>3. CASE loop' = [loop EXCEPT ![q].at = "wait"] /\ UNCHANGED <<slot, queue>>
    <2>1. /\ loop' \in [Queues -> LoopTypes]
          /\ \A r \in Queues \ {q} : loop'[r] = loop[r]
          /\ loop'[q].at = "wait" /\ loop'[q].found = loop[q].found /\ loop'[q].op = loop[q].op
      BY <1>3 DEF LoopTypes, Ats
    <2>2. ASSUME NEW x \in Events, What[x].evq = q PROVE EventOK(x)'
      BY <1>1, <1>2, <1>3, <2>1, <2>2 DEF EventOK
    <2>3. ThreadOK(q)'
      BY <1>2, <1>3, <2>1 DEF ThreadOK
    <2>4. ReadyOK(q)'
      BY <1>1, <1>3, <2>1 DEF ReadyOK
    <2>. QED BY <1>1, <1>3, <2>1, <2>2, <2>3, <2>4, PlainStep
  <1>. DEFINE n == queue[q].ev_ready
              e == Head(n)
  <1>4. n \in Seq(Events) /\ IsInjective(n)
    BY DEF QueueTypes, ReadyOK
  <1>. HIDE DEF n
  <1>5. ASSUME n # <<>>, queue' = [queue EXCEPT ![q].ev_ready = Tail(n)], loop' = loop,
               \/ /\ slot[e] = "deleted" \/ evq[e] = NONE
                  /\ slot' = [x \in Events |-> IF x \in {e} THEN "free" ELSE slot[x]]
               \/ /\ slot[e] # "deleted" /\ evq[e] # NONE
                  /\ slot' = [slot EXCEPT ![e] = "idle"]
        PROVE  Inv'
    <2>1. /\ e \in Events /\ Tail(n) \in Seq(Events) /\ IsInjective(Tail(n))
          /\ e \in Range(n) /\ Range(Tail(n)) = Range(n) \ {e}
      BY <1>4, <1>5, Popped
    <2>2. /\ What[e].evq = q /\ slot[e] \in {"active", "deleted"}
          /\ \A x \in Range(n) : What[x].evq = q /\ slot[x] \in {"active", "deleted"}
      BY <2>1 DEF ReadyOK, n
    <2>. HIDE DEF e
    <2>3. /\ slot' \in [Events -> {"free", "idle", "active", "deleted"}]
          /\ \A x \in Events \ {e} : slot'[x] = slot[x]
          /\ slot[e] = "deleted" \/ evq[e] = NONE \/ slot'[e] = "idle"
      BY <1>5, <2>1
    <2>4. /\ queue' \in [Queues -> QueueTypes] /\ queue'[q].ev_ready = Tail(n)
          /\ \A r \in Queues \ {q} : queue'[r] = queue[r]
          /\ \A r \in Queues : queue'[r].sig_ready = queue[r].sig_ready /\ queue'[r].fd = queue[r].fd
      <3>. DEFINE m == [queue[q] EXCEPT !.ev_ready = Tail(n)]
      <3>1. /\ m \in QueueTypes /\ m.ev_ready = Tail(n)
            /\ m.sig_ready = queue[q].sig_ready /\ m.fd = queue[q].fd
        BY <2>1 DEF QueueTypes
      <3>2. queue' = [queue EXCEPT ![q] = m]
        BY <1>5
      <3>. HIDE DEF m
      <3>. QED BY <3>1, <3>2
    <2>5. ASSUME NEW x \in Events, What[x].evq = q PROVE EventOK(x)'
      <3>1. CASE x = e
        BY <1>1, <1>2, <1>5, <2>1, <2>2, <2>3, <2>5, <3>1 DEF EventOK
      <3>2. CASE x # e
        BY <1>1, <1>2, <1>5, <2>3, <2>5, <3>2 DEF EventOK
      <3>. QED BY <3>1, <3>2
    <2>6. ThreadOK(q)'
      BY <1>1, <1>2, <1>5 DEF ThreadOK
    <2>7. ReadyOK(q)'
      <3>1. \A x \in Range(Tail(n)) : x \in Events \ {e} /\ x \in Range(n)
        BY <2>1, RangeIn
      <3>. QED BY <1>1, <1>2, <1>5, <2>1, <2>2, <2>3, <2>4, <3>1, EmptyList DEF ReadyOK
    <2>. QED BY <1>1, <1>5, <2>1, <2>2, <2>3, <2>4, <2>5, <2>6, <2>7, PlainStep
  <1>. QED BY <1>3, <1>5 DEF sys_evq_loop, Freed, n, e

-----------------------------------------------------------------------------
(***************************************************************************)
(* The theorem.                                                            *)
(***************************************************************************)
LEMMA InitInv == Init => Inv
  <1>. SUFFICES ASSUME Init PROVE Inv
    OBVIOUS
  <1>. DEFINE n == [sig_ready |-> {}, fd |-> FALSE, sig_cs |-> FALSE, ev_ready |-> <<>>]
              l == [at |-> "run", op |-> NoOp, signos |-> {}, found |-> <<>>]
  <1>1. n \in QueueTypes /\ n.ev_ready = <<>> /\ n.sig_ready = {}
    BY DEF QueueTypes
  <1>2. l \in LoopTypes /\ l.at = "run" /\ l.op = NoOp /\ l.found = <<>>
        /\ l.op.ev = NONE /\ l.op.do = "none"
    BY DEF LoopTypes, Ats, Ops, Dos, NoOp
  <1>3. [t \in Hosts |-> <<>>] \in [Hosts -> Seq(HandlerTypes)]
    OBVIOUS
  <1>4. queue = [q \in Queues |-> n] /\ loop = [q \in Queues |-> l]
    BY DEF Init
  <1>. HIDE DEF n, l
  <1>5. TypeOK
    <2>1. \A s \in Signos : <<>> \in Seq(Events)
      OBVIOUS
    <2>. QED BY <1>1, <1>2, <1>3, <1>4, <2>1 DEF Init, TypeOK
  <1>10. NoLostSignal
    BY <1>1, <1>4 DEF NoLostSignal
  <1>6. \A s \in Signos : ListOK(s)
    BY EmptyList DEF Init, ListOK
  <1>7. ASSUME NEW e \in Events PROVE EventOK(e)
    <2>1. What[e].evq \in Queues /\ What[e].signo \in Signos /\ NONE \notin Queues /\ NONE \notin Events
      BY Owners, SignalsAssumption
    <2>2. evq[e] = NONE /\ list[What[e].signo] = <<>> /\ loop[What[e].evq] = l
      BY <1>4, <2>1 DEF Init
    <2>. QED BY <1>2, <2>1, <2>2, EmptyList DEF EventOK
  <1>8. \A q \in Queues : ThreadOK(q)
    BY <1>1, <1>2, <1>4 DEF ThreadOK
  <1>9. \A q \in Queues : ReadyOK(q)
    BY <1>1, <1>2, <1>4, EmptyList DEF ReadyOK
  <1>. QED BY <1>5, <1>6, <1>7, <1>8, <1>9, <1>10 DEF Inv

LEMMA NextInv == ASSUME Inv, [Next]_vars PROVE Inv'
  <1>1. CASE UNCHANGED vars
    BY <1>1, OutsideStep DEF vars, Inv, TypeOK, ListOK, NoLostSignal
  <1>2. ASSUME NEW q \in Queues, LoopStep(q) PROVE Inv'
    BY <1>2, Outside, SignalAdd, Unlinks, ProcessInterrupt, SignalChosen, ProcessActives,
       ProcessActive, EvqLoop DEF LoopStep
  <1>3. CASE Next
    BY <1>2, <1>3, Outside, Handler, LevqAdd, LevqDel, Ignore, LevqDone DEF Next
  <1>. QED BY <1>1, <1>3

LEMMA Invariance == Spec => []Inv
  BY InitInv, NextInv, PTL DEF Spec

\* No signal is lost between the handler and the loop: a queue with signals to look at has
\* a readable descriptor, wherever the handler of event/signal.c runs between the steps of
\* signal_process_interrupt.
THEOREM SignalsNotLost == Spec => []NoLostSignal
  <1>1. Inv => NoLostSignal
    BY DEF Inv
  <1>. QED BY <1>1, Invariance, PTL

\* The list that all queues share, the handlers installed for it and the queues' ready
\* lists agree, however queues add, delete, fire and close: an event is in the list of its
\* signal as long as it is in the queue, once, and signal_del finds what it unlinks.
THEOREM TableCorrect == Spec => []TableSound
  <1>1. Inv => TableSound
    <2>. SUFFICES ASSUME Inv PROVE TableSound
      OBVIOUS
    <2>. USE Known
    <2>1. Installed
      BY DEF Inv, ListOK, Installed
    <2>2. ListSound
      <3>1. \A s \in Signos : IsInjective(list[s])
        BY DEF Inv, ListOK
      <3>2. ASSUME NEW e \in Events
            PROVE  e \in Range(list[What[e].signo]) <=>
                     IF loop[What[e].evq].op.ev = e THEN loop[What[e].evq].op.do # "add"
                     ELSE evq[e] = What[e].evq /\ slot[e] # "free" /\ loop[What[e].evq].at # "closed"
        BY DEF EventOK
      <3>. QED BY <3>1, <3>2 DEF ListSound
    <2>3. OwnEvents
      <3>. SUFFICES ASSUME NEW q \in Queues
                    PROVE  IsInjective(queue[q].ev_ready \o loop[q].found)
        BY DEF OwnEvents, ReadyOK
      <3>1. queue[q].ev_ready \in Seq(Events) /\ loop[q].found \in Seq(Events)
        BY DEF QueueTypes, LoopTypes
      <3>2. Range(queue[q].ev_ready) \cap Range(loop[q].found) = {}
        BY DEF ReadyOK
      <3>. QED BY <3>1, <3>2, Joined DEF ReadyOK
    <2>. QED BY <2>1, <2>2, <2>3 DEF TableSound
  <1>. QED BY <1>1, Invariance, PTL
=============================================================================
