--------------------------- MODULE WlBuffersProofs ---------------------------
(***************************************************************************)
(* The client never paints what the compositor may read, and paints at the *)
(* size it was told last, for any number of buffers, sizes and resizes     *)
(* (module WlBuffers).                                                     *)
(*                                                                         *)
(* A buffer of the current pool that is not free is in one place: in a     *)
(* commit on its way, with the compositor, or in a release on its way.     *)
(* Buffers of the pools before it do not matter, because by the time the   *)
(* client reads an event again it has let their proxies go.                *)
(***************************************************************************)
EXTENDS WlBuffers, SequenceTheorems, FiniteSetTheorems, TLAPS

Buffer == Nat \X Slots
Message ==
  [op : {"commit", "release"}, buffer : Buffer] \cup [op : {"create"}, pool : Nat] \cup
  [op : {"destroy"}, pools : SUBSET Nat] \cup [op : {"configure"}, to : Sizes] \cup
  [op : {"done", "start"}]

(* In the queue there is a message about the buffer; each about one of the *)
(* current pool is there once, and there is none of a pool to come.        *)
In(q, op, b) == \E i \in 1..Len(q) : q[i].op = op /\ q[i].buffer = b
Once(q, op, g) ==
  /\ \A i \in 1..Len(q) : q[i].op = op => q[i].buffer \in Buffer /\ q[i].buffer[1] <= g
  /\ \A i, j \in 1..Len(q) :
       q[i].op = op /\ q[j].op = op /\ q[i].buffer = q[j].buffer /\ q[i].buffer[1] = g => i = j

BufTyped ==
  /\ gen \in Nat /\ busy \subseteq Slots /\ n \in Slots /\ old \subseteq Nat
  /\ size \in Sizes /\ want \in Sizes /\ held \subseteq Buffer
  /\ requests \in Seq(Message) /\ events \in Seq(Message)

OnceEach ==
  /\ Once(requests, "commit", gen) /\ Once(events, "release", gen)
  /\ \A b \in held : b[1] <= gen
OnePlace ==
  \A s \in Slots :
    /\ In(requests, "commit", <<gen, s>>) => <<gen, s>> \notin held
    /\ In(requests, "commit", <<gen, s>>) => ~In(events, "release", <<gen, s>>)
    /\ <<gen, s>> \in held => ~In(events, "release", <<gen, s>>)
    /\ In(requests, "commit", <<gen, s>>) => s \in busy
    /\ <<gen, s>> \in held => s \in busy
    /\ In(events, "release", <<gen, s>>) => s \in busy

(* What is being painted is free, and pools put aside are gone before the  *)
(* next event is read.                                                     *)
Drawing ==
  /\ pc = "paint" => n \notin busy
  /\ old # {} => pc \in {"draw", "paint"} /\ busy = {}

BufInv == BufTyped /\ OnceEach /\ OnePlace /\ Drawing

-----------------------------------------------------------------------------
(* A message taken: the others stay, and of the current pool there is no   *)
(* second about the same buffer.                                           *)
LEMMA OnceTail ==
  ASSUME NEW q \in Seq(Message), q # << >>, NEW op, NEW g \in Nat, Once(q, op, g)
  PROVE  /\ Once(Tail(q), op, g)
         /\ \A b : In(Tail(q), op, b) => In(q, op, b)
         /\ Head(q).op = op =>
              /\ In(q, op, Head(q).buffer) /\ Head(q).buffer \in Buffer
              /\ Head(q).buffer[1] <= g
              /\ Head(q).buffer[1] = g => ~In(Tail(q), op, Head(q).buffer)
<1> DEFINE t == Tail(q)
<1>1. /\ Len(q) \in Nat \ {0} /\ Head(q) = q[1] /\ Len(t) = Len(q) - 1
      /\ \A i \in 1..(Len(q) - 1) : t[i] = q[i + 1]
  BY EmptySeq, HeadTailProperties
<1> HIDE DEF t
<1>2. \A i \in 1..Len(t) : i + 1 \in 1..Len(q) /\ t[i] = q[i + 1]
  BY <1>1
<1>3. 1 \in 1..Len(q) /\ \A i \in 1..Len(t) : i + 1 # 1
  BY <1>1
<1>4. \A i, j \in 1..Len(t) : i + 1 = j + 1 => i = j
  BY <1>1
<1>5. Once(t, op, g)
  <2>1. \A i \in 1..Len(t) : t[i].op = op => t[i].buffer \in Buffer /\ t[i].buffer[1] <= g
    BY <1>2 DEF Once
  <2>2. ASSUME NEW i \in 1..Len(t), NEW j \in 1..Len(t), t[i].op = op, t[j].op = op,
               t[i].buffer = t[j].buffer, t[i].buffer[1] = g
        PROVE  i = j
    <3>1. i + 1 = j + 1
      BY <1>2, <2>2 DEF Once
    <3>2. QED
      BY <1>4, <3>1
  <2>3. QED
    BY <2>1, <2>2 DEF Once
<1>6. \A b : In(t, op, b) => In(q, op, b)
  BY <1>2 DEF In
<1>7. ASSUME Head(q).op = op
      PROVE  /\ In(q, op, Head(q).buffer) /\ Head(q).buffer \in Buffer
             /\ Head(q).buffer[1] <= g
  BY <1>1, <1>3, <1>7 DEF In, Once
<1>8. ASSUME Head(q).op = op, Head(q).buffer[1] = g
      PROVE  ~In(t, op, Head(q).buffer)
  BY <1>1, <1>2, <1>3, <1>8 DEF In, Once
<1>9. QED
  BY <1>5, <1>6, <1>7, <1>8 DEF t

(* A message more: about a buffer none was about, if it is of the current  *)
(* pool.                                                                   *)
LEMMA OnceAppend ==
  ASSUME NEW q \in Seq(Message), NEW e \in Message, NEW op, NEW g \in Nat, Once(q, op, g),
         e.op = op => /\ e.buffer \in Buffer /\ e.buffer[1] <= g
                      /\ e.buffer[1] = g => ~In(q, op, e.buffer)
  PROVE  /\ Once(Append(q, e), op, g)
         /\ \A b : In(Append(q, e), op, b) => In(q, op, b) \/ (e.op = op /\ e.buffer = b)
<1> DEFINE t == Append(q, e)
<1>1. /\ Len(q) \in Nat /\ Len(t) = Len(q) + 1 /\ t[Len(q) + 1] = e
      /\ \A i \in 1..Len(q) : t[i] = q[i]
  BY AppendProperties
<1> HIDE DEF t
<1>2. \A i \in 1..Len(t) : \/ i \in 1..Len(q) /\ t[i] = q[i]
                           \/ i = Len(q) + 1 /\ t[i] = e
  <2>1. \A i \in 1..Len(t) : i \in 1..Len(q) \/ i = Len(q) + 1
    BY <1>1
  <2>2. QED
    BY <1>1, <2>1, Zenon
<1>3. \A b : In(t, op, b) => In(q, op, b) \/ (e.op = op /\ e.buffer = b)
  BY <1>2, Zenon DEF In
<1>4. \A i \in 1..Len(t) : t[i].op = op => t[i].buffer \in Buffer /\ t[i].buffer[1] <= g
  BY <1>2 DEF Once
<1>5. \A i, j \in 1..Len(t) :
        t[i].op = op /\ t[j].op = op /\ t[i].buffer = t[j].buffer /\ t[i].buffer[1] = g => i = j
  BY <1>2 DEF Once, In
<1>6. QED
  BY <1>3, <1>4, <1>5 DEF Once, t

(* Nothing is about a pool that is only now built.                         *)
LEMMA OnceNew ==
  ASSUME NEW q, NEW op, NEW g \in Nat, Once(q, op, g)
  PROVE  /\ Once(q, op, g + 1)
         /\ \A s : ~In(q, op, <<g + 1, s>>)
<1>1. \A b \in Buffer : b[1] \in Nat
  BY DEF Buffer
<1>2. \A i \in 1..Len(q) : q[i].op = op =>
        /\ q[i].buffer \in Buffer /\ q[i].buffer[1] <= g + 1 /\ q[i].buffer[1] # g + 1
  BY <1>1 DEF Once
<1>3. QED
  BY <1>2 DEF Once, In

-----------------------------------------------------------------------------
(* Each step keeps what is in the queues in its place. *)
LEMMA BufInvNext ==
  ASSUME BufInv, Next
  PROVE  BufInv'
<1>1. /\ gen \in Nat /\ busy \subseteq Slots /\ n \in Slots /\ old \subseteq Nat
      /\ size \in Sizes /\ want \in Sizes /\ held \subseteq Buffer
      /\ requests \in Seq(Message) /\ events \in Seq(Message)
  BY DEF BufInv, BufTyped
<1>2. OnceEach /\ OnePlace /\ Drawing
  BY DEF BufInv
<1>3. ASSUME UNCHANGED <<gen, busy>>, held' \subseteq held, OnceEach',
             \A b : In(requests', "commit", b) => In(requests, "commit", b),
             \A b : In(events', "release", b) => In(events, "release", b)
      PROVE  OnePlace'
  BY <1>2, <1>3 DEF OnePlace
<1>4. CASE Configured \/ FrameDone
  <2>1. /\ events # << >> /\ events' = Tail(events) /\ pc = "dispatch" /\ pc' \in {"dispatch", "draw"}
        /\ UNCHANGED <<busy, n, gen, old, size, held, requests>>
    BY <1>4 DEF Configured, FrameDone, Event, Taken, server
  <2>2. want' \in Sizes
    <3>1. CASE Configured
      <4>1. Head(events) \in Message /\ Head(events).op = "configure"
        BY <1>1, <2>1, <3>1, EmptySeq, HeadTailProperties DEF Configured, Event
      <4>2. Head(events).to \in Sizes
        BY <4>1 DEF Message
      <4>3. QED
        BY <1>1, <3>1, <4>2 DEF Configured
    <3>2. CASE FrameDone
      BY <1>1, <3>2 DEF FrameDone
    <3>3. QED
      BY <1>4, <3>1, <3>2
  <2>3. BufTyped'
    BY <1>1, <2>1, <2>2, EmptySeq, HeadTailProperties DEF BufTyped
  <2>4. Once(Tail(events), "release", gen) /\ \A b : In(Tail(events), "release", b) => In(events, "release", b)
    BY <1>1, <1>2, <2>1, OnceTail DEF OnceEach
  <2>5. OnceEach'
    BY <1>2, <2>1, <2>4 DEF OnceEach
  <2>6. OnePlace'
    BY <1>3, <2>1, <2>4, <2>5
  <2>7. Drawing'
    BY <1>2, <2>1 DEF Drawing
  <2>8. QED
    BY <2>3, <2>5, <2>6, <2>7 DEF BufInv
<1>5. CASE Released
  <2> DEFINE b == Head(events).buffer
  <2>1. /\ events # << >> /\ events' = Tail(events) /\ pc = "dispatch" /\ Head(events).op = "release"
        /\ busy' = (IF b[1] \in Alive THEN busy \ {b[2]} ELSE busy)
        /\ UNCHANGED <<pc, n, gen, old, size, want, held, requests>>
    BY <1>5 DEF Released, Event, Taken, server
  <2>2. old = {} /\ Alive = {gen}
    BY <1>2, <2>1 DEF Drawing, Alive
  <2>3. /\ Once(Tail(events), "release", gen)
        /\ \A c : In(Tail(events), "release", c) => In(events, "release", c)
        /\ In(events, "release", b) /\ b \in Buffer
        /\ b[1] = gen => ~In(Tail(events), "release", b)
    BY <1>1, <1>2, <2>1, OnceTail DEF OnceEach
  <2>4. BufTyped'
    BY <1>1, <2>1, EmptySeq, HeadTailProperties DEF BufTyped
  <2>5. OnceEach'
    BY <1>2, <2>1, <2>3 DEF OnceEach
  <2> HIDE DEF b
  <2>6. OnePlace'
    <3>1. CASE b[1] = gen
      <4>1. b = <<gen, b[2]>> /\ b[2] \in Slots /\ busy' = busy \ {b[2]}
        BY <2>1, <2>2, <2>3, <3>1 DEF Buffer
      <4>2. /\ ~In(requests, "commit", <<gen, b[2]>>) /\ <<gen, b[2]>> \notin held
            /\ ~In(Tail(events), "release", <<gen, b[2]>>)
        BY <1>2, <2>3, <3>1, <4>1 DEF OnePlace
      <4>3. QED
        BY <1>2, <2>1, <2>3, <4>1, <4>2 DEF OnePlace
    <3>2. CASE b[1] # gen
      BY <1>3, <2>1, <2>2, <2>3, <2>5, <3>2
    <3>3. QED
      BY <3>1, <3>2
  <2>7. Drawing'
    BY <1>2, <2>1, <2>2 DEF Drawing
  <2>8. QED
    BY <2>4, <2>5, <2>6, <2>7 DEF BufInv
<1>6. CASE Close \/ NoMemory \/ Paint \/ NoneFree
  <2>1. UNCHANGED <<busy, gen, old, size, held, requests, events>>
    BY <1>6 DEF Close, NoMemory, Paint, NoneFree, server
  <2>2. want' \in Sizes /\ n' \in Slots
    BY <1>1, <1>6 DEF Close, NoMemory, Paint, NoneFree, FirstFree, Free
  <2>3. BufTyped'
    BY <1>1, <2>1, <2>2 DEF BufTyped
  <2>4. OnceEach'
    BY <1>2, <2>1 DEF OnceEach
  <2>5. OnePlace'
    BY <1>2, <2>1 DEF OnePlace
  <2>6. Drawing'
    <3>1. CASE Close
      BY <1>2, <2>1, <3>1 DEF Close, Drawing
    <3>2. CASE NoMemory
      BY <1>2, <2>1, <3>2 DEF NoMemory, Drawing
    <3>3. CASE Paint
      BY <1>2, <2>1, <3>3 DEF Paint, Drawing, FirstFree, Free
    <3>4. CASE NoneFree
      <4>1. Slots # {}
        BY WlAssumption DEF Slots
      <4>2. busy # {}
        BY <3>4, <4>1 DEF NoneFree, Free
      <4>3. QED
        BY <1>2, <2>1, <3>4, <4>2 DEF NoneFree, Drawing
    <3>5. QED
      BY <1>6, <3>1, <3>2, <3>3, <3>4
  <2>7. QED
    BY <2>3, <2>4, <2>5, <2>6 DEF BufInv
<1>7. CASE BuildPool
  <2> DEFINE e == [op |-> "create", pool |-> gen + 1]
  <2>1. /\ pc = "draw" /\ gen' = gen + 1 /\ old' = old \cup {gen} /\ busy' = {} /\ size' = want
        /\ requests' = Append(requests, e) /\ UNCHANGED <<pc, n, want, held, events>>
    BY <1>7 DEF BuildPool, server
  <2>2. e \in Message /\ e.op # "commit" /\ gen + 1 \in Nat
    BY <1>1 DEF Message
  <2> HIDE DEF e
  <2>3. BufTyped'
    <3>1. requests' \in Seq(Message)
      BY <1>1, <2>1, <2>2, AppendProperties
    <3>2. gen' \in Nat /\ old' \subseteq Nat /\ busy' \subseteq Slots
      BY <1>1, <2>1
    <3>3. QED
      BY <1>1, <2>1, <3>1, <3>2 DEF BufTyped
  <2>4. /\ Once(requests', "commit", gen)
        /\ \A c : In(requests', "commit", c) => In(requests, "commit", c)
    BY <1>1, <1>2, <2>1, <2>2, OnceAppend DEF OnceEach
  <2>5. /\ Once(requests', "commit", gen + 1) /\ \A s : ~In(requests', "commit", <<gen + 1, s>>)
    BY <1>1, <2>4, OnceNew
  <2>6. /\ Once(events, "release", gen + 1) /\ \A s : ~In(events, "release", <<gen + 1, s>>)
    BY <1>1, <1>2, OnceNew DEF OnceEach
  <2>7. /\ \A b \in held : b[1] <= gen + 1
        /\ \A s : <<gen + 1, s>> \notin held
    <3>1. \A b \in held : b[1] \in Nat /\ b[1] <= gen
      BY <1>1, <1>2 DEF OnceEach, Buffer
    <3>2. QED
      BY <1>1, <3>1
  <2>8. OnceEach'
    BY <2>1, <2>5, <2>6, <2>7 DEF OnceEach
  <2>9. OnePlace'
    BY <2>1, <2>5, <2>6, <2>7 DEF OnePlace
  <2>10. Drawing'
    BY <2>1 DEF Drawing
  <2>11. QED
    BY <2>3, <2>8, <2>9, <2>10 DEF BufInv
<1>8. CASE Commit
  <2> DEFINE e == [op |-> "commit", buffer |-> <<gen, n>>]
             d == [op |-> "destroy", pools |-> old]
             q == Append(requests, e)
  <2>1. /\ pc = "paint" /\ busy' = busy \cup {n} /\ old' = {} /\ pc' = "dispatch"
        /\ requests' = (requests \o <<e>>) \o Destroys
        /\ UNCHANGED <<n, gen, size, want, held, events>>
    BY <1>8 DEF Commit, Hand, server
  <2>2. /\ <<gen, n>> \in Buffer /\ e \in Message /\ d \in Message
        /\ e.op = "commit" /\ e.buffer = <<gen, n>> /\ d.op # "commit" /\ <<gen, n>>[1] = gen
    BY <1>1 DEF Buffer, Message
  <2>3. requests' \in {q, Append(q, d)}
    <3>1. (requests \o <<e>>) \o <<d>> = Append(q, d) /\ (requests \o <<e>>) \o << >> = q
      BY <1>1, <2>2, AppendIsConcat
    <3>2. QED
      BY <2>1, <3>1 DEF Destroys
  <2>4. /\ n \notin busy /\ <<gen, n>> \notin held /\ ~In(requests, "commit", <<gen, n>>)
        /\ ~In(events, "release", <<gen, n>>)
    BY <1>1, <1>2, <2>1 DEF Drawing, OnePlace
  <2> HIDE DEF e, d
  <2>5. q \in Seq(Message)
    BY <1>1, <2>2, AppendProperties
  <2>6. /\ Once(q, "commit", gen)
        /\ \A c : In(q, "commit", c) => In(requests, "commit", c) \/ c = <<gen, n>>
    BY <1>1, <1>2, <2>2, <2>4, OnceAppend DEF OnceEach
  <2> HIDE DEF q
  <2>7. /\ Append(q, d) \in Seq(Message) /\ Once(Append(q, d), "commit", gen)
        /\ \A c : In(Append(q, d), "commit", c) => In(q, "commit", c)
    BY <1>1, <2>2, <2>5, <2>6, AppendProperties, OnceAppend
  <2>8. /\ requests' \in Seq(Message) /\ Once(requests', "commit", gen)
        /\ \A c : In(requests', "commit", c) => In(requests, "commit", c) \/ c = <<gen, n>>
    BY <2>3, <2>5, <2>6, <2>7
  <2>9. BufTyped'
    BY <1>1, <2>1, <2>8 DEF BufTyped
  <2>10. OnceEach'
    BY <1>2, <2>1, <2>8 DEF OnceEach
  <2>11. OnePlace'
    <3>1. \A s : <<gen, s>> = <<gen, n>> => s = n
      OBVIOUS
    <3>2. QED
      BY <1>2, <2>1, <2>4, <2>8, <3>1 DEF OnePlace
  <2>12. Drawing'
    BY <2>1 DEF Drawing
  <2>13. QED
    BY <2>9, <2>10, <2>11, <2>12 DEF BufInv
<1>9. CASE TakeCommit
  <2> DEFINE b == Head(requests).buffer
  <2>1. /\ requests # << >> /\ requests' = Tail(requests) /\ Head(requests).op = "commit"
        /\ held' = held \cup {b} /\ UNCHANGED <<pc, busy, n, gen, old, size, want, events>>
    BY <1>9 DEF TakeCommit, Request, client
  <2>2. /\ Once(Tail(requests), "commit", gen)
        /\ \A c : In(Tail(requests), "commit", c) => In(requests, "commit", c)
        /\ In(requests, "commit", b) /\ b \in Buffer /\ b[1] <= gen
        /\ b[1] = gen => ~In(Tail(requests), "commit", b)
    BY <1>1, <1>2, <2>1, OnceTail DEF OnceEach
  <2>3. Tail(requests) \in Seq(Message)
    BY <1>1, <2>1, EmptySeq, HeadTailProperties
  <2> HIDE DEF b
  <2>4. BufTyped'
    BY <1>1, <2>1, <2>2, <2>3 DEF BufTyped
  <2>5. OnceEach'
    BY <1>2, <2>1, <2>2 DEF OnceEach
  <2>6. \A s \in Slots : <<gen, s>> = b => b[1] = gen
    OBVIOUS
  <2>7. OnePlace'
    BY <1>2, <2>1, <2>2, <2>6 DEF OnePlace
  <2>8. Drawing'
    BY <1>2, <2>1 DEF Drawing
  <2>9. QED
    BY <2>4, <2>5, <2>7, <2>8 DEF BufInv
<1>10. CASE TakeCreate \/ TakeDestroy
  <2>1. /\ requests # << >> /\ requests' = Tail(requests)
        /\ UNCHANGED <<pc, busy, n, gen, old, size, want, held, events>>
    BY <1>10 DEF TakeCreate, TakeDestroy, Request, client
  <2>2. /\ Once(Tail(requests), "commit", gen)
        /\ \A c : In(Tail(requests), "commit", c) => In(requests, "commit", c)
    BY <1>1, <1>2, <2>1, OnceTail DEF OnceEach
  <2>3. BufTyped'
    BY <1>1, <2>1, EmptySeq, HeadTailProperties DEF BufTyped
  <2>4. OnceEach'
    BY <1>2, <2>1, <2>2 DEF OnceEach
  <2>5. OnePlace'
    BY <1>3, <2>1, <2>2, <2>4
  <2>6. Drawing'
    BY <1>2, <2>1 DEF Drawing
  <2>7. QED
    BY <2>3, <2>4, <2>5, <2>6 DEF BufInv
<1>11. ASSUME NEW b \in Buffers, GiveBack(b)
       PROVE  BufInv'
  <2> DEFINE e == [op |-> "release", buffer |-> b]
  <2>1. /\ b \in held /\ held' = held \ {b} /\ events' \in {events, Append(events, e)}
        /\ UNCHANGED <<pc, busy, n, gen, old, size, want, requests>>
    BY <1>11 DEF GiveBack, client
  <2>2. b \in Buffer /\ b[1] <= gen /\ e.op = "release" /\ e.buffer = b
    BY <1>1, <1>2, <2>1 DEF OnceEach
  <2>3. e \in Message
    BY <2>2 DEF Message
  <2>4. b[1] = gen => b[2] \in Slots /\ b = <<gen, b[2]>>
    BY <2>2 DEF Buffer
  <2>5. b[1] = gen => ~In(requests, "commit", b) /\ ~In(events, "release", b) /\ b[2] \in busy
    BY <1>2, <2>1, <2>4 DEF OnePlace
  <2> HIDE DEF e
  <2>6. /\ Append(events, e) \in Seq(Message) /\ Once(Append(events, e), "release", gen)
        /\ \A c : In(Append(events, e), "release", c) => In(events, "release", c) \/ c = b
    BY <1>1, <1>2, <2>2, <2>3, <2>5, AppendProperties, OnceAppend DEF OnceEach
  <2>7. /\ events' \in Seq(Message) /\ Once(events', "release", gen)
        /\ \A c : In(events', "release", c) => In(events, "release", c) \/ c = b
    BY <1>1, <1>2, <2>1, <2>6 DEF OnceEach
  <2>8. BufTyped'
    BY <1>1, <2>1, <2>7 DEF BufTyped
  <2>9. OnceEach'
    BY <1>2, <2>1, <2>7 DEF OnceEach
  <2>10. \A s \in Slots : <<gen, s>> = b => b[1] = gen /\ b[2] = s
    OBVIOUS
  <2>11. OnePlace'
    BY <1>2, <2>1, <2>5, <2>7, <2>10 DEF OnePlace
  <2>12. Drawing'
    BY <1>2, <2>1 DEF Drawing
  <2>13. QED
    BY <2>8, <2>9, <2>11, <2>12 DEF BufInv
<1>12. ASSUME NEW e \in Message, e.op # "release", events' = Append(events, e),
              UNCHANGED <<client, held, requests>>
       PROVE  BufInv'
  <2>1. UNCHANGED <<pc, busy, n, gen, old, size, want, held, requests>>
    BY <1>12 DEF client
  <2>2. /\ Once(events', "release", gen)
        /\ \A c : In(events', "release", c) => In(events, "release", c)
    BY <1>1, <1>2, <1>12, OnceAppend DEF OnceEach
  <2>3. BufTyped'
    BY <1>1, <1>12, <2>1, AppendProperties DEF BufTyped
  <2>4. OnceEach'
    BY <1>2, <2>1, <2>2 DEF OnceEach
  <2>5. OnePlace'
    BY <1>3, <2>1, <2>2, <2>4
  <2>6. Drawing'
    BY <1>2, <2>1 DEF Drawing
  <2>7. QED
    BY <2>3, <2>4, <2>5, <2>6 DEF BufInv
<1>13. CASE AskForMore
  <2>1. [op |-> "done"] \in Message /\ [op |-> "done"].op # "release"
    BY DEF Message
  <2>2. QED
    BY <1>12, <1>13, <2>1 DEF AskForMore
<1>14. ASSUME NEW s \in Sizes, Resize(s)
       PROVE  BufInv'
  <2>1. [op |-> "configure", to |-> s] \in Message /\ [op |-> "configure", to |-> s].op # "release"
    BY DEF Message
  <2>2. QED
    BY <1>12, <1>14, <2>1 DEF Resize
<1>15. QED
  BY <1>4, <1>5, <1>6, <1>7, <1>8, <1>9, <1>10, <1>11, <1>13, <1>14 DEF Next, Client, Compositor

(* Nothing is on its way of a buffer but what the compositor may be told   *)
(* of first.                                                               *)
LEMMA BufInvInit ==
  ASSUME Init
  PROVE  BufInv
<1>1. /\ gen = 0 /\ busy = {} /\ n = 0 /\ old = {} /\ size = First /\ want = First
      /\ held = {} /\ requests = << >> /\ pc = "dispatch"
  BY DEF Init
<1>2. PICK s \in Sizes : events = <<[op |-> "configure", to |-> s], [op |-> "start"]>>
  BY DEF Init
<1>3. [op |-> "configure", to |-> s] \in Message /\ [op |-> "start"] \in Message
  BY <1>2 DEF Message
<1>4. events \in Seq(Message) /\ requests \in Seq(Message)
  BY <1>1, <1>2, <1>3
<1>5. \A i \in 1..Len(events) : events[i].op # "release"
  <2>1. Len(events) = 2 /\ events[1].op = "configure" /\ events[2].op = "start"
    BY <1>2
  <2>2. \A i \in 1..2 : i = 1 \/ i = 2
    OBVIOUS
  <2>3. QED
    BY <2>1, <2>2
<1>6. Len(requests) = 0
  BY <1>1
<1>7. BufTyped
  <2>1. 0 \in Slots /\ First \in Sizes
    BY WlAssumption DEF Slots
  <2>2. QED
    BY <1>1, <1>4, <2>1 DEF BufTyped
<1>8. OnceEach
  BY <1>1, <1>5, <1>6 DEF OnceEach, Once
<1>9. OnePlace
  BY <1>1, <1>5, <1>6 DEF OnePlace, In
<1>10. Drawing
  BY <1>1 DEF Drawing
<1>11. QED
  BY <1>7, <1>8, <1>9, <1>10 DEF BufInv

(* The buffer wlcairo draws into (toolchain/wlcairo.c:295-322) and wlprobe *)
(* after it is never one the compositor may read or is about to be handed, *)
(* for any number of buffers, any sizes, any number of resizes and any     *)
(* order of releases and frame callbacks.                                  *)
THEOREM NeverPaintsHeldHolds == Spec => []NeverPaintsHeld
<1>1. Init => BufInv
  BY BufInvInit
<1>2. BufInv /\ [Next]_vars => BufInv'
  <2>1. ASSUME BufInv, UNCHANGED vars
        PROVE  BufInv'
    <3>1. UNCHANGED <<pc, busy, n, gen, old, size, want, held, requests, events>>
      BY <2>1 DEF vars, client, server
    <3>2. QED
      BY <2>1, <3>1 DEF BufInv, BufTyped, OnceEach, OnePlace, Drawing
  <2>2. QED
    BY <2>1, BufInvNext
<1>3. BufInv => NeverPaintsHeld
  <2>1. SUFFICES ASSUME BufInv, pc = "paint"
                 PROVE  <<gen, n>> \notin held /\ ~In(requests, "commit", <<gen, n>>)
    BY DEF NeverPaintsHeld, Sent, In
  <2>2. n \in Slots /\ n \notin busy
    BY <2>1 DEF BufInv, BufTyped, Drawing
  <2>3. QED
    BY <2>1, <2>2 DEF BufInv, OnePlace
<1>4. QED
  BY <1>1, <1>2, <1>3, PTL DEF Spec

-----------------------------------------------------------------------------
(* The sizes a window was told that are still on their way, as far as the  *)
(* jth message: what was asked last is what comes last.                    *)
News(q, j) == {i \in 1..Len(q) : i <= j /\ q[i].op = "configure"}
Waiting == Cardinality(News(events, Len(events)))

(* The sizes on their way are the last that were asked for, in order;      *)
(* nothing is drawn before the first has come; and the size wanted is the  *)
(* last that came, if there was memory for it.  Each pool is for a size    *)
(* that came.                                                              *)
InOrder ==
  \A j \in 1..Len(events) : events[j].op = "configure" =>
    events[j].to = asked[Len(asked) - Waiting + Cardinality(News(events, j))]
FirstIsFirst ==
  /\ Len(asked) \in 1..(MaxResizes + 1)
  /\ Waiting <= Len(asked)
  /\ Waiting = Len(asked) =>
       pc \in {"dispatch", "gone"} /\ events # << >> /\ Head(events).op = "configure"
LastIsWanted ==
  /\ Waiting < Len(asked) => refused \/ want = asked[Len(asked) - Waiting]
  /\ pending \/ size = want
  /\ pc = "paint" => ~pending
PoolPerSize == gen + (IF pending THEN 1 ELSE 0) + Waiting <= Len(asked)
TellInv == InOrder /\ FirstIsFirst /\ LastIsWanted /\ PoolPerSize

ToClient == [op : {"release"}, buffer : Buffers] \cup [op : {"configure"}, to : Sizes] \cup
            [op : {"done", "start"}]
ToServer == [op : {"commit"}, buffer : Buffers] \cup [op : {"create"}, pool : Gens] \cup
            [op : {"destroy"}, pools : SUBSET Gens]

LEMMA NewsAreFinite ==
  ASSUME NEW S, NEW q \in Seq(S), NEW j
  PROVE  IsFiniteSet(News(q, j)) /\ Cardinality(News(q, j)) \in Nat
<1>1. IsFiniteSet(1..Len(q)) /\ News(q, j) \in SUBSET (1..Len(q))
  BY FS_Interval DEF News
<1>2. QED
  BY <1>1, FS_Subset, FS_CardinalityType

(* Once the first message is taken there is one size less on its way, if   *)
(* it was one.                                                             *)
LEMMA NewsTaken ==
  ASSUME NEW S, NEW q \in Seq(S), q # << >>, NEW j \in 0..(Len(q) - 1)
  PROVE  Cardinality(News(Tail(q), j)) =
           Cardinality(News(q, j + 1)) - (IF Head(q).op = "configure" THEN 1 ELSE 0)
<1> DEFINE A == News(q, j + 1) \ {1}
           B == News(Tail(q), j)
           f == [i \in A |-> i - 1]
<1>1. /\ Len(q) \in Nat \ {0} /\ Head(q) = q[1] /\ Len(Tail(q)) = Len(q) - 1
      /\ \A i \in 1..Len(Tail(q)) : Tail(q)[i] = q[i + 1]
  BY EmptySeq, HeadTailProperties
<1>2. IsFiniteSet(News(q, j + 1)) /\ Cardinality(News(q, j + 1)) \in Nat
  BY NewsAreFinite
<1>3. /\ IsFiniteSet(A)
      /\ Cardinality(A) = Cardinality(News(q, j + 1)) - (IF 1 \in News(q, j + 1) THEN 1 ELSE 0)
  BY <1>2, FS_RemoveElement
<1>4. 1 \in News(q, j + 1) <=> Head(q).op = "configure"
  BY <1>1 DEF News
<1>5. f \in Bijection(A, B)
  <2>1. \A i \in A : i \in Int /\ i - 1 \in B
    BY <1>1 DEF News
  <2>2. \A k \in B : k \in Int /\ k + 1 \in A /\ (k + 1) - 1 = k
    BY <1>1 DEF News
  <2>3. f \in [A -> B]
    BY <2>1
  <2>4. \A a, b \in A : f[a] = f[b] => a = b
    BY <2>1
  <2>5. \A k \in B : \E i \in A : f[i] = k
    BY <2>2
  <2>6. QED
    BY <2>3, <2>4, <2>5 DEF Bijection, Injection, Surjection, IsInjective
<1>6. Cardinality(B) = Cardinality(A)
  BY <1>3, <1>5, FS_Bijection DEF ExistsBijection
<1>7. QED
  BY <1>3, <1>4, <1>6

(* One more message: those before it are what they were.                   *)
LEMMA NewsCome ==
  ASSUME NEW S, NEW q \in Seq(S), NEW e \in S
  PROVE  /\ \A j \in 0..Len(q) : News(Append(q, e), j) = News(q, j)
         /\ Cardinality(News(Append(q, e), Len(q) + 1)) =
              Cardinality(News(q, Len(q))) + (IF e.op = "configure" THEN 1 ELSE 0)
<1> DEFINE r == Append(q, e)
<1>1. /\ Len(q) \in Nat /\ Len(r) = Len(q) + 1 /\ r[Len(q) + 1] = e
      /\ \A i \in 1..Len(q) : r[i] = q[i]
  BY LenProperties, AppendProperties
<1> HIDE DEF r
<1>2. \A j \in 0..Len(q) : News(r, j) = News(q, j)
  BY <1>1 DEF News
<1>3. News(r, Len(q) + 1) =
        News(q, Len(q)) \cup (IF e.op = "configure" THEN {Len(q) + 1} ELSE {})
  BY <1>1 DEF News
<1>4. IsFiniteSet(News(q, Len(q))) /\ Cardinality(News(q, Len(q))) \in Nat
  BY NewsAreFinite
<1>5. Len(q) + 1 \notin News(q, Len(q))
  BY <1>1 DEF News
<1>6. Cardinality(News(r, Len(q) + 1)) =
        Cardinality(News(q, Len(q))) + (IF e.op = "configure" THEN 1 ELSE 0)
  <2>1. CASE e.op = "configure"
    <3>1. News(r, Len(q) + 1) = News(q, Len(q)) \cup {Len(q) + 1}
      BY <1>3, <2>1
    <3>2. QED
      BY <1>4, <1>5, <2>1, <3>1, FS_AddElement
  <2>2. CASE e.op # "configure"
    <3>1. News(r, Len(q) + 1) = News(q, Len(q))
      BY <1>3, <2>2
    <3>2. QED
      BY <1>4, <2>2, <3>1
  <2>3. QED
    BY <2>1, <2>2
<1>7. QED
  BY <1>2, <1>6 DEF r

-----------------------------------------------------------------------------
LEMMA InitTell == Init => TypeOK /\ TellInv
<1> SUFFICES ASSUME Init
             PROVE  TypeOK /\ TellInv
  OBVIOUS
<1>1. PICK s \in Sizes : asked = <<s>> /\ events = <<[op |-> "configure", to |-> s], [op |-> "start"]>>
  BY DEF Init
<1>2. /\ Len(events) = 2 /\ events[1] = [op |-> "configure", to |-> s] /\ events[2].op = "start"
      /\ events # << >> /\ Head(events) = events[1] /\ Len(asked) = 1 /\ asked[1] = s
  BY <1>1
<1>3. News(events, 1) = {1} /\ News(events, 2) = {1}
  BY <1>2 DEF News
<1>4. Cardinality({1}) = 1
  BY FS_EmptySet, FS_AddElement, {} \cup {1} = {1}
<1>5. Waiting = 1
  BY <1>2, <1>3, <1>4 DEF Waiting
<1>6. MaxResizes \in Nat /\ First \in Sizes /\ BUFFERS \in Nat \ {0}
  BY WlAssumption
<1>7. TellInv
  <2>1. InOrder
    <3>1. \A j \in 1..Len(events) : events[j].op = "configure" => j = 1
      BY <1>2
    <3>2. events[1].to = asked[Len(asked) - Waiting + Cardinality(News(events, 1))]
      <4>1. Len(asked) - Waiting + Cardinality(News(events, 1)) = 1
        <5>1. Cardinality(News(events, 1)) = 1
          BY <1>3, <1>4, Zenon
        <5>2. QED
          BY <1>2, <1>5, <5>1
      <4>2. QED
        BY <1>2, <4>1
    <3>3. QED
      BY <3>1, <3>2 DEF InOrder
  <2>2. QED
    BY <1>2, <1>5, <1>6, <2>1 DEF Init, TellInv, FirstIsFirst, LastIsWanted, PoolPerSize
<1>8. TypeOK
  <2>1. events \in Seq(ToClient) /\ asked \in Seq(Sizes)
    BY <1>1 DEF ToClient
  <2>2. requests \in Seq(ToServer)
    BY DEF Init
  <2>3. 0 \in Gens /\ 0 \in Slots
    BY <1>6 DEF Gens, Slots
  <2>4. QED
    BY <1>6, <2>1, <2>2, <2>3 DEF Init, TypeOK, ToClient, ToServer
<1>9. QED
  BY <1>7, <1>8

(* A message that is no news of a size, taken or put on its way.           *)
LEMMA OtherTaken ==
  ASSUME TypeOK, InOrder, events # << >>, Head(events).op # "configure", events' = Tail(events),
         UNCHANGED asked
  PROVE  Waiting' = Waiting /\ InOrder'
<1>1. events \in Seq(ToClient) /\ Len(events) \in Nat \ {0} /\ Len(Tail(events)) = Len(events) - 1
  BY EmptySeq, HeadTailProperties DEF TypeOK, ToClient
<1>2. \A j \in 1..Len(Tail(events)) : Tail(events)[j] = events[j + 1]
  BY <1>1, HeadTailProperties
<1>3. \A j \in 0..(Len(events) - 1) : Cardinality(News(Tail(events), j)) = Cardinality(News(events, j + 1))
  <2> SUFFICES ASSUME NEW j \in 0..(Len(events) - 1)
               PROVE  Cardinality(News(Tail(events), j)) = Cardinality(News(events, j + 1))
    OBVIOUS
  <2>1. Cardinality(News(events, j + 1)) \in Nat
    BY <1>1, NewsAreFinite
  <2>2. QED
    BY <1>1, <2>1, NewsTaken
<1>4. Waiting' = Waiting
  BY <1>1, <1>3 DEF Waiting
<1>5. \A j \in 1..Len(Tail(events)) : j \in 0..(Len(events) - 1) /\ j + 1 \in 1..Len(events)
  BY <1>1
<1>6. QED
  BY <1>2, <1>3, <1>4, <1>5 DEF InOrder

LEMMA OtherComes ==
  ASSUME TypeOK, InOrder, NEW e \in ToClient, e.op # "configure", events' = Append(events, e),
         UNCHANGED asked
  PROVE  Waiting' = Waiting /\ InOrder'
<1>1. /\ events \in Seq(ToClient) /\ Len(events) \in Nat /\ Len(Append(events, e)) = Len(events) + 1
      /\ \A j \in 1..Len(events) : Append(events, e)[j] = events[j]
      /\ Append(events, e)[Len(events) + 1] = e
  BY LenProperties, AppendProperties DEF TypeOK, ToClient
<1>2. Cardinality(News(events, Len(events))) \in Nat
  BY <1>1, NewsAreFinite
<1>3. Waiting' = Waiting
  BY <1>1, <1>2, NewsCome DEF Waiting
<1>4. \A j \in 1..(Len(events) + 1) : j \in 1..Len(events) \/ j = Len(events) + 1
  BY <1>1
<1>5. \A j \in 1..Len(events) : News(Append(events, e), j) = News(events, j)
  BY <1>1, NewsCome
<1>6. QED
  BY <1>1, <1>3, <1>4, <1>5 DEF InOrder

LEMMA StepTell == TypeOK /\ TellInv /\ [Next]_vars => TellInv'
<1> SUFFICES ASSUME TypeOK, TellInv, [Next]_vars
             PROVE  TellInv'
  OBVIOUS
<1>0. /\ events \in Seq(ToClient) /\ Len(events) \in Nat /\ Waiting \in Nat
      /\ asked \in Seq(Sizes) /\ Len(asked) \in Nat /\ gen \in Nat /\ MaxResizes \in Nat
  <2>1. events \in Seq(ToClient) /\ asked \in Seq(Sizes) /\ gen \in Nat
    BY DEF TypeOK, ToClient, Gens
  <2>2. QED
    BY <2>1, WlAssumption, NewsAreFinite, LenProperties DEF Waiting
<1>1. ASSUME UNCHANGED <<events, asked>>
      PROVE  Waiting' = Waiting /\ InOrder'
  BY <1>1 DEF TellInv, Waiting, InOrder
<1>2. CASE UNCHANGED vars \/ TakeCommit \/ TakeCreate \/ TakeDestroy
  <2>1. UNCHANGED <<events, asked, pc, gen, size, want, pending, refused>>
    BY <1>2 DEF vars, client, server, TakeCommit, TakeCreate, TakeDestroy
  <2>2. QED
    BY <1>1, <2>1 DEF TellInv, FirstIsFirst, LastIsWanted, PoolPerSize
<1>3. CASE Close \/ BuildPool \/ NoMemory \/ Paint \/ NoneFree \/ Commit
  <2>1. UNCHANGED <<events, asked>>
    BY <1>3 DEF Close, BuildPool, NoMemory, Paint, NoneFree, Commit, server
  <2>2. FirstIsFirst'
    BY <1>1, <1>3, <2>1 DEF TellInv, FirstIsFirst, Close, BuildPool, NoMemory, Paint, NoneFree, Commit
  <2>3. LastIsWanted' /\ PoolPerSize'
    BY <1>0, <1>1, <1>3, <2>1 DEF TellInv, LastIsWanted, PoolPerSize, Close, BuildPool, NoMemory,
       Paint, NoneFree, Commit, TypeOK
  <2>4. QED
    BY <1>1, <2>1, <2>2, <2>3 DEF TellInv
<1>4. CASE Released \/ FrameDone
  <2>1. /\ events # << >> /\ Head(events).op # "configure" /\ events' = Tail(events)
        /\ UNCHANGED <<asked, gen, size, want, pending, refused>>
        /\ pc' \in {"dispatch", "draw"}
    BY <1>4 DEF Released, FrameDone, Event, Taken, server
  <2>2. Waiting' = Waiting /\ InOrder'
    BY <2>1, OtherTaken DEF TellInv
  <2>3. Waiting < Len(asked)
    BY <1>0, <2>1 DEF TellInv, FirstIsFirst
  <2>4. QED
    BY <1>0, <2>1, <2>2, <2>3 DEF TellInv, FirstIsFirst, LastIsWanted, PoolPerSize
<1>5. CASE Configured
  <2> DEFINE t == Tail(events)
  <2>1. /\ events # << >> /\ Head(events).op = "configure" /\ events' = t /\ pc = "dispatch"
        /\ UNCHANGED <<asked, gen, size, pc>> /\ refused' = FALSE
        /\ want' = Head(events).to
        /\ pending' = (pending \/ want' # want)
    BY <1>5 DEF Configured, Event, Taken, server, TypeOK
  <2>2. /\ Len(events) \in Nat \ {0} /\ Len(t) = Len(events) - 1 /\ Head(events) = events[1]
        /\ \A j \in 1..Len(t) : t[j] = events[j + 1]
    BY <1>0, <2>1, EmptySeq, HeadTailProperties
  <2>3. \A j \in 0..(Len(events) - 1) : Cardinality(News(t, j)) = Cardinality(News(events, j + 1)) - 1
    BY <1>0, <2>1, NewsTaken
  <2> HIDE DEF t
  <2>4. Waiting' = Waiting - 1
    BY <2>1, <2>2, <2>3 DEF Waiting
  <2>5. \A j \in 1..Len(t) : j \in 0..(Len(events) - 1) /\ j + 1 \in 1..Len(events)
    BY <2>2
  <2>6. \A j \in 1..Len(events) : Cardinality(News(events, j)) \in Nat
    BY <1>0, NewsAreFinite
  <2>7. InOrder'
    <3> SUFFICES ASSUME NEW j \in 1..Len(t), t[j].op = "configure"
                 PROVE  t[j].to = asked[Len(asked) - (Waiting - 1) + Cardinality(News(t, j))]
      BY <2>1, <2>4 DEF InOrder
    <3>1. t[j].to = asked[Len(asked) - Waiting + Cardinality(News(events, j + 1))]
      BY <2>2, <2>5 DEF TellInv, InOrder
    <3>2. QED
      BY <1>0, <2>3, <2>5, <2>6, <3>1
  <2>8. want' = asked[Len(asked) - (Waiting - 1)]
    <3>1. News(events, 1) = {1}
      BY <2>1, <2>2 DEF News
    <3>2. Cardinality({1}) = 1
      BY FS_EmptySet, FS_AddElement, {} \cup {1} = {1}
    <3>3. 1 \in 1..Len(events) /\ events[1].op = "configure"
      BY <2>1, <2>2
    <3>4. events[1].to = asked[Len(asked) - Waiting + 1]
      BY <3>1, <3>2, <3>3 DEF TellInv, InOrder
    <3>5. QED
      BY <1>0, <2>1, <2>2, <3>4
  <2>9. Waiting' \in Nat /\ Waiting' < Len(asked)
    <3>1. Waiting' \in Nat
      BY <1>0, <2>1, HeadTailProperties, NewsAreFinite DEF Waiting, t
    <3>2. QED
      BY <1>0, <2>4, <3>1 DEF TellInv, FirstIsFirst
  <2>10. FirstIsFirst'
    BY <2>1, <2>9 DEF TellInv, FirstIsFirst
  <2>11. LastIsWanted'
    BY <2>1, <2>4, <2>8 DEF TellInv, LastIsWanted
  <2>12. PoolPerSize'
    BY <1>0, <2>1, <2>4, <2>9 DEF TellInv, PoolPerSize
  <2>13. QED
    BY <2>7, <2>10, <2>11, <2>12 DEF TellInv
<1>6. ASSUME NEW e \in ToClient, e.op # "configure", events' \in {events, Append(events, e)},
             UNCHANGED <<client, asked>>
      PROVE  TellInv'
  <2>1. UNCHANGED <<pc, gen, size, want, pending, refused, asked>>
    BY <1>6 DEF client
  <2>2. Waiting' = Waiting /\ InOrder'
    BY <1>1, <1>6, OtherComes DEF TellInv
  <2>3. events # << >> => events' # << >> /\ Head(events') = Head(events)
    BY <1>0, <1>6
  <2>4. QED
    BY <2>1, <2>2, <2>3 DEF TellInv, FirstIsFirst, LastIsWanted, PoolPerSize
<1>7. ASSUME NEW b \in Buffers, GiveBack(b)
      PROVE  TellInv'
  <2>1. [op |-> "release", buffer |-> b] \in ToClient
    BY DEF ToClient
  <2>2. QED
    BY <1>6, <1>7, <2>1 DEF GiveBack
<1>8. CASE AskForMore
  <2>1. [op |-> "done"] \in ToClient
    BY DEF ToClient
  <2>2. QED
    BY <1>6, <1>8, <2>1 DEF AskForMore
<1>9. ASSUME NEW s \in Sizes, Resize(s)
      PROVE  TellInv'
  <2> DEFINE e == [op |-> "configure", to |-> s]
             r == Append(events, e)
  <2>1. /\ Len(asked) <= MaxResizes /\ asked' = Append(asked, s) /\ events' = r
        /\ UNCHANGED <<pc, gen, size, want, pending, refused>>
    BY <1>9 DEF Resize, client
  <2>2. e \in ToClient /\ e.op = "configure" /\ e.to = s
    BY DEF ToClient
  <2> HIDE DEF e
  <2>3. /\ Len(r) = Len(events) + 1 /\ r[Len(events) + 1] = e
        /\ \A j \in 1..Len(events) : r[j] = events[j]
        /\ r # << >> /\ (events # << >> => Head(r) = Head(events))
    BY <1>0, <2>2, AppendProperties
  <2>4. /\ Len(asked') = Len(asked) + 1 /\ asked'[Len(asked) + 1] = s
        /\ \A k \in 1..Len(asked) : asked'[k] = asked[k]
    BY <1>0, <2>1, AppendProperties
  <2>5. /\ \A j \in 0..Len(events) : News(r, j) = News(events, j)
        /\ Cardinality(News(r, Len(events) + 1)) = Waiting + 1
    BY <1>0, <2>2, NewsCome DEF Waiting
  <2> HIDE DEF r
  <2>6. Waiting' = Waiting + 1
    BY <2>1, <2>3, <2>5 DEF Waiting
  <2>7. InOrder'
    <3> SUFFICES ASSUME NEW j \in 1..Len(r), r[j].op = "configure"
                 PROVE  r[j].to = asked'[Len(asked') - Waiting' + Cardinality(News(r, j))]
      BY <2>1 DEF InOrder
    <3>0. Len(asked') - Waiting' = Len(asked) - Waiting
      BY <1>0, <2>4, <2>6
    <3>1. CASE j = Len(events) + 1
      <4>1. Len(asked') - Waiting' + Cardinality(News(r, j)) = Len(asked) + 1
        BY <1>0, <2>5, <3>0, <3>1
      <4>2. QED
        BY <2>2, <2>3, <2>4, <3>1, <4>1
    <3>2. CASE j \in 1..Len(events)
      <4>1. r[j].to = asked[Len(asked) - Waiting + Cardinality(News(events, j))]
        BY <2>3, <3>2 DEF TellInv, InOrder
      <4>2. Cardinality(News(events, j)) \in 1..Waiting
        <5>1. News(events, j) \subseteq News(events, Len(events)) /\ j \in News(events, j)
          BY <2>3, <3>2 DEF News
        <5>2. /\ IsFiniteSet(News(events, j)) /\ Cardinality(News(events, j)) \in Nat
              /\ IsFiniteSet(News(events, Len(events)))
          BY <1>0, NewsAreFinite
        <5>3. Cardinality(News(events, j)) <= Waiting
          BY <5>1, <5>2, FS_Subset DEF Waiting
        <5>4. Cardinality(News(events, j)) # 0
          BY <5>1, <5>2, FS_EmptySet
        <5>5. QED
          BY <1>0, <5>2, <5>3, <5>4
      <4>3. Len(asked) - Waiting + Cardinality(News(events, j)) \in 1..Len(asked)
        BY <1>0, <4>2 DEF TellInv, FirstIsFirst
      <4>4. QED
        BY <1>0, <2>4, <2>5, <3>0, <3>2, <4>1, <4>2, <4>3
    <3>3. QED
      BY <1>0, <2>3, <3>1, <3>2
  <2>8. FirstIsFirst'
    BY <1>0, <2>1, <2>3, <2>4, <2>6 DEF TellInv, FirstIsFirst
  <2>9. LastIsWanted'
    <3>1. Waiting < Len(asked) =>
            /\ Len(asked') - Waiting' = Len(asked) - Waiting
            /\ Len(asked) - Waiting \in 1..Len(asked)
      BY <1>0, <2>4, <2>6
    <3>2. QED
      BY <1>0, <2>1, <2>4, <2>6, <3>1 DEF TellInv, LastIsWanted
  <2>10. PoolPerSize'
    BY <1>0, <2>1, <2>4, <2>6 DEF TellInv, PoolPerSize
  <2>11. QED
    BY <2>7, <2>8, <2>9, <2>10 DEF TellInv
<1>10. QED
  BY <1>2, <1>3, <1>4, <1>5, <1>7, <1>8, <1>9 DEF Next, Client, Compositor

-----------------------------------------------------------------------------
(* A pool is built for a size that came and was not the one wanted, so     *)
(* there are never more of them than sizes were asked for.                 *)
LEMMA StepTyped == TypeOK /\ TellInv /\ [Next]_vars => TypeOK'
<1> SUFFICES ASSUME TypeOK, TellInv, [Next]_vars
             PROVE  TypeOK'
  OBVIOUS
<1>0. /\ events \in Seq(ToClient) /\ requests \in Seq(ToServer) /\ asked \in Seq(Sizes)
      /\ busy \subseteq Slots /\ n \in Slots /\ gen \in Gens /\ old \subseteq Gens
      /\ MaxResizes \in Nat /\ BUFFERS \in Nat \ {0}
  BY WlAssumption DEF TypeOK, ToClient, ToServer
<1>1. CASE UNCHANGED vars
  BY <1>1 DEF TypeOK, vars, client, server
<1>2. CASE Configured
  <2>1. events # << >> /\ Head(events).op = "configure" /\ events' = Tail(events)
    BY <1>2 DEF Configured, Event, Taken
  <2>2. Tail(events) \in Seq(ToClient) /\ Head(events) \in ToClient
    BY <1>0, <2>1, HeadTailProperties
  <2>3. Head(events).to \in Sizes
    BY <2>1, <2>2 DEF ToClient
  <2>4. QED
    BY <1>2, <2>1, <2>2, <2>3 DEF Configured, TypeOK, ToClient, server
<1>3. CASE Released \/ FrameDone
  <2>1. events # << >> /\ events' = Tail(events)
    BY <1>3 DEF Released, FrameDone, Event, Taken
  <2>2. Tail(events) \in Seq(ToClient)
    BY <1>0, <2>1, HeadTailProperties
  <2>3. busy' \subseteq Slots
    BY <1>0, <1>3 DEF Released, FrameDone
  <2>4. QED
    BY <1>3, <2>1, <2>2, <2>3 DEF Released, FrameDone, TypeOK, ToClient, server
<1>4. CASE Close \/ NoMemory \/ NoneFree
  BY <1>4 DEF Close, NoMemory, NoneFree, TypeOK, server
<1>5. CASE Paint
  BY <1>0, <1>5 DEF Paint, FirstFree, Free, TypeOK, server
<1>6. CASE BuildPool
  <2>1. Waiting \in Nat /\ gen \in Nat /\ Len(asked) \in Nat
    BY <1>0, NewsAreFinite, LenProperties DEF Waiting, Gens
  <2>2. gen + 1 \in Gens
    BY <1>0, <1>6, <2>1 DEF BuildPool, TellInv, PoolPerSize, FirstIsFirst, Gens
  <2>3. [op |-> "create", pool |-> gen + 1] \in ToServer
    BY <2>2 DEF ToServer
  <2>4. requests' \in Seq(ToServer)
    BY <1>0, <1>6, <2>3, AppendProperties DEF BuildPool
  <2>5. QED
    BY <1>0, <1>6, <2>2, <2>4 DEF BuildPool, TypeOK, ToServer, server
<1>7. CASE Commit
  <2>1. <<gen, n>> \in Buffers
    BY <1>0 DEF Buffers
  <2>2. [op |-> "commit", buffer |-> <<gen, n>>] \in ToServer /\ [op |-> "destroy", pools |-> old] \in ToServer
    BY <1>0, <2>1 DEF ToServer
  <2>3. Hand \in Seq(ToServer) /\ Destroys \in Seq(ToServer)
    BY <2>2 DEF Hand, Destroys
  <2>4. requests \o Hand \o Destroys \in Seq(ToServer)
    BY <1>0, <2>3, ConcatProperties
  <2>5. QED
    BY <1>0, <1>7, <2>4 DEF Commit, TypeOK, ToServer, server
<1>8. CASE TakeCommit \/ TakeCreate \/ TakeDestroy
  <2>1. requests # << >> /\ requests' = Tail(requests)
    BY <1>8 DEF TakeCommit, TakeCreate, TakeDestroy, Request
  <2>2. Tail(requests) \in Seq(ToServer) /\ Head(requests) \in ToServer
    BY <1>0, <2>1, HeadTailProperties
  <2>3. /\ Head(requests).op = "commit" => Head(requests).buffer \in Buffers
        /\ Head(requests).op = "create" => Head(requests).pool \in Gens
    BY <2>2 DEF ToServer
  <2>4. QED
    BY <1>8, <2>1, <2>2, <2>3 DEF TakeCommit, TakeCreate, TakeDestroy, Request, TypeOK, ToServer, client
<1>9. ASSUME NEW b \in Buffers, GiveBack(b)
      PROVE  TypeOK'
  <2>1. [op |-> "release", buffer |-> b] \in ToClient
    BY DEF ToClient
  <2>2. events' \in Seq(ToClient)
    BY <1>0, <1>9, <2>1, AppendProperties DEF GiveBack
  <2>3. QED
    BY <1>9, <2>2 DEF GiveBack, TypeOK, ToClient, client
<1>10. CASE AskForMore
  <2>1. [op |-> "done"] \in ToClient
    BY DEF ToClient
  <2>2. events' \in Seq(ToClient)
    BY <1>0, <1>10, <2>1, AppendProperties DEF AskForMore
  <2>3. QED
    BY <1>10, <2>2 DEF AskForMore, TypeOK, ToClient, client
<1>11. ASSUME NEW s \in Sizes, Resize(s)
       PROVE  TypeOK'
  <2>1. [op |-> "configure", to |-> s] \in ToClient
    BY DEF ToClient
  <2>2. events' \in Seq(ToClient) /\ asked' \in Seq(Sizes)
    BY <1>0, <1>11, <2>1, AppendProperties DEF Resize
  <2>3. QED
    BY <1>11, <2>2 DEF Resize, TypeOK, ToClient, client
<1>12. QED
  BY <1>1, <1>2, <1>3, <1>4, <1>5, <1>6, <1>7, <1>8, <1>9, <1>10, <1>11 DEF Next, Client, Compositor

LEMMA TellHolds == Spec => [](TypeOK /\ TellInv)
<1>1. TypeOK /\ TellInv /\ [Next]_vars => (TypeOK /\ TellInv)'
  BY StepTyped, StepTell
<1>2. QED
  BY <1>1, InitTell, PTL DEF Spec

(* The types of what client and compositor keep and of what is between     *)
(* them; that the pools are never more than the sizes asked for is not of  *)
(* one step, but of all that is on its way.                                *)
THEOREM TypeCorrect == Spec => []TypeOK
  BY TellHolds, PTL

(* A frame is painted at the size the window was told last, or there was   *)
(* no memory for that (toolchain/wlcairo.c, `toplevel_configure` and       *)
(* `draw`), however many sizes are asked for and however late they come.   *)
THEOREM SizeFollowsHolds == Spec => []SizeFollows
<1>1. TypeOK /\ TellInv => SizeFollows
  <2> SUFFICES ASSUME TypeOK, TellInv, pc = "paint"
               PROVE  size = Told \/ refused
    BY DEF SizeFollows
  <2>1. Unread = News(events, Len(events))
    BY DEF Unread, News
  <2>2. Told = asked[Len(asked) - Waiting]
    BY <2>1 DEF Told, Waiting
  <2>3. Waiting < Len(asked)
    <3>1. Waiting \in Nat /\ Len(asked) \in Nat
      BY NewsAreFinite, LenProperties DEF Waiting, TypeOK
    <3>2. QED
      BY <3>1 DEF TellInv, FirstIsFirst
  <2>4. QED
    BY <2>2, <2>3 DEF TellInv, LastIsWanted
<1>2. QED
  BY <1>1, TellHolds, PTL

=============================================================================
