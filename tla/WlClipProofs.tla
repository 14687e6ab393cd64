----------------------------- MODULE WlClipProofs -----------------------------
(***************************************************************************)
(* What is pasted is all of it or nothing, for every length, every size of *)
(* the paster's buffer and any number of changes of the selection (module  *)
(* WlClip).                                                                *)
(*                                                                         *)
(* The argument follows the write end of the pipe that the paster gives    *)
(* away: it is in one place at a time -- libwayland's buffer, the request, *)
(* the event, whoever answers -- and nothing is in the pipe before its     *)
(* holder has written, which is the last thing done with it.  That an      *)
(* undisturbed paste gets the selection follows the events instead: of a   *)
(* selection that is set only once, what kinds it has is told first.       *)
(***************************************************************************)
EXTENDS WlClip, SequenceTheorems, TLAPS

Given == holders \ {"paster"}
Early == paster \in {"looking", "roundtrip", "resting", "asking", "gave up"}
InPipe == got + content
Behind == IF offers[asked] = "copier" THEN PAYLOAD ELSE OtherLen

FromPaste == [op : {"sync"}] \cup [op : {"receive"}, offer : Nat]
ToPaste == [op : {"done", "mime"}] \cup [op : {"data_offer", "selection"}, offer : Nat]

ClipTyped ==
  /\ copier \in {"setting", "serving", "writing", "closing", "gone"}
  /\ paster \in {"looking", "roundtrip", "resting", "asking", "flushing", "closing", "reading",
                 "pasted", "gave up"}
  /\ have_selection \in BOOLEAN
  /\ offers \in Seq({"copier", "other"})
  /\ offer \in Nat /\ asked \in Nat /\ got \in 0..ROOM /\ content \in Nat
  /\ holders \subseteq Holders
  /\ toServer \in Seq({"create", "offer", "set"}) /\ toCopier \in Seq({"send", "cancelled"})
  /\ fromPaste \in Seq(FromPaste) /\ toPaste \in Seq(ToPaste)
  /\ owner \in {"nobody", "copier", "other"}

(* A selection is announced only behind an offer: what is asked for is one *)
(* that was named.                                                         *)
Names(q, o, n) ==
  /\ \A i \in 1..Len(q) : q[i].op = "data_offer" => q[i].offer \in 1..n
  /\ \A i \in 1..Len(q) : q[i].op = "selection" /\ q[i].offer # 0 =>
       o > 0 \/ \E j \in 1..(i - 1) : q[j].op = "data_offer"
OfferNamed ==
  /\ offer <= Len(offers) /\ asked <= Len(offers)
  /\ Names(toPaste, offer, Len(offers))
  /\ have_selection => offer > 0
  /\ paster = "asking" => have_selection
  /\ ~Early => asked > 0

(* The request that carries the write end, and the event that does: one,   *)
(* and while it is on its way nobody else has it.                          *)
OneRequest(q, hs, o) ==
  /\ \A i \in 1..Len(q) : q[i].op = "receive" => q[i].offer = o /\ "request" \in hs
  /\ \A i, j \in 1..Len(q) : q[i].op = "receive" /\ q[j].op = "receive" => i = j
OneEvent(q, hs) ==
  /\ \A i \in 1..Len(q) : q[i] = "send" => "event" \in hs
  /\ \A i, j \in 1..Len(q) : q[i] = "send" /\ q[j] = "send" => i = j

OneHolder ==
  /\ \A x, y \in Given : x = y
  /\ Early => Given = {}
  /\ "buffer" \in holders <=> paster = "flushing"
  /\ "copier" \in holders <=> copier \in {"writing", "closing"}
  /\ "event" \in holders \/ "copier" \in holders => offers[asked] = "copier"
  /\ "other" \in holders => offers[asked] = "other"
GivenOnce ==
  OneHolder /\ OneRequest(fromPaste, holders, asked) /\ OneEvent(toCopier, holders)

(* What has been written, by where the write end is.                       *)
Amount ==
  /\ Early => InPipe = 0
  /\ Given # {} /\ copier # "closing" => InPipe = 0
  /\ copier = "closing" => InPipe = PAYLOAD
  /\ Given = {} => InPipe = 0 \/ (~Early /\ InPipe = Behind)

ClipInv == ClipTyped /\ OfferNamed /\ GivenOnce /\ Amount /\ AllOrNothing

-----------------------------------------------------------------------------
(* A selection stays behind its offer as the events before it are read.    *)
LEMMA NamesTail ==
  ASSUME NEW q \in Seq(ToPaste), q # << >>, NEW o \in Nat, NEW p \in Nat, NEW n \in Nat,
         Names(q, o, n), p > 0 \/ (p = o /\ q[1].op # "data_offer")
  PROVE  Names(Tail(q), p, n)
<1> DEFINE t == Tail(q)
<1>1. /\ Len(q) \in Nat \ {0} /\ Len(t) = Len(q) - 1
      /\ \A i \in 1..(Len(q) - 1) : t[i] = q[i + 1]
  BY EmptySeq, HeadTailProperties
<1>2. ASSUME NEW i \in 1..Len(t)
      PROVE  i + 1 \in 1..Len(q) /\ t[i] = q[i + 1]
  BY <1>1
<1>3. \A i \in 1..Len(t) : t[i].op = "data_offer" => t[i].offer \in 1..n
  BY <1>2 DEF Names
<1>4. ASSUME NEW i \in 1..Len(t), t[i].op = "selection", t[i].offer # 0
      PROVE  p > 0 \/ \E j \in 1..(i - 1) : t[j].op = "data_offer"
  <2>1. SUFFICES ASSUME p = o, q[1].op # "data_offer", ~(o > 0)
                 PROVE  \E j \in 1..(i - 1) : t[j].op = "data_offer"
    OBVIOUS
  <2>2. \E j \in 1..((i + 1) - 1) : q[j].op = "data_offer"
    BY <1>2, <1>4, <2>1 DEF Names
  <2>3. PICK j \in 1..((i + 1) - 1) : q[j].op = "data_offer"
    BY <2>2
  <2>4. j # 1
    BY <2>1, <2>3
  <2>5. j - 1 \in 1..(i - 1) /\ (j - 1) + 1 = j /\ j - 1 \in 1..(Len(q) - 1)
    BY <2>3, <2>4, <1>1
  <2>6. t[j - 1] = q[j]
    BY <1>1, <2>5
  <2>7. QED
    BY <2>3, <2>5, <2>6
<1>5. QED
  BY <1>3, <1>4 DEF Names

(* An event said last may be a selection only behind an offer.             *)
LEMMA NamesAppend ==
  ASSUME NEW q \in Seq(ToPaste), NEW e \in ToPaste, NEW o \in Nat, NEW n \in Nat,
         Names(q, o, n), e.op = "data_offer" => e.offer \in 1..n,
         e.op = "selection" /\ e.offer # 0 =>
           o > 0 \/ \E j \in 1..Len(q) : q[j].op = "data_offer"
  PROVE  Names(Append(q, e), o, n)
<1> DEFINE t == Append(q, e)
<1>1. /\ Len(q) \in Nat /\ Len(t) = Len(q) + 1 /\ t[Len(q) + 1] = e
      /\ \A i \in 1..Len(q) : t[i] = q[i]
  BY AppendProperties
<1>2. \A i \in 1..Len(t) : i \in 1..Len(q) \/ i = Len(q) + 1
  BY <1>1
<1>3. \A i \in 1..Len(t) : t[i].op = "data_offer" => t[i].offer \in 1..n
  BY <1>1, <1>2 DEF Names
<1>4. ASSUME NEW i \in 1..Len(t), t[i].op = "selection", t[i].offer # 0
      PROVE  o > 0 \/ \E j \in 1..(i - 1) : t[j].op = "data_offer"
  <2>1. SUFFICES ASSUME ~(o > 0)
                 PROVE  \E j \in 1..(i - 1) : t[j].op = "data_offer"
    OBVIOUS
  <2>2. \E j \in 1..(i - 1) : q[j].op = "data_offer"
    <3>1. CASE i \in 1..Len(q)
      BY <1>1, <1>4, <2>1, <3>1 DEF Names
    <3>2. CASE i = Len(q) + 1
      <4>1. (i - 1) = Len(q) /\ t[i] = e
        BY <1>1, <3>2
      <4>2. QED
        BY <1>4, <2>1, <4>1
    <3>3. QED
      BY <1>2, <3>1, <3>2
  <2>3. \A j \in 1..(i - 1) : t[j] = q[j]
    BY <1>1
  <2>4. QED
    BY <2>2, <2>3
<1>5. QED
  BY <1>3, <1>4 DEF Names

(* What was named stays named as offers are added.                         *)
LEMMA NamesMore ==
  ASSUME NEW q, NEW o \in Nat, NEW n \in Nat, Names(q, o, n)
  PROVE  Names(q, o, n + 1)
BY DEF Names

(* An offer, said to be of the kind or not.                                *)
LEMMA NamesOffer ==
  ASSUME NEW q \in Seq(ToPaste), NEW o \in Nat, NEW n \in Nat, Names(q, o, n)
  PROVE  LET a == [op |-> "data_offer", offer |-> n + 1]
             b == [op |-> "mime"]
             s == [op |-> "selection", offer |-> n + 1]
         IN  /\ a \in ToPaste /\ b \in ToPaste /\ s \in ToPaste
             /\ Append(q, a) \in Seq(ToPaste) /\ Names(Append(q, a), o, n + 1)
             /\ Append(Append(q, a), b) \in Seq(ToPaste)
             /\ Names(Append(Append(q, a), b), o, n + 1)
             /\ Append(Append(q, a), s) \in Seq(ToPaste)
             /\ Names(Append(Append(q, a), s), o, n + 1)
             /\ Append(Append(Append(q, a), b), s) \in Seq(ToPaste)
             /\ Names(Append(Append(Append(q, a), b), s), o, n + 1)
<1> DEFINE a == [op |-> "data_offer", offer |-> n + 1]
           b == [op |-> "mime"]
           s == [op |-> "selection", offer |-> n + 1]
           qa == Append(q, a)
           qb == Append(qa, b)
<1>1. a \in ToPaste /\ b \in ToPaste /\ s \in ToPaste
  BY DEF ToPaste
<1>2. /\ Len(q) \in Nat /\ qa \in Seq(ToPaste) /\ Len(qa) = Len(q) + 1
      /\ qa[Len(q) + 1] = a
  BY <1>1, AppendProperties
<1>3. /\ qb \in Seq(ToPaste) /\ Len(qb) = Len(qa) + 1 /\ \A i \in 1..Len(qa) : qb[i] = qa[i]
      /\ Append(qa, s) \in Seq(ToPaste) /\ Append(qb, s) \in Seq(ToPaste)
  <2>1. qb \in Seq(ToPaste) /\ Len(qb) = Len(qa) + 1 /\ \A i \in 1..Len(qa) : qb[i] = qa[i]
    BY <1>1, <1>2, AppendProperties
  <2>2. QED
    BY <1>1, <1>2, <2>1, AppendProperties
<1>4. Names(q, o, n + 1)
  BY NamesMore
<1>5. Names(qa, o, n + 1)
  BY <1>1, <1>4, NamesAppend
<1>a. n + 1 \in Nat /\ a.op = "data_offer" /\ b.op = "mime" /\ s.op = "selection"
  OBVIOUS
<1> HIDE DEF a, b, s, qa
<1>6. Names(qb, o, n + 1)
  BY <1>1, <1>2, <1>5, <1>a, NamesAppend
<1> HIDE DEF qb
<1>7. /\ Len(q) + 1 \in 1..Len(qa) /\ qa[Len(q) + 1].op = "data_offer"
      /\ Len(q) + 1 \in 1..Len(qb) /\ qb[Len(q) + 1].op = "data_offer"
  BY <1>2, <1>3, <1>a
<1>8. Names(Append(qa, s), o, n + 1)
  <2>1. \E j \in 1..Len(qa) : qa[j].op = "data_offer"
    BY <1>7
  <2>2. QED
    BY <1>1, <1>2, <1>5, <1>a, <2>1, NamesAppend
<1>9. Names(Append(qb, s), o, n + 1)
  <2>1. \E j \in 1..Len(qb) : qb[j].op = "data_offer"
    BY <1>7
  <2>2. QED
    BY <1>1, <1>3, <1>6, <1>a, <2>1, NamesAppend
<1>10. QED
  BY <1>1, <1>2, <1>3, <1>5, <1>6, <1>8, <1>9 DEF a, b, s, qa, qb

-----------------------------------------------------------------------------
(* What the paster is told names its offer before it makes it the          *)
(* selection.                                                              *)
LEMMA Told ==
  ASSUME ClipTyped, TellSelection \/ OtherDrags(TRUE) \/ OtherDrags(FALSE)
  PROVE  /\ offers' \in Seq({"copier", "other"}) /\ Len(offers') \in {Len(offers), Len(offers) + 1}
         /\ \A i \in 1..Len(offers) : offers'[i] = offers[i]
         /\ toPaste' \in Seq(ToPaste)
         /\ \A o \in Nat : Names(toPaste, o, Len(offers)) => Names(toPaste', o, Len(offers'))
<1> DEFINE n == Len(offers)
           a == [op |-> "data_offer", offer |-> n + 1]
           b == [op |-> "mime"]
           s == [op |-> "selection", offer |-> n + 1]
           z == [op |-> "selection", offer |-> 0]
<1>1. toPaste \in Seq(ToPaste) /\ offers \in Seq({"copier", "other"}) /\ n \in Nat
  <2>1. toPaste \in Seq(ToPaste) /\ offers \in Seq({"copier", "other"})
    BY Zenon DEF ClipTyped
  <2>2. QED
    BY <2>1, LenProperties
<1>2. a \in ToPaste /\ b \in ToPaste /\ s \in ToPaste /\ z \in ToPaste
  BY <1>1 DEF ToPaste
<1>3. CASE TellSelection /\ owner = "nobody"
  <2>1. toPaste' = Append(toPaste, z) /\ offers' = offers
    BY <1>3 DEF TellSelection
  <2>2. Append(toPaste, z) \in Seq(ToPaste)
    BY <1>1, <1>2, AppendProperties
  <2>3. z.op = "selection" /\ z.offer = 0
    OBVIOUS
  <2> HIDE DEF z
  <2>4. ASSUME NEW o \in Nat, Names(toPaste, o, n)
        PROVE  Names(Append(toPaste, z), o, n)
    BY <1>1, <1>2, <2>3, <2>4, NamesAppend
  <2>5. QED
    BY <1>1, <2>1, <2>2, <2>4
<1>4. ASSUME NEW c \in {"copier", "other"}, offers' = Append(offers, c),
             toPaste' \in {Append(toPaste, a), Append(Append(toPaste, a), b),
                           Append(Append(toPaste, a), s),
                           Append(Append(Append(toPaste, a), b), s)}
      PROVE  /\ offers' \in Seq({"copier", "other"}) /\ Len(offers') = n + 1
             /\ \A i \in 1..n : offers'[i] = offers[i]
             /\ toPaste' \in Seq(ToPaste)
             /\ \A o \in Nat : Names(toPaste, o, n) => Names(toPaste', o, Len(offers'))
  <2>1. /\ offers' \in Seq({"copier", "other"}) /\ Len(offers') = n + 1
        /\ \A i \in 1..n : offers'[i] = offers[i]
    BY <1>1, <1>4, AppendProperties
  <2>2. Append(toPaste, a) \in Seq(ToPaste)
    BY <1>1, <1>2, AppendProperties
  <2>3. Append(Append(toPaste, a), b) \in Seq(ToPaste)
    BY <1>2, <2>2, AppendProperties
  <2>4. toPaste' \in Seq(ToPaste)
    <3>1. Append(Append(toPaste, a), s) \in Seq(ToPaste)
      BY <1>2, <2>2, AppendProperties
    <3>2. Append(Append(Append(toPaste, a), b), s) \in Seq(ToPaste)
      BY <1>2, <2>3, AppendProperties
    <3>3. QED
      BY <1>4, <2>2, <2>3, <3>1, <3>2, Zenon
  <2>5. ASSUME NEW o \in Nat, Names(toPaste, o, n)
        PROVE  Names(toPaste', o, n + 1)
    BY <1>1, <1>4, <2>5, NamesOffer, Zenon
  <2>6. QED
    BY <2>1, <2>4, <2>5
<1>5. CASE TellSelection /\ owner # "nobody"
  <2>1. owner \in {"copier", "other"} /\ offers' = Append(offers, owner)
    BY <1>5 DEF TellSelection, ClipTyped
  <2>2. toPaste' = (toPaste \o (<<a>> \o IF mime[owner] THEN <<b>> ELSE << >>)) \o <<s>>
    BY <1>5 DEF TellSelection, Offering
  <2>3. toPaste' \in {Append(Append(toPaste, a), s), Append(Append(Append(toPaste, a), b), s)}
    <3>1. Append(toPaste, a) \in Seq(ToPaste) /\ Append(Append(toPaste, a), b) \in Seq(ToPaste)
      <4>1. Append(toPaste, a) \in Seq(ToPaste)
        BY <1>1, <1>2, AppendProperties
      <4>2. QED
        BY <1>2, <4>1, AppendProperties
    <3>2. \A q \in Seq(ToPaste) : q \o <<s>> = Append(q, s)
      BY <1>2, AppendIsConcat
    <3>3. CASE mime[owner]
      <4>1. toPaste' = (toPaste \o (<<a>> \o <<b>>)) \o <<s>>
        BY <2>2, <3>3
      <4>2. toPaste \o (<<a>> \o <<b>>) = Append(Append(toPaste, a), b)
        BY <1>1, <1>2, AppendIsConcat
      <4>3. QED
        BY <3>1, <3>2, <4>1, <4>2
    <3>4. CASE ~mime[owner]
      <4>1. toPaste' = (toPaste \o (<<a>> \o << >>)) \o <<s>>
        BY <2>2, <3>4
      <4>2. toPaste \o (<<a>> \o << >>) = Append(toPaste, a)
        BY <1>1, <1>2, AppendIsConcat
      <4>3. QED
        BY <3>1, <3>2, <4>1, <4>2
    <3>5. QED
      BY <3>3, <3>4
  <2>4. QED
    BY <1>4, <2>1, <2>3
<1>6. CASE OtherDrags(TRUE)
  <2>1. offers' = Append(offers, "other") /\ toPaste' = (toPaste \o <<a>>) \o <<b>>
    BY <1>6 DEF OtherDrags
  <2>2. toPaste' = Append(Append(toPaste, a), b)
    BY <1>1, <1>2, <2>1, AppendIsConcat
  <2>3. QED
    BY <1>4, <2>1, <2>2
<1>7. CASE OtherDrags(FALSE)
  <2>1. offers' = Append(offers, "other") /\ toPaste' = (toPaste \o <<a>>) \o << >>
    BY <1>7 DEF OtherDrags
  <2>2. toPaste' = Append(toPaste, a)
    BY <1>1, <1>2, <2>1, AppendIsConcat
  <2>3. QED
    BY <1>4, <2>1, <2>2
<1>8. QED
  BY <1>3, <1>5, <1>6, <1>7

(* Types. *)
LEMMA TypedStep ==
  ASSUME ClipTyped, Next
  PROVE  ClipTyped'
<1>0. /\ SetRequests \in Seq({"create", "offer", "set"})
      /\ << >> \in Seq({"create", "offer", "set"}) /\ << >> \in Seq({"send", "cancelled"})
  BY DEF SetRequests
<1>a. /\ content + PAYLOAD \in Nat /\ content + OtherLen \in Nat
      /\ \A n \in 1..(ROOM - got) : n <= content => got + n \in 0..ROOM /\ content - n \in Nat
  <2>1. content \in Nat /\ got \in 0..ROOM
    BY Zenon DEF ClipTyped
  <2>2. QED
    BY <2>1, ClipAssumption
<1> USE DEF ClipTyped
<1>1. CASE SetSelection
  BY <1>0, <1>1 DEF SetSelection, pasting, pipe, server
<1>2. CASE Send \/ Cancelled
  <2>1. Tail(toCopier) \in Seq({"send", "cancelled"})
    BY <1>2, EmptySeq, HeadTailProperties DEF Send, Cancelled
  <2>2. QED
    BY <1>2, <2>1 DEF Send, Cancelled, copying, pasting, pipe, server, Holders
<1>3. CASE SendWrites \/ SendCloses
  <2>1. holders' \in SUBSET holders /\ content' \in {content, content + PAYLOAD}
    BY <1>3 DEF SendWrites, SendCloses
  <2>2. copier' \in {"serving", "closing"} /\ UNCHANGED <<pasting, wire, server>>
    BY <1>3 DEF SendWrites, SendCloses
  <2>3. QED
    BY <1>a, <2>1, <2>2 DEF pasting, wire, server
<1>4. CASE Look
  <2>1. [op |-> "sync"] \in FromPaste
    BY DEF FromPaste
  <2>2. Append(fromPaste, [op |-> "sync"]) \in Seq(FromPaste)
    BY <2>1, AppendProperties
  <2>3. QED
    BY <1>4, <2>2 DEF Look, copying, pipe, server
<1>5. CASE Rest \/ Check \/ Receive \/ CloseOwn \/ ReadEnd
  BY <1>5 DEF Rest, Check, Receive, CloseOwn, ReadEnd, copying, pipe, wire, server, Holders
<1>6. CASE RoundtripDone \/ DataOffer \/ OfferMime \/ Selection
  <2>1. Tail(toPaste) \in Seq(ToPaste) /\ toPaste' = Tail(toPaste)
    BY <1>6, EmptySeq, HeadTailProperties DEF RoundtripDone, DataOffer, OfferMime, Selection, Event
  <2>2. have_selection' \in BOOLEAN
    BY <1>6 DEF RoundtripDone, DataOffer, OfferMime, Selection
  <2>3. paster' \in {paster, "resting"} /\ offer' \in Nat
    <3>1. CASE DataOffer
      <4>1. Head(toPaste) \in ToPaste /\ Head(toPaste).op = "data_offer"
        BY <3>1, EmptySeq, HeadTailProperties DEF DataOffer, Event
      <4>2. QED
        BY <3>1, <4>1 DEF DataOffer, ToPaste
    <3>2. QED
      BY <1>6, <3>1 DEF RoundtripDone, DataOffer, OfferMime, Selection
  <2>4. UNCHANGED <<copying, asked, got, pipe, toServer, fromPaste, toCopier, server>>
    BY <1>6 DEF RoundtripDone, DataOffer, OfferMime, Selection, Event
  <2>5. QED
    BY <2>1, <2>2, <2>3, <2>4 DEF copying, pipe, server
<1>7. CASE Flush
  <2>1. fromPaste' \in Seq(FromPaste)
    <3>1. [op |-> "receive", offer |-> asked] \in FromPaste
      BY DEF FromPaste
    <3>2. Append(fromPaste, [op |-> "receive", offer |-> asked]) \in Seq(FromPaste)
      BY <3>1, AppendProperties
    <3>3. QED
      BY <1>7, <3>2 DEF Flush
  <2>2. QED
    BY <1>7, <2>1 DEF Flush, copying, server, Holders
<1>8. CASE Read
  <2>1. PICK n \in 1..(ROOM - got) :
               n <= content /\ got' = got + n /\ content' = content - n
    BY <1>8 DEF Read
  <2>2. paster' \in {"pasted", paster}
    BY <1>8 DEF Read
  <2>3. UNCHANGED <<copying, have_selection, offer, asked, holders, wire, server>>
    BY <1>8 DEF Read
  <2>4. got' \in 0..ROOM /\ content' \in Nat
    BY <1>a, <2>1
  <2>5. QED
    BY <2>2, <2>3, <2>4 DEF copying, wire, server
<1>9. CASE TakeFromCopier
  <2>1. Head(toServer) \in {"create", "offer", "set"} /\ Tail(toServer) \in Seq({"create", "offer", "set"})
    BY <1>9, EmptySeq, HeadTailProperties DEF TakeFromCopier
  <2>2. owner' \in {"nobody", "copier", "other"}
    BY <1>9, <2>1 DEF TakeFromCopier, Owns
  <2>3. QED
    BY <1>9, <2>1, <2>2 DEF TakeFromCopier, copying, pasting, pipe
<1>10. CASE TakeSync
  <2>1. Tail(fromPaste) \in Seq(FromPaste)
    BY <1>10, EmptySeq, HeadTailProperties DEF TakeSync
  <2>2. [op |-> "done"] \in ToPaste
    BY DEF ToPaste
  <2>3. Append(toPaste, [op |-> "done"]) \in Seq(ToPaste)
    BY <2>2, AppendProperties
  <2>4. QED
    BY <1>10, <2>1, <2>3 DEF TakeSync, copying, pasting, pipe, server
<1>11. CASE PassOn
  <2>1. Tail(fromPaste) \in Seq(FromPaste) /\ Append(toCopier, "send") \in Seq({"send", "cancelled"})
    BY <1>11, EmptySeq, HeadTailProperties, AppendProperties DEF PassOn
  <2>2. QED
    BY <1>11, <2>1 DEF PassOn, copying, pasting, server, Holders
<1>12. CASE OtherTakes(TRUE) \/ OtherTakes(FALSE) \/ OtherClears
  <2>1. Append(toCopier, "cancelled") \in Seq({"send", "cancelled"})
    BY AppendProperties
  <2>2. QED
    BY <1>12, <2>1 DEF OtherTakes, OtherClears, Owns, Loses, copying, pasting, pipe
<1>13. CASE OtherAnswers \/ Killed
  <2>1. holders' \in SUBSET holders /\ content' \in {content, content + OtherLen}
    BY <1>13 DEF OtherAnswers, Killed
  <2>2. CASE OtherAnswers
    BY <1>a, <2>1, <2>2 DEF OtherAnswers, copying, pasting, wire, server
  <2>3. CASE Killed
    <3>1. owner' \in {"nobody", "copier", "other"}
      BY <2>3 DEF Killed, Owns
    <3>2. QED
      BY <1>0, <2>1, <2>3, <3>1 DEF Killed, pasting
  <2>4. QED
    BY <1>13, <2>2, <2>3
<1>14. CASE TellSelection \/ OtherDrags(TRUE) \/ OtherDrags(FALSE)
  <2>1. UNCHANGED <<copying, pasting, pipe, toServer, fromPaste, toCopier, owner>>
    BY <1>14 DEF TellSelection, OtherDrags
  <2>2. QED
    BY <1>14, <2>1, Told DEF copying, pasting, pipe
<1>15. QED
  BY <1>1, <1>2, <1>3, <1>4, <1>5, <1>6, <1>7, <1>8, <1>9, <1>10, <1>11, <1>12, <1>13, <1>14
     DEF Next, Copier, Paster, Compositor

-----------------------------------------------------------------------------
(* What is asked for was named. *)
LEMMA NamedStep ==
  ASSUME ClipTyped, OfferNamed, Next
  PROVE  OfferNamed'
<1>1. /\ toPaste \in Seq(ToPaste) /\ offer \in Nat /\ asked \in Nat /\ Len(offers) \in Nat
      /\ have_selection \in BOOLEAN
  <2>1. toPaste \in Seq(ToPaste) /\ offers \in Seq({"copier", "other"})
    BY Zenon DEF ClipTyped
  <2>2. offer \in Nat /\ asked \in Nat /\ have_selection \in BOOLEAN
    BY Zenon DEF ClipTyped
  <2>3. QED
    BY <2>1, <2>2, LenProperties
<1>2. /\ offer <= Len(offers) /\ asked <= Len(offers) /\ Names(toPaste, offer, Len(offers))
      /\ have_selection => offer > 0
      /\ paster = "asking" => have_selection
      /\ ~Early => asked > 0
  BY DEF OfferNamed
<1>3. CASE /\ UNCHANGED <<toPaste, offer, offers, asked, have_selection>>
           /\ \/ UNCHANGED paster
              \/ Early /\ Early' /\ (paster' = "asking" => have_selection)
              \/ ~Early /\ paster' # "asking"
  BY <1>2, <1>3 DEF OfferNamed, Early
<1>4. CASE Receive
  <2>1. /\ offer > 0 /\ asked' = offer /\ paster' = "flushing"
        /\ UNCHANGED <<toPaste, offer, offers, have_selection>>
    BY <1>2, <1>4 DEF Receive, wire, server
  <2>2. QED
    BY <1>2, <2>1 DEF OfferNamed
<1>5. CASE RoundtripDone \/ DataOffer \/ OfferMime \/ Selection
  <2>1. /\ toPaste # << >> /\ toPaste' = Tail(toPaste) /\ UNCHANGED <<asked, offers>>
        /\ paster \in {"roundtrip", "resting"} /\ paster' \in {"roundtrip", "resting"}
    BY <1>5 DEF RoundtripDone, DataOffer, OfferMime, Selection, Event, server
  <2>2. Head(toPaste) = toPaste[1] /\ 1 \in 1..Len(toPaste)
    BY <1>1, <2>1, EmptySeq, HeadTailProperties
  <2>3. CASE RoundtripDone \/ OfferMime \/ Selection
    <3>1. Head(toPaste).op # "data_offer" /\ offer' = offer
      BY <2>3 DEF RoundtripDone, OfferMime, Selection, Event
    <3>2. Names(toPaste', offer', Len(offers'))
      BY <1>1, <1>2, <2>1, <2>2, <3>1, NamesTail
    <3>3. have_selection' => offer > 0
      <4>1. CASE Selection
        <5>1. Head(toPaste).op = "selection" /\ have_selection' = (have_selection \/ Head(toPaste).offer # 0)
          BY <4>1 DEF Selection, Event
        <5>2. toPaste[1].offer # 0 => offer > 0 \/ \E j \in 1..(1 - 1) : toPaste[j].op = "data_offer"
          BY <1>2, <2>2, <5>1 DEF Names
        <5>3. toPaste[1].offer # 0 => offer > 0
          BY <5>2
        <5>4. QED
          BY <1>2, <2>2, <5>1, <5>3
      <4>2. CASE RoundtripDone \/ OfferMime
        BY <1>2, <4>2 DEF RoundtripDone, OfferMime
      <4>3. QED
        BY <2>3, <4>1, <4>2
    <3>4. offer' <= Len(offers') /\ asked' <= Len(offers')
      BY <1>2, <2>1, <3>1
    <3>5. Early' /\ paster' # "asking"
      BY <2>1 DEF Early
    <3>6. have_selection' => offer' > 0
      BY <3>1, <3>3
    <3>7. QED
      BY <3>2, <3>4, <3>5, <3>6, Zenon DEF OfferNamed
  <2>4. CASE DataOffer
    <3>1. Head(toPaste).op = "data_offer" /\ offer' = Head(toPaste).offer
          /\ UNCHANGED have_selection
      BY <2>4 DEF DataOffer, Event
    <3>2. offer' \in 1..Len(offers) /\ offers' = offers
      BY <1>2, <2>1, <2>2, <3>1 DEF Names
    <3>3. Names(toPaste', offer', Len(offers))
      <4>1. offer' \in Nat /\ offer' > 0
        BY <1>1, <3>2
      <4>2. Names(Tail(toPaste), offer', Len(offers))
        BY <1>1, <1>2, <2>1, <4>1, NamesTail
      <4>3. QED
        BY <2>1, <4>2
    <3>4. offer' <= Len(offers') /\ asked' <= Len(offers') /\ offer' > 0
      BY <1>1, <1>2, <2>1, <3>2
    <3>5. Early' /\ paster' # "asking"
      BY <2>1 DEF Early
    <3>6. Names(toPaste', offer', Len(offers'))
      BY <3>2, <3>3
    <3>7. QED
      BY <3>4, <3>5, <3>6, Zenon DEF OfferNamed
  <2>5. QED
    BY <1>5, <2>3, <2>4
<1>6. CASE TakeSync
  <2>1. toPaste' = Append(toPaste, [op |-> "done"]) /\ UNCHANGED <<paster, offer, offers, asked, have_selection>>
    BY <1>6 DEF TakeSync, pasting, server
  <2>2. [op |-> "done"] \in ToPaste
    BY DEF ToPaste
  <2>3. Names(Append(toPaste, [op |-> "done"]), offer, Len(offers))
    BY <1>1, <1>2, <2>2, NamesAppend
  <2>4. QED
    BY <1>2, <2>1, <2>3 DEF OfferNamed, Early
<1>7. CASE TellSelection \/ OtherDrags(TRUE) \/ OtherDrags(FALSE)
  <2>1. UNCHANGED <<paster, offer, asked, have_selection>>
    BY <1>7 DEF TellSelection, OtherDrags, pasting
  <2>2. Len(offers') \in {Len(offers), Len(offers) + 1} /\ Names(toPaste', offer, Len(offers'))
    BY <1>1, <1>2, <1>7, Told
  <2>3. offer <= Len(offers') /\ asked <= Len(offers')
    BY <1>1, <1>2, <2>2
  <2>4. QED
    BY <1>2, <2>1, <2>2, <2>3 DEF OfferNamed, Early
<1>8. CASE SetSelection \/ Send \/ SendWrites \/ SendCloses \/ Cancelled \/ TakeFromCopier \/ PassOn
  BY <1>3, <1>8 DEF SetSelection, Send, SendWrites, SendCloses, Cancelled, TakeFromCopier, PassOn,
                    pasting, pipe, wire, server
<1>9. CASE Look \/ Rest \/ Check \/ Flush \/ CloseOwn \/ ReadEnd
  <2>1. UNCHANGED <<toPaste, offer, offers, asked, have_selection>>
    BY <1>9 DEF Look, Rest, Check, Flush, CloseOwn, ReadEnd, wire, server
  <2>2. \/ Early /\ Early' /\ (paster' = "asking" => have_selection)
        \/ ~Early /\ paster' # "asking"
    BY <1>9 DEF Look, Rest, Check, Flush, CloseOwn, ReadEnd, Early
  <2>3. QED
    BY <1>3, <2>1, <2>2
<1>10. CASE Read
  <2>1. UNCHANGED <<toPaste, offer, offers, asked, have_selection>>
    BY <1>10 DEF Read, wire, server
  <2>2. ~Early /\ paster' # "asking"
    BY <1>10 DEF Read, Early
  <2>3. QED
    BY <1>3, <2>1, <2>2
<1>11. CASE OtherTakes(TRUE) \/ OtherTakes(FALSE) \/ OtherClears \/ OtherAnswers \/ Killed
  BY <1>3, <1>11 DEF OtherTakes, OtherClears, OtherAnswers, Killed, pasting, wire, server
<1>12. QED
  BY <1>4, <1>5, <1>6, <1>7, <1>8, <1>9, <1>10, <1>11 DEF Next, Copier, Paster, Compositor

-----------------------------------------------------------------------------
(* The write end is in one place. *)
LEMMA RequestTail ==
  ASSUME NEW q \in Seq(FromPaste), q # << >>, NEW hs, NEW o, OneRequest(q, hs, o)
  PROVE  /\ OneRequest(Tail(q), hs, o)
         /\ Head(q).op = "receive" =>
              /\ Head(q).offer = o /\ "request" \in hs
              /\ \A i \in 1..Len(Tail(q)) : Tail(q)[i].op # "receive"
<1> DEFINE t == Tail(q)
<1>1. /\ Len(q) \in Nat \ {0} /\ Head(q) = q[1] /\ Len(t) = Len(q) - 1
      /\ \A i \in 1..(Len(q) - 1) : t[i] = q[i + 1]
  BY EmptySeq, HeadTailProperties
<1>2. \A i \in 1..Len(t) : i + 1 \in 1..Len(q) /\ t[i] = q[i + 1]
  BY <1>1
<1>3. 1 \in 1..Len(q) /\ \A i \in 1..Len(t) : i + 1 # 1
  BY <1>1
<1>4. \A i, j \in 1..Len(t) : i + 1 = j + 1 => i = j
  BY <1>1
<1>5. QED
  BY <1>1, <1>2, <1>3, <1>4 DEF OneRequest

(* The same of the events to the copier.                                   *)
LEMMA EventTail ==
  ASSUME NEW q \in Seq({"send", "cancelled"}), q # << >>, NEW hs, OneEvent(q, hs)
  PROVE  /\ OneEvent(Tail(q), hs)
         /\ Head(q) = "send" =>
              "event" \in hs /\ \A i \in 1..Len(Tail(q)) : Tail(q)[i] # "send"
<1> DEFINE t == Tail(q)
<1>1. /\ Len(q) \in Nat \ {0} /\ Head(q) = q[1] /\ Len(t) = Len(q) - 1
      /\ \A i \in 1..(Len(q) - 1) : t[i] = q[i + 1]
  BY EmptySeq, HeadTailProperties
<1>2. \A i \in 1..Len(t) : i + 1 \in 1..Len(q) /\ t[i] = q[i + 1]
  BY <1>1
<1>3. 1 \in 1..Len(q) /\ \A i \in 1..Len(t) : i + 1 # 1
  BY <1>1
<1>4. \A i, j \in 1..Len(t) : i + 1 = j + 1 => i = j
  BY <1>1
<1>5. QED
  BY <1>1, <1>2, <1>3, <1>4 DEF OneEvent

(* A request put last: a receive only where there is none.                 *)
LEMMA RequestAppend ==
  ASSUME NEW q \in Seq(FromPaste), NEW e \in FromPaste, NEW hs, NEW o, OneRequest(q, hs, o),
         e.op = "receive" => /\ e.offer = o /\ "request" \in hs
                             /\ \A i \in 1..Len(q) : q[i].op # "receive"
  PROVE  OneRequest(Append(q, e), hs, o)
<1> DEFINE t == Append(q, e)
<1>1. /\ Len(q) \in Nat /\ Len(t) = Len(q) + 1 /\ t[Len(q) + 1] = e
      /\ \A i \in 1..Len(q) : t[i] = q[i]
  BY AppendProperties
<1> HIDE DEF t
<1>2. \A i \in 1..Len(t) : \/ i \in 1..Len(q) /\ t[i] = q[i]
                           \/ i = Len(q) + 1 /\ t[i] = e
  <2>1. \A i \in 1..Len(t) : i \in 1..Len(q) \/ i = Len(q) + 1
    BY <1>1
  <2>2. QED
    BY <1>1, <2>1, Zenon
<1>3. QED
  BY <1>2 DEF OneRequest, t

(* An event put last: a send only where there is none.                     *)
LEMMA EventAppend ==
  ASSUME NEW q \in Seq({"send", "cancelled"}), NEW e \in {"send", "cancelled"}, NEW hs,
         OneEvent(q, hs),
         e = "send" => "event" \in hs /\ \A i \in 1..Len(q) : q[i] # "send"
  PROVE  OneEvent(Append(q, e), hs)
<1> DEFINE t == Append(q, e)
<1>1. /\ Len(q) \in Nat /\ Len(t) = Len(q) + 1 /\ t[Len(q) + 1] = e
      /\ \A i \in 1..Len(q) : t[i] = q[i]
  BY AppendProperties
<1> HIDE DEF t
<1>2. \A i \in 1..Len(t) : \/ i \in 1..Len(q) /\ t[i] = q[i]
                           \/ i = Len(q) + 1 /\ t[i] = e
  <2>1. \A i \in 1..Len(t) : i \in 1..Len(q) \/ i = Len(q) + 1
    BY <1>1
  <2>2. QED
    BY <1>1, <2>1, Zenon
<1>3. QED
  BY <1>2 DEF OneEvent, t

(* There is never a second request with a write end.                       *)
LEMMA RequestStep ==
  ASSUME ClipTyped, GivenOnce, Next
  PROVE  OneRequest(fromPaste, holders, asked)'
<1>1. /\ fromPaste \in Seq(FromPaste) /\ asked \in Nat /\ OneRequest(fromPaste, holders, asked)
      /\ \A x, y \in Given : x = y
      /\ Early => Given = {}
      /\ "buffer" \in holders <=> paster = "flushing"
  BY Zenon DEF ClipTyped, GivenOnce, OneHolder
<1>2. ASSUME "request" \notin holders
      PROVE  \A i \in 1..Len(fromPaste) : fromPaste[i].op # "receive"
  BY <1>1, <1>2 DEF OneRequest
<1>3. Early => "request" \notin holders
  BY <1>1 DEF Given
<1>4. CASE UNCHANGED <<fromPaste, asked>> /\ ("request" \in holders => "request" \in holders')
  BY <1>1, <1>4 DEF OneRequest
<1>5. CASE Look
  <2>1. [op |-> "sync"] \in FromPaste /\ [op |-> "sync"].op # "receive"
    BY DEF FromPaste
  <2>2. OneRequest(Append(fromPaste, [op |-> "sync"]), holders, asked)
    BY <1>1, <2>1, RequestAppend
  <2>3. UNCHANGED <<asked, holders>> /\ fromPaste' = Append(fromPaste, [op |-> "sync"])
    BY <1>5 DEF Look, pipe
  <2>4. QED
    BY <2>2, <2>3
<1>6. CASE Receive
  <2>1. \A i \in 1..Len(fromPaste) : fromPaste[i].op # "receive"
    BY <1>2, <1>3, <1>6 DEF Receive, Early
  <2>2. fromPaste' = fromPaste
    BY <1>6 DEF Receive, wire
  <2>3. QED
    BY <2>1, <2>2 DEF OneRequest
<1>7. CASE Flush
  <2> DEFINE e == [op |-> "receive", offer |-> asked]
  <2>1. e \in FromPaste /\ e.op = "receive" /\ e.offer = asked
    BY <1>1 DEF FromPaste
  <2>2. "request" \notin holders
    BY <1>1, <1>7 DEF Flush, Given
  <2>3. \A i \in 1..Len(fromPaste) : fromPaste[i].op # "receive"
    BY <1>2, <2>2
  <2>4. "request" \in holders' /\ asked' = asked /\ fromPaste' = Append(fromPaste, e)
    BY <1>7 DEF Flush
  <2> HIDE DEF e
  <2>5. OneRequest(fromPaste, holders', asked)
    BY <2>3 DEF OneRequest
  <2>6. OneRequest(Append(fromPaste, e), holders', asked)
    BY <1>1, <2>1, <2>3, <2>4, <2>5, RequestAppend
  <2>7. QED
    BY <2>4, <2>6
<1>8. CASE TakeSync
  <2>1. fromPaste # << >> /\ fromPaste' = Tail(fromPaste) /\ UNCHANGED <<asked, holders>>
    BY <1>8 DEF TakeSync, pasting, pipe
  <2>2. OneRequest(Tail(fromPaste), holders, asked)
    BY <1>1, <2>1, RequestTail
  <2>3. QED
    BY <2>1, <2>2
<1>9. CASE PassOn
  <2>1. fromPaste # << >> /\ fromPaste' = Tail(fromPaste) /\ Head(fromPaste).op = "receive"
    BY <1>9 DEF PassOn
  <2>2. \A i \in 1..Len(Tail(fromPaste)) : Tail(fromPaste)[i].op # "receive"
    BY <1>1, <2>1, RequestTail
  <2>3. QED
    BY <2>1, <2>2 DEF OneRequest
<1>10. CASE Check
  <2>1. "request" \notin holders /\ UNCHANGED <<fromPaste, asked>>
    BY <1>3, <1>10 DEF Check, Early, wire
  <2>2. QED
    BY <1>4, <2>1
<1>11. CASE SetSelection \/ Send \/ SendWrites \/ SendCloses \/ Cancelled \/ TakeFromCopier
  BY <1>4, <1>11 DEF SetSelection, Send, SendWrites, SendCloses, Cancelled, TakeFromCopier,
                     pasting, pipe, wire
<1>12. CASE Rest \/ CloseOwn \/ ReadEnd \/ Read
  BY <1>4, <1>12 DEF Rest, CloseOwn, ReadEnd, Read, pipe, wire
<1>13. CASE RoundtripDone \/ DataOffer \/ OfferMime \/ Selection
  BY <1>4, <1>13 DEF RoundtripDone, DataOffer, OfferMime, Selection, Event, pipe
<1>14. CASE TellSelection \/ OtherDrags(TRUE) \/ OtherDrags(FALSE) \/ OtherAnswers
  BY <1>4, <1>14 DEF TellSelection, OtherDrags, OtherAnswers, pasting, pipe, wire
<1>15. CASE OtherTakes(TRUE) \/ OtherTakes(FALSE) \/ OtherClears \/ Killed
  BY <1>4, <1>15 DEF OtherTakes, OtherClears, Killed, pasting, pipe
<1>16. QED
  BY <1>5, <1>6, <1>7, <1>8, <1>9, <1>10, <1>11, <1>12, <1>13, <1>14, <1>15
     DEF Next, Copier, Paster, Compositor

(* There is never a second event with a write end.                         *)
LEMMA EventStep ==
  ASSUME ClipTyped, GivenOnce, Next
  PROVE  OneEvent(toCopier, holders)'
<1>1. /\ toCopier \in Seq({"send", "cancelled"}) /\ OneEvent(toCopier, holders)
      /\ \A x, y \in Given : x = y
      /\ Early => Given = {}
      /\ fromPaste \in Seq(FromPaste) /\ OneRequest(fromPaste, holders, asked)
  BY Zenon DEF ClipTyped, GivenOnce, OneHolder
<1>2. CASE toCopier' = toCopier /\ ("event" \in holders => "event" \in holders')
  BY <1>1, <1>2 DEF OneEvent
<1>3. CASE Send
  <2>1. toCopier # << >> /\ toCopier' = Tail(toCopier) /\ Head(toCopier) = "send"
    BY <1>3 DEF Send
  <2>2. \A i \in 1..Len(Tail(toCopier)) : Tail(toCopier)[i] # "send"
    BY <1>1, <2>1, EventTail
  <2>3. QED
    BY <2>1, <2>2 DEF OneEvent
<1>4. CASE Cancelled
  <2>1. toCopier # << >> /\ toCopier' = Tail(toCopier) /\ holders' = holders
    BY <1>4 DEF Cancelled, pipe
  <2>2. QED
    BY <1>1, <2>1, EventTail
<1>5. CASE toCopier' = Append(toCopier, "cancelled") /\ holders' = holders
  <2>1. OneEvent(Append(toCopier, "cancelled"), holders)
    BY <1>1, EventAppend
  <2>2. QED
    BY <1>5, <2>1
<1>6. CASE PassOn
  <2>1. fromPaste # << >> /\ Head(fromPaste).op = "receive"
    BY <1>6 DEF PassOn
  <2>2. "request" \in holders
    BY <1>1, <2>1, RequestTail
  <2>3. "event" \notin holders
    BY <1>1, <2>2 DEF Given
  <2>4. \A i \in 1..Len(toCopier) : toCopier[i] # "send"
    BY <1>1, <2>3 DEF OneEvent
  <2>5. \/ toCopier' = Append(toCopier, "send") /\ "event" \in holders'
        \/ toCopier' = toCopier
    BY <1>6 DEF PassOn
  <2>6. ASSUME toCopier' = Append(toCopier, "send"), "event" \in holders'
        PROVE  OneEvent(toCopier', holders')
    <3>1. OneEvent(toCopier, holders')
      BY <2>4 DEF OneEvent
    <3>2. OneEvent(Append(toCopier, "send"), holders')
      BY <1>1, <2>4, <2>6, <3>1, EventAppend
    <3>3. QED
      BY <2>6, <3>2
  <2>7. QED
    BY <2>3, <2>5, <2>6, <1>2
<1>7. CASE Killed
  <2>1. toCopier' = << >>
    BY <1>7 DEF Killed
  <2>2. Len(toCopier') = 0
    BY <2>1
  <2>3. QED
    BY <2>2 DEF OneEvent
<1>8. CASE OtherTakes(TRUE) \/ OtherTakes(FALSE) \/ OtherClears
  BY <1>2, <1>5, <1>8 DEF OtherTakes, OtherClears, Loses, pipe
<1>9. CASE Check
  <2>0. paster = "looking" /\ toCopier' = toCopier
    BY <1>9 DEF Check, wire
  <2>1. "event" \notin holders
    BY <1>1, <2>0 DEF Early, Given
  <2>2. QED
    BY <1>2, <2>0, <2>1
<1>10. CASE SetSelection \/ SendWrites \/ SendCloses \/ TakeFromCopier
  BY <1>2, <1>10 DEF SetSelection, SendWrites, SendCloses, TakeFromCopier, pipe, wire
<1>11. CASE Look \/ Receive \/ Flush \/ Rest \/ CloseOwn \/ ReadEnd \/ Read
  BY <1>2, <1>11 DEF Look, Receive, Flush, Rest, CloseOwn, ReadEnd, Read, pipe, wire
<1>12. CASE RoundtripDone \/ DataOffer \/ OfferMime \/ Selection \/ TakeSync
  BY <1>2, <1>12 DEF RoundtripDone, DataOffer, OfferMime, Selection, Event, TakeSync, pipe
<1>13. CASE TellSelection \/ OtherDrags(TRUE) \/ OtherDrags(FALSE) \/ OtherAnswers
  BY <1>2, <1>13 DEF TellSelection, OtherDrags, OtherAnswers, pasting, pipe, wire
<1>14. QED
  BY <1>3, <1>4, <1>6, <1>7, <1>8, <1>9, <1>10, <1>11, <1>12, <1>13
     DEF Next, Copier, Paster, Compositor

(* What is behind the offer that was asked is not changed by later ones.   *)
LEMMA AskedStays ==
  ASSUME ClipTyped, OfferNamed, ~Early, Next
  PROVE  asked' = asked /\ offers'[asked] = offers[asked]
<1>1. asked \in 1..Len(offers)
  <2>1. asked \in Nat /\ offers \in Seq({"copier", "other"})
    BY Zenon DEF ClipTyped
  <2>2. asked > 0 /\ asked <= Len(offers)
    BY DEF OfferNamed
  <2>3. QED
    BY <2>1, <2>2, LenProperties
<1>2. CASE TellSelection \/ OtherDrags(TRUE) \/ OtherDrags(FALSE)
  <2>1. asked' = asked
    BY <1>2 DEF TellSelection, OtherDrags, pasting
  <2>2. QED
    BY <1>1, <1>2, <2>1, Told
<1>3. CASE UNCHANGED <<asked, offers>>
  BY <1>3
<1>4. paster \notin {"looking", "roundtrip", "resting", "asking"}
  BY DEF Early
<1>5. CASE Look \/ Rest \/ Check \/ Receive \/ Flush \/ CloseOwn \/ ReadEnd \/ Read
  BY <1>3, <1>4, <1>5 DEF Look, Rest, Check, Receive, Flush, CloseOwn, ReadEnd, Read, server
<1>6. CASE RoundtripDone \/ DataOffer \/ OfferMime \/ Selection
  BY <1>4, <1>6 DEF RoundtripDone, DataOffer, OfferMime, Selection, Event
<1>7. CASE SetSelection \/ Send \/ SendWrites \/ SendCloses \/ Cancelled \/ TakeFromCopier
  BY <1>3, <1>7 DEF SetSelection, Send, SendWrites, SendCloses, Cancelled, TakeFromCopier,
                    pasting, server
<1>8. CASE TakeSync \/ PassOn \/ OtherAnswers
  BY <1>3, <1>8 DEF TakeSync, PassOn, OtherAnswers, pasting, server
<1>9. CASE OtherTakes(TRUE) \/ OtherTakes(FALSE) \/ OtherClears \/ Killed
  BY <1>3, <1>9 DEF OtherTakes, OtherClears, Killed, pasting
<1>10. QED
  BY <1>2, <1>5, <1>6, <1>7, <1>8, <1>9 DEF Next, Copier, Paster, Compositor

(* The write end goes from one holder to the next.                         *)
LEMMA HolderStep ==
  ASSUME ClipTyped, OfferNamed, GivenOnce, Next
  PROVE  OneHolder'
<1>1. /\ OneHolder /\ OneRequest(fromPaste, holders, asked) /\ OneEvent(toCopier, holders)
      /\ fromPaste \in Seq(FromPaste) /\ toCopier \in Seq({"send", "cancelled"})
  BY Zenon DEF ClipTyped, GivenOnce
<1>2. CASE UNCHANGED <<paster, holders, copier, offers, asked>>
  BY <1>1, <1>2 DEF OneHolder, Given, Early
<1>3. CASE Early /\ Early' /\ UNCHANGED <<holders, copier>>
  <2>1. paster # "flushing" /\ paster' # "flushing"
    BY <1>3 DEF Early
  <2>2. Given = {} /\ Given' = {}
    BY <1>1, <1>3 DEF OneHolder, Given
  <2>3. QED
    BY <1>1, <1>3, <2>1, <2>2 DEF OneHolder, Given
<1>4. CASE ~Early /\ ~Early' /\ UNCHANGED <<holders, copier>>
           /\ paster # "flushing" /\ paster' # "flushing"
  BY <1>1, <1>4, AskedStays DEF OneHolder, Given
<1>5. CASE SetSelection
  <2>1. /\ copier = "setting" /\ copier' = "serving"
        /\ UNCHANGED <<paster, holders, offers, asked>>
    BY <1>5 DEF SetSelection, pasting, pipe, server
  <2>2. QED
    BY <1>1, <2>1 DEF OneHolder, Given, Early
<1>6. CASE Send
  <2>1. /\ copier = "serving" /\ copier' = "writing" /\ toCopier # << >>
        /\ Head(toCopier) = "send" /\ holders' = (holders \ {"event"}) \cup {"copier"}
        /\ UNCHANGED <<paster, offers, asked>>
    BY <1>6 DEF Send, pasting, server
  <2>2. "event" \in holders
    BY <1>1, <2>1, EventTail
  <2>3. \A x \in Given : x = "event"
    BY <1>1, <2>2 DEF OneHolder, Given
  <2>4. /\ ~Early /\ offers[asked] = "copier" /\ "buffer" \notin holders
        /\ "other" \notin holders /\ paster # "flushing"
    BY <1>1, <2>2, <2>3 DEF OneHolder, Given
  <2>5. \A x \in Given' : x = "copier"
    BY <2>1, <2>3 DEF Given
  <2>6. QED
    BY <2>1, <2>4, <2>5 DEF OneHolder, Given, Early
<1>7. CASE SendWrites
  <2>1. /\ copier = "writing" /\ copier' = "closing"
        /\ UNCHANGED <<paster, holders, offers, asked>>
    BY <1>7 DEF SendWrites, pasting, server
  <2>2. QED
    BY <1>1, <2>1 DEF OneHolder, Given, Early
<1>8. CASE SendCloses
  <2>1. /\ copier = "closing" /\ copier' = "serving" /\ holders' = holders \ {"copier"}
        /\ UNCHANGED <<paster, offers, asked>>
    BY <1>8 DEF SendCloses, pasting, server
  <2>2. QED
    BY <1>1, <2>1 DEF OneHolder, Given, Early
<1>9. CASE Check
  <2>1. /\ paster = "looking" /\ paster' \in {"asking", "gave up"} /\ asked' = asked
        /\ holders' \in {holders, {"paster"}} /\ copier' = copier
    BY <1>9 DEF Check, copying
  <2>2. Early /\ Early' /\ paster' # "flushing" /\ paster # "flushing"
    BY <2>1 DEF Early
  <2>3. Given = {} /\ Given' = {}
    BY <1>1, <2>1, <2>2 DEF OneHolder, Given
  <2>4. QED
    BY <1>1, <2>1, <2>2, <2>3 DEF OneHolder, Given
<1>10. CASE Receive
  <2>1. /\ paster = "asking" /\ paster' = "flushing" /\ holders' = holders \cup {"buffer"}
        /\ copier' = copier
    BY <1>10 DEF Receive, copying
  <2>2. Given = {} /\ Early /\ ~Early'
    BY <1>1, <2>1 DEF OneHolder, Early
  <2>3. \A x \in Given' : x = "buffer"
    BY <2>1, <2>2 DEF Given
  <2>4. QED
    BY <1>1, <2>1, <2>2, <2>3 DEF OneHolder, Given
<1>11. CASE Flush
  <2>1. /\ paster = "flushing" /\ paster' = "closing" /\ copier' = copier
        /\ holders' = (holders \ {"buffer"}) \cup {"request"}
    BY <1>11 DEF Flush, copying
  <2>2. "buffer" \in holders /\ \A x \in Given : x = "buffer"
    BY <1>1, <2>1 DEF OneHolder, Given
  <2>3. ~Early' /\ \A x \in Given' : x = "request"
    BY <2>1, <2>2 DEF Given, Early
  <2>4. QED
    BY <1>1, <2>1, <2>2, <2>3 DEF OneHolder, Given
<1>12. CASE CloseOwn
  <2>1. /\ paster = "closing" /\ paster' = "reading" /\ copier' = copier
        /\ holders' = holders \ {"paster"}
    BY <1>12 DEF CloseOwn, copying
  <2>2. ~Early /\ ~Early' /\ Given' = Given
    BY <2>1 DEF Given, Early
  <2>3. QED
    BY <1>1, <2>1, <2>2, AskedStays DEF OneHolder, Given
<1>13. CASE PassOn
  <2>1. /\ fromPaste # << >> /\ Head(fromPaste).op = "receive"
        /\ UNCHANGED <<paster, copier, offers, asked>>
    BY <1>13 DEF PassOn, copying, pasting, server
  <2>2. "request" \in holders /\ Head(fromPaste).offer = asked
    BY <1>1, <2>1, RequestTail
  <2>3. \/ offers[asked] = "copier" /\ holders' = (holders \ {"request"}) \cup {"event"}
        \/ offers[asked] = "other" /\ holders' = (holders \ {"request"}) \cup {"other"}
        \/ holders' = holders \ {"request"}
    BY <1>13, <2>2 DEF PassOn
  <2>4. /\ \A x \in Given : x = "request"
        /\ ~Early /\ paster # "flushing" /\ copier \notin {"writing", "closing"}
        /\ holders \cap {"buffer", "copier", "event", "other"} = {}
    BY <1>1, <2>2 DEF OneHolder, Given
  <2>5. \A x, y \in Given' : x = y
    BY <2>3, <2>4 DEF Given
  <2>6. "buffer" \notin holders' /\ "copier" \notin holders'
    BY <2>3, <2>4
  <2>7. ~Early' /\ paster' # "flushing" /\ copier' \notin {"writing", "closing"}
    BY <2>1, <2>4 DEF Early
  <2>8. /\ "event" \in holders' => offers[asked] = "copier"
        /\ "other" \in holders' => offers[asked] = "other"
    BY <2>3, <2>4
  <2>9. QED
    BY <2>1, <2>5, <2>6, <2>7, <2>8 DEF OneHolder
<1>14. CASE OtherAnswers
  <2>1. holders' = holders \ {"other"} /\ UNCHANGED <<paster, copier, offers, asked>>
    BY <1>14 DEF OtherAnswers, copying, pasting, server
  <2>2. QED
    BY <1>1, <2>1 DEF OneHolder, Given, Early
<1>15. CASE Killed
  <2>1. /\ copier' = "gone" /\ holders' = holders \ {"copier", "event"}
        /\ UNCHANGED <<paster, offers, asked>>
    BY <1>15 DEF Killed, pasting
  <2>2. QED
    BY <1>1, <2>1 DEF OneHolder, Given, Early
<1>16. CASE TellSelection \/ OtherDrags(TRUE) \/ OtherDrags(FALSE)
  <2>1. UNCHANGED <<paster, holders, copier, asked>>
    BY <1>16 DEF TellSelection, OtherDrags, copying, pasting, pipe
  <2>2. CASE Early
    BY <1>3, <2>1, <2>2 DEF Early
  <2>3. CASE ~Early
    BY <1>1, <2>1, <2>3, AskedStays DEF OneHolder, Given, Early
  <2>4. QED
    BY <2>2, <2>3
<1>17. CASE Cancelled \/ TakeFromCopier \/ TakeSync
  BY <1>2, <1>17 DEF Cancelled, TakeFromCopier, TakeSync, copying, pasting, pipe, server
<1>18. CASE OtherTakes(TRUE) \/ OtherTakes(FALSE) \/ OtherClears
  BY <1>2, <1>18 DEF OtherTakes, OtherClears, copying, pasting, pipe
<1>19. CASE Look \/ Rest
  BY <1>3, <1>19 DEF Look, Rest, copying, pipe, Early
<1>20. CASE RoundtripDone \/ DataOffer \/ OfferMime \/ Selection
  BY <1>3, <1>20 DEF RoundtripDone, DataOffer, OfferMime, Selection, Event, copying, pipe, Early
<1>21. CASE Read \/ ReadEnd
  <2>1. /\ paster = "reading" /\ paster' \in {"reading", "pasted"} /\ UNCHANGED <<holders, copier>>
    BY <1>21 DEF Read, ReadEnd, copying, pipe
  <2>2. QED
    BY <1>4, <2>1 DEF Early
<1>22. QED
  BY <1>5, <1>6, <1>7, <1>8, <1>9, <1>10, <1>11, <1>12, <1>13, <1>14, <1>15, <1>16, <1>17, <1>18,
     <1>19, <1>20, <1>21 DEF Next, Copier, Paster, Compositor

-----------------------------------------------------------------------------
(* How much has been written. *)
LEMMA AmountStep ==
  ASSUME ClipTyped, OfferNamed, GivenOnce, Amount, Next
  PROVE  Amount'
<1>1. /\ OneHolder /\ fromPaste \in Seq(FromPaste) /\ OneRequest(fromPaste, holders, asked)
      /\ toCopier \in Seq({"send", "cancelled"}) /\ OneEvent(toCopier, holders)
      /\ got \in Nat /\ content \in Nat
  <2>1. /\ OneHolder /\ fromPaste \in Seq(FromPaste) /\ OneRequest(fromPaste, holders, asked)
        /\ toCopier \in Seq({"send", "cancelled"}) /\ OneEvent(toCopier, holders)
        /\ got \in 0..ROOM /\ content \in Nat
    BY Zenon DEF ClipTyped, GivenOnce
  <2>2. QED
    BY <2>1, ClipAssumption
<1>2. ~Early => Behind' = Behind
  BY AskedStays DEF Behind
<1>3. CASE /\ InPipe' = InPipe /\ (Given' = {} <=> Given = {})
           /\ copier' = "closing" <=> copier = "closing"
           /\ Early' => Early
  BY <1>2, <1>3 DEF Amount
<1>4. ASSUME NEW x \in Given
      PROVE  ~Early /\ \A y \in Given : y = x
  BY <1>1 DEF OneHolder
<1>6. CASE SetSelection \/ Cancelled \/ TakeFromCopier \/ TakeSync
  <2>1. UNCHANGED <<paster, got, content, holders>> /\ (copier' = "closing" <=> copier = "closing")
    BY <1>6 DEF SetSelection, Cancelled, TakeFromCopier, TakeSync, copying, pasting, pipe
  <2>2. QED
    BY <1>3, <2>1 DEF InPipe, Given, Early
<1>7. CASE Send
  <2>1. /\ copier = "serving" /\ copier' = "writing" /\ toCopier # << >>
        /\ Head(toCopier) = "send" /\ holders' = (holders \ {"event"}) \cup {"copier"}
        /\ UNCHANGED <<paster, got, content>>
    BY <1>7 DEF Send, pasting
  <2>2. "event" \in Given /\ "copier" \in Given'
    BY <1>1, <2>1, EventTail DEF Given
  <2>3. InPipe' = InPipe /\ (Early' => Early)
    BY <2>1 DEF InPipe, Early
  <2>4. QED
    BY <1>3, <2>1, <2>2, <2>3
<1>8. CASE SendWrites
  <2>1. /\ copier = "writing" /\ copier' = "closing" /\ content' = content + PAYLOAD
        /\ UNCHANGED <<paster, got, holders>>
    BY <1>8 DEF SendWrites, pasting
  <2>2. "copier" \in Given /\ Given' = Given
    BY <1>1, <2>1 DEF OneHolder, Given
  <2>3. InPipe = 0 /\ ~Early /\ ~Early'
    BY <1>4, <2>1, <2>2 DEF Amount, Early
  <2>4. InPipe' = PAYLOAD
    BY <1>1, <2>1, <2>3, ClipAssumption DEF InPipe
  <2>5. QED
    BY <2>1, <2>2, <2>3, <2>4 DEF Amount
<1>9. CASE SendCloses
  <2>1. /\ copier = "closing" /\ copier' = "serving" /\ holders' = holders \ {"copier"}
        /\ UNCHANGED <<paster, got, content>>
    BY <1>9 DEF SendCloses, pasting
  <2>2. "copier" \in Given /\ offers[asked] = "copier"
    BY <1>1, <2>1 DEF OneHolder, Given
  <2>3. Given' = {} /\ ~Early /\ ~Early'
    BY <1>4, <2>1, <2>2 DEF Given, Early
  <2>4. InPipe' = PAYLOAD /\ Behind' = PAYLOAD
    BY <1>2, <2>1, <2>2, <2>3 DEF Amount, InPipe, Behind
  <2>5. QED
    BY <2>1, <2>3, <2>4 DEF Amount
<1>10. CASE Look \/ Rest \/ CloseOwn
  <2>1. UNCHANGED <<copier, got, content>> /\ Given' = Given /\ (Early' => Early)
    BY <1>10 DEF Look, Rest, CloseOwn, copying, pipe, Given, Early
  <2>2. QED
    BY <1>3, <2>1 DEF InPipe
<1>11. CASE RoundtripDone \/ DataOffer \/ OfferMime \/ Selection
  <2>1. UNCHANGED <<copier, got, content>> /\ Given' = Given /\ (Early' => Early)
    BY <1>11 DEF RoundtripDone, DataOffer, OfferMime, Selection, Event, copying, pipe, Given, Early
  <2>2. QED
    BY <1>3, <2>1 DEF InPipe
<1>12. CASE Check
  <2>1. /\ paster = "looking" /\ UNCHANGED <<copier, got, content>>
        /\ holders' \in {holders, {"paster"}}
    BY <1>12 DEF Check, copying
  <2>2. Early /\ Given = {}
    BY <1>1, <2>1 DEF OneHolder, Early
  <2>3. Given' = {} /\ InPipe' = InPipe
    BY <2>1, <2>2 DEF Given, InPipe
  <2>4. QED
    BY <1>3, <2>1, <2>2, <2>3
<1>13. CASE Receive
  <2>1. /\ paster = "asking" /\ paster' = "flushing" /\ holders' = holders \cup {"buffer"}
        /\ UNCHANGED <<copier, got, content>>
    BY <1>13 DEF Receive, copying
  <2>2. InPipe' = InPipe /\ InPipe = 0 /\ ~Early' /\ "buffer" \in Given'
    BY <2>1 DEF InPipe, Amount, Early, Given
  <2>3. "copier" \notin holders
    BY <1>1, <2>1 DEF OneHolder, Early, Given
  <2>4. copier # "closing"
    BY <1>1, <2>3 DEF OneHolder
  <2>5. QED
    BY <2>1, <2>2, <2>4 DEF Amount
<1>14. CASE Flush
  <2>1. /\ paster = "flushing" /\ paster' = "closing" /\ UNCHANGED <<copier, got, content>>
        /\ holders' = (holders \ {"buffer"}) \cup {"request"}
    BY <1>14 DEF Flush, copying
  <2>2. "buffer" \in Given /\ "request" \in Given' /\ ~Early'
    BY <1>1, <2>1 DEF OneHolder, Given, Early
  <2>3. QED
    BY <1>3, <2>1, <2>2 DEF InPipe
<1>15. CASE Read
  <2>1. PICK n \in 1..(ROOM - got) :
               n <= content /\ got' = got + n /\ content' = content - n
    BY <1>15 DEF Read
  <2>2. InPipe' = InPipe
    BY <1>1, <2>1, ClipAssumption DEF InPipe
  <2>3. UNCHANGED <<copier, holders>> /\ paster' \in {"reading", "pasted"}
    BY <1>15 DEF Read, copying
  <2>4. QED
    BY <1>3, <2>2, <2>3 DEF Given, Early
<1>16. CASE ReadEnd
  <2>1. UNCHANGED <<copier, holders, got, content>> /\ paster' = "pasted"
    BY <1>16 DEF ReadEnd, copying, pipe
  <2>2. QED
    BY <1>3, <2>1 DEF Given, Early, InPipe
<1>17. CASE PassOn
  <2>1. /\ fromPaste # << >> /\ Head(fromPaste).op = "receive"
        /\ UNCHANGED <<paster, copier, got, content>>
    BY <1>17 DEF PassOn, copying, pasting
  <2>2. "request" \in Given
    BY <1>1, <2>1, RequestTail DEF Given
  <2>3. ~Early /\ "copier" \notin holders
    BY <1>4, <2>2 DEF Given
  <2>4. copier # "closing"
    BY <1>1, <2>3 DEF OneHolder
  <2>5. InPipe = 0 /\ InPipe' = 0
    BY <2>1, <2>2, <2>4 DEF Amount, InPipe
  <2>6. QED
    BY <2>1, <2>4, <2>5 DEF Amount
<1>18. CASE TellSelection \/ OtherDrags(TRUE) \/ OtherDrags(FALSE)
  <2>1. UNCHANGED <<paster, copier, holders, got, content>>
    BY <1>18 DEF TellSelection, OtherDrags, copying, pasting, pipe
  <2>2. QED
    BY <1>3, <2>1 DEF Given, Early, InPipe
<1>19. CASE OtherTakes(TRUE) \/ OtherTakes(FALSE) \/ OtherClears
  <2>1. UNCHANGED <<paster, copier, holders, got, content>>
    BY <1>19 DEF OtherTakes, OtherClears, copying, pasting, pipe
  <2>2. QED
    BY <1>3, <2>1 DEF Given, Early, InPipe
<1>20. CASE OtherAnswers
  <2>1. /\ "other" \in holders /\ holders' = holders \ {"other"}
        /\ content' \in {content, content + OtherLen} /\ UNCHANGED <<paster, copier, got>>
    BY <1>20 DEF OtherAnswers, copying, pasting
  <2>2. "other" \in Given
    BY <2>1 DEF Given
  <2>3. ~Early /\ ~Early' /\ Given' = {} /\ "copier" \notin holders
    BY <1>4, <2>1, <2>2 DEF Given, Early
  <2>4. copier # "closing" /\ offers[asked] = "other"
    BY <1>1, <2>1, <2>3 DEF OneHolder
  <2>5. InPipe = 0 /\ Behind' = OtherLen
    BY <1>2, <2>2, <2>3, <2>4 DEF Amount, Behind
  <2>6. InPipe' \in {0, OtherLen}
    <3>1. content = 0 /\ got = 0 /\ got' = 0
      BY <1>1, <2>1, <2>5 DEF InPipe
    <3>2. content' = 0 \/ content' = OtherLen
      BY <2>1, <3>1, ClipAssumption
    <3>3. CASE content' = 0
      BY <3>1, <3>3 DEF InPipe
    <3>4. CASE content' = OtherLen
      BY <3>1, <3>4, ClipAssumption DEF InPipe
    <3>5. QED
      BY <3>2, <3>3, <3>4
  <2>7. QED
    BY <2>1, <2>3, <2>4, <2>5, <2>6 DEF Amount
<1>21. CASE Killed
  <2>1. /\ copier' = "gone" /\ holders' = holders \ {"copier", "event"}
        /\ UNCHANGED <<paster, got, content>>
    BY <1>21 DEF Killed, pasting
  <2>2. InPipe' = InPipe /\ (Early' <=> Early)
    BY <2>1 DEF InPipe, Early
  <2>3. CASE copier = "closing"
    <3>1. "copier" \in Given /\ offers[asked] = "copier"
      BY <1>1, <2>3 DEF OneHolder, Given
    <3>2. ~Early /\ Given' = {}
      BY <1>4, <2>1, <3>1 DEF Given
    <3>3. InPipe' = PAYLOAD /\ Behind' = PAYLOAD
      BY <1>2, <2>2, <2>3, <3>1, <3>2 DEF Amount, Behind
    <3>4. QED
      BY <2>1, <2>2, <3>2, <3>3 DEF Amount
  <2>4. CASE copier # "closing" /\ Given # {}
    BY <2>1, <2>2, <2>4 DEF Amount
  <2>5. CASE copier # "closing" /\ Given = {}
    <3>1. Given' = {}
      BY <2>1, <2>5 DEF Given
    <3>2. QED
      BY <1>2, <2>1, <2>2, <2>5, <3>1 DEF Amount
  <2>6. QED
    BY <2>3, <2>4, <2>5
<1>22. QED
  BY <1>6, <1>7, <1>8, <1>9, <1>10, <1>11, <1>12, <1>13, <1>14, <1>15, <1>16, <1>17, <1>18,
     <1>19, <1>20, <1>21 DEF Next, Copier, Paster, Compositor

(* What has been read when the reading ends is all of it or nothing.       *)
LEMMA PastedStep ==
  ASSUME ClipTyped, OfferNamed, GivenOnce, Amount, AllOrNothing, Next
  PROVE  AllOrNothing'
<1>1. OneHolder /\ got \in 0..ROOM /\ content \in Nat
  BY Zenon DEF ClipTyped, GivenOnce
<1>2. SUFFICES ASSUME paster' = "pasted"
               PROVE  got' \in {0, LengthOf(offers'[asked'])}
  BY DEF AllOrNothing
<1>3. ~Early => asked' = asked /\ offers'[asked] = offers[asked]
  BY AskedStays
<1>4. CASE UNCHANGED <<paster, got>>
  <2>1. ~Early
    BY <1>2, <1>4 DEF Early
  <2>2. QED
    BY <1>2, <1>3, <1>4, <2>1 DEF AllOrNothing
<1>5. CASE Read
  <2>1. paster = "reading" /\ UNCHANGED <<offers, asked>>
    BY <1>5 DEF Read, server
  <2>2. PICK n \in 1..(ROOM - got) :
               /\ n <= content /\ got' = got + n
               /\ paster' = IF got' >= ROOM THEN "pasted" ELSE paster
    BY <1>5 DEF Read
  <2>3. got' >= ROOM
    BY <1>2, <2>1, <2>2
  <2>4. got' = ROOM /\ InPipe >= ROOM /\ InPipe > 0
    BY <1>1, <2>2, <2>3, ClipAssumption DEF InPipe
  <2>5. InPipe \in {PAYLOAD, Behind} /\ (InPipe = PAYLOAD \/ Given = {})
    BY <2>4 DEF Amount
  <2>6. CASE offers[asked] = "copier"
    <3>1. InPipe = PAYLOAD /\ LengthOf(offers[asked]) = PAYLOAD
      BY <2>5, <2>6 DEF Behind, LengthOf
    <3>2. got' = PAYLOAD
      BY <2>4, <3>1, ClipAssumption
    <3>3. QED
      BY <2>1, <3>1, <3>2
  <2>7. CASE offers[asked] # "copier"
    <3>1. copier # "closing"
      BY <1>1, <2>7 DEF OneHolder
    <3>2. InPipe = OtherLen
      BY <2>4, <2>7, <3>1 DEF Amount, Behind
    <3>3. LengthOf(offers[asked]) = ROOM
      BY <2>4, <2>7, <3>2, ClipAssumption DEF LengthOf
    <3>4. QED
      BY <2>1, <2>4, <3>3
  <2>8. QED
    BY <2>6, <2>7
<1>6. CASE ReadEnd
  <2>1. content = 0 /\ holders = {} /\ UNCHANGED <<got, offers, asked>>
    BY <1>6 DEF ReadEnd, pipe, server
  <2>2. got = 0 \/ got = Behind
    BY <1>1, <2>1 DEF Amount, InPipe, Given
  <2>3. CASE got = Behind
    BY <1>1, <2>1, <2>3, ClipAssumption DEF Behind, LengthOf
  <2>4. QED
    BY <2>1, <2>2, <2>3
<1>7. CASE SetSelection \/ Send \/ SendWrites \/ SendCloses \/ Cancelled \/ TakeFromCopier
  BY <1>4, <1>7 DEF SetSelection, Send, SendWrites, SendCloses, Cancelled, TakeFromCopier, pasting
<1>8. CASE Look \/ Rest \/ Check \/ Receive \/ Flush \/ CloseOwn
  BY <1>2, <1>8 DEF Look, Rest, Check, Receive, Flush, CloseOwn
<1>9. CASE RoundtripDone \/ DataOffer \/ OfferMime \/ Selection
  BY <1>2, <1>9 DEF RoundtripDone, DataOffer, OfferMime, Selection, Event
<1>10. CASE TakeSync \/ PassOn \/ OtherAnswers
  BY <1>4, <1>10 DEF TakeSync, PassOn, OtherAnswers, pasting
<1>11. CASE TellSelection \/ OtherDrags(TRUE) \/ OtherDrags(FALSE)
  BY <1>4, <1>11 DEF TellSelection, OtherDrags, pasting
<1>12. CASE OtherTakes(TRUE) \/ OtherTakes(FALSE) \/ OtherClears \/ Killed
  BY <1>4, <1>12 DEF OtherTakes, OtherClears, Killed, pasting
<1>13. QED
  BY <1>5, <1>6, <1>7, <1>8, <1>9, <1>10, <1>11, <1>12 DEF Next, Copier, Paster, Compositor

-----------------------------------------------------------------------------
(* The invariant from the start, and through every step and stutter.       *)
LEMMA ClipInvInit ==
  ASSUME Init
  PROVE  ClipInv
<1>1. ClipTyped
  <2>1. << >> \in Seq({"create", "offer", "set"}) /\ << >> \in Seq({"send", "cancelled"})
    OBVIOUS
  <2>2. << >> \in Seq(FromPaste) /\ << >> \in Seq(ToPaste) /\ << >> \in Seq({"copier", "other"})
    OBVIOUS
  <2>3. 0 \in 0..ROOM
    BY ClipAssumption
  <2>4. QED
    BY <2>1, <2>2, <2>3 DEF Init, ClipTyped
<1>2. Early /\ holders = {} /\ Given = {}
  BY DEF Init, Early, Given
<1>3. Len(toPaste) = 0 /\ Len(fromPaste) = 0 /\ Len(toCopier) = 0 /\ Len(offers) = 0
  BY DEF Init
<1>4. OfferNamed
  BY <1>2, <1>3 DEF Init, OfferNamed, Names
<1>5. OneRequest(fromPaste, holders, asked) /\ OneEvent(toCopier, holders)
  BY <1>3 DEF OneRequest, OneEvent
<1>6. OneHolder
  BY <1>2 DEF Init, OneHolder
<1>7. Amount /\ AllOrNothing
  BY <1>2 DEF Init, Amount, InPipe, AllOrNothing
<1>8. QED
  BY <1>1, <1>4, <1>5, <1>6, <1>7 DEF ClipInv, GivenOnce

(* Every step keeps all of it.                                             *)
LEMMA ClipInvNext ==
  ASSUME ClipInv, [Next]_vars
  PROVE  ClipInv'
<1>1. CASE Next
  <2>1. ClipTyped /\ OfferNamed /\ GivenOnce /\ Amount /\ AllOrNothing
    BY DEF ClipInv
  <2>2. ClipTyped'
    BY <1>1, <2>1, TypedStep
  <2>3. OfferNamed'
    BY <1>1, <2>1, NamedStep
  <2>4. GivenOnce'
    <3>1. OneHolder'
      BY <1>1, <2>1, HolderStep
    <3>2. OneRequest(fromPaste, holders, asked)'
      BY <1>1, <2>1, RequestStep
    <3>3. OneEvent(toCopier, holders)'
      BY <1>1, <2>1, EventStep
    <3>4. QED
      BY <3>1, <3>2, <3>3 DEF GivenOnce
  <2>5. Amount'
    BY <1>1, <2>1, AmountStep
  <2>6. AllOrNothing'
    BY <1>1, <2>1, PastedStep
  <2>7. QED
    BY <2>2, <2>3, <2>4, <2>5, <2>6 DEF ClipInv
<1>2. CASE UNCHANGED vars
  <2>1. UNCHANGED <<copier, paster, have_selection, offer, asked, got, holders, content, toServer>>
    BY <1>2 DEF vars, copying, pasting, pipe, wire
  <2>2. UNCHANGED <<fromPaste, toCopier, toPaste, owner, offers>>
    BY <1>2 DEF vars, wire, server
  <2>3. ClipTyped' /\ OfferNamed'
    BY <2>1, <2>2 DEF ClipInv, ClipTyped, OfferNamed, Early
  <2>4. GivenOnce'
    BY <2>1, <2>2 DEF ClipInv, GivenOnce, OneHolder, Given, Early
  <2>5. Amount' /\ AllOrNothing'
    BY <2>1, <2>2 DEF ClipInv, Amount, Given, Early, InPipe, Behind, AllOrNothing
  <2>6. QED
    BY <2>3, <2>4, <2>5 DEF ClipInv
<1>3. QED
  BY <1>1, <1>2

(* Whatever the lengths and however often the selection changes hands, the *)
(* copier killed at any point: a paste in toolchain/wlclip.c:330-358 is    *)
(* all that was behind the offer it asked for, or as much as it has room   *)
(* for, or nothing.                                                        *)
THEOREM AllOrNothingHolds == Spec => []AllOrNothing
<1>1. Init => ClipInv
  BY ClipInvInit
<1>2. ClipInv /\ [Next]_vars => ClipInv'
  BY ClipInvNext
<1>3. ClipInv => AllOrNothing
  BY DEF ClipInv
<1>4. QED
  BY <1>1, <1>2, <1>3, PTL DEF Spec

-----------------------------------------------------------------------------
(* A paste with nobody else about.  The selection is set once, after its   *)
(* kind is said, and told of once, its kind before it; so the one offer    *)
(* there is is still it when it is asked.                                  *)
Once ==
  /\ mime \in [{"copier", "other"} -> BOOLEAN]
  /\ toServer \in {<< >>, <<"set">>, <<"offer", "set">>, SetRequests}
  /\ copier = "setting" => toServer = << >> /\ owner = "nobody"
  /\ toServer # << >> => owner = "nobody"
  /\ toServer # << >> /\ Head(toServer) = "set" => mime["copier"]
  /\ owner = "copier" => mime["copier"]
  /\ owner = "copier" \/ (owner = "nobody" /\ ~news /\ offers = << >>)
  /\ offers = << >> \/ (offers = <<"copier">> /\ ~news)
MimeFirst(q, m) ==
  \A i \in 1..Len(q) : q[i].op = "selection" /\ q[i].offer # 0 =>
    m \/ \E j \in 1..(i - 1) : q[j].op = "mime"
KindKnown == (have_selection => offered_mime) /\ MimeFirst(toPaste, offered_mime)
Answered ==
  /\ ~Early /\ Given = {} => InPipe = PAYLOAD
  /\ paster = "pasted" => got # 0
  /\ paster = "gave up" => ~have_selection /\ tries = TRIES
AloneInv == taken \in Nat /\ (Undisturbed => Once /\ KindKnown /\ Answered)

(* Who is alone has been.                                                  *)
LEMMA StillAlone ==
  ASSUME AloneInv, Next
  PROVE  /\ taken' \in Nat
         /\ Undisturbed' => /\ Undisturbed /\ Once /\ KindKnown /\ Answered
                            /\ ~OtherTakes(TRUE) /\ ~OtherTakes(FALSE) /\ ~OtherClears
                            /\ ~OtherDrags(TRUE) /\ ~OtherDrags(FALSE) /\ ~Killed
<1>0. taken \in Nat /\ taken + 1 \in Nat /\ taken + 1 # 0 /\ taken + 1 # taken
  BY DEF AloneInv
<1>1. ASSUME OtherTakes(TRUE) \/ OtherTakes(FALSE) \/ OtherClears \/ OtherDrags(TRUE)
               \/ OtherDrags(FALSE)
      PROVE  taken' = taken + 1
  BY <1>1 DEF OtherTakes, OtherClears, OtherDrags
<1>2. Killed => copier' = "gone" /\ taken' = taken
  BY DEF Killed
<1>3. ASSUME taken' = taken, copier' = copier \/ copier # "gone"
      PROVE  /\ taken' \in Nat
             /\ Undisturbed' => /\ Undisturbed /\ Once /\ KindKnown /\ Answered
                                /\ ~OtherTakes(TRUE) /\ ~OtherTakes(FALSE) /\ ~OtherClears
                                /\ ~OtherDrags(TRUE) /\ ~OtherDrags(FALSE) /\ ~Killed
  <2>1. Undisturbed' => Undisturbed
    BY <1>3 DEF Undisturbed
  <2>2. Undisturbed' => ~Killed
    BY <1>2 DEF Undisturbed
  <2>3. taken' # taken + 1
    BY <1>0, <1>3
  <2>4. QED
    BY <1>0, <1>1, <1>3, <2>1, <2>2, <2>3, Zenon DEF AloneInv
<1>4. CASE Send \/ SendWrites \/ SendCloses \/ Cancelled \/ SetSelection
  <2>1. taken' = taken
    BY <1>4 DEF SetSelection, Send, SendWrites, SendCloses, Cancelled, server
  <2>2. copier # "gone"
    BY <1>4 DEF SetSelection, Send, SendWrites, SendCloses, Cancelled
  <2>3. QED
    BY <1>3, <2>1, <2>2
<1>5. CASE Look \/ Rest \/ Check \/ Receive \/ Flush \/ CloseOwn \/ ReadEnd \/ Read
  <2>1. taken' = taken /\ copier' = copier
    BY <1>5 DEF Look, Rest, Check, Receive, Flush, CloseOwn, ReadEnd, Read, server, copying
  <2>2. QED
    BY <1>3, <2>1
<1>6. CASE RoundtripDone \/ DataOffer \/ OfferMime \/ Selection
  <2>1. taken' = taken /\ copier' = copier
    BY <1>6 DEF RoundtripDone, DataOffer, OfferMime, Selection, Event, server, copying
  <2>2. QED
    BY <1>3, <2>1
<1>7. CASE TakeFromCopier \/ TakeSync \/ PassOn \/ OtherAnswers \/ TellSelection
  <2>1. taken' = taken /\ copier' = copier
    BY <1>7 DEF TakeFromCopier, TakeSync, PassOn, OtherAnswers, TellSelection, server, copying
  <2>2. QED
    BY <1>3, <2>1
<1>8. CASE OtherTakes(TRUE) \/ OtherTakes(FALSE) \/ OtherClears \/ OtherDrags(TRUE)
           \/ OtherDrags(FALSE)
  <2>1. taken' \in Nat /\ taken' # 0
    BY <1>0, <1>1, <1>8
  <2>2. QED
    BY <2>1 DEF Undisturbed
<1>9. CASE Killed
  BY <1>0, <1>2, <1>9 DEF Undisturbed
<1>10. QED
  BY <1>4, <1>5, <1>6, <1>7, <1>8, <1>9 DEF Next, Copier, Paster, Compositor

LEMMA OnceStep ==
  ASSUME ClipTyped, AloneInv, Next, Undisturbed'
  PROVE  Once'
<1>1. Once /\ Undisturbed
  BY StillAlone
<1>2. CASE SetSelection
  <2>1. /\ copier = "setting" /\ copier' = "serving" /\ toServer' = SetRequests
        /\ UNCHANGED <<owner, mime, news, offers>>
    BY <1>2 DEF SetSelection, server
  <2>2. Head(SetRequests) = "create"
    BY DEF SetRequests
  <2>3. QED
    BY <1>1, <2>1, <2>2 DEF Once
<1>3. CASE TakeFromCopier
  <2>1. /\ toServer # << >> /\ toServer' = Tail(toServer) /\ UNCHANGED <<copier, offers>>
        /\ owner = "nobody" /\ ~news /\ offers = << >> /\ copier # "setting"
    BY <1>1, <1>3 DEF TakeFromCopier, copying, Once
  <2>2. \/ Head(toServer) = "create" /\ Tail(toServer) = <<"offer", "set">>
        \/ Head(toServer) = "offer" /\ Tail(toServer) = <<"set">>
        \/ Head(toServer) = "set" /\ Tail(toServer) = << >>
    <3>1. toServer \in {<<"set">>, <<"offer", "set">>, SetRequests}
      BY <1>1, <2>1 DEF Once
    <3>2. /\ Head(SetRequests) = "create" /\ Tail(SetRequests) = <<"offer", "set">>
          /\ Head(<<"offer", "set">>) = "offer" /\ Tail(<<"offer", "set">>) = <<"set">>
          /\ Head(<<"set">>) = "set" /\ Tail(<<"set">>) = << >>
      BY DEF SetRequests
    <3>3. QED
      BY <3>1, <3>2
  <2>3. CASE Head(toServer) = "create"
    <3>1. toServer' = <<"offer", "set">> /\ UNCHANGED <<mime, owner, news>>
      BY <1>3, <2>1, <2>2, <2>3 DEF TakeFromCopier
    <3>2. Head(<<"offer", "set">>) = "offer"
      OBVIOUS
    <3>3. QED
      BY <1>1, <2>1, <3>1, <3>2 DEF Once
  <2>4. CASE Head(toServer) = "offer"
    <3>1. /\ toServer' = <<"set">> /\ mime' = [mime EXCEPT !["copier"] = TRUE]
          /\ UNCHANGED <<owner, news>>
      BY <1>3, <2>1, <2>2, <2>4 DEF TakeFromCopier
    <3>2. mime' \in [{"copier", "other"} -> BOOLEAN] /\ mime'["copier"]
      BY <1>1, <3>1 DEF Once
    <3>3. QED
      BY <1>1, <2>1, <3>1, <3>2 DEF Once
  <2>5. CASE Head(toServer) = "set"
    <3>1. toServer' = << >> /\ owner' = "copier" /\ mime' = mime
      BY <1>3, <2>1, <2>2, <2>5 DEF TakeFromCopier, Owns
    <3>2. QED
      BY <1>1, <2>1, <2>5, <3>1 DEF Once
  <2>6. QED
    BY <2>2, <2>3, <2>4, <2>5
<1>4. CASE TellSelection
  <2>1. owner = "copier" /\ offers = << >>
    BY <1>1, <1>4 DEF TellSelection, Once
  <2>2. offers' = Append(offers, owner) /\ news' = FALSE /\ UNCHANGED <<copier, toServer, owner, mime>>
    BY <1>4, <2>1 DEF TellSelection, copying
  <2>3. offers' = <<"copier">>
    BY <2>1, <2>2
  <2>4. QED
    BY <1>1, <2>1, <2>2, <2>3 DEF Once
<1>5. CASE UNCHANGED <<toServer, server>> /\ copier' # "setting"
  BY <1>1, <1>5 DEF Once, server
<1>6. CASE UNCHANGED <<toServer, server, copier>>
  BY <1>1, <1>6 DEF Once, server
<1>7. CASE Send \/ SendWrites \/ SendCloses \/ Cancelled
  BY <1>5, <1>6, <1>7 DEF Send, SendWrites, SendCloses, Cancelled, copying, wire
<1>8. CASE Look \/ Rest \/ Check \/ Receive \/ Flush \/ CloseOwn \/ Read \/ ReadEnd
  BY <1>6, <1>8 DEF Look, Rest, Check, Receive, Flush, CloseOwn, Read, ReadEnd, copying, wire
<1>9. CASE RoundtripDone \/ DataOffer \/ OfferMime \/ Selection \/ TakeSync \/ PassOn \/ OtherAnswers
  BY <1>6, <1>9 DEF RoundtripDone, DataOffer, OfferMime, Selection, Event, TakeSync, PassOn,
                    OtherAnswers, copying, wire
<1>10. QED
  BY StillAlone, <1>2, <1>3, <1>4, <1>7, <1>8, <1>9 DEF Next, Copier, Paster, Compositor

(* A selection stays behind its kind as the events before it are read, and *)
(* as others are said.                                                     *)
LEMMA MimeTail ==
  ASSUME NEW q \in Seq(ToPaste), q # << >>, NEW m \in BOOLEAN, NEW n \in BOOLEAN,
         MimeFirst(q, m), n \/ (~m /\ q[1].op # "mime")
  PROVE  MimeFirst(Tail(q), n)
<1> DEFINE t == Tail(q)
<1>1. /\ Len(q) \in Nat \ {0} /\ Len(t) = Len(q) - 1
      /\ \A i \in 1..(Len(q) - 1) : t[i] = q[i + 1]
  BY EmptySeq, HeadTailProperties
<1>2. SUFFICES ASSUME NEW i \in 1..Len(t), t[i].op = "selection", t[i].offer # 0, ~n
               PROVE  \E j \in 1..(i - 1) : t[j].op = "mime"
  BY DEF MimeFirst
<1>3. i + 1 \in 1..Len(q) /\ t[i] = q[i + 1]
  BY <1>1
<1>4. PICK j \in 1..((i + 1) - 1) : q[j].op = "mime"
  BY <1>2, <1>3 DEF MimeFirst
<1>5. j # 1
  BY <1>2, <1>4
<1>6. j - 1 \in 1..(i - 1) /\ (j - 1) + 1 = j /\ j - 1 \in 1..(Len(q) - 1)
  BY <1>1, <1>4, <1>5
<1>7. t[j - 1] = q[j]
  BY <1>1, <1>6
<1>8. QED
  BY <1>4, <1>6, <1>7

LEMMA MimeAppend ==
  ASSUME NEW q \in Seq(ToPaste), NEW e \in ToPaste, NEW m \in BOOLEAN, MimeFirst(q, m),
         e.op # "selection" \/ \E j \in 1..Len(q) : q[j].op = "mime"
  PROVE  MimeFirst(Append(q, e), m)
<1> DEFINE t == Append(q, e)
<1>1. /\ Len(q) \in Nat /\ Len(t) = Len(q) + 1 /\ t[Len(q) + 1] = e
      /\ \A i \in 1..Len(q) : t[i] = q[i]
  BY AppendProperties
<1>2. SUFFICES ASSUME NEW i \in 1..Len(t), t[i].op = "selection", t[i].offer # 0, ~m
               PROVE  \E j \in 1..(i - 1) : t[j].op = "mime"
  BY DEF MimeFirst
<1>3. \E j \in 1..(i - 1) : q[j].op = "mime"
  <2>1. CASE i \in 1..Len(q)
    BY <1>1, <1>2, <2>1 DEF MimeFirst
  <2>2. CASE i = Len(q) + 1
    <3>1. (i - 1) = Len(q) /\ t[i] = e
      BY <1>1, <2>2
    <3>2. QED
      BY <1>2, <3>1
  <2>3. QED
    BY <1>1, <2>1, <2>2
<1>4. \A j \in 1..(i - 1) : t[j] = q[j]
  BY <1>1
<1>5. QED
  BY <1>3, <1>4

LEMMA KindStep ==
  ASSUME ClipTyped, AloneInv, Next, Undisturbed', offered_mime \in BOOLEAN
  PROVE  KindKnown'
<1>1. Once /\ KindKnown /\ toPaste \in Seq(ToPaste) /\ Len(toPaste) \in Nat
  <2>1. toPaste \in Seq(ToPaste)
    BY Zenon DEF ClipTyped
  <2>2. QED
    BY <2>1, StillAlone, LenProperties
<1>2. CASE UNCHANGED <<have_selection, offered_mime, toPaste>>
  BY <1>1, <1>2 DEF KindKnown
<1>3. ASSUME NEW op, Event(op)
      PROVE  /\ toPaste # << >> /\ toPaste' = Tail(toPaste) /\ Head(toPaste).op = op
             /\ Head(toPaste) = toPaste[1] /\ 1 \in 1..Len(toPaste)
  <2>1. toPaste # << >> /\ toPaste' = Tail(toPaste) /\ Head(toPaste).op = op
    BY <1>3 DEF Event
  <2>2. Len(toPaste) \in Nat \ {0} /\ Head(toPaste) = toPaste[1]
    BY <1>1, <2>1, EmptySeq, HeadTailProperties
  <2>3. QED
    BY <2>1, <2>2
<1>4. CASE RoundtripDone \/ DataOffer
  <2>1. /\ UNCHANGED <<have_selection, offered_mime>> /\ (Event("done") \/ Event("data_offer"))
    BY <1>4 DEF RoundtripDone, DataOffer
  <2>2. /\ toPaste # << >> /\ toPaste' = Tail(toPaste) /\ toPaste[1].op # "mime"
    BY <1>3, <2>1
  <2>3. MimeFirst(Tail(toPaste), offered_mime)
    BY <1>1, <2>2, MimeTail DEF KindKnown
  <2>4. QED
    BY <1>1, <2>1, <2>2, <2>3 DEF KindKnown
<1>5. CASE OfferMime
  <2>1. offered_mime' = TRUE
    BY <1>5 DEF OfferMime
  <2>2. QED
    BY <2>1 DEF KindKnown, MimeFirst
<1>6. CASE Selection
  <2>1. /\ have_selection' = (have_selection \/ Head(toPaste).offer # 0)
        /\ UNCHANGED offered_mime /\ Event("selection")
    BY <1>6 DEF Selection
  <2>2. /\ toPaste # << >> /\ toPaste' = Tail(toPaste) /\ toPaste[1].op = "selection"
        /\ Head(toPaste) = toPaste[1] /\ 1 \in 1..Len(toPaste)
    BY <1>3, <2>1
  <2>3. MimeFirst(Tail(toPaste), offered_mime)
    BY <1>1, <2>2, MimeTail DEF KindKnown
  <2>4. Head(toPaste).offer # 0 => offered_mime
    <3>1. 1..(1 - 1) = {}
      OBVIOUS
    <3>2. QED
      BY <1>1, <2>2, <3>1 DEF KindKnown, MimeFirst
  <2>5. QED
    BY <1>1, <2>1, <2>2, <2>3, <2>4 DEF KindKnown
<1>7. CASE TakeSync
  <2>1. /\ toPaste' = Append(toPaste, [op |-> "done"]) /\ UNCHANGED <<have_selection, offered_mime>>
    BY <1>7 DEF TakeSync, pasting
  <2>2. [op |-> "done"] \in ToPaste /\ [op |-> "done"].op # "selection"
    BY DEF ToPaste
  <2>3. MimeFirst(toPaste', offered_mime)
    BY <1>1, <2>1, <2>2, MimeAppend DEF KindKnown
  <2>4. QED
    BY <1>1, <2>1, <2>3 DEF KindKnown
<1>8. CASE TellSelection
  <2> DEFINE n == Len(offers) + 1
             a == [op |-> "data_offer", offer |-> n]
             b == [op |-> "mime"]
             s == [op |-> "selection", offer |-> n]
             qa == Append(toPaste, a)
             qb == Append(qa, b)
  <2>1. owner = "copier" /\ mime[owner] /\ offers = << >>
    BY <1>1, <1>8 DEF TellSelection, Once
  <2>2. toPaste' = (toPaste \o (<<a>> \o <<b>>)) \o <<s>> /\ UNCHANGED <<have_selection, offered_mime>>
    BY <1>8, <2>1 DEF TellSelection, Offering, pasting
  <2>3. n \in Nat
    BY <2>1
  <2>4. a \in ToPaste /\ b \in ToPaste /\ s \in ToPaste /\ a.op # "selection" /\ b.op = "mime"
    BY <2>3 DEF ToPaste
  <2> HIDE DEF a, b, s
  <2>5. qa \in Seq(ToPaste) /\ qb \in Seq(ToPaste)
    <3>1. qa \in Seq(ToPaste)
      BY <1>1, <2>4, AppendProperties
    <3>2. QED
      BY <2>4, <3>1, AppendProperties
  <2>6. toPaste' = Append(qb, s)
    <3>1. toPaste \o (<<a>> \o <<b>>) = qb
      BY <1>1, <2>4, AppendIsConcat
    <3>2. qb \o <<s>> = Append(qb, s)
      BY <2>4, <2>5, AppendIsConcat
    <3>3. QED
      BY <2>2, <3>1, <3>2
  <2>7. MimeFirst(qa, offered_mime)
    BY <1>1, <2>4, MimeAppend DEF KindKnown
  <2>8. b.op # "selection"
    BY <2>4
  <2>9. \E j \in 1..Len(qb) : qb[j].op = "mime"
    <3>1. Len(qb) = Len(qa) + 1 /\ qb[Len(qa) + 1] = b /\ Len(qa) \in Nat
      BY <2>4, <2>5, AppendProperties, LenProperties
    <3>2. QED
      BY <2>4, <3>1
  <2> HIDE DEF qa
  <2>10. MimeFirst(qb, offered_mime)
    BY <2>4, <2>5, <2>7, <2>8, MimeAppend
  <2> HIDE DEF qb
  <2>11. MimeFirst(Append(qb, s), offered_mime)
    BY <2>4, <2>5, <2>9, <2>10, MimeAppend
  <2>12. QED
    BY <1>1, <2>2, <2>6, <2>11 DEF KindKnown
<1>9. CASE SetSelection \/ Send \/ SendWrites \/ SendCloses \/ Cancelled \/ TakeFromCopier
  BY <1>2, <1>9 DEF SetSelection, Send, SendWrites, SendCloses, Cancelled, TakeFromCopier, pasting, wire
<1>10. CASE Look \/ Rest \/ Check \/ Receive \/ Flush \/ CloseOwn \/ Read \/ ReadEnd
  BY <1>2, <1>10 DEF Look, Rest, Check, Receive, Flush, CloseOwn, Read, ReadEnd, wire
<1>11. CASE PassOn \/ OtherAnswers
  BY <1>2, <1>11 DEF PassOn, OtherAnswers, pasting, wire
<1>12. QED
  BY StillAlone, <1>4, <1>5, <1>6, <1>7, <1>8, <1>9, <1>10, <1>11
     DEF Next, Copier, Paster, Compositor

(* The write end comes back only from the copier, when it has written.     *)
LEMMA AnsweredStep ==
  ASSUME ClipInv, ClipInv', AloneInv, Next, Undisturbed'
  PROVE  Answered'
<1>1. /\ Once /\ KindKnown /\ Answered /\ OneHolder /\ OneRequest(fromPaste, holders, asked)
      /\ got \in 0..ROOM /\ content \in Nat /\ fromPaste \in Seq(FromPaste)
  BY StillAlone DEF ClipInv, ClipTyped, GivenOnce
<1>2. ~Early => asked = 1 /\ offers = <<"copier">> /\ ~news /\ owner = "copier" /\ offers[asked] = "copier"
  <2>1. ~Early => asked > 0 /\ asked <= Len(offers) /\ asked \in Nat
    BY DEF ClipInv, OfferNamed, ClipTyped
  <2>2. offers = << >> \/ (offers = <<"copier">> /\ ~news /\ owner = "copier")
    BY <1>1 DEF Once
  <2>3. Len(<< >>) = 0 /\ Len(<<"copier">>) = 1 /\ <<"copier">>[1] = "copier"
    OBVIOUS
  <2>4. ~Early => offers = <<"copier">>
    BY <2>1, <2>2, <2>3
  <2>5. QED
    BY <2>1, <2>2, <2>3, <2>4
<1>3. CASE /\ InPipe' = InPipe /\ (Given' = {} => Given = {}) /\ (Early' <=> Early)
           /\ UNCHANGED <<got, have_selection, tries>>
           /\ paster' \in {"pasted", "gave up"} => paster' = paster
  BY <1>1, <1>3 DEF Answered
<1>4. CASE SetSelection \/ SendWrites \/ Cancelled \/ TakeFromCopier \/ TakeSync \/ TellSelection
  <2>1. UNCHANGED <<paster, got, have_selection, tries, holders>>
    BY <1>4 DEF SetSelection, SendWrites, Cancelled, TakeFromCopier, TakeSync, TellSelection, pasting,
       pipe
  <2>2. CASE UNCHANGED content
    BY <1>3, <2>1, <2>2 DEF InPipe, Given, Early
  <2>3. CASE SendWrites
    <3>1. "copier" \in Given'
      BY <1>1, <2>1, <2>3 DEF SendWrites, OneHolder, Given
    <3>2. QED
      BY <1>1, <2>1, <3>1 DEF Answered
  <2>4. QED
    BY <1>4, <2>2, <2>3 DEF SetSelection, Cancelled, TakeFromCopier, TakeSync, TellSelection, pipe
<1>5. CASE Send
  <2>1. "copier" \in Given' /\ UNCHANGED <<paster, got, have_selection, tries>>
    BY <1>5 DEF Send, Given, pasting
  <2>2. QED
    BY <1>1, <2>1 DEF Answered
<1>6. CASE SendCloses
  <2>1. copier = "closing" /\ UNCHANGED <<paster, got, content, have_selection, tries>>
    BY <1>6 DEF SendCloses, pasting
  <2>2. InPipe = PAYLOAD /\ InPipe' = InPipe
    BY <2>1 DEF ClipInv, Amount, InPipe
  <2>3. QED
    BY <1>1, <2>1, <2>2 DEF Answered
<1>7. CASE Look \/ Rest
  <2>1. Early' /\ paster' \in {"roundtrip", "looking"}
    BY <1>7 DEF Look, Rest, Early
  <2>2. QED
    BY <2>1 DEF Answered
<1>8. CASE RoundtripDone \/ DataOffer \/ OfferMime \/ Selection
  <2>1. Early' /\ paster' \in {"roundtrip", "resting"}
    BY <1>8 DEF RoundtripDone, DataOffer, OfferMime, Selection, Event, Early
  <2>2. QED
    BY <2>1 DEF Answered
<1>9. CASE Check
  <2>1. /\ tries = TRIES \/ have_selection
        /\ paster' = "asking" \/ (paster' = "gave up" /\ ~(have_selection /\ offered_mime))
        /\ UNCHANGED <<tries, have_selection>>
    BY <1>9 DEF Check
  <2>2. Early' /\ paster' # "pasted"
    BY <2>1 DEF Early
  <2>3. QED
    BY <1>1, <2>1, <2>2 DEF Answered, KindKnown
<1>10. CASE Receive \/ Flush
  <2>1. CASE Receive
    <3>1. paster' = "flushing" /\ "buffer" \in Given'
      BY <2>1 DEF Receive, Given
    <3>2. QED
      BY <3>1 DEF Answered
  <2>2. CASE Flush
    <3>1. paster' = "closing" /\ "request" \in Given'
      BY <2>2 DEF Flush, Given
    <3>2. QED
      BY <3>1 DEF Answered
  <2>3. QED
    BY <1>10, <2>1, <2>2
<1>11. CASE CloseOwn
  <2>1. /\ paster = "closing" /\ paster' = "reading" /\ holders' = holders \ {"paster"}
        /\ UNCHANGED <<got, content, have_selection, tries>>
    BY <1>11 DEF CloseOwn
  <2>2. QED
    BY <1>3, <2>1 DEF InPipe, Given, Early
<1>12. CASE Read
  <2>1. /\ paster = "reading" /\ paster' \in {"reading", "pasted"}
        /\ UNCHANGED <<holders, have_selection, tries>>
    BY <1>12 DEF Read
  <2>2. PICK n \in 1..(ROOM - got) :
               /\ n <= content /\ got' = got + n /\ content' = content - n
    BY <1>12 DEF Read
  <2>3. InPipe' = InPipe /\ got' # 0
    BY <1>1, <2>2, ClipAssumption DEF InPipe
  <2>4. QED
    BY <1>1, <2>1, <2>3 DEF Answered, Given, Early
<1>13. CASE ReadEnd
  <2>1. /\ paster = "reading" /\ paster' = "pasted" /\ content = 0 /\ holders = {}
        /\ UNCHANGED <<holders, content, got, have_selection, tries>>
    BY <1>13 DEF ReadEnd, pipe
  <2>2. InPipe = PAYLOAD /\ ~Early /\ Given = {}
    BY <1>1, <2>1 DEF Answered, Early, Given
  <2>3. got # 0 /\ InPipe' = PAYLOAD
    BY <1>1, <2>1, <2>2, ClipAssumption DEF InPipe
  <2>4. QED
    BY <2>1, <2>3 DEF Answered
<1>14. CASE PassOn
  <2>1. /\ fromPaste # << >> /\ Head(fromPaste).op = "receive"
        /\ UNCHANGED <<copier, paster, got, have_selection, tries>>
    BY <1>14 DEF PassOn, copying, pasting
  <2>2. Head(fromPaste).offer = asked /\ "request" \in Given
    BY <1>1, <2>1, RequestTail DEF Given
  <2>3. ~Early /\ copier # "gone"
    BY <1>1, <2>1, <2>2, StillAlone DEF OneHolder, Undisturbed
  <2>4. Current(asked)
    BY <1>2, <2>3 DEF Current
  <2>5. offers[asked] = "copier"
    BY <1>2, <2>3
  <2>6. holders' = (holders \ {"request"}) \cup {"event"}
    BY <1>14, <2>2, <2>3, <2>4, <2>5 DEF PassOn
  <2>7. Given' # {}
    BY <2>6 DEF Given
  <2>8. QED
    BY <1>1, <2>1, <2>7 DEF Answered
<1>15. CASE OtherAnswers
  <2>1. "other" \in holders
    BY <1>15 DEF OtherAnswers
  <2>2. offers[asked] = "other" /\ ~Early
    BY <1>1, <2>1 DEF OneHolder, Given
  <2>3. QED
    BY <1>2, <2>2
<1>16. QED
  BY StillAlone, <1>4, <1>5, <1>6, <1>7, <1>8, <1>9, <1>10, <1>11, <1>12, <1>13, <1>14, <1>15
     DEF Next, Copier, Paster, Compositor

(* With nobody else about and the copier alive a paste is all the copier   *)
(* has, unless it was told of no selection in any of its tries, however    *)
(* many bytes these are (toolchain/wlclip.c:290-358).                      *)
THEOREM GetsSelectionHolds == Spec => []GetsSelection
<1> DEFINE Inv == ClipInv /\ offered_mime \in BOOLEAN /\ AloneInv
<1>1. Init => Inv
  <2> SUFFICES ASSUME Init
               PROVE  Inv
    OBVIOUS
  <2>1. /\ copier = "setting" /\ paster = "looking" /\ have_selection = FALSE
        /\ offered_mime = FALSE /\ holders = {} /\ toServer = << >> /\ toPaste = << >>
        /\ owner = "nobody" /\ mime = [c \in {"copier", "other"} |-> FALSE] /\ news = FALSE
        /\ offers = << >> /\ taken = 0
    BY DEF Init
  <2>2. Once
    BY <2>1 DEF Once
  <2>3. KindKnown /\ Answered
    BY <2>1 DEF KindKnown, MimeFirst, Answered, Early
  <2>4. QED
    BY <2>1, <2>2, <2>3, ClipInvInit DEF AloneInv
<1>2. Inv /\ [Next]_vars => Inv'
  <2> SUFFICES ASSUME Inv, [Next]_vars
               PROVE  Inv'
    OBVIOUS
  <2>1. ClipInv'
    BY ClipInvNext
  <2>2. CASE Next
    <3>1. offered_mime' \in BOOLEAN
      <4>1. offered_mime' \in {offered_mime, TRUE}
        BY <2>2 DEF Next, Copier, Paster, Compositor, SetSelection, Send, SendWrites, SendCloses, Cancelled,
           Look, Rest, RoundtripDone, DataOffer, OfferMime, Selection, Event, Check, Receive, Flush,
           CloseOwn, Read, ReadEnd, TakeFromCopier, TakeSync, PassOn, TellSelection, OtherTakes,
           OtherDrags, OtherClears, OtherAnswers, Killed, pasting
      <4>2. QED
        BY <4>1
    <3>2. taken' \in Nat
      BY <2>2, StillAlone
    <3>3. ASSUME Undisturbed'
          PROVE  Once' /\ KindKnown' /\ Answered'
      BY <2>1, <2>2, <3>3, OnceStep, KindStep, AnsweredStep DEF ClipInv
    <3>4. QED
      BY <2>1, <3>1, <3>2, <3>3 DEF AloneInv
  <2>3. CASE UNCHANGED vars
    <3>1. UNCHANGED <<copier, paster, tries, have_selection, offered_mime, got, holders, content>>
      BY <2>3 DEF vars, copying, pasting, pipe
    <3>2. UNCHANGED <<toServer, toPaste, owner, mime, news, offers, taken>>
      BY <2>3 DEF vars, wire, server
    <3>3. AloneInv'
      BY <3>1, <3>2 DEF AloneInv, Undisturbed, Once, KindKnown, Answered, Early, Given, InPipe
    <3>4. QED
      BY <2>1, <3>1, <3>3
  <2>4. QED
    BY <2>2, <2>3
<1>3. Inv => GetsSelection
  <2> SUFFICES ASSUME Inv, Undisturbed
               PROVE  /\ paster = "pasted" => got = PAYLOAD
                      /\ paster = "gave up" => ~have_selection /\ tries = TRIES
    BY DEF GetsSelection
  <2>1. Once /\ Answered /\ AllOrNothing
    BY DEF AloneInv, ClipInv
  <2>2. ASSUME paster = "pasted"
        PROVE  got = PAYLOAD
    <3>1. asked > 0 /\ asked <= Len(offers) /\ asked \in Nat
      BY <2>2 DEF ClipInv, OfferNamed, ClipTyped, Early
    <3>2. offers = << >> \/ offers = <<"copier">>
      BY <2>1 DEF Once
    <3>3. Len(<< >>) = 0 /\ Len(<<"copier">>) = 1 /\ <<"copier">>[1] = "copier"
      OBVIOUS
    <3>4. offers[asked] = "copier"
      BY <3>1, <3>2, <3>3
    <3>5. QED
      BY <2>1, <2>2, <3>4 DEF AllOrNothing, LengthOf, Answered
  <2>3. QED
    BY <2>1, <2>2 DEF Answered
<1> HIDE DEF Inv
<1>4. QED
  BY <1>1, <1>2, <1>3, PTL DEF Spec
=============================================================================
