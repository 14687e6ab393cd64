----------------------------- MODULE WlFuzzProofs -----------------------------
(***************************************************************************)
(* What holds of the fuzzer's two models for every value of their          *)
(* constants.  First what arrives of what it sends, for messages of every  *)
(* length, a socket of every size and any number of tries (module WlWire), *)
(* how what is sent back is taken apart, for events of every length, and   *)
(* that a compositor that went is quoted, if a message is tried often      *)
(* enough.  Then that its list of objects and the compositor's agree       *)
(* (module WlFuzz), for every number of requests and of globals.           *)
(***************************************************************************)
EXTENDS WlWire, WlFuzz, SequenceTheorems, FiniteSetTheorems, TLAPS

(* In the middle of a message, or between two; the rest of the places are  *)
(* those from which no byte is sent any more.                              *)
InMessage == pc \in {"sending", "retry"} \/ (pc \in {"reading", "parsing"} /\ back = "retry")
Between == pc = "message" \/ (pc \in {"reading", "parsing"} /\ back = "message")

Byte == [of : [number : Nat, len : Nat, fd : BOOLEAN], at : Nat, fd : BOOLEAN]
StreamTyped ==
  /\ pc \in {"message", "sending", "retry", "reading", "parsing", "end", "said"}
  /\ back \in {"retry", "message", "end"}
  /\ sent \in Nat /\ done \in Nat /\ fd \in BOOLEAN
  /\ InMessage => len \in Nat \ {0}
  /\ stream \in Seq(Byte)

(* The last byte sent is the last of a message, or of as much of this one  *)
(* as was taken: what the next byte has to follow.                         *)
LastByte ==
  /\ Between \/ (InMessage /\ done = 0) => WholeUpTo(sent)
  /\ InMessage /\ done > 0 =>
       /\ Len(stream) > 0
       /\ stream[Len(stream)].of = This /\ stream[Len(stream)].at = done - 1

StreamInv == StreamTyped /\ LastByte /\ ArrivesWhole

-----------------------------------------------------------------------------
(* A part of the message that is taken goes on where the last one ended.   *)
LEMMA SendKeepsInv == StreamInv /\ Send => StreamInv'
<1> SUFFICES ASSUME StreamInv, Send
             PROVE  StreamInv'
  OBVIOUS
<1>1. PICK n \in 1..(len - done) :
        stream' = stream \o Bytes(n, fd /\ done = 0) /\ done' = done + n
  BY DEF Send
<1>2. /\ pc = "sending" /\ done < len /\ UNCHANGED <<pc, back, sent, fd, len>>
      /\ InMessage /\ InMessage' /\ ~Between' /\ This' = This
  BY DEF Send, InMessage, Between, This
<1>3. /\ StreamTyped /\ len \in Nat /\ sent \in Nat /\ done \in Nat /\ fd \in BOOLEAN
      /\ Len(stream) \in Nat
  BY <1>2 DEF StreamInv, StreamTyped
<1>4. n \in Nat /\ n > 0
  BY <1>1, <1>3
<1> DEFINE L == Len(stream)
           first == fd /\ done = 0
           m == This
<1>5. /\ first \in BOOLEAN /\ m \in [number : Nat, len : Nat, fd : BOOLEAN]
      /\ m.number = sent + 1 /\ m.len = len /\ m.fd = fd
  BY <1>3 DEF first, This
<1> HIDE DEF first, m
<1>6. /\ stream' \in Seq(Byte) /\ Len(stream') = L + n
      /\ \A i \in 1..L : stream'[i] = stream[i]
      /\ \A i \in (L + 1)..(L + n) :
           /\ stream'[i].of = m
           /\ stream'[i].at = done + i - L - 1
           /\ stream'[i].fd = (first /\ i = L + 1)
  <2> DEFINE more == Bytes(n, first)
  <2>1. stream' = stream \o more
    BY <1>1 DEF first
  <2>2. stream \in Seq(Byte)
    BY <1>3 DEF StreamTyped
  <2>3. more = [i \in 1..n |-> [of |-> m, at |-> done + i - 1, fd |-> first /\ i = 1]]
    BY DEF Bytes, m
  <2> HIDE DEF more
  <2>4. \A i \in 1..n : [of |-> m, at |-> done + i - 1, fd |-> first /\ i = 1] \in Byte
    BY <1>3, <1>5 DEF Byte
  <2>5. more \in Seq(Byte) /\ Len(more) = n
    BY <1>4, <2>3, <2>4
  <2>6. \A i \in 1..n :
          more[i].of = m /\ more[i].at = done + i - 1 /\ more[i].fd = (first /\ i = 1)
    BY <2>3
  <2>7. stream' \in Seq(Byte) /\ Len(stream') = L + n
    BY <2>1, <2>2, <2>5, ConcatProperties
  <2>8. \A i \in 1..L : stream'[i] = stream[i]
    BY <1>3, <2>1, <2>2, <2>5
  <2>9. ASSUME NEW i \in (L + 1)..(L + n)
        PROVE  /\ stream'[i].of = m
               /\ stream'[i].at = done + i - L - 1
               /\ stream'[i].fd = (first /\ i = L + 1)
    <3>1. i - L \in 1..n
      BY <1>3, <1>4
    <3>2. PICK j \in 1..n : j = i - L
      BY <3>1, Zenon
    <3>3. stream'[i] = more[j]
      BY <1>3, <1>4, <2>1, <2>2, <2>5, <3>2
    <3>4. more[j].of = m /\ more[j].at = done + j - 1 /\ more[j].fd = (first /\ j = 1)
      BY <2>6, <3>2
    <3>5. done + j - 1 = done + i - L - 1 /\ (j = 1 <=> i = L + 1)
      BY <1>3, <1>4, <3>2
    <3>6. QED
      BY <3>3, <3>4, <3>5, Zenon
  <2>10. QED
    BY <2>7, <2>8, <2>9
<1>7. StreamTyped'
  BY <1>1, <1>2, <1>3, <1>4, <1>6 DEF StreamInv, StreamTyped
<1>8. LastByte'
  <2>1. L + n \in (L + 1)..(L + n) /\ done + (L + n) - L - 1 = done + n - 1
    BY <1>3, <1>4
  <2>2. stream'[L + n].of = m /\ stream'[L + n].at = done + n - 1
    BY <2>1, <1>6
  <2>3. Len(stream') = L + n /\ L + n > 0 /\ done' - 1 = done + n - 1 /\ done' > 0
    BY <1>1, <1>3, <1>4, <1>6
  <2>4. stream'[Len(stream')].of = This' /\ stream'[Len(stream')].at = done' - 1
    BY <1>2, <2>2, <2>3 DEF m
  <2>5. ~(done' = 0)
    BY <2>3
  <2>6. QED
    BY <1>2, <2>3, <2>4, <2>5 DEF LastByte
(* The byte that goes on from the last there was. *)
<1>9. stream'[L + 1].of = m /\ stream'[L + 1].at = done /\ stream'[L + 1].fd = first
  <2>1. L + 1 \in (L + 1)..(L + n) /\ done + (L + 1) - L - 1 = done
    BY <1>3, <1>4
  <2>2. /\ stream'[L + 1].of = m
        /\ stream'[L + 1].at = done + (L + 1) - L - 1
        /\ stream'[L + 1].fd = (first /\ L + 1 = L + 1)
    <3> HIDE DEF L
    <3>1. QED
      BY <2>1, <1>6, Zenon
  <2>3. (first /\ L + 1 = L + 1) = first
    BY <1>5, Zenon
  <2>4. QED
    BY <2>1, <2>2, <2>3
<1>10. IF L = 0 THEN done = 0 /\ sent = 0 ELSE Follows(stream'[L + 1], stream[L])
  <2>1. CASE done = 0
    <3>1. WholeUpTo(sent)
      BY <1>2, <2>1 DEF StreamInv, LastByte
    <3>2. CASE L = 0
      BY <2>1, <3>1, <3>2 DEF WholeUpTo
    <3>3. CASE L # 0
      <4>1. stream[L].of.number = sent /\ stream[L].at + 1 = stream[L].of.len
        BY <3>1, <3>3 DEF WholeUpTo
      <4>2. ~(stream[L].at + 1 < stream[L].of.len)
        <5>1. stream[L] \in Byte
          BY <1>3, <3>3, ElementOfSeq DEF StreamTyped
        <5>2. stream[L].of.len \in Nat
          BY <5>1 DEF Byte
        <5>3. QED
          BY <4>1, <5>2
      <4>3. stream'[L + 1].of.number = stream[L].of.number + 1 /\ stream'[L + 1].at = 0
        BY <1>5, <1>9, <2>1, <4>1
      <4>4. QED
        BY <3>3, <4>2, <4>3 DEF Follows
    <3>4. QED
      BY <3>2, <3>3
  <2>2. CASE done # 0
    <3>1. L > 0 /\ stream[L].of = m /\ stream[L].at = done - 1
      BY <1>2, <1>3, <2>2 DEF StreamInv, LastByte, m
    <3>2. stream[L].at + 1 < stream[L].of.len /\ done = stream[L].at + 1
      BY <1>2, <1>3, <1>5, <3>1
    <3>3. QED
      BY <1>3, <1>9, <3>1, <3>2 DEF Follows
  <2>3. QED
    BY <2>1, <2>2
<1>11. ArrivesWhole'
  <2>1. Len(stream') > 0 => stream'[1].of.number = 1 /\ stream'[1].at = 0
    <3>1. CASE L = 0
      BY <1>3, <1>5, <1>9, <1>10, <3>1
    <3>2. CASE L # 0
      <4>1. 1 \in 1..L /\ L > 0
        BY <1>3, <3>2
      <4>2. QED
        BY <1>6, <4>1 DEF StreamInv, ArrivesWhole
    <3>3. QED
      BY <3>1, <3>2
  <2>2. ASSUME NEW i \in 2..(L + n)
        PROVE  Follows(stream'[i], stream'[i - 1])
    <3>1. CASE i <= L
      <4>1. i \in 2..L /\ i \in 1..L /\ i - 1 \in 1..L
        BY <1>3, <1>4, <3>1
      <4>2. QED
        BY <1>6, <4>1 DEF StreamInv, ArrivesWhole
    <3>2. CASE i = L + 1
      <4>1. L # 0 /\ i - 1 = L /\ L \in 1..L
        BY <1>3, <1>4, <3>2
      <4>2. stream'[i - 1] = stream[L]
        BY <1>6, <4>1
      <4>3. QED
        BY <1>10, <3>2, <4>1, <4>2
    <3>3. CASE i > L + 1
      <4>1. /\ i \in (L + 1)..(L + n) /\ i - 1 \in (L + 1)..(L + n)
            /\ done + i - L - 1 = (done + (i - 1) - L - 1) + 1
            /\ done + i - L - 1 < len
        BY <1>1, <1>3, <1>4, <3>3
      <4>2. /\ stream'[i].of = m /\ stream'[i - 1].of = m
            /\ stream'[i].at = done + i - L - 1 /\ stream'[i - 1].at = done + (i - 1) - L - 1
        BY <1>6, <4>1
      <4>3. stream'[i].at = stream'[i - 1].at + 1 /\ stream'[i - 1].at + 1 < stream'[i - 1].of.len
        BY <1>5, <4>1, <4>2
      <4>4. QED
        BY <4>2, <4>3 DEF Follows
    <3>4. QED
      BY <1>3, <1>4, <3>1, <3>2, <3>3
  <2>3. ASSUME NEW i \in 1..(L + n)
        PROVE  stream'[i].fd = (stream'[i].of.fd /\ stream'[i].at = 0)
    <3>1. CASE i <= L
      <4>1. i \in 1..L
        BY <1>3, <1>4, <3>1
      <4>2. QED
        BY <1>6, <4>1 DEF StreamInv, ArrivesWhole
    <3>2. CASE i > L
      <4>1. i \in (L + 1)..(L + n) /\ (done + i - L - 1 = 0 <=> done = 0 /\ i = L + 1)
        BY <1>3, <1>4, <3>2
      <4>2. stream'[i].at = done + i - L - 1 /\ stream'[i].fd = (first /\ i = L + 1)
            /\ stream'[i].of.fd = fd
        BY <1>5, <1>6, <4>1
      <4>3. (stream'[i].at = 0) <=> (done = 0 /\ i = L + 1)
        BY <4>1, <4>2
      <4>4. (first /\ i = L + 1) = (fd /\ done = 0 /\ i = L + 1)
        BY DEF first
      <4>5. QED
        BY <1>3, <4>2, <4>3, <4>4
    <3>3. QED
      BY <1>3, <1>4, <3>1, <3>2
  <2>4. pc' # "message"
    BY <1>2
  <2>5. QED
    BY <1>6, <2>1, <2>2, <2>3, <2>4 DEF ArrivesWhole
<1>12. QED
  BY <1>7, <1>8, <1>11 DEF StreamInv

(* No other step sends a byte: it is enough what each says of where it is. *)
LEMMA SilentKeepsInv ==
  ASSUME StreamInv, UNCHANGED stream,
         pc' \in {"message", "sending", "retry", "reading", "parsing", "end", "said"},
         back' \in {"retry", "message", "end"}, sent' \in Nat, done' \in Nat, fd' \in BOOLEAN,
         InMessage' => len' \in Nat \ {0},
         Between' \/ (InMessage' /\ done' = 0) =>
            IF Between \/ (InMessage /\ done = 0)
            THEN sent' = sent
            ELSE InMessage /\ done > 0 /\ done = len /\ sent' = sent + 1,
         InMessage' /\ done' > 0 => InMessage /\ done' = done /\ This' = This
  PROVE  StreamInv'
<1>1. StreamTyped'
  BY DEF StreamInv, StreamTyped
<1>2. LastByte'
  <2>1. ASSUME Between' \/ (InMessage' /\ done' = 0)
        PROVE  WholeUpTo(sent)'
    <3>1. CASE Between \/ (InMessage /\ done = 0)
      BY <2>1, <3>1 DEF StreamInv, LastByte, WholeUpTo
    <3>2. CASE ~(Between \/ (InMessage /\ done = 0))
      <4>1. InMessage /\ done > 0 /\ done = len /\ sent' = sent + 1
        BY <2>1, <3>2
      <4>2. Len(stream) > 0 /\ stream[Len(stream)].of = This /\ stream[Len(stream)].at = done - 1
        BY <4>1 DEF StreamInv, LastByte
      <4>3. This.number = sent + 1 /\ This.len = len /\ done \in Nat
        BY DEF This, StreamInv, StreamTyped
      <4>4. stream[Len(stream)].of.number = sent' /\ stream[Len(stream)].at + 1 = stream[Len(stream)].of.len
        BY <4>1, <4>2, <4>3
      <4>5. Len(stream) # 0
        BY <4>2
      <4>6. QED
        BY <4>4, <4>5 DEF WholeUpTo
    <3>3. QED
      BY <3>1, <3>2
  <2>2. ASSUME InMessage', done' > 0
        PROVE  /\ Len(stream') > 0
               /\ stream'[Len(stream')].of = This' /\ stream'[Len(stream')].at = done' - 1
    BY <2>2 DEF StreamInv, LastByte
  <2>3. QED
    BY <2>1, <2>2 DEF LastByte
<1>3. ArrivesWhole'
  <2>1. pc' = "message" => Between'
    BY DEF Between
  <2>2. pc' = "message" => WholeUpTo(sent)'
    BY <1>2, <2>1 DEF LastByte
  <2>3. QED
    BY <2>2 DEF StreamInv, ArrivesWhole
<1>4. QED
  BY <1>1, <1>2, <1>3 DEF StreamInv

(* Every step leaves the stream whole messages and one begun at most.      *)
LEMMA StepKeepsInv == StreamInv /\ [Next]_vars => StreamInv'
<1> SUFFICES ASSUME StreamInv, [Next]_vars
             PROVE  StreamInv'
  OBVIOUS
<1>0. StreamTyped /\ sent \in Nat /\ done \in Nat /\ Lengths \subseteq Nat \ {0}
  BY WireAssumption DEF StreamInv, StreamTyped
<1>1. CASE Message
  BY <1>0, <1>1, SilentKeepsInv DEF Message, StreamTyped, InMessage, Between, This
<1>2. CASE Enough
  BY <1>0, <1>2, SilentKeepsInv DEF Enough, StreamTyped, InMessage, Between, This
<1>3. CASE Send
  BY <1>3, SendKeepsInv
<1>4. CASE Again
  BY <1>0, <1>4, SilentKeepsInv DEF Again, Full, StreamTyped, InMessage, Between, This
<1>5. CASE Retry
  BY <1>0, <1>5, SilentKeepsInv DEF Retry, StreamTyped, InMessage, Between, This
<1>6. CASE Refused
  BY <1>0, <1>6, SilentKeepsInv DEF Refused, StreamTyped, InMessage, Between, This
<1>7. CASE SendReturns
  <2>1. pc = "sending" /\ len \in Nat \ {0}
    BY <1>0, <1>7 DEF SendReturns, StreamTyped, InMessage
  <2>2. CASE closed
    BY <1>0, <1>7, <2>1, <2>2, SilentKeepsInv DEF SendReturns, StreamTyped, InMessage, Between, This
  <2>3. CASE ~closed
    BY <1>0, <1>7, <2>1, <2>3, SilentKeepsInv DEF SendReturns, StreamTyped, InMessage, Between, This
  <2>4. QED
    BY <2>2, <2>3
<1>8. CASE Receive
  BY <1>0, <1>8, SilentKeepsInv DEF Receive, StreamTyped, InMessage, Between, This
<1>9. CASE ReceiveEnd
  BY <1>0, <1>9, SilentKeepsInv DEF ReceiveEnd, StreamTyped, InMessage, Between, This
<1>10. CASE Parse
  BY <1>0, <1>10, SilentKeepsInv DEF Parse, StreamTyped, InMessage, Between, This
<1>11. CASE ParseWaits
  BY <1>0, <1>11, SilentKeepsInv DEF ParseWaits, StreamTyped, InMessage, Between, This
<1>12. CASE LastLook
  BY <1>0, <1>12, SilentKeepsInv DEF LastLook, StreamTyped, InMessage, Between, This
<1>13. CASE Says
  BY <1>0, <1>13, SilentKeepsInv DEF Says, StreamTyped, InMessage, Between, This
<1>14. CASE UNCHANGED <<client, stream>>
  BY <1>0, <1>14, SilentKeepsInv DEF client, StreamTyped, InMessage, Between, This
<1>15. CASE Take \/ Tell \/ TellWhy \/ Write \/ Leave \/ Stick
  BY <1>14, <1>15 DEF Take, Tell, TellWhy, Write, Leave, Stick
<1>16. CASE UNCHANGED vars
  BY <1>14, <1>16 DEF vars
<1>17. QED
  BY <1>1, <1>2, <1>3, <1>4, <1>5, <1>6, <1>7, <1>8, <1>9, <1>10, <1>11, <1>12, <1>13, <1>15,
     <1>16 DEF Next, Client

LEMMA InitKeepsInv == Init => StreamInv
<1> SUFFICES ASSUME Init
             PROVE  StreamInv
  OBVIOUS
<1>1. stream = << >> /\ Len(stream) = 0 /\ stream \in Seq(Byte)
  BY DEF Init
<1>2. StreamTyped
  BY <1>1 DEF Init, StreamTyped, InMessage
<1>3. LastByte
  BY <1>1 DEF Init, LastByte, InMessage, Between, WholeUpTo
<1>4. ArrivesWhole
  BY <1>1 DEF Init, ArrivesWhole, WholeUpTo
<1>5. QED
  BY <1>2, <1>3, <1>4 DEF StreamInv

(* What the compositor receives of send_bytes is the messages one after    *)
(* the other and whole, whatever is taken at a time and whatever comes in  *)
(* between; only the last may want bytes, when it was given up or is still *)
(* being sent.  Each descriptor is with the first byte of its message.     *)
THEOREM ArrivesWholeHolds == Spec => []ArrivesWhole
<1>1. Init => StreamInv
  BY InitKeepsInv
<1>2. StreamInv => ArrivesWhole
  BY DEF StreamInv
<1>3. QED
  BY <1>1, <1>2, StepKeepsInv, PTL DEF Spec

-----------------------------------------------------------------------------
(* The other way: what is read of what the compositor said.                *)
ReadTyped ==
  /\ inlen \in Nat /\ base \in Nat /\ written \in Nat /\ why \in Nat
  /\ acted \in Seq(Nat) /\ ends \in Seq(Nat)
  /\ closed \in BOOLEAN /\ told_error \in BOOLEAN
  /\ state \in {"well", "stuck", "leaving", "gone"}

(* Each event ends after the one before it, by as much as it is long.      *)
EndsInv ==
  /\ Len(ends) <= MaxEvents
  /\ \A k \in 1..Len(ends) : SizeOf(k) \in Sizes
  /\ \A i, j \in 0..Len(ends) : i < j => EndOf(i) < EndOf(j)

(* The events acted on are the first ones, inbuf begins where the next     *)
(* does, and unless it is being looked at it has not all of it.  What the  *)
(* compositor said last is why.                                            *)
ReadInv ==
  /\ Len(acted) <= Len(ends)
  /\ \A i \in 1..Len(acted) : acted[i] = i
  /\ base = EndOf(Len(acted))
  /\ base + inlen <= written /\ written <= EndOf(Len(ends))
  /\ pc # "parsing" /\ Len(acted) < Len(ends) => inlen < SizeOf(Len(acted) + 1)
WhyInv ==
  /\ why # 0 => why = Len(ends) /\ state \in {"leaving", "gone"}
  /\ why # 0 /\ why <= Len(acted) => told_error
WireInv == ReadTyped /\ EndsInv /\ ReadInv /\ WhyInv

LEMMA EndsAreNat ==
  ASSUME ReadTyped
  PROVE  /\ Len(ends) \in Nat /\ Len(acted) \in Nat
         /\ \A k \in 0..Len(ends) : EndOf(k) \in Nat
  BY ElementOfSeq, LenProperties DEF ReadTyped, EndOf

(* One event more ends what there was, and moves none.                     *)
LEMMA EndsGrow ==
  ASSUME ReadTyped, EndsInv, Len(ends) < MaxEvents, NEW z \in Sizes,
         ends' = Append(ends, EndOf(Len(ends)) + z)
  PROVE  /\ ends' \in Seq(Nat) /\ Len(ends') = Len(ends) + 1 /\ EndsInv'
         /\ \A k \in 0..Len(ends) : EndOf(k)' = EndOf(k)
         /\ \A k \in 1..Len(ends) : SizeOf(k)' = SizeOf(k)
         /\ \A k : k = Len(ends) + 1 => SizeOf(k)' = z /\ EndOf(k)' = EndOf(Len(ends)) + z
<1>1. Len(ends) \in Nat /\ EndOf(Len(ends)) \in Nat /\ \A k \in 0..Len(ends) : EndOf(k) \in Nat
  BY EndsAreNat
<1>2. z \in Nat /\ z > 0 /\ MaxEvents \in Nat
  BY WireAssumption
<1>3. /\ ends' \in Seq(Nat) /\ Len(ends') = Len(ends) + 1
      /\ \A k \in 1..Len(ends) : ends'[k] = ends[k]
      /\ ends'[Len(ends) + 1] = EndOf(Len(ends)) + z
  <2>1. EndOf(Len(ends)) + z \in Nat /\ ends \in Seq(Nat)
    BY <1>1, <1>2 DEF ReadTyped
  <2>2. QED
    BY <2>1, AppendProperties
<1>4. \A k \in 0..Len(ends) : EndOf(k)' = EndOf(k)
  BY <1>1, <1>3 DEF EndOf
<1>5. \A k : k = Len(ends) + 1 => EndOf(k)' = EndOf(Len(ends)) + z
  BY <1>1, <1>3 DEF EndOf
<1>6. \A k \in 1..Len(ends) : SizeOf(k)' = SizeOf(k)
  BY <1>1, <1>4 DEF SizeOf
<1>7. \A k : k = Len(ends) + 1 => SizeOf(k)' = z
  <2> SUFFICES ASSUME NEW k, k = Len(ends) + 1
               PROVE  SizeOf(k)' = z
    OBVIOUS
  <2>1. k - 1 = Len(ends)
    BY <1>1
  <2>2. EndOf(k)' = EndOf(Len(ends)) + z /\ EndOf(k - 1)' = EndOf(Len(ends))
    BY <1>1, <1>4, <1>5, <2>1
  <2>3. QED
    BY <1>1, <1>2, <2>2 DEF SizeOf
<1>8. EndsInv'
  <2>1. Len(ends') <= MaxEvents
    BY <1>1, <1>2, <1>3
  <2>2. ASSUME NEW k \in 1..(Len(ends) + 1)
        PROVE  SizeOf(k)' \in Sizes
    BY <1>1, <1>6, <1>7 DEF EndsInv
  <2>3. ASSUME NEW i \in 0..(Len(ends) + 1), NEW j \in 0..(Len(ends) + 1), i < j
        PROVE  EndOf(i)' < EndOf(j)'
    <3>1. i \in 0..Len(ends)
      BY <1>1, <2>3
    <3>2. CASE j \in 0..Len(ends)
      BY <1>4, <2>3, <3>1, <3>2 DEF EndsInv
    <3>3. CASE j = Len(ends) + 1
      <4>1. EndOf(i) <= EndOf(Len(ends))
        <5>1. i = Len(ends) \/ i < Len(ends)
          BY <1>1, <3>1
        <5>2. QED
          BY <1>1, <3>1, <5>1 DEF EndsInv
      <4>2. EndOf(i)' = EndOf(i) /\ EndOf(j)' = EndOf(Len(ends)) + z
        BY <1>4, <1>5, <3>1, <3>3
      <4>3. QED
        BY <1>1, <1>2, <3>1, <4>1, <4>2
    <3>4. QED
      BY <1>1, <3>2, <3>3
  <2>4. QED
    BY <1>3, <2>1, <2>2, <2>3 DEF EndsInv
<1>9. QED
  BY <1>3, <1>4, <1>5, <1>6, <1>7, <1>8

(* What inbuf begins with is the event after those acted on, and it fits.  *)
LEMMA NextIsHere ==
  ASSUME WireInv
  PROVE  /\ \A k \in Here : k = Len(acted) + 1
         /\ \A k \in 1..Len(ends) : SizeOf(k) \in Header..INBUF /\ SizeOf(k) \in Nat \ {0}
         /\ Len(acted) < Len(ends) =>
              EndOf(Len(acted) + 1) = base + SizeOf(Len(acted) + 1)
         /\ Len(acted) = Len(ends) => inlen = 0 /\ base = written
         /\ Len(acted) < Len(ends) => Len(acted) + 1 \in Here
<1>1. /\ Len(ends) \in Nat /\ Len(acted) \in Nat /\ Len(acted) <= Len(ends)
      /\ \A k \in 0..Len(ends) : EndOf(k) \in Nat
      /\ base \in Nat /\ inlen \in Nat /\ written \in Nat
  BY EndsAreNat DEF WireInv, ReadInv, ReadTyped
<1>2. \A k \in Here : k = Len(acted) + 1
  <2> SUFFICES ASSUME NEW k \in Here
               PROVE  k = Len(acted) + 1
    OBVIOUS
  <2>1. k \in 1..Len(ends) /\ EndOf(k - 1) = EndOf(Len(acted))
    BY DEF Here, WireInv, ReadInv
  <2>2. k - 1 \in 0..Len(ends) /\ Len(acted) \in 0..Len(ends)
    BY <1>1, <2>1
  <2>3. ~(k - 1 < Len(acted)) /\ ~(Len(acted) < k - 1)
    BY <1>1, <2>1, <2>2 DEF WireInv, EndsInv
  <2>4. QED
    BY <1>1, <2>1, <2>3
<1>3. \A k \in 1..Len(ends) : SizeOf(k) \in Header..INBUF /\ SizeOf(k) \in Nat \ {0}
  <2>1. \A z \in Sizes : z \in Header..INBUF /\ z \in Nat \ {0}
    BY WireAssumption
  <2>2. QED
    BY <2>1 DEF WireInv, EndsInv
<1>4. ASSUME Len(acted) < Len(ends)
      PROVE  EndOf(Len(acted) + 1) = base + SizeOf(Len(acted) + 1)
  <2>1. (Len(acted) + 1) - 1 = Len(acted) /\ Len(acted) + 1 \in 0..Len(ends) /\ Len(acted) \in 0..Len(ends)
    BY <1>1, <1>4
  <2>2. base = EndOf(Len(acted))
    BY DEF WireInv, ReadInv
  <2>3. QED
    BY <1>1, <2>1, <2>2 DEF SizeOf
<1>5. Len(acted) = Len(ends) => inlen = 0 /\ base = written
  BY <1>1 DEF WireInv, ReadInv
<1>6. ASSUME Len(acted) < Len(ends)
      PROVE  Len(acted) + 1 \in Here
  <2>1. (Len(acted) + 1) - 1 = Len(acted) /\ Len(acted) + 1 \in 1..Len(ends)
    BY <1>1, <1>6
  <2>2. QED
    BY <2>1 DEF Here, WireInv, ReadInv
<1>7. QED
  BY <1>2, <1>3, <1>4, <1>5, <1>6

(* Whoever neither reads nor says anything leaves it so.                   *)
LEMMA QuietKeepsRead ==
  ASSUME WireInv,
         UNCHANGED <<ends, written, base, inlen, acted, told_error, why>>,
         pc' # "parsing" => pc # "parsing",
         closed' \in BOOLEAN, state' \in {"well", "stuck", "leaving", "gone"},
         why # 0 => state' \in {"leaving", "gone"}
  PROVE  WireInv'
  BY DEF WireInv, ReadTyped, EndsInv, ReadInv, WhyInv, EndOf, SizeOf

LEMMA StepKeepsRead == StreamInv /\ WireInv /\ [Next]_vars => WireInv'
<1> SUFFICES ASSUME StreamInv, WireInv, [Next]_vars
             PROVE  WireInv'
  OBVIOUS
<1>0. /\ ReadTyped /\ Len(ends) \in Nat /\ Len(acted) \in Nat /\ Len(acted) <= Len(ends)
      /\ base \in Nat /\ inlen \in Nat /\ written \in Nat /\ Header \in Nat /\ INBUF \in Nat
      /\ \A k \in 0..Len(ends) : EndOf(k) \in Nat
      /\ base + inlen <= written /\ written <= EndOf(Len(ends))
  BY EndsAreNat, WireAssumption DEF WireInv, ReadTyped, ReadInv
<1>1. CASE Message \/ Enough \/ Send \/ Again \/ Retry \/ Refused \/ SendReturns
  BY <1>1, QuietKeepsRead DEF Message, Enough, Send, Again, Full, Retry, Refused, SendReturns, server,
     WireInv, ReadTyped, WhyInv
<1>2. CASE LastLook \/ Says \/ UNCHANGED vars
  <2>1. /\ UNCHANGED <<ends, written, base, inlen, acted, told_error, why, closed, state>>
        /\ pc' # "parsing" => pc # "parsing"
    <3>1. CASE LastLook
      BY <3>1 DEF LastLook, Looks, server
    <3>2. CASE Says
      BY <3>2 DEF Says, server
    <3>3. CASE UNCHANGED vars
      BY <3>3 DEF vars, client, server
    <3>4. QED
      BY <1>2, <3>1, <3>2, <3>3
  <2>2. closed \in BOOLEAN /\ state \in {"well", "stuck", "leaving", "gone"}
        /\ (why # 0 => state \in {"leaving", "gone"})
    BY DEF WireInv, ReadTyped, WhyInv
  <2>3. QED
    BY <2>1, <2>2, QuietKeepsRead
<1>3. CASE ReceiveEnd
  BY <1>3, QuietKeepsRead DEF ReceiveEnd, server, StreamInv, StreamTyped, WireInv, ReadTyped, WhyInv
<1>4. CASE Take \/ Leave \/ Stick
  BY <1>4, QuietKeepsRead DEF Take, Leave, Stick, client, WireInv, ReadTyped, WhyInv
<1>5. CASE Receive
  <2>1. inlen < INBUF
    <3>1. CASE Len(acted) < Len(ends)
      <4>1. PICK k \in 1..Len(ends) : k = Len(acted) + 1
        BY <1>0, <3>1
      <4>2. inlen < SizeOf(k) /\ SizeOf(k) \in Header..INBUF
        BY <1>5, <3>1, <4>1, NextIsHere DEF Receive, WireInv, ReadInv
      <4>3. QED
        BY <1>0, <4>2
    <3>2. CASE Len(acted) = Len(ends)
      <4>1. inlen = 0 /\ base = written
        BY <3>2, NextIsHere
      <4>2. Waiting = 0
        BY <1>0, <4>1 DEF Waiting
      <4>3. QED
        BY <1>5, <4>2 DEF Receive
    <3>3. QED
      BY <1>0, <3>1, <3>2
  <2>2. PICK n \in 1..Waiting : inlen' = inlen + n /\ base' = base
    BY <1>0, <1>5, <2>1 DEF Receive
  <2>3. pc' = "parsing" /\ UNCHANGED <<closed, told_error, acted, ends, written, state, why>>
    BY <1>5 DEF Receive, server
  <2>4. inlen' \in Nat /\ base' + inlen' <= written'
    BY <1>0, <2>2, <2>3 DEF Waiting
  <2>5. QED
    BY <1>0, <2>2, <2>3, <2>4 DEF WireInv, ReadTyped, EndsInv, ReadInv, WhyInv, EndOf, SizeOf
<1>6. CASE Parse
  <2>1. PICK k \in Here :
          /\ inlen >= SizeOf(k) /\ acted' = Append(acted, k)
          /\ told_error' = (told_error \/ k = why)
          /\ base' = base + SizeOf(k) /\ inlen' = inlen - SizeOf(k)
    BY <1>6 DEF Parse
  <2>2. /\ k = Len(acted) + 1 /\ k \in 1..Len(ends) /\ k \in Nat
        /\ SizeOf(k) \in Nat /\ EndOf(k) = base + SizeOf(k)
    <3>1. k = Len(acted) + 1 /\ k \in 1..Len(ends)
      BY NextIsHere DEF Here
    <3>2. QED
      BY <1>0, <3>1, NextIsHere
  <2>3. pc' = "parsing" /\ UNCHANGED <<closed, ends, written, state, why>>
    BY <1>6 DEF Parse, server
  <2>4. /\ acted' \in Seq(Nat) /\ Len(acted') = k /\ acted'[k] = k
        /\ \A i \in 1..Len(acted) : acted'[i] = acted[i]
    BY <2>1, <2>2, AppendProperties DEF WireInv, ReadTyped
  <2>5. \A i \in 1..k : acted'[i] = i
    <3>1. \A i \in 1..Len(acted) : acted'[i] = i
      BY <2>4 DEF WireInv, ReadInv
    <3>2. QED
      BY <1>0, <2>2, <2>4, <3>1
  <2>6. base' = EndOf(k)' /\ inlen' \in Nat /\ base' \in Nat /\ base' + inlen' = base + inlen
    <3>1. EndOf(k)' = EndOf(k)
      BY <2>3 DEF EndOf
    <3>2. QED
      BY <1>0, <2>1, <2>2, <3>1, SMTT(30)
  <2>7. EndsInv' /\ EndOf(Len(ends))' = EndOf(Len(ends))
    BY <2>3 DEF WireInv, EndsInv, SizeOf, EndOf
  <2>8. ReadTyped'
    BY <2>1, <2>3, <2>4, <2>6 DEF WireInv, ReadTyped
  <2>9. ReadInv'
    <3>1. base' = EndOf(Len(acted))'
      BY <2>4, <2>6 DEF EndOf
    <3>2. Len(acted)' <= Len(ends)' /\ base' + inlen' <= written' /\ written' <= EndOf(Len(ends))'
      BY <1>0, <2>2, <2>3, <2>4, <2>6, <2>7
    <3>3. QED
      BY <2>3, <2>4, <2>5, <3>1, <3>2 DEF ReadInv
  <2>10. WhyInv'
    <3>1. why # 0 => why = Len(ends) /\ state \in {"leaving", "gone"}
      BY DEF WireInv, WhyInv
    <3>2. ASSUME why # 0, why <= k
          PROVE  told_error'
      <4>1. CASE why = k
        BY <2>1, <4>1
      <4>2. CASE why <= Len(acted)
        BY <2>1, <3>2, <4>2 DEF WireInv, WhyInv
      <4>3. QED
        BY <1>0, <2>2, <3>1, <3>2, <4>1, <4>2
    <3>3. QED
      BY <2>3, <2>4, <3>1, <3>2 DEF WhyInv
  <2>11. QED
    BY <2>7, <2>8, <2>9, <2>10 DEF WireInv
<1>7. CASE ParseWaits
  <2>1. ASSUME Len(acted) < Len(ends)
        PROVE  inlen < SizeOf(Len(acted) + 1)
    <3>1. PICK k \in 1..Len(ends) : k = Len(acted) + 1
      BY <1>0, <2>1
    <3>2. SizeOf(k) \in Header..INBUF
      BY NextIsHere
    <3>3. inlen < Header \/ inlen < SizeOf(k)
      BY <1>7, <3>1, NextIsHere DEF ParseWaits
    <3>4. QED
      BY <1>0, <3>1, <3>2, <3>3
  <2>2. pc' = "reading" /\ UNCHANGED <<closed, told_error, inlen, base, acted, server>>
    BY <1>7 DEF ParseWaits
  <2>3. QED
    BY <2>1, <2>2 DEF WireInv, ReadTyped, EndsInv, ReadInv, WhyInv, EndOf, SizeOf, server
<1>8. CASE Tell \/ TellWhy
  <2>1. PICK z \in Sizes : ends' = Append(ends, EndOf(Len(ends)) + z)
    BY <1>8 DEF Tell, TellWhy
  <2>2. /\ Len(ends) < MaxEvents /\ state = "well"
        /\ UNCHANGED <<pc, inlen, base, acted, closed, told_error, written>>
    BY <1>8 DEF Tell, TellWhy, client
  <2>3. /\ ends' \in Seq(Nat) /\ Len(ends') = Len(ends) + 1 /\ EndsInv'
        /\ \A k \in 0..Len(ends) : EndOf(k)' = EndOf(k)
        /\ \A k \in 1..Len(ends) : SizeOf(k)' = SizeOf(k)
        /\ \A k : k = Len(ends) + 1 => SizeOf(k)' = z /\ EndOf(k)' = EndOf(Len(ends)) + z
    BY <2>1, <2>2, EndsGrow DEF WireInv
  <2>4. z \in Nat /\ z > 0
    BY WireAssumption
  <2>5. why = 0 /\ (why' = 0 \/ (why' = Len(ends') /\ state' = "leaving")) /\ why' \in Nat
    BY <1>0, <1>8, <2>2, <2>3 DEF Tell, TellWhy, WireInv, WhyInv
  <2>6. state' \in {"well", "leaving"}
    BY <1>8, <2>2 DEF Tell, TellWhy
  <2>7. ReadTyped' /\ WhyInv'
    BY <1>0, <2>2, <2>3, <2>5, <2>6 DEF ReadTyped, WhyInv
  <2>8. base' = EndOf(Len(acted))'
    BY <1>0, <2>2, <2>3 DEF WireInv, ReadInv, EndOf
  <2>9. written' <= EndOf(Len(ends))'
    <3>1. \A k : k = Len(ends') => EndOf(k)' >= written
      BY <1>0, <2>3, <2>4, SMTT(30)
    <3>2. QED
      BY <2>2, <3>1
  <2>10. \A k : k = Len(acted) + 1 => inlen < SizeOf(k)' \/ pc = "parsing"
    <3>1. CASE Len(acted) = Len(ends)
      BY <2>3, <2>4, <3>1, NextIsHere
    <3>2. CASE Len(acted) < Len(ends)
      <4>1. Len(acted) + 1 \in 1..Len(ends)
        BY <1>0, <3>2
      <4>2. inlen < SizeOf(Len(acted) + 1) \/ pc = "parsing"
        BY <3>2 DEF WireInv, ReadInv
      <4>3. QED
        BY <2>3, <4>1, <4>2
    <3>3. QED
      BY <1>0, <3>1, <3>2
  <2>11. ReadInv'
    BY <1>0, <2>2, <2>3, <2>8, <2>9, <2>10 DEF WireInv, ReadInv
  <2>12. QED
    BY <2>3, <2>7, <2>11 DEF WireInv
<1>9. CASE Write
  <2>1. PICK n \in 1..Owed : written' = written + n
    BY <1>9 DEF Write
  <2>2. written' \in Nat /\ written' >= written /\ written' <= EndOf(Len(ends))
    BY <1>0, <2>1 DEF Owed
  <2>3. UNCHANGED <<pc, inlen, base, acted, closed, told_error, ends, state, why>>
    BY <1>9 DEF Write, client
  <2>4. ReadInv'
    BY <1>0, <2>2, <2>3 DEF WireInv, ReadInv, EndOf, SizeOf
  <2>5. QED
    BY <2>2, <2>3, <2>4 DEF WireInv, ReadTyped, EndsInv, WhyInv, EndOf, SizeOf
<1>10. QED
  BY <1>1, <1>2, <1>3, <1>4, <1>5, <1>6, <1>7, <1>8, <1>9 DEF Next, Client

LEMMA WireHolds == Spec => [](StreamInv /\ WireInv)
<1>1. Init => WireInv
  <2> SUFFICES ASSUME Init
               PROVE  WireInv
    OBVIOUS
  <2>1. /\ inlen = 0 /\ base = 0 /\ written = 0 /\ why = 0 /\ acted = << >> /\ ends = << >>
        /\ closed = FALSE /\ told_error = FALSE /\ state = "well"
    BY DEF Init
  <2>2. Len(acted) = 0 /\ Len(ends) = 0 /\ EndOf(0) = 0 /\ MaxEvents \in Nat
    BY <2>1, WireAssumption DEF EndOf
  <2>3. QED
    <3>1. ReadTyped /\ WhyInv
      <4>1. acted \in Seq(Nat) /\ ends \in Seq(Nat)
        BY <2>1, EmptySeq
      <4>2. why <= Len(acted) /\ why \in Nat
        BY <2>1, <2>2
      <4>3. QED
        BY <2>1, <4>1, <4>2 DEF ReadTyped, WhyInv
    <3>2. EndsInv /\ ReadInv
      BY <2>1, <2>2 DEF EndsInv, ReadInv
    <3>3. QED
      BY <3>1, <3>2 DEF WireInv
<1>2. StreamInv /\ WireInv /\ [Next]_vars => (StreamInv /\ WireInv)'
  BY StepKeepsInv, StepKeepsRead
<1>3. QED
  BY <1>1, <1>2, InitKeepsInv, PTL DEF Spec

(* read_events acts on every event once and in order, and on none before   *)
(* all of it is there, into whatever pieces the socket cuts them; and when *)
(* the socket is empty none that is there is left.                         *)
THEOREM InStepHolds == Spec => []InStep
<1>1. WireInv => InStep
  BY DEF WireInv, ReadInv, InStep
<1>2. QED
  BY <1>1, WireHolds, PTL

-----------------------------------------------------------------------------
(* How the run ends.  While a message is being sent to a compositor that   *)
(* is not stuck, each try is paid for by a socket's worth of what the      *)
(* compositor took or said; so TRIES that are enough for the longest       *)
(* message and all it may say are never used up.                           *)
EnoughTries == \A n \in Lengths : n + MaxEvents * INBUF <= TRIES * Room

Tried == tries * Room
Pace ==
  /\ done <= len
  /\ Tried <= done - Behind + Room + written
  /\ pc # "sending" => Tried <= done + written /\ done < len
  /\ pc = "retry" => Tried <= done - Behind + Room + base + inlen
PaceInv ==
  /\ tries \in Nat /\ taken \in Nat /\ Behind \in 0..Room
  /\ EndOf(Len(ends)) <= Len(ends) * INBUF
  /\ InMessage => len \in Lengths
  /\ InMessage /\ state \in {"well", "leaving"} => Pace

(* A connection is closed when all that was said is read; a compositor is  *)
(* given up that is stuck or has gone, and one that has gone is not done   *)
(* with before its socket is found closed.                                 *)
Ending == pc \in {"end", "said"} \/ (pc \in {"reading", "parsing"} /\ back = "end")
EndInv ==
  /\ closed \in BOOLEAN /\ stopped \in BOOLEAN
  /\ closed => state = "gone" /\ Waiting = 0 /\ pc # "parsing"
  /\ ~Ending => looks = 0
  /\ stopped => Ending /\ state \in {"stuck", "gone"}
  /\ stopped /\ ~closed /\ state = "gone" =>
       (pc = "end" /\ looks < DRAINS) \/ pc \in {"reading", "parsing"}

(* The room for what was not taken yet shrinks by what is sent.            *)
LEMMA SendFills ==
  ASSUME StreamInv, Send
  PROVE  \E n \in 1..(len - done) :
           done' = done + n /\ Len(stream') = Len(stream) + n /\ n <= Room - Behind
<1>1. PICK n \in 1..(len - done) :
        /\ n <= Room - Behind /\ done' = done + n
        /\ stream' = stream \o Bytes(n, fd /\ done = 0)
  BY DEF Send
<1>2. /\ stream \in Seq(Byte) /\ sent + 1 \in Nat /\ done \in Nat /\ len \in Nat /\ n \in Nat
      /\ n > 0 /\ fd \in BOOLEAN
  BY <1>1 DEF Send, StreamInv, StreamTyped, InMessage
<1> DEFINE first == fd /\ done = 0
           more == Bytes(n, first)
<1>3. first \in BOOLEAN /\ stream' = stream \o more
  BY <1>1 DEF first
<1> HIDE DEF first
<1>4. \A i \in 1..n : [of |-> This, at |-> done + i - 1, fd |-> first /\ i = 1] \in Byte
  BY <1>2, <1>3 DEF Byte, This
<1>5. more \in Seq(Byte) /\ Len(more) = n
  <2>1. n \in Nat
    BY <1>2
  <2>2. QED
    BY <2>1, <1>4 DEF Bytes
<1> HIDE DEF more
<1>6. Len(stream') = Len(stream) + n
  BY <1>2, <1>3, <1>5, ConcatProperties
<1>7. QED
  BY <1>1, <1>6

LEMMA StepKeepsPace == StreamInv /\ WireInv /\ PaceInv /\ [Next]_vars => PaceInv'
<1> SUFFICES ASSUME StreamInv, WireInv, PaceInv, [Next]_vars
             PROVE  PaceInv'
  OBVIOUS
<1>0. /\ ReadTyped /\ Len(ends) \in Nat /\ EndOf(Len(ends)) \in Nat /\ Len(stream) \in Nat
      /\ base \in Nat /\ inlen \in Nat /\ written \in Nat /\ done \in Nat /\ taken \in Nat
      /\ base + inlen <= written /\ written <= EndOf(Len(ends))
      /\ Room \in Nat \ {0} /\ INBUF \in Nat /\ Lengths \subseteq Nat \ {0}
      /\ tries \in Nat /\ Tried \in Nat /\ (InMessage => len \in Nat)
      /\ Behind \in 0..Room /\ Behind = Len(stream) - taken
  <2>1. Len(ends) \in Nat /\ EndOf(Len(ends)) \in Nat /\ Len(stream) \in Nat
    BY EndsAreNat, LenProperties DEF WireInv, StreamInv, StreamTyped
  <2>2. tries \in Nat /\ Room \in Nat \ {0} /\ Tried \in Nat
    BY WireAssumption DEF PaceInv, Tried
  <2>3. QED
    BY <2>1, <2>2, WireAssumption
       DEF WireInv, ReadTyped, ReadInv, StreamInv, StreamTyped, PaceInv, Behind
<1>1. CASE Message
  <2>1. /\ done' = 0 /\ tries' = 0 /\ len' \in Lengths /\ pc' = "sending"
        /\ UNCHANGED <<stream, taken, ends, written>>
    BY <1>1 DEF Message, server
  <2>2. Tried' = 0 /\ Behind' = Behind /\ EndOf(Len(ends))' = EndOf(Len(ends))
    BY <1>0, <2>1 DEF Tried, Behind, EndOf
  <2>3. Pace'
    BY <1>0, <2>1, <2>2 DEF Pace
  <2>4. QED
    BY <2>1, <2>2, <2>3 DEF PaceInv
<1>2. CASE Send
  <2>1. PICK n \in 1..(len - done) :
          done' = done + n /\ Len(stream') = Len(stream) + n /\ n <= Room - Behind
    BY <1>2, SendFills
  <2>2. /\ pc = "sending" /\ InMessage /\ InMessage'
        /\ UNCHANGED <<pc, len, tries, taken, ends, written, state>>
    BY <1>2 DEF Send, InMessage, server
  <2>3. /\ Behind' = Behind + n /\ Behind' \in 0..Room /\ done' <= len
        /\ Tried' = Tried /\ EndOf(Len(ends))' = EndOf(Len(ends))
    BY <1>0, <2>1, <2>2 DEF Behind, Tried, EndOf
  <2>4. Pace => Pace'
    BY <1>0, <2>1, <2>2, <2>3 DEF Pace
  <2>5. QED
    BY <2>2, <2>3, <2>4 DEF PaceInv
<1>3. CASE Again
  <2>1. /\ pc = "sending" /\ pc' = "reading" /\ Behind = Room /\ done < len /\ InMessage
        /\ UNCHANGED <<len, done, tries, inlen, base, stream, taken, ends, written, state>>
    BY <1>3 DEF Again, Full, InMessage, server
  <2>2. Tried' = Tried /\ Behind' = Behind /\ EndOf(Len(ends))' = EndOf(Len(ends))
    BY <2>1 DEF Tried, Behind, EndOf
  <2>3. Pace => Pace'
    BY <1>0, <2>1, <2>2 DEF Pace
  <2>4. QED
    BY <2>1, <2>2, <2>3 DEF PaceInv
<1>4. CASE Retry
  <2>1. /\ pc = "retry" /\ InMessage /\ tries' = tries + 1
        /\ (state \in {"stuck", "gone"} \/ ~CanGoOn) /\ pc' \in {"sending", "end"}
        /\ UNCHANGED <<len, done, inlen, base, stream, taken, ends, written, state>>
    BY <1>4 DEF Retry, InMessage, server
  <2>2. Tried' = Tried + Room /\ Behind' = Behind /\ EndOf(Len(ends))' = EndOf(Len(ends))
    BY <1>0, <2>1 DEF Tried, Behind, EndOf
  <2>3. ASSUME Pace, state \in {"well", "leaving"}, pc' = "sending"
        PROVE  Pace'
    <3>1. (Owed > 0 /\ ~(Waiting < Room)) \/ (~(Owed > 0) /\ ~(Owed = 0 /\ Behind > 0))
      BY <2>1, <2>3 DEF CanGoOn
    <3>2. (Waiting >= Room) \/ Behind = 0
      BY <1>0, <3>1 DEF Owed, Waiting
    <3>3. Tried <= done + written /\ Tried <= done - Behind + Room + base + inlen /\ done < len
      BY <2>1, <2>3 DEF Pace
    <3>4. Tried + Room <= done - Behind + Room + written
      BY <1>0, <3>2, <3>3 DEF Waiting
    <3>5. QED
      BY <1>0, <2>1, <2>2, <2>3, <3>3, <3>4 DEF Pace
  <2>4. InMessage' => pc' = "sending"
    BY <2>1 DEF InMessage
  <2>5. QED
    BY <1>0, <2>1, <2>2, <2>3, <2>4 DEF PaceInv
<1>5. CASE Receive \/ Parse \/ ParseWaits
  <2>1. /\ pc \in {"reading", "parsing"} /\ pc' \in {"reading", "parsing"}
        /\ UNCHANGED <<back, len, done, tries, stream, taken, ends, written, state>>
    BY <1>5 DEF Receive, Parse, ParseWaits, server
  <2>2. /\ Tried' = Tried /\ Behind' = Behind /\ EndOf(Len(ends))' = EndOf(Len(ends))
        /\ InMessage' = InMessage
    BY <2>1 DEF Tried, Behind, EndOf, InMessage
  <2>3. Pace => Pace'
    BY <2>1, <2>2 DEF Pace
  <2>4. QED
    BY <2>1, <2>2, <2>3 DEF PaceInv
<1>6. CASE ReceiveEnd
  <2>1. /\ pc = "reading" /\ pc' = back /\ written = base + inlen
        /\ UNCHANGED <<back, len, done, tries, inlen, base, stream, taken, ends, written, state>>
    BY <1>0, <1>6 DEF ReceiveEnd, Waiting, server
  <2>2. Tried' = Tried /\ Behind' = Behind /\ EndOf(Len(ends))' = EndOf(Len(ends))
    BY <2>1 DEF Tried, Behind, EndOf
  <2>3. InMessage' => InMessage /\ pc' = "retry"
    BY <2>1 DEF InMessage, StreamInv, StreamTyped
  <2>4. ASSUME Pace, pc' = "retry"
        PROVE  Pace'
    BY <1>0, <2>1, <2>2, <2>4 DEF Pace
  <2>5. QED
    BY <2>1, <2>2, <2>3, <2>4 DEF PaceInv
<1>7. CASE Enough \/ Refused \/ SendReturns \/ LastLook \/ Says
  <2>1. ~InMessage' /\ UNCHANGED <<tries, stream, taken, ends>>
    BY <1>7 DEF Enough, Refused, SendReturns, LastLook, Says, InMessage, server
  <2>2. Behind' = Behind /\ EndOf(Len(ends))' = EndOf(Len(ends))
    BY <2>1 DEF Behind, EndOf
  <2>3. QED
    BY <2>1, <2>2 DEF PaceInv
<1>8. CASE Take
  <2>1. PICK n \in 1..Behind : taken' = taken + n
    BY <1>8 DEF Take
  <2>2. UNCHANGED <<pc, back, len, done, tries, inlen, base, stream, ends, written, state>>
    BY <1>8 DEF Take, client
  <2>3. /\ Behind' = Behind - n /\ Behind' \in 0..Room /\ taken' \in Nat /\ n \in Nat
        /\ Tried' = Tried /\ EndOf(Len(ends))' = EndOf(Len(ends)) /\ InMessage' = InMessage
    BY <1>0, <2>1, <2>2 DEF Behind, Tried, EndOf, InMessage
  <2>4. InMessage /\ Pace => Pace'
    BY <1>0, <2>2, <2>3, SMTT(30) DEF Pace
  <2>5. QED
    BY <2>2, <2>3, <2>4 DEF PaceInv
<1>9. CASE Tell \/ TellWhy
  <2>1. PICK z \in Sizes : ends' = Append(ends, EndOf(Len(ends)) + z)
    BY <1>9 DEF Tell, TellWhy
  <2>2. /\ Len(ends) < MaxEvents /\ state = "well"
        /\ UNCHANGED <<pc, back, len, done, tries, inlen, base, stream, taken, written>>
    BY <1>9 DEF Tell, TellWhy, client
  <2>3. /\ Len(ends') = Len(ends) + 1
        /\ \A k : k = Len(ends) + 1 => EndOf(k)' = EndOf(Len(ends)) + z
    BY <2>1, <2>2, EndsGrow DEF WireInv
  <2>4. z \in Nat /\ z <= INBUF
    BY WireAssumption
  <2>5. EndOf(Len(ends))' <= Len(ends)' * INBUF
    <3>1. EndOf(Len(ends)) <= Len(ends) * INBUF
      BY DEF PaceInv
    <3>2. (Len(ends) + 1) * INBUF = Len(ends) * INBUF + INBUF /\ Len(ends) * INBUF \in Nat
      BY <1>0
    <3>3. EndOf(Len(ends))' = EndOf(Len(ends)) + z
      BY <1>0, <2>3 DEF EndOf
    <3>4. EndOf(Len(ends)) + z <= Len(ends) * INBUF + INBUF
      BY <1>0, <2>4, <3>1, <3>2
    <3>5. QED
      BY <2>3, <3>2, <3>3, <3>4
  <2>6. Tried' = Tried /\ Behind' = Behind /\ InMessage' = InMessage /\ (Pace => Pace')
    BY <2>2 DEF Tried, Behind, InMessage, Pace
  <2>7. QED
    BY <2>2, <2>5, <2>6 DEF PaceInv
<1>10. CASE Write
  <2>1. PICK n \in 1..Owed : written' = written + n
    BY <1>10 DEF Write
  <2>2. UNCHANGED <<pc, back, len, done, tries, inlen, base, stream, taken, ends, state>>
    BY <1>10 DEF Write, client
  <2>3. /\ written' \in Nat /\ written' >= written
        /\ Tried' = Tried /\ Behind' = Behind /\ EndOf(Len(ends))' = EndOf(Len(ends))
        /\ InMessage' = InMessage
    BY <1>0, <2>1, <2>2 DEF Owed, Behind, Tried, EndOf, InMessage
  <2>4. ASSUME InMessage, Pace
        PROVE  Pace'
    <3>0. Tried <= done - Behind + Room + written
      BY <2>4 DEF Pace
    <3>1. Tried <= done - Behind + Room + written'
      <4> DEFINE r == done - Behind + Room
      <4>0. \A t, d, w, x \in Int : t <= d + w /\ w <= x => t <= d + x
        OBVIOUS
      <4>1. r \in Int /\ Tried \in Int /\ written \in Int /\ written' \in Int
        BY <1>0, <2>3
      <4>2. Tried <= r + written /\ written <= written'
        BY <2>3, <3>0
      <4> HIDE DEF r
      <4>3. Tried <= r + written'
        BY <4>1, <4>2, <4>0
      <4>4. QED
        BY <4>3 DEF r
    <3>2. pc # "sending" => Tried <= done + written /\ done < len
      BY <2>4 DEF Pace
    <3>3. \A t, d, w, x \in Nat : t <= d + w /\ x >= w => t <= d + x
      OBVIOUS
    <3>4. pc # "sending" => Tried <= done + written'
      BY <1>0, <2>3, <3>2, <3>3
    <3>5. QED
      BY <2>2, <2>3, <2>4, <3>1, <3>2, <3>4 DEF Pace
  <2>5. QED
    BY <2>2, <2>3, <2>4 DEF PaceInv
<1>11. CASE Leave \/ Stick
  <2>1. /\ state' \in {"gone", "stuck"}
        /\ UNCHANGED <<pc, back, len, tries, stream, taken, ends>>
    BY <1>11 DEF Leave, Stick, client
  <2>2. Behind' = Behind /\ EndOf(Len(ends))' = EndOf(Len(ends)) /\ InMessage' = InMessage
    BY <2>1 DEF Behind, EndOf, InMessage
  <2>3. QED
    BY <2>1, <2>2 DEF PaceInv
<1>12. CASE UNCHANGED vars
  <2>1. UNCHANGED <<pc, back, len, done, tries, inlen, base, stream, taken, ends, written, state>>
    BY <1>12 DEF vars, client, server
  <2>2. /\ Tried' = Tried /\ Behind' = Behind /\ EndOf(Len(ends))' = EndOf(Len(ends))
        /\ InMessage' = InMessage /\ (Pace => Pace')
    BY <2>1 DEF Tried, Behind, EndOf, InMessage, Pace
  <2>3. QED
    BY <2>1, <2>2 DEF PaceInv
<1>13. QED
  BY <1>1, <1>2, <1>3, <1>4, <1>5, <1>6, <1>7, <1>8, <1>9, <1>10, <1>11, <1>12 DEF Next, Client

(* So a message is given up when the compositor is stuck or has gone.      *)
LEMMA GivenUpForCause ==
  ASSUME EnoughTries, StreamInv, WireInv, PaceInv, PaceInv', Retry, stopped'
  PROVE  state \in {"stuck", "gone"}
<1> SUFFICES ASSUME state \in {"well", "leaving"}
             PROVE  FALSE
  BY DEF WireInv, ReadTyped
<1>1. /\ pc = "retry" /\ InMessage /\ tries' = tries + 1 /\ tries' > TRIES
      /\ ~CanGoOn
  BY DEF Retry, InMessage
<1>2. /\ Len(ends) \in Nat /\ Len(ends) <= MaxEvents /\ EndOf(Len(ends)) \in Nat
      /\ EndOf(Len(ends)) <= Len(ends) * INBUF /\ MaxEvents \in Nat /\ INBUF \in Nat
      /\ written \in Nat /\ written <= EndOf(Len(ends))
      /\ Room \in Nat \ {0} /\ TRIES \in Nat /\ tries \in Nat /\ len \in Lengths /\ len \in Nat
      /\ base \in Nat /\ inlen \in Nat /\ base + inlen <= written
      /\ done \in Nat /\ Behind \in Nat
  <2>1. Len(ends) \in Nat /\ EndOf(Len(ends)) \in Nat
    BY EndsAreNat DEF WireInv
  <2>2. QED
    BY <1>1, <2>1, WireAssumption
       DEF WireInv, EndsInv, ReadInv, ReadTyped, PaceInv, StreamInv, StreamTyped
<1>3. Tried <= done + written /\ Tried <= done - Behind + Room + base + inlen /\ done < len
  BY <1>1 DEF PaceInv, Pace
<1>4. written <= MaxEvents * INBUF
  <2>1. Len(ends) * INBUF <= MaxEvents * INBUF
    <3>1. PICK d \in Nat : MaxEvents = Len(ends) + d
      BY <1>2
    <3>2. (Len(ends) + d) * INBUF = Len(ends) * INBUF + d * INBUF /\ d * INBUF \in Nat
      BY <1>2
    <3>3. QED
      BY <1>2, <3>1, <3>2
  <2>2. Len(ends) * INBUF \in Nat /\ MaxEvents * INBUF \in Nat
    BY <1>2
  <2>3. QED
    BY <1>2, <2>1, <2>2
<1>5. TRIES * Room <= Tried
  <2>1. PICK d \in Nat : tries = TRIES + d
    BY <1>1, <1>2
  <2>2. (TRIES + d) * Room = TRIES * Room + d * Room /\ d * Room \in Nat /\ TRIES * Room \in Nat
    BY <1>2
  <2>3. QED
    BY <2>1, <2>2 DEF Tried
<1>6. len + MaxEvents * INBUF <= TRIES * Room
  BY <1>2 DEF EnoughTries
<1>7. TRIES * Room \in Nat /\ MaxEvents * INBUF \in Nat /\ Tried \in Nat
  BY <1>2 DEF Tried
<1>8. QED
  BY <1>2, <1>3, <1>4, <1>5, <1>6, <1>7

LEMMA StepKeepsEnd ==
  ASSUME EnoughTries, StreamInv, WireInv, PaceInv, PaceInv', EndInv, [Next]_vars
  PROVE  EndInv'
<1>0. /\ base \in Nat /\ inlen \in Nat /\ written \in Nat /\ DRAINS \in Nat \ {0}
      /\ closed \in BOOLEAN /\ stopped \in BOOLEAN
      /\ back \in {"retry", "message", "end"}
  BY WireAssumption DEF WireInv, ReadTyped, EndInv, StreamInv, StreamTyped
<1>1. CASE Message \/ Send \/ Again
  <2>1. ~Ending /\ ~Ending' /\ pc' # "parsing"
    BY <1>1 DEF Message, Send, Again, Full, Ending
  <2>2. UNCHANGED <<looks, closed, stopped, inlen, base, written, state>>
    BY <1>1 DEF Message, Send, Again, server
  <2>3. QED
    BY <2>1, <2>2 DEF EndInv, Waiting
<1>2. CASE Enough \/ SendReturns
  <2>1. ~Ending /\ pc' # "parsing"
    BY <1>2 DEF Enough, SendReturns, Ending
  <2>2. UNCHANGED <<looks, closed, stopped, inlen, base, written, state>>
    BY <1>2 DEF Enough, SendReturns, server
  <2>3. QED
    BY <2>1, <2>2 DEF EndInv, Waiting
<1>3. CASE Retry
  <2>1. /\ ~Ending /\ pc' # "parsing" /\ (stopped' => pc' = "end") /\ stopped' \in BOOLEAN
        /\ UNCHANGED <<looks, closed, inlen, base, written, state>>
    BY <1>3 DEF Retry, Ending, server
  <2>2. stopped' => state \in {"stuck", "gone"}
    BY <1>3, GivenUpForCause
  <2>3. looks = 0 /\ looks' = 0 /\ 0 < DRAINS /\ Waiting' = Waiting /\ (stopped' => Ending')
    BY <1>0, <2>1 DEF EndInv, Waiting, Ending
  <2>4. QED
    BY <1>0, <2>1, <2>2, <2>3 DEF EndInv
<1>4. CASE Refused
  <2>1. /\ ~Ending /\ Ending' /\ pc' = "end" /\ state = "gone" /\ stopped' = TRUE
        /\ UNCHANGED <<looks, closed, inlen, base, written, state>>
    BY <1>4 DEF Refused, Ending, server
  <2>2. looks = 0 /\ looks' = 0 /\ 0 < DRAINS /\ Waiting' = Waiting
    BY <1>0, <2>1 DEF EndInv, Waiting
  <2>3. QED
    BY <1>0, <2>1, <2>2 DEF EndInv
<1>5. CASE Receive \/ Parse \/ ParseWaits
  <2>1. /\ pc \in {"reading", "parsing"} /\ pc' \in {"reading", "parsing"}
        /\ Ending' = Ending
        /\ UNCHANGED <<looks, closed, stopped, written, state>>
    BY <1>5 DEF Receive, Parse, ParseWaits, server, Ending
  <2>2. closed => pc' = "reading" /\ UNCHANGED <<base, inlen>>
    BY <1>5 DEF Receive, Parse, ParseWaits, EndInv
  <2>3. QED
    BY <2>1, <2>2 DEF EndInv, Waiting
<1>6. CASE ReceiveEnd
  <2>1. /\ pc = "reading" /\ pc' = back /\ ~closed /\ Waiting = 0 /\ closed' = (state = "gone")
        /\ UNCHANGED <<back, looks, stopped, inlen, base, written, state>>
    BY <1>6 DEF ReceiveEnd, server
  <2>2. Waiting' = 0 /\ Ending' = Ending /\ pc' # "parsing"
    BY <1>0, <2>1 DEF Waiting, Ending
  <2>3. QED
    BY <2>1, <2>2 DEF EndInv
<1>7. CASE LastLook
  <2>1. /\ ~closed /\ Ending /\ Ending' /\ pc' = "reading"
        /\ UNCHANGED <<closed, stopped, inlen, base, written, state>>
    BY <1>7 DEF LastLook, Looks, Ending, server
  <2>2. QED
    BY <2>1 DEF EndInv, Waiting
<1>8. CASE Says
  <2>1. /\ Ending /\ Ending' /\ pc' = "said" /\ pc = "end" /\ (closed \/ ~(looks < DRAINS))
        /\ UNCHANGED <<looks, closed, stopped, inlen, base, written, state>>
    BY <1>8 DEF Says, Looks, Ending, server
  <2>2. QED
    BY <2>1 DEF EndInv, Waiting
<1>9. CASE Take \/ Tell \/ TellWhy \/ Write \/ Leave \/ Stick
  <2>1. /\ state \in {"well", "leaving"} /\ UNCHANGED <<pc, back, looks, closed, stopped>>
    BY <1>9 DEF Take, Tell, TellWhy, Write, Leave, Stick, client
  <2>2. ~closed /\ ~stopped /\ Ending' = Ending
    BY <2>1 DEF EndInv, Ending
  <2>3. QED
    BY <2>1, <2>2 DEF EndInv
<1>10. CASE UNCHANGED vars
  <2>1. UNCHANGED <<pc, back, looks, closed, stopped, inlen, base, written, state>>
    BY <1>10 DEF vars, client, server
  <2>2. QED
    BY <2>1 DEF EndInv, Ending, Waiting
<1>11. QED
  BY <1>1, <1>2, <1>3, <1>4, <1>5, <1>6, <1>7, <1>8, <1>9, <1>10 DEF Next, Client

(* A compositor that says why it throws the fuzzer out, and could say all  *)
(* of it, is quoted, also when it is found gone in the middle of a         *)
(* message: what it said is read to its end before the run is summed up.   *)
(* There have to be tries enough; the code has 2000 for messages and       *)
(* events that each fit a socket.                                          *)
THEOREM SaysWhyHolds == EnoughTries => (Spec => []SaysWhy)
<1> SUFFICES ASSUME EnoughTries
             PROVE  Spec => []SaysWhy
  OBVIOUS
<1>1. Init => PaceInv /\ EndInv
  <2> SUFFICES ASSUME Init
               PROVE  PaceInv /\ EndInv
    OBVIOUS
  <2>1. /\ pc = "message" /\ looks = 0 /\ closed = FALSE /\ stopped = FALSE /\ tries = 0
        /\ taken = 0 /\ stream = << >> /\ ends = << >> /\ state = "well"
    BY DEF Init
  <2>2. Len(stream) = 0 /\ Len(ends) = 0 /\ EndOf(0) = 0 /\ 0 * INBUF = 0 /\ Room \in Nat
    BY <2>1, WireAssumption DEF EndOf
  <2>3. PaceInv
    BY <2>1, <2>2 DEF PaceInv, InMessage, Behind
  <2>4. EndInv
    BY <2>1 DEF EndInv, Ending
  <2>5. QED
    BY <2>3, <2>4
<1>2. StreamInv /\ WireInv /\ PaceInv /\ EndInv /\ [Next]_vars => (PaceInv /\ EndInv)'
  BY StepKeepsPace, StepKeepsEnd
<1>3. StreamInv /\ WireInv /\ EndInv => SaysWhy
  <2> SUFFICES ASSUME StreamInv, WireInv, EndInv, pc = "said", why # 0, Owed = 0, closed \/ stopped
               PROVE  told_error
    BY DEF SaysWhy
  <2>1. why = Len(ends) /\ state \in {"leaving", "gone"} /\ (why <= Len(acted) => told_error)
    BY DEF WireInv, WhyInv
  <2>2. /\ Len(ends) \in Nat /\ Len(acted) \in Nat /\ Len(acted) <= Len(ends)
        /\ \A k \in 0..Len(ends) : EndOf(k) \in Nat
        /\ base \in Nat /\ inlen \in Nat /\ written \in Nat
    BY EndsAreNat DEF WireInv, ReadInv, ReadTyped
  <2>3. CASE closed
    <3>1. written = base + inlen /\ written = EndOf(Len(ends))
      BY <2>2, <2>3 DEF EndInv, Waiting, Owed
    <3>2. ASSUME Len(acted) < Len(ends)
          PROVE  FALSE
      <4>1. PICK k \in 1..Len(ends) : k = Len(acted) + 1
        BY <2>2, <3>2
      <4>2. EndOf(k) = base + SizeOf(k) /\ inlen < SizeOf(k) /\ SizeOf(k) \in Nat
        BY <3>2, <4>1, NextIsHere DEF WireInv, ReadInv
      <4>3. EndOf(k) <= EndOf(Len(ends))
        <5>1. k = Len(ends) \/ k < Len(ends)
          BY <2>2
        <5>2. QED
          BY <2>2, <5>1 DEF WireInv, EndsInv
      <4>4. QED
        BY <2>2, <3>1, <4>2, <4>3
    <3>3. QED
      BY <2>1, <2>2, <3>2
  <2>4. CASE stopped /\ ~closed
    <3>1. state = "gone"
      BY <2>1, <2>4 DEF EndInv
    <3>2. QED
      BY <2>4, <3>1 DEF EndInv
  <2>5. QED
    BY <2>3, <2>4
<1>4. QED
  BY <1>1, <1>2, <1>3, WireHolds, PTL DEF Spec

-----------------------------------------------------------------------------
(***************************************************************************)
(* The list of objects.  An id is given to one object, so there is one     *)
(* kind it has, had or is to have: T.  The requests on their way are all   *)
(* as they were meant, and the list is what there will be once they are    *)
(* taken; or the first n are, and the next is to be refused, after which   *)
(* nothing is taken any more.  Every step of either side keeps this        *)
(* (Matches below), and when the queues are empty it says the two agree.   *)
(* What the tables of the fuzzer say of a request, and what the protocols  *)
(* say of it, has to be the same for that: this comes first.               *)
(***************************************************************************)

(* Where a request of this kind has its new id, if it has one.             *)
NewAt(kind) == IF kind = "registry" THEN 4 ELSE 1
(* A request of the fuzzer's tables has one new id at most.                *)
OneNew(kind, r) ==
  /\ Len(r.sig) \in Nat
  /\ \A i \in 1..Len(r.sig) : r.sig[i] = "n" => i = NewAt(kind)
  /\ r.makes = K_NONE => kind = "registry" \/ \A i \in 1..Len(r.sig) : r.sig[i] # "n"
  /\ r.makes # K_NONE => /\ r.makes \in Kinds /\ kind # "registry" /\ ~r.destroys
                       /\ 1 <= Len(r.sig) /\ r.sig[1] = "n"
(* So has a message of the protocols.                                      *)
FormRight(kind, f) ==
  /\ Len(f.args) \in Nat
  /\ \A i \in 1..Len(f.args) :
       f.args[i].letter = "n" => i = NewAt(kind) /\ (kind = "registry" \/ f.args[i].kind \in Kinds)
(* And what a request is made to be is what it is taken for.               *)
SameForm(kind, r, f) ==
  /\ f.destroys <=> r.destroys
  /\ r.makes = K_NONE => kind = "registry" \/ \A i \in 1..Len(f.args) : f.args[i].letter # "n"
  /\ r.makes # K_NONE => 1 <= Len(f.args) /\ f.args[1] = Arg("n", r.makes)

(* The kinds, one by one.                                                  *)
LEMMA AllKinds == Kinds = {"display", "registry", "compositor", "shm", "pool", "buffer",
  "surface", "region", "wm_base", "xdg_surface", "toplevel", "positioner", "seat", "pointer",
  "keyboard", "touch", "output", "ddm", "source", "device", "offer", "deco_mgr", "deco",
  "callback", "popup"}
  BY DEF Kinds, ifaces

(* A sequence written as a function on 1..n.                               *)
LEMMA LenOfFunction ==
  ASSUME NEW n \in Nat, NEW Op(_)
  PROVE  /\ Len([i \in 1..n |-> Op(i)]) = n
         /\ DOMAIN [i \in 1..n |-> Op(i)] = 1..n
         /\ \A i \in 1..n : [j \in 1..n |-> Op(j)][i] = Op(i)
  <1> DEFINE S == {Op(i) : i \in 1..n}
  <1>1. [i \in 1..n |-> Op(i)] \in [1..n -> S]
    OBVIOUS
  <1>2. [i \in 1..n |-> Op(i)] \in Seq(S)
    BY <1>1
  <1> QED
    BY <1>2, LenProperties

(* A signature without a new id, and one that begins with its only one.    *)
NoNew(sig) == Len(sig) \in Nat /\ \A i \in 1..Len(sig) : sig[i] # "n"
NewFirst(sig) ==
  Len(sig) \in Nat /\ 1 <= Len(sig) /\ sig[1] = "n" /\ \A i \in 1..Len(sig) : i # 1 => sig[i] # "n"

(* Whatever a row of the fuzzer's tables is made with has one new id at    *)
(* most, if its signature has.                                             *)
LEMMA ShapesRight ==
  /\ \A kind, sig, obj : NoNew(sig) => OneNew(kind, Req(sig, K_NONE, obj))
  /\ \A kind, sig : NoNew(sig) => OneNew(kind, Plain(sig))
  /\ \A kind, sig, obj, made :
       made \in Kinds /\ NewFirst(sig) /\ kind # "registry" => OneNew(kind, Req(sig, made, obj))
  /\ \A kind, made : made \in Kinds /\ kind # "registry" => OneNew(kind, Makes(made))
  /\ \A kind : OneNew(kind, DESTRUCTOR)
  <1>1. K_NONE \notin Kinds
    BY AllKinds DEF K_NONE
  <1>2. NewFirst(<<"n">>) /\ NoNew(<< >>)
    BY DEF NewFirst, NoNew
  <1>3. \A kind, sig, obj : NoNew(sig) => OneNew(kind, Req(sig, K_NONE, obj))
    BY DEF OneNew, NoNew, Req
  <1>4. \A kind, sig, obj, made :
          made \in Kinds /\ NewFirst(sig) /\ kind # "registry" => OneNew(kind, Req(sig, made, obj))
    BY <1>1 DEF OneNew, NewFirst, Req, NewAt
  <1>5. \A kind : OneNew(kind, DESTRUCTOR)
    BY <1>2 DEF OneNew, NoNew, DESTRUCTOR
  <1>6. \A kind, sig : NoNew(sig) => OneNew(kind, Plain(sig))
    BY <1>3 DEF Plain
  <1>7. \A kind, made : made \in Kinds /\ kind # "registry" => OneNew(kind, Makes(made))
    BY <1>4, <1>2 DEF Makes
  <1> QED
    BY <1>3, <1>4, <1>5, <1>6, <1>7

(* The signatures in the tables do.                                        *)
LEMMA SigsRight ==
  /\ NoNew(<< >>) /\ NoNew(<<"i">>) /\ NoNew(<<"i", "i">>) /\ NoNew(I4) /\ NoNew(<<"u">>)
  /\ NoNew(<<"O">>) /\ NoNew(<<"O", "i", "i">>) /\ NoNew(<<"s">>) /\ NoNew(<<"o", "u", "i", "i">>)
  /\ NoNew(<<"o", "u">>) /\ NoNew(<<"o", "u", "u">>) /\ NoNew(<<"u", "O", "i", "i">>)
  /\ NoNew(<<"O", "o", "O", "u">>) /\ NoNew(<<"O", "u">>) /\ NoNew(<<"u", "S">>)
  /\ NoNew(<<"s", "h">>) /\ NoNew(<<"u", "u">>) /\ NoNew(<<"?o">>)
  /\ NewFirst(<<"n">>) /\ NewFirst(<<"n", "h", "i">>) /\ NewFirst(<<"n">> \o I4 \o <<"u">>)
  /\ NewFirst(<<"n", "o">>) /\ NewFirst(<<"n", "O", "o">>) /\ NewFirst(<<"n", "?o", "o">>)
  BY DEF NoNew, NewFirst, I4

(* So every row of the fuzzer's tables has one new id at most.             *)
LEMMA TablesRight ==
  \A kind \in DOMAIN ifaces :
    /\ Len(ifaces[kind]) \in Nat
    /\ \A op \in 1..Len(ifaces[kind]) : OneNew(kind, ifaces[kind][op])
  <1>2. \A op \in 1..Len(registry_reqs) : OneNew("registry", registry_reqs[op])
    BY DEF registry_reqs, OneNew, Plain, Req, NewAt, K_NONE
  <1>0. {"callback", "registry", "surface", "region", "pool", "buffer", "positioner", "xdg_surface",
         "popup", "toplevel", "pointer", "keyboard", "touch", "source", "device", "deco"}
           \subseteq Kinds
    BY AllKinds
  <1> USE SigsRight, ShapesRight, <1>0
  <1>1. \A op \in 1..Len(display_reqs) : OneNew("display", display_reqs[op])
    BY DEF display_reqs
  <1>3. \A op \in 1..Len(compositor_reqs) : OneNew("compositor", compositor_reqs[op])
    BY DEF compositor_reqs
  <1>4. \A op \in 1..Len(shm_reqs) : OneNew("shm", shm_reqs[op])
    BY DEF shm_reqs
  <1>5. \A op \in 1..Len(pool_reqs) : OneNew("pool", pool_reqs[op])
    BY DEF pool_reqs
  <1>6. \A op \in 1..Len(buffer_reqs) : OneNew("buffer", buffer_reqs[op])
    BY DEF buffer_reqs
  <1>7. \A op \in 1..Len(surface_reqs) : OneNew("surface", surface_reqs[op])
    BY DEF surface_reqs
  <1>8. \A op \in 1..Len(region_reqs) : OneNew("region", region_reqs[op])
    BY DEF region_reqs
  <1>9. \A op \in 1..Len(wm_base_reqs) : OneNew("wm_base", wm_base_reqs[op])
    BY DEF wm_base_reqs
  <1>10. \A op \in 1..Len(xdg_surface_reqs) : OneNew("xdg_surface", xdg_surface_reqs[op])
    BY DEF xdg_surface_reqs
  <1>11. \A op \in 1..Len(toplevel_reqs) : OneNew("toplevel", toplevel_reqs[op])
    BY DEF toplevel_reqs
  <1>12. \A op \in 1..Len(positioner_reqs) : OneNew("positioner", positioner_reqs[op])
    BY DEF positioner_reqs
  <1>13. \A op \in 1..Len(seat_reqs) : OneNew("seat", seat_reqs[op])
    BY DEF seat_reqs
  <1>14. \A op \in 1..Len(pointer_reqs) : OneNew("pointer", pointer_reqs[op])
    BY DEF pointer_reqs
  <1>15. \A kind \in {"keyboard", "touch", "output"} :
           \A op \in 1..Len(release_only) : OneNew(kind, release_only[op])
    BY DEF release_only
  <1>16. \A op \in 1..Len(ddm_reqs) : OneNew("ddm", ddm_reqs[op])
    BY DEF ddm_reqs
  <1>17. \A op \in 1..Len(source_reqs) : OneNew("source", source_reqs[op])
    BY DEF source_reqs
  <1>18. \A op \in 1..Len(device_reqs) : OneNew("device", device_reqs[op])
    BY DEF device_reqs
  <1>19. \A op \in 1..Len(offer_reqs) : OneNew("offer", offer_reqs[op])
    BY DEF offer_reqs
  <1>20. \A op \in 1..Len(deco_mgr_reqs) : OneNew("deco_mgr", deco_mgr_reqs[op])
    BY DEF deco_mgr_reqs
  <1>21. \A op \in 1..Len(deco_reqs) : OneNew("deco", deco_reqs[op])
    BY DEF deco_reqs
  <1>22. \A kind \in DOMAIN ifaces : Len(ifaces[kind]) \in Nat
    BY DEF ifaces, display_reqs, registry_reqs, compositor_reqs, shm_reqs, pool_reqs, buffer_reqs,
           surface_reqs, region_reqs, wm_base_reqs, xdg_surface_reqs, toplevel_reqs,
           positioner_reqs, seat_reqs, pointer_reqs, release_only, ddm_reqs, source_reqs,
           device_reqs, offer_reqs, deco_mgr_reqs, deco_reqs
  <1> HIDE SigsRight, ShapesRight, <1>0
  <1>23. DOMAIN ifaces = {"display", "registry", "compositor", "shm", "pool", "buffer", "surface",
           "region", "wm_base", "xdg_surface", "toplevel", "positioner", "seat", "pointer",
           "keyboard", "touch", "output", "ddm", "source", "device", "offer", "deco_mgr", "deco"}
    BY DEF ifaces
  <1>24. /\ ifaces.display = display_reqs /\ ifaces.registry = registry_reqs
         /\ ifaces.compositor = compositor_reqs /\ ifaces.shm = shm_reqs
         /\ ifaces.pool = pool_reqs /\ ifaces.buffer = buffer_reqs
         /\ ifaces.surface = surface_reqs /\ ifaces.region = region_reqs
         /\ ifaces.wm_base = wm_base_reqs /\ ifaces.xdg_surface = xdg_surface_reqs
         /\ ifaces.toplevel = toplevel_reqs /\ ifaces.positioner = positioner_reqs
         /\ ifaces.seat = seat_reqs /\ ifaces.pointer = pointer_reqs
         /\ ifaces.keyboard = release_only /\ ifaces.touch = release_only
         /\ ifaces.output = release_only /\ ifaces.ddm = ddm_reqs
         /\ ifaces.source = source_reqs /\ ifaces.device = device_reqs
         /\ ifaces.offer = offer_reqs /\ ifaces.deco_mgr = deco_mgr_reqs
         /\ ifaces.deco = deco_reqs
    BY DEF ifaces
  <1>25. \A kind \in DOMAIN ifaces : \A op \in 1..Len(ifaces[kind]) : OneNew(kind, ifaces[kind][op])
    BY <1>1, <1>2, <1>3, <1>4, <1>5, <1>6, <1>7, <1>8, <1>9, <1>10, <1>11, <1>12, <1>13, <1>14,
       <1>15, <1>16, <1>17, <1>18, <1>19, <1>20, <1>21, <1>23, <1>24
  <1> QED
    BY <1>22, <1>25

(* What is in the protocols' own tables, as the compositor reads them.     *)
LEMMA ArgsRight ==
  ASSUME NEW messages, NEW types, NEW destructors, Len(messages) \in Nat,
         \A op \in 1..Len(messages) : Len(messages[op].sig) \in Nat
  PROVE  /\ Len(Args(messages, types, destructors)) = Len(messages)
         /\ \A op \in 1..Len(messages) :
              LET f == Args(messages, types, destructors)[op]
              IN /\ Len(f.args) = Len(messages[op].sig)
                 /\ \A i \in 1..Len(messages[op].sig) :
                      f.args[i] = Arg(messages[op].sig[i], types[messages[op].at + i])
                 /\ f.destroys <=> op \in destructors
  <1> DEFINE Part(op) == [i \in 1..Len(messages[op].sig) |->
                        Arg(messages[op].sig[i], types[messages[op].at + i])]
             F(op) == [args |-> Part(op), destroys |-> op \in destructors]
  <1>1. Args(messages, types, destructors) = [op \in 1..Len(messages) |-> F(op)]
    BY DEF Args
  <1>2. /\ Len([op \in 1..Len(messages) |-> F(op)]) = Len(messages)
        /\ \A op \in 1..Len(messages) : [o \in 1..Len(messages) |-> F(o)][op] = F(op)
    <2> HIDE DEF F
    <2> QED  BY LenOfFunction
  <1>3. ASSUME NEW op \in 1..Len(messages)
        PROVE  /\ Len(Part(op)) = Len(messages[op].sig)
               /\ \A i \in 1..Len(messages[op].sig) :
                    Part(op)[i] = Arg(messages[op].sig[i], types[messages[op].at + i])
    <2> DEFINE n == Len(messages[op].sig)
               G(i) == Arg(messages[op].sig[i], types[messages[op].at + i])
    <2>1. n \in Nat
      OBVIOUS
    <2>2. Part(op) = [i \in 1..n |-> G(i)]
      OBVIOUS
    <2>3. Len([i \in 1..n |-> G(i)]) = n /\ \A i \in 1..n : [j \in 1..n |-> G(j)][i] = G(i)
      <3> HIDE DEF G, n
      <3> QED  BY <2>1, LenOfFunction
    <2> QED
      BY <2>2, <2>3
  <1>4. \A op : F(op).args = Part(op) /\ (F(op).destroys <=> op \in destructors)
    OBVIOUS
  <1> HIDE DEF Part, F
  <1> QED
    BY <1>1, <1>2, <1>3, <1>4

(* The core protocol's messages are the fuzzer's rows of them, read letter *)
(* by letter.                                                              *)
LEMMA CoreRight ==
  ASSUME NEW reqs, Len(reqs) \in Nat,
         \A op \in 1..Len(reqs) : Len(reqs[op].sig) \in Nat
  PROVE  /\ Len(Core(reqs)) = Len(reqs)
         /\ \A op \in 1..Len(reqs) :
              /\ Len(Core(reqs)[op].args) = Len(reqs[op].sig)
              /\ \A i \in 1..Len(reqs[op].sig) :
                   /\ Core(reqs)[op].args[i].letter = Letter(reqs[op].sig[i])
                   /\ reqs[op].sig[i] = "n" => Core(reqs)[op].args[i] = Arg("n", reqs[op].makes)
              /\ Core(reqs)[op].destroys = reqs[op].destroys
  <1> DEFINE Piece(op, i) == Arg(Letter(reqs[op].sig[i]),
                             CASE reqs[op].sig[i] = "n" -> reqs[op].makes
                               [] reqs[op].sig[i] \in {"o", "O"} ->
                                    reqs[op].obj[ObjectAt(reqs[op].sig, i)]
                               [] OTHER -> K_NONE)
             Part(op) == [i \in 1..Len(reqs[op].sig) |-> Piece(op, i)]
             F(op) == [args |-> Part(op), destroys |-> reqs[op].destroys]
  <1>1. Core(reqs) = [op \in 1..Len(reqs) |-> F(op)]
    BY DEF Core
  <1>2. /\ Len([op \in 1..Len(reqs) |-> F(op)]) = Len(reqs)
        /\ \A op \in 1..Len(reqs) : [o \in 1..Len(reqs) |-> F(o)][op] = F(op)
    <2> HIDE DEF F
    <2> QED  BY LenOfFunction
  <1>3. ASSUME NEW op \in 1..Len(reqs)
        PROVE  /\ Len(Part(op)) = Len(reqs[op].sig)
               /\ \A i \in 1..Len(reqs[op].sig) : Part(op)[i] = Piece(op, i)
    <2> DEFINE n == Len(reqs[op].sig)
               G(i) == Piece(op, i)
    <2>1. n \in Nat
      OBVIOUS
    <2>2. Part(op) = [i \in 1..n |-> G(i)]
      OBVIOUS
    <2>3. Len([i \in 1..n |-> G(i)]) = n /\ \A i \in 1..n : [j \in 1..n |-> G(j)][i] = G(i)
      <3> HIDE DEF G, n
      <3> QED  BY <2>1, LenOfFunction
    <2> HIDE DEF Piece
    <2> QED
      BY <2>2, <2>3
  <1>4. \A op, i : /\ Piece(op, i).letter = Letter(reqs[op].sig[i])
                   /\ reqs[op].sig[i] = "n" => Piece(op, i) = Arg("n", reqs[op].makes)
    BY DEF Arg, Letter
  <1>5. \A op : F(op).args = Part(op) /\ F(op).destroys = reqs[op].destroys
    OBVIOUS
  <1> HIDE DEF Part, Piece, F
  <1> QED
    BY <1>1, <1>2, <1>3, <1>4, <1>5

(* The requests of the fuzzer's table, and those that it does not know.    *)
OneNewEach(messages, types) ==
  /\ Len(messages) \in Nat
  /\ \A op \in 1..Len(messages) :
       LET m == messages[op]
       IN NoNew(m.sig) \/ (NewFirst(m.sig) /\ types[m.at + 1] \in Kinds)
(* The rows the fuzzer has of an interface say what the scanned messages   *)
(* say.                                                                    *)
AgreesWith(messages, types, reqs) ==
  /\ Len(reqs) \in Nat /\ Len(reqs) <= Len(messages)
  /\ \A op \in 1..Len(reqs) :
       LET m == messages[op]
       IN /\ reqs[op].destroys <=> op = 1
          /\ reqs[op].makes = K_NONE => NoNew(m.sig)
          /\ reqs[op].makes # K_NONE => NewFirst(m.sig) /\ types[m.at + 1] = reqs[op].makes

(* The scanned protocols have one new id at most in a message, and agree   *)
(* with the fuzzer's rows.                                                 *)
LEMMA MessagesRight ==
  /\ OneNewEach(xdg_wm_base_requests, xdg_shell_types)
  /\ OneNewEach(xdg_positioner_requests, xdg_shell_types)
  /\ OneNewEach(xdg_surface_requests, xdg_shell_types)
  /\ OneNewEach(xdg_toplevel_requests, xdg_shell_types)
  /\ OneNewEach(xdg_popup_requests, xdg_shell_types)
  /\ OneNewEach(zxdg_decoration_manager_v1_requests, xdg_decoration_unstable_v1_types)
  /\ OneNewEach(zxdg_toplevel_decoration_v1_requests, xdg_decoration_unstable_v1_types)
  /\ AgreesWith(xdg_wm_base_requests, xdg_shell_types, wm_base_reqs)
  /\ AgreesWith(xdg_positioner_requests, xdg_shell_types, positioner_reqs)
  /\ AgreesWith(xdg_surface_requests, xdg_shell_types, xdg_surface_reqs)
  /\ AgreesWith(xdg_toplevel_requests, xdg_shell_types, toplevel_reqs)
  /\ AgreesWith(zxdg_decoration_manager_v1_requests, xdg_decoration_unstable_v1_types, deco_mgr_reqs)
  /\ AgreesWith(zxdg_toplevel_decoration_v1_requests, xdg_decoration_unstable_v1_types, deco_reqs)
  <1>0. /\ "positioner" \in Kinds /\ "xdg_surface" \in Kinds /\ "toplevel" \in Kinds
        /\ "popup" \in Kinds /\ "deco" \in Kinds
    BY AllKinds
  <1>a. /\ xdg_shell_types[5] = "positioner" /\ xdg_shell_types[6] = "xdg_surface"
        /\ xdg_shell_types[8] = "toplevel" /\ xdg_shell_types[9] = "popup"
    BY DEF xdg_shell_types
  <1>b. xdg_decoration_unstable_v1_types[2] = "deco"
    BY DEF xdg_decoration_unstable_v1_types
  <1>1. /\ OneNewEach(xdg_wm_base_requests, xdg_shell_types)
        /\ AgreesWith(xdg_wm_base_requests, xdg_shell_types,
                      wm_base_reqs)
    <2>1. /\ NoNew(<< >>) /\ NewFirst(<<"n">>)
          /\ NewFirst(<<"n", "o">>) /\ NoNew(<<"u">>)
      BY SigsRight
    <2>2. OneNewEach(xdg_wm_base_requests, xdg_shell_types)
      BY <1>0, <1>a, <2>1 DEF OneNewEach, xdg_wm_base_requests, Msg, Void
    <2>3. AgreesWith(xdg_wm_base_requests, xdg_shell_types,
                     wm_base_reqs)
      BY <1>0, <1>a, <2>1 DEF AgreesWith, xdg_wm_base_requests, Msg, Void,
             wm_base_reqs, Req, Plain,
             Makes, DESTRUCTOR, K_NONE
    <2> QED
      BY <2>2, <2>3
  <1>2. /\ OneNewEach(xdg_positioner_requests, xdg_shell_types)
        /\ AgreesWith(xdg_positioner_requests, xdg_shell_types,
                      positioner_reqs)
    <2>1. NoNew(<< >>) /\ NoNew(<<"i", "i">>) /\ NoNew(I4) /\ NoNew(<<"u">>)
      BY SigsRight
    <2>2. OneNewEach(xdg_positioner_requests, xdg_shell_types)
      BY <1>0, <1>a, <2>1 DEF OneNewEach, xdg_positioner_requests, Msg, Void
    <2>3. AgreesWith(xdg_positioner_requests, xdg_shell_types,
                     positioner_reqs)
      BY <1>0, <1>a, <2>1 DEF AgreesWith, xdg_positioner_requests, Msg, Void, positioner_reqs, Req, Plain,
             Makes, DESTRUCTOR, K_NONE
    <2> QED
      BY <2>2, <2>3
  <1>3. /\ OneNewEach(xdg_surface_requests, xdg_shell_types)
        /\ AgreesWith(xdg_surface_requests, xdg_shell_types,
                      xdg_surface_reqs)
    <2>1. /\ NoNew(<< >>) /\ NewFirst(<<"n">>) /\ NewFirst(<<"n", "?o", "o">>)
          /\ NoNew(I4) /\ NoNew(<<"u">>)
      BY SigsRight
    <2>2. OneNewEach(xdg_surface_requests, xdg_shell_types)
      BY <1>0, <1>a, <2>1 DEF OneNewEach, xdg_surface_requests, Msg, Void
    <2>3. /\ Len(xdg_surface_reqs) = 5
          /\ \A op \in 1..5 : xdg_surface_reqs[op].destroys <=> op = 1
          /\ \A op \in {1, 4, 5} : xdg_surface_reqs[op].makes = K_NONE
          /\ xdg_surface_reqs[2].makes = "toplevel" /\ xdg_surface_reqs[3].makes = "popup"
      BY DEF xdg_surface_reqs, Req, Plain, Makes, DESTRUCTOR
    <2>4. /\ Len(xdg_surface_requests) = 5
          /\ \A op \in {1, 4, 5} : NoNew(xdg_surface_requests[op].sig)
          /\ \A op \in {2, 3} : NewFirst(xdg_surface_requests[op].sig)
          /\ xdg_surface_requests[2].at = 7 /\ xdg_surface_requests[3].at = 8
      BY <2>1 DEF xdg_surface_requests, Msg, Void
    <2> QED
      BY <1>a, <2>2, <2>3, <2>4 DEF AgreesWith, K_NONE
  <1>4. /\ OneNewEach(xdg_toplevel_requests, xdg_shell_types)
        /\ AgreesWith(xdg_toplevel_requests, xdg_shell_types,
                      toplevel_reqs)
    <2>1. /\ NoNew(<< >>) /\ NoNew(<<"?o">>) /\ NoNew(<<"s">>) /\ NoNew(<<"o", "u", "i", "i">>)
          /\ NoNew(<<"o", "u">>) /\ NoNew(<<"o", "u", "u">>) /\ NoNew(<<"i", "i">>)
      BY SigsRight
    <2>a. /\ xdg_toplevel_requests[1].sig = << >> /\ xdg_toplevel_requests[2].sig = <<"?o">>
          /\ xdg_toplevel_requests[3].sig = <<"s">> /\ xdg_toplevel_requests[4].sig = <<"s">>
          /\ xdg_toplevel_requests[5].sig = <<"o", "u", "i", "i">> /\ xdg_toplevel_requests[6].sig = <<"o", "u">>
          /\ xdg_toplevel_requests[7].sig = <<"o", "u", "u">> /\ xdg_toplevel_requests[8].sig = <<"i", "i">>
          /\ xdg_toplevel_requests[9].sig = <<"i", "i">> /\ xdg_toplevel_requests[10].sig = << >>
          /\ xdg_toplevel_requests[11].sig = << >> /\ xdg_toplevel_requests[12].sig = <<"?o">>
          /\ xdg_toplevel_requests[13].sig = << >> /\ xdg_toplevel_requests[14].sig = << >>
          /\ Len(xdg_toplevel_requests) = 14
      BY DEF xdg_toplevel_requests, Msg, Void
    <2>b. \A op \in 1..14 : op \in {1, 2, 3, 4, 5, 6, 7, 8, 9, 10, 11, 12, 13, 14}
      OBVIOUS
    <2>2. Len(xdg_toplevel_requests) = 14 /\ \A op \in 1..14 : NoNew(xdg_toplevel_requests[op].sig)
      BY <2>1, <2>a, <2>b, Zenon
    <2>3. /\ Len(toplevel_reqs) = 14
          /\ \A op \in 1..14 :
               toplevel_reqs[op].makes = K_NONE /\ (toplevel_reqs[op].destroys <=> op = 1)
      BY DEF toplevel_reqs, Req, Plain, DESTRUCTOR, K_NONE
    <2>4. OneNewEach(xdg_toplevel_requests, xdg_shell_types)
      BY <2>2 DEF OneNewEach
    <2>5. AgreesWith(xdg_toplevel_requests, xdg_shell_types, toplevel_reqs)
      BY <2>2, <2>3 DEF AgreesWith
    <2> QED
      BY <2>4, <2>5
  <1>5. OneNewEach(xdg_popup_requests, xdg_shell_types)
    <2>1. NoNew(<< >>) /\ NoNew(<<"o", "u">>)
      BY SigsRight
    <2>2. OneNewEach(xdg_popup_requests, xdg_shell_types)
      BY <1>0, <1>a, <2>1 DEF OneNewEach, xdg_popup_requests, Msg, Void
    <2> QED
      BY <2>2
  <1>6. /\ OneNewEach(zxdg_decoration_manager_v1_requests, xdg_decoration_unstable_v1_types)
        /\ AgreesWith(zxdg_decoration_manager_v1_requests, xdg_decoration_unstable_v1_types,
                      deco_mgr_reqs)
    <2>1. NoNew(<< >>) /\ NewFirst(<<"n", "o">>)
      BY SigsRight
    <2>2. OneNewEach(zxdg_decoration_manager_v1_requests, xdg_decoration_unstable_v1_types)
      BY <1>0, <1>b, <2>1 DEF OneNewEach, zxdg_decoration_manager_v1_requests, Msg, Void
    <2>3. AgreesWith(zxdg_decoration_manager_v1_requests, xdg_decoration_unstable_v1_types,
                     deco_mgr_reqs)
      BY <1>0, <1>b, <2>1 DEF AgreesWith, zxdg_decoration_manager_v1_requests, Msg, Void, deco_mgr_reqs, Req, Plain,
             Makes, DESTRUCTOR, K_NONE
    <2> QED
      BY <2>2, <2>3
  <1>7. /\ OneNewEach(zxdg_toplevel_decoration_v1_requests, xdg_decoration_unstable_v1_types)
        /\ AgreesWith(zxdg_toplevel_decoration_v1_requests, xdg_decoration_unstable_v1_types,
                      deco_reqs)
    <2>1. NoNew(<< >>) /\ NoNew(<<"u">>)
      BY SigsRight
    <2>2. OneNewEach(zxdg_toplevel_decoration_v1_requests, xdg_decoration_unstable_v1_types)
      BY <1>0, <1>b, <2>1 DEF OneNewEach, zxdg_toplevel_decoration_v1_requests, Msg, Void
    <2>3. AgreesWith(zxdg_toplevel_decoration_v1_requests, xdg_decoration_unstable_v1_types,
                     deco_reqs)
      BY <1>0, <1>b, <2>1 DEF AgreesWith, zxdg_toplevel_decoration_v1_requests, Msg, Void, deco_reqs, Req, Plain,
             Makes, DESTRUCTOR, K_NONE
    <2> QED
      BY <2>2, <2>3
  <1> QED
    BY <1>1, <1>2, <1>3, <1>4, <1>5, <1>6, <1>7

(* The parts of an argument.                                               *)
LEMMA ArgParts == \A letter, kind : Arg(letter, kind).letter = letter /\ Arg(letter, kind).kind = kind
  BY DEF Arg

(* What a compositor reads of such messages is of a right form, and the    *)
(* fuzzer's rows are of the same.                                          *)
LEMMA ReadRight ==
  ASSUME NEW kind \in Kinds \ {"registry"}, NEW messages, NEW types, NEW reqs,
         OneNewEach(messages, types),
         AgreesWith(messages, types, reqs)
  PROVE  LET p == Args(messages, types, {1})
         IN /\ Len(p) \in Nat /\ \A op \in 1..Len(p) : FormRight(kind, p[op])
            /\ \A op \in 1..Len(reqs) : op \in 1..Len(p) /\ SameForm(kind, reqs[op], p[op])
  <1> DEFINE p == Args(messages, types, {1})
  <1>1. /\ Len(messages) \in Nat
        /\ \A op \in 1..Len(messages) : Len(messages[op].sig) \in Nat
    BY DEF OneNewEach, NoNew, NewFirst
  <1>2. /\ Len(p) = Len(messages)
        /\ \A op \in 1..Len(messages) :
             /\ Len(p[op].args) = Len(messages[op].sig)
             /\ \A i \in 1..Len(messages[op].sig) :
                  p[op].args[i] = Arg(messages[op].sig[i], types[messages[op].at + i])
             /\ p[op].destroys <=> op \in {1}
    BY <1>1, ArgsRight
  <1> HIDE DEF p
  <1>3. ASSUME NEW op \in 1..Len(p)
        PROVE  FormRight(kind, p[op])
    <2>1. NoNew(messages[op].sig)
          \/ (NewFirst(messages[op].sig) /\ types[messages[op].at + 1] \in Kinds)
      BY <1>2 DEF OneNewEach
    <2>2. /\ Len(p[op].args) = Len(messages[op].sig)
          /\ \A i \in 1..Len(messages[op].sig) :
               /\ p[op].args[i].letter = messages[op].sig[i]
               /\ p[op].args[i].kind = types[messages[op].at + i]
      BY <1>2, ArgParts
    <2>3. CASE NoNew(messages[op].sig)
      BY <2>2, <2>3 DEF FormRight, NoNew
    <2>4. CASE NewFirst(messages[op].sig) /\ types[messages[op].at + 1] \in Kinds
      BY <2>2, <2>4 DEF FormRight, NewFirst, NewAt
    <2> QED
      BY <2>1, <2>3, <2>4
  <1>4. ASSUME NEW op \in 1..Len(reqs)
        PROVE  op \in 1..Len(p) /\ SameForm(kind, reqs[op], p[op])
    <2>1. /\ op \in 1..Len(messages)
          /\ reqs[op].destroys <=> op = 1
          /\ reqs[op].makes = K_NONE => NoNew(messages[op].sig)
          /\ reqs[op].makes # K_NONE =>
               NewFirst(messages[op].sig) /\ types[messages[op].at + 1] = reqs[op].makes
      BY <1>1 DEF AgreesWith
    <2>2. /\ Len(p[op].args) = Len(messages[op].sig) /\ (p[op].destroys <=> op = 1)
          /\ \A i \in 1..Len(messages[op].sig) :
               p[op].args[i] = Arg(messages[op].sig[i], types[messages[op].at + i])
      BY <1>2, <2>1
    <2>3. p[op].destroys <=> reqs[op].destroys
      BY <2>1, <2>2
    <2>4. ASSUME reqs[op].makes = K_NONE
          PROVE  \A i \in 1..Len(p[op].args) : p[op].args[i].letter # "n"
      BY <2>1, <2>2, <2>4, ArgParts DEF NoNew
    <2>5. ASSUME reqs[op].makes # K_NONE
          PROVE  1 <= Len(p[op].args) /\ p[op].args[1] = Arg("n", reqs[op].makes)
      BY <2>1, <2>2, <2>5 DEF NewFirst
    <2> QED
      BY <1>2, <2>1, <2>3, <2>4, <2>5 DEF SameForm
  <1> QED
    BY <1>1, <1>2, <1>3, <1>4 DEF p

(* So it is of the core protocol's.                                        *)
LEMMA CoreReadRight ==
  ASSUME NEW kind \in Kinds, NEW reqs, Len(reqs) \in Nat,
         \A op \in 1..Len(reqs) : OneNew(kind, reqs[op])
  PROVE  LET p == Core(reqs)
         IN /\ Len(p) \in Nat /\ \A op \in 1..Len(p) : FormRight(kind, p[op])
            /\ \A op \in 1..Len(reqs) : op \in 1..Len(p) /\ SameForm(kind, reqs[op], p[op])
  <1> DEFINE p == Core(reqs)
  <1>1. \A op \in 1..Len(reqs) : Len(reqs[op].sig) \in Nat
    BY DEF OneNew
  <1>2. /\ Len(p) = Len(reqs)
        /\ \A op \in 1..Len(reqs) :
             /\ Len(p[op].args) = Len(reqs[op].sig)
             /\ \A i \in 1..Len(reqs[op].sig) :
                  /\ p[op].args[i].letter = Letter(reqs[op].sig[i])
                  /\ reqs[op].sig[i] = "n" => p[op].args[i] = Arg("n", reqs[op].makes)
             /\ p[op].destroys = reqs[op].destroys
    BY <1>1, CoreRight
  <1> HIDE DEF p
  <1>3. \A c : Letter(c) = "n" <=> c = "n"
    BY DEF Letter
  <1>4. ASSUME NEW op \in 1..Len(reqs)
        PROVE  FormRight(kind, p[op]) /\ SameForm(kind, reqs[op], p[op])
    <2>1. /\ Len(p[op].args) = Len(reqs[op].sig) /\ Len(reqs[op].sig) \in Nat
          /\ \A i \in 1..Len(reqs[op].sig) :
               p[op].args[i].letter = "n" => reqs[op].sig[i] = "n" /\ p[op].args[i].kind = reqs[op].makes
      BY <1>1, <1>2, <1>3, ArgParts
    <2>2. FormRight(kind, p[op])
      BY <2>1 DEF FormRight, OneNew
    <2>3. SameForm(kind, reqs[op], p[op])
      BY <1>1, <1>2, <1>3 DEF SameForm, OneNew
    <2> QED
      BY <2>2, <2>3
  <1> QED
    BY <1>2, <1>4 DEF p

(* Every message of every protocol is of a right form, and every row of    *)
(* the fuzzer's tables is of the form of the message it is sent as.        *)
LEMMA ProtocolRight ==
  /\ \A kind \in Kinds :
       /\ Len(Protocol[kind]) \in Nat
       /\ \A op \in 1..Len(Protocol[kind]) : FormRight(kind, Protocol[kind][op])
  /\ \A kind \in DOMAIN ifaces : \A op \in 1..Len(ifaces[kind]) :
       op \in 1..Len(Protocol[kind]) /\ SameForm(kind, ifaces[kind][op], Protocol[kind][op])
  <1> DEFINE Read(kind, reqs) ==
        /\ Len(Protocol[kind]) \in Nat
        /\ \A op \in 1..Len(Protocol[kind]) : FormRight(kind, Protocol[kind][op])
        /\ \A op \in 1..Len(reqs) :
             op \in 1..Len(Protocol[kind]) /\ SameForm(kind, reqs[op], Protocol[kind][op])
  <1>0. /\ ifaces.wm_base = wm_base_reqs /\ ifaces.positioner = positioner_reqs
        /\ ifaces.xdg_surface = xdg_surface_reqs /\ ifaces.toplevel = toplevel_reqs
        /\ ifaces.deco_mgr = deco_mgr_reqs /\ ifaces.deco = deco_reqs
    BY DEF ifaces
  <1>1. AgreesWith(xdg_popup_requests, xdg_shell_types, << >>)
    BY MessagesRight DEF AgreesWith, OneNewEach
  <1>2. /\ Protocol["wm_base"] = Args(xdg_wm_base_requests, xdg_shell_types, {1})
        /\ Protocol["positioner"] = Args(xdg_positioner_requests, xdg_shell_types, {1})
        /\ Protocol["xdg_surface"] = Args(xdg_surface_requests, xdg_shell_types, {1})
        /\ Protocol["toplevel"] = Args(xdg_toplevel_requests, xdg_shell_types, {1})
        /\ Protocol["popup"] = Args(xdg_popup_requests, xdg_shell_types, {1})
        /\ Protocol["deco_mgr"] =
             Args(zxdg_decoration_manager_v1_requests, xdg_decoration_unstable_v1_types, {1})
        /\ Protocol["deco"] =
             Args(zxdg_toplevel_decoration_v1_requests, xdg_decoration_unstable_v1_types, {1})
    BY AllKinds DEF Protocol, Shell, Decoration
  <1> DEFINE Shells == {"wm_base", "positioner", "xdg_surface", "toplevel", "popup", "deco_mgr",
                        "deco"}
  <1>3. \A kind \in Kinds \ Shells : Protocol[kind] = Core(ReqsOf(kind))
    BY DEF Protocol
  <1>4. Shells \subseteq Kinds \ {"registry"}
    BY AllKinds
  <1>5. /\ Read("wm_base", wm_base_reqs) /\ Read("positioner", positioner_reqs)
        /\ Read("xdg_surface", xdg_surface_reqs) /\ Read("toplevel", toplevel_reqs)
    BY <1>2, <1>4, MessagesRight, ReadRight
  <1>6. Read("popup", << >>) /\ Read("deco_mgr", deco_mgr_reqs) /\ Read("deco", deco_reqs)
    BY <1>1, <1>2, <1>4, MessagesRight, ReadRight
  <1>7. ASSUME NEW kind \in Kinds \ Shells
        PROVE  Read(kind, ReqsOf(kind))
    <2>1. Len(ReqsOf(kind)) \in Nat /\ \A op \in 1..Len(ReqsOf(kind)) : OneNew(kind, ReqsOf(kind)[op])
      BY TablesRight DEF ReqsOf
    <2> QED
      BY <1>3, <2>1, CoreReadRight
  <1>8. \A kind \in DOMAIN ifaces : kind \in Kinds /\ ReqsOf(kind) = ifaces[kind]
    BY DEF Kinds, ReqsOf
  <1>9. "popup" \notin DOMAIN ifaces
    BY DEF ifaces
  <1> HIDE DEF Read
  <1>10. \A kind \in Kinds : \E reqs : Read(kind, reqs)
    BY <1>5, <1>6, <1>7
  <1>11. \A kind \in DOMAIN ifaces : Read(kind, ifaces[kind])
    BY <1>0, <1>5, <1>6, <1>7, <1>8, <1>9
  <1> QED
    BY <1>10, <1>11 DEF Read

-----------------------------------------------------------------------------
(* What the compositor makes of a request on an object of this kind.       *)
Knows(kind, m) == kind \in Kinds /\ m.opcode + 1 \in 1..Len(Protocol[kind])
(* The message of the protocol that a request to an object of this kind is *)
(* taken for.                                                              *)
Form(kind, m) == Protocol[kind][m.opcode + 1]
(* T is the kind that each id has, had or is to have, K_NONE where nothing *)
(* was made yet.                                                           *)
Creates(T, m, x) ==
  /\ Knows(T[m.object], m)
  /\ \E i \in 1..Len(Form(T[m.object], m).args) :
       /\ Form(T[m.object], m).args[i].letter = "n"
       /\ i \in 1..Len(m.args) /\ m.args[i].value = x
(* What it makes is of this kind: a bind says which, the others' forms do. *)
KindMade(T, m) ==
  IF T[m.object] = "registry" /\ m.opcode = 0
    THEN m.args[2].value
    ELSE Form(T[m.object], m).args[NewAt(T[m.object])].kind
(* The request is its object's last.                                       *)
Destroys(T, m) == Knows(T[m.object], m) /\ Form(T[m.object], m).destroys

(* The ids a compositor accepts for a new object, if they are free.        *)
MayBeNew == 2..(Nowhere - 1)
(* Its new id is none that can be new: what takes it for one refuses it.   *)
Refusable(T, m) == \E x \in Nat \ MayBeNew : Creates(T, m, x)

(* Ids below it are the client's to give; the rest are the compositor's.   *)
OfClient(x) == x < ServerHalf
(* Something on its way to the compositor makes the object, or is its      *)
(* last.                                                                   *)
IsMade(T, x) == \E i \in 1..Len(toServer) : Creates(T, toServer[i], x)
IsDoomed(T, x) == \E i \in 1..Len(toServer) : toServer[i].object = x /\ Destroys(T, toServer[i])
(* The fuzzer's list has the id, dead or alive.                            *)
Listed(x) == \E i \in 1..Len(objects) : objects[i].id = x

(* The compositor's side of it.                                            *)
There(T) ==
  /\ T \in [Nat -> Kinds \cup {K_NONE}]
  /\ 1 \in DOMAIN resources /\ T[1] = "display" /\ T[2] = "registry"
  /\ \A x \in DOMAIN resources :
       x # 0 /\ resources[x] = T[x] /\ T[x] \in Kinds /\ (x <= highest \/ ServerHalf < x)
  /\ \A x \in Nat : x >= ServerHalf =>
       T[x] = IF x \in (ServerHalf + 1)..(ServerHalf + offers) THEN "offer" ELSE K_NONE
  /\ highest < next_id
  /\ T[0] = K_NONE /\ T[Nowhere] = K_NONE
(* The first n requests on their way, and the next: what each is sent to   *)
(* has a kind, and what the first n make has the one they make it.         *)
Sound(T, n) ==
  \A i \in 1..Len(toServer) : i <= n + 1 =>
    /\ T[toServer[i].object] # K_NONE \/ toServer[i].object \in {0, Nowhere}
    /\ i <= n => \A x \in Nat : Creates(T, toServer[i], x) =>
                   /\ x \in MayBeNew /\ x < next_id
                   /\ T[x] \in Kinds /\ T[x] = KindMade(T, toServer[i])

(* Ids that were taken together and not used yet, and those not taken yet. *)
Unborn ==
  {x \in MayBeNew :
     \/ x >= next_id
     \/ /\ phase = "window"
        /\ \/ step = 2 /\ x \in {win.xdg, win.top}
           \/ step = 3 /\ x = win.top
           \/ step = 6 /\ x = win.buffer}
(* What is not born has no kind yet.                                       *)
Fresh(T) == \A x \in Unborn : T[x] = K_NONE
(* The list has each object as the kind the id has.                        *)
ListRight(T) == \A i \in 1..Len(objects) : T[objects[i].id] = objects[i].kind
(* What is still to be made is not there, was not given back, is made by   *)
(* one request, and nothing before that is about it.                       *)
MadeOnce(T) ==
  \A i \in 1..Len(toServer) : \A x \in Nat : Creates(T, toServer[i], x) =>
    /\ x \notin DOMAIN resources
    /\ \A j \in 1..Len(toServer) : j # i => ~Creates(T, toServer[j], x)
    /\ \A j \in 1..i : toServer[j].object # x
(* A delete_id on its way is of an object that is not there, that nothing  *)
(* on its way makes.                                                       *)
GivenBack(T) ==
  \A i \in 1..Len(toClient) : toClient[i].op = "delete_id" =>
    LET x == toClient[i].id
    IN OfClient(x) /\ T[x] # K_NONE /\ x \notin DOMAIN resources /\ ~IsMade(T, x)
(* An offer on its way is of an id the list does not have yet.             *)
OffersRight ==
  \A i \in 1..Len(toClient) : toClient[i].op = "data_offer" =>
    LET x == toClient[i].id
    IN /\ x \in DOMAIN resources /\ x \in (ServerHalf + 1)..(ServerHalf + offers) /\ ~Listed(x)
       /\ \A j \in 1..Len(toServer) : toServer[j].object # x
       /\ \A j \in 1..Len(toClient) : toClient[j].op = "data_offer" /\ toClient[j].id = x => j = i
(* What the list has alive is there or will be, or is given back; what it  *)
(* has dead is not there or will not be.                                   *)
AliveRight(T) ==
  \A i \in 1..Len(objects) : ~objects[i].dead =>
    LET x == objects[i].id
    IN /\ OfClient(x) => x \in DOMAIN resources \/ IsMade(T, x) \/ OnItsWay(x)
       /\ ~OfClient(x) => x \in DOMAIN resources /\ ~IsDoomed(T, x)
(* A dead entry's object is not there, or its last request is on its way;  *)
(* nothing makes it.                                                       *)
DeadRight(T) ==
  \A i \in 1..Len(objects) : objects[i].dead =>
    LET x == objects[i].id
    IN IsDoomed(T, x) \/ (x \notin DOMAIN resources /\ ~IsMade(T, x))
(* The window's objects are of the kinds they are used as.                 *)
WinRight(T) ==
  phase = "window" /\ step > 1 =>
    /\ T[win.wm] = "wm_base" /\ T[win.shm] = "shm" /\ T[win.surface] = "surface"
    /\ win.top = win.xdg + 1
    /\ step > 2 => T[win.xdg] = "xdg_surface"
    /\ step > 5 => T[win.pool] = "pool"
    /\ step > 6 => T[win.buffer] = "buffer"
(* All of it: what holds while all that was sent is as it was meant.       *)
Agree(T) ==
  /\ Fresh(T) /\ ListRight(T) /\ MadeOnce(T) /\ GivenBack(T) /\ OffersRight
  /\ AliveRight(T) /\ DeadRight(T) /\ WinRight(T)

(* Either all that is on its way will do what it is meant to, and the two  *)
(* agree about what there is once it has; or one of them is refused before.*)
Matches(T, n) ==
  /\ n \in 0..Len(toServer)
  /\ There(T) /\ Sound(T, n)
  /\ n < Len(toServer) => Refusable(T, toServer[n + 1])
  /\ n = Len(toServer) => Agree(T)
(* So it is as long as nothing was refused and no id in use was taken for  *)
(* a new one.                                                              *)
StepInv == ~astray /\ refused = "not" => \E T, n : Matches(T, n)

(* How many ids were taken, at most.                                       *)
Spent ==
  /\ phase \in {"globals", "binds", "window", "loop", "over"}
  /\ step \in Nat /\ next_id \in Nat /\ turns \in Nat /\ total \in Nat
  /\ 16 + 5 * total < Nowhere /\ turns <= total
  /\ phase = "globals" => opening /\ step = 1 /\ next_id = 4
  /\ phase = "binds" => opening /\ step \in 1..8 /\ next_id <= 3 + step
  /\ phase = "window" =>
       /\ step \in 1..12
       /\ opening \/ turns < total
       /\ next_id <= 11 + (IF step > 1 THEN 3 ELSE 0) + (IF step > 5 THEN 2 ELSE 0)
                        + (IF opening THEN 0 ELSE 5 + 5 * turns)
  /\ phase = "loop" => ~opening /\ next_id <= 16 + 5 * turns
  /\ phase = "over" => next_id <= 16 + 5 * total
  /\ next_id >= 4
(* In the window the ids already given to its objects, and those yet to be *)
(* sent, are below next_id.                                                *)
WinSpent ==
  phase = "window" /\ step > 1 =>
    /\ 4 <= win.xdg /\ win.top = win.xdg + 1 /\ win.top < next_id
    /\ step > 5 => 4 <= win.buffer /\ win.buffer < next_id

(* What requests and events are made of, as far as the argument looks.     *)
IsSeq(s) == \E S : s \in Seq(S)
(* The types of what the fuzzer and the compositor keep.                   *)
EntryTyped(e) == e.id \in Nat /\ e.kind \in Kinds /\ e.dead \in BOOLEAN
IsList(list) == IsSeq(list) /\ \A i \in 1..Len(list) : EntryTyped(list[i])
RequestTyped(m) == m.object \in Nat /\ m.opcode \in Nat /\ Len(m.args) \in Nat
Requests(q) == IsSeq(q) /\ \A i \in 1..Len(q) : RequestTyped(q[i])
EventTyped(e) ==
  /\ e.op = "delete_id" => e.id \in Nat
  /\ e.op = "data_offer" => e.id \in Nat
  /\ e.op = "configure" => e.serial \in Nat
  /\ e.op = "global" => e.kind \in Kinds /\ e.name \in Nat /\ e.version \in Nat
Events(q) == IsSeq(q) /\ \A i \in 1..Len(q) : EventTyped(q[i])
CompositorTyped ==
  /\ serial \in Nat /\ highest \in Nat /\ offers \in Nat /\ telling \in Nat
  /\ offered \in Seq([kind : DOMAIN ifaces, version : Nat \ {0}])
  /\ DOMAIN resources \subseteq Nat
FuzzerTyped ==
  /\ win \in [{"wm", "shm", "surface", "xdg", "top", "pool", "buffer"} -> Nat]
  /\ global_name \in [Kinds -> Nat] /\ global_version \in [Kinds -> Nat]
  /\ last_serial \in Nat
FuzzTyped ==
  /\ IsList(objects) /\ Requests(toServer) /\ Events(toClient) /\ FuzzerTyped /\ CompositorTyped

-----------------------------------------------------------------------------
(* A sequence of anything: its length and domain, with one more, without   *)
(* the first, joined.                                                      *)
LEMMA SeqParts ==
  ASSUME NEW s, IsSeq(s)
  PROVE  Len(s) \in Nat /\ DOMAIN s = 1..Len(s)
  BY DEF IsSeq

LEMMA SeqAppended ==
  ASSUME NEW s, IsSeq(s), NEW e
  PROVE  /\ IsSeq(Append(s, e)) /\ Len(Append(s, e)) = Len(s) + 1
         /\ \A i \in 1..Len(s) : Append(s, e)[i] = s[i]
         /\ Append(s, e)[Len(s) + 1] = e
  <1>1. PICK S : s \in Seq(S)
    BY DEF IsSeq
  <1>2. s \in Seq(S \cup {e}) /\ e \in S \cup {e}
    BY <1>1
  <1>3. Append(s, e) \in Seq(S \cup {e})
    BY <1>2
  <1> QED
    BY <1>2, <1>3 DEF IsSeq

LEMMA SeqTailed ==
  ASSUME NEW s, IsSeq(s), s # << >>
  PROVE  /\ IsSeq(Tail(s)) /\ Len(Tail(s)) = Len(s) - 1 /\ Len(s) \in Nat \ {0} /\ Head(s) = s[1]
         /\ \A i \in 1..Len(Tail(s)) : Tail(s)[i] = s[i + 1]
  <1>1. PICK S : s \in Seq(S)
    BY DEF IsSeq
  <1>2. Tail(s) \in Seq(S) /\ Len(s) # 0
    BY <1>1
  <1> QED
    BY <1>1, <1>2 DEF IsSeq

LEMMA SeqJoined ==
  ASSUME NEW s, IsSeq(s), NEW t, IsSeq(t)
  PROVE  /\ IsSeq(s \o t) /\ Len(s \o t) = Len(s) + Len(t)
         /\ \A i \in 1..Len(s) : (s \o t)[i] = s[i]
         /\ \A i \in 1..Len(t) : (s \o t)[Len(s) + i] = t[i]
         /\ \A i \in 1..Len(s \o t) : i \in 1..Len(s) \/ (i - Len(s) \in 1..Len(t) /\ i = Len(s) + (i - Len(s)))
  <1>1. PICK S : s \in Seq(S)
    BY DEF IsSeq
  <1>2. PICK R : t \in Seq(R)
    BY DEF IsSeq
  <1>3. s \in Seq(S \cup R) /\ t \in Seq(S \cup R)
    BY <1>1, <1>2
  <1>4. s \o t \in Seq(S \cup R)
    BY <1>3
  <1> QED
    BY <1>3, <1>4 DEF IsSeq

LEMMA SeqMade ==
  ASSUME NEW n \in Nat, NEW f, f = [i \in 1..n |-> f[i]]
  PROVE  IsSeq(f) /\ Len(f) = n
  <1> DEFINE S == {f[i] : i \in 1..n}
  <1>1. [i \in 1..n |-> f[i]] \in [1..n -> S]
    OBVIOUS
  <1>2. f \in Seq(S)
    BY <1>1
  <1>3. Len(f) = n
    BY <1>2
  <1> QED
    BY <1>2, <1>3 DEF IsSeq

LEMMA ShortSeqs ==
  /\ IsSeq(<< >>) /\ Len(<< >>) = 0
  /\ \A a : IsSeq(<<a>>) /\ Len(<<a>>) = 1 /\ <<a>>[1] = a
  <1>1. << >> \in Seq({})
    OBVIOUS
  <1>2. ASSUME NEW a
        PROVE  <<a>> \in Seq({a})
    OBVIOUS
  <1> QED
    BY <1>1, <1>2 DEF IsSeq

-----------------------------------------------------------------------------
(* The list. *)
IsNew(e, id, kind) == e.id = id /\ e.kind = kind /\ e.dead = FALSE
(* remember adds the object, and keeps every entry but those of its id.    *)
LEMMA RememberRight ==
  ASSUME NEW list, IsSeq(list), NEW id, NEW kind, NEW after, after = remember(list, id, kind)
  PROVE  /\ IsSeq(after) /\ Len(after) \in Nat /\ Len(after) >= Len(list)
         /\ \A j \in 1..Len(after) :
              \/ IsNew(after[j], id, kind)
              \/ j \in 1..Len(list) /\ after[j] = list[j] /\ list[j].id # id
  <1>0. Len(list) \in Nat
    BY SeqParts
  <1>a. PICK e : e = Entry(id, kind, FALSE)
    OBVIOUS
  <1>b. IsNew(e, id, kind)
    BY <1>a DEF IsNew, Entry
  <1>1. CASE Known(list, id) # {}
    <2>1. after = [i \in 1..Len(list) |-> IF list[i].id = id THEN e ELSE list[i]]
      BY <1>1, <1>a DEF remember
    <2>2. \A i \in 1..Len(list) : after[i] = IF list[i].id = id THEN e ELSE list[i]
      BY <2>1
    <2>3. after = [i \in 1..Len(list) |-> after[i]]
      BY <2>1
    <2>4. IsSeq(after) /\ Len(after) = Len(list)
      BY <1>0, <2>3, SeqMade
    <2> QED
      BY <1>0, <1>b, <2>2, <2>4
  <1>2. CASE Known(list, id) = {}
    <2>1. \A i \in 1..Len(list) : list[i].id # id
      BY <1>2 DEF Known
    <2>2. after = Append(list, e) \/ after = list
      BY <1>2, <1>a DEF remember
    <2>3. CASE after = list
      BY <1>0, <2>1, <2>3
    <2>4. CASE after = Append(list, e)
      <3>1. /\ IsSeq(after) /\ Len(after) = Len(list) + 1
            /\ \A i \in 1..Len(list) : after[i] = list[i]
            /\ after[Len(list) + 1] = e
        BY <2>4, SeqAppended
      <3>2. \A j \in 1..Len(after) : j \in 1..Len(list) \/ j = Len(list) + 1
        BY <1>0, <3>1
      <3> QED
        BY <1>0, <1>b, <2>1, <3>1, <3>2
    <2> QED
      BY <2>2, <2>3, <2>4
  <1> QED
    BY <1>1, <1>2

(* forget marks the entries of the id dead and leaves the rest.            *)
LEMMA ForgetRight ==
  ASSUME NEW list, IsSeq(list), NEW id, NEW after, after = forget(list, id)
  PROVE  /\ IsSeq(after) /\ Len(after) = Len(list)
         /\ \A j \in 1..Len(list) :
              after[j] = [list[j] EXCEPT !.dead = list[j].dead \/ list[j].id = id]
  <1>1. after = [i \in 1..Len(list) |->
                  [list[i] EXCEPT !.dead = list[i].dead \/ list[i].id = id]]
    BY DEF forget
  <1>2. /\ after = [i \in 1..Len(list) |-> after[i]]
        /\ \A i \in 1..Len(list) :
             after[i] = [list[i] EXCEPT !.dead = list[i].dead \/ list[i].id = id]
    BY <1>1
  <1>3. IsSeq(after) /\ Len(after) = Len(list)
    BY <1>2, SeqParts, SeqMade
  <1> QED
    BY <1>2, <1>3

(* Both keep a list a list.                                                *)
LEMMA RememberTyped ==
  ASSUME NEW list, IsList(list), NEW id \in Nat, NEW kind \in Kinds,
         NEW after, after = remember(list, id, kind)
  PROVE  IsList(after)
  <1>1. IsSeq(list)
    BY DEF IsList
  <1>2. IsSeq(after)
    BY <1>1, RememberRight
  <1>3. ASSUME NEW j \in 1..Len(after)
        PROVE  EntryTyped(after[j])
    <2>1. IsNew(after[j], id, kind) \/ (j \in 1..Len(list) /\ after[j] = list[j])
      BY <1>1, RememberRight
    <2>2. CASE IsNew(after[j], id, kind)
      BY <2>2 DEF IsNew, EntryTyped
    <2>3. CASE j \in 1..Len(list) /\ after[j] = list[j]
      BY <2>3 DEF IsList
    <2> QED
      BY <2>1, <2>2, <2>3
  <1> QED
    BY <1>2, <1>3 DEF IsList

LEMMA ForgetTyped ==
  ASSUME NEW list, IsList(list), NEW id, NEW after, after = forget(list, id)
  PROVE  IsList(after)
  <1>1. IsSeq(list)
    BY DEF IsList
  <1>2. IsSeq(after)
    BY <1>1, ForgetRight
  <1>3. /\ Len(after) = Len(list)
        /\ \A j \in 1..Len(list) :
              after[j] = [list[j] EXCEPT !.dead = list[j].dead \/ list[j].id = id]
    BY <1>1, ForgetRight
  <1>4. ASSUME NEW j \in 1..Len(list)
        PROVE  EntryTyped(after[j])
    <2>1. EntryTyped(list[j])
      BY DEF IsList
    <2>2. after[j] = [list[j] EXCEPT !.dead = list[j].dead \/ list[j].id = id]
      BY <1>3
    <2> QED
      BY <2>1, <2>2 DEF EntryTyped
  <1> QED
    BY <1>2, <1>3, <1>4 DEF IsList

(* A queue with one more, or without its first, is a queue.                *)
LEMMA RequestAppended ==
  ASSUME NEW q, Requests(q), NEW m, RequestTyped(m)
  PROVE  Requests(Append(q, m))
  <1>1. IsSeq(q) /\ Len(q) \in Nat
    BY SeqParts DEF Requests
  <1>2. /\ IsSeq(Append(q, m)) /\ Len(Append(q, m)) = Len(q) + 1
        /\ \A i \in 1..Len(q) : Append(q, m)[i] = q[i]
        /\ Append(q, m)[Len(q) + 1] = m
    BY <1>1, SeqAppended
  <1>3. \A i \in 1..(Len(q) + 1) : i \in 1..Len(q) \/ i = Len(q) + 1
    BY <1>1
  <1> QED
    BY <1>2, <1>3 DEF Requests

LEMMA EventAppended ==
  ASSUME NEW q, Events(q), NEW m, EventTyped(m)
  PROVE  Events(Append(q, m))
  <1>1. IsSeq(q) /\ Len(q) \in Nat
    BY SeqParts DEF Events
  <1>2. /\ IsSeq(Append(q, m)) /\ Len(Append(q, m)) = Len(q) + 1
        /\ \A i \in 1..Len(q) : Append(q, m)[i] = q[i]
        /\ Append(q, m)[Len(q) + 1] = m
    BY <1>1, SeqAppended
  <1>3. \A i \in 1..(Len(q) + 1) : i \in 1..Len(q) \/ i = Len(q) + 1
    BY <1>1
  <1> QED
    BY <1>2, <1>3 DEF Events

LEMMA QueuesTailed ==
  ASSUME NEW q, q # << >>
  PROVE  /\ Requests(q) => Requests(Tail(q)) /\ RequestTyped(Head(q))
         /\ Events(q) => Events(Tail(q)) /\ EventTyped(Head(q))
  <1>1. ASSUME IsSeq(q)
        PROVE  /\ IsSeq(Tail(q)) /\ Head(q) = q[1] /\ 1 \in 1..Len(q)
               /\ \A i \in 1..Len(Tail(q)) : Tail(q)[i] = q[i + 1] /\ i + 1 \in 1..Len(q)
    <2>1. /\ IsSeq(Tail(q)) /\ Len(Tail(q)) = Len(q) - 1 /\ Len(q) \in Nat \ {0} /\ Head(q) = q[1]
          /\ \A i \in 1..Len(Tail(q)) : Tail(q)[i] = q[i + 1]
      BY <1>1, SeqTailed
    <2>2. 1 \in 1..Len(q) /\ \A i \in 1..(Len(q) - 1) : i + 1 \in 1..Len(q)
      BY <2>1
    <2> QED
      BY <2>1, <2>2 DEF EntryTyped
  <1>2. Requests(q) => Requests(Tail(q)) /\ RequestTyped(Head(q))
    BY <1>1 DEF Requests
  <1>3. Events(q) => Events(Tail(q)) /\ EventTyped(Head(q))
    BY <1>1 DEF Events
  <1> QED
    BY <1>2, <1>3

LEMMA EventsJoined ==
  ASSUME NEW q, Events(q), NEW r, Events(r)
  PROVE  Events(q \o r)
  <1>1. IsSeq(q) /\ IsSeq(r)
    BY DEF Events
  <1>2. /\ IsSeq(q \o r)
        /\ \A i \in 1..Len(q) : (q \o r)[i] = q[i]
        /\ \A i \in 1..Len(r) : (q \o r)[Len(q) + i] = r[i]
        /\ \A i \in 1..Len(q \o r) : i \in 1..Len(q) \/ (i - Len(q) \in 1..Len(r) /\ i = Len(q) + (i - Len(q)))
    BY <1>1, SeqJoined
  <1>3. ASSUME NEW i \in 1..Len(q \o r)
        PROVE  EventTyped((q \o r)[i])
    <2>1. CASE i \in 1..Len(q)
      BY <1>2, <2>1 DEF Events
    <2>2. CASE i - Len(q) \in 1..Len(r) /\ i = Len(q) + (i - Len(q))
      <3>1. (q \o r)[Len(q) + (i - Len(q))] = r[i - Len(q)]
        BY <1>2, <2>2
      <3> QED
        BY <2>2, <3>1 DEF Events
    <2> QED
      BY <1>2, <2>1, <2>2
  <1> QED
    BY <1>2, <1>3 DEF Events

(* next_id counts up from 2 and the window's ids are behind it, from the   *)
(* start and by every step.                                                *)
LEMMA SpentInit == FuzzInit => Spent /\ WinSpent
  <1> SUFFICES ASSUME FuzzInit
               PROVE  Spent /\ WinSpent
    OBVIOUS
  <1>1. total \in Nat /\ 16 + 5 * total < Nowhere
    BY FuzzAssumption, IdsAssumption DEF FuzzInit, Nowhere
  <1>2. /\ phase = "globals" /\ step = 1 /\ opening = TRUE /\ turns = 0 /\ next_id = 4
    BY DEF FuzzInit
  <1> QED
    BY <1>1, <1>2 DEF Spent, WinSpent

LEMMA SpentStep ==
  ASSUME Spent, FuzzNext
  PROVE  Spent'
  <1> DEFINE Same == UNCHANGED <<phase, step, turns, next_id, total, opening>>
  <1>0. ASSUME Same
        PROVE  Spent'
    BY <1>0 DEF Spent, Nowhere
  <1>1. CASE ReadEvents \/ Compositor
    <2>1. Same
      BY <1>1 DEF ReadEvents, HandleGlobal, HandleConfigure, HandleDeleteId, HandleDataOffer,
                  HandleRest, HandleEvent, Compositor, TakeRequest, TellGlobal, FrameShown,
                  OfferData, fuzzer
    <2> QED
      BY <1>0, <2>1
  <1>2. CASE AwaitGlobals
    BY <1>2 DEF Spent, AwaitGlobals, Nowhere, compositor
  <1>3. CASE BindNext
    <2>1. Len(globals) = 7
      BY DEF globals
    <2>2. /\ phase = "binds" /\ step <= 7 /\ step' = step + 1
          /\ next_id' = next_id \/ next_id' = next_id + 1
          /\ UNCHANGED <<phase, opening, turns, total>>
      BY <1>3, <2>1 DEF BindNext, bind_global
    <2> QED
      BY <2>2 DEF Spent, Nowhere
  <1>4. CASE Bound
    BY <1>4 DEF Spent, Bound, globals, Nowhere
  <1>5. CASE Window
    <2>1. CASE WindowSkipped
      BY <2>1 DEF Spent, WindowSkipped, WindowOver, Step, Nowhere
    <2>2. CASE CreateSurface
      BY <2>2 DEF Spent, CreateSurface, Step, Kept, Nowhere
    <2>3. CASE GetXdgSurface
      BY <2>3 DEF Spent, GetXdgSurface, Step, Kept, Nowhere
    <2>4. CASE GetToplevel
      BY <2>4 DEF Spent, GetToplevel, Step, Kept, Nowhere
    <2>5. CASE AwaitSerial
      BY <2>5 DEF Spent, AwaitSerial, Step, Nowhere
    <2>6. CASE AckConfigure
      BY <2>6 DEF Spent, AckConfigure, Step, Kept, Nowhere
    <2>7. CASE CreatePool
      BY <2>7 DEF Spent, CreatePool, Step, Kept, Nowhere
    <2>8. CASE CreateBuffer
      BY <2>8 DEF Spent, CreateBuffer, Step, Kept, Nowhere
    <2>9. CASE Attach
      BY <2>9 DEF Spent, Attach, Kept, Nowhere
    <2>10. CASE Commit
      BY <2>10 DEF Spent, Commit, WindowOver, Kept, Nowhere
    <2>11. CASE LeftWhole
      BY <2>11 DEF Spent, LeftWhole, WindowOver, Step, Nowhere
    <2>12. CASE DestroyBuffer
      BY <2>12 DEF Spent, DestroyBuffer, Step, Kept, Nowhere
    <2>13. CASE DestroyPool
      BY <2>13 DEF Spent, DestroyPool, Step, Kept, Nowhere
    <2>14. CASE WindowCut
      BY <2>14 DEF Spent, WindowCut, WindowOver, Nowhere
    <2> QED
      BY <1>5, <2>1, <2>2, <2>3, <2>4, <2>5, <2>6, <2>7, <2>8, <2>9, <2>10, <2>11, <2>12, <2>13,
         <2>14 DEF Window
  <1>6. CASE AnotherWindow
    BY <1>6 DEF Spent, AnotherWindow, LoopGoesOn, Nowhere
  <1>7. CASE LoopEnds
    BY <1>7 DEF Spent, LoopEnds, Nowhere
  <1>8. CASE legal_bind
    <2>1. /\ phase = "loop" /\ turns < total /\ turns' = turns + 1 /\ next_id' = next_id + 1
          /\ UNCHANGED <<phase, step, opening, total>>
      BY <1>8 DEF legal_bind, Counted, LoopGoesOn, bind_global
    <2> QED
      BY <2>1 DEF Spent, Nowhere
  <1>9. CASE request
    <2>1. /\ phase = "loop" /\ turns < total /\ turns' = turns + 1
          /\ next_id' = next_id \/ next_id' = next_id + 1
          /\ UNCHANGED <<phase, step, opening, total>>
      BY <1>9 DEF request, MakeRequest, Counted, LoopGoesOn, Takes
    <2> QED
      BY <2>1 DEF Spent, Nowhere
  <1>10. CASE RequestUnknown
    BY <1>10 DEF Spent, RequestUnknown, Counted, LoopGoesOn, Nowhere
  <1>11. CASE BindGuessed
    BY <1>11 DEF Spent, BindGuessed, Counted, LoopGoesOn, Takes, Nowhere
  <1> QED
    BY <1>1, <1>2, <1>3, <1>4, <1>5, <1>6, <1>7, <1>8, <1>9, <1>10, <1>11 DEF FuzzNext, Loop

LEMMA WinSpentStep ==
  ASSUME Spent, WinSpent, FuzzTyped, FuzzNext
  PROVE  WinSpent'
  <1> DEFINE Same == UNCHANGED <<phase, step, next_id, win>>
             Longer == /\ UNCHANGED <<phase, win>> /\ next_id' = next_id
                       /\ step > 1 /\ step' > 1 /\ (step' > 5 => step > 5)
  <1>0. ASSUME Same \/ phase' # "window" \/ step' \in {0, 1} \/ Longer
        PROVE  WinSpent'
    <2>1. CASE Same
      BY <2>1 DEF WinSpent
    <2>2. CASE phase' # "window" \/ step' \in {0, 1}
      BY <2>2 DEF WinSpent
    <2>3. CASE Longer
      BY <2>3 DEF WinSpent
    <2> QED
      BY <1>0, <2>1, <2>2, <2>3
  <1>a. \A f \in {"wm", "shm", "surface", "xdg", "top", "pool", "buffer"} : win[f] \in Nat
    BY DEF FuzzTyped, FuzzerTyped
  <1> HIDE DEF Same, Longer
  <1>1. CASE ReadEvents \/ Compositor
    <2>1. Same
      BY <1>1 DEF ReadEvents, HandleGlobal, HandleConfigure, HandleDeleteId, HandleDataOffer,
                  HandleRest, HandleEvent, Compositor, TakeRequest, TellGlobal, FrameShown,
                  OfferData, fuzzer, Same
    <2> QED
      BY <1>0, <2>1
  <1>2. CASE AwaitGlobals \/ BindNext \/ Bound \/ Loop
    <2>1. phase' # "window" \/ step' = 1
      BY <1>2 DEF AwaitGlobals, BindNext, Bound, Loop, AnotherWindow, LoopEnds, legal_bind, request,
                  RequestUnknown, BindGuessed, Counted, LoopGoesOn
    <2> QED
      BY <1>0, <2>1
  <1>3. CASE WindowSkipped \/ LeftWhole \/ WindowCut \/ (Commit /\ step # 8)
    <2>1. step' = 0
      BY <1>3 DEF WindowSkipped, LeftWhole, WindowCut, Commit, WindowOver
    <2> QED
      BY <1>0, <2>1
  <1>4. CASE CreateSurface
    <2>1. PICK c, w, s : /\ win' = [win EXCEPT !.wm = w, !.shm = s, !.surface = next_id,
                                           !.xdg = next_id + 1, !.top = next_id + 2]
                         /\ next_id' = next_id + 3 /\ step' = 2
      BY <1>4 DEF CreateSurface
    <2>2. win'.xdg = next_id + 1 /\ win'.top = next_id + 2
      BY <2>1 DEF FuzzTyped, FuzzerTyped
    <2> QED
      BY <2>1, <2>2 DEF Spent, WinSpent
  <1>5. CASE CreatePool
    <2>1. /\ win' = [win EXCEPT !.pool = next_id, !.buffer = next_id + 1]
          /\ next_id' = next_id + 2 /\ step' = 6 /\ step = 5 /\ phase = "window"
      BY <1>5 DEF CreatePool, Step
    <2>2. win'.xdg = win.xdg /\ win'.top = win.top /\ win'.buffer = next_id + 1
      BY <2>1 DEF FuzzTyped, FuzzerTyped
    <2> QED
      BY <2>1, <2>2, <1>a DEF Spent, WinSpent
  <1>6. CASE \/ GetXdgSurface \/ GetToplevel \/ AckConfigure \/ CreateBuffer \/ Attach
             \/ (Commit /\ step = 8) \/ DestroyBuffer \/ DestroyPool
    <2>1. ASSUME GetXdgSurface \/ GetToplevel \/ AckConfigure \/ CreateBuffer
          PROVE  Longer
      BY <2>1 DEF GetXdgSurface, GetToplevel, AckConfigure, CreateBuffer, Step, Kept, Longer
    <2>2. ASSUME DestroyBuffer \/ DestroyPool
          PROVE  Longer
      BY <2>2 DEF DestroyBuffer, DestroyPool, Step, Kept, Longer
    <2>3. ASSUME Attach \/ (Commit /\ step = 8)
          PROVE  Longer
      BY <2>3 DEF Attach, Commit, WindowOver, Kept, Longer
    <2>4. Longer
      BY <1>6, <2>1, <2>2, <2>3
    <2> QED
      BY <1>0, <2>4
  <1>7. CASE AwaitSerial
    <2>1. Same
      BY <1>7 DEF AwaitSerial, Same
    <2> QED
      BY <1>0, <2>1
  <1> QED
    BY <1>1, <1>2, <1>3, <1>4, <1>5, <1>6, <1>7 DEF FuzzNext, Window

(* What was sent, as far as the argument looks.                            *)
Asked(object, opcode, args) ==
  \E m : /\ toServer' = Append(toServer, m)
         /\ m.object = object /\ m.opcode = opcode /\ m.args = args

(* Whatever is sent is one request more in the queue.                      *)
LEMMA SendsAsks ==
  /\ \A object, opcode, args : Does(object, opcode, args) => Asked(object, opcode, args)
  /\ \A object, opcode, args, whole :
       Sends(Request(object, opcode, args, whole)) => Asked(object, opcode, args)
  /\ \A kind, version : bind_global(kind, version) =>
       Asked(2, 0, <<U(global_name[kind]), A("s", kind), U(version), A("n", next_id)>>)
  /\ \A object, opcode, args, whole :
       Sends([Request(object, opcode, args, whole) EXCEPT !.opening = @ /\ whole]) =>
         Asked(object, opcode, args)
  <1>1. ASSUME NEW object, NEW opcode, NEW args, NEW whole,
               Sends(Request(object, opcode, args, whole))
        PROVE  Asked(object, opcode, args)
    BY <1>1 DEF Sends, Request, Asked
  <1>2. ASSUME NEW object, NEW opcode, NEW args, Does(object, opcode, args)
        PROVE  Asked(object, opcode, args)
    BY <1>2 DEF Does, Sends, Request, Asked
  <1>3. ASSUME NEW kind, NEW version, bind_global(kind, version)
        PROVE  Asked(2, 0, <<U(global_name[kind]), A("s", kind), U(version), A("n", next_id)>>)
    <2> DEFINE args == <<U(global_name[kind]), A("s", kind), U(version), A("n", next_id)>>
    <2>1. toServer' = Append(toServer, Request(2, 0, args, TRUE))
      BY <1>3 DEF bind_global, Sends
    <2> HIDE DEF args
    <2>2. Asked(2, 0, args)
      BY <2>1 DEF Request, Asked
    <2> QED
      BY <2>2 DEF args
  <1>4. ASSUME NEW object, NEW opcode, NEW args, NEW whole,
               Sends([Request(object, opcode, args, whole) EXCEPT !.opening = @ /\ whole])
        PROVE  Asked(object, opcode, args)
    BY <1>4 DEF Sends, Request, Asked
  <1> QED
    BY <1>1, <1>2, <1>3, <1>4

(* What is asked is a request, and the queue stays one of requests.        *)
LEMMA AskedTyped ==
  ASSUME Requests(toServer), NEW object \in Nat, NEW opcode \in Nat, NEW args, Len(args) \in Nat,
         Asked(object, opcode, args)
  PROVE  Requests(toServer')
  <1>1. PICK m : /\ toServer' = Append(toServer, m)
                 /\ m.object = object /\ m.opcode = opcode /\ m.args = args
    BY DEF Asked
  <1>2. RequestTyped(m)
    BY <1>1 DEF RequestTyped
  <1> QED
    BY <1>1, <1>2, RequestAppended

(* A request filled in from a row has the row's length, and the new id     *)
(* where the row says.                                                     *)
LEMMA FilledRight ==
  ASSUME NEW r, Len(r.sig) \in Nat, NEW made, NEW objs, NEW u
  PROVE  /\ Len(Filled(r, made, objs, u)) = Len(r.sig)
         /\ \A i \in 1..Len(r.sig) : r.sig[i] = "n" => Filled(r, made, objs, u)[i].value = made
  <1> DEFINE n == Len(r.sig)
             F(i) == A(r.sig[i], CASE r.sig[i] = "n" -> made
                                   [] r.sig[i] \in {"o", "O"} -> objs[ObjectAt(r.sig, i)]
                                   [] OTHER -> u)
  <1>1. ASSUME NEW args, args = [i \in 1..n |-> F(i)]
        PROVE  Len(args) = n /\ \A i \in 1..n : args[i] = F(i)
    <2>1. args = [i \in 1..n |-> args[i]] /\ \A i \in 1..n : args[i] = F(i)
      BY <1>1
    <2>2. n \in Nat
      OBVIOUS
    <2> HIDE DEF F, n
    <2> QED
      BY <2>1, <2>2, SeqMade
  <1>2. \A i : r.sig[i] = "n" => F(i).value = made
    BY DEF A
  <1>3. Filled(r, made, objs, u) = [i \in 1..n |-> F(i)]
    BY DEF Filled
  <1> HIDE DEF F
  <1> QED
    BY <1>1, <1>2, <1>3

(* What is listed, and picked from that.                                   *)
LEMMA ListIds ==
  ASSUME IsList(objects)
  PROVE  /\ Len(objects) \in Nat
         /\ \A i \in 1..Len(objects) : objects[i].id \in Nat /\ objects[i].kind \in Kinds
         /\ \A i \in Live : i \in 1..Len(objects)
         /\ \A kind : Picks(kind) \subseteq Nat
         /\ pick_dead \subseteq Nat /\ InUse \subseteq Nat
  <1>1. Len(objects) \in Nat
    BY SeqParts DEF IsList
  <1>2. \A i \in 1..Len(objects) : objects[i].id \in Nat /\ objects[i].kind \in Kinds
    BY DEF IsList, EntryTyped
  <1>3. \A i \in Live : i \in 1..Len(objects)
    BY DEF Live
  <1> QED
    BY <1>1, <1>2, <1>3 DEF Picks, pick_dead, InUse

(* The rows of a kind are those of the tables, and there are none for a    *)
(* kind without.                                                           *)
LEMMA ReqsTyped ==
  ASSUME NEW kind
  PROVE  /\ Len(ReqsOf(kind)) \in Nat
         /\ \A op \in 1..Len(ReqsOf(kind)) : /\ kind \in DOMAIN ifaces
                                             /\ ReqsOf(kind)[op] = ifaces[kind][op]
                                             /\ Len(ReqsOf(kind)[op].sig) \in Nat
  <1>1. CASE kind \in DOMAIN ifaces
    <2>1. ReqsOf(kind) = ifaces[kind]
      BY <1>1 DEF ReqsOf
    <2> QED
      BY <1>1, <2>1, TablesRight DEF OneNew
  <1>2. CASE kind \notin DOMAIN ifaces
    <2>1. ReqsOf(kind) = << >>
      BY <1>2 DEF ReqsOf
    <2> QED
      BY <2>1, ShortSeqs
  <1> QED
    BY <1>1, <1>2

(* Whatever may be taken for a new id is a number.                         *)
LEMMA NewIdsTyped ==
  ASSUME IsList(objects), Spent
  PROVE  new_id_arg \subseteq Nat /\ Nowhere \in Nat /\ ServerHalf \in Nat
  BY ListIds, FuzzAssumption DEF Spent, Nowhere, new_id_arg

(* Each way to send keeps the queue typed, and so does every step.         *)
LEMMA DoesTyped ==
  ASSUME Requests(toServer), NEW object \in Nat, NEW opcode \in Nat, NEW args, Len(args) \in Nat,
         Does(object, opcode, args)
  PROVE  Requests(toServer')
  <1>1. Asked(object, opcode, args)
    BY SendsAsks
  <1> QED
    BY <1>1, AskedTyped

LEMMA BindTyped ==
  ASSUME Requests(toServer), NEW kind, NEW version, bind_global(kind, version)
  PROVE  Requests(toServer')
  <1> DEFINE args == <<U(global_name[kind]), A("s", kind), U(version), A("n", next_id)>>
  <1>1. Len(args) \in Nat
    OBVIOUS
  <1>2. Asked(2, 0, args)
    BY SendsAsks
  <1> HIDE DEF args
  <1> QED
    BY <1>1, <1>2, AskedTyped

LEMMA ToServerTyped ==
  ASSUME Spent, FuzzTyped, FuzzNext
  PROVE  Requests(toServer')
  <1>1. /\ Requests(toServer) /\ IsList(objects)
        /\ win.wm \in Nat /\ win.shm \in Nat /\ win.surface \in Nat /\ win.xdg \in Nat
        /\ win.pool \in Nat /\ win.buffer \in Nat
        /\ next_id \in Nat
    BY DEF FuzzTyped, FuzzerTyped, Spent
  <1>0. ASSUME toServer' = toServer
        PROVE  Requests(toServer')
    BY <1>0, <1>1
  <1>2. CASE ReadEvents
    BY <1>2, <1>0 DEF ReadEvents, HandleGlobal, HandleConfigure, HandleDeleteId, HandleDataOffer,
                HandleRest, HandleEvent
  <1>3. CASE AwaitGlobals \/ Bound \/ AnotherWindow \/ LoopEnds
    BY <1>3, <1>0 DEF AwaitGlobals, Bound, AnotherWindow, LoopEnds
  <1>4. CASE WindowSkipped \/ AwaitSerial \/ LeftWhole \/ WindowCut
    <2>1. toServer' = toServer
      BY <1>4 DEF WindowSkipped, AwaitSerial, LeftWhole, WindowCut, WindowOver
    <2> QED
      BY <1>0, <2>1
  <1>5. CASE Compositor
    <2>1. toServer' = toServer \/ toServer' = << >> \/ (toServer # << >> /\ toServer' = Tail(toServer))
      BY <1>5 DEF Compositor, TakeRequest, TellGlobal, FrameShown, OfferData
    <2>2. Requests(<< >>)
      BY ShortSeqs DEF Requests
    <2> QED
      BY <2>1, <2>2, <1>1, QueuesTailed
  <1>6. CASE BindNext
    <2>1. toServer' = toServer \/ \E k, v : bind_global(k, v)
      BY <1>6 DEF BindNext
    <2> QED
      BY <1>0, <1>1, <2>1, BindTyped
  <1>7. CASE legal_bind
    <2>1. \E k, v : bind_global(k, v)
      BY <1>7 DEF legal_bind
    <2> QED
      BY <1>1, <2>1, BindTyped
  <1>8. CASE CreateSurface
    <2>1. PICK c \in Picks("compositor") : Does(c, 0, <<A("n", next_id)>>)
      BY <1>8 DEF CreateSurface
    <2>2. Len(<<A("n", next_id)>>) \in Nat
      OBVIOUS
    <2> QED
      BY <1>1, <2>1, <2>2, DoesTyped, ListIds
  <1>9. CASE GetXdgSurface
    <2>1. Does(win.wm, 2, <<A("n", win.xdg), A("o", win.surface)>>)
      BY <1>9 DEF GetXdgSurface
    <2>2. Len(<<A("n", win.xdg), A("o", win.surface)>>) \in Nat
      OBVIOUS
    <2> QED
      BY <1>1, <2>1, <2>2, DoesTyped
  <1>10. CASE GetToplevel
    <2>1. Does(win.xdg, 1, <<A("n", win.top)>>)
      BY <1>10 DEF GetToplevel
    <2>2. Len(<<A("n", win.top)>>) \in Nat
      OBVIOUS
    <2> QED
      BY <1>1, <2>1, <2>2, DoesTyped
  <1>11. CASE AckConfigure
    <2>1. Does(win.xdg, 4, <<U(last_serial)>>)
      BY <1>11 DEF AckConfigure
    <2>2. Len(<<U(last_serial)>>) \in Nat
      OBVIOUS
    <2> QED
      BY <1>1, <2>1, <2>2, DoesTyped
  <1>12. CASE CreatePool
    <2> DEFINE args == <<A("n", next_id), A("h", 0), U(0)>>
    <2>1. PICK memory : Sends([Request(win.shm, 0, args, memory) EXCEPT !.opening = @ /\ memory])
      BY <1>12 DEF CreatePool
    <2>2. Len(args) \in Nat
      OBVIOUS
    <2> HIDE DEF args
    <2>3. Asked(win.shm, 0, args)
      BY <2>1, SendsAsks
    <2> QED
      BY <1>1, <2>2, <2>3, AskedTyped
  <1>13. CASE CreateBuffer
    <2>1. Does(win.pool, 0, <<A("n", win.buffer), U(0), U(0), U(0), U(0), U(1)>>)
      BY <1>13 DEF CreateBuffer
    <2>2. Len(<<A("n", win.buffer), U(0), U(0), U(0), U(0), U(1)>>) \in Nat
      OBVIOUS
    <2> QED
      BY <1>1, <2>1, <2>2, DoesTyped
  <1>14. CASE Attach
    <2>1. Does(win.surface, 1, <<A("O", win.buffer), U(0), U(0)>>)
      BY <1>14 DEF Attach
    <2>2. Len(<<A("O", win.buffer), U(0), U(0)>>) \in Nat
      OBVIOUS
    <2> QED
      BY <1>1, <2>1, <2>2, DoesTyped
  <1>15. CASE Commit
    <2>1. Does(win.surface, 6, << >>)
      BY <1>15 DEF Commit, WindowOver
    <2>2. Len(<< >>) \in Nat
      OBVIOUS
    <2> QED
      BY <1>1, <2>1, <2>2, DoesTyped
  <1>16. CASE DestroyBuffer
    <2>1. Does(win.buffer, 0, << >>)
      BY <1>16 DEF DestroyBuffer
    <2>2. Len(<< >>) \in Nat
      OBVIOUS
    <2> QED
      BY <1>1, <2>1, <2>2, DoesTyped
  <1>17. CASE DestroyPool
    <2>1. Does(win.pool, 1, << >>)
      BY <1>17 DEF DestroyPool
    <2>2. Len(<< >>) \in Nat
      OBVIOUS
    <2> QED
      BY <1>1, <2>1, <2>2, DoesTyped
  <1>18. CASE request
    <2>1. PICK i \in Live : \E op \in 1..Len(ReqsOf(objects[i].kind)) :
            \E made, whole, objs, u :
              MakeRequest(i, ReqsOf(objects[i].kind)[op], op, made, whole, objs, u)
      BY <1>18 DEF request
    <2>a. PICK op \in 1..Len(ReqsOf(objects[i].kind)) :
            \E made, whole, objs, u :
              MakeRequest(i, ReqsOf(objects[i].kind)[op], op, made, whole, objs, u)
      BY <2>1
    <2>b. PICK made, whole, objs, u :
            Sends(Request(objects[i].id, op - 1,
                          Filled(ReqsOf(objects[i].kind)[op], made, objs, u), whole))
      BY <2>a DEF MakeRequest
    <2>2. /\ objects[i].id \in Nat /\ op - 1 \in Nat
          /\ Len(Filled(ReqsOf(objects[i].kind)[op], made, objs, u)) \in Nat
      BY <1>1, ListIds, ReqsTyped, FilledRight
    <2> QED
      BY <1>1, <2>b, <2>2, SendsAsks, AskedTyped
  <1>19. CASE RequestUnknown
    <2>1. \/ \E i \in Live, far \in BOOLEAN :
               Does(objects[i].id, IF far THEN FarOpcode ELSE Len(ReqsOf(objects[i].kind)),
                    <<U(0), U(0), U(0), U(0)>>)
          \/ \E id \in pick_dead \cup {0, Nowhere} : Does(id, 0, <<U(0), U(0), U(0), U(0)>>)
      BY <1>19, Zenon DEF RequestUnknown
    <2> DEFINE args == <<U(0), U(0), U(0), U(0)>>
    <2>2. Len(args) \in Nat
      OBVIOUS
    <2>3. \A far \in BOOLEAN : \A kind :
            (IF far THEN FarOpcode ELSE Len(ReqsOf(kind))) \in Nat
      BY ReqsTyped DEF FarOpcode
    <2> HIDE DEF args
    <2>a. \/ \E i \in Live, far \in BOOLEAN :
               Does(objects[i].id, IF far THEN FarOpcode ELSE Len(ReqsOf(objects[i].kind)), args)
          \/ \E id \in pick_dead \cup {0, Nowhere} : Does(id, 0, args)
      BY <2>1 DEF args
    <2>4. \/ \E i \in Live : \E opcode \in Nat : Does(objects[i].id, opcode, args)
          \/ \E id \in pick_dead \cup {0, Nowhere} : Does(id, 0, args)
      BY <2>a, <2>3
    <2>5. \A i \in Live : objects[i].id \in Nat
      BY <1>1, ListIds
    <2>6. \A id \in pick_dead \cup {0, Nowhere} : id \in Nat
      BY <1>1, ListIds, NewIdsTyped
    <2> QED
      BY <1>1, <2>2, <2>4, <2>5, <2>6, DoesTyped
  <1>20. CASE BindGuessed
    <2>1. PICK i \in Live : \E a, b, c, d : Does(objects[i].id, 0, <<a, b, c, d>>)
      BY <1>20 DEF BindGuessed
    <2>2. PICK args : Len(args) \in Nat /\ Does(objects[i].id, 0, args)
      <3>1. \A a, b, c, d : Len(<<a, b, c, d>>) \in Nat
        OBVIOUS
      <3> QED
        BY <2>1, <3>1
    <2>3. objects[i].id \in Nat
      BY <1>1, ListIds
    <2> QED
      BY <1>1, <2>2, <2>3, DoesTyped
  <1> QED
    BY <1>2, <1>3, <1>4, <1>5, <1>6, <1>7, <1>8, <1>9, <1>10, <1>11, <1>12, <1>13, <1>14, <1>15,
       <1>16, <1>17, <1>18, <1>19, <1>20 DEF FuzzNext, Window, Loop

(* What a request changes in the list leaves it a list.                    *)
LEMMA NotedTyped ==
  ASSUME IsList(objects), NEW object, NEW r, NEW made \in Nat, r.makes \in Kinds \cup {K_NONE}
  PROVE  IsList(Noted(object, r, made))
  <1>1. PICK list : /\ list = IF made # 0 /\ r.makes # K_NONE THEN remember(objects, made, r.makes)
                                                              ELSE objects
    OBVIOUS
  <1>2. IsList(list)
    BY <1>1, RememberTyped
  <1>3. Noted(object, r, made) = forget(list, object) \/ Noted(object, r, made) = list
    BY <1>1 DEF Noted
  <1> QED
    BY <1>2, <1>3, ForgetTyped

(* The kinds named in the steps are kinds.                                 *)
LEMMA KindsKnown ==
  {"display", "registry", "compositor", "shm", "pool", "buffer",
   "surface", "region", "wm_base", "xdg_surface", "toplevel", "offer"} \subseteq Kinds
  /\ \A i \in 1..7 : globals[i] \in Kinds
  BY AllKinds DEF globals

(* Every step leaves the list a list.                                      *)
LEMMA ListStays ==
  ASSUME Spent, FuzzTyped, FuzzNext
  PROVE  IsList(objects')
  <1>1. /\ IsList(objects)
        /\ win.wm \in Nat /\ win.shm \in Nat /\ win.surface \in Nat /\ win.xdg \in Nat
        /\ win.top \in Nat /\ win.pool \in Nat /\ win.buffer \in Nat
        /\ next_id \in Nat
    BY DEF FuzzTyped, FuzzerTyped, Spent
  <1>0. ASSUME objects' = objects
        PROVE  IsList(objects')
    BY <1>0, <1>1
  <1>a. /\ "surface" \in Kinds /\ "xdg_surface" \in Kinds /\ "toplevel" \in Kinds
        /\ "pool" \in Kinds /\ "buffer" \in Kinds /\ "offer" \in Kinds
    BY KindsKnown
  <1>b. \A kind \in Kinds : \A version : bind_global(kind, version) => IsList(objects')
    BY <1>1, RememberTyped DEF bind_global
  <1>2. CASE HandleGlobal \/ HandleConfigure \/ HandleRest
    BY <1>2, <1>0 DEF HandleGlobal, HandleConfigure, HandleRest
  <1>3. CASE HandleDeleteId
    BY <1>1, <1>3, ForgetTyped DEF HandleDeleteId
  <1>4. CASE HandleDataOffer
    <2>1. EventTyped(Head(toClient)) /\ Head(toClient).op = "data_offer"
      BY <1>4, QueuesTailed DEF HandleDataOffer, HandleEvent, FuzzTyped
    <2>2. Head(toClient).id \in Nat
      BY <2>1 DEF EventTyped
    <2>3. objects' = objects \/ objects' = remember(objects, Head(toClient).id, "offer")
      BY <1>4 DEF HandleDataOffer
    <2> QED
      BY <1>1, <1>a, <2>2, <2>3, RememberTyped
  <1>5. CASE AwaitGlobals \/ Bound \/ AnotherWindow \/ LoopEnds \/ RequestUnknown
    BY <1>5, <1>0 DEF AwaitGlobals, Bound, AnotherWindow, LoopEnds, RequestUnknown
  <1>6. CASE WindowSkipped \/ AwaitSerial \/ LeftWhole \/ WindowCut \/ AckConfigure \/ Attach \/ Commit
    <2>1. objects' = objects
      BY <1>6 DEF WindowSkipped, AwaitSerial, LeftWhole, WindowCut, WindowOver, AckConfigure, Attach,
                  Commit
    <2> QED
      BY <1>0, <2>1
  <1>7. CASE Compositor
    <2>1. objects' = objects
      BY <1>7 DEF Compositor, TakeRequest, TellGlobal, FrameShown, OfferData, fuzzer
    <2> QED
      BY <1>0, <2>1
  <1>8. CASE BindNext
    <2>1. step \in 1..7
      BY <1>8 DEF BindNext, Spent, globals
    <2>2. objects' = objects \/ \E version : bind_global(globals[step], version)
      BY <1>8 DEF BindNext
    <2>3. globals[step] \in Kinds
      BY <2>1, KindsKnown
    <2> QED
      BY <1>0, <1>b, <2>2, <2>3
  <1>9. CASE legal_bind
    <2>1. \E k \in Kinds : \E version : bind_global(k, version)
      BY <1>9 DEF legal_bind
    <2> QED
      BY <1>b, <2>1
  <1>10. CASE CreateSurface
    <2>1. objects' = remember(objects, next_id, "surface")
      BY <1>10 DEF CreateSurface
    <2> QED
      BY <1>1, <1>a, <2>1, RememberTyped
  <1>11. CASE GetXdgSurface
    <2>1. objects' = remember(objects, win.xdg, "xdg_surface")
      BY <1>11 DEF GetXdgSurface, New
    <2> QED
      BY <1>1, <1>a, <2>1, RememberTyped
  <1>12. CASE GetToplevel
    <2>1. objects' = remember(objects, win.top, "toplevel")
      BY <1>12 DEF GetToplevel, New
    <2> QED
      BY <1>1, <1>a, <2>1, RememberTyped
  <1>13. CASE CreatePool
    <2>1. objects' = remember(objects, next_id, "pool")
      BY <1>13 DEF CreatePool
    <2> QED
      BY <1>1, <1>a, <2>1, RememberTyped
  <1>14. CASE CreateBuffer
    <2>1. objects' = remember(objects, win.buffer, "buffer")
      BY <1>14 DEF CreateBuffer, New
    <2> QED
      BY <1>1, <1>a, <2>1, RememberTyped
  <1>15. CASE DestroyBuffer
    <2>1. objects' = forget(objects, win.buffer)
      BY <1>15 DEF DestroyBuffer
    <2> QED
      BY <1>1, <2>1, ForgetTyped
  <1>16. CASE DestroyPool
    <2>1. objects' = forget(objects, win.pool)
      BY <1>16 DEF DestroyPool
    <2> QED
      BY <1>1, <2>1, ForgetTyped
  <1>17. CASE request
    <2>1. PICK i \in Live : \E op \in 1..Len(ReqsOf(objects[i].kind)) :
            \E made, whole, objs, u :
              /\ made \in NewIds(ReqsOf(objects[i].kind)[op])
              /\ MakeRequest(i, ReqsOf(objects[i].kind)[op], op, made, whole, objs, u)
      BY <1>17, SMTT(30) DEF request
    <2>2. PICK op \in 1..Len(ReqsOf(objects[i].kind)) :
            \E made \in NewIds(ReqsOf(objects[i].kind)[op]) :
              objects' = Noted(objects[i].id, ReqsOf(objects[i].kind)[op], made)
      BY <2>1 DEF MakeRequest
    <2>3. PICK made \in NewIds(ReqsOf(objects[i].kind)[op]) :
            objects' = Noted(objects[i].id, ReqsOf(objects[i].kind)[op], made)
      BY <2>2
    <2>4. made \in Nat
      BY <1>1, NewIdsTyped DEF NewIds
    <2>5. ReqsOf(objects[i].kind)[op].makes \in Kinds \cup {K_NONE}
      <3>1. /\ objects[i].kind \in DOMAIN ifaces /\ op \in 1..Len(ifaces[objects[i].kind])
            /\ ReqsOf(objects[i].kind)[op] = ifaces[objects[i].kind][op]
        BY ReqsTyped DEF ReqsOf
      <3> QED
        BY <3>1, TablesRight DEF OneNew
    <2> QED
      BY <1>1, <2>3, <2>4, <2>5, NotedTyped
  <1>18. CASE BindGuessed
    <2>1. PICK made \in new_id_arg, makes \in {K_NONE, "surface"} :
            objects' = IF made # 0 /\ makes # K_NONE THEN remember(objects, made, makes) ELSE objects
      BY <1>18 DEF BindGuessed
    <2>2. made \in Nat /\ "surface" \in Kinds
      BY <1>1, <1>a, NewIdsTyped
    <2> QED
      BY <1>0, <1>1, <2>1, <2>2, RememberTyped
  <1> QED
    BY <1>2, <1>3, <1>4, <1>5, <1>6, <1>7, <1>8, <1>9, <1>10, <1>11, <1>12, <1>13, <1>14, <1>15,
       <1>16, <1>17, <1>18 DEF FuzzNext, Window, Loop, ReadEvents

(* The ids a request makes for the compositor are those at the places its  *)
(* form says.                                                              *)
LEMMA MadeParts ==
  ASSUME NEW m
  PROVE  \A x : x \in Made(m) <=>
           \E i \in 1..Len(Expected(m).args) :
             Expected(m).args[i].letter = "n" /\ m.args[i].value = x
  <1> DEFINE K(i) == IF Is(m, "registry", 0) THEN m.args[2].value ELSE Expected(m).args[i].kind
             N == {j \in 1..Len(Expected(m).args) : Expected(m).args[j].letter = "n"}
  <1>1. NewOf(m) = {<<m.args[i].value, K(i)>> : i \in N}
    BY DEF NewOf
  <1> HIDE DEF K, N
  <1>2. ASSUME NEW x \in Made(m)
        PROVE  \E i \in N : x = m.args[i].value
    <2>1. PICK p \in NewOf(m) : x = p[1]
      BY DEF Made
    <2>2. PICK i \in N : p = <<m.args[i].value, K(i)>>
      BY <1>1
    <2> QED
      BY <2>1, <2>2
  <1>3. ASSUME NEW i \in N
        PROVE  m.args[i].value \in Made(m)
    <2>1. <<m.args[i].value, K(i)>> \in NewOf(m)
      BY <1>1
    <2>2. <<m.args[i].value, K(i)>>[1] = m.args[i].value
      OBVIOUS
    <2> QED
      BY <2>1, <2>2 DEF Made
  <1> QED
    BY <1>2, <1>3 DEF N

(* Those that decode are new to it.                                        *)
LEMMA MadeIsNew ==
  ASSUME NEW m, Decodes(m)
  PROVE  \A x \in Made(m) : NewId(x)
  <1>1. ASSUME NEW i \in 1..Len(Expected(m).args), Expected(m).args[i].letter = "n"
        PROVE  NewId(m.args[i].value)
    <2>1. Fits(Expected(m).args[i], m.args[i])
      BY DEF Decodes
    <2> QED
      BY <1>1, <2>1 DEF Fits
  <1> QED
    BY <1>1, MadeParts

(* What goes with a request: its object, if it is its last, and the        *)
(* callback of a sync.                                                     *)
LEMMA GoneParts ==
  ASSUME NEW m
  PROVE  \A x : x \in Gone(m) <=> \/ x = m.object /\ Expected(m).destroys
                                  \/ x \in Made(m) /\ Is(m, "display", 0)
  BY DEF Gone

(* What goes is one thing at most, and told of.                            *)
LEMMA IdsParts ==
  ASSUME NEW set
  PROVE  /\ IsSeq(Ids(set)) /\ Len(Ids(set)) \in {0, 1}
         /\ \A i \in 1..Len(Ids(set)) : Ids(set)[i].op = "delete_id" /\ Ids(set)[i].id \in set
         /\ \A x : set = {x} => Len(Ids(set)) = 1 /\ Ids(set)[1].id = x
  <1>1. CASE set = {}
    <2>1. Ids(set) = << >>
      BY <1>1 DEF Ids
    <2> QED
      BY <1>1, <2>1, ShortSeqs
  <1>2. CASE set # {}
    <2>1. PICK e : Ids(set) = <<e>> /\ e.op = "delete_id" /\ e.id \in set
      <3>1. PICK id : id = CHOOSE i \in set : TRUE
        OBVIOUS
      <3>2. id \in set
        BY <1>2, <3>1
      <3>3. Ids(set) = <<[op |-> "delete_id", id |-> id]>>
        BY <1>2, <3>1 DEF Ids
      <3> QED
        BY <3>2, <3>3
    <2> QED
      BY <2>1, ShortSeqs
  <1> QED
    BY <1>1, <1>2

(* A request taken leaves what the compositor keeps, and what it has sent, *)
(* typed.                                                                  *)
LEMMA AcceptTyped ==
  ASSUME CompositorTyped, NEW m, RequestTyped(m), Decodes(m), Accept(m), UNCHANGED <<offered, offers>>,
         Events(toClient)
  PROVE  Events(toClient') /\ CompositorTyped'
  <1>1. Made(m) \subseteq Nat
    BY MadeIsNew DEF NewId, CompositorTyped
  <1>2. Gone(m) \subseteq Nat
    BY <1>1, GoneParts DEF RequestTyped
  <1>3. DOMAIN resources' \subseteq DOMAIN resources \cup Made(m)
    BY DEF Accept
  <1>4. highest' \in Nat
    BY <1>1 DEF Accept, CompositorTyped
  <1>5. serial' \in Nat /\ telling' \in Nat
    BY DEF Accept, CompositorTyped
  <1>6. CompositorTyped'
    BY <1>1, <1>3, <1>4, <1>5 DEF CompositorTyped
  <1> DEFINE gone == Ids({i \in Gone(m) : i < ServerHalf})
             told == IF Is(m, "xdg_surface", 1)
                       THEN <<[op |-> "configure", id |-> m.object, serial |-> serial + 1]>>
                       ELSE << >>
  <1>7. toClient' = toClient \o gone \o told
    BY DEF Accept
  <1>8. Events(gone)
    <2> DEFINE set == {i \in Gone(m) : i < ServerHalf}
    <2>1. set \subseteq Nat
      BY <1>2
    <2> HIDE DEF set
    <2>2. Events(Ids(set))
      BY <2>1, IdsParts DEF Events, EventTyped
    <2> QED
      BY <2>2 DEF set
  <1>9. Events(told)
    <2>1. CASE Is(m, "xdg_surface", 1)
      <3>1. PICK e : e = [op |-> "configure", id |-> m.object, serial |-> serial + 1]
        OBVIOUS
      <3>2. EventTyped(e)
        BY <3>1 DEF EventTyped, CompositorTyped
      <3>3. told = <<e>>
        BY <2>1, <3>1
      <3> HIDE DEF told
      <3> QED
        BY <3>2, <3>3, ShortSeqs DEF Events
    <2>2. CASE ~Is(m, "xdg_surface", 1)
      BY <2>2, ShortSeqs DEF Events
    <2> QED
      BY <2>1, <2>2
  <1> HIDE DEF gone, told
  <1>10. Events(toClient')
    <2>1. Events(toClient \o gone)
      BY <1>8, EventsJoined
    <2> QED
      BY <2>1, <1>7, <1>9, EventsJoined
  <1> QED
    BY <1>6, <1>10

(* So does every step.                                                     *)
LEMMA EventsStay ==
  ASSUME Spent, FuzzTyped, FuzzNext
  PROVE  Events(toClient') /\ CompositorTyped'
  <1>1. Events(toClient) /\ CompositorTyped /\ Requests(toServer)
    BY DEF FuzzTyped
  <1>0. ASSUME UNCHANGED <<toClient, compositor>>
        PROVE  Events(toClient') /\ CompositorTyped'
    BY <1>0, <1>1 DEF compositor, CompositorTyped
  <1>2. CASE ReadEvents
    <2>1. UNCHANGED compositor
      BY <1>2 DEF ReadEvents, HandleGlobal, HandleConfigure, HandleDeleteId, HandleDataOffer,
                  HandleRest, HandleEvent
    <2>2. toClient' = toClient \/ (toClient # << >> /\ toClient' = Tail(toClient))
      BY <1>2 DEF ReadEvents, HandleGlobal, HandleConfigure, HandleDeleteId, HandleDataOffer,
                  HandleRest, HandleEvent
    <2>3. Events(toClient')
      BY <1>1, <2>2, QueuesTailed
    <2>4. CompositorTyped'
      BY <1>1, <2>1 DEF compositor, CompositorTyped
    <2> QED
      BY <2>3, <2>4
  <1>3. CASE AwaitGlobals \/ BindNext \/ Bound \/ Loop
    <2>1. UNCHANGED <<toClient, compositor>>
      BY <1>3 DEF AwaitGlobals, BindNext, Bound, Loop, AnotherWindow, LoopEnds, legal_bind, request,
                  RequestUnknown, BindGuessed, Counted
    <2> QED
      BY <1>0, <2>1
  <1>4. CASE Window
    <2>1. UNCHANGED <<toClient, compositor>>
      BY <1>4 DEF Window, WindowSkipped, CreateSurface, GetXdgSurface, GetToplevel, AwaitSerial,
                  AckConfigure, CreatePool, CreateBuffer, Attach, Commit, LeftWhole, DestroyBuffer,
                  DestroyPool, WindowCut, WindowOver, Kept
    <2> QED
      BY <1>0, <2>1
  <1>5. CASE TakeRequest
    <2> DEFINE m == Head(toServer)
    <2>1. RequestTyped(m)
      BY <1>1, <1>5, QueuesTailed DEF TakeRequest
    <2>2. UNCHANGED <<offered, offers>>
      BY <1>5 DEF TakeRequest
    <2>3. \/ Decodes(m) /\ Accept(m)
          \/ UNCHANGED <<resources, highest, serial, toClient, telling>>
      BY <1>5 DEF TakeRequest
    <2>4. CASE Decodes(m) /\ Accept(m)
      <3> HIDE DEF m
      <3> QED
        BY <1>1, <2>1, <2>2, <2>4, AcceptTyped
    <2>5. CASE UNCHANGED <<resources, highest, serial, toClient, telling>>
      BY <1>1, <2>2, <2>5 DEF CompositorTyped
    <2> QED
      BY <2>3, <2>4, <2>5
  <1>6. CASE TellGlobal
    <2>1. PICK e : /\ e = [op |-> "global", kind |-> offered[telling].kind, name |-> telling,
                           version |-> offered[telling].version]
                   /\ toClient' = Append(toClient, e)
      BY <1>6 DEF TellGlobal
    <2>2. telling \in 1..Len(offered)
      BY <1>6 DEF TellGlobal
    <2>3. offered[telling].kind \in Kinds /\ offered[telling].version \in Nat
      <3>a. PICK R : R = [kind : DOMAIN ifaces, version : Nat \ {0}]
        OBVIOUS
      <3>b. offered \in Seq(R)
        BY <1>1, <3>a DEF CompositorTyped
      <3>c. offered[telling] \in R
        BY <2>2, <3>b
      <3>1. PICK g \in [kind : DOMAIN ifaces, version : Nat \ {0}] : g = offered[telling]
        BY <3>a, <3>c
      <3>2. DOMAIN ifaces \subseteq Kinds
        BY DEF Kinds
      <3>3. g.kind \in DOMAIN ifaces /\ g.version \in Nat
        OBVIOUS
      <3> QED
        BY <3>1, <3>2, <3>3, Zenon
    <2>4. EventTyped(e)
      BY <1>1, <2>1, <2>3 DEF EventTyped, CompositorTyped
    <2>5. Events(toClient')
      BY <1>1, <2>1, <2>4, EventAppended
    <2>6. CompositorTyped'
      BY <1>1, <1>6 DEF TellGlobal, CompositorTyped
    <2> QED
      BY <2>5, <2>6
  <1>7. CASE FrameShown
    <2>1. PICK id \in DOMAIN resources :
            /\ resources' = [i \in DOMAIN resources \ {id} |-> resources[i]]
            /\ toClient' = Append(toClient, [op |-> "delete_id", id |-> id])
      BY <1>7 DEF FrameShown
    <2>2. PICK e : e = [op |-> "delete_id", id |-> id] /\ toClient' = Append(toClient, e)
      BY <2>1
    <2>3. EventTyped(e)
      BY <1>1, <2>2 DEF EventTyped, CompositorTyped
    <2>4. Events(toClient')
      BY <1>1, <2>2, <2>3, EventAppended
    <2>5. DOMAIN resources' \subseteq Nat
      BY <1>1, <2>1 DEF CompositorTyped
    <2>6. CompositorTyped'
      BY <1>1, <1>7, <2>5 DEF FrameShown, CompositorTyped
    <2> QED
      BY <2>4, <2>6
  <1>8. CASE OfferData
    <2>1. offers' = offers + 1 /\ ServerHalf + offers' \in Nat
      BY <1>1, <1>8, FuzzAssumption DEF OfferData, CompositorTyped
    <2>2. PICK d : toClient' = Append(toClient, [op |-> "data_offer", device |-> d,
                                                 id |-> ServerHalf + offers'])
      BY <1>8 DEF OfferData
    <2>3. PICK e : /\ e = [op |-> "data_offer", device |-> d, id |-> ServerHalf + offers']
                   /\ toClient' = Append(toClient, e)
      BY <2>2
    <2>4. EventTyped(e)
      BY <2>1, <2>3 DEF EventTyped
    <2>5. Events(toClient')
      BY <1>1, <2>3, <2>4, EventAppended
    <2>6. DOMAIN resources' = DOMAIN resources \cup {ServerHalf + offers'}
      BY <1>8 DEF OfferData
    <2>7. CompositorTyped'
      BY <1>1, <1>8, <2>1, <2>6 DEF OfferData, CompositorTyped
    <2> QED
      BY <2>5, <2>7
  <1> QED
    BY <1>2, <1>3, <1>4, <1>5, <1>6, <1>7, <1>8 DEF FuzzNext, Compositor

(* The window's fields.                                                    *)
Fields == {"wm", "shm", "surface", "xdg", "top", "pool", "buffer"}
LEMMA WinSet ==
  ASSUME NEW w \in [Fields -> Nat], NEW f \in Fields, NEW id \in Nat
  PROVE  [w EXCEPT ![f] = id] \in [Fields -> Nat]
  OBVIOUS

(* And what the fuzzer keeps.                                              *)
LEMMA FuzzerStays ==
  ASSUME Spent, FuzzTyped, FuzzNext
  PROVE  FuzzerTyped'
  <1>1. FuzzerTyped
    BY DEF FuzzTyped
  <1>0. ASSUME UNCHANGED <<win, global_name, global_version, last_serial>>
        PROVE  FuzzerTyped'
    BY <1>0, <1>1 DEF FuzzerTyped
  <1>2. CASE HandleGlobal
    <2> DEFINE g == Head(toClient)
    <2>1. EventTyped(g) /\ g.op = "global"
      BY <1>2, QueuesTailed DEF HandleGlobal, HandleEvent, FuzzTyped
    <2>2. g.kind \in Kinds /\ g.name \in Nat /\ g.version \in Nat
      BY <2>1 DEF EventTyped
    <2>3. /\ global_name' = [global_name EXCEPT ![g.kind] = g.name]
          /\ global_version' = [global_version EXCEPT ![g.kind] = g.version]
          /\ UNCHANGED <<win, last_serial>>
      BY <1>2 DEF HandleGlobal, HandleEvent
    <2> HIDE DEF g
    <2> QED
      BY <1>1, <2>2, <2>3 DEF FuzzerTyped
  <1>3. CASE HandleConfigure
    <2>1. EventTyped(Head(toClient)) /\ Head(toClient).op = "configure"
      BY <1>3, QueuesTailed DEF HandleConfigure, HandleEvent, FuzzTyped
    <2>2. Head(toClient).serial \in Nat
      BY <2>1 DEF EventTyped
    <2> QED
      BY <1>1, <1>3, <2>2 DEF HandleConfigure, HandleEvent, FuzzerTyped
  <1>4. CASE HandleDeleteId \/ HandleDataOffer \/ HandleRest
    BY <1>0, <1>4 DEF HandleDeleteId, HandleDataOffer, HandleRest, HandleEvent
  <1>5. CASE AwaitGlobals \/ BindNext \/ Bound \/ Loop
    <2>1. UNCHANGED <<win, global_name, global_version, last_serial>>
      BY <1>5 DEF AwaitGlobals, BindNext, Bound, Loop, AnotherWindow, LoopEnds, legal_bind, request,
                  RequestUnknown, BindGuessed, Counted
    <2> QED
      BY <1>0, <2>1
  <1>6. CASE Compositor
    <2>1. UNCHANGED <<win, global_name, global_version, last_serial>>
      BY <1>6 DEF Compositor, TakeRequest, TellGlobal, FrameShown, OfferData, fuzzer
    <2> QED
      BY <1>0, <2>1
  <1>7. CASE WindowSkipped \/ GetXdgSurface \/ GetToplevel \/ AwaitSerial \/ AckConfigure
             \/ CreateBuffer \/ Attach \/ Commit \/ LeftWhole \/ DestroyBuffer \/ DestroyPool
             \/ WindowCut
    <2>1. UNCHANGED <<win, global_name, global_version, last_serial>>
      BY <1>7 DEF WindowSkipped, GetXdgSurface, GetToplevel, AwaitSerial,
                  AckConfigure, CreateBuffer, Attach, Commit, LeftWhole, DestroyBuffer,
                  DestroyPool, WindowCut, WindowOver, Kept
    <2> QED
      BY <1>0, <2>1
  <1>8. CASE CreateSurface
    <2>1. PICK w \in Picks("wm_base"), s \in Picks("shm") :
            win' = [win EXCEPT !.wm = w, !.shm = s, !.surface = next_id, !.xdg = next_id + 1,
                               !.top = next_id + 2]
      BY <1>8 DEF CreateSurface
    <2>2. w \in Nat /\ s \in Nat /\ next_id \in Nat /\ next_id + 1 \in Nat /\ next_id + 2 \in Nat
      BY ListIds DEF Spent, FuzzTyped
    <2>3. UNCHANGED <<global_name, global_version, last_serial>>
      BY <1>8 DEF CreateSurface, Kept
    <2>a. win \in [Fields -> Nat] /\ Fields = {"wm", "shm", "surface", "xdg", "top", "pool", "buffer"}
      BY <1>1 DEF FuzzerTyped, Fields
    <2>b. PICK w1 \in [Fields -> Nat] : w1 = [win EXCEPT !.wm = w]
      BY <2>2, <2>a, WinSet
    <2>c. PICK w2 \in [Fields -> Nat] : w2 = [w1 EXCEPT !.shm = s]
      BY <2>2, <2>a, WinSet
    <2>d. PICK w3 \in [Fields -> Nat] : w3 = [w2 EXCEPT !.surface = next_id]
      BY <2>2, <2>a, WinSet
    <2>e. PICK w4 \in [Fields -> Nat] : w4 = [w3 EXCEPT !.xdg = next_id + 1]
      BY <2>2, <2>a, WinSet
    <2>f. PICK w5 \in [Fields -> Nat] : w5 = [w4 EXCEPT !.top = next_id + 2]
      BY <2>2, <2>a, WinSet
    <2>4. win' = w5
      BY <2>1, <2>b, <2>c, <2>d, <2>e, <2>f
    <2> QED
      BY <1>1, <2>3, <2>4, <2>a DEF FuzzerTyped
  <1>9. CASE CreatePool
    <2>1. /\ win' = [win EXCEPT !.pool = next_id, !.buffer = next_id + 1]
          /\ UNCHANGED <<global_name, global_version, last_serial>>
      BY <1>9 DEF CreatePool, Kept
    <2>2. next_id \in Nat /\ next_id + 1 \in Nat
      BY DEF Spent
    <2>a. win \in [Fields -> Nat] /\ Fields = {"wm", "shm", "surface", "xdg", "top", "pool", "buffer"}
      BY <1>1 DEF FuzzerTyped, Fields
    <2>b. PICK w1 \in [Fields -> Nat] : w1 = [win EXCEPT !.pool = next_id]
      BY <2>2, <2>a, WinSet
    <2>c. PICK w2 \in [Fields -> Nat] : w2 = [w1 EXCEPT !.buffer = next_id + 1]
      BY <2>2, <2>a, WinSet
    <2>4. win' = w2
      BY <2>1, <2>b, <2>c
    <2> QED
      BY <1>1, <2>1, <2>4, <2>a DEF FuzzerTyped
  <1> QED
    BY <1>2, <1>3, <1>4, <1>5, <1>6, <1>7, <1>8, <1>9 DEF FuzzNext, Window, ReadEvents

(* So everything is typed all the time.                                    *)
LEMMA FuzzTypedStep ==
  ASSUME Spent, FuzzTyped, FuzzNext
  PROVE  FuzzTyped'
  BY ListStays, ToServerTyped, EventsStay, FuzzerStays DEF FuzzTyped

LEMMA FuzzTypedInit == FuzzInit => FuzzTyped
  <1> SUFFICES ASSUME FuzzInit
               PROVE  FuzzTyped
    OBVIOUS
  <1>1. IsList(objects)
    <2>1. PICK a, b : a = Entry(1, "display", FALSE) /\ b = Entry(2, "registry", FALSE)
      OBVIOUS
    <2>2. EntryTyped(a) /\ EntryTyped(b)
      BY <2>1, KindsKnown DEF EntryTyped, Entry
    <2>3. objects = <<a, b>>
      BY <2>1 DEF FuzzInit
    <2>4. objects = Append(<<a>>, b) /\ Len(objects) = 2 /\ objects[1] = a /\ objects[2] = b
      BY <2>3
    <2>5. IsSeq(objects)
      BY <2>4, ShortSeqs, SeqAppended
    <2> QED
      BY <2>2, <2>4, <2>5 DEF IsList
  <1>2. Requests(toServer)
    <2>1. PICK a, b : /\ toServer = <<a, b>> /\ a.object = 1 /\ a.opcode = 1 /\ Len(a.args) = 1
                      /\ b.object = 1 /\ b.opcode = 0 /\ Len(b.args) = 1
      BY DEF FuzzInit
    <2>2. RequestTyped(a) /\ RequestTyped(b)
      BY <2>1 DEF RequestTyped
    <2>4. toServer = Append(<<a>>, b) /\ Len(toServer) = 2 /\ toServer[1] = a /\ toServer[2] = b
      BY <2>1
    <2>5. IsSeq(toServer)
      BY <2>4, ShortSeqs, SeqAppended
    <2> QED
      BY <2>2, <2>4, <2>5 DEF Requests
  <1>3. Events(toClient)
    BY ShortSeqs DEF FuzzInit, Events
  <1>4. FuzzerTyped
    BY DEF FuzzInit, FuzzerTyped
  <1>5. CompositorTyped
    <2>1. offered \in Seq([kind : DOMAIN ifaces, version : Nat \ {0}])
      BY FuzzAssumption DEF FuzzInit
    <2>2. DOMAIN resources = {1} /\ serial = 0 /\ highest = 1 /\ offers = 0 /\ telling = 0
      BY DEF FuzzInit
    <2> QED
      BY <2>1, <2>2 DEF CompositorTyped
  <1> QED
    BY <1>1, <1>2, <1>3, <1>4, <1>5 DEF FuzzTyped

(* A request is sent to something.                                         *)
Aimed(T, m) == T[m.object] # K_NONE \/ m.object \in {0, Nowhere}
(* What a request will have made when it is taken.                         *)
Bears(T, T2, m) ==
  /\ T2 \in [Nat -> Kinds \cup {K_NONE}]
  /\ \A x \in Nat : Creates(T, m, x) => /\ x \in Unborn /\ x \notin Unborn' /\ x < next_id'
                                       /\ T2[x] \in Kinds /\ T2[x] = KindMade(T, m)
  /\ \A x \in Nat : ~Creates(T, m, x) => T2[x] = T[x]
(* What the list is to say then.                                           *)
Carried(old, new, T, m) ==
  /\ new.id = old.id /\ new.kind = old.kind
  /\ old.dead => new.dead
  /\ new.dead => old.dead \/ (old.id = m.object /\ Destroys(T, m))
  /\ old.id = m.object /\ Destroys(T, m) /\ ~OfClient(old.id) => new.dead
(* The list after it has what it makes; of the rest only what it destroys  *)
(* may be dead that was not.                                               *)
Notes(T, T2, m) ==
  \A j \in 1..Len(objects') :
    \/ \E x \in Nat : Creates(T, m, x) /\ IsNew(objects'[j], x, T2[x])
    \/ j \in 1..Len(objects) /\ Carried(objects[j], objects'[j], T, m)
(* The request fits: what it makes was not born, and the list tells of it. *)
Fitting(T, T2, m) ==
  /\ Bears(T, T2, m) /\ Notes(T, T2, m)
  /\ Unborn' \subseteq Unborn /\ WinRight(T2)'
  /\ Listed(m.object) \/ OfClient(m.object)

(* A request means the same when only kinds of ids that had none are       *)
(* settled.                                                                *)
LEMMA SameMeaning ==
  ASSUME NEW T, NEW T2, NEW m, m.object \in Nat, Aimed(T, m),
         \A x \in Nat : T2[x] = T[x] \/ (T[x] = K_NONE /\ x \notin {0, Nowhere})
  PROVE  /\ T2[m.object] = T[m.object]
         /\ \A x : Creates(T2, m, x) <=> Creates(T, m, x)
         /\ KindMade(T2, m) = KindMade(T, m)
         /\ Destroys(T2, m) <=> Destroys(T, m)
         /\ Aimed(T2, m)
         /\ Refusable(T2, m) <=> Refusable(T, m)
  <1>1. T2[m.object] = T[m.object]
    BY DEF Aimed
  <1>2. \A x : Creates(T2, m, x) <=> Creates(T, m, x)
    BY <1>1 DEF Creates
  <1>3. KindMade(T2, m) = KindMade(T, m)
    BY <1>1 DEF KindMade
  <1>4. Destroys(T2, m) <=> Destroys(T, m)
    BY <1>1 DEF Destroys
  <1>5. Aimed(T2, m)
    BY <1>1 DEF Aimed
  <1>6. Refusable(T2, m) <=> Refusable(T, m)
    BY <1>2 DEF Refusable
  <1> QED
    BY <1>1, <1>2, <1>3, <1>4, <1>5, <1>6

(* What is not born is an id a compositor would accept.                    *)
LEMMA UnbornIds == ASSUME Spent PROVE \A x \in Unborn : x \in Nat /\ 2 <= x /\ x < Nowhere /\ x < ServerHalf /\ x \in MayBeNew
  BY FuzzAssumption DEF Unborn, MayBeNew, Nowhere, Spent

(* The queue with one request more.                                        *)
LEMMA RequestAdded ==
  ASSUME Requests(toServer), NEW m, toServer' = Append(toServer, m)
  PROVE  /\ Len(toServer) \in Nat /\ Len(toServer') = Len(toServer) + 1
         /\ \A i \in 1..Len(toServer) : i \in 1..Len(toServer') /\ toServer'[i] = toServer[i]
         /\ toServer'[Len(toServer) + 1] = m
         /\ \A i \in 1..Len(toServer') : i \in 1..Len(toServer) \/ i = Len(toServer) + 1
  <1>1. IsSeq(toServer) /\ Len(toServer) \in Nat
    BY SeqParts DEF Requests
  <1>2. /\ Len(toServer') = Len(toServer) + 1
        /\ \A i \in 1..Len(toServer) : toServer'[i] = toServer[i]
        /\ toServer'[Len(toServer) + 1] = m
    BY <1>1, SeqAppended
  <1> QED
    BY <1>1, <1>2

(* Nothing more is promised once a request on its way is to be refused.    *)
LEMMA BehindRefused ==
  ASSUME Spent, FuzzTyped, NEW T, NEW n, Matches(T, n), NEW m, toServer' = Append(toServer, m),
         UNCHANGED <<toClient, compositor>>, next_id' \in Nat, next_id' >= next_id,
         n = Len(toServer) => Aimed(T, m) /\ Refusable(T, m)
  PROVE  Matches(T, n)'
  <1>1. Requests(toServer) /\ CompositorTyped /\ next_id \in Nat
    BY DEF FuzzTyped, Spent
  <1>2. /\ Len(toServer) \in Nat /\ Len(toServer') = Len(toServer) + 1
        /\ \A i \in 1..Len(toServer) : i \in 1..Len(toServer') /\ toServer'[i] = toServer[i]
        /\ toServer'[Len(toServer) + 1] = m
        /\ \A i \in 1..Len(toServer') : i \in 1..Len(toServer) \/ i = Len(toServer) + 1
    BY <1>1, RequestAdded
  <1>3. n \in 0..Len(toServer) /\ There(T) /\ Sound(T, n)
    BY DEF Matches
  <1>4. There(T)'
    BY <1>1, <1>3 DEF There, compositor, CompositorTyped
  <1>5. ASSUME NEW i \in 1..Len(toServer'), i <= n + 1
        PROVE  /\ T[toServer'[i].object] # K_NONE \/ toServer'[i].object \in {0, Nowhere}
               /\ i <= n => \A x \in Nat : Creates(T, toServer'[i], x) =>
                              /\ x \in MayBeNew /\ x < next_id'
                              /\ T[x] \in Kinds /\ T[x] = KindMade(T, toServer'[i])
    <2>1. CASE i \in 1..Len(toServer)
      <3>1. toServer'[i] = toServer[i]
        BY <1>2, <2>1
      <3>2. \A x \in Nat : x < next_id => x < next_id'
        BY <1>1
      <3> QED
        BY <1>3, <1>5, <2>1, <3>1, <3>2 DEF Sound
    <2>2. CASE i = Len(toServer) + 1
      <3>1. n = Len(toServer) /\ ~(i <= n) /\ toServer'[i] = m
        BY <1>2, <1>3, <1>5, <2>2
      <3> QED
        BY <3>1 DEF Aimed
    <2> QED
      BY <1>2, <2>1, <2>2
  <1>6. Sound(T, n)'
    BY <1>5 DEF Sound, MayBeNew, Nowhere
  <1>7. n \in 0..Len(toServer') /\ n < Len(toServer')
    BY <1>2, <1>3
  <1>8. Refusable(T, toServer'[n + 1])
    <2>1. CASE n = Len(toServer)
      BY <1>2, <2>1
    <2>2. CASE n # Len(toServer)
      <3>1. n < Len(toServer) /\ n + 1 \in 1..Len(toServer)
        BY <1>2, <1>3, <2>2
      <3> QED
        BY <1>2, <3>1 DEF Matches
    <2> QED
      BY <2>1, <2>2
  <1> QED
    BY <1>4, <1>6, <1>7, <1>8 DEF Matches, Refusable

(* A request that fits is one more to be taken as it is meant.             *)
LEMMA FittingAdded ==
  ASSUME Spent, FuzzTyped, FuzzTyped', NEW T, NEW n, n = Len(toServer), Matches(T, n), NEW m,
         toServer' = Append(toServer, m), RequestTyped(m), Aimed(T, m),
         UNCHANGED <<toClient, compositor>>, next_id' \in Nat, next_id' >= next_id,
         NEW T2, Fitting(T, T2, m)
  PROVE  Matches(T2, n + 1)'
  <1>1. Requests(toServer) /\ CompositorTyped /\ IsList(objects) /\ IsList(objects)' /\ next_id \in Nat
    BY DEF FuzzTyped, Spent
  <1>2. /\ n \in Nat /\ Len(toServer') = n + 1
        /\ \A i \in 1..n : i \in 1..Len(toServer') /\ toServer'[i] = toServer[i]
        /\ toServer'[n + 1] = m /\ n + 1 \in 1..Len(toServer')
        /\ \A i \in 1..Len(toServer') : i \in 1..n \/ i = n + 1
    BY <1>1, RequestAdded
  <1>3. There(T) /\ Sound(T, n) /\ Agree(T)
    BY <1>2 DEF Matches
  <1>4. /\ T2 \in [Nat -> Kinds \cup {K_NONE}]
        /\ \A x \in Nat : Creates(T, m, x) => /\ x \in Unborn /\ x \notin Unborn' /\ x < next_id'
                                             /\ T2[x] \in Kinds /\ T2[x] = KindMade(T, m)
        /\ \A x \in Nat : ~Creates(T, m, x) => T2[x] = T[x]
    BY DEF Fitting, Bears
  <1>5. \A x \in Unborn : T[x] = K_NONE /\ x \in Nat /\ 2 <= x /\ x < Nowhere /\ x < ServerHalf /\ x \in MayBeNew
    BY <1>3, UnbornIds DEF Agree, Fresh
  <1>6. \A x \in Nat : T2[x] = T[x] \/ (T[x] = K_NONE /\ x \notin {0, Nowhere})
    BY <1>4, <1>5 DEF Nowhere
  <1>7. \A i \in 1..n : RequestTyped(toServer[i]) /\ Aimed(T, toServer[i])
    BY <1>1, <1>2, <1>3 DEF Requests, Sound, Aimed
  <1>a. K_NONE \notin Kinds
    BY AllKinds DEF K_NONE
  (* What each of the earlier ones means, and this one.                    *)
  <1>8. ASSUME NEW i \in 1..n
        PROVE  /\ \A x : Creates(T2, toServer'[i], x) <=> Creates(T, toServer[i], x)
               /\ KindMade(T2, toServer'[i]) = KindMade(T, toServer[i])
               /\ Destroys(T2, toServer'[i]) <=> Destroys(T, toServer[i])
               /\ Aimed(T2, toServer'[i])
    <2>1. PICK q : q = toServer[i]
      OBVIOUS
    <2>2. toServer'[i] = q /\ Aimed(T, q) /\ q.object \in Nat
      BY <1>2, <1>7, <2>1 DEF RequestTyped
    <2>3. /\ \A x : Creates(T2, q, x) <=> Creates(T, q, x)
          /\ KindMade(T2, q) = KindMade(T, q)
          /\ Destroys(T2, q) <=> Destroys(T, q)
          /\ Aimed(T2, q)
      BY <1>6, <2>2, SameMeaning
    <2> QED
      BY <2>1, <2>2, <2>3
  <1>9. /\ \A x : Creates(T2, m, x) <=> Creates(T, m, x)
        /\ KindMade(T2, m) = KindMade(T, m)
        /\ Destroys(T2, m) <=> Destroys(T, m)
        /\ Aimed(T2, m)
    BY <1>6, SameMeaning DEF RequestTyped
  <1>b. \A x \in Nat : T[x] # K_NONE => T2[x] = T[x] /\ ~Creates(T, m, x)
    BY <1>4, <1>5
  <1>c. \A i \in 1..Len(toServer) : i \in 1..n
    OBVIOUS
  <1>10. \A x : IsMade(T2, x)' <=> IsMade(T, x) \/ Creates(T, m, x)
    <2>1. ASSUME NEW x, NEW i \in 1..Len(toServer'), Creates(T2, toServer'[i], x)
          PROVE  IsMade(T, x) \/ Creates(T, m, x)
      BY <1>2, <1>8, <1>9, <2>1 DEF IsMade
    <2>2. ASSUME NEW x, NEW i \in 1..Len(toServer), Creates(T, toServer[i], x)
          PROVE  IsMade(T2, x)'
      BY <1>2, <1>8, <1>c, <2>2 DEF IsMade
    <2>3. ASSUME NEW x, Creates(T, m, x)
          PROVE  IsMade(T2, x)'
      BY <1>2, <1>9, <2>3 DEF IsMade
    <2> QED
      BY <2>1, <2>2, <2>3 DEF IsMade
  <1>11. \A x : IsDoomed(T2, x)' <=> IsDoomed(T, x) \/ (m.object = x /\ Destroys(T, m))
    <2>1. ASSUME NEW x, NEW i \in 1..Len(toServer'), toServer'[i].object = x, Destroys(T2, toServer'[i])
          PROVE  IsDoomed(T, x) \/ (m.object = x /\ Destroys(T, m))
      BY <1>2, <1>8, <1>9, <2>1 DEF IsDoomed
    <2>2. ASSUME NEW x, NEW i \in 1..Len(toServer), toServer[i].object = x, Destroys(T, toServer[i])
          PROVE  IsDoomed(T2, x)'
      BY <1>2, <1>8, <1>c, <2>2 DEF IsDoomed
    <2>3. ASSUME NEW x, m.object = x, Destroys(T, m)
          PROVE  IsDoomed(T2, x)'
      BY <1>2, <1>9, <2>3 DEF IsDoomed
    <2> QED
      BY <2>1, <2>2, <2>3 DEF IsDoomed
  <1>12. There(T2)'
    <2>1. \A x \in DOMAIN resources : x \in Nat /\ T[x] \in Kinds
      BY <1>1, <1>3 DEF There, CompositorTyped
    <2>2. \A x \in DOMAIN resources : T2[x] = T[x]
      BY <1>6, <1>a, <2>1
    <2>3. T2[1] = T[1] /\ T2[2] = T[2] /\ T2[0] = T[0] /\ T2[Nowhere] = T[Nowhere]
      <3>1. Nowhere \in Nat
        BY FuzzAssumption, IdsAssumption DEF Nowhere, Spent
      <3>2. T[1] # K_NONE /\ T[2] # K_NONE
        BY <1>3 DEF There, K_NONE
      <3> QED
        BY <1>6, <3>1, <3>2
    <2>4. \A x \in Nat : x >= ServerHalf => T2[x] = T[x]
      <3>1. \A x \in Nat : x >= ServerHalf => ~Creates(T, m, x)
        BY <1>4, <1>5, FuzzAssumption
      <3> QED
        BY <1>4, <3>1
    <2>5. highest < next_id'
      BY <1>1, <1>3 DEF There, CompositorTyped
    <2> QED
      BY <1>3, <1>4, <2>1, <2>2, <2>3, <2>4, <2>5 DEF There, compositor, Nowhere
  <1>13. Sound(T2, n + 1)'
    <2>1. ASSUME NEW i \in 1..n
          PROVE  /\ Aimed(T2, toServer'[i])
                 /\ \A x \in Nat : Creates(T2, toServer'[i], x) =>
                      /\ x \in MayBeNew /\ x < next_id'
                      /\ T2[x] \in Kinds /\ T2[x] = KindMade(T2, toServer'[i])
      <3>1. Aimed(T2, toServer'[i]) /\ KindMade(T2, toServer'[i]) = KindMade(T, toServer[i])
        BY <1>8
      <3>2. ASSUME NEW x \in Nat, Creates(T2, toServer'[i], x)
            PROVE  /\ x \in MayBeNew /\ x < next_id
                   /\ T[x] \in Kinds /\ T[x] = KindMade(T, toServer[i])
        <4>1. Creates(T, toServer[i], x)
          BY <1>8, <3>2
        <4>2. i \in 1..Len(toServer) /\ i <= n /\ i <= n + 1
          BY <1>2
        <4> QED
          BY <1>3, <4>1, <4>2 DEF Sound
      <3>3. \A x \in Nat : x < next_id => x < next_id'
        BY <1>1
      <3> QED
        BY <1>a, <1>b, <3>1, <3>2, <3>3
    <2>2. /\ Aimed(T2, toServer'[n + 1])
          /\ \A x \in Nat : Creates(T2, toServer'[n + 1], x) =>
               /\ x \in MayBeNew /\ x < next_id'
               /\ T2[x] \in Kinds /\ T2[x] = KindMade(T2, toServer'[n + 1])
      BY <1>2, <1>4, <1>5, <1>9
    <2>3. \A i \in 1..Len(toServer') : i \in 1..n \/ i = n + 1
      BY <1>2
    <2> QED
      BY <2>1, <2>2, <2>3 DEF Sound, Aimed, MayBeNew, Nowhere
  (* And what the two agree about.                                         *)
  <1>14. Fresh(T2)'
    <2>1. \A x \in Unborn' : x \in Unborn /\ ~Creates(T, m, x)
      BY <1>4, <1>5 DEF Fitting
    <2>2. \A x \in Unborn' : T2[x] = K_NONE
      BY <1>4, <1>5, <2>1
    <2> QED
      BY <2>2 DEF Fresh
  <1>15. \A i \in 1..Len(objects) : /\ objects[i].id \in Nat /\ objects[i].kind \in Kinds
                                    /\ T[objects[i].id] = objects[i].kind
                                    /\ T2[objects[i].id] = objects[i].kind
                                    /\ ~Creates(T, m, objects[i].id)
    <2>1. \A i \in 1..Len(objects) : /\ objects[i].id \in Nat /\ objects[i].kind \in Kinds
                                     /\ T[objects[i].id] = objects[i].kind
      BY <1>1, <1>3, ListIds DEF Agree, ListRight
    <2> QED
      BY <1>a, <1>b, <2>1
  <1>16. \A j \in 1..Len(objects') :
           \/ \E x \in Nat : Creates(T, m, x) /\ IsNew(objects'[j], x, T2[x])
           \/ j \in 1..Len(objects) /\ Carried(objects[j], objects'[j], T, m)
    BY DEF Fitting, Notes
  <1>17. ListRight(T2)'
    <2>1. ASSUME NEW j \in 1..Len(objects')
          PROVE  T2[objects'[j].id] = objects'[j].kind
      <3>1. CASE \E x \in Nat : Creates(T, m, x) /\ IsNew(objects'[j], x, T2[x])
        BY <3>1 DEF IsNew
      <3>2. CASE j \in 1..Len(objects) /\ Carried(objects[j], objects'[j], T, m)
        BY <1>15, <3>2 DEF Carried
      <3> QED
        BY <1>16, <3>1, <3>2
    <2> QED
      BY <2>1 DEF ListRight
  <1>18. \A x \in Nat : Creates(T, m, x) => T[x] = K_NONE /\ x \notin DOMAIN resources /\ OfClient(x)
    <2>1. \A x \in DOMAIN resources : T[x] \in Kinds
      BY <1>3 DEF There
    <2> QED
      BY <1>4, <1>5, <1>a, <2>1 DEF OfClient
  <1>19. \A i \in 1..n : \A x \in Nat : Creates(T, toServer[i], x) => T[x] \in Kinds /\ T[x] # K_NONE
    <2>1. \A i \in 1..n : i \in 1..Len(toServer) /\ i <= n /\ i <= n + 1
      BY <1>2
    <2> QED
      BY <1>3, <1>a, <2>1 DEF Sound
  <1>20. MadeOnce(T2)'
    <2>1. ASSUME NEW i \in 1..n, NEW x \in Nat, Creates(T2, toServer'[i], x)
          PROVE  /\ x \notin DOMAIN resources
                 /\ \A j \in 1..n : j # i => ~Creates(T2, toServer'[j], x)
                 /\ ~Creates(T2, toServer'[n + 1], x)
                 /\ \A j \in 1..i : toServer'[j].object # x
      <3>1. Creates(T, toServer[i], x) /\ i \in 1..Len(toServer)
        BY <1>8, <2>1
      <3>2. /\ x \notin DOMAIN resources
            /\ \A j \in 1..Len(toServer) : j # i => ~Creates(T, toServer[j], x)
            /\ \A j \in 1..i : toServer[j].object # x
        BY <1>3, <3>1 DEF Agree, MadeOnce
      <3>3. \A j \in 1..n : j # i => ~Creates(T2, toServer'[j], x)
        BY <1>8, <3>2
      <3>4. \A j \in 1..i : j \in 1..n /\ toServer'[j] = toServer[j]
        BY <1>2
      <3>5. ~Creates(T2, toServer'[n + 1], x)
        BY <1>2, <1>9, <1>b, <1>19, <3>1
      <3> QED
        BY <3>2, <3>3, <3>4, <3>5
    <2>2. ASSUME NEW x \in Nat, Creates(T2, toServer'[n + 1], x)
          PROVE  /\ x \notin DOMAIN resources
                 /\ \A j \in 1..n : ~Creates(T2, toServer'[j], x)
                 /\ \A j \in 1..(n + 1) : toServer'[j].object # x
      <3>1. Creates(T, m, x)
        BY <1>2, <1>9, <2>2
      <3>2. T[x] = K_NONE /\ x \notin DOMAIN resources /\ x \notin {0, Nowhere}
        BY <1>4, <1>5, <1>18, <3>1 DEF Nowhere
      <3>3. \A j \in 1..n : ~Creates(T2, toServer'[j], x)
        BY <1>8, <1>19, <3>2
      <3>4. \A j \in 1..n : toServer'[j].object # x
        BY <1>2, <1>7, <3>2 DEF Aimed
      <3>5. toServer'[n + 1].object # x
        BY <1>2, <3>2 DEF Aimed
      <3> QED
        BY <1>2, <3>2, <3>3, <3>4, <3>5
    <2>3. ASSUME NEW i \in 1..Len(toServer'), NEW x \in Nat, Creates(T2, toServer'[i], x)
          PROVE  /\ x \notin DOMAIN resources'
                 /\ \A j \in 1..Len(toServer') : j # i => ~Creates(T2, toServer'[j], x)
                 /\ \A j \in 1..i : toServer'[j].object # x
      <3>1. resources' = resources
        BY DEF compositor
      <3>2. CASE i \in 1..n
        BY <1>2, <2>1, <2>3, <3>1, <3>2
      <3>3. CASE i = n + 1
        BY <1>2, <2>2, <2>3, <3>1, <3>3
      <3> QED
        BY <1>2, <3>2, <3>3
    <2> QED
      BY <2>3 DEF MadeOnce
  <1>21. GivenBack(T2)'
    <2>1. ASSUME NEW i \in 1..Len(toClient), toClient[i].op = "delete_id", NEW x, x = toClient[i].id
          PROVE  OfClient(x) /\ T2[x] # K_NONE /\ x \notin DOMAIN resources /\ ~IsMade(T2, x)'
      <3>1. OfClient(x) /\ T[x] # K_NONE /\ x \notin DOMAIN resources /\ ~IsMade(T, x)
        BY <1>3, <2>1 DEF Agree, GivenBack
      <3>2. x \in Nat
        BY <2>1 DEF FuzzTyped, Events, EventTyped
      <3> QED
        BY <1>10, <1>b, <3>1, <3>2
    <2>2. toClient' = toClient /\ resources' = resources
      BY DEF compositor
    <2> QED
      BY <2>1, <2>2 DEF GivenBack, OfClient
  <1>22. OffersRight'
    <2>1. ASSUME NEW i \in 1..Len(toClient), toClient[i].op = "data_offer", NEW x, x = toClient[i].id
          PROVE  /\ ~Listed(x)'
                 /\ \A j \in 1..Len(toServer') : toServer'[j].object # x
      <3>1. /\ x \in (ServerHalf + 1)..(ServerHalf + offers) /\ ~Listed(x)
            /\ \A j \in 1..Len(toServer) : toServer[j].object # x
        BY <1>3, <2>1 DEF Agree, OffersRight
      <3>2. m.object # x
        BY <1>1, <3>1, FuzzAssumption DEF Fitting, OfClient, CompositorTyped
      <3>3. ~Listed(x)'
        <4>1. \A j \in 1..Len(objects') : objects'[j].id # x
          <5>1. ~OfClient(x)
            BY <1>1, <3>1, FuzzAssumption, SMTT(30) DEF OfClient, CompositorTyped
          <5> QED
            BY <1>16, <1>18, <3>1, <5>1 DEF IsNew, Carried, Listed
        <4> QED
          BY <4>1 DEF Listed
      <3> QED
        BY <1>2, <3>1, <3>2, <3>3
    <2>2. toClient' = toClient /\ resources' = resources /\ offers' = offers
      BY DEF compositor
    <2> QED
      BY <1>3, <2>1, <2>2 DEF OffersRight, Agree
  <1>23. AliveRight(T2)'
    <2>1. ASSUME NEW j \in 1..Len(objects'), ~objects'[j].dead, NEW x, x = objects'[j].id
          PROVE  /\ OfClient(x) => x \in DOMAIN resources \/ IsMade(T2, x)' \/ OnItsWay(x)
                 /\ ~OfClient(x) => x \in DOMAIN resources /\ ~IsDoomed(T2, x)'
      <3>1. CASE \E y \in Nat : Creates(T, m, y) /\ IsNew(objects'[j], y, T2[y])
        BY <1>10, <1>18, <2>1, <3>1 DEF IsNew
      <3>2. CASE j \in 1..Len(objects) /\ Carried(objects[j], objects'[j], T, m)
        <4>1. x = objects[j].id /\ ~objects[j].dead
          BY <2>1, <3>2 DEF Carried
        <4>2. /\ OfClient(x) => x \in DOMAIN resources \/ IsMade(T, x) \/ OnItsWay(x)
              /\ ~OfClient(x) => x \in DOMAIN resources /\ ~IsDoomed(T, x)
          BY <1>3, <3>2, <4>1 DEF Agree, AliveRight
        <4>3. ~OfClient(x) => ~(m.object = x /\ Destroys(T, m))
          BY <2>1, <3>2, <4>1 DEF Carried
        <4> QED
          BY <1>10, <1>11, <4>2, <4>3
      <3> QED
        BY <1>16, <3>1, <3>2
    <2>2. toClient' = toClient /\ resources' = resources
      BY DEF compositor
    <2> QED
      BY <2>1, <2>2 DEF AliveRight, OfClient, OnItsWay
  <1>24. DeadRight(T2)'
    <2>1. ASSUME NEW j \in 1..Len(objects'), objects'[j].dead, NEW x, x = objects'[j].id
          PROVE  IsDoomed(T2, x)' \/ (x \notin DOMAIN resources /\ ~IsMade(T2, x)')
      <3>1. ~\E y \in Nat : Creates(T, m, y) /\ IsNew(objects'[j], y, T2[y])
        BY <2>1 DEF IsNew
      <3>2. j \in 1..Len(objects) /\ Carried(objects[j], objects'[j], T, m)
        BY <1>16, <3>1
      <3>3. CASE objects[j].dead
        <4>1. x = objects[j].id
          BY <2>1, <3>2 DEF Carried
        <4>2. IsDoomed(T, x) \/ (x \notin DOMAIN resources /\ ~IsMade(T, x))
          BY <1>3, <3>2, <3>3, <4>1 DEF Agree, DeadRight
        <4>3. ~Creates(T, m, x)
          BY <1>15, <3>2, <4>1
        <4> QED
          BY <1>10, <1>11, <4>2, <4>3
      <3>4. CASE ~objects[j].dead
        BY <1>11, <2>1, <3>2, <3>4 DEF Carried
      <3> QED
        BY <3>3, <3>4
    <2>2. resources' = resources
      BY DEF compositor
    <2> QED
      BY <2>1, <2>2 DEF DeadRight
  <1>25. WinRight(T2)'
    BY DEF Fitting
  <1>26. Agree(T2)'
    BY <1>14, <1>17, <1>20, <1>21, <1>22, <1>23, <1>24, <1>25 DEF Agree
  <1>27. n + 1 \in 0..Len(toServer') /\ n + 1 = Len(toServer')
    BY <1>2
  <1>28. Matches(T2, n + 1)'
    BY <1>2, <1>12, <1>13, <1>26, <1>27 DEF Matches
  <1> QED
    BY <1>28

(* One request more: it fits, and kinds are settled for what it makes, or  *)
(* it is to be refused, and nothing behind it counts.                      *)
LEMMA SendStep ==
  ASSUME Spent, FuzzTyped, Spent', FuzzTyped', NEW T, NEW n, Matches(T, n), NEW m, RequestTyped(m),
         toServer' = Append(toServer, m), UNCHANGED <<toClient, compositor>>, next_id' >= next_id,
         n = Len(toServer) =>
           Aimed(T, m) /\ (Refusable(T, m) \/ \E T2 : Fitting(T, T2, m))
  PROVE  \E T2, n2 : Matches(T2, n2)'
  <1>1. next_id' \in Nat
    BY DEF Spent
  <1>2. CASE n = Len(toServer) => Refusable(T, m)
    <2>1. Matches(T, n)'
      BY <1>1, <1>2, BehindRefused
    <2> QED
      BY <2>1
  <1>3. CASE n = Len(toServer) /\ ~Refusable(T, m)
    <2>1. PICK T2 : Fitting(T, T2, m)
      BY <1>3
    <2>2. Matches(T2, n + 1)'
      BY <1>1, <1>3, <2>1, FittingAdded
    <2> QED
      BY <2>2
  <1> QED
    BY <1>2, <1>3

(* Nothing is sent or received.                                            *)
LEMMA QuietStep ==
  ASSUME NEW T, NEW n, Matches(T, n), UNCHANGED <<toServer, toClient, compositor, objects, next_id>>,
         Unborn' \subseteq Unborn, WinRight(T) => WinRight(T)'
  PROVE  Matches(T, n)'
  <1>1. There(T)'
    BY DEF Matches, There, compositor
  <1>2. Sound(T, n)'
    BY DEF Matches, Sound
  <1>3. ASSUME Agree(T)
        PROVE  Agree(T)'
    <2>1. Fresh(T)'
      BY <1>3 DEF Agree, Fresh
    <2>2. ListRight(T)'
      BY <1>3 DEF Agree, ListRight
    <2>3. MadeOnce(T)'
      BY <1>3 DEF Agree, MadeOnce, compositor
    <2>4. GivenBack(T)'
      BY <1>3 DEF Agree, GivenBack, IsMade, compositor
    <2>5. OffersRight'
      BY <1>3 DEF Agree, OffersRight, Listed, compositor
    <2>6. AliveRight(T)'
      BY <1>3 DEF Agree, AliveRight, OnItsWay, IsMade, IsDoomed, compositor
    <2>7. DeadRight(T)'
      BY <1>3 DEF Agree, DeadRight, IsMade, IsDoomed, compositor
    <2>8. WinRight(T)'
      BY <1>3 DEF Agree
    <2> QED
      BY <2>1, <2>2, <2>3, <2>4, <2>5, <2>6, <2>7, <2>8 DEF Agree
  <1> QED
    BY <1>1, <1>2, <1>3 DEF Matches

(* An event is read, and the list may change as it says.                   *)
GivesBack(q, x) == \E i \in 1..Len(q) : q[i].op = "delete_id" /\ q[i].id = x
EntryRead(T, q, e) ==
  /\ T[e.id] = e.kind
  /\ ~e.dead /\ OfClient(e.id) => e.id \in DOMAIN resources \/ IsMade(T, e.id) \/ GivesBack(q, e.id)
  /\ ~e.dead /\ ~OfClient(e.id) => e.id \in DOMAIN resources /\ ~IsDoomed(T, e.id)
  /\ e.dead => IsDoomed(T, e.id) \/ (e.id \notin DOMAIN resources /\ ~IsMade(T, e.id))
(* And a list all of whose entries are.                                    *)
ListRead(T, q, list) == \A j \in 1..Len(list) : EntryRead(T, q, list[j])

(* The first event is taken off.                                           *)
LEMMA EventRead ==
  ASSUME Events(toClient), toClient # << >>, toClient' = Tail(toClient)
  PROVE  /\ Len(toClient) \in Nat \ {0} /\ Len(toClient') = Len(toClient) - 1
         /\ Head(toClient) = toClient[1] /\ 1 \in 1..Len(toClient)
         /\ \A i \in 1..Len(toClient') : i + 1 \in 1..Len(toClient) /\ toClient'[i] = toClient[i + 1]
         /\ \A x : OnItsWay(x) => GivesBack(toClient', x) \/ (Head(toClient).op = "delete_id" /\ Head(toClient).id = x)
  <1>1. /\ Len(toClient) \in Nat \ {0} /\ Len(toClient') = Len(toClient) - 1
        /\ Head(toClient) = toClient[1]
        /\ \A i \in 1..Len(toClient') : toClient'[i] = toClient[i + 1]
    BY SeqTailed DEF Events
  <1>2. \A i \in 1..Len(toClient') : i + 1 \in 1..Len(toClient)
    BY <1>1
  <1>3. ASSUME NEW x, NEW i \in 1..Len(toClient), toClient[i].op = "delete_id", toClient[i].id = x,
               i # 1
        PROVE  GivesBack(toClient', x)
    <2>1. i - 1 \in 1..Len(toClient') /\ (i - 1) + 1 = i
      BY <1>1, <1>3
    <2>2. toClient'[i - 1] = toClient[i]
      BY <1>1, <2>1
    <2> QED
      BY <1>3, <2>1, <2>2 DEF GivesBack
  <1> QED
    BY <1>1, <1>2, <1>3 DEF OnItsWay

(* The first event is acted on: it is enough that the list is right after  *)
(* it.                                                                     *)
LEMMA ReadStep ==
  ASSUME FuzzTyped, NEW T, NEW n, Matches(T, n), toClient # << >>, toClient' = Tail(toClient),
         UNCHANGED <<toServer, compositor, phase, step, win, next_id>>,
         n = Len(toServer) =>
           /\ ListRead(T, toClient', objects')
           /\ \A i \in 1..Len(toClient') : toClient'[i].op = "data_offer" =>
                \A j \in 1..Len(objects') : objects'[j].id # toClient'[i].id
  PROVE  Matches(T, n)'
  <1>0. /\ \A i \in 1..Len(toClient') : i + 1 \in 1..Len(toClient) /\ toClient'[i] = toClient[i + 1]
        /\ Len(toClient) \in Nat \ {0} /\ Len(toClient') = Len(toClient) - 1
    BY EventRead DEF FuzzTyped
  <1>1. There(T)'
    BY DEF Matches, There, compositor
  <1>2. Sound(T, n)'
    BY DEF Matches, Sound
  <1>3. ASSUME Agree(T), n = Len(toServer)
        PROVE  Agree(T)'
    <2>0. resources' = resources /\ offers' = offers
      BY DEF compositor
    <2>1. Fresh(T)'
      BY <1>3 DEF Agree, Fresh, Unborn, MayBeNew, Nowhere
    <2>2. ListRight(T)'
      BY <1>3 DEF ListRead, EntryRead, ListRight
    <2>3. MadeOnce(T)'
      BY <1>3, <2>0 DEF Agree, MadeOnce
    <2>4. GivenBack(T)'
      <3>1. ASSUME NEW i \in 1..Len(toClient'), toClient'[i].op = "delete_id"
            PROVE  /\ OfClient(toClient'[i].id) /\ T[toClient'[i].id] # K_NONE
                   /\ toClient'[i].id \notin DOMAIN resources /\ ~IsMade(T, toClient'[i].id)
        BY <1>0, <1>3, <3>1 DEF Agree, GivenBack
      <3> QED
        BY <2>0, <3>1 DEF GivenBack, IsMade, OfClient
    <2>5. OffersRight'
      <3>1. ASSUME NEW i \in 1..Len(toClient'), toClient'[i].op = "data_offer", NEW x,
                   x = toClient'[i].id
            PROVE  /\ x \in DOMAIN resources /\ x \in (ServerHalf + 1)..(ServerHalf + offers)
                   /\ \A j \in 1..Len(toServer) : toServer[j].object # x
                   /\ \A j \in 1..Len(toClient) :
                        toClient[j].op = "data_offer" /\ toClient[j].id = x => j = i + 1
        BY <1>0, <1>3, <3>1 DEF Agree, OffersRight
      <3>3. ASSUME NEW i \in 1..Len(toClient'), toClient'[i].op = "data_offer", NEW x,
                   x = toClient'[i].id
            PROVE  ~Listed(x)'
        <4>1. \A j \in 1..Len(objects') : objects'[j].id # x
          BY <1>3, <3>3
        <4> QED
          BY <4>1 DEF Listed
      <3>2. ASSUME NEW i \in 1..Len(toClient'), toClient'[i].op = "data_offer", NEW x,
                   x = toClient'[i].id, NEW j \in 1..Len(toClient'),
                   toClient'[j].op = "data_offer", toClient'[j].id = x
            PROVE  j = i
        <4>1. j + 1 \in 1..Len(toClient) /\ toClient[j + 1] = toClient'[j]
          BY <1>0
        <4>2. j + 1 = i + 1
          BY <3>1, <3>2, <4>1
        <4> QED
          BY <4>2
      <3> QED
        BY <2>0, <3>1, <3>2, <3>3 DEF OffersRight
    <2>6. AliveRight(T)'
      <3>1. ASSUME NEW j \in 1..Len(objects'), ~objects'[j].dead, NEW x, x = objects'[j].id
            PROVE  /\ OfClient(x) => x \in DOMAIN resources \/ IsMade(T, x) \/ GivesBack(toClient', x)
                   /\ ~OfClient(x) => x \in DOMAIN resources /\ ~IsDoomed(T, x)
        <4>1. PICK e : e = objects'[j]
          OBVIOUS
        <4>2. EntryRead(T, toClient', e) /\ ~e.dead /\ x = e.id
          BY <1>3, <3>1, <4>1 DEF ListRead
        <4> QED
          BY <4>2 DEF EntryRead
      <3>2. \A x : /\ IsMade(T, x)' <=> IsMade(T, x)
                   /\ IsDoomed(T, x)' <=> IsDoomed(T, x)
                   /\ OfClient(x)' <=> OfClient(x)
        BY DEF IsMade, IsDoomed, OfClient
      <3>3. \A x : GivesBack(toClient', x) => OnItsWay(x)'
        BY DEF GivesBack, OnItsWay
      <3> QED
        BY <2>0, <3>1, <3>2, <3>3 DEF AliveRight
    <2>7. DeadRight(T)'
      <3>1. ASSUME NEW j \in 1..Len(objects'), objects'[j].dead, NEW x, x = objects'[j].id
            PROVE  IsDoomed(T, x) \/ (x \notin DOMAIN resources /\ ~IsMade(T, x))
        BY <1>3, <3>1 DEF ListRead, EntryRead
      <3>2. \A x : /\ IsMade(T, x)' <=> IsMade(T, x)
                   /\ IsDoomed(T, x)' <=> IsDoomed(T, x)
        BY DEF IsMade, IsDoomed
      <3> QED
        BY <2>0, <3>1, <3>2 DEF DeadRight
    <2>8. WinRight(T)'
      BY <1>3 DEF Agree, WinRight
    <2> QED
      BY <2>1, <2>2, <2>3, <2>4, <2>5, <2>6, <2>7, <2>8 DEF Agree
  <1> QED
    BY <1>1, <1>2, <1>3 DEF Matches

(* A delete_id touches its own entry alone, and another event none.        *)
LEMMA ReadWhole ==
  ASSUME FuzzTyped, NEW T, There(T), Agree(T), toClient # << >>, toClient' = Tail(toClient),
         NEW e, e = Head(toClient)
  PROVE  /\ \A j \in 1..Len(objects) :
              e.op = "delete_id" /\ objects[j].id # e.id => EntryRead(T, toClient', objects[j])
         /\ \A j \in 1..Len(objects) : e.op # "delete_id" => EntryRead(T, toClient', objects[j])
         /\ \A i \in 1..Len(toClient') : toClient'[i].op = "data_offer" =>
              /\ \A j \in 1..Len(objects) : objects[j].id # toClient'[i].id
              /\ e.op = "data_offer" => e.id # toClient'[i].id
  <1>1. /\ Len(toClient) \in Nat \ {0} /\ Len(toClient') = Len(toClient) - 1
        /\ e = toClient[1] /\ 1 \in 1..Len(toClient)
        /\ \A i \in 1..Len(toClient') : i + 1 \in 1..Len(toClient) /\ toClient'[i] = toClient[i + 1]
        /\ \A x : OnItsWay(x) => GivesBack(toClient', x) \/ (e.op = "delete_id" /\ e.id = x)
    BY EventRead DEF FuzzTyped
  <1>2. ASSUME NEW j \in 1..Len(objects), e.op = "delete_id" => objects[j].id # e.id
        PROVE  EntryRead(T, toClient', objects[j])
    <2>1. PICK o : o = objects[j]
      OBVIOUS
    <2>2. T[o.id] = o.kind
      BY <2>1 DEF Agree, ListRight
    <2>3. ~o.dead => /\ OfClient(o.id) => o.id \in DOMAIN resources \/ IsMade(T, o.id) \/ OnItsWay(o.id)
                     /\ ~OfClient(o.id) => o.id \in DOMAIN resources /\ ~IsDoomed(T, o.id)
      BY <2>1 DEF Agree, AliveRight
    <2>4. o.dead => IsDoomed(T, o.id) \/ (o.id \notin DOMAIN resources /\ ~IsMade(T, o.id))
      BY <2>1 DEF Agree, DeadRight
    <2>5. OnItsWay(o.id) => GivesBack(toClient', o.id)
      BY <1>1, <1>2, <2>1
    <2>6. EntryRead(T, toClient', o)
      BY <2>2, <2>3, <2>4, <2>5 DEF EntryRead
    <2> QED
      BY <2>1, <2>6
  <1>3. ASSUME NEW i \in 1..Len(toClient'), toClient'[i].op = "data_offer"
        PROVE  /\ \A j \in 1..Len(objects) : objects[j].id # toClient'[i].id
               /\ e.op = "data_offer" => e.id # toClient'[i].id
    <2>1. i + 1 \in 1..Len(toClient) /\ toClient'[i] = toClient[i + 1] /\ i + 1 # 1
      BY <1>1
    <2>2. PICK x : x = toClient[i + 1].id
      OBVIOUS
    <2>3. /\ ~Listed(x)
          /\ \A j \in 1..Len(toClient) : toClient[j].op = "data_offer" /\ toClient[j].id = x => j = i + 1
      BY <1>3, <2>1, <2>2 DEF Agree, OffersRight
    <2>4. e.op = "data_offer" => e.id # x
      BY <1>1, <2>1, <2>3
    <2> QED
      BY <2>1, <2>2, <2>3, <2>4 DEF Listed
  <1> QED
    BY <1>2, <1>3

(* Every event the fuzzer reads leaves the two in step: a delete_id marks  *)
(* what is not there, an offer adds what is.                               *)
LEMMA ReadSteps ==
  ASSUME FuzzTyped, NEW T, NEW n, Matches(T, n), ReadEvents
  PROVE  Matches(T, n)'
  <1>1. IsSeq(objects) /\ Len(objects) \in Nat /\ CompositorTyped /\ Events(toClient) /\ Len(toServer) \in Nat
    BY SeqParts DEF FuzzTyped, IsList, Requests
  <1>2. CASE HandleRest
    <2>1. UNCHANGED <<toServer, toClient, compositor, objects, next_id, phase, step, win>>
      BY <1>2 DEF HandleRest
    <2>2. Unborn' \subseteq Unborn
      BY <2>1 DEF Unborn, MayBeNew, Nowhere
    <2>3. WinRight(T) => WinRight(T)'
      BY <2>1 DEF WinRight
    <2> QED
      BY <2>1, <2>2, <2>3, QuietStep
  <1>3. ASSUME HandleGlobal \/ HandleConfigure \/ HandleDeleteId \/ HandleDataOffer
        PROVE  /\ toClient # << >> /\ toClient' = Tail(toClient)
               /\ UNCHANGED <<toServer, compositor, phase, step, win, next_id>>
    BY <1>3 DEF HandleGlobal, HandleConfigure, HandleDeleteId, HandleDataOffer, HandleEvent
  <1>4. ASSUME n = Len(toServer)
        PROVE  There(T) /\ Agree(T)
    BY <1>4 DEF Matches
  <1>5. CASE HandleGlobal \/ HandleConfigure
    <2>1. PICK e : e = Head(toClient)
      OBVIOUS
    <2>2. e.op # "delete_id" /\ objects' = objects
      BY <1>5, <2>1 DEF HandleGlobal, HandleConfigure, HandleEvent
    <2>3. ASSUME n = Len(toServer)
          PROVE  /\ ListRead(T, toClient', objects')
                 /\ \A i \in 1..Len(toClient') : toClient'[i].op = "data_offer" =>
                      \A j \in 1..Len(objects') : objects'[j].id # toClient'[i].id
      <3>1. There(T) /\ Agree(T) /\ toClient # << >> /\ toClient' = Tail(toClient)
        BY <1>3, <1>4, <1>5, <2>3
      <3>2. /\ \A j \in 1..Len(objects) : EntryRead(T, toClient', objects[j])
            /\ \A i \in 1..Len(toClient') : toClient'[i].op = "data_offer" =>
                 \A j \in 1..Len(objects) : objects[j].id # toClient'[i].id
        BY <2>1, <2>2, <3>1, ReadWhole
      <3> QED
        BY <2>2, <3>2 DEF ListRead
    <2> QED
      BY <1>3, <1>5, <2>3, ReadStep
  <1>6. CASE HandleDeleteId
    <2>1. PICK e : e = Head(toClient)
      OBVIOUS
    <2>2. e.op = "delete_id" /\ objects' = forget(objects, e.id)
      BY <1>6, <2>1 DEF HandleDeleteId, HandleEvent
    <2>3. ASSUME n = Len(toServer)
          PROVE  /\ ListRead(T, toClient', objects')
                 /\ \A i \in 1..Len(toClient') : toClient'[i].op = "data_offer" =>
                      \A j \in 1..Len(objects') : objects'[j].id # toClient'[i].id
      <3>1. There(T) /\ Agree(T) /\ toClient # << >> /\ toClient' = Tail(toClient)
        BY <1>3, <1>4, <1>6, <2>3
      <3>2. /\ \A j \in 1..Len(objects) : objects[j].id # e.id => EntryRead(T, toClient', objects[j])
            /\ \A i \in 1..Len(toClient') : toClient'[i].op = "data_offer" =>
                 \A j \in 1..Len(objects) : objects[j].id # toClient'[i].id
        BY <2>1, <2>2, <3>1, ReadWhole
      <3>3. /\ Len(objects') = Len(objects)
            /\ \A j \in 1..Len(objects) :
                 objects'[j] = [objects[j] EXCEPT !.dead = objects[j].dead \/ objects[j].id = e.id]
        BY <1>1, <2>2, ForgetRight
      <3>4. \A j \in 1..Len(objects) : EntryTyped(objects[j])
        BY DEF FuzzTyped, IsList
      <3>5. e.id \notin DOMAIN resources /\ ~IsMade(T, e.id)
        <4>1. e = toClient[1] /\ 1 \in 1..Len(toClient)
          BY <1>1, <2>1, <3>1, EventRead
        <4> QED
          BY <2>2, <3>1, <4>1 DEF Agree, GivenBack
      <3>6. ASSUME NEW j \in 1..Len(objects)
            PROVE  EntryRead(T, toClient', objects'[j]) /\ objects'[j].id = objects[j].id
        <4>1. PICK o : o = objects[j]
          OBVIOUS
        <4>2. PICK p : p = objects'[j]
          OBVIOUS
        <4>3. EntryTyped(o) /\ p = [o EXCEPT !.dead = o.dead \/ o.id = e.id] /\ T[o.id] = o.kind
          BY <3>1, <3>3, <3>4, <4>1, <4>2 DEF Agree, ListRight
        <4>a. o.dead \in BOOLEAN
          BY <4>3 DEF EntryTyped
        <4>b. PICK dead : dead = (o.dead \/ o.id = e.id)
          OBVIOUS
        <4>c. p.id = o.id /\ p.kind = o.kind
          BY <4>3 DEF EntryTyped
        <4>d. p.dead = (o.dead \/ o.id = e.id)
          BY <4>3 DEF EntryTyped
        <4>4. p.id = o.id /\ p.kind = o.kind /\ (o.id # e.id => (p.dead <=> o.dead))
              /\ (o.id = e.id => p.dead)
          BY <4>a, <4>c, <4>d
        <4>5. CASE o.id # e.id
          <5>1. EntryRead(T, toClient', o)
            BY <3>2, <4>1, <4>5
          <5>2. EntryRead(T, toClient', p)
            BY <4>4, <4>5, <5>1 DEF EntryRead
          <5> QED
            BY <4>1, <4>2, <4>4, <5>2
        <4>6. CASE o.id = e.id
          <5>1. EntryRead(T, toClient', p)
            BY <3>5, <4>3, <4>4, <4>6 DEF EntryRead
          <5> QED
            BY <4>1, <4>2, <4>4, <5>1
        <4> QED
          BY <4>5, <4>6
      <3> QED
        BY <3>2, <3>3, <3>6 DEF ListRead
    <2> QED
      BY <1>3, <1>6, <2>3, ReadStep
  <1>7. CASE HandleDataOffer
    <2>1. PICK e : e = Head(toClient)
      OBVIOUS
    <2>2. e.op = "data_offer" /\ (objects' = objects \/ objects' = remember(objects, e.id, "offer"))
      BY <1>7, <2>1 DEF HandleDataOffer, HandleEvent
    <2>3. ASSUME n = Len(toServer)
          PROVE  /\ ListRead(T, toClient', objects')
                 /\ \A i \in 1..Len(toClient') : toClient'[i].op = "data_offer" =>
                      \A j \in 1..Len(objects') : objects'[j].id # toClient'[i].id
      <3>1. There(T) /\ Agree(T) /\ toClient # << >> /\ toClient' = Tail(toClient)
        BY <1>3, <1>4, <1>7, <2>3
      <3>2. /\ \A j \in 1..Len(objects) : EntryRead(T, toClient', objects[j])
            /\ \A i \in 1..Len(toClient') : toClient'[i].op = "data_offer" =>
                 /\ \A j \in 1..Len(objects) : objects[j].id # toClient'[i].id
                 /\ e.id # toClient'[i].id
        BY <2>1, <2>2, <3>1, ReadWhole
      <3>3. CASE objects' = objects
        BY <3>2, <3>3 DEF ListRead
      <3>4. CASE objects' = remember(objects, e.id, "offer")
        <4>1. \A j \in 1..Len(objects') :
                IsNew(objects'[j], e.id, "offer") \/ (j \in 1..Len(objects) /\ objects'[j] = objects[j])
          BY <1>1, <3>4, RememberRight
        <4>2. e = toClient[1] /\ 1 \in 1..Len(toClient)
          BY <1>1, <2>1, <3>1, EventRead
        <4>3. /\ e.id \in DOMAIN resources /\ e.id \in (ServerHalf + 1)..(ServerHalf + offers)
              /\ \A j \in 1..Len(toServer) : toServer[j].object # e.id
          BY <2>2, <3>1, <4>2 DEF Agree, OffersRight
        <4>4. T[e.id] = "offer" /\ ~OfClient(e.id)
          BY <1>1, <3>1, <4>3, FuzzAssumption DEF There, OfClient, CompositorTyped
        <4>5. ~IsDoomed(T, e.id)
          BY <4>3 DEF IsDoomed
        <4>6. \A o : IsNew(o, e.id, "offer") => EntryRead(T, toClient', o)
          BY <4>3, <4>4, <4>5 DEF IsNew, EntryRead
        <4>7. \A o : IsNew(o, e.id, "offer") => o.id = e.id
          BY DEF IsNew
        <4> QED
          BY <3>2, <4>1, <4>6, <4>7 DEF ListRead
      <3> QED
        BY <2>2, <3>3, <3>4
    <2> QED
      BY <1>3, <1>7, <2>3, ReadStep
  <1> QED
    BY <1>2, <1>5, <1>6, <1>7 DEF ReadEvents

(* No request is the display's last.                                       *)
LEMMA DisplayStays ==
  \A op \in 1..Len(Protocol["display"]) : ~Protocol["display"][op].destroys
  <1>1. Protocol["display"] = Core(display_reqs)
    <2>1. "display" \in Kinds /\ ReqsOf("display") = display_reqs
      BY KindsKnown DEF ReqsOf, ifaces
    <2> QED
      BY <2>1 DEF Protocol
  <1>2. Len(display_reqs) = 2 /\ \A op \in 1..2 : ~display_reqs[op].destroys /\ Len(display_reqs[op].sig) \in Nat
    BY DEF display_reqs, Makes, Req
  <1>3. Len(Core(display_reqs)) = 2 /\ \A op \in 1..2 : Core(display_reqs)[op].destroys = display_reqs[op].destroys
    BY <1>2, CoreRight
  <1> QED
    BY <1>1, <1>2, <1>3

(* What a request that is taken was meant to be.                           *)
LEMMA TakenRight ==
  ASSUME Spent, CompositorTyped, NEW T, There(T), NEW m, RequestTyped(m), Decodes(m)
  PROVE  /\ m.object \in DOMAIN resources /\ T[m.object] \in Kinds
         /\ \A x : x \in Made(m) <=> Creates(T, m, x)
         /\ Destroys(T, m) <=> Expected(m).destroys
         /\ \A x, y : Creates(T, m, x) /\ Creates(T, m, y) => x = y
         /\ \A x : Creates(T, m, x) => x \in MayBeNew /\ x \notin DOMAIN resources /\ x <= highest + 1
         /\ \A x \in Made(m) : (CHOOSE p \in NewOf(m) : TRUE)[2] = KindMade(T, m)
         /\ Is(m, "display", 0) \/ m.object = 1 => ~Destroys(T, m)
  <1>1. /\ m.object \in DOMAIN resources /\ m.opcode < Len(Protocol[resources[m.object]])
        /\ Len(Expected(m).args) <= Len(m.args)
    BY DEF Decodes
  <1>2. PICK kind : kind = resources[m.object]
    OBVIOUS
  <1>3. PICK f : f = Expected(m)
    OBVIOUS
  <1>4. kind \in Kinds /\ T[m.object] = kind /\ f = Protocol[kind][m.opcode + 1]
    BY <1>1, <1>2, <1>3 DEF There, Expected
  <1>5. Len(Protocol[kind]) \in Nat /\ m.opcode \in Nat /\ Len(m.args) \in Nat
    BY <1>4, ProtocolRight DEF RequestTyped
  <1>6. m.opcode + 1 \in 1..Len(Protocol[kind])
    BY <1>1, <1>2, <1>5
  <1>7. FormRight(kind, f)
    BY <1>4, <1>6, ProtocolRight
  <1>8. Knows(kind, m) /\ Form(kind, m) = f
    BY <1>4, <1>6 DEF Knows, Form
  <1>9. Len(f.args) \in Nat /\ \A i \in 1..Len(f.args) : i \in 1..Len(m.args)
    BY <1>1, <1>3, <1>5, <1>7 DEF FormRight
  <1>10. \A i \in 1..Len(f.args) : f.args[i].letter = "n" => i = NewAt(kind)
    BY <1>7 DEF FormRight
  <1>11. \A x : Creates(T, m, x) <=> \E i \in 1..Len(f.args) : f.args[i].letter = "n" /\ m.args[i].value = x
    BY <1>4, <1>8, <1>9 DEF Creates
  <1>12. \A x : x \in Made(m) <=> Creates(T, m, x)
    BY <1>3, <1>11, MadeParts
  <1>13. Destroys(T, m) <=> Expected(m).destroys
    BY <1>3, <1>4, <1>8 DEF Destroys
  <1>14. \A x, y : Creates(T, m, x) /\ Creates(T, m, y) => x = y
    BY <1>10, <1>11
  <1>15. ASSUME NEW x, Creates(T, m, x)
         PROVE  x \in MayBeNew /\ x \notin DOMAIN resources /\ x <= highest + 1
    <2>1. NewId(x)
      BY <1>12, <1>15, MadeIsNew
    <2>2. x \in Nat /\ x # 1 /\ x # 0 /\ x <= highest + 1 /\ x \notin DOMAIN resources
      BY <2>1 DEF NewId, There, CompositorTyped
    <2>3. next_id <= 16 + 5 * total /\ 16 + 5 * total < Nowhere /\ total \in Nat /\ next_id \in Nat
          /\ turns \in Nat /\ turns <= total
      BY DEF Spent
    <2>4. highest < next_id /\ highest \in Nat /\ Nowhere \in Int
      BY FuzzAssumption DEF There, CompositorTyped, Nowhere
    <2>5. x < Nowhere
      BY <2>2, <2>3, <2>4
    <2> QED
      BY <2>2, <2>4, <2>5 DEF MayBeNew
  <1>16. ASSUME NEW x \in Made(m)
         PROVE  (CHOOSE p \in NewOf(m) : TRUE)[2] = KindMade(T, m)
    <2>1. PICK p : p = CHOOSE q \in NewOf(m) : TRUE
      OBVIOUS
    <2>2. NewOf(m) # {}
      BY DEF Made
    <2>3. p \in NewOf(m)
      BY <2>1, <2>2
    <2>4. PICK i \in {j \in 1..Len(f.args) : f.args[j].letter = "n"} :
            p = <<m.args[i].value, IF Is(m, "registry", 0) THEN m.args[2].value ELSE f.args[i].kind>>
      BY <1>3, <2>3 DEF NewOf
    <2>5. p[2] = IF Is(m, "registry", 0) THEN m.args[2].value ELSE f.args[i].kind
      BY <2>4
    <2>6. Is(m, "registry", 0) <=> kind = "registry" /\ m.opcode = 0
      BY <1>2 DEF Is
    <2>7. i = NewAt(kind)
      BY <1>10, <2>4
    <2>8. KindMade(T, m) = IF kind = "registry" /\ m.opcode = 0 THEN m.args[2].value ELSE f.args[NewAt(kind)].kind
      BY <1>4, <1>8 DEF KindMade
    <2> QED
      BY <2>1, <2>5, <2>6, <2>7, <2>8
  <1>17. Is(m, "display", 0) \/ m.object = 1 => ~Destroys(T, m)
    <2>1. Is(m, "display", 0) \/ m.object = 1 => kind = "display"
      BY <1>2, <1>4 DEF Is, There
    <2>2. kind = "display" => ~f.destroys
      BY <1>4, <1>6, DisplayStays
    <2> QED
      BY <1>3, <1>13, <2>1, <2>2
  <1> QED
    BY <1>1, <1>4, <1>12, <1>13, <1>14, <1>15, <1>16, <1>17

(* What the compositor answers a request with.                             *)
LEMMA AnswersRight ==
  ASSUME Events(toClient), NEW m, Accept(m)
  PROVE  /\ \A i \in 1..Len(toClient) : i \in 1..Len(toClient') /\ toClient'[i] = toClient[i]
         /\ \A i \in 1..Len(toClient') :
              \/ i \in 1..Len(toClient)
              \/ toClient'[i].op = "delete_id" /\ toClient'[i].id \in Gone(m) /\ toClient'[i].id < ServerHalf
              \/ /\ toClient'[i].op = "configure" /\ Is(m, "xdg_surface", 1)
                 /\ toClient'[i].id = m.object /\ toClient'[i].serial = serial + 1
         /\ \A x : x < ServerHalf /\ Gone(m) = {x} => OnItsWay(x)'
         /\ Is(m, "xdg_surface", 1) =>
              \E i \in 1..Len(toClient') : toClient'[i].op = "configure"
  <1>0. PICK told : told = IF Is(m, "xdg_surface", 1)
                             THEN <<[op |-> "configure", id |-> m.object, serial |-> serial + 1]>>
                             ELSE << >>
    OBVIOUS
  <1>1. PICK gone : gone = {i \in Gone(m) : i < ServerHalf}
    OBVIOUS
  <1>2. PICK ids : ids = Ids(gone)
    OBVIOUS
  <1>3. toClient' = toClient \o ids \o told
    BY <1>0, <1>1, <1>2 DEF Accept
  <1>4. /\ IsSeq(ids) /\ Len(ids) \in {0, 1}
        /\ \A i \in 1..Len(ids) : ids[i].op = "delete_id" /\ ids[i].id \in gone
        /\ \A x : gone = {x} => Len(ids) = 1 /\ ids[1].id = x
    BY <1>2, IdsParts
  <1>5. /\ IsSeq(told)
        /\ \A i \in 1..Len(told) : /\ told[i].op = "configure" /\ Is(m, "xdg_surface", 1)
                                   /\ told[i].id = m.object /\ told[i].serial = serial + 1
        /\ Is(m, "xdg_surface", 1) => Len(told) = 1
    <2>1. PICK e : e = [op |-> "configure", id |-> m.object, serial |-> serial + 1]
      OBVIOUS
    <2>2. e.op = "configure" /\ e.id = m.object /\ e.serial = serial + 1
      BY <2>1
    <2>3. told = IF Is(m, "xdg_surface", 1) THEN <<e>> ELSE << >>
      BY <1>0, <2>1
    <2>4. CASE Is(m, "xdg_surface", 1)
      BY <2>2, <2>3, <2>4, ShortSeqs
    <2>5. CASE ~Is(m, "xdg_surface", 1)
      BY <2>3, <2>5, ShortSeqs
    <2> QED
      BY <2>4, <2>5
  <1>6. PICK q : q = toClient \o ids
    OBVIOUS
  <1>7. IsSeq(toClient) /\ Len(toClient) \in Nat
    BY SeqParts DEF Events
  <1>8. /\ IsSeq(q) /\ Len(q) = Len(toClient) + Len(ids) /\ Len(q) \in Nat
        /\ \A i \in 1..Len(toClient) : q[i] = toClient[i]
        /\ \A i \in 1..Len(ids) : q[Len(toClient) + i] = ids[i]
        /\ \A i \in 1..Len(q) : i \in 1..Len(toClient) \/ (i - Len(toClient) \in 1..Len(ids)
                                                           /\ i = Len(toClient) + (i - Len(toClient)))
    <2>1. Len(ids) \in Nat
      BY <1>4
    <2>2. /\ IsSeq(q) /\ Len(q) = Len(toClient) + Len(ids)
          /\ \A i \in 1..Len(toClient) : q[i] = toClient[i]
          /\ \A i \in 1..Len(ids) : q[Len(toClient) + i] = ids[i]
          /\ \A i \in 1..Len(q) : i \in 1..Len(toClient) \/ (i - Len(toClient) \in 1..Len(ids)
                                                           /\ i = Len(toClient) + (i - Len(toClient)))
      BY <1>4, <1>6, <1>7, SeqJoined
    <2> QED
      BY <1>7, <2>1, <2>2
  <1>9. /\ Len(toClient') = Len(q) + Len(told) /\ Len(told) \in Nat
        /\ \A i \in 1..Len(q) : toClient'[i] = q[i]
        /\ \A i \in 1..Len(told) : toClient'[Len(q) + i] = told[i]
        /\ \A i \in 1..Len(toClient') : i \in 1..Len(q) \/ (i - Len(q) \in 1..Len(told)
                                                            /\ i = Len(q) + (i - Len(q)))
    <2>1. Len(told) \in Nat
      BY <1>5, SeqParts
    <2>0. IsSeq(q) /\ IsSeq(told)
      BY <1>5, <1>8
    <2>2. toClient' = q \o told
      BY <1>3, <1>6
    <2>3. /\ Len(q \o told) = Len(q) + Len(told)
          /\ \A i \in 1..Len(q) : (q \o told)[i] = q[i]
          /\ \A i \in 1..Len(told) : (q \o told)[Len(q) + i] = told[i]
          /\ \A i \in 1..Len(q \o told) : i \in 1..Len(q) \/ (i - Len(q) \in 1..Len(told)
                                                            /\ i = Len(q) + (i - Len(q)))
      BY <2>0, SeqJoined
    <2> QED
      BY <2>1, <2>2, <2>3
  <1>10. ASSUME NEW i \in 1..Len(toClient)
         PROVE  i \in 1..Len(toClient') /\ toClient'[i] = toClient[i]
    <2>b. Len(q) = Len(toClient) + Len(ids) /\ Len(q) \in Nat
      BY <1>8
    <2>c. Len(toClient') = Len(q) + Len(told) /\ Len(told) \in Nat
      BY <1>9
    <2>d. Len(ids) = 0 \/ Len(ids) = 1
      BY <1>4
    <2>a. /\ Len(q) = Len(toClient) + Len(ids) /\ Len(ids) \in Nat /\ Len(q) \in Nat
          /\ Len(toClient') = Len(q) + Len(told) /\ Len(told) \in Nat
      BY <2>b, <2>c, <2>d
    <2>1. i \in 1..Len(q) /\ i \in 1..Len(toClient')
      BY <1>7, <2>a
    <2> QED
      BY <1>8, <1>9, <2>1
  <1>11. ASSUME NEW i \in 1..Len(toClient')
         PROVE  \/ i \in 1..Len(toClient)
                \/ toClient'[i].op = "delete_id" /\ toClient'[i].id \in Gone(m) /\ toClient'[i].id < ServerHalf
                \/ /\ toClient'[i].op = "configure" /\ Is(m, "xdg_surface", 1)
                   /\ toClient'[i].id = m.object /\ toClient'[i].serial = serial + 1
    <2>1. CASE i \in 1..Len(q) /\ i \notin 1..Len(toClient)
      <3>1. PICK j \in 1..Len(ids) : i = Len(toClient) + j
        BY <1>8, <2>1
      <3>2. toClient'[i] = ids[j]
        BY <1>8, <1>9, <2>1, <3>1
      <3> QED
        BY <1>1, <1>4, <3>2
    <2>2. CASE i \notin 1..Len(q)
      <3>1. PICK j \in 1..Len(told) : i = Len(q) + j
        BY <1>9, <2>2
      <3>2. toClient'[i] = told[j]
        BY <1>9, <3>1
      <3> QED
        BY <1>5, <3>2
    <2> QED
      BY <2>1, <2>2
  <1>12. ASSUME NEW x, x < ServerHalf, Gone(m) = {x}
         PROVE  OnItsWay(x)'
    <2>1. gone = {x}
      BY <1>1, <1>12
    <2>2. Len(ids) = 1 /\ ids[1].id = x /\ ids[1].op = "delete_id" /\ 1 \in 1..Len(ids)
      BY <1>4, <2>1
    <2>3. Len(toClient) + 1 \in 1..Len(q) /\ q[Len(toClient) + 1] = ids[1]
      BY <1>7, <1>8, <2>2
    <2>4. Len(toClient) + 1 \in 1..Len(toClient') /\ toClient'[Len(toClient) + 1] = ids[1]
      BY <1>7, <1>8, <1>9, <2>3
    <2> QED
      BY <2>2, <2>4 DEF OnItsWay
  <1>13. ASSUME Is(m, "xdg_surface", 1)
         PROVE  \E i \in 1..Len(toClient') : toClient'[i].op = "configure"
    <2>1. Len(told) = 1 /\ 1 \in 1..Len(told) /\ told[1].op = "configure"
      BY <1>5, <1>13
    <2>2. toClient'[Len(q) + 1] = told[1] /\ Len(toClient') = Len(q) + 1 /\ Len(q) \in Nat
      BY <1>8, <1>9, <2>1
    <2>3. Len(q) + 1 \in 1..Len(toClient')
      BY <2>2
    <2> QED
      BY <2>1, <2>2, <2>3
  <1> QED
    BY <1>10, <1>11, <1>12, <1>13

(* Nothing that was to be refused is taken.                                *)
LEMMA RefusableRefused ==
  ASSUME Spent, CompositorTyped, NEW T, There(T), NEW m, RequestTyped(m), Decodes(m)
  PROVE  ~Refusable(T, m)
  BY TakenRight DEF Refusable

(* The compositor takes the first request: what it makes is there, what it *)
(* destroys is not, and a delete_id is on its way.                         *)
LEMMA TakenStep ==
  ASSUME Spent, FuzzTyped, NEW T, NEW n, Matches(T, n), n > 0, toServer # << >>,
         NEW m, m = Head(toServer), Decodes(m), Accept(m), toServer' = Tail(toServer),
         UNCHANGED <<fuzzer, offers>>
  PROVE  Matches(T, n - 1)'
  <1>1. Requests(toServer) /\ CompositorTyped /\ IsList(objects) /\ next_id \in Nat /\ Events(toClient)
    BY DEF FuzzTyped, Spent
  <1>2. /\ Len(toServer) \in Nat \ {0} /\ Len(toServer') = Len(toServer) - 1
        /\ m = toServer[1] /\ 1 \in 1..Len(toServer)
        /\ \A i \in 1..Len(toServer') : i + 1 \in 1..Len(toServer) /\ toServer'[i] = toServer[i + 1]
    <2>1. IsSeq(toServer)
      BY <1>1 DEF Requests
    <2>2. /\ Len(toServer) \in Nat \ {0} /\ Len(toServer') = Len(toServer) - 1
          /\ m = toServer[1]
          /\ \A i \in 1..Len(toServer') : toServer'[i] = toServer[i + 1]
      BY <2>1, SeqTailed
    <2>3. \A i \in 1..Len(toServer') : i + 1 \in 1..Len(toServer)
      BY <2>2
    <2> QED
      BY <2>2, <2>3
  <1>3. n \in 1..Len(toServer) /\ There(T) /\ Sound(T, n)
    <2>1. n \in 0..Len(toServer) /\ There(T) /\ Sound(T, n)
      BY DEF Matches
    <2>2. Len(toServer) \in Nat
      BY <1>2
    <2> QED
      BY <2>1, <2>2
  <1>4. RequestTyped(m)
    BY <1>1, <1>2 DEF Requests
  <1>5. /\ m.object \in DOMAIN resources /\ T[m.object] \in Kinds
        /\ \A x : x \in Made(m) <=> Creates(T, m, x)
        /\ Destroys(T, m) <=> Expected(m).destroys
        /\ \A x, y : Creates(T, m, x) /\ Creates(T, m, y) => x = y
        /\ \A x : Creates(T, m, x) => x \in MayBeNew /\ x \notin DOMAIN resources /\ x <= highest + 1
        /\ \A x \in Made(m) : (CHOOSE p \in NewOf(m) : TRUE)[2] = KindMade(T, m)
        /\ Is(m, "display", 0) \/ m.object = 1 => ~Destroys(T, m)
    BY <1>1, <1>3, <1>4, TakenRight
  <1>6. \A x : Creates(T, m, x) => x < next_id /\ T[x] \in Kinds /\ T[x] = KindMade(T, m) /\ x \in Nat
    <2>1. \A x \in Nat : Creates(T, m, x) => x < next_id /\ T[x] \in Kinds /\ T[x] = KindMade(T, m)
      BY <1>2, <1>3 DEF Sound
    <2> QED
      BY <1>5, <2>1 DEF MayBeNew
  <1>7. \A x : x \in Gone(m) <=> \/ x = m.object /\ Destroys(T, m)
                                 \/ Creates(T, m, x) /\ Is(m, "display", 0)
    BY <1>5, GoneParts
  <1>8. /\ DOMAIN resources' = (DOMAIN resources \cup Made(m)) \ Gone(m)
        /\ \A x \in DOMAIN resources' : resources'[x] = T[x]
    <2>1. resources' = [id \in (DOMAIN resources \cup Made(m)) \ Gone(m) |->
                     IF id \in Made(m) THEN (CHOOSE p \in NewOf(m) : TRUE)[2] ELSE resources[id]]
      BY DEF Accept
    <2>2. DOMAIN resources' = (DOMAIN resources \cup Made(m)) \ Gone(m)
      BY <2>1
    <2>3. ASSUME NEW x \in (DOMAIN resources \cup Made(m)) \ Gone(m)
          PROVE  resources'[x] = T[x]
      <3>1. CASE x \in Made(m)
        <4>1. resources'[x] = (CHOOSE p \in NewOf(m) : TRUE)[2]
          BY <2>1, <3>1
        <4> QED
          BY <1>5, <1>6, <3>1, <4>1
      <3>2. CASE x \notin Made(m)
        <4>1. resources'[x] = resources[x] /\ x \in DOMAIN resources
          BY <2>1, <3>2
        <4> QED
          BY <1>3, <4>1 DEF There
      <3> QED
        BY <3>1, <3>2
    <2> QED
      BY <2>2, <2>3
  <1>9. /\ highest' \in Nat /\ highest <= highest' /\ highest' < next_id
        /\ \A x : Creates(T, m, x) => x <= highest'
    <2>1. highest' = IF \E id \in Made(m) : id > highest THEN CHOOSE id \in Made(m) : TRUE ELSE highest
      BY DEF Accept
    <2>2. highest \in Nat /\ highest < next_id
      BY <1>1, <1>3 DEF CompositorTyped, There
    <2>3. CASE \E id \in Made(m) : id > highest
      <3>1. PICK id \in Made(m) : id > highest
        BY <2>3
      <3>2. highest' \in Made(m)
        BY <2>1, <2>3
      <3>3. highest' = id /\ \A x : Creates(T, m, x) => x = id
        BY <1>5, <3>1, <3>2
      <3>4. id \in Nat /\ id < next_id
        BY <1>5, <1>6, <3>1
      <3> QED
        BY <2>2, <3>1, <3>3, <3>4
    <2>4. CASE ~\E id \in Made(m) : id > highest
      <3>1. highest' = highest
        BY <2>1, <2>4
      <3> QED
        BY <1>5, <1>6, <2>2, <2>4, <3>1
    <2> QED
      BY <2>3, <2>4
  <1>10. There(T)'
    <2>1. 1 \in DOMAIN resources'
      <3>1. 1 \in DOMAIN resources
        BY <1>3 DEF There
      <3>2. 1 \notin Gone(m)
        BY <1>5, <1>7, <3>1
      <3> QED
        BY <1>8, <3>1, <3>2
    <2>2. ASSUME NEW x \in DOMAIN resources'
          PROVE  x # 0 /\ resources'[x] = T[x] /\ T[x] \in Kinds /\ (x <= highest' \/ ServerHalf < x)
      <3>1. CASE Creates(T, m, x)
        BY <1>5, <1>6, <1>8, <1>9, <3>1 DEF MayBeNew
      <3>2. CASE ~Creates(T, m, x)
        <4>1. x \in DOMAIN resources
          BY <1>5, <1>8, <3>2
        <4>2. x # 0 /\ T[x] \in Kinds /\ (x <= highest \/ ServerHalf < x) /\ x \in Nat /\ highest \in Nat
          BY <1>1, <1>3, <4>1 DEF There, CompositorTyped
        <4>3. x <= highest => x <= highest'
          BY <1>9, <4>2
        <4> QED
          BY <1>8, <4>2, <4>3
      <3> QED
        BY <3>1, <3>2
    <2>3. next_id' = next_id /\ offers' = offers
      BY DEF fuzzer
    <2> QED
      BY <1>3, <1>9, <2>1, <2>2, <2>3 DEF There, Nowhere
  <1>11. Sound(T, n - 1)'
    <2>1. ASSUME NEW i \in 1..Len(toServer'), i <= n
          PROVE  /\ T[toServer'[i].object] # K_NONE \/ toServer'[i].object \in {0, Nowhere}
                 /\ i <= n - 1 => \A x \in Nat : Creates(T, toServer'[i], x) =>
                        /\ x \in MayBeNew /\ x < next_id
                        /\ T[x] \in Kinds /\ T[x] = KindMade(T, toServer'[i])
      <3>1. i + 1 \in 1..Len(toServer) /\ toServer'[i] = toServer[i + 1] /\ i + 1 <= n + 1
            /\ (i <= n - 1 => i + 1 <= n)
        BY <1>2, <1>3, <2>1
      <3> QED
        BY <1>3, <3>1 DEF Sound
    <2>2. next_id' = next_id /\ (n - 1) + 1 = n
      BY <1>3 DEF fuzzer
    <2> QED
      BY <2>1, <2>2 DEF Sound, MayBeNew, Nowhere
  <1>12. n - 1 \in 0..Len(toServer')
    BY <1>2, <1>3
  <1>13. ASSUME n - 1 < Len(toServer')
         PROVE  Refusable(T, toServer'[(n - 1) + 1])
    <2>1. n < Len(toServer) /\ n \in 1..Len(toServer') /\ (n - 1) + 1 = n
      BY <1>2, <1>3, <1>13
    <2>2. Refusable(T, toServer[n + 1])
      BY <2>1 DEF Matches
    <2> QED
      BY <1>2, <2>1, <2>2
  <1>14. ASSUME n - 1 = Len(toServer')
         PROVE  Agree(T)'
    <2>1. Agree(T)
      <3>a. n \in Nat /\ Len(toServer) \in Nat /\ Len(toServer') = Len(toServer) - 1
        BY <1>2, <1>3
      <3>1. n = Len(toServer)
        BY <1>14, <3>a
      <3> QED
        BY <3>1 DEF Matches
    <2>2. /\ \A i \in 1..Len(toServer) : i = 1 \/ (i - 1 \in 1..Len(toServer') /\ toServer'[i - 1] = toServer[i])
      <3>1. ASSUME NEW i \in 1..Len(toServer), i # 1
            PROVE  i - 1 \in 1..Len(toServer') /\ toServer'[i - 1] = toServer[i]
        <4>1. i - 1 \in 1..Len(toServer') /\ (i - 1) + 1 = i
          BY <1>2, <3>1
        <4> QED
          BY <1>2, <4>1
      <3> QED
        BY <3>1
    <2>3. \A x : IsMade(T, x) <=> Creates(T, m, x) \/ IsMade(T, x)'
      <3>1. ASSUME NEW x, NEW i \in 1..Len(toServer), Creates(T, toServer[i], x)
            PROVE  Creates(T, m, x) \/ IsMade(T, x)'
        BY <1>2, <2>2, <3>1 DEF IsMade
      <3>2. ASSUME NEW x, NEW i \in 1..Len(toServer'), Creates(T, toServer'[i], x)
            PROVE  IsMade(T, x)
        BY <1>2, <3>2 DEF IsMade
      <3>3. ASSUME NEW x, Creates(T, m, x)
            PROVE  IsMade(T, x)
        BY <1>2, <3>3 DEF IsMade
      <3> QED
        BY <3>1, <3>2, <3>3 DEF IsMade
    <2>4. \A x : IsDoomed(T, x) <=> (m.object = x /\ Destroys(T, m)) \/ IsDoomed(T, x)'
      <3>1. ASSUME NEW x, NEW i \in 1..Len(toServer), toServer[i].object = x, Destroys(T, toServer[i])
            PROVE  (m.object = x /\ Destroys(T, m)) \/ IsDoomed(T, x)'
        BY <1>2, <2>2, <3>1 DEF IsDoomed
      <3>2. ASSUME NEW x, NEW i \in 1..Len(toServer'), toServer'[i].object = x, Destroys(T, toServer'[i])
            PROVE  IsDoomed(T, x)
        BY <1>2, <3>2 DEF IsDoomed
      <3>3. ASSUME NEW x, m.object = x, Destroys(T, m)
            PROVE  IsDoomed(T, x)
        BY <1>2, <3>3 DEF IsDoomed
      <3> QED
        BY <3>1, <3>2, <3>3 DEF IsDoomed
    <2>0. next_id' = next_id /\ offers' = offers /\ objects' = objects
      BY DEF fuzzer
    <2>5. Fresh(T)'
      BY <2>1 DEF Agree, Fresh, Unborn, MayBeNew, Nowhere, fuzzer
    <2>6. ListRight(T)'
      BY <2>0, <2>1 DEF Agree, ListRight
    <2>7. WinRight(T)'
      BY <2>1 DEF Agree, WinRight, fuzzer
    (* What was made or is to be made is not anything else.                *)
    <2>8. \A x \in Nat : IsMade(T, x)' => x \notin DOMAIN resources /\ ~Creates(T, m, x)
      <3>1. ASSUME NEW x \in Nat, NEW i \in 1..Len(toServer'), Creates(T, toServer'[i], x)
            PROVE  x \notin DOMAIN resources /\ ~Creates(T, m, x)
        <4>1. i + 1 \in 1..Len(toServer) /\ Creates(T, toServer[i + 1], x) /\ 1 # i + 1
          BY <1>2, <3>1
        <4> QED
          BY <1>2, <2>1, <4>1 DEF Agree, MadeOnce
      <3> QED
        BY <3>1 DEF IsMade
    <2>9. \A x \in Nat : IsMade(T, x)' => x \notin DOMAIN resources'
      BY <1>5, <1>8, <2>8
    <2>10. MadeOnce(T)'
      <3>1. ASSUME NEW i \in 1..Len(toServer'), NEW x \in Nat, Creates(T, toServer'[i], x)
            PROVE  /\ x \notin DOMAIN resources'
                   /\ \A j \in 1..Len(toServer') : j # i => ~Creates(T, toServer'[j], x)
                   /\ \A j \in 1..i : toServer'[j].object # x
        <4>1. x \notin DOMAIN resources'
          BY <2>9, <3>1 DEF IsMade
        <4>2. i + 1 \in 1..Len(toServer) /\ Creates(T, toServer[i + 1], x)
          BY <1>2, <3>1
        <4>3. /\ \A j \in 1..Len(toServer) : j # i + 1 => ~Creates(T, toServer[j], x)
              /\ \A j \in 1..(i + 1) : toServer[j].object # x
          BY <2>1, <4>2 DEF Agree, MadeOnce
        <4>4. ASSUME NEW j \in 1..Len(toServer'), j # i
              PROVE  ~Creates(T, toServer'[j], x)
          <5>1. j + 1 \in 1..Len(toServer) /\ toServer'[j] = toServer[j + 1] /\ j + 1 # i + 1
            BY <1>2, <4>4
          <5> QED
            BY <4>3, <5>1
        <4>5. ASSUME NEW j \in 1..i
              PROVE  toServer'[j].object # x
          <5>1. j \in 1..Len(toServer') /\ j + 1 \in 1..(i + 1)
            BY <1>2, <4>5
          <5> QED
            BY <1>2, <4>3, <5>1
        <4> QED
          BY <4>1, <4>4, <4>5
      <3> QED
        BY <3>1 DEF MadeOnce
    <2>11. /\ \A i \in 1..Len(toClient) : i \in 1..Len(toClient') /\ toClient'[i] = toClient[i]
           /\ \A i \in 1..Len(toClient') :
                \/ i \in 1..Len(toClient)
                \/ /\ toClient'[i].op = "delete_id" /\ toClient'[i].id \in Gone(m)
                   /\ toClient'[i].id < ServerHalf
                \/ toClient'[i].op = "configure"
           /\ \A x : x < ServerHalf /\ Gone(m) = {x} => OnItsWay(x)'
      BY <1>1, AnswersRight
    <2>12. \A x \in Gone(m) : Gone(m) = {x} /\ x \notin DOMAIN resources' /\ T[x] \in Kinds /\ ~IsMade(T, x)'
      <3>1. ASSUME NEW x \in Gone(m)
            PROVE  Gone(m) = {x} /\ x \notin DOMAIN resources' /\ T[x] \in Kinds /\ ~IsMade(T, x)'
        <4>1. x \notin DOMAIN resources'
          BY <1>8
        <4>2. Gone(m) = {x}
          BY <1>5, <1>7
        <4>3. T[x] \in Kinds
          BY <1>5, <1>6, <1>7
        <4>4. x \in Nat /\ (x \in DOMAIN resources \/ Creates(T, m, x))
          BY <1>4, <1>5, <1>6, <1>7 DEF RequestTyped
        <4> QED
          BY <2>8, <4>1, <4>2, <4>3, <4>4
      <3> QED
        BY <3>1
    <2>a. K_NONE \notin Kinds
      BY AllKinds DEF K_NONE
    <2>13. GivenBack(T)'
      <3>1. ASSUME NEW i \in 1..Len(toClient'), toClient'[i].op = "delete_id", NEW x,
                   x = toClient'[i].id
            PROVE  OfClient(x) /\ T[x] # K_NONE /\ x \notin DOMAIN resources' /\ ~IsMade(T, x)'
        <4>1. CASE i \in 1..Len(toClient)
          <5>1. toClient[i].op = "delete_id" /\ toClient[i].id = x
            BY <2>11, <3>1, <4>1
          <5>2. OfClient(x) /\ T[x] # K_NONE /\ x \notin DOMAIN resources /\ ~IsMade(T, x)
            BY <2>1, <4>1, <5>1 DEF Agree, GivenBack
          <5> QED
            BY <1>5, <1>8, <2>3, <5>2
        <4>2. CASE i \notin 1..Len(toClient)
          <5>1. x \in Gone(m) /\ x < ServerHalf
            BY <2>11, <3>1, <4>2
          <5> QED
            BY <2>12, <2>a, <5>1 DEF OfClient
        <4> QED
          BY <4>1, <4>2
      <3> QED
        BY <3>1 DEF GivenBack, OfClient
    <2>14. OffersRight'
      <3>1. ASSUME NEW i \in 1..Len(toClient'), toClient'[i].op = "data_offer", NEW x,
                   x = toClient'[i].id
            PROVE  /\ x \in DOMAIN resources' /\ x \in (ServerHalf + 1)..(ServerHalf + offers) /\ ~Listed(x)
                   /\ \A j \in 1..Len(toServer') : toServer'[j].object # x
                   /\ \A j \in 1..Len(toClient') :
                        toClient'[j].op = "data_offer" /\ toClient'[j].id = x => j = i
        <4>1. i \in 1..Len(toClient) /\ toClient[i].op = "data_offer" /\ toClient[i].id = x
          BY <2>11, <3>1
        <4>2. /\ x \in DOMAIN resources /\ x \in (ServerHalf + 1)..(ServerHalf + offers) /\ ~Listed(x)
              /\ \A j \in 1..Len(toServer) : toServer[j].object # x
              /\ \A j \in 1..Len(toClient) : toClient[j].op = "data_offer" /\ toClient[j].id = x => j = i
          BY <2>1, <4>1 DEF Agree, OffersRight
        <4>3. x \notin Gone(m)
          BY <1>2, <1>5, <1>7, <4>2
        <4>4. x \in DOMAIN resources'
          BY <1>8, <4>2, <4>3
        <4>5. \A j \in 1..Len(toServer') : toServer'[j].object # x
          BY <1>2, <4>2
        <4>6. \A j \in 1..Len(toClient') : toClient'[j].op = "data_offer" => j \in 1..Len(toClient) /\ toClient'[j] = toClient[j]
          BY <2>11
        <4> QED
          BY <4>2, <4>4, <4>5, <4>6
      <3>2. \A x : Listed(x)' <=> Listed(x)
        BY <2>0 DEF Listed
      <3> QED
        BY <2>0, <3>1, <3>2 DEF OffersRight
    <2>15. AliveRight(T)'
      <3>1. ASSUME NEW j \in 1..Len(objects), ~objects[j].dead, NEW x, x = objects[j].id
            PROVE  /\ OfClient(x) => x \in DOMAIN resources' \/ IsMade(T, x)' \/ OnItsWay(x)'
                   /\ ~OfClient(x) => x \in DOMAIN resources' /\ ~IsDoomed(T, x)'
        <4>1. /\ OfClient(x) => x \in DOMAIN resources \/ IsMade(T, x) \/ OnItsWay(x)
              /\ ~OfClient(x) => x \in DOMAIN resources /\ ~IsDoomed(T, x)
          BY <2>1, <3>1 DEF Agree, AliveRight
        <4>2. OnItsWay(x) => OnItsWay(x)'
          BY <2>11 DEF OnItsWay
        <4>3. CASE OfClient(x)
          <5>1. x \in Gone(m) => OnItsWay(x)'
            BY <2>11, <2>12, <4>3 DEF OfClient
          <5>2. x \in DOMAIN resources \/ Creates(T, m, x) => x \in Gone(m) \/ x \in DOMAIN resources'
            BY <1>5, <1>8
          <5> QED
            BY <2>3, <4>1, <4>2, <4>3, <5>1, <5>2
        <4>4. CASE ~OfClient(x)
          <5>1. x \in DOMAIN resources /\ ~IsDoomed(T, x)
            BY <4>1, <4>4
          <5>2. ~(m.object = x /\ Destroys(T, m)) /\ ~IsDoomed(T, x)'
            BY <2>4, <5>1
          <5>3. x \notin Gone(m)
            BY <1>5, <1>7, <5>1, <5>2
          <5> QED
            BY <1>8, <4>4, <5>1, <5>2, <5>3
        <4> QED
          BY <4>3, <4>4
      <3> QED
        BY <2>0, <3>1 DEF AliveRight, OfClient, OnItsWay
    <2>16. DeadRight(T)'
      <3>1. ASSUME NEW j \in 1..Len(objects), objects[j].dead, NEW x, x = objects[j].id
            PROVE  IsDoomed(T, x)' \/ (x \notin DOMAIN resources' /\ ~IsMade(T, x)')
        <4>1. IsDoomed(T, x) \/ (x \notin DOMAIN resources /\ ~IsMade(T, x))
          BY <2>1, <3>1 DEF Agree, DeadRight
        <4>2. CASE m.object = x /\ Destroys(T, m)
          <5>1. x \in Gone(m)
            BY <1>7, <4>2
          <5> QED
            BY <2>12, <5>1
        <4>3. CASE x \notin DOMAIN resources /\ ~IsMade(T, x)
          BY <1>5, <1>8, <2>3, <4>3
        <4> QED
          BY <2>4, <4>1, <4>2, <4>3
      <3> QED
        BY <2>0, <3>1 DEF DeadRight
    <2> QED
      BY <2>5, <2>6, <2>7, <2>10, <2>13, <2>14, <2>15, <2>16 DEF Agree
  <1> QED
    BY <1>10, <1>11, <1>12, <1>13, <1>14 DEF Matches, Refusable

(* One event more.                                                         *)
LEMMA EventAdded ==
  ASSUME Events(toClient), NEW e, toClient' = Append(toClient, e)
  PROVE  /\ Len(toClient) \in Nat /\ Len(toClient') = Len(toClient) + 1
         /\ \A i \in 1..Len(toClient) : i \in 1..Len(toClient') /\ toClient'[i] = toClient[i]
         /\ toClient'[Len(toClient) + 1] = e /\ Len(toClient) + 1 \in 1..Len(toClient')
         /\ \A i \in 1..Len(toClient') : i \in 1..Len(toClient) \/ (i = Len(toClient) + 1 /\ toClient'[i] = e)
         /\ \A x : OnItsWay(x)' <=> OnItsWay(x) \/ (e.op = "delete_id" /\ e.id = x)
  <1>1. IsSeq(toClient) /\ Len(toClient) \in Nat
    BY SeqParts DEF Events
  <1>2. /\ Len(toClient') = Len(toClient) + 1
        /\ \A i \in 1..Len(toClient) : toClient'[i] = toClient[i]
        /\ toClient'[Len(toClient) + 1] = e
    BY <1>1, SeqAppended
  <1>3. /\ \A i \in 1..Len(toClient) : i \in 1..Len(toClient')
        /\ Len(toClient) + 1 \in 1..Len(toClient')
        /\ \A i \in 1..Len(toClient') : i \in 1..Len(toClient) \/ i = Len(toClient) + 1
    BY <1>1, <1>2
  <1>4. \A x : OnItsWay(x)' <=> OnItsWay(x) \/ (e.op = "delete_id" /\ e.id = x)
    BY <1>2, <1>3 DEF OnItsWay
  <1> QED
    BY <1>1, <1>2, <1>3, <1>4

(* A global told of changes nothing between the two.                       *)
LEMMA TellStep ==
  ASSUME FuzzTyped, NEW T, NEW n, Matches(T, n), TellGlobal
  PROVE  Matches(T, n)'
  <1>1. PICK e : e.op = "global" /\ toClient' = Append(toClient, e)
    BY DEF TellGlobal
  <1>2. UNCHANGED <<toServer, resources, highest, offers, objects, next_id, phase, step, win>>
    BY DEF TellGlobal, fuzzer
  <1>3. /\ \A i \in 1..Len(toClient) : i \in 1..Len(toClient') /\ toClient'[i] = toClient[i]
        /\ \A i \in 1..Len(toClient') : i \in 1..Len(toClient) \/ toClient'[i] = e
        /\ \A x : OnItsWay(x)' <=> OnItsWay(x)
    BY <1>1, EventAdded DEF FuzzTyped
  <1>4. There(T)'
    BY <1>2 DEF Matches, There, Nowhere
  <1>5. Sound(T, n)'
    BY <1>2 DEF Matches, Sound, MayBeNew, Nowhere
  <1>6. ASSUME Agree(T)
        PROVE  Agree(T)'
    <2>1. Fresh(T)' /\ ListRight(T)' /\ MadeOnce(T)' /\ WinRight(T)'
      BY <1>2, <1>6 DEF Agree, Fresh, Unborn, MayBeNew, Nowhere, ListRight, MadeOnce, WinRight
    <2>2. \A x : (IsMade(T, x)' <=> IsMade(T, x)) /\ (IsDoomed(T, x)' <=> IsDoomed(T, x))
      BY <1>2 DEF IsMade, IsDoomed
    <2>3. GivenBack(T)'
      BY <1>1, <1>2, <1>3, <1>6, <2>2 DEF Agree, GivenBack, OfClient, IsMade
    <2>4. OffersRight'
      BY <1>1, <1>2, <1>3, <1>6 DEF Agree, OffersRight, Listed
    <2>5. AliveRight(T)'
      <3>1. ASSUME NEW j \in 1..Len(objects), ~objects[j].dead, NEW x, x = objects[j].id
            PROVE  /\ OfClient(x) => x \in DOMAIN resources \/ IsMade(T, x)' \/ OnItsWay(x)'
                   /\ ~OfClient(x) => x \in DOMAIN resources /\ ~IsDoomed(T, x)'
        BY <1>3, <1>6, <2>2, <3>1 DEF Agree, AliveRight
      <3> QED
        BY <1>2, <3>1 DEF AliveRight, OfClient, OnItsWay
    <2>6. DeadRight(T)'
      BY <1>2, <1>6, <2>2 DEF Agree, DeadRight, IsMade, IsDoomed
    <2> QED
      BY <2>1, <2>3, <2>4, <2>5, <2>6 DEF Agree
  <1> QED
    BY <1>2, <1>4, <1>5, <1>6 DEF Matches, Refusable

(* A frame shown ends its callback, which is not there any more when its   *)
(* delete_id is sent.                                                      *)
LEMMA FrameStep ==
  ASSUME Spent, FuzzTyped, NEW T, NEW n, Matches(T, n), FrameShown
  PROVE  Matches(T, n)'
  <1>0. There(T) /\ CompositorTyped
    BY DEF Matches, FuzzTyped
  <1>1. PICK id \in DOMAIN resources :
          /\ resources[id] = "callback"
          /\ resources' = [i \in DOMAIN resources \ {id} |-> resources[i]]
          /\ toClient' = Append(toClient, [op |-> "delete_id", id |-> id])
    BY DEF FrameShown
  <1>2. UNCHANGED <<toServer, highest, offers, objects, next_id, phase, step, win>>
    BY DEF FrameShown, fuzzer
  <1>3. PICK e : e.op = "delete_id" /\ e.id = id /\ toClient' = Append(toClient, e)
    BY <1>1
  <1>4. /\ \A i \in 1..Len(toClient) : i \in 1..Len(toClient') /\ toClient'[i] = toClient[i]
        /\ \A i \in 1..Len(toClient') : i \in 1..Len(toClient) \/ toClient'[i] = e
        /\ \A x : OnItsWay(x)' <=> OnItsWay(x) \/ x = id
    BY <1>3, EventAdded DEF FuzzTyped
  <1>5. /\ DOMAIN resources' = DOMAIN resources \ {id}
        /\ \A x \in DOMAIN resources' : resources'[x] = resources[x]
    BY <1>1
  <1>6. id \in Nat /\ T[id] = "callback" /\ OfClient(id) /\ id # 1
    <2>1. id \in Nat /\ T[id] = "callback" /\ T[1] = "display"
      BY <1>0, <1>1 DEF There, CompositorTyped
    <2>2. ~(id >= ServerHalf)
      BY <1>0, <2>1 DEF There, K_NONE
    <2> QED
      BY <2>1, <2>2, FuzzAssumption DEF OfClient
  <1>7. There(T)'
    BY <1>0, <1>2, <1>5, <1>6 DEF There, Nowhere
  <1>8. Sound(T, n)'
    BY <1>2 DEF Matches, Sound, MayBeNew, Nowhere
  <1>9. ASSUME Agree(T)
        PROVE  Agree(T)'
    <2>1. Fresh(T)' /\ ListRight(T)' /\ WinRight(T)'
      BY <1>2, <1>9 DEF Agree, Fresh, Unborn, MayBeNew, Nowhere, ListRight, WinRight
    <2>2. \A x : (IsMade(T, x)' <=> IsMade(T, x)) /\ (IsDoomed(T, x)' <=> IsDoomed(T, x))
      BY <1>2 DEF IsMade, IsDoomed
    <2>3. MadeOnce(T)'
      BY <1>2, <1>5, <1>9 DEF Agree, MadeOnce
    <2>4. ~IsMade(T, id)
      BY <1>1, <1>6, <1>9 DEF Agree, MadeOnce, IsMade
    <2>5. GivenBack(T)'
      <3>1. ASSUME NEW i \in 1..Len(toClient'), toClient'[i].op = "delete_id", NEW x,
                   x = toClient'[i].id
            PROVE  OfClient(x) /\ T[x] # K_NONE /\ x \notin DOMAIN resources' /\ ~IsMade(T, x)
        <4>1. CASE i \in 1..Len(toClient)
          <5>1. toClient[i].op = "delete_id" /\ toClient[i].id = x
            BY <1>4, <3>1, <4>1
          <5> QED
            BY <1>5, <1>9, <4>1, <5>1 DEF Agree, GivenBack
        <4>2. CASE i \notin 1..Len(toClient)
          <5>1. x = id
            BY <1>3, <1>4, <3>1, <4>2
          <5> QED
            BY <1>5, <1>6, <2>4, <5>1 DEF K_NONE
        <4> QED
          BY <4>1, <4>2
      <3> QED
        BY <2>2, <3>1 DEF GivenBack, OfClient
    <2>6. OffersRight'
      <3>1. ASSUME NEW i \in 1..Len(toClient'), toClient'[i].op = "data_offer", NEW x,
                   x = toClient'[i].id
            PROVE  /\ x \in DOMAIN resources' /\ x \in (ServerHalf + 1)..(ServerHalf + offers) /\ ~Listed(x)
                   /\ \A j \in 1..Len(toServer) : toServer[j].object # x
                   /\ \A j \in 1..Len(toClient') :
                        toClient'[j].op = "data_offer" /\ toClient'[j].id = x => j = i
        <4>1. i \in 1..Len(toClient) /\ toClient[i].op = "data_offer" /\ toClient[i].id = x
          BY <1>3, <1>4, <3>1
        <4>2. /\ x \in DOMAIN resources /\ x \in (ServerHalf + 1)..(ServerHalf + offers) /\ ~Listed(x)
              /\ \A j \in 1..Len(toServer) : toServer[j].object # x
              /\ \A j \in 1..Len(toClient) : toClient[j].op = "data_offer" /\ toClient[j].id = x => j = i
          BY <1>9, <4>1 DEF Agree, OffersRight
        <4>3. x # id
          BY <1>0, <1>6, <4>2, FuzzAssumption DEF OfClient, CompositorTyped
        <4>4. \A j \in 1..Len(toClient') : toClient'[j].op = "data_offer" => j \in 1..Len(toClient) /\ toClient'[j] = toClient[j]
          BY <1>3, <1>4
        <4> QED
          BY <1>5, <4>2, <4>3, <4>4
      <3>2. \A x : Listed(x)' <=> Listed(x)
        BY <1>2 DEF Listed
      <3> QED
        BY <1>2, <3>1, <3>2 DEF OffersRight
    <2>7. AliveRight(T)'
      <3>1. ASSUME NEW j \in 1..Len(objects), ~objects[j].dead, NEW x, x = objects[j].id
            PROVE  /\ OfClient(x) => x \in DOMAIN resources' \/ IsMade(T, x)' \/ OnItsWay(x)'
                   /\ ~OfClient(x) => x \in DOMAIN resources' /\ ~IsDoomed(T, x)'
        <4>1. /\ OfClient(x) => x \in DOMAIN resources \/ IsMade(T, x) \/ OnItsWay(x)
              /\ ~OfClient(x) => x \in DOMAIN resources /\ ~IsDoomed(T, x)
          BY <1>9, <3>1 DEF Agree, AliveRight
        <4> QED
          BY <1>4, <1>5, <1>6, <2>2, <4>1
      <3> QED
        BY <1>2, <3>1 DEF AliveRight, OfClient, OnItsWay
    <2>8. DeadRight(T)'
      <3>1. ASSUME NEW j \in 1..Len(objects), objects[j].dead, NEW x, x = objects[j].id
            PROVE  IsDoomed(T, x)' \/ (x \notin DOMAIN resources' /\ ~IsMade(T, x)')
        <4>1. IsDoomed(T, x) \/ (x \notin DOMAIN resources /\ ~IsMade(T, x))
          BY <1>9, <3>1 DEF Agree, DeadRight
        <4> QED
          BY <1>5, <2>2, <4>1
      <3> QED
        BY <1>2, <3>1 DEF DeadRight
    <2> QED
      BY <2>1, <2>3, <2>5, <2>6, <2>7, <2>8 DEF Agree
  <1> QED
    BY <1>2, <1>7, <1>8, <1>9 DEF Matches, Refusable

(* An offer is of an id of the compositor's own that nothing had.          *)
LEMMA OfferStep ==
  ASSUME Spent, FuzzTyped, NEW T, NEW n, Matches(T, n), OfferData
  PROVE  \E T2 : Matches(T2, n)'
  <1>0. /\ There(T) /\ Sound(T, n) /\ CompositorTyped /\ Requests(toServer) /\ n \in 0..Len(toServer)
        /\ Len(toServer) \in Nat /\ Events(toClient)
    BY SeqParts DEF Matches, FuzzTyped, Requests
  <1>1. UNCHANGED <<toServer, highest, objects, next_id, phase, step, win>>
    BY DEF OfferData, fuzzer
  <1>2. PICK y : y = ServerHalf + offers'
    OBVIOUS
  <1>3. offers' = offers + 1 /\ offers \in Nat /\ y \in Nat /\ ServerHalf < y /\ y = ServerHalf + offers + 1
    BY <1>0, <1>2, FuzzAssumption DEF OfferData, CompositorTyped
  <1>4. PICK d : toClient' = Append(toClient, [op |-> "data_offer", device |-> d, id |-> y])
    BY <1>2 DEF OfferData
  <1>5. PICK e : e.op = "data_offer" /\ e.id = y /\ toClient' = Append(toClient, e)
    BY <1>4
  <1>6. /\ Len(toClient) \in Nat /\ Len(toClient) + 1 \in 1..Len(toClient') /\ toClient'[Len(toClient) + 1] = e
        /\ \A i \in 1..Len(toClient) : i \in 1..Len(toClient') /\ toClient'[i] = toClient[i]
        /\ \A i \in 1..Len(toClient') : i \in 1..Len(toClient) \/ (i = Len(toClient) + 1 /\ toClient'[i] = e)
        /\ \A x : OnItsWay(x)' <=> OnItsWay(x)
    BY <1>0, <1>5, EventAdded
  <1>7. resources' = [i \in DOMAIN resources \cup {y} |-> IF i \in DOMAIN resources THEN resources[i] ELSE "offer"]
    BY <1>2 DEF OfferData
  <1>8. T[y] = K_NONE
    <2>1. y >= ServerHalf /\ y \notin (ServerHalf + 1)..(ServerHalf + offers)
      BY <1>3, FuzzAssumption
    <2>2. \A x \in Nat : x >= ServerHalf =>
            T[x] = IF x \in (ServerHalf + 1)..(ServerHalf + offers) THEN "offer" ELSE K_NONE
      BY <1>0 DEF There
    <2> QED
      BY <1>3, <2>1, <2>2
  <1>a. K_NONE \notin Kinds /\ "offer" \in Kinds
    BY AllKinds DEF K_NONE
  <1>9. y \notin DOMAIN resources
    BY <1>0, <1>8, <1>a DEF There
  <1>10. /\ DOMAIN resources' = DOMAIN resources \cup {y}
         /\ \A x \in DOMAIN resources : resources'[x] = resources[x]
         /\ resources'[y] = "offer"
    BY <1>7, <1>9
  <1>11. PICK T2 : T2 = [T EXCEPT ![y] = "offer"]
    OBVIOUS
  <1>12. /\ T2 \in [Nat -> Kinds \cup {K_NONE}]
         /\ \A x \in Nat : x # y => T2[x] = T[x]
         /\ T2[y] = "offer"
    BY <1>0, <1>3, <1>11, <1>a DEF There
  <1>13. /\ \A x \in Nat : T2[x] = T[x] \/ (T[x] = K_NONE /\ x \notin {0, Nowhere})
         /\ \A x \in Nat : T[x] # K_NONE => T2[x] = T[x] /\ x # y
         /\ y # 0 /\ y # Nowhere
    <2>1. y # 0 /\ y # Nowhere
      BY <1>3, FuzzAssumption DEF Nowhere
    <2> QED
      BY <1>8, <1>12, <2>1
  <1>14. ASSUME NEW i \in 1..Len(toServer), i <= n + 1
         PROVE  /\ \A x : Creates(T2, toServer[i], x) <=> Creates(T, toServer[i], x)
                /\ KindMade(T2, toServer[i]) = KindMade(T, toServer[i])
                /\ Destroys(T2, toServer[i]) <=> Destroys(T, toServer[i])
                /\ Aimed(T2, toServer[i])
                /\ Refusable(T2, toServer[i]) <=> Refusable(T, toServer[i])
                /\ toServer[i].object # y
    <2>1. PICK q : q = toServer[i]
      OBVIOUS
    <2>2. Aimed(T, q) /\ q.object \in Nat
      BY <1>0, <1>14, <2>1 DEF Sound, Aimed, Requests, RequestTyped
    <2>3. q.object # y
      BY <1>8, <1>13, <2>2 DEF Aimed
    <2>4. /\ \A x : Creates(T2, q, x) <=> Creates(T, q, x)
          /\ KindMade(T2, q) = KindMade(T, q)
          /\ Destroys(T2, q) <=> Destroys(T, q)
          /\ Aimed(T2, q)
          /\ Refusable(T2, q) <=> Refusable(T, q)
      BY <1>13, <2>2, SameMeaning
    <2> QED
      BY <2>1, <2>3, <2>4
  <1>15. There(T2)'
    <2>1. T2[1] = T[1] /\ T2[2] = T[2] /\ T2[0] = T[0] /\ T2[Nowhere] = T[Nowhere]
      <3>1. Nowhere \in Nat
        BY FuzzAssumption DEF Nowhere, Spent
      <3>2. 1 # y /\ 2 # y
        BY <1>0, <1>8 DEF There, K_NONE
      <3> QED
        BY <1>12, <1>13, <3>1, <3>2
    <2>2. ASSUME NEW x \in DOMAIN resources'
          PROVE  x # 0 /\ resources'[x] = T2[x] /\ T2[x] \in Kinds /\ (x <= highest \/ ServerHalf < x)
      <3>1. CASE x = y
        BY <1>3, <1>10, <1>12, <1>13, <1>a, <3>1
      <3>2. CASE x # y
        <4>1. x \in DOMAIN resources /\ x \in Nat
          BY <1>0, <1>10, <3>2 DEF CompositorTyped
        <4> QED
          BY <1>0, <1>10, <1>12, <3>2, <4>1 DEF There
      <3> QED
        BY <3>1, <3>2
    <2>3. ASSUME NEW x \in Nat, x >= ServerHalf
          PROVE  T2[x] = IF x \in (ServerHalf + 1)..(ServerHalf + offers') THEN "offer" ELSE K_NONE
      <3>0. T[x] = IF x \in (ServerHalf + 1)..(ServerHalf + offers) THEN "offer" ELSE K_NONE
        BY <1>0, <2>3 DEF There
      <3>1. CASE x = y
        BY <1>3, <1>12, <3>1, FuzzAssumption
      <3>2. CASE x # y
        <4>1. x \in (ServerHalf + 1)..(ServerHalf + offers') <=> x \in (ServerHalf + 1)..(ServerHalf + offers)
          BY <1>3, <3>2, FuzzAssumption
        <4> QED
          BY <1>12, <3>0, <3>2, <4>1
      <3> QED
        BY <3>1, <3>2
    <2> QED
      BY <1>0, <1>1, <1>10, <1>12, <2>1, <2>2, <2>3 DEF There, Nowhere
  <1>16. Sound(T2, n)'
    <2>1. ASSUME NEW i \in 1..Len(toServer), i <= n, NEW x \in Nat, Creates(T2, toServer[i], x)
          PROVE  /\ x \in MayBeNew /\ x < next_id
                 /\ T2[x] \in Kinds /\ T2[x] = KindMade(T2, toServer[i])
      <3>0. i <= n + 1
        BY <1>0, <2>1
      <3>1. Creates(T, toServer[i], x) /\ KindMade(T2, toServer[i]) = KindMade(T, toServer[i])
        BY <1>14, <2>1, <3>0
      <3>2. /\ x \in MayBeNew /\ x < next_id
            /\ T[x] \in Kinds /\ T[x] = KindMade(T, toServer[i])
        BY <1>0, <2>1, <3>0, <3>1 DEF Sound
      <3> QED
        BY <1>13, <1>a, <3>1, <3>2
    <2>2. \A i \in 1..Len(toServer) : i <= n + 1 => T2[toServer[i].object] # K_NONE \/ toServer[i].object \in {0, Nowhere}
      BY <1>14 DEF Aimed
    <2> QED
      BY <1>1, <2>1, <2>2 DEF Sound, MayBeNew, Nowhere
  <1>17. ASSUME n < Len(toServer)
         PROVE  Refusable(T2, toServer[n + 1])
    <2>1. n + 1 \in 1..Len(toServer) /\ n + 1 <= n + 1 /\ Refusable(T, toServer[n + 1])
      BY <1>0, <1>17 DEF Matches
    <2> QED
      BY <1>14, <2>1
  <1>18. ASSUME n = Len(toServer)
         PROVE  Agree(T2)'
    <2>0. Agree(T)
      BY <1>18 DEF Matches
    <2>1. \A i \in 1..Len(toServer) : /\ \A x : Creates(T2, toServer[i], x) <=> Creates(T, toServer[i], x)
                                      /\ Destroys(T2, toServer[i]) <=> Destroys(T, toServer[i])
                                      /\ toServer[i].object # y
      <3>1. \A i \in 1..Len(toServer) : i <= n + 1
        BY <1>0, <1>18
      <3> QED
        BY <1>14, <3>1
    <2>2. \A x : /\ IsMade(T2, x)' <=> IsMade(T, x)
                 /\ IsDoomed(T2, x)' <=> IsDoomed(T, x)
      BY <1>1, <2>1 DEF IsMade, IsDoomed
    <2>3. \A i \in 1..Len(objects) : /\ objects[i].id \in Nat /\ objects[i].id # y
                                     /\ T2[objects[i].id] = objects[i].kind
      <3>1. \A i \in 1..Len(objects) : /\ objects[i].id \in Nat /\ objects[i].kind \in Kinds
                                       /\ T[objects[i].id] = objects[i].kind
        BY <2>0, ListIds DEF Agree, ListRight, FuzzTyped
      <3> QED
        BY <1>13, <1>a, <3>1
    <2>4. Fresh(T2)'
      <3>1. \A x \in Unborn : T[x] = K_NONE /\ x \in Nat /\ x < ServerHalf
        BY <2>0, UnbornIds DEF Agree, Fresh
      <3>2. \A x \in Unborn : x # y
        BY <1>3, <3>1, FuzzAssumption
      <3>3. \A x \in Unborn : T2[x] = K_NONE
        BY <1>12, <3>1, <3>2
      <3> QED
        BY <1>1, <3>3 DEF Fresh, Unborn, MayBeNew, Nowhere
    <2>5. ListRight(T2)'
      BY <1>1, <2>3 DEF ListRight
    <2>6. WinRight(T2)'
      <3>1. \A x \in Nat : \A k : T[x] = k /\ k # K_NONE => T2[x] = k
        BY <1>13
      <3>2. /\ win.wm \in Nat /\ win.shm \in Nat /\ win.surface \in Nat /\ win.xdg \in Nat
            /\ win.pool \in Nat /\ win.buffer \in Nat
        BY DEF FuzzTyped, FuzzerTyped
      <3>3. WinRight(T)
        BY <2>0 DEF Agree
      <3> QED
        BY <1>1, <3>1, <3>2, <3>3 DEF WinRight, K_NONE
    <2>7. MadeOnce(T2)'
      <3>1. ASSUME NEW i \in 1..Len(toServer), NEW x \in Nat, Creates(T2, toServer[i], x)
            PROVE  /\ x \notin DOMAIN resources'
                   /\ \A j \in 1..Len(toServer) : j # i => ~Creates(T2, toServer[j], x)
                   /\ \A j \in 1..i : toServer[j].object # x
        <4>1. Creates(T, toServer[i], x)
          BY <2>1, <3>1
        <4>2. /\ x \notin DOMAIN resources
              /\ \A j \in 1..Len(toServer) : j # i => ~Creates(T, toServer[j], x)
              /\ \A j \in 1..i : toServer[j].object # x
          BY <2>0, <4>1 DEF Agree, MadeOnce
        <4>3. x # y
          <5>1. T[x] \in Kinds
            BY <1>0, <1>18, <4>1 DEF Sound
          <5> QED
            BY <1>13, <1>a, <5>1
        <4> QED
          BY <1>10, <2>1, <4>2, <4>3
      <3> QED
        BY <1>1, <3>1 DEF MadeOnce
    <2>8. GivenBack(T2)'
      <3>1. ASSUME NEW i \in 1..Len(toClient'), toClient'[i].op = "delete_id", NEW x, x = toClient'[i].id
            PROVE  OfClient(x) /\ T2[x] # K_NONE /\ x \notin DOMAIN resources' /\ ~IsMade(T2, x)'
        <4>1. i \in 1..Len(toClient) /\ toClient[i].op = "delete_id" /\ toClient[i].id = x
          BY <1>5, <1>6, <3>1
        <4>2. OfClient(x) /\ T[x] # K_NONE /\ x \notin DOMAIN resources /\ ~IsMade(T, x)
          BY <2>0, <4>1 DEF Agree, GivenBack
        <4>3. x \in Nat
          BY <1>0, <4>1 DEF Events, EventTyped
        <4> QED
          BY <1>10, <1>13, <2>2, <4>2, <4>3
      <3> QED
        BY <3>1 DEF GivenBack, OfClient
    <2>9. OffersRight'
      <3>1. ASSUME NEW i \in 1..Len(toClient), toClient[i].op = "data_offer", NEW x, x = toClient[i].id
            PROVE  /\ x \in DOMAIN resources' /\ x \in (ServerHalf + 1)..(ServerHalf + offers') /\ ~Listed(x)
                   /\ \A j \in 1..Len(toServer) : toServer[j].object # x
                   /\ \A j \in 1..Len(toClient') :
                        toClient'[j].op = "data_offer" /\ toClient'[j].id = x => j = i
        <4>1. /\ x \in DOMAIN resources /\ x \in (ServerHalf + 1)..(ServerHalf + offers) /\ ~Listed(x)
              /\ \A j \in 1..Len(toServer) : toServer[j].object # x
              /\ \A j \in 1..Len(toClient) : toClient[j].op = "data_offer" /\ toClient[j].id = x => j = i
          BY <2>0, <3>1 DEF Agree, OffersRight
        <4>2. x # y
          BY <1>9, <4>1
        <4>3. x \in (ServerHalf + 1)..(ServerHalf + offers')
          BY <1>3, <4>1, FuzzAssumption
        <4> QED
          BY <1>5, <1>6, <1>10, <4>1, <4>2, <4>3
      <3>2. /\ y \in DOMAIN resources' /\ y \in (ServerHalf + 1)..(ServerHalf + offers') /\ ~Listed(y)
            /\ \A j \in 1..Len(toServer) : toServer[j].object # y
            /\ \A j \in 1..Len(toClient') :
                 toClient'[j].op = "data_offer" /\ toClient'[j].id = y => j = Len(toClient) + 1
        <4>1. y \in (ServerHalf + 1)..(ServerHalf + offers')
          BY <1>3, FuzzAssumption
        <4>2. ~Listed(y)
          BY <2>3 DEF Listed
        <4>3. ASSUME NEW j \in 1..Len(toClient), toClient[j].op = "data_offer", toClient[j].id = y
              PROVE  FALSE
          BY <1>9, <2>0, <4>3 DEF Agree, OffersRight
        <4> QED
          BY <1>6, <1>10, <2>1, <4>1, <4>2, <4>3
      <3>3. \A x : Listed(x)' <=> Listed(x)
        BY <1>1 DEF Listed
      <3>4. ASSUME NEW i \in 1..Len(toClient'), toClient'[i].op = "data_offer", NEW x, x = toClient'[i].id
            PROVE  /\ x \in DOMAIN resources' /\ x \in (ServerHalf + 1)..(ServerHalf + offers') /\ ~Listed(x)
                   /\ \A j \in 1..Len(toServer) : toServer[j].object # x
                   /\ \A j \in 1..Len(toClient') :
                        toClient'[j].op = "data_offer" /\ toClient'[j].id = x => j = i
        <4>1. CASE i \in 1..Len(toClient)
          BY <1>6, <3>1, <3>4, <4>1
        <4>2. CASE i = Len(toClient) + 1
          BY <1>5, <1>6, <3>2, <3>4, <4>2
        <4> QED
          BY <1>6, <4>1, <4>2
      <3> QED
        BY <1>1, <3>3, <3>4 DEF OffersRight
    <2>10. AliveRight(T2)'
      <3>1. ASSUME NEW j \in 1..Len(objects), ~objects[j].dead, NEW x, x = objects[j].id
            PROVE  /\ OfClient(x) => x \in DOMAIN resources' \/ IsMade(T2, x)' \/ OnItsWay(x)'
                   /\ ~OfClient(x) => x \in DOMAIN resources' /\ ~IsDoomed(T2, x)'
        <4>1. /\ OfClient(x) => x \in DOMAIN resources \/ IsMade(T, x) \/ OnItsWay(x)
              /\ ~OfClient(x) => x \in DOMAIN resources /\ ~IsDoomed(T, x)
          BY <2>0, <3>1 DEF Agree, AliveRight
        <4> QED
          BY <1>6, <1>10, <2>2, <4>1
      <3> QED
        BY <1>1, <3>1 DEF AliveRight, OfClient, OnItsWay
    <2>11. DeadRight(T2)'
      <3>1. ASSUME NEW j \in 1..Len(objects), objects[j].dead, NEW x, x = objects[j].id
            PROVE  IsDoomed(T2, x)' \/ (x \notin DOMAIN resources' /\ ~IsMade(T2, x)')
        <4>1. IsDoomed(T, x) \/ (x \notin DOMAIN resources /\ ~IsMade(T, x))
          BY <2>0, <3>1 DEF Agree, DeadRight
        <4> QED
          BY <1>10, <2>2, <2>3, <3>1, <4>1
      <3> QED
        BY <1>1, <3>1 DEF DeadRight
    <2> QED
      BY <2>4, <2>5, <2>6, <2>7, <2>8, <2>9, <2>10, <2>11 DEF Agree
  <1>19. Matches(T2, n)'
    BY <1>0, <1>1, <1>15, <1>16, <1>17, <1>18 DEF Matches, Refusable
  <1> QED
    BY <1>19

(* So nothing the compositor does but refuse brings them out of step.      *)
LEMMA CompositorSteps ==
  ASSUME Spent, FuzzTyped, refused' = "not", NEW T, NEW n, Matches(T, n), Compositor
  PROVE  \E T2, n2 : Matches(T2, n2)'
  <1>1. CASE TakeRequest
    <2>1. PICK m : m = Head(toServer)
      OBVIOUS
    <2>2. toServer # << >> /\ UNCHANGED <<fuzzer, offered, offers>>
      BY <1>1 DEF TakeRequest
    <2>3. Decodes(m) /\ Accept(m) /\ toServer' = Tail(toServer)
      BY <1>1, <2>1 DEF TakeRequest
    <2>4. RequestTyped(m) /\ m = toServer[1]
      <3>1. Requests(toServer)
        BY DEF FuzzTyped
      <3>2. RequestTyped(m)
        BY <2>1, <2>2, <3>1, QueuesTailed
      <3>3. m = toServer[1]
        BY <2>1, <2>2, <3>1, SeqTailed DEF Requests
      <3> QED
        BY <3>2, <3>3
    <2>5. n \in 0..Len(toServer) /\ There(T) /\ (n < Len(toServer) => Refusable(T, toServer[n + 1]))
          /\ Len(toServer) \in Nat \ {0}
      BY <2>2, SeqTailed DEF Matches, FuzzTyped, Requests
    <2>6. n > 0
      <3>1. ~Refusable(T, m)
        BY <2>3, <2>4, <2>5, RefusableRefused DEF FuzzTyped
      <3> QED
        BY <2>4, <2>5, <3>1
    <2>7. Matches(T, n - 1)'
      BY <2>1, <2>2, <2>3, <2>6, TakenStep
    <2> QED
      BY <2>7
  <1>2. CASE TellGlobal
    BY <1>2, TellStep
  <1>3. CASE FrameShown
    BY <1>3, FrameStep
  <1>4. CASE OfferData
    BY <1>4, OfferStep
  <1> QED
    BY <1>1, <1>2, <1>3, <1>4 DEF Compositor

(* No kind is K_NONE.                                                      *)
LEMMA IsKind == K_NONE \notin Kinds /\ DOMAIN ifaces \subseteq Kinds
  BY AllKinds DEF K_NONE, Kinds

(* A request of the fuzzer's tables means what they say.                   *)
LEMMA RequestMeans ==
  ASSUME NEW T, NEW kind \in DOMAIN ifaces, kind # "registry", NEW op \in 1..Len(ifaces[kind]),
         NEW r, r = ifaces[kind][op],
         NEW m, T[m.object] = kind, m.opcode = op - 1, Len(m.args) \in Nat,
         r.makes # K_NONE => 1 <= Len(m.args)
  PROVE  /\ \A x : Creates(T, m, x) <=> r.makes # K_NONE /\ x = m.args[1].value
         /\ Destroys(T, m) <=> r.destroys
         /\ r.makes # K_NONE => KindMade(T, m) = r.makes
  <1>0. op \in Nat /\ op - 1 + 1 = op
    BY TablesRight
  <1>1. op \in 1..Len(Protocol[kind]) /\ SameForm(kind, r, Protocol[kind][op])
    BY ProtocolRight
  <1>2. PICK f : f = Protocol[kind][op]
    OBVIOUS
  <1>3. FormRight(kind, f)
    BY <1>1, <1>2, IsKind, ProtocolRight
  <1>4. Knows(kind, m) /\ Form(kind, m) = f
    BY <1>0, <1>1, <1>2, IsKind DEF Knows, Form
  <1>5. /\ f.destroys <=> r.destroys
        /\ r.makes = K_NONE => \A i \in 1..Len(f.args) : f.args[i].letter # "n"
        /\ r.makes # K_NONE => 1 <= Len(f.args) /\ f.args[1] = Arg("n", r.makes)
    BY <1>1, <1>2 DEF SameForm
  <1>6. /\ Len(f.args) \in Nat
        /\ \A i \in 1..Len(f.args) : f.args[i].letter = "n" => i = 1
    BY <1>3 DEF FormRight, NewAt
  <1>7. Destroys(T, m) <=> r.destroys
    BY <1>4, <1>5 DEF Destroys
  <1>8. CASE r.makes = K_NONE
    BY <1>4, <1>5, <1>7, <1>8 DEF Creates
  <1>9. CASE r.makes # K_NONE
    <2>1. 1 \in 1..Len(f.args) /\ 1 \in 1..Len(m.args)
      BY <1>5, <1>6, <1>9
    <2>2. f.args[1].letter = "n" /\ f.args[1].kind = r.makes
      BY <1>5, <1>9 DEF Arg
    <2>3. \A x : Creates(T, m, x) <=> x = m.args[1].value
      BY <1>4, <1>6, <2>1, <2>2 DEF Creates
    <2>4. KindMade(T, m) = r.makes
      BY <1>4, <2>2 DEF KindMade, NewAt
    <2> QED
      BY <1>7, <1>9, <2>3, <2>4
  <1> QED
    BY <1>8, <1>9

(* A bind makes one object, of the kind it names.                          *)
LEMMA RegistryMeans ==
  ASSUME NEW T, NEW m, T[m.object] = "registry", m.opcode = 0, Len(m.args) = 4
  PROVE  /\ \A x : Creates(T, m, x) <=> x = m.args[4].value
         /\ ~Destroys(T, m)
         /\ KindMade(T, m) = m.args[2].value
  <1>1. "registry" \in Kinds /\ Protocol["registry"] = Core(registry_reqs)
    <2>1. "registry" \in Kinds /\ ReqsOf("registry") = registry_reqs
      BY KindsKnown DEF ReqsOf, ifaces
    <2> QED
      BY <2>1 DEF Protocol
  <1>2. /\ Len(registry_reqs) = 1
        /\ Len(registry_reqs[1].sig) = 4 /\ registry_reqs[1].sig[1] = "u"
        /\ registry_reqs[1].sig[2] = "s" /\ registry_reqs[1].sig[3] = "u"
        /\ registry_reqs[1].sig[4] = "n" /\ ~registry_reqs[1].destroys
    BY DEF registry_reqs, Plain, Req
  <1>3. PICK f : f = Core(registry_reqs)[1]
    OBVIOUS
  <1>4. /\ Len(Core(registry_reqs)) = 1 /\ Len(f.args) = 4 /\ (f.destroys = registry_reqs[1].destroys)
        /\ \A i \in 1..4 : f.args[i].letter = Letter(registry_reqs[1].sig[i])
    BY <1>2, <1>3, CoreRight
  <1>5. \A i \in 1..4 : f.args[i].letter = "n" <=> i = 4
    BY <1>2, <1>4 DEF Letter
  <1>6. Knows("registry", m) /\ Form("registry", m) = f
    BY <1>1, <1>3, <1>4 DEF Knows, Form
  <1>7. \A x : Creates(T, m, x) <=> x = m.args[4].value
    BY <1>4, <1>5, <1>6 DEF Creates
  <1>8. ~Destroys(T, m)
    BY <1>2, <1>4, <1>6 DEF Destroys
  <1>9. KindMade(T, m) = m.args[2].value
    BY DEF KindMade
  <1> QED
    BY <1>7, <1>8, <1>9

(* An object that is no offer has an id of the client's.                   *)
LEMMA ClientIds ==
  ASSUME NEW T, There(T), NEW x \in Nat, T[x] # K_NONE, T[x] # "offer"
  PROVE  OfClient(x)
  <1>1. ~(x >= ServerHalf)
    BY DEF There
  <1> QED
    BY <1>1, FuzzAssumption DEF OfClient

(* What makes one new object, of an id that was unborn.                    *)
LEMMA CreatesFits ==
  ASSUME Spent, NEW T, There(T), Agree(T), NEW m, Listed(m.object) \/ OfClient(m.object),
         NEW new \in Unborn, new \notin Unborn', Unborn' \subseteq Unborn, new < next_id',
         NEW kind \in Kinds, KindMade(T, m) = kind,
         \A x : Creates(T, m, x) <=> x = new,
         \A j \in 1..Len(objects') :
           IsNew(objects'[j], new, kind) \/ (j \in 1..Len(objects) /\ Carried(objects[j], objects'[j], T, m)),
         \A T2 : T2[new] = kind /\ (\A x \in Nat : x # new => T2[x] = T[x]) => WinRight(T2)'
  PROVE  \E T2 : Fitting(T, T2, m)
  <1>1. new \in Nat
    BY UnbornIds
  <1>2. T \in [Nat -> Kinds \cup {K_NONE}]
    BY DEF There
  <1>3. PICK T2 : T2 = [T EXCEPT ![new] = kind]
    OBVIOUS
  <1>4. /\ T2 \in [Nat -> Kinds \cup {K_NONE}] /\ T2[new] = kind
        /\ \A x \in Nat : x # new => T2[x] = T[x]
    BY <1>1, <1>2, <1>3
  <1>5. Bears(T, T2, m)
    BY <1>4 DEF Bears
  <1>6. Notes(T, T2, m)
    BY <1>1, <1>4 DEF Notes
  <1>7. WinRight(T2)'
    BY <1>4
  <1>8. Fitting(T, T2, m)
    BY <1>5, <1>6, <1>7 DEF Fitting
  <1> QED
    BY <1>8

(* What makes none.                                                        *)
LEMMA NothingFits ==
  ASSUME NEW T, There(T), NEW m, Listed(m.object) \/ OfClient(m.object),
         Unborn' \subseteq Unborn, \A x : ~Creates(T, m, x),
         \A j \in 1..Len(objects') :
           j \in 1..Len(objects) /\ Carried(objects[j], objects'[j], T, m),
         WinRight(T)'
  PROVE  \E T2 : Fitting(T, T2, m)
  <1>1. Bears(T, T, m)
    BY DEF Bears, There
  <1>2. Notes(T, T, m)
    BY DEF Notes
  <1>3. Fitting(T, T, m)
    BY <1>1, <1>2 DEF Fitting
  <1> QED
    BY <1>3

(* The list after each of what is done to it.                              *)
LEMMA ListCarried ==
  ASSUME FuzzTyped, NEW T, NEW m
  PROVE  /\ objects' = objects /\ (Destroys(T, m) => OfClient(m.object)) =>
              \A j \in 1..Len(objects') : j \in 1..Len(objects) /\ Carried(objects[j], objects'[j], T, m)
         /\ \A id, kind : objects' = remember(objects, id, kind) /\ (Destroys(T, m) => OfClient(m.object)) =>
              \A j \in 1..Len(objects') :
                \/ IsNew(objects'[j], id, kind)
                \/ j \in 1..Len(objects) /\ Carried(objects[j], objects'[j], T, m)
         /\ objects' = forget(objects, m.object) /\ Destroys(T, m) =>
              \A j \in 1..Len(objects') : j \in 1..Len(objects) /\ Carried(objects[j], objects'[j], T, m)
  <1>1. IsSeq(objects) /\ \A j \in 1..Len(objects) : EntryTyped(objects[j])
    BY DEF FuzzTyped, IsList
  <1>2. ASSUME Destroys(T, m) => OfClient(m.object)
        PROVE  \A e : Carried(e, e, T, m)
    BY <1>2 DEF Carried
  <1>3. ASSUME NEW id, NEW kind, objects' = remember(objects, id, kind), Destroys(T, m) => OfClient(m.object)
        PROVE  \A j \in 1..Len(objects') :
                \/ IsNew(objects'[j], id, kind)
                \/ j \in 1..Len(objects) /\ Carried(objects[j], objects'[j], T, m)
    <2>1. \A j \in 1..Len(objects') :
            IsNew(objects'[j], id, kind) \/ (j \in 1..Len(objects) /\ objects'[j] = objects[j])
      BY <1>1, <1>3, RememberRight
    <2> QED
      BY <1>2, <1>3, <2>1
  <1>4. ASSUME objects' = forget(objects, m.object), Destroys(T, m)
        PROVE  \A j \in 1..Len(objects') : j \in 1..Len(objects) /\ Carried(objects[j], objects'[j], T, m)
    <2>1. /\ Len(objects') = Len(objects)
          /\ \A j \in 1..Len(objects) :
               objects'[j] = [objects[j] EXCEPT !.dead = objects[j].dead \/ objects[j].id = m.object]
      BY <1>1, <1>4, ForgetRight
    <2>2. ASSUME NEW j \in 1..Len(objects)
          PROVE  Carried(objects[j], objects'[j], T, m)
      <3>1. PICK o : o = objects[j]
        OBVIOUS
      <3>2. PICK p : p = objects'[j]
        OBVIOUS
      <3>3. EntryTyped(o) /\ p = [o EXCEPT !.dead = o.dead \/ o.id = m.object]
        BY <1>1, <2>1, <3>1, <3>2
      <3>4. o.dead \in BOOLEAN
        BY <3>3 DEF EntryTyped
      <3>5. p.id = o.id /\ p.kind = o.kind
        BY <3>3 DEF EntryTyped
      <3>6. p.dead = (o.dead \/ o.id = m.object)
        BY <3>3 DEF EntryTyped
      <3>7. Carried(o, p, T, m)
        BY <1>4, <3>4, <3>5, <3>6 DEF Carried
      <3> QED
        BY <3>1, <3>2, <3>7
    <2> QED
      BY <2>1, <2>2
  <1> QED
    BY <1>2, <1>3, <1>4

(* What is sent is in step, or is to be refused.                           *)
SentRight(T, m) == Aimed(T, m) /\ (Refusable(T, m) \/ \E T2 : Fitting(T, T2, m))

(* Sent or not, a request that is right when all before it were keeps the  *)
(* two in step.                                                            *)
LEMMA AskedStep ==
  ASSUME Spent, FuzzTyped, Spent', FuzzTyped', NEW T, NEW n, Matches(T, n),
         NEW object \in Nat, NEW opcode \in Nat, NEW args, Len(args) \in Nat,
         Asked(object, opcode, args), UNCHANGED <<toClient, compositor>>, next_id' >= next_id,
         \A m : m.object = object /\ m.opcode = opcode /\ m.args = args /\ There(T) /\ Agree(T) =>
                  SentRight(T, m)
  PROVE  \E T2, n2 : Matches(T2, n2)'
  <1>1. PICK m : /\ toServer' = Append(toServer, m)
                 /\ m.object = object /\ m.opcode = opcode /\ m.args = args
    BY DEF Asked
  <1>2. RequestTyped(m)
    BY <1>1 DEF RequestTyped
  <1>3. There(T) /\ (n = Len(toServer) => Agree(T))
    BY DEF Matches
  <1>4. n = Len(toServer) => Aimed(T, m) /\ (Refusable(T, m) \/ \E T2 : Fitting(T, T2, m))
    BY <1>1, <1>3 DEF SentRight
  <1> QED
    BY <1>1, <1>2, <1>4, SendStep

(* next_id is not born.                                                    *)
LEMMA NextUnborn ==
  ASSUME Spent
  PROVE  next_id \in Unborn /\ next_id \in Nat
  <1>1. 4 <= next_id /\ next_id <= 16 + 5 * total /\ 16 + 5 * total < Nowhere /\ next_id \in Nat /\ total \in Nat
    BY DEF Spent
  <1>2. Nowhere \in Int
    BY FuzzAssumption DEF Nowhere
  <1> QED
    BY <1>1, <1>2 DEF Unborn, MayBeNew

(* Nor are the ids the window has set aside and not sent yet.              *)
LEMMA WindowUnborn ==
  ASSUME Spent, WinSpent, phase = "window", FuzzTyped
  PROVE  /\ step = 2 => win.xdg \in Unborn
         /\ step = 3 => win.top \in Unborn
         /\ step = 6 => win.buffer \in Unborn
         /\ step > 1 => win.top = win.xdg + 1
  <1>1. 4 <= next_id /\ next_id <= 16 + 5 * total /\ 16 + 5 * total < Nowhere /\ next_id \in Nat /\ total \in Nat
    BY DEF Spent
  <1>2. Nowhere \in Int
    BY FuzzAssumption DEF Nowhere
  <1>3. win.xdg \in Nat /\ win.top \in Nat /\ win.buffer \in Nat
    BY DEF FuzzTyped, FuzzerTyped
  <1> QED
    BY <1>1, <1>2, <1>3 DEF Unborn, MayBeNew, WinSpent

(* What the list has is of a kind, and of one that the client may have.    *)
LEMMA WinKnown ==
  ASSUME FuzzTyped, NEW T, There(T), Agree(T), phase = "window", step > 1
  PROVE  /\ win.wm \in Nat /\ win.shm \in Nat /\ win.surface \in Nat /\ win.xdg \in Nat
         /\ win.top \in Nat /\ win.pool \in Nat /\ win.buffer \in Nat
         /\ T[win.wm] = "wm_base" /\ T[win.shm] = "shm" /\ T[win.surface] = "surface"
         /\ OfClient(win.wm) /\ OfClient(win.shm) /\ OfClient(win.surface)
         /\ step > 2 => T[win.xdg] = "xdg_surface" /\ OfClient(win.xdg)
         /\ step > 5 => T[win.pool] = "pool" /\ OfClient(win.pool)
         /\ step > 6 => T[win.buffer] = "buffer" /\ OfClient(win.buffer)
  <1>1. /\ win.wm \in Nat /\ win.shm \in Nat /\ win.surface \in Nat /\ win.xdg \in Nat
        /\ win.top \in Nat /\ win.pool \in Nat /\ win.buffer \in Nat
    BY DEF FuzzTyped, FuzzerTyped
  <1>2. /\ T[win.wm] = "wm_base" /\ T[win.shm] = "shm" /\ T[win.surface] = "surface"
        /\ step > 2 => T[win.xdg] = "xdg_surface"
        /\ step > 5 => T[win.pool] = "pool"
        /\ step > 6 => T[win.buffer] = "buffer"
    BY DEF Agree, WinRight
  <1>3. \A x \in Nat : T[x] \in {"wm_base", "shm", "surface", "xdg_surface", "pool", "buffer"} => OfClient(x)
    BY ClientIds DEF K_NONE
  <1> QED
    BY <1>1, <1>2, <1>3

(* The rows of the tables that the window's requests are.                  *)
LEMMA WindowTables ==
  /\ {"compositor", "wm_base", "xdg_surface", "shm", "pool", "surface", "buffer"} \subseteq DOMAIN ifaces
  /\ Len(ifaces["compositor"]) = 2 /\ ifaces["compositor"][1].makes = "surface"
     /\ ~ifaces["compositor"][1].destroys
  /\ Len(ifaces["wm_base"]) = 4 /\ ifaces["wm_base"][3].makes = "xdg_surface"
     /\ ~ifaces["wm_base"][3].destroys
  /\ Len(ifaces["xdg_surface"]) = 5 /\ ifaces["xdg_surface"][2].makes = "toplevel"
     /\ ~ifaces["xdg_surface"][2].destroys
     /\ ifaces["xdg_surface"][5].makes = K_NONE /\ ~ifaces["xdg_surface"][5].destroys
  /\ Len(ifaces["shm"]) = 2 /\ ifaces["shm"][1].makes = "pool" /\ ~ifaces["shm"][1].destroys
  /\ Len(ifaces["pool"]) = 3 /\ ifaces["pool"][1].makes = "buffer" /\ ~ifaces["pool"][1].destroys
     /\ ifaces["pool"][2].makes = K_NONE /\ ifaces["pool"][2].destroys
  /\ Len(ifaces["surface"]) = 11
     /\ ifaces["surface"][2].makes = K_NONE /\ ~ifaces["surface"][2].destroys
     /\ ifaces["surface"][7].makes = K_NONE /\ ~ifaces["surface"][7].destroys
  /\ Len(ifaces["buffer"]) = 1
     /\ ifaces["buffer"][1].makes = K_NONE /\ ifaces["buffer"][1].destroys
  <1>1. /\ {"compositor", "wm_base", "xdg_surface", "shm", "pool", "surface", "buffer"} \subseteq DOMAIN ifaces
        /\ ifaces["compositor"] = compositor_reqs /\ ifaces["wm_base"] = wm_base_reqs
        /\ ifaces["xdg_surface"] = xdg_surface_reqs /\ ifaces["shm"] = shm_reqs
        /\ ifaces["pool"] = pool_reqs /\ ifaces["surface"] = surface_reqs
        /\ ifaces["buffer"] = buffer_reqs
    BY DEF ifaces
  <1>2. Len(compositor_reqs) = 2 /\ compositor_reqs[1].makes = "surface" /\ ~compositor_reqs[1].destroys
    BY DEF compositor_reqs, Makes, Req
  <1>3. Len(wm_base_reqs) = 4 /\ wm_base_reqs[3].makes = "xdg_surface" /\ ~wm_base_reqs[3].destroys
    BY DEF wm_base_reqs, Req
  <1>4. /\ Len(xdg_surface_reqs) = 5 /\ xdg_surface_reqs[2].makes = "toplevel"
        /\ ~xdg_surface_reqs[2].destroys
        /\ xdg_surface_reqs[5].makes = K_NONE /\ ~xdg_surface_reqs[5].destroys
    BY DEF xdg_surface_reqs, Makes, Plain, Req
  <1>5. Len(shm_reqs) = 2 /\ shm_reqs[1].makes = "pool" /\ ~shm_reqs[1].destroys
    BY DEF shm_reqs, Req
  <1>6. /\ Len(pool_reqs) = 3 /\ pool_reqs[1].makes = "buffer" /\ ~pool_reqs[1].destroys
        /\ pool_reqs[2].makes = K_NONE /\ pool_reqs[2].destroys
    BY DEF pool_reqs, Req, DESTRUCTOR
  <1>7. /\ Len(surface_reqs) = 11
        /\ surface_reqs[2].makes = K_NONE /\ ~surface_reqs[2].destroys
        /\ surface_reqs[7].makes = K_NONE /\ ~surface_reqs[7].destroys
    BY DEF surface_reqs, Req, Plain
  <1>8. Len(buffer_reqs) = 1 /\ buffer_reqs[1].makes = K_NONE /\ buffer_reqs[1].destroys
    BY DEF buffer_reqs, DESTRUCTOR
  <1> QED
    BY <1>1, <1>2, <1>3, <1>4, <1>5, <1>6, <1>7, <1>8

(* A request of the tables that makes something new, and one that does not. *)
MakesNew(T, object, opcode, args, kind, op, made, new) ==
  /\ kind \in DOMAIN ifaces /\ kind # "registry" /\ op \in 1..Len(ifaces[kind]) /\ opcode = op - 1
  /\ made \in Kinds /\ ifaces[kind][op].makes = made /\ ~ifaces[kind][op].destroys
  /\ 1 <= Len(args) /\ args[1].value = new
  /\ new \in Unborn /\ new \notin Unborn' /\ Unborn' \subseteq Unborn /\ new < next_id'
  /\ objects' = remember(objects, new, made)
  /\ There(T) /\ Agree(T) =>
       /\ T[object] = kind /\ (Listed(object) \/ OfClient(object))
       /\ \A T2 : T2[new] = made /\ (\A x \in Nat : x # new => T2[x] = T[x]) => WinRight(T2)'
(* It makes nothing and destroys at most its object.                       *)
MakesNone(T, object, opcode, kind, op) ==
  /\ kind \in DOMAIN ifaces /\ kind # "registry" /\ op \in 1..Len(ifaces[kind]) /\ opcode = op - 1
  /\ ifaces[kind][op].makes = K_NONE /\ Unborn' \subseteq Unborn
  /\ objects' = IF ifaces[kind][op].destroys THEN forget(objects, object) ELSE objects
  /\ There(T) /\ Agree(T) =>
       T[object] = kind /\ (Listed(object) \/ OfClient(object)) /\ WinRight(T)'

(* A request to a known object, with an id not born where the row has its  *)
(* new one, keeps the two in step.                                         *)
LEMMA MakesStep ==
  ASSUME Spent, FuzzTyped, Spent', FuzzTyped', NEW T, NEW n, Matches(T, n),
         NEW object \in Nat, NEW opcode \in Nat, NEW args, Len(args) \in Nat,
         Asked(object, opcode, args), UNCHANGED <<toClient, compositor>>, next_id' >= next_id,
         NEW kind, NEW op, NEW made, NEW new, MakesNew(T, object, opcode, args, kind, op, made, new)
  PROVE  \E T2, n2 : Matches(T2, n2)'
  <1>0. /\ kind \in DOMAIN ifaces /\ kind # "registry" /\ op \in 1..Len(ifaces[kind]) /\ opcode = op - 1
        /\ made \in Kinds /\ ifaces[kind][op].makes = made /\ ~ifaces[kind][op].destroys
        /\ 1 <= Len(args) /\ args[1].value = new
        /\ new \in Unborn /\ new \notin Unborn' /\ Unborn' \subseteq Unborn /\ new < next_id'
        /\ objects' = remember(objects, new, made)
        /\ There(T) /\ Agree(T) => T[object] = kind /\ (Listed(object) \/ OfClient(object))
        /\ There(T) /\ Agree(T) =>
             \A T2 : T2[new] = made /\ (\A x \in Nat : x # new => T2[x] = T[x]) => WinRight(T2)'
    BY DEF MakesNew
  <1>1. ASSUME NEW m, m.object = object, m.opcode = opcode, m.args = args, There(T), Agree(T)
        PROVE  SentRight(T, m)
    <2>1. T[m.object] = kind /\ (Listed(m.object) \/ OfClient(m.object))
      BY <1>0, <1>1
    <2>2. PICK r : r = ifaces[kind][op]
      OBVIOUS
    <2>3. m.opcode = op - 1 /\ Len(m.args) \in Nat /\ 1 <= Len(m.args)
      BY <1>0, <1>1
    <2>4. /\ \A x : Creates(T, m, x) <=> r.makes # K_NONE /\ x = m.args[1].value
          /\ Destroys(T, m) <=> r.destroys
          /\ r.makes # K_NONE => KindMade(T, m) = r.makes
      BY <1>0, <2>1, <2>2, <2>3, RequestMeans
    <2>5. /\ \A x : Creates(T, m, x) <=> x = new
          /\ ~Destroys(T, m) /\ KindMade(T, m) = made
      BY <1>0, <1>1, <2>2, <2>4, IsKind
    <2>6. \A j \in 1..Len(objects') :
            IsNew(objects'[j], new, made) \/ (j \in 1..Len(objects) /\ Carried(objects[j], objects'[j], T, m))
      BY <1>0, <2>5, ListCarried
    <2>7. \A T2 : T2[new] = made /\ (\A x \in Nat : x # new => T2[x] = T[x]) => WinRight(T2)'
      BY <1>0, <1>1
    <2>8. \E T2 : Fitting(T, T2, m)
      BY <1>0, <1>1, <2>1, <2>5, <2>6, <2>7, CreatesFits
    <2>9. Aimed(T, m)
      BY <1>0, <2>1, IsKind DEF Aimed
    <2> QED
      BY <2>8, <2>9 DEF SentRight
  <1> QED
    BY <1>1, AskedStep

(* And so does one that makes nothing.                                     *)
LEMMA KeepsStep ==
  ASSUME Spent, FuzzTyped, Spent', FuzzTyped', NEW T, NEW n, Matches(T, n),
         NEW object \in Nat, NEW opcode \in Nat, NEW args, Len(args) \in Nat,
         Asked(object, opcode, args), UNCHANGED <<toClient, compositor>>, next_id' >= next_id,
         NEW kind, NEW op, MakesNone(T, object, opcode, kind, op)
  PROVE  \E T2, n2 : Matches(T2, n2)'
  <1>0. /\ kind \in DOMAIN ifaces /\ kind # "registry" /\ op \in 1..Len(ifaces[kind]) /\ opcode = op - 1
        /\ ifaces[kind][op].makes = K_NONE /\ Unborn' \subseteq Unborn
        /\ objects' = IF ifaces[kind][op].destroys THEN forget(objects, object) ELSE objects
        /\ There(T) /\ Agree(T) => T[object] = kind /\ (Listed(object) \/ OfClient(object))
        /\ There(T) /\ Agree(T) => WinRight(T)'
    BY DEF MakesNone
  <1>1. ASSUME NEW m, m.object = object, m.opcode = opcode, m.args = args, There(T), Agree(T)
        PROVE  SentRight(T, m)
    <2>1. T[m.object] = kind /\ (Listed(m.object) \/ OfClient(m.object))
      BY <1>0, <1>1
    <2>2. PICK r : r = ifaces[kind][op]
      OBVIOUS
    <2>3. m.opcode = op - 1 /\ Len(m.args) \in Nat /\ r.makes = K_NONE
      BY <1>0, <1>1, <2>2
    <2>4. /\ \A x : ~Creates(T, m, x)
          /\ Destroys(T, m) <=> r.destroys
      BY <1>0, <2>1, <2>2, <2>3, RequestMeans
    <2>5. \A j \in 1..Len(objects') :
            j \in 1..Len(objects) /\ Carried(objects[j], objects'[j], T, m)
      <3>1. CASE r.destroys
        <4>1. objects' = forget(objects, m.object)
          BY <1>0, <1>1, <2>2, <3>1
        <4> QED
          BY <2>4, <3>1, <4>1, ListCarried
      <3>2. CASE ~r.destroys
        <4>1. objects' = objects
          BY <1>0, <2>2, <3>2
        <4> QED
          BY <2>4, <3>2, <4>1, ListCarried
      <3> QED
        BY <3>1, <3>2
    <2>7. WinRight(T)'
      BY <1>0, <1>1
    <2>8. \E T2 : Fitting(T, T2, m)
      BY <1>0, <1>1, <2>1, <2>4, <2>5, <2>7, NothingFits
    <2>9. Aimed(T, m)
      BY <1>0, <2>1, IsKind DEF Aimed
    <2> QED
      BY <2>8, <2>9 DEF SentRight
  <1> QED
    BY <1>1, AskedStep

(* What the window is made of stays what it is when something is made.     *)
LEMMA WinKeeps ==
  ASSUME FuzzTyped, NEW T, There(T), Agree(T), phase = "window", step > 1, NEW new \in Unborn,
         NEW T2, \A x \in Nat : x # new => T2[x] = T[x], \A x \in Unborn : x \in Nat
  PROVE  /\ T2[win.wm] = "wm_base" /\ T2[win.shm] = "shm" /\ T2[win.surface] = "surface"
         /\ win.top = win.xdg + 1
         /\ step > 2 => T2[win.xdg] = "xdg_surface"
         /\ step > 5 => T2[win.pool] = "pool"
         /\ step > 6 => T2[win.buffer] = "buffer"
  <1>1. T[new] = K_NONE
    BY DEF Agree, Fresh
  <1>2. WinRight(T)
    BY DEF Agree
  <1>3. /\ T[win.wm] = "wm_base" /\ T[win.shm] = "shm" /\ T[win.surface] = "surface"
        /\ win.top = win.xdg + 1
        /\ step > 2 => T[win.xdg] = "xdg_surface"
        /\ step > 5 => T[win.pool] = "pool"
        /\ step > 6 => T[win.buffer] = "buffer"
    BY <1>2 DEF WinRight
  <1>4. /\ win.wm \in Nat /\ win.shm \in Nat /\ win.surface \in Nat /\ win.xdg \in Nat
        /\ win.top \in Nat /\ win.pool \in Nat /\ win.buffer \in Nat
    BY DEF FuzzTyped, FuzzerTyped
  <1>5. \A x \in Nat : T[x] # K_NONE => T2[x] = T[x]
    BY <1>1
  <1> QED
    BY <1>3, <1>4, <1>5 DEF K_NONE

(* Whatever the fuzzer picks of a kind is of that kind, and in its list.   *)
PicksKnown(T) == \A kind \in Kinds : \A x \in Picks(kind) : x \in Nat /\ T[x] = kind /\ Listed(x)
(* It is, when the list is right.                                          *)
LEMMA PickedRight ==
  ASSUME FuzzTyped, NEW T, Agree(T)
  PROVE  PicksKnown(T)
  <1>1. ASSUME NEW kind \in Kinds, NEW x \in Picks(kind)
        PROVE  x \in Nat /\ T[x] = kind /\ Listed(x)
    <2>1. PICK i \in Live : x = objects[i].id /\ kind \in {K_NONE, objects[i].kind}
      BY <1>1 DEF Picks
    <2>2. i \in 1..Len(objects) /\ objects[i].id \in Nat /\ objects[i].kind = kind
      BY <2>1, IsKind, ListIds DEF FuzzTyped
    <2> QED
      BY <2>1, <2>2 DEF Agree, ListRight, Listed
  <1> QED
    BY <1>1 DEF PicksKnown

(* The steps of the window that make an object, one by one.                *)
LEMMA CreateSurfaceStep ==
  ASSUME Spent, FuzzTyped, Spent', FuzzTyped', NEW T, NEW n, Matches(T, n), CreateSurface
  PROVE  \E T2, n2 : Matches(T2, n2)'
  <1>1. PICK c \in Picks("compositor"), w \in Picks("wm_base"), s \in Picks("shm") :
          /\ Does(c, 0, <<A("n", next_id)>>)
          /\ win' = [win EXCEPT !.wm = w, !.shm = s, !.surface = next_id, !.xdg = next_id + 1,
                                !.top = next_id + 2]
    BY DEF CreateSurface
  <1>2. /\ phase = "window" /\ step = 1 /\ phase' = "window" /\ step' = 2 /\ next_id' = next_id + 3
        /\ objects' = remember(objects, next_id, "surface") /\ UNCHANGED <<toClient, compositor>>
    BY DEF CreateSurface, Step, Kept
  <1>3. win \in [{"wm", "shm", "surface", "xdg", "top", "pool", "buffer"} -> Nat] /\ IsList(objects)
    BY DEF FuzzTyped, FuzzerTyped
  <1>4. /\ win'.wm = w /\ win'.shm = s
        /\ win'.surface = next_id /\ win'.xdg = next_id + 1 /\ win'.top = next_id + 2
    BY <1>1, <1>3
  <1>5. next_id \in Unborn /\ next_id \in Nat /\ c \in Nat
    BY <1>3, NextUnborn, ListIds
  <1>6. next_id \notin Unborn' /\ next_id < next_id' /\ next_id' >= next_id
    BY <1>2, <1>4, <1>5 DEF Unborn
  <1>7. Unborn' \subseteq Unborn
    BY <1>2, <1>4, <1>5 DEF Unborn, MayBeNew, Nowhere
  <1>8. PICK args : args = <<A("n", next_id)>>
    OBVIOUS
  <1>9. Len(args) = 1 /\ args[1].value = next_id /\ Asked(c, 0, args)
    <2>1. Asked(c, 0, args)
      BY <1>1, <1>8, SendsAsks
    <2> QED
      BY <1>8, <2>1 DEF A
  <1>10. ASSUME There(T), Agree(T)
         PROVE  /\ T[c] = "compositor" /\ Listed(c)
                /\ \A T2 : T2[next_id] = "surface" /\ (\A x \in Nat : x # next_id => T2[x] = T[x]) =>
                             WinRight(T2)'
    <2>1. /\ T[c] = "compositor" /\ Listed(c) /\ w \in Nat /\ s \in Nat
          /\ T[w] = "wm_base" /\ T[s] = "shm"
      BY <1>10, KindsKnown, PickedRight DEF PicksKnown
    <2>2. T[next_id] = K_NONE
      BY <1>5, <1>10 DEF Agree, Fresh
    <2>3. ASSUME NEW T2, T2[next_id] = "surface", \A x \in Nat : x # next_id => T2[x] = T[x]
          PROVE  WinRight(T2)'
      <3>1. T2[w] = "wm_base" /\ T2[s] = "shm"
        BY <2>1, <2>2, <2>3 DEF K_NONE
      <3> QED
        BY <1>2, <1>4, <1>5, <2>3, <3>1 DEF WinRight
    <2> QED
      BY <2>1, <2>3
  <1>11. "surface" \in Kinds /\ 0 \in Nat /\ 0 = 1 - 1 /\ "compositor" # "registry"
    BY KindsKnown
  <1>12. /\ "compositor" \in DOMAIN ifaces /\ 1 \in 1..Len(ifaces["compositor"])
         /\ ifaces["compositor"][1].makes = "surface" /\ ~ifaces["compositor"][1].destroys
    BY WindowTables
  <1>13. MakesNew(T, c, 0, args, "compositor", 1, "surface", next_id)
    BY <1>2, <1>5, <1>6, <1>7, <1>9, <1>10, <1>11, <1>12 DEF MakesNew
  <1> QED
    BY <1>2, <1>5, <1>9, <1>11, <1>13, MakesStep

LEMMA GetXdgSurfaceStep ==
  ASSUME Spent, WinSpent, FuzzTyped, Spent', FuzzTyped', NEW T, NEW n, Matches(T, n), GetXdgSurface
  PROVE  \E T2, n2 : Matches(T2, n2)'
  <1>2. /\ phase = "window" /\ step = 2 /\ phase' = "window" /\ step' = 3 /\ next_id' = next_id
        /\ win' = win /\ UNCHANGED <<toClient, compositor>>
        /\ objects' = remember(objects, win.xdg, "xdg_surface")
        /\ Does(win.wm, 2, <<A("n", win.xdg), A("o", win.surface)>>)
    BY DEF GetXdgSurface, Step, Kept, New
  <1>3. /\ win.wm \in Nat /\ win.shm \in Nat /\ win.surface \in Nat /\ win.xdg \in Nat
        /\ win.top \in Nat /\ win.pool \in Nat /\ win.buffer \in Nat /\ next_id \in Nat
    BY DEF FuzzTyped, FuzzerTyped, Spent
  <1>4. win.xdg \in Unborn /\ win.top = win.xdg + 1 /\ win.top < next_id
    BY <1>2, WindowUnborn DEF WinSpent
  <1>5. win.xdg \notin Unborn' /\ win.xdg < next_id' /\ next_id' >= next_id
    BY <1>2, <1>3, <1>4 DEF Unborn
  <1>6. Unborn' \subseteq Unborn
    BY <1>2 DEF Unborn, MayBeNew, Nowhere
  <1>8. PICK args : args = <<A("n", win.xdg), A("o", win.surface)>>
    OBVIOUS
  <1>9. Len(args) = 2 /\ args[1].value = win.xdg /\ Asked(win.wm, 2, args)
    <2>1. Asked(win.wm, 2, args)
      BY <1>2, <1>8, SendsAsks
    <2> QED
      BY <1>8, <2>1 DEF A
  <1>10. ASSUME There(T), Agree(T)
         PROVE  /\ T[win.wm] = "wm_base" /\ OfClient(win.wm)
                /\ \A T2 : T2[win.xdg] = "xdg_surface" /\ (\A x \in Nat : x # win.xdg => T2[x] = T[x]) =>
                             WinRight(T2)'
    <2>1. T[win.wm] = "wm_base" /\ OfClient(win.wm)
      BY <1>2, <1>10, WinKnown
    <2>2. ASSUME NEW T2, T2[win.xdg] = "xdg_surface", \A x \in Nat : x # win.xdg => T2[x] = T[x]
          PROVE  WinRight(T2)'
      <3>1. T2[win.wm] = "wm_base" /\ T2[win.shm] = "shm" /\ T2[win.surface] = "surface"
        BY <1>2, <1>4, <1>10, <2>2, UnbornIds, WinKeeps
      <3> QED
        BY <1>2, <1>4, <2>2, <3>1 DEF WinRight
    <2> QED
      BY <2>1, <2>2
  <1>11. "xdg_surface" \in Kinds /\ 2 \in Nat /\ 2 = 3 - 1 /\ "wm_base" # "registry"
    BY KindsKnown
  <1>12. /\ "wm_base" \in DOMAIN ifaces /\ 3 \in 1..Len(ifaces["wm_base"])
         /\ ifaces["wm_base"][3].makes = "xdg_surface" /\ ~ifaces["wm_base"][3].destroys
    BY WindowTables
  <1>13. MakesNew(T, win.wm, 2, args, "wm_base", 3, "xdg_surface", win.xdg)
    BY <1>2, <1>3, <1>4, <1>5, <1>6, <1>9, <1>10, <1>11, <1>12 DEF MakesNew
  <1> QED
    BY <1>2, <1>3, <1>5, <1>9, <1>11, <1>13, MakesStep

LEMMA GetToplevelStep ==
  ASSUME Spent, WinSpent, FuzzTyped, Spent', FuzzTyped', NEW T, NEW n, Matches(T, n), GetToplevel
  PROVE  \E T2, n2 : Matches(T2, n2)'
  <1>2. /\ phase = "window" /\ step = 3 /\ phase' = "window" /\ step' = 4 /\ next_id' = next_id
        /\ win' = win /\ UNCHANGED <<toClient, compositor>>
        /\ objects' = remember(objects, win.top, "toplevel")
        /\ Does(win.xdg, 1, <<A("n", win.top)>>)
    BY DEF GetToplevel, Step, Kept, New
  <1>3. /\ win.wm \in Nat /\ win.shm \in Nat /\ win.surface \in Nat /\ win.xdg \in Nat
        /\ win.top \in Nat /\ win.pool \in Nat /\ win.buffer \in Nat /\ next_id \in Nat
    BY DEF FuzzTyped, FuzzerTyped, Spent
  <1>4. win.top \in Unborn /\ win.top = win.xdg + 1 /\ win.top < next_id
    BY <1>2, WindowUnborn DEF WinSpent
  <1>5. win.top \notin Unborn' /\ win.top < next_id' /\ next_id' >= next_id
    BY <1>2, <1>3, <1>4 DEF Unborn
  <1>6. Unborn' \subseteq Unborn
    BY <1>2 DEF Unborn, MayBeNew, Nowhere
  <1>8. PICK args : args = <<A("n", win.top)>>
    OBVIOUS
  <1>9. Len(args) = 1 /\ args[1].value = win.top /\ Asked(win.xdg, 1, args)
    <2>1. Asked(win.xdg, 1, args)
      BY <1>2, <1>8, SendsAsks
    <2> QED
      BY <1>8, <2>1 DEF A
  <1>10. ASSUME There(T), Agree(T)
         PROVE  /\ T[win.xdg] = "xdg_surface" /\ OfClient(win.xdg)
                /\ \A T2 : T2[win.top] = "toplevel" /\ (\A x \in Nat : x # win.top => T2[x] = T[x]) =>
                             WinRight(T2)'
    <2>1. T[win.xdg] = "xdg_surface" /\ OfClient(win.xdg)
      BY <1>2, <1>10, WinKnown
    <2>2. ASSUME NEW T2, T2[win.top] = "toplevel", \A x \in Nat : x # win.top => T2[x] = T[x]
          PROVE  WinRight(T2)'
      <3>1. /\ T2[win.wm] = "wm_base" /\ T2[win.shm] = "shm" /\ T2[win.surface] = "surface"
            /\ T2[win.xdg] = "xdg_surface"
        BY <1>2, <1>4, <1>10, <2>2, UnbornIds, WinKeeps
      <3> QED
        BY <1>2, <1>4, <2>2, <3>1 DEF WinRight
    <2> QED
      BY <2>1, <2>2
  <1>11. "toplevel" \in Kinds /\ 1 \in Nat /\ 1 = 2 - 1 /\ "xdg_surface" # "registry"
    BY KindsKnown
  <1>12. /\ "xdg_surface" \in DOMAIN ifaces /\ 2 \in 1..Len(ifaces["xdg_surface"])
         /\ ifaces["xdg_surface"][2].makes = "toplevel" /\ ~ifaces["xdg_surface"][2].destroys
    BY WindowTables
  <1>13. MakesNew(T, win.xdg, 1, args, "xdg_surface", 2, "toplevel", win.top)
    BY <1>2, <1>3, <1>4, <1>5, <1>6, <1>9, <1>10, <1>11, <1>12 DEF MakesNew
  <1> QED
    BY <1>2, <1>3, <1>5, <1>9, <1>11, <1>13, MakesStep

LEMMA CreatePoolStep ==
  ASSUME Spent, WinSpent, FuzzTyped, Spent', FuzzTyped', NEW T, NEW n, Matches(T, n), CreatePool
  PROVE  \E T2, n2 : Matches(T2, n2)'
  <1>1. PICK args : args = <<A("n", next_id), A("h", 0), U(0)>>
    OBVIOUS
  <1>2. /\ phase = "window" /\ step = 5 /\ phase' = "window" /\ step' = 6 /\ next_id' = next_id + 2
        /\ UNCHANGED <<toClient, compositor>>
        /\ win' = [win EXCEPT !.pool = next_id, !.buffer = next_id + 1]
        /\ objects' = remember(objects, next_id, "pool")
        /\ \E memory : Sends([Request(win.shm, 0, args, memory) EXCEPT !.opening = @ /\ memory])
    BY <1>1 DEF CreatePool, Step, Kept
  <1>3. /\ win.wm \in Nat /\ win.shm \in Nat /\ win.surface \in Nat /\ win.xdg \in Nat
        /\ win.top \in Nat
        /\ win \in [{"wm", "shm", "surface", "xdg", "top", "pool", "buffer"} -> Nat]
    BY DEF FuzzTyped, FuzzerTyped
  <1>a. /\ win'.wm = win.wm /\ win'.shm = win.shm /\ win'.surface = win.surface
        /\ win'.xdg = win.xdg /\ win'.top = win.top
        /\ win'.pool = next_id /\ win'.buffer = next_id + 1
    BY <1>2, <1>3
  <1>4. next_id \in Unborn /\ next_id \in Nat
    BY NextUnborn
  <1>5. next_id \notin Unborn' /\ next_id < next_id' /\ next_id' >= next_id
    BY <1>2, <1>4, <1>a DEF Unborn
  <1>6. Unborn' \subseteq Unborn
    BY <1>2, <1>4, <1>a DEF Unborn, MayBeNew, Nowhere
  <1>9. Len(args) = 3 /\ args[1].value = next_id /\ Asked(win.shm, 0, args)
    <2>1. Asked(win.shm, 0, args)
      BY <1>2, SendsAsks
    <2> QED
      BY <1>1, <2>1 DEF A
  <1>10. ASSUME There(T), Agree(T)
         PROVE  /\ T[win.shm] = "shm" /\ OfClient(win.shm)
                /\ \A T2 : T2[next_id] = "pool" /\ (\A x \in Nat : x # next_id => T2[x] = T[x]) =>
                             WinRight(T2)'
    <2>1. T[win.shm] = "shm" /\ OfClient(win.shm)
      BY <1>2, <1>10, WinKnown
    <2>2. ASSUME NEW T2, T2[next_id] = "pool", \A x \in Nat : x # next_id => T2[x] = T[x]
          PROVE  WinRight(T2)'
      <3>1. /\ T2[win.wm] = "wm_base" /\ T2[win.shm] = "shm" /\ T2[win.surface] = "surface"
            /\ T2[win.xdg] = "xdg_surface" /\ win.top = win.xdg + 1
        BY <1>2, <1>4, <1>10, <2>2, UnbornIds, WinKeeps
      <3> QED
        BY <1>2, <1>a, <2>2, <3>1 DEF WinRight
    <2> QED
      BY <2>1, <2>2
  <1>11. "pool" \in Kinds /\ 0 \in Nat /\ 0 = 1 - 1 /\ "shm" # "registry"
    BY KindsKnown
  <1>12. /\ "shm" \in DOMAIN ifaces /\ 1 \in 1..Len(ifaces["shm"])
         /\ ifaces["shm"][1].makes = "pool" /\ ~ifaces["shm"][1].destroys
    BY WindowTables
  <1>13. MakesNew(T, win.shm, 0, args, "shm", 1, "pool", next_id)
    BY <1>2, <1>3, <1>4, <1>5, <1>6, <1>9, <1>10, <1>11, <1>12 DEF MakesNew
  <1>14. UNCHANGED <<toClient, compositor>> /\ next_id' >= next_id /\ win.shm \in Nat
         /\ Len(args) \in Nat /\ Asked(win.shm, 0, args) /\ 0 \in Nat
    BY <1>2, <1>3, <1>5, <1>9
  <1> QED
    BY <1>13, <1>14, MakesStep

LEMMA CreateBufferStep ==
  ASSUME Spent, WinSpent, FuzzTyped, Spent', FuzzTyped', NEW T, NEW n, Matches(T, n), CreateBuffer
  PROVE  \E T2, n2 : Matches(T2, n2)'
  <1>2. /\ phase = "window" /\ step = 6 /\ phase' = "window" /\ step' = 7 /\ next_id' = next_id
        /\ win' = win /\ UNCHANGED <<toClient, compositor>>
        /\ objects' = remember(objects, win.buffer, "buffer")
        /\ Does(win.pool, 0, <<A("n", win.buffer), U(0), U(0), U(0), U(0), U(1)>>)
    BY DEF CreateBuffer, Step, Kept, New
  <1>3. /\ win.wm \in Nat /\ win.shm \in Nat /\ win.surface \in Nat /\ win.xdg \in Nat
        /\ win.top \in Nat /\ win.pool \in Nat /\ win.buffer \in Nat /\ next_id \in Nat
    BY DEF FuzzTyped, FuzzerTyped, Spent
  <1>4. win.buffer \in Unborn /\ win.buffer < next_id
    BY <1>2, WindowUnborn DEF WinSpent
  <1>5. win.buffer \notin Unborn' /\ win.buffer < next_id' /\ next_id' >= next_id
    BY <1>2, <1>3, <1>4 DEF Unborn
  <1>6. Unborn' \subseteq Unborn
    BY <1>2 DEF Unborn, MayBeNew, Nowhere
  <1>8. PICK args : args = <<A("n", win.buffer), U(0), U(0), U(0), U(0), U(1)>>
    OBVIOUS
  <1>9. Len(args) = 6 /\ args[1].value = win.buffer /\ Asked(win.pool, 0, args)
    <2>1. Asked(win.pool, 0, args)
      BY <1>2, <1>8, SendsAsks
    <2> QED
      BY <1>8, <2>1 DEF A
  <1>10. ASSUME There(T), Agree(T)
         PROVE  /\ T[win.pool] = "pool" /\ OfClient(win.pool)
                /\ \A T2 : T2[win.buffer] = "buffer" /\ (\A x \in Nat : x # win.buffer => T2[x] = T[x]) =>
                             WinRight(T2)'
    <2>1. T[win.pool] = "pool" /\ OfClient(win.pool)
      BY <1>2, <1>10, WinKnown
    <2>2. ASSUME NEW T2, T2[win.buffer] = "buffer", \A x \in Nat : x # win.buffer => T2[x] = T[x]
          PROVE  WinRight(T2)'
      <3>1. /\ T2[win.wm] = "wm_base" /\ T2[win.shm] = "shm" /\ T2[win.surface] = "surface"
            /\ T2[win.xdg] = "xdg_surface" /\ win.top = win.xdg + 1 /\ T2[win.pool] = "pool"
        BY <1>2, <1>4, <1>10, <2>2, UnbornIds, WinKeeps
      <3> QED
        BY <1>2, <1>4, <2>2, <3>1 DEF WinRight
    <2> QED
      BY <2>1, <2>2
  <1>11. "buffer" \in Kinds /\ 0 \in Nat /\ 0 = 1 - 1 /\ "pool" # "registry"
    BY KindsKnown
  <1>12. /\ "pool" \in DOMAIN ifaces /\ 1 \in 1..Len(ifaces["pool"])
         /\ ifaces["pool"][1].makes = "buffer" /\ ~ifaces["pool"][1].destroys
    BY WindowTables
  <1>13. MakesNew(T, win.pool, 0, args, "pool", 1, "buffer", win.buffer)
    BY <1>2, <1>3, <1>4, <1>5, <1>6, <1>9, <1>10, <1>11, <1>12 DEF MakesNew
  <1> QED
    BY <1>2, <1>3, <1>5, <1>9, <1>11, <1>13, MakesStep

(* The window's requests that make nothing.                                *)
WinStays(T) == WinRight(T) => WinRight(T)'
(* The window's ids stay right when a step changes none of them.           *)
LEMMA WinMoves ==
  ASSUME NEW T, phase = "window", step > 1, step \in Nat, win' = win,
         phase' # "window" \/ (step' \in Nat /\ (step' <= 2 \/ step > 2) /\ (step' <= 5 \/ step > 5) /\ (step' <= 6 \/ step > 6))
  PROVE  WinStays(T)
  BY DEF WinStays, WinRight

(* And nothing is unborn that was not.                                     *)
LEMMA UnbornStays ==
  ASSUME Spent, win' = win, next_id' = next_id,
         phase' # "window" \/ step' \notin {2, 3, 6}
  PROVE  Unborn' \subseteq Unborn
  BY DEF Unborn, MayBeNew, Nowhere

(* The steps of the window that make none.                                 *)
LEMMA AckConfigureStep ==
  ASSUME Spent, WinSpent, FuzzTyped, Spent', FuzzTyped', NEW T, NEW n, Matches(T, n), AckConfigure
  PROVE  \E T2, n2 : Matches(T2, n2)'
  <1>1. /\ phase = "window" /\ step = 4 /\ phase' = "window" /\ step' = 5 /\ next_id' = next_id
        /\ win' = win /\ objects' = objects /\ UNCHANGED <<toClient, compositor>>
        /\ Does(win.xdg, 4, <<U(last_serial)>>)
    BY DEF AckConfigure, Step, Kept
  <1>2. win.xdg \in Nat /\ next_id \in Nat
    BY DEF FuzzTyped, FuzzerTyped, Spent
  <1>3. PICK args : args = <<U(last_serial)>>
    OBVIOUS
  <1>4. Len(args) \in Nat /\ Asked(win.xdg, 4, args)
    BY <1>1, <1>3, SendsAsks
  <1>5. WinStays(T) /\ Unborn' \subseteq Unborn
    BY <1>1, WinMoves, UnbornStays
  <1>6. There(T) /\ Agree(T) => T[win.xdg] = "xdg_surface" /\ OfClient(win.xdg)
    BY <1>1, WinKnown
  <1>7. There(T) /\ Agree(T) => WinRight(T)'
    BY <1>5 DEF Agree, WinStays
  <1>8. /\ "xdg_surface" \in DOMAIN ifaces /\ 5 \in 1..Len(ifaces["xdg_surface"])
        /\ ifaces["xdg_surface"][5].makes = K_NONE /\ ~ifaces["xdg_surface"][5].destroys
    BY WindowTables
  <1>9. MakesNone(T, win.xdg, 4, "xdg_surface", 5)
    BY <1>1, <1>5, <1>6, <1>7, <1>8 DEF MakesNone
  <1>10. UNCHANGED <<toClient, compositor>> /\ next_id' >= next_id /\ 4 \in Nat
    BY <1>1, <1>2
  <1> QED
    BY <1>2, <1>4, <1>9, <1>10, KeepsStep

LEMMA AttachStep ==
  ASSUME Spent, WinSpent, FuzzTyped, Spent', FuzzTyped', NEW T, NEW n, Matches(T, n), Attach
  PROVE  \E T2, n2 : Matches(T2, n2)'
  <1>1. /\ phase = "window" /\ step \in {7, 11} /\ phase' = "window" /\ step' = step + 1
        /\ next_id' = next_id
        /\ win' = win /\ objects' = objects /\ UNCHANGED <<toClient, compositor>>
        /\ Does(win.surface, 1, <<A("O", win.buffer), U(0), U(0)>>)
    BY DEF Attach, Kept
  <1>2. win.surface \in Nat /\ next_id \in Nat
    BY DEF FuzzTyped, FuzzerTyped, Spent
  <1>3. PICK args : args = <<A("O", win.buffer), U(0), U(0)>>
    OBVIOUS
  <1>4. Len(args) \in Nat /\ Asked(win.surface, 1, args)
    BY <1>1, <1>3, SendsAsks
  <1>5. WinStays(T) /\ Unborn' \subseteq Unborn
    BY <1>1, WinMoves, UnbornStays
  <1>6. There(T) /\ Agree(T) => T[win.surface] = "surface" /\ OfClient(win.surface)
    BY <1>1, WinKnown
  <1>7. There(T) /\ Agree(T) => WinRight(T)'
    BY <1>5 DEF Agree, WinStays
  <1>8. /\ "surface" \in DOMAIN ifaces /\ 2 \in 1..Len(ifaces["surface"])
        /\ ifaces["surface"][2].makes = K_NONE /\ ~ifaces["surface"][2].destroys
    BY WindowTables
  <1>9. MakesNone(T, win.surface, 1, "surface", 2)
    BY <1>1, <1>5, <1>6, <1>7, <1>8 DEF MakesNone
  <1>10. UNCHANGED <<toClient, compositor>> /\ next_id' >= next_id /\ 1 \in Nat
    BY <1>1, <1>2
  <1> QED
    BY <1>2, <1>4, <1>9, <1>10, KeepsStep

LEMMA CommitStep ==
  ASSUME Spent, WinSpent, FuzzTyped, Spent', FuzzTyped', NEW T, NEW n, Matches(T, n), Commit
  PROVE  \E T2, n2 : Matches(T2, n2)'
  <1>1. /\ phase = "window" /\ step \in {8, 12} /\ next_id' = next_id
        /\ phase' \in {"loop", "over"} \/ step' = 9
        /\ win' = win /\ objects' = objects /\ UNCHANGED <<toClient, compositor>>
        /\ Does(win.surface, 6, << >>)
    BY DEF Commit, Kept, WindowOver
  <1>2. win.surface \in Nat /\ next_id \in Nat
    BY DEF FuzzTyped, FuzzerTyped, Spent
  <1>3. PICK args : args = << >>
    OBVIOUS
  <1>4. Len(args) \in Nat /\ Asked(win.surface, 6, args)
    BY <1>1, <1>3, SendsAsks
  <1>5. WinStays(T) /\ Unborn' \subseteq Unborn
    BY <1>1, WinMoves, UnbornStays
  <1>6. There(T) /\ Agree(T) => T[win.surface] = "surface" /\ OfClient(win.surface)
    BY <1>1, WinKnown
  <1>7. There(T) /\ Agree(T) => WinRight(T)'
    BY <1>5 DEF Agree, WinStays
  <1>8. /\ "surface" \in DOMAIN ifaces /\ 7 \in 1..Len(ifaces["surface"])
        /\ ifaces["surface"][7].makes = K_NONE /\ ~ifaces["surface"][7].destroys
    BY WindowTables
  <1>9. MakesNone(T, win.surface, 6, "surface", 7)
    BY <1>1, <1>5, <1>6, <1>7, <1>8 DEF MakesNone
  <1>10. UNCHANGED <<toClient, compositor>> /\ next_id' >= next_id /\ 6 \in Nat
    BY <1>1, <1>2
  <1> QED
    BY <1>2, <1>4, <1>9, <1>10, KeepsStep

LEMMA DestroyBufferStep ==
  ASSUME Spent, WinSpent, FuzzTyped, Spent', FuzzTyped', NEW T, NEW n, Matches(T, n), DestroyBuffer
  PROVE  \E T2, n2 : Matches(T2, n2)'
  <1>1. /\ phase = "window" /\ step = 9 /\ phase' = "window" /\ step' \in {10, 11} /\ next_id' = next_id
        /\ win' = win /\ objects' = forget(objects, win.buffer) /\ UNCHANGED <<toClient, compositor>>
        /\ Does(win.buffer, 0, << >>)
    BY DEF DestroyBuffer, Step, Kept
  <1>2. win.buffer \in Nat /\ next_id \in Nat
    BY DEF FuzzTyped, FuzzerTyped, Spent
  <1>3. PICK args : args = << >>
    OBVIOUS
  <1>4. Len(args) \in Nat /\ Asked(win.buffer, 0, args)
    BY <1>1, <1>3, SendsAsks
  <1>5. WinStays(T) /\ Unborn' \subseteq Unborn
    BY <1>1, WinMoves, UnbornStays
  <1>6. There(T) /\ Agree(T) => T[win.buffer] = "buffer" /\ OfClient(win.buffer)
    BY <1>1, WinKnown
  <1>7. There(T) /\ Agree(T) => WinRight(T)'
    BY <1>5 DEF Agree, WinStays
  <1>8. /\ "buffer" \in DOMAIN ifaces /\ 1 \in 1..Len(ifaces["buffer"])
        /\ ifaces["buffer"][1].makes = K_NONE /\ ifaces["buffer"][1].destroys
    BY WindowTables
  <1>9. MakesNone(T, win.buffer, 0, "buffer", 1)
    BY <1>1, <1>5, <1>6, <1>7, <1>8 DEF MakesNone
  <1>10. UNCHANGED <<toClient, compositor>> /\ next_id' >= next_id /\ 0 \in Nat
    BY <1>1, <1>2
  <1> QED
    BY <1>2, <1>4, <1>9, <1>10, KeepsStep

LEMMA DestroyPoolStep ==
  ASSUME Spent, WinSpent, FuzzTyped, Spent', FuzzTyped', NEW T, NEW n, Matches(T, n), DestroyPool
  PROVE  \E T2, n2 : Matches(T2, n2)'
  <1>1. /\ phase = "window" /\ step = 10 /\ phase' = "window" /\ step' = 11 /\ next_id' = next_id
        /\ win' = win /\ objects' = forget(objects, win.pool) /\ UNCHANGED <<toClient, compositor>>
        /\ Does(win.pool, 1, << >>)
    BY DEF DestroyPool, Step, Kept
  <1>2. win.pool \in Nat /\ next_id \in Nat
    BY DEF FuzzTyped, FuzzerTyped, Spent
  <1>3. PICK args : args = << >>
    OBVIOUS
  <1>4. Len(args) \in Nat /\ Asked(win.pool, 1, args)
    BY <1>1, <1>3, SendsAsks
  <1>5. WinStays(T) /\ Unborn' \subseteq Unborn
    BY <1>1, WinMoves, UnbornStays
  <1>6. There(T) /\ Agree(T) => T[win.pool] = "pool" /\ OfClient(win.pool)
    BY <1>1, WinKnown
  <1>7. There(T) /\ Agree(T) => WinRight(T)'
    BY <1>5 DEF Agree, WinStays
  <1>8. /\ "pool" \in DOMAIN ifaces /\ 2 \in 1..Len(ifaces["pool"])
        /\ ifaces["pool"][2].makes = K_NONE /\ ifaces["pool"][2].destroys
    BY WindowTables
  <1>9. MakesNone(T, win.pool, 1, "pool", 2)
    BY <1>1, <1>5, <1>6, <1>7, <1>8 DEF MakesNone
  <1>10. UNCHANGED <<toClient, compositor>> /\ next_id' >= next_id /\ 1 \in Nat
    BY <1>1, <1>2
  <1> QED
    BY <1>2, <1>4, <1>9, <1>10, KeepsStep

(* A bind of a global makes an object of its kind, or is to be refused.    *)
LEMMA BindStep ==
  ASSUME Spent, FuzzTyped, Spent', FuzzTyped', NEW T, NEW n, Matches(T, n),
         NEW kind \in Kinds, NEW version, bind_global(kind, version), UNCHANGED <<toClient, compositor>>,
         phase # "window", phase' = phase
  PROVE  \E T2, n2 : Matches(T2, n2)'
  <1>1. PICK args : args = <<U(global_name[kind]), A("s", kind), U(version), A("n", next_id)>>
    OBVIOUS
  <1>2. Asked(2, 0, args)
    <2>1. Asked(2, 0, <<U(global_name[kind]), A("s", kind), U(version), A("n", next_id)>>)
      BY SendsAsks
    <2> QED
      BY <1>1, <2>1
  <1>3. Len(args) = 4 /\ args[2].value = kind /\ args[4].value = next_id
    BY <1>1 DEF A
  <1>4. next_id' = next_id + 1 /\ objects' = remember(objects, next_id, kind)
    BY DEF bind_global
  <1>5. next_id \in Unborn /\ next_id \in Nat
    BY NextUnborn
  <1>6. next_id \notin Unborn' /\ next_id < next_id' /\ next_id' >= next_id
    BY <1>4, <1>5 DEF Unborn
  <1>7. Unborn' \subseteq Unborn
    BY <1>4, <1>5 DEF Unborn, MayBeNew, Nowhere
  <1>8. ASSUME NEW m, m.object = 2, m.opcode = 0, m.args = args, There(T), Agree(T)
        PROVE  SentRight(T, m)
    <2>1. T[m.object] = "registry" /\ OfClient(m.object)
      <3>1. T[2] = "registry"
        BY <1>8 DEF There
      <3>2. OfClient(2)
        BY <1>8, <3>1, ClientIds DEF K_NONE
      <3> QED
        BY <1>8, <3>1, <3>2
    <2>2. /\ \A x : Creates(T, m, x) <=> x = next_id
          /\ ~Destroys(T, m) /\ KindMade(T, m) = kind
      BY <1>3, <1>8, <2>1, RegistryMeans
    <2>3. \A j \in 1..Len(objects') :
            IsNew(objects'[j], next_id, kind) \/ (j \in 1..Len(objects) /\ Carried(objects[j], objects'[j], T, m))
      BY <1>4, <2>2, ListCarried
    <2>4. \A T2 : WinRight(T2)'
      BY DEF WinRight
    <2>5. \E T2 : Fitting(T, T2, m)
      BY <1>5, <1>6, <1>7, <1>8, <2>1, <2>2, <2>3, <2>4, CreatesFits
    <2> QED
      BY <2>1, <2>5 DEF SentRight, Aimed, K_NONE
  <1> QED
    BY <1>2, <1>3, <1>6, <1>8, AskedStep

(* So do the binds of the opening and the legal ones of the loop.          *)
LEMMA BindSteps ==
  ASSUME Spent, FuzzTyped, Spent', FuzzTyped', NEW T, NEW n, Matches(T, n), BindNext \/ legal_bind
  PROVE  \E T2, n2 : Matches(T2, n2)'
  <1>1. CASE BindNext
    <2>1. phase = "binds" /\ step \in 1..7
      BY <1>1 DEF BindNext, Spent, globals
    <2>2. globals[step] \in Kinds
      BY <2>1, KindsKnown
    <2>3. phase' = phase /\ UNCHANGED <<toClient, compositor>>
      BY <1>1 DEF BindNext
    <2>4. CASE global_name[globals[step]] = 0
      <3>1. UNCHANGED <<toServer, objects, next_id>>
        BY <1>1, <2>4 DEF BindNext
      <3>2. Unborn' \subseteq Unborn
        BY <2>1, <2>3, <3>1 DEF Unborn, MayBeNew, Nowhere
      <3>3. WinRight(T)'
        BY <2>1, <2>3 DEF WinRight
      <3>4. Matches(T, n)'
        BY <2>3, <3>1, <3>2, <3>3, QuietStep
      <3> QED
        BY <3>4
    <2>5. CASE global_name[globals[step]] # 0
      <3>1. \E v : bind_global(globals[step], v)
        BY <1>1, <2>5 DEF BindNext
      <3> QED
        BY <2>1, <2>2, <2>3, <3>1, BindStep
    <2> QED
      BY <2>4, <2>5
  <1>2. CASE legal_bind
    <2>1. phase = "loop" /\ phase' = phase /\ UNCHANGED <<toClient, compositor>>
      BY <1>2 DEF legal_bind, Counted, LoopGoesOn
    <2>2. \E k \in Kinds : \E v : bind_global(k, v)
      BY <1>2 DEF legal_bind
    <2> QED
      BY <2>1, <2>2, BindStep
  <1> QED
    BY <1>1, <1>2

(* The steps of the fuzzer that send nothing.                              *)
LEMMA QuietSteps ==
  ASSUME Spent, FuzzTyped, NEW T, NEW n, Matches(T, n),
         \/ AwaitGlobals \/ Bound \/ WindowSkipped \/ AwaitSerial \/ LeftWhole \/ WindowCut
         \/ AnotherWindow \/ LoopEnds
  PROVE  \E T2, n2 : Matches(T2, n2)'
  <1>1. UNCHANGED <<toServer, toClient, compositor, objects, next_id, win>>
    BY DEF AwaitGlobals, Bound, WindowSkipped, AwaitSerial, LeftWhole, WindowCut, AnotherWindow,
           LoopEnds, WindowOver
  <1>2. phase' # "window" \/ (phase' = "window" /\ step' = 1) \/ (phase' = "window" /\ UNCHANGED <<phase, step>>)
    BY DEF AwaitGlobals, Bound, WindowSkipped, AwaitSerial, LeftWhole, WindowCut, AnotherWindow,
           LoopEnds, WindowOver
  <1>3. Unborn' \subseteq Unborn
    BY <1>1, <1>2 DEF Unborn, MayBeNew, Nowhere
  <1>4. WinRight(T) => WinRight(T)'
    BY <1>1, <1>2 DEF WinRight
  <1>5. Matches(T, n)'
    BY <1>1, <1>3, <1>4, QuietStep
  <1> QED
    BY <1>5

(* A request from the tables: picked objects are known, its new id is      *)
(* next_id, or one that a compositor refuses, unless it went astray.       *)
LEMMA RequestSteps ==
  ASSUME Spent, FuzzTyped, Spent', FuzzTyped', NEW T, NEW n, Matches(T, n), request, ~astray'
  PROVE  \E T2, n2 : Matches(T2, n2)'
  <1>1. /\ phase = "loop" /\ phase' = "loop" /\ UNCHANGED <<toClient, compositor>> /\ IsList(objects)
    BY DEF request, Counted, LoopGoesOn, FuzzTyped
  <1>2. PICK i \in Live : /\ objects[i].kind # "registry"
                          /\ \E op \in 1..Len(ReqsOf(objects[i].kind)) :
                               \E made, whole, objs, u :
                                 /\ made \in NewIds(ReqsOf(objects[i].kind)[op])
                                 /\ MakeRequest(i, ReqsOf(objects[i].kind)[op], op, made, whole, objs, u)
    BY SMTT(30) DEF request
  <1>3. PICK op \in 1..Len(ReqsOf(objects[i].kind)) :
            \E made, whole, objs, u :
              /\ made \in NewIds(ReqsOf(objects[i].kind)[op])
              /\ MakeRequest(i, ReqsOf(objects[i].kind)[op], op, made, whole, objs, u)
    BY <1>2
  <1>4. PICK made, whole, objs, u :
              /\ made \in NewIds(ReqsOf(objects[i].kind)[op])
              /\ MakeRequest(i, ReqsOf(objects[i].kind)[op], op, made, whole, objs, u)
    BY <1>3
  <1>5. PICK kind : kind = objects[i].kind
    OBVIOUS
  <1>6. PICK r : r = ReqsOf(kind)[op]
    OBVIOUS
  <1>7. PICK object : object = objects[i].id
    OBVIOUS
  <1>8. PICK args : args = Filled(r, made, objs, u)
    OBVIOUS
  <1>9. /\ made \in NewIds(r) /\ Sends(Request(object, op - 1, args, whole))
        /\ objects' = Noted(object, r, made) /\ Takes(made) /\ made \notin InUse
    BY <1>4, <1>5, <1>6, <1>7, <1>8 DEF MakeRequest
  <1>10. kind \in DOMAIN ifaces /\ op \in 1..Len(ifaces[kind]) /\ r = ifaces[kind][op] /\ op \in Nat
    <2>1. op \in 1..Len(ReqsOf(kind))
      BY <1>5
    <2>2. kind \in DOMAIN ifaces
      BY <2>1, ReqsTyped
    <2>3. ReqsOf(kind) = ifaces[kind]
      BY <2>2 DEF ReqsOf
    <2> QED
      BY <1>6, <2>1, <2>2, <2>3
  <1>11. OneNew(kind, r) /\ kind # "registry"
    BY <1>2, <1>5, <1>10, TablesRight
  <1>12. Len(args) = Len(r.sig) /\ Len(args) \in Nat /\ (r.makes # K_NONE => 1 <= Len(args) /\ args[1].value = made)
    <2>1. Len(r.sig) \in Nat /\ (r.makes # K_NONE => 1 <= Len(r.sig) /\ r.sig[1] = "n")
      BY <1>11 DEF OneNew
    <2>2. /\ Len(args) = Len(r.sig)
          /\ \A j \in 1..Len(r.sig) : r.sig[j] = "n" => args[j].value = made
      BY <1>8, <2>1, FilledRight
    <2> QED
      BY <2>1, <2>2
  <1>13. /\ object \in Nat /\ op - 1 \in Nat /\ Asked(object, op - 1, args)
    BY <1>1, <1>2, <1>7, <1>9, <1>10, ListIds, SendsAsks
  <1>14. There(T) /\ Agree(T) => T[object] = kind /\ (Listed(object) \/ OfClient(object))
    BY <1>1, <1>2, <1>5, <1>7, ListIds DEF Agree, ListRight, Listed
  <1>15. \A T2 : WinRight(T2)'
    BY <1>1 DEF WinRight
  <1>16. next_id \in Unborn /\ next_id \in Nat /\ next_id # 0 /\ next_id' >= next_id
    <2>1. next_id \in Unborn /\ next_id \in Nat /\ next_id # 0
      BY NextUnborn DEF Spent
    <2>2. next_id' = next_id \/ next_id' = next_id + 1
      BY <1>9 DEF Takes
    <2> QED
      BY <2>1, <2>2
  <1>17. Unborn' \subseteq Unborn
    BY <1>1, <1>16 DEF Unborn, MayBeNew, Nowhere, Spent
  <1>18. CASE r.makes = K_NONE
    <2>1. objects' = IF r.destroys THEN forget(objects, object) ELSE objects
      BY <1>9, <1>18 DEF Noted
    <2>2. MakesNone(T, object, op - 1, kind, op)
      BY <1>10, <1>11, <1>14, <1>15, <1>17, <1>18, <2>1 DEF MakesNone
    <2> QED
      BY <1>1, <1>12, <1>13, <1>16, <2>2, KeepsStep
  <1>19. CASE r.makes # K_NONE /\ made = next_id
    <2>1. r.makes \in Kinds /\ ~r.destroys
      BY <1>11, <1>19 DEF OneNew
    <2>2. objects' = remember(objects, made, r.makes)
      BY <1>9, <1>16, <1>19, <2>1 DEF Noted
    <2>3. next_id' = next_id + 1
      BY <1>9, <1>19 DEF Takes
    <2>4. made \in Unborn /\ made \notin Unborn' /\ made < next_id'
      BY <1>1, <1>16, <1>19, <2>3 DEF Unborn
    <2>5. MakesNew(T, object, op - 1, args, kind, op, r.makes, made)
      BY <1>10, <1>11, <1>12, <1>14, <1>15, <1>17, <1>19, <2>1, <2>2, <2>4 DEF MakesNew
    <2> QED
      BY <1>1, <1>12, <1>13, <1>16, <2>5, MakesStep
  <1>20. CASE r.makes # K_NONE /\ made # next_id
    <2>1. made \in {0, Nowhere, ServerHalf + 1}
      BY <1>9, <1>20 DEF NewIds, new_id_arg
    <2>2. made \in Nat \ MayBeNew
      BY <1>1, <2>1, NewIdsTyped DEF MayBeNew, Nowhere
    <2>3. ASSUME NEW m, m.object = object, m.opcode = op - 1, m.args = args, There(T), Agree(T)
          PROVE  SentRight(T, m)
      <3>1. T[m.object] = kind
        BY <1>14, <2>3
      <3>2. Creates(T, m, made)
        <4>1. \A x : Creates(T, m, x) <=> r.makes # K_NONE /\ x = m.args[1].value
          BY <1>10, <1>11, <1>12, <2>3, <3>1, RequestMeans
        <4> QED
          BY <1>12, <1>20, <2>3, <4>1
      <3>3. Refusable(T, m)
        BY <2>2, <3>2 DEF Refusable
      <3>4. Aimed(T, m)
        BY <1>10, <3>1, IsKind DEF Aimed
      <3> QED
        BY <3>3, <3>4 DEF SentRight
    <2> QED
      BY <1>1, <1>12, <1>13, <1>16, <2>3, AskedStep
  <1> QED
    BY <1>18, <1>19, <1>20

(* An opcode of no request, or an object that is none: it makes nothing    *)
(* that could be new, and takes away nothing of the compositor's.          *)
LEMMA OfferMeans ==
  ASSUME NEW T, NEW m, T[m.object] = "offer", m.opcode \in {0, 5, 30}
  PROVE  ~Destroys(T, m)
  <1>1. Protocol["offer"] = Core(offer_reqs)
    <2>1. "offer" \in Kinds /\ ReqsOf("offer") = offer_reqs
      BY KindsKnown DEF ReqsOf, ifaces
    <2> QED
      BY <2>1 DEF Protocol
  <1>2. /\ Len(offer_reqs) = 5 /\ ~offer_reqs[1].destroys
        /\ \A op \in 1..5 : Len(offer_reqs[op].sig) \in Nat
    BY DEF offer_reqs, Plain, Req, DESTRUCTOR
  <1>3. Len(Core(offer_reqs)) = 5 /\ (Core(offer_reqs)[1].destroys = offer_reqs[1].destroys)
    BY <1>2, CoreRight, SMTT(30)
  <1>4. ~Core(offer_reqs)[1].destroys
    BY <1>2, <1>3
  <1>5. CASE m.opcode = 0
    BY <1>1, <1>4, <1>5 DEF Destroys, Form
  <1>6. CASE m.opcode \in {5, 30}
    BY <1>1, <1>3, <1>6 DEF Destroys, Knows
  <1> QED
    BY <1>5, <1>6

(* Four zeroes, sent to what is known or cannot be: no row takes them for  *)
(* an id that may be new, so they are refused or change nothing.           *)
LEMMA NumbersStep ==
  ASSUME Spent, FuzzTyped, Spent', FuzzTyped', NEW T, NEW n, Matches(T, n),
         NEW object \in Nat, NEW opcode \in Nat, NEW args, args = <<U(0), U(0), U(0), U(0)>>,
         Asked(object, opcode, args),
         UNCHANGED <<toClient, compositor, objects, next_id>>, phase = "loop", phase' = "loop",
         There(T) /\ Agree(T) =>
           /\ T[object] # K_NONE \/ object \in {0, Nowhere}
           /\ Listed(object) \/ OfClient(object),
         OfClient(object) \/ opcode \in {0, 5, 30}
  PROVE  \E T2, n2 : Matches(T2, n2)'
  <1>1. Len(args) = 4 /\ \A i \in 1..4 : args[i].value = 0
    BY DEF U, A
  <1>2. next_id' >= next_id
    BY DEF Spent
  <1>3. Unborn' \subseteq Unborn /\ WinRight(T)'
    BY DEF Unborn, MayBeNew, Nowhere, WinRight
  <1>4. ASSUME NEW m, m.object = object, m.opcode = opcode, m.args = args, There(T), Agree(T)
        PROVE  SentRight(T, m)
    <2>1. Aimed(T, m)
      BY <1>4 DEF Aimed
    <2>2. \A x : Creates(T, m, x) => x = 0
      BY <1>1, <1>4 DEF Creates
    <2>3. CASE \E x : Creates(T, m, x)
      <3>1. Creates(T, m, 0)
        BY <2>2, <2>3
      <3>2. 0 \in Nat \ MayBeNew
        BY DEF MayBeNew
      <3> QED
        BY <2>1, <3>1, <3>2 DEF SentRight, Refusable
    <2>4. CASE ~\E x : Creates(T, m, x)
      <3>1. Destroys(T, m) => OfClient(object)
        <4>1. CASE T[object] = "offer"
          BY <1>4, <4>1, OfferMeans
        <4>2. CASE T[object] = K_NONE
          BY <1>4, <4>2, IsKind DEF Destroys, Knows
        <4>3. CASE T[object] # "offer" /\ T[object] # K_NONE
          BY <1>4, <4>3, ClientIds
        <4> QED
          BY <4>1, <4>2, <4>3
      <3>2. \A j \in 1..Len(objects') :
              j \in 1..Len(objects) /\ Carried(objects[j], objects'[j], T, m)
        BY <1>4, <3>1, ListCarried
      <3>3. \E T2 : Fitting(T, T2, m)
        BY <1>3, <1>4, <2>4, <3>2, NothingFits
      <3> QED
        BY <2>1, <3>3 DEF SentRight
    <2> QED
      BY <2>3, <2>4
  <1> QED
    BY <1>1, <1>2, <1>4, AskedStep

(* So a request to an unknown object or with an unknown opcode is          *)
(* harmless, if it is not refused.                                         *)
LEMMA RequestUnknownStep ==
  ASSUME Spent, FuzzTyped, Spent', FuzzTyped', NEW T, NEW n, Matches(T, n), RequestUnknown
  PROVE  \E T2, n2 : Matches(T2, n2)'
  <1>1. PICK args : args = <<U(0), U(0), U(0), U(0)>>
    OBVIOUS
  <1>2. /\ phase = "loop" /\ phase' = "loop" /\ UNCHANGED <<toClient, compositor, objects, next_id>>
        /\ IsList(objects)
    BY DEF RequestUnknown, Counted, LoopGoesOn, FuzzTyped
  <1>3. \/ \E i \in Live, far \in BOOLEAN :
             Does(objects[i].id, IF far THEN FarOpcode ELSE Len(ReqsOf(objects[i].kind)), args)
        \/ \E id \in pick_dead \cup {0, Nowhere} : Does(id, 0, args)
    BY <1>1, Zenon DEF RequestUnknown
  <1>4. CASE \E i \in Live, far \in BOOLEAN :
               Does(objects[i].id, IF far THEN FarOpcode ELSE Len(ReqsOf(objects[i].kind)), args)
    <2>1. PICK i \in Live : \E far \in BOOLEAN :
               Does(objects[i].id, IF far THEN FarOpcode ELSE Len(ReqsOf(objects[i].kind)), args)
      BY <1>4
    <2>2. PICK opcode : /\ opcode \in {30, Len(ReqsOf(objects[i].kind))}
                        /\ Does(objects[i].id, opcode, args)
      BY <2>1 DEF FarOpcode
    <2>3. PICK object, kind : object = objects[i].id /\ kind = objects[i].kind
      OBVIOUS
    <2>4. opcode \in Nat /\ object \in Nat /\ kind \in Kinds /\ i \in 1..Len(objects)
      BY <1>2, <2>2, <2>3, ListIds, ReqsTyped
    <2>5. Asked(object, opcode, args)
      BY <2>2, <2>3, SendsAsks
    <2>6. There(T) /\ Agree(T) => T[object] = kind /\ Listed(object)
      BY <2>3, <2>4 DEF Agree, ListRight, Listed
    <2>7. CASE There(T) /\ Agree(T)
      <3>1. OfClient(object) \/ opcode \in {0, 5, 30}
        <4>1. CASE kind = "offer"
          <5>1. Len(ReqsOf("offer")) = 5
            BY DEF ReqsOf, ifaces, offer_reqs
          <5> QED
            BY <2>2, <2>3, <4>1, <5>1
        <4>2. CASE kind # "offer"
          BY <2>4, <2>6, <2>7, <4>2, ClientIds, IsKind
        <4> QED
          BY <4>1, <4>2
      <3>2. There(T) /\ Agree(T) =>
              /\ T[object] # K_NONE \/ object \in {0, Nowhere}
              /\ Listed(object) \/ OfClient(object)
        BY <2>4, <2>6, IsKind
      <3> QED
        BY <1>1, <1>2, <2>4, <2>5, <3>1, <3>2, NumbersStep
    <2>8. CASE ~(There(T) /\ Agree(T))
      <3>1. Len(args) \in Nat /\ next_id' >= next_id
        BY <1>1, <1>2 DEF Spent
      <3> QED
        BY <1>2, <2>4, <2>5, <2>8, <3>1, AskedStep
    <2> QED
      BY <2>7, <2>8
  <1>5. CASE \E id \in pick_dead \cup {0, Nowhere} : Does(id, 0, args)
    <2>1. PICK id \in pick_dead \cup {0, Nowhere} : Does(id, 0, args)
      BY <1>5
    <2>2. id \in Nat /\ Asked(id, 0, args)
      BY <1>2, <2>1, ListIds, NewIdsTyped, SendsAsks
    <2>3. There(T) /\ Agree(T) =>
            /\ T[id] # K_NONE \/ id \in {0, Nowhere}
            /\ Listed(id) \/ OfClient(id)
      <3>1. CASE id \in {0, Nowhere}
        <4>1. 0 < ServerHalf /\ Nowhere < ServerHalf
          BY FuzzAssumption DEF Spent, Nowhere
        <4> QED
          BY <3>1, <4>1 DEF OfClient
      <3>2. CASE id \notin {0, Nowhere}
        <4>1. PICK i \in 1..Len(objects) : id = objects[i].id
          BY <2>1, <3>2 DEF pick_dead
        <4>2. objects[i].kind \in Kinds
          BY <1>2, ListIds
        <4> QED
          BY <4>1, <4>2, IsKind DEF Agree, ListRight, Listed
      <3> QED
        BY <3>1, <3>2
    <2> QED
      BY <1>1, <1>2, <2>2, <2>3, NumbersStep
  <1> QED
    BY <1>3, <1>4, <1>5

(* And a bind of a guessed name, kind and version makes an object of the   *)
(* kind it names.                                                          *)
LEMMA BindGuessedStep ==
  ASSUME Spent, FuzzTyped, Spent', FuzzTyped', NEW T, NEW n, Matches(T, n), BindGuessed, ~astray'
  PROVE  \E T2, n2 : Matches(T2, n2)'
  <1>1. /\ phase = "loop" /\ phase' = "loop" /\ UNCHANGED <<toClient, compositor>> /\ IsList(objects)
    BY DEF BindGuessed, Counted, LoopGoesOn, FuzzTyped
  <1>2. PICK i \in Live, k \in Kinds, made \in new_id_arg, makes \in {K_NONE, "surface"}, version \in {1, 7} :
          /\ objects[i].kind = "registry"
          /\ \E name : Does(objects[i].id, 0, <<U(name), A("s", k), U(version), A("n", made)>>)
          /\ objects' = IF made # 0 /\ makes # K_NONE THEN remember(objects, made, makes) ELSE objects
          /\ astray' = (astray \/ made \in InUse \/ (made # 0 /\ makes # K_NONE))
          /\ Takes(made)
    BY DEF BindGuessed
  <1>3. PICK name : Does(objects[i].id, 0, <<U(name), A("s", k), U(version), A("n", made)>>)
    BY <1>2
  <1>4. PICK args : args = <<U(name), A("s", k), U(version), A("n", made)>>
    OBVIOUS
  <1>5. Len(args) = 4 /\ args[2].value = k /\ args[4].value = made
    BY <1>4 DEF A
  <1>6. PICK object : object = objects[i].id
    OBVIOUS
  <1>7. object \in Nat /\ Asked(object, 0, args) /\ i \in 1..Len(objects)
    BY <1>1, <1>3, <1>4, <1>6, ListIds, SendsAsks
  <1>8. made \notin InUse /\ objects' = objects /\ Takes(made)
    BY <1>2
  <1>9. next_id \in Unborn /\ next_id \in Nat /\ next_id' >= next_id
    <2>1. next_id \in Unborn /\ next_id \in Nat
      BY NextUnborn
    <2>2. next_id' = next_id \/ next_id' = next_id + 1
      BY <1>8 DEF Takes
    <2> QED
      BY <2>1, <2>2
  <1>10. Unborn' \subseteq Unborn
    BY <1>1, <1>9 DEF Unborn, MayBeNew, Nowhere, Spent
  <1>11. ASSUME NEW m, m.object = object, m.opcode = 0, m.args = args, There(T), Agree(T)
         PROVE  SentRight(T, m)
    <2>1. T[m.object] = "registry" /\ Listed(m.object)
      BY <1>2, <1>6, <1>7, <1>11 DEF Agree, ListRight, Listed
    <2>2. /\ \A x : Creates(T, m, x) <=> x = made
          /\ ~Destroys(T, m) /\ KindMade(T, m) = k
      BY <1>5, <1>11, <2>1, RegistryMeans
    <2>3. Aimed(T, m)
      BY <2>1 DEF Aimed, K_NONE
    <2>4. CASE made = next_id
      <3>1. next_id' = next_id + 1
        BY <1>8, <2>4 DEF Takes
      <3>2. made \in Unborn /\ made \notin Unborn' /\ made < next_id'
        BY <1>1, <1>9, <2>4, <3>1 DEF Unborn
      <3>3. \A j \in 1..Len(objects') :
              IsNew(objects'[j], made, k) \/ (j \in 1..Len(objects) /\ Carried(objects[j], objects'[j], T, m))
        BY <1>8, <2>2, ListCarried
      <3>4. \A T2 : WinRight(T2)'
        BY <1>1 DEF WinRight
      <3>5. \E T2 : Fitting(T, T2, m)
        BY <1>10, <1>11, <2>1, <2>2, <3>2, <3>3, <3>4, CreatesFits
      <3> QED
        BY <2>3, <3>5 DEF SentRight
    <2>5. CASE made # next_id
      <3>1. made \in {0, Nowhere, ServerHalf + 1}
        BY <1>2, <1>8, <2>5 DEF new_id_arg
      <3>2. made \in Nat \ MayBeNew
        BY <1>1, <3>1, NewIdsTyped DEF MayBeNew, Nowhere
      <3> QED
        BY <2>2, <2>3, <3>2 DEF SentRight, Refusable
    <2> QED
      BY <2>4, <2>5
  <1>12. UNCHANGED <<toClient, compositor>> /\ Len(args) \in Nat /\ 0 \in Nat
    BY <1>1, <1>5
  <1> QED
    BY <1>7, <1>9, <1>11, <1>12, AskedStep

(* What every step keeps.                                                  *)
StepRight == Spent /\ WinSpent /\ FuzzTyped /\ StepInv

(* Once gone astray or refused it stays so.                                *)
LEMMA StaysAstray ==
  ASSUME FuzzNext
  PROVE  /\ ~astray' => ~astray
         /\ refused' = "not" => refused = "not"
  <1>1. CASE ReadEvents \/ AwaitGlobals \/ BindNext \/ Bound
    BY <1>1 DEF ReadEvents, HandleGlobal, HandleConfigure, HandleDeleteId, HandleDataOffer,
                HandleRest, HandleEvent, AwaitGlobals, BindNext, Bound, compositor
  <1>2. CASE Window
    <2>1. UNCHANGED <<astray, compositor>>
      BY <1>2 DEF Window, WindowSkipped, CreateSurface, GetXdgSurface, GetToplevel, AwaitSerial,
                  AckConfigure, CreatePool, CreateBuffer, Attach, Commit, LeftWhole, DestroyBuffer,
                  DestroyPool, WindowCut, Kept
    <2> QED
      BY <2>1 DEF compositor
  <1>3. CASE AnotherWindow \/ LoopEnds
    BY <1>3 DEF AnotherWindow, LoopEnds, compositor
  <1>4. CASE legal_bind \/ RequestUnknown
    BY <1>4 DEF legal_bind, RequestUnknown, Counted, compositor
  <1>5. CASE request
    <2>1. UNCHANGED compositor /\ \E i, made : astray' = (astray \/ made \in InUse)
      BY <1>5 DEF request, MakeRequest, Counted
    <2> QED
      BY <2>1 DEF compositor
  <1>6. CASE BindGuessed
    <2>1. UNCHANGED compositor
          /\ \E made, makes : astray' = (astray \/ made \in InUse \/ (made # 0 /\ makes # K_NONE))
      BY <1>6 DEF BindGuessed, Counted
    <2> QED
      BY <2>1 DEF compositor
  <1>7. CASE Compositor
    BY <1>7 DEF Compositor, TakeRequest, TellGlobal, FrameShown, OfferData, fuzzer
  <1> QED
    BY <1>1, <1>2, <1>3, <1>4, <1>5, <1>6, <1>7 DEF FuzzNext, Loop

(* Each step of the window keeps the two in step.                          *)
LEMMA WindowSteps ==
  ASSUME Spent, WinSpent, FuzzTyped, Spent', FuzzTyped', NEW T, NEW n, Matches(T, n), Window
  PROVE  \E T2, n2 : Matches(T2, n2)'
  <1>1. CASE CreateSurface
    BY <1>1, CreateSurfaceStep
  <1>2. CASE GetXdgSurface
    BY <1>2, GetXdgSurfaceStep
  <1>3. CASE GetToplevel
    BY <1>3, GetToplevelStep
  <1>4. CASE AckConfigure
    BY <1>4, AckConfigureStep
  <1>5. CASE CreatePool
    BY <1>5, CreatePoolStep
  <1>6. CASE CreateBuffer
    BY <1>6, CreateBufferStep
  <1>7. CASE Attach
    BY <1>7, AttachStep
  <1>8. CASE Commit
    BY <1>8, CommitStep
  <1>9. CASE DestroyBuffer
    BY <1>9, DestroyBufferStep
  <1>10. CASE DestroyPool
    BY <1>10, DestroyPoolStep
  <1>11. CASE WindowSkipped \/ AwaitSerial \/ LeftWhole \/ WindowCut
    BY <1>11, QuietSteps
  <1> QED
    BY <1>1, <1>2, <1>3, <1>4, <1>5, <1>6, <1>7, <1>8, <1>9, <1>10, <1>11 DEF Window

(* So does every step.                                                     *)
LEMMA StepsInStep ==
  ASSUME StepRight, FuzzNext
  PROVE  StepRight'
  <1>1. Spent /\ WinSpent /\ FuzzTyped /\ Spent' /\ FuzzTyped' /\ WinSpent'
    BY SpentStep, FuzzTypedStep, WinSpentStep DEF StepRight
  <1>2. ASSUME ~astray', refused' = "not"
        PROVE  \E T2, n2 : Matches(T2, n2)'
    <2>1. ~astray /\ refused = "not"
      BY <1>2, StaysAstray
    <2>2. PICK T : \E n : Matches(T, n)
      BY <2>1 DEF StepRight, StepInv
    <2>3. PICK n : Matches(T, n)
      BY <2>2
    <2>4. CASE ReadEvents
      <3>1. Matches(T, n)'
        BY <1>1, <2>3, <2>4, ReadSteps
      <3> QED
        BY <3>1
    <2>5. CASE AwaitGlobals \/ Bound \/ AnotherWindow \/ LoopEnds
      BY <1>1, <2>3, <2>5, QuietSteps
    <2>6. CASE BindNext \/ legal_bind
      BY <1>1, <2>3, <2>6, BindSteps
    <2>7. CASE Window
      BY <1>1, <2>3, <2>7, WindowSteps
    <2>8. CASE request
      BY <1>1, <1>2, <2>3, <2>8, RequestSteps
    <2>9. CASE RequestUnknown
      BY <1>1, <2>3, <2>9, RequestUnknownStep
    <2>10. CASE BindGuessed
      BY <1>1, <1>2, <2>3, <2>10, BindGuessedStep
    <2>11. CASE Compositor
      BY <1>1, <1>2, <2>3, <2>11, CompositorSteps
    <2> QED
      BY <2>4, <2>5, <2>6, <2>7, <2>8, <2>9, <2>10, <2>11 DEF FuzzNext, Loop
  <1> QED
    BY <1>1, <1>2 DEF StepRight, StepInv

LEMMA StepsStutter ==
  ASSUME StepRight, UNCHANGED fuzzVars
  PROVE  StepRight'
  <1>1. Spent'
    BY DEF StepRight, Spent, Nowhere, fuzzVars, fuzzer
  <1>2. WinSpent'
    BY DEF StepRight, WinSpent, fuzzVars, fuzzer
  <1>3. FuzzTyped'
    BY DEF StepRight, FuzzTyped, IsList, IsSeq, Requests, Events, FuzzerTyped, CompositorTyped,
           fuzzVars, fuzzer, compositor
  <1>4. ASSUME ~astray', refused' = "not"
        PROVE  \E T2, n2 : Matches(T2, n2)'
    <2>1. UNCHANGED <<toServer, toClient, compositor, objects, next_id, phase, step, win>>
          /\ ~astray /\ refused = "not"
      BY <1>4 DEF fuzzVars, fuzzer, compositor
    <2>2. PICK T : \E n : Matches(T, n)
      BY <2>1 DEF StepRight, StepInv
    <2>3. PICK n : Matches(T, n)
      BY <2>2
    <2>4. Unborn' \subseteq Unborn /\ (WinRight(T) => WinRight(T)')
      BY <2>1 DEF Unborn, MayBeNew, Nowhere, WinRight
    <2>5. Matches(T, n)'
      BY <2>1, <2>3, <2>4, QuietStep
    <2> QED
      BY <2>5
  <1> QED
    BY <1>1, <1>2, <1>3, <1>4 DEF StepRight, StepInv

LEMMA StepsBegin == FuzzInit => StepRight
  <1> SUFFICES ASSUME FuzzInit
               PROVE  StepRight
    OBVIOUS
  <1>1. Spent /\ WinSpent /\ FuzzTyped
    BY SpentInit, FuzzTypedInit
  <1>2. PICK T : T = [x \in Nat |-> IF x = 1 THEN "display" ELSE IF x = 2 THEN "registry"
                                      ELSE IF x = 3 THEN "callback" ELSE K_NONE]
    OBVIOUS
  <1>3. {"display", "registry", "callback"} \subseteq Kinds /\ K_NONE \notin Kinds
    BY AllKinds DEF K_NONE
  <1>4. /\ T \in [Nat -> Kinds \cup {K_NONE}]
        /\ T[1] = "display" /\ T[2] = "registry" /\ T[3] = "callback" /\ T[0] = K_NONE
        /\ \A x \in Nat : x >= 4 => T[x] = K_NONE
    BY <1>2, <1>3
  <1>5. 20 <= Nowhere + 4 /\ Nowhere \in Int /\ ServerHalf \in Nat /\ ServerHalf = Nowhere + 1 /\ Nowhere > 16
    BY <1>1, FuzzAssumption DEF Spent, Nowhere
  <1>6. PICK first : first = [object |-> 1, opcode |-> 1, args |-> <<A("n", 2)>>, whole |-> TRUE,
                              opening |-> TRUE]
    OBVIOUS
  <1>7. PICK second : second = [object |-> 1, opcode |-> 0, args |-> <<A("n", 3)>>, whole |-> TRUE,
                                opening |-> TRUE]
    OBVIOUS
  <1>8. /\ toServer = <<first, second>> /\ toClient = << >>
        /\ next_id = 4 /\ highest = 1 /\ offers = 0 /\ phase = "globals"
        /\ resources = [i \in {1} |-> "display"]
        /\ objects = <<Entry(1, "display", FALSE), Entry(2, "registry", FALSE)>>
    BY <1>6, <1>7 DEF FuzzInit
  <1>9. /\ Len(toServer) = 2 /\ toServer[1] = first /\ toServer[2] = second
        /\ Len(toClient) = 0 /\ Len(objects) = 2
        /\ objects[1].id = 1 /\ objects[1].kind = "display" /\ ~objects[1].dead
        /\ objects[2].id = 2 /\ objects[2].kind = "registry" /\ ~objects[2].dead
    BY <1>8 DEF Entry
  (* What the two requests are.                                            *)
  <1>10. /\ "display" \in DOMAIN ifaces /\ Len(ifaces["display"]) = 2
         /\ ifaces["display"][2].makes = "registry" /\ ~ifaces["display"][2].destroys
         /\ ifaces["display"][1].makes = "callback" /\ ~ifaces["display"][1].destroys
    BY DEF ifaces, display_reqs, Makes, Req
  <1>11. /\ \A x : Creates(T, first, x) <=> x = 2
         /\ ~Destroys(T, first) /\ KindMade(T, first) = "registry"
    <2>1. /\ first.object = 1 /\ first.opcode = 2 - 1 /\ Len(first.args) = 1
          /\ first.args[1].value = 2
      BY <1>6 DEF A
    <2>2. PICK r : r = ifaces["display"][2]
      OBVIOUS
    <2>3. /\ \A x : Creates(T, first, x) <=> r.makes # K_NONE /\ x = first.args[1].value
          /\ Destroys(T, first) <=> r.destroys
          /\ r.makes # K_NONE => KindMade(T, first) = r.makes
      BY <1>4, <1>10, <2>1, <2>2, RequestMeans
    <2> QED
      BY <1>3, <1>10, <2>1, <2>2, <2>3
  <1>12. /\ \A x : Creates(T, second, x) <=> x = 3
         /\ ~Destroys(T, second) /\ KindMade(T, second) = "callback"
    <2>1. /\ second.object = 1 /\ second.opcode = 1 - 1 /\ Len(second.args) = 1
          /\ second.args[1].value = 3
      BY <1>7 DEF A
    <2>2. PICK r : r = ifaces["display"][1]
      OBVIOUS
    <2>3. /\ \A x : Creates(T, second, x) <=> r.makes # K_NONE /\ x = second.args[1].value
          /\ Destroys(T, second) <=> r.destroys
          /\ r.makes # K_NONE => KindMade(T, second) = r.makes
      BY <1>4, <1>10, <2>1, <2>2, RequestMeans, SMTT(30)
    <2> QED
      BY <1>3, <1>10, <2>1, <2>2, <2>3
  <1>13. first.object = 1 /\ second.object = 1 /\ DOMAIN resources = {1} /\ resources[1] = "display"
    BY <1>6, <1>7, <1>8
  <1>14. There(T)
    <2>1. \A x \in Nat : x >= ServerHalf =>
            T[x] = IF x \in (ServerHalf + 1)..(ServerHalf + offers) THEN "offer" ELSE K_NONE
      BY <1>4, <1>5, <1>8
    <2>2. T[Nowhere] = K_NONE
      BY <1>4, <1>5
    <2> QED
      BY <1>3, <1>4, <1>8, <1>13, <2>1, <2>2 DEF There
  <1>15. \A i \in 1..Len(toServer) : i = 1 \/ i = 2
    BY <1>9
  <1>16. 2 \in MayBeNew /\ 3 \in MayBeNew
    BY <1>5 DEF MayBeNew
  <1>17. Sound(T, 2)
    BY <1>3, <1>4, <1>8, <1>9, <1>11, <1>12, <1>13, <1>15, <1>16 DEF Sound
  <1>18. IsMade(T, 2)
    BY <1>9, <1>11 DEF IsMade
  <1>19. Agree(T)
    <2>1. Fresh(T)
      BY <1>4, <1>5, <1>8 DEF Fresh, Unborn, MayBeNew
    <2>2. ListRight(T)
      BY <1>4, <1>9 DEF ListRight
    <2>3. MadeOnce(T)
      BY <1>9, <1>11, <1>12, <1>13, <1>15 DEF MadeOnce
    <2>4. GivenBack(T) /\ OffersRight
      BY <1>9 DEF GivenBack, OffersRight
    <2>5. AliveRight(T)
      BY <1>5, <1>9, <1>13, <1>18 DEF AliveRight, OfClient
    <2>6. DeadRight(T)
      BY <1>9 DEF DeadRight
    <2>7. WinRight(T)
      BY <1>8 DEF WinRight
    <2> QED
      BY <2>1, <2>2, <2>3, <2>4, <2>5, <2>6, <2>7 DEF Agree
  <1>20. Matches(T, 2)
    BY <1>9, <1>14, <1>17, <1>19 DEF Matches
  <1> QED
    BY <1>1, <1>20 DEF StepRight, StepInv

(* When nothing is on its way the two lists are the same.                  *)
LEMMA MatchesSame == FuzzTyped /\ StepInv => SameObjects
  <1> SUFFICES ASSUME FuzzTyped, StepInv, refused = "not", toServer = << >>, ~astray,
                      NEW i \in 1..Len(objects)
               PROVE  IF objects[i].dead THEN objects[i].id \notin DOMAIN resources
                                         ELSE Has(objects[i].id, objects[i].kind) \/ OnItsWay(objects[i].id)
    BY DEF SameObjects
  <1>1. PICK T : \E n : Matches(T, n)
    BY DEF StepInv
  <1>2. PICK n : Matches(T, n)
    BY <1>1
  <1>3. Len(toServer) = 0 /\ There(T) /\ Agree(T)
    BY <1>2 DEF Matches
  <1>4. \A x : ~IsMade(T, x) /\ ~IsDoomed(T, x)
    BY <1>3 DEF IsMade, IsDoomed
  <1>5. PICK x : x = objects[i].id
    OBVIOUS
  <1>6. T[x] = objects[i].kind
    BY <1>3, <1>5 DEF Agree, ListRight
  <1>7. CASE objects[i].dead
    BY <1>3, <1>4, <1>7 DEF Agree, DeadRight
  <1>8. CASE ~objects[i].dead
    <2>1. x \in DOMAIN resources \/ OnItsWay(x)
      BY <1>3, <1>4, <1>5, <1>8 DEF Agree, AliveRight
    <2>2. x \in DOMAIN resources => resources[x] = objects[i].kind
      BY <1>3, <1>6 DEF There
    <2> QED
      BY <1>5, <1>8, <2>1, <2>2 DEF Has
  <1> QED
    BY <1>7, <1>8

(* When nothing is on its way either way, nothing was refused and no id in *)
(* use was taken for a new one, the fuzzer's list and the compositor's     *)
(* objects are the same (wlfuzz.c:216-234, 396): what the list has alive   *)
(* is there and of the kind it says, and what it has dead is not; for      *)
(* every number of turns, every offer of globals and every socket's delay. *)
THEOREM SameObjectsHolds == FuzzSpec => []SameObjects
  <1>1. FuzzInit => StepRight
    BY StepsBegin
  <1>2. StepRight /\ [FuzzNext]_fuzzVars => StepRight'
    BY StepsInStep, StepsStutter
  <1>3. StepRight => SameObjects
    BY MatchesSame DEF StepRight
  <1> QED
    BY <1>1, <1>2, <1>3, PTL DEF FuzzSpec
=============================================================================
