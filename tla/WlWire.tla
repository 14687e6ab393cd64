-------------------------------- MODULE WlWire --------------------------------
(***************************************************************************)
(* How toolchain/wlfuzz.c talks to the compositor: send_bytes, which sends *)
(* a message in the pieces the socket takes and reads when it takes none,  *)
(* read_events, which puts events together from the pieces they come in,   *)
(* and the loop of main around them with its last look for what the        *)
(* compositor said.  What the messages are is in WlFuzz.                   *)
(*                                                                         *)
(* The compositor is external.  It takes requests as they come and says    *)
(* what it likes; what it says it writes before it takes any more, so that *)
(* a client that does not read stops it.  It may stop for good, and it may *)
(* close the connection, having said why or not.                           *)
(***************************************************************************)
EXTENDS Integers, Sequences

CONSTANTS
  Total,     \* how many messages there are to send
  Lengths,   \* how long one is
  Header,    \* how long the header of an event is, `object` and `word`
  Sizes,     \* how long an event is
  Room,      \* how much a socket holds, each way
  INBUF,     \* the size of inbuf
  TRIES,     \* how often a message is tried again
  DRAINS,    \* how often the end looks for what was said last
  MaxEvents  \* bound: how many events the compositor sends

(* An event fits inbuf: libwayland's own buffers are smaller than it.      *)
ASSUME WireAssumption ==
  /\ Total \in Nat /\ Lengths \subseteq Nat \ {0}
  /\ Header \in Nat \ {0} /\ INBUF \in Nat /\ Sizes \subseteq Header..INBUF
  /\ Room \in Nat \ {0} /\ TRIES \in Nat /\ DRAINS \in Nat \ {0} /\ MaxEvents \in Nat

VARIABLES
  pc,         \* "message", "sending", "retry", "reading", "parsing", "end", "said"
  back,       \* where read_events returns to: "retry", "message", "end"
  sent, looks,        \* messages sent, and how often the end has looked
  fd,         \* whether the message has a descriptor with it
  len, done, tries,   \* of send_bytes
  closed, stopped, told_error,
  inlen,      \* bytes in inbuf
  base,       \* how many of the bytes received were before them
  acted,      \* the events acted on, in order
  stream,     \* what the client has sent: for each byte [of, at, fd], the message it
              \* is of, where in it, and whether a descriptor goes with it
  taken,      \* how many of these bytes the compositor has taken
  ends,       \* where each event there is ends in what it says
  written,    \* how many bytes of them it has written
  state,      \* the compositor: "well", "stuck", "leaving", "gone"
  why         \* the event it said why in, 0 if in none

client == <<pc, back, sent, looks, fd, len, done, tries, closed, stopped, told_error, inlen, base,
            acted>>
server == <<taken, ends, written, state, why>>
vars == <<client, stream, server>>

Init ==
  /\ pc = "message" /\ back = "message" /\ sent = 0 /\ looks = 0
  /\ fd = FALSE /\ len = 0 /\ done = 0 /\ tries = 0
  /\ closed = FALSE /\ stopped = FALSE /\ told_error = FALSE
  /\ inlen = 0 /\ base = 0 /\ acted = << >>
  /\ stream = << >> /\ taken = 0
  /\ ends = << >> /\ written = 0 /\ state = "well" /\ why = 0

EndOf(k) == IF k = 0 THEN 0 ELSE ends[k]
SizeOf(k) == EndOf(k) - EndOf(k - 1)
Owed == EndOf(Len(ends)) - written
Waiting == written - (base + inlen)
Behind == Len(stream) - taken

-----------------------------------------------------------------------------
(* main: another message, while there is anybody to send it to.            *)
Message ==
  /\ pc = "message" /\ sent < Total /\ ~closed /\ ~stopped
  /\ len' \in Lengths /\ fd' \in BOOLEAN
  /\ done' = 0 /\ tries' = 0
  /\ pc' = "sending"
  /\ UNCHANGED <<back, sent, looks, closed, stopped, told_error, inlen, base, acted, stream,
                 server>>
Enough ==
  /\ pc = "message" /\ (sent >= Total \/ closed \/ stopped)
  /\ pc' = "end"
  /\ UNCHANGED <<back, sent, looks, fd, len, done, tries, closed, stopped, told_error, inlen,
                 base, acted, stream, server>>

(* sendmsg takes a part: the descriptor goes with the first, and the rest  *)
(* of the message after it.                                                *)
This == [number |-> sent + 1, len |-> len, fd |-> fd]
Bytes(n, d) == [i \in 1..n |-> [of |-> This, at |-> done + i - 1, fd |-> d /\ i = 1]]
SendOnce ==
  /\ pc = "sending" /\ done < len /\ ~closed /\ state # "gone"
  /\ \E n \in 1..(len - done) :
       /\ n <= Room - Behind
       /\ stream' = stream \o Bytes(n, fd /\ done = 0)
  /\ done' = len
  /\ UNCHANGED <<pc, back, sent, looks, fd, len, tries, closed, stopped, told_error, inlen, base,
                 acted, server>>
Send ==
  /\ pc = "sending" /\ done < len /\ ~closed /\ state # "gone"
  /\ \E n \in 1..(len - done) :
       /\ n <= Room - Behind
       /\ stream' = stream \o Bytes(n, fd /\ done = 0)
       /\ done' = done + n
  /\ UNCHANGED <<pc, back, sent, looks, fd, len, tries, closed, stopped, told_error, inlen, base,
                 acted, server>>

(* EAGAIN: what the compositor has said is read before the next try.       *)
Full == pc = "sending" /\ done < len /\ ~closed /\ state # "gone" /\ Behind = Room
AgainUnread ==
  /\ Full
  /\ pc' = "retry"
  /\ UNCHANGED <<back, sent, looks, fd, len, done, tries, closed, stopped, told_error, inlen, base,
                 acted, stream, server>>
Again ==
  /\ Full
  /\ pc' = "reading" /\ back' = "retry"
  /\ UNCHANGED <<sent, looks, fd, len, done, tries, closed, stopped, told_error, inlen, base,
                 acted, stream, server>>

(* There is a millisecond between two tries: a compositor that is not      *)
(* stuck does in it what it can without the client.  After a try too many  *)
(* the message is given up.                                                *)
CanGoOn == (Owed > 0 /\ Waiting < Room) \/ (Owed = 0 /\ Behind > 0) \/ state = "leaving"
RetryForever ==
  /\ pc = "retry"
  /\ state \in {"stuck", "gone"} \/ ~CanGoOn
  /\ pc' = "sending"
  /\ UNCHANGED <<back, sent, looks, fd, len, done, tries, closed, stopped, told_error, inlen,
                 base, acted, stream, server>>
Retry ==
  /\ pc = "retry"
  /\ state \in {"stuck", "gone"} \/ ~CanGoOn
  /\ tries' = tries + 1
  /\ stopped' = (tries' > TRIES)
  /\ pc' = IF stopped' THEN "end" ELSE "sending"
  /\ UNCHANGED <<back, sent, looks, fd, len, done, closed, told_error, inlen, base, acted, stream,
                 server>>

(* sendmsg fails: nobody takes anything any more.                          *)
Refused ==
  /\ pc = "sending" /\ done < len /\ ~closed /\ state = "gone"
  /\ stopped' = TRUE
  /\ pc' = "end"
  /\ UNCHANGED <<back, sent, looks, fd, len, done, tries, closed, told_error, inlen, base, acted,
                 stream, server>>

SendReturns ==
  /\ pc = "sending" /\ (done = len \/ closed)
  /\ IF closed THEN pc' = "end" /\ UNCHANGED <<back, sent>>
               ELSE pc' = "reading" /\ back' = "message" /\ sent' = sent + 1
  /\ UNCHANGED <<looks, fd, len, done, tries, closed, stopped, told_error, inlen, base, acted,
                 stream, server>>

-----------------------------------------------------------------------------
(* read_events: as much as is there and there is room for.                 *)
Receive ==
  /\ pc = "reading" /\ ~closed /\ Waiting > 0
  /\ LET kept == IF inlen = INBUF THEN 0 ELSE inlen
     IN \E n \in 1..Waiting :
          /\ n <= INBUF - kept
          /\ inlen' = kept + n
          /\ base' = base + (inlen - kept)
  /\ pc' = "parsing"
  /\ UNCHANGED <<back, sent, looks, fd, len, done, tries, closed, stopped, told_error, acted,
                 stream, server>>
ReceiveEnd ==
  /\ pc = "reading" /\ ~closed /\ Waiting = 0
  /\ closed' = (state = "gone")
  /\ pc' = back
  /\ UNCHANGED <<back, sent, looks, fd, len, done, tries, stopped, told_error, inlen, base, acted,
                 stream, server>>
(* The event inbuf begins with, if it begins where one does.               *)
Here == {k \in 1..Len(ends) : EndOf(k - 1) = base}
ParseHasty ==
  /\ pc = "parsing" /\ inlen >= Header
  /\ \E k \in Here :
       LET n == IF inlen < SizeOf(k) THEN inlen ELSE SizeOf(k)
       IN /\ acted' = Append(acted, k)
          /\ told_error' = (told_error \/ k = why)
          /\ base' = base + n /\ inlen' = inlen - n
  /\ UNCHANGED <<pc, back, sent, looks, fd, len, done, tries, closed, stopped, stream, server>>
Parse ==
  /\ pc = "parsing" /\ inlen >= Header
  /\ \E k \in Here :
       /\ inlen >= SizeOf(k)
       /\ acted' = Append(acted, k)
       /\ told_error' = (told_error \/ k = why)
       /\ base' = base + SizeOf(k) /\ inlen' = inlen - SizeOf(k)
  /\ UNCHANGED <<pc, back, sent, looks, fd, len, done, tries, closed, stopped, stream, server>>
(* Less than the whole of it is kept for the next time.  A size less than  *)
(* a header's would be the end of the connection, and is never met: inbuf  *)
(* begins where an event does.                                             *)
ParseWaits ==
  /\ pc = "parsing"
  /\ inlen < Header \/ \E k \in Here : inlen < SizeOf(k)
  /\ pc' = "reading"
  /\ UNCHANGED <<back, sent, looks, fd, len, done, tries, closed, stopped, told_error, inlen, base,
                 acted, stream, server>>

(* main: the last looks, until the end of what was said.                   *)
Unlooked == pc = "end" /\ looks < DRAINS /\ ~closed /\ ~stopped
Looks == pc = "end" /\ looks < DRAINS /\ ~closed
LastLook ==
  /\ Looks
  /\ looks' = looks + 1
  /\ pc' = "reading" /\ back' = "end"
  /\ UNCHANGED <<sent, fd, len, done, tries, closed, stopped, told_error, inlen, base, acted,
                 stream, server>>
Says ==
  /\ pc = "end" /\ ~Looks
  /\ pc' = "said"
  /\ UNCHANGED <<back, sent, looks, fd, len, done, tries, closed, stopped, told_error, inlen,
                 base, acted, stream, server>>

Client ==
  \/ Message \/ Enough \/ Send \/ Again \/ Retry \/ Refused \/ SendReturns
  \/ Receive \/ ReceiveEnd \/ Parse \/ ParseWaits \/ LastLook \/ Says

-----------------------------------------------------------------------------
(* The compositor. *)
Take ==
  /\ state = "well" /\ Owed = 0
  /\ \E n \in 1..Behind : taken' = taken + n
  /\ UNCHANGED <<client, stream, ends, written, state, why>>
Tell ==
  /\ state = "well" /\ Len(ends) < MaxEvents
  /\ \E z \in Sizes : ends' = Append(ends, EndOf(Len(ends)) + z)
  /\ UNCHANGED <<client, stream, taken, written, state, why>>
TellWhy ==
  /\ state = "well" /\ Len(ends) < MaxEvents
  /\ \E z \in Sizes : ends' = Append(ends, EndOf(Len(ends)) + z)
  /\ why' = Len(ends')
  /\ state' = "leaving"
  /\ UNCHANGED <<client, stream, taken, written>>
Write ==
  /\ state \in {"well", "leaving"}
  /\ \E n \in 1..Owed : n <= Room - Waiting /\ written' = written + n
  /\ UNCHANGED <<client, stream, taken, ends, state, why>>
(* It leaves having written it if there is room, and with the rest of it   *)
(* unsaid if there is not.                                                 *)
Leave ==
  /\ state = "well" \/ (state = "leaving" /\ (Owed = 0 \/ Waiting = Room))
  /\ state' = "gone"
  /\ UNCHANGED <<client, stream, taken, ends, written, why>>
Stick ==
  /\ state = "well" /\ state' = "stuck"
  /\ UNCHANGED <<client, stream, taken, ends, written, why>>

Next == Client \/ Take \/ Tell \/ TellWhy \/ Write \/ Leave \/ Stick

(* The client runs, and a compositor that is not stuck takes what there is *)
(* and writes what it has to say.                                          *)
Fairness ==
  /\ WF_vars(Client)
  /\ WF_vars(Take) /\ WF_vars(Write) /\ WF_vars(Leave /\ state = "leaving")

Spec == Init /\ [][Next]_vars
FairSpec == Spec /\ Fairness

-----------------------------------------------------------------------------
(* Events are acted on in the order they were sent, each once and when all *)
(* of it is there, whatever pieces they come in; and none that is there is *)
(* left when the socket is empty.                                          *)
InStep ==
  /\ \A i \in 1..Len(acted) : acted[i] = i
  /\ base = EndOf(Len(acted)) /\ base + inlen <= written
  /\ pc \in {"message", "sending", "said"} /\ Len(acted) < Len(ends)
       => inlen < SizeOf(Len(acted) + 1)

(* What the compositor receives is the messages one after the other from   *)
(* the first byte of the first, whatever pieces they were taken in: none   *)
(* begins before all of the one before it is there, only the last can want *)
(* bytes, and that not once it is taken for sent.  A descriptor is with    *)
(* the first byte of the message it belongs to, and with no other.         *)
Follows(b, a) ==
  IF a.at + 1 < a.of.len THEN b.of = a.of /\ b.at = a.at + 1
                         ELSE b.of.number = a.of.number + 1 /\ b.at = 0
WholeUpTo(k) ==
  IF Len(stream) = 0
  THEN k = 0
  ELSE LET b == stream[Len(stream)] IN b.of.number = k /\ b.at + 1 = b.of.len
ArrivesWhole ==
  /\ Len(stream) > 0 => stream[1].of.number = 1 /\ stream[1].at = 0
  /\ \A i \in 2..Len(stream) : Follows(stream[i], stream[i - 1])
  /\ \A i \in 1..Len(stream) : stream[i].fd = (stream[i].of.fd /\ stream[i].at = 0)
  /\ pc = "message" => WholeUpTo(sent)

(* A compositor that said why, and could say all of it, is quoted: also    *)
(* when it had gone while a message was being sent.                        *)
SaysWhy ==
  pc = "said" /\ why # 0 /\ Owed = 0 /\ (closed \/ stopped) => told_error

(* A run ends, and takes the compositor for one that takes nothing only if *)
(* it is stuck or has gone: never because each waited for the other to     *)
(* read.                                                                   *)
EndsForCause == <>(pc = "said" /\ (stopped => state \in {"stuck", "leaving", "gone"}))
=============================================================================
