-------------------------------- MODULE WlClip --------------------------------
(***************************************************************************)
(* toolchain/wlclip.c once each half has its window and its device (see    *)
(* WlWindow): the copier takes a selection and answers for it, the paster  *)
(* waits to be offered one, hands over the write end of a pipe and reads   *)
(* until nobody holds a write end any more.                                *)
(*                                                                         *)
(* Both selections are here, the clipboard and the primary one, since the  *)
(* program does the same with either; only the clipboard's device is also  *)
(* told of what is dragged over the window.  The compositor and one other  *)
(* client, which may take the selection, clear it or drag, are external.   *)
(***************************************************************************)
EXTENDS Integers, Sequences, FiniteSets

CONSTANTS
  PAYLOAD,   \* how many bytes the copier has
  OtherLen,  \* how many the other client has
  ROOM,      \* how many the paster has room for, one less than `in`
  TRIES,     \* how often it looks for a selection
  MaxTakes   \* bound: how often the other client does something

ASSUME ClipAssumption ==
  /\ PAYLOAD \in Nat \ {0} /\ ROOM \in Nat /\ PAYLOAD <= ROOM
  /\ OtherLen \in Nat /\ TRIES \in Nat \ {0} /\ MaxTakes \in Nat

VARIABLES
  kind,      \* `primary`: which selection
  copier,    \* "setting", "serving", "writing", "closing", "gone"
  paster,    \* "looking", "roundtrip", "resting", "asking",
             \* "flushing", "closing", "reading", "pasted", "gave up"
  tries, have_selection, offered_mime,
  offer,     \* `offer` or `poffer`: the last one named, 0 for none
  asked,     \* the offer it asked for what is behind it
  got,       \* bytes read
  holders,   \* who holds a write end of the pipe
  content,   \* bytes in the pipe
  toServer,  \* requests of the copier on their way
  fromPaste, \* requests of the paster on their way
  toCopier,  \* events on their way
  toPaste,
  owner,     \* whose the selection is: "nobody", "copier", "other"
  mime,      \* whether what it has is offered as MIME, of the copier's source
             \* and of the other client's
  news,      \* whether the paster has yet to be told of a change
  offers,    \* whose source is behind each offer there has been
  taken      \* how often the other client did something

copying == <<copier>>
pasting == <<paster, tries, have_selection, offered_mime, offer, asked, got>>
pipe == <<holders, content>>
wire == <<toServer, fromPaste, toCopier, toPaste>>
server == <<owner, mime, news, offers, taken>>
vars == <<kind, copying, pasting, pipe, wire, server>>

Holders == {"paster", "buffer", "request", "event", "copier", "other"}

Init ==
  /\ kind \in {"clipboard", "primary"}
  /\ copier = "setting" /\ paster = "looking"
  /\ tries = 0 /\ have_selection = FALSE /\ offered_mime = FALSE
  /\ offer = 0 /\ asked = 0 /\ got = 0
  /\ holders = {} /\ content = 0
  /\ toServer = << >> /\ fromPaste = << >> /\ toCopier = << >> /\ toPaste = << >>
  /\ owner = "nobody" /\ mime = [c \in {"copier", "other"} |-> FALSE]
  /\ news = FALSE /\ offers = << >> /\ taken = 0

-----------------------------------------------------------------------------
(* The copier. *)

(* A source that says what it has, and then the selection is it.           *)
SetBeforeOffer == <<"create", "set", "offer">>
SetRequests == <<"create", "offer", "set">>
SetSelection ==
  /\ copier = "setting"
  /\ toServer' = SetRequests
  /\ copier' = "serving"
  /\ UNCHANGED <<kind, pasting, pipe, fromPaste, toCopier, toPaste, server>>

(* src_send, psrc_send: all it has in one write, and the descriptor closed.*)
Send ==
  /\ copier = "serving" /\ toCopier # << >> /\ Head(toCopier) = "send"
  /\ toCopier' = Tail(toCopier)
  /\ holders' = (holders \ {"event"}) \cup {"copier"}
  /\ copier' = "writing"
  /\ UNCHANGED <<kind, pasting, content, toServer, fromPaste, toPaste, server>>
SendWrites ==
  /\ copier = "writing"
  /\ content' = content + PAYLOAD
  /\ copier' = "closing"
  /\ UNCHANGED <<kind, pasting, holders, wire, server>>
SendKeeps ==
  /\ copier = "closing"
  /\ copier' = "serving"
  /\ UNCHANGED <<kind, pasting, pipe, wire, server>>
SendCloses ==
  /\ copier = "closing"
  /\ holders' = holders \ {"copier"}
  /\ copier' = "serving"
  /\ UNCHANGED <<kind, pasting, content, wire, server>>

(* src_cancelled: said, and it stays.                                      *)
Cancelled ==
  /\ copier = "serving" /\ toCopier # << >> /\ Head(toCopier) = "cancelled"
  /\ toCopier' = Tail(toCopier)
  /\ UNCHANGED <<kind, copying, pasting, pipe, toServer, fromPaste, toPaste, server>>

Copier == SetSelection \/ Send \/ SendWrites \/ SendCloses \/ Cancelled

-----------------------------------------------------------------------------
(* The paster. *)

(* A roundtrip for each try, while it has been told of no selection.       *)
Look ==
  /\ paster = "looking" /\ tries < TRIES /\ ~have_selection
  /\ fromPaste' = Append(fromPaste, [op |-> "sync"])
  /\ paster' = "roundtrip"
  /\ UNCHANGED <<kind, copying, tries, have_selection, offered_mime, offer, asked, got, pipe,
                 toServer, toCopier, toPaste, server>>
Rest ==
  /\ paster = "resting"
  /\ tries' = tries + 1
  /\ paster' = "looking"
  /\ UNCHANGED <<kind, copying, have_selection, offered_mime, offer, asked, got, pipe, wire,
                 server>>

(* An event: inside the roundtrip, or read with the answer that ends it.   *)
Event(op) ==
  /\ paster \in {"roundtrip", "resting"}
  /\ toPaste # << >> /\ Head(toPaste).op = op
  /\ toPaste' = Tail(toPaste)
  /\ UNCHANGED <<kind, copying, tries, asked, got, pipe, toServer, fromPaste, toCopier, server>>
RoundtripDone ==
  /\ paster = "roundtrip" /\ Event("done")
  /\ paster' = "resting"
  /\ UNCHANGED <<have_selection, offered_mime, offer>>
(* dev_data_offer, pdev_data_offer. *)
DataOffer ==
  /\ Event("data_offer")
  /\ offer' = Head(toPaste).offer
  /\ UNCHANGED <<paster, have_selection, offered_mime>>
(* offer_mime, poffer_mime: whichever offer says it.                       *)
OfferMime ==
  /\ Event("mime")
  /\ offered_mime' = TRUE
  /\ UNCHANGED <<paster, have_selection, offer>>
(* dev_selection, pdev_selection: once there is one there always is.       *)
Selection ==
  /\ Event("selection")
  /\ have_selection' = (have_selection \/ Head(toPaste).offer # 0)
  /\ UNCHANGED <<paster, offered_mime, offer>>

Check ==
  /\ paster = "looking" /\ (tries = TRIES \/ have_selection)
  /\ \/ /\ have_selection /\ offered_mime
        /\ paster' = "asking" /\ holders' = {"paster"}
     \/ /\ ~(have_selection /\ offered_mime)
        /\ paster' = "gave up" /\ UNCHANGED holders
  /\ UNCHANGED <<kind, copying, tries, have_selection, offered_mime, offer, asked, got, content,
                 wire, server>>

(* The request holds a write end of its own until it is written, and the   *)
(* paster's goes once it is.                                               *)
Receive ==
  /\ paster = "asking"
  /\ asked' = offer
  /\ holders' = holders \cup {"buffer"}
  /\ paster' = "flushing"
  /\ UNCHANGED <<kind, copying, tries, have_selection, offered_mime, offer, got, content, wire,
                 server>>
FlushForgotten ==
  /\ paster = "flushing"
  /\ paster' = "closing"
  /\ UNCHANGED <<kind, copying, tries, have_selection, offered_mime, offer, asked, got, pipe,
                 wire, server>>
Flush ==
  /\ paster = "flushing"
  /\ holders' = (holders \ {"buffer"}) \cup {"request"}
  /\ fromPaste' = Append(fromPaste, [op |-> "receive", offer |-> asked])
  /\ paster' = "closing"
  /\ UNCHANGED <<kind, copying, tries, have_selection, offered_mime, offer, asked, got, content,
                 toServer, toCopier, toPaste, server>>
CloseOwn ==
  /\ paster = "closing"
  /\ holders' = holders \ {"paster"}
  /\ paster' = "reading"
  /\ UNCHANGED <<kind, copying, tries, have_selection, offered_mime, offer, asked, got, content,
                 wire, server>>

(* read: what is there, as far as there is room for it; none of it, and    *)
(* nobody to write more, is the end.                                       *)
ReadOnce ==
  /\ paster = "reading" /\ content > 0
  /\ \E n \in 1..(ROOM - got) :
       /\ n <= content
       /\ got' = got + n
       /\ content' = content - n
       /\ paster' = "pasted"
  /\ UNCHANGED <<kind, copying, tries, have_selection, offered_mime, offer, asked, holders, wire,
                 server>>
Read ==
  /\ paster = "reading" /\ content > 0
  /\ \E n \in 1..(ROOM - got) :
       /\ n <= content
       /\ got' = got + n
       /\ content' = content - n
       /\ paster' = IF got' >= ROOM THEN "pasted" ELSE paster
  /\ UNCHANGED <<kind, copying, tries, have_selection, offered_mime, offer, asked, holders, wire,
                 server>>
ReadEnd ==
  /\ paster = "reading" /\ content = 0 /\ holders = {}
  /\ paster' = "pasted"
  /\ UNCHANGED <<kind, copying, tries, have_selection, offered_mime, offer, asked, got, pipe,
                 wire, server>>

Paster ==
  \/ Look \/ Rest \/ RoundtripDone \/ DataOffer \/ OfferMime \/ Selection
  \/ Check \/ Receive \/ Flush \/ CloseOwn \/ Read \/ ReadEnd

-----------------------------------------------------------------------------
(* The compositor. *)
Owns(c) == owner' = c /\ news' = TRUE
Loses == toCopier' = IF owner = "copier" THEN Append(toCopier, "cancelled") ELSE toCopier

TakeFromCopier ==
  /\ toServer # << >>
  /\ toServer' = Tail(toServer)
  /\ CASE Head(toServer) = "create" -> UNCHANGED <<mime, owner, news>>
       [] Head(toServer) = "offer" -> mime' = [mime EXCEPT !["copier"] = TRUE]
                                      /\ UNCHANGED <<owner, news>>
       [] Head(toServer) = "set" -> Owns("copier") /\ UNCHANGED mime
  /\ UNCHANGED <<kind, copying, pasting, pipe, fromPaste, toCopier, toPaste, offers, taken>>

(* The paster's window has the focus, and it is told what the selection is *)
(* now: what is behind it, as what it may be asked for, and that it is it. *)
Offering(c) ==
  <<[op |-> "data_offer", offer |-> Len(offers) + 1]>> \o
  IF mime[c] THEN <<[op |-> "mime"]>> ELSE << >>
TellSelection ==
  /\ news
  /\ news' = FALSE
  /\ IF owner = "nobody"
       THEN /\ toPaste' = Append(toPaste, [op |-> "selection", offer |-> 0])
            /\ UNCHANGED offers
       ELSE /\ toPaste' = toPaste \o Offering(owner) \o
                          <<[op |-> "selection", offer |-> Len(offers) + 1]>>
            /\ offers' = Append(offers, owner)
  /\ UNCHANGED <<kind, copying, pasting, pipe, toServer, fromPaste, toCopier, owner, mime, taken>>

TakeSync ==
  /\ fromPaste # << >> /\ Head(fromPaste).op = "sync"
  /\ fromPaste' = Tail(fromPaste)
  /\ toPaste' = Append(toPaste, [op |-> "done"])
  /\ UNCHANGED <<kind, copying, pasting, pipe, toServer, toCopier, server>>

(* The descriptor goes on to whoever is behind the offer, if it is still   *)
(* what it was; to an offer that is not, it may be closed.                 *)
Current(o) == o = Len(offers) /\ ~news /\ offers[o] = owner
PassOn ==
  /\ fromPaste # << >> /\ Head(fromPaste).op = "receive"
  /\ fromPaste' = Tail(fromPaste)
  /\ LET o == Head(fromPaste).offer
     IN \/ /\ offers[o] = "copier" /\ copier # "gone"
           /\ toCopier' = Append(toCopier, "send")
           /\ holders' = (holders \ {"request"}) \cup {"event"}
        \/ /\ offers[o] = "other"
           /\ holders' = (holders \ {"request"}) \cup {"other"}
           /\ UNCHANGED toCopier
        \/ /\ ~Current(o) \/ copier = "gone"
           /\ holders' = holders \ {"request"}
           /\ UNCHANGED toCopier
  /\ UNCHANGED <<kind, copying, pasting, content, toServer, toPaste, server>>

Compositor == TakeFromCopier \/ TakeSync \/ PassOn

-----------------------------------------------------------------------------
(* The other client, and whoever ends the copier. *)
OtherTakes(m) ==
  /\ taken < MaxTakes /\ taken' = taken + 1
  /\ Owns("other") /\ Loses
  /\ mime' = [mime EXCEPT !["other"] = m]
  /\ UNCHANGED <<kind, copying, pasting, pipe, toServer, fromPaste, toPaste, offers>>
OtherClears ==
  /\ taken < MaxTakes /\ taken' = taken + 1
  /\ owner # "nobody"
  /\ Owns("nobody") /\ Loses
  /\ UNCHANGED <<kind, copying, pasting, pipe, toServer, fromPaste, toPaste, mime, offers>>
OtherDrags(m) ==
  /\ kind = "clipboard"
  /\ taken < MaxTakes /\ taken' = taken + 1
  /\ toPaste' = toPaste \o <<[op |-> "data_offer", offer |-> Len(offers) + 1]>> \o
                IF m THEN <<[op |-> "mime"]>> ELSE << >>
  /\ offers' = Append(offers, "other")
  /\ UNCHANGED <<kind, copying, pasting, pipe, toServer, fromPaste, toCopier, owner, mime, news>>
(* It writes what it has, or nothing, asked for what it does not.          *)
OtherAnswers ==
  /\ "other" \in holders
  /\ holders' = holders \ {"other"}
  /\ content' \in {content, content + OtherLen}
  /\ UNCHANGED <<kind, copying, pasting, wire, server>>

Killed ==
  /\ copier # "gone" /\ copier' = "gone"
  /\ holders' = holders \ {"copier", "event"}
  /\ toCopier' = << >> /\ toServer' = << >>
  /\ IF owner = "copier" THEN Owns("nobody") ELSE UNCHANGED <<owner, news>>
  /\ UNCHANGED <<kind, pasting, content, fromPaste, toPaste, mime, offers, taken>>

Next ==
  \/ Copier \/ Paster \/ Compositor \/ TellSelection
  \/ \E m \in BOOLEAN : OtherTakes(m) \/ OtherDrags(m)
  \/ OtherClears \/ OtherAnswers \/ Killed

(* The two halves and the compositor run, and whoever is handed the pipe   *)
(* answers.  The paster's window need never have the focus.                *)
Fairness ==
  WF_vars(Copier) /\ WF_vars(Paster) /\ WF_vars(Compositor) /\ WF_vars(OtherAnswers)

Spec == Init /\ [][Next]_vars
FairSpec == Spec /\ Fairness

-----------------------------------------------------------------------------
TypeOK ==
  /\ kind \in {"clipboard", "primary"}
  /\ copier \in {"setting", "serving", "writing", "closing", "gone"}
  /\ paster \in {"looking", "roundtrip", "resting", "asking", "flushing", "closing", "reading",
                 "pasted", "gave up"}
  /\ tries \in 0..TRIES /\ have_selection \in BOOLEAN /\ offered_mime \in BOOLEAN
  /\ offer \in 0..Len(offers) /\ asked \in 0..Len(offers) /\ got \in 0..ROOM
  /\ holders \subseteq Holders /\ content \in Nat
  /\ toServer \in Seq({"create", "offer", "set"}) /\ toCopier \in Seq({"send", "cancelled"})
  /\ fromPaste \in Seq([op : {"sync"}] \cup [op : {"receive"}, offer : Nat])
  /\ toPaste \in Seq([op : {"done", "mime"}] \cup [op : {"data_offer", "selection"}, offer : Nat])
  /\ owner \in {"nobody", "copier", "other"} /\ mime \in [{"copier", "other"} -> BOOLEAN]
  /\ news \in BOOLEAN /\ offers \in Seq({"copier", "other"}) /\ taken \in 0..MaxTakes

(* Whatever becomes of the selection meanwhile -- replaced, cleared, the   *)
(* copier killed at any point -- what is pasted is all that is behind the  *)
(* offer that was asked, or as much as there is room for, or nothing.      *)
LengthOf(c) == IF c = "copier" THEN PAYLOAD ELSE IF OtherLen < ROOM THEN OtherLen ELSE ROOM
AllOrNothing == paster = "pasted" => got \in {0, LengthOf(offers[asked])}

(* With nobody else about and the copier alive, a paste that gives up was  *)
(* never told of the selection in any of its tries, and one that does not  *)
(* has what the copier copied: it never meets a selection it is not told   *)
(* the kind of.                                                            *)
Undisturbed == taken = 0 /\ copier # "gone"
GetsSelection ==
  Undisturbed => /\ paster = "pasted" => got = PAYLOAD
                 /\ paster = "gave up" => ~have_selection /\ tries = TRIES

(* A paste ends: every write end of the pipe is closed by whoever has it,  *)
(* the request that carries one included.                                  *)
PasteEnds == <>(paster \in {"pasted", "gave up"})
=============================================================================
