---------------------------- MODULE WlWindowProofs ----------------------------
(***************************************************************************)
(* What the four clients of toolchain/ promise of their window, for any    *)
(* compositor, any number of configures and any gesture (modules WlWindow  *)
(* and WlScroll).                                                          *)
(***************************************************************************)
EXTENDS WlScroll, SequenceTheorems, FiniteSetTheorems, TLAPS

(* What a request may say, and an event: a program asks for no version     *)
(* that is not there; a compositor tells the versions it has, of frames of *)
(* a pointer only who has asked for them, of frames of a window only one   *)
(* that is configured, and of an end only when it has thrown out or gone.  *)
Asked ==
  {r \in Requests :
     /\ r.op = "bind" /\ ByNumber => r.version <= offer[r.interface]
     /\ r.op = "commit" => (r.frame => r.buffer)}
Sent ==
  {e \in Events :
     /\ e.op = "global" => e.version = offer[e.interface] /\ e.version > 0
     /\ e.op \in {"discrete", "stop", "source", "pointer frame"} => Framed
     /\ e.op = "frame" => acked > 0
     /\ e.op = "end" => ~Serving}

StateTyped ==
  /\ who \in Programs /\ offer \in Offers /\ prompt \in BOOLEAN
  /\ bound \in [Interfaces -> Nat]
  /\ \A i \in Interfaces : bound[i] \in {0, Global(i, offer[i])}
  /\ serial \in Nat /\ acked \in Nat /\ frames \in Nat
  /\ frames > 0 => acked > 0
WireTyped ==
  /\ buffered \in Seq(Asked) /\ requests \in Seq(Asked)
  /\ queue \in Seq(Sent) /\ events \in Seq(Sent)
Typed == StateTyped /\ WireTyped

-----------------------------------------------------------------------------
LEMMA OffersTyped ==
  ASSUME StateTyped
  PROVE  /\ offer \in [Interfaces -> Nat]
         /\ who \in {"wlcairo", "wlprobe", "wlclip", "wlclip_primary", "wlscroll"}
         /\ \A i \in Interfaces, v \in Nat : Global(i, v) \in Nat
BY WindowAssumption DEF StateTyped, Global, Clips, GlobalCairo, GlobalProbe, GlobalClip,
   GlobalScroll

(* What has been asked for or said stays right: nobody unlearns a version, *)
(* and what is acknowledged stays so.                                      *)
LEMMA StaysRight ==
  ASSUME StateTyped, UNCHANGED <<who, offer>>, Framed => Framed', acked > 0 => acked' > 0,
         Serving' => Serving
  PROVE  /\ Asked' = Asked
         /\ Sent \subseteq Sent'
         /\ \A s \in Seq(Sent) : s \in Seq(Sent')
<1>1. ByNumber' = ByNumber
  BY DEF ByNumber
<1>2. Asked' = Asked
  BY <1>1 DEF Asked
<1>3. Sent \subseteq Sent'
  BY DEF Sent
<1>4. QED
  BY <1>2, <1>3, SeqMonotonic

LEMMA StateKept ==
  ASSUME StateTyped, UNCHANGED <<who, offer, prompt, bound>>,
         serial' \in Nat, acked' \in Nat, frames' \in Nat, frames' > 0 => acked' > 0
  PROVE  StateTyped' /\ (Framed' <=> Framed)
BY DEF StateTyped, Framed, Global

(* The only thing that happens to a version is that it becomes one's own.  *)
Same == UNCHANGED <<who, offer, prompt, bound, serial, acked, frames>> /\ (Serving' => Serving)
LEMMA StateStays == ASSUME StateTyped, Same PROVE StateTyped' /\ (Framed' <=> Framed)
BY DEF StateTyped, Same, Framed, Global

LEMMA WireStays == ASSUME Typed, Same, UNCHANGED wire PROVE Typed'
<1>1. StateTyped' /\ (Framed' <=> Framed)
  BY StateStays DEF Typed
<1>2. QED
  BY <1>1, StaysRight DEF Typed, WireTyped, wire, Same

LEMMA Asks ==
  ASSUME Typed, Same, UNCHANGED <<requests, events, queue>>,
         NEW rs \in Seq(Asked), buffered' = buffered \o rs
  PROVE  Typed'
<1>1. StateTyped' /\ (Framed' <=> Framed)
  BY StateStays DEF Typed
<1>2. buffered \o rs \in Seq(Asked)
  BY ConcatProperties DEF Typed, WireTyped
<1>3. QED
  BY <1>1, <1>2, StaysRight DEF Typed, WireTyped, Same

LEMMA Hears ==
  ASSUME Typed, Same, UNCHANGED <<requests, events>>, queue # << >>, queue' = Tail(queue),
         NEW rs \in Seq(Asked), buffered' = buffered \o rs
  PROVE  Typed'
<1>1. StateTyped' /\ (Framed' <=> Framed)
  BY StateStays DEF Typed
<1>2. buffered \o rs \in Seq(Asked) /\ Tail(queue) \in Seq(Sent)
  BY ConcatProperties, HeadTailProperties DEF Typed, WireTyped
<1>3. QED
  BY <1>1, <1>2, StaysRight DEF Typed, WireTyped, Same

LEMMA Says ==
  ASSUME Typed, Same, UNCHANGED <<buffered, requests, queue>>,
         NEW es \in Seq(Sent), events' = events \o es
  PROVE  Typed'
<1>1. StateTyped' /\ (Framed' <=> Framed)
  BY StateStays DEF Typed
<1>2. events \o es \in Seq(Sent)
  BY ConcatProperties DEF Typed, WireTyped
<1>3. QED
  BY <1>1, <1>2, StaysRight DEF Typed, WireTyped, Same

LEMMA Answers ==
  ASSUME Typed, Same, UNCHANGED <<buffered, queue>>, requests # << >>, requests' = Tail(requests),
         NEW es \in Seq(Sent), events' = events \o es
  PROVE  Typed'
<1>1. StateTyped' /\ (Framed' <=> Framed)
  BY StateStays DEF Typed
<1>2. events \o es \in Seq(Sent) /\ Tail(requests) \in Seq(Asked)
  BY ConcatProperties, HeadTailProperties DEF Typed, WireTyped
<1>3. QED
  BY <1>1, <1>2, StaysRight DEF Typed, WireTyped, Same

(* The same where nothing is asked for or answered.                        *)
LEMMA HearsOnly ==
  ASSUME Typed, Same, UNCHANGED <<buffered, requests, events>>, queue # << >>,
         queue' = Tail(queue)
  PROVE  Typed'
BY Hears, EmptySeq, ConcatEmptySeq DEF Typed, WireTyped

LEMMA TakesOnly ==
  ASSUME Typed, Same, UNCHANGED <<buffered, queue, events>>, requests # << >>,
         requests' = Tail(requests)
  PROVE  Typed'
BY Answers, EmptySeq, ConcatEmptySeq DEF Typed, WireTyped

-----------------------------------------------------------------------------
(* What is asked for, and what is said, is of the kinds there are.         *)
LEMMA PlainAsked ==
  /\ \A op \in {"registry", "sync", "pool", "toplevel", "decoration", "device", "keyboard",
                "pointer", "pong"} : [op |-> op] \in Asked
  /\ {Shows(FALSE, FALSE), Shows(TRUE, FALSE), Shows(TRUE, TRUE)} \subseteq Asked
  /\ \A s \in Nat : [op |-> "ack", serial |-> s] \in Asked
BY DEF Asked, Requests, Shows

LEMMA Alone == ASSUME NEW S, NEW e \in S PROVE <<e>> \in Seq(S)
OBVIOUS

LEMMA PlainSent ==
  /\ \A op \in {"done", "format", "close", "ping", "input", "output"} :
       [op |-> op] \in Sent /\ <<[op |-> op]>> \in Seq(Sent)
  /\ \A s \in Nat : <<[op |-> "configure", serial |-> s]>> \in Seq(Sent)
  /\ acked > 0 => <<[op |-> "frame"]>> \in Seq(Sent)
  /\ Framed => <<[op |-> "pointer frame"]>> \in Seq(Sent)
<1>1. \A op \in {"done", "format", "close", "ping", "input", "output"} : [op |-> op] \in Sent
  BY DEF Sent, Events, PointerEvents
<1>2. \A s \in Nat : [op |-> "configure", serial |-> s] \in Sent
  BY DEF Sent, Events, PointerEvents
<1>3. acked > 0 => [op |-> "frame"] \in Sent
  BY DEF Sent, Events, PointerEvents
<1>4. Framed => [op |-> "pointer frame"] \in Sent
  BY DEF Sent, Events, PointerEvents
<1>5. QED
  BY <1>1, <1>2, <1>3, <1>4, Alone

(* An end is said as the compositor throws out or goes.                    *)
LEMMA Ended ==
  ASSUME Typed, Same, ~Serving', UNCHANGED <<buffered, queue>>, requests' \in Seq(Asked),
         events' = events \o <<[op |-> "end"]>>
  PROVE  Typed'
<1>1. StateTyped' /\ (Framed' <=> Framed)
  BY StateStays DEF Typed
<1>2. [op |-> "end"] \in Sent'
  BY DEF Sent, Events, PointerEvents
<1>3. events \in Seq(Sent')
  BY <1>1, StaysRight DEF Typed, WireTyped, Same
<1>4. events' \in Seq(Sent')
  BY <1>2, <1>3, Alone, ConcatProperties
<1>5. QED
  BY <1>1, <1>4, StaysRight DEF Typed, WireTyped, Same

(* Its `main`, up to its loop.                                             *)
MainStep ==
  GetRegistry \/ Roundtrip \/ Returned \/ CheckGlobals \/ Listen \/ MakePool \/ MakeWindow
  \/ CheckConfigured \/ AttachOnce \/ GetDevice \/ GetSeat \/ FirstDraw \/ Again(Stop)
LEMMA MainTyped == ASSUME Typed, MainStep PROVE Typed'
<1> DEFINE A(rs) == rs \in Seq(Asked) /\ buffered' = buffered \o rs
<1>1. CASE UNCHANGED wire
  <2>1. Same
    BY <1>1 DEF MainStep, GetRegistry, Roundtrip, Returned, CheckGlobals, Listen, MakePool,
       MakeWindow, CheckConfigured, AttachOnce, GetDevice, GetSeat, FirstDraw, Again, Goes, Same,
       Serving, server
  <2>2. QED
    BY <1>1, <2>1, WireStays
<1>2. CASE ~UNCHANGED wire
  <2>1. Same /\ UNCHANGED <<requests, events, queue>>
    BY <1>2 DEF MainStep, GetRegistry, Roundtrip, Returned, CheckGlobals, Listen, MakePool,
       MakeWindow, CheckConfigured, AttachOnce, GetDevice, GetSeat, FirstDraw, Again, Goes, Same,
       Serving, server, wire
  <2>2. \E rs : A(rs)
    <3>1. CASE GetRegistry
      <4>1. A(<<[op |-> "registry"]>>)
        BY <3>1, PlainAsked DEF GetRegistry, Ask
      <4>2. QED
        BY <4>1
    <3>2. CASE Roundtrip
      <4>1. A(<<[op |-> "sync"]>>)
        BY <3>2, PlainAsked DEF Roundtrip, Ask
      <4>2. QED
        BY <4>1
    <3>3. CASE MakePool
      <4>1. A(<<[op |-> "pool"]>>)
        BY <3>3, <1>2, PlainAsked DEF MakePool, Ask, wire
      <4>2. QED
        BY <4>1
    <3>4. CASE MakeWindow
      <4> DEFINE d == IF Decorated THEN <<[op |-> "decoration"]>> ELSE << >>
      <4>1. <<[op |-> "toplevel"]>> \in Seq(Asked) /\ d \in Seq(Asked)
            /\ <<Shows(FALSE, FALSE)>> \in Seq(Asked)
        BY PlainAsked DEF Shows
      <4>2. <<[op |-> "toplevel"]>> \o d \in Seq(Asked)
        BY <4>1, ConcatProperties
      <4>3. <<[op |-> "toplevel"]>> \o d \o <<Shows(FALSE, FALSE)>> \in Seq(Asked)
        BY <4>1, <4>2, ConcatProperties
      <4>4. QED
        BY <3>4, <4>3 DEF MakeWindow, Ask
    <3>5. CASE AttachOnce
      <4>1. A(<<Shows(TRUE, FALSE)>>)
        BY <3>5, PlainAsked DEF AttachOnce, Ask, Shows
      <4>2. QED
        BY <4>1
    <3>6. CASE GetDevice
      <4>1. A(<<[op |-> "device"]>>)
        BY <3>6, PlainAsked DEF GetDevice, Ask
      <4>2. QED
        BY <4>1
    <3>7. CASE GetSeat
      <4>1. A(<<[op |-> "keyboard"], [op |-> "pointer"]>>) \/ A(<<[op |-> "pointer"]>>)
        BY <3>7, <1>2, PlainAsked DEF GetSeat, Ask, wire
      <4>2. QED
        BY <4>1
    <3>8. CASE FirstDraw
      <4>1. A(<<Shows(TRUE, TRUE)>>)
        BY <3>8, <1>2, PlainAsked DEF FirstDraw, Draw, Ask, wire, Shows
      <4>2. QED
        BY <4>1
    <3>9. CASE Returned \/ CheckGlobals \/ Listen \/ CheckConfigured \/ Again(Stop)
      BY <3>9, <1>2 DEF Returned, CheckGlobals, Listen, CheckConfigured, Again, Goes
    <3>10. QED
      BY <3>1, <3>2, <3>3, <3>4, <3>5, <3>6, <3>7, <3>8, <3>9 DEF MainStep
  <2>3. QED
    BY <2>1, <2>2, Asks
<1>3. QED
  BY <1>1, <1>2

(* libwayland's part, and the handlers.                                    *)
LEMMA FlushTyped == ASSUME Typed, Flush PROVE Typed'
<1>1. Same
  BY DEF Flush, Same, Serving, client, server
<1>2. StateTyped' /\ (Framed' <=> Framed)
  BY <1>1, StateStays DEF Typed
<1>3. requests \o buffered \in Seq(Asked)
  BY ConcatProperties DEF Typed, WireTyped
<1>4. << >> \in Seq(Asked)
  BY EmptySeq
<1>5. QED
  BY <1>1, <1>2, <1>3, <1>4, StaysRight DEF Typed, WireTyped, Flush, Same

LEMMA EndTyped == ASSUME Typed, HandleEnd PROVE Typed'
<1>1. Same /\ UNCHANGED wire
  BY DEF HandleEnd, Same, Serving, server
<1>2. QED
  BY <1>1, WireStays

LEMMA ReadTyped == ASSUME Typed, Read PROVE Typed'
<1>1. Same
  BY DEF Read, Same, Serving, server
<1>2. StateTyped' /\ (Framed' <=> Framed)
  BY <1>1, StateStays DEF Typed
<1>3. PICK k \in 1..Len(events) :
        queue' = SubSeq(events, 1, k) /\ events' = SubSeq(events, k + 1, Len(events))
  BY DEF Read
<1>4. Len(events) \in Nat /\ events \in Seq(Sent)
  BY LenProperties DEF Typed, WireTyped
<1>5. \A i \in 1..Len(events) : events[i] \in Sent
  BY <1>4, ElementOfSeq
<1>6. queue' \in Seq(Sent)
  BY <1>3, <1>4, <1>5, SubSeqProperties
<1>7. events' \in Seq(Sent)
  <2>1. \A i \in (k + 1)..Len(events) : events[i] \in Sent
    BY <1>3, <1>4, <1>5
  <2>2. QED
    BY <1>3, <1>4, <2>1, SubSeqProperties
<1>8. QED
  BY <1>1, <1>2, <1>6, <1>7, StaysRight DEF Typed, WireTyped, Read, Same

(* A version is asked for as it was told, or by a number that is there.    *)
LEMMA BoundAsTold ==
  ASSUME Typed, HandleGlobal,
         NEW i, i = Head(queue).interface, NEW v, v = Global(i, Head(queue).version)
  PROVE  /\ i \in Interfaces /\ offer[i] > 0 /\ Head(queue).version = offer[i]
         /\ v \in Nat /\ (ByNumber => v <= offer[i])
<1>1. Head(queue) \in Sent
  BY HeadTailProperties DEF Typed, WireTyped, HandleGlobal, Event, Dispatching
<1>2. i \in Interfaces /\ offer[i] > 0 /\ Head(queue).version = offer[i]
  BY <1>1 DEF Sent, Events, PointerEvents, HandleGlobal, Event, Dispatching
<1>3. offer[i] \in Nat /\ v \in Nat
      /\ who \in {"wlcairo", "wlprobe", "wlclip", "wlclip_primary", "wlscroll"}
  BY <1>2, OffersTyped DEF Typed
<1>4. ByNumber => v <= offer[i]
  BY <1>2, <1>3 DEF ByNumber, Global, Clips, GlobalCairo, GlobalProbe, GlobalClip, GlobalScroll
<1>5. QED
  BY <1>2, <1>3, <1>4

LEMMA GlobalTyped == ASSUME Typed, HandleGlobal PROVE Typed'
<1> DEFINE i == Head(queue).interface
           v == Global(i, Head(queue).version)
<1>1. /\ i \in Interfaces /\ offer[i] > 0 /\ Head(queue).version = offer[i]
      /\ v \in Nat /\ (ByNumber => v <= offer[i])
  BY BoundAsTold
<1>2. CASE v = 0
  <2>1. Same /\ UNCHANGED <<buffered, requests, events>> /\ queue # << >> /\ queue' = Tail(queue)
    BY <1>2 DEF HandleGlobal, Event, Dispatching, Handled, Same, Serving, server
  <2>2. QED
    BY <2>1, HearsOnly
<1>3. CASE v # 0
  <2>1. /\ UNCHANGED <<who, requests, events, server>> /\ queue # << >> /\ queue' = Tail(queue)
        /\ bound' = [bound EXCEPT ![i] = v]
        /\ buffered' = buffered \o <<[op |-> "bind", interface |-> i, version |-> v]>>
    BY <1>3 DEF HandleGlobal, Event, Dispatching, Handled, Ask
  <2>2. StateTyped'
    BY <1>1, <2>1 DEF Typed, StateTyped, server, Global
  <2>3. Framed => Framed'
    BY <1>1, <1>3, <2>1 DEF Typed, StateTyped, Framed, Interfaces
  <2>4. [op |-> "bind", interface |-> i, version |-> v] \in Asked
    BY <1>1 DEF Asked, Requests
  <2>5. buffered' \in Seq(Asked) /\ Tail(queue) \in Seq(Sent)
    BY <2>1, <2>4, ConcatProperties, HeadTailProperties DEF Typed, WireTyped
  <2>6. QED
    BY <2>1, <2>2, <2>3, <2>5, StaysRight DEF Typed, WireTyped, Serving, server
<1>4. QED
  BY <1>2, <1>3

(* The other handlers ask for one thing or nothing.                        *)
HandlerStep ==
  HandleDone \/ HandleFormat \/ SurfaceConfigure \/ ToplevelClose \/ WmBasePing \/ FrameDone
  \/ SurfaceEnters \/ HandleInput \/ Pt
LEMMA HandlersTyped == ASSUME Typed, HandlerStep PROVE Typed'
<1>1. Same /\ UNCHANGED <<requests, events>> /\ queue # << >> /\ queue' = Tail(queue)
  BY DEF HandlerStep, HandleDone, HandleFormat, SurfaceConfigure, ToplevelClose, WmBasePing,
     FrameDone, SurfaceEnters, HandleInput, Pt, PtAxis, PtSay, PtAxisStop, PtOther, PtFrame, Noted,
     Event, Dispatching, Handled, Same, Serving, client, server
<1>2. CASE UNCHANGED buffered
  BY <1>1, <1>2, HearsOnly
<1>3. CASE ~UNCHANGED buffered
  <2> DEFINE A(rs) == rs \in Seq(Asked) /\ buffered' = buffered \o rs
  <2>1. CASE SurfaceConfigure
    <3>1. Head(queue) \in Sent
      BY <1>1, HeadTailProperties DEF Typed, WireTyped
    <3>2. Head(queue).serial \in Nat
      BY <2>1, <3>1 DEF SurfaceConfigure, Event, Dispatching, Sent, Events, PointerEvents
    <3>3. A(<<[op |-> "ack", serial |-> Head(queue).serial]>>)
      BY <2>1, <3>2, PlainAsked DEF SurfaceConfigure, Ask
    <3>4. QED
      BY <1>1, <3>3, Hears
  <2>2. CASE WmBasePing
    <3>1. A(<<[op |-> "pong"]>>)
      BY <2>2, <1>3, PlainAsked DEF WmBasePing, Ask
    <3>2. QED
      BY <1>1, <3>1, Hears
  <2>3. CASE FrameDone
    <3>1. A(<<Shows(TRUE, TRUE)>>)
      BY <2>3, <1>3, PlainAsked DEF FrameDone, Draw, Ask, Shows
    <3>2. QED
      BY <1>1, <3>1, Hears
  <2>4. QED
    BY <1>3, <2>1, <2>2, <2>3 DEF HandlerStep, HandleDone, HandleFormat, ToplevelClose,
       SurfaceEnters, HandleInput, Pt, PtAxis, PtSay, PtAxisStop, PtOther, PtFrame, Noted
<1>4. QED
  BY <1>2, <1>3

-----------------------------------------------------------------------------
(* The compositor.                                                         *)
Announcements ==
  Announce("wl_compositor") \o Announce("wl_shm") \o Announce("wl_output")
  \o Announce("wl_seat") \o Announce("xdg_wm_base")
  \o Announce("zxdg_decoration_manager_v1") \o Announce("wl_data_device_manager")
  \o Announce("zwp_primary_selection_device_manager_v1")

LEMMA AnnounceTyped == ASSUME StateTyped, NEW i \in Interfaces PROVE Announce(i) \in Seq(Sent)
<1>1. offer[i] \in Nat
  BY OffersTyped
<1>2. CASE offer[i] > 0
  <2>1. [op |-> "global", interface |-> i, version |-> offer[i]] \in Sent
    BY <1>1, <1>2 DEF Sent, Events, PointerEvents
  <2>2. QED
    BY <1>2, <2>1 DEF Announce
<1>3. CASE ~(offer[i] > 0)
  BY <1>3, EmptySeq DEF Announce
<1>4. QED
  BY <1>2, <1>3

LEMMA AnnouncementsTyped == ASSUME StateTyped PROVE Announcements \in Seq(Sent)
<1>1. \A s, t \in Seq(Sent) : s \o t \in Seq(Sent)
  BY ConcatProperties
<1>2. \A i \in Interfaces : Announce(i) \in Seq(Sent)
  BY AnnounceTyped
<1>3. /\ Announce("wl_compositor") \in Seq(Sent) /\ Announce("wl_shm") \in Seq(Sent)
      /\ Announce("wl_output") \in Seq(Sent) /\ Announce("wl_seat") \in Seq(Sent)
      /\ Announce("xdg_wm_base") \in Seq(Sent)
      /\ Announce("zxdg_decoration_manager_v1") \in Seq(Sent)
      /\ Announce("wl_data_device_manager") \in Seq(Sent)
      /\ Announce("zwp_primary_selection_device_manager_v1") \in Seq(Sent)
  BY <1>2 DEF Interfaces
<1>4. QED
  BY <1>1, <1>3 DEF Announcements

LEMMA Repeated == ASSUME NEW S, NEW e \in S, NEW n \in Nat PROVE [i \in 1..n |-> e] \in Seq(S)
OBVIOUS

LEMMA FormatsTyped == [n \in 1..Formats |-> [op |-> "format"]] \in Seq(Sent)
<1>1. [op |-> "format"] \in Sent
  BY PlainSent
<1>2. QED
  BY <1>1, WindowAssumption, Repeated

LEMMA TakesTyped == ASSUME Typed, Takes PROVE Typed'
<1> DEFINE Says1(es) == es \in Seq(Sent) /\ events' = events \o es
           Moved == /\ UNCHANGED <<buffered, queue>> /\ requests # << >>
                    /\ requests' = Tail(requests)
<1>0. << >> \in Seq(Sent) /\ events = events \o << >>
  BY EmptySeq, ConcatEmptySeq DEF Typed, WireTyped
<1>1. CASE TakeRegistry
  <2>1. Same /\ Moved /\ events' = events \o Announcements
    BY <1>1 DEF TakeRegistry, Request, Taken, Say, Announcements, Same, Serving, client, server
  <2>2. QED
    BY <2>1, AnnouncementsTyped, Answers DEF Typed
<1>2. CASE TakeSync
  <2>1. Same /\ Moved /\ Says1(<<[op |-> "done"]>>)
    BY <1>2, PlainSent DEF TakeSync, Request, Taken, Say, Same, Serving, client, server
  <2>2. QED
    BY <2>1, Answers
<1>3. CASE TakeBind
  <2>1. Same /\ Moved
    BY <1>3 DEF TakeBind, Request, Taken, Same, Serving, client
  <2>2. \/ events' = events \o <<[op |-> "end"]>> /\ ~Serving'
        \/ events' = events \o [n \in 1..Formats |-> [op |-> "format"]]
        \/ events' = events \o << >>
    BY <1>3 DEF TakeBind, Say, Refuse, Serving
  <2>3. requests' \in Seq(Asked)
    BY <2>1, HeadTailProperties DEF Typed, WireTyped
  <2>4. QED
    BY <1>0, <2>1, <2>2, <2>3, FormatsTyped, Answers, Ended
<1>4. CASE TakeToplevel \/ TakePong \/ TakeOther
  <2>1. Same /\ Moved /\ UNCHANGED events
    BY <1>4 DEF TakeToplevel, TakePong, TakeOther, Request, Taken, Same, Serving, client, server
  <2>2. QED
    BY <2>1, TakesOnly
<1>5. CASE TakeAck
  <2>1. Moved /\ Serving /\ UNCHANGED <<who, offer, prompt, bound, serial, frames>>
    BY <1>5 DEF TakeAck, Request, Taken, client
  <2>2. \/ acked' = acked /\ events' = events \o <<[op |-> "end"]>> /\ ~Serving'
        \/ acked' \in (acked + 1)..serial /\ events' = events
    BY <1>5 DEF TakeAck, Say, Refuse, Serving
  <2>3. requests' \in Seq(Asked)
    BY <2>1, HeadTailProperties DEF Typed, WireTyped
  <2>4. CASE acked' = acked /\ events' = events \o <<[op |-> "end"]>> /\ ~Serving'
    BY <2>1, <2>3, <2>4, Ended DEF Same
  <2>5. CASE acked' \in (acked + 1)..serial /\ events' = events
    <3>1. StateTyped'
      BY <2>1, <2>5, StateKept DEF Typed, StateTyped
    <3>2. Framed' = Framed
      BY <2>1 DEF Framed
    <3>3. acked' > 0
      BY <2>5 DEF Typed, StateTyped
    <3>4. Tail(requests) \in Seq(Asked)
      BY <2>1, HeadTailProperties DEF Typed, WireTyped
    <3>5. QED
      BY <2>1, <2>5, <3>1, <3>2, <3>3, <3>4, StaysRight DEF Typed, WireTyped
  <2>6. QED
    BY <2>2, <2>4, <2>5
<1>6. CASE TakeCommit
  <2>1. Moved /\ Serving /\ UNCHANGED <<who, offer, prompt, bound, serial, acked>>
    BY <1>6 DEF TakeCommit, Request, Taken, client
  <2>2. \/ frames' = frames /\ events' = events \o <<[op |-> "end"]>> /\ ~Serving'
        \/ /\ events' = events /\ ~(Head(requests).buffer /\ acked = 0)
           /\ frames' = frames + IF Head(requests).frame THEN 1 ELSE 0
    BY <1>6 DEF TakeCommit, Say, Refuse, Serving
  <2>3. CASE frames' = frames /\ events' = events \o <<[op |-> "end"]>> /\ ~Serving'
    <3>1. requests' \in Seq(Asked)
      BY <2>1, HeadTailProperties DEF Typed, WireTyped
    <3>2. QED
      BY <2>1, <2>3, <3>1, Ended DEF Same
  <2>4. CASE /\ events' = events /\ ~(Head(requests).buffer /\ acked = 0)
             /\ frames' = frames + IF Head(requests).frame THEN 1 ELSE 0
    <3>1. Head(requests) \in Asked /\ Tail(requests) \in Seq(Asked)
      BY <2>1, HeadTailProperties DEF Typed, WireTyped
    <3>2. Head(requests).frame => Head(requests).buffer
      BY <1>6, <3>1 DEF Asked, TakeCommit, Request
    <3>3. Head(requests).frame => acked > 0
      BY <2>4, <3>2 DEF Typed, StateTyped
    <3>4. StateTyped'
      BY <2>1, <2>4, <3>3, StateKept DEF Typed, StateTyped
    <3>5. QED
      BY <2>1, <2>4, <3>1, <3>4, StaysRight DEF Typed, WireTyped, Framed
  <2>5. QED
    BY <2>2, <2>3, <2>4
<1>7. QED
  BY <1>1, <1>2, <1>3, <1>4, <1>5, <1>6 DEF Takes

(* What it says unasked; the pointer and the clock.                        *)
LEMMA UnaskedTyped ==
  ASSUME Typed, Configure \/ Ping \/ ShowFrame \/ Input \/ AskToClose \/ Leave PROVE Typed'
<1> DEFINE Kept == UNCHANGED <<buffered, requests, queue>>
<1>0. CASE Leave
  <2>1. Same /\ Kept /\ ~Serving' /\ events' = events \o <<[op |-> "end"]>>
    BY <1>0 DEF Leave, Refuse, Say, Same, Unasked, Serving, client
  <2>2. QED
    BY <2>1, Ended DEF Typed, WireTyped
<1>1. CASE Ping \/ Input \/ AskToClose
  <2>1. Same /\ Kept
    BY <1>1 DEF Ping, Input, AskToClose, Same, Serving, client, server
  <2>2. \E op \in {"ping", "input", "output", "close"} : events' = events \o <<[op |-> op]>>
    BY <1>1 DEF Ping, Input, AskToClose, Say
  <2>3. \A op \in {"ping", "input", "output", "close"} : <<[op |-> op]>> \in Seq(Sent)
    BY PlainSent
  <2>4. QED
    BY <2>1, <2>2, <2>3, Says
<1>2. CASE Configure
  <2> DEFINE es == <<[op |-> "configure", serial |-> serial + 1]>>
  <2>1. /\ UNCHANGED <<who, offer, prompt, bound, acked, frames, buffered, requests, queue>>
        /\ serial' = serial + 1 /\ events' = events \o es /\ Serving' = Serving
    BY <1>2 DEF Configure, Say, Serving, client
  <2>2. StateTyped' /\ (Framed' <=> Framed)
    BY <2>1, StateKept DEF Typed, StateTyped
  <2>3. es \in Seq(Sent)
    <3>1. serial + 1 \in Nat
      BY DEF Typed, StateTyped
    <3>2. QED
      BY <3>1, PlainSent
  <2>4. events' \in Seq(Sent)
    BY <2>1, <2>3, ConcatProperties DEF Typed, WireTyped
  <2>5. QED
    BY <2>1, <2>2, <2>4, StaysRight DEF Typed, WireTyped
<1>3. CASE ShowFrame
  <2>1. /\ UNCHANGED <<who, offer, prompt, bound, acked, serial, buffered, requests, queue>>
        /\ frames > 0 /\ frames' = frames - 1 /\ events' = events \o <<[op |-> "frame"]>>
        /\ Serving' = Serving
    BY <1>3 DEF ShowFrame, Say, Serving, client
  <2>2. StateTyped' /\ (Framed' <=> Framed)
    BY <2>1, StateKept DEF Typed, StateTyped
  <2>3. <<[op |-> "frame"]>> \in Seq(Sent)
    BY <2>1, PlainSent DEF Typed, StateTyped
  <2>4. events' \in Seq(Sent)
    BY <2>1, <2>3, ConcatProperties DEF Typed, WireTyped
  <2>5. QED
    BY <2>1, <2>2, <2>4, StaysRight DEF Typed, WireTyped
<1>4. QED
  BY <1>0, <1>1, <1>2, <1>3

LEMMA GestureTyped == ASSUME Typed, NEW g \in Gestures, Gesture(g) PROVE Typed'
<1> DEFINE es == IF Framed THEN g \o <<[op |-> "pointer frame"]>> ELSE g
<1>1. Same /\ UNCHANGED <<buffered, requests, queue>> /\ events' = events \o es
  BY DEF Gesture, Say, Same, Serving, client, server
<1>2. g \in Seq(PointerEvents)
  BY GestureAssumption
<1>3. CASE Framed
  <2>1. PointerEvents \subseteq Sent
    BY <1>3 DEF Sent, Events, PointerEvents
  <2>2. g \in Seq(Sent) /\ <<[op |-> "pointer frame"]>> \in Seq(Sent)
    BY <1>2, <1>3, <2>1, SeqMonotonic, PlainSent
  <2>3. es \in Seq(Sent)
    BY <1>3, <2>2, ConcatProperties
  <2>4. QED
    BY <1>1, <2>3, Says
<1>4. CASE ~Framed
  <2>1. \A n \in 1..Len(g) : g[n] \in PointerEvents /\ g[n].op \in {"axis", "motion"}
    BY <1>2, <1>4, ElementOfSeq DEF Gesture
  <2>2. \A n \in 1..Len(g) : g[n] \in Sent
    BY <2>1 DEF Sent, Events, PointerEvents
  <2>3. g \in [1..Len(g) -> Sent] /\ Len(g) \in Nat
    BY <1>2, <2>2, LenProperties
  <2>4. g \in Seq(Sent)
    BY <2>3
  <2>5. QED
    BY <1>1, <1>4, <2>4, Says
<1>5. QED
  BY <1>3, <1>4

(* Every step is one of these.                                             *)
Tick == Clock \/ UNCHANGED vars
LEMMA Steps ==
  ASSUME [Next]_vars
  PROVE  \/ (MainStep \/ Flush \/ Read \/ HandleGlobal \/ HandleEnd) /\ Apart
         \/ HandlerStep /\ (Apart \/ Pt)
         \/ Takes /\ Apart
         \/ (Configure \/ Ping \/ ShowFrame \/ Input \/ AskToClose \/ Leave) /\ Apart
         \/ \E g \in Gestures : Gesture(g)
         \/ Tick
BY DEF Next, Client, ClientStep, MainStep, HandlerStep, Compositor, Tick

LEMMA TypedStep == ASSUME Typed, [Next]_vars PROVE Typed'
<1>1. CASE Tick
  <2>1. Same /\ UNCHANGED wire
    BY <1>1 DEF Tick, Clock, vars, windowVars, Same, Serving, client, server
  <2>2. QED
    BY <2>1, WireStays
<1>2. QED
  BY <1>1, Steps, MainTyped, FlushTyped, ReadTyped, EndTyped, GlobalTyped, HandlersTyped, TakesTyped,
     UnaskedTyped, GestureTyped

LEMMA TypedInit == ASSUME InitScroll PROVE Typed
BY EmptySeq, WindowAssumption DEF InitScroll, Init, Typed, StateTyped, WireTyped

(* The types hold from the start.                                          *)
LEMMA TypedHolds == Spec => []Typed
<1>1. InitScroll => Typed
  BY TypedInit
<1>2. Typed /\ [Next]_vars => Typed'
  BY TypedStep
<1>3. QED
  BY <1>1, <1>2, PTL DEF Spec

-----------------------------------------------------------------------------
(* wlscroll's marks are what the group without a frame has said so far,    *)
(* and a client that hears no frames keeps nothing of an axis.             *)
Marks == {"axis", "discrete", "source", "stop"}
GroupTyped ==
  /\ have \subseteq Marks /\ axis \in Axes /\ groups \in Nat /\ due \in Nat
  /\ said \subseteq PointerEvents /\ of \subseteq PointerEvents
MarksTell == \A op \in Marks : op \in have <=> Told(said, op)
AxisTells ==
  /\ AxesOf(said) # {} => axis \in AxesOf(said)
  /\ ~Framed => AxesOf(said) = {}
LineInv == GroupTyped /\ MarksTell /\ AxisTells /\ LineTellsGroup

LEMMA AxesAdded ==
  ASSUME NEW g, NEW e \in PointerEvents
  PROVE  /\ e.op \in {"axis", "stop"} => AxesOf(g \cup {e}) = AxesOf(g) \cup {e.axis}
         /\ e.op \notin {"axis", "stop"} => AxesOf(g \cup {e}) = AxesOf(g)
         /\ \A op : Told(g \cup {e}, op) <=> (Told(g, op) \/ e.op = op)
BY DEF AxesOf, Told

LEMMA NoAxes == /\ AxesOf({}) = {} /\ \A op : ~Told({}, op)
                /\ Cardinality(AxesOf({})) # 1
BY FS_EmptySet DEF AxesOf, Told

LEMMA AxesScroll ==
  ASSUME NEW g \in SUBSET PointerEvents
  PROVE  /\ AxesOf(g) \subseteq Axes
         /\ Scrolls(g) <=> AxesOf(g) # {}
         /\ Scrolls(g) <=> (Told(g, "axis") \/ Told(g, "stop"))
BY DEF AxesOf, Scrolls, Told, PointerEvents

(* Nothing heard of the pointer, nothing changed of the group.             *)
LEMMA GroupStays ==
  ASSUME LineInv, UNCHANGED <<have, axis, groups, said, due>>, of' = {}, Framed => Framed'
  PROVE  LineInv'
<1>1. GroupTyped' /\ MarksTell'
  BY DEF LineInv, GroupTyped, MarksTell, Told
<1>2. AxisTells'
  BY DEF LineInv, AxisTells, AxesOf
<1>3. LineTellsGroup'
  <2>1. Cardinality(AxesOf({})) # 1
    BY NoAxes
  <2>2. groups' = due'
    BY DEF LineInv, LineTellsGroup
  <2>3. QED
    BY <2>1, <2>2 DEF LineTellsGroup, AxesOf
<1>4. QED
  BY <1>1, <1>2, <1>3 DEF LineInv

(* What is added to a group is marked.                                     *)
LEMMA GroupGrows ==
  ASSUME LineInv, UNCHANGED <<groups, due, bound>>, of' = {},
         NEW e \in PointerEvents, said' = said \cup {e},
         have' = have \cup ({e.op} \cap Marks),
         axis' = IF e.op \in {"axis", "stop"} THEN e.axis ELSE axis,
         e.op \in {"axis", "stop"} => Framed
  PROVE  LineInv'
<1>1. GroupTyped'
  BY DEF LineInv, GroupTyped, PointerEvents
<1>2. MarksTell'
  BY AxesAdded DEF LineInv, MarksTell, Told
<1>3. AxisTells'
  <2>1. Framed' = Framed
    BY DEF Framed
  <2>2. CASE e.op \in {"axis", "stop"}
    BY <2>1, <2>2, AxesAdded DEF LineInv, AxisTells, AxesOf
  <2>3. CASE e.op \notin {"axis", "stop"}
    BY <2>1, <2>3, AxesAdded DEF LineInv, AxisTells, AxesOf
  <2>4. QED
    BY <2>2, <2>3
<1>4. LineTellsGroup'
  <2>1. Cardinality(AxesOf({})) # 1
    BY NoAxes
  <2>2. groups' = due'
    BY DEF LineInv, LineTellsGroup
  <2>3. QED
    BY <2>1, <2>2 DEF LineTellsGroup, AxesOf
<1>5. QED
  BY <1>1, <1>2, <1>3, <1>4 DEF LineInv

LEMMA PointerHeard ==
  ASSUME Typed, NEW op \in {"axis", "discrete", "stop", "source", "motion"}, Event(op)
  PROVE  /\ Head(queue) \in PointerEvents /\ Head(queue).op = op
         /\ op = "stop" => Framed
<1>1. Head(queue) \in Sent
  BY HeadTailProperties DEF Typed, WireTyped, Event, Dispatching
<1>2. QED
  BY <1>1 DEF Sent, Events, PointerEvents, Event, Dispatching

(* A client that hears no frames prints at once, and marks nothing.        *)
LEMMA AxisAlone == ASSUME Typed, LineInv, PtAxis, ~Framed PROVE LineInv'
<1> DEFINE e == Head(queue)
<1>1. e \in PointerEvents /\ e.op = "axis"
  BY PointerHeard DEF PtAxis
<1>2. /\ groups' = groups + 1 /\ due' = due + 1 /\ of' = {e} /\ axis' = e.axis
      /\ line' = [axis |-> e.axis, stop |-> FALSE, discrete |-> FALSE, source |-> FALSE]
      /\ have' = have \ {"axis"} /\ UNCHANGED <<said, bound>>
  BY DEF PtAxis, Noted, client
<1>3. "axis" \notin have
  <2>1. ~Scrolls(said)
    BY AxesScroll DEF LineInv, AxisTells, GroupTyped
  <2>2. QED
    BY <2>1, AxesScroll DEF LineInv, MarksTell, GroupTyped, Marks
<1>4. have' = have
  BY <1>2, <1>3
<1>5. GroupTyped'
  BY <1>1, <1>2, <1>4 DEF LineInv, GroupTyped, PointerEvents
<1>6. MarksTell' /\ AxisTells'
  BY <1>2, <1>4 DEF LineInv, MarksTell, AxisTells, AxesOf, Told, Framed
<1>7. LineTellsGroup'
  <2>1. AxesOf({e}) = {e.axis} /\ e.axis \in Axes
    BY <1>1 DEF AxesOf, PointerEvents
  <2>2. /\ Told({e}, "stop") = FALSE
        /\ (~Told({e}, "stop") /\ Told({e}, "discrete")) = FALSE
        /\ (~Told({e}, "stop") /\ Told({e}, "source")) = FALSE
    BY <1>1 DEF Told
  <2>3. (CHOOSE a \in Axes : a \in AxesOf({e})) = e.axis
    BY <2>1
  <2>4. Summary({e}) = [axis |-> e.axis, stop |-> FALSE, discrete |-> FALSE, source |-> FALSE]
    BY <2>2, <2>3, Zenon DEF Summary
  <2>5. groups' = due'
    BY <1>2 DEF LineInv, LineTellsGroup
  <2>6. line' = Summary(of')
    BY <1>2, <2>4
  <2>7. QED
    BY <2>5, <2>6 DEF LineTellsGroup, Summary, Told, AxesOf
<1>8. QED
  BY <1>5, <1>6, <1>7 DEF LineInv

(* At a frame the marks tell the group that ends, and are gone.            *)
LEMMA FrameTells == ASSUME Typed, LineInv, PtFrame PROVE LineInv'
<1>1. UNCHANGED <<axis, bound>> /\ said' = {}
  BY DEF PtFrame, Noted, FrameEnds, client
<1>2. have \subseteq Marks /\ said \subseteq PointerEvents /\ groups = due /\ groups \in Nat
      /\ due \in Nat /\ axis \in Axes
  BY DEF LineInv, GroupTyped, LineTellsGroup
<1>3. Scrolls(said) <=> have \cap {"axis", "stop"} # {}
  BY <1>2, AxesScroll DEF LineInv, MarksTell, Marks
<1>4. have' = {}
  BY <1>2, <1>3 DEF PtFrame, Marks
<1>5. MarksTell' /\ AxisTells'
  BY <1>1, <1>4, NoAxes DEF MarksTell, AxisTells, Told, AxesOf
<1>6. CASE ~Scrolls(said)
  <2>1. UNCHANGED <<groups, due>> /\ of' = {}
    BY <1>3, <1>6 DEF PtFrame, FrameEnds
  <2>2. GroupTyped'
    BY <1>1, <1>2, <1>4, <2>1 DEF GroupTyped
  <2>3. LineTellsGroup'
    BY <1>2, <2>1, NoAxes DEF LineTellsGroup, AxesOf
  <2>4. QED
    BY <1>5, <2>2, <2>3 DEF LineInv
<1>7. CASE Scrolls(said)
  <2>1. groups' = groups + 1 /\ due' = due + 1 /\ of' = said /\ line' = Printed
    BY <1>3, <1>7 DEF PtFrame, FrameEnds
  <2>2. GroupTyped'
    BY <1>1, <1>2, <1>4, <2>1 DEF GroupTyped
  <2>3. ASSUME Cardinality(AxesOf(said)) = 1 PROVE Printed = Summary(said)
    <3>1. AxesOf(said) # {} /\ AxesOf(said) \subseteq Axes
      BY <1>2, <1>7, AxesScroll
    <3>2. axis \in AxesOf(said)
      BY <3>1 DEF LineInv, AxisTells
    <3>3. AxesOf(said) = {axis}
      <4>1. IsFiniteSet(Axes)
        <5>1. IsFiniteSet({"vertical"}) /\ Axes = {"vertical"} \cup {"horizontal"}
          BY FS_Singleton DEF Axes
        <5>2. QED
          BY <5>1, FS_AddElement
      <4>2. IsFiniteSet(AxesOf(said))
        BY <3>1, <4>1, FS_Subset
      <4>3. QED
        BY <2>3, <3>2, <4>2, FS_Singleton
    <3>4. (CHOOSE a \in Axes : a \in AxesOf(said)) = axis
      BY <1>2, <3>3
    <3>5. /\ "stop" \in have <=> Told(said, "stop")
          /\ "discrete" \in have <=> Told(said, "discrete")
          /\ "source" \in have <=> Told(said, "source")
      BY DEF LineInv, MarksTell, Marks
    <3>6. CASE "stop" \in have
      <4>1. /\ Told(said, "stop") = TRUE
            /\ (~Told(said, "stop") /\ Told(said, "discrete")) = FALSE
            /\ (~Told(said, "stop") /\ Told(said, "source")) = FALSE
        BY <3>5, <3>6 DEF Told
      <4>2. QED
        BY <3>4, <3>6, <4>1, Zenon DEF Printed, Summary
    <3>7. CASE "stop" \notin have
      <4>1. /\ Told(said, "stop") = FALSE
            /\ (~Told(said, "stop") /\ Told(said, "discrete")) = ("discrete" \in have)
            /\ (~Told(said, "stop") /\ Told(said, "source")) = ("source" \in have)
        BY <3>5, <3>7 DEF Told
      <4>2. QED
        BY <3>4, <3>7, <4>1, Zenon DEF Printed, Summary
    <3>8. QED
      BY <3>6, <3>7
  <2>4. Cardinality(AxesOf(of')) = 1 => line' = Summary(of')
    BY <2>1, <2>3
  <2>5. LineTellsGroup'
    BY <1>2, <2>1, <2>4 DEF LineTellsGroup, Summary, Told, AxesOf
  <2>6. QED
    BY <1>5, <2>2, <2>5 DEF LineInv
<1>8. QED
  BY <1>6, <1>7

LEMMA PointerKeeps == ASSUME Typed, LineInv, Pt PROVE LineInv'
<1> DEFINE e == Head(queue)
<1>1. CASE PtAxis /\ Framed
  <2>1. e \in PointerEvents /\ e.op = "axis"
    BY <1>1, PointerHeard DEF PtAxis
  <2>2. /\ UNCHANGED <<groups, due, bound>> /\ of' = {} /\ said' = said \cup {e}
        /\ axis' = e.axis /\ have' = have \cup {"axis"}
    BY <1>1 DEF PtAxis, Noted, Silent, client
  <2>3. {e.op} \cap Marks = {"axis"}
    BY <2>1 DEF Marks
  <2>4. QED
    BY <1>1, <2>1, <2>2, <2>3, GroupGrows
<1>2. CASE PtSay
  <2>1. e \in PointerEvents /\ e.op \in {"source", "discrete"}
    BY <1>2, PointerHeard DEF PtSay
  <2>2. /\ UNCHANGED <<groups, due, bound, axis>> /\ of' = {} /\ said' = said \cup {e}
        /\ have' = have \cup {e.op}
    BY <1>2 DEF PtSay, Noted, Silent, client
  <2>3. {e.op} \cap Marks = {e.op}
    BY <2>1 DEF Marks
  <2>4. QED
    BY <2>1, <2>2, <2>3, GroupGrows
<1>3. CASE PtAxisStop
  <2>1. e \in PointerEvents /\ e.op = "stop" /\ Framed
    BY <1>3, PointerHeard DEF PtAxisStop
  <2>2. /\ UNCHANGED <<groups, due, bound>> /\ of' = {} /\ said' = said \cup {e}
        /\ axis' = e.axis /\ have' = have \cup {"stop"}
    BY <1>3 DEF PtAxisStop, Noted, Silent, client
  <2>3. {e.op} \cap Marks = {"stop"}
    BY <2>1 DEF Marks
  <2>4. QED
    BY <2>1, <2>2, <2>3, GroupGrows
<1>4. CASE PtOther
  <2>1. e \in PointerEvents /\ e.op = "motion"
    BY <1>4, PointerHeard DEF PtOther
  <2>2. /\ UNCHANGED <<groups, due, bound, axis, have>> /\ of' = {} /\ said' = said \cup {e}
    BY <1>4 DEF PtOther, Noted, Silent, client
  <2>3. {e.op} \cap Marks = {}
    BY <2>1 DEF Marks
  <2>4. QED
    BY <2>1, <2>2, <2>3, GroupGrows
<1>5. QED
  BY <1>1, <1>2, <1>3, <1>4, AxisAlone, FrameTells DEF Pt

(* A program that has bound a seat has bound it for good.                  *)
LEMMA FramedStays == ASSUME Typed, HandleGlobal PROVE Framed => Framed'
<1> DEFINE i == Head(queue).interface
           v == Global(i, Head(queue).version)
<1>1. i \in Interfaces /\ Head(queue).version = offer[i]
  BY BoundAsTold
<1>2. bound' = bound \/ (bound' = [bound EXCEPT ![i] = v] /\ v # 0)
  <2>1. CASE v = 0
    BY <2>1 DEF HandleGlobal
  <2>2. CASE v # 0
    BY <2>2 DEF HandleGlobal
  <2>3. QED
    BY <2>1, <2>2
<1>3. QED
  BY <1>1, <1>2 DEF Typed, StateTyped, Framed, Interfaces

LEMMA LineStep == ASSUME Typed, LineInv, [Next]_vars PROVE LineInv'
<1>1. CASE Pt
  BY <1>1, PointerKeeps
<1>2. CASE UNCHANGED vars
  BY <1>2 DEF vars, windowVars, client, scroll, LineInv, GroupTyped, MarksTell, AxisTells,
     LineTellsGroup, Told, AxesOf, Framed, Summary
<1>3. CASE Next /\ ~Pt
  <2>1. UNCHANGED <<have, axis, groups, said, due>> /\ of' = {}
    BY <1>3 DEF Next, Client, Apart, Gesture, Clock, Otherwise, Silent
  <2>2. Framed => Framed'
    <3>1. CASE HandleGlobal
      BY <3>1, FramedStays
    <3>2. CASE ~HandleGlobal
      <4>1. bound' = bound
        <5>1. CASE ClientStep(Stop)
          BY <3>2, <5>1 DEF ClientStep, GetRegistry, Roundtrip, Returned, CheckGlobals, Listen,
             MakePool, MakeWindow, CheckConfigured, AttachOnce, GetDevice, GetSeat, FirstDraw,
             Again, Flush, Read, HandleDone, HandleFormat, SurfaceConfigure, ToplevelClose,
             WmBasePing, FrameDone, SurfaceEnters, HandleInput, HandleEnd, Goes, client
        <5>2. CASE Compositor
          BY <5>2 DEF Compositor, Takes, TakeRegistry, TakeSync, TakeBind, TakeToplevel, TakeAck,
             TakeCommit, TakePong, TakeOther, Configure, Ping, ShowFrame, Input, AskToClose,
             Leave, client
        <5>3. QED
          BY <1>3, <5>1, <5>2 DEF Next, Client, Gesture, Clock, client, windowVars
      <4>2. QED
        BY <4>1 DEF Framed
    <3>3. QED
      BY <3>1, <3>2
  <2>3. QED
    BY <2>1, <2>2, GroupStays
<1>4. QED
  BY <1>1, <1>2, <1>3

LEMMA LineHolds == Spec => []LineInv
<1>1. InitScroll => LineInv
  BY NoAxes DEF InitScroll, LineInv, GroupTyped, MarksTell, AxisTells, LineTellsGroup, Marks, Axes
<1>2. LineInv /\ Typed /\ [Next]_vars => LineInv'
  BY LineStep
<1>3. QED
  BY <1>1, <1>2, TypedHolds, PTL DEF Spec

(* One line is printed for each group that scrolls or stops, and it tells  *)
(* what its own group said, for any gestures and any compositor            *)
(* (toolchain/wlscroll.c:137-222).                                         *)
THEOREM LineTellsGroupHolds == Spec => []LineTellsGroup
<1>1. LineInv => LineTellsGroup
  BY DEF LineInv
<1>2. QED
  BY <1>1, LineHolds, PTL

-----------------------------------------------------------------------------
(* Messages are looked at in the order in which they are handled.  There   *)
(* is one of a set among them; each of one set is behind one of another;   *)
(* there is no second of a set; serials rise; and there are so many.       *)
Has(s, O) == \E n \in 1..Len(s) : s[n] \in O
Behind(s, C, O) == \A n \in 1..Len(s) : s[n] \in C => \E m \in 1..Len(s) : m < n /\ s[m] \in O
Lone(s, C) == \A m, n \in 1..Len(s) : s[m] \in C /\ s[n] \in C => m = n
Rising(s, C) ==
  \A m, n \in 1..Len(s) : m < n /\ s[m] \in C /\ s[n] \in C => s[m].serial < s[n].serial
Among(s) == {s[n] : n \in 1..Len(s)}
Below(s, t, C) == \A x \in Among(s) \cap C, y \in Among(t) \cap C : x.serial < y.serial
Within(s, C, low, high) == \A x \in Among(s) \cap C : x.serial \in low..high
Places(s, C) == {n \in 1..Len(s) : s[n] \in C}
Count(s, C) == Cardinality(Places(s, C))

LEMMA JoinedHas ==
  ASSUME NEW S, NEW s \in Seq(S), NEW t \in Seq(S), NEW O
  PROVE  Has(s \o t, O) <=> Has(s, O) \/ Has(t, O)
<1>1. /\ Len(s) \in Nat /\ Len(t) \in Nat /\ Len(s \o t) = Len(s) + Len(t)
      /\ \A i \in 1..(Len(s) + Len(t)) : (s \o t)[i] = IF i <= Len(s) THEN s[i] ELSE t[i - Len(s)]
  BY ConcatProperties, LenProperties
<1>2. ASSUME Has(s \o t, O) PROVE Has(s, O) \/ Has(t, O)
  <2>1. PICK n \in 1..(Len(s) + Len(t)) : (s \o t)[n] \in O
    BY <1>1, <1>2 DEF Has
  <2>2. CASE n <= Len(s)
    BY <1>1, <2>1, <2>2 DEF Has
  <2>3. CASE ~(n <= Len(s))
    <3>1. n - Len(s) \in 1..Len(t) /\ t[n - Len(s)] \in O
      BY <1>1, <2>1, <2>3
    <3>2. QED
      BY <3>1 DEF Has
  <2>4. QED
    BY <2>2, <2>3
<1>3. ASSUME Has(s, O) PROVE Has(s \o t, O)
  BY <1>1, <1>3 DEF Has
<1>4. ASSUME Has(t, O) PROVE Has(s \o t, O)
  <2>1. PICK n \in 1..Len(t) : t[n] \in O
    BY <1>4 DEF Has
  <2>2. n + Len(s) \in 1..(Len(s) + Len(t)) /\ (s \o t)[n + Len(s)] = t[n]
    BY <1>1, <2>1
  <2>3. QED
    BY <1>1, <2>1, <2>2 DEF Has
<1>5. QED
  BY <1>2, <1>3, <1>4

LEMMA JoinedBehind ==
  ASSUME NEW S, NEW s \in Seq(S), NEW t \in Seq(S), NEW C, NEW O
  PROVE  Behind(s \o t, C, O) <=> Behind(s, C, O) /\ (Has(s, O) \/ Behind(t, C, O))
<1>1. /\ Len(s) \in Nat /\ Len(t) \in Nat /\ Len(s \o t) = Len(s) + Len(t)
      /\ \A i \in 1..(Len(s) + Len(t)) : (s \o t)[i] = IF i <= Len(s) THEN s[i] ELSE t[i - Len(s)]
  BY ConcatProperties, LenProperties
<1>2. \A n \in 1..Len(t) : n + Len(s) \in 1..(Len(s) + Len(t)) /\ (s \o t)[n + Len(s)] = t[n]
  BY <1>1
<1>3. ASSUME Behind(s \o t, C, O) PROVE Behind(s, C, O)
  BY <1>1, <1>3 DEF Behind
<1>4. ASSUME Behind(s \o t, C, O), ~Has(s, O) PROVE Behind(t, C, O)
  <2>1. SUFFICES ASSUME NEW n \in 1..Len(t), t[n] \in C
                 PROVE  \E m \in 1..Len(t) : m < n /\ t[m] \in O
    BY DEF Behind
  <2>2. PICK k \in 1..(Len(s) + Len(t)) : k < n + Len(s) /\ (s \o t)[k] \in O
    BY <1>1, <1>2, <1>4, <2>1 DEF Behind
  <2>3. ~(k <= Len(s))
    BY <1>1, <1>4, <2>2 DEF Has
  <2>4. k - Len(s) \in 1..Len(t) /\ k - Len(s) < n /\ t[k - Len(s)] \in O
    BY <1>1, <2>2, <2>3
  <2>5. QED
    BY <2>4
<1>5. ASSUME Behind(s, C, O), Has(s, O) \/ Behind(t, C, O) PROVE Behind(s \o t, C, O)
  <2>1. SUFFICES ASSUME NEW n \in 1..(Len(s) + Len(t)), (s \o t)[n] \in C
                 PROVE  \E m \in 1..(Len(s) + Len(t)) : m < n /\ (s \o t)[m] \in O
    BY <1>1 DEF Behind
  <2>2. CASE n <= Len(s)
    <3>1. PICK m \in 1..Len(s) : m < n /\ s[m] \in O
      BY <1>1, <1>5, <2>1, <2>2, SMTT(30) DEF Behind
    <3>2. QED
      BY <1>1, <3>1
  <2>3. CASE ~(n <= Len(s)) /\ Has(s, O)
    <3>1. PICK m \in 1..Len(s) : s[m] \in O
      BY <2>3 DEF Has
    <3>2. QED
      BY <1>1, <2>3, <3>1
  <2>4. CASE ~(n <= Len(s)) /\ Behind(t, C, O)
    <3>1. n - Len(s) \in 1..Len(t) /\ t[n - Len(s)] \in C
      BY <1>1, <2>1, <2>4
    <3>2. PICK m \in 1..Len(t) : m < n - Len(s) /\ t[m] \in O
      BY <2>4, <3>1 DEF Behind
    <3>3. m + Len(s) \in 1..(Len(s) + Len(t)) /\ m + Len(s) < n /\ (s \o t)[m + Len(s)] \in O
      BY <1>1, <1>2, <3>2
    <3>4. QED
      BY <3>3
  <2>5. QED
    BY <1>5, <2>2, <2>3, <2>4
<1>6. QED
  BY <1>3, <1>4, <1>5

LEMMA JoinedLone ==
  ASSUME NEW S, NEW s \in Seq(S), NEW t \in Seq(S), NEW C
  PROVE  Lone(s \o t, C) <=> Lone(s, C) /\ Lone(t, C) /\ ~(Has(s, C) /\ Has(t, C))
<1>1. /\ Len(s) \in Nat /\ Len(t) \in Nat /\ Len(s \o t) = Len(s) + Len(t)
      /\ \A i \in 1..(Len(s) + Len(t)) : (s \o t)[i] = IF i <= Len(s) THEN s[i] ELSE t[i - Len(s)]
  BY ConcatProperties, LenProperties
<1>2. \A n \in 1..Len(t) : n + Len(s) \in 1..(Len(s) + Len(t)) /\ (s \o t)[n + Len(s)] = t[n]
  BY <1>1
<1>3. ASSUME Lone(s \o t, C) PROVE Lone(s, C) /\ Lone(t, C) /\ ~(Has(s, C) /\ Has(t, C))
  <2>1. Lone(s, C)
    BY <1>1, <1>3 DEF Lone
  <2>2. Lone(t, C)
    <3>1. SUFFICES ASSUME NEW m \in 1..Len(t), NEW n \in 1..Len(t), t[m] \in C, t[n] \in C
                   PROVE  m = n
      BY DEF Lone
    <3>2. m + Len(s) = n + Len(s)
      BY <1>1, <1>2, <1>3, <3>1 DEF Lone
    <3>3. QED
      BY <1>1, <3>2
  <2>3. ASSUME NEW m \in 1..Len(s), NEW n \in 1..Len(t), s[m] \in C, t[n] \in C PROVE FALSE
    <3>1. m = n + Len(s)
      BY <1>1, <1>2, <1>3, <2>3 DEF Lone
    <3>2. QED
      BY <1>1, <3>1
  <2>4. QED
    BY <2>1, <2>2, <2>3 DEF Has
<1>4. ASSUME Lone(s, C), Lone(t, C), ~(Has(s, C) /\ Has(t, C)) PROVE Lone(s \o t, C)
  <2>1. SUFFICES ASSUME NEW m \in 1..(Len(s) + Len(t)), NEW n \in 1..(Len(s) + Len(t)),
                        (s \o t)[m] \in C, (s \o t)[n] \in C
                 PROVE  m = n
    BY <1>1 DEF Lone
  <2>2. \A k \in {m, n} : IF k <= Len(s) THEN Has(s, C) ELSE Has(t, C)
    <3>1. \A k \in {m, n} : k <= Len(s) => k \in 1..Len(s) /\ s[k] \in C
      BY <1>1, <2>1
    <3>2. \A k \in {m, n} : ~(k <= Len(s)) => k - Len(s) \in 1..Len(t) /\ t[k - Len(s)] \in C
      BY <1>1, <2>1
    <3>3. QED
      BY <3>1, <3>2 DEF Has
  <2>3. CASE m <= Len(s) /\ n <= Len(s)
    BY <1>1, <1>4, <2>1, <2>3 DEF Lone
  <2>4. CASE ~(m <= Len(s)) /\ ~(n <= Len(s))
    <3>1. /\ m - Len(s) \in 1..Len(t) /\ t[m - Len(s)] \in C
          /\ n - Len(s) \in 1..Len(t) /\ t[n - Len(s)] \in C
      BY <1>1, <2>1, <2>4
    <3>2. m - Len(s) = n - Len(s)
      BY <1>4, <3>1 DEF Lone
    <3>3. QED
      BY <1>1, <3>2
  <2>5. QED
    BY <1>4, <2>2, <2>3, <2>4
<1>5. QED
  BY <1>3, <1>4

LEMMA JoinedRising ==
  ASSUME NEW S, NEW s \in Seq(S), NEW t \in Seq(S), NEW C
  PROVE  Rising(s \o t, C) <=> Rising(s, C) /\ Rising(t, C) /\ Below(s, t, C)
<1>1. /\ Len(s) \in Nat /\ Len(t) \in Nat /\ Len(s \o t) = Len(s) + Len(t)
      /\ \A i \in 1..(Len(s) + Len(t)) : (s \o t)[i] = IF i <= Len(s) THEN s[i] ELSE t[i - Len(s)]
  BY ConcatProperties, LenProperties
<1>2. \A n \in 1..Len(t) : n + Len(s) \in 1..(Len(s) + Len(t)) /\ (s \o t)[n + Len(s)] = t[n]
  BY <1>1
<1>3. \A n \in 1..Len(s) : n \in 1..(Len(s) + Len(t)) /\ (s \o t)[n] = s[n]
  BY <1>1
<1>4. ASSUME Rising(s \o t, C) PROVE Rising(s, C) /\ Rising(t, C) /\ Below(s, t, C)
  <2>1. Rising(s, C)
    BY <1>1, <1>3, <1>4 DEF Rising
  <2>2. Rising(t, C)
    <3>1. SUFFICES ASSUME NEW m \in 1..Len(t), NEW n \in 1..Len(t), m < n, t[m] \in C, t[n] \in C
                   PROVE  t[m].serial < t[n].serial
      BY DEF Rising
    <3>2. m + Len(s) < n + Len(s)
      BY <1>1, <3>1
    <3>3. QED
      BY <1>1, <1>2, <1>4, <3>1, <3>2 DEF Rising
  <2>3. Below(s, t, C)
    <3>1. SUFFICES ASSUME NEW m \in 1..Len(s), NEW n \in 1..Len(t), s[m] \in C, t[n] \in C
                   PROVE  s[m].serial < t[n].serial
      BY DEF Below, Among
    <3>2. m < n + Len(s)
      BY <1>1
    <3>3. QED
      BY <1>1, <1>2, <1>3, <1>4, <3>1, <3>2 DEF Rising
  <2>4. QED
    BY <2>1, <2>2, <2>3
<1>5. ASSUME Rising(s, C), Rising(t, C), Below(s, t, C) PROVE Rising(s \o t, C)
  <2>1. SUFFICES ASSUME NEW m \in 1..(Len(s) + Len(t)), NEW n \in 1..(Len(s) + Len(t)), m < n,
                        (s \o t)[m] \in C, (s \o t)[n] \in C
                 PROVE  (s \o t)[m].serial < (s \o t)[n].serial
    BY <1>1 DEF Rising
  <2>2. CASE n <= Len(s)
    <3>1. m \in 1..Len(s) /\ n \in 1..Len(s) /\ (s \o t)[m] = s[m] /\ (s \o t)[n] = s[n]
      BY <1>1, <2>1, <2>2
    <3>2. QED
      BY <1>5, <2>1, <3>1 DEF Rising
  <2>3. CASE m <= Len(s) /\ ~(n <= Len(s))
    <3>1. /\ m \in 1..Len(s) /\ n - Len(s) \in 1..Len(t)
          /\ (s \o t)[m] = s[m] /\ (s \o t)[n] = t[n - Len(s)]
      BY <1>1, <2>1, <2>3
    <3>2. QED
      BY <1>5, <2>1, <3>1 DEF Below, Among
  <2>4. CASE ~(m <= Len(s))
    <3>1. /\ m - Len(s) \in 1..Len(t) /\ n - Len(s) \in 1..Len(t) /\ m - Len(s) < n - Len(s)
          /\ (s \o t)[m] = t[m - Len(s)] /\ (s \o t)[n] = t[n - Len(s)]
      BY <1>1, <2>1, <2>4
    <3>2. QED
      BY <1>5, <2>1, <3>1 DEF Rising
  <2>5. QED
    BY <1>1, <2>1, <2>2, <2>3, <2>4
<1>6. QED
  BY <1>4, <1>5

LEMMA JoinedAmong ==
  ASSUME NEW S, NEW s \in Seq(S), NEW t \in Seq(S)
  PROVE  Among(s \o t) = Among(s) \cup Among(t)
<1>1. /\ Len(s) \in Nat /\ Len(t) \in Nat /\ Len(s \o t) = Len(s) + Len(t)
      /\ \A i \in 1..(Len(s) + Len(t)) : (s \o t)[i] = IF i <= Len(s) THEN s[i] ELSE t[i - Len(s)]
  BY ConcatProperties, LenProperties
<1>2. \A n \in 1..Len(t) : n + Len(s) \in 1..(Len(s) + Len(t)) /\ (s \o t)[n + Len(s)] = t[n]
  BY <1>1
<1>3. \A n \in 1..Len(s) : n \in 1..(Len(s) + Len(t)) /\ (s \o t)[n] = s[n]
  BY <1>1
<1>4. Among(s) \subseteq Among(s \o t) /\ Among(t) \subseteq Among(s \o t)
  <2>1. \A n \in 1..Len(s) : s[n] \in Among(s \o t)
    <3>1. \A k \in 1..Len(s \o t) : (s \o t)[k] \in Among(s \o t)
      BY DEF Among
    <3>2. QED
      BY <1>1, <1>3, <3>1
  <2>2. \A n \in 1..Len(t) : t[n] \in Among(s \o t)
    <3>1. \A k \in 1..Len(s \o t) : (s \o t)[k] \in Among(s \o t)
      BY DEF Among
    <3>2. QED
      BY <1>1, <1>2, <3>1
  <2>3. QED
    BY <2>1, <2>2 DEF Among
<1>5. ASSUME NEW k \in 1..Len(s \o t) PROVE (s \o t)[k] \in Among(s) \cup Among(t)
  <2>1. CASE k <= Len(s)
    <3>1. k \in 1..Len(s) /\ (s \o t)[k] = s[k]
      BY <1>1, <2>1
    <3>2. QED
      BY <3>1 DEF Among
  <2>2. CASE ~(k <= Len(s))
    <3>1. k - Len(s) \in 1..Len(t) /\ (s \o t)[k] = t[k - Len(s)]
      BY <1>1, <2>2
    <3>2. QED
      BY <3>1 DEF Among
  <2>3. QED
    BY <2>1, <2>2
<1>6. QED
  BY <1>4, <1>5 DEF Among

LEMMA JoinedBelow ==
  ASSUME NEW S, NEW s \in Seq(S), NEW t \in Seq(S), NEW u, NEW C
  PROVE  /\ Below(s \o t, u, C) <=> Below(s, u, C) /\ Below(t, u, C)
         /\ Below(u, s \o t, C) <=> Below(u, s, C) /\ Below(u, t, C)
BY JoinedAmong DEF Below

LEMMA JoinedWithin ==
  ASSUME NEW S, NEW s \in Seq(S), NEW t \in Seq(S), NEW C, NEW low, NEW high
  PROVE  Within(s \o t, C, low, high) <=> Within(s, C, low, high) /\ Within(t, C, low, high)
BY JoinedAmong DEF Within

LEMMA PlacesAreFinite ==
  ASSUME NEW S, NEW s \in Seq(S), NEW C
  PROVE  IsFiniteSet(Places(s, C)) /\ Count(s, C) \in Nat
<1>1. Len(s) \in Nat
  BY LenProperties
<1>2. IsFiniteSet(1..Len(s)) /\ Places(s, C) \subseteq 1..Len(s)
  BY <1>1, FS_Interval DEF Places
<1>3. QED
  BY <1>2, FS_Subset, FS_CardinalityType DEF Count

LEMMA JoinedCount ==
  ASSUME NEW S, NEW s \in Seq(S), NEW t \in Seq(S), NEW C
  PROVE  Count(s \o t, C) = Count(s, C) + Count(t, C)
<1> DEFINE there == {n + Len(s) : n \in Places(t, C)}
<1>1. /\ Len(s) \in Nat /\ Len(t) \in Nat /\ Len(s \o t) = Len(s) + Len(t)
      /\ \A i \in 1..(Len(s) + Len(t)) : (s \o t)[i] = IF i <= Len(s) THEN s[i] ELSE t[i - Len(s)]
  BY ConcatProperties, LenProperties
<1>2. /\ IsFiniteSet(Places(s, C)) /\ Count(s, C) \in Nat
      /\ IsFiniteSet(Places(t, C)) /\ Count(t, C) \in Nat
  BY PlacesAreFinite
<1>3. \A n \in Places(s, C) : n \in 1..Len(s) /\ s[n] \in C
  BY DEF Places
<1>4. \A n \in Places(t, C) : n \in 1..Len(t) /\ t[n] \in C
  BY DEF Places
<1>5. Places(s \o t, C) = Places(s, C) \cup there
  <2>1. ASSUME NEW n \in Places(s, C) PROVE n \in Places(s \o t, C)
    BY <1>1, <1>3, <2>1 DEF Places
  <2>2. ASSUME NEW n \in Places(t, C) PROVE n + Len(s) \in Places(s \o t, C)
    <3>1. n \in 1..Len(t) /\ t[n] \in C
      BY <1>4
    <3>2. n + Len(s) \in 1..(Len(s) + Len(t)) /\ (s \o t)[n + Len(s)] = t[n]
      BY <1>1, <3>1
    <3>3. QED
      BY <1>1, <3>1, <3>2 DEF Places
  <2>3. ASSUME NEW k \in Places(s \o t, C) PROVE k \in Places(s, C) \cup there
    <3>1. k \in 1..(Len(s) + Len(t)) /\ (s \o t)[k] \in C
      BY <1>1 DEF Places
    <3>2. CASE k <= Len(s)
      BY <1>1, <3>1, <3>2 DEF Places
    <3>3. CASE ~(k <= Len(s))
      <4>1. k - Len(s) \in 1..Len(t) /\ t[k - Len(s)] \in C /\ k = (k - Len(s)) + Len(s)
        BY <1>1, <3>1, <3>3
      <4>2. QED
        BY <4>1 DEF Places
    <3>4. QED
      BY <3>2, <3>3
  <2>4. QED
    BY <2>1, <2>2, <2>3
<1>6. Places(s, C) \cap there = {}
  BY <1>1, <1>3, <1>4
<1>7. IsFiniteSet(there) /\ Cardinality(there) = Cardinality(Places(t, C))
  <2> DEFINE f == [n \in Places(t, C) |-> n + Len(s)]
  <2>1. f \in Bijection(Places(t, C), there)
    <3>1. f \in [Places(t, C) -> there] /\ \A y \in there : \E n \in Places(t, C) : f[n] = y
      OBVIOUS
    <3>2. \A m, n \in Places(t, C) : f[m] = f[n] => m = n
      BY <1>1, <1>4
    <3>3. QED
      BY <3>1, <3>2 DEF Bijection, Injection, Surjection, IsInjective
  <2>2. QED
    BY <1>2, <2>1, FS_Bijection DEF ExistsBijection
<1>8. Cardinality(Places(s, C) \cup there) = Cardinality(Places(s, C)) + Cardinality(there) - 0
  BY <1>2, <1>6, <1>7, FS_Union, FS_EmptySet
<1>9. QED
  BY <1>2, <1>5, <1>7, <1>8 DEF Count

(* Of one message, and of none.                                            *)
LEMMA CountOne ==
  ASSUME NEW x, NEW C
  PROVE  /\ Count(<<x>>, C) = IF x \in C THEN 1 ELSE 0
         /\ Count(<< >>, C) = 0
<1>1. Len(<<x>>) = 1 /\ <<x>>[1] = x /\ 1..1 = {1} /\ Len(<< >>) = 0 /\ 1..0 = {}
  OBVIOUS
<1>2. Places(<<x>>, C) = (IF x \in C THEN {1} ELSE {}) /\ Places(<< >>, C) = {}
  BY <1>1 DEF Places
<1>3. Cardinality({1}) = 1 /\ Cardinality({}) = 0
  BY FS_Singleton, FS_EmptySet
<1>4. QED
  BY <1>2, <1>3 DEF Count

LEMMA CountNone == ASSUME NEW s, NEW C, Among(s) \cap C = {} PROVE Count(s, C) = 0
<1>1. Places(s, C) = {}
  BY DEF Places, Among
<1>2. QED
  BY <1>1, FS_EmptySet DEF Count

LEMMA OfOne ==
  ASSUME NEW x, NEW C, NEW O
  PROVE  /\ Has(<<x>>, C) <=> x \in C
         /\ Behind(<<x>>, C, O) <=> x \notin C
         /\ Lone(<<x>>, C) /\ Rising(<<x>>, C)
         /\ Among(<<x>>) = {x}
<1>1. Len(<<x>>) = 1 /\ <<x>>[1] = x /\ 1..1 = {1}
  OBVIOUS
<1>2. QED
  BY <1>1 DEF Has, Behind, Lone, Rising, Among

LEMMA OfNone ==
  ASSUME NEW C, NEW O
  PROVE  /\ ~Has(<< >>, C) /\ Behind(<< >>, C, O) /\ Lone(<< >>, C) /\ Rising(<< >>, C)
         /\ Among(<< >>) = {}
<1>1. Len(<< >>) = 0 /\ 1..0 = {}
  OBVIOUS
<1>2. QED
  BY <1>1 DEF Has, Behind, Lone, Rising, Among

LEMMA HeadAndTail ==
  ASSUME NEW S, NEW s \in Seq(S), s # << >> PROVE s = <<Head(s)>> \o Tail(s)
OBVIOUS

-----------------------------------------------------------------------------
(* What is on its way, each way; and what a step does to it.               *)
Messages == Requests \cup Events
ToClient == queue \o events
ToServer == requests \o buffered

Asking(rs) == ToClient' = ToClient /\ ToServer' = ToServer \o rs
Hearing(rs) == ToClient = <<Head(queue)>> \o ToClient' /\ ToServer' = ToServer \o rs
Saying(es) == ToClient' = ToClient \o es /\ ToServer' = ToServer
Taking(es) == ToServer = <<Head(requests)>> \o ToServer' /\ ToClient' = ToClient \o es

LEMMA WiresTyped ==
  ASSUME Typed
  PROVE  /\ queue \in Seq(Messages) /\ events \in Seq(Messages)
         /\ requests \in Seq(Messages) /\ buffered \in Seq(Messages)
         /\ ToClient \in Seq(Messages) /\ ToServer \in Seq(Messages)
<1>1. Asked \subseteq Messages /\ Sent \subseteq Messages
  BY DEF Asked, Sent, Messages
<1>2. /\ queue \in Seq(Messages) /\ events \in Seq(Messages)
      /\ requests \in Seq(Messages) /\ buffered \in Seq(Messages)
  BY <1>1, SeqMonotonic DEF Typed, WireTyped
<1>3. QED
  BY <1>2, ConcatProperties DEF ToClient, ToServer

LEMMA WiresTypedNext ==
  ASSUME Typed' PROVE ToClient' \in Seq(Messages) /\ ToServer' \in Seq(Messages)
<1>1. Asked' \subseteq Messages /\ Sent' \subseteq Messages
  BY DEF Asked, Sent, Messages
<1>2. /\ queue' \in Seq(Messages) /\ events' \in Seq(Messages)
      /\ requests' \in Seq(Messages) /\ buffered' \in Seq(Messages)
  BY <1>1, SeqMonotonic DEF Typed, WireTyped
<1>3. QED
  BY <1>2, ConcatProperties DEF ToClient, ToServer

LEMMA JoinedTwice ==
  \A s, t, u \in Seq(Messages) : (s \o t) \o u = s \o (t \o u)
BY ConcatAssociative

LEMMA Askings ==
  ASSUME Typed, UNCHANGED <<requests, events, queue>>, NEW rs \in Seq(Messages),
         buffered' = buffered \o rs
  PROVE  Asking(rs)
<1>1. requests \in Seq(Messages) /\ buffered \in Seq(Messages)
  BY WiresTyped
<1>2. (requests \o buffered) \o rs = requests \o (buffered \o rs)
  BY <1>1, JoinedTwice
<1>3. QED
  BY <1>2 DEF Asking, ToClient, ToServer

LEMMA Hearings ==
  ASSUME Typed, UNCHANGED <<requests, events>>, queue # << >>, queue' = Tail(queue),
         NEW rs \in Seq(Messages), buffered' = buffered \o rs
  PROVE  Hearing(rs)
<1>0. /\ queue \in Seq(Messages) /\ events \in Seq(Messages)
      /\ requests \in Seq(Messages) /\ buffered \in Seq(Messages)
  BY WiresTyped
<1>1. queue = <<Head(queue)>> \o Tail(queue) /\ Tail(queue) \in Seq(Messages)
      /\ <<Head(queue)>> \in Seq(Messages)
  BY <1>0, HeadAndTail, HeadTailProperties
<1>2. (<<Head(queue)>> \o Tail(queue)) \o events = <<Head(queue)>> \o (Tail(queue) \o events)
  BY <1>0, <1>1, JoinedTwice
<1>3. requests \in Seq(Messages) /\ buffered \in Seq(Messages)
  BY <1>0
<1>4. (requests \o buffered) \o rs = requests \o (buffered \o rs)
  BY <1>3, JoinedTwice
<1>5. QED
  BY <1>1, <1>2, <1>4 DEF Hearing, ToClient, ToServer

LEMMA Sayings ==
  ASSUME Typed, UNCHANGED <<requests, buffered, queue>>, NEW es \in Seq(Messages),
         events' = events \o es
  PROVE  Saying(es)
<1>1. queue \in Seq(Messages) /\ events \in Seq(Messages)
  BY WiresTyped
<1>2. (queue \o events) \o es = queue \o (events \o es)
  BY <1>1, JoinedTwice
<1>3. QED
  BY <1>2 DEF Saying, ToClient, ToServer

LEMMA Takings ==
  ASSUME Typed, UNCHANGED <<buffered, queue>>, requests # << >>, requests' = Tail(requests),
         NEW es \in Seq(Messages), events' = events \o es
  PROVE  Taking(es)
<1>0. /\ queue \in Seq(Messages) /\ events \in Seq(Messages)
      /\ requests \in Seq(Messages) /\ buffered \in Seq(Messages)
  BY WiresTyped
<1>1. requests = <<Head(requests)>> \o Tail(requests) /\ Tail(requests) \in Seq(Messages)
      /\ <<Head(requests)>> \in Seq(Messages)
  BY <1>0, HeadAndTail, HeadTailProperties
<1>2. (<<Head(requests)>> \o Tail(requests)) \o buffered = <<Head(requests)>> \o (Tail(requests) \o buffered)
  BY <1>0, <1>1, JoinedTwice, SMTT(30)
<1>3. (queue \o events) \o es = queue \o (events \o es)
  BY <1>0, JoinedTwice, SMTT(30)
<1>4. QED
  BY <1>1, <1>2, <1>3 DEF Taking, ToClient, ToServer

(* Writing and reading move everything on and change nothing of the order. *)
LEMMA Passing == ASSUME Typed, Flush \/ Read \/ HandleEnd PROVE UNCHANGED <<ToClient, ToServer>>
<1>1. CASE Flush
  <2>1. requests' = requests \o buffered /\ buffered' = << >> /\ UNCHANGED <<events, queue>>
    BY <1>1 DEF Flush
  <2>2. (requests \o buffered) \o << >> = requests \o buffered
    BY WiresTyped, ConcatEmptySeq DEF ToServer
  <2>3. QED
    BY <2>1, <2>2 DEF ToClient, ToServer
<1>2. CASE Read
  <2>1. PICK k \in 1..Len(events) :
          queue' = SubSeq(events, 1, k) /\ events' = SubSeq(events, k + 1, Len(events))
    BY <1>2 DEF Read
  <2>2. UNCHANGED <<requests, buffered>> /\ queue = << >>
    BY <1>2 DEF Read, Blocked
  <2>3. Len(events) \in Nat
    BY WiresTyped, LenProperties
  <2>4. SubSeq(events, 1, k) \o SubSeq(events, k + 1, Len(events)) = SubSeq(events, 1, Len(events))
    <3>1. 1 \in 1..(Len(events) + 1) /\ k \in (1 - 1)..Len(events) /\ Len(events) \in k..Len(events)
      BY <2>1, <2>3
    <3>2. QED
      BY <3>1, WiresTyped, ConcatAdjacentSubSeq
  <2>5. SubSeq(events, 1, Len(events)) = events
    BY WiresTyped, SubSeqFull
  <2>6. queue \o events = events
    BY <2>2, WiresTyped, ConcatEmptySeq
  <2>7. QED
    BY <2>1, <2>2, <2>4, <2>5, <2>6 DEF ToClient, ToServer
<1>3. CASE HandleEnd
  BY <1>3 DEF HandleEnd, wire, ToClient, ToServer
<1>4. QED
  BY <1>1, <1>2, <1>3

(* What a step moves that is not of the messages looked at leaves them as  *)
(* they were.                                                              *)
Op(ops) == {x \in Messages : x.op \in ops}
Alike(s, t, ops) ==
  \A C, O \in SUBSET Op(ops) :
    /\ Has(s, C) <=> Has(t, C)
    /\ Behind(s, C, O) <=> Behind(t, C, O)
    /\ Lone(s, C) <=> Lone(t, C)
    /\ Rising(s, C) <=> Rising(t, C)
    /\ Among(s) \cap C = Among(t) \cap C
    /\ Count(s, C) = Count(t, C)
Still(ops) == Alike(ToClient, ToClient', ops) /\ Alike(ToServer, ToServer', ops)
Without(s, ops) == Among(s) \cap Op(ops) = {}

LEMMA NoneAmong ==
  ASSUME NEW s, NEW C, Among(s) \cap C = {}, NEW O
  PROVE  ~Has(s, C) /\ Behind(s, C, O) /\ Lone(s, C) /\ Rising(s, C)
BY DEF Among, Has, Behind, Lone, Rising

LEMMA AlikeMoved ==
  ASSUME NEW ops, NEW h \in Seq(Messages), NEW t \in Seq(Messages), NEW e \in Seq(Messages),
         Without(h, ops), Without(e, ops)
  PROVE  Alike(h \o t, t \o e, ops)
<1>1. SUFFICES ASSUME NEW C \in SUBSET Op(ops), NEW O \in SUBSET Op(ops)
               PROVE  /\ Has(h \o t, C) <=> Has(t \o e, C)
                      /\ Behind(h \o t, C, O) <=> Behind(t \o e, C, O)
                      /\ Lone(h \o t, C) <=> Lone(t \o e, C)
                      /\ Rising(h \o t, C) <=> Rising(t \o e, C)
                      /\ Among(h \o t) \cap C = Among(t \o e) \cap C
                      /\ Count(h \o t, C) = Count(t \o e, C)
  BY DEF Alike
<1>2. /\ Among(h) \cap C = {} /\ Among(h) \cap O = {}
      /\ Among(e) \cap C = {} /\ Among(e) \cap O = {}
  BY DEF Without
<1>3. /\ ~Has(h, C) /\ ~Has(h, O) /\ Behind(h, C, O) /\ Lone(h, C) /\ Rising(h, C)
      /\ ~Has(e, C) /\ ~Has(e, O) /\ Behind(e, C, O) /\ Lone(e, C) /\ Rising(e, C)
  BY <1>2, NoneAmong
<1>4. Has(h \o t, C) <=> Has(t \o e, C)
  BY <1>3, JoinedHas
<1>5. Behind(h \o t, C, O) <=> Behind(t \o e, C, O)
  BY <1>3, JoinedBehind
<1>6. Lone(h \o t, C) <=> Lone(t \o e, C)
  BY <1>3, JoinedLone
<1>7. Among(h \o t) \cap C = Among(t \o e) \cap C
  BY <1>2, JoinedAmong
<1>8. Rising(h \o t, C) <=> Rising(t \o e, C)
  <2>1. Below(h, t, C) /\ Below(t, e, C)
    BY <1>2 DEF Below
  <2>2. QED
    BY <1>3, <2>1, JoinedRising
<1>9. Count(h \o t, C) = Count(t \o e, C)
  <2>1. Count(h, C) = 0 /\ Count(e, C) = 0
    BY <1>2, CountNone
  <2>2. /\ Count(h \o t, C) = Count(h, C) + Count(t, C)
        /\ Count(t \o e, C) = Count(t, C) + Count(e, C)
        /\ Count(t, C) \in Nat
    BY JoinedCount, PlacesAreFinite
  <2>3. QED
    BY <2>1, <2>2
<1>10. QED
  BY <1>4, <1>5, <1>6, <1>7, <1>8, <1>9

LEMMA AlikeEnds ==
  ASSUME NEW ops, NEW t \in Seq(Messages)
  PROVE  /\ Alike(t, t, ops)
         /\ \A e \in Seq(Messages) : Without(e, ops) => Alike(t, t \o e, ops)
         /\ \A x \in Messages : x.op \notin ops => Alike(<<x>> \o t, t, ops)
<1>1. Alike(t, t, ops)
  BY DEF Alike
<1>2. << >> \in Seq(Messages) /\ Without(<< >>, ops)
  BY EmptySeq, OfNone DEF Without
<1>3. << >> \o t = t /\ t \o << >> = t
  BY ConcatEmptySeq
<1>4. ASSUME NEW e \in Seq(Messages), Without(e, ops) PROVE Alike(t, t \o e, ops)
  <2>1. Alike(<< >> \o t, t \o e, ops)
    BY <1>2, <1>4, AlikeMoved
  <2>2. QED
    BY <1>3, <2>1
<1>5. ASSUME NEW x \in Messages, x.op \notin ops PROVE Alike(<<x>> \o t, t, ops)
  <2>1. <<x>> \in Seq(Messages) /\ Without(<<x>>, ops)
    BY <1>5, OfOne DEF Without, Op
  <2>2. Alike(<<x>> \o t, t \o << >>, ops)
    BY <1>2, <2>1, AlikeMoved
  <2>3. QED
    BY <1>3, <2>2
<1>6. QED
  BY <1>1, <1>4, <1>5

LEMMA StillMoves ==
  ASSUME Typed, Typed', NEW ops, NEW es \in Seq(Messages), Without(es, ops)
  PROVE  /\ UNCHANGED <<ToClient, ToServer>> => Still(ops)
         /\ Asking(es) => Still(ops)
         /\ Saying(es) => Still(ops)
         /\ Hearing(es) /\ Head(queue) \in Messages /\ Head(queue).op \notin ops => Still(ops)
         /\ Taking(es) /\ Head(requests) \in Messages /\ Head(requests).op \notin ops => Still(ops)
<1>1. /\ ToClient \in Seq(Messages) /\ ToServer \in Seq(Messages)
      /\ ToClient' \in Seq(Messages) /\ ToServer' \in Seq(Messages)
  BY WiresTyped, WiresTypedNext
<1>2. UNCHANGED <<ToClient, ToServer>> => Still(ops)
  BY <1>1, AlikeEnds DEF Still
<1>3. Asking(es) \/ Saying(es) => Still(ops)
  BY <1>1, AlikeEnds DEF Still, Asking, Saying
<1>4. Hearing(es) /\ Head(queue) \in Messages /\ Head(queue).op \notin ops => Still(ops)
  BY <1>1, AlikeEnds DEF Still, Hearing
<1>5. Taking(es) /\ Head(requests) \in Messages /\ Head(requests).op \notin ops => Still(ops)
  BY <1>1, AlikeEnds DEF Still, Taking
<1>6. QED
  BY <1>2, <1>3, <1>4, <1>5

LEMMA WithoutOne == ASSUME NEW x, NEW ops, x.op \notin ops PROVE Without(<<x>>, ops)
BY OfOne DEF Without, Op

LEMMA WithoutTwo ==
  ASSUME NEW s \in Seq(Messages), NEW t \in Seq(Messages), NEW ops, Without(s, ops), Without(t, ops)
  PROVE  Without(s \o t, ops)
BY JoinedAmong DEF Without

LEMMA WithoutSome ==
  ASSUME NEW ops, NEW kinds, kinds \cap ops = {}, NEW s, \A n \in 1..Len(s) : s[n].op \in kinds
  PROVE  Without(s, ops)
BY DEF Without, Among, Op

(* Requests and events there may be, one at a time.                        *)
LEMMA PlainMessages ==
  /\ \A op \in {"registry", "sync", "pool", "toplevel", "decoration", "device", "keyboard",
                "pointer", "pong", "done", "format", "close", "ping", "frame", "input", "output",
                "end", "pointer frame"} :
       [op |-> op] \in Messages /\ <<[op |-> op]>> \in Seq(Messages)
  /\ <<[op |-> "commit", buffer |-> FALSE, frame |-> FALSE]>> \in Seq(Messages)
  /\ <<[op |-> "commit", buffer |-> TRUE, frame |-> FALSE]>> \in Seq(Messages)
  /\ <<[op |-> "commit", buffer |-> TRUE, frame |-> TRUE]>> \in Seq(Messages)
  /\ \A s \in Nat : /\ <<[op |-> "ack", serial |-> s]>> \in Seq(Messages)
                    /\ <<[op |-> "configure", serial |-> s]>> \in Seq(Messages)
<1>1. \A op \in {"registry", "sync", "pool", "toplevel", "decoration", "device", "keyboard",
                 "pointer", "pong", "done", "format", "close", "ping", "frame", "input", "output",
                 "end", "pointer frame"} : [op |-> op] \in Messages
  BY DEF Messages, Requests, Events
<1>2. /\ [op |-> "commit", buffer |-> FALSE, frame |-> FALSE] \in Messages
      /\ [op |-> "commit", buffer |-> TRUE, frame |-> FALSE] \in Messages
      /\ [op |-> "commit", buffer |-> TRUE, frame |-> TRUE] \in Messages
  BY DEF Messages, Requests
<1>3. \A s \in Nat : [op |-> "ack", serial |-> s] \in Messages /\ [op |-> "configure", serial |-> s] \in Messages
  BY DEF Messages, Requests, Events
<1>4. QED
  BY <1>1, <1>2, <1>3, Alone

(* What each step of `main` moves.                                         *)
Decoration == IF Decorated THEN <<[op |-> "decoration"]>> ELSE << >>
Window == <<[op |-> "toplevel"]>> \o Decoration \o <<Shows(FALSE, FALSE)>>
Pass == UNCHANGED <<ToClient, ToServer>>
Frame == <<Shows(TRUE, TRUE)>>

LEMMA WindowTyped == /\ <<[op |-> "toplevel"]>> \in Seq(Messages) /\ Decoration \in Seq(Messages)
                     /\ <<Shows(FALSE, FALSE)>> \in Seq(Messages)
                     /\ <<[op |-> "toplevel"]>> \o Decoration \in Seq(Messages)
                     /\ Window \in Seq(Messages)
<1>1. /\ <<[op |-> "toplevel"]>> \in Seq(Messages) /\ <<Shows(FALSE, FALSE)>> \in Seq(Messages)
  BY PlainMessages DEF Shows
<1>2. Decoration \in Seq(Messages)
  BY PlainMessages, EmptySeq DEF Decoration
<1>3. <<[op |-> "toplevel"]>> \o Decoration \in Seq(Messages)
  BY <1>1, <1>2, ConcatProperties
<1>4. Window \in Seq(Messages)
  BY <1>1, <1>3, ConcatProperties DEF Window
<1>5. QED
  BY <1>1, <1>2, <1>3, <1>4

LEMMA MainMoves ==
  ASSUME Typed
  PROVE  /\ GetRegistry => Asking(<<[op |-> "registry"]>>)
         /\ Roundtrip => Asking(<<[op |-> "sync"]>>)
         /\ Returned \/ CheckGlobals \/ Listen \/ CheckConfigured \/ Again(Stop) => Pass
         /\ MakePool => Pass \/ Asking(<<[op |-> "pool"]>>)
         /\ MakeWindow => Asking(Window)
         /\ AttachOnce => Asking(<<Shows(TRUE, FALSE)>>)
         /\ GetDevice => Asking(<<[op |-> "device"]>>)
         /\ GetSeat => \/ Pass \/ Asking(<<[op |-> "pointer"]>>)
                       \/ Asking(<<[op |-> "keyboard"], [op |-> "pointer"]>>)
         /\ FirstDraw => Pass \/ Asking(Frame)
<1>1. UNCHANGED wire => Pass
  BY DEF wire, Pass, ToClient, ToServer
<1>2. GetRegistry => Asking(<<[op |-> "registry"]>>)
  BY PlainMessages, Askings DEF GetRegistry, Ask
<1>3. Roundtrip => Asking(<<[op |-> "sync"]>>)
  BY PlainMessages, Askings DEF Roundtrip, Ask
<1>4. Returned \/ CheckGlobals \/ Listen \/ CheckConfigured \/ Again(Stop) => Pass
  BY <1>1 DEF Returned, CheckGlobals, Listen, CheckConfigured, Again
<1>5. MakePool => Pass \/ Asking(<<[op |-> "pool"]>>)
  BY <1>1, PlainMessages, Askings DEF MakePool, Ask, wire
<1>6. MakeWindow => Asking(Window)
  BY WindowTyped, Askings DEF MakeWindow, Ask, Window, Decoration
<1>7. AttachOnce => Asking(<<Shows(TRUE, FALSE)>>)
  BY PlainMessages, Askings DEF AttachOnce, Ask, Shows
<1>8. GetDevice => Asking(<<[op |-> "device"]>>)
  BY PlainMessages, Askings DEF GetDevice, Ask
<1>9. GetSeat => \/ Pass \/ Asking(<<[op |-> "pointer"]>>)
                 \/ Asking(<<[op |-> "keyboard"], [op |-> "pointer"]>>)
  <2>1. <<[op |-> "keyboard"], [op |-> "pointer"]>> \in Seq(Messages)
    <3>1. [op |-> "keyboard"] \in Messages /\ [op |-> "pointer"] \in Messages
      BY PlainMessages
    <3>2. \A S : \A x, y \in S : <<x, y>> \in Seq(S)
      OBVIOUS
    <3>3. QED
      BY <3>1, <3>2
  <2>2. QED
    BY <1>1, <2>1, PlainMessages, Askings DEF GetSeat, Ask, wire
<1>10. FirstDraw => Pass \/ Asking(Frame)
  BY <1>1, PlainMessages, Askings DEF FirstDraw, Draw, Ask, Shows, wire, Frame
<1>11. QED
  BY <1>2, <1>3, <1>4, <1>5, <1>6, <1>7, <1>8, <1>9, <1>10

(* What each handler moves.                                                *)
Here == Head(queue)
Wish == Head(requests)

LEMMA HeadsTyped ==
  ASSUME Typed
  PROVE  /\ queue # << >> => Here \in Sent /\ Here \in Messages
         /\ requests # << >> => Wish \in Asked /\ Wish \in Messages
BY HeadTailProperties DEF Typed, WireTyped, Here, Wish, Asked, Sent, Messages

LEMMA HandlerMoves ==
  ASSUME Typed
  PROVE  /\ HandleGlobal =>
              \/ Hearing(<< >>)
              \/ Hearing(<<[op |-> "bind", interface |-> Here.interface,
                            version |-> Global(Here.interface, Here.version)]>>)
         /\ HandleDone \/ HandleFormat \/ ToplevelClose \/ SurfaceEnters \/ HandleInput
              \/ Pt => Hearing(<< >>)
         /\ SurfaceConfigure => Hearing(<<[op |-> "ack", serial |-> Here.serial]>>)
         /\ WmBasePing => Hearing(<< >>) \/ Hearing(<<[op |-> "pong"]>>)
         /\ FrameDone => Hearing(<< >>) \/ Hearing(Frame)
<1> DEFINE H == UNCHANGED <<requests, events>> /\ queue # << >> /\ queue' = Tail(queue)
<1>1. << >> \in Seq(Messages) /\ buffered \o << >> = buffered
  BY WiresTyped, EmptySeq, ConcatEmptySeq
<1>2. H /\ UNCHANGED buffered => Hearing(<< >>)
  BY <1>1, Hearings
<1>3. HandleGlobal =>
        \/ Hearing(<< >>)
        \/ Hearing(<<[op |-> "bind", interface |-> Here.interface,
                      version |-> Global(Here.interface, Here.version)]>>)
  <2>1. SUFFICES ASSUME HandleGlobal, UNCHANGED buffered => Hearing(<< >>), ~UNCHANGED buffered
                 PROVE  Hearing(<<[op |-> "bind", interface |-> Here.interface,
                                   version |-> Global(Here.interface, Here.version)]>>)
    BY <1>2 DEF HandleGlobal, Event, Dispatching, Handled
  <2>2. Here.interface \in Interfaces /\ Global(Here.interface, Here.version) \in Nat
    BY <2>1, BoundAsTold DEF Here
  <2>3. [op |-> "bind", interface |-> Here.interface,
         version |-> Global(Here.interface, Here.version)] \in Messages
    BY <2>2 DEF Messages, Requests
  <2>4. H /\ buffered' = buffered \o <<[op |-> "bind", interface |-> Here.interface,
                                        version |-> Global(Here.interface, Here.version)]>>
    BY <2>1 DEF HandleGlobal, Event, Dispatching, Handled, Ask, Here
  <2>5. QED
    BY <2>3, <2>4, Alone, Hearings
<1>4. HandleDone \/ HandleFormat \/ ToplevelClose \/ SurfaceEnters \/ HandleInput
        \/ Pt => Hearing(<< >>)
  BY <1>2 DEF HandleDone, HandleFormat, ToplevelClose, SurfaceEnters, HandleInput, Pt,
     PtAxis, PtSay, PtAxisStop, PtOther, PtFrame, Noted, Event, Dispatching, Handled
<1>5. SurfaceConfigure => Hearing(<<[op |-> "ack", serial |-> Here.serial]>>)
  <2>1. SurfaceConfigure => H /\ Here.serial \in Nat
    BY HeadsTyped DEF SurfaceConfigure, Event, Dispatching, Handled, Here, Sent, Events, PointerEvents
  <2>2. SurfaceConfigure => buffered' = buffered \o <<[op |-> "ack", serial |-> Here.serial]>>
    BY DEF SurfaceConfigure, Ask, Here
  <2>3. QED
    BY <2>1, <2>2, PlainMessages, Hearings
<1>6. WmBasePing => Hearing(<< >>) \/ Hearing(<<[op |-> "pong"]>>)
  BY <1>2, PlainMessages, Hearings DEF WmBasePing, Event, Dispatching, Handled, Ask
<1>7. FrameDone => Hearing(<< >>) \/ Hearing(Frame)
  BY <1>2, PlainMessages, Hearings DEF FrameDone, Event, Dispatching, Handled, Draw, Ask, Frame, Shows
<1>8. QED
  BY <1>3, <1>4, <1>5, <1>6, <1>7

(* What the compositor moves.                                              *)
Formatted == [n \in 1..Formats |-> [op |-> "format"]]
LEMMA SentMessages == ASSUME NEW s \in Seq(Sent) PROVE s \in Seq(Messages)
<1>1. Sent \subseteq Messages
  BY DEF Sent, Messages
<1>2. QED
  BY <1>1, SeqMonotonic

LEMMA CompositorMoves ==
  ASSUME Typed
  PROVE  /\ TakeRegistry => Taking(Announcements)
         /\ TakeSync => Taking(<<[op |-> "done"]>>)
         /\ TakeBind => \/ Taking(<<[op |-> "end"]>>) \/ Taking(<< >>)
                        \/ Taking(Formatted) /\ Wish.interface = "wl_shm"
         /\ TakeToplevel \/ TakePong \/ TakeOther => Taking(<< >>)
         /\ TakeAck \/ TakeCommit => Taking(<< >>) \/ Taking(<<[op |-> "end"]>>)
         /\ Configure => Saying(<<[op |-> "configure", serial |-> serial + 1]>>)
         /\ Ping => Saying(<<[op |-> "ping"]>>)
         /\ ShowFrame => Saying(<<[op |-> "frame"]>>)
         /\ Input => \E op \in {"input", "output"} : Saying(<<[op |-> op]>>)
         /\ AskToClose => Saying(<<[op |-> "close"]>>)
         /\ Leave => Saying(<<[op |-> "end"]>>)
<1> DEFINE T == UNCHANGED <<buffered, queue>> /\ requests # << >> /\ requests' = Tail(requests)
<1>1. << >> \in Seq(Messages) /\ events \o << >> = events
  BY WiresTyped, EmptySeq, ConcatEmptySeq
<1>2. T /\ UNCHANGED events => Taking(<< >>)
  BY <1>1, Takings
<1>3. T /\ events' = events \o <<[op |-> "end"]>> => Taking(<<[op |-> "end"]>>)
  BY PlainMessages, Takings
<1>4. TakeRegistry => Taking(Announcements)
  <2>1. Announcements \in Seq(Messages)
    BY AnnouncementsTyped, SentMessages DEF Typed
  <2>2. TakeRegistry => T /\ events' = events \o Announcements
    BY DEF TakeRegistry, Request, Taken, Say, Announcements
  <2>3. QED
    BY <2>1, <2>2, Takings
<1>5. TakeSync => Taking(<<[op |-> "done"]>>)
  BY PlainMessages, Takings DEF TakeSync, Request, Taken, Say
<1>6. TakeBind => \/ Taking(<<[op |-> "end"]>>) \/ Taking(<< >>)
                  \/ Taking(Formatted) /\ Wish.interface = "wl_shm"
  <2>1. Formatted \in Seq(Messages)
    BY FormatsTyped, SentMessages DEF Formatted
  <2>2. T /\ events' = events \o Formatted => Taking(Formatted)
    BY <2>1, Takings
  <2>3. T /\ events' = events \o << >> => Taking(<< >>)
    BY <1>1, <1>2
  <2>4. TakeBind => T
    BY DEF TakeBind, Request, Taken
  <2>5. TakeBind => \/ events' = events \o <<[op |-> "end"]>>
                    \/ events' = events \o Formatted /\ Wish.interface = "wl_shm"
                    \/ events' = events \o << >>
    BY DEF TakeBind, Say, Refuse, Formatted, Wish
  <2>6. QED
    BY <1>3, <2>2, <2>3, <2>4, <2>5
<1>7. TakeToplevel \/ TakePong \/ TakeOther => Taking(<< >>)
  BY <1>2 DEF TakeToplevel, TakePong, TakeOther, Request, Taken, server
<1>8. TakeAck \/ TakeCommit => Taking(<< >>) \/ Taking(<<[op |-> "end"]>>)
  BY <1>2, <1>3 DEF TakeAck, TakeCommit, Request, Taken, Refuse, Say
<1>9. Configure => Saying(<<[op |-> "configure", serial |-> serial + 1]>>)
  <2>1. serial + 1 \in Nat
    BY DEF Typed, StateTyped
  <2>2. <<[op |-> "configure", serial |-> serial + 1]>> \in Seq(Messages)
    BY <2>1, PlainMessages
  <2>3. Configure => /\ events' = events \o <<[op |-> "configure", serial |-> serial + 1]>>
                     /\ UNCHANGED <<requests, buffered, queue>>
    BY DEF Configure, Say
  <2>4. QED
    BY <2>2, <2>3, Sayings
<1>10. /\ Ping => Saying(<<[op |-> "ping"]>>)
       /\ ShowFrame => Saying(<<[op |-> "frame"]>>)
       /\ AskToClose => Saying(<<[op |-> "close"]>>)
       /\ Leave => Saying(<<[op |-> "end"]>>)
  BY PlainMessages, Sayings DEF Ping, ShowFrame, AskToClose, Leave, Say, Refuse
<1>11. Input => \E op \in {"input", "output"} : Saying(<<[op |-> op]>>)
  BY PlainMessages, Sayings DEF Input, Say
<1>12. QED
  BY <1>4, <1>5, <1>6, <1>7, <1>8, <1>9, <1>10, <1>11

(* What is of no interest below: what only one of the two has to do with.  *)
Noise == {"pool", "decoration", "device", "keyboard", "pointer", "pong", "close", "ping", "input",
          "output", "end", "frame", "pointer frame", "axis", "discrete", "stop", "source", "motion"}
QuietStep ==
  \/ Returned \/ CheckGlobals \/ Listen \/ CheckConfigured \/ Again(Stop)
  \/ MakePool \/ GetDevice \/ GetSeat \/ Flush \/ Read \/ HandleEnd
  \/ ToplevelClose \/ WmBasePing \/ SurfaceEnters \/ HandleInput \/ Pt
  \/ TakePong \/ TakeOther \/ Ping \/ ShowFrame \/ Input \/ AskToClose \/ Leave
  \/ (\E g \in Gestures : Gesture(g)) \/ Tick

LEMMA GestureMoves ==
  ASSUME Typed, NEW ops, ops \cap Noise = {}, NEW g \in Gestures, Gesture(g)
  PROVE  \E es \in Seq(Messages) : Saying(es) /\ Without(es, ops)
<1> DEFINE es == IF Framed THEN g \o <<[op |-> "pointer frame"]>> ELSE g
<1>1. g \in Seq(PointerEvents)
  BY GestureAssumption
<1>2. PointerEvents \subseteq Messages
  BY DEF Messages, Events
<1>3. g \in Seq(Messages)
  BY <1>1, <1>2, SeqMonotonic
<1>4. \A n \in 1..Len(g) : g[n].op \in Noise
  <2>1. \A n \in 1..Len(g) : g[n] \in PointerEvents
    BY <1>1
  <2>2. \A e \in PointerEvents : e.op \in Noise
    BY DEF PointerEvents, Noise
  <2>3. QED
    BY <2>1, <2>2
<1>5. Without(g, ops)
  BY <1>4, WithoutSome
<1>6. <<[op |-> "pointer frame"]>> \in Seq(Messages) /\ Without(<<[op |-> "pointer frame"]>>, ops)
  BY PlainMessages, WithoutOne DEF Noise
<1>7. es \in Seq(Messages) /\ Without(es, ops)
  <2>1. CASE Framed
    BY <1>3, <1>5, <1>6, <2>1, ConcatProperties, WithoutTwo
  <2>2. CASE ~Framed
    BY <1>3, <1>5, <2>2
  <2>3. QED
    BY <2>1, <2>2
<1>8. events' = events \o es /\ UNCHANGED <<requests, buffered, queue>>
  BY DEF Gesture, Say
<1>9. QED
  BY <1>7, <1>8, Sayings

LEMMA QuietStill ==
  ASSUME Typed, Typed', NEW ops, ops \cap Noise = {}, QuietStep PROVE Still(ops)
<1> DEFINE N(es) == es \in Seq(Messages) /\ Without(es, ops)
<1>1. \A op \in {"pool", "device", "keyboard", "pointer", "pong", "close", "ping", "input",
                 "output", "end", "frame"} : N(<<[op |-> op]>>) /\ op \notin ops
  BY PlainMessages, WithoutOne DEF Noise
<1>2. N(<< >>)
  BY EmptySeq, OfNone DEF Without
<1>3. Pass => Still(ops)
  BY <1>2, StillMoves DEF Pass
<1>4. CASE Returned \/ CheckGlobals \/ Listen \/ CheckConfigured \/ Again(Stop) \/ Flush \/ Read
           \/ HandleEnd
  BY <1>3, <1>4, MainMoves, Passing DEF Pass
<1>5. CASE Tick
  <2>1. Pass
    BY <1>5 DEF Tick, Clock, vars, windowVars, wire, Pass, ToClient, ToServer
  <2>2. QED
    BY <1>3, <2>1
<1>6. CASE MakePool \/ GetDevice
  BY <1>1, <1>3, <1>6, MainMoves, StillMoves
<1>7. CASE GetSeat
  <2>1. <<[op |-> "keyboard"], [op |-> "pointer"]>> =
          <<[op |-> "keyboard"]>> \o <<[op |-> "pointer"]>>
    OBVIOUS
  <2>2. N(<<[op |-> "keyboard"]>>) /\ N(<<[op |-> "pointer"]>>)
    BY <1>1
  <2>3. N(<<[op |-> "keyboard"]>> \o <<[op |-> "pointer"]>>)
    BY <2>2, ConcatProperties, WithoutTwo
  <2>4. N(<<[op |-> "keyboard"], [op |-> "pointer"]>>)
    BY <2>1, <2>3
  <2>5. QED
    BY <1>3, <1>7, <2>2, <2>4, MainMoves, StillMoves
<1>8. CASE ToplevelClose \/ WmBasePing \/ SurfaceEnters \/ HandleInput \/ Pt
  <2>1. Hearing(<< >>) \/ Hearing(<<[op |-> "pong"]>>)
    BY <1>8, HandlerMoves
  <2>2. Here \in Messages /\ Here.op \in Noise
    <3>1. queue # << >> /\ Here.op \in Noise
      BY <1>8 DEF ToplevelClose, WmBasePing, SurfaceEnters, HandleInput, Pt, PtAxis,
         PtSay, PtAxisStop, PtOther, PtFrame, Event, Dispatching, Here, Noise
    <3>2. QED
      BY <3>1, HeadsTyped
  <2>3. QED
    BY <1>1, <1>2, <2>1, <2>2, StillMoves DEF Here
<1>9. CASE TakePong \/ TakeOther
  <2>1. Taking(<< >>)
    BY <1>9, CompositorMoves
  <2>2. Wish \in Messages /\ Wish.op \in Noise
    <3>1. requests # << >> /\ Wish.op \in Noise
      BY <1>9 DEF TakePong, TakeOther, Request, Wish, Noise
    <3>2. QED
      BY <3>1, HeadsTyped
  <2>3. QED
    BY <1>2, <2>1, <2>2, StillMoves DEF Wish
<1>10. CASE Ping \/ ShowFrame \/ Input \/ AskToClose \/ Leave
  <2>1. \E op \in {"close", "ping", "input", "output", "end", "frame"} : Saying(<<[op |-> op]>>)
    BY <1>10, CompositorMoves
  <2>2. QED
    BY <1>1, <2>1, StillMoves
<1>11. CASE \E g \in Gestures : Gesture(g)
  BY <1>11, GestureMoves, StillMoves
<1>12. QED
  BY <1>4, <1>5, <1>6, <1>7, <1>8, <1>9, <1>10, <1>11 DEF QuietStep

LEMMA AnnouncementsWithout ==
  ASSUME Typed, NEW ops, "global" \notin ops
  PROVE  Announcements \in Seq(Messages) /\ Without(Announcements, ops)
<1> DEFINE N(es) == es \in Seq(Messages) /\ Without(es, ops)
<1>1. ASSUME NEW i \in Interfaces PROVE N(Announce(i))
  <2>1. Announce(i) \in Seq(Messages)
    BY AnnounceTyped, SentMessages DEF Typed
  <2>2. Without(<< >>, ops)
    BY OfNone DEF Without
  <2>3. Without(<<[op |-> "global", interface |-> i, version |-> offer[i]]>>, ops)
    BY WithoutOne
  <2>4. QED
    BY <2>1, <2>2, <2>3 DEF Announce
<1>2. \A s, t : N(s) /\ N(t) => N(s \o t)
  BY ConcatProperties, WithoutTwo
<1>3. /\ N(Announce("wl_compositor")) /\ N(Announce("wl_shm")) /\ N(Announce("wl_output"))
      /\ N(Announce("wl_seat")) /\ N(Announce("xdg_wm_base"))
      /\ N(Announce("zxdg_decoration_manager_v1")) /\ N(Announce("wl_data_device_manager"))
      /\ N(Announce("zwp_primary_selection_device_manager_v1"))
  BY <1>1 DEF Interfaces
<1> HIDE DEF N
<1>4. N(Announcements)
  BY <1>2, <1>3 DEF Announcements
<1>5. QED
  BY <1>4 DEF N

LEMMA FormattedKind == \A n \in 1..Len(Formatted) : Formatted[n].op \in {"format"}
BY WindowAssumption DEF Formatted

(* The steps that are not quiet, and what they move.                       *)
LEMMA LoudStill ==
  ASSUME Typed, Typed', NEW ops, ops \cap Noise = {}
  PROVE  /\ "registry" \notin ops => (GetRegistry => Still(ops))
         /\ "sync" \notin ops => (Roundtrip => Still(ops))
         /\ {"toplevel", "commit"} \cap ops = {} => (MakeWindow => Still(ops))
         /\ "commit" \notin ops => (AttachOnce \/ FirstDraw \/ FrameDone \/ TakeCommit => Still(ops))
         /\ {"global", "bind"} \cap ops = {} => (HandleGlobal => Still(ops))
         /\ "done" \notin ops => (HandleDone => Still(ops))
         /\ "format" \notin ops => (HandleFormat => Still(ops))
         /\ {"configure", "ack"} \cap ops = {} => (SurfaceConfigure => Still(ops))
         /\ {"registry", "global"} \cap ops = {} => (TakeRegistry => Still(ops))
         /\ {"sync", "done"} \cap ops = {} => (TakeSync => Still(ops))
         /\ {"bind", "format"} \cap ops = {} => (TakeBind => Still(ops))
         /\ "toplevel" \notin ops => (TakeToplevel => Still(ops))
         /\ "ack" \notin ops => (TakeAck => Still(ops))
         /\ "configure" \notin ops => (Configure => Still(ops))
<1> DEFINE N(es) == es \in Seq(Messages) /\ Without(es, ops)
<1>1. \A op \in {"registry", "sync", "done", "end", "format", "toplevel"} :
        op \notin ops => N(<<[op |-> op]>>)
  BY PlainMessages, WithoutOne
<1>2. N(<< >>) /\ N(<<[op |-> "end"]>>)
  <2>1. "end" \notin ops
    BY DEF Noise
  <2>2. QED
    BY <1>1, <2>1, EmptySeq, OfNone DEF Without
<1>3. Pass => Still(ops)
  BY <1>2, StillMoves DEF Pass
<1>4. "registry" \notin ops => (GetRegistry => Still(ops))
  BY <1>1, MainMoves, StillMoves
<1>5. "sync" \notin ops => (Roundtrip => Still(ops))
  BY <1>1, MainMoves, StillMoves
<1>6. "commit" \notin ops => /\ N(<<Shows(TRUE, FALSE)>>) /\ N(<<Shows(FALSE, FALSE)>>) /\ N(Frame)
  BY PlainMessages, WithoutOne DEF Shows, Frame
<1>7. {"toplevel", "commit"} \cap ops = {} => (MakeWindow => Still(ops))
  <2>1. SUFFICES ASSUME {"toplevel", "commit"} \cap ops = {}, MakeWindow PROVE N(Window)
    BY MainMoves, StillMoves
  <2>2. Without(Decoration, ops)
    <3>1. "decoration" \notin ops
      BY DEF Noise
    <3>2. QED
      BY <1>2, <3>1, WithoutOne DEF Decoration
  <2>3. N(<<[op |-> "toplevel"]>>) /\ N(<<Shows(FALSE, FALSE)>>)
    BY <1>1, <1>6, <2>1
  <2>4. Without(<<[op |-> "toplevel"]>> \o Decoration, ops)
    BY <2>2, <2>3, WindowTyped, WithoutTwo
  <2>5. Without(Window, ops)
    BY <2>3, <2>4, WindowTyped, WithoutTwo DEF Window
  <2>6. QED
    BY <2>5, WindowTyped
<1>8. "commit" \notin ops => (AttachOnce \/ FirstDraw \/ FrameDone \/ TakeCommit => Still(ops))
  <2>1. SUFFICES ASSUME "commit" \notin ops PROVE AttachOnce \/ FirstDraw \/ FrameDone \/ TakeCommit => Still(ops)
    OBVIOUS
  <2>2. AttachOnce \/ FirstDraw => Still(ops)
    BY <1>3, <1>6, <2>1, MainMoves, StillMoves
  <2>3. FrameDone => Still(ops)
    <3>1. FrameDone => Here \in Messages /\ Here.op = "frame"
      BY HeadsTyped DEF FrameDone, Event, Dispatching, Here
    <3>2. "frame" \notin ops
      BY DEF Noise
    <3>3. QED
      BY <1>2, <1>6, <2>1, <3>1, <3>2, HandlerMoves, StillMoves DEF Here
  <2>4. TakeCommit => Still(ops)
    <3>1. TakeCommit => Wish \in Messages /\ Wish.op = "commit"
      BY HeadsTyped DEF TakeCommit, Request, Wish
    <3>2. QED
      BY <1>2, <2>1, <3>1, CompositorMoves, StillMoves DEF Wish
  <2>5. QED
    BY <2>2, <2>3, <2>4
<1>9. {"global", "bind"} \cap ops = {} => (HandleGlobal => Still(ops))
  <2>1. SUFFICES ASSUME {"global", "bind"} \cap ops = {}, HandleGlobal PROVE Still(ops)
    OBVIOUS
  <2> DEFINE b == [op |-> "bind", interface |-> Here.interface,
                   version |-> Global(Here.interface, Here.version)]
  <2>2. Here.interface \in Interfaces /\ Global(Here.interface, Here.version) \in Nat
    BY <2>1, BoundAsTold DEF Here
  <2>3. b \in Messages /\ b.op \notin ops
    BY <2>1, <2>2 DEF Messages, Requests
  <2>4. N(<<b>>)
    BY <2>3, Alone, WithoutOne
  <2>5. Here \in Messages /\ Here.op = "global"
    BY <2>1, HeadsTyped DEF HandleGlobal, Event, Dispatching, Here
  <2>6. Hearing(<< >>) \/ Hearing(<<b>>)
    BY <2>1, HandlerMoves
  <2>7. QED
    BY <1>2, <2>1, <2>4, <2>5, <2>6, StillMoves DEF Here
<1>10. "done" \notin ops => (HandleDone => Still(ops))
  <2>1. HandleDone => Here \in Messages /\ Here.op = "done"
    BY HeadsTyped DEF HandleDone, Event, Dispatching, Here
  <2>2. QED
    BY <1>2, <2>1, HandlerMoves, StillMoves DEF Here
<1>11. "format" \notin ops => (HandleFormat => Still(ops))
  <2>1. HandleFormat => Here \in Messages /\ Here.op = "format"
    BY HeadsTyped DEF HandleFormat, Event, Dispatching, Here
  <2>2. QED
    BY <1>2, <2>1, HandlerMoves, StillMoves DEF Here
<1>12. {"configure", "ack"} \cap ops = {} => (SurfaceConfigure => Still(ops))
  <2>1. SUFFICES ASSUME {"configure", "ack"} \cap ops = {}, SurfaceConfigure PROVE Still(ops)
    OBVIOUS
  <2>2. Here \in Messages /\ Here \in Sent /\ Here.op = "configure"
    BY <2>1, HeadsTyped DEF SurfaceConfigure, Event, Dispatching, Here
  <2>3. Here.serial \in Nat
    BY <2>2 DEF Sent, Events, PointerEvents
  <2>4. N(<<[op |-> "ack", serial |-> Here.serial]>>)
    BY <2>1, <2>3, PlainMessages, WithoutOne
  <2>5. QED
    BY <2>1, <2>2, <2>4, HandlerMoves, StillMoves DEF Here
<1>13. {"registry", "global"} \cap ops = {} => (TakeRegistry => Still(ops))
  <2>1. SUFFICES ASSUME {"registry", "global"} \cap ops = {}, TakeRegistry PROVE Still(ops)
    OBVIOUS
  <2>2. Wish \in Messages /\ Wish.op = "registry"
    BY <2>1, HeadsTyped DEF TakeRegistry, Request, Wish
  <2>3. N(Announcements)
    BY <2>1, AnnouncementsWithout
  <2>4. QED
    BY <2>1, <2>2, <2>3, CompositorMoves, StillMoves DEF Wish
<1>14. {"sync", "done"} \cap ops = {} => (TakeSync => Still(ops))
  <2>1. TakeSync => Wish \in Messages /\ Wish.op = "sync"
    BY HeadsTyped DEF TakeSync, Request, Wish
  <2>2. QED
    BY <1>1, <2>1, CompositorMoves, StillMoves DEF Wish
<1>15. {"bind", "format"} \cap ops = {} => (TakeBind => Still(ops))
  <2>1. SUFFICES ASSUME {"bind", "format"} \cap ops = {}, TakeBind PROVE Still(ops)
    OBVIOUS
  <2>2. Wish \in Messages /\ Wish.op = "bind"
    BY <2>1, HeadsTyped DEF TakeBind, Request, Wish
  <2>3. Without(Formatted, ops)
    BY <2>1, FormattedKind, WithoutSome
  <2>4. N(Formatted)
    BY <2>3, FormatsTyped, SentMessages DEF Formatted
  <2>5. QED
    BY <1>2, <2>1, <2>2, <2>4, CompositorMoves, StillMoves DEF Wish
<1>16. "toplevel" \notin ops => (TakeToplevel => Still(ops))
  <2>1. TakeToplevel => Wish \in Messages /\ Wish.op = "toplevel"
    BY HeadsTyped DEF TakeToplevel, Request, Wish
  <2>2. QED
    BY <1>2, <2>1, CompositorMoves, StillMoves DEF Wish
<1>17. "ack" \notin ops => (TakeAck => Still(ops))
  <2>1. TakeAck => Wish \in Messages /\ Wish.op = "ack"
    BY HeadsTyped DEF TakeAck, Request, Wish
  <2>2. QED
    BY <1>2, <2>1, CompositorMoves, StillMoves DEF Wish
<1>18. "configure" \notin ops => (Configure => Still(ops))
  <2>1. SUFFICES ASSUME "configure" \notin ops, Configure PROVE Still(ops)
    OBVIOUS
  <2>2. serial + 1 \in Nat
    BY DEF Typed, StateTyped
  <2>3. N(<<[op |-> "configure", serial |-> serial + 1]>>)
    BY <2>1, <2>2, PlainMessages, WithoutOne
  <2>4. QED
    BY <2>1, <2>3, CompositorMoves, StillMoves
<1>19. QED
  BY <1>4, <1>5, <1>7, <1>8, <1>9, <1>10, <1>11, <1>12, <1>13, <1>14, <1>15, <1>16, <1>17, <1>18

-----------------------------------------------------------------------------
(* Where each `main` makes its window, which two steps later it has to     *)
(* find configured; and what else it does where.                           *)
WindowAt ==
  CASE who = "wlcairo" -> 6 [] who = "wlprobe" -> 7 [] who \in Clips -> 5 [] who = "wlscroll" -> 6
Placed == pc \in 1..Len(Main)
Shown == pc > WindowAt + 2

LEMMA Table ==
  ASSUME StateTyped, Placed
  PROVE  /\ pc \in Nat /\ WindowAt \in {5, 6, 7} /\ Len(Main) \in 10..13 /\ pc <= Len(Main)
         /\ Main[pc] = "registry" <=> pc = 1
         /\ Main[pc] = "globals" <=> pc = 3
         /\ Main[pc] \in {"listen", "pool"} => 3 < pc /\ pc < WindowAt
         /\ Main[pc] = "window" <=> pc = WindowAt
         /\ Main[pc] = "configured" <=> pc = WindowAt + 2
         /\ Main[pc] \in {"attach", "device", "seat", "draw", "loop"} => pc > WindowAt + 2
         /\ pc \in {2, WindowAt + 1} => Main[pc] = "roundtrip"
         /\ Main[pc] # "loop" => pc + 1 <= Len(Main)
         /\ Main[pc] = "seat" => pc + 2 <= Len(Main)
<1>1. CASE who = "wlcairo"
  <2>1. pc \in 1..10
    BY <1>1 DEF Placed, Main, MainCairo, Clips
  <2>2. QED
    BY <1>1, <2>1 DEF Main, MainCairo, WindowAt, Clips
<1>2. CASE who = "wlprobe"
  <2>1. pc \in 1..13
    BY <1>2 DEF Placed, Main, MainProbe, Clips
  <2>2. QED
    BY <1>2, <2>1 DEF Main, MainProbe, WindowAt, Clips
<1>3. CASE who \in Clips
  <2>1. pc \in 1..12
    BY <1>3 DEF Placed, Main, MainClip, Clips
  <2>2. QED
    BY <1>3, <2>1 DEF Main, MainClip, WindowAt, Clips
<1>4. CASE who = "wlscroll"
  <2>1. pc \in 1..12
    BY <1>4 DEF Placed, Main, MainScroll, Clips
  <2>2. QED
    BY <1>4, <2>1 DEF Main, MainScroll, WindowAt, Clips
<1>5. QED
  BY <1>1, <1>2, <1>3, <1>4, OffersTyped DEF Clips

(* What each kind of step leaves as it was.                                *)
Compositors == Takes \/ Configure \/ Ping \/ ShowFrame \/ Input \/ AskToClose \/ Leave
LEMMA Leaves ==
  /\ MainStep => UNCHANGED <<who, bound, configured, running, formats, server>>
  /\ Flush \/ Read => /\ UNCHANGED <<who, pc, bound, heard, configured, running, formats, left>>
                      /\ UNCHANGED server
  /\ HandleGlobal => UNCHANGED <<who, pc, waits, heard, configured, running, formats, left, server>>
  /\ HandleEnd => UNCHANGED <<who, pc, bound, heard, configured, running, formats, server>>
  /\ HandlerStep => UNCHANGED <<who, pc, bound, heard, server>>
  /\ Compositors => UNCHANGED <<client, offer, prompt>>
  /\ (\E g \in Gestures : Gesture(g)) \/ Tick => UNCHANGED <<client, server>>
<1>1. MainStep => UNCHANGED <<who, bound, configured, running, formats, server>>
  BY DEF MainStep, GetRegistry, Roundtrip, Returned, CheckGlobals, Listen, MakePool, MakeWindow,
     CheckConfigured, AttachOnce, GetDevice, GetSeat, FirstDraw, Again, Goes
<1>2. Flush \/ Read => /\ UNCHANGED <<who, pc, bound, heard, configured, running, formats, left>>
                       /\ UNCHANGED server
  BY DEF Flush, Read, client
<1>3. HandleGlobal => UNCHANGED <<who, pc, waits, heard, configured, running, formats, left, server>>
  BY DEF HandleGlobal
<1>4. HandlerStep => UNCHANGED <<who, pc, bound, heard, server>>
  BY DEF HandlerStep, HandleDone, HandleFormat, SurfaceConfigure, ToplevelClose, WmBasePing,
     FrameDone, SurfaceEnters, HandleInput, Pt, PtAxis, PtSay, PtAxisStop, PtOther, PtFrame, Noted,
     client
<1>5. Compositors => UNCHANGED <<client, offer, prompt>>
  BY DEF Compositors, Takes, TakeRegistry, TakeSync, TakeBind, TakeToplevel, TakeAck, TakeCommit,
     TakePong, TakeOther, Configure, Ping, ShowFrame, Input, AskToClose, Leave, server
<1>6. (\E g \in Gestures : Gesture(g)) \/ Tick => UNCHANGED <<client, server>>
  BY DEF Gesture, Tick, Clock, vars, windowVars
<1>7. HandleEnd => UNCHANGED <<who, pc, bound, heard, configured, running, formats, server>>
  BY DEF HandleEnd
<1>8. QED
  BY <1>1, <1>2, <1>3, <1>4, <1>5, <1>6, <1>7

(* What each step leaves as it was of what the window is.                  *)
LEMMA Keeps ==
  ASSUME [Next]_vars
  PROVE  /\ UNCHANGED <<who, offer, prompt>>
         /\ SurfaceConfigure \/ configured' = configured
         /\ Configure \/ serial' = serial
         /\ TakeAck \/ acked' = acked
         /\ TakeBind \/ TakeAck \/ TakeCommit \/ Leave \/ error' = error
         /\ TakeToplevel \/ TakeCommit \/ stage' = stage
         /\ HandleGlobal \/ bound' = bound
         /\ MainStep \/ pc' = pc
         /\ MainStep \/ HandleEnd \/ left' = left
         /\ MainStep \/ Read \/ HandleDone \/ HandleEnd \/ waits' = waits
         /\ waits = "lost" => waits' = "lost"
<1>1. UNCHANGED <<who, offer, prompt>>
  BY Steps, Leaves DEF Compositors, client, server
<1>2. SurfaceConfigure \/ configured' = configured
  <2>1. HandlerStep => SurfaceConfigure \/ configured' = configured
    BY DEF HandlerStep, HandleDone, HandleFormat, ToplevelClose, WmBasePing, FrameDone,
       SurfaceEnters, HandleInput, Pt, PtAxis, PtSay, PtAxisStop, PtOther, PtFrame, Noted, client
  <2>2. QED
    BY <2>1, Steps, Leaves DEF Compositors, client
<1>3. Configure \/ UNCHANGED serial
  <2>1. Compositors => Configure \/ UNCHANGED serial
    BY DEF Compositors, Takes, TakeRegistry, TakeSync, TakeBind, TakeToplevel, TakeAck, TakeCommit,
       TakePong, TakeOther, Ping, ShowFrame, Input, AskToClose, Leave, server
  <2>2. QED
    BY <2>1, Steps, Leaves DEF Compositors, server
<1>4. TakeAck \/ UNCHANGED acked
  <2>1. Compositors => TakeAck \/ UNCHANGED acked
    BY DEF Compositors, Takes, TakeRegistry, TakeSync, TakeBind, TakeToplevel, TakeCommit,
       TakePong, TakeOther, Configure, Ping, ShowFrame, Input, AskToClose, Leave, server
  <2>2. QED
    BY <2>1, Steps, Leaves DEF Compositors, server
<1>5. TakeBind \/ TakeAck \/ TakeCommit \/ Leave \/ UNCHANGED error
  <2>1. Compositors => TakeBind \/ TakeAck \/ TakeCommit \/ Leave \/ UNCHANGED error
    BY DEF Compositors, Takes, TakeRegistry, TakeSync, TakeToplevel, TakePong, TakeOther,
       Configure, Ping, ShowFrame, Input, AskToClose, server
  <2>2. QED
    BY <2>1, Steps, Leaves DEF Compositors, server
<1>6. TakeToplevel \/ TakeCommit \/ UNCHANGED stage
  <2>1. Compositors => TakeToplevel \/ TakeCommit \/ UNCHANGED stage
    BY DEF Compositors, Takes, TakeRegistry, TakeSync, TakeBind, TakeAck, TakePong, TakeOther,
       Configure, Ping, ShowFrame, Input, AskToClose, Leave, server
  <2>2. QED
    BY <2>1, Steps, Leaves DEF Compositors, server
<1>7. /\ HandleGlobal \/ bound' = bound
      /\ MainStep \/ pc' = pc
  BY Steps, Leaves DEF Compositors, client
<1>8. MainStep \/ HandleEnd \/ left' = left
  <2>1. HandlerStep => left' = left
    BY DEF HandlerStep, HandleDone, HandleFormat, SurfaceConfigure, ToplevelClose, WmBasePing,
       FrameDone, SurfaceEnters, HandleInput, Pt, PtAxis, PtSay, PtAxisStop, PtOther, PtFrame,
       Noted, client
  <2>2. QED
    BY <2>1, Steps, Leaves DEF Compositors, client
<1>9. MainStep \/ Read \/ HandleDone \/ HandleEnd \/ waits' = waits
  <2>1. HandlerStep => HandleDone \/ waits' = waits
    BY DEF HandlerStep, HandleFormat, SurfaceConfigure, ToplevelClose, WmBasePing,
       FrameDone, SurfaceEnters, HandleInput, Pt, PtAxis, PtSay, PtAxisStop, PtOther, PtFrame,
       Noted, client
  <2>2. Flush => waits' = waits
    BY DEF Flush, client
  <2>3. QED
    BY <2>1, <2>2, Steps, Leaves DEF Compositors, client
<1>10. waits = "lost" => waits' = "lost"
  <2>1. MainStep /\ waits = "lost" => waits' = "lost"
    BY DEF MainStep, GetRegistry, Roundtrip, Returned, CheckGlobals, Listen, MakePool, MakeWindow,
       CheckConfigured, AttachOnce, GetDevice, GetSeat, FirstDraw, Again, Goes
  <2>2. Read \/ HandleDone => waits # "lost"
    BY DEF Read, Blocked, HandleDone, Event, Dispatching
  <2>3. HandleEnd => waits' = "lost"
    BY DEF HandleEnd
  <2>4. QED
    BY <1>9, <2>1, <2>2, <2>3
<1>11. QED
  BY <1>1, <1>2, <1>3, <1>4, <1>5, <1>6, <1>7, <1>8, <1>9, <1>10

(* `main` goes on a step at a time, and past the window only with one that *)
(* is configured.                                                          *)
LEMMA GoesOn ==
  ASSUME StateTyped, Placed, [Next]_vars
  PROVE  /\ Placed' /\ WindowAt' = WindowAt /\ Main' = Main
         /\ \/ pc' = pc
            \/ pc' = pc + 1 /\ left = "" /\ MainStep
            \/ pc' = pc + 2 /\ pc > WindowAt + 2
         /\ Shown' => Shown \/ configured
<1>1. WindowAt' = WindowAt /\ Main' = Main
  BY Keeps DEF WindowAt, Main
<1>2. MainStep =>
        \/ pc' = pc
        \/ pc' = pc + 1 /\ left = "" /\ Main[pc] # "loop" /\ (Main[pc] = "configured" => configured)
        \/ pc' = pc + 2 /\ Main[pc] = "seat"
  BY DEF MainStep, GetRegistry, Roundtrip, Returned, CheckGlobals, Listen, MakePool, MakeWindow,
     CheckConfigured, AttachOnce, GetDevice, GetSeat, FirstDraw, Again, Goes, Past, At
<1>3. \/ pc' = pc
      \/ pc' = pc + 1 /\ left = "" /\ MainStep /\ Main[pc] # "loop"
         /\ (Main[pc] = "configured" => configured)
      \/ pc' = pc + 2 /\ Main[pc] = "seat"
  BY <1>2, Keeps
<1>4. /\ pc \in Nat /\ WindowAt \in Nat /\ Len(Main) \in Nat /\ 1 <= pc /\ pc <= Len(Main)
      /\ Main[pc] = "configured" <=> pc = WindowAt + 2
      /\ Main[pc] # "loop" => pc + 1 <= Len(Main)
      /\ Main[pc] = "seat" => pc > WindowAt + 2 /\ pc + 2 <= Len(Main)
  BY Table DEF Placed
<1>5. pc' \in 1..Len(Main)
  <2>1. CASE pc' = pc
    BY <1>4, <2>1
  <2>2. CASE pc' = pc + 1 /\ Main[pc] # "loop"
    BY <1>4, <2>2
  <2>3. CASE pc' = pc + 2 /\ Main[pc] = "seat"
    BY <1>4, <2>3
  <2>4. QED
    BY <1>3, <2>1, <2>2, <2>3
<1>6. Placed'
  BY <1>1, <1>5 DEF Placed
<1>7. pc' > WindowAt + 2 => pc > WindowAt + 2 \/ configured
  <2>1. CASE pc' = pc
    BY <1>4, <2>1
  <2>2. CASE pc' = pc + 1 /\ (Main[pc] = "configured" => configured)
    BY <1>4, <2>2
  <2>3. CASE pc' = pc + 2 /\ Main[pc] = "seat"
    BY <1>4, <2>3
  <2>4. QED
    BY <1>3, <2>1, <2>2, <2>3
<1>8. Shown' => Shown \/ configured
  BY <1>1, <1>7 DEF Shown
<1>9. QED
  BY <1>1, <1>3, <1>4, <1>6, <1>8

LEMMA PlacedInit == ASSUME InitScroll PROVE Placed
<1>1. pc = 1 /\ who \in {"wlcairo", "wlprobe", "wlclip", "wlclip_primary", "wlscroll"}
  BY WindowAssumption DEF InitScroll, Init
<1>2. Len(Main) \in Nat /\ Len(Main) >= 10
  BY <1>1 DEF Main, MainCairo, MainProbe, MainClip, MainScroll, Clips
<1>3. pc \in 1..Len(Main)
  BY <1>1, <1>2
<1>4. QED
  BY <1>3 DEF Placed

LEMMA PlacedHolds == Spec => []Placed
<1>1. InitScroll => Placed
  BY PlacedInit
<1>2. Placed /\ Typed /\ [Next]_vars => Placed'
  BY GoesOn DEF Typed
<1>3. QED
  BY <1>1, <1>2, TypedHolds, PTL DEF Spec

LEMMA LoudOrQuiet ==
  ASSUME [Next]_vars
  PROVE  \/ QuietStep
         \/ GetRegistry \/ Roundtrip \/ MakeWindow \/ AttachOnce \/ FirstDraw
         \/ HandleGlobal \/ HandleDone \/ HandleFormat \/ SurfaceConfigure \/ FrameDone
         \/ TakeRegistry \/ TakeSync \/ TakeBind \/ TakeToplevel \/ TakeAck \/ TakeCommit
         \/ Configure
BY Steps DEF QuietStep, MainStep, HandlerStep, Takes

-----------------------------------------------------------------------------
(* The serials on their way are those not acknowledged yet, in their       *)
(* order: first the acknowledgements made, then the configures to come.    *)
Acks == Op({"ack"})
Serials == Op({"ack", "configure"})
SerialInv ==
  /\ acked <= serial
  /\ Rising(ToServer, Serials) /\ Rising(ToClient, Serials)
  /\ Below(ToServer, ToClient, Serials)
  /\ Within(ToServer, Serials, acked + 1, serial) /\ Within(ToClient, Serials, acked + 1, serial)

LEMMA SerialStill ==
  ASSUME SerialInv, Still({"ack", "configure"}), UNCHANGED <<acked, serial>>
  PROVE  SerialInv'
<1>1. Serials \subseteq Op({"ack", "configure"})
  BY DEF Serials
<1>2. /\ Rising(ToServer', Serials) /\ Rising(ToClient', Serials)
      /\ Among(ToServer') \cap Serials = Among(ToServer) \cap Serials
      /\ Among(ToClient') \cap Serials = Among(ToClient) \cap Serials
  BY <1>1 DEF Still, Alike, SerialInv
<1>3. Below(ToServer', ToClient', Serials)
  BY <1>2 DEF Below, SerialInv
<1>4. Within(ToServer', Serials, acked + 1, serial) /\ Within(ToClient', Serials, acked + 1, serial)
  BY <1>2 DEF Within, SerialInv
<1>5. QED
  BY <1>2, <1>3, <1>4 DEF SerialInv

(* A configure is acknowledged with its own serial, which no               *)
(* acknowledgement made reaches and every configure to come passes.        *)
LEMMA SerialAnswered == ASSUME Typed, Typed', SerialInv, SurfaceConfigure PROVE SerialInv'
<1> DEFINE a == [op |-> "ack", serial |-> Here.serial]
<1>1. Here \in Messages /\ Here.op = "configure" /\ Here.serial \in Nat
  BY HeadsTyped DEF SurfaceConfigure, Event, Dispatching, Here, Sent, Events, PointerEvents
<1>2. Here \in Serials /\ <<Here>> \in Seq(Messages)
  BY <1>1, Alone DEF Serials, Op
<1>3. a \in Messages /\ a \in Serials /\ <<a>> \in Seq(Messages) /\ a.serial = Here.serial
  BY <1>1, Alone DEF Serials, Op, Messages, Requests
<1>4. ToClient = <<Here>> \o ToClient' /\ ToServer' = ToServer \o <<a>>
  BY HandlerMoves DEF Hearing, Here
<1>5. /\ ToClient \in Seq(Messages) /\ ToServer \in Seq(Messages)
      /\ ToClient' \in Seq(Messages) /\ ToServer' \in Seq(Messages)
  BY WiresTyped, WiresTypedNext
<1>6. /\ Rising(ToClient', Serials) /\ Below(<<Here>>, ToClient', Serials)
      /\ Below(ToServer, <<Here>>, Serials) /\ Below(ToServer, ToClient', Serials)
  BY <1>2, <1>4, <1>5, JoinedRising, JoinedBelow DEF SerialInv
<1>7. Below(<<a>>, ToClient', Serials) /\ Below(ToServer, <<a>>, Serials)
  BY <1>2, <1>3, <1>6, OfOne DEF Below
<1>8. Rising(ToServer', Serials) /\ Below(ToServer', ToClient', Serials)
  <2>1. Rising(<<a>>, Serials)
    BY OfOne
  <2>2. QED
    BY <1>3, <1>4, <1>5, <1>6, <1>7, <2>1, JoinedRising, JoinedBelow DEF SerialInv
<1>9. Within(<<Here>>, Serials, acked + 1, serial) /\ Within(ToClient', Serials, acked + 1, serial)
  BY <1>2, <1>4, <1>5, JoinedWithin DEF SerialInv
<1>10. Within(<<a>>, Serials, acked + 1, serial)
  BY <1>2, <1>3, <1>9, OfOne DEF Within
<1>11. Within(ToServer', Serials, acked + 1, serial)
  BY <1>3, <1>4, <1>5, <1>10, JoinedWithin DEF SerialInv
<1>12. UNCHANGED <<acked, serial>>
  BY DEF SurfaceConfigure, server
<1>13. QED
  BY <1>6, <1>8, <1>9, <1>11, <1>12 DEF SerialInv

(* So it is always a serial the compositor has sent and not been told of.  *)
LEMMA SerialTaken ==
  ASSUME Typed, Typed', SerialInv, TakeAck
  PROVE  /\ SerialInv' /\ acked' = Wish.serial /\ acked' > 0 /\ error' = error
         /\ Taking(<< >>)
<1>1. requests # << >> /\ Wish \in Messages /\ Wish.op = "ack" /\ Wish \in Serials
  BY HeadsTyped DEF TakeAck, Request, Wish, Serials, Op
<1>2. <<Wish>> \in Seq(Messages) /\ Wish.serial \in Nat
  BY <1>1, Alone DEF Messages, Requests, Events, PointerEvents
<1>3. \E es \in {<< >>, <<[op |-> "end"]>>} : Taking(es)
  BY CompositorMoves
<1>4. ToServer = <<Wish>> \o ToServer'
  BY <1>3 DEF Taking, Wish
<1>5. /\ ToClient \in Seq(Messages) /\ ToServer \in Seq(Messages)
      /\ ToClient' \in Seq(Messages) /\ ToServer' \in Seq(Messages)
  BY WiresTyped, WiresTypedNext
<1>6. /\ Rising(ToServer', Serials) /\ Below(<<Wish>>, ToServer', Serials)
      /\ Below(<<Wish>>, ToClient, Serials) /\ Below(ToServer', ToClient, Serials)
      /\ Within(<<Wish>>, Serials, acked + 1, serial)
      /\ Within(ToServer', Serials, acked + 1, serial)
  BY <1>2, <1>4, <1>5, JoinedRising, JoinedBelow, JoinedWithin DEF SerialInv
<1>7. Wish.serial \in (acked + 1)..serial
  BY <1>1, <1>6, OfOne DEF Within
<1>8. acked' = Wish.serial /\ UNCHANGED <<error, serial, events>>
  BY <1>7 DEF TakeAck, Wish
<1>9. Taking(<< >>) /\ ToClient' = ToClient
  <2>1. << >> \in Seq(Messages) /\ events' = events \o << >>
    BY <1>8, EmptySeq, ConcatEmptySeq, WiresTyped
  <2>2. UNCHANGED <<buffered, queue>> /\ requests' = Tail(requests)
    BY DEF TakeAck, Taken
  <2>3. Taking(<< >>)
    BY <1>1, <2>1, <2>2, Takings
  <2>4. QED
    BY <1>8, <2>2, <2>3 DEF ToClient
<1>10. acked \in Nat /\ serial \in Nat
  BY DEF Typed, StateTyped
<1>11. ASSUME NEW t, t \in {ToServer', ToClient}
       PROVE  Within(t, Serials, Wish.serial + 1, serial)
  <2>1. \A x \in Among(t) \cap Serials : Wish.serial < x.serial
    BY <1>1, <1>6, <1>11, OfOne DEF Below
  <2>2. \A x \in Among(t) \cap Serials : x.serial \in (acked + 1)..serial
    BY <1>6, <1>11 DEF Within, SerialInv
  <2>3. QED
    BY <1>2, <1>10, <2>1, <2>2 DEF Within
<1>12. SerialInv'
  BY <1>2, <1>6, <1>7, <1>8, <1>9, <1>10, <1>11 DEF SerialInv
<1>13. QED
  BY <1>7, <1>8, <1>9, <1>10, <1>12

LEMMA SerialSent == ASSUME Typed, Typed', SerialInv, Configure PROVE SerialInv'
<1> DEFINE c == [op |-> "configure", serial |-> serial + 1]
<1>1. acked \in Nat /\ serial \in Nat
  BY DEF Typed, StateTyped
<1>2. c \in Messages /\ c \in Serials /\ <<c>> \in Seq(Messages) /\ c.serial = serial + 1
  <2>1. c \in Events /\ c.op = "configure" /\ c.serial = serial + 1
    <3>1. \A s \in Nat : [op |-> "configure", serial |-> s] \in Events
      BY DEF Events
    <3>2. QED
      BY <1>1, <3>1
  <2>2. c \in Messages /\ c \in Serials
    BY <2>1 DEF Serials, Op, Messages
  <2>3. QED
    BY <2>1, <2>2, Alone
<1>3. ToClient' = ToClient \o <<c>> /\ ToServer' = ToServer
  BY CompositorMoves DEF Saying
<1>4. ToClient \in Seq(Messages) /\ ToServer \in Seq(Messages)
  BY WiresTyped
<1>5. UNCHANGED acked /\ serial' = serial + 1
  BY DEF Configure
<1>6. ASSUME NEW t, t \in {ToServer, ToClient}
      PROVE  Below(t, <<c>>, Serials) /\ Within(t, Serials, acked + 1, serial + 1)
  <2>1. \A x \in Among(t) \cap Serials : x.serial \in (acked + 1)..serial
    BY <1>6 DEF Within, SerialInv
  <2>2. \A x \in Among(t) \cap Serials : x.serial < serial + 1 /\ x.serial \in (acked + 1)..(serial + 1)
    BY <1>1, <2>1
  <2>3. QED
    BY <1>2, <2>2, OfOne DEF Below, Within
<1>7. Within(<<c>>, Serials, acked + 1, serial + 1)
  <2>1. acked <= serial
    BY DEF SerialInv
  <2>2. QED
    BY <1>1, <1>2, <2>1, OfOne DEF Within
<1>8. Rising(<<c>>, Serials)
  BY OfOne
<1>9. /\ Rising(ToServer', Serials) /\ Rising(ToClient', Serials)
      /\ Below(ToServer', ToClient', Serials)
  BY <1>2, <1>3, <1>4, <1>6, <1>8, JoinedRising, JoinedBelow DEF SerialInv
<1>10. /\ Within(ToServer', Serials, acked + 1, serial + 1)
       /\ Within(ToClient', Serials, acked + 1, serial + 1)
  BY <1>2, <1>3, <1>4, <1>6, <1>7, JoinedWithin
<1>11. acked' <= serial'
  BY <1>1, <1>5 DEF SerialInv
<1>12. QED
  BY <1>5, <1>9, <1>10, <1>11 DEF SerialInv

LEMMA SerialStep == ASSUME Typed, Typed', SerialInv, [Next]_vars PROVE SerialInv'
<1> DEFINE ops == {"ack", "configure"}
<1>1. ops \cap Noise = {}
  BY DEF Noise
<1>2. SurfaceConfigure \/ TakeAck \/ Configure \/ Still(ops)
  BY <1>1, LoudOrQuiet, QuietStill, LoudStill
<1>3. CASE SurfaceConfigure \/ TakeAck \/ Configure
  BY <1>3, SerialAnswered, SerialTaken, SerialSent
<1>4. CASE Still(ops) /\ ~TakeAck /\ ~Configure
  BY <1>4, Keeps, SerialStill
<1>5. QED
  BY <1>2, <1>3, <1>4

-----------------------------------------------------------------------------
(* A buffer is shown only behind an acknowledgement.                       *)
Buffers == {x \in Op({"commit"}) : x.buffer}
AckInv ==
  /\ acked = 0 => Behind(ToServer, Buffers, Acks)
  /\ configured => acked > 0 \/ Has(ToServer, Acks)
  /\ Shown => configured
  /\ NeverRefused

(* What a step has to leave of the order, to leave the rest.               *)
LEMMA AckKept ==
  ASSUME Typed, Placed, AckInv, [Next]_vars,
         acked' > 0 \/ acked' = acked,
         acked = 0 /\ acked' = 0 => Behind(ToServer', Buffers, Acks),
         configured' => acked' > 0 \/ Has(ToServer', Acks),
         ByNumber => error' = error \/ error' = "left"
  PROVE  AckInv'
<1>1. acked \in Nat
  BY DEF Typed, StateTyped
<1>2. acked' = 0 => Behind(ToServer', Buffers, Acks)
  BY <1>1
<1>3. Shown' => configured'
  <2>1. configured => configured'
    BY Keeps DEF SurfaceConfigure
  <2>2. QED
    BY <2>1, GoesOn DEF Typed, AckInv
<1>4. NeverRefused'
  <2>1. ByNumber' = ByNumber
    BY Keeps DEF ByNumber
  <2>2. QED
    BY <2>1 DEF NeverRefused, AckInv
<1>5. QED
  BY <1>2, <1>3, <1>4 DEF AckInv

LEMMA AckStill ==
  ASSUME Typed, Placed, AckInv, [Next]_vars, Still({"ack", "commit"}),
         ~SurfaceConfigure, ~TakeAck, ByNumber => error' = error \/ error' = "left"
  PROVE  AckInv'
<1>1. acked' = acked /\ configured' = configured
  BY Keeps
<1>2. Buffers \subseteq Op({"ack", "commit"}) /\ Acks \subseteq Op({"ack", "commit"})
  BY DEF Buffers, Acks, Op
<1>3. /\ Behind(ToServer', Buffers, Acks) <=> Behind(ToServer, Buffers, Acks)
      /\ Has(ToServer', Acks) <=> Has(ToServer, Acks)
  BY <1>2 DEF Still, Alike
<1>4. QED
  BY <1>1, <1>3, AckKept DEF AckInv

(* A window is committed with nothing on it.                               *)
LEMMA BareWindow == Among(Window) \cap Buffers = {}
<1>1. Among(Window) =
        Among(<<[op |-> "toplevel"]>>) \cup Among(Decoration) \cup Among(<<Shows(FALSE, FALSE)>>)
  <2>1. Window = (<<[op |-> "toplevel"]>> \o Decoration) \o <<Shows(FALSE, FALSE)>>
    BY DEF Window
  <2>2. Among(<<[op |-> "toplevel"]>> \o Decoration) =
          Among(<<[op |-> "toplevel"]>>) \cup Among(Decoration)
    BY WindowTyped, JoinedAmong, ZenonT(30)
  <2>3. Among(Window) =
          Among(<<[op |-> "toplevel"]>> \o Decoration) \cup Among(<<Shows(FALSE, FALSE)>>)
    <3>1. \A s, t \in Seq(Messages) : Among(s \o t) = Among(s) \cup Among(t)
      BY JoinedAmong
    <3>2. QED
      BY <2>1, <3>1, WindowTyped
  <2>4. QED
    BY <2>2, <2>3
<1>2. Among(Decoration) \subseteq {[op |-> "decoration"]}
  BY OfOne, OfNone DEF Decoration
<1>3. [op |-> "toplevel"] \notin Buffers /\ [op |-> "decoration"] \notin Buffers
  BY DEF Buffers, Op
<1>4. Shows(FALSE, FALSE) \notin Buffers
  BY DEF Buffers, Shows
<1>5. QED
  BY <1>1, <1>2, <1>3, <1>4, OfOne

LEMMA AckWindow == ASSUME Typed, Placed, AckInv, [Next]_vars, MakeWindow PROVE AckInv'
<1>1. ToServer' = ToServer \o Window
  BY MainMoves DEF Asking
<1>2. ToServer \in Seq(Messages) /\ Window \in Seq(Messages)
  BY WiresTyped, WindowTyped
<1>3. Behind(Window, Buffers, Acks)
  BY BareWindow, NoneAmong
<1>4. /\ Behind(ToServer', Buffers, Acks) <=> Behind(ToServer, Buffers, Acks)
      /\ Has(ToServer, Acks) => Has(ToServer', Acks)
  BY <1>1, <1>2, <1>3, JoinedBehind, JoinedHas
<1>5. UNCHANGED <<acked, error, configured>>
  BY DEF MakeWindow, server
<1>6. QED
  BY <1>4, <1>5, AckKept DEF AckInv

(* One that is, once it is configured: its acknowledgement is ahead.       *)
LEMMA AckShown ==
  ASSUME Typed, Placed, AckInv, [Next]_vars, UNCHANGED <<acked, error, configured>>,
         acked > 0 \/ Has(ToServer, Acks),
         NEW rs \in Seq(Messages), ToServer' = ToServer \o rs
  PROVE  AckInv'
<1>1. ToServer \in Seq(Messages)
  BY WiresTyped
<1>2. Has(ToServer, Acks) => Behind(ToServer', Buffers, Acks) <=> Behind(ToServer, Buffers, Acks)
  BY <1>1, JoinedBehind
<1>3. Has(ToServer, Acks) => Has(ToServer', Acks)
  BY <1>1, JoinedHas
<1>4. acked \in Nat
  BY DEF Typed, StateTyped
<1>5. QED
  BY <1>2, <1>3, <1>4, AckKept DEF AckInv

LEMMA AckDrawn ==
  ASSUME Typed, Placed, AckInv, [Next]_vars, AttachOnce \/ FirstDraw \/ FrameDone PROVE AckInv'
<1>1. UNCHANGED <<acked, error, configured>>
  BY DEF AttachOnce, FirstDraw, FrameDone, client, server
<1>2. \E rs \in Seq(Messages) : ToServer' = ToServer \o rs
  <2>1. \/ ToServer' = ToServer \/ ToServer' = ToServer \o <<Shows(TRUE, FALSE)>>
        \/ ToServer' = ToServer \o Frame \/ ToServer' = ToServer \o << >>
    BY MainMoves, HandlerMoves DEF Pass, Asking, Hearing
  <2>2. << >> \in Seq(Messages) /\ ToServer \o << >> = ToServer
    BY WiresTyped, EmptySeq, ConcatEmptySeq
  <2>3. <<Shows(TRUE, FALSE)>> \in Seq(Messages) /\ Frame \in Seq(Messages)
    BY PlainMessages DEF Shows, Frame
  <2>4. QED
    BY <2>1, <2>2, <2>3
<1>3. acked > 0 \/ Has(ToServer, Acks)
  <2>1. CASE FrameDone
    BY <2>1, HeadsTyped DEF FrameDone, Event, Dispatching, Here, Sent
  <2>2. CASE AttachOnce \/ FirstDraw
    <3>1. Main[pc] \in {"attach", "draw"}
      BY <2>2 DEF AttachOnce, FirstDraw, At
    <3>2. Shown
      BY <3>1, Table DEF Typed, Shown
    <3>3. QED
      BY <3>2 DEF AckInv
  <2>3. QED
    BY <2>1, <2>2
<1>4. QED
  BY <1>1, <1>2, <1>3, AckShown

LEMMA AckAnswered ==
  ASSUME Typed, Placed, AckInv, [Next]_vars, SurfaceConfigure PROVE AckInv'
<1> DEFINE a == [op |-> "ack", serial |-> Here.serial]
<1>1. Here.serial \in Nat
  BY HeadsTyped DEF SurfaceConfigure, Event, Dispatching, Here, Sent, Events, PointerEvents
<1>2. a \in Messages /\ a \in Acks /\ a \notin Buffers /\ <<a>> \in Seq(Messages)
  BY <1>1, Alone DEF Acks, Buffers, Op, Messages, Requests
<1>3. ToServer' = ToServer \o <<a>> /\ ToServer \in Seq(Messages)
  BY WiresTyped, HandlerMoves DEF Hearing
<1>4. Has(ToServer', Acks)
  <2>1. Has(<<a>>, Acks)
    BY <1>2, OfOne
  <2>2. QED
    <3>1. \A s, t \in Seq(Messages) : Has(t, Acks) => Has(s \o t, Acks)
      BY JoinedHas
    <3>2. QED
      BY <1>2, <1>3, <2>1, <3>1
<1>5. Behind(ToServer, Buffers, Acks) => Behind(ToServer', Buffers, Acks)
  <2>1. Behind(<<a>>, Buffers, Acks)
    BY <1>2, OfOne
  <2>2. QED
    BY <1>2, <1>3, <2>1, JoinedBehind
<1>6. UNCHANGED <<acked, error>>
  BY DEF SurfaceConfigure, server
<1>7. QED
  BY <1>4, <1>5, <1>6, AckKept DEF AckInv

LEMMA AckTaken ==
  ASSUME Typed, Typed', Placed, SerialInv, AckInv, [Next]_vars, TakeAck PROVE AckInv'
BY SerialTaken, AckKept

(* So no buffer is taken before an acknowledgement.                        *)
LEMMA AckCommitted ==
  ASSUME Typed, Typed', Placed, AckInv, [Next]_vars, TakeCommit PROVE AckInv' /\ error' = error
<1>1. requests # << >> /\ Wish \in Messages /\ Wish.op = "commit" /\ <<Wish>> \in Seq(Messages)
  BY HeadsTyped, Alone DEF TakeCommit, Request, Wish
<1>2. ToServer = <<Wish>> \o ToServer'
  BY CompositorMoves DEF Taking, Wish
<1>3. ToServer' \in Seq(Messages)
  BY WiresTypedNext
<1>4. Wish \notin Acks
  BY <1>1 DEF Acks, Op
<1>5. ~Has(<<Wish>>, Acks)
  BY <1>4, OfOne
<1>6. acked = 0 => Behind(<<Wish>>, Buffers, Acks) /\ Behind(ToServer', Buffers, Acks)
  BY <1>1, <1>2, <1>3, <1>5, JoinedBehind DEF AckInv
<1>7. Has(ToServer, Acks) <=> Has(ToServer', Acks)
  BY <1>1, <1>2, <1>3, <1>5, JoinedHas
<1>8. ~(Wish.buffer /\ acked = 0)
  BY <1>1, <1>6, OfOne DEF Buffers, Op
<1>9. error' = error
  BY <1>8 DEF TakeCommit, Wish
<1>10. UNCHANGED <<acked, configured>>
  BY DEF TakeCommit, client
<1>11. QED
  BY <1>6, <1>7, <1>9, <1>10, AckKept DEF AckInv

(* And no version that is not there is bound.                              *)
LEMMA BoundIsThere == ASSUME Typed, TakeBind, ByNumber PROVE error' = error
<1>1. Wish \in Asked /\ Wish.op = "bind"
  BY HeadsTyped DEF TakeBind, Request, Wish
<1>2. Wish \in Requests /\ Wish.version <= offer[Wish.interface]
  BY <1>1 DEF Asked
<1>3. Wish.version \in Nat /\ Wish.interface \in Interfaces
  BY <1>1, <1>2 DEF Requests
<1>4. ~(Wish.version > offer[Wish.interface])
  BY <1>2, <1>3, OffersTyped DEF Typed
<1>5. QED
  BY <1>4 DEF TakeBind, Wish

LEMMA AckStep ==
  ASSUME Typed, Typed', Placed, SerialInv, AckInv, [Next]_vars PROVE AckInv'
<1> DEFINE ops == {"ack", "commit"}
<1>1. ops \cap Noise = {}
  BY DEF Noise
<1>2. \/ MakeWindow \/ AttachOnce \/ FirstDraw \/ FrameDone \/ TakeCommit \/ SurfaceConfigure
      \/ TakeAck \/ Still(ops)
  BY <1>1, LoudOrQuiet, QuietStill, LoudStill
<1>3. CASE Still(ops) /\ ~TakeCommit /\ ~SurfaceConfigure /\ ~TakeAck
  <2>1. Leave => error' = "left"
    BY DEF Leave, Refuse
  <2>2. ByNumber => error' = error \/ error' = "left"
    BY <1>3, <2>1, Keeps, BoundIsThere
  <2>3. QED
    BY <1>3, <2>2, AckStill
<1>4. QED
  BY <1>2, <1>3, AckWindow, AckDrawn, AckCommitted, AckAnswered, AckTaken

LEMMA SureHolds == Spec => [](SerialInv /\ AckInv)
<1> DEFINE Inv == SerialInv /\ AckInv
<1>1. InitScroll => Inv
  <2>1. SUFFICES ASSUME InitScroll PROVE Inv
    OBVIOUS
  <2>2. ToServer = << >> /\ ToClient = << >>
    <3>1. << >> \in Seq(Messages) /\ << >> \o << >> = << >>
      BY EmptySeq, ConcatEmptySeq
    <3>2. QED
      BY <2>1, <3>1 DEF InitScroll, Init, ToServer, ToClient
  <2>3. ~Shown
    <3>1. StateTyped /\ Placed /\ pc = 1
      BY <2>1, TypedInit, PlacedInit DEF InitScroll, Init, Typed
    <3>2. QED
      BY <3>1, Table DEF Shown
  <2>4. SerialInv
    <3>1. acked = 0 /\ serial = 0 /\ Among(<< >>) = {} /\ Rising(<< >>, Serials)
      BY <2>1, OfNone DEF InitScroll, Init
    <3>2. QED
      BY <2>2, <3>1 DEF SerialInv, Below, Within
  <2>5. AckInv
    <3>1. error = "" /\ configured = FALSE /\ Behind(<< >>, Buffers, Acks)
      BY <2>1, OfNone DEF InitScroll, Init
    <3>2. QED
      BY <2>2, <2>3, <3>1 DEF AckInv, NeverRefused
  <2>6. QED
    BY <2>4, <2>5
<1>2. Typed /\ Typed' /\ Placed /\ Inv /\ [Next]_vars => Inv'
  BY SerialStep, AckStep
<1>3. QED
  BY <1>1, <1>2, TypedHolds, PlacedHolds, PTL DEF Spec

(* No program is thrown out: it binds what there is, shows a buffer only   *)
(* behind an acknowledgement, and acknowledges only what it was sent, for  *)
(* any compositor and any number of configures (the four `main`s and their *)
(* listeners, e.g. toolchain/wlprobe.c:201-420).                           *)
THEOREM NeverRefusedHolds == Spec => []NeverRefused
<1>1. SerialInv /\ AckInv => NeverRefused
  BY DEF AckInv
<1>2. QED
  BY <1>1, SureHolds, PTL

-----------------------------------------------------------------------------
(* The way of an answer: what has been asked, behind what has been         *)
(* answered and not handled.  A request is answered in its place.          *)
Road == ToClient \o ToServer
Rest == ToClient' \o ToServer

LEMMA RoadTyped ==
  ASSUME Typed, Typed'
  PROVE  /\ Road \in Seq(Messages) /\ Road' \in Seq(Messages) /\ Rest \in Seq(Messages)
         /\ ToClient \in Seq(Messages) /\ ToServer \in Seq(Messages)
         /\ ToClient' \in Seq(Messages) /\ ToServer' \in Seq(Messages)
         /\ Road' = ToClient' \o ToServer'
BY WiresTyped, WiresTypedNext, ConcatProperties DEF Road, Rest

LEMMA RoadMoves ==
  ASSUME Typed, Typed', NEW es \in Seq(Messages)
  PROVE  /\ Asking(es) => Road' = Road \o es
         /\ Hearing(es) /\ Here \in Messages => Road = <<Here>> \o Rest /\ Road' = Rest \o es
         /\ Taking(es) /\ Wish \in Messages => /\ Road = (ToClient \o <<Wish>>) \o ToServer'
                                               /\ Road' = (ToClient \o es) \o ToServer'
<1>0. /\ ToClient \in Seq(Messages) /\ ToServer \in Seq(Messages)
      /\ ToClient' \in Seq(Messages) /\ ToServer' \in Seq(Messages) /\ es \in Seq(Messages)
  BY RoadTyped
<1>1. \A x \in Messages : <<x>> \in Seq(Messages)
  BY Alone
<1>2. Asking(es) => Road' = Road \o es
  <2>1. ToClient \o (ToServer \o es) = (ToClient \o ToServer) \o es
    BY <1>0, JoinedTwice, SMTT(30)
  <2>2. QED
    BY <2>1, RoadTyped DEF Asking, Road
<1>3. Hearing(es) /\ Here \in Messages => Road = <<Here>> \o Rest /\ Road' = Rest \o es
  <2>1. SUFFICES ASSUME Hearing(es), Here \in Messages
                 PROVE  Road = <<Here>> \o Rest /\ Road' = Rest \o es
    OBVIOUS
  <2>2. (<<Here>> \o ToClient') \o ToServer = <<Here>> \o (ToClient' \o ToServer)
    <3>1. <<Here>> \in Seq(Messages)
      BY <1>1, <2>1
    <3>2. QED
      BY <1>0, <3>1, JoinedTwice
  <2>3. ToClient' \o (ToServer \o es) = (ToClient' \o ToServer) \o es
    BY <1>0, JoinedTwice, SMTT(30)
  <2>4. ToClient = <<Here>> \o ToClient' /\ ToServer' = ToServer \o es
    BY <2>1 DEF Hearing, Here
  <2>5. QED
    BY <2>2, <2>3, <2>4, RoadTyped DEF Road, Rest
<1>4. Taking(es) /\ Wish \in Messages => /\ Road = (ToClient \o <<Wish>>) \o ToServer'
                                         /\ Road' = (ToClient \o es) \o ToServer'
  <2>1. SUFFICES ASSUME Taking(es), Wish \in Messages
                 PROVE  /\ Road = (ToClient \o <<Wish>>) \o ToServer'
                        /\ Road' = (ToClient \o es) \o ToServer'
    OBVIOUS
  <2>2. (ToClient \o <<Wish>>) \o ToServer' = ToClient \o (<<Wish>> \o ToServer')
    <3>1. <<Wish>> \in Seq(Messages)
      BY <1>1, <2>1
    <3>2. QED
      BY <1>0, <3>1, JoinedTwice
  <2>3. ToServer = <<Wish>> \o ToServer' /\ ToClient' = ToClient \o es
    BY <2>1 DEF Taking, Wish
  <2>4. QED
    BY <2>2, <2>3, RoadTyped DEF Road
<1>5. QED
  BY <1>2, <1>3, <1>4

LEMMA RoadStill == ASSUME Typed, Typed', NEW ops, Still(ops) PROVE Alike(Road, Road', ops)
<1> DEFINE E == ToClient
           R == ToServer
           E1 == ToClient'
           R1 == ToServer'
<1>1. /\ E \in Seq(Messages) /\ R \in Seq(Messages)
      /\ E1 \in Seq(Messages) /\ R1 \in Seq(Messages) /\ Road' = E1 \o R1 /\ Road = E \o R
  BY RoadTyped DEF Road
<1>2. Alike(E, E1, ops) /\ Alike(R, R1, ops)
  BY DEF Still
<1> HIDE DEF E, R, E1, R1
<1>3. SUFFICES ASSUME NEW C \in SUBSET Op(ops), NEW O \in SUBSET Op(ops)
               PROVE  /\ Has(E \o R, C) <=> Has(E1 \o R1, C)
                      /\ Behind(E \o R, C, O) <=> Behind(E1 \o R1, C, O)
                      /\ Lone(E \o R, C) <=> Lone(E1 \o R1, C)
                      /\ Rising(E \o R, C) <=> Rising(E1 \o R1, C)
                      /\ Among(E \o R) \cap C = Among(E1 \o R1) \cap C
                      /\ Count(E \o R, C) = Count(E1 \o R1, C)
  BY <1>1 DEF Alike
<1>4. /\ Has(E, C) <=> Has(E1, C)
      /\ Has(E, O) <=> Has(E1, O)
      /\ Behind(E, C, O) <=> Behind(E1, C, O)
      /\ Lone(E, C) <=> Lone(E1, C)
      /\ Rising(E, C) <=> Rising(E1, C)
      /\ Among(E) \cap C = Among(E1) \cap C
      /\ Has(R, C) <=> Has(R1, C)
      /\ Behind(R, C, O) <=> Behind(R1, C, O)
      /\ Lone(R, C) <=> Lone(R1, C)
      /\ Rising(R, C) <=> Rising(R1, C)
      /\ Among(R) \cap C = Among(R1) \cap C
      /\ Count(E, C) = Count(E1, C) /\ Count(R, C) = Count(R1, C)
  BY <1>2 DEF Alike
<1>5. Below(E, R, C) <=> Below(E1, R1, C)
  BY <1>4 DEF Below
<1>6. Has(E \o R, C) <=> Has(E1 \o R1, C)
  BY <1>1, <1>4, JoinedHas
<1>7. Behind(E \o R, C, O) <=> Behind(E1 \o R1, C, O)
  BY <1>1, <1>4, JoinedBehind
<1>8. Lone(E \o R, C) <=> Lone(E1 \o R1, C)
  BY <1>1, <1>4, JoinedLone
<1>9. Rising(E \o R, C) <=> Rising(E1 \o R1, C)
  BY <1>1, <1>4, <1>5, JoinedRising
<1>10. Among(E \o R) \cap C = Among(E1 \o R1) \cap C
  BY <1>1, <1>4, JoinedAmong
<1>11. Count(E \o R, C) = Count(E1 \o R1, C)
  BY <1>1, <1>4, JoinedCount
<1>12. QED
  BY <1>6, <1>7, <1>8, <1>9, <1>10, <1>11

(* An answer in the place of a request stands where the request stood.     *)
LEMMA InPlace ==
  ASSUME NEW s \in Seq(Messages), NEW t \in Seq(Messages), NEW x \in Messages, NEW y \in Messages,
         NEW C, NEW O, x \in C <=> y \in C, x \in O <=> y \in O
  PROVE  /\ Has((s \o <<x>>) \o t, C) <=> Has((s \o <<y>>) \o t, C)
         /\ Behind((s \o <<x>>) \o t, C, O) <=> Behind((s \o <<y>>) \o t, C, O)
         /\ Lone((s \o <<x>>) \o t, C) <=> Lone((s \o <<y>>) \o t, C)
<1>1. <<x>> \in Seq(Messages) /\ <<y>> \in Seq(Messages)
  BY Alone
<1>2. s \o <<x>> \in Seq(Messages) /\ s \o <<y>> \in Seq(Messages)
  BY <1>1, ConcatProperties
<1>3. /\ Has(<<x>>, C) <=> Has(<<y>>, C)
      /\ Has(<<x>>, O) <=> Has(<<y>>, O)
      /\ Behind(<<x>>, C, O) <=> Behind(<<y>>, C, O)
      /\ Lone(<<x>>, C) /\ Lone(<<y>>, C)
  BY OfOne
<1>4. /\ Has(s \o <<x>>, C) <=> Has(s \o <<y>>, C)
      /\ Has(s \o <<x>>, O) <=> Has(s \o <<y>>, O)
      /\ Behind(s \o <<x>>, C, O) <=> Behind(s \o <<y>>, C, O)
      /\ Lone(s \o <<x>>, C) <=> Lone(s \o <<y>>, C)
  BY <1>1, <1>3, JoinedHas, JoinedBehind, JoinedLone
<1>5. Has((s \o <<x>>) \o t, C) <=> Has((s \o <<y>>) \o t, C)
  BY <1>2, <1>4, JoinedHas
<1>6. Behind((s \o <<x>>) \o t, C, O) <=> Behind((s \o <<y>>) \o t, C, O)
  <2>1. \A u \in Seq(Messages) :
          Behind(u \o t, C, O) <=> Behind(u, C, O) /\ (Has(u, O) \/ Behind(t, C, O))
    BY JoinedBehind
  <2>2. QED
    BY <1>2, <1>4, <2>1
<1>7. Lone((s \o <<x>>) \o t, C) <=> Lone((s \o <<y>>) \o t, C)
  BY <1>2, <1>4, JoinedLone
<1>8. QED
  BY <1>5, <1>6, <1>7

-----------------------------------------------------------------------------
(* A program waits for one answer at a time, and only in a roundtrip; the  *)
(* one it waited for when the connection was lost may be left behind.      *)
Syncs == Op({"sync", "done"})
RoundInv ==
  /\ waits \in {"no", "waiting", "over", "lost"}
  /\ waits \notin {"no", "lost"} => Main[pc] \in {"roundtrip", "loop"}
  /\ Lone(Road, Syncs)
  /\ waits # "lost" /\ ~(Main[pc] = "roundtrip" /\ waits = "waiting") => ~Has(Road, Syncs)

LEMMA AtRound ==
  ASSUME MainStep
  PROVE  /\ Main[pc] = "roundtrip" => Roundtrip \/ Returned
         /\ Roundtrip \/ Returned => Main[pc] = "roundtrip"
BY DEF MainStep, GetRegistry, Roundtrip, Returned, CheckGlobals, Listen, MakePool, MakeWindow,
   CheckConfigured, AttachOnce, GetDevice, GetSeat, FirstDraw, Again, At

LEMMA RoundAsked == ASSUME Typed, Typed', RoundInv, Roundtrip PROVE RoundInv'
<1>1. Road' = Road \o <<[op |-> "sync"]>> /\ <<[op |-> "sync"]>> \in Seq(Messages)
  BY PlainMessages, MainMoves, RoadMoves
<1>2. ~Has(Road, Syncs) /\ Lone(Road, Syncs)
  BY DEF Roundtrip, RoundInv
<1>3. Lone(<<[op |-> "sync"]>>, Syncs)
  BY OfOne
<1>4. Lone(Road', Syncs)
  <2>1. Road \in Seq(Messages)
    BY RoadTyped
  <2>2. QED
    BY <1>1, <1>2, <1>3, <2>1, JoinedLone
<1>5. waits' = "waiting" /\ Main'[pc'] = "roundtrip"
  BY DEF Roundtrip, At, Main
<1>6. QED
  BY <1>4, <1>5 DEF RoundInv

LEMMA RoundHeard == ASSUME Typed, Typed', RoundInv, HandleDone PROVE RoundInv'
<1>1. Here \in Messages /\ Here.op = "done"
  BY HeadsTyped DEF HandleDone, Event, Dispatching, Here
<1>2. << >> \in Seq(Messages) /\ <<Here>> \in Seq(Messages) /\ Here \in Syncs
  BY <1>1, EmptySeq, Alone DEF Syncs, Op
<1>3. Road = <<Here>> \o Rest /\ Road' = Rest \o << >>
  BY <1>1, <1>2, HandlerMoves, RoadMoves
<1>4. Road' = Rest
  BY <1>3, RoadTyped, ConcatEmptySeq
<1>5. Has(<<Here>>, Syncs)
  BY <1>2, OfOne
<1>6. Has(Road, Syncs) /\ Lone(Rest, Syncs) /\ ~Has(Rest, Syncs)
  BY <1>2, <1>3, <1>5, RoadTyped, JoinedHas, JoinedLone DEF RoundInv
<1>7. waits' = "over" /\ Main'[pc'] = "roundtrip"
  BY <1>6 DEF HandleDone, Event, Dispatching, RoundInv, Main
<1>8. QED
  BY <1>4, <1>6, <1>7 DEF RoundInv

LEMMA RoundTaken == ASSUME Typed, Typed', RoundInv, TakeSync PROVE RoundInv'
<1> DEFINE d == [op |-> "done"]
<1>1. Wish \in Messages /\ Wish.op = "sync"
  BY HeadsTyped DEF TakeSync, Request, Wish
<1>2. <<d>> \in Seq(Messages) /\ d \in Messages
  BY PlainMessages
<1>3. Wish \in Syncs /\ d \in Syncs
  BY <1>1, <1>2 DEF Syncs, Op
<1>4. Road = (ToClient \o <<Wish>>) \o ToServer' /\ Road' = (ToClient \o <<d>>) \o ToServer'
  BY <1>1, <1>2, CompositorMoves, RoadMoves
<1>5. (Has(Road, Syncs) <=> Has(Road', Syncs)) /\ (Lone(Road, Syncs) <=> Lone(Road', Syncs))
  BY <1>1, <1>2, <1>3, <1>4, RoadTyped, InPlace
<1>6. UNCHANGED <<waits, pc, Main>>
  BY DEF TakeSync, client, Main
<1>7. QED
  BY <1>5, <1>6 DEF RoundInv

LEMMA RoundStep == ASSUME Typed, Typed', Placed, RoundInv, [Next]_vars PROVE RoundInv'
<1> DEFINE ops == {"sync", "done"}
<1>1. ops \cap Noise = {}
  BY DEF Noise
<1>2. Roundtrip \/ HandleDone \/ TakeSync \/ Still(ops)
  BY <1>1, LoudOrQuiet, QuietStill, LoudStill
<1>3. CASE Still(ops) /\ ~Roundtrip /\ ~HandleDone
  <2>1. Syncs \subseteq Op(ops)
    BY DEF Syncs
  <2>2. (Has(Road, Syncs) <=> Has(Road', Syncs)) /\ (Lone(Road, Syncs) <=> Lone(Road', Syncs))
    BY <1>3, <2>1, RoadStill DEF Alike
  <2>3. Main' = Main
    BY GoesOn DEF Typed
  <2>4. CASE MainStep
    <3>1. waits # "waiting" \/ Main[pc] # "roundtrip"
      BY <1>3, <2>4, AtRound DEF Returned
    <3>2. waits' # "lost" => waits # "lost" /\ ~Has(Road, Syncs)
      BY <3>1, Keeps DEF RoundInv
    <3>3. \/ waits' \in {"no", "lost"}
          \/ waits' = "waiting" /\ pc' = pc /\ Main[pc] = "loop"
          \/ UNCHANGED <<waits, pc>>
          \/ waits' = waits /\ Main[pc] \notin {"roundtrip", "loop"}
      BY <1>3, <2>4 DEF MainStep, GetRegistry, Returned, CheckGlobals, Listen, MakePool, MakeWindow,
         CheckConfigured, AttachOnce, GetDevice, GetSeat, FirstDraw, Again, Goes, At
    <3>4. QED
      BY <2>2, <2>3, <3>2, <3>3 DEF RoundInv
  <2>5. CASE ~MainStep
    <3>1. pc' = pc
      BY <2>5, Keeps
    <3>2. waits' = waits \/ (waits' = "over" /\ waits # "lost" /\ Main[pc] = "loop")
          \/ waits' = "lost"
      <4>1. Read => waits' = waits \/ (waits' = "over" /\ waits # "lost" /\ Main[pc] = "loop")
        BY DEF Read, Blocked
      <4>2. HandleEnd => waits' = "lost"
        BY DEF HandleEnd
      <4>3. QED
        <5>1. Read \/ HandleEnd \/ waits' = waits
          BY <1>3, <2>5, Keeps
        <5>2. QED
          BY <4>1, <4>2, <5>1
    <3>3. QED
      BY <2>2, <2>3, <3>1, <3>2 DEF RoundInv
  <2>6. QED
    BY <2>4, <2>5
<1>4. QED
  BY <1>2, <1>3, RoundAsked, RoundHeard, RoundTaken

-----------------------------------------------------------------------------
(* While a program waits to hear what there is, each interface it would    *)
(* bind is bound, or told of ahead of the answer it waits for, unless the  *)
(* connection is lost.                                                     *)
Wanted == {i \in Interfaces : offer[i] > 0 /\ Global(i, offer[i]) > 0}
Promise(i) == Op({"registry"}) \cup {x \in Op({"global"}) : x.interface = i}
ToldInTime(i) ==
  /\ Behind(Road, Syncs, Promise(i))
  /\ waits # "over"
  /\ waits = "no" => Has(Road, Promise(i))
GlobalsInv ==
  /\ pc = 2 /\ waits # "lost" => \A i \in Wanted : bound[i] = 0 => ToldInTime(i)
  /\ pc = 3 /\ waits # "lost" => \A i \in Wanted : bound[i] > 0
  /\ pc > 3 => \A i \in Needs : bound[i] > 0
  /\ left = "missing" => waits = "lost" \/ \E i \in Needs : offer[i] = 0

LEMMA NeededIsWanted ==
  ASSUME StateTyped PROVE \A i \in Needs : i \in Interfaces /\ (offer[i] = 0 \/ i \in Wanted)
<1>1. SUFFICES ASSUME NEW i \in Needs PROVE i \in Interfaces /\ (offer[i] = 0 \/ i \in Wanted)
  OBVIOUS
<1>2. i \in Interfaces
  BY OffersTyped DEF Needs, Interfaces
<1>3. offer[i] \in Nat
  BY <1>2, OffersTyped
<1>4. offer[i] > 0 => Global(i, offer[i]) > 0
  BY <1>3, OffersTyped DEF Needs, Global, Clips, GlobalCairo, GlobalProbe, GlobalClip,
     GlobalScroll
<1>5. QED
  BY <1>2, <1>3, <1>4 DEF Wanted

(* What is bound stays bound.                                              *)
LEMMA BoundStays ==
  ASSUME Typed, [Next]_vars
  PROVE  /\ \A i \in Interfaces : bound[i] > 0 => bound'[i] > 0
         /\ UNCHANGED <<Wanted, Needs>>
<1>1. UNCHANGED <<Wanted, Needs>>
  BY Keeps DEF Wanted, Needs, Global
<1>2. CASE HandleGlobal
  <2> DEFINE v == Global(Here.interface, Here.version)
  <2>1. v \in Nat /\ Here.interface \in Interfaces
    BY <1>2, BoundAsTold DEF Here
  <2>2. bound' = bound \/ (v # 0 /\ bound' = [bound EXCEPT ![Here.interface] = v])
    BY <1>2 DEF HandleGlobal, Here
  <2>3. bound \in [Interfaces -> Nat]
    BY DEF Typed, StateTyped
  <2>4. QED
    BY <1>1, <2>1, <2>2, <2>3
<1>3. CASE ~HandleGlobal
  BY <1>1, <1>3, Keeps
<1>4. QED
  BY <1>2, <1>3

(* What a promise is kept by: the interface it is about is announced.      *)
LEMMA Announced ==
  ASSUME Typed, NEW i \in Wanted PROVE Has(Announcements, Promise(i))
<1> DEFINE P == Promise(i)
           N(s) == s \in Seq(Messages)
<1>1. \A j \in Interfaces : N(Announce(j))
  BY AnnounceTyped, SentMessages DEF Typed
<1>2. Has(Announce(i), P)
  <2>1. i \in Interfaces /\ offer[i] \in Nat /\ offer[i] > 0
    BY OffersTyped DEF Wanted, Typed
  <2> DEFINE g == [op |-> "global", interface |-> i, version |-> offer[i]]
  <2>2. Announce(i) = <<g>>
    BY <2>1 DEF Announce
  <2>3. g \in Messages
    BY <2>1 DEF Messages, Events
  <2>4. g \in P
    BY <2>3 DEF Promise, Op
  <2>5. QED
    BY <2>2, <2>4, OfOne
<1>3. \A s, t : N(s) /\ N(t) => N(s \o t) /\ (Has(s, P) \/ Has(t, P) => Has(s \o t, P))
  BY JoinedHas, ConcatProperties
<1>4. i \in Interfaces
  BY DEF Wanted
<1> HIDE DEF P, N
<1> DEFINE A2 == Announce("wl_compositor") \o Announce("wl_shm")
           A3 == A2 \o Announce("wl_output")
           A4 == A3 \o Announce("wl_seat")
           A5 == A4 \o Announce("xdg_wm_base")
           A6 == A5 \o Announce("zxdg_decoration_manager_v1")
           A7 == A6 \o Announce("wl_data_device_manager")
           A8 == A7 \o Announce("zwp_primary_selection_device_manager_v1")
<1>5. N(A2) /\ (i \in {"wl_compositor", "wl_shm"} => Has(A2, P))
  BY <1>1, <1>2, <1>3 DEF Interfaces
<1>6. N(A3) /\ (i \in {"wl_compositor", "wl_shm", "wl_output"} => Has(A3, P))
  BY <1>1, <1>2, <1>3, <1>5 DEF Interfaces
<1>7. N(A4) /\ (i \in {"wl_compositor", "wl_shm", "wl_output", "wl_seat"} => Has(A4, P))
  BY <1>1, <1>2, <1>3, <1>6 DEF Interfaces
<1>8. N(A5) /\ (Has(A4, P) \/ i = "xdg_wm_base" => Has(A5, P))
  BY <1>1, <1>2, <1>3, <1>7 DEF Interfaces
<1>9. N(A6) /\ (Has(A5, P) \/ i = "zxdg_decoration_manager_v1" => Has(A6, P))
  BY <1>1, <1>2, <1>3, <1>8 DEF Interfaces
<1>10. N(A7) /\ (Has(A6, P) \/ i = "wl_data_device_manager" => Has(A7, P))
  BY <1>1, <1>2, <1>3, <1>9 DEF Interfaces
<1>11. Has(A7, P) \/ i = "zwp_primary_selection_device_manager_v1" => Has(A8, P)
  BY <1>1, <1>2, <1>3, <1>10 DEF Interfaces
<1>12. Announcements = A8
  BY DEF Announcements
<1> HIDE DEF A2, A3, A4, A5, A6, A7, A8
<1>13. Has(A8, P)
  BY <1>4, <1>7, <1>8, <1>9, <1>10, <1>11 DEF Interfaces
<1>14. QED
  BY <1>12, <1>13 DEF P

(* The registry is asked for what there is, and nothing is ahead of that.  *)
LEMMA PromiseMade ==
  ASSUME Typed, Typed', Placed, RoundInv, GetRegistry, waits # "lost", NEW i
  PROVE  ToldInTime(i)'
<1>1. Road' = Road \o <<[op |-> "registry"]>> /\ <<[op |-> "registry"]>> \in Seq(Messages)
      /\ [op |-> "registry"] \in Messages
  BY PlainMessages, MainMoves, RoadMoves
<1>2. [op |-> "registry"] \in Promise(i) /\ [op |-> "registry"] \notin Syncs
  BY <1>1 DEF Promise, Syncs, Op
<1>3. Main[pc] = "registry"
  BY DEF GetRegistry, At
<1>4. waits = "no" /\ ~Has(Road, Syncs)
  BY <1>3 DEF RoundInv
<1>5. Behind(Road, Syncs, Promise(i))
  BY <1>4 DEF Has, Behind
<1>6. Has(<<[op |-> "registry"]>>, Promise(i)) /\ Behind(<<[op |-> "registry"]>>, Syncs, Promise(i))
  BY <1>2, OfOne
<1>7. Road \in Seq(Messages)
  BY RoadTyped
<1>8. Has(Road', Promise(i)) /\ Behind(Road', Syncs, Promise(i))
  BY <1>1, <1>5, <1>6, <1>7, JoinedHas, JoinedBehind
<1>9. waits' = waits
  BY DEF GetRegistry
<1>10. QED
  BY <1>4, <1>8, <1>9 DEF ToldInTime

LEMMA PromiseBehind ==
  ASSUME Typed, Typed', Roundtrip, NEW i, ToldInTime(i) PROVE ToldInTime(i)'
<1>1. Road' = Road \o <<[op |-> "sync"]>> /\ <<[op |-> "sync"]>> \in Seq(Messages)
  BY PlainMessages, MainMoves, RoadMoves
<1>2. Has(Road, Promise(i)) /\ Behind(Road, Syncs, Promise(i))
  BY DEF Roundtrip, ToldInTime
<1>3. Road \in Seq(Messages)
  BY RoadTyped
<1>4. Behind(Road', Syncs, Promise(i))
  BY <1>1, <1>2, <1>3, JoinedBehind
<1>5. waits' = "waiting"
  BY DEF Roundtrip
<1>6. QED
  BY <1>4, <1>5 DEF ToldInTime

(* A global that is heard is bound; another is no part of the promise.     *)
LEMMA PromiseHeard ==
  ASSUME Typed, Typed', HandleGlobal, NEW i \in Wanted, ToldInTime(i)
  PROVE  bound'[i] > 0 \/ ToldInTime(i)'
<1> DEFINE b == [op |-> "bind", interface |-> Here.interface,
                 version |-> Global(Here.interface, Here.version)]
<1>1. Here \in Messages /\ Here.op = "global" /\ <<Here>> \in Seq(Messages)
  BY HeadsTyped, Alone DEF HandleGlobal, Event, Dispatching, Here
<1>2. /\ Here.interface \in Interfaces /\ Here.version = offer[Here.interface]
      /\ Global(Here.interface, Here.version) \in Nat
  BY BoundAsTold DEF Here
<1>3. CASE Here.interface = i
  <2>1. Global(i, Here.version) > 0
    BY <1>2, <1>3 DEF Wanted
  <2>2. bound' = [bound EXCEPT ![i] = Global(i, Here.version)]
    BY <1>3, <2>1 DEF HandleGlobal, Here
  <2>3. bound \in [Interfaces -> Nat] /\ i \in Interfaces
    BY DEF Typed, StateTyped, Wanted
  <2>4. QED
    BY <2>1, <2>2, <2>3
<1>4. CASE Here.interface # i
  <2>1. Here \notin Promise(i) /\ Here \notin Syncs
    BY <1>1, <1>4 DEF Promise, Syncs, Op
  <2>2. ~Has(<<Here>>, Promise(i)) /\ Behind(<<Here>>, Syncs, Promise(i))
    BY <2>1, OfOne
  <2>3. b \in Messages /\ b.op = "bind" /\ <<b>> \in Seq(Messages)
    BY <1>2, Alone DEF Messages, Requests
  <2>4. Behind(<<b>>, Syncs, Promise(i)) /\ Behind(<< >>, Syncs, Promise(i))
    <3>1. b \notin Syncs
      BY <2>3 DEF Syncs, Op
    <3>2. QED
      BY <3>1, OfOne, OfNone
  <2>5. \E es \in {<< >>, <<b>>} : Road = <<Here>> \o Rest /\ Road' = Rest \o es
    <3>1. << >> \in Seq(Messages)
      BY EmptySeq
    <3>2. Hearing(<< >>) \/ Hearing(<<b>>)
      BY HandlerMoves
    <3>3. QED
      BY <1>1, <2>3, <3>1, <3>2, RoadMoves
  <2>6. PICK es \in {<< >>, <<b>>} : Road = <<Here>> \o Rest /\ Road' = Rest \o es
    BY <2>5
  <2>7. es \in Seq(Messages) /\ Behind(es, Syncs, Promise(i)) /\ Rest \in Seq(Messages)
    BY <2>3, <2>4, RoadTyped, EmptySeq
  <2>8. /\ Behind(Road, Syncs, Promise(i)) <=> Behind(Rest, Syncs, Promise(i))
        /\ Has(Road, Promise(i)) <=> Has(Rest, Promise(i))
    BY <1>1, <2>2, <2>6, <2>7, JoinedBehind, JoinedHas
  <2>9. /\ Behind(Rest, Syncs, Promise(i)) => Behind(Road', Syncs, Promise(i))
        /\ Has(Rest, Promise(i)) => Has(Road', Promise(i))
    BY <2>6, <2>7, JoinedBehind, JoinedHas
  <2>10. waits' = waits
    BY DEF HandleGlobal
  <2>11. QED
    BY <2>8, <2>9, <2>10 DEF ToldInTime
<1>5. QED
  BY <1>3, <1>4

(* So the answer is not heard before the promise is kept.                  *)
LEMMA PromiseAhead == ASSUME Typed, Typed', HandleDone, NEW i PROVE ~ToldInTime(i)
<1>1. Here \in Messages /\ Here.op = "done" /\ <<Here>> \in Seq(Messages)
  BY HeadsTyped, Alone DEF HandleDone, Event, Dispatching, Here
<1>2. << >> \in Seq(Messages)
  BY EmptySeq
<1>3. Road = <<Here>> \o Rest
  BY <1>1, <1>2, HandlerMoves, RoadMoves
<1>4. Here \in Syncs
  BY <1>1 DEF Syncs, Op
<1>5. ~Behind(<<Here>>, Syncs, Promise(i))
  BY <1>4, OfOne
<1>6. Rest \in Seq(Messages)
  BY RoadTyped
<1>7. ~Behind(Road, Syncs, Promise(i))
  BY <1>1, <1>3, <1>5, <1>6, JoinedBehind
<1>8. QED
  BY <1>7 DEF ToldInTime

(* The registry answers in its place, and tells of all there is.           *)
LEMMA PromiseKept ==
  ASSUME Typed, Typed', TakeRegistry, NEW i \in Wanted, ToldInTime(i) PROVE ToldInTime(i)'
<1> DEFINE A == Announcements
           P == Promise(i)
<1>1. Wish \in Messages /\ Wish.op = "registry" /\ <<Wish>> \in Seq(Messages)
  BY HeadsTyped, Alone DEF TakeRegistry, Request, Wish
<1>2. Wish \in P /\ Wish \notin Syncs
  BY <1>1 DEF Promise, Syncs, Op
<1>3. A \in Seq(Messages) /\ Without(A, {"sync", "done"})
  BY AnnouncementsWithout
<1>4. Behind(A, Syncs, P) /\ Has(A, P)
  BY <1>3, NoneAmong, Announced DEF Without, Syncs
<1>5. Has(<<Wish>>, P) /\ Behind(<<Wish>>, Syncs, P)
  BY <1>2, OfOne
<1>6. Road = (ToClient \o <<Wish>>) \o ToServer' /\ Road' = (ToClient \o A) \o ToServer'
  BY <1>1, <1>3, CompositorMoves, RoadMoves
<1>7. ToClient \in Seq(Messages) /\ ToServer' \in Seq(Messages)
  BY RoadTyped
<1>8. \A s \in {<<Wish>>, A} :
        /\ ToClient \o s \in Seq(Messages)
        /\ Behind(ToClient \o s, Syncs, P) <=> Behind(ToClient, Syncs, P)
        /\ Has(ToClient \o s, P)
  BY <1>1, <1>3, <1>4, <1>5, <1>7, ConcatProperties, JoinedBehind, JoinedHas
<1>9. \A s \in {<<Wish>>, A} :
        /\ Behind((ToClient \o s) \o ToServer', Syncs, P) <=> Behind(ToClient, Syncs, P)
        /\ Has((ToClient \o s) \o ToServer', P)
  BY <1>7, <1>8, JoinedBehind, JoinedHas
<1>10. (Behind(Road, Syncs, P) <=> Behind(Road', Syncs, P)) /\ Has(Road', P)
  BY <1>6, <1>9
<1>11. waits' = waits
  BY DEF TakeRegistry, client
<1>12. QED
  BY <1>10, <1>11 DEF ToldInTime

LEMMA PromiseWaits ==
  ASSUME Typed, Typed', TakeSync, NEW i, ToldInTime(i) PROVE ToldInTime(i)'
<1> DEFINE d == [op |-> "done"]
<1>1. Wish \in Messages /\ Wish.op = "sync"
  BY HeadsTyped DEF TakeSync, Request, Wish
<1>2. <<d>> \in Seq(Messages) /\ d \in Messages
  BY PlainMessages
<1>3. Wish \in Syncs /\ d \in Syncs /\ Wish \notin Promise(i) /\ d \notin Promise(i)
  BY <1>1, <1>2 DEF Syncs, Promise, Op
<1>4. Road = (ToClient \o <<Wish>>) \o ToServer' /\ Road' = (ToClient \o <<d>>) \o ToServer'
  BY <1>1, <1>2, CompositorMoves, RoadMoves
<1>5. ToClient \in Seq(Messages) /\ ToServer' \in Seq(Messages)
  BY RoadTyped
<1>6. /\ Has(Road, Promise(i)) <=> Has(Road', Promise(i))
      /\ Behind(Road, Syncs, Promise(i)) <=> Behind(Road', Syncs, Promise(i))
  BY <1>1, <1>2, <1>3, <1>4, <1>5, InPlace
<1>7. waits' = waits
  BY DEF TakeSync, client
<1>8. QED
  BY <1>6, <1>7 DEF ToldInTime

LEMMA PromiseStep ==
  ASSUME Typed, Typed', Placed, [Next]_vars, pc = 2, pc' = 2, waits' # "lost",
         NEW i \in Wanted, ToldInTime(i)
  PROVE  bound'[i] > 0 \/ ToldInTime(i)'
<1> DEFINE ops == {"registry", "global", "sync", "done"}
<1>1. ops \cap Noise = {}
  BY DEF Noise
<1>2. Main[pc] = "roundtrip"
  BY Table DEF Typed
<1>3. ~GetRegistry
  BY <1>2 DEF GetRegistry, At
<1>4. Roundtrip \/ HandleGlobal \/ HandleDone \/ TakeRegistry \/ TakeSync \/ Still(ops)
  BY <1>1, <1>3, LoudOrQuiet, QuietStill, LoudStill
<1>5. CASE Still(ops) /\ ~HandleDone /\ ~Roundtrip
  <2>1. Syncs \subseteq Op(ops) /\ Promise(i) \subseteq Op(ops)
    BY DEF Syncs, Promise, Op
  <2>2. /\ Has(Road, Promise(i)) <=> Has(Road', Promise(i))
        /\ Behind(Road, Syncs, Promise(i)) <=> Behind(Road', Syncs, Promise(i))
    BY <1>5, <2>1, RoadStill DEF Alike
  <2>3. waits' = waits
    <3>1. ~MainStep
      <4>1. Returned => pc' = 3
        BY DEF Returned, Past
      <4>2. QED
        BY <1>2, <1>5, <4>1, AtRound
    <3>2. Read => waits' = waits
      BY <1>2 DEF Read
    <3>3. ~HandleEnd
      BY DEF HandleEnd
    <3>4. QED
      BY <1>5, <3>1, <3>2, <3>3, Keeps
  <2>4. QED
    BY <2>2, <2>3 DEF ToldInTime
<1>6. QED
  BY <1>4, <1>5, PromiseBehind, PromiseHeard, PromiseAhead, PromiseKept, PromiseWaits

LEMMA GlobalsStep ==
  ASSUME Typed, Typed', Placed, RoundInv, GlobalsInv, [Next]_vars PROVE GlobalsInv'
<1>1. /\ \A i \in Interfaces : bound[i] > 0 => bound'[i] > 0
      /\ Wanted' = Wanted /\ Needs' = Needs /\ offer' = offer
  BY BoundStays, Keeps
<1>2. /\ pc \in Nat /\ 1 <= pc /\ WindowAt \in {5, 6, 7}
      /\ Main[pc] = "registry" <=> pc = 1
      /\ Main[pc] = "globals" <=> pc = 3
      /\ pc = 2 => Main[pc] = "roundtrip"
  BY Table DEF Typed, Placed
<1>3. \/ pc' = pc
      \/ pc' = pc + 1 /\ MainStep
      \/ pc' = pc + 2 /\ pc > 7
  <2>1. pc > WindowAt + 2 => pc > 7
    BY <1>2
  <2>2. QED
    BY <2>1, GoesOn DEF Typed
<1>9. waits' # "lost" => waits # "lost"
  BY Keeps
<1>4. ASSUME pc' = 2, waits' # "lost", NEW i \in Wanted, bound'[i] = 0 PROVE ToldInTime(i)'
  <2>1. CASE pc = 2
    <3>1. i \in Interfaces /\ bound[i] \in Nat
      BY DEF Wanted, Typed, StateTyped
    <3>2. bound[i] = 0
      BY <1>1, <1>4, <3>1
    <3>3. ToldInTime(i)
      BY <1>4, <1>9, <2>1, <3>2 DEF GlobalsInv
    <3>4. ~(bound'[i] > 0)
      BY <1>4
    <3>5. QED
      BY <1>4, <2>1, <3>3, <3>4, PromiseStep
  <2>2. CASE pc # 2
    <3>1. pc = 1 /\ MainStep
      BY <1>2, <1>3, <1>4, <2>2
    <3>2. GetRegistry
      BY <1>2, <3>1 DEF MainStep, Roundtrip, Returned, CheckGlobals, Listen, MakePool, MakeWindow,
         CheckConfigured, AttachOnce, GetDevice, GetSeat, FirstDraw, Again, At
    <3>3. QED
      BY <1>4, <1>9, <3>2, PromiseMade
  <2>3. QED
    BY <2>1, <2>2
<1>5. ASSUME pc' = 3, waits' # "lost", NEW i \in Wanted PROVE bound'[i] > 0
  <2>1. i \in Interfaces /\ bound[i] \in Nat
    BY DEF Wanted, Typed, StateTyped
  <2>2. CASE pc = 3
    BY <1>1, <1>5, <1>9, <2>1, <2>2 DEF GlobalsInv
  <2>3. CASE pc # 3
    <3>1. pc = 2 /\ MainStep
      BY <1>2, <1>3, <1>5, <2>3
    <3>2. Returned
      <4>1. Roundtrip => pc' = pc
        BY DEF Roundtrip
      <4>2. QED
        BY <1>2, <1>5, <2>3, <3>1, <4>1, AtRound
    <3>3. waits = "over"
      BY <1>5, <1>9, <3>2 DEF Returned
    <3>4. bound[i] # 0
      BY <3>1, <3>3 DEF GlobalsInv, ToldInTime
    <3>5. QED
      BY <1>1, <2>1, <3>4
  <2>4. QED
    BY <2>2, <2>3
<1>6. ASSUME pc' > 3, NEW i \in Needs PROVE bound'[i] > 0
  <2>1. i \in Interfaces
    BY NeededIsWanted DEF Typed
  <2>2. CASE pc > 3
    BY <1>1, <2>1, <2>2 DEF GlobalsInv
  <2>3. CASE ~(pc > 3)
    <3>1. pc = 3 /\ pc' = 4 /\ MainStep
      BY <1>2, <1>3, <1>6, <2>3
    <3>2. CheckGlobals
      BY <1>2, <3>1 DEF MainStep, GetRegistry, Roundtrip, Returned, Listen, MakePool, MakeWindow,
         CheckConfigured, AttachOnce, GetDevice, GetSeat, FirstDraw, Again, At
    <3>3. pc' # pc
      BY <3>1
    <3>4. bound[i] > 0
      BY <3>2, <3>3 DEF CheckGlobals, Goes
    <3>5. QED
      BY <1>1, <2>1, <3>4
  <2>4. QED
    BY <2>2, <2>3
<1>7. ASSUME left' = "missing", waits' # "lost" PROVE \E i \in Needs : offer[i] = 0
  <2>1. CASE left = "missing"
    BY <1>7, <1>9, <2>1 DEF GlobalsInv
  <2>2. CASE left # "missing"
    <3>1. CheckGlobals
      <4>1. MainStep => CheckGlobals
        BY <1>7, <2>2 DEF MainStep, GetRegistry, Roundtrip, Returned, Listen, MakePool, MakeWindow,
           CheckConfigured, AttachOnce, GetDevice, GetSeat, FirstDraw, Again, Goes
      <4>2. ~HandleEnd
        BY <1>7 DEF HandleEnd
      <4>3. QED
        BY <1>7, <2>2, <4>1, <4>2, Keeps
    <3>2. pc = 3 /\ \E i \in Needs : ~(bound[i] > 0)
      BY <1>2, <1>7, <2>2, <3>1 DEF CheckGlobals, At
    <3>3. QED
      BY <1>7, <1>9, <3>2, NeededIsWanted DEF GlobalsInv, Typed
  <2>3. QED
    BY <2>1, <2>2
<1>8. QED
  BY <1>1, <1>4, <1>5, <1>6, <1>7 DEF GlobalsInv

-----------------------------------------------------------------------------
(* A surface is committed when it has a role, and has it once.  Nothing is *)
(* configured before.                                                      *)
Commits == Op({"commit"})
Toplevels == Op({"toplevel"})
SurfaceInv ==
  /\ pc <= WindowAt => /\ stage = "none"
                       /\ ~Has(ToServer, Toplevels) /\ ~Has(ToServer, Commits)
  /\ stage = "none" => serial = 0 /\ Behind(ToServer, Commits, Toplevels)
  /\ stage # "none" => ~Has(ToServer, Toplevels)
  /\ Lone(ToServer, Toplevels)

LEMMA SurfaceStill ==
  ASSUME Typed, Placed, SurfaceInv, [Next]_vars, Still({"toplevel", "commit"}),
         ~Configure, ~TakeToplevel, ~TakeCommit
  PROVE  SurfaceInv'
<1>1. UNCHANGED <<stage, serial>> /\ WindowAt' = WindowAt
  BY Keeps, GoesOn DEF Typed
<1>2. Toplevels \subseteq Op({"toplevel", "commit"}) /\ Commits \subseteq Op({"toplevel", "commit"})
  BY DEF Toplevels, Commits, Op
<1>3. /\ Has(ToServer', Toplevels) <=> Has(ToServer, Toplevels)
      /\ Has(ToServer', Commits) <=> Has(ToServer, Commits)
      /\ Behind(ToServer', Commits, Toplevels) <=> Behind(ToServer, Commits, Toplevels)
      /\ Lone(ToServer', Toplevels) <=> Lone(ToServer, Toplevels)
  BY <1>2 DEF Still, Alike
<1>4. pc' <= WindowAt => pc <= WindowAt
  <2>1. pc \in Nat /\ WindowAt \in Nat
    BY Table DEF Typed
  <2>2. pc' = pc \/ pc' = pc + 1 \/ pc' = pc + 2
    BY GoesOn DEF Typed
  <2>3. QED
    BY <2>1, <2>2
<1>5. QED
  BY <1>1, <1>3, <1>4 DEF SurfaceInv

(* What making a window asks for, and in which order.                      *)
LEMMA WindowParts ==
  /\ Behind(Window, Commits, Toplevels) /\ Lone(Window, Toplevels) /\ Has(Window, Commits)
  /\ ~Has(Window, Syncs) /\ ~Has(Window, Buffers)
<1> DEFINE t == [op |-> "toplevel"]
           d == [op |-> "decoration"]
           c == Shows(FALSE, FALSE)
           T == <<t>> \o Decoration
<1>1. /\ t \in Toplevels /\ t \notin Commits /\ t \notin Syncs
      /\ d \notin Toplevels /\ d \notin Commits /\ d \notin Syncs
  BY PlainMessages DEF Toplevels, Commits, Syncs, Op
<1>2. c \in Commits /\ c \notin Toplevels /\ c \notin Syncs
  <2>1. c \in Requests
    BY PlainAsked DEF Asked
  <2>2. QED
    BY <2>1 DEF Shows, Toplevels, Commits, Syncs, Op, Messages
<1>3. \A C : C \in {Toplevels, Commits, Syncs} => /\ ~Has(Decoration, C) /\ Lone(Decoration, C)
                                                  /\ Behind(Decoration, C, Toplevels)
  <2>1. Decoration \in {<<d>>, << >>}
    BY DEF Decoration
  <2>2. QED
    BY <1>1, <2>1, OfOne, OfNone
<1>4. /\ <<t>> \in Seq(Messages) /\ Decoration \in Seq(Messages) /\ <<c>> \in Seq(Messages)
      /\ T \in Seq(Messages) /\ Window = T \o <<c>>
  BY WindowTyped DEF Window
<1>5. /\ Has(<<t>>, Toplevels) /\ Lone(<<t>>, Toplevels) /\ Behind(<<t>>, Commits, Toplevels)
      /\ ~Has(<<t>>, Syncs)
      /\ ~Has(<<c>>, Toplevels) /\ Lone(<<c>>, Toplevels) /\ Has(<<c>>, Commits) /\ ~Has(<<c>>, Syncs)
  BY <1>1, <1>2, OfOne
<1> HIDE DEF t, d, c
<1>6. /\ Has(T, Toplevels) /\ Lone(T, Toplevels) /\ Behind(T, Commits, Toplevels)
      /\ ~Has(T, Syncs)
  BY <1>3, <1>4, <1>5, JoinedHas, JoinedLone, JoinedBehind
<1> HIDE DEF T
<1>7. /\ Lone(T \o <<c>>, Toplevels) /\ Behind(T \o <<c>>, Commits, Toplevels)
      /\ ~Has(T \o <<c>>, Syncs) /\ Has(T \o <<c>>, Commits)
  BY <1>4, <1>5, <1>6, JoinedHas, JoinedLone, JoinedBehind
<1>8. ~Has(Window, Buffers)
  BY BareWindow, NoneAmong
<1>9. QED
  BY <1>4, <1>7, <1>8

LEMMA SurfaceMade ==
  ASSUME Typed, Placed, SurfaceInv, [Next]_vars, MakeWindow PROVE SurfaceInv'
<1>1. pc = WindowAt /\ pc \in Nat /\ pc' = pc + 1 /\ WindowAt' = WindowAt
  <2>1. Main[pc] = "window" /\ pc' = pc + 1
    BY DEF MakeWindow, At, Past
  <2>2. QED
    BY <2>1, Table, GoesOn DEF Typed
<1>2. UNCHANGED <<stage, serial>>
  BY DEF MakeWindow, server
<1>3. /\ stage = "none" /\ serial = 0
      /\ ~Has(ToServer, Toplevels) /\ Lone(ToServer, Toplevels) /\ Behind(ToServer, Commits, Toplevels)
  BY <1>1 DEF SurfaceInv
<1>4. ToServer' = ToServer \o Window /\ ToServer \in Seq(Messages) /\ Window \in Seq(Messages)
  BY MainMoves, WiresTyped, WindowTyped DEF Asking
<1>5. Behind(ToServer', Commits, Toplevels) /\ Lone(ToServer', Toplevels)
  BY <1>3, <1>4, WindowParts, JoinedBehind, JoinedLone
<1>6. ~(pc' <= WindowAt')
  BY <1>1
<1>7. QED
  BY <1>2, <1>3, <1>5, <1>6 DEF SurfaceInv

(* Only what has been configured is acknowledged, and only then is the     *)
(* window shown.                                                           *)
LEMMA ShownConfigured ==
  ASSUME Typed, Placed, SerialInv, AckInv PROVE acked > 0 \/ Shown => serial > 0
<1>1. acked \in Nat /\ serial \in Nat /\ acked <= serial
  BY DEF Typed, StateTyped, SerialInv
<1>2. Has(ToServer, Acks) => serial > 0
  <2>1. Acks \subseteq Serials
    BY DEF Acks, Serials, Op
  <2>2. Has(ToServer, Acks) => \E x \in Among(ToServer) \cap Serials : TRUE
    BY <2>1 DEF Has, Among
  <2>3. \A x \in Among(ToServer) \cap Serials : x.serial \in (acked + 1)..serial
    BY DEF SerialInv, Within
  <2>4. Has(ToServer, Acks) => \E n \in Int : n \in (acked + 1)..serial
    BY <2>2, <2>3
  <2>5. QED
    BY <1>1, <2>4
<1>3. QED
  BY <1>1, <1>2 DEF AckInv

LEMMA DrawnConfigured ==
  ASSUME Typed, Placed, SerialInv, AckInv, AttachOnce \/ FirstDraw \/ FrameDone
  PROVE  /\ serial > 0 /\ UNCHANGED <<stage, serial>>
         /\ \E rs \in Seq(Messages) : ToServer' = ToServer \o rs /\ ~Has(rs, Toplevels)
<1>1. serial > 0
  <2>1. CASE FrameDone
    <3>1. acked > 0
      BY <2>1, HeadsTyped DEF FrameDone, Event, Dispatching, Here, Sent
    <3>2. QED
      BY <3>1, ShownConfigured
  <2>2. CASE AttachOnce \/ FirstDraw
    <3>1. Main[pc] \in {"attach", "draw"}
      BY <2>2 DEF AttachOnce, FirstDraw, At
    <3>2. Shown
      BY <3>1, Table DEF Typed, Shown
    <3>3. QED
      BY <3>2, ShownConfigured
  <2>3. QED
    BY <2>1, <2>2
<1>2. UNCHANGED <<stage, serial>>
  BY DEF AttachOnce, FirstDraw, FrameDone, server
<1>3. \E rs \in Seq(Messages) : ToServer' = ToServer \o rs /\ ~Has(rs, Toplevels)
  <2>1. \/ ToServer' = ToServer \/ ToServer' = ToServer \o <<Shows(TRUE, FALSE)>>
        \/ ToServer' = ToServer \o Frame \/ ToServer' = ToServer \o << >>
    BY MainMoves, HandlerMoves DEF Pass, Asking, Hearing
  <2>2. << >> \in Seq(Messages) /\ ToServer \o << >> = ToServer /\ ~Has(<< >>, Toplevels)
    BY WiresTyped, EmptySeq, ConcatEmptySeq, OfNone
  <2>3. <<Shows(TRUE, FALSE)>> \in Seq(Messages) /\ Frame \in Seq(Messages)
    BY PlainMessages DEF Shows, Frame
  <2>4. ~Has(<<Shows(TRUE, FALSE)>>, Toplevels) /\ ~Has(Frame, Toplevels)
    <3>1. Shows(TRUE, FALSE) \notin Toplevels /\ Shows(TRUE, TRUE) \notin Toplevels
      BY DEF Shows, Toplevels, Op
    <3>2. QED
      BY <3>1, OfOne DEF Frame
  <2>5. QED
    BY <2>1, <2>2, <2>3, <2>4
<1>4. QED
  BY <1>1, <1>2, <1>3

LEMMA SurfaceShown ==
  ASSUME Typed, Placed, SerialInv, AckInv, SurfaceInv, [Next]_vars,
         AttachOnce \/ FirstDraw \/ FrameDone
  PROVE  SurfaceInv'
<1>1. serial > 0 /\ UNCHANGED <<stage, serial>>
  BY DrawnConfigured
<1>2. PICK rs \in Seq(Messages) : ToServer' = ToServer \o rs /\ ~Has(rs, Toplevels)
  BY DrawnConfigured
<1>3. stage # "none" /\ ~Has(ToServer, Toplevels) /\ ~(pc <= WindowAt)
  BY <1>1 DEF SurfaceInv
<1>4. ToServer \in Seq(Messages)
  BY WiresTyped
<1>5. ~Has(ToServer', Toplevels)
  BY <1>2, <1>3, <1>4, JoinedHas
<1>6. Lone(ToServer', Toplevels)
  BY <1>5 DEF Has, Lone
<1>7. ~(pc' <= WindowAt')
  <2>1. pc \in Nat /\ WindowAt \in Nat
    BY Table DEF Typed
  <2>2. WindowAt' = WindowAt /\ (pc' = pc \/ pc' = pc + 1 \/ pc' = pc + 2)
    BY GoesOn DEF Typed
  <2>3. QED
    BY <1>3, <2>1, <2>2
<1>8. QED
  BY <1>1, <1>3, <1>5, <1>6, <1>7 DEF SurfaceInv

LEMMA SurfaceTaken ==
  ASSUME Typed, Typed', Placed, SurfaceInv, [Next]_vars, TakeToplevel \/ TakeCommit
  PROVE  /\ SurfaceInv'
         /\ TakeToplevel => stage' = "role" /\ stage = "none"
<1>1. Wish \in Messages /\ <<Wish>> \in Seq(Messages) /\ Wish.op \in {"toplevel", "commit"}
      /\ (TakeToplevel => Wish.op = "toplevel") /\ (TakeCommit => Wish.op = "commit")
  BY HeadsTyped, Alone DEF TakeToplevel, TakeCommit, Request, Wish
<1>2. ToServer = <<Wish>> \o ToServer' /\ ToServer' \in Seq(Messages)
  BY WiresTypedNext, CompositorMoves DEF Taking, Wish
<1>3. /\ Has(<<Wish>>, Toplevels) <=> Wish.op = "toplevel"
      /\ Has(<<Wish>>, Commits) <=> Wish.op = "commit"
      /\ Behind(<<Wish>>, Commits, Toplevels) <=> Wish.op # "commit"
  <2>1. /\ Wish \in Toplevels <=> Wish.op = "toplevel"
        /\ Wish \in Commits <=> Wish.op = "commit"
    BY <1>1 DEF Toplevels, Commits, Op
  <2>2. QED
    BY <2>1, OfOne
<1>4. /\ Lone(ToServer', Toplevels)
      /\ Has(ToServer', Toplevels) => Has(ToServer, Toplevels) /\ Wish.op # "toplevel"
      /\ Has(ToServer, Toplevels) \/ Has(ToServer, Commits)
      /\ Behind(ToServer, Commits, Toplevels) => Wish.op # "commit"
      /\ Wish.op = "toplevel" => Has(ToServer, Toplevels)
  BY <1>1, <1>2, <1>3, JoinedHas, JoinedLone, JoinedBehind DEF SurfaceInv
<1>5. ~(pc <= WindowAt) /\ UNCHANGED <<pc, WindowAt, serial>>
  <2>1. UNCHANGED <<pc, serial>>
    BY DEF TakeToplevel, TakeCommit, client
  <2>2. QED
    BY <1>4, <2>1, GoesOn DEF SurfaceInv, Typed
<1>6. CASE TakeToplevel
  <2>1. stage' = "role" /\ stage = "none"
    BY <1>1, <1>4, <1>6 DEF TakeToplevel, SurfaceInv
  <2>2. ~Has(ToServer', Toplevels)
    BY <1>1, <1>4, <1>6
  <2>3. ~TakeCommit
    BY <1>1, <1>6
  <2>4. QED
    BY <1>4, <1>5, <2>1, <2>2, <2>3 DEF SurfaceInv
<1>7. CASE TakeCommit
  <2>1. stage # "none"
    BY <1>1, <1>4, <1>7 DEF SurfaceInv
  <2>2. stage' # "none"
    BY <1>7, <2>1 DEF TakeCommit
  <2>3. ~Has(ToServer', Toplevels)
    BY <1>4, <2>1 DEF SurfaceInv
  <2>4. ~TakeToplevel
    BY <1>1, <1>7
  <2>5. QED
    BY <1>4, <1>5, <2>2, <2>3, <2>4 DEF SurfaceInv
<1>8. QED
  BY <1>6, <1>7

LEMMA SurfaceStep ==
  ASSUME Typed, Typed', Placed, SerialInv, AckInv, SurfaceInv, [Next]_vars PROVE SurfaceInv'
<1> DEFINE ops == {"toplevel", "commit"}
<1>1. ops \cap Noise = {}
  BY DEF Noise
<1>2. \/ MakeWindow \/ AttachOnce \/ FirstDraw \/ FrameDone \/ TakeCommit \/ TakeToplevel
      \/ Still(ops)
  BY <1>1, LoudOrQuiet, QuietStill, LoudStill
<1>3. CASE Configure
  <2>1. ToServer' = ToServer
    BY <1>3, CompositorMoves DEF Saying
  <2>2. UNCHANGED <<stage, pc, WindowAt>> /\ stage # "none"
    <3>1. UNCHANGED <<stage, pc>> /\ stage # "none"
      BY <1>3 DEF Configure, client
    <3>2. QED
      BY <3>1, GoesOn DEF Typed
  <2>3. QED
    BY <2>1, <2>2 DEF SurfaceInv
<1>4. CASE Still(ops) /\ ~Configure /\ ~TakeToplevel /\ ~TakeCommit
  BY <1>4, SurfaceStill
<1>5. QED
  BY <1>2, <1>3, <1>4, SurfaceMade, SurfaceShown, SurfaceTaken

-----------------------------------------------------------------------------
(* While a program waits to be configured by a compositor that does so     *)
(* before it answers, its answer is not there before the commit is taken,  *)
(* and comes behind the configure, unless the connection is lost.          *)
Configures == Op({"configure"})
Committed ==
  \/ stage = "committed"
  \/ /\ stage # "shown"
     /\ Behind(ToServer, Syncs, Commits)
     /\ waits = "no" => Has(ToServer, Commits)
Undecided ==
  /\ ~Has(ToServer, Buffers) /\ ~Has(ToClient, Syncs)
  /\ waits # "over"
  /\ Committed
Decided ==
  \/ configured
  \/ waits # "over" /\ Has(ToClient, Configures) /\ Behind(ToClient, Syncs, Configures)
Expecting == (serial = 0 => Undecided) /\ (serial # 0 => Decided)
ConfigureInv ==
  /\ prompt /\ pc = WindowAt + 1 /\ waits # "lost" => Expecting
  /\ prompt /\ pc = WindowAt + 2 /\ waits # "lost" => configured
  /\ left = "never configured" => waits = "lost" \/ ~prompt

LEMMA KindsApart ==
  ASSUME NEW x \in Messages
  PROVE  /\ x \in Syncs <=> x.op \in {"sync", "done"}
         /\ x \in Commits <=> x.op = "commit"
         /\ x \in Configures <=> x.op = "configure"
         /\ x \in Buffers <=> x.op = "commit" /\ x.buffer
BY DEF Syncs, Commits, Configures, Buffers, Op

(* The window asked for, the commit is on its way and nothing else is.     *)
LEMMA WindowExpected ==
  ASSUME Typed, Placed, RoundInv, SurfaceInv, MakeWindow, waits # "lost" PROVE Expecting'
<1>1. Main[pc] = "window"
  BY DEF MakeWindow, At
<1>2. pc = WindowAt /\ pc <= WindowAt
  BY <1>1, Table DEF Typed
<1>3. /\ stage = "none" /\ serial = 0 /\ ~Has(ToServer, Commits)
      /\ waits = "no" /\ ~Has(Road, Syncs)
  BY <1>1, <1>2 DEF SurfaceInv, RoundInv
<1>4. ToServer \in Seq(Messages) /\ ToClient \in Seq(Messages) /\ Window \in Seq(Messages)
  BY WiresTyped, WindowTyped
<1>5. ToServer' = ToServer \o Window /\ ToClient' = ToClient
  BY MainMoves DEF Asking
<1>6. ~Has(ToClient, Syncs) /\ ~Has(ToServer, Syncs)
  BY <1>3, <1>4, JoinedHas DEF Road
<1>7. ~Has(ToServer, Buffers)
  BY <1>3 DEF Has, Buffers, Commits
<1>8. ~Has(ToServer', Buffers) /\ ~Has(ToServer', Syncs) /\ Has(ToServer', Commits)
  BY <1>4, <1>5, <1>6, <1>7, WindowParts, JoinedHas
<1>9. Behind(ToServer', Syncs, Commits)
  BY <1>8 DEF Has, Behind
<1>10. UNCHANGED <<stage, serial, waits>>
  BY DEF MakeWindow, server
<1>11. QED
  BY <1>3, <1>5, <1>6, <1>8, <1>9, <1>10 DEF Expecting, Undecided, Committed

LEMMA AnswerExpected == ASSUME Typed, Expecting, Roundtrip PROVE Expecting'
<1> DEFINE s == [op |-> "sync"]
<1>1. s \in Messages /\ <<s>> \in Seq(Messages)
  BY PlainMessages
<1>2. ToServer' = ToServer \o <<s>> /\ ToClient' = ToClient
  BY MainMoves DEF Asking
<1>3. ToServer \in Seq(Messages)
  BY WiresTyped
<1>4. waits = "no" /\ waits' = "waiting" /\ UNCHANGED <<stage, serial, configured>>
  BY DEF Roundtrip, server
<1>5. s \notin Buffers
  BY <1>1, KindsApart
<1>6. ~Has(<<s>>, Buffers)
  BY <1>5, OfOne
<1>7. Has(ToServer', Buffers) <=> Has(ToServer, Buffers)
  BY <1>1, <1>2, <1>3, <1>6, JoinedHas, ZenonT(30)
<1>8. Has(ToServer, Commits) /\ Behind(ToServer, Syncs, Commits) => Behind(ToServer', Syncs, Commits)
  BY <1>1, <1>2, <1>3, JoinedBehind
<1>9. QED
  BY <1>2, <1>4, <1>7, <1>8 DEF Expecting, Undecided, Decided, Committed

LEMMA FrameExpected ==
  ASSUME Typed, Typed', Placed, SerialInv, AckInv, Expecting, FrameDone PROVE Expecting'
<1>1. Here \in Messages /\ Here.op = "frame" /\ <<Here>> \in Seq(Messages)
  BY HeadsTyped, Alone DEF FrameDone, Event, Dispatching, Here
<1>2. serial > 0 /\ serial' = serial
  BY DrawnConfigured
<1>3. ToClient = <<Here>> \o ToClient' /\ ToClient' \in Seq(Messages)
  BY HandlerMoves, WiresTypedNext DEF Hearing, Here
<1>4. Here \notin Syncs /\ Here \notin Configures
  BY <1>1, KindsApart
<1>5. ~Has(<<Here>>, Configures) /\ Behind(<<Here>>, Syncs, Configures)
  BY <1>4, OfOne
<1>6. /\ Has(ToClient, Configures) <=> Has(ToClient', Configures)
      /\ Behind(ToClient, Syncs, Configures) <=> Behind(ToClient', Syncs, Configures)
  BY <1>1, <1>3, <1>5, JoinedHas, JoinedBehind
<1>7. UNCHANGED <<waits, configured>>
  BY DEF FrameDone, client
<1>8. QED
  BY <1>2, <1>6, <1>7 DEF Expecting, Decided

(* What is committed has nothing on it, as long as nothing is configured.  *)
LEMMA CommitExpected == ASSUME Typed, Typed', Expecting, TakeCommit PROVE Expecting'
<1> DEFINE ops == {"sync", "done", "configure"}
           e == [op |-> "end"]
<1>1. requests # << >> /\ Wish \in Messages /\ Wish.op = "commit" /\ <<Wish>> \in Seq(Messages)
  BY HeadsTyped, Alone DEF TakeCommit, Request, Wish
<1>2. ToServer = <<Wish>> \o ToServer' /\ ToServer' \in Seq(Messages)
  BY CompositorMoves, WiresTypedNext DEF Taking, Wish
<1>3. \E es \in Seq(Messages) : ToClient' = ToClient \o es /\ Without(es, ops)
  <2>1. << >> \in Seq(Messages) /\ Without(<< >>, ops)
    BY EmptySeq, OfNone DEF Without
  <2>2. <<e>> \in Seq(Messages) /\ Without(<<e>>, ops)
    <3>1. e.op \notin ops
      OBVIOUS
    <3>2. QED
      BY <3>1, PlainMessages, WithoutOne
  <2>3. ToClient' = ToClient \o << >> \/ ToClient' = ToClient \o <<e>>
    BY CompositorMoves DEF Taking
  <2>4. QED
    BY <2>1, <2>2, <2>3
<1>4. Alike(ToClient, ToClient', ops)
  BY <1>3, WiresTyped, AlikeEnds
<1>5. Syncs \subseteq Op(ops) /\ Configures \subseteq Op(ops)
  BY DEF Syncs, Configures, Op
<1>6. /\ Has(ToClient', Syncs) <=> Has(ToClient, Syncs)
      /\ Has(ToClient', Configures) <=> Has(ToClient, Configures)
      /\ Behind(ToClient', Syncs, Configures) <=> Behind(ToClient, Syncs, Configures)
  BY <1>4, <1>5 DEF Alike
<1>7. UNCHANGED <<waits, configured, serial>>
  BY DEF TakeCommit, client
<1>8. CASE serial = 0
  <2>1. Undecided
    BY <1>8 DEF Expecting
  <2>2. ~Has(<<Wish>>, Buffers) /\ ~Has(ToServer', Buffers)
    BY <1>1, <1>2, <2>1, JoinedHas DEF Undecided
  <2>3. ~Wish.buffer
    BY <1>1, <2>2, KindsApart, OfOne
  <2>4. stage' = "committed"
    BY <2>3 DEF TakeCommit, Wish
  <2>5. QED
    BY <1>6, <1>7, <1>8, <2>1, <2>2, <2>4 DEF Expecting, Undecided, Committed
<1>9. CASE serial # 0
  BY <1>6, <1>7, <1>9 DEF Expecting, Decided
<1>10. QED
  BY <1>8, <1>9

LEMMA DoneExpected ==
  ASSUME Typed, Typed', Expecting, HandleDone PROVE Expecting' /\ configured
<1>1. Here \in Messages /\ Here.op = "done" /\ <<Here>> \in Seq(Messages)
  BY HeadsTyped, Alone DEF HandleDone, Event, Dispatching, Here
<1>2. ToClient = <<Here>> \o ToClient' /\ ToClient' \in Seq(Messages)
  BY HandlerMoves, WiresTypedNext DEF Hearing, Here
<1>3. Here \in Syncs
  BY <1>1, KindsApart
<1>4. Has(<<Here>>, Syncs) /\ ~Behind(<<Here>>, Syncs, Configures)
  BY <1>3, OfOne
<1>5. Has(ToClient, Syncs) /\ ~Behind(ToClient, Syncs, Configures)
  BY <1>1, <1>2, <1>4, JoinedHas, JoinedBehind
<1>6. serial # 0 /\ configured
  BY <1>5 DEF Expecting, Undecided, Decided
<1>7. UNCHANGED <<serial, configured>>
  BY DEF HandleDone, server
<1>8. QED
  BY <1>6, <1>7 DEF Expecting, Decided

LEMMA ConfigureExpected ==
  ASSUME Typed, Typed', SerialInv, SurfaceConfigure PROVE Expecting'
<1>1. Here \in Messages /\ Here.op = "configure" /\ <<Here>> \in Seq(Messages)
  BY HeadsTyped, Alone DEF SurfaceConfigure, Event, Dispatching, Here
<1>2. ToClient = <<Here>> \o ToClient' /\ ToClient' \in Seq(Messages)
  BY HandlerMoves, WiresTypedNext DEF Hearing, Here
<1>3. Here \in Serials
  BY <1>1 DEF Serials, Op
<1>4. Here.serial \in (acked + 1)..serial
  <2>1. Within(<<Here>>, Serials, acked + 1, serial)
    BY <1>1, <1>2, JoinedWithin DEF SerialInv
  <2>2. QED
    BY <1>3, <2>1, OfOne DEF Within
<1>5. serial # 0
  BY <1>4 DEF Typed, StateTyped
<1>6. serial' = serial /\ configured' = TRUE
  BY DEF SurfaceConfigure, server
<1>7. QED
  BY <1>5, <1>6 DEF Expecting, Decided

(* A prompt compositor does not answer before it has configured.           *)
LEMMA SyncExpected ==
  ASSUME Typed, Typed', Expecting, prompt, TakeSync PROVE Expecting'
<1> DEFINE d == [op |-> "done"]
<1>1. Wish \in Messages /\ Wish.op = "sync" /\ <<Wish>> \in Seq(Messages)
  BY HeadsTyped, Alone DEF TakeSync, Request, Wish
<1>2. ToServer = <<Wish>> \o ToServer' /\ ToServer' \in Seq(Messages)
  BY CompositorMoves, WiresTypedNext DEF Taking, Wish
<1>3. ToClient' = ToClient \o <<d>> /\ <<d>> \in Seq(Messages) /\ ToClient \in Seq(Messages)
  BY PlainMessages, CompositorMoves, WiresTyped DEF Taking
<1>4. ~Behind(<<Wish>>, Syncs, Commits)
  BY <1>1, KindsApart, OfOne
<1>5. ~Behind(ToServer, Syncs, Commits)
  BY <1>1, <1>2, <1>4, JoinedBehind
<1>6. serial # 0
  <2>1. stage = "committed" => serial > 0
    BY DEF TakeSync
  <2>2. serial \in Nat
    BY DEF Typed, StateTyped
  <2>3. QED
    BY <1>5, <2>1, <2>2 DEF Expecting, Undecided, Committed
<1>7. /\ Has(ToClient, Configures) => Has(ToClient', Configures)
      /\ Has(ToClient, Configures) /\ Behind(ToClient, Syncs, Configures)
           => Behind(ToClient', Syncs, Configures)
  BY <1>3, JoinedHas, JoinedBehind
<1>8. UNCHANGED <<serial, configured, waits>>
  BY DEF TakeSync, client, server
<1>9. QED
  BY <1>6, <1>7, <1>8 DEF Expecting, Decided

LEMMA SerialExpected ==
  ASSUME Typed, Typed', Expecting, Configure PROVE Expecting'
<1> DEFINE c == [op |-> "configure", serial |-> serial + 1]
<1>1. serial \in Nat
  BY DEF Typed, StateTyped
<1>2. <<c>> \in Seq(Messages) /\ c \in Configures /\ c \notin Syncs
  <2>1. \A s \in Nat : [op |-> "configure", serial |-> s] \in Events
    BY DEF Events
  <2>2. c \in Messages
    BY <1>1, <2>1 DEF Messages
  <2>3. QED
    BY <2>2, KindsApart, Alone
<1>3. ToClient' = ToClient \o <<c>> /\ ToClient \in Seq(Messages)
  BY CompositorMoves, WiresTyped DEF Saying
<1>4. Has(<<c>>, Configures) /\ Behind(<<c>>, Syncs, Configures)
  BY <1>2, OfOne
<1>5. ~Has(ToClient, Syncs) => Behind(ToClient, Syncs, Configures)
  BY DEF Has, Behind
<1>6. /\ Has(ToClient', Configures)
      /\ Behind(ToClient, Syncs, Configures) => Behind(ToClient', Syncs, Configures)
  <2>1. Has(ToClient', Configures)
    <3>1. \A t \in Seq(Messages) : Has(t, Configures) => Has(ToClient \o t, Configures)
      BY <1>3, JoinedHas
    <3>2. QED
      BY <1>2, <1>3, <1>4, <3>1
  <2>2. Behind(ToClient, Syncs, Configures) => Behind(ToClient', Syncs, Configures)
    BY <1>2, <1>3, <1>4, JoinedBehind
  <2>3. QED
    BY <2>1, <2>2
<1>7. serial' = serial + 1 /\ UNCHANGED <<configured, waits>>
  BY DEF Configure, client
<1>8. QED
  BY <1>1, <1>5, <1>6, <1>7 DEF Expecting, Undecided, Decided

LEMMA RestExpected ==
  ASSUME Typed, Typed', Placed, SurfaceInv, Expecting, [Next]_vars,
         Still({"commit", "sync", "done", "configure"}), Main[pc] = "roundtrip",
         ~MainStep, ~HandleDone, ~SurfaceConfigure, ~TakeCommit, ~Configure, waits' # "lost"
  PROVE  Expecting'
<1> DEFINE ops == {"commit", "sync", "done", "configure"}
<1>1. /\ Syncs \subseteq Op(ops) /\ Commits \subseteq Op(ops) /\ Configures \subseteq Op(ops)
      /\ Buffers \subseteq Op(ops)
  BY DEF Syncs, Commits, Configures, Buffers, Op
<1>2. Alike(ToServer, ToServer', ops) /\ Alike(ToClient, ToClient', ops)
  BY DEF Still
<1>3. /\ Has(ToServer', Buffers) <=> Has(ToServer, Buffers)
      /\ Has(ToServer', Commits) <=> Has(ToServer, Commits)
      /\ Behind(ToServer', Syncs, Commits) <=> Behind(ToServer, Syncs, Commits)
      /\ Has(ToClient', Syncs) <=> Has(ToClient, Syncs)
      /\ Has(ToClient', Configures) <=> Has(ToClient, Configures)
      /\ Behind(ToClient', Syncs, Configures) <=> Behind(ToClient, Syncs, Configures)
  BY <1>1, <1>2 DEF Alike
<1>4. waits' = waits
  <2>1. ~HandleEnd /\ (Read => waits' = waits)
    BY DEF Read, HandleEnd
  <2>2. QED
    BY <2>1, Keeps
<1>5. UNCHANGED <<configured, serial>>
  BY Keeps
<1>6. stage' = stage \/ (stage = "none" /\ stage' = "role")
  BY Keeps, SurfaceTaken
<1>7. QED
  BY <1>3, <1>4, <1>5, <1>6 DEF Expecting, Undecided, Decided, Committed

LEMMA ExpectingStep ==
  ASSUME Typed, Typed', Placed, SerialInv, AckInv, SurfaceInv, Expecting, prompt, [Next]_vars,
         pc = WindowAt + 1, pc' = pc, waits' # "lost"
  PROVE  Expecting'
<1> DEFINE ops == {"commit", "sync", "done", "configure"}
<1>1. ops \cap Noise = {}
  BY DEF Noise
<1>2. Main[pc] = "roundtrip"
  BY Table DEF Typed
<1>3. MainStep => Roundtrip
  <2>1. Returned => pc' = pc + 1
    BY DEF Returned, Past
  <2>2. pc \in Nat
    BY Table DEF Typed
  <2>3. QED
    BY <1>2, <2>1, <2>2, AtRound
<1>4. ~MakeWindow /\ ~AttachOnce /\ ~FirstDraw
  BY <1>2 DEF MakeWindow, AttachOnce, FirstDraw, At
<1>5. \/ Roundtrip \/ FrameDone \/ TakeCommit \/ HandleDone \/ SurfaceConfigure \/ TakeSync
      \/ Configure \/ Still(ops)
  BY <1>1, <1>4, LoudOrQuiet, QuietStill, LoudStill
<1>6. CASE /\ Still(ops)
           /\ ~Roundtrip /\ ~HandleDone /\ ~SurfaceConfigure /\ ~TakeCommit /\ ~Configure
  BY <1>2, <1>3, <1>6, RestExpected
<1>7. QED
  BY <1>5, <1>6, AnswerExpected, FrameExpected, CommitExpected, DoneExpected, ConfigureExpected,
     SyncExpected, SerialExpected

LEMMA ConfigureStep ==
  ASSUME Typed, Typed', Placed, RoundInv, SerialInv, AckInv, SurfaceInv, ConfigureInv, [Next]_vars
  PROVE  ConfigureInv'
<1>1. /\ pc \in Nat /\ WindowAt \in Nat
      /\ Main[pc] = "window" <=> pc = WindowAt
      /\ Main[pc] = "configured" <=> pc = WindowAt + 2
      /\ pc = WindowAt + 1 => Main[pc] = "roundtrip"
  BY Table DEF Typed
<1>2. /\ WindowAt' = WindowAt /\ prompt' = prompt
      /\ \/ pc' = pc
         \/ pc' = pc + 1 /\ MainStep
         \/ pc' = pc + 2 /\ pc > WindowAt + 2
  BY Keeps, GoesOn DEF Typed
<1>7. waits' # "lost" => waits # "lost"
  BY Keeps
<1>3. ASSUME prompt, pc' = WindowAt + 1, waits' # "lost" PROVE Expecting'
  <2>1. CASE pc' = pc
    <3>1. pc = WindowAt + 1 /\ Expecting
      BY <1>2, <1>3, <1>7, <2>1 DEF ConfigureInv
    <3>2. QED
      BY <1>3, <2>1, <3>1, ExpectingStep
  <2>2. CASE pc' # pc
    <3>1. pc = WindowAt /\ MainStep
      BY <1>1, <1>2, <1>3, <2>2
    <3>2. MakeWindow
      BY <1>1, <3>1 DEF MainStep, GetRegistry, Roundtrip, Returned, CheckGlobals, Listen, MakePool,
         CheckConfigured, AttachOnce, GetDevice, GetSeat, FirstDraw, Again, At
    <3>3. QED
      BY <1>3, <1>7, <3>2, WindowExpected
  <2>3. QED
    BY <2>1, <2>2
<1>4. ASSUME prompt, pc' = WindowAt + 2, waits' # "lost" PROVE configured'
  <2>1. configured => configured'
    BY Keeps DEF SurfaceConfigure
  <2>2. CASE pc' = pc
    BY <1>4, <1>7, <2>1, <2>2 DEF ConfigureInv
  <2>3. CASE pc' # pc
    <3>1. pc = WindowAt + 1 /\ MainStep
      BY <1>1, <1>2, <1>4, <2>3
    <3>2. Returned
      <4>1. Roundtrip => pc' = pc
        BY DEF Roundtrip
      <4>2. QED
        BY <1>1, <2>3, <3>1, <4>1, AtRound
    <3>3. waits = "over"
      BY <1>4, <1>7, <3>2 DEF Returned
    <3>4. configured
      BY <1>4, <3>1, <3>3 DEF ConfigureInv, Expecting, Undecided, Decided
    <3>5. QED
      BY <2>1, <3>4
  <2>4. QED
    BY <2>2, <2>3
<1>5. ASSUME left' = "never configured", waits' # "lost" PROVE ~prompt
  <2>1. CASE left = "never configured"
    BY <1>5, <1>7, <2>1 DEF ConfigureInv
  <2>2. CASE left # "never configured"
    <3>1. CheckConfigured
      <4>1. MainStep => CheckConfigured
        BY <1>5, <2>2 DEF MainStep, GetRegistry, Roundtrip, Returned, CheckGlobals, Listen,
           MakePool, MakeWindow, AttachOnce, GetDevice, GetSeat, FirstDraw, Again, Goes
      <4>2. ~HandleEnd
        BY <1>5 DEF HandleEnd
      <4>3. QED
        BY <1>5, <2>2, <4>1, <4>2, Keeps
    <3>2. pc = WindowAt + 2 /\ ~configured
      BY <1>1, <1>5, <2>2, <3>1 DEF CheckConfigured, At
    <3>3. QED
      BY <1>5, <1>7, <3>2 DEF ConfigureInv
  <2>3. QED
    BY <2>1, <2>2
<1>6. QED
  BY <1>2, <1>3, <1>4, <1>5 DEF ConfigureInv

LEMMA CauseHolds == Spec => [](RoundInv /\ GlobalsInv /\ SurfaceInv /\ ConfigureInv)
<1> DEFINE Sure == SerialInv /\ AckInv
           Inv == RoundInv /\ GlobalsInv /\ SurfaceInv /\ ConfigureInv
<1>1. InitScroll => Inv
  <2>1. SUFFICES ASSUME InitScroll PROVE Inv
    OBVIOUS
  <2>2. ToServer = << >> /\ Road = << >>
    <3>1. << >> \in Seq(Messages) /\ << >> \o << >> = << >>
      BY EmptySeq, ConcatEmptySeq
    <3>2. QED
      BY <2>1, <3>1 DEF InitScroll, Init, ToServer, ToClient, Road
  <2>3. /\ pc = 1 /\ waits = "no" /\ left = "" /\ stage = "none" /\ serial = 0
        /\ StateTyped /\ Placed
    BY <2>1, TypedInit, PlacedInit DEF InitScroll, Init, Typed
  <2>4. WindowAt \in {5, 6, 7} /\ Main[pc] = "registry"
    BY <2>3, Table
  <2>5. /\ pc # 2 /\ pc # 3 /\ ~(pc > 3) /\ pc # WindowAt + 1 /\ pc # WindowAt + 2
        /\ left # "missing" /\ left # "never configured"
    <3>1. WindowAt \in {5, 6, 7}
      BY <2>4
    <3>2. WindowAt \in Nat /\ WindowAt >= 5
      BY <3>1
    <3>3. pc = 1
      BY <2>3
    <3>4. pc # WindowAt + 1 /\ pc # WindowAt + 2 /\ pc # 2 /\ pc # 3 /\ ~(pc > 3)
      BY <3>2, <3>3
    <3>5. left # "missing" /\ left # "never configured"
      BY <2>3
    <3>6. QED
      BY <3>4, <3>5
  <2>6. RoundInv
    BY <2>2, <2>3, OfNone DEF RoundInv
  <2>7. GlobalsInv
    BY <2>5 DEF GlobalsInv
  <2>8. SurfaceInv
    BY <2>2, <2>3, OfNone DEF SurfaceInv
  <2>9. ConfigureInv
    BY <2>5 DEF ConfigureInv
  <2>10. QED
    BY <2>6, <2>7, <2>8, <2>9
<1>2. Typed /\ Typed' /\ Placed /\ Sure /\ Inv /\ [Next]_vars => Inv'
  BY RoundStep, GlobalsStep, SurfaceStep, ConfigureStep
<1>3. QED
  BY <1>1, <1>2, TypedHolds, PlacedHolds, SureHolds, PTL DEF Spec

-----------------------------------------------------------------------------
(* A connection is lost only to a compositor that has thrown out or gone.  *)
LostInv == waits = "lost" => ~Serving

LEMMA LostStep == ASSUME Typed, LostInv, [Next]_vars PROVE LostInv'
<1>1. Serving' => Serving
  <2>1. TakeBind \/ TakeAck \/ TakeCommit \/ Leave => Serving
    BY DEF TakeBind, TakeAck, TakeCommit, Leave, Request, Unasked
  <2>2. QED
    BY <2>1, Keeps DEF Serving
<1>2. CASE HandleEnd
  <2>1. queue \in Seq(Sent) /\ queue # << >>
    BY <1>2 DEF HandleEnd, Dispatching, Typed, WireTyped
  <2>2. Len(queue) \in 1..Len(queue)
    BY <2>1, LenProperties
  <2>3. queue[Len(queue)] \in Sent
    BY <2>1, <2>2, ElementOfSeq
  <2>4. ~Serving
    BY <1>2, <2>3 DEF HandleEnd, Failed, Sent
  <2>5. QED
    BY <1>1, <2>4 DEF LostInv
<1>3. CASE ~HandleEnd
  <2>1. MainStep => (waits' = "lost" => waits = "lost")
    BY DEF MainStep, GetRegistry, Roundtrip, Returned, CheckGlobals, Listen, MakePool, MakeWindow,
       CheckConfigured, AttachOnce, GetDevice, GetSeat, FirstDraw, Again, Goes
  <2>2. Read \/ HandleDone => (waits' = "lost" => waits = "lost")
    BY DEF Read, HandleDone
  <2>3. waits' = "lost" => waits = "lost"
    BY <1>3, <2>1, <2>2, Keeps
  <2>4. QED
    BY <1>1, <2>3 DEF LostInv
<1>4. QED
  BY <1>2, <1>3

(* A program gives up before it has a window only for want of memory, of   *)
(* an interface that is not there, of a configure that a compositor did    *)
(* not send before it answered, or of the compositor: the one roundtrip    *)
(* after the registry and the one after the commit are all it takes,       *)
(* however what is sent falls into pieces, and they fail only when the     *)
(* compositor has thrown the program out or gone                           *)
(* (e.g. toolchain/wlcairo.c:330-371).                                     *)
THEOREM GivesUpForCauseHolds == Spec => []GivesUpForCause
<1>1. GlobalsInv /\ ConfigureInv /\ LostInv => GivesUpForCause
  BY DEF GlobalsInv, ConfigureInv, LostInv, GivesUpForCause
<1>2. InitScroll => LostInv
  BY DEF InitScroll, Init, LostInv
<1>3. Typed /\ LostInv /\ [Next]_vars => LostInv'
  BY LostStep
<1>4. QED
  BY <1>1, <1>2, <1>3, CauseHolds, TypedHolds, PTL DEF Spec

-----------------------------------------------------------------------------
(* The formats are said once, when wl_shm is bound, which it is once: it   *)
(* is announced once, by the one registry asked for.                       *)
Sources == Promise("wl_shm") \cup {x \in Op({"bind"}) : x.interface = "wl_shm"}
Formatting == Op({"format"})
FormatInv ==
  /\ Count(Road, Sources) \in {0, 1} /\ formats \in Nat
  /\ pc = 1 => Count(Road, Sources) = 0
  /\ pc = 1 \/ Count(Road, Sources) = 1 => Count(Road, Formatting) = 0 /\ formats = 0
  /\ Count(Road, Formatting) + formats <= Formats

LEMMA SourcesApart ==
  ASSUME NEW x \in Messages
  PROVE  /\ x \in Formatting <=> x.op = "format"
         /\ x.op \notin {"registry", "global", "bind"} => x \notin Sources
         /\ x.op = "registry" => x \in Sources
         /\ x.op \in {"global", "bind"} => (x \in Sources <=> x.interface = "wl_shm")
BY DEF Sources, Formatting, Promise, Op

(* The counts of a road in pieces.                                         *)
LEMMA PairCounts ==
  ASSUME NEW s \in Seq(Messages), NEW t \in Seq(Messages), NEW C
  PROVE  /\ Count(s, C) \in Nat /\ Count(t, C) \in Nat
         /\ Count(s \o t, C) = Count(s, C) + Count(t, C)
BY PlacesAreFinite, JoinedCount

LEMMA RoadCounts ==
  ASSUME NEW s \in Seq(Messages), NEW t \in Seq(Messages), NEW u \in Seq(Messages), NEW C
  PROVE  /\ Count(s, C) \in Nat /\ Count(t, C) \in Nat /\ Count(u, C) \in Nat
         /\ Count((s \o t) \o u, C) = Count(s, C) + Count(t, C) + Count(u, C)
<1>1. s \o t \in Seq(Messages)
  BY ConcatProperties
<1>2. Count((s \o t) \o u, C) = Count(s \o t, C) + Count(u, C)
  BY <1>1, PairCounts
<1>3. Count(s \o t, C) = Count(s, C) + Count(t, C) /\ Count(s, C) \in Nat /\ Count(t, C) \in Nat
  BY PairCounts
<1>4. Count(u, C) \in Nat
  BY PairCounts
<1>5. QED
  BY <1>2, <1>3, <1>4

(* One wl_shm is announced at most, and no format with it.                 *)
LEMMA AnnouncedOnce ==
  ASSUME Typed
  PROVE  /\ Announcements \in Seq(Messages)
         /\ Count(Announcements, Sources) \in {0, 1} /\ Count(Announcements, Formatting) = 0
<1> DEFINE N(s, k) == s \in Seq(Messages) /\ Count(s, Sources) \in Nat /\ Count(s, Sources) <= k
<1>1. \A i \in Interfaces : N(Announce(i), IF i = "wl_shm" THEN 1 ELSE 0)
  <2>1. SUFFICES ASSUME NEW i \in Interfaces PROVE N(Announce(i), IF i = "wl_shm" THEN 1 ELSE 0)
    OBVIOUS
  <2>2. Announce(i) \in Seq(Messages)
    BY AnnounceTyped, SentMessages DEF Typed
  <2> DEFINE g == [op |-> "global", interface |-> i, version |-> offer[i]]
  <2>3. offer[i] \in Nat
    BY OffersTyped DEF Typed
  <2>4. g \in Messages
    BY <2>3 DEF Messages, Events
  <2>5. g \in Sources <=> i = "wl_shm"
    BY <2>4, SourcesApart
  <2>6. Count(<<g>>, Sources) <= (IF i = "wl_shm" THEN 1 ELSE 0) /\ Count(<< >>, Sources) = 0
    BY <2>5, CountOne
  <2>7. Count(Announce(i), Sources) <= IF i = "wl_shm" THEN 1 ELSE 0
    BY <2>3, <2>6 DEF Announce
  <2>8. QED
    BY <2>2, <2>7, PlacesAreFinite
<1>2. \A s, t : \A j, k \in Nat : N(s, j) /\ N(t, k) => N(s \o t, j + k)
  <2>1. SUFFICES ASSUME NEW s, NEW t, NEW j \in Nat, NEW k \in Nat, N(s, j), N(t, k)
                 PROVE  N(s \o t, j + k)
    OBVIOUS
  <2>2. Count(s \o t, Sources) = Count(s, Sources) + Count(t, Sources) /\ s \o t \in Seq(Messages)
    BY <2>1, JoinedCount, ConcatProperties
  <2>3. QED
    BY <2>1, <2>2
<1>3. /\ N(Announce("wl_compositor"), 0) /\ N(Announce("wl_shm"), 1) /\ N(Announce("wl_output"), 0)
      /\ N(Announce("wl_seat"), 0) /\ N(Announce("xdg_wm_base"), 0)
      /\ N(Announce("zxdg_decoration_manager_v1"), 0) /\ N(Announce("wl_data_device_manager"), 0)
      /\ N(Announce("zwp_primary_selection_device_manager_v1"), 0)
  BY <1>1 DEF Interfaces
<1> HIDE DEF N
<1> DEFINE A2 == Announce("wl_compositor") \o Announce("wl_shm")
           A3 == A2 \o Announce("wl_output")
           A4 == A3 \o Announce("wl_seat")
           A5 == A4 \o Announce("xdg_wm_base")
           A6 == A5 \o Announce("zxdg_decoration_manager_v1")
           A7 == A6 \o Announce("wl_data_device_manager")
           A8 == A7 \o Announce("zwp_primary_selection_device_manager_v1")
<1>4. \A s, t : N(s, 1) /\ N(t, 0) => N(s \o t, 1)
  <2>1. 1 + 0 = 1 /\ 0 \in Nat /\ 1 \in Nat
    OBVIOUS
  <2>2. QED
    BY <1>2, <2>1
<1>5. N(A2, 1)
  <2>1. 0 + 1 = 1 /\ 0 \in Nat /\ 1 \in Nat
    OBVIOUS
  <2>2. QED
    BY <1>2, <1>3, <2>1
<1>6. Announcements = A8
  BY DEF Announcements
<1> HIDE DEF A2
<1>7. N(A8, 1)
  BY <1>3, <1>4, <1>5
<1>8. N(Announcements, 1)
  BY <1>6, <1>7
<1>9. Count(Announcements, Formatting) = 0
  BY AnnouncementsWithout, CountNone DEF Without, Formatting
<1>10. QED
  BY <1>8, <1>9 DEF N

LEMMA FormatAsked == ASSUME Typed, Typed', Placed, FormatInv, GetRegistry PROVE FormatInv'
<1> DEFINE g == [op |-> "registry"]
<1>1. Road' = Road \o <<g>> /\ <<g>> \in Seq(Messages) /\ g \in Messages
  BY PlainMessages, MainMoves, RoadMoves
<1>2. Count(<<g>>, Sources) = 1 /\ Count(<<g>>, Formatting) = 0
  BY <1>1, CountOne, SourcesApart
<1>3. pc = 1
  BY Table DEF GetRegistry, At, Typed
<1>4. pc' = 2 /\ formats' = formats
  BY <1>3 DEF GetRegistry, Past
<1>5. Road \in Seq(Messages)
  BY RoadTyped
<1>6. /\ Count(Road', Sources) = Count(Road, Sources) + Count(<<g>>, Sources)
      /\ Count(Road', Formatting) = Count(Road, Formatting) + Count(<<g>>, Formatting)
  BY <1>1, <1>5, PairCounts
<1>7. Sources' = Sources /\ Formatting' = Formatting
  BY DEF Sources, Formatting, Promise, Op
<1>8. QED
  BY <1>2, <1>3, <1>4, <1>6, <1>7 DEF FormatInv

(* Heard: one source at most for one, or one format less.                  *)
LEMMA FormatHeard ==
  ASSUME Typed, Typed', FormatInv, HandleGlobal PROVE FormatInv'
<1> DEFINE b == [op |-> "bind", interface |-> Here.interface,
                 version |-> Global(Here.interface, Here.version)]
<1>1. Here \in Messages /\ Here.op = "global" /\ <<Here>> \in Seq(Messages)
  BY HeadsTyped, Alone DEF HandleGlobal, Event, Dispatching, Here
<1>2. Here.interface \in Interfaces /\ Global(Here.interface, Here.version) \in Nat
  BY BoundAsTold DEF Here
<1>3. b \in Messages /\ <<b>> \in Seq(Messages) /\ << >> \in Seq(Messages)
  <2>1. b \in Messages
    BY <1>2 DEF Messages, Requests
  <2>2. QED
    BY <2>1, Alone, EmptySeq
<1>4. /\ Here \in Sources <=> b \in Sources
      /\ Here \notin Formatting /\ b \notin Formatting
  BY <1>1, <1>3, SourcesApart
<1>5. \E es \in {<< >>, <<b>>} : Road = <<Here>> \o Rest /\ Road' = Rest \o es
  <2>1. Hearing(<< >>) \/ Hearing(<<b>>)
    BY HandlerMoves
  <2>2. QED
    BY <1>1, <1>3, <2>1, RoadMoves
<1>6. PICK es \in {<< >>, <<b>>} : Road = <<Here>> \o Rest /\ Road' = Rest \o es
  BY <1>5
<1>7. /\ Count(es, Sources) \in Nat /\ Count(es, Sources) <= Count(<<Here>>, Sources)
      /\ Count(es, Formatting) = 0 /\ Count(<<Here>>, Formatting) = 0
      /\ Count(<<Here>>, Sources) \in Nat
  BY <1>4, CountOne
<1>8. Rest \in Seq(Messages) /\ es \in Seq(Messages)
  BY <1>3, RoadTyped
<1>9. \A C : /\ Count(Road, C) = Count(<<Here>>, C) + Count(Rest, C)
            /\ Count(Road', C) = Count(Rest, C) + Count(es, C)
            /\ Count(Rest, C) \in Nat
  <2>1. \A C : Count(<<Here>> \o Rest, C) = Count(<<Here>>, C) + Count(Rest, C) /\ Count(Rest, C) \in Nat
    BY <1>1, <1>8, PairCounts
  <2>2. \A C : Count(Rest \o es, C) = Count(Rest, C) + Count(es, C)
    BY <1>8, PairCounts
  <2>3. QED
    BY <1>6, <2>1, <2>2
<1>10. UNCHANGED <<pc, formats, Sources, Formatting>>
  BY DEF HandleGlobal, Sources, Formatting, Promise, Op
<1>11. QED
  BY <1>7, <1>9, <1>10 DEF FormatInv

LEMMA FormatCounted ==
  ASSUME Typed, Typed', FormatInv, HandleFormat PROVE FormatInv'
<1>1. Here \in Messages /\ Here.op = "format" /\ <<Here>> \in Seq(Messages)
  BY HeadsTyped, Alone DEF HandleFormat, Event, Dispatching, Here
<1>2. Count(<<Here>>, Sources) = 0 /\ Count(<<Here>>, Formatting) = 1
  BY <1>1, CountOne, SourcesApart
<1>3. << >> \in Seq(Messages)
  BY EmptySeq
<1>4. Road = <<Here>> \o Rest /\ Road' = Rest \o << >>
  BY <1>1, <1>3, HandlerMoves, RoadMoves
<1>5. Rest \in Seq(Messages) /\ Count(<< >>, Sources) = 0 /\ Count(<< >>, Formatting) = 0
  BY RoadTyped, CountOne
<1>6. /\ Count(Road, Sources) = Count(Road', Sources)
      /\ Count(Road, Formatting) = 1 + Count(Road', Formatting)
      /\ Count(Road', Sources) \in Nat /\ Count(Road', Formatting) \in Nat
  <2>1. Rest \o << >> = Rest
    BY <1>5, ConcatEmptySeq
  <2>2. \A C : Count(<<Here>> \o Rest, C) = Count(<<Here>>, C) + Count(Rest, C) /\ Count(Rest, C) \in Nat
    BY <1>1, <1>5, PairCounts
  <2>3. \A C : Count(Road, C) = Count(<<Here>>, C) + Count(Road', C) /\ Count(Road', C) \in Nat
    BY <1>4, <2>1, <2>2
  <2>4. QED
    BY <1>2, <2>3
<1>7. formats' \in {formats, formats + 1} /\ UNCHANGED <<pc, Sources, Formatting>>
  BY DEF HandleFormat, Sources, Formatting, Promise, Op
<1>8. Count(Road, Formatting) # 0
  BY <1>6
<1>9. pc # 1 /\ Count(Road, Sources) # 1
  BY <1>8 DEF FormatInv
<1>10. QED
  BY <1>6, <1>7, <1>9, WindowAssumption DEF FormatInv

(* Taken: the registry is asked once for what is announced once, and the   *)
(* formats are said in the place of the bind.                              *)
LEMMA FormatTold ==
  ASSUME Typed, Typed', FormatInv, TakeRegistry PROVE FormatInv'
<1> DEFINE A == Announcements
<1>1. Wish \in Messages /\ Wish.op = "registry" /\ <<Wish>> \in Seq(Messages)
  BY HeadsTyped, Alone DEF TakeRegistry, Request, Wish
<1>2. Count(<<Wish>>, Sources) = 1 /\ Count(<<Wish>>, Formatting) = 0
  BY <1>1, CountOne, SourcesApart
<1>3. A \in Seq(Messages) /\ Count(A, Sources) \in {0, 1} /\ Count(A, Formatting) = 0
  BY AnnouncedOnce
<1>4. Road = (ToClient \o <<Wish>>) \o ToServer' /\ Road' = (ToClient \o A) \o ToServer'
  BY <1>1, <1>3, CompositorMoves, RoadMoves
<1>5. ToClient \in Seq(Messages) /\ ToServer' \in Seq(Messages)
  BY RoadTyped
<1>6. \A C : /\ Count(Road, C) = Count(ToClient, C) + Count(<<Wish>>, C) + Count(ToServer', C)
            /\ Count(Road', C) = Count(ToClient, C) + Count(A, C) + Count(ToServer', C)
            /\ Count(ToClient, C) \in Nat /\ Count(ToServer', C) \in Nat
  <2> DEFINE w == <<Wish>>
  <2>0. w \in Seq(Messages)
    BY <1>1
  <2> HIDE DEF w
  <2>1. \A C : /\ Count((ToClient \o w) \o ToServer', C) =
                     Count(ToClient, C) + Count(w, C) + Count(ToServer', C)
              /\ Count(ToClient, C) \in Nat /\ Count(ToServer', C) \in Nat
    BY <1>5, <2>0, RoadCounts
  <2>2. \A C : Count((ToClient \o A) \o ToServer', C) =
                Count(ToClient, C) + Count(A, C) + Count(ToServer', C)
    BY <1>3, <1>5, RoadCounts
  <2>3. QED
    BY <1>4, <2>1, <2>2 DEF w
<1>7. UNCHANGED <<pc, formats, Sources, Formatting>>
  BY DEF TakeRegistry, client, Sources, Formatting, Promise, Op
<1>8. /\ Count(Road, Sources) = Count(ToClient, Sources) + 1 + Count(ToServer', Sources)
      /\ Count(Road', Sources) = Count(ToClient, Sources) + Count(A, Sources) + Count(ToServer', Sources)
      /\ Count(ToClient, Sources) \in Nat /\ Count(ToServer', Sources) \in Nat
  BY <1>2, <1>6
<1>9. Count(Road', Formatting) = Count(Road, Formatting)
  BY <1>2, <1>3, <1>6
<1> HIDE DEF A
<1>10. Count(Road, Sources) = 1 /\ Count(Road', Sources) \in {0, 1}
  BY <1>3, <1>8 DEF FormatInv
<1>11. QED
  BY <1>7, <1>9, <1>10 DEF FormatInv

LEMMA FormatsSaid ==
  /\ Formatted \in Seq(Messages)
  /\ Count(Formatted, Formatting) = Formats /\ Count(Formatted, Sources) = 0
<1>1. Formats \in Nat
  BY WindowAssumption
<1>2. [op |-> "format"] \in Messages
  BY PlainMessages
<1>3. Formatted \in Seq(Messages) /\ Len(Formatted) = Formats
      /\ \A n \in 1..Formats : Formatted[n] = [op |-> "format"]
  BY <1>1, <1>2, Repeated DEF Formatted
<1>4. [op |-> "format"] \in Formatting /\ [op |-> "format"] \notin Sources
  BY <1>2, SourcesApart
<1>5. Places(Formatted, Formatting) = 1..Formats /\ Places(Formatted, Sources) = {}
  BY <1>3, <1>4 DEF Places
<1>6. QED
  BY <1>1, <1>3, <1>5, FS_Interval, FS_EmptySet DEF Count

LEMMA FormatBound ==
  ASSUME Typed, Typed', FormatInv, TakeBind PROVE FormatInv'
<1> DEFINE e == [op |-> "end"]
<1>1. Wish \in Messages /\ Wish.op = "bind" /\ <<Wish>> \in Seq(Messages)
  BY HeadsTyped, Alone DEF TakeBind, Request, Wish
<1>2. e \in Messages /\ <<e>> \in Seq(Messages) /\ << >> \in Seq(Messages)
  BY PlainMessages, EmptySeq
<1>3. \E es \in {<<e>>, << >>, Formatted} :
        /\ es = Formatted /\ es # << >> /\ es # <<e>> => Wish.interface = "wl_shm"
        /\ Road = (ToClient \o <<Wish>>) \o ToServer' /\ Road' = (ToClient \o es) \o ToServer'
  BY <1>1, <1>2, FormatsSaid, CompositorMoves, RoadMoves
<1>4. PICK es \in {<<e>>, << >>, Formatted} :
        /\ es = Formatted /\ es # << >> /\ es # <<e>> => Wish.interface = "wl_shm"
        /\ Road = (ToClient \o <<Wish>>) \o ToServer' /\ Road' = (ToClient \o es) \o ToServer'
  BY <1>3
<1>5. ToClient \in Seq(Messages) /\ ToServer' \in Seq(Messages) /\ es \in Seq(Messages)
  BY <1>2, FormatsSaid, RoadTyped
<1>6. \A C : /\ Count(Road, C) = Count(ToClient, C) + Count(<<Wish>>, C) + Count(ToServer', C)
            /\ Count(Road', C) = Count(ToClient, C) + Count(es, C) + Count(ToServer', C)
            /\ Count(ToClient, C) \in Nat /\ Count(ToServer', C) \in Nat
  <2> DEFINE w == <<Wish>>
  <2>0. w \in Seq(Messages)
    BY <1>1
  <2> HIDE DEF w
  <2>1. \A C : /\ Count((ToClient \o w) \o ToServer', C) =
                     Count(ToClient, C) + Count(w, C) + Count(ToServer', C)
              /\ Count(ToClient, C) \in Nat /\ Count(ToServer', C) \in Nat
    BY <1>5, <2>0, RoadCounts
  <2>2. \A C : Count((ToClient \o es) \o ToServer', C) =
                Count(ToClient, C) + Count(es, C) + Count(ToServer', C)
    BY <1>5, RoadCounts
  <2>3. QED
    BY <1>4, <2>1, <2>2 DEF w
<1>7. UNCHANGED <<pc, formats, Sources, Formatting>>
  BY DEF TakeBind, client, Sources, Formatting, Promise, Op
<1>8. Count(<<Wish>>, Formatting) = 0 /\ Count(<<Wish>>, Sources) \in {0, 1}
  BY <1>1, CountOne, SourcesApart
<1>9. Count(es, Sources) = 0
  <2>1. e \notin Sources
    BY <1>2, SourcesApart
  <2>2. Count(<<e>>, Sources) = 0 /\ Count(<< >>, Sources) = 0
    BY <2>1, CountOne
  <2>3. QED
    BY <2>2, FormatsSaid
<1>10. CASE es \in {<<e>>, << >>}
  <2>1. Count(es, Formatting) = 0
    BY <1>2, <1>10, CountOne, SourcesApart
  <2>2. /\ Count(Road, Sources) = Count(ToClient, Sources) + Count(<<Wish>>, Sources) + Count(ToServer', Sources)
        /\ Count(Road', Sources) = Count(ToClient, Sources) + 0 + Count(ToServer', Sources)
        /\ Count(ToClient, Sources) \in Nat /\ Count(ToServer', Sources) \in Nat
    BY <1>6, <1>9
  <2>3. Count(Road', Formatting) = Count(Road, Formatting)
    BY <1>6, <1>8, <2>1
  <2>4. /\ Count(Road', Sources) \in {0, 1} /\ Count(Road', Sources) <= Count(Road, Sources)
    BY <1>8, <2>2 DEF FormatInv
  <2>5. pc = 1 \/ Count(Road', Sources) = 1 => pc = 1 \/ Count(Road, Sources) = 1
    BY <2>4 DEF FormatInv
  <2>6. pc = 1 => Count(Road', Sources) = 0
    BY <2>4 DEF FormatInv
  <2>7. QED
    BY <1>7, <2>3, <2>4, <2>5, <2>6 DEF FormatInv
<1>11. CASE es \notin {<<e>>, << >>}
  <2>1. es = Formatted /\ Count(es, Formatting) = Formats
    BY <1>11, FormatsSaid
  <2>2. Count(<<Wish>>, Sources) = 1
    BY <1>1, <1>4, <1>11, <2>1, CountOne, SourcesApart
  <2>3. Count(Road, Sources) = 1
    BY <1>6, <2>2 DEF FormatInv
  <2>4. pc # 1 /\ Count(Road, Formatting) = 0 /\ formats = 0
    BY <2>3 DEF FormatInv
  <2>5. Count(Road', Sources) = 0
    BY <1>6, <1>9, <2>2, <2>3
  <2>6. Count(Road', Formatting) = Formats
    <3>1. /\ 0 = Count(ToClient, Formatting) + 0 + Count(ToServer', Formatting)
          /\ Count(Road', Formatting) = Count(ToClient, Formatting) + Formats + Count(ToServer', Formatting)
          /\ Count(ToClient, Formatting) \in Nat /\ Count(ToServer', Formatting) \in Nat
      BY <1>6, <1>8, <2>1, <2>4
    <3>2. QED
      BY <3>1, WindowAssumption
  <2>7. QED
    BY <1>7, <2>4, <2>5, <2>6, WindowAssumption DEF FormatInv
<1>12. QED
  BY <1>10, <1>11

LEMMA FormatStep ==
  ASSUME Typed, Typed', Placed, FormatInv, [Next]_vars PROVE FormatInv'
<1> DEFINE ops == {"registry", "global", "bind", "format"}
<1>1. ops \cap Noise = {}
  BY DEF Noise
<1>2. GetRegistry \/ HandleGlobal \/ HandleFormat \/ TakeRegistry \/ TakeBind \/ Still(ops)
  BY <1>1, LoudOrQuiet, QuietStill, LoudStill
<1>3. CASE Still(ops) /\ ~HandleFormat
  <2>1. Sources \subseteq Op(ops) /\ Formatting \subseteq Op(ops)
    BY DEF Sources, Formatting, Promise, Op
  <2>2. Count(Road', Sources) = Count(Road, Sources) /\ Count(Road', Formatting) = Count(Road, Formatting)
    BY <1>3, <2>1, RoadStill DEF Alike
  <2>3. formats' = formats
    <3>1. HandlerStep => HandleFormat \/ formats' = formats
      BY DEF HandlerStep, HandleDone, SurfaceConfigure, ToplevelClose, WmBasePing, FrameDone,
         SurfaceEnters, HandleInput, Pt, PtAxis, PtSay, PtAxisStop, PtOther, PtFrame,
         Noted, Goes, client
    <3>2. QED
      BY <1>3, <3>1, Steps, Leaves DEF Compositors, client
  <2>4. pc' = 1 => pc = 1
    <3>1. pc \in Nat /\ 1 <= pc
      BY Table DEF Typed, Placed
    <3>2. /\ WindowAt \in {5, 6, 7}
          /\ pc' = pc \/ pc' = pc + 1 \/ (pc' = pc + 2 /\ pc > WindowAt + 2)
      BY Table, GoesOn DEF Typed
    <3>3. QED
      BY <3>1, <3>2
  <2>5. UNCHANGED <<Sources, Formatting>>
    BY DEF Sources, Formatting, Promise, Op
  <2>6. QED
    BY <2>2, <2>3, <2>4, <2>5 DEF FormatInv
<1>4. QED
  BY <1>2, <1>3, FormatAsked, FormatHeard, FormatCounted, FormatTold, FormatBound

LEMMA FormatHolds == Spec => []FormatInv
<1>1. InitScroll => FormatInv
  <2>1. SUFFICES ASSUME InitScroll PROVE FormatInv
    OBVIOUS
  <2>2. Road = << >>
    <3>1. << >> \in Seq(Messages) /\ << >> \o << >> = << >>
      BY EmptySeq, ConcatEmptySeq
    <3>2. QED
      BY <2>1, <3>1 DEF InitScroll, Init, ToServer, ToClient, Road
  <2>3. Count(Road, Sources) = 0 /\ Count(Road, Formatting) = 0
    BY <2>2, CountOne
  <2>4. pc = 1 /\ formats = 0 /\ Formats \in Nat
    BY <2>1, WindowAssumption DEF InitScroll, Init
  <2>5. QED
    BY <2>3, <2>4 DEF FormatInv
<1>2. FormatInv /\ Typed /\ Typed' /\ Placed /\ [Next]_vars => FormatInv'
  BY FormatStep
<1>3. QED
  BY <1>1, <1>2, TypedHolds, PlacedHolds, PTL DEF Spec

-----------------------------------------------------------------------------
(* A program has listeners only for what it has bound: it adds them when   *)
(* it has found bound everything it needs.                                 *)
HeardInv == heard \subseteq {i \in Interfaces : bound[i] > 0}

LEMMA HeardStep ==
  ASSUME Typed, Placed, GlobalsInv, HeardInv, [Next]_vars PROVE HeardInv'
<1>1. CASE Listen
  <2>1. Main[pc] = "listen" /\ bound' = bound
    BY <1>1 DEF Listen, At
  <2>2. pc > 3
    BY <2>1, Table DEF Typed
  <2>3. who \notin Clips
    BY <2>1 DEF Main, MainClip, Placed, Clips
  <2>4. {"xdg_wm_base", "wl_shm"} \subseteq Needs /\ Needs \subseteq Interfaces
    BY <2>3, OffersTyped DEF Needs, Interfaces, Typed, Clips
  <2>5. heard' \subseteq {"xdg_wm_base", "wl_shm"}
    BY <1>1 DEF Listen
  <2>6. \A i \in Needs : bound[i] > 0
    BY <2>2 DEF GlobalsInv
  <2>7. QED
    BY <2>1, <2>4, <2>5, <2>6 DEF HeardInv
<1>2. CASE ~Listen
  <2>1. MainStep => heard' = heard
    BY <1>2 DEF MainStep, GetRegistry, Roundtrip, Returned, CheckGlobals, MakePool, MakeWindow,
       CheckConfigured, AttachOnce, GetDevice, GetSeat, FirstDraw, Again, Goes
  <2>2. heard' = heard
    BY <2>1, Steps, Leaves DEF Compositors, client
  <2>3. QED
    BY <2>2, BoundStays DEF HeardInv
<1>3. QED
  BY <1>1, <1>2

(* What takes few values, and the line that is printed of them.            *)
PlainInv ==
  /\ configured \in BOOLEAN /\ running \in BOOLEAN /\ pinged \in BOOLEAN /\ late \in BOOLEAN
  /\ left \in {"", "missing", "memory", "never configured", "done", "ended"}
  /\ stage \in {"none", "role", "committed", "shown"} /\ serial \in 0..MaxConfigures
  /\ error \in {"", "version", "serial", "unconfigured", "left"}
  /\ line \in Lines

LEMMA LinePrinted == ASSUME LineInv', line \in Lines, [Next]_vars PROVE line' \in Lines
<1>1. axis' \in Axes /\ NoLine \in Lines
  BY DEF LineInv, GroupTyped, NoLine, Lines, Axes
<1>2. CASE PtAxis
  <2>1. line' = NoLine \/ line' = [axis |-> axis', stop |-> FALSE, discrete |-> FALSE, source |-> FALSE]
    BY <1>2 DEF PtAxis, Silent
  <2>2. \A a \in Axes : [axis |-> a, stop |-> FALSE, discrete |-> FALSE, source |-> FALSE] \in Lines
    BY DEF Lines
  <2>3. QED
    BY <1>1, <2>1, <2>2
<1>3. CASE PtFrame
  <2>1. axis' = axis
    BY <1>3 DEF PtFrame
  <2>2. Printed \in Lines
    BY <1>1, <2>1 DEF Printed, Lines
  <2>3. QED
    BY <1>1, <1>3, <2>2 DEF PtFrame
<1>4. CASE ~PtAxis /\ ~PtFrame
  <2>1. Apart \/ Pt \/ (\E g \in Gestures : Gesture(g)) \/ Clock => line' = NoLine
    BY <1>4 DEF Apart, Otherwise, Silent, Pt, PtSay, PtAxisStop, PtOther, Gesture, Clock
  <2>2. line' = NoLine \/ line' = line
    BY <2>1 DEF Next, Client, vars, scroll
  <2>3. QED
    BY <1>1, <2>2
<1>5. QED
  BY <1>2, <1>3, <1>4

LEMMA PlainStep ==
  ASSUME Typed, LineInv', PlainInv, [Next]_vars PROVE PlainInv'
<1>1. configured' \in BOOLEAN
  BY Keeps DEF PlainInv, SurfaceConfigure
<1>2. running' \in BOOLEAN
  <2>1. HandlerStep => running' = running \/ running' = (running /\ who # "wlcairo")
    BY DEF HandlerStep, HandleDone, HandleFormat, SurfaceConfigure, ToplevelClose, WmBasePing,
       FrameDone, SurfaceEnters, HandleInput, Pt, PtAxis, PtSay, PtAxisStop, PtOther,
       PtFrame, Noted, client
  <2>2. running' = running \/ running' = (running /\ who # "wlcairo")
    BY <2>1, Steps, Leaves DEF Compositors, client
  <2>3. QED
    BY <2>2 DEF PlainInv
<1>3. pinged' \in BOOLEAN
  <2>1. Compositors => pinged' = pinged \/ pinged' = TRUE \/ pinged' = FALSE
    BY DEF Compositors, Takes, TakeRegistry, TakeSync, TakeBind, TakeToplevel, TakeAck, TakeCommit,
       TakePong, TakeOther, Configure, Ping, ShowFrame, Input, AskToClose, Leave, server
  <2>2. pinged' = pinged \/ pinged' = TRUE \/ pinged' = FALSE
    BY <2>1, Steps, Leaves DEF Compositors, server
  <2>3. QED
    BY <2>2 DEF PlainInv
<1>4. late' \in BOOLEAN
  <2>1. late' = late \/ late' = TRUE
    BY DEF Next, Client, Apart, Pt, PtAxis, PtSay, PtAxisStop, PtOther, PtFrame, Noted, Gesture,
       Clock, vars
  <2>2. QED
    BY <2>1 DEF PlainInv
<1>5. left' \in {"", "missing", "memory", "never configured", "done", "ended"}
  <2>1. MainStep => left' \in {left, "missing", "memory", "never configured", "done", "ended"}
    BY DEF MainStep, GetRegistry, Roundtrip, Returned, CheckGlobals, Listen, MakePool, MakeWindow,
       CheckConfigured, AttachOnce, GetDevice, GetSeat, FirstDraw, Again, Goes
  <2>2. HandleEnd => left' \in {"", "ended"}
    BY DEF HandleEnd
  <2>3. QED
    BY <2>1, <2>2, Keeps DEF PlainInv
<1>6. stage' \in {"none", "role", "committed", "shown"}
  <2>1. TakeToplevel \/ TakeCommit => stage' \in {stage, "role", "committed", "shown"}
    BY DEF TakeToplevel, TakeCommit
  <2>2. QED
    BY <2>1, Keeps DEF PlainInv
<1>7. serial' \in 0..MaxConfigures
  <2>1. Configure => serial' = serial + 1 /\ serial < MaxConfigures
    BY DEF Configure
  <2>2. serial \in 0..MaxConfigures /\ MaxConfigures \in Nat
    BY WindowAssumption DEF PlainInv
  <2>3. Configure \/ serial' = serial
    BY Keeps
  <2>4. QED
    BY <2>1, <2>2, <2>3
<1>8. error' \in {"", "version", "serial", "unconfigured", "left"}
  <2>1. TakeBind \/ TakeAck \/ TakeCommit \/ Leave =>
          error' \in {error, "version", "serial", "unconfigured", "left"}
    BY DEF TakeBind, TakeAck, TakeCommit, Leave, Refuse
  <2>2. QED
    BY <2>1, Keeps DEF PlainInv
<1>9. line' \in Lines
  BY LinePrinted DEF PlainInv
<1>10. QED
  BY <1>1, <1>2, <1>3, <1>4, <1>5, <1>6, <1>7, <1>8, <1>9 DEF PlainInv

(* Every variable keeps to its values, for any compositor, any number of   *)
(* formats, configures and gestures: `main` never runs past its end, a     *)
(* listener is there only for what is bound, no format is told twice       *)
(* (toolchain/wlprobe.c:80-83) and no serial acknowledged that was never   *)
(* sent.                                                                   *)
THEOREM TypeCorrect == Spec => []TypeOK
<1> DEFINE Few == HeardInv /\ PlainInv
           Whole == Typed /\ Placed /\ SerialInv /\ RoundInv /\ LineInv /\ FormatInv /\ Few
<1>1. InitScroll => Few
  <2>1. SUFFICES ASSUME InitScroll PROVE Few
    OBVIOUS
  <2>2. HeardInv
    BY <2>1 DEF InitScroll, Init, HeardInv
  <2>3. line \in Lines
    BY <2>1 DEF InitScroll, NoLine, Lines, Axes
  <2>4. serial \in 0..MaxConfigures
    <3>1. serial = 0 /\ MaxConfigures \in Nat
      BY <2>1, WindowAssumption DEF InitScroll, Init
    <3>2. QED
      BY <3>1
  <2>5. configured = FALSE /\ running = TRUE /\ pinged = FALSE /\ late = FALSE
    BY <2>1 DEF InitScroll, Init
  <2>6. left = "" /\ stage = "none" /\ error = ""
    BY <2>1 DEF InitScroll, Init
  <2>7. QED
    BY <2>2, <2>3, <2>4, <2>5, <2>6 DEF PlainInv
<1>2. Few /\ Typed /\ Placed /\ GlobalsInv /\ LineInv' /\ [Next]_vars => Few'
  BY HeardStep, PlainStep
<1>3. Whole => TypeOK
  <2>1. SUFFICES ASSUME Whole PROVE TypeOK
    OBVIOUS
  <2>2. /\ buffered \in Seq(Requests) /\ requests \in Seq(Requests)
        /\ events \in Seq(Events) /\ queue \in Seq(Events)
    <3>1. Asked \subseteq Requests /\ Sent \subseteq Events
      BY DEF Asked, Sent
    <3>2. QED
      BY <2>1, <3>1, SeqMonotonic DEF Typed, WireTyped
  <2>3. formats \in 0..Formats
    <3>1. Road \in Seq(Messages)
      BY <2>1, WiresTyped, ConcatProperties DEF Road
    <3>2. Count(Road, Formatting) \in Nat
      BY <3>1, PlacesAreFinite
    <3>3. QED
      BY <2>1, <3>2, WindowAssumption DEF FormatInv
  <2>4. acked \in 0..serial
    BY <2>1 DEF Typed, StateTyped, SerialInv
  <2>5. /\ have \subseteq {"axis", "discrete", "source", "stop"} /\ axis \in Axes
        /\ groups \in Nat /\ due \in Nat
        /\ said \subseteq PointerEvents /\ of \subseteq PointerEvents
    BY <2>1 DEF LineInv, GroupTyped, Marks
  <2>6. /\ pc \in 1..Len(Main) /\ waits \in {"no", "waiting", "over", "lost"}
        /\ heard \subseteq {i \in Interfaces : bound[i] > 0}
    BY <2>1 DEF Placed, RoundInv, HeardInv
  <2>7. /\ who \in Programs /\ bound \in [Interfaces -> Nat] /\ offer \in Offers
        /\ prompt \in BOOLEAN /\ frames \in Nat
    BY <2>1 DEF Typed, StateTyped
  <2>8. PlainInv
    BY <2>1
  <2>9. QED
    BY <2>2, <2>3, <2>4, <2>5, <2>6, <2>7, <2>8 DEF TypeOK, PlainInv
<1>4. QED
  BY <1>1, <1>2, <1>3, TypedHolds, PlacedHolds, SureHolds, CauseHolds, LineHolds, FormatHolds,
     PTL DEF Spec
=============================================================================
