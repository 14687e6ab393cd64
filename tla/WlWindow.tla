------------------------------ MODULE WlWindow ------------------------------
(***************************************************************************)
(* How the four clients of toolchain/ that are written against libwayland  *)
(* -- wlcairo, wlprobe, wlclip and wlscroll -- get a window: they ask what *)
(* there is, bind it, give a surface a role, commit it with nothing on it, *)
(* wait to be configured, and only then show a buffer.                     *)
(*                                                                         *)
(* Each is one thread that goes through its `main` and handles events only *)
(* inside a roundtrip or its loop.  What it sends is buffered until then;  *)
(* what it is sent is read in pieces of any length, and a piece is handled *)
(* to its end before the roundtrip that read it returns.  A roundtrip that *)
(* fails is not looked at: `main` goes on, and what it waited for is not   *)
(* there.  Only the loop ends when a dispatch fails.  The compositor is    *)
(* external: it does whatever wl_registry and xdg_wm_base allow it.        *)
(***************************************************************************)
EXTENDS Integers, Sequences, FiniteSets

CONSTANTS
  Programs,      \* which of them are started
  Offers,        \* what there may be: the version of each interface, or 0
  Formats,       \* how many formats a wl_shm says it has
  MaxConfigures, \* bound: how often a window is configured
  MaxUnread      \* bound: how many events wait when one more is sent unasked

Interfaces ==
  {"wl_compositor", "wl_shm", "wl_output", "wl_seat", "xdg_wm_base",
   "zxdg_decoration_manager_v1", "wl_data_device_manager",
   "zwp_primary_selection_device_manager_v1"}

ASSUME WindowAssumption ==
  /\ Programs \subseteq {"wlcairo", "wlprobe", "wlclip", "wlclip_primary", "wlscroll"}
  /\ Offers \subseteq [Interfaces -> Nat]
  /\ Formats \in Nat /\ MaxConfigures \in Nat /\ MaxUnread \in Nat

VARIABLES
  who,         \* the program, as it was started
  pc,          \* how far its `main` is
  waits,       \* in a dispatch: "no", "waiting" or, what it waits for come, "over";
               \* "lost" once one has failed, as every other then does
  bound,       \* the version it bound each interface at, 0 for none
  heard,       \* the globals it has listeners for
  configured, running, formats,
  left,        \* why it has gone, "" while it has not
  buffered,    \* requests made and not yet written
  requests,    \* on their way to the compositor
  events,      \* on their way to the client
  queue,       \* events read and not yet handled
  offer,       \* what this compositor has
  prompt,      \* whether it answers in one piece all it was sent, and configures
               \* a window before it answers a later sync
  stage,       \* the surface: "none", has a "role", is "committed", is "shown"
  serial,      \* of the configure it sent last
  acked,       \* of the one acknowledged last
  frames,      \* frame callbacks it owes
  pinged,      \* whether it waits for a pong
  error        \* what it threw the client out for, "" if it has not

client == <<who, pc, waits, bound, heard, configured, running, formats, left>>
wire == <<buffered, requests, events, queue>>
server == <<offer, prompt, stage, serial, acked, frames, pinged, error>>
windowVars == <<client, wire, server>>

-----------------------------------------------------------------------------
(* The version each program binds what is announced at, 0 if it does not.  *)
GlobalCairo(i, v) == IF i \in {"wl_compositor", "wl_shm", "xdg_wm_base"} THEN 1 ELSE 0
GlobalProbe(i, v) ==
  CASE i \in {"wl_compositor", "wl_shm", "xdg_wm_base", "zxdg_decoration_manager_v1"} -> 1
    [] i = "wl_output" -> 2
    [] i = "wl_seat" -> 4
    [] OTHER -> 0
GlobalClip(i, v) ==
  IF i \in {"wl_compositor", "wl_shm", "xdg_wm_base", "wl_seat", "wl_data_device_manager",
            "zwp_primary_selection_device_manager_v1"} THEN 1 ELSE 0
GlobalScrollFive(i, v) ==
  CASE i \in {"wl_compositor", "wl_shm", "xdg_wm_base"} -> 1 [] i = "wl_seat" -> 5 [] OTHER -> 0
GlobalScroll(i, v) ==
  CASE i \in {"wl_compositor", "wl_shm", "xdg_wm_base"} -> 1
    [] i = "wl_seat" -> IF v < 5 THEN v ELSE 5
    [] OTHER -> 0
Clips == {"wlclip", "wlclip_primary"}
Global(i, v) == CASE who = "wlcairo" -> GlobalCairo(i, v) [] who = "wlprobe" -> GlobalProbe(i, v)
                  [] who \in Clips -> GlobalClip(i, v) [] who = "wlscroll" -> GlobalScroll(i, v)

(* What each cannot do without. *)
Needs == CASE who \in {"wlcairo", "wlprobe"} -> {"wl_compositor", "wl_shm", "xdg_wm_base"}
           [] who = "wlclip" -> {"wl_compositor", "wl_shm", "xdg_wm_base", "wl_seat",
                                 "wl_data_device_manager"}
           [] who = "wlclip_primary" -> {"wl_compositor", "wl_shm", "xdg_wm_base", "wl_seat",
                                           "wl_data_device_manager",
                                           "zwp_primary_selection_device_manager_v1"}
           [] who = "wlscroll" -> {"wl_compositor", "wl_shm", "xdg_wm_base", "wl_seat"}

(* The four `main`s, a step for each thing done. *)
MainCairo == <<"registry", "roundtrip", "globals", "listen", "pool", "window", "roundtrip",
               "configured", "draw", "loop">>
MainProbe == <<"registry", "roundtrip", "globals", "listen", "roundtrip", "pool", "window",
               "roundtrip", "configured", "seat", "roundtrip", "draw", "loop">>
MainClip == <<"registry", "roundtrip", "globals", "pool", "window", "roundtrip", "configured",
              "attach", "roundtrip", "device", "roundtrip", "loop">>
MainScroll == <<"registry", "roundtrip", "globals", "listen", "pool", "window", "roundtrip",
                "configured", "seat", "roundtrip", "draw", "loop">>
Main == CASE who = "wlcairo" -> MainCairo [] who = "wlprobe" -> MainProbe
          [] who \in Clips -> MainClip [] who = "wlscroll" -> MainScroll

At(step) == left = "" /\ Main[pc] = step

Init ==
  /\ who \in Programs /\ pc = 1 /\ waits = "no"
  /\ bound = [i \in Interfaces |-> 0] /\ heard = {}
  /\ configured = FALSE /\ running = TRUE /\ formats = 0 /\ left = ""
  /\ buffered = << >> /\ requests = << >> /\ events = << >> /\ queue = << >>
  /\ offer \in Offers /\ prompt \in BOOLEAN
  /\ stage = "none" /\ serial = 0 /\ acked = 0 /\ frames = 0
  /\ pinged = FALSE /\ error = ""

-----------------------------------------------------------------------------
(* `main` *)
Ask(rs) == buffered' = buffered \o rs
Goes(why) == left' = why /\ UNCHANGED <<who, pc, waits, bound, heard, configured, running, formats>>
Past == pc' = pc + 1

GetRegistry ==
  /\ At("registry")
  /\ Past /\ Ask(<<[op |-> "registry"]>>)
  /\ UNCHANGED <<who, waits, bound, heard, configured, running, formats, left, requests, events,
                 queue, server>>

(* wl_display_roundtrip: a sync, and events until it is answered, or until *)
(* the connection is lost; on a lost connection it returns at once.        *)
Roundtrip ==
  /\ At("roundtrip") /\ waits = "no"
  /\ waits' = "waiting" /\ Ask(<<[op |-> "sync"]>>)
  /\ UNCHANGED <<who, pc, bound, heard, configured, running, formats, left, requests, events,
                 queue, server>>
Returned ==
  /\ At("roundtrip")
  /\ \/ waits = "over" /\ queue = << >> /\ waits' = "no"
     \/ waits = "lost" /\ UNCHANGED waits
  /\ Past
  /\ UNCHANGED <<who, bound, heard, configured, running, formats, left, wire, server>>

CheckGlobalsPrints ==
  /\ At("globals")
  /\ Past
  /\ UNCHANGED <<who, waits, bound, heard, configured, running, formats, left, wire, server>>
CheckGlobals ==
  /\ At("globals")
  /\ IF \A i \in Needs : bound[i] > 0
       THEN Past /\ UNCHANGED <<who, waits, bound, heard, configured, running, formats, left>>
       ELSE Goes("missing")
  /\ UNCHANGED <<wire, server>>

(* xdg_wm_base_add_listener, and wlprobe's wl_shm_add_listener.            *)
ListenShm ==
  /\ At("listen")
  /\ heard' = IF who = "wlprobe" THEN {"wl_shm"} ELSE {}
  /\ Past
  /\ UNCHANGED <<who, waits, bound, configured, running, formats, left, wire, server>>
Listen ==
  /\ At("listen")
  /\ heard' = {"xdg_wm_base"} \cup IF who = "wlprobe" THEN {"wl_shm"} ELSE {}
  /\ Past
  /\ UNCHANGED <<who, waits, bound, configured, running, formats, left, wire, server>>

(* Memory shared with the compositor and the buffers in it, or none.       *)
MakePool ==
  /\ At("pool")
  /\ \/ /\ Past /\ Ask(<<[op |-> "pool"]>>)
        /\ UNCHANGED <<who, waits, bound, heard, configured, running, formats, left>>
     \/ Goes("memory") /\ UNCHANGED buffered
  /\ UNCHANGED <<requests, events, queue, server>>

(* A surface with a role, and nothing shown until it is configured.        *)
Shows(b, f) == [op |-> "commit", buffer |-> b, frame |-> f]
Decorated == who = "wlprobe" /\ bound["zxdg_decoration_manager_v1"] > 0
MakeWindowUncommitted ==
  /\ At("window")
  /\ Past
  /\ Ask(<<[op |-> "toplevel"]>> \o IF Decorated THEN <<[op |-> "decoration"]>> ELSE << >>)
  /\ UNCHANGED <<who, waits, bound, heard, configured, running, formats, left, requests, events,
                 queue, server>>
MakeWindow ==
  /\ At("window")
  /\ Past
  /\ Ask(<<[op |-> "toplevel"]>> \o (IF Decorated THEN <<[op |-> "decoration"]>> ELSE << >>)
                                 \o <<Shows(FALSE, FALSE)>>)
  /\ UNCHANGED <<who, waits, bound, heard, configured, running, formats, left, requests, events,
                 queue, server>>

CheckConfigured ==
  /\ At("configured")
  /\ IF configured
       THEN Past /\ UNCHANGED <<who, waits, bound, heard, configured, running, formats, left>>
       ELSE Goes("never configured")
  /\ UNCHANGED <<wire, server>>

(* wlclip's one frame, and the device its selection goes through.          *)
AttachOnce ==
  /\ At("attach")
  /\ Past /\ Ask(<<Shows(TRUE, FALSE)>>)
  /\ UNCHANGED <<who, waits, bound, heard, configured, running, formats, left, requests, events,
                 queue, server>>
GetDevice ==
  /\ At("device")
  /\ Past /\ Ask(<<[op |-> "device"]>>)
  /\ UNCHANGED <<who, waits, bound, heard, configured, running, formats, left, requests, events,
                 queue, server>>

(* wlprobe's keyboard and pointer, if there is a seat; wlscroll's pointer. *)
GetSeat ==
  /\ At("seat")
  /\ IF bound["wl_seat"] > 0
       THEN Past /\ Ask(IF who = "wlprobe" THEN <<[op |-> "keyboard"], [op |-> "pointer"]>>
                                           ELSE <<[op |-> "pointer"]>>)
       ELSE pc' = pc + 2 /\ UNCHANGED buffered
  /\ UNCHANGED <<who, waits, bound, heard, configured, running, formats, left, requests, events,
                 queue, server>>

(* wlscroll's draw always commits; the two that have two buffers draw only *)
(* if one is free, which WlBuffers tells.                                  *)
DrawSilent == Ask(<<Shows(TRUE, FALSE)>>)
Draw == \/ Ask(<<Shows(TRUE, TRUE)>>)
        \/ who # "wlscroll" /\ UNCHANGED buffered
FirstDraw ==
  /\ At("draw")
  /\ Past /\ Draw
  /\ UNCHANGED <<who, waits, bound, heard, configured, running, formats, left, requests, events,
                 queue, server>>

(* The loop: round again unless there is a reason to stop, which only      *)
(* wlcairo and wlscroll ever have, or the connection was lost before it.   *)
Again(stop) ==
  /\ At("loop")
  /\ waits = "lost" \/ (waits # "waiting" /\ queue = << >>)
  /\ \/ stop /\ Goes("done")
     \/ ~stop /\ waits = "lost" /\ Goes("ended")
     \/ ~stop /\ waits # "lost" /\ waits' = "waiting"
        /\ UNCHANGED <<who, pc, bound, heard, configured, running, formats, left>>
  /\ UNCHANGED <<wire, server>>

-----------------------------------------------------------------------------
(* A compositor serves until it has thrown the client out or has gone.     *)
Serving == error = ""

(* libwayland: what was asked is written, then what has come is read, and  *)
(* what was read is handled one event after the other -- unless the last   *)
(* of it is an error, which is looked at first: the others then stay where *)
(* they are.  The end of the stream is read by itself.                     *)
Blocked == left = "" /\ waits = "waiting" /\ queue = << >>
Flush ==
  /\ Blocked /\ buffered # << >>
  /\ requests' = requests \o buffered /\ buffered' = << >>
  /\ UNCHANGED <<client, events, queue, server>>
Read ==
  /\ Blocked /\ buffered = << >>
  /\ \E k \in 1..Len(events) :
       /\ prompt /\ Serving => requests = << >> /\ k = Len(events)
       /\ error = "left" /\ events[k].op = "end" => k = 1
       /\ queue' = SubSeq(events, 1, k)
       /\ events' = SubSeq(events, k + 1, Len(events))
  /\ waits' = IF Main[pc] = "loop" THEN "over" ELSE waits
  /\ UNCHANGED <<who, pc, bound, heard, configured, running, formats, left, buffered, requests,
                 server>>

Dispatching == left = "" /\ waits # "lost" /\ queue # << >>
Failed == queue[Len(queue)].op = "end"
Event(op) == Dispatching /\ ~Failed /\ Head(queue).op = op
Handled == queue' = Tail(queue)

HandleGlobal ==
  /\ Event("global")
  /\ Handled
  /\ LET g == Head(queue)
         v == Global(g.interface, g.version)
     IN IF v = 0 THEN UNCHANGED <<bound, buffered>>
        ELSE /\ bound' = [bound EXCEPT ![g.interface] = v]
             /\ Ask(<<[op |-> "bind", interface |-> g.interface, version |-> v]>>)
  /\ UNCHANGED <<who, pc, waits, heard, configured, running, formats, left, requests, events,
                 server>>

HandleDone ==
  /\ Event("done")
  /\ Handled
  /\ waits' = "over"
  /\ UNCHANGED <<who, pc, bound, heard, configured, running, formats, left, buffered, requests,
                 events, server>>

(* shm_format: heard only by a listener that is there when it is handled.  *)
HandleFormat ==
  /\ Event("format")
  /\ Handled
  /\ formats' = IF "wl_shm" \in heard THEN formats + 1 ELSE formats
  /\ UNCHANGED <<who, pc, waits, bound, heard, configured, running, left, buffered, requests,
                 events, server>>

(* surface_configure: acknowledged as it is heard. *)
SurfaceConfigureUnacked ==
  /\ Event("configure")
  /\ Handled
  /\ configured' = TRUE
  /\ UNCHANGED <<who, pc, waits, bound, heard, running, formats, left, buffered, requests, events,
                 server>>
SurfaceConfigure ==
  /\ Event("configure")
  /\ Handled
  /\ Ask(<<[op |-> "ack", serial |-> Head(queue).serial]>>)
  /\ configured' = TRUE
  /\ UNCHANGED <<who, pc, waits, bound, heard, running, formats, left, requests, events, server>>

(* toplevel_close: only wlcairo goes when it is asked to. *)
ToplevelClose ==
  /\ Event("close")
  /\ Handled
  /\ running' = (running /\ who # "wlcairo")
  /\ UNCHANGED <<who, pc, waits, bound, heard, configured, formats, left, buffered, requests,
                 events, server>>

(* wm_base_ping: answered by whoever listens. *)
WmBasePing ==
  /\ Event("ping")
  /\ Handled
  /\ IF "xdg_wm_base" \in heard THEN Ask(<<[op |-> "pong"]>>) ELSE UNCHANGED buffered
  /\ UNCHANGED <<client, requests, events, server>>

(* frame_done: the callback is used up, and the next frame drawn.          *)
FrameDone ==
  /\ Event("frame")
  /\ Handled
  /\ Draw
  /\ UNCHANGED <<client, requests, events, server>>

(* surface_enter, surface_leave; kb_keymap to pt_axis: wlprobe says what it *)
(* hears, and no more.                                                     *)
SurfaceEnters ==
  /\ Event("output")
  /\ Handled
  /\ UNCHANGED <<client, buffered, requests, events, server>>
HandleInput ==
  /\ Event("input")
  /\ Handled
  /\ UNCHANGED <<client, buffered, requests, events, server>>

(* An error, or the end of the connection: the dispatch fails, and every   *)
(* one after it.  The loop ends with it; a roundtrip only returns.         *)
HandleEnd ==
  /\ Dispatching /\ Failed
  /\ waits' = "lost"
  /\ left' = IF Main[pc] = "loop" THEN "ended" ELSE ""
  /\ UNCHANGED <<who, pc, bound, heard, configured, running, formats, wire, server>>

ClientStep(stop) ==
  \/ GetRegistry \/ Roundtrip \/ Returned \/ CheckGlobals \/ Listen \/ MakePool \/ MakeWindow
  \/ CheckConfigured \/ AttachOnce \/ GetDevice \/ GetSeat \/ FirstDraw \/ Again(stop)
  \/ Flush \/ Read
  \/ HandleGlobal \/ HandleDone \/ HandleFormat \/ SurfaceConfigure \/ ToplevelClose
  \/ WmBasePing \/ FrameDone \/ SurfaceEnters \/ HandleInput \/ HandleEnd

-----------------------------------------------------------------------------
(* The compositor takes requests in the order they were made, until one    *)
(* breaks a rule.                                                          *)
Request(op) == Serving /\ requests # << >> /\ Head(requests).op = op
Taken == requests' = Tail(requests)
Say(es) == events' = events \o es
Refuse(what) == error' = what /\ Say(<<[op |-> "end"]>>)
Announce(i) ==
  IF offer[i] > 0 THEN <<[op |-> "global", interface |-> i, version |-> offer[i]]>> ELSE << >>

TakeRegistry ==
  /\ Request("registry") /\ Taken
  /\ Say(Announce("wl_compositor") \o Announce("wl_shm") \o Announce("wl_output")
         \o Announce("wl_seat") \o Announce("xdg_wm_base")
         \o Announce("zxdg_decoration_manager_v1") \o Announce("wl_data_device_manager")
         \o Announce("zwp_primary_selection_device_manager_v1"))
  /\ UNCHANGED <<client, buffered, queue, server>>

TakeSync ==
  /\ Request("sync") /\ Taken
  /\ prompt /\ stage = "committed" => serial > 0
  /\ Say(<<[op |-> "done"]>>)
  /\ UNCHANGED <<client, buffered, queue, server>>

TakeBind ==
  /\ Request("bind") /\ Taken
  /\ LET r == Head(requests)
     IN IF r.version > offer[r.interface] THEN Refuse("version")
        ELSE /\ Say(IF r.interface = "wl_shm" THEN [n \in 1..Formats |-> [op |-> "format"]]
                                              ELSE << >>)
             /\ UNCHANGED error
  /\ UNCHANGED <<client, buffered, queue, offer, prompt, stage, serial, acked, frames,
                 pinged>>

TakeToplevel ==
  /\ Request("toplevel") /\ Taken
  /\ stage' = "role"
  /\ UNCHANGED <<client, buffered, queue, events, offer, prompt, serial, acked, frames,
                 pinged, error>>

(* A serial it never sent, or one older than it has been told, is refused. *)
TakeAck ==
  /\ Request("ack") /\ Taken
  /\ LET s == Head(requests).serial
     IN IF s \in (acked + 1)..serial THEN acked' = s /\ UNCHANGED <<events, error>>
                                     ELSE Refuse("serial") /\ UNCHANGED acked
  /\ UNCHANGED <<client, buffered, queue, offer, prompt, stage, serial, frames, pinged>>

TakeCommit ==
  /\ Request("commit") /\ Taken
  /\ LET r == Head(requests)
     IN IF r.buffer /\ acked = 0
          THEN Refuse("unconfigured") /\ UNCHANGED <<stage, frames>>
          ELSE /\ stage' = IF r.buffer THEN "shown" ELSE "committed"
               /\ frames' = frames + IF r.frame THEN 1 ELSE 0
               /\ UNCHANGED <<events, error>>
  /\ UNCHANGED <<client, buffered, queue, offer, prompt, serial, acked, pinged>>

TakePong ==
  /\ Request("pong") /\ Taken
  /\ pinged' = FALSE
  /\ UNCHANGED <<client, buffered, queue, events, offer, prompt, stage, serial, acked,
                 frames, error>>

(* Those it has nothing to say to.                                         *)
TakeOther ==
  /\ \E op \in {"pool", "decoration", "device", "keyboard", "pointer"} : Request(op)
  /\ Taken
  /\ UNCHANGED <<client, buffered, queue, events, server>>

Unasked == Serving /\ Len(events) <= MaxUnread

(* A window may be configured as soon as it has a role, and again whenever *)
(* its size or its state changes.                                          *)
Configure ==
  /\ Serving /\ (serial > 0 => Unasked) /\ stage # "none" /\ serial < MaxConfigures
  /\ serial' = serial + 1
  /\ Say(<<[op |-> "configure", serial |-> serial']>>)
  /\ UNCHANGED <<client, buffered, requests, queue, offer, prompt, stage, acked, frames,
                 pinged, error>>

(* A client is pinged once it has a window to be pinged about.             *)
Ping ==
  /\ Unasked /\ stage # "none" /\ ~pinged
  /\ pinged' = TRUE
  /\ Say(<<[op |-> "ping"]>>)
  /\ UNCHANGED <<client, buffered, requests, queue, offer, prompt, stage, serial, acked,
                 frames, error>>

ShowFrame ==
  /\ Serving /\ frames > 0
  /\ frames' = frames - 1
  /\ Say(<<[op |-> "frame"]>>)
  /\ UNCHANGED <<client, buffered, requests, queue, offer, prompt, stage, serial, acked,
                 pinged, error>>

(* Somebody types or points at wlprobe, or moves it to another screen.     *)
Input ==
  /\ Unasked /\ who = "wlprobe" /\ stage = "shown"
  /\ \E op \in {"input", "output"} :
       /\ bound[IF op = "input" THEN "wl_seat" ELSE "wl_output"] > 0
       /\ ~\E n \in 1..Len(events) : events[n].op = op
       /\ Say(<<[op |-> op]>>)
  /\ UNCHANGED <<client, buffered, requests, queue, server>>

(* Somebody clicks the close box, or closes the session.                   *)
AskToClose ==
  /\ Unasked /\ acked > 0
  /\ ~\E n \in 1..Len(events) : events[n].op = "close"
  /\ Say(<<[op |-> "close"]>>)
  /\ UNCHANGED <<client, buffered, requests, queue, server>>
Leave ==
  /\ Unasked
  /\ Refuse("left")
  /\ UNCHANGED <<client, buffered, requests, queue, offer, prompt, stage, serial, acked,
                 frames, pinged>>

Takes ==
  \/ TakeRegistry \/ TakeSync \/ TakeBind \/ TakeToplevel \/ TakeAck \/ TakeCommit \/ TakePong
  \/ TakeOther
Compositor == Takes \/ Configure \/ Ping \/ ShowFrame \/ Input \/ AskToClose
              \/ Leave

-----------------------------------------------------------------------------
(* No program does what a compositor has to throw it out for -- a version  *)
(* that is not offered, a buffer before the window is configured, an       *)
(* acknowledgement of what was never sent -- however configures, pieces    *)
(* and answers fall.  wlprobe asks for a seat and an output by number, so  *)
(* for it they have to be offered.                                         *)
ByNumber == who = "wlprobe" => offer["wl_seat"] \notin 1..3 /\ offer["wl_output"] # 1
NeverRefused == ByNumber => error \in {"", "left"}

(* A program gives up before it has a window only for want of memory or of *)
(* something the compositor does not have, if the compositor configures a  *)
(* window before it answers a later sync: one roundtrip is all it waits.   *)
(* Or the roundtrip failed, which no program looks at: a compositor that   *)
(* went, or threw it out, is then told of as one that lacks what it had.   *)
(* Nothing else makes one fail.                                            *)
GivesUpForCause ==
  /\ left = "missing" => waits = "lost" \/ \E i \in Needs : offer[i] = 0
  /\ left = "never configured" => waits = "lost" \/ ~prompt
  /\ waits = "lost" => ~Serving

(* A ping is answered as long as the program runs.                         *)
AnswersPings == pinged /\ who \notin Clips ~> ~pinged \/ left # "" \/ ~Serving
=============================================================================
