------------------------------ MODULE WlScroll ------------------------------
(***************************************************************************)
(* toolchain/wlscroll.c once it has a window: it prints one line for each  *)
(* group of pointer events that scrolls, and goes when it has printed      *)
(* GROUPS of them or its time is up.  A group is everything before a       *)
(* wl_pointer.frame; below version 5 there is no frame, and each axis      *)
(* event is a group.  The other three programs are WlWindow's alone.       *)
(***************************************************************************)
EXTENDS WlWindow

CONSTANTS
  GROUPS,   \* how many groups it stays for
  Gestures  \* what a pointer may do between two frames: sequences of events

ASSUME ScrollAssumption == GROUPS \in Nat

VARIABLES
  have,    \* `have_axis`, `have_discrete`, `have_source`, `have_stop`
  axis,    \* `g_axis`
  groups,  \* `groups`
  late,    \* whether the deadline has passed
  said,    \* auxiliary: the events of the group that has no frame yet
  due,     \* auxiliary: how many groups have scrolled or stopped
  of,      \* auxiliary: the events of the group a line has just been printed for
  line     \* that line, if the last step printed one

scroll == <<have, axis, groups, said, due, of, line>>
vars == <<windowVars, scroll, late>>

Axes == {"vertical", "horizontal"}
Lines == [axis : Axes, stop : BOOLEAN, discrete : BOOLEAN, source : BOOLEAN]
NoLine == [axis |-> "vertical", stop |-> TRUE, discrete |-> TRUE, source |-> TRUE]
PointerEvents ==
  [op : {"axis", "discrete", "stop"}, axis : Axes] \cup [op : {"source", "motion"}]

ASSUME GestureAssumption == \A g \in Gestures : g \in Seq(PointerEvents)

InitScroll ==
  /\ Init
  /\ have = {} /\ axis = "vertical" /\ groups = 0 /\ late = FALSE
  /\ said = {} /\ due = 0 /\ of = {} /\ line = NoLine

Framed == bound["wl_seat"] >= 5
Scrolls(g) == \E e \in g : e.op \in {"axis", "stop"}

(* Handled, and nothing asked for or changed but what the group has said.  *)
Noted == Handled /\ UNCHANGED <<client, buffered, requests, events, server, late>>
Silent == of' = {} /\ line' = NoLine
Otherwise == Silent /\ UNCHANGED <<have, axis, groups, said, due>>
Apart == Otherwise /\ UNCHANGED late

(* pt_axis: the whole group, for a client that hears no frames.            *)
PtAxis ==
  /\ Event("axis")
  /\ Noted
  /\ axis' = Head(queue).axis
  /\ IF Framed
       THEN /\ have' = have \cup {"axis"}
            /\ said' = said \cup {Head(queue)}
            /\ Silent /\ UNCHANGED <<groups, due>>
       ELSE /\ groups' = groups + 1 /\ due' = due + 1
            /\ line' = [axis |-> axis', stop |-> FALSE, discrete |-> FALSE, source |-> FALSE]
            /\ of' = {Head(queue)}
            /\ have' = have \ {"axis"}
            /\ UNCHANGED said

(* pt_axis_source, pt_axis_discrete; pt_axis_stop says of which axis.      *)
PtSay ==
  /\ \E op \in {"source", "discrete"} : Event(op)
  /\ Noted
  /\ have' = have \cup {Head(queue).op}
  /\ said' = said \cup {Head(queue)}
  /\ Silent /\ UNCHANGED <<axis, groups, due>>
PtAxisStop ==
  /\ Event("stop")
  /\ Noted
  /\ have' = have \cup {"stop"} /\ axis' = Head(queue).axis
  /\ said' = said \cup {Head(queue)}
  /\ Silent /\ UNCHANGED <<groups, due>>

(* pt_enter, pt_leave, pt_motion, pt_button, and what has no handler's     *)
(* effect.                                                                 *)
PtOther ==
  /\ Event("motion")
  /\ Noted
  /\ said' = said \cup {Head(queue)}
  /\ Silent /\ UNCHANGED <<have, axis, groups, due>>

(* pt_frame: a group that neither scrolled nor stopped is not worth a line.*)
Printed ==
  IF "stop" \in have
    THEN [axis |-> axis, stop |-> TRUE, discrete |-> FALSE, source |-> FALSE]
    ELSE [axis |-> axis, stop |-> FALSE, discrete |-> "discrete" \in have,
          source |-> "source" \in have]
FrameEnds ==
  /\ said' = {}
  /\ IF Scrolls(said) THEN due' = due + 1 /\ of' = said ELSE of' = {} /\ UNCHANGED due
PtFrameKeeps ==
  /\ Event("pointer frame")
  /\ Noted
  /\ FrameEnds
  /\ IF have \cap {"axis", "stop"} = {}
       THEN line' = NoLine /\ UNCHANGED <<have, groups>>
       ELSE line' = Printed /\ groups' = groups + 1 /\ have' = {}
  /\ UNCHANGED axis
PtFrame ==
  /\ Event("pointer frame")
  /\ Noted
  /\ FrameEnds
  /\ IF have \cap {"axis", "stop"} = {}
       THEN have' = have \ {"source", "discrete"} /\ line' = NoLine /\ UNCHANGED groups
       ELSE line' = Printed /\ groups' = groups + 1 /\ have' = {}
  /\ UNCHANGED axis

Pt == PtAxis \/ PtSay \/ PtAxisStop \/ PtOther \/ PtFrame

(* Why each program leaves its loop.                                       *)
Stop == CASE who = "wlcairo" -> ~running
          [] who = "wlscroll" -> groups >= GROUPS \/ late
          [] OTHER -> FALSE

Clock ==
  /\ who = "wlscroll" /\ At("loop") /\ ~late
  /\ late' = TRUE
  /\ Otherwise /\ UNCHANGED windowVars

(* Somebody moves the pointer over the window or turns the wheel.  Bound:  *)
(* one gesture is heard before the next is made.                           *)
PointerOp == {"axis", "discrete", "stop", "source", "motion", "pointer frame"}
Gesture(g) ==
  /\ Unasked /\ who = "wlscroll" /\ stage = "shown"
  /\ events = << >> /\ \A n \in 1..Len(queue) : queue[n].op \notin PointerOp
  /\ Framed \/ \A n \in 1..Len(g) : g[n].op \in {"axis", "motion"}
  /\ Say(IF Framed THEN g \o <<[op |-> "pointer frame"]>> ELSE g)
  /\ UNCHANGED <<client, buffered, requests, queue, server, late>>
  /\ Otherwise

Client == (ClientStep(Stop) /\ Apart) \/ Pt
Next ==
  \/ Client
  \/ Compositor /\ Apart
  \/ \E g \in Gestures : Gesture(g)
  \/ Clock

(* The client runs, the compositor takes what it is sent, configures a     *)
(* window that has none, and shows the frames of a window that is on a     *)
(* screen; time passes.  Nobody has to scroll, ping, close or leave.       *)
Fairness ==
  /\ WF_vars(Client)
  /\ WF_vars(Takes /\ Apart)
  /\ WF_vars(serial = 0 /\ Configure /\ Apart)
  /\ WF_vars(ShowFrame /\ Apart)
  /\ WF_vars(Clock)

Spec == InitScroll /\ [][Next]_vars
FairSpec == Spec /\ Fairness

-----------------------------------------------------------------------------
Requests ==
  [op : {"registry", "sync", "pool", "toplevel", "decoration", "device", "keyboard", "pointer",
         "pong"}] \cup
  [op : {"bind"}, interface : Interfaces, version : Nat] \cup
  [op : {"ack"}, serial : Nat] \cup
  [op : {"commit"}, buffer : BOOLEAN, frame : BOOLEAN]
Events ==
  [op : {"done", "format", "close", "ping", "frame", "input", "output", "end", "pointer frame"}] \cup
  [op : {"global"}, interface : Interfaces, version : Nat] \cup
  [op : {"configure"}, serial : Nat] \cup
  PointerEvents

TypeOK ==
  /\ who \in Programs /\ pc \in 1..Len(Main) /\ waits \in {"no", "waiting", "over", "lost"}
  /\ bound \in [Interfaces -> Nat]
  /\ heard \subseteq {i \in Interfaces : bound[i] > 0}
  /\ configured \in BOOLEAN /\ running \in BOOLEAN /\ formats \in 0..Formats
  /\ left \in {"", "missing", "memory", "never configured", "done", "ended"}
  /\ buffered \in Seq(Requests) /\ requests \in Seq(Requests)
  /\ events \in Seq(Events) /\ queue \in Seq(Events)
  /\ offer \in Offers /\ prompt \in BOOLEAN
  /\ stage \in {"none", "role", "committed", "shown"}
  /\ serial \in 0..MaxConfigures /\ acked \in 0..serial /\ frames \in Nat
  /\ pinged \in BOOLEAN
  /\ error \in {"", "version", "serial", "unconfigured", "left"}
  /\ have \subseteq {"axis", "discrete", "source", "stop"} /\ axis \in Axes
  /\ groups \in Nat /\ due \in Nat /\ late \in BOOLEAN
  /\ said \subseteq PointerEvents /\ of \subseteq PointerEvents /\ line \in Lines

(* The line a group about one axis deserves: that it stopped, or how far   *)
(* it went, with the notches and the source if the group told them.        *)
AxesOf(g) == {e.axis : e \in {f \in g : f.op \in {"axis", "stop"}}}
Told(g, op) == \E e \in g : e.op = op
Summary(g) ==
  [axis |-> CHOOSE a \in Axes : a \in AxesOf(g),
   stop |-> Told(g, "stop"),
   discrete |-> ~Told(g, "stop") /\ Told(g, "discrete"),
   source |-> ~Told(g, "stop") /\ Told(g, "source")]

(* One line is printed for each group that scrolls or stops, and a line    *)
(* tells what its own group said and nothing of the group before: a source *)
(* or a notch that came with no scrolling is forgotten at its frame.  A    *)
(* group about both axes has one line for the two.                         *)
LineTellsGroup ==
  /\ groups = due
  /\ Cardinality(AxesOf(of)) = 1 => line = Summary(of)

(* wlscroll goes, when its groups are there or its time is up: it is woken *)
(* to look at the time only by the frames it asks for.                     *)
Ends == who = "wlscroll" ~> left # ""
=============================================================================
