------------------------------ MODULE WlBuffers ------------------------------
(***************************************************************************)
(* Two buffers, so that one can be drawn into while the compositor reads   *)
(* the other: how toolchain/wlcairo.c shares its pixels with a compositor, *)
(* and how it swaps the pool they are in for one of another size.          *)
(* toolchain/wlprobe.c is the same program without the resizing.           *)
(*                                                                         *)
(* The client is one thread: it dispatches an event, draws, and commits.   *)
(* Its requests and the compositor's events cross on a connection that     *)
(* keeps each direction in order, and the compositor may read a buffer it  *)
(* holds at any moment, while the client paints included.  The compositor  *)
(* is external: it does whatever wl_surface and wl_buffer allow it.        *)
(***************************************************************************)
EXTENDS Integers, Sequences, FiniteSets

CONSTANTS
  Sizes,      \* sizes a window may be asked to have
  First,      \* the size it has before it is asked, W by H
  BUFFERS,    \* buffers in a pool
  MaxResizes  \* bound: how often the compositor asks for another size

ASSUME WlAssumption ==
  /\ First \in Sizes
  /\ BUFFERS \in Nat \ {0}
  /\ MaxResizes \in Nat

VARIABLES
  pc,       \* "dispatch", "draw", "paint", "gone"
  busy,     \* the slots the compositor has not given back, `busy`
  n,        \* the slot being painted
  gen,      \* which pool `buffers` are in, counted from 0
  old,      \* pools put aside and not yet let go, `old_pool`
  size,     \* the size of that pool's buffers, `cw` by `ch`
  want,     \* the size asked for last, `want_w` by `want_h`
  pending,  \* `pending_resize`
  refused,  \* auxiliary: no memory for the size it was last told
  requests, \* on their way to the compositor
  events,   \* on their way to the client
  held,     \* buffers the compositor may read
  shown,    \* the one committed last
  known,    \* pools the client has not destroyed, as the compositor sees it
  frames,   \* frame callbacks it has not answered
  asked,    \* sizes it has asked for, in order
  prompt    \* whether it gives back what is replaced before it asks for more

client == <<pc, busy, n, gen, old, size, want, pending, refused>>
server == <<held, shown, known, frames, asked, prompt>>
vars == <<client, server, requests, events>>

Slots == 0..(BUFFERS - 1)
Gens == 0..(MaxResizes + 1)
Buffers == Gens \X Slots
NoBuffer == <<-1, -1>>

(* The pools whose proxies the client still has: an event for any other is *)
(* dropped by the client's library.                                        *)
Alive == {gen} \cup old

Init ==
  /\ pc = "dispatch" /\ busy = {} /\ n = 0
  /\ gen = 0 /\ old = {} /\ size = First /\ want = First
  /\ pending = FALSE /\ refused = FALSE
  /\ requests = << >>
  /\ held = {} /\ shown = NoBuffer /\ known = {0} /\ frames = 0
  /\ prompt \in BOOLEAN
  (* The first configure, which may leave the size to the client; and the  *)
  (* first draw, which nobody asks for but `main`.                         *)
  /\ \E s \in Sizes : asked = <<s>> /\ events = <<[op |-> "configure", to |-> s],
                                                  [op |-> "start"]>>

-----------------------------------------------------------------------------
(* The client: events, in the order they come. *)
Event(op) == pc = "dispatch" /\ events # << >> /\ Head(events).op = op
Taken == events' = Tail(events)

(* toplevel_configure: the size is changed when next a frame is drawn.  A  *)
(* size it has already been asked for is no news.                          *)
Configured ==
  /\ Event("configure")
  /\ Taken
  /\ IF Head(events).to = want
       THEN UNCHANGED <<want, pending>>
       ELSE want' = Head(events).to /\ pending' = TRUE
  /\ refused' = FALSE
  /\ UNCHANGED <<pc, busy, n, gen, old, size, server, requests>>

(* buffer_release: by its slot, and only if the buffer is not destroyed.   *)
ReleaseUnheard ==
  /\ Event("release")
  /\ Taken
  /\ UNCHANGED <<client, server, requests>>
Released ==
  /\ Event("release")
  /\ Taken
  /\ busy' = IF Head(events).buffer[1] \in Alive
               THEN busy \ {Head(events).buffer[2]} ELSE busy
  /\ UNCHANGED <<pc, n, gen, old, size, want, pending, refused, server, requests>>

(* frame_done, and the draw `main` starts with. *)
FrameDone ==
  /\ Event("done") \/ Event("start")
  /\ Taken
  /\ pc' = "draw"
  /\ UNCHANGED <<busy, n, gen, old, size, want, pending, refused, server, requests>>

(* toplevel_close, or the connection ends. *)
Close ==
  /\ pc = "dispatch"
  /\ pc' = "gone"
  /\ UNCHANGED <<busy, n, gen, old, size, want, pending, refused, server, requests, events>>

-----------------------------------------------------------------------------
(* draw *)

(* build_pool: another pool, of the size wanted; the one before is put     *)
(* aside, since the compositor may be reading a buffer of it.              *)
BuildPool ==
  /\ pc = "draw" /\ pending
  /\ gen' = gen + 1
  /\ old' = old \cup {gen}
  /\ busy' = {}
  /\ size' = want
  /\ pending' = FALSE
  /\ requests' = Append(requests, [op |-> "create", pool |-> gen'])
  /\ UNCHANGED <<pc, n, want, refused, server, events>>

(* No memory for it: the old size stays, and is what is wanted.            *)
NoMemoryForgotten ==
  /\ pc = "draw" /\ pending
  /\ pending' = FALSE /\ refused' = TRUE
  /\ UNCHANGED <<pc, busy, n, gen, old, size, want, server, requests, events>>
NoMemory ==
  /\ pc = "draw" /\ pending
  /\ want' = size /\ pending' = FALSE /\ refused' = TRUE
  /\ UNCHANGED <<pc, busy, n, gen, old, size, server, requests, events>>

Free == Slots \ busy
FirstFreePast == IF Free = {} THEN {BUFFERS} ELSE {s \in Free : \A t \in Free : s <= t}
FirstFree == {s \in Free : \A t \in Free : s <= t}

Paint ==
  /\ pc = "draw" /\ ~pending
  /\ n' \in FirstFree
  /\ pc' = "paint"
  /\ UNCHANGED <<busy, gen, old, size, want, pending, refused, server, requests, events>>

(* Both still held: no frame is drawn, and none is asked for.              *)
NoneFree ==
  /\ pc = "draw" /\ ~pending /\ Free = {}
  /\ pc' = "dispatch"
  /\ UNCHANGED <<busy, n, gen, old, size, want, pending, refused, server, requests, events>>

(* The attach, the frame callback and the commit that hands it over; then  *)
(* drop_old_pool, behind them on the same connection.                      *)
Destroys == IF old = {} THEN << >> ELSE <<[op |-> "destroy", pools |-> old]>>
Hand == <<[op |-> "commit", buffer |-> <<gen, n>>]>>
CommitKeepsOld ==
  /\ pc = "paint"
  /\ busy' = busy \cup {n}
  /\ requests' = requests \o Hand
  /\ pc' = "dispatch"
  /\ UNCHANGED <<n, gen, old, size, want, pending, refused, server, events>>
Commit ==
  /\ pc = "paint"
  /\ busy' = busy \cup {n}
  /\ requests' = requests \o Hand \o Destroys
  /\ old' = {}
  /\ pc' = "dispatch"
  /\ UNCHANGED <<n, gen, size, want, pending, refused, server, events>>

-----------------------------------------------------------------------------
(* The compositor. *)
Request(op) == requests # << >> /\ Head(requests).op = op

TakeCommit ==
  /\ Request("commit")
  /\ requests' = Tail(requests)
  /\ shown' = Head(requests).buffer
  /\ held' = held \cup {Head(requests).buffer}
  /\ frames' = frames + 1
  /\ UNCHANGED <<client, known, asked, prompt, events>>

TakeCreate ==
  /\ Request("create")
  /\ requests' = Tail(requests)
  /\ known' = known \cup {Head(requests).pool}
  /\ UNCHANGED <<client, held, shown, frames, asked, prompt, events>>

TakeDestroy ==
  /\ Request("destroy")
  /\ requests' = Tail(requests)
  /\ known' = known \ Head(requests).pools
  /\ UNCHANGED <<client, held, shown, frames, asked, prompt, events>>

(* It has done with a buffer — one it no longer shows, or the one it shows *)
(* and has a copy of — and says so if there is anybody to say it to.       *)
GiveBack(b) ==
  /\ b \in held
  /\ held' = held \ {b}
  /\ events' = IF b[1] \in known
                 THEN Append(events, [op |-> "release", buffer |-> b]) ELSE events
  /\ UNCHANGED <<client, shown, known, frames, asked, prompt, requests>>

(* It has shown what was committed, and asks for the next.                 *)
AskForMore ==
  /\ frames > 0
  /\ prompt => held \subseteq {shown}
  /\ frames' = frames - 1
  /\ events' = Append(events, [op |-> "done"])
  /\ UNCHANGED <<client, held, shown, known, asked, prompt, requests>>

(* Somebody drags the window's edge. *)
Resize(s) ==
  /\ Len(asked) <= MaxResizes
  /\ asked' = Append(asked, s)
  /\ events' = Append(events, [op |-> "configure", to |-> s])
  /\ UNCHANGED <<client, held, shown, known, frames, prompt, requests>>

Client ==
  \/ Configured \/ Released \/ FrameDone
  \/ BuildPool \/ NoMemory \/ Paint \/ NoneFree \/ Commit
Compositor ==
  \/ TakeCommit \/ TakeCreate \/ TakeDestroy \/ AskForMore
  \/ \E b \in Buffers : GiveBack(b)
  \/ \E s \in Sizes : Resize(s)
Next == Client \/ Close \/ Compositor

(* The client goes round its loop; the compositor reads what it is sent,   *)
(* gives back what it no longer shows, and asks for more of what it shows. *)
(* Nobody has to resize a window or close one.                             *)
Fairness ==
  /\ WF_vars(Client)
  /\ WF_vars(TakeCommit \/ TakeCreate \/ TakeDestroy)
  /\ WF_vars(AskForMore)
  /\ \A b \in Buffers : WF_vars(b # shown /\ GiveBack(b))

Spec == Init /\ [][Next]_vars
FairSpec == Spec /\ Fairness

-----------------------------------------------------------------------------
TypeOK ==
  /\ pc \in {"dispatch", "draw", "paint", "gone"}
  /\ busy \subseteq Slots /\ n \in Slots
  /\ gen \in Gens /\ old \subseteq Gens
  /\ size \in Sizes /\ want \in Sizes
  /\ pending \in BOOLEAN /\ refused \in BOOLEAN /\ prompt \in BOOLEAN
  /\ requests \in Seq([op : {"commit"}, buffer : Buffers] \cup
                      [op : {"create"}, pool : Gens] \cup
                      [op : {"destroy"}, pools : SUBSET Gens])
  /\ events \in Seq([op : {"release"}, buffer : Buffers] \cup
                    [op : {"configure"}, to : Sizes] \cup
                    [op : {"done", "start"}])
  /\ held \subseteq Buffers /\ shown \in Buffers \cup {NoBuffer}
  /\ known \subseteq Gens
  /\ frames \in Nat
  /\ asked \in Seq(Sizes)

Sent(b) == \E i \in 1..Len(requests) :
             requests[i].op = "commit" /\ requests[i].buffer = b

(* The client never paints a buffer the compositor holds or is about to be *)
(* handed: whatever order releases and frame callbacks come in, and though *)
(* a release still on its way when the pool was replaced names a slot that *)
(* has another buffer by the time it arrives.                              *)
NeverPaintsHeld == pc = "paint" => <<gen, n>> \notin held /\ ~Sent(<<gen, n>>)

(* A window is drawn at the size it was told last, or there was no memory  *)
(* for one that size when it was: a size asked for again after that is     *)
(* tried again.                                                            *)
Unread == {i \in 1..Len(events) : events[i].op = "configure"}
Told == asked[Len(asked) - Cardinality(Unread)]
SizeFollows == pc = "paint" => size = Told \/ refused

(* The window keeps being drawn, whenever there is somebody to show it,    *)
(* with a compositor that gives back what was replaced before it asks for  *)
(* the next frame.                                                         *)
KeepsDrawing == []<>(prompt => pc \in {"paint", "gone"})
=============================================================================
