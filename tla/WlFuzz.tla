-------------------------------- MODULE WlFuzz --------------------------------
(***************************************************************************)
(* What toolchain/wlfuzz.c sends (how is WlWire's): the opening, with its  *)
(* binds and its window, and the requests made at random after it, with    *)
(* the list it keeps of what there is on the connection.  The randomness   *)
(* is a choice, of one value for each way an argument is right or wrong.   *)
(*                                                                         *)
(* The compositor is external: it takes requests in order and checks them  *)
(* as libwayland does, against the tables of the protocols, and refuses a  *)
(* wrong one with an error, which is the end of the connection.  It        *)
(* configures a window when it becomes a toplevel, before its client has   *)
(* waited a tenth of a second for it.                                      *)
(***************************************************************************)
EXTENDS Integers, Sequences, FiniteSets, WlFuzzTables

CONSTANTS
  Sessions,     \* what a compositor offers, [kind, version] in order, and
                \* MESSAGES: a set of [offered, total]
  MAX_OBJECTS,  \* how many objects are remembered
  ServerHalf,   \* ids from here on are the compositor's to give
  MaxOffers,    \* bound: how many data offers the compositor makes
  MaxBehind     \* bound: how many requests the compositor is behind

ASSUME FuzzAssumption ==
  /\ \A s \in Sessions :
       /\ s.total \in Nat
       /\ s.offered \in Seq([kind : DOMAIN ifaces, version : Nat \ {0}])
  /\ MAX_OBJECTS \in Nat \ {0} /\ ServerHalf \in Nat
  /\ MaxOffers \in Nat /\ MaxBehind \in Nat \ {0}

(* The ids do not run out: sixteen are for the opening, and a request or a *)
(* window is at most five.                                                 *)
ASSUME IdsAssumption == \A s \in Sessions : 16 + 5 * s.total < ServerHalf - 1

VARIABLES
  phase,     \* "globals", "binds", "window", "loop", "over"
  step,      \* which bind of the opening, or which step of window()
  opening,   \* whether the loop has yet to begin
  bad,       \* whether window() has begun to treat its window badly
  win,       \* the ids of window()'s own objects
  reading,   \* whether it is in read_events
  total,
  turns,     \* how many requests of the loop were sent
  objects, next_id, global_name, global_version, last_serial, ended,
  astray,    \* whether it took what it bound for a kind picked without regard
             \* to what that is, or used an id in use for a new object
  toServer, toClient,
  offered,   \* what this compositor offers
  telling,   \* which of it the registry is told of next, 0 if there is none
  resources, \* the kind of each object there is for it
  highest,   \* the highest id there has been
  windows,   \* of each xdg surface: its surface, whether it has a role,
             \* the serials given to it, whether one was acked
  serial, refused, offers

fuzzer == <<phase, step, opening, bad, win, reading, total, turns, objects, next_id,
            global_name, global_version, last_serial, ended, astray>>
compositor == <<offered, telling, resources, highest, windows, serial, refused, offers>>
fuzzVars == <<fuzzer, toServer, toClient, compositor>>

Nowhere == ServerHalf - 1   \* a number that is no object's

-----------------------------------------------------------------------------
(* The list of objects. *)
Entry(id, kind, dead) == [id |-> id, kind |-> kind, dead |-> dead]
Known(list, id) == {i \in 1..Len(list) : list[i].id = id}
remember(list, id, kind) ==
  IF Known(list, id) # {}
    THEN [i \in 1..Len(list) |-> IF list[i].id = id THEN Entry(id, kind, FALSE) ELSE list[i]]
    ELSE IF Len(list) < MAX_OBJECTS THEN Append(list, Entry(id, kind, FALSE)) ELSE list
forget(list, id) ==
  [i \in 1..Len(list) |-> [list[i] EXCEPT !.dead = @ \/ list[i].id = id]]
Live == {i \in 1..Len(objects) : ~objects[i].dead}
kind_of(id) ==
  LET known == Known(objects, id) \cap Live
  IN IF known = {} THEN K_NONE ELSE objects[CHOOSE i \in known : TRUE].kind
Picks(kind) == {objects[i].id : i \in {j \in Live : kind \in {K_NONE, objects[j].kind}}}
pick(kind) == IF Picks(kind) = {} THEN {0} ELSE Picks(kind)
pick_dead == {objects[i].id : i \in (1..Len(objects)) \ Live} \cup {0}

-----------------------------------------------------------------------------
(* Requests: `whole` is whether the size of one, its numbers, its strings  *)
(* and its descriptors are what they have to be.                           *)
Request(object, opcode, args, whole) ==
  [object |-> object, opcode |-> opcode, args |-> args, whole |-> whole,
   opening |-> opening /\ ~bad]
A(letter, value) == [letter |-> letter, value |-> value]
U(value) == A("u", value)

(* send_bytes fails once the compositor has gone, which it has when it has  *)
(* refused something.                                                      *)
Cut == ended \/ refused # "not"
Sends(request) ==
  ~Cut /\ Len(toServer) < MaxBehind /\ toServer' = Append(toServer, request)

FuzzInit ==
  /\ phase = "globals" /\ step = 1 /\ opening = TRUE /\ bad = FALSE
  /\ win = [wm |-> 0, shm |-> 0, surface |-> 0, xdg |-> 0, top |-> 0, pool |-> 0,
            buffer |-> 0]
  /\ reading = TRUE /\ turns = 0
  /\ objects = <<Entry(1, "display", FALSE), Entry(2, "registry", FALSE)>>
  /\ next_id = 4 /\ last_serial = 0 /\ ended = FALSE /\ astray = FALSE
  /\ global_name = [k \in Kinds |-> 0] /\ global_version = [k \in Kinds |-> 0]
  /\ toServer = <<[object |-> 1, opcode |-> 1, args |-> <<A("n", 2)>>, whole |-> TRUE,
                   opening |-> TRUE],
                  [object |-> 1, opcode |-> 0, args |-> <<A("n", 3)>>, whole |-> TRUE,
                   opening |-> TRUE]>>
  /\ toClient = << >>
  /\ \E s \in Sessions : offered = s.offered /\ total = s.total
  /\ telling = 0
  /\ resources = [i \in {1} |-> "display"] /\ highest = 1
  /\ windows = [i \in {} |-> 0] /\ serial = 0 /\ refused = "not" /\ offers = 0

-----------------------------------------------------------------------------
(* read_events: whatever there is, event by event.                         *)
HandleEvent(op) ==
  /\ reading /\ ~ended /\ toClient # << >> /\ Head(toClient).op = op
  /\ toClient' = Tail(toClient)
  /\ UNCHANGED <<phase, step, opening, bad, win, reading, turns, next_id, ended, total, astray,
                 toServer, compositor>>
(* The registry's, taken down if the kind is one it knows.                 *)
HandleGlobal ==
  /\ HandleEvent("global")
  /\ LET g == Head(toClient)
     IN /\ global_name' = [global_name EXCEPT ![g.kind] = g.name]
        /\ global_version' = [global_version EXCEPT ![g.kind] = g.version]
  /\ UNCHANGED <<objects, last_serial>>
(* A configure's serial, of whichever xdg surface it is for.               *)
HandleConfigure ==
  /\ HandleEvent("configure")
  /\ last_serial' = IF kind_of(Head(toClient).id) = "xdg_surface" THEN Head(toClient).serial
                                                                  ELSE last_serial
  /\ UNCHANGED <<objects, global_name, global_version>>
HandleDeleteIdNot ==
  /\ HandleEvent("delete_id")
  /\ UNCHANGED <<objects, last_serial, global_name, global_version>>
HandleDeleteId ==
  /\ HandleEvent("delete_id")
  /\ objects' = forget(objects, Head(toClient).id)
  /\ UNCHANGED <<last_serial, global_name, global_version>>
HandleDataOffer ==
  /\ HandleEvent("data_offer")
  /\ objects' = IF kind_of(Head(toClient).device) = "device"
                  THEN remember(objects, Head(toClient).id, "offer") ELSE objects
  /\ UNCHANGED <<last_serial, global_name, global_version>>
HandleRest ==
  /\ reading /\ (toClient = << >> \/ ended)
  /\ reading' = FALSE
  /\ ended' = (ended \/ refused # "not")
  /\ UNCHANGED <<phase, step, opening, bad, win, turns, objects, next_id, global_name,
                 global_version, last_serial, total, astray, toServer, toClient, compositor>>

ReadEvents ==
  \/ HandleGlobal \/ HandleConfigure \/ HandleDeleteId \/ HandleDataOffer \/ HandleRest

-----------------------------------------------------------------------------
(* main, up to the loop: wait for wl_compositor, a hundred times 10 ms.    *)
NothingToCome == toServer = << >> /\ toClient = << >> /\ telling \notin 1..Len(offered)
AwaitGlobals ==
  /\ phase = "globals" /\ ~reading
  /\ IF global_name["compositor"] = 0 /\ ~ended /\ ~NothingToCome
       THEN reading' = TRUE /\ UNCHANGED phase
       ELSE phase' = "binds" /\ UNCHANGED reading
  /\ UNCHANGED <<step, opening, bad, win, turns, objects, next_id, global_name, global_version,
                 last_serial, ended, total, astray, toServer, toClient, compositor>>

globals == <<"compositor", "shm", "output", "wm_base", "seat", "deco_mgr", "ddm">>

(* bind_global: a bind of the kind's name, at that version.                *)
bind_global(kind, version) ==
  /\ Sends(Request(2, 0, <<U(global_name[kind]), A("s", kind), U(version), A("n", next_id)>>,
                   TRUE))
  /\ objects' = remember(objects, next_id, kind)
  /\ next_id' = next_id + 1
VersionsAbove(kind) == 1..(global_version[kind] + 1)
Versions(kind) == 1..global_version[kind]
BindNext ==
  /\ phase = "binds" /\ step <= Len(globals)
  /\ LET k == globals[step]
     IN IF global_name[k] = 0 THEN UNCHANGED <<toServer, objects, next_id>>
                              ELSE \E v \in Versions(k) : bind_global(k, v)
  /\ step' = step + 1
  /\ UNCHANGED <<phase, opening, bad, win, reading, turns, global_name, global_version, last_serial,
                 ended, total, astray, toClient, compositor>>
Bound ==
  /\ phase = "binds" /\ (step > Len(globals) \/ Cut)
  /\ phase' = "window" /\ step' = 1
  /\ UNCHANGED <<opening, bad, win, reading, turns, objects, next_id, global_name, global_version,
                 last_serial, ended, total, astray, toServer, toClient, compositor>>

-----------------------------------------------------------------------------
(* window(), one request a step.  What it is made of is picked at the start *)
(* and its ids taken together, the pool's and the buffer's later.          *)
Step(n) == phase = "window" /\ step = n /\ ~reading
Kept == <<phase, opening, reading, total, turns, global_name, global_version, last_serial, ended,
          astray, toClient, compositor>>
Does(object, opcode, args) == Sends(Request(object, opcode, args, TRUE))
New(field, kind) == objects' = remember(objects, win[field], kind)

(* It ends there: main's first goes on to the loop, the loop's counts one. *)
WindowOver(ok) ==
  /\ opening' = FALSE /\ bad' = FALSE /\ step' = 0
  /\ turns' = IF ok /\ ~opening THEN turns + 1 ELSE turns
  /\ phase' = IF ok \/ opening THEN "loop" ELSE "over"
  /\ reading' = (ok /\ ~opening)
WindowSkipped ==
  /\ Step(1) /\ \E k \in {"compositor", "wm_base", "shm"} : Picks(k) = {}
  /\ WindowOver(TRUE)
  /\ UNCHANGED <<win, objects, next_id, global_name, global_version, last_serial, ended, total,
                 astray, toServer, toClient, compositor>>
CreateSurface ==
  /\ Step(1)
  /\ \E c \in Picks("compositor"), w \in Picks("wm_base"), s \in Picks("shm") :
       /\ Does(c, 0, <<A("n", next_id)>>)
       /\ win' = [win EXCEPT !.wm = w, !.shm = s, !.surface = next_id, !.xdg = next_id + 1,
                             !.top = next_id + 2]
  /\ objects' = remember(objects, next_id, "surface")
  /\ next_id' = next_id + 3 /\ step' = 2
  /\ UNCHANGED <<bad, Kept>>
GetXdgSurface ==
  /\ Step(2) /\ Does(win.wm, 2, <<A("n", win.xdg), A("o", win.surface)>>)
  /\ New("xdg", "xdg_surface") /\ step' = 3
  /\ UNCHANGED <<bad, win, next_id, Kept>>
GetToplevel ==
  /\ Step(3) /\ Does(win.xdg, 1, <<A("n", win.top)>>)
  /\ New("top", "toplevel") /\ step' = 4
  /\ UNCHANGED <<bad, win, next_id, Kept>>
(* It waits only if it has never had a serial.                             *)
AwaitSerial ==
  /\ Step(4) /\ last_serial = 0 /\ ~ended /\ ~NothingToCome
  /\ reading' = TRUE
  /\ UNCHANGED <<phase, step, opening, bad, win, turns, objects, next_id, global_name,
                 global_version, last_serial, ended, total, astray, toServer, toClient, compositor>>
AckConfigure ==
  /\ Step(4) /\ (last_serial # 0 \/ NothingToCome)
  /\ Does(win.xdg, 4, <<U(last_serial)>>)
  /\ step' = 5
  /\ UNCHANGED <<bad, win, objects, next_id, Kept>>
(* Memory as large as it says, or else.                                    *)
CreatePool ==
  /\ Step(5)
  /\ \E memory \in BOOLEAN :
       /\ Sends([Request(win.shm, 0, <<A("n", next_id), A("h", 0), U(0)>>, memory)
                   EXCEPT !.opening = @ /\ memory])
       /\ bad' = (bad \/ ~memory)
  /\ win' = [win EXCEPT !.pool = next_id, !.buffer = next_id + 1]
  /\ objects' = remember(objects, next_id, "pool")
  /\ next_id' = next_id + 2 /\ step' = 6
  /\ UNCHANGED Kept
CreateBuffer ==
  /\ Step(6)
  /\ Does(win.pool, 0, <<A("n", win.buffer), U(0), U(0), U(0), U(0), U(1)>>)
  /\ New("buffer", "buffer") /\ step' = 7
  /\ UNCHANGED <<bad, win, next_id, Kept>>
Attach ==
  /\ phase = "window" /\ step \in {7, 11}
  /\ Does(win.surface, 1, <<A("O", win.buffer), U(0), U(0)>>)
  /\ step' = step + 1
  /\ UNCHANGED <<bad, win, objects, next_id, Kept>>
Commit ==
  /\ phase = "window" /\ step \in {8, 12}
  /\ Does(win.surface, 6, << >>)
  /\ IF step = 8
       THEN step' = 9 /\ UNCHANGED <<bad, Kept>>
       ELSE WindowOver(TRUE) /\ UNCHANGED <<global_name, global_version, last_serial, ended,
                                            total, astray, toClient, compositor>>
  /\ UNCHANGED <<win, objects, next_id>>
(* Treated well it is left at that; or its buffer goes, and perhaps the    *)
(* pool, and it is attached anyway.                                        *)
LeftWhole ==
  /\ Step(9) /\ WindowOver(TRUE)
  /\ UNCHANGED <<win, objects, next_id, global_name, global_version, last_serial, ended, total,
                 astray, toServer, toClient, compositor>>
DestroyBuffer ==
  /\ Step(9) /\ bad' = TRUE
  /\ Does(win.buffer, 0, << >>)
  /\ objects' = forget(objects, win.buffer)
  /\ step' \in {10, 11}
  /\ UNCHANGED <<win, next_id, Kept>>
DestroyPool ==
  /\ Step(10)
  /\ Does(win.pool, 1, << >>)
  /\ objects' = forget(objects, win.pool)
  /\ step' = 11
  /\ UNCHANGED <<bad, win, next_id, Kept>>
WindowCut ==
  /\ phase = "window" /\ ~reading /\ Cut
  /\ WindowOver(FALSE)
  /\ UNCHANGED <<win, objects, next_id, global_name, global_version, last_serial, ended, total,
                 astray, toServer, toClient, compositor>>

Window ==
  \/ WindowSkipped \/ CreateSurface \/ GetXdgSurface \/ GetToplevel \/ AwaitSerial \/ AckConfigure
  \/ CreatePool \/ CreateBuffer \/ Attach \/ Commit \/ LeftWhole \/ DestroyBuffer \/ DestroyPool
  \/ WindowCut

-----------------------------------------------------------------------------
(* The loop: a window now and then, and requests.                          *)
LoopGoesOn == phase = "loop" /\ ~reading /\ turns < total /\ ~ended
AnotherWindow ==
  /\ LoopGoesOn
  /\ phase' = "window" /\ step' = 1
  /\ UNCHANGED <<opening, bad, win, reading, turns, objects, next_id, global_name, global_version,
                 last_serial, ended, total, astray, toServer, toClient, compositor>>
LoopEnds ==
  /\ phase = "loop" /\ ~reading /\ (turns >= total \/ Cut)
  /\ phase' = "over"
  /\ UNCHANGED <<step, opening, bad, win, reading, turns, objects, next_id, global_name,
                 global_version, last_serial, ended, total, astray, toServer, toClient, compositor>>

Counted ==
  /\ LoopGoesOn /\ turns' = turns + 1 /\ reading' = TRUE
  /\ UNCHANGED <<phase, step, opening, bad, win, total, global_name, global_version, last_serial,
                 ended, toClient, compositor>>

(* Mostly what a registry is sent is a bind that is right.                 *)
legal_bind ==
  /\ Counted /\ Picks("registry") # {}
  /\ \E k \in {j \in Kinds : global_name[j] # 0} : \E v \in Versions(k) : bind_global(k, v)
  /\ UNCHANGED astray

(* An argument of each way of being right or wrong.  The display stands    *)
(* for any object of another kind.                                         *)
object_arg(want, nullable) ==
  pick(want) \cup pick_dead \cup {1, Nowhere} \cup IF nullable THEN {0} ELSE {}
InUse == {objects[i].id : i \in Live}
new_id_arg == {next_id, 0, Nowhere, ServerHalf + 1} \cup InUse
uint_arg == {0, last_serial, last_serial + 1}
(* A number is one the request takes or is out of its range, a string is   *)
(* as long as it says and ends or does not, a descriptor is memory that is *)
(* large enough or is none, and a header has the message's size or not.    *)
int_arg == BOOLEAN
string_arg == BOOLEAN
make_fd == BOOLEAN
finish == BOOLEAN
IfAny(r, letters, outcomes) ==
  IF \E i \in 1..Len(r.sig) : r.sig[i] \in letters THEN outcomes ELSE {TRUE}
Whole(r) ==
  {i /\ s /\ h /\ f : i \in IfAny(r, {"i"}, int_arg), s \in IfAny(r, {"s", "S"}, string_arg),
                     h \in IfAny(r, {"h"}, make_fd), f \in finish}

NewIds(r) == IF r.makes = K_NONE THEN {0} ELSE new_id_arg
Objects(r, j) ==
  IF j > Len(r.obj) THEN {0} ELSE object_arg(r.obj[j], TRUE)
Uints(kind) == IF kind = "xdg_surface" THEN uint_arg ELSE {0}
Filled(r, made, objs, u) ==
  [i \in 1..Len(r.sig) |->
    A(r.sig[i], CASE r.sig[i] = "n" -> made
                  [] r.sig[i] \in {"o", "O"} -> objs[ObjectAt(r.sig, i)]
                  [] OTHER -> u)]

(* What is made of what was sent, in the list.                             *)
NotedKept(object, r, made) ==
  IF made # 0 /\ r.makes # K_NONE THEN remember(objects, made, r.makes) ELSE objects
Noted(object, r, made) ==
  LET made_of == IF made # 0 /\ r.makes # K_NONE THEN remember(objects, made, r.makes)
                                                 ELSE objects
  IN IF r.destroys THEN forget(made_of, object) ELSE made_of
Takes(made) == next_id' = IF made = next_id THEN next_id + 1 ELSE next_id

MakeRequest(i, r, op, made, whole, objs, u) ==
  /\ Sends(Request(objects[i].id, op - 1, Filled(r, made, objs, u), whole))
  /\ objects' = Noted(objects[i].id, r, made)
  /\ Takes(made)
  /\ astray' = (astray \/ made \in InUse)
request ==
  /\ Counted
  /\ \E i \in Live : \E op \in 1..Len(ReqsOf(objects[i].kind)) :
       LET r == ReqsOf(objects[i].kind)[op]
       IN /\ objects[i].kind # "registry"
          /\ \E made \in NewIds(r), whole \in Whole(r) :
             \E a \in Objects(r, 1), b \in Objects(r, 2), c \in Objects(r, 3),
                u \in Uints(objects[i].kind) :
               MakeRequest(i, r, op, made, whole, <<a, b, c>>, u)

(* An opcode that is not in its table, with four numbers; or an object     *)
(* that is none, where no kind's request is better than another's.         *)
FarOpcode == 30
RequestUnknown ==
  /\ Counted
  /\ \/ \E i \in Live, far \in BOOLEAN :
          Does(objects[i].id, IF far THEN FarOpcode ELSE Len(ReqsOf(objects[i].kind)),
               <<U(0), U(0), U(0), U(0)>>)
     \/ \E id \in pick_dead \cup {0, Nowhere} : Does(id, 0, <<U(0), U(0), U(0), U(0)>>)
  /\ UNCHANGED <<objects, next_id, astray>>

(* A bind put together at random, and what it makes taken for a kind       *)
(* picked apart from that: for none, or for any, of which "surface" is one.*)
BindGuessed ==
  /\ Counted
  /\ \E i \in Live, k \in Kinds, made \in new_id_arg, makes \in {K_NONE, "surface"},
        version \in {1, 7} :
       /\ objects[i].kind = "registry" /\ (global_name[k] # 0 \/ k = "callback")
       /\ \E name \in {global_name[j] : j \in Kinds} \cup {Nowhere} :
            Does(objects[i].id, 0, <<U(name), A("s", k), U(version), A("n", made)>>)
       /\ objects' = IF made # 0 /\ makes # K_NONE THEN remember(objects, made, makes)
                                                    ELSE objects
       /\ astray' = (astray \/ made \in InUse \/ (made # 0 /\ makes # K_NONE))
       /\ Takes(made)

Loop == AnotherWindow \/ LoopEnds \/ legal_bind \/ request \/ RequestUnknown \/ BindGuessed

-----------------------------------------------------------------------------
(* The compositor. *)
Has(id, kind) == id \in DOMAIN resources /\ resources[id] = kind
NewId(id) == id \in (1..(highest + 1)) \ DOMAIN resources
(* On the wire a number, an object and a new id are each a word.           *)
Class(letter) == IF letter = "h" THEN "fd" ELSE IF letter \in {"s", "S"} THEN "string" ELSE "word"
Fits(expected, a) ==
  /\ Class(a.letter) = Class(expected.letter)
  /\ CASE expected.letter = "n" -> NewId(a.value)
       [] expected.letter = "o" -> Has(a.value, expected.kind)
       [] expected.letter = "?o" -> a.value = 0 \/ Has(a.value, expected.kind)
       [] OTHER -> TRUE
Expected(m) == Protocol[resources[m.object]][m.opcode + 1]
Decodes(m) ==
  /\ m.whole /\ m.object \in DOMAIN resources
  /\ m.opcode < Len(Protocol[resources[m.object]])
  /\ Len(Expected(m).args) <= Len(m.args)
  /\ \A i \in 1..Len(Expected(m).args) : Fits(Expected(m).args[i], m.args[i])

Is(m, kind, opcode) == resources[m.object] = kind /\ m.opcode = opcode
(* What each interface asks beyond that: a global bound as what it is, a   *)
(* surface given one role, a serial acked that was given to that window,   *)
(* and no buffer shown in one before that.                                 *)
Legal(m) ==
  /\ Is(m, "registry", 0) =>
       /\ m.args[1].value \in 1..Len(offered)
       /\ offered[m.args[1].value].kind = m.args[2].value
       /\ m.args[3].value \in 1..offered[m.args[1].value].version
  /\ Is(m, "wm_base", 2) => \A x \in DOMAIN windows : windows[x].surface # m.args[2].value
  /\ Is(m, "xdg_surface", 1) \/ Is(m, "xdg_surface", 2) => ~windows[m.object].constructed
  /\ Is(m, "xdg_surface", 4) => m.args[1].value \in windows[m.object].given
  /\ Is(m, "surface", 6) /\ m.opening =>
       \A x \in DOMAIN windows : windows[x].surface = m.object => windows[x].acked

NewOf(m) ==
  {<<m.args[i].value, IF Is(m, "registry", 0) THEN m.args[2].value ELSE Expected(m).args[i].kind>> :
     i \in {j \in 1..Len(Expected(m).args) : Expected(m).args[j].letter = "n"}}
Made(m) == {n[1] : n \in NewOf(m)}
Gone(m) ==
  (IF Expected(m).destroys THEN {m.object} ELSE {})
    \cup (IF Is(m, "display", 0) THEN Made(m) ELSE {})
Ids(set) == IF set = {} THEN << >> ELSE <<[op |-> "delete_id", id |-> CHOOSE i \in set : TRUE]>>

Accept(m) ==
  /\ resources' = [id \in (DOMAIN resources \cup Made(m)) \ Gone(m) |->
                     IF id \in Made(m) THEN (CHOOSE n \in NewOf(m) : TRUE)[2] ELSE resources[id]]
  /\ highest' = IF \E id \in Made(m) : id > highest THEN CHOOSE id \in Made(m) : TRUE ELSE highest
  /\ windows' =
       CASE Is(m, "wm_base", 2) ->
              [x \in DOMAIN windows \cup Made(m) |->
                IF x \in Made(m) THEN [surface |-> m.args[2].value, constructed |-> FALSE,
                                       given |-> {}, acked |-> FALSE]
                                 ELSE windows[x]]
         [] Is(m, "xdg_surface", 1) ->
              [windows EXCEPT ![m.object].constructed = TRUE, ![m.object].given = {serial + 1}]
         [] Is(m, "xdg_surface", 2) -> [windows EXCEPT ![m.object].constructed = TRUE]
         [] Is(m, "xdg_surface", 4) -> [windows EXCEPT ![m.object].acked = TRUE]
         [] OTHER -> windows
  /\ serial' = IF Is(m, "xdg_surface", 1) THEN serial + 1 ELSE serial
  /\ toClient' = toClient \o Ids({i \in Gone(m) : i < ServerHalf}) \o
                 IF Is(m, "xdg_surface", 1)
                   THEN <<[op |-> "configure", id |-> m.object, serial |-> serial + 1]>> ELSE << >>
  /\ telling' = IF Is(m, "display", 1) THEN 1 ELSE telling

TakeRequest ==
  /\ refused = "not" /\ telling \notin 1..Len(offered) /\ toServer # << >>
  /\ LET m == Head(toServer)
     IN IF Decodes(m) /\ Legal(m)
          THEN Accept(m) /\ toServer' = Tail(toServer) /\ UNCHANGED refused
          ELSE /\ refused' = IF m.opening THEN "opening" ELSE "later"
               /\ toServer' = << >>
               /\ UNCHANGED <<resources, highest, windows, serial, toClient, telling>>
  /\ UNCHANGED <<fuzzer, offered, offers>>
TellGlobal ==
  /\ telling \in 1..Len(offered)
  /\ toClient' = Append(toClient, [op |-> "global", kind |-> offered[telling].kind,
                                  name |-> telling, version |-> offered[telling].version])
  /\ telling' = telling + 1
  /\ UNCHANGED <<fuzzer, toServer, offered, resources, highest, windows, serial, refused, offers>>
FrameShown ==
  /\ refused = "not"
  /\ \E id \in {i \in DOMAIN resources : resources[i] = "callback"} :
       /\ resources' = [i \in DOMAIN resources \ {id} |-> resources[i]]
       /\ toClient' = Append(toClient, [op |-> "delete_id", id |-> id])
  /\ UNCHANGED <<fuzzer, toServer, offered, telling, highest, windows, serial, refused, offers>>
OfferData ==
  /\ refused = "not" /\ offers < MaxOffers
  /\ offers' = offers + 1
  /\ \E d \in {i \in DOMAIN resources : resources[i] = "device"} :
       toClient' = Append(toClient, [op |-> "data_offer", device |-> d,
                                     id |-> ServerHalf + offers'])
  /\ resources' = [i \in DOMAIN resources \cup {ServerHalf + offers'} |->
                     IF i \in DOMAIN resources THEN resources[i] ELSE "offer"]
  /\ UNCHANGED <<fuzzer, toServer, offered, telling, highest, windows, serial, refused>>

Compositor == TakeRequest \/ TellGlobal \/ FrameShown \/ OfferData

FuzzNext ==
  \/ ReadEvents \/ AwaitGlobals \/ BindNext \/ Bound \/ Window \/ Loop
  \/ Compositor

FuzzSpec == FuzzInit /\ [][FuzzNext]_fuzzVars

-----------------------------------------------------------------------------
(* The session is not thrown out before it has fuzzed anything: whatever   *)
(* is offered, in whatever versions, and whenever the announcements and    *)
(* the configure come, nothing of the opening is refused before something  *)
(* bad is sent on purpose (wlfuzz.c:246-248, 866-869).                     *)
OpeningLegal == refused # "opening"

(* As long as nothing was refused and nothing is on its way, what the list *)
(* has alive is there and of the kind it is taken for, and what it has     *)
(* dead is gone: a request on it is wrong or right as it was meant to be.  *)
(* Until a bind put together at random is taken and what it made put down  *)
(* as something else; or until a new object is to have an id in use, which *)
(* may be given back already: then the list marks the new one as dead when *)
(* it hears that (wlfuzz.c:395, 566).                                      *)
OnItsWay(id) == \E i \in 1..Len(toClient) : toClient[i].op = "delete_id" /\ toClient[i].id = id
SameObjects ==
  refused = "not" /\ toServer = << >> /\ ~astray =>
    \A i \in 1..Len(objects) :
      LET e == objects[i]
      IN IF e.dead THEN e.id \notin DOMAIN resources
                   ELSE Has(e.id, e.kind) \/ OnItsWay(e.id)
=============================================================================
