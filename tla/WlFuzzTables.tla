----------------------------- MODULE WlFuzzTables -----------------------------
(***************************************************************************)
(* The tables toolchain/wlfuzz.c makes its requests from, and those of the *)
(* protocols' own code (clients/xdg-shell-protocol.c and                   *)
(* clients/xdg-decoration-unstable-v1-protocol.c) that take them apart at  *)
(* the other end.  A kind is the name of its field in ifaces; the          *)
(* interface's name is left out, since it is one for each kind.            *)
(***************************************************************************)
EXTENDS Sequences, Integers, FiniteSets

K_NONE == "none"

(* A request: its arguments (n new id, o object, O object or null, u uint, *)
(* i int, s string, S string or null, h descriptor), the kind its new id   *)
(* becomes, whether it destroys, and the kinds of its objects in turn.     *)
Req(sig, makes, obj) == [sig |-> sig, makes |-> makes, destroys |-> FALSE, obj |-> obj]
Plain(sig) == Req(sig, K_NONE, << >>)
Makes(kind) == Req(<<"n">>, kind, << >>)
DESTRUCTOR == [sig |-> << >>, makes |-> K_NONE, destroys |-> TRUE, obj |-> << >>]

I4 == <<"i", "i", "i", "i">>

display_reqs == <<Makes("callback"), Makes("registry")>>
registry_reqs == <<Plain(<<"u", "s", "u", "n">>)>>
compositor_reqs == <<Makes("surface"), Makes("region")>>
shm_reqs == <<Req(<<"n", "h", "i">>, "pool", << >>), DESTRUCTOR>>
pool_reqs == <<Req(<<"n">> \o I4 \o <<"u">>, "buffer", << >>), DESTRUCTOR, Plain(<<"i">>)>>
buffer_reqs == <<DESTRUCTOR>>
surface_reqs ==
  <<DESTRUCTOR, Req(<<"O", "i", "i">>, K_NONE, <<"buffer">>), Plain(I4), Makes("callback"),
    Req(<<"O">>, K_NONE, <<"region">>), Req(<<"O">>, K_NONE, <<"region">>), Plain(<< >>),
    Plain(<<"i">>), Plain(<<"i">>), Plain(I4), Plain(<<"i", "i">>)>>
region_reqs == <<DESTRUCTOR, Plain(I4), Plain(I4)>>
wm_base_reqs ==
  <<DESTRUCTOR, Makes("positioner"), Req(<<"n", "o">>, "xdg_surface", <<"surface">>),
    Plain(<<"u">>)>>
xdg_surface_reqs ==
  <<DESTRUCTOR, Makes("toplevel"),
    Req(<<"n", "O", "o">>, "popup", <<"xdg_surface", "positioner">>), Plain(I4), Plain(<<"u">>)>>
toplevel_reqs ==
  <<DESTRUCTOR, Req(<<"O">>, K_NONE, <<"toplevel">>), Plain(<<"s">>), Plain(<<"s">>),
    Req(<<"o", "u", "i", "i">>, K_NONE, <<"seat">>), Req(<<"o", "u">>, K_NONE, <<"seat">>),
    Req(<<"o", "u", "u">>, K_NONE, <<"seat">>), Plain(<<"i", "i">>), Plain(<<"i", "i">>),
    Plain(<< >>), Plain(<< >>), Req(<<"O">>, K_NONE, <<"output">>), Plain(<< >>), Plain(<< >>)>>
positioner_reqs ==
  <<DESTRUCTOR, Plain(<<"i", "i">>), Plain(I4), Plain(<<"u">>), Plain(<<"u">>), Plain(<<"u">>),
    Plain(<<"i", "i">>)>>
seat_reqs == <<Makes("pointer"), Makes("keyboard"), Makes("touch"), DESTRUCTOR>>
pointer_reqs == <<Req(<<"u", "O", "i", "i">>, K_NONE, <<"surface">>), DESTRUCTOR>>
release_only == <<DESTRUCTOR>>
ddm_reqs == <<Makes("source"), Req(<<"n", "o">>, "device", <<"seat">>)>>
source_reqs == <<Plain(<<"s">>), DESTRUCTOR, Plain(<<"u">>)>>
device_reqs ==
  <<Req(<<"O", "o", "O", "u">>, K_NONE, <<"source", "surface", "surface">>),
    Req(<<"O", "u">>, K_NONE, <<"source">>), DESTRUCTOR>>
offer_reqs ==
  <<Plain(<<"u", "S">>), Plain(<<"s", "h">>), DESTRUCTOR, Plain(<< >>), Plain(<<"u", "u">>)>>
deco_mgr_reqs == <<DESTRUCTOR, Req(<<"n", "o">>, "deco", <<"toplevel">>)>>
deco_reqs == <<DESTRUCTOR, Plain(<<"u">>), Plain(<< >>)>>

ifaces ==
  [display |-> display_reqs, registry |-> registry_reqs, compositor |-> compositor_reqs,
   shm |-> shm_reqs, pool |-> pool_reqs, buffer |-> buffer_reqs, surface |-> surface_reqs,
   region |-> region_reqs, wm_base |-> wm_base_reqs, xdg_surface |-> xdg_surface_reqs,
   toplevel |-> toplevel_reqs, positioner |-> positioner_reqs, seat |-> seat_reqs,
   pointer |-> pointer_reqs, keyboard |-> release_only, touch |-> release_only,
   output |-> release_only, ddm |-> ddm_reqs, source |-> source_reqs, device |-> device_reqs,
   offer |-> offer_reqs, deco_mgr |-> deco_mgr_reqs, deco |-> deco_reqs]

(* These have no table: no request of theirs is known.                     *)
Kinds == DOMAIN ifaces \cup {"callback", "popup"}
ReqsOf(kind) == IF kind \in DOMAIN ifaces THEN ifaces[kind] ELSE << >>

-----------------------------------------------------------------------------
(* The protocols' messages: a signature ("?o" may be null) and where in    *)
(* the list of types the kinds of its arguments begin.  The version a      *)
(* request came with is left out.                                          *)
Msg(sig, at) == [sig |-> sig, at |-> at]
Void == Msg(<< >>, 0)

xdg_shell_types ==
  <<K_NONE, K_NONE, K_NONE, K_NONE, "positioner", "xdg_surface", "surface", "toplevel", "popup",
    "xdg_surface", "positioner", "toplevel", "seat", K_NONE, K_NONE, K_NONE, "seat", K_NONE,
    "seat", K_NONE, K_NONE, "output", "seat", K_NONE, "positioner", K_NONE>>
xdg_wm_base_requests ==
  <<Void, Msg(<<"n">>, 4), Msg(<<"n", "o">>, 5), Msg(<<"u">>, 0)>>
xdg_positioner_requests ==
  <<Void, Msg(<<"i", "i">>, 0), Msg(I4, 0), Msg(<<"u">>, 0), Msg(<<"u">>, 0),
    Msg(<<"u">>, 0), Msg(<<"i", "i">>, 0), Void, Msg(<<"i", "i">>, 0),
    Msg(<<"u">>, 0)>>
xdg_surface_requests ==
  <<Void, Msg(<<"n">>, 7), Msg(<<"n", "?o", "o">>, 8), Msg(I4, 0),
    Msg(<<"u">>, 0)>>
xdg_toplevel_requests ==
  <<Void, Msg(<<"?o">>, 11), Msg(<<"s">>, 0), Msg(<<"s">>, 0),
    Msg(<<"o", "u", "i", "i">>, 12), Msg(<<"o", "u">>, 16), Msg(<<"o", "u", "u">>, 18),
    Msg(<<"i", "i">>, 0), Msg(<<"i", "i">>, 0), Void, Void, Msg(<<"?o">>, 21), Void,
    Void>>
xdg_popup_requests == <<Void, Msg(<<"o", "u">>, 22), Msg(<<"o", "u">>, 24)>>

xdg_decoration_unstable_v1_types == <<K_NONE, "deco", "toplevel">>
zxdg_decoration_manager_v1_requests == <<Void, Msg(<<"n", "o">>, 1)>>
zxdg_toplevel_decoration_v1_requests == <<Void, Msg(<<"u">>, 0), Void>>

(* What an argument is: its letter, and its kind where it has one.         *)
Arg(letter, kind) == [letter |-> letter, kind |-> kind]
Args(messages, types, destructors) ==
  [op \in 1..Len(messages) |->
    [args |-> [i \in 1..Len(messages[op].sig) |->
                 Arg(messages[op].sig[i], types[messages[op].at + i])],
     destroys |-> op \in destructors]]
Shell(messages) == Args(messages, xdg_shell_types, {1})
Decoration(messages) == Args(messages, xdg_decoration_unstable_v1_types, {1})

(* The core protocol's code is libwayland's: it has what the table has.    *)
Letter(c) == IF c = "O" THEN "?o" ELSE IF c = "S" THEN "s" ELSE c
ObjectAt(sig, i) == Cardinality({j \in 1..i : sig[j] \in {"o", "O"}})
Core(reqs) ==
  [op \in 1..Len(reqs) |->
    LET r == reqs[op]
    IN [args |-> [i \in 1..Len(r.sig) |->
                   Arg(Letter(r.sig[i]),
                       CASE r.sig[i] = "n" -> r.makes
                         [] r.sig[i] \in {"o", "O"} -> r.obj[ObjectAt(r.sig, i)]
                         [] OTHER -> K_NONE)],
        destroys |-> r.destroys]]

Protocol ==
  [k \in Kinds |->
    CASE k = "wm_base" -> Shell(xdg_wm_base_requests)
      [] k = "positioner" -> Shell(xdg_positioner_requests)
      [] k = "xdg_surface" -> Shell(xdg_surface_requests)
      [] k = "toplevel" -> Shell(xdg_toplevel_requests)
      [] k = "popup" -> Shell(xdg_popup_requests)
      [] k = "deco_mgr" -> Decoration(zxdg_decoration_manager_v1_requests)
      [] k = "deco" -> Decoration(zxdg_toplevel_decoration_v1_requests)
      [] OTHER -> Core(ReqsOf(k))]
=============================================================================
