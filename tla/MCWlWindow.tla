---------------------------- MODULE MCWlWindow ----------------------------
(* A compositor that has everything, one that is older than version 5 of   *)
(* wl_seat, and ones without a seat, a shell, or the decorations and the   *)
(* primary selection.  Gestures are of up to three events about one axis,  *)
(* and two about both.                                                     *)
EXTENDS WlScroll

MCPrograms == {"wlcairo", "wlprobe", "wlclip", "wlclip_primary", "wlscroll"}
MCAll == [i \in Interfaces |-> IF i \in {"wl_seat", "wl_output"} THEN 4 ELSE 1]
MCOffers == {
  [MCAll EXCEPT !["wl_seat"] = 7],
  [MCAll EXCEPT !["zxdg_decoration_manager_v1"] = 0,
                !["zwp_primary_selection_device_manager_v1"] = 0],
  [MCAll EXCEPT !["wl_seat"] = 0],
  [MCAll EXCEPT !["xdg_wm_base"] = 0, !["wl_output"] = 1]}
V(op) == [op |-> op, axis |-> "vertical"]
H(op) == [op |-> op, axis |-> "horizontal"]
Source == [op |-> "source"]
Motion == [op |-> "motion"]
MCGestures == {
  <<Motion>>, <<Source>>, <<V("discrete")>>, <<Source, V("discrete")>>,
  <<V("axis")>>, <<H("axis")>>, <<V("axis"), V("stop")>>, <<V("discrete"), V("stop")>>,
  <<Source, V("axis")>>, <<V("axis"), V("discrete")>>, <<Source, V("discrete"), V("axis")>>,
  <<Source, H("stop")>>, <<V("axis"), H("axis")>>, <<V("stop"), H("axis")>>}
=============================================================================
