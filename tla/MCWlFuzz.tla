------------------------------ MODULE MCWlFuzz ------------------------------
(* What is offered is split, so that every request of every table is sent  *)
(* in some run without everything being there in each; the order is not    *)
(* the order of the binds, and the list of objects fills.                  *)
EXTENDS WlFuzz

Offer(kind, version) == [kind |-> kind, version |-> version]
Session(what, messages) == [offered |-> what, total |-> messages]
SomeSessions ==
  {Session(<<Offer("compositor", 1), Offer("wm_base", 2), Offer("shm", 1)>>, 2),
   Session(<<Offer("wm_base", 1), Offer("deco_mgr", 1), Offer("shm", 1),
             Offer("compositor", 1)>>, 2),
   Session(<<Offer("ddm", 1), Offer("compositor", 1), Offer("seat", 2), Offer("output", 1)>>, 2),
   Session(<<Offer("wm_base", 1), Offer("compositor", 1)>>, 3)}
=============================================================================
