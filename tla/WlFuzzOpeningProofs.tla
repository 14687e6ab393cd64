-------------------------- MODULE WlFuzzOpeningProofs --------------------------
(***************************************************************************)
(* The opening (wlfuzz.c:754-880): get_registry, sync, the binds, and the  *)
(* nine requests that make a window.  What makes it legal is one script of *)
(* lines, fixed once the globals are known: K is the kind each bound id    *)
(* has, f the id the window's surface gets, s how many lines are sent and  *)
(* t how many are taken.  How many objects there are, which ids they have, *)
(* what is on its way and what the fuzzer believes all follow from these,  *)
(* and each line is legal for a compositor that took those before it.      *)
(***************************************************************************)
EXTENDS WlFuzzProofs

(* The first argument's kind, if it is an object.                          *)
LEMMA FirstObject ==
  ASSUME NEW reqs, Len(reqs) \in Nat,
         \A op \in 1..Len(reqs) : Len(reqs[op].sig) \in Nat,
         NEW op \in 1..Len(reqs), 1 <= Len(reqs[op].sig), reqs[op].sig[1] = "O"
  PROVE  Core(reqs)[op].args[1] = Arg("?o", reqs[op].obj[1])
  <1> DEFINE Piece(o, i) == Arg(Letter(reqs[o].sig[i]),
                             CASE reqs[o].sig[i] = "n" -> reqs[o].makes
                               [] reqs[o].sig[i] \in {"o", "O"} ->
                                    reqs[o].obj[ObjectAt(reqs[o].sig, i)]
                               [] OTHER -> K_NONE)
             Part(o) == [i \in 1..Len(reqs[o].sig) |-> Piece(o, i)]
             F(o) == [args |-> Part(o), destroys |-> reqs[o].destroys]
  <1>1. Core(reqs) = [o \in 1..Len(reqs) |-> F(o)]
    BY DEF Core
  <1>2. Part(op)[1] = Piece(op, 1)
    <2> HIDE DEF Piece
    <2> QED  OBVIOUS
  <1>3. ObjectAt(reqs[op].sig, 1) = 1
    <2>1. {j \in 1..1 : reqs[op].sig[j] \in {"o", "O"}} = {1}
      OBVIOUS
    <2>2. Cardinality({1}) = 1
      BY FS_Singleton
    <2> QED
      BY <2>1, <2>2 DEF ObjectAt
  <1>4. Piece(op, 1) = Arg("?o", reqs[op].obj[1])
    BY <1>3 DEF Letter
  <1>5. F(op).args = Part(op)
    OBVIOUS
  <1>6. [o \in 1..Len(reqs) |-> F(o)][op] = F(op)
    OBVIOUS
  <1> HIDE DEF F, Part, Piece
  <1> QED
    BY <1>1, <1>2, <1>4, <1>5, <1>6

(* A scanned message, argument by argument.                                *)
LEMMA ArgsRead ==
  ASSUME NEW messages, NEW types, Len(messages) \in Nat, NEW op \in 1..Len(messages),
         Len(messages[op].sig) \in Nat, NEW p, p = Args(messages, types, {1})
  PROVE  /\ Len(p) = Len(messages)
         /\ p[op].destroys <=> op = 1
         /\ Len(p[op].args) = Len(messages[op].sig)
         /\ \A i \in 1..Len(messages[op].sig) :
              p[op].args[i] = Arg(messages[op].sig[i], types[messages[op].at + i])
  <1> DEFINE Piece(o, i) == Arg(messages[o].sig[i], types[messages[o].at + i])
             Part(o) == [i \in 1..Len(messages[o].sig) |-> Piece(o, i)]
             F(o) == [args |-> Part(o), destroys |-> o \in {1}]
  <1>1. Args(messages, types, {1}) = [o \in 1..Len(messages) |-> F(o)]
    BY DEF Args
  <1>2. /\ Len([o \in 1..Len(messages) |-> F(o)]) = Len(messages)
        /\ \A o \in 1..Len(messages) : [q \in 1..Len(messages) |-> F(q)][o] = F(o)
    <2> HIDE DEF F
    <2> QED  BY LenOfFunction
  <1>3. /\ Len(Part(op)) = Len(messages[op].sig)
        /\ \A i \in 1..Len(messages[op].sig) : Part(op)[i] = Piece(op, i)
    <2> DEFINE n == Len(messages[op].sig)
               G(i) == Piece(op, i)
    <2>1. n \in Nat
      OBVIOUS
    <2>2. Part(op) = [i \in 1..n |-> G(i)]
      OBVIOUS
    <2>3. Len([i \in 1..n |-> G(i)]) = n /\ \A i \in 1..n : [j \in 1..n |-> G(j)][i] = G(i)
      <3> HIDE DEF G, n
      <3> QED  BY <2>1, LenOfFunction
    <2> HIDE DEF Piece
    <2> QED
      BY <2>2, <2>3
  <1>4. F(op).args = Part(op) /\ (F(op).destroys <=> op = 1)
    OBVIOUS
  <1> HIDE DEF Part, F
  <1> QED
    BY <1>1, <1>2, <1>3, <1>4

(* The requests of the opening as a compositor reads them.                 *)
Makes1(kind, op, size, made) ==
  /\ op \in 1..Len(Protocol[kind])
  /\ Len(Protocol[kind][op].args) = size /\ ~Protocol[kind][op].destroys
  /\ Protocol[kind][op].args[1] = Arg("n", made)
(* It makes nothing.                                                       *)
Makes0(kind, op, size) ==
  /\ op \in 1..Len(Protocol[kind]) /\ Len(Protocol[kind][op].args) = size
(* A message of the core protocol is its row, letter by letter.            *)
ReadAs(f, r) ==
  /\ Len(f.args) = Len(r.sig) /\ Len(r.sig) \in Nat
  /\ f.destroys <=> r.destroys
  /\ \A i \in 1..Len(r.sig) :
       /\ f.args[i].letter = Letter(r.sig[i])
       /\ r.sig[i] = "n" => f.args[i] = Arg("n", r.makes)
  /\ 1 <= Len(r.sig) /\ r.sig[1] = "O" => f.args[1] = Arg("?o", r.obj[1])
(* A row of the core protocol, when it is known which of the fuzzer's rows *)
(* it is.                                                                  *)
LEMMA CoreForm ==
  ASSUME NEW kind \in {"display", "registry", "compositor", "shm", "pool", "buffer", "surface"},
         NEW reqs, reqs = ifaces[kind], NEW op \in 1..Len(reqs)
  PROVE  op \in 1..Len(Protocol[kind]) /\ ReadAs(Protocol[kind][op], reqs[op])
  <1>1. kind \in Kinds /\ kind \in DOMAIN ifaces
    BY AllKinds DEF ifaces
  <1>2. Protocol[kind] = Core(ReqsOf(kind))
    <2>1. kind \notin {"wm_base", "positioner", "xdg_surface", "toplevel", "popup", "deco_mgr", "deco"}
      OBVIOUS
    <2> QED  BY <1>1, <2>1 DEF Protocol
  <1>3. Protocol[kind] = Core(reqs)
    BY <1>1, <1>2 DEF ReqsOf
  <1>4. Len(reqs) \in Nat /\ \A o \in 1..Len(reqs) : Len(reqs[o].sig) \in Nat
    BY <1>1, TablesRight DEF OneNew
  <1>5. /\ Len(Core(reqs)) = Len(reqs)
        /\ Len(Core(reqs)[op].args) = Len(reqs[op].sig)
        /\ \A i \in 1..Len(reqs[op].sig) :
              /\ Core(reqs)[op].args[i].letter = Letter(reqs[op].sig[i])
              /\ reqs[op].sig[i] = "n" => Core(reqs)[op].args[i] = Arg("n", reqs[op].makes)
        /\ Core(reqs)[op].destroys = reqs[op].destroys
    BY <1>4, CoreRight, SMTT(30)
  <1>6. 1 <= Len(reqs[op].sig) /\ reqs[op].sig[1] = "O" => Core(reqs)[op].args[1] = Arg("?o", reqs[op].obj[1])
    BY <1>4, FirstObject
  <1> QED
    BY <1>3, <1>4, <1>5, <1>6 DEF ReadAs

(* The requests of the opening, as the protocols have them.                *)
LEMMA OpeningForms ==
  /\ Makes1("display", 2, 1, "registry") /\ Makes1("display", 1, 1, "callback")
  /\ Makes1("compositor", 1, 1, "surface") /\ Makes1("xdg_surface", 2, 1, "toplevel")
  /\ Makes1("wm_base", 3, 2, "xdg_surface") /\ Protocol["wm_base"][3].args[2] = Arg("o", "surface")
  /\ Makes1("shm", 1, 3, "pool") /\ Protocol["shm"][1].args[2].letter = "h"
     /\ Protocol["shm"][1].args[3].letter = "i"
  /\ Makes1("pool", 1, 6, "buffer")
     /\ \A i \in 2..5 : Protocol["pool"][1].args[i].letter = "i"
     /\ Protocol["pool"][1].args[6].letter = "u"
  /\ Makes0("registry", 1, 4) /\ ~Protocol["registry"][1].destroys
     /\ Protocol["registry"][1].args[1].letter = "u" /\ Protocol["registry"][1].args[2].letter = "s"
     /\ Protocol["registry"][1].args[3].letter = "u" /\ Protocol["registry"][1].args[4].letter = "n"
  /\ Makes0("xdg_surface", 5, 1) /\ ~Protocol["xdg_surface"][5].destroys
     /\ Protocol["xdg_surface"][5].args[1].letter = "u"
  /\ Makes0("surface", 2, 3) /\ ~Protocol["surface"][2].destroys
     /\ Protocol["surface"][2].args[1] = Arg("?o", "buffer")
     /\ Protocol["surface"][2].args[2].letter = "i" /\ Protocol["surface"][2].args[3].letter = "i"
  /\ Makes0("surface", 7, 0) /\ ~Protocol["surface"][7].destroys
  /\ Makes0("buffer", 1, 0) /\ Protocol["buffer"][1].destroys
  <1>3. /\ ifaces["display"] = display_reqs /\ ifaces["registry"] = registry_reqs
        /\ ifaces["compositor"] = compositor_reqs /\ ifaces["shm"] = shm_reqs
        /\ ifaces["pool"] = pool_reqs /\ ifaces["surface"] = surface_reqs
        /\ ifaces["buffer"] = buffer_reqs
    BY DEF ifaces
  <1>a. Letter("n") = "n" /\ Letter("u") = "u" /\ Letter("i") = "i" /\ Letter("h") = "h" /\ Letter("s") = "s"
    BY DEF Letter
  <1>5. /\ Len(display_reqs) = 2 /\ display_reqs[1] = Makes("callback") /\ display_reqs[2] = Makes("registry")
        /\ Len(compositor_reqs) = 2 /\ compositor_reqs[1] = Makes("surface")
    BY DEF display_reqs, compositor_reqs
  <1>6. \A kind : /\ Makes(kind).sig = <<"n">> /\ Makes(kind).makes = kind /\ ~Makes(kind).destroys
                  /\ Len(<<"n">>) = 1 /\ <<"n">>[1] = "n"
    BY DEF Makes, Req
  <1>7. /\ Makes1("display", 2, 1, "registry") /\ Makes1("display", 1, 1, "callback")
        /\ Makes1("compositor", 1, 1, "surface")
    <2>1. \A kind \in {"display", "compositor"} : \A op \in 1..2 : \A made :
            ifaces[kind][op] = Makes(made) /\ Len(ifaces[kind]) = 2 => Makes1(kind, op, 1, made)
      <3> SUFFICES ASSUME NEW kind \in {"display", "compositor"}, NEW op \in 1..2, NEW made,
                          ifaces[kind][op] = Makes(made), Len(ifaces[kind]) = 2
                   PROVE  Makes1(kind, op, 1, made)
        OBVIOUS
      <3>2. Len(ifaces[kind][op].sig) = 1 /\ ifaces[kind][op].sig[1] = "n" /\ ifaces[kind][op].makes = made
            /\ ~ifaces[kind][op].destroys
        BY <1>6
      <3>3. LET f == Protocol[kind][op]
            IN /\ op \in 1..Len(Protocol[kind]) /\ Len(f.args) = 1 /\ ~f.destroys
               /\ f.args[1] = Arg("n", made)
        <4>1. ReadAs(Protocol[kind][op], ifaces[kind][op]) /\ op \in 1..Len(Protocol[kind])
          BY CoreForm
        <4> QED
          BY <3>2, <4>1 DEF ReadAs
      <3> QED
        BY <3>3 DEF Makes1
    <2> QED
      BY <1>3, <1>5, <2>1
  <1>8. Makes1("shm", 1, 3, "pool") /\ Protocol["shm"][1].args[2].letter = "h"
        /\ Protocol["shm"][1].args[3].letter = "i"
    <2>1. /\ Len(shm_reqs) = 2 /\ shm_reqs[1].sig = <<"n", "h", "i">> /\ shm_reqs[1].makes = "pool"
          /\ ~shm_reqs[1].destroys
      BY DEF shm_reqs, Req
    <2>2. Len(<<"n", "h", "i">>) = 3 /\ <<"n", "h", "i">>[1] = "n" /\ <<"n", "h", "i">>[2] = "h" /\ <<"n", "h", "i">>[3] = "i"
      OBVIOUS
    <2>7. 1 \in 1..Len(Protocol["shm"]) /\ ReadAs(Protocol["shm"][1], shm_reqs[1])
      <3>1. 1 \in 1..Len(shm_reqs)
        BY <2>1
      <3> QED
        BY <1>3, <3>1, CoreForm
    <2> QED
      BY <1>3, <1>a, <2>1, <2>2, <2>7 DEF Makes1, Makes0, ReadAs
  <1>9. /\ Makes1("pool", 1, 6, "buffer")
        /\ \A i \in 2..5 : Protocol["pool"][1].args[i].letter = "i"
        /\ Protocol["pool"][1].args[6].letter = "u"
    <2>1. /\ Len(pool_reqs) = 3 /\ pool_reqs[1].sig = <<"n">> \o I4 \o <<"u">> /\ pool_reqs[1].makes = "buffer"
          /\ ~pool_reqs[1].destroys
      BY DEF pool_reqs, Req
    <2>4. LET s == <<"n">> \o I4 \o <<"u">>
          IN Len(s) = 6 /\ s[1] = "n" /\ s[2] = "i" /\ s[3] = "i" /\ s[4] = "i" /\ s[5] = "i" /\ s[6] = "u"
      BY DEF I4
    <2>5. \A i \in 2..5 : i = 2 \/ i = 3 \/ i = 4 \/ i = 5
      OBVIOUS
    <2>6. LET sig == ifaces["pool"][1].sig
          IN /\ Len(sig) = 6 /\ sig[1] = "n" /\ sig[6] = "u"
             /\ \A i \in 2..5 : sig[i] = "i"
      BY <1>3, <2>1, <2>4, <2>5
    <2>7. 1 \in 1..Len(Protocol["pool"]) /\ ReadAs(Protocol["pool"][1], pool_reqs[1])
      <3>1. 1 \in 1..Len(pool_reqs)
        BY <2>1
      <3> QED
        BY <1>3, <3>1, CoreForm
    <2>8. /\ Len(pool_reqs[1].sig) = 6 /\ pool_reqs[1].sig[1] = "n" /\ pool_reqs[1].sig[6] = "u"
          /\ \A i \in 2..5 : pool_reqs[1].sig[i] = "i"
      BY <1>3, <2>6
    <2>9. LET f == Protocol["pool"][1]
          IN /\ Len(f.args) = 6 /\ ~f.destroys /\ f.args[1] = Arg("n", "buffer")
             /\ \A i \in 2..5 : f.args[i].letter = Letter("i")
             /\ f.args[6].letter = Letter("u")
      <3>1. 1 \in 1..6 /\ 6 \in 1..6 /\ \A i \in 2..5 : i \in 1..6
        OBVIOUS
      <3> QED
        BY <2>1, <2>7, <2>8, <3>1, SMTT(30) DEF ReadAs
    <2> QED
      BY <1>a, <2>7, <2>9 DEF Makes1
  <1>10. /\ Makes0("registry", 1, 4) /\ ~Protocol["registry"][1].destroys
         /\ Protocol["registry"][1].args[1].letter = "u" /\ Protocol["registry"][1].args[2].letter = "s"
         /\ Protocol["registry"][1].args[3].letter = "u" /\ Protocol["registry"][1].args[4].letter = "n"
    <2>1. /\ Len(registry_reqs) = 1 /\ registry_reqs[1].sig = <<"u", "s", "u", "n">>
          /\ ~registry_reqs[1].destroys
      BY DEF registry_reqs, Plain, Req
    <2>2. LET s == <<"u", "s", "u", "n">>
          IN Len(s) = 4 /\ s[1] = "u" /\ s[2] = "s" /\ s[3] = "u" /\ s[4] = "n"
      OBVIOUS
    <2>7. 1 \in 1..Len(Protocol["registry"]) /\ ReadAs(Protocol["registry"][1], registry_reqs[1])
      <3>1. 1 \in 1..Len(registry_reqs)
        BY <2>1
      <3> QED
        BY <1>3, <3>1, CoreForm
    <2> QED
      BY <1>3, <1>a, <2>1, <2>2, <2>7 DEF Makes1, Makes0, ReadAs
  <1>11. /\ Makes0("surface", 2, 3) /\ ~Protocol["surface"][2].destroys
         /\ Protocol["surface"][2].args[1] = Arg("?o", "buffer")
         /\ Protocol["surface"][2].args[2].letter = "i" /\ Protocol["surface"][2].args[3].letter = "i"
         /\ Makes0("surface", 7, 0) /\ ~Protocol["surface"][7].destroys
    <2>1. /\ Len(surface_reqs) = 11 /\ surface_reqs[2].sig = <<"O", "i", "i">> /\ surface_reqs[2].obj = <<"buffer">>
          /\ ~surface_reqs[2].destroys
          /\ surface_reqs[7].sig = << >> /\ ~surface_reqs[7].destroys
      BY DEF surface_reqs, Plain, Req
    <2>2. /\ Len(<<"O", "i", "i">>) = 3 /\ <<"O", "i", "i">>[1] = "O" /\ <<"O", "i", "i">>[2] = "i" /\ <<"O", "i", "i">>[3] = "i"
          /\ <<"buffer">>[1] = "buffer" /\ Len(<< >>) = 0
      OBVIOUS
    <2>7. 2 \in 1..Len(Protocol["surface"]) /\ ReadAs(Protocol["surface"][2], surface_reqs[2])
      <3>1. 2 \in 1..Len(surface_reqs)
        BY <2>1
      <3> QED
        BY <1>3, <3>1, CoreForm
    <2>8. 7 \in 1..Len(Protocol["surface"]) /\ ReadAs(Protocol["surface"][7], surface_reqs[7])
      <3>1. 7 \in 1..Len(surface_reqs)
        BY <2>1
      <3> QED
        BY <1>3, <3>1, CoreForm
    <2> QED
      BY <1>3, <1>a, <2>1, <2>2, <2>7, <2>8 DEF Makes1, Makes0, ReadAs
  <1>12. Makes0("buffer", 1, 0) /\ Protocol["buffer"][1].destroys
    <2>1. Len(buffer_reqs) = 1 /\ buffer_reqs[1].sig = << >> /\ buffer_reqs[1].destroys /\ Len(<< >>) = 0
      BY DEF buffer_reqs, DESTRUCTOR
    <2>7. 1 \in 1..Len(Protocol["buffer"]) /\ ReadAs(Protocol["buffer"][1], buffer_reqs[1])
      <3>1. 1 \in 1..Len(buffer_reqs)
        BY <2>1
      <3> QED
        BY <1>3, <3>1, CoreForm
    <2> QED
      BY <1>3, <1>a, <2>1, <2>7 DEF Makes1, Makes0, ReadAs
  <1>13. /\ Makes1("wm_base", 3, 2, "xdg_surface") /\ Protocol["wm_base"][3].args[2] = Arg("o", "surface")
    <2>1. Protocol["wm_base"] = Args(xdg_wm_base_requests, xdg_shell_types, {1})
      BY AllKinds DEF Protocol, Shell
    <2>2. /\ Len(xdg_wm_base_requests) = 4 /\ xdg_wm_base_requests[3].sig = <<"n", "o">>
          /\ xdg_wm_base_requests[3].at = 5
      BY DEF xdg_wm_base_requests, Msg
    <2>3. xdg_shell_types[6] = "xdg_surface" /\ xdg_shell_types[7] = "surface"
      BY DEF xdg_shell_types
    <2>4. Len(<<"n", "o">>) = 2 /\ <<"n", "o">>[1] = "n" /\ <<"n", "o">>[2] = "o" /\ 3 \in 1..4 /\ 5 + 1 = 6 /\ 5 + 2 = 7
      OBVIOUS
    <2>0. PICK p : p = Args(xdg_wm_base_requests, xdg_shell_types, {1})
      OBVIOUS
    <2>6. 3 \in 1..Len(xdg_wm_base_requests) /\ Len(xdg_wm_base_requests) \in Nat
          /\ Len(xdg_wm_base_requests[3].sig) \in Nat
      BY <2>2, <2>4
    <2>7. /\ Len(p) = Len(xdg_wm_base_requests)
          /\ p[3].destroys <=> 3 = 1
          /\ Len(p[3].args) = Len(xdg_wm_base_requests[3].sig)
          /\ \A i \in 1..Len(xdg_wm_base_requests[3].sig) :
               p[3].args[i] = Arg(xdg_wm_base_requests[3].sig[i], xdg_shell_types[xdg_wm_base_requests[3].at + i])
      BY <2>0, <2>6, ArgsRead, SMTT(30)
    <2>8. xdg_wm_base_requests[3].at + 1 = 6 /\ xdg_wm_base_requests[3].at + 2 = 7
      BY <2>2
    <2>9. /\ Arg(xdg_wm_base_requests[3].sig[1], xdg_shell_types[xdg_wm_base_requests[3].at + 1]) = Arg("n", "xdg_surface")
          /\ Arg(xdg_wm_base_requests[3].sig[2], xdg_shell_types[xdg_wm_base_requests[3].at + 2]) = Arg("o", "surface")
      BY <2>2, <2>3, <2>4, <2>8, Zenon
    <2>10. Len(xdg_wm_base_requests[3].sig) = 2
      BY <2>2, <2>4
    <2>11. 1 \in 1..Len(xdg_wm_base_requests[3].sig) /\ 2 \in 1..Len(xdg_wm_base_requests[3].sig)
      BY <2>10
    <2>12. p[3].args[1] = Arg("n", "xdg_surface") /\ p[3].args[2] = Arg("o", "surface")
      BY <2>7, <2>9, <2>11, Zenon
    <2>13. Len(p) = 4 /\ ~p[3].destroys /\ Len(p[3].args) = 2
      BY <2>2, <2>7, <2>10
    <2>14. Protocol["wm_base"] = p
      BY <2>0, <2>1
    <2> QED
      BY <2>4, <2>12, <2>13, <2>14 DEF Makes1
  <1>14. /\ Makes1("xdg_surface", 2, 1, "toplevel")
         /\ Makes0("xdg_surface", 5, 1) /\ ~Protocol["xdg_surface"][5].destroys
         /\ Protocol["xdg_surface"][5].args[1].letter = "u"
    <2>1. Protocol["xdg_surface"] = Args(xdg_surface_requests, xdg_shell_types, {1})
      BY AllKinds DEF Protocol, Shell
    <2>2. /\ Len(xdg_surface_requests) = 5 /\ xdg_surface_requests[2].sig = <<"n">>
          /\ xdg_surface_requests[2].at = 7 /\ xdg_surface_requests[5].sig = <<"u">>
      BY DEF xdg_surface_requests, Msg
    <2>3. xdg_shell_types[8] = "toplevel"
      BY DEF xdg_shell_types
    <2>4. Len(<<"n">>) = 1 /\ <<"n">>[1] = "n" /\ Len(<<"u">>) = 1 /\ <<"u">>[1] = "u" /\ 2 \in 1..5 /\ 5 \in 1..5 /\ 7 + 1 = 8
      OBVIOUS
    <2>0. PICK p : p = Args(xdg_surface_requests, xdg_shell_types, {1})
      OBVIOUS
    <2>6. /\ 2 \in 1..Len(xdg_surface_requests) /\ 5 \in 1..Len(xdg_surface_requests)
          /\ Len(xdg_surface_requests) \in Nat
          /\ Len(xdg_surface_requests[2].sig) \in Nat /\ Len(xdg_surface_requests[5].sig) \in Nat
      BY <2>2, <2>4
    <2>7. /\ Len(p) = Len(xdg_surface_requests)
          /\ p[2].destroys <=> 2 = 1
          /\ Len(p[2].args) = Len(xdg_surface_requests[2].sig)
          /\ \A i \in 1..Len(xdg_surface_requests[2].sig) :
               p[2].args[i] = Arg(xdg_surface_requests[2].sig[i], xdg_shell_types[xdg_surface_requests[2].at + i])
      BY <2>0, <2>6, ArgsRead
    <2>8. /\ p[5].destroys <=> 5 = 1
          /\ Len(p[5].args) = Len(xdg_surface_requests[5].sig)
          /\ \A i \in 1..Len(xdg_surface_requests[5].sig) :
               p[5].args[i] = Arg(xdg_surface_requests[5].sig[i], xdg_shell_types[xdg_surface_requests[5].at + i])
      BY <2>0, <2>6, ArgsRead
    <2>9. xdg_surface_requests[2].at + 1 = 8
      BY <2>2
    <2>10. Arg(xdg_surface_requests[2].sig[1], xdg_shell_types[xdg_surface_requests[2].at + 1]) = Arg("n", "toplevel")
      BY <2>2, <2>3, <2>4, <2>9, Zenon
    <2>11. Len(xdg_surface_requests[2].sig) = 1 /\ Len(xdg_surface_requests[5].sig) = 1 /\ xdg_surface_requests[5].sig[1] = "u"
      BY <2>2, <2>4
    <2>12. 1 \in 1..Len(xdg_surface_requests[2].sig) /\ 1 \in 1..Len(xdg_surface_requests[5].sig)
      BY <2>11
    <2>13. p[2].args[1] = Arg("n", "toplevel")
      BY <2>7, <2>10, <2>12, Zenon
    <2>14. p[5].args[1].letter = "u"
      BY <2>8, <2>11, <2>12, ArgParts
    <2>15. Len(p) = 5 /\ ~p[2].destroys /\ Len(p[2].args) = 1 /\ ~p[5].destroys /\ Len(p[5].args) = 1
      BY <2>2, <2>7, <2>8, <2>11
    <2>16. Protocol["xdg_surface"] = p
      BY <2>0, <2>1
    <2> QED
      BY <2>4, <2>13, <2>14, <2>15, <2>16 DEF Makes1, Makes0
  <1> QED
    BY <1>7, <1>8, <1>9, <1>10, <1>11, <1>12, <1>13, <1>14

-----------------------------------------------------------------------------
(* The opening, line by line: what is bound has the ids from 4 to f - 1,   *)
(* the kind of each being K's; the window's surface has f.                 *)
Bindable == {globals[i] : i \in 1..Len(globals)}
(* The kind of the object with an id.                                      *)
KindAt(K, f, x) ==
  IF x \in 4..(f - 1) THEN K[x]
  ELSE CASE x = 1 -> "display" [] x = 2 -> "registry" [] x = f -> "surface"
         [] x = f + 1 -> "xdg_surface" [] x = f + 2 -> "toplevel" [] x = f + 3 -> "pool"
         [] x = f + 4 -> "buffer" [] OTHER -> K_NONE
(* The highest id after t lines, and what there is.                        *)
HighestAt(f, t) == IF t <= f + 1 THEN t + 1 ELSE IF t <= f + 4 THEN t ELSE f + 4
IdsAt(f, t) == (1..HighestAt(f, t)) \ ({3} \cup IF t >= f + 7 THEN {f + 4} ELSE {})

(* The message is this request; the bind of a global that is offered.      *)
Asks(m, object, opcode, args) ==
  m.whole = TRUE /\ m.object = object /\ m.opcode = opcode /\ m.args = args
Binds(o, m, kind, id) ==
  \E name \in 1..Len(o) : \E v \in 1..o[name].version :
    o[name].kind = kind /\ Asks(m, 2, 0, <<U(name), A("s", kind), U(v), A("n", id)>>)
Bought(K, f, x, kind) == x \in 4..(f - 1) /\ K[x] = kind
(* The p-th line of the opening.                                           *)
Line(o, K, f, p, m) ==
  /\ p = 1 => Asks(m, 1, 1, <<A("n", 2)>>)
  /\ p = 2 => Asks(m, 1, 0, <<A("n", 3)>>)
  /\ p \in 3..(f - 2) => Binds(o, m, K[p + 1], p + 1)
  /\ p = f - 1 => \E c : Bought(K, f, c, "compositor") /\ Asks(m, c, 0, <<A("n", f)>>)
  /\ p = f =>
       \E w : Bought(K, f, w, "wm_base") /\ Asks(m, w, 2, <<A("n", f + 1), A("o", f)>>)
  /\ p = f + 1 => Asks(m, f + 1, 1, <<A("n", f + 2)>>)
  /\ p = f + 2 => Asks(m, f + 1, 4, <<U(1)>>)
  /\ p = f + 3 =>
       \E s : Bought(K, f, s, "shm") /\ Asks(m, s, 0, <<A("n", f + 3), A("h", 0), U(0)>>)
  /\ p = f + 4 => Asks(m, f + 3, 0, <<A("n", f + 4), U(0), U(0), U(0), U(0), U(1)>>)
  /\ p = f + 5 => Asks(m, f, 1, <<A("O", f + 4), U(0), U(0)>>)
  /\ p = f + 6 => Asks(m, f, 6, << >>)
  /\ p = f + 7 => Asks(m, f + 4, 0, << >>)

(* The compositor when it has taken t lines.                               *)
WinFields == {"surface", "constructed", "given", "acked"}
WindowAt(f, t) ==
  /\ DOMAIN windows = {f + 1} /\ DOMAIN windows[f + 1] = WinFields
  /\ windows[f + 1].surface = f
  /\ t = f => windows[f + 1].constructed = FALSE
  /\ t > f => windows[f + 1].given = {1}
  /\ t > f + 1 => windows[f + 1].acked = TRUE
ResourcesAt(K, f, t) ==
  /\ DOMAIN resources = IdsAt(f, t) /\ \A x \in IdsAt(f, t) : resources[x] = KindAt(K, f, x)
  /\ highest = HighestAt(f, t)
WindowsAt(f, t) ==
  /\ t < f => DOMAIN windows = {}
  /\ t >= f => WindowAt(f, t)
  /\ serial = IF t > f THEN 1 ELSE 0
Served(K, f, t) == ResourcesAt(K, f, t) /\ WindowsAt(f, t)
(* What is on its way to it: the lines not taken yet come first.           *)
Queued(K, f, s, t) ==
  /\ s - t <= Len(toServer)
  /\ \A i \in 1..Len(toServer) :
       /\ toServer[i].opening => i <= s - t
       /\ i <= s - t => toServer[i].opening /\ Line(offered, K, f, t + i, toServer[i])

(* The fuzzer when it has sent s lines, and nothing else.                  *)
InOpening == opening /\ ~bad
(* Where the fuzzer is in its own code when it has sent s lines.           *)
PlaceAt(f, s) ==
  \/ phase = "globals" /\ f = 4 /\ s = f - 2 /\ next_id = f
  \/ phase = "binds" /\ s = f - 2 /\ next_id = f
  \/ phase = "window" /\ step = 1 /\ s = f - 2 /\ next_id = f
  \/ phase = "window" /\ step \in 2..5 /\ s = f + step - 3 /\ next_id = f + 3
  \/ phase = "window" /\ step \in 6..9 /\ s = f + step - 3 /\ next_id = f + 5
WinAt(K, f) ==
  phase = "window" /\ step > 1 =>
    /\ win.surface = f /\ win.xdg = f + 1 /\ win.top = f + 2
    /\ Bought(K, f, win.wm, "wm_base") /\ Bought(K, f, win.shm, "shm")
    /\ step > 5 => win.pool = f + 3 /\ win.buffer = f + 4
(* Its list has nothing but what the script made.                          *)
ListAt(K, f, s) ==
  /\ Len(objects) <= s
  /\ \A i \in 1..Len(objects) :
       /\ ~objects[i].dead /\ objects[i].id \in IdsAt(f, s)
       /\ objects[i].kind = KindAt(K, f, objects[i].id)
  /\ s >= f => Listed(f + 1)
(* What it heard, and is to hear: of no window but its own.                *)
Coming == \E i \in 1..Len(toClient) : toClient[i].op = "configure"
HeardAt(f, t) ==
  /\ \A i \in 1..Len(toClient) :
       /\ toClient[i].op \in {"global", "delete_id", "configure"}
       /\ toClient[i].op = "delete_id" => toClient[i].id = 3
       /\ toClient[i].op = "configure" => toClient[i].id = f + 1 /\ toClient[i].serial = 1 /\ t > f
  /\ last_serial \in {0, 1}
  /\ t > f => last_serial = 1 \/ Coming
SentAt(K, f, s, t) ==
  /\ s = t + Len(toServer) /\ s <= f + 6
  /\ PlaceAt(f, s) /\ WinAt(K, f) /\ ListAt(K, f, s) /\ HeardAt(f, t)

(* The opening so far.                                                     *)
Script(K, f, s, t) ==
  /\ K \in [Nat -> Bindable] /\ f \in 4..11 /\ s \in Nat /\ t \in Nat
  /\ t <= s /\ s <= f + 7
  /\ Served(K, f, t) /\ Queued(K, f, s, t)
  /\ InOpening => SentAt(K, f, s, t)

(* What a kind is bound as is what is offered under that name.             *)
GlobalsRight ==
  /\ \A k \in Kinds : global_name[k] # 0 =>
       /\ global_name[k] \in 1..Len(offered)
       /\ offered[global_name[k]].kind = k /\ offered[global_name[k]].version = global_version[k]
  /\ \A i \in 1..Len(toClient) : toClient[i].op = "global" =>
       /\ toClient[i].name \in 1..Len(offered)
       /\ toClient[i].kind = offered[toClient[i].name].kind
       /\ toClient[i].version = offered[toClient[i].name].version
Unfinished == InOpening \/ \E i \in 1..Len(toServer) : toServer[i].opening
(* The invariant: as long as some of the opening is not taken, there is a  *)
(* script it follows.                                                      *)
OpeningInv ==
  /\ refused # "opening"
  /\ refused = "not" /\ Unfinished => \E K, f, s, t : Script(K, f, s, t)
  /\ GlobalsRight
(* The list has room for all that is made up to the window's xdg_surface:  *)
(* two, seven binds, and two.  It is by the list that a configure is known *)
(* to be one.                                                              *)
EnoughRoom == MAX_OBJECTS >= 11

-----------------------------------------------------------------------------
(* The kinds there are in the opening.                                     *)
LEMMA KindsOfOpening ==
  /\ Bindable = {"compositor", "shm", "output", "wm_base", "seat", "deco_mgr", "ddm"}
  /\ Bindable \subseteq Kinds
  /\ \A K \in [Nat -> Bindable] : \A f \in 4..11 :
       /\ KindAt(K, f, 1) = "display" /\ KindAt(K, f, 2) = "registry"
       /\ \A x \in 4..(f - 1) : KindAt(K, f, x) = K[x] /\ K[x] \in Bindable
       /\ KindAt(K, f, f) = "surface" /\ KindAt(K, f, f + 1) = "xdg_surface"
       /\ KindAt(K, f, f + 2) = "toplevel" /\ KindAt(K, f, f + 3) = "pool"
       /\ KindAt(K, f, f + 4) = "buffer"
  <1>1. Len(globals) = 7 /\ 1..Len(globals) = {1, 2, 3, 4, 5, 6, 7}
    BY DEF globals
  <1>2. Bindable = {globals[1], globals[2], globals[3], globals[4], globals[5], globals[6], globals[7]}
    BY <1>1 DEF Bindable
  <1>3. Bindable = {"compositor", "shm", "output", "wm_base", "seat", "deco_mgr", "ddm"}
    BY <1>2 DEF globals
  <1>4. Bindable \subseteq Kinds
    BY <1>3, AllKinds
  <1>5. ASSUME NEW K \in [Nat -> Bindable], NEW f \in 4..11
        PROVE  /\ KindAt(K, f, 1) = "display" /\ KindAt(K, f, 2) = "registry"
               /\ \A x \in 4..(f - 1) : KindAt(K, f, x) = K[x] /\ K[x] \in Bindable
               /\ KindAt(K, f, f) = "surface" /\ KindAt(K, f, f + 1) = "xdg_surface"
               /\ KindAt(K, f, f + 2) = "toplevel" /\ KindAt(K, f, f + 3) = "pool"
               /\ KindAt(K, f, f + 4) = "buffer"
    BY DEF KindAt
  <1> QED
    BY <1>3, <1>4, <1>5

(* The ids there are, line by line.                                        *)
MakingLine(f, p) == p <= f + 1 \/ p = f + 3 \/ p = f + 4
(* Taking one line more, the ids are one more, or one less, or the same.   *)
LEMMA IdsStep ==
  ASSUME NEW f \in 4..11, NEW t \in Nat, t < f + 7
  PROVE  /\ HighestAt(f, t) \in Nat /\ HighestAt(f, t) <= f + 4 /\ 1 <= HighestAt(f, t)
         /\ MakingLine(f, t + 1) =>
              /\ HighestAt(f, t + 1) = HighestAt(f, t) + 1
              /\ HighestAt(f, t + 1) \notin IdsAt(f, t)
              /\ t # 1 => IdsAt(f, t + 1) = IdsAt(f, t) \cup {HighestAt(f, t + 1)}
              /\ t = 1 => IdsAt(f, t + 1) = IdsAt(f, t)
         /\ ~MakingLine(f, t + 1) => HighestAt(f, t + 1) = HighestAt(f, t)
         /\ t + 1 \in {f + 2, f + 5, f + 6} => IdsAt(f, t + 1) = IdsAt(f, t)
         /\ t + 1 = f + 7 => IdsAt(f, t + 1) = IdsAt(f, t) \ {f + 4}
  <1>1. f \in Nat /\ 4 <= f
    OBVIOUS
  <1>2. HighestAt(f, t) \in Nat /\ HighestAt(f, t) <= f + 4 /\ 1 <= HighestAt(f, t)
    BY <1>1 DEF HighestAt
  <1>3. ASSUME MakingLine(f, t + 1)
        PROVE  HighestAt(f, t + 1) = HighestAt(f, t) + 1 /\ t + 1 < f + 7
    BY <1>1, <1>3 DEF HighestAt, MakingLine
  <1>4. IdsAt(f, t) = (1..HighestAt(f, t)) \ {3}
    BY <1>1 DEF IdsAt
  <1>5. ASSUME t + 1 < f + 7
        PROVE  IdsAt(f, t + 1) = (1..HighestAt(f, t + 1)) \ {3}
    BY <1>1, <1>5 DEF IdsAt
  <1>6. ~MakingLine(f, t + 1) => HighestAt(f, t + 1) = HighestAt(f, t)
    BY <1>1 DEF HighestAt, MakingLine
  <1>7. t + 1 \in {f + 2, f + 5, f + 6} => IdsAt(f, t + 1) = IdsAt(f, t)
    BY <1>1, <1>4, <1>5, <1>6 DEF MakingLine
  <1>8. ASSUME t + 1 = f + 7
        PROVE  IdsAt(f, t + 1) = IdsAt(f, t) \ {f + 4}
    <2>1. IdsAt(f, t + 1) = (1..HighestAt(f, t + 1)) \ ({3} \cup {f + 4})
      BY <1>1, <1>8 DEF IdsAt
    <2>2. HighestAt(f, t + 1) = HighestAt(f, t)
      BY <1>1, <1>6, <1>8 DEF MakingLine
    <2> QED
      BY <1>4, <2>1, <2>2
  <1>9. ASSUME MakingLine(f, t + 1)
        PROVE  HighestAt(f, t + 1) \notin IdsAt(f, t)
    BY <1>2, <1>3, <1>4, <1>9
  <1>10. ASSUME MakingLine(f, t + 1), t # 1
         PROVE  IdsAt(f, t + 1) = IdsAt(f, t) \cup {HighestAt(f, t + 1)}
    <2>1. HighestAt(f, t + 1) # 3
      BY <1>1, <1>10 DEF HighestAt, MakingLine
    <2> QED
      BY <1>2, <1>3, <1>4, <1>5, <1>10, <2>1
  <1>11. ASSUME MakingLine(f, t + 1), t = 1
         PROVE  IdsAt(f, t + 1) = IdsAt(f, t)
    <2>1. HighestAt(f, t + 1) = 3 /\ HighestAt(f, t) = 2
      BY <1>1, <1>11 DEF HighestAt
    <2> QED
      BY <1>3, <1>4, <1>5, <1>11, <2>1
  <1> QED
    BY <1>2, <1>3, <1>6, <1>7, <1>8, <1>9, <1>10, <1>11

(* A request that is right, and what it makes.                             *)
Right(m, k, f) ==
  /\ k \in Kinds /\ m.opcode \in Nat /\ m.opcode + 1 \in 1..Len(Protocol[k])
  /\ m.whole = TRUE /\ m.object \in DOMAIN resources /\ resources[m.object] = k
  /\ f = Protocol[k][m.opcode + 1] /\ Len(f.args) <= Len(m.args)
  /\ \A i \in 1..Len(f.args) : Fits(f.args[i], m.args[i])
(* What the compositor reads the argument as.                              *)
Reads(m, k, f) ==
  /\ Decodes(m)
  /\ \A i \in 1..Len(f.args) : f.args[i].letter = "n" =>
       NewOf(m) = {<<m.args[i].value,
                     IF k = "registry" /\ m.opcode = 0 THEN m.args[2].value
                                                       ELSE f.args[i].kind>>}
  /\ (\A i \in 1..Len(f.args) : f.args[i].letter # "n") => NewOf(m) = {}
  /\ Gone(m) = (IF f.destroys THEN {m.object} ELSE {})
                 \cup (IF k = "display" /\ m.opcode = 0 THEN Made(m) ELSE {})
(* A right argument is read as what it is.                                 *)
LEMMA RightDecodes == \A m, k, f : Right(m, k, f) => Reads(m, k, f)
  <1> SUFFICES ASSUME NEW m, NEW k, NEW f, Right(m, k, f)
               PROVE  Reads(m, k, f)
    OBVIOUS
  <1>0. /\ k \in Kinds /\ m.opcode \in Nat /\ m.opcode + 1 \in 1..Len(Protocol[k])
        /\ m.whole = TRUE /\ m.object \in DOMAIN resources /\ resources[m.object] = k
        /\ f = Protocol[k][m.opcode + 1] /\ Len(f.args) <= Len(m.args)
        /\ \A i \in 1..Len(f.args) : Fits(f.args[i], m.args[i])
    BY DEF Right
  <1>1. Expected(m) = f
    BY <1>0 DEF Expected
  <1>2. Len(Protocol[k]) \in Nat /\ FormRight(k, f)
    BY <1>0, ProtocolRight
  <1>3. m.opcode < Len(Protocol[k])
    BY <1>0, <1>2
  <1>4. Decodes(m)
    BY <1>0, <1>1, <1>3 DEF Decodes
  <1> DEFINE Kind(i) == IF k = "registry" /\ m.opcode = 0 THEN m.args[2].value ELSE f.args[i].kind
             N == {j \in 1..Len(f.args) : f.args[j].letter = "n"}
  <1>5. NewOf(m) = {<<m.args[i].value, Kind(i)>> : i \in N}
    BY <1>0, <1>1 DEF NewOf, Is
  <1>6. ASSUME NEW i \in 1..Len(f.args), f.args[i].letter = "n"
        PROVE  N = {i}
    BY <1>2, <1>6 DEF FormRight
  <1>7. ASSUME NEW i \in 1..Len(f.args), f.args[i].letter = "n"
        PROVE  NewOf(m) = {<<m.args[i].value, Kind(i)>>}
    <2>1. N = {i}
      BY <1>6, <1>7
    <2> HIDE DEF N, Kind
    <2> QED
      BY <1>5, <2>1
  <1>8. ASSUME \A i \in 1..Len(f.args) : f.args[i].letter # "n"
        PROVE  NewOf(m) = {}
    <2>1. N = {}
      BY <1>8
    <2> HIDE DEF N, Kind
    <2> QED
      BY <1>5, <2>1
  <1>9. Gone(m) = (IF f.destroys THEN {m.object} ELSE {})
                    \cup (IF k = "display" /\ m.opcode = 0 THEN Made(m) ELSE {})
    BY <1>0, <1>1 DEF Gone, Is
  <1> QED
    BY <1>4, <1>7, <1>8, <1>9 DEF Reads

(* What there is after it.                                                 *)
LEMMA OneMade ==
  ASSUME NEW m, NEW x, NEW kind, NewOf(m) = {<<x, kind>>}
  PROVE  /\ Made(m) = {x}
         /\ Accept(m) =>
              /\ DOMAIN resources' = (DOMAIN resources \cup {x}) \ Gone(m)
              /\ \A y \in DOMAIN resources' : resources'[y] = IF y = x THEN kind ELSE resources[y]
              /\ highest' = IF x > highest THEN x ELSE highest
  <1>1. <<x, kind>>[1] = x /\ <<x, kind>>[2] = kind
    OBVIOUS
  <1>2. Made(m) = {x}
    BY <1>1 DEF Made
  <1>3. (CHOOSE n \in NewOf(m) : TRUE) = <<x, kind>>
    OBVIOUS
  <1>4. (CHOOSE id \in Made(m) : TRUE) = x
    BY <1>2
  <1>5. ASSUME Accept(m)
        PROVE  /\ DOMAIN resources' = (DOMAIN resources \cup {x}) \ Gone(m)
               /\ \A y \in DOMAIN resources' : resources'[y] = IF y = x THEN kind ELSE resources[y]
               /\ highest' = IF x > highest THEN x ELSE highest
    <2>1. resources' = [id \in (DOMAIN resources \cup Made(m)) \ Gone(m) |->
                          IF id \in Made(m) THEN (CHOOSE n \in NewOf(m) : TRUE)[2] ELSE resources[id]]
      BY <1>5 DEF Accept
    <2>2. resources' = [id \in (DOMAIN resources \cup {x}) \ Gone(m) |->
                          IF id = x THEN kind ELSE resources[id]]
      BY <1>1, <1>2, <1>3, <2>1
    <2>3. highest' = IF \E id \in Made(m) : id > highest THEN CHOOSE id \in Made(m) : TRUE ELSE highest
      BY <1>5 DEF Accept
    <2> QED
      BY <1>2, <1>4, <2>2, <2>3
  <1> QED
    BY <1>2, <1>5
(* And a request without one.                                              *)
LEMMA NothingMade ==
  ASSUME NEW m, NewOf(m) = {}
  PROVE  /\ Made(m) = {}
         /\ Accept(m) =>
              /\ DOMAIN resources' = DOMAIN resources \ Gone(m)
              /\ \A y \in DOMAIN resources' : resources'[y] = resources[y]
              /\ highest' = highest
  <1>1. Made(m) = {}
    BY DEF Made
  <1> QED
    BY <1>1 DEF Accept

-----------------------------------------------------------------------------
(* Arguments that are right.                                               *)
LEMMA RightFits ==
  /\ \A e, a : e.letter = "n" /\ a.letter = "n" /\ NewId(a.value) => Fits(e, a)
  /\ \A e, a : e.letter \in {"u", "i"} /\ a.letter = "u" => Fits(e, a)
  /\ \A e, a : e.letter = "s" /\ a.letter = "s" => Fits(e, a)
  /\ \A e, a : e.letter = "h" /\ a.letter = "h" => Fits(e, a)
  /\ \A e, a : e.letter = "o" /\ a.letter = "o" /\ Has(a.value, e.kind) => Fits(e, a)
  /\ \A e, a : e.letter = "?o" /\ a.letter = "O" /\ Has(a.value, e.kind) => Fits(e, a)
  BY DEF Fits, Class

(* The compositor in the middle of an opening, and what becomes of the     *)
(* line it takes next.                                                     *)
InScript(K, f, t) ==
  K \in [Nat -> Bindable] /\ f \in 4..11 /\ t \in Nat /\ t < f + 7 /\ Served(K, f, t)
(* A line is taken and leaves the compositor where the script has it next. *)
TakenSo(K, f, t, m) ==
  /\ Decodes(m) /\ Legal(m)
  /\ Accept(m) => Served(K, f, t + 1)'
  /\ Is(m, "xdg_surface", 1) <=> t = f
  /\ t = f => m.object = f + 1
  /\ t < f + 6 => Gone(m) \subseteq {3}
(* A line that makes an object.                                            *)
Making(K, f, t, m, k, op, size, made) ==
  /\ InScript(K, f, t) /\ MakingLine(f, t + 1)
  /\ k \in Kinds \ {"registry"} /\ size \in Nat \ {0} /\ Makes1(k, op, size, made)
  /\ m.whole = TRUE /\ m.opcode \in Nat /\ m.opcode + 1 = op
  /\ m.object \in IdsAt(f, t) /\ KindAt(K, f, m.object) = k
  /\ Len(m.args) = size /\ m.args[1] = A("n", HighestAt(f, t + 1))
  /\ \A i \in 2..size : Fits(Protocol[k][op].args[i], m.args[i])
  /\ t = 1 <=> k = "display" /\ m.opcode = 0
  /\ t # 1 => made = KindAt(K, f, HighestAt(f, t + 1))
(* Such a line is legal, and what it makes is the script's next object.    *)
LEMMA MakingTaken ==
  ASSUME NEW K, NEW f, NEW t, NEW m, NEW k, NEW op, NEW size, NEW made,
         Making(K, f, t, m, k, op, size, made)
  PROVE  /\ Decodes(m) /\ Gone(m) = IF t = 1 THEN {3} ELSE {}
         /\ Accept(m) => ResourcesAt(K, f, t + 1)'
  <1>0. /\ InScript(K, f, t) /\ MakingLine(f, t + 1)
        /\ k \in Kinds \ {"registry"} /\ size \in Nat \ {0} /\ Makes1(k, op, size, made)
        /\ m.whole = TRUE /\ m.opcode \in Nat /\ m.opcode + 1 = op
        /\ m.object \in IdsAt(f, t) /\ KindAt(K, f, m.object) = k
        /\ Len(m.args) = size /\ m.args[1] = A("n", HighestAt(f, t + 1))
        /\ \A i \in 2..size : Fits(Protocol[k][op].args[i], m.args[i])
        /\ t = 1 <=> k = "display" /\ m.opcode = 0
        /\ t # 1 => made = KindAt(K, f, HighestAt(f, t + 1))
    BY DEF Making
  <1>1. /\ f \in 4..11 /\ t \in Nat /\ t < f + 7
        /\ DOMAIN resources = IdsAt(f, t) /\ highest = HighestAt(f, t)
        /\ \A x \in IdsAt(f, t) : resources[x] = KindAt(K, f, x)
    BY <1>0 DEF InScript, Served, ResourcesAt
  <1>2. PICK x : x = HighestAt(f, t + 1)
    OBVIOUS
  <1>3. /\ highest \in Nat /\ 1 <= highest /\ x = highest + 1 /\ x \notin IdsAt(f, t)
        /\ t # 1 => IdsAt(f, t + 1) = IdsAt(f, t) \cup {x}
        /\ t = 1 => IdsAt(f, t + 1) = IdsAt(f, t)
    BY <1>0, <1>1, <1>2, IdsStep
  <1>4. NewId(x)
    BY <1>0, <1>1, <1>3 DEF NewId
  <1>5. PICK form : form = Protocol[k][op]
    OBVIOUS
  <1>6. op \in 1..Len(Protocol[k]) /\ Len(form.args) = size /\ ~form.destroys /\ form.args[1] = Arg("n", made)
    BY <1>0, <1>5 DEF Makes1
  <1>7. form.args[1].letter = "n" /\ form.args[1].kind = made
    BY <1>0, <1>6, ArgParts
  <1>8. m.args[1].letter = "n" /\ m.args[1].value = x
    BY <1>0, <1>2 DEF A
  <1>9. ASSUME NEW i \in 1..Len(form.args)
        PROVE  Fits(form.args[i], m.args[i])
    <2>1. i = 1 \/ i \in 2..size
      BY <1>0, <1>6
    <2>2. CASE i = 1
      BY <1>0, <1>4, <1>7, <1>8, <2>2, RightFits
    <2>3. CASE i \in 2..size
      BY <1>0, <1>5, <2>3
    <2> QED
      BY <1>0, <2>1, <2>2, <2>3
  <1>10. m.object \in DOMAIN resources /\ resources[m.object] = k
    BY <1>0, <1>1
  <1>11. 1 \in 1..Len(form.args) /\ Len(form.args) <= Len(m.args)
    BY <1>0, <1>6
  <1>12. /\ Decodes(m)
         /\ NewOf(m) = {<<x, made>>}
         /\ Gone(m) = {} \cup (IF k = "display" /\ m.opcode = 0 THEN Made(m) ELSE {})
    <2>1. form = Protocol[k][m.opcode + 1] /\ m.opcode + 1 \in 1..Len(Protocol[k])
      BY <1>0, <1>5, <1>6
    <2>2. Right(m, k, form)
      BY <1>0, <1>9, <1>10, <1>11, <2>1 DEF Right
    <2>3. Reads(m, k, form)
      BY <1>0, <2>2, RightDecodes
    <2>4. k # "registry"
      BY <1>0
    <2> QED
      BY <1>0, <1>6, <1>7, <1>8, <1>11, <2>3, <2>4 DEF Reads
  <1>13. Made(m) = {x}
    <2>1. NewOf(m) = {<<x, made>>}
      BY <1>12
    <2> QED
      BY <2>1, OneMade
  <1>14. t = 1 => x = 3
    BY <1>0, <1>1, <1>2 DEF HighestAt
  <1>15. Gone(m) = IF t = 1 THEN {3} ELSE {}
    BY <1>0, <1>12, <1>13, <1>14
  <1>16. ASSUME Accept(m)
         PROVE  ResourcesAt(K, f, t + 1)'
    <2>1. /\ DOMAIN resources' = (DOMAIN resources \cup {x}) \ Gone(m)
          /\ \A y \in DOMAIN resources' : resources'[y] = IF y = x THEN made ELSE resources[y]
          /\ highest' = IF x > highest THEN x ELSE highest
      BY <1>0, <1>12, <1>16, OneMade
    <2>2. highest' = x
      BY <1>0, <1>3, <2>1
    <2>3. DOMAIN resources' = IdsAt(f, t + 1)
      BY <1>0, <1>1, <1>3, <1>14, <1>15, <2>1
    <2>4. \A y \in IdsAt(f, t + 1) : resources'[y] = KindAt(K, f, y)
      <3>1. CASE t = 1
        BY <1>0, <1>1, <1>3, <2>1, <2>3, <3>1
      <3>2. CASE t # 1
        BY <1>0, <1>1, <1>2, <1>3, <2>1, <2>3, <3>2
      <3> QED
        BY <1>0, <3>1, <3>2
    <2> QED
      BY <1>0, <1>2, <2>2, <2>3, <2>4 DEF ResourcesAt
  <1> QED
    BY <1>0, <1>12, <1>15, <1>16
(* A line that makes none.                                                 *)
Keeping(K, f, t, m, k, op, size) ==
  /\ InScript(K, f, t) /\ ~MakingLine(f, t + 1)
  /\ k \in Kinds \ {"display"} /\ size \in Nat /\ Makes0(k, op, size)
  /\ \A i \in 1..size : Protocol[k][op].args[i].letter # "n"
  /\ m.whole = TRUE /\ m.opcode \in Nat /\ m.opcode + 1 = op
  /\ m.object \in IdsAt(f, t) /\ KindAt(K, f, m.object) = k /\ Len(m.args) = size
  /\ \A i \in 1..size : Fits(Protocol[k][op].args[i], m.args[i])
  /\ Protocol[k][op].destroys <=> t = f + 6
  /\ t = f + 6 => m.object = f + 4
(* Such a line is legal too, and leaves the objects, but for the one it    *)
(* destroys.                                                               *)
LEMMA KeepingTaken ==
  ASSUME NEW K, NEW f, NEW t, NEW m, NEW k, NEW op, NEW size, Keeping(K, f, t, m, k, op, size)
  PROVE  /\ Decodes(m) /\ Gone(m) = IF t = f + 6 THEN {f + 4} ELSE {}
         /\ Accept(m) => ResourcesAt(K, f, t + 1)'
  <1>0. /\ InScript(K, f, t) /\ ~MakingLine(f, t + 1)
        /\ k \in Kinds \ {"display"} /\ size \in Nat /\ Makes0(k, op, size)
        /\ \A i \in 1..size : Protocol[k][op].args[i].letter # "n"
        /\ m.whole = TRUE /\ m.opcode \in Nat /\ m.opcode + 1 = op
        /\ m.object \in IdsAt(f, t) /\ KindAt(K, f, m.object) = k /\ Len(m.args) = size
        /\ \A i \in 1..size : Fits(Protocol[k][op].args[i], m.args[i])
        /\ Protocol[k][op].destroys <=> t = f + 6
        /\ t = f + 6 => m.object = f + 4
    BY DEF Keeping
  <1>1. /\ f \in 4..11 /\ t \in Nat /\ t < f + 7
        /\ DOMAIN resources = IdsAt(f, t) /\ highest = HighestAt(f, t)
        /\ \A x \in IdsAt(f, t) : resources[x] = KindAt(K, f, x)
    BY <1>0 DEF InScript, Served, ResourcesAt
  <1>2. PICK form : form = Protocol[k][op]
    OBVIOUS
  <1>3. op \in 1..Len(Protocol[k]) /\ Len(form.args) = size
    BY <1>0, <1>2 DEF Makes0
  <1>4. m.object \in DOMAIN resources /\ resources[m.object] = k
    BY <1>0, <1>1
  <1>5. /\ Decodes(m) /\ NewOf(m) = {}
        /\ Gone(m) = (IF form.destroys THEN {m.object} ELSE {})
                       \cup (IF k = "display" /\ m.opcode = 0 THEN Made(m) ELSE {})
    <2>1. form = Protocol[k][m.opcode + 1] /\ m.opcode + 1 \in 1..Len(Protocol[k])
      BY <1>0, <1>2, <1>3
    <2>2. \A i \in 1..Len(form.args) : Fits(form.args[i], m.args[i]) /\ form.args[i].letter # "n"
      BY <1>0, <1>2, <1>3
    <2>3. Right(m, k, form)
      BY <1>0, <1>3, <1>4, <2>1, <2>2 DEF Right
    <2>4. Reads(m, k, form)
      BY <1>0, <2>3, RightDecodes
    <2> QED
      BY <1>0, <2>2, <2>4 DEF Reads
  <1>6. Gone(m) = IF t = f + 6 THEN {f + 4} ELSE {}
    BY <1>0, <1>2, <1>5
  <1>7. ASSUME Accept(m)
        PROVE  ResourcesAt(K, f, t + 1)'
    <2>1. /\ DOMAIN resources' = DOMAIN resources \ Gone(m)
          /\ \A y \in DOMAIN resources' : resources'[y] = resources[y]
          /\ highest' = highest
      BY <1>0, <1>5, <1>7, NothingMade
    <2>2. t + 1 \in {f + 2, f + 5, f + 6} \/ t = f + 6
      <3>1. ~(t + 1 <= f + 1 \/ t + 1 = f + 3 \/ t + 1 = f + 4)
        BY <1>0 DEF MakingLine
      <3>2. t = f + 1 \/ t = f + 4 \/ t = f + 5 \/ t = f + 6
        BY <1>0, <1>1, <3>1
      <3> QED
        BY <1>0, <1>1, <3>2, SMTT(30)
    <2>3. HighestAt(f, t + 1) = HighestAt(f, t)
      BY <1>0, <1>1, IdsStep
    <2>4. IdsAt(f, t + 1) = IdsAt(f, t) \ Gone(m)
      <3>1. CASE t = f + 6
        <4>1. t + 1 = f + 7
          BY <1>0, <1>1, <3>1
        <4> QED
          BY <1>0, <1>1, <1>6, <3>1, <4>1, IdsStep
      <3>2. CASE t # f + 6
        BY <1>0, <1>1, <1>6, <2>2, <3>2, IdsStep
      <3> QED
        BY <1>0, <3>1, <3>2
    <2>5. \A y \in IdsAt(f, t + 1) : resources'[y] = KindAt(K, f, y)
      BY <1>0, <1>1, <2>1, <2>4
    <2> QED
      BY <1>0, <1>1, <2>1, <2>3, <2>4, <2>5 DEF ResourcesAt
  <1> QED
    BY <1>0, <1>5, <1>6, <1>7

(* A line that is about no window leaves them.                             *)
NoWindow(m) ==
  /\ ~Is(m, "wm_base", 2) /\ ~Is(m, "xdg_surface", 1) /\ ~Is(m, "xdg_surface", 2)
  /\ ~Is(m, "xdg_surface", 4)
(* The windows are as they were when a line is about none.                 *)
LEMMA WindowsKept ==
  ASSUME NEW f \in 4..11, NEW t \in Nat, WindowsAt(f, t), NEW m, NoWindow(m), Accept(m),
         t # f - 1, t # f, t # f + 1
  PROVE  WindowsAt(f, t + 1)'
  <1>1. windows' = windows /\ serial' = serial
    BY DEF Accept, NoWindow
  <1>2. t < f - 1 \/ t > f + 1
    OBVIOUS
  <1> QED
    BY <1>1, <1>2 DEF WindowsAt, WindowAt

-----------------------------------------------------------------------------
(* The lines one by one.  Every one of them is taken.                      *)
LEMMA RegistryLine ==
  ASSUME NEW K, NEW f, NEW t, InScript(K, f, t), t = 0, NEW m, Line(offered, K, f, t + 1, m)
  PROVE  TakenSo(K, f, t, m)
  <1>1. /\ K \in [Nat -> Bindable] /\ f \in 4..11 /\ Served(K, f, t)
        /\ ResourcesAt(K, f, t) /\ WindowsAt(f, t)
    BY DEF InScript, Served
  <1>2. Asks(m, 1, 1, <<A("n", 2)>>)
    BY <1>1 DEF Line
  <1>3. m.whole = TRUE /\ m.object = 1 /\ m.opcode = 1 /\ Len(m.args) = 1 /\ m.args[1] = A("n", 2)
    BY <1>2 DEF Asks
  <1>4. HighestAt(f, t + 1) = 2 /\ MakingLine(f, t + 1) /\ 1 \in IdsAt(f, t)
    BY <1>1 DEF HighestAt, MakingLine, IdsAt
  <1>5. /\ KindAt(K, f, 1) = "display" /\ KindAt(K, f, 2) = "registry"
        /\ "display" \in Kinds \ {"registry"}
    BY <1>1, KindsOfOpening, AllKinds
  <1>6. resources[1] = "display"
    BY <1>1, <1>4, <1>5 DEF ResourcesAt
  <1>7. Makes1("display", 2, 1, "registry")
    BY OpeningForms
  <1>8. Decodes(m) /\ Gone(m) = {} /\ (Accept(m) => ResourcesAt(K, f, t + 1)')
    <2>1. \A i \in 2..1 : Fits(Protocol["display"][2].args[i], m.args[i])
      OBVIOUS
    <2>2. t # 1 /\ m.opcode + 1 = 2 /\ m.opcode # 0 /\ m.opcode \in Nat /\ 1 \in Nat \ {0}
      BY <1>3
    <2>3. Making(K, f, t, m, "display", 2, 1, "registry")
      BY <1>3, <1>4, <1>5, <1>7, <2>1, <2>2 DEF Making
    <2> QED
      BY <2>2, <2>3, MakingTaken
  <1>9. NoWindow(m) /\ Legal(m)
    BY <1>3, <1>6 DEF NoWindow, Legal, Is
  <1>10. Accept(m) => Served(K, f, t + 1)'
    BY <1>1, <1>8, <1>9, WindowsKept DEF Served
  <1> QED
    BY <1>1, <1>8, <1>9, <1>10 DEF TakenSo, NoWindow

(* sync: the callback has id 3, and is gone when it is answered.           *)
LEMMA SyncLine ==
  ASSUME NEW K, NEW f, NEW t, InScript(K, f, t), t = 1, NEW m, Line(offered, K, f, t + 1, m)
  PROVE  TakenSo(K, f, t, m)
  <1>1. /\ K \in [Nat -> Bindable] /\ f \in 4..11 /\ Served(K, f, t)
        /\ ResourcesAt(K, f, t) /\ WindowsAt(f, t)
    BY DEF InScript, Served
  <1>2. Asks(m, 1, 0, <<A("n", 3)>>)
    BY <1>1 DEF Line
  <1>3. m.whole = TRUE /\ m.object = 1 /\ m.opcode = 0 /\ Len(m.args) = 1 /\ m.args[1] = A("n", 3)
    BY <1>2 DEF Asks
  <1>4. HighestAt(f, t + 1) = 3 /\ MakingLine(f, t + 1) /\ 1 \in IdsAt(f, t)
    BY <1>1 DEF HighestAt, MakingLine, IdsAt
  <1>5. KindAt(K, f, 1) = "display" /\ "display" \in Kinds \ {"registry"}
    BY <1>1, KindsOfOpening, AllKinds
  <1>6. resources[1] = "display"
    BY <1>1, <1>4, <1>5 DEF ResourcesAt
  <1>7. Makes1("display", 1, 1, "callback")
    BY OpeningForms
  <1>8. Decodes(m) /\ Gone(m) = {3} /\ (Accept(m) => ResourcesAt(K, f, t + 1)')
    <2>1. \A i \in 2..1 : Fits(Protocol["display"][1].args[i], m.args[i])
      OBVIOUS
    <2>2. m.opcode + 1 = 1 /\ m.opcode \in Nat /\ 1 \in Nat \ {0}
      BY <1>3
    <2>3. t = 1 <=> "display" = "display" /\ m.opcode = 0
      BY <1>3
    <2>4. KindAt(K, f, m.object) = "display" /\ m.object \in IdsAt(f, t)
          /\ m.args[1] = A("n", HighestAt(f, t + 1))
      BY <1>3, <1>4, <1>5
    <2>5. Making(K, f, t, m, "display", 1, 1, "callback")
      BY <1>3, <1>4, <1>5, <1>7, <2>1, <2>2, <2>3, <2>4 DEF Making
    <2> QED
      BY <2>5, MakingTaken
  <1>9. NoWindow(m) /\ Legal(m)
    BY <1>3, <1>6 DEF NoWindow, Legal, Is
  <1>10. Accept(m) => Served(K, f, t + 1)'
    BY <1>1, <1>8, <1>9, WindowsKept DEF Served
  <1> QED
    BY <1>1, <1>8, <1>9, <1>10 DEF TakenSo, NoWindow

(* A bind of what is offered.                                              *)
LEMMA BindLine ==
  ASSUME NEW K, NEW f, NEW t, InScript(K, f, t), t + 1 \in 3..(f - 2), NEW m, Line(offered, K, f, t + 1, m)
  PROVE  TakenSo(K, f, t, m)
  <1>1. /\ K \in [Nat -> Bindable] /\ f \in 4..11 /\ t \in Nat /\ t < f + 7 /\ Served(K, f, t)
        /\ ResourcesAt(K, f, t) /\ WindowsAt(f, t)
    BY DEF InScript, Served
  <1>2. PICK x : x = t + 2
    OBVIOUS
  <1>3. Binds(offered, m, K[x], x)
    <2>1. t + 1 + 1 = x
      BY <1>1, <1>2
    <2> QED
      BY <2>1 DEF Line
  <1>4. PICK name \in 1..Len(offered) : \E v \in 1..offered[name].version :
          offered[name].kind = K[x] /\ Asks(m, 2, 0, <<U(name), A("s", K[x]), U(v), A("n", x)>>)
    BY <1>3 DEF Binds
  <1>5. PICK v \in 1..offered[name].version :
          offered[name].kind = K[x] /\ Asks(m, 2, 0, <<U(name), A("s", K[x]), U(v), A("n", x)>>)
    BY <1>4
  <1>6. /\ m.whole = TRUE /\ m.object = 2 /\ m.opcode = 0 /\ Len(m.args) = 4
        /\ m.args[1] = U(name) /\ m.args[2] = A("s", K[x]) /\ m.args[3] = U(v) /\ m.args[4] = A("n", x)
    BY <1>5 DEF Asks
  <1>7. /\ m.args[1].letter = "u" /\ m.args[1].value = name
        /\ m.args[2].letter = "s" /\ m.args[2].value = K[x]
        /\ m.args[3].letter = "u" /\ m.args[3].value = v
        /\ m.args[4].letter = "n" /\ m.args[4].value = x
    BY <1>6 DEF A, U
  <1>8. HighestAt(f, t + 1) = x /\ HighestAt(f, t) = t + 1 /\ 2 \in IdsAt(f, t) /\ x \in 4..(f - 1) /\ t # 1
    BY <1>1, <1>2 DEF HighestAt, IdsAt
  <1>9. highest = t + 1 /\ x \notin IdsAt(f, t) /\ IdsAt(f, t + 1) = IdsAt(f, t) \cup {x}
    <2>1. MakingLine(f, t + 1)
      BY <1>1 DEF MakingLine
    <2>2. x \notin IdsAt(f, t) /\ IdsAt(f, t + 1) = IdsAt(f, t) \cup {x}
      BY <1>1, <1>8, <2>1, IdsStep, ZenonT(30)
    <2> QED
      BY <1>1, <1>8, <2>2 DEF ResourcesAt
  <1>10. KindAt(K, f, 2) = "registry" /\ KindAt(K, f, x) = K[x] /\ "registry" \in Kinds
    <2>1. "registry" \in Kinds
      BY AllKinds
    <2>3. KindAt(K, f, 2) = "registry"
      BY <1>1, KindsOfOpening, SMTT(30)
    <2>4. KindAt(K, f, x) = K[x]
      BY <1>8 DEF KindAt
    <2> QED
      BY <2>1, <2>3, <2>4
  <1>11. 2 \in DOMAIN resources /\ resources[2] = "registry" /\ NewId(x)
    BY <1>1, <1>2, <1>8, <1>9, <1>10 DEF ResourcesAt, NewId
  <1>12. PICK form : form = Protocol["registry"][1]
    OBVIOUS
  <1>13. /\ 1 \in 1..Len(Protocol["registry"]) /\ Len(form.args) = 4 /\ ~form.destroys
         /\ form.args[1].letter = "u" /\ form.args[2].letter = "s" /\ form.args[3].letter = "u"
         /\ form.args[4].letter = "n"
    BY <1>12, OpeningForms DEF Makes0
  <1>14. \A i \in 1..4 : Fits(form.args[i], m.args[i])
    <2>1. Fits(form.args[1], m.args[1]) /\ Fits(form.args[3], m.args[3])
      BY <1>7, <1>13, RightFits
    <2>2. Fits(form.args[2], m.args[2])
      BY <1>7, <1>13, RightFits
    <2>3. Fits(form.args[4], m.args[4])
      BY <1>7, <1>11, <1>13, RightFits
    <2> QED
      BY <2>1, <2>2, <2>3
  <1>15. Decodes(m) /\ NewOf(m) = {<<x, K[x]>>} /\ Gone(m) = {}
    <2>1. /\ m.opcode \in Nat /\ m.opcode + 1 = 1 /\ m.opcode + 1 \in 1..Len(Protocol["registry"])
          /\ form = Protocol["registry"][m.opcode + 1] /\ Len(form.args) <= Len(m.args)
          /\ m.object \in DOMAIN resources /\ resources[m.object] = "registry"
          /\ 4 \in 1..Len(form.args)
      BY <1>6, <1>11, <1>12, <1>13
    <2>2. \A i \in 1..Len(form.args) : Fits(form.args[i], m.args[i])
      BY <1>13, <1>14
    <2>3. Right(m, "registry", form)
      BY <1>6, <1>10, <2>1, <2>2 DEF Right
    <2>4. Reads(m, "registry", form)
      BY <2>3, RightDecodes
    <2>5. NewOf(m) = {<<m.args[4].value, m.args[2].value>>}
      BY <1>6, <1>13, <2>1, <2>4 DEF Reads
    <2> QED
      BY <1>7, <1>13, <2>4, <2>5 DEF Reads
  <1>16. Accept(m) => ResourcesAt(K, f, t + 1)'
    <2> SUFFICES ASSUME Accept(m)
                 PROVE  ResourcesAt(K, f, t + 1)'
      OBVIOUS
    <2>1. /\ DOMAIN resources' = (DOMAIN resources \cup {x}) \ Gone(m)
          /\ \A y \in DOMAIN resources' : resources'[y] = IF y = x THEN K[x] ELSE resources[y]
          /\ highest' = IF x > highest THEN x ELSE highest
      BY <1>15, OneMade
    <2>2. highest' = x
      BY <1>1, <1>2, <1>9, <2>1
    <2>3. DOMAIN resources' = IdsAt(f, t + 1)
      BY <1>1, <1>9, <1>15, <2>1 DEF ResourcesAt
    <2>4. \A y \in IdsAt(f, t + 1) : resources'[y] = KindAt(K, f, y)
      BY <1>1, <1>9, <1>10, <2>1, <2>3 DEF ResourcesAt
    <2> QED
      BY <1>8, <2>2, <2>3, <2>4 DEF ResourcesAt
  <1>17. NoWindow(m)
    BY <1>6, <1>11 DEF NoWindow, Is
  <1>18. Legal(m)
    BY <1>5, <1>6, <1>7, <1>11 DEF Legal, Is
  <1>19. Accept(m) => Served(K, f, t + 1)'
    BY <1>1, <1>16, <1>17, WindowsKept DEF Served
  <1> QED
    BY <1>1, <1>15, <1>17, <1>18, <1>19 DEF TakenSo, NoWindow

-----------------------------------------------------------------------------
(* The window's lines: the ids there are.                                  *)
LEMMA IdsIn ==
  ASSUME NEW f \in 4..11, NEW t \in Nat, t < f + 7
  PROVE  /\ t >= f - 2 => \A x \in 4..(f - 1) : x \in IdsAt(f, t)
         /\ t >= f - 1 => f \in IdsAt(f, t)
         /\ t >= f => f + 1 \in IdsAt(f, t)
         /\ t >= f + 3 => f + 3 \in IdsAt(f, t)
         /\ t >= f + 4 => f + 4 \in IdsAt(f, t)
         /\ HighestAt(f, f - 1) = f /\ HighestAt(f, f) = f + 1 /\ HighestAt(f, f + 1) = f + 2
         /\ HighestAt(f, f + 3) = f + 3 /\ HighestAt(f, f + 4) = f + 4
  <1>1. f \in Nat /\ 4 <= f
    OBVIOUS
  <1>2. IdsAt(f, t) = (1..HighestAt(f, t)) \ {3}
    BY <1>1 DEF IdsAt
  <1>3. /\ t >= f - 2 => HighestAt(f, t) >= f - 1
        /\ t >= f - 1 => HighestAt(f, t) >= f
        /\ t >= f => HighestAt(f, t) >= f + 1
        /\ t >= f + 3 => HighestAt(f, t) >= f + 3
        /\ t >= f + 4 => HighestAt(f, t) >= f + 4
        /\ HighestAt(f, t) \in Nat
    BY <1>1 DEF HighestAt
  <1>4. /\ HighestAt(f, f - 1) = f /\ HighestAt(f, f) = f + 1 /\ HighestAt(f, f + 1) = f + 2
        /\ HighestAt(f, f + 3) = f + 3 /\ HighestAt(f, f + 4) = f + 4
    BY <1>1 DEF HighestAt
  <1> QED
    BY <1>1, <1>2, <1>3, <1>4

(* create_surface.                                                         *)
LEMMA SurfaceLine ==
  ASSUME NEW K, NEW f, NEW t, InScript(K, f, t), t = f - 2, NEW m, Line(offered, K, f, t + 1, m)
  PROVE  TakenSo(K, f, t, m)
  <1>1. /\ K \in [Nat -> Bindable] /\ f \in 4..11 /\ t \in Nat /\ t < f + 7 /\ Served(K, f, t)
        /\ ResourcesAt(K, f, t) /\ WindowsAt(f, t) /\ t + 1 = f - 1
    BY DEF InScript, Served
  <1>2. PICK c : Bought(K, f, c, "compositor") /\ Asks(m, c, 0, <<A("n", f)>>)
    BY <1>1 DEF Line
  <1>3. c \in IdsAt(f, t) /\ KindAt(K, f, c) = "compositor"
    <2>1. c \in 4..(f - 1) /\ K[c] = "compositor"
      BY <1>2 DEF Bought
    <2>2. c \in IdsAt(f, t)
      BY <1>1, <2>1, IdsIn
    <2> QED
      BY <2>1, <2>2 DEF KindAt
  <1>4. /\ m.whole = TRUE /\ m.object = c /\ m.opcode = 0 /\ Len(m.args) = 1
        /\ m.args[1] = A("n", f)
    BY <1>2 DEF Asks
  <1>5. c \in DOMAIN resources /\ resources[c] = "compositor"
    BY <1>1, <1>3 DEF ResourcesAt
  <1>6. \A i \in 2..1 : Fits(Protocol["compositor"][1].args[i], m.args[i])
    OBVIOUS
  <1>7. Decodes(m) /\ Gone(m) = {} /\ (Accept(m) => ResourcesAt(K, f, t + 1)')
    <2>1. "compositor" \in Kinds \ {"registry"} /\ Makes1("compositor", 1, 1, "surface")
      BY AllKinds, OpeningForms
    <2>2. HighestAt(f, t + 1) = f /\ KindAt(K, f, HighestAt(f, t + 1)) = "surface"
      BY <1>1, IdsIn, KindsOfOpening
    <2>3. t # 1 /\ MakingLine(f, t + 1) /\ m.opcode + 1 = 1 /\ m.opcode \in Nat /\ 1 \in Nat \ {0}
      BY <1>1, <1>4 DEF MakingLine
    <2>4. Making(K, f, t, m, "compositor", 1, 1, "surface")
      BY <1>3, <1>4, <1>6, <2>1, <2>2, <2>3 DEF Making
    <2> QED
      BY <2>3, <2>4, MakingTaken
  <1>8. NoWindow(m)
    BY <1>4, <1>5 DEF NoWindow, Is
  <1>9. Legal(m)
    BY <1>4, <1>5 DEF Legal, Is
  <1>10. Accept(m) => WindowsAt(f, t + 1)'
    <2>1. t # f - 1 /\ t # f /\ t # f + 1
      BY <1>1
    <2> QED
      BY <1>1, <1>8, <2>1, WindowsKept
  <1>11. ~Is(m, "xdg_surface", 1) /\ t # f
    BY <1>1, <1>8 DEF NoWindow
  <1>12. Accept(m) => Served(K, f, t + 1)'
    BY <1>7, <1>10 DEF Served
  <1> QED
    BY <1>1, <1>7, <1>9, <1>11, <1>12 DEF TakenSo

(* get_xdg_surface: the surface has no window yet.                         *)
LEMMA XdgSurfaceLine ==
  ASSUME NEW K, NEW f, NEW t, InScript(K, f, t), t = f - 1, NEW m, Line(offered, K, f, t + 1, m)
  PROVE  TakenSo(K, f, t, m)
  <1>1. /\ K \in [Nat -> Bindable] /\ f \in 4..11 /\ t \in Nat /\ t < f + 7 /\ Served(K, f, t)
        /\ ResourcesAt(K, f, t) /\ WindowsAt(f, t) /\ t + 1 = f
    BY DEF InScript, Served
  <1>2. PICK w : Bought(K, f, w, "wm_base") /\ Asks(m, w, 2, <<A("n", f + 1), A("o", f)>>)
    BY <1>1 DEF Line
  <1>3. w \in IdsAt(f, t) /\ KindAt(K, f, w) = "wm_base"
    <2>1. w \in 4..(f - 1) /\ K[w] = "wm_base"
      BY <1>2 DEF Bought
    <2>2. w \in IdsAt(f, t)
      BY <1>1, <2>1, IdsIn
    <2> QED
      BY <2>1, <2>2 DEF KindAt
  <1>4. /\ m.whole = TRUE /\ m.object = w /\ m.opcode = 2 /\ Len(m.args) = 2
        /\ m.args[1] = A("n", f + 1) /\ m.args[2] = A("o", f)
    BY <1>2 DEF Asks
  <1>5. w \in DOMAIN resources /\ resources[w] = "wm_base"
    BY <1>1, <1>3 DEF ResourcesAt
  <1>6. \A i \in 2..2 : Fits(Protocol["wm_base"][3].args[i], m.args[i])
    <2>1. Fits(Protocol["wm_base"][3].args[2], m.args[2])
      <3>1. Has(f, "surface")
        BY <1>1, IdsIn, KindsOfOpening DEF Has, ResourcesAt
      <3>2. m.args[2].letter = "o" /\ m.args[2].value = f
        BY <1>4 DEF A
      <3>3. Protocol["wm_base"][3].args[2].letter = "o" /\ Protocol["wm_base"][3].args[2].kind = "surface"
        BY OpeningForms, ArgParts
      <3> QED
        BY <3>1, <3>2, <3>3, RightFits
    <2> QED
      BY <2>1
  <1>7. Decodes(m) /\ Gone(m) = {} /\ (Accept(m) => ResourcesAt(K, f, t + 1)')
    <2>1. "wm_base" \in Kinds \ {"registry"} /\ Makes1("wm_base", 3, 2, "xdg_surface")
      BY AllKinds, OpeningForms
    <2>2. HighestAt(f, t + 1) = f + 1 /\ KindAt(K, f, HighestAt(f, t + 1)) = "xdg_surface"
      BY <1>1, IdsIn, KindsOfOpening
    <2>3. t # 1 /\ MakingLine(f, t + 1) /\ m.opcode + 1 = 3 /\ m.opcode \in Nat /\ 2 \in Nat \ {0}
      BY <1>1, <1>4 DEF MakingLine
    <2>4. Making(K, f, t, m, "wm_base", 3, 2, "xdg_surface")
      BY <1>3, <1>4, <1>6, <2>1, <2>2, <2>3 DEF Making
    <2> QED
      BY <2>3, <2>4, MakingTaken
  <1>8. m.args[2].value = f /\ DOMAIN windows = {} /\ serial = 0
    BY <1>1, <1>4 DEF A, WindowsAt
  <1>9. Legal(m)
    BY <1>4, <1>5, <1>8 DEF Legal, Is
  <1>10. Accept(m) => WindowsAt(f, t + 1)'
    <2> SUFFICES ASSUME Accept(m)
                 PROVE  WindowsAt(f, t + 1)'
      OBVIOUS
    <2>1. Made(m) = {f + 1}
      <3>1. Protocol["wm_base"][3].args[1].letter = "n" /\ Protocol["wm_base"][3].args[2].letter = "o"
            /\ Len(Protocol["wm_base"][3].args) = 2
        BY OpeningForms, ArgParts DEF Makes1
      <3>2. PICK form : form = Protocol["wm_base"][3]
        OBVIOUS
      <3>3. Expected(m) = form /\ m.args[1].value = f + 1
        <4>1. m.opcode + 1 = 3
          BY <1>4
        <4>2. resources[m.object] = "wm_base"
          BY <1>4, <1>5
        <4> QED
          BY <1>4, <3>2, <4>1, <4>2 DEF Expected, A
      <3> QED
        BY <3>1, <3>2, <3>3, MadeParts, SMTT(30)
    <2>2. PICK new : new = [surface |-> f, constructed |-> FALSE, given |-> {}, acked |-> FALSE]
      OBVIOUS
    <2>3. /\ windows' = [x \in DOMAIN windows \cup Made(m) |->
                          IF x \in Made(m) THEN [surface |-> m.args[2].value, constructed |-> FALSE,
                                                 given |-> {}, acked |-> FALSE]
                                           ELSE windows[x]]
          /\ serial' = serial
      BY <1>4, <1>5 DEF Accept, Is
    <2>4. DOMAIN windows' = {f + 1} /\ windows'[f + 1] = new
      BY <1>8, <2>1, <2>2, <2>3
    <2>5. DOMAIN new = WinFields /\ new.surface = f /\ new.constructed = FALSE
      BY <2>2 DEF WinFields
    <2> QED
      BY <1>1, <1>8, <2>3, <2>4, <2>5 DEF WindowsAt, WindowAt
  <1>11. ~Is(m, "xdg_surface", 1) /\ t # f
    BY <1>1, <1>4, <1>5 DEF Is
  <1>12. Accept(m) => Served(K, f, t + 1)'
    BY <1>7, <1>10 DEF Served
  <1> QED
    BY <1>1, <1>7, <1>9, <1>11, <1>12 DEF TakenSo

(* get_toplevel: the surface has no role yet, and is sent its first        *)
(* configure.                                                              *)
LEMMA ToplevelLine ==
  ASSUME NEW K, NEW f, NEW t, InScript(K, f, t), t = f, NEW m, Line(offered, K, f, t + 1, m)
  PROVE  TakenSo(K, f, t, m)
  <1>1. /\ K \in [Nat -> Bindable] /\ f \in 4..11 /\ t \in Nat /\ t < f + 7 /\ Served(K, f, t)
        /\ ResourcesAt(K, f, t) /\ WindowsAt(f, t) /\ t + 1 = f + 1
    BY DEF InScript, Served
  <1>2. Asks(m, f + 1, 1, <<A("n", f + 2)>>)
    BY <1>1 DEF Line
  <1>3. f + 1 \in IdsAt(f, t) /\ KindAt(K, f, f + 1) = "xdg_surface"
    BY <1>1, IdsIn, KindsOfOpening
  <1>4. /\ m.whole = TRUE /\ m.object = f + 1 /\ m.opcode = 1 /\ Len(m.args) = 1
        /\ m.args[1] = A("n", f + 2)
    BY <1>2 DEF Asks
  <1>5. f + 1 \in DOMAIN resources /\ resources[f + 1] = "xdg_surface"
    BY <1>1, <1>3 DEF ResourcesAt
  <1>6. \A i \in 2..1 : Fits(Protocol["xdg_surface"][2].args[i], m.args[i])
    OBVIOUS
  <1>7. Decodes(m) /\ Gone(m) = {} /\ (Accept(m) => ResourcesAt(K, f, t + 1)')
    <2>1. "xdg_surface" \in Kinds \ {"registry"} /\ Makes1("xdg_surface", 2, 1, "toplevel")
      BY AllKinds, OpeningForms
    <2>2. HighestAt(f, t + 1) = f + 2 /\ KindAt(K, f, HighestAt(f, t + 1)) = "toplevel"
      BY <1>1, IdsIn, KindsOfOpening
    <2>3. t # 1 /\ MakingLine(f, t + 1) /\ m.opcode + 1 = 2 /\ m.opcode \in Nat /\ 1 \in Nat \ {0}
      BY <1>1, <1>4 DEF MakingLine
    <2>4. Making(K, f, t, m, "xdg_surface", 2, 1, "toplevel")
      BY <1>3, <1>4, <1>6, <2>1, <2>2, <2>3 DEF Making
    <2> QED
      BY <2>3, <2>4, MakingTaken
  <1>8. /\ DOMAIN windows = {f + 1} /\ DOMAIN windows[f + 1] = WinFields
        /\ windows[f + 1].surface = f /\ windows[f + 1].constructed = FALSE /\ serial = 0
    BY <1>1 DEF WindowsAt, WindowAt
  <1>9. Legal(m)
    BY <1>4, <1>5, <1>8 DEF Legal, Is
  <1>10. Accept(m) => WindowsAt(f, t + 1)'
    <2> SUFFICES ASSUME Accept(m)
                 PROVE  WindowsAt(f, t + 1)'
      OBVIOUS
    <2>1. /\ windows' = [windows EXCEPT ![m.object].constructed = TRUE,
                                        ![m.object].given = {serial + 1}]
          /\ serial' = serial + 1
      BY <1>4, <1>5 DEF Accept, Is
    <2>2. /\ DOMAIN windows' = {f + 1} /\ DOMAIN windows'[f + 1] = WinFields
          /\ windows'[f + 1].surface = f /\ windows'[f + 1].given = {1}
      BY <1>4, <1>8, <2>1 DEF WinFields
    <2> QED
      BY <1>1, <1>8, <2>1, <2>2 DEF WindowsAt, WindowAt
  <1>11. Is(m, "xdg_surface", 1) /\ m.object = f + 1
    BY <1>4, <1>5 DEF Is
  <1>12. Accept(m) => Served(K, f, t + 1)'
    BY <1>7, <1>10 DEF Served
  <1> QED
    BY <1>1, <1>7, <1>9, <1>11, <1>12 DEF TakenSo

(* ack_configure with the serial that was sent.                            *)
LEMMA AckLine ==
  ASSUME NEW K, NEW f, NEW t, InScript(K, f, t), t = f + 1, NEW m, Line(offered, K, f, t + 1, m)
  PROVE  TakenSo(K, f, t, m)
  <1>1. /\ K \in [Nat -> Bindable] /\ f \in 4..11 /\ t \in Nat /\ t < f + 7 /\ Served(K, f, t)
        /\ ResourcesAt(K, f, t) /\ WindowsAt(f, t) /\ t + 1 = f + 2
    BY DEF InScript, Served
  <1>2. Asks(m, f + 1, 4, <<U(1)>>)
    BY <1>1 DEF Line
  <1>3. f + 1 \in IdsAt(f, t) /\ KindAt(K, f, f + 1) = "xdg_surface"
    BY <1>1, IdsIn, KindsOfOpening
  <1>4. /\ m.whole = TRUE /\ m.object = f + 1 /\ m.opcode = 4 /\ Len(m.args) = 1
        /\ m.args[1] = U(1)
    BY <1>2 DEF Asks
  <1>5. f + 1 \in DOMAIN resources /\ resources[f + 1] = "xdg_surface"
    BY <1>1, <1>3 DEF ResourcesAt
  <1>6. \A i \in 1..1 : Fits(Protocol["xdg_surface"][5].args[i], m.args[i])
    <2>1. Fits(Protocol["xdg_surface"][5].args[1], m.args[1])
      <3>1. m.args[1].letter = "u"
        BY <1>4 DEF A, U
      <3>2. Protocol["xdg_surface"][5].args[1].letter \in {"u", "i"}
        BY OpeningForms
      <3> QED
        BY <3>1, <3>2, RightFits
    <2> QED
      BY <2>1
  <1>7. Decodes(m) /\ Gone(m) = {} /\ (Accept(m) => ResourcesAt(K, f, t + 1)')
    <2>1. "xdg_surface" \in Kinds \ {"display"} /\ Makes0("xdg_surface", 5, 1)
      BY AllKinds, OpeningForms
    <2>2. \A i \in 1..1 : Protocol["xdg_surface"][5].args[i].letter # "n"
      BY OpeningForms, ArgParts
    <2>3. ~MakingLine(f, t + 1) /\ m.opcode + 1 = 5 /\ m.opcode \in Nat /\ 1 \in Nat
      BY <1>1, <1>4 DEF MakingLine
    <2>4. t # f + 6 /\ ~Protocol["xdg_surface"][5].destroys
      BY <1>1, OpeningForms
    <2>5. Keeping(K, f, t, m, "xdg_surface", 5, 1)
      BY <1>3, <1>4, <1>6, <2>1, <2>2, <2>3, <2>4 DEF Keeping
    <2> QED
      BY <2>4, <2>5, KeepingTaken
  <1>8. /\ DOMAIN windows = {f + 1} /\ DOMAIN windows[f + 1] = WinFields
        /\ windows[f + 1].surface = f /\ windows[f + 1].given = {1} /\ serial = 1
        /\ m.args[1].value = 1
    BY <1>1, <1>4 DEF WindowsAt, WindowAt, U, A
  <1>9. Legal(m)
    BY <1>4, <1>5, <1>8 DEF Legal, Is
  <1>10. Accept(m) => WindowsAt(f, t + 1)'
    <2> SUFFICES ASSUME Accept(m)
                 PROVE  WindowsAt(f, t + 1)'
      OBVIOUS
    <2>1. windows' = [windows EXCEPT ![m.object].acked = TRUE] /\ serial' = serial
      BY <1>4, <1>5 DEF Accept, Is
    <2>2. /\ DOMAIN windows' = {f + 1} /\ DOMAIN windows'[f + 1] = WinFields
          /\ windows'[f + 1].surface = f /\ windows'[f + 1].given = {1}
          /\ windows'[f + 1].acked = TRUE
      BY <1>4, <1>8, <2>1 DEF WinFields
    <2> QED
      BY <1>1, <1>8, <2>1, <2>2 DEF WindowsAt, WindowAt
  <1>11. ~Is(m, "xdg_surface", 1) /\ t # f
    BY <1>1, <1>4, <1>5 DEF Is
  <1>12. Accept(m) => Served(K, f, t + 1)'
    BY <1>7, <1>10 DEF Served
  <1> QED
    BY <1>1, <1>7, <1>9, <1>11, <1>12 DEF TakenSo

(* create_pool.                                                            *)
LEMMA PoolLine ==
  ASSUME NEW K, NEW f, NEW t, InScript(K, f, t), t = f + 2, NEW m, Line(offered, K, f, t + 1, m)
  PROVE  TakenSo(K, f, t, m)
  <1>1. /\ K \in [Nat -> Bindable] /\ f \in 4..11 /\ t \in Nat /\ t < f + 7 /\ Served(K, f, t)
        /\ ResourcesAt(K, f, t) /\ WindowsAt(f, t) /\ t + 1 = f + 3
    BY DEF InScript, Served
  <1>2. PICK s : Bought(K, f, s, "shm") /\ Asks(m, s, 0, <<A("n", f + 3), A("h", 0), U(0)>>)
    BY <1>1 DEF Line
  <1>3. s \in IdsAt(f, t) /\ KindAt(K, f, s) = "shm"
    <2>1. s \in 4..(f - 1) /\ K[s] = "shm"
      BY <1>2 DEF Bought
    <2>2. s \in IdsAt(f, t)
      BY <1>1, <2>1, IdsIn
    <2> QED
      BY <2>1, <2>2 DEF KindAt
  <1>4. /\ m.whole = TRUE /\ m.object = s /\ m.opcode = 0 /\ Len(m.args) = 3
        /\ m.args[1] = A("n", f + 3) /\ m.args[2] = A("h", 0) /\ m.args[3] = U(0)
    BY <1>2 DEF Asks
  <1>5. s \in DOMAIN resources /\ resources[s] = "shm"
    BY <1>1, <1>3 DEF ResourcesAt
  <1>6. \A i \in 2..3 : Fits(Protocol["shm"][1].args[i], m.args[i])
    <2>1. Fits(Protocol["shm"][1].args[2], m.args[2])
      <3>1. m.args[2].letter = "h"
        BY <1>4 DEF A
      <3>2. Protocol["shm"][1].args[2].letter = "h"
        BY OpeningForms
      <3> QED
        BY <3>1, <3>2, RightFits
    <2>2. Fits(Protocol["shm"][1].args[3], m.args[3])
      <3>1. m.args[3].letter = "u"
        BY <1>4 DEF A, U
      <3>2. Protocol["shm"][1].args[3].letter \in {"u", "i"}
        BY OpeningForms
      <3> QED
        BY <3>1, <3>2, RightFits
    <2> QED
      BY <2>1, <2>2
  <1>7. Decodes(m) /\ Gone(m) = {} /\ (Accept(m) => ResourcesAt(K, f, t + 1)')
    <2>1. "shm" \in Kinds \ {"registry"} /\ Makes1("shm", 1, 3, "pool")
      BY AllKinds, OpeningForms
    <2>2. HighestAt(f, t + 1) = f + 3 /\ KindAt(K, f, HighestAt(f, t + 1)) = "pool"
      BY <1>1, IdsIn, KindsOfOpening
    <2>3. t # 1 /\ MakingLine(f, t + 1) /\ m.opcode + 1 = 1 /\ m.opcode \in Nat /\ 3 \in Nat \ {0}
      BY <1>1, <1>4 DEF MakingLine
    <2>4. Making(K, f, t, m, "shm", 1, 3, "pool")
      BY <1>3, <1>4, <1>6, <2>1, <2>2, <2>3 DEF Making
    <2> QED
      BY <2>3, <2>4, MakingTaken
  <1>8. NoWindow(m)
    BY <1>4, <1>5 DEF NoWindow, Is
  <1>9. Legal(m)
    BY <1>4, <1>5 DEF Legal, Is
  <1>10. Accept(m) => WindowsAt(f, t + 1)'
    <2>1. t # f - 1 /\ t # f /\ t # f + 1
      BY <1>1
    <2> QED
      BY <1>1, <1>8, <2>1, WindowsKept
  <1>11. ~Is(m, "xdg_surface", 1) /\ t # f
    BY <1>1, <1>8 DEF NoWindow
  <1>12. Accept(m) => Served(K, f, t + 1)'
    BY <1>7, <1>10 DEF Served
  <1> QED
    BY <1>1, <1>7, <1>9, <1>11, <1>12 DEF TakenSo

(* create_buffer.                                                          *)
LEMMA BufferLine ==
  ASSUME NEW K, NEW f, NEW t, InScript(K, f, t), t = f + 3, NEW m, Line(offered, K, f, t + 1, m)
  PROVE  TakenSo(K, f, t, m)
  <1>1. /\ K \in [Nat -> Bindable] /\ f \in 4..11 /\ t \in Nat /\ t < f + 7 /\ Served(K, f, t)
        /\ ResourcesAt(K, f, t) /\ WindowsAt(f, t) /\ t + 1 = f + 4
    BY DEF InScript, Served
  <1>2. Asks(m, f + 3, 0, <<A("n", f + 4), U(0), U(0), U(0), U(0), U(1)>>)
    BY <1>1 DEF Line
  <1>3. f + 3 \in IdsAt(f, t) /\ KindAt(K, f, f + 3) = "pool"
    BY <1>1, IdsIn, KindsOfOpening
  <1>4. /\ m.whole = TRUE /\ m.object = f + 3 /\ m.opcode = 0 /\ Len(m.args) = 6
        /\ m.args[1] = A("n", f + 4) /\ m.args[2] = U(0) /\ m.args[3] = U(0) /\ m.args[4] = U(0) /\ m.args[5] = U(0) /\ m.args[6] = U(1)
    BY <1>2 DEF Asks
  <1>5. f + 3 \in DOMAIN resources /\ resources[f + 3] = "pool"
    BY <1>1, <1>3 DEF ResourcesAt
  <1>6. \A i \in 2..6 : Fits(Protocol["pool"][1].args[i], m.args[i])
    <2>1. Fits(Protocol["pool"][1].args[2], m.args[2])
      <3>1. m.args[2].letter = "u"
        BY <1>4 DEF A, U
      <3>2. Protocol["pool"][1].args[2].letter \in {"u", "i"}
        BY OpeningForms
      <3> QED
        BY <3>1, <3>2, RightFits
    <2>2. Fits(Protocol["pool"][1].args[3], m.args[3])
      <3>1. m.args[3].letter = "u"
        BY <1>4 DEF A, U
      <3>2. Protocol["pool"][1].args[3].letter \in {"u", "i"}
        BY OpeningForms
      <3> QED
        BY <3>1, <3>2, RightFits
    <2>3. Fits(Protocol["pool"][1].args[4], m.args[4])
      <3>1. m.args[4].letter = "u"
        BY <1>4 DEF A, U
      <3>2. Protocol["pool"][1].args[4].letter \in {"u", "i"}
        BY OpeningForms
      <3> QED
        BY <3>1, <3>2, RightFits
    <2>4. Fits(Protocol["pool"][1].args[5], m.args[5])
      <3>1. m.args[5].letter = "u"
        BY <1>4 DEF A, U
      <3>2. Protocol["pool"][1].args[5].letter \in {"u", "i"}
        BY OpeningForms
      <3> QED
        BY <3>1, <3>2, RightFits
    <2>5. Fits(Protocol["pool"][1].args[6], m.args[6])
      <3>1. m.args[6].letter = "u"
        BY <1>4 DEF A, U
      <3>2. Protocol["pool"][1].args[6].letter \in {"u", "i"}
        BY OpeningForms
      <3> QED
        BY <3>1, <3>2, RightFits
    <2> QED
      BY <2>1, <2>2, <2>3, <2>4, <2>5
  <1>7. Decodes(m) /\ Gone(m) = {} /\ (Accept(m) => ResourcesAt(K, f, t + 1)')
    <2>1. "pool" \in Kinds \ {"registry"} /\ Makes1("pool", 1, 6, "buffer")
      BY AllKinds, OpeningForms
    <2>2. HighestAt(f, t + 1) = f + 4 /\ KindAt(K, f, HighestAt(f, t + 1)) = "buffer"
      BY <1>1, IdsIn, KindsOfOpening
    <2>3. t # 1 /\ MakingLine(f, t + 1) /\ m.opcode + 1 = 1 /\ m.opcode \in Nat /\ 6 \in Nat \ {0}
      BY <1>1, <1>4 DEF MakingLine
    <2>4. Making(K, f, t, m, "pool", 1, 6, "buffer")
      BY <1>3, <1>4, <1>6, <2>1, <2>2, <2>3 DEF Making
    <2> QED
      BY <2>3, <2>4, MakingTaken
  <1>8. NoWindow(m)
    BY <1>4, <1>5 DEF NoWindow, Is
  <1>9. Legal(m)
    BY <1>4, <1>5 DEF Legal, Is
  <1>10. Accept(m) => WindowsAt(f, t + 1)'
    <2>1. t # f - 1 /\ t # f /\ t # f + 1
      BY <1>1
    <2> QED
      BY <1>1, <1>8, <2>1, WindowsKept
  <1>11. ~Is(m, "xdg_surface", 1) /\ t # f
    BY <1>1, <1>8 DEF NoWindow
  <1>12. Accept(m) => Served(K, f, t + 1)'
    BY <1>7, <1>10 DEF Served
  <1> QED
    BY <1>1, <1>7, <1>9, <1>11, <1>12 DEF TakenSo

(* attach: the window was configured and that was acknowledged.            *)
LEMMA AttachLine ==
  ASSUME NEW K, NEW f, NEW t, InScript(K, f, t), t = f + 4, NEW m, Line(offered, K, f, t + 1, m)
  PROVE  TakenSo(K, f, t, m)
  <1>1. /\ K \in [Nat -> Bindable] /\ f \in 4..11 /\ t \in Nat /\ t < f + 7 /\ Served(K, f, t)
        /\ ResourcesAt(K, f, t) /\ WindowsAt(f, t) /\ t + 1 = f + 5
    BY DEF InScript, Served
  <1>2. Asks(m, f, 1, <<A("O", f + 4), U(0), U(0)>>)
    BY <1>1 DEF Line
  <1>3. f \in IdsAt(f, t) /\ KindAt(K, f, f) = "surface"
    BY <1>1, IdsIn, KindsOfOpening
  <1>4. /\ m.whole = TRUE /\ m.object = f /\ m.opcode = 1 /\ Len(m.args) = 3
        /\ m.args[1] = A("O", f + 4) /\ m.args[2] = U(0) /\ m.args[3] = U(0)
    BY <1>2 DEF Asks
  <1>5. f \in DOMAIN resources /\ resources[f] = "surface"
    BY <1>1, <1>3 DEF ResourcesAt
  <1>6. \A i \in 1..3 : Fits(Protocol["surface"][2].args[i], m.args[i])
    <2>1. Fits(Protocol["surface"][2].args[1], m.args[1])
      <3>1. Has(f + 4, "buffer")
        BY <1>1, IdsIn, KindsOfOpening DEF Has, ResourcesAt
      <3>2. m.args[1].letter = "O" /\ m.args[1].value = f + 4
        BY <1>4 DEF A
      <3>3. Protocol["surface"][2].args[1].letter = "?o" /\ Protocol["surface"][2].args[1].kind = "buffer"
        BY OpeningForms, ArgParts
      <3> QED
        BY <3>1, <3>2, <3>3, RightFits
    <2>2. Fits(Protocol["surface"][2].args[2], m.args[2])
      <3>1. m.args[2].letter = "u"
        BY <1>4 DEF A, U
      <3>2. Protocol["surface"][2].args[2].letter \in {"u", "i"}
        BY OpeningForms
      <3> QED
        BY <3>1, <3>2, RightFits
    <2>3. Fits(Protocol["surface"][2].args[3], m.args[3])
      <3>1. m.args[3].letter = "u"
        BY <1>4 DEF A, U
      <3>2. Protocol["surface"][2].args[3].letter \in {"u", "i"}
        BY OpeningForms
      <3> QED
        BY <3>1, <3>2, RightFits
    <2> QED
      BY <2>1, <2>2, <2>3
  <1>7. Decodes(m) /\ Gone(m) = {} /\ (Accept(m) => ResourcesAt(K, f, t + 1)')
    <2>1. "surface" \in Kinds \ {"display"} /\ Makes0("surface", 2, 3)
      BY AllKinds, OpeningForms
    <2>2. \A i \in 1..3 : Protocol["surface"][2].args[i].letter # "n"
      BY OpeningForms, ArgParts
    <2>3. ~MakingLine(f, t + 1) /\ m.opcode + 1 = 2 /\ m.opcode \in Nat /\ 3 \in Nat
      BY <1>1, <1>4 DEF MakingLine
    <2>4. t # f + 6 /\ ~Protocol["surface"][2].destroys
      BY <1>1, OpeningForms
    <2>5. Keeping(K, f, t, m, "surface", 2, 3)
      BY <1>3, <1>4, <1>6, <2>1, <2>2, <2>3, <2>4 DEF Keeping
    <2> QED
      BY <2>4, <2>5, KeepingTaken
  <1>8. NoWindow(m)
    BY <1>4, <1>5 DEF NoWindow, Is
  <1>9. Legal(m)
    BY <1>4, <1>5 DEF Legal, Is
  <1>10. Accept(m) => WindowsAt(f, t + 1)'
    <2>1. t # f - 1 /\ t # f /\ t # f + 1
      BY <1>1
    <2> QED
      BY <1>1, <1>8, <2>1, WindowsKept
  <1>11. ~Is(m, "xdg_surface", 1) /\ t # f
    BY <1>1, <1>8 DEF NoWindow
  <1>12. Accept(m) => Served(K, f, t + 1)'
    BY <1>7, <1>10 DEF Served
  <1> QED
    BY <1>1, <1>7, <1>9, <1>11, <1>12 DEF TakenSo

(* commit.                                                                 *)
LEMMA CommitLine ==
  ASSUME NEW K, NEW f, NEW t, InScript(K, f, t), t = f + 5, NEW m, Line(offered, K, f, t + 1, m)
  PROVE  TakenSo(K, f, t, m)
  <1>1. /\ K \in [Nat -> Bindable] /\ f \in 4..11 /\ t \in Nat /\ t < f + 7 /\ Served(K, f, t)
        /\ ResourcesAt(K, f, t) /\ WindowsAt(f, t) /\ t + 1 = f + 6
    BY DEF InScript, Served
  <1>2. Asks(m, f, 6, << >>)
    BY <1>1 DEF Line
  <1>3. f \in IdsAt(f, t) /\ KindAt(K, f, f) = "surface"
    BY <1>1, IdsIn, KindsOfOpening
  <1>4. /\ m.whole = TRUE /\ m.object = f /\ m.opcode = 6 /\ Len(m.args) = 0
        /\ m.opcode \in Nat
    BY <1>2 DEF Asks
  <1>5. f \in DOMAIN resources /\ resources[f] = "surface"
    BY <1>1, <1>3 DEF ResourcesAt
  <1>6. \A i \in 1..0 : Fits(Protocol["surface"][7].args[i], m.args[i])
    OBVIOUS
  <1>7. Decodes(m) /\ Gone(m) = {} /\ (Accept(m) => ResourcesAt(K, f, t + 1)')
    <2>1. "surface" \in Kinds \ {"display"} /\ Makes0("surface", 7, 0)
      BY AllKinds, OpeningForms
    <2>2. \A i \in 1..0 : Protocol["surface"][7].args[i].letter # "n"
      OBVIOUS
    <2>3. ~MakingLine(f, t + 1) /\ m.opcode + 1 = 7 /\ m.opcode \in Nat /\ 0 \in Nat
      BY <1>1, <1>4 DEF MakingLine
    <2>4. t # f + 6 /\ ~Protocol["surface"][7].destroys
      BY <1>1, OpeningForms
    <2>5. Keeping(K, f, t, m, "surface", 7, 0)
      BY <1>3, <1>4, <1>6, <2>1, <2>2, <2>3, <2>4 DEF Keeping
    <2> QED
      BY <2>4, <2>5, KeepingTaken
  <1>8. NoWindow(m)
    BY <1>4, <1>5 DEF NoWindow, Is
  <1>9. Legal(m)
    <2>1. \A x \in DOMAIN windows : windows[x].acked
      BY <1>1 DEF WindowsAt, WindowAt
    <2> QED
      BY <1>4, <1>5, <2>1 DEF Legal, Is
  <1>10. Accept(m) => WindowsAt(f, t + 1)'
    <2>1. t # f - 1 /\ t # f /\ t # f + 1
      BY <1>1
    <2> QED
      BY <1>1, <1>8, <2>1, WindowsKept
  <1>11. ~Is(m, "xdg_surface", 1) /\ t # f
    BY <1>1, <1>8 DEF NoWindow
  <1>12. Accept(m) => Served(K, f, t + 1)'
    BY <1>7, <1>10 DEF Served
  <1> QED
    BY <1>1, <1>7, <1>9, <1>11, <1>12 DEF TakenSo

(* The buffer's destroy, the last line.                                    *)
LEMMA DestroyLine ==
  ASSUME NEW K, NEW f, NEW t, InScript(K, f, t), t = f + 6, NEW m, Line(offered, K, f, t + 1, m)
  PROVE  TakenSo(K, f, t, m)
  <1>1. /\ K \in [Nat -> Bindable] /\ f \in 4..11 /\ t \in Nat /\ t < f + 7 /\ Served(K, f, t)
        /\ ResourcesAt(K, f, t) /\ WindowsAt(f, t) /\ t + 1 = f + 7
    BY DEF InScript, Served
  <1>2. Asks(m, f + 4, 0, << >>)
    BY <1>1 DEF Line
  <1>3. f + 4 \in IdsAt(f, t) /\ KindAt(K, f, f + 4) = "buffer"
    BY <1>1, IdsIn, KindsOfOpening
  <1>4. /\ m.whole = TRUE /\ m.object = f + 4 /\ m.opcode = 0 /\ Len(m.args) = 0
        /\ m.opcode \in Nat
    BY <1>2 DEF Asks
  <1>5. f + 4 \in DOMAIN resources /\ resources[f + 4] = "buffer"
    BY <1>1, <1>3 DEF ResourcesAt
  <1>6. \A i \in 1..0 : Fits(Protocol["buffer"][1].args[i], m.args[i])
    OBVIOUS
  <1>7. Decodes(m) /\ Gone(m) = {f + 4} /\ (Accept(m) => ResourcesAt(K, f, t + 1)')
    <2>1. "buffer" \in Kinds \ {"display"} /\ Makes0("buffer", 1, 0)
      BY AllKinds, OpeningForms
    <2>2. \A i \in 1..0 : Protocol["buffer"][1].args[i].letter # "n"
      OBVIOUS
    <2>3. ~MakingLine(f, t + 1) /\ m.opcode + 1 = 1 /\ m.opcode \in Nat /\ 0 \in Nat
      BY <1>1, <1>4 DEF MakingLine
    <2>4. t = f + 6 /\ Protocol["buffer"][1].destroys
      BY <1>1, OpeningForms
    <2>5. Keeping(K, f, t, m, "buffer", 1, 0)
      BY <1>3, <1>4, <1>6, <2>1, <2>2, <2>3, <2>4 DEF Keeping
    <2> QED
      BY <2>4, <2>5, KeepingTaken
  <1>8. NoWindow(m)
    BY <1>4, <1>5 DEF NoWindow, Is
  <1>9. Legal(m)
    BY <1>4, <1>5 DEF Legal, Is
  <1>10. Accept(m) => WindowsAt(f, t + 1)'
    <2>1. t # f - 1 /\ t # f /\ t # f + 1
      BY <1>1
    <2> QED
      BY <1>1, <1>8, <2>1, WindowsKept
  <1>11. ~Is(m, "xdg_surface", 1) /\ t # f
    BY <1>1, <1>8 DEF NoWindow
  <1>12. Accept(m) => Served(K, f, t + 1)'
    BY <1>7, <1>10 DEF Served
  <1> QED
    BY <1>1, <1>7, <1>9, <1>11, <1>12 DEF TakenSo

-----------------------------------------------------------------------------
(* Every line is taken.                                                    *)
LEMMA LineTaken ==
  ASSUME NEW K, NEW f, NEW t, InScript(K, f, t), NEW m, Line(offered, K, f, t + 1, m)
  PROVE  TakenSo(K, f, t, m)
  <1>1. f \in 4..11 /\ t \in Nat /\ t < f + 7
    BY DEF InScript
  <1>2. \/ t = 0 \/ t = 1 \/ t + 1 \in 3..(f - 2) \/ t = f - 2 \/ t = f - 1 \/ t = f \/ t = f + 1
        \/ t = f + 2 \/ t = f + 3 \/ t = f + 4 \/ t = f + 5 \/ t = f + 6
    BY <1>1
  <1>3. CASE t = 0 \/ t = 1 \/ t + 1 \in 3..(f - 2)
    BY <1>3, RegistryLine, SyncLine, BindLine
  <1>4. CASE t = f - 2
    BY <1>4, SurfaceLine
  <1>5. CASE t = f - 1
    BY <1>5, XdgSurfaceLine
  <1>6. CASE t = f
    BY <1>6, ToplevelLine
  <1>7. CASE t = f + 1
    BY <1>7, AckLine
  <1>8. CASE t = f + 2
    BY <1>8, PoolLine
  <1>9. CASE t = f + 3
    BY <1>9, BufferLine
  <1>10. CASE t = f + 4
    BY <1>10, AttachLine
  <1>11. CASE t = f + 5
    BY <1>11, CommitLine
  <1>12. CASE t = f + 6
    BY <1>12, DestroyLine
  <1> QED
    BY <1>2, <1>3, <1>4, <1>5, <1>6, <1>7, <1>8, <1>9, <1>10, <1>11, <1>12

(* What the fuzzer hears of a line.                                        *)
LEMMA HeardOfLine ==
  ASSUME Events(toClient), NEW K, NEW f, NEW t, InScript(K, f, t), t < f + 6, NEW m,
         TakenSo(K, f, t, m), Accept(m), HeardAt(f, t), UNCHANGED last_serial
  PROVE  HeardAt(f, t + 1)'
  <1>1. f \in 4..11 /\ t \in Nat /\ serial = IF t > f THEN 1 ELSE 0
    BY DEF InScript, Served, WindowsAt
  <1>2. Gone(m) \subseteq {3} /\ (Is(m, "xdg_surface", 1) <=> t = f) /\ (t = f => m.object = f + 1)
    BY DEF TakenSo
  <1>3. /\ \A i \in 1..Len(toClient) : i \in 1..Len(toClient') /\ toClient'[i] = toClient[i]
        /\ \A i \in 1..Len(toClient') :
              \/ i \in 1..Len(toClient)
              \/ toClient'[i].op = "delete_id" /\ toClient'[i].id \in Gone(m) /\ toClient'[i].id < ServerHalf
              \/ /\ toClient'[i].op = "configure" /\ Is(m, "xdg_surface", 1)
                 /\ toClient'[i].id = m.object /\ toClient'[i].serial = serial + 1
        /\ Is(m, "xdg_surface", 1) => \E i \in 1..Len(toClient') : toClient'[i].op = "configure"
    BY AnswersRight
  <1>4. ASSUME NEW i \in 1..Len(toClient')
        PROVE  /\ toClient'[i].op \in {"global", "delete_id", "configure"}
               /\ toClient'[i].op = "delete_id" => toClient'[i].id = 3
               /\ toClient'[i].op = "configure" =>
                    toClient'[i].id = f + 1 /\ toClient'[i].serial = 1 /\ t + 1 > f
    <2>1. CASE i \in 1..Len(toClient)
      BY <1>1, <1>3, <2>1 DEF HeardAt
    <2>2. CASE toClient'[i].op = "delete_id" /\ toClient'[i].id \in Gone(m)
      BY <1>2, <2>2
    <2>3. CASE /\ toClient'[i].op = "configure" /\ Is(m, "xdg_surface", 1)
               /\ toClient'[i].id = m.object /\ toClient'[i].serial = serial + 1
      BY <1>1, <1>2, <2>3
    <2> QED
      BY <1>3, <2>1, <2>2, <2>3
  <1>5. last_serial' \in {0, 1}
    BY DEF HeardAt
  <1>6. ASSUME t + 1 > f
        PROVE  last_serial' = 1 \/ Coming'
    <2>1. CASE t = f
      BY <1>2, <1>3, <2>1 DEF Coming
    <2>2. CASE t > f
      <3>1. last_serial = 1 \/ Coming
        BY <2>2 DEF HeardAt
      <3>2. Coming => Coming'
        BY <1>3 DEF Coming
      <3> QED
        BY <3>1, <3>2
    <2> QED
      BY <1>1, <1>6, <2>1, <2>2
  <1> QED
    BY <1>4, <1>5, <1>6 DEF HeardAt

(* The compositor takes a line, or what is none.                           *)
LEMMA TakeLine ==
  ASSUME FuzzTyped, OpeningInv, TakeRequest
  PROVE  /\ refused' # "opening"
         /\ refused' = "not" /\ Unfinished' => \E K, f, s, t : Script(K, f, s, t)'
  <1>0. /\ Events(toClient) /\ Requests(toServer) /\ IsSeq(toServer) /\ toServer # << >>
        /\ refused = "not" /\ UNCHANGED <<fuzzer, offered>>
    BY DEF TakeRequest, FuzzTyped, Requests
  <1>1. PICK m : m = Head(toServer)
    OBVIOUS
  <1>2. \/ Decodes(m) /\ Legal(m) /\ Accept(m) /\ toServer' = Tail(toServer) /\ UNCHANGED refused
        \/ ~(Decodes(m) /\ Legal(m)) /\ refused' = (IF m.opening THEN "opening" ELSE "later")
    BY <1>1 DEF TakeRequest
  <1>3. /\ Len(Tail(toServer)) = Len(toServer) - 1 /\ Len(toServer) \in Nat \ {0} /\ m = toServer[1]
        /\ \A i \in 1..Len(Tail(toServer)) : Tail(toServer)[i] = toServer[i + 1]
    BY <1>0, <1>1, SeqTailed
  <1>a. 1 \in 1..Len(toServer) /\ \A i \in 1..Len(Tail(toServer)) : i + 1 \in 1..Len(toServer)
    BY <1>3
  <1>b. InOpening' <=> InOpening
    BY <1>0 DEF InOpening, fuzzer
  <1>4. CASE ~Unfinished
    <2>1. ~InOpening /\ \A i \in 1..Len(toServer) : ~toServer[i].opening
      BY <1>4 DEF Unfinished
    <2>2. ~m.opening
      BY <1>3, <1>a, <2>1
    <2>3. refused' # "opening"
      BY <1>0, <1>2, <2>2
    <2>4. refused' = "not" => ~Unfinished'
      <3>1. ASSUME refused' = "not"
            PROVE  \A i \in 1..Len(toServer') : ~toServer'[i].opening
        <4>1. toServer' = Tail(toServer)
          BY <1>2, <2>2, <3>1
        <4> QED
          BY <1>3, <1>a, <2>1, <4>1
      <3> QED
        BY <1>b, <2>1, <3>1 DEF Unfinished
    <2> QED
      BY <2>3, <2>4
  <1>5. CASE Unfinished
    <2>1. PICK K, f, s, t : Script(K, f, s, t)
      BY <1>0, <1>5 DEF OpeningInv
    <2>2. /\ K \in [Nat -> Bindable] /\ f \in 4..11 /\ s \in Nat /\ t \in Nat
          /\ t <= s /\ s <= f + 7 /\ Served(K, f, t) /\ Queued(K, f, s, t)
          /\ InOpening => SentAt(K, f, s, t)
      BY <2>1 DEF Script
    <2>3. t < s
      <3>1. CASE InOpening
        BY <1>3, <2>2, <3>1 DEF SentAt
      <3>2. CASE \E i \in 1..Len(toServer) : toServer[i].opening
        BY <1>3, <2>2, <3>2 DEF Queued
      <3> QED
        BY <1>5, <3>1, <3>2 DEF Unfinished
    <2>4. m.opening /\ Line(offered, K, f, t + 1, m)
      BY <1>3, <1>a, <2>2, <2>3 DEF Queued
    <2>5. InScript(K, f, t)
      BY <2>2, <2>3 DEF InScript
    <2>6. TakenSo(K, f, t, m)
      BY <2>4, <2>5, LineTaken
    <2>7. Accept(m) /\ toServer' = Tail(toServer) /\ refused' = "not"
      BY <1>0, <1>2, <2>6 DEF TakenSo
    <2>8. Served(K, f, t + 1)'
      BY <2>6, <2>7 DEF TakenSo
    <2>9. Queued(K, f, s, t + 1)'
      <3>1. s - (t + 1) <= Len(toServer')
        BY <1>3, <2>2, <2>7 DEF Queued
      <3>2. ASSUME NEW i \in 1..Len(toServer')
            PROVE  /\ toServer'[i].opening => i <= s - (t + 1)
                   /\ i <= s - (t + 1) => toServer'[i].opening /\ Line(offered, K, f, t + 1 + i, toServer'[i])
        <4>1. i + 1 \in 1..Len(toServer) /\ toServer'[i] = toServer[i + 1]
          BY <1>3, <1>a, <2>7, <3>2
        <4>2. /\ toServer[i + 1].opening => i + 1 <= s - t
              /\ i + 1 <= s - t => toServer[i + 1].opening /\ Line(offered, K, f, t + (i + 1), toServer[i + 1])
          BY <2>2, <4>1 DEF Queued
        <4>3. t + (i + 1) = t + 1 + i /\ (i + 1 <= s - t <=> i <= s - (t + 1))
          BY <2>2
        <4> QED
          BY <4>1, <4>2, <4>3
      <3> QED
        BY <1>0, <3>1, <3>2 DEF Queued
    <2>10. ASSUME InOpening'
           PROVE  SentAt(K, f, s, t + 1)'
      <3>1. SentAt(K, f, s, t)
        BY <1>b, <2>2, <2>10
      <3>2. s = t + 1 + Len(toServer') /\ s <= f + 6 /\ t < f + 6
        BY <1>3, <2>2, <2>3, <2>7, <3>1, SMTT(30) DEF SentAt
      <3>3. PlaceAt(f, s)' /\ WinAt(K, f)' /\ ListAt(K, f, s)'
        BY <1>0, <3>1 DEF SentAt, PlaceAt, WinAt, ListAt, Listed, Bought, fuzzer
      <3>4. HeardAt(f, t + 1)'
        <4>1. HeardAt(f, t) /\ UNCHANGED last_serial
          BY <1>0, <3>1 DEF SentAt, fuzzer
        <4> QED
          BY <1>0, <2>5, <2>6, <2>7, <3>2, <4>1, HeardOfLine
      <3> QED
        BY <3>2, <3>3, <3>4 DEF SentAt
    <2>11. Script(K, f, s, t + 1)'
      BY <2>2, <2>3, <2>8, <2>9, <2>10 DEF Script
    <2> QED
      BY <2>7, <2>11
  <1> QED
    BY <1>4, <1>5

-----------------------------------------------------------------------------
(* The rest of what a compositor does: an announcement changes nothing of  *)
(* the opening, and there is no callback and no device in it.              *)
LEMMA OtherwiseInOpening ==
  ASSUME FuzzTyped, OpeningInv, TellGlobal \/ FrameShown \/ OfferData
  PROVE  /\ refused' # "opening"
         /\ refused' = "not" /\ Unfinished' => \E K, f, s, t : Script(K, f, s, t)'
  <1>1. UNCHANGED <<fuzzer, toServer, offered, highest, windows, serial, refused>>
    BY DEF TellGlobal, FrameShown, OfferData
  <1>2. (Unfinished' <=> Unfinished) /\ refused' # "opening"
    BY <1>1 DEF Unfinished, InOpening, OpeningInv, fuzzer
  <1> SUFFICES ASSUME refused' = "not", Unfinished'
               PROVE  \E K, f, s, t : Script(K, f, s, t)'
    BY <1>2
  <1>3. PICK K, f, s, t : Script(K, f, s, t)
    BY <1>1, <1>2 DEF OpeningInv
  <1>4. /\ K \in [Nat -> Bindable] /\ f \in 4..11 /\ s \in Nat /\ t \in Nat
        /\ t <= s /\ s <= f + 7 /\ Served(K, f, t) /\ Queued(K, f, s, t)
        /\ InOpening => SentAt(K, f, s, t)
    BY <1>3 DEF Script
  <1>5. ~FrameShown /\ ~OfferData
    <2>1. DOMAIN resources = IdsAt(f, t) /\ \A x \in IdsAt(f, t) : resources[x] = KindAt(K, f, x)
      BY <1>4 DEF Served, ResourcesAt
    <2>2. \A x : KindAt(K, f, x) # "callback" /\ KindAt(K, f, x) # "device"
      <3>1. \A x \in 4..(f - 1) : K[x] \in Bindable
        BY <1>4
      <3>2. \A k \in Bindable : k # "callback" /\ k # "device"
        BY KindsOfOpening
      <3> QED
        BY <3>1, <3>2 DEF KindAt, K_NONE
    <2>3. \A x \in DOMAIN resources : resources[x] # "callback" /\ resources[x] # "device"
      BY <2>1, <2>2
    <2> QED
      BY <2>3 DEF FrameShown, OfferData
  <1>6. TellGlobal
    BY <1>5
  <1>7. UNCHANGED <<resources>>
    BY <1>6 DEF TellGlobal
  <1>8. PICK e : e.op = "global" /\ toClient' = Append(toClient, e)
    BY <1>6 DEF TellGlobal
  <1>9. /\ \A i \in 1..Len(toClient) : i \in 1..Len(toClient') /\ toClient'[i] = toClient[i]
        /\ \A i \in 1..Len(toClient') : i \in 1..Len(toClient) \/ toClient'[i] = e
    BY <1>8, EventAdded DEF FuzzTyped
  <1>10. Served(K, f, t)' /\ Queued(K, f, s, t)'
    BY <1>1, <1>4, <1>7 DEF Served, ResourcesAt, WindowsAt, WindowAt, Queued
  <1>11. ASSUME InOpening'
         PROVE  SentAt(K, f, s, t)'
    <2>1. SentAt(K, f, s, t)
      BY <1>1, <1>4, <1>11 DEF InOpening, fuzzer
    <2>2. s = t + Len(toServer') /\ s <= f + 6 /\ PlaceAt(f, s)' /\ WinAt(K, f)' /\ ListAt(K, f, s)'
      BY <1>1, <2>1 DEF SentAt, PlaceAt, WinAt, ListAt, Listed, Bought, fuzzer
    <2>3. HeardAt(f, t)'
      <3>1. HeardAt(f, t) /\ UNCHANGED last_serial
        BY <1>1, <2>1 DEF SentAt, fuzzer
      <3>2. Coming => Coming'
        BY <1>9 DEF Coming
      <3>3. \A i \in 1..Len(toClient') :
              /\ toClient'[i].op \in {"global", "delete_id", "configure"}
              /\ toClient'[i].op = "delete_id" => toClient'[i].id = 3
              /\ toClient'[i].op = "configure" =>
                   toClient'[i].id = f + 1 /\ toClient'[i].serial = 1 /\ t > f
        BY <1>8, <1>9, <3>1 DEF HeardAt
      <3> QED
        BY <3>1, <3>2, <3>3 DEF HeardAt
    <2> QED
      BY <2>2, <2>3 DEF SentAt
  <1> QED
    BY <1>4, <1>10, <1>11 DEF Script

(* What is announced is what is offered, and so is what is taken down.     *)
Announced(o, e) ==
  e.op = "global" =>
    e.name \in 1..Len(o) /\ e.kind = o[e.name].kind /\ e.version = o[e.name].version
(* What is remembered of the globals stays what was offered.               *)
LEMMA GlobalsStep ==
  ASSUME FuzzTyped, GlobalsRight, FuzzNext
  PROVE  GlobalsRight'
  <1>0. Events(toClient) /\ IsSeq(toClient) /\ Len(toClient) \in Nat /\ FuzzerTyped
    BY SeqParts DEF FuzzTyped, Events
  <1>1. offered' = offered
    BY DEF FuzzNext, Compositor, TakeRequest, TellGlobal, FrameShown, OfferData, ReadEvents,
           HandleGlobal, HandleConfigure, HandleDeleteId, HandleDataOffer, HandleEvent, HandleRest,
           AwaitGlobals, BindNext, Bound, Window, WindowSkipped, CreateSurface, GetXdgSurface,
           GetToplevel, AwaitSerial, AckConfigure, CreatePool, CreateBuffer, Attach, Commit,
           LeftWhole, DestroyBuffer, DestroyPool, WindowCut, Loop, AnotherWindow, LoopEnds,
           legal_bind, request, RequestUnknown, BindGuessed, Counted, Kept, compositor
  <1>2. \A i \in 1..Len(toClient) : Announced(offered, toClient[i])
    BY DEF GlobalsRight, Announced
  <1>3. ASSUME \A i \in 1..Len(toClient') : Announced(offered, toClient'[i]),
               UNCHANGED <<global_name, global_version>>
        PROVE  GlobalsRight'
    BY <1>1, <1>3 DEF GlobalsRight, Announced
  <1>4. CASE HandleGlobal \/ HandleConfigure \/ HandleDeleteId \/ HandleDataOffer
    <2>1. toClient # << >> /\ toClient' = Tail(toClient)
      BY <1>4 DEF HandleGlobal, HandleConfigure, HandleDeleteId, HandleDataOffer, HandleEvent
    <2>2. /\ Len(toClient') = Len(toClient) - 1 /\ Head(toClient) = toClient[1] /\ 1 \in 1..Len(toClient)
          /\ \A i \in 1..Len(toClient') : toClient'[i] = toClient[i + 1] /\ i + 1 \in 1..Len(toClient)
      BY <1>0, <2>1, SeqTailed
    <2>3. \A i \in 1..Len(toClient') : Announced(offered, toClient'[i])
      BY <1>2, <2>2
    <2>4. CASE HandleGlobal
      <3>1. PICK g : g = Head(toClient)
        OBVIOUS
      <3>2. /\ g.op = "global" /\ global_name' = [global_name EXCEPT ![g.kind] = g.name]
            /\ global_version' = [global_version EXCEPT ![g.kind] = g.version]
        BY <2>4, <3>1 DEF HandleGlobal, HandleEvent
      <3>3. g.name \in 1..Len(offered) /\ g.kind = offered[g.name].kind /\ g.version = offered[g.name].version
        BY <1>2, <2>2, <3>1, <3>2 DEF Announced
      <3>4. ASSUME NEW k \in Kinds, global_name'[k] # 0
            PROVE  /\ global_name'[k] \in 1..Len(offered)
                   /\ offered[global_name'[k]].kind = k
                   /\ offered[global_name'[k]].version = global_version'[k]
        <4>1. global_name \in [Kinds -> Nat] /\ global_version \in [Kinds -> Nat]
          BY <1>0 DEF FuzzerTyped
        <4>2. CASE k = g.kind
          BY <3>2, <3>3, <4>1, <4>2
        <4>3. CASE k # g.kind
          <5>1. global_name'[k] = global_name[k] /\ global_version'[k] = global_version[k]
            BY <3>2, <4>1, <4>3
          <5> QED
            BY <3>4, <5>1 DEF GlobalsRight
        <4> QED
          BY <4>2, <4>3
      <3> QED
        BY <1>1, <2>3, <3>4 DEF GlobalsRight, Announced
    <2>5. CASE ~HandleGlobal
      <3>1. UNCHANGED <<global_name, global_version>>
        BY <1>4, <2>5 DEF HandleConfigure, HandleDeleteId, HandleDataOffer
      <3> QED
        BY <1>3, <2>3, <3>1
    <2> QED
      BY <2>4, <2>5
  <1>5. CASE TakeRequest
    <2>1. PICK m : m = Head(toServer)
      OBVIOUS
    <2>2. UNCHANGED <<global_name, global_version>>
      BY <1>5 DEF TakeRequest, fuzzer
    <2>3. Accept(m) \/ UNCHANGED toClient
      BY <1>5, <2>1 DEF TakeRequest
    <2>4. \A i \in 1..Len(toClient') : Announced(offered, toClient'[i])
      <3>1. CASE Accept(m)
        <4>1. /\ \A i \in 1..Len(toClient) : i \in 1..Len(toClient') /\ toClient'[i] = toClient[i]
              /\ \A i \in 1..Len(toClient') : i \in 1..Len(toClient) \/ toClient'[i].op # "global"
          BY <1>0, <3>1, AnswersRight
        <4> QED
          BY <1>2, <4>1 DEF Announced
      <3> QED
        BY <1>2, <2>3, <3>1
    <2> QED
      BY <1>3, <2>2, <2>4
  <1>6. CASE TellGlobal \/ FrameShown \/ OfferData
    <2>1. UNCHANGED <<global_name, global_version>>
      BY <1>6 DEF TellGlobal, FrameShown, OfferData, fuzzer
    <2>2. PICK e : toClient' = Append(toClient, e) /\ Announced(offered, e)
      <3>1. CASE TellGlobal
        <4>1. PICK e : e = [op |-> "global", kind |-> offered[telling].kind,
                            name |-> telling, version |-> offered[telling].version]
          OBVIOUS
        <4>2. toClient' = Append(toClient, e) /\ telling \in 1..Len(offered)
          BY <3>1, <4>1 DEF TellGlobal
        <4>3. e.name = telling /\ e.kind = offered[telling].kind /\ e.version = offered[telling].version
          BY <4>1
        <4> QED
          BY <4>2, <4>3 DEF Announced
      <3>2. CASE FrameShown
        <4>1. PICK id : toClient' = Append(toClient, [op |-> "delete_id", id |-> id])
          BY <3>2 DEF FrameShown
        <4>2. [op |-> "delete_id", id |-> id].op # "global"
          OBVIOUS
        <4> QED
          BY <4>1, <4>2 DEF Announced
      <3>3. CASE OfferData
        <4>1. PICK d, x : toClient' = Append(toClient, [op |-> "data_offer", device |-> d, id |-> x])
          BY <3>3 DEF OfferData
        <4>2. [op |-> "data_offer", device |-> d, id |-> x].op # "global"
          OBVIOUS
        <4> QED
          BY <4>1, <4>2 DEF Announced
      <3> QED
        BY <1>6, <3>1, <3>2, <3>3
    <2>3. \A i \in 1..Len(toClient') :
            (i \in 1..Len(toClient) /\ toClient'[i] = toClient[i]) \/ toClient'[i] = e
      BY <1>0, <2>2, EventAdded
    <2>4. \A i \in 1..Len(toClient') : Announced(offered, toClient'[i])
      BY <1>2, <2>2, <2>3
    <2> QED
      BY <1>3, <2>1, <2>4
  <1>7. ASSUME ~(HandleGlobal \/ HandleConfigure \/ HandleDeleteId \/ HandleDataOffer),
               ~TakeRequest, ~(TellGlobal \/ FrameShown \/ OfferData)
        PROVE  UNCHANGED <<toClient, global_name, global_version>>
    BY <1>7
       DEF FuzzNext, Compositor, ReadEvents, HandleRest, AwaitGlobals, BindNext, Bound, Window,
           WindowSkipped, CreateSurface, GetXdgSurface, GetToplevel, AwaitSerial, AckConfigure,
           CreatePool, CreateBuffer, Attach, Commit, LeftWhole, DestroyBuffer, DestroyPool,
           WindowCut, Loop, AnotherWindow, LoopEnds, legal_bind, request, RequestUnknown,
           BindGuessed, Counted, Kept
  <1> QED
    BY <1>2, <1>3, <1>4, <1>5, <1>6, <1>7

-----------------------------------------------------------------------------
(* What is sent, whole, and whether it is of the opening.                  *)
SaysWith(object, opcode, args) ==
  \E m : /\ toServer' = Append(toServer, m) /\ Asks(m, object, opcode, args)
         /\ m.opening <=> InOpening
(* Something is sent that is not of the opening, unless the opening goes   *)
(* on.                                                                     *)
SaysAside == \E m : toServer' = Append(toServer, m) /\ (m.opening => InOpening)
(* What say sends is one message more on its way, or the session is over.  *)
LEMMA SaysRight ==
  /\ \A object, opcode, args : Does(object, opcode, args) => SaysWith(object, opcode, args)
  /\ \A object, opcode, args, whole : Sends(Request(object, opcode, args, whole)) => SaysAside
  /\ \A kind, version : bind_global(kind, version) =>
       SaysWith(2, 0, <<U(global_name[kind]), A("s", kind), U(version), A("n", next_id)>>)
  /\ \A object, opcode, args :
       Sends([Request(object, opcode, args, TRUE) EXCEPT !.opening = @ /\ TRUE]) =>
         SaysWith(object, opcode, args)
  /\ \A object, opcode, args :
       Sends([Request(object, opcode, args, FALSE) EXCEPT !.opening = @ /\ FALSE]) =>
         \E m : toServer' = Append(toServer, m) /\ ~m.opening
  <1>1. ASSUME NEW object, NEW opcode, NEW args, NEW m, m = Request(object, opcode, args, TRUE)
        PROVE  Asks(m, object, opcode, args) /\ (m.opening <=> InOpening)
    BY <1>1 DEF Request, Asks, InOpening
  <1>2. ASSUME NEW object, NEW opcode, NEW args, Does(object, opcode, args)
        PROVE  SaysWith(object, opcode, args)
    <2>1. PICK m : m = Request(object, opcode, args, TRUE)
      OBVIOUS
    <2>2. toServer' = Append(toServer, m)
      BY <1>2, <2>1 DEF Does, Sends
    <2> QED
      BY <1>1, <2>1, <2>2 DEF SaysWith
  <1>3. ASSUME NEW object, NEW opcode, NEW args, NEW whole, Sends(Request(object, opcode, args, whole))
        PROVE  SaysAside
    <2>1. PICK m : m = Request(object, opcode, args, whole)
      OBVIOUS
    <2>2. toServer' = Append(toServer, m)
      BY <1>3, <2>1 DEF Sends
    <2>3. m.opening => InOpening
      BY <2>1 DEF Request, InOpening
    <2> QED
      BY <2>2, <2>3 DEF SaysAside
  <1>4. ASSUME NEW kind, NEW version, bind_global(kind, version)
        PROVE  SaysWith(2, 0, <<U(global_name[kind]), A("s", kind), U(version), A("n", next_id)>>)
    <2> DEFINE args == <<U(global_name[kind]), A("s", kind), U(version), A("n", next_id)>>
    <2>1. toServer' = Append(toServer, Request(2, 0, args, TRUE))
      BY <1>4 DEF bind_global, Sends
    <2> HIDE DEF args
    <2>2. SaysWith(2, 0, args)
      BY <1>1, <2>1 DEF SaysWith
    <2> QED
      BY <2>2 DEF args
  <1>5. ASSUME NEW object, NEW opcode, NEW args,
               Sends([Request(object, opcode, args, TRUE) EXCEPT !.opening = @ /\ TRUE])
        PROVE  SaysWith(object, opcode, args)
    <2>1. PICK m : m = [Request(object, opcode, args, TRUE) EXCEPT !.opening = @ /\ TRUE]
      OBVIOUS
    <2>2. Asks(m, object, opcode, args) /\ (m.opening <=> InOpening)
      BY <2>1 DEF Request, Asks, InOpening
    <2>3. toServer' = Append(toServer, m)
      BY <1>5, <2>1 DEF Sends
    <2> QED
      BY <2>2, <2>3 DEF SaysWith
  <1>6. ASSUME NEW object, NEW opcode, NEW args,
               Sends([Request(object, opcode, args, FALSE) EXCEPT !.opening = @ /\ FALSE])
        PROVE  \E m : toServer' = Append(toServer, m) /\ ~m.opening
    <2>1. PICK m : m = [Request(object, opcode, args, FALSE) EXCEPT !.opening = @ /\ FALSE]
      OBVIOUS
    <2>2. ~m.opening
      BY <2>1 DEF Request
    <2>3. toServer' = Append(toServer, m)
      BY <1>6, <2>1 DEF Sends
    <2> QED
      BY <2>2, <2>3
  <1> QED
    BY <1>2, <1>3, <1>4, <1>5, <1>6

(* Whatever the fuzzer does, the compositor does nothing, and the opening  *)
(* does not begin again.                                                   *)
FuzzerMoves == ReadEvents \/ AwaitGlobals \/ BindNext \/ Bound \/ Window \/ Loop
(* Once the opening is over it is not begun again.                         *)
LEMMA OpeningOnce ==
  ASSUME FuzzerMoves
  PROVE  /\ UNCHANGED compositor
         /\ InOpening' => InOpening
         /\ UNCHANGED toServer \/ SaysAside
  <1>1. CASE ReadEvents \/ AwaitGlobals \/ Bound
    BY <1>1 DEF ReadEvents, HandleGlobal, HandleConfigure, HandleDeleteId, HandleDataOffer,
                HandleEvent, HandleRest, AwaitGlobals, Bound, InOpening
  <1>a. \A object, opcode, args : SaysWith(object, opcode, args) => SaysAside
    BY DEF SaysWith, SaysAside
  <1>b. \A object, opcode, args : Does(object, opcode, args) => SaysAside
    BY <1>a, SaysRight
  <1>c. \A kind, version : bind_global(kind, version) => SaysAside
    BY <1>a, SaysRight
  <1>2. CASE BindNext
    <2>1. UNCHANGED <<compositor, opening, bad>>
      BY <1>2 DEF BindNext
    <2>2. UNCHANGED toServer \/ \E k, v : bind_global(k, v)
      BY <1>2 DEF BindNext
    <2> QED
      BY <1>c, <2>1, <2>2 DEF InOpening
  <1>3. CASE Window
    <2>1. UNCHANGED compositor /\ (opening' => opening) /\ (opening' /\ ~bad' => ~bad)
      <3>1. CASE WindowSkipped \/ LeftWhole \/ WindowCut
        BY <3>1 DEF WindowSkipped, LeftWhole, WindowCut, WindowOver
      <3>2. CASE CreateSurface \/ GetXdgSurface \/ GetToplevel \/ AwaitSerial \/ AckConfigure
        <4>1. CASE AwaitSerial
          BY <4>1 DEF AwaitSerial
        <4>2. CASE CreateSurface \/ GetXdgSurface \/ GetToplevel \/ AckConfigure
          <5>1. UNCHANGED <<bad, Kept>>
            BY <4>2 DEF CreateSurface, GetXdgSurface, GetToplevel, AckConfigure
          <5>2. UNCHANGED <<bad, opening, compositor>>
            BY <5>1 DEF Kept
          <5> QED
            BY <5>2
        <4> QED
          BY <3>2, <4>1, <4>2
      <3>3. CASE CreatePool
        <4>1. \E memory \in BOOLEAN : bad' = (bad \/ ~memory)
          BY <3>3 DEF CreatePool
        <4>2. UNCHANGED <<compositor, opening>>
          BY <3>3 DEF CreatePool, Kept
        <4> QED
          BY <4>1, <4>2
      <3>4. CASE CreateBuffer \/ Attach \/ DestroyPool
        BY <3>4 DEF CreateBuffer, Attach, DestroyPool, Kept
      <3>5. CASE Commit
        BY <3>5 DEF Commit, WindowOver, Kept
      <3>6. CASE DestroyBuffer
        BY <3>6 DEF DestroyBuffer, Kept
      <3> QED
        BY <1>3, <3>1, <3>2, <3>3, <3>4, <3>5, <3>6 DEF Window
    <2>2. CASE WindowSkipped \/ LeftWhole \/ WindowCut \/ AwaitSerial
      BY <2>1, <2>2 DEF WindowSkipped, LeftWhole, WindowCut, AwaitSerial, InOpening
    <2>3. CASE CreatePool
      <3>1. PICK memory \in BOOLEAN :
              Sends([Request(win.shm, 0, <<A("n", next_id), A("h", 0), U(0)>>, memory)
                       EXCEPT !.opening = @ /\ memory])
        BY <2>3 DEF CreatePool
      <3>2. SaysAside
        <4>1. CASE memory = TRUE
          BY <1>a, <3>1, <4>1, SaysRight
        <4>2. CASE memory = FALSE
          <5>1. \E m : toServer' = Append(toServer, m) /\ ~m.opening
            BY <3>1, <4>2, SaysRight
          <5> QED
            BY <5>1 DEF SaysAside
        <4> QED
          BY <4>1, <4>2
      <3> QED
        BY <2>1, <3>2 DEF InOpening
    <2>4. CASE CreateSurface \/ GetXdgSurface \/ GetToplevel \/ AckConfigure \/ CreateBuffer
                \/ Attach \/ Commit \/ DestroyBuffer \/ DestroyPool
      <3>1. \E object, opcode, args : Does(object, opcode, args)
        BY <2>4 DEF CreateSurface, GetXdgSurface, GetToplevel, AckConfigure, CreateBuffer, Attach,
                    Commit, DestroyBuffer, DestroyPool
      <3> QED
        BY <1>b, <2>1, <3>1 DEF InOpening
    <2> QED
      BY <1>3, <2>2, <2>3, <2>4 DEF Window
  <1>4. CASE AnotherWindow \/ LoopEnds
    BY <1>4 DEF AnotherWindow, LoopEnds, InOpening
  <1>5. CASE legal_bind \/ request \/ RequestUnknown \/ BindGuessed
    <2>1. UNCHANGED <<compositor, opening, bad>>
      BY <1>5 DEF legal_bind, request, RequestUnknown, BindGuessed, Counted
    <2>2. SaysAside
      <3>1. CASE legal_bind
        <4>1. \E k, v : bind_global(k, v)
          BY <3>1 DEF legal_bind
        <4> QED
          BY <1>c, <4>1
      <3>2. CASE request
        <4>1. \E object, opcode, args, whole : Sends(Request(object, opcode, args, whole))
          BY <3>2 DEF request, MakeRequest
        <4> QED
          BY <4>1, SaysRight
      <3>3. CASE RequestUnknown \/ BindGuessed
        <4>1. \E object, opcode, args : Does(object, opcode, args)
          BY <3>3 DEF RequestUnknown, BindGuessed
        <4> QED
          BY <1>b, <4>1
      <3> QED
        BY <1>5, <3>1, <3>2, <3>3
    <2> QED
      BY <2>1, <2>2 DEF InOpening
  <1> QED
    BY <1>1, <1>2, <1>3, <1>4, <1>5 DEF FuzzerMoves, Loop

(* What is sent aside, or nothing, leaves the script as it is.             *)
LEMMA ScriptAside ==
  ASSUME FuzzTyped, NEW K, NEW f, NEW s, NEW t, Script(K, f, s, t), UNCHANGED compositor,
         \/ UNCHANGED toServer
         \/ \E m : toServer' = Append(toServer, m) /\ ~m.opening,
         InOpening' => UNCHANGED toServer /\ SentAt(K, f, s, t)'
  PROVE  Script(K, f, s, t)'
  <1>1. /\ K \in [Nat -> Bindable] /\ f \in 4..11 /\ s \in Nat /\ t \in Nat
        /\ t <= s /\ s <= f + 7 /\ Served(K, f, t) /\ Queued(K, f, s, t)
    BY DEF Script
  <1>2. Served(K, f, t)'
    BY <1>1 DEF Served, ResourcesAt, WindowsAt, WindowAt, compositor
  <1>3. offered' = offered
    BY DEF compositor
  <1>4. Queued(K, f, s, t)'
    <2>1. CASE UNCHANGED toServer
      BY <1>1, <1>3, <2>1 DEF Queued
    <2>2. CASE \E m : toServer' = Append(toServer, m) /\ ~m.opening
      <3>1. PICK m : toServer' = Append(toServer, m) /\ ~m.opening
        BY <2>2
      <3>2. IsSeq(toServer) /\ Len(toServer) \in Nat
        BY SeqParts DEF FuzzTyped, Requests
      <3>3. /\ Len(toServer') = Len(toServer) + 1
            /\ \A i \in 1..Len(toServer) : toServer'[i] = toServer[i]
            /\ toServer'[Len(toServer) + 1] = m
        BY <3>1, <3>2, SeqAppended
      <3>4. s - t <= Len(toServer)
        BY <1>1 DEF Queued
      <3>5. ASSUME NEW i \in 1..Len(toServer')
            PROVE  /\ toServer'[i].opening => i <= s - t
                   /\ i <= s - t => toServer'[i].opening /\ Line(offered, K, f, t + i, toServer'[i])
        <4>1. CASE i \in 1..Len(toServer)
          BY <1>1, <3>3, <4>1 DEF Queued
        <4>2. CASE i \notin 1..Len(toServer)
          <5>1. i = Len(toServer) + 1
            BY <3>2, <3>3, <4>2
          <5> QED
            BY <1>1, <3>1, <3>2, <3>3, <3>4, <5>1
        <4> QED
          BY <4>1, <4>2
      <3> QED
        BY <1>1, <1>3, <3>2, <3>3, <3>4, <3>5 DEF Queued
    <2> QED
      BY <2>1, <2>2
  <1> QED
    BY <1>1, <1>2, <1>4 DEF Script

(* A line is sent.                                                         *)
LEMMA ScriptLonger ==
  ASSUME FuzzTyped, NEW K \in [Nat -> Bindable], NEW f \in 4..11, NEW s \in Nat, NEW t \in Nat,
         Served(K, f, t), Queued(K, f, s, t), s = t + Len(toServer), s < f + 7,
         UNCHANGED compositor,
         NEW m, toServer' = Append(toServer, m), m.opening, Line(offered, K, f, s + 1, m),
         InOpening' => s + 1 <= f + 6 /\ PlaceAt(f, s + 1)' /\ WinAt(K, f)' /\ ListAt(K, f, s + 1)'
                         /\ HeardAt(f, t)'
  PROVE  Script(K, f, s + 1, t)'
  <1>2. Served(K, f, t)'
    BY DEF Served, ResourcesAt, WindowsAt, WindowAt, compositor
  <1>3. offered' = offered
    BY DEF compositor
  <1>4. IsSeq(toServer) /\ Len(toServer) \in Nat
    BY SeqParts DEF FuzzTyped, Requests
  <1>5. /\ Len(toServer') = Len(toServer) + 1
        /\ \A i \in 1..Len(toServer) : toServer'[i] = toServer[i]
        /\ toServer'[Len(toServer) + 1] = m
    BY <1>4, SeqAppended
  <1>6. s + 1 - t = Len(toServer) + 1 /\ s - t = Len(toServer) /\ t + (Len(toServer) + 1) = s + 1
    BY <1>4
  <1>7. ASSUME NEW i \in 1..Len(toServer')
        PROVE  /\ toServer'[i].opening => i <= s + 1 - t
               /\ i <= s + 1 - t => toServer'[i].opening /\ Line(offered, K, f, t + i, toServer'[i])
    <2>1. CASE i \in 1..Len(toServer)
      <3>1. toServer'[i] = toServer[i] /\ i <= s - t /\ i <= s + 1 - t
        BY <1>4, <1>5, <1>6, <2>1
      <3>2. toServer[i].opening /\ Line(offered, K, f, t + i, toServer[i])
        BY <2>1, <3>1 DEF Queued
      <3> QED
        BY <3>1, <3>2
    <2>2. CASE i \notin 1..Len(toServer)
      <3>1. i = Len(toServer) + 1
        BY <1>4, <1>5, <2>2
      <3>2. t + i = s + 1 /\ i <= s + 1 - t /\ toServer'[i] = m
        BY <1>4, <1>5, <1>6, <3>1
      <3> QED
        BY <3>2
    <2> QED
      BY <2>1, <2>2
  <1>8. Queued(K, f, s + 1, t)'
    BY <1>3, <1>4, <1>5, <1>6, <1>7, SMTT(30) DEF Queued
  <1>9. s + 1 \in Nat /\ t <= s + 1 /\ s + 1 <= f + 7 /\ s + 1 = t + Len(toServer')
    BY <1>4, <1>5
  <1> QED
    BY <1>2, <1>8, <1>9 DEF Script, SentAt

-----------------------------------------------------------------------------
(* remember leaves what is listed listed, and lists the object if there is *)
(* room.                                                                   *)
LEMMA RememberLists ==
  ASSUME NEW list, IsSeq(list), NEW id, NEW kind, NEW after, after = remember(list, id, kind)
  PROVE  /\ Len(list) \in Nat /\ Len(after) \in Nat /\ Len(after) <= Len(list) + 1
         /\ \A i \in 1..Len(list) : i \in 1..Len(after) /\ after[i].id = list[i].id
         /\ Len(list) < MAX_OBJECTS => \E i \in 1..Len(after) : after[i].id = id
  <1>0. Len(list) \in Nat
    BY SeqParts
  <1>a. PICK e : e = Entry(id, kind, FALSE)
    OBVIOUS
  <1>b. e.id = id
    BY <1>a DEF Entry
  <1>1. CASE Known(list, id) # {}
    <2>1. after = [i \in 1..Len(list) |-> IF list[i].id = id THEN e ELSE list[i]]
      BY <1>1, <1>a DEF remember
    <2>2. \A i \in 1..Len(list) : after[i].id = list[i].id
      BY <1>b, <2>1
    <2>3. after = [i \in 1..Len(list) |-> after[i]]
      BY <2>1
    <2>4. Len(after) = Len(list)
      BY <1>0, <2>3, SeqMade
    <2>5. \E i \in 1..Len(list) : list[i].id = id
      BY <1>1 DEF Known
    <2> QED
      BY <1>0, <2>2, <2>4, <2>5
  <1>2. CASE Known(list, id) = {} /\ Len(list) < MAX_OBJECTS
    <2>1. after = Append(list, e)
      BY <1>2, <1>a DEF remember
    <2>2. /\ Len(after) = Len(list) + 1
          /\ \A i \in 1..Len(list) : after[i] = list[i]
          /\ after[Len(list) + 1] = e
      BY <2>1, SeqAppended
    <2>3. Len(list) + 1 \in 1..Len(after) /\ \A i \in 1..Len(list) : i \in 1..Len(after)
      BY <1>0, <2>2
    <2> QED
      BY <1>0, <1>b, <2>2, <2>3
  <1>3. CASE Known(list, id) = {} /\ ~(Len(list) < MAX_OBJECTS)
    <2>1. after = list
      BY <1>3 DEF remember
    <2> QED
      BY <1>0, <1>3, <2>1
  <1> QED
    BY <1>1, <1>2, <1>3

(* The list with what a line makes, and with what it does not.             *)
LEMMA ListGrows ==
  ASSUME EnoughRoom, FuzzTyped, NEW K \in [Nat -> Bindable], NEW f \in 4..11, NEW s \in Nat,
         s < f + 6, s # 1, MakingLine(f, s + 1), ListAt(K, f, s), NEW id, NEW kind,
         id = HighestAt(f, s + 1), kind = KindAt(K, f, id), objects' = remember(objects, id, kind)
  PROVE  ListAt(K, f, s + 1)'
  <1>1. IsSeq(objects) /\ Len(objects) <= s
    BY DEF FuzzTyped, IsList, ListAt
  <1>2. /\ Len(objects) \in Nat /\ Len(objects') \in Nat /\ Len(objects') <= Len(objects) + 1
        /\ \A i \in 1..Len(objects) : i \in 1..Len(objects') /\ objects'[i].id = objects[i].id
        /\ Len(objects) < MAX_OBJECTS => \E i \in 1..Len(objects') : objects'[i].id = id
    BY <1>1, RememberLists
  <1>3. \A j \in 1..Len(objects') :
          \/ IsNew(objects'[j], id, kind)
          \/ j \in 1..Len(objects) /\ objects'[j] = objects[j]
    BY <1>1, RememberRight
  <1>4. IdsAt(f, s + 1) = IdsAt(f, s) \cup {id}
    <2>1. s < f + 7
      OBVIOUS
    <2> QED
      BY <2>1, IdsStep, ZenonT(30)
  <1>5. ASSUME NEW j \in 1..Len(objects')
        PROVE  /\ ~objects'[j].dead /\ objects'[j].id \in IdsAt(f, s + 1)
               /\ objects'[j].kind = KindAt(K, f, objects'[j].id)
    <2>1. CASE IsNew(objects'[j], id, kind)
      BY <1>4, <2>1 DEF IsNew
    <2>2. CASE j \in 1..Len(objects) /\ objects'[j] = objects[j]
      BY <1>4, <2>2 DEF ListAt
    <2> QED
      BY <1>3, <2>1, <2>2
  <1>6. ASSUME s + 1 >= f
        PROVE  \E i \in 1..Len(objects') : objects'[i].id = f + 1
    <2>1. CASE s >= f
      <3>1. \E i \in 1..Len(objects) : objects[i].id = f + 1
        BY <2>1 DEF ListAt, Listed
      <3> QED
        BY <1>2, <3>1
    <2>2. CASE s + 1 = f
      <3>1. id = f + 1
        BY <2>2 DEF HighestAt
      <3>2. MAX_OBJECTS \in Nat /\ MAX_OBJECTS >= 11
        BY FuzzAssumption DEF EnoughRoom
      <3>3. Len(objects) < MAX_OBJECTS
        BY <1>1, <1>2, <2>2, <3>2
      <3> QED
        BY <1>2, <3>1, <3>3
    <2> QED
      BY <1>6, <2>1, <2>2
  <1>7. Len(objects') <= s + 1
    BY <1>1, <1>2
  <1> QED
    BY <1>5, <1>6, <1>7 DEF ListAt, Listed
(* A line that makes nothing leaves the list right.                        *)
LEMMA ListKept ==
  ASSUME FuzzTyped, NEW K, NEW f \in 4..11, NEW s \in Nat, s + 1 \in {f + 2, f + 5, f + 6},
         ListAt(K, f, s), UNCHANGED objects
  PROVE  ListAt(K, f, s + 1)'
  <1>1. IdsAt(f, s + 1) = IdsAt(f, s)
    <2>1. s < f + 7
      OBVIOUS
    <2> QED
      BY <2>1, IdsStep
  <1>2. Len(objects) \in Nat
    BY SeqParts DEF FuzzTyped, IsList
  <1>3. Len(objects) <= s + 1
    BY <1>2 DEF ListAt
  <1>4. s >= f
    OBVIOUS
  <1> QED
    BY <1>1, <1>3, <1>4 DEF ListAt, Listed

(* What is picked for the window was bought in the opening.                *)
LEMMA PicksBought ==
  ASSUME NEW K \in [Nat -> Bindable], NEW f \in 4..11, NEW s, ListAt(K, f, s),
         NEW kind \in {"compositor", "wm_base", "shm"}, NEW x \in Picks(kind)
  PROVE  Bought(K, f, x, kind)
  <1>1. PICK i \in 1..Len(objects) : x = objects[i].id /\ objects[i].kind = kind
    BY DEF Picks, Live, K_NONE
  <1>2. KindAt(K, f, x) = kind
    BY <1>1 DEF ListAt
  <1> QED
    BY <1>2 DEF KindAt, Bought, K_NONE

(* The first two ids.                                                      *)
LEMMA FirstKinds ==
  ASSUME NEW K, NEW f \in 4..11
  PROVE  KindAt(K, f, 1) = "display" /\ KindAt(K, f, 2) = "registry"
  BY DEF KindAt

(* One more kind is bound: what there was before is the same.              *)
Rebinds(K, f, s, t, k, K2, f2) ==
  /\ K \in [Nat -> Bindable] /\ f \in 4..10 /\ t \in Nat /\ s = f - 2 /\ t <= s
  /\ Served(K, f, t) /\ Queued(K, f, s, t) /\ HeardAt(f, t) /\ ListAt(K, f, s)
  /\ s = t + Len(toServer) /\ k \in Bindable /\ K2 = [K EXCEPT ![f] = k] /\ f2 = f + 1
(* So the script so far is a script with the new kind too.                 *)
LEMMA Rebound ==
  ASSUME NEW K, NEW f, NEW s, NEW t, NEW k, NEW K2, NEW f2, Rebinds(K, f, s, t, k, K2, f2)
  PROVE  /\ K2 \in [Nat -> Bindable] /\ f2 \in 4..11 /\ K2[f] = k
         /\ Served(K2, f2, t) /\ Queued(K2, f2, s, t) /\ HeardAt(f2, t) /\ ListAt(K2, f2, s)
  <1> SUFFICES ASSUME K \in [Nat -> Bindable], f \in 4..10, t \in Nat, s = f - 2, t <= s,
                      Served(K, f, t), Queued(K, f, s, t), HeardAt(f, t), ListAt(K, f, s),
                      s = t + Len(toServer), k \in Bindable, K2 = [K EXCEPT ![f] = k], f2 = f + 1
               PROVE  /\ K2 \in [Nat -> Bindable] /\ f2 \in 4..11 /\ K2[f] = k
                      /\ Served(K2, f2, t) /\ Queued(K2, f2, s, t) /\ HeardAt(f2, t) /\ ListAt(K2, f2, s)
    BY DEF Rebinds
  <1>1. K2 \in [Nat -> Bindable] /\ f2 \in 4..11 /\ K2[f] = k /\ \A x \in 4..(f - 1) : K2[x] = K[x]
    OBVIOUS
  <1>2. ASSUME NEW u \in Nat, u <= s
        PROVE  HighestAt(f2, u) = u + 1 /\ HighestAt(f, u) = u + 1 /\ IdsAt(f2, u) = IdsAt(f, u)
               /\ \A x \in IdsAt(f, u) : KindAt(K2, f2, x) = KindAt(K, f, x)
    <2>1. HighestAt(f2, u) = u + 1 /\ HighestAt(f, u) = u + 1
      BY <1>2 DEF HighestAt
    <2>2. IdsAt(f2, u) = (1..(u + 1)) \ {3} /\ IdsAt(f, u) = (1..(u + 1)) \ {3}
      BY <1>2, <2>1 DEF IdsAt
    <2>3. ASSUME NEW x \in (1..(u + 1)) \ {3}
          PROVE  KindAt(K2, f2, x) = KindAt(K, f, x)
      <3>1. x = 1 \/ x = 2 \/ x \in 4..(f - 1)
        BY <1>2
      <3>2. CASE x = 1 \/ x = 2
        <4>1. f \in 4..11
          OBVIOUS
        <4>2. KindAt(K, f, 1) = "display" /\ KindAt(K, f, 2) = "registry"
          BY <4>1, FirstKinds
        <4>3. KindAt(K2, f2, 1) = "display" /\ KindAt(K2, f2, 2) = "registry"
          BY <1>1, FirstKinds
        <4> QED
          BY <3>2, <4>2, <4>3
      <3>3. CASE x \in 4..(f - 1)
        <4>1. x \in 4..(f2 - 1)
          BY <3>3
        <4> QED
          BY <1>1, <3>3, <4>1 DEF KindAt
      <3> QED
        BY <3>1, <3>2, <3>3
    <2> QED
      BY <2>1, <2>2, <2>3
  <1>3. Served(K2, f2, t)
    <2>1. ResourcesAt(K2, f2, t)
      BY <1>2 DEF Served, ResourcesAt
    <2>2. t < f /\ t < f2 /\ ~(t >= f2) /\ ~(t > f2) /\ ~(t > f)
      OBVIOUS
    <2>3. WindowsAt(f2, t)
      BY <2>2 DEF Served, WindowsAt
    <2> QED
      BY <2>1, <2>3 DEF Served
  <1>4. ASSUME NEW p \in 1..s, NEW m, Line(offered, K, f, p, m)
        PROVE  Line(offered, K2, f2, p, m)
    <2>1. /\ p # f2 - 1 /\ p # f2 /\ p # f2 + 1 /\ p # f2 + 2 /\ p # f2 + 3 /\ p # f2 + 4
          /\ p # f2 + 5 /\ p # f2 + 6 /\ p # f2 + 7
      OBVIOUS
    <2>2. ASSUME p \in 3..(f2 - 2)
          PROVE  Binds(offered, m, K2[p + 1], p + 1)
      <3>1. p \in 3..(f - 2) /\ p + 1 \in 4..(f - 1)
        BY <2>2
      <3>2. Binds(offered, m, K[p + 1], p + 1)
        BY <1>4, <3>1 DEF Line
      <3>3. K2[p + 1] = K[p + 1]
        BY <1>1, <3>1
      <3> QED
        BY <3>2, <3>3
    <2>3. /\ p = 1 => Asks(m, 1, 1, <<A("n", 2)>>)
          /\ p = 2 => Asks(m, 1, 0, <<A("n", 3)>>)
      BY <1>4 DEF Line
    <2> QED
      BY <2>1, <2>2, <2>3 DEF Line
  <1>5. Queued(K2, f2, s, t)
    <2>1. ASSUME NEW i \in 1..Len(toServer), i <= s - t
          PROVE  Line(offered, K2, f2, t + i, toServer[i])
      <3>1. Line(offered, K, f, t + i, toServer[i])
        BY <2>1 DEF Queued
      <3>2. t + i \in 1..s
        BY <2>1
      <3> QED
        BY <1>4, <3>1, <3>2
    <2> QED
      BY <2>1 DEF Queued
  <1>6. HeardAt(f2, t)
    BY DEF HeardAt
  <1>7. ListAt(K2, f2, s)
    <2>1. s \in Nat /\ s <= s /\ ~(s >= f2) /\ Len(objects) <= s
      BY DEF ListAt
    <2>2. ASSUME NEW i \in 1..Len(objects)
          PROVE  /\ ~objects[i].dead /\ objects[i].id \in IdsAt(f2, s)
                 /\ objects[i].kind = KindAt(K2, f2, objects[i].id)
      <3>1. /\ ~objects[i].dead /\ objects[i].id \in IdsAt(f, s)
            /\ objects[i].kind = KindAt(K, f, objects[i].id)
        BY DEF ListAt
      <3> QED
        BY <1>2, <2>1, <3>1
    <2> QED
      BY <2>1, <2>2 DEF ListAt
  <1> QED
    BY <1>1, <1>3, <1>5, <1>6, <1>7

-----------------------------------------------------------------------------
(* What is read in the opening: a configure is of its window, and is kept; *)
(* what is given back is the callback, which is not listed.                *)
LEMMA HeardInOpening ==
  ASSUME FuzzTyped, NEW K \in [Nat -> Bindable], NEW f \in 4..11, NEW s \in Nat, NEW t \in Nat,
         t <= s, HeardAt(f, t), ListAt(K, f, s),
         HandleGlobal \/ HandleConfigure \/ HandleDeleteId \/ HandleDataOffer
  PROVE  HeardAt(f, t)' /\ ListAt(K, f, s)'
  <1>1. toClient # << >> /\ toClient' = Tail(toClient) /\ Events(toClient)
    BY DEF HandleGlobal, HandleConfigure, HandleDeleteId, HandleDataOffer, HandleEvent, FuzzTyped
  <1>2. /\ Len(toClient) \in Nat \ {0} /\ Len(toClient') = Len(toClient) - 1
        /\ Head(toClient) = toClient[1] /\ 1 \in 1..Len(toClient)
        /\ \A i \in 1..Len(toClient') : i + 1 \in 1..Len(toClient) /\ toClient'[i] = toClient[i + 1]
    BY <1>1, EventRead
  <1>3. PICK e : e = Head(toClient)
    OBVIOUS
  <1>4. /\ e.op \in {"global", "delete_id", "configure"}
        /\ e.op = "delete_id" => e.id = 3
        /\ e.op = "configure" => e.id = f + 1 /\ e.serial = 1 /\ t > f
    BY <1>2, <1>3 DEF HeardAt
  <1>5. /\ HandleGlobal => e.op = "global" /\ UNCHANGED <<objects, last_serial>>
        /\ HandleConfigure =>
             e.op = "configure" /\ UNCHANGED objects
               /\ last_serial' = IF kind_of(e.id) = "xdg_surface" THEN e.serial ELSE last_serial
        /\ HandleDeleteId =>
             e.op = "delete_id" /\ objects' = forget(objects, e.id) /\ UNCHANGED last_serial
        /\ HandleDataOffer => e.op = "data_offer"
    BY <1>3 DEF HandleGlobal, HandleConfigure, HandleDeleteId, HandleDataOffer, HandleEvent
  <1>6. ~HandleDataOffer
    BY <1>4, <1>5
  <1>7. IsList(objects) /\ IsSeq(objects) /\ Len(objects) \in Nat
    BY SeqParts DEF FuzzTyped, IsList
  <1>8. \A i \in 1..Len(objects) :
          /\ ~objects[i].dead /\ objects[i].id \in IdsAt(f, s)
          /\ objects[i].kind = KindAt(K, f, objects[i].id)
    BY DEF ListAt
  <1>9. ListAt(K, f, s)'
    <2>1. CASE UNCHANGED objects
      BY <2>1 DEF ListAt, Listed
    <2>2. CASE e.op = "delete_id" /\ objects' = forget(objects, e.id)
      <3>1. /\ Len(objects') = Len(objects)
            /\ \A j \in 1..Len(objects) :
                 objects'[j] = [objects[j] EXCEPT !.dead = objects[j].dead \/ objects[j].id = 3]
        BY <1>4, <1>7, <2>2, ForgetRight
      <3>2. \A j \in 1..Len(objects) : objects[j].id # 3
        BY <1>8 DEF IdsAt
      <3>3. ASSUME NEW j \in 1..Len(objects)
            PROVE  ~objects'[j].dead /\ objects'[j].id = objects[j].id /\ objects'[j].kind = objects[j].kind
        <4>1. PICK o : o = objects[j]
          OBVIOUS
        <4>2. PICK p : p = objects'[j]
          OBVIOUS
        <4>3. EntryTyped(o) /\ p = [o EXCEPT !.dead = o.dead \/ o.id = 3] /\ o.id # 3 /\ ~o.dead
          BY <1>7, <1>8, <3>1, <3>2, <4>1, <4>2 DEF IsList
        <4>4. p.id = o.id /\ p.kind = o.kind
          BY <4>3
        <4>5. p.dead = (o.dead \/ o.id = 3) \/ p = o
          BY <4>3
        <4> QED
          BY <4>1, <4>2, <4>3, <4>4, <4>5
      <3> QED
        BY <1>7, <3>1, <3>3 DEF ListAt, Listed
    <2> QED
      BY <1>5, <1>6, <2>1, <2>2
  <1>10. e.op = "configure" => last_serial' = 1
    <2>1. ASSUME e.op = "configure"
          PROVE  kind_of(f + 1) = "xdg_surface"
      <3>1. s >= f
        BY <1>4, <2>1
      <3>2. PICK i \in 1..Len(objects) : objects[i].id = f + 1
        BY <3>1 DEF ListAt, Listed
      <3>3. i \in Known(objects, f + 1) \cap Live
        BY <1>8, <3>2 DEF Known, Live
      <3>4. PICK j : j = CHOOSE i2 \in Known(objects, f + 1) \cap Live : TRUE
        OBVIOUS
      <3>5. j \in Known(objects, f + 1) \cap Live
        BY <3>3, <3>4
      <3>6. j \in 1..Len(objects) /\ objects[j].id = f + 1
        BY <3>5 DEF Known
      <3>7. objects[j].kind = KindAt(K, f, f + 1)
        BY <1>8, <3>6
      <3>8. KindAt(K, f, f + 1) = "xdg_surface"
        BY KindsOfOpening
      <3>9. kind_of(f + 1) = objects[j].kind
        BY <3>3, <3>4 DEF kind_of
      <3> QED
        BY <3>7, <3>8, <3>9
    <2> QED
      BY <1>4, <1>5, <1>6, <2>1
  <1>11. e.op # "configure" => last_serial' = last_serial
    BY <1>5, <1>6
  <1>12. HeardAt(f, t)'
    <2>1. \A i \in 1..Len(toClient') :
            /\ toClient'[i].op \in {"global", "delete_id", "configure"}
            /\ toClient'[i].op = "delete_id" => toClient'[i].id = 3
            /\ toClient'[i].op = "configure" =>
                 toClient'[i].id = f + 1 /\ toClient'[i].serial = 1 /\ t > f
      BY <1>2 DEF HeardAt
    <2>2. last_serial' \in {0, 1}
      BY <1>10, <1>11 DEF HeardAt
    <2>3. ASSUME t > f
          PROVE  last_serial' = 1 \/ Coming'
      <3>1. CASE e.op = "configure"
        BY <1>10, <3>1
      <3>2. CASE e.op # "configure"
        <4>1. last_serial = 1 \/ Coming
          BY <2>3 DEF HeardAt
        <4>2. ASSUME NEW i \in 1..Len(toClient), toClient[i].op = "configure"
              PROVE  Coming'
          <5>1. i # 1
            BY <1>2, <1>3, <3>2, <4>2
          <5>2. i - 1 \in 1..Len(toClient') /\ (i - 1) + 1 = i
            BY <1>2, <5>1
          <5>3. toClient'[i - 1] = toClient[i]
            BY <1>2, <5>2
          <5> QED
            BY <4>2, <5>2, <5>3 DEF Coming
        <4> QED
          BY <1>11, <3>2, <4>1, <4>2 DEF Coming
      <3> QED
        BY <3>1, <3>2
    <2> QED
      BY <2>1, <2>2, <2>3 DEF HeardAt
  <1> QED
    BY <1>9, <1>12

(* The steps of the opening that send nothing.                             *)
LEMMA QuietInOpening ==
  ASSUME FuzzTyped, NEW K, NEW f, NEW s, NEW t, Script(K, f, s, t), InOpening,
         \/ ReadEvents \/ AwaitGlobals \/ Bound \/ AwaitSerial
         \/ BindNext /\ UNCHANGED <<toServer, objects, next_id>>
  PROVE  Script(K, f, s, t)'
  <1>1. /\ K \in [Nat -> Bindable] /\ f \in 4..11 /\ s \in Nat /\ t \in Nat /\ t <= s
        /\ SentAt(K, f, s, t)
    BY DEF Script
  <1>2. /\ s = t + Len(toServer) /\ s <= f + 6 /\ PlaceAt(f, s) /\ WinAt(K, f)
        /\ ListAt(K, f, s) /\ HeardAt(f, t)
    BY <1>1 DEF SentAt
  <1>3. UNCHANGED <<compositor, toServer, opening, bad, win, next_id>>
    BY DEF ReadEvents, HandleGlobal, HandleConfigure, HandleDeleteId, HandleDataOffer, HandleEvent,
           HandleRest, AwaitGlobals, Bound, AwaitSerial, BindNext
  <1>4. PlaceAt(f, s)' /\ WinAt(K, f)'
    <2>1. CASE ReadEvents \/ AwaitSerial
      <3>1. UNCHANGED <<phase, step>>
        BY <2>1 DEF ReadEvents, HandleGlobal, HandleConfigure, HandleDeleteId, HandleDataOffer,
                    HandleEvent, HandleRest, AwaitSerial
      <3> QED
        BY <1>2, <1>3, <3>1 DEF PlaceAt, WinAt, Bought
    <2>2. CASE AwaitGlobals
      <3>1. phase = "globals" /\ phase' \in {"globals", "binds"} /\ UNCHANGED step
        BY <2>2 DEF AwaitGlobals
      <3> QED
        BY <1>2, <1>3, <3>1 DEF PlaceAt, WinAt
    <2>3. CASE Bound
      <3>1. phase = "binds" /\ phase' = "window" /\ step' = 1
        BY <2>3 DEF Bound
      <3> QED
        BY <1>2, <1>3, <3>1 DEF PlaceAt, WinAt
    <2>4. CASE BindNext
      <3>1. phase = "binds" /\ phase' = "binds"
        BY <2>4 DEF BindNext
      <3> QED
        BY <1>2, <1>3, <3>1 DEF PlaceAt, WinAt
    <2> QED
      BY <2>1, <2>2, <2>3, <2>4
  <1>5. ListAt(K, f, s)' /\ HeardAt(f, t)'
    <2>1. CASE HandleGlobal \/ HandleConfigure \/ HandleDeleteId \/ HandleDataOffer
      BY <1>1, <1>2, <2>1, HeardInOpening
    <2>2. CASE ~(HandleGlobal \/ HandleConfigure \/ HandleDeleteId \/ HandleDataOffer)
      <3>1. UNCHANGED <<objects, toClient, last_serial>>
        BY <2>2 DEF ReadEvents, HandleRest, AwaitGlobals, Bound, AwaitSerial, BindNext
      <3> QED
        BY <1>2, <3>1 DEF ListAt, Listed, HeardAt, Coming
    <2> QED
      BY <2>1, <2>2
  <1>6. SentAt(K, f, s, t)'
    BY <1>2, <1>3, <1>4, <1>5 DEF SentAt
  <1> QED
    BY <1>3, <1>6, ScriptAside

-----------------------------------------------------------------------------
(* The window's steps of the opening send the lines of its script.         *)
Opening(K, f, s, t) ==
  /\ K \in [Nat -> Bindable] /\ f \in 4..11 /\ s \in Nat /\ t \in Nat /\ t <= s
  /\ Served(K, f, t) /\ Queued(K, f, s, t) /\ s = t + Len(toServer) /\ s <= f + 6
  /\ PlaceAt(f, s) /\ WinAt(K, f) /\ ListAt(K, f, s) /\ HeardAt(f, t)
(* Inside the opening the script says all of it.                           *)
LEMMA ScriptInOpening ==
  ASSUME NEW K, NEW f, NEW s, NEW t, Script(K, f, s, t), InOpening
  PROVE  Opening(K, f, s, t)
  BY DEF Script, SentAt, Opening

(* One of them that goes on with the window.                               *)
LineGoesOn(K, f, s) ==
  /\ UNCHANGED <<phase, compositor, toClient, last_serial>> /\ phase = "window"
  /\ step' = step + 1 /\ step \in 1..8 /\ s = f + step - 3
  /\ next_id' = (IF step < 5 THEN f + 3 ELSE f + 5)
  /\ \/ /\ MakingLine(f, s + 1)
        /\ objects' = remember(objects, HighestAt(f, s + 1), KindAt(K, f, HighestAt(f, s + 1)))
     \/ s + 1 \in {f + 2, f + 5, f + 6} /\ UNCHANGED objects
  /\ WinAt(K, f)'
(* A step of the window that sends the script's next line keeps the        *)
(* script.                                                                 *)
LEMMA LineSent ==
  ASSUME EnoughRoom, FuzzTyped, NEW K, NEW f, NEW s, NEW t, Opening(K, f, s, t), InOpening,
         LineGoesOn(K, f, s), NEW object, NEW opcode, NEW args, SaysWith(object, opcode, args),
         \A m : Asks(m, object, opcode, args) => Line(offered, K, f, s + 1, m)
  PROVE  Script(K, f, s + 1, t)'
  <1>1. /\ K \in [Nat -> Bindable] /\ f \in 4..11 /\ s \in Nat /\ t \in Nat /\ t <= s
        /\ Served(K, f, t) /\ Queued(K, f, s, t) /\ s = t + Len(toServer) /\ s <= f + 6
        /\ ListAt(K, f, s) /\ HeardAt(f, t)
    BY DEF Opening
  <1>2. PICK m : /\ toServer' = Append(toServer, m) /\ Asks(m, object, opcode, args)
                 /\ m.opening <=> InOpening
    BY DEF SaysWith
  <1>3. m.opening /\ Line(offered, K, f, s + 1, m)
    BY <1>2
  <1>4. /\ UNCHANGED <<phase, compositor, toClient, last_serial>> /\ phase = "window"
        /\ step' = step + 1 /\ step \in 1..8 /\ s = f + step - 3
        /\ next_id' = (IF step < 5 THEN f + 3 ELSE f + 5)
        /\ \/ /\ MakingLine(f, s + 1)
              /\ objects' = remember(objects, HighestAt(f, s + 1), KindAt(K, f, HighestAt(f, s + 1)))
           \/ s + 1 \in {f + 2, f + 5, f + 6} /\ UNCHANGED objects
        /\ WinAt(K, f)'
    BY DEF LineGoesOn
  <1>5. s < f + 6 /\ s # 1 /\ s < f + 7
    BY <1>1, <1>4
  <1>6. ListAt(K, f, s + 1)'
    <2>1. CASE /\ MakingLine(f, s + 1)
               /\ objects' = remember(objects, HighestAt(f, s + 1), KindAt(K, f, HighestAt(f, s + 1)))
      <3>1. PICK id, kind : id = HighestAt(f, s + 1) /\ kind = KindAt(K, f, id)
        OBVIOUS
      <3>2. objects' = remember(objects, id, kind)
        BY <2>1, <3>1
      <3> QED
        BY <1>1, <1>5, <2>1, <3>1, <3>2, ListGrows
    <2>2. CASE s + 1 \in {f + 2, f + 5, f + 6} /\ UNCHANGED objects
      BY <1>1, <2>2, ListKept
    <2> QED
      BY <1>4, <2>1, <2>2
  <1>7. PlaceAt(f, s + 1)'
    <2>1. step' \in 2..9 /\ s + 1 = f + step' - 3
      BY <1>1, <1>4
    <2>2. next_id' = IF step' \in 2..5 THEN f + 3 ELSE f + 5
      BY <1>1, <1>4
    <2>3. step' \in 2..5 \/ step' \in 6..9
      BY <2>1
    <2> QED
      BY <1>4, <2>1, <2>2, <2>3 DEF PlaceAt
  <1>8. HeardAt(f, t)'
    BY <1>1, <1>4 DEF HeardAt, Coming
  <1>9. s + 1 <= f + 6
    BY <1>1, <1>5
  <1> QED
    BY <1>1, <1>2, <1>3, <1>4, <1>5, <1>6, <1>7, <1>8, <1>9, ScriptLonger

(* Where the window is, and what it is to make next.                       *)
LEMMA WindowPlace ==
  ASSUME NEW K, NEW f, NEW s, NEW t, Opening(K, f, s, t), phase = "window"
  PROVE  /\ step = 1 => s = f - 2 /\ next_id = f
         /\ step # 1 => /\ step \in 2..9 /\ s = f + step - 3
                        /\ next_id = IF step < 6 THEN f + 3 ELSE f + 5
                        /\ win.surface = f /\ win.xdg = f + 1 /\ win.top = f + 2
                        /\ Bought(K, f, win.wm, "wm_base") /\ Bought(K, f, win.shm, "shm")
                        /\ step > 5 => win.pool = f + 3 /\ win.buffer = f + 4
  <1>1. PlaceAt(f, s) /\ WinAt(K, f)
    BY DEF Opening
  <1>2. \/ step = 1 /\ s = f - 2 /\ next_id = f
        \/ step \in 2..5 /\ s = f + step - 3 /\ next_id = f + 3
        \/ step \in 6..9 /\ s = f + step - 3 /\ next_id = f + 5
    BY <1>1 DEF PlaceAt
  <1>3. step \in 2..9 => /\ win.surface = f /\ win.xdg = f + 1 /\ win.top = f + 2
                         /\ Bought(K, f, win.wm, "wm_base") /\ Bought(K, f, win.shm, "shm")
                         /\ step > 5 => win.pool = f + 3 /\ win.buffer = f + 4
    BY <1>1 DEF WinAt
  <1> QED
    BY <1>2, <1>3

(* create_surface is the next line.                                        *)
LEMMA SurfaceSent ==
  ASSUME EnoughRoom, FuzzTyped, NEW K, NEW f, NEW s, NEW t, Opening(K, f, s, t), InOpening,
         CreateSurface
  PROVE  Script(K, f, s + 1, t)'
  <1>1. PICK c \in Picks("compositor"), w \in Picks("wm_base"), x \in Picks("shm") :
          /\ Does(c, 0, <<A("n", next_id)>>)
          /\ win' = [win EXCEPT !.wm = w, !.shm = x, !.surface = next_id, !.xdg = next_id + 1,
                                !.top = next_id + 2]
    BY DEF CreateSurface
  <1>2. /\ UNCHANGED <<phase, compositor, toClient, last_serial>> /\ phase = "window" /\ step = 1
        /\ step' = 2 /\ next_id' = next_id + 3 /\ objects' = remember(objects, next_id, "surface")
    BY DEF CreateSurface, Step, Kept
  <1>3. s = f - 2 /\ next_id = f
    BY <1>2, WindowPlace
  <1>4. K \in [Nat -> Bindable] /\ f \in 4..11 /\ s \in Nat /\ ListAt(K, f, s)
    BY DEF Opening
  <1>5. Bought(K, f, c, "compositor") /\ Bought(K, f, w, "wm_base") /\ Bought(K, f, x, "shm")
    BY <1>4, PicksBought
  <1>6. win \in [{"wm", "shm", "surface", "xdg", "top", "pool", "buffer"} -> Nat]
    BY DEF FuzzTyped, FuzzerTyped
  <1>7. win'.wm = w /\ win'.shm = x /\ win'.surface = f /\ win'.xdg = f + 1 /\ win'.top = f + 2
    BY <1>1, <1>3, <1>6
  <1>8. WinAt(K, f)'
    <2>1. ~(step' > 5)
      BY <1>2
    <2> QED
      BY <1>5, <1>7, <2>1 DEF WinAt, Bought
  <1>9. MakingLine(f, s + 1) /\ HighestAt(f, s + 1) = f /\ KindAt(K, f, f) = "surface"
    <2>1. s + 1 <= f + 1 /\ (s + 1) + 1 = f
      BY <1>3, <1>4
    <2>2. KindAt(K, f, f) = "surface"
      BY <1>4, KindsOfOpening
    <2> QED
      BY <2>1, <2>2 DEF MakingLine, HighestAt
  <1>10. objects' = remember(objects, HighestAt(f, s + 1), KindAt(K, f, HighestAt(f, s + 1)))
    BY <1>2, <1>3, <1>9
  <1>11. LineGoesOn(K, f, s)
    BY <1>2, <1>3, <1>4, <1>8, <1>9, <1>10 DEF LineGoesOn
  <1>12. SaysWith(c, 0, <<A("n", next_id)>>)
    BY <1>1, SaysRight
  <1>13. ASSUME NEW m, Asks(m, c, 0, <<A("n", next_id)>>)
         PROVE  Line(offered, K, f, s + 1, m)
    <2>1. s + 1 = f - 1 /\ f - 1 # 1 /\ f - 1 # 2 /\ f - 1 \notin 3..(f - 2)
          /\ f - 1 # f /\ f - 1 # f + 1 /\ f - 1 # f + 2 /\ f - 1 # f + 3 /\ f - 1 # f + 4
          /\ f - 1 # f + 5 /\ f - 1 # f + 6 /\ f - 1 # f + 7
      BY <1>3, <1>4
    <2>2. Asks(m, c, 0, <<A("n", f)>>)
      BY <1>3, <1>13
    <2> QED
      BY <1>5, <2>1, <2>2 DEF Line
  <1> QED
    BY <1>11, <1>12, <1>13, LineSent

(* The xdg surface's line.                                                 *)
LEMMA XdgSurfaceSent ==
  ASSUME EnoughRoom, FuzzTyped, NEW K, NEW f, NEW s, NEW t, Opening(K, f, s, t), InOpening,
         GetXdgSurface
  PROVE  Script(K, f, s + 1, t)'
  <1>1. /\ Does(win.wm, 2, <<A("n", win.xdg), A("o", win.surface)>>)
        /\ UNCHANGED <<phase, compositor, toClient, last_serial, win, next_id>>
        /\ phase = "window" /\ step = 2 /\ step' = 3 /\ objects' = remember(objects, win.xdg, "xdg_surface")
    BY DEF GetXdgSurface, Step, New, Kept
  <1>2. /\ s = f - 1 /\ next_id = f + 3
        /\ win.surface = f /\ win.xdg = f + 1 /\ win.top = f + 2
        /\ Bought(K, f, win.wm, "wm_base") /\ Bought(K, f, win.shm, "shm")
        /\ K \in [Nat -> Bindable] /\ f \in 4..11 /\ s \in Nat
    <2>1. K \in [Nat -> Bindable] /\ f \in 4..11 /\ s \in Nat
      BY DEF Opening
    <2> QED
      BY <1>1, <2>1, WindowPlace
  <1>3. WinAt(K, f)'
    <2>1. ~(step' > 5)
      BY <1>1
    <2> QED
      BY <1>1, <1>2, <2>1 DEF WinAt, Bought
  <1>4. /\ MakingLine(f, s + 1)
        /\ objects' = remember(objects, HighestAt(f, s + 1), KindAt(K, f, HighestAt(f, s + 1)))
    <2>1. s + 1 <= f + 1 /\ (s + 1) + 1 = f + 1
      BY <1>2
    <2>2. MakingLine(f, s + 1) /\ HighestAt(f, s + 1) = f + 1
      BY <2>1 DEF MakingLine, HighestAt
    <2>3. KindAt(K, f, f + 1) = "xdg_surface"
      BY <1>2, KindsOfOpening
    <2> QED
      BY <1>1, <1>2, <2>2, <2>3
  <1>5. LineGoesOn(K, f, s)
    BY <1>1, <1>2, <1>3, <1>4 DEF LineGoesOn
  <1>6. SaysWith(win.wm, 2, <<A("n", win.xdg), A("o", win.surface)>>)
    BY <1>1, SaysRight
  <1>7. ASSUME NEW m, Asks(m, win.wm, 2, <<A("n", win.xdg), A("o", win.surface)>>)
        PROVE  Line(offered, K, f, s + 1, m)
    <2>1. /\ s + 1 = f
          /\ f # 1 /\ f # 2 /\ f \notin 3..(f - 2) /\ f # f - 1 /\ f # f + 1 /\ f # f + 2
          /\ f # f + 3 /\ f # f + 4 /\ f # f + 5 /\ f # f + 6 /\ f # f + 7
      BY <1>2
    <2>2. \E w : Bought(K, f, w, "wm_base") /\ Asks(m, w, 2, <<A("n", f + 1), A("o", f)>>)
      BY <1>2, <1>7
    <2> QED
      BY <2>1, <2>2 DEF Line
  <1> QED
    BY <1>5, <1>6, <1>7, LineSent
(* The toplevel's.                                                         *)
LEMMA ToplevelSent ==
  ASSUME EnoughRoom, FuzzTyped, NEW K, NEW f, NEW s, NEW t, Opening(K, f, s, t), InOpening,
         GetToplevel
  PROVE  Script(K, f, s + 1, t)'
  <1>1. /\ Does(win.xdg, 1, <<A("n", win.top)>>)
        /\ UNCHANGED <<phase, compositor, toClient, last_serial, win, next_id>>
        /\ phase = "window" /\ step = 3 /\ step' = 4 /\ objects' = remember(objects, win.top, "toplevel")
    BY DEF GetToplevel, Step, New, Kept
  <1>2. /\ s = f /\ next_id = f + 3
        /\ win.surface = f /\ win.xdg = f + 1 /\ win.top = f + 2
        /\ Bought(K, f, win.wm, "wm_base") /\ Bought(K, f, win.shm, "shm")
        /\ K \in [Nat -> Bindable] /\ f \in 4..11 /\ s \in Nat
    <2>1. K \in [Nat -> Bindable] /\ f \in 4..11 /\ s \in Nat
      BY DEF Opening
    <2> QED
      BY <1>1, <2>1, WindowPlace
  <1>3. WinAt(K, f)'
    <2>1. ~(step' > 5)
      BY <1>1
    <2> QED
      BY <1>1, <1>2, <2>1 DEF WinAt, Bought
  <1>4. /\ MakingLine(f, s + 1)
        /\ objects' = remember(objects, HighestAt(f, s + 1), KindAt(K, f, HighestAt(f, s + 1)))
    <2>1. s + 1 <= f + 1 /\ (s + 1) + 1 = f + 2
      BY <1>2
    <2>2. MakingLine(f, s + 1) /\ HighestAt(f, s + 1) = f + 2
      BY <2>1 DEF MakingLine, HighestAt
    <2>3. KindAt(K, f, f + 2) = "toplevel"
      BY <1>2, KindsOfOpening
    <2> QED
      BY <1>1, <1>2, <2>2, <2>3
  <1>5. LineGoesOn(K, f, s)
    BY <1>1, <1>2, <1>3, <1>4 DEF LineGoesOn
  <1>6. SaysWith(win.xdg, 1, <<A("n", win.top)>>)
    BY <1>1, SaysRight
  <1>7. ASSUME NEW m, Asks(m, win.xdg, 1, <<A("n", win.top)>>)
        PROVE  Line(offered, K, f, s + 1, m)
    <2>1. /\ s + 1 = f + 1
          /\ f + 1 # 1 /\ f + 1 # 2 /\ f + 1 \notin 3..(f - 2) /\ f + 1 # f - 1 /\ f + 1 # f
          /\ f + 1 # f + 2 /\ f + 1 # f + 3 /\ f + 1 # f + 4 /\ f + 1 # f + 5
          /\ f + 1 # f + 6 /\ f + 1 # f + 7
      BY <1>2
    <2>2. Asks(m, f + 1, 1, <<A("n", f + 2)>>)
      BY <1>2, <1>7
    <2> QED
      BY <2>1, <2>2 DEF Line
  <1> QED
    BY <1>5, <1>6, <1>7, LineSent
(* The serial that is acked is the one that was given.                     *)
LEMMA AckSent ==
  ASSUME EnoughRoom, FuzzTyped, NEW K, NEW f, NEW s, NEW t, Opening(K, f, s, t), InOpening,
         AckConfigure
  PROVE  Script(K, f, s + 1, t)'
  <1>1. /\ Does(win.xdg, 4, <<U(last_serial)>>)
        /\ UNCHANGED <<phase, compositor, toClient, last_serial, win, next_id>>
        /\ phase = "window" /\ step = 4 /\ step' = 5 /\ UNCHANGED objects
    BY DEF AckConfigure, Step, New, Kept
  <1>2. /\ s = f + 1 /\ next_id = f + 3
        /\ win.surface = f /\ win.xdg = f + 1 /\ win.top = f + 2
        /\ Bought(K, f, win.wm, "wm_base") /\ Bought(K, f, win.shm, "shm")
        /\ K \in [Nat -> Bindable] /\ f \in 4..11 /\ s \in Nat
    <2>1. K \in [Nat -> Bindable] /\ f \in 4..11 /\ s \in Nat
      BY DEF Opening
    <2> QED
      BY <1>1, <2>1, WindowPlace
  <1>3. WinAt(K, f)'
    <2>1. ~(step' > 5)
      BY <1>1
    <2> QED
      BY <1>1, <1>2, <2>1 DEF WinAt, Bought
  <1>4. s + 1 \in {f + 2, f + 5, f + 6} /\ UNCHANGED objects
    BY <1>1, <1>2
  <1>5. LineGoesOn(K, f, s)
    BY <1>1, <1>2, <1>3, <1>4 DEF LineGoesOn
  <1>6. SaysWith(win.xdg, 4, <<U(last_serial)>>)
    BY <1>1, SaysRight
  <1>p. last_serial = 1
    <2>1. HeardAt(f, t) /\ s = t + Len(toServer) /\ t \in Nat
      BY DEF Opening
    <2>2. last_serial # 0 \/ NothingToCome
      BY DEF AckConfigure
    <2>3. CASE NothingToCome
      <3>1. toServer = << >> /\ toClient = << >>
        BY <2>3 DEF NothingToCome
      <3>2. Len(toServer) = 0 /\ Len(toClient) = 0
        BY <3>1
      <3>3. t > f
        BY <1>2, <2>1, <3>2
      <3>4. ~Coming
        BY <3>2 DEF Coming
      <3> QED
        BY <2>1, <3>3, <3>4 DEF HeardAt
    <2> QED
      BY <2>1, <2>2, <2>3 DEF HeardAt
  <1>7. ASSUME NEW m, Asks(m, win.xdg, 4, <<U(last_serial)>>)
        PROVE  Line(offered, K, f, s + 1, m)
    <2>1. /\ s + 1 = f + 2
          /\ f + 2 # 1 /\ f + 2 # 2 /\ f + 2 \notin 3..(f - 2) /\ f + 2 # f - 1 /\ f + 2 # f
          /\ f + 2 # f + 1 /\ f + 2 # f + 3 /\ f + 2 # f + 4 /\ f + 2 # f + 5
          /\ f + 2 # f + 6 /\ f + 2 # f + 7
      BY <1>2
    <2>2. Asks(m, f + 1, 4, <<U(1)>>)
      BY <1>2, <1>7, <1>p
    <2> QED
      BY <2>1, <2>2 DEF Line
  <1> QED
    BY <1>5, <1>6, <1>7, LineSent
(* The buffer's.                                                           *)
LEMMA BufferSent ==
  ASSUME EnoughRoom, FuzzTyped, NEW K, NEW f, NEW s, NEW t, Opening(K, f, s, t), InOpening,
         CreateBuffer
  PROVE  Script(K, f, s + 1, t)'
  <1>1. /\ Does(win.pool, 0, <<A("n", win.buffer), U(0), U(0), U(0), U(0), U(1)>>)
        /\ UNCHANGED <<phase, compositor, toClient, last_serial, win, next_id>>
        /\ phase = "window" /\ step = 6 /\ step' = 7 /\ objects' = remember(objects, win.buffer, "buffer")
    BY DEF CreateBuffer, Step, New, Kept
  <1>2. /\ s = f + 3 /\ next_id = f + 5
        /\ win.surface = f /\ win.xdg = f + 1 /\ win.top = f + 2
        /\ Bought(K, f, win.wm, "wm_base") /\ Bought(K, f, win.shm, "shm")
        /\ win.pool = f + 3 /\ win.buffer = f + 4
        /\ K \in [Nat -> Bindable] /\ f \in 4..11 /\ s \in Nat
    <2>1. K \in [Nat -> Bindable] /\ f \in 4..11 /\ s \in Nat
      BY DEF Opening
    <2> QED
      BY <1>1, <2>1, WindowPlace
  <1>3. WinAt(K, f)'
    BY <1>1, <1>2 DEF WinAt, Bought
  <1>4. /\ MakingLine(f, s + 1)
        /\ objects' = remember(objects, HighestAt(f, s + 1), KindAt(K, f, HighestAt(f, s + 1)))
    <2>1. ~(s + 1 <= f + 1) /\ s + 1 <= f + 4 /\ s + 1 = f + 4
      BY <1>2
    <2>2. MakingLine(f, s + 1) /\ HighestAt(f, s + 1) = f + 4
      BY <2>1 DEF MakingLine, HighestAt
    <2>3. KindAt(K, f, f + 4) = "buffer"
      BY <1>2, KindsOfOpening
    <2> QED
      BY <1>1, <1>2, <2>2, <2>3
  <1>5. LineGoesOn(K, f, s)
    BY <1>1, <1>2, <1>3, <1>4 DEF LineGoesOn
  <1>6. SaysWith(win.pool, 0, <<A("n", win.buffer), U(0), U(0), U(0), U(0), U(1)>>)
    BY <1>1, SaysRight
  <1>7. ASSUME NEW m, Asks(m, win.pool, 0, <<A("n", win.buffer), U(0), U(0), U(0), U(0), U(1)>>)
        PROVE  Line(offered, K, f, s + 1, m)
    <2>1. /\ s + 1 = f + 4
          /\ f + 4 # 1 /\ f + 4 # 2 /\ f + 4 \notin 3..(f - 2) /\ f + 4 # f - 1 /\ f + 4 # f
          /\ f + 4 # f + 1 /\ f + 4 # f + 2 /\ f + 4 # f + 3 /\ f + 4 # f + 5
          /\ f + 4 # f + 6 /\ f + 4 # f + 7
      BY <1>2
    <2>2. Asks(m, f + 3, 0, <<A("n", f + 4), U(0), U(0), U(0), U(0), U(1)>>)
      BY <1>2, <1>7
    <2> QED
      BY <2>1, <2>2 DEF Line
  <1> QED
    BY <1>5, <1>6, <1>7, LineSent
(* It is attached.                                                         *)
LEMMA AttachSent ==
  ASSUME EnoughRoom, FuzzTyped, NEW K, NEW f, NEW s, NEW t, Opening(K, f, s, t), InOpening,
         Attach, step # 11
  PROVE  Script(K, f, s + 1, t)'
  <1>1. /\ Does(win.surface, 1, <<A("O", win.buffer), U(0), U(0)>>)
        /\ UNCHANGED <<phase, compositor, toClient, last_serial, win, next_id>>
        /\ phase = "window" /\ step = 7 /\ step' = 8 /\ UNCHANGED objects
    BY DEF Attach, Step, New, Kept
  <1>2. /\ s = f + 4 /\ next_id = f + 5
        /\ win.surface = f /\ win.xdg = f + 1 /\ win.top = f + 2
        /\ Bought(K, f, win.wm, "wm_base") /\ Bought(K, f, win.shm, "shm")
        /\ win.pool = f + 3 /\ win.buffer = f + 4
        /\ K \in [Nat -> Bindable] /\ f \in 4..11 /\ s \in Nat
    <2>1. K \in [Nat -> Bindable] /\ f \in 4..11 /\ s \in Nat
      BY DEF Opening
    <2> QED
      BY <1>1, <2>1, WindowPlace
  <1>3. WinAt(K, f)'
    BY <1>1, <1>2 DEF WinAt, Bought
  <1>4. s + 1 \in {f + 2, f + 5, f + 6} /\ UNCHANGED objects
    BY <1>1, <1>2
  <1>5. LineGoesOn(K, f, s)
    BY <1>1, <1>2, <1>3, <1>4 DEF LineGoesOn
  <1>6. SaysWith(win.surface, 1, <<A("O", win.buffer), U(0), U(0)>>)
    BY <1>1, SaysRight
  <1>7. ASSUME NEW m, Asks(m, win.surface, 1, <<A("O", win.buffer), U(0), U(0)>>)
        PROVE  Line(offered, K, f, s + 1, m)
    <2>1. /\ s + 1 = f + 5
          /\ f + 5 # 1 /\ f + 5 # 2 /\ f + 5 \notin 3..(f - 2) /\ f + 5 # f - 1 /\ f + 5 # f
          /\ f + 5 # f + 1 /\ f + 5 # f + 2 /\ f + 5 # f + 3 /\ f + 5 # f + 4
          /\ f + 5 # f + 6 /\ f + 5 # f + 7
      BY <1>2
    <2>2. Asks(m, f, 1, <<A("O", f + 4), U(0), U(0)>>)
      BY <1>2, <1>7
    <2> QED
      BY <2>1, <2>2 DEF Line
  <1> QED
    BY <1>5, <1>6, <1>7, LineSent
(* It is committed.                                                        *)
LEMMA CommitSent ==
  ASSUME EnoughRoom, FuzzTyped, NEW K, NEW f, NEW s, NEW t, Opening(K, f, s, t), InOpening,
         Commit, step # 12
  PROVE  Script(K, f, s + 1, t)'
  <1>1. /\ Does(win.surface, 6, << >>)
        /\ UNCHANGED <<phase, compositor, toClient, last_serial, win, next_id>>
        /\ phase = "window" /\ step = 8 /\ step' = 9 /\ UNCHANGED objects
    BY DEF Commit, Step, New, Kept
  <1>2. /\ s = f + 5 /\ next_id = f + 5
        /\ win.surface = f /\ win.xdg = f + 1 /\ win.top = f + 2
        /\ Bought(K, f, win.wm, "wm_base") /\ Bought(K, f, win.shm, "shm")
        /\ win.pool = f + 3 /\ win.buffer = f + 4
        /\ K \in [Nat -> Bindable] /\ f \in 4..11 /\ s \in Nat
    <2>1. K \in [Nat -> Bindable] /\ f \in 4..11 /\ s \in Nat
      BY DEF Opening
    <2> QED
      BY <1>1, <2>1, WindowPlace
  <1>3. WinAt(K, f)'
    BY <1>1, <1>2 DEF WinAt, Bought
  <1>4. s + 1 \in {f + 2, f + 5, f + 6} /\ UNCHANGED objects
    BY <1>1, <1>2
  <1>5. LineGoesOn(K, f, s)
    BY <1>1, <1>2, <1>3, <1>4 DEF LineGoesOn
  <1>6. SaysWith(win.surface, 6, << >>)
    BY <1>1, SaysRight
  <1>7. ASSUME NEW m, Asks(m, win.surface, 6, << >>)
        PROVE  Line(offered, K, f, s + 1, m)
    <2>1. /\ s + 1 = f + 6
          /\ f + 6 # 1 /\ f + 6 # 2 /\ f + 6 \notin 3..(f - 2) /\ f + 6 # f - 1 /\ f + 6 # f
          /\ f + 6 # f + 1 /\ f + 6 # f + 2 /\ f + 6 # f + 3 /\ f + 6 # f + 4
          /\ f + 6 # f + 5 /\ f + 6 # f + 7
      BY <1>2
    <2>2. Asks(m, f, 6, << >>)
      BY <1>2, <1>7
    <2> QED
      BY <2>1, <2>2 DEF Line
  <1> QED
    BY <1>5, <1>6, <1>7, LineSent

(* The pool's, unless its memory is made too small on purpose.             *)
LEMMA PoolSent ==
  ASSUME EnoughRoom, FuzzTyped, NEW K, NEW f, NEW s, NEW t, Opening(K, f, s, t), InOpening,
         Script(K, f, s, t), CreatePool
  PROVE  Script(K, f, s, t)' \/ Script(K, f, s + 1, t)'
  <1>1. /\ UNCHANGED <<phase, compositor, toClient, last_serial>>
        /\ phase = "window" /\ step = 5 /\ step' = 6 /\ next_id' = next_id + 2
        /\ objects' = remember(objects, next_id, "pool")
        /\ win' = [win EXCEPT !.pool = next_id, !.buffer = next_id + 1]
    BY DEF CreatePool, Step, Kept
  <1>2. PICK memory \in BOOLEAN :
          /\ Sends([Request(win.shm, 0, <<A("n", next_id), A("h", 0), U(0)>>, memory)
                      EXCEPT !.opening = @ /\ memory])
          /\ bad' = (bad \/ ~memory)
    BY DEF CreatePool
  <1>3. /\ s = f + 2 /\ next_id = f + 3
        /\ win.surface = f /\ win.xdg = f + 1 /\ win.top = f + 2
        /\ Bought(K, f, win.wm, "wm_base") /\ Bought(K, f, win.shm, "shm")
        /\ K \in [Nat -> Bindable] /\ f \in 4..11 /\ s \in Nat
    <2>1. K \in [Nat -> Bindable] /\ f \in 4..11 /\ s \in Nat
      BY DEF Opening
    <2> QED
      BY <1>1, <2>1, WindowPlace
  <1>4. CASE memory = FALSE
    <2>1. ~InOpening'
      BY <1>2, <1>4 DEF InOpening
    <2>2. \E m : toServer' = Append(toServer, m) /\ ~m.opening
      BY <1>2, <1>4, SaysRight
    <2> QED
      BY <1>1, <2>1, <2>2, ScriptAside
  <1>5. CASE memory = TRUE
    <2>1. PICK x : x = win.shm
      OBVIOUS
    <2>2. SaysWith(x, 0, <<A("n", next_id), A("h", 0), U(0)>>)
      BY <1>2, <1>5, <2>1, SaysRight
    <2>3. win \in [{"wm", "shm", "surface", "xdg", "top", "pool", "buffer"} -> Nat]
      BY DEF FuzzTyped, FuzzerTyped
    <2>4. /\ win'.wm = win.wm /\ win'.shm = win.shm /\ win'.surface = f /\ win'.xdg = f + 1
          /\ win'.top = f + 2 /\ win'.pool = f + 3 /\ win'.buffer = f + 4
      BY <1>1, <1>3, <2>3
    <2>5. WinAt(K, f)'
      BY <1>3, <2>4 DEF WinAt, Bought
    <2>6. /\ MakingLine(f, s + 1)
          /\ objects' = remember(objects, HighestAt(f, s + 1), KindAt(K, f, HighestAt(f, s + 1)))
      <3>1. ~(s + 1 <= f + 1) /\ s + 1 <= f + 4 /\ s + 1 = f + 3
        BY <1>3
      <3>2. MakingLine(f, s + 1) /\ HighestAt(f, s + 1) = f + 3
        BY <3>1 DEF MakingLine, HighestAt
      <3>3. KindAt(K, f, f + 3) = "pool"
        BY <1>3, KindsOfOpening
      <3> QED
        BY <1>1, <1>3, <3>2, <3>3
    <2>7. LineGoesOn(K, f, s)
      BY <1>1, <1>3, <2>5, <2>6 DEF LineGoesOn
    <2>8. ASSUME NEW m, Asks(m, x, 0, <<A("n", next_id), A("h", 0), U(0)>>)
          PROVE  Line(offered, K, f, s + 1, m)
      <3>1. /\ s + 1 = f + 3 /\ f + 3 # 1 /\ f + 3 # 2 /\ f + 3 \notin 3..(f - 2) /\ f + 3 # f - 1
            /\ f + 3 # f /\ f + 3 # f + 1 /\ f + 3 # f + 2 /\ f + 3 # f + 4 /\ f + 3 # f + 5
            /\ f + 3 # f + 6 /\ f + 3 # f + 7
        BY <1>3
      <3>2. Bought(K, f, x, "shm") /\ Asks(m, x, 0, <<A("n", f + 3), A("h", 0), U(0)>>)
        BY <1>3, <2>1, <2>8
      <3> QED
        BY <3>1, <3>2 DEF Line
    <2> QED
      BY <2>2, <2>7, <2>8, LineSent
  <1> QED
    BY <1>4, <1>5

(* The last: the buffer is destroyed, which is what is bad.                *)
LEMMA DestroySent ==
  ASSUME FuzzTyped, NEW K, NEW f, NEW s, NEW t, Opening(K, f, s, t), InOpening, DestroyBuffer
  PROVE  Script(K, f, s + 1, t)'
  <1>1. /\ Does(win.buffer, 0, << >>) /\ UNCHANGED compositor /\ phase = "window" /\ step = 9
        /\ ~InOpening'
    BY DEF DestroyBuffer, Step, Kept, InOpening
  <1>2. /\ s = f + 6 /\ win.buffer = f + 4
        /\ K \in [Nat -> Bindable] /\ f \in 4..11 /\ s \in Nat /\ t \in Nat
    <2>1. K \in [Nat -> Bindable] /\ f \in 4..11 /\ s \in Nat /\ t \in Nat
      BY DEF Opening
    <2> QED
      BY <1>1, <2>1, WindowPlace
  <1>3. SaysWith(win.buffer, 0, << >>)
    BY <1>1, SaysRight
  <1>4. PICK m : /\ toServer' = Append(toServer, m) /\ Asks(m, win.buffer, 0, << >>)
                 /\ m.opening <=> InOpening
    BY <1>3 DEF SaysWith
  <1>5. Line(offered, K, f, s + 1, m)
    <2>1. /\ s + 1 = f + 7 /\ f + 7 # 1 /\ f + 7 # 2 /\ f + 7 \notin 3..(f - 2) /\ f + 7 # f - 1
          /\ f + 7 # f /\ f + 7 # f + 1 /\ f + 7 # f + 2 /\ f + 7 # f + 3 /\ f + 7 # f + 4
          /\ f + 7 # f + 5 /\ f + 7 # f + 6
      BY <1>2
    <2>2. Asks(m, f + 4, 0, << >>)
      BY <1>2, <1>4
    <2> QED
      BY <2>1, <2>2 DEF Line
  <1>6. Served(K, f, t) /\ Queued(K, f, s, t) /\ s = t + Len(toServer)
    BY DEF Opening
  <1>7. s < f + 7
    BY <1>2
  <1>8. m.opening
    BY <1>4
  <1> QED
    BY <1>1, <1>2, <1>4, <1>5, <1>6, <1>7, <1>8, ScriptLonger

(* A bind of the opening is one line more before the window's.             *)
LEMMA BindSent ==
  ASSUME EnoughRoom, Spent, Spent', FuzzTyped, GlobalsRight, NEW K, NEW f, NEW s, NEW t,
         Opening(K, f, s, t), InOpening, BindNext, NEW k, NEW v, k = globals[step],
         global_name[k] # 0, v \in Versions(k), bind_global(k, v)
  PROVE  \E K2, f2 : Script(K2, f2, s + 1, t)'
  <1>1. /\ phase = "binds" /\ phase' = "binds" /\ step <= Len(globals) /\ step' = step + 1
        /\ UNCHANGED <<compositor, toClient, last_serial, win>>
    BY DEF BindNext
  <1>2. objects' = remember(objects, next_id, k) /\ next_id' = next_id + 1
    BY DEF bind_global
  <1>3. /\ K \in [Nat -> Bindable] /\ f \in 4..11 /\ s \in Nat /\ t \in Nat /\ t <= s
        /\ Served(K, f, t) /\ Queued(K, f, s, t) /\ s = t + Len(toServer)
        /\ ListAt(K, f, s) /\ HeardAt(f, t) /\ PlaceAt(f, s)
    BY DEF Opening
  <1>4. s = f - 2 /\ next_id = f
    BY <1>1, <1>3 DEF PlaceAt
  <1>5. f \in 4..10
    <2>1. step' \in 1..8 /\ next_id' <= 3 + step'
      BY <1>1 DEF Spent
    <2> QED
      BY <1>2, <1>3, <1>4, <2>1
  <1>6. k \in Bindable /\ k \in Kinds
    <2>1. Len(globals) = 7
      BY DEF globals
    <2>2. step \in Nat
      BY DEF Spent
    <2>3. step \in 1..Len(globals)
      <3>1. step >= 1
        BY <1>1 DEF Spent
      <3> QED
        BY <1>1, <2>1, <2>2, <3>1
    <2>4. k \in Bindable
      BY <2>3 DEF Bindable
    <2> QED
      BY <2>4, KindsOfOpening
  <1>7. PICK K2, f2 : K2 = [K EXCEPT ![f] = k] /\ f2 = f + 1
    BY Zenon
  <1>8. /\ K2 \in [Nat -> Bindable] /\ f2 \in 4..11 /\ K2[f] = k
        /\ Served(K2, f2, t) /\ Queued(K2, f2, s, t) /\ HeardAt(f2, t) /\ ListAt(K2, f2, s)
    <2>1. Rebinds(K, f, s, t, k, K2, f2)
      BY <1>3, <1>4, <1>5, <1>6, <1>7 DEF Rebinds
    <2> QED
      BY <2>1, Rebound
  <1>9. SaysWith(2, 0, <<U(global_name[k]), A("s", k), U(v), A("n", next_id)>>)
    BY SaysRight
  <1>10. PICK args : args = <<U(global_name[k]), A("s", k), U(v), A("n", next_id)>>
    OBVIOUS
  <1>11. PICK m : /\ toServer' = Append(toServer, m) /\ Asks(m, 2, 0, args)
                  /\ m.opening <=> InOpening
    BY <1>9, <1>10 DEF SaysWith
  <1>12. Line(offered, K2, f2, s + 1, m)
    <2>1. Binds(offered, m, k, f)
      <3>1. /\ global_name[k] \in 1..Len(offered)
            /\ offered[global_name[k]].kind = k /\ offered[global_name[k]].version = global_version[k]
        BY <1>6 DEF GlobalsRight
      <3>2. v \in 1..offered[global_name[k]].version
        BY <3>1 DEF Versions
      <3>3. Asks(m, 2, 0, <<U(global_name[k]), A("s", k), U(v), A("n", f)>>)
        BY <1>4, <1>10, <1>11
      <3> QED
        BY <3>1, <3>2, <3>3 DEF Binds
    <2>a. f \in 4..10 /\ f2 = f + 1 /\ s = f - 2
      BY <1>4, <1>5, <1>7
    <2>2. /\ s + 1 = f - 1 /\ f - 1 # 1 /\ f - 1 # 2 /\ f - 1 \in 3..(f2 - 2) /\ (f - 1) + 1 = f
          /\ f - 1 # f2 - 1 /\ f - 1 # f2 /\ f - 1 # f2 + 1 /\ f - 1 # f2 + 2 /\ f - 1 # f2 + 3
          /\ f - 1 # f2 + 4 /\ f - 1 # f2 + 5 /\ f - 1 # f2 + 6 /\ f - 1 # f2 + 7
      BY <2>a
    <2>3. Binds(offered, m, K2[(f - 1) + 1], (f - 1) + 1)
      BY <1>8, <2>1, <2>2
    <2> QED
      BY <2>2, <2>3 DEF Line
  <1>13. ListAt(K2, f2, s + 1)'
    <2>a. f \in 4..10 /\ f2 = f + 1 /\ s = f - 2
      BY <1>4, <1>5, <1>7
    <2>1. s < f2 + 6 /\ s # 1 /\ s + 1 <= f2 + 1 /\ (s + 1) + 1 = f
      BY <2>a
    <2>2. MakingLine(f2, s + 1) /\ HighestAt(f2, s + 1) = f
      BY <2>1 DEF MakingLine, HighestAt
    <2>3. KindAt(K2, f2, f) = k
      <3>1. f \in 4..(f2 - 1)
        BY <1>5, <1>7
      <3> QED
        BY <1>8, <3>1 DEF KindAt
    <2> QED
      BY <1>2, <1>3, <1>4, <1>8, <2>1, <2>2, <2>3, ListGrows
  <1>14. HeardAt(f2, t)'
    BY <1>1, <1>8 DEF HeardAt, Coming
  <1>15. PlaceAt(f2, s + 1)' /\ WinAt(K2, f2)' /\ s + 1 <= f2 + 6
    <2>1. s + 1 = f2 - 2 /\ next_id' = f2 /\ s + 1 <= f2 + 6
      BY <1>2, <1>4, <1>5, <1>7
    <2> QED
      BY <1>1, <2>1 DEF PlaceAt, WinAt
  <1>16. s < f2 + 7 /\ m.opening
    BY <1>4, <1>5, <1>7, <1>11
  <1>17. Script(K2, f2, s + 1, t)'
    BY <1>1, <1>3, <1>8, <1>11, <1>12, <1>13, <1>14, <1>15, <1>16, ScriptLonger
  <1> QED
    BY <1>17

-----------------------------------------------------------------------------
(* Whatever the fuzzer does, what is on its way is of the script.          *)
LEMMA WindowInOpening ==
  ASSUME EnoughRoom, FuzzTyped, NEW K, NEW f, NEW s, NEW t, Script(K, f, s, t), InOpening, Window
  PROVE  \E s2 : Script(K, f, s2, t)'
  <1>1. Opening(K, f, s, t)
    BY ScriptInOpening
  <1>2. CASE WindowSkipped \/ LeftWhole \/ WindowCut
    <2>1. UNCHANGED <<compositor, toServer>> /\ ~InOpening'
      BY <1>2 DEF WindowSkipped, LeftWhole, WindowCut, WindowOver, InOpening
    <2>2. Script(K, f, s, t)'
      BY <2>1, ScriptAside
    <2> QED
      BY <2>2
  <1>3. CASE AwaitSerial
    BY <1>3, QuietInOpening
  <1>4. CASE CreateSurface
    BY <1>1, <1>4, SurfaceSent
  <1>5. CASE GetXdgSurface
    BY <1>1, <1>5, XdgSurfaceSent
  <1>6. CASE GetToplevel
    BY <1>1, <1>6, ToplevelSent
  <1>7. CASE AckConfigure
    BY <1>1, <1>7, AckSent
  <1>8. CASE CreatePool
    BY <1>1, <1>8, PoolSent
  <1>9. CASE CreateBuffer
    BY <1>1, <1>9, BufferSent
  <1>a. phase = "window" => step # 10 /\ step # 11 /\ step # 12
    BY <1>1, WindowPlace
  <1>10. CASE Attach
    <2>1. step # 11
      BY <1>a, <1>10 DEF Attach
    <2> QED
      BY <1>1, <1>10, <2>1, AttachSent
  <1>11. CASE Commit
    <2>1. step # 12
      BY <1>a, <1>11 DEF Commit
    <2> QED
      BY <1>1, <1>11, <2>1, CommitSent
  <1>12. CASE DestroyBuffer
    BY <1>1, <1>12, DestroySent
  <1>13. ~DestroyPool
    BY <1>a DEF DestroyPool, Step
  <1> QED
    BY <1>2, <1>3, <1>4, <1>5, <1>6, <1>7, <1>8, <1>9, <1>10, <1>11, <1>12, <1>13 DEF Window

(* The binds, one after the other.                                         *)
LEMMA BindInOpening ==
  ASSUME EnoughRoom, Spent, Spent', FuzzTyped, GlobalsRight, NEW K, NEW f, NEW s, NEW t,
         Script(K, f, s, t), InOpening, BindNext
  PROVE  \E K2, f2, s2 : Script(K2, f2, s2, t)'
  <1>1. PICK k : k = globals[step]
    OBVIOUS
  <1>2. IF global_name[k] = 0 THEN UNCHANGED <<toServer, objects, next_id>>
                              ELSE \E v \in Versions(k) : bind_global(k, v)
    BY <1>1 DEF BindNext
  <1>3. CASE global_name[k] = 0
    <2>1. Script(K, f, s, t)'
      BY <1>2, <1>3, QuietInOpening
    <2> QED
      BY <2>1
  <1>4. CASE global_name[k] # 0
    <2>1. PICK v \in Versions(k) : bind_global(k, v)
      BY <1>2, <1>4
    <2>2. Opening(K, f, s, t)
      BY ScriptInOpening
    <2>3. \E K2, f2 : Script(K2, f2, s + 1, t)'
      BY <1>1, <1>4, <2>1, <2>2, BindSent
    <2> QED
      BY <2>3
  <1> QED
    BY <1>3, <1>4

(* Every step of the fuzzer keeps the invariant.                           *)
LEMMA FuzzerKeeps ==
  ASSUME EnoughRoom, Spent, Spent', FuzzTyped, OpeningInv, FuzzerMoves
  PROVE  /\ refused' # "opening"
         /\ refused' = "not" /\ Unfinished' => \E K, f, s, t : Script(K, f, s, t)'
  <1>1. /\ UNCHANGED compositor /\ (InOpening' => InOpening)
        /\ UNCHANGED toServer \/ SaysAside
    BY OpeningOnce
  <1>2. refused' = refused /\ refused # "opening"
    BY <1>1 DEF compositor, OpeningInv
  <1> SUFFICES ASSUME refused = "not", Unfinished'
               PROVE  \E K, f, s, t : Script(K, f, s, t)'
    BY <1>2
  <1>3. CASE ~InOpening
    <2>1. UNCHANGED toServer \/ \E m : toServer' = Append(toServer, m) /\ ~m.opening
      BY <1>1, <1>3 DEF SaysAside
    <2>2. PICK i \in 1..Len(toServer') : toServer'[i].opening
      BY <1>1, <1>3 DEF Unfinished
    <2>3. Unfinished
      <3>1. CASE UNCHANGED toServer
        BY <2>2, <3>1 DEF Unfinished
      <3>2. CASE \E m : toServer' = Append(toServer, m) /\ ~m.opening
        <4>1. PICK m : toServer' = Append(toServer, m) /\ ~m.opening
          BY <3>2
        <4>2. IsSeq(toServer) /\ Len(toServer) \in Nat
          BY SeqParts DEF FuzzTyped, Requests
        <4>3. /\ Len(toServer') = Len(toServer) + 1
              /\ \A j \in 1..Len(toServer) : toServer'[j] = toServer[j]
              /\ toServer'[Len(toServer) + 1] = m
          BY <4>1, <4>2, SeqAppended
        <4>4. i # Len(toServer) + 1
          BY <2>2, <4>1, <4>3
        <4>5. i \in 1..Len(toServer)
          BY <4>2, <4>3, <4>4
        <4> QED
          BY <2>2, <4>3, <4>5 DEF Unfinished
      <3> QED
        BY <2>1, <3>1, <3>2
    <2>4. PICK K, f, s, t : Script(K, f, s, t)
      BY <2>3 DEF OpeningInv
    <2>5. Script(K, f, s, t)'
      BY <1>1, <1>3, <2>1, <2>4, ScriptAside
    <2> QED
      BY <2>5
  <1>4. CASE InOpening
    <2>1. PICK K, f, s, t : Script(K, f, s, t)
      BY <1>4 DEF OpeningInv, Unfinished
    <2>2. CASE ReadEvents \/ AwaitGlobals \/ Bound
      <3>1. Script(K, f, s, t)'
        BY <1>4, <2>1, <2>2, QuietInOpening
      <3> QED
        BY <3>1
    <2>3. CASE BindNext
      <3>1. GlobalsRight
        BY DEF OpeningInv
      <3> QED
        BY <1>4, <2>1, <2>3, <3>1, BindInOpening
    <2>4. CASE Window
      BY <1>4, <2>1, <2>4, WindowInOpening
    <2>5. ~Loop
      <3>1. Opening(K, f, s, t)
        BY <1>4, <2>1, ScriptInOpening
      <3>2. phase # "loop" /\ (phase = "window" \/ phase = "binds" \/ phase = "globals")
        BY <3>1 DEF Opening, PlaceAt
      <3> QED
        BY <3>2 DEF Loop, AnotherWindow, LoopEnds, legal_bind, request, RequestUnknown, BindGuessed,
                    Counted, LoopGoesOn
    <2> QED
      BY <2>2, <2>3, <2>4, <2>5 DEF FuzzerMoves
  <1> QED
    BY <1>3, <1>4

(* The script begins with the two lines that are sent at once.             *)
LEMMA OpeningBegins == FuzzInit => OpeningInv
  <1> SUFFICES ASSUME FuzzInit
               PROVE  OpeningInv
    OBVIOUS
  <1>1. PICK a, b : /\ toServer = <<a, b>> /\ a.opening /\ b.opening
                    /\ Asks(a, 1, 1, <<A("n", 2)>>) /\ Asks(b, 1, 0, <<A("n", 3)>>)
    <2>1. PICK a : a = [object |-> 1, opcode |-> 1, args |-> <<A("n", 2)>>, whole |-> TRUE,
                        opening |-> TRUE]
      OBVIOUS
    <2>2. PICK b : b = [object |-> 1, opcode |-> 0, args |-> <<A("n", 3)>>, whole |-> TRUE,
                        opening |-> TRUE]
      OBVIOUS
    <2>3. a.opening /\ Asks(a, 1, 1, <<A("n", 2)>>) /\ b.opening /\ Asks(b, 1, 0, <<A("n", 3)>>)
      BY <2>1, <2>2 DEF Asks
    <2>4. toServer = <<a, b>>
      BY <2>1, <2>2 DEF FuzzInit
    <2> QED
      BY <2>3, <2>4
  <1>2. Len(toServer) = 2 /\ toServer[1] = a /\ toServer[2] = b /\ toClient = << >> /\ Len(toClient) = 0
    BY <1>1 DEF FuzzInit
  <1>3. PICK K : K = [x \in Nat |-> "compositor"]
    OBVIOUS
  <1>4. K \in [Nat -> Bindable]
    <2>1. "compositor" \in Bindable
      BY KindsOfOpening
    <2> QED
      BY <1>3, <2>1
  <1>5. Served(K, 4, 0)
    <2>1. HighestAt(4, 0) = 1 /\ IdsAt(4, 0) = {1} /\ KindAt(K, 4, 1) = "display"
      <3>1. HighestAt(4, 0) = 1
        BY DEF HighestAt
      <3>2. IdsAt(4, 0) = {1}
        BY <3>1 DEF IdsAt
      <3>3. KindAt(K, 4, 1) = "display"
        BY FirstKinds
      <3> QED
        BY <3>1, <3>2, <3>3
    <2>2. DOMAIN resources = {1} /\ resources[1] = "display" /\ highest = 1 /\ DOMAIN windows = {} /\ serial = 0
      BY DEF FuzzInit
    <2> QED
      BY <2>1, <2>2 DEF Served, ResourcesAt, WindowsAt
  <1>6. Line(offered, K, 4, 1, a) /\ Line(offered, K, 4, 2, b)
    <2>1. 1 \notin 3..(4 - 2) /\ 2 \notin 3..(4 - 2)
      OBVIOUS
    <2> QED
      BY <1>1, <2>1 DEF Line
  <1>7. Queued(K, 4, 2, 0)
    <2>1. ASSUME NEW i \in 1..Len(toServer)
          PROVE  /\ toServer[i].opening /\ i <= 2 - 0
                 /\ Line(offered, K, 4, 0 + i, toServer[i])
      <3>1. i = 1 \/ i = 2
        BY <1>2
      <3> QED
        BY <1>1, <1>2, <1>6, <3>1
    <2> QED
      BY <1>2, <2>1 DEF Queued
  <1>8. SentAt(K, 4, 2, 0)
    <2>1. PlaceAt(4, 2) /\ WinAt(K, 4)
      BY DEF FuzzInit, PlaceAt, WinAt
    <2>2. HeardAt(4, 0)
      BY <1>2 DEF FuzzInit, HeardAt
    <2>3. ListAt(K, 4, 2)
      <3>1. PICK d, r : d = Entry(1, "display", FALSE) /\ r = Entry(2, "registry", FALSE)
        OBVIOUS
      <3>2. objects = <<d, r>>
        BY <3>1 DEF FuzzInit
      <3>3. Len(objects) = 2 /\ objects[1] = d /\ objects[2] = r
        BY <3>2
      <3>4. /\ ~d.dead /\ d.id = 1 /\ d.kind = "display"
            /\ ~r.dead /\ r.id = 2 /\ r.kind = "registry"
        BY <3>1 DEF Entry
      <3>5. HighestAt(4, 2) = 3
        BY DEF HighestAt
      <3>6. 1 \in IdsAt(4, 2) /\ 2 \in IdsAt(4, 2)
        BY <3>5 DEF IdsAt
      <3>7. KindAt(K, 4, 1) = "display" /\ KindAt(K, 4, 2) = "registry"
        BY FirstKinds
      <3>8. ASSUME NEW i \in 1..Len(objects)
            PROVE  /\ ~objects[i].dead /\ objects[i].id \in IdsAt(4, 2)
                   /\ objects[i].kind = KindAt(K, 4, objects[i].id)
        <4>1. i = 1 \/ i = 2
          BY <3>3
        <4> QED
          BY <3>3, <3>4, <3>6, <3>7, <4>1
      <3>9. Len(objects) <= 2 /\ ~(2 >= 4)
        BY <3>3
      <3> QED
        BY <3>8, <3>9 DEF ListAt
    <2>4. 2 = 0 + Len(toServer) /\ 2 <= 4 + 6
      BY <1>2
    <2> QED
      BY <2>1, <2>2, <2>3, <2>4 DEF SentAt
  <1>9. Script(K, 4, 2, 0)
    <2>1. 4 \in 4..11 /\ 2 \in Nat /\ 0 \in Nat /\ 0 <= 2 /\ 2 <= 4 + 7
      OBVIOUS
    <2> QED
      BY <1>4, <1>5, <1>7, <1>8, <2>1 DEF Script
  <1>10. GlobalsRight
    BY <1>2 DEF FuzzInit, GlobalsRight
  <1>11. refused = "not"
    BY DEF FuzzInit
  <1> QED
    BY <1>9, <1>10, <1>11 DEF OpeningInv

(* What every step keeps of the opening.                                   *)
OpeningRight == Spent /\ WinSpent /\ FuzzTyped /\ OpeningInv
(* So does every step of either side.                                      *)
LEMMA OpeningStep ==
  ASSUME EnoughRoom, OpeningRight, FuzzNext
  PROVE  OpeningRight'
  <1>1. Spent' /\ WinSpent' /\ FuzzTyped'
    BY SpentStep, FuzzTypedStep, WinSpentStep DEF OpeningRight
  <1>2. GlobalsRight'
    BY GlobalsStep DEF OpeningRight, OpeningInv
  <1>3. /\ refused' # "opening"
        /\ refused' = "not" /\ Unfinished' => \E K, f, s, t : Script(K, f, s, t)'
    <2>1. CASE FuzzerMoves
      BY <1>1, <2>1, FuzzerKeeps DEF OpeningRight
    <2>2. CASE TakeRequest
      BY <2>2, TakeLine DEF OpeningRight
    <2>3. CASE TellGlobal \/ FrameShown \/ OfferData
      BY <2>3, OtherwiseInOpening DEF OpeningRight
    <2> QED
      BY <2>1, <2>2, <2>3 DEF FuzzNext, Compositor, FuzzerMoves
  <1> QED
    BY <1>1, <1>2, <1>3 DEF OpeningRight, OpeningInv
(* And a step that changes nothing.                                        *)
LEMMA OpeningStutters ==
  ASSUME OpeningRight, UNCHANGED fuzzVars
  PROVE  OpeningRight'
  <1>1. Spent' /\ WinSpent'
    BY DEF OpeningRight, Spent, WinSpent, Nowhere, fuzzVars, fuzzer
  <1>2. FuzzTyped'
    BY DEF OpeningRight, FuzzTyped, IsList, IsSeq, Requests, Events, FuzzerTyped, CompositorTyped,
           fuzzVars, fuzzer, compositor
  <1>3. /\ UNCHANGED <<fuzzer, toServer, toClient, compositor>>
        /\ UNCHANGED <<phase, step, opening, bad, win, objects, next_id, global_name, global_version,
                       last_serial>>
        /\ UNCHANGED <<offered, resources, highest, windows, serial, refused>>
    BY DEF fuzzVars, fuzzer, compositor
  <1>4. (InOpening' <=> InOpening) /\ (Unfinished' <=> Unfinished) /\ (GlobalsRight' <=> GlobalsRight)
    BY <1>3 DEF InOpening, Unfinished, GlobalsRight
  <1>5. ASSUME NEW K, NEW f, NEW s, NEW t, Script(K, f, s, t)
        PROVE  Script(K, f, s, t)'
    <2>1. SentAt(K, f, s, t) => SentAt(K, f, s, t)'
      BY <1>3 DEF SentAt, PlaceAt, WinAt, ListAt, HeardAt, Coming, Listed, Bought
    <2> QED
      BY <1>3, <1>4, <1>5, <2>1
         DEF Script, Served, ResourcesAt, WindowsAt, WindowAt, Queued
  <1>6. OpeningInv'
    BY <1>3, <1>4, <1>5 DEF OpeningRight, OpeningInv
  <1> QED
    BY <1>1, <1>2, <1>6 DEF OpeningRight

(* The session is not thrown out before it has fuzzed anything             *)
(* (wlfuzz.c:866-877): no request of the opening is refused, whatever      *)
(* globals are offered and in whatever order, and however far the          *)
(* compositor is behind that configures before the tenth of a second the   *)
(* fuzzer waits is over (770-773, AwaitSerial); provided the list has room *)
(* for what comes before the window's role, or its configure is not heard  *)
(* (410) and a serial nobody gave is acknowledged (MAX_OBJECTS,            *)
(* wlfuzz.c:202, is 512).                                                  *)
THEOREM OpeningLegalHolds == EnoughRoom => (FuzzSpec => []OpeningLegal)
  <1> SUFFICES ASSUME EnoughRoom
               PROVE  FuzzSpec => []OpeningLegal
    OBVIOUS
  <1>1. FuzzInit => OpeningRight
    BY SpentInit, FuzzTypedInit, OpeningBegins DEF OpeningRight
  <1>2. OpeningRight /\ [FuzzNext]_fuzzVars => OpeningRight'
    BY OpeningStep, OpeningStutters
  <1>3. OpeningRight => OpeningLegal
    BY DEF OpeningRight, OpeningInv, OpeningLegal
  <1> QED
    BY <1>1, <1>2, <1>3, PTL DEF FuzzSpec
================================================================================
