----------------------------- MODULE MCStaging -----------------------------
(* A program, `as`, musl, a list of tests of its own and the accounts this  *)
(* system installs, and a program of coreutils' the trees may come to have  *)
(* too; coreutils with a program both have and one only it has; a client    *)
(* with data, which has a program under the name FAT wants of coreutils'; a *)
(* suite with a list; and two overlays: a toolchain with an assembler and a *)
(* musl of its own, and fonts with a file that replaces one of ours.        *)
EXTENDS Staging

MCOwn == <<"etc/PASSWD", "etc/selftest.tests", "bin/LS.ELF", "lib/libc.so", "bin/as">>
MCLoose == {"lib/libc.so"}
MCGiven ==
  [coreutils |-> <<"bin/cat", "bin/ls">>,
   clients |-> <<"bin/term", "bin/CAT.ELF">>,
   share |-> <<"share/icon", "share/map">>,
   suites |-> <<"etc/z.tests", "bin/ztest">>,
   toolchain |-> <<"bin/as", "lib/libc.so">>,
   fonts |-> <<"etc/PASSWD", "etc/fonts.conf">>]
MCOverlays == <<"toolchain", "fonts">>
MCTwin == [f \in {"bin/ls", "bin/cat"} |->
             IF f = "bin/ls" THEN "bin/LS.ELF" ELSE "bin/CAT.ELF"]
MCNew == {"bin/cat"}
MCBin == {"bin/LS.ELF", "bin/as", "bin/ls", "bin/cat", "bin/CAT.ELF",
          "bin/term", "bin/ztest"}
MCNames == ("etc/selftest.tests" :> {"bin/LS.ELF"}) @@ ("etc/z.tests" :> {"bin/ztest"})
MCClaims == <<{"bin/term", "share/icon", "share/map"},
              {"etc/selftest.tests", "etc/hostile.tests", "etc/z.tests"}, Files>>
MCCaches == <<"cache/a", "cache/b">>
=============================================================================
