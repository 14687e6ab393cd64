------------------------------- MODULE MCStrap -------------------------------
(* Three packages over four directories: `core` makes a directory with a   *)
(* mode of its own and puts a file and a link in it; `fonts` goes to a     *)
(* directory below it, for whose name there may be no room; `extra` is of  *)
(* a set nobody asks for, in the same directory.                           *)
EXTENDS Strap

d_root == << >>
d_db == <<"lists">>
d_a == <<"share">>
d_b == <<"share", "fonts">>

MCDirs == {d_root, d_db, d_a, d_b}
MCDB == d_db
MCName == <<"core", "extra", "fonts">>
MCNameLen == [d \in MCDirs |-> CASE d = d_root -> 1 [] d = d_a -> 2
                                 [] d = d_b -> 4 [] OTHER -> 3]
Dir(d) == [kind |-> "dir", path |-> d]
Put(k, d, n) == [kind |-> k, path |-> Append(d, n)]
MCLines == <<
  <<Dir(d_a), Put("file", d_a, "x"), Put("link", d_a, "y")>>,
  <<Put("file", d_b, "w")>>,
  <<Put("file", d_b, "z")>> >>
MCSetOf == <<"base", "more", "base">>
MCAsked == {"base"}
MCFiles == {MCLines[1][2].path, MCLines[1][3].path, MCLines[2][1].path,
            MCLines[3][1].path} \cup
           {Append(d_db, MCName[p]) : p \in 1..3}
=============================================================================
