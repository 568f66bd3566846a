----------------------------- MODULE MCNodeLoad --------------------------------
(* Names, trees and requests for NodeLoad. *)
EXTENDS NodeLoad, TLC

CONSTANTS w1, w2

a  == <<"dev1", "a">>
b  == <<"dev2", "b">>
c  == <<"dev1", "c">>
d  == <<"dev1", "d">>
x  == <<"dev1", "d", "x">>
da == <<"dev1", "d", "a">>
e  == <<"dev2", "e">>
ex == <<"dev2", "e", "x">>
ea == <<"dev2", "e", "a">>
y  == <<"dev1", "d", "x", "y">>
TheNames == <<a, b, c, d, x, y, da, e, ex, ea,
              <<"dev2", "b", "a">>, <<"dev1", "c", "a">>, <<"dev1", "d", "d">>, <<"dev2", "e", "d">>>>
ThePaths == {TheNames[i] : i \in DOMAIN TheNames}

\* Nothing, a file, an empty directory, one with a file, one with a directory with a file,
\* and two directories with a file each.
Tree(files, dirs) == [p \in ThePaths |-> CASE p \in dirs -> Directory [] p \notin files -> Absent
                                           [] p = a -> 1 [] p = ea -> 3 [] OTHER -> 2]
TheTrees == {Tree({}, {}), Tree({a}, {}), Tree({a}, {d}), Tree({a, x}, {d}), Tree({y}, {d, x}), Tree({x, ea}, {d, e})}

Put(p, o, us)  == [method |-> "PUT", path |-> p, off |-> o, body |-> us, to |-> p, overwrite |-> TRUE]
Plain(m, p)    == [method |-> m, path |-> p, off |-> Whole, body |-> <<>>, to |-> p, overwrite |-> TRUE]
Over(m, p, t, o) == [method |-> m, path |-> p, off |-> Whole, body |-> <<>>, to |-> t, overwrite |-> o]

TheLoad == {Put(a, Whole, <<7, 8>>), Put(a, 0, <<7>>), Put(a, 1, <<8>>), Put(x, Whole, <<9>>),
            Plain("GET", a), Plain("HEAD", a), Plain("HEAD", d), Plain("DELETE", a), Plain("DELETE", d), Plain("MKCOL", d),
            Over("COPY", a, b, TRUE), Over("MOVE", a, b, FALSE), Over("MOVE", a, c, TRUE), Over("COPY", a, d, TRUE),
            Over("MOVE", d, e, TRUE), Over("COPY", d, d, TRUE)}

NoCollision == [p \in ThePaths |-> CHOOSE i \in DOMAIN TheNames : TheNames[i] = p]
TheInodes == 1..19
Alike == Permutations(Procs)
================================================================================
