------------------------------ MODULE MCShell ------------------------------
(* Shell with five inodes, so that a directory with a file in it can be copied  *)
(* next to itself; the paths have one of every shape that is resolved in its    *)
(* own way: the root, up, down by one name and by two, with ".." in between.    *)
EXTENDS Shell

MCNames   == {"a", "b"}
MCCdPaths == {<<"", "">>, <<"a">>, <<"..">>, <<"a", "b">>, <<"a", "..", "b">>}
MCSources == {<<"a">>, <<"a", "b">>, <<"..">>}
MCTargets == {<<"a">>, <<"b">>, <<"a", "b">>}
=============================================================================
