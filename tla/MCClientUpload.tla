---------------------------- MODULE MCClientUpload -----------------------------
(* One name on one device, and two workers. *)
EXTENDS ClientUpload, TLC

CONSTANTS w1, w2

TheName  == <<"dev1", "fid">>
TheNames == {TheName}
OneKey   == [p \in {TheName} |-> 1]
================================================================================
