----------------------------- MODULE MCOxideFs -----------------------------
(* OxideFs on a small instance: an agent with a key and one with a key that *)
(* is too long (2, cut to 3), contents of one and two blocks whose hashes   *)
(* collide.                                                                 *)
EXTENDS OxideFs

MCOwner == <<1, 2, 2>>
MCStored == <<1, 3, 3>>
MCValues == {<<"a">>, <<"a", "b">>}
MCHash(v) == 0
=============================================================================
