-------------------------- MODULE MCConfigSession ---------------------------
(***************************************************************************)
(* TLC instances of ConfigSession: three wishes and three Mconfigs, so     *)
(* that each kind of failure comes and goes with either.                   *)
(***************************************************************************)
EXTENDS ConfigSession

MCRejected == {<<"w1", "m1">>}
MCInconsistent == {<<"w2", "m1">>, <<"w2", "m2">>}
MCRaising == {<<"w3", "m2">>}
=============================================================================
