---------------------------- MODULE MCOversight -----------------------------
(* RequestLifecycle's instance, with one of the two creators near.         *)
EXTENDS Reminders, MCRequestLifecycle

MCNear == {c1}
=============================================================================
