------------------------------ MODULE MCTracker ------------------------------
(***************************************************************************)
(* Small instances of Tracker: batches of two over three links, so that a  *)
(* sweep takes two batches and a row may be inserted between them.         *)
(***************************************************************************)
EXTENDS Tracker

MCChats == {"c1"}
MCNoChats == {}
MCBackends == {"SQL", "ORM"}

(* A first change that may be followed by a newer one, and a second one    *)
(* that may be withdrawn.                                                  *)
MCFirstChanges == {<<1, 2, 1>>}
MCFirstOfTwo == {<<0, 1>>}

==============================================================================
