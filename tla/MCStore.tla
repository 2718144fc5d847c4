------------------------------- MODULE MCStore -------------------------------
(***************************************************************************)
(* Small instances of Store: two chats, a link they may share and one that *)
(* is not supported, and requests that meet at the chat, at the link and   *)
(* in the session.                                                         *)
(***************************************************************************)
EXTENDS Store, TLC

CONSTANTS c1, c2, r1, r2

MCChats == {c1, c2}
MCUrls == {"link", "other"}
MCSupported == {"link"}
MCTags == {"plain", "work"}
MCRequests == {r1, r2}
MCBackends == {"SQL", "ORM"}

(* Sound for invariants: chats, and requests, are alike. *)
MCSymmetry == Permutations(MCChats) \cup Permutations(MCRequests)

==============================================================================
