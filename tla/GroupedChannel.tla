---------------------------- MODULE GroupedChannel ----------------------------
(***************************************************************************)
(* What the AI agent promises between the raw and the processed topic,     *)
(* without its tasks, its lock, its clock and its consumer: a channel that *)
(* accepts updates in the order of their offsets, keeps them per chat, and *)
(* publishes everything it keeps for a chat as one group, in that order.   *)
(* A disruption may make it lose what it keeps, or fall back to an earlier *)
(* offset with nothing kept; it never publishes part of a group.           *)
(***************************************************************************)
EXTENDS Integers, Sequences

CONSTANT Chats

VARIABLES
  high,        \* every offset up to this one was accepted or passed over
  pending,     \* per chat, the accepted offsets not yet published
  published    \* per chat, the groups published so far

vars == <<high, pending, published>>

Init ==
  /\ high = 0
  /\ pending   = [c \in Chats |-> <<>>]
  /\ published = [c \in Chats |-> <<>>]

(* The next accepted update is kept for each of its chats, at the end. *)
Accept(chats) ==
  /\ high' \in Nat
  /\ high' > high
  /\ pending' = [c \in Chats |->
                   IF c \in chats THEN Append(pending[c], high') ELSE pending[c]]
  /\ UNCHANGED published

(* Everything kept for a chat leaves as one group. *)
Publish(c) ==
  /\ pending[c] # <<>>
  /\ published' = [published EXCEPT ![c] = Append(@, pending[c])]
  /\ pending'   = [pending EXCEPT ![c] = <<>>]
  /\ UNCHANGED high

(* Offsets nobody is told about (filtered or malformed updates) are passed *)
(* over; in a disruption some chats also lose what was kept for them.      *)
Lose(chats) ==
  /\ high' \in Nat
  /\ high' >= high
  /\ pending' = [c \in Chats |-> IF c \in chats THEN <<>> ELSE pending[c]]
  /\ UNCHANGED published

(* A restart: nothing is kept, and reading resumes at an earlier offset. *)
Rewind ==
  /\ high' \in Nat
  /\ high' <= high
  /\ pending' = [c \in Chats |-> <<>>]
  /\ UNCHANGED published

Next ==
  \/ \E chats \in SUBSET Chats : Accept(chats) \/ Lose(chats)
  \/ \E c \in Chats : Publish(c)
  \/ Rewind

Spec == Init /\ [][Next]_vars

------------------------------------------------------------------------------

Increasing(s) == \A i, j \in 1..Len(s) : i < j => s[i] < s[j]

(* What is kept and every published group is in the order of the raw       *)
(* topic, without repetition, whatever was lost or read again.             *)
GroupsInOrder ==
  /\ \A c \in Chats : Increasing(pending[c])
  /\ \A c \in Chats : \A i \in 1..Len(published[c]) : Increasing(published[c][i])

===============================================================================
