------------------------- MODULE GroupedChannel_proofs -------------------------
(***************************************************************************)
(* What the abstract channel guarantees, proved for every set of chats.    *)
(***************************************************************************)
EXTENDS GroupedChannel, SequenceTheorems, TLAPS

TypeInv ==
  /\ high \in Nat
  /\ pending \in [Chats -> Seq(Nat)]
  /\ published \in [Chats -> Seq(Seq(Nat))]

(* GroupsInOrder is not inductive: an accepted offset goes to the end of a *)
(* pending sequence, so those already there must be below it.              *)
PendingBelowHigh ==
  \A c \in Chats : \A i \in 1..Len(pending[c]) : pending[c][i] <= high

ChannelInv == TypeInv /\ PendingBelowHigh /\ GroupsInOrder

(* The two lemmas on Increasing that Accept and Publish rest on. *)
LEMMA IncreasingAppend ==
  ASSUME NEW s \in Seq(Nat), NEW n \in Nat, Increasing(s),
         \A i \in 1..Len(s) : s[i] < n
  PROVE  Increasing(Append(s, n))
BY DEF Increasing

LEMMA IncreasingEmpty == Increasing(<<>>)
BY DEF Increasing

LEMMA ChannelInvStep == ChannelInv /\ [Next]_vars => ChannelInv'
<1> SUFFICES ASSUME ChannelInv, [Next]_vars PROVE ChannelInv'
  OBVIOUS
<1> USE DEF ChannelInv, TypeInv
<1>1. ASSUME NEW chats \in SUBSET Chats, Accept(chats) PROVE ChannelInv'
  <2>1. TypeInv'
    BY <1>1 DEF Accept
  <2>2. \A c \in Chats : \A i \in 1..Len(pending[c]) : pending[c][i] < high'
    BY <1>1 DEF Accept, PendingBelowHigh
  <2>3. \A c \in Chats : Increasing(pending'[c])
    BY <1>1, <2>2, IncreasingAppend DEF Accept, GroupsInOrder
  <2>4. PendingBelowHigh'
    <3> SUFFICES ASSUME NEW c \in Chats, NEW i \in 1..Len(pending'[c])
                 PROVE  pending'[c][i] <= high'
      BY DEF PendingBelowHigh
    <3>1. CASE c \in chats
      <4>1. pending'[c] = Append(pending[c], high')
        BY <1>1, <3>1 DEF Accept
      <4>2. CASE i \in 1..Len(pending[c])
        BY <1>1, <2>2, <4>1, <4>2 DEF Accept
      <4>3. CASE i = Len(pending[c]) + 1
        BY <1>1, <4>1, <4>3 DEF Accept
      <4> QED
        BY <1>1, <4>1, <4>2, <4>3 DEF Accept
    <3>2. CASE c \notin chats
      BY <1>1, <2>2, <3>2 DEF Accept
    <3> QED
      BY <3>1, <3>2
  <2> QED
    BY <1>1, <2>1, <2>3, <2>4 DEF Accept, GroupsInOrder
<1>2. ASSUME NEW chats \in SUBSET Chats, Lose(chats) PROVE ChannelInv'
  BY <1>2, IncreasingEmpty DEF Lose, PendingBelowHigh, GroupsInOrder
<1>3. ASSUME NEW c \in Chats, Publish(c) PROVE ChannelInv'
  <2>1. TypeInv'
    BY <1>3 DEF Publish
  <2>2. PendingBelowHigh'
    BY <1>3 DEF Publish, PendingBelowHigh
  <2>3. ASSUME NEW d \in Chats PROVE Increasing(pending'[d])
    BY <1>3, IncreasingEmpty DEF Publish, GroupsInOrder
  <2>4. ASSUME NEW d \in Chats, NEW i \in 1..Len(published'[d])
        PROVE  Increasing(published'[d][i])
    BY <1>3 DEF Publish, GroupsInOrder
  <2> QED
    BY <2>1, <2>2, <2>3, <2>4 DEF GroupsInOrder
<1>4. CASE Rewind
  BY <1>4, IncreasingEmpty DEF Rewind, PendingBelowHigh, GroupsInOrder
<1>5. CASE UNCHANGED vars
  BY <1>5 DEF vars, PendingBelowHigh, GroupsInOrder
<1> QED
  BY <1>1, <1>2, <1>3, <1>4, <1>5 DEF Next

(* What is kept and every published group is in the order of the raw       *)
(* topic, without repetition, whatever was lost or read again.             *)
THEOREM ChannelOrder == Spec => []GroupsInOrder
<1>1. Init => ChannelInv
  BY IncreasingEmpty DEF Init, ChannelInv, TypeInv, PendingBelowHigh, GroupsInOrder
<1>2. ChannelInv => GroupsInOrder
  BY DEF ChannelInv
<1> QED
  BY <1>1, <1>2, ChannelInvStep, PTL DEF Spec

===============================================================================
