-------------------------------- MODULE MCBot --------------------------------
(***************************************************************************)
(* Small instances of Bot: users that talk, in two chats of one user; a    *)
(* topic of three records, alone; and posts, alone.                        *)
(***************************************************************************)
EXTENDS Bot, TLC

CONSTANTS u1, here, there, a, b, c1, c2, r1, r2

MCUsers == {u1}
MCConvs == {here, there}
MCOwners == {here :> u1 @@ there :> u1}
MCPrivate == {here}
MCUrls == {a, b}
MCSupported == {a, b}
MCBoth == BOOLEAN
MCNeither == {FALSE}
MCChats == {c1, c2}
MCRequests == {r1, r2}

Update(chats) == [kind |-> "update", chats |-> chats]
Broken(kind) == [kind |-> kind, chats |-> {}]

Unposted == [r \in MCRequests |-> {}]

Talking == [talks |-> TRUE, source |-> "http", topic |-> <<>>, posted |-> Unposted,
            spent |-> 1]

Reading(topic_) == [talks |-> FALSE, source |-> "kafka", topic |-> topic_,
                    posted |-> Unposted, spent |-> 0]

Posted == [talks |-> FALSE, source |-> "http", topic |-> <<>>,
           posted |-> r1 :> {c1, c2} @@ r2 :> {c2}, spent |-> 0]

MCLoads ==
  {Talking, Posted,
   Reading(<<Update({c1, c2}), Update({c1}), Update({c2})>>),
   Reading(<<Update({c1}), Broken("malformed"), Update({c1, c2})>>),
   Reading(<<Update({c1, c2}), Broken("garbled"), Update({c2})>>)}

(* Messages, and nothing that goes wrong. *)
MCTalking == {[Talking EXCEPT !.spent = 2]}
==============================================================================
