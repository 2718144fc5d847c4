----------------------------- MODULE MCAiAgent -----------------------------
(***************************************************************************)
(* Small instances of AiAgent: two chats, three texts that differ in what  *)
(* the filter, the summarizer and the priorities see, and topics in which  *)
(* every kind of record meets every other one.                             *)
(***************************************************************************)
EXTENDS AiAgent

MCChats == {"c1", "c2"}
MCAuthors == {"ann", "bot"}
MCStopWords == {"spam"}
MCExcludedAuthors == {"bot"}
MCHighKeywords == {"critical"}
MCLowKeywords == {"typo"}
MCMinLength == 2
MCThreshold == 4

Plain    == [len |-> 3, words |-> {}]
Urgent   == [len |-> 3, words |-> {[word |-> "critical", end |-> 3],
                                   [word |-> "typo", end |-> 2]}]
Late     == [len |-> 6, words |-> {[word |-> "critical", end |-> 5],
                                   [word |-> "typo", end |-> 2]}]
Spam     == [len |-> 3, words |-> {[word |-> "spam", end |-> 3]}]
Short    == [len |-> 1, words |-> {}]
MCTexts == {Plain, Urgent, Late, Spam, Short}

Update(author, text, chats) ==
  [kind |-> "update", author |-> author, text |-> text, chats |-> chats]
Broken(kind) == [kind |-> kind, author |-> "ann", text |-> Short, chats |-> {}]

ForOne == Update("ann", Plain, {"c1"})
ForTwo == Update("ann", Urgent, MCChats)
ForOther == Update("ann", Late, {"c2"})
DropSpam == Update("ann", Spam, {"c1"})
DropShort == Update("ann", Short, {"c1"})
DropBot == Update("bot", Plain, {"c1"})

(* Groups of one, two and three updates, one of them for both chats, and    *)
(* every kind of record that is not buffered between them.                 *)
MCTopics ==
  {<<ForOne, ForTwo, ForOne>>,
   <<ForTwo, ForOther>>,
   <<DropSpam, ForTwo, DropShort, ForOne>>,
   <<ForOne, DropBot, Broken("malformed"), ForTwo>>,
   <<ForTwo, Broken("garbled"), ForOne>>}

============================================================================
