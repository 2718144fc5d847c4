------------------------------ MODULE AgentText ------------------------------
(***************************************************************************)
(* The pure part of the AI agent: UpdateFilter, Summarizer and the two     *)
(* priority helpers of Handler.  A description is abstracted to its length *)
(* and to the watched words that occur in it, each with the position of    *)
(* its last character; matching is by lower-cased substring in the code,   *)
(* so an occurrence is all a watched word amounts to.                      *)
(***************************************************************************)
EXTENDS Integers

CONSTANTS
  StopWords,         \* FILTER_STOP_WORDS
  ExcludedAuthors,   \* FILTER_EXCLUDED_AUTHORS
  HighKeywords,      \* PRIORITIZATION_HIGH_KEYWORDS
  LowKeywords,       \* PRIORITIZATION_LOW_KEYWORDS
  MinLength,         \* FILTER_MIN_LENGTH
  Threshold          \* SUMMARIZATION_THRESHOLD

ASSUME TextAssumption ==
  /\ MinLength \in Nat
  /\ Threshold \in Nat

Ellipsis == 3        \* length of the "..." a shortened text ends in

Priorities == {"HIGH", "MEDIUM", "LOW"}

WordsOf(text) == {occurrence.word : occurrence \in text.words}

(* UpdateFilter.should_skip: too short, written by an excluded author, or  *)
(* containing a stop word.  It looks at the raw text, before shortening.   *)
ShouldSkip(raw) ==
  \/ raw.text.len < MinLength
  \/ raw.author \in ExcludedAuthors
  \/ WordsOf(raw.text) \cap StopWords # {}

(* Summarizer.summarize: a text over the threshold is cut there, so a word *)
(* that ends after the cut is gone.  rstrip() only drops white space before *)
(* the dots; len is therefore the longest the result can be.               *)
Summarize(text) ==
  IF text.len <= Threshold
  THEN text
  ELSE [len   |-> Threshold + Ellipsis,
        words |-> {occurrence \in text.words : occurrence.end <= Threshold}]

(* Handler._get_priority: a high keyword wins over a low one. *)
Priority(text) ==
  CASE WordsOf(text) \cap HighKeywords # {} -> "HIGH"
    [] /\ WordsOf(text) \cap HighKeywords = {}
       /\ WordsOf(text) \cap LowKeywords # {} -> "LOW"
    [] OTHER -> "MEDIUM"

(* Handler._priority_value *)
PriorityValue(priority) ==
  CASE priority = "HIGH" -> 3
    [] priority = "LOW"  -> 1
    [] OTHER             -> 2

(* What _process_message computes from an update that is not skipped. *)
PriorityOf(raw) == Priority(Summarize(raw.text))

(* max(updates, key=priority value) of _flush_expired, on the priorities. *)
MaxPriority(priorities) ==
  CHOOSE p \in priorities :
    \A q \in priorities : PriorityValue(q) <= PriorityValue(p)

==============================================================================
