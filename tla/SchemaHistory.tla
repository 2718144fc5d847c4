---------------------------- MODULE SchemaHistory ----------------------------
(***************************************************************************)
(* What the scrapper's start promises of the database, without its table,  *)
(* its transactions and what each instance has read of them: the schema    *)
(* grows by one whole file at a time, a file comes after all that precede  *)
(* it in the directory it is taken from, and whoever serves finds every    *)
(* version of its own directory there.  Instances come and go as they like.*)
(***************************************************************************)
EXTENDS Integers, Sequences

CONSTANTS
  Instances,
  NoVersion     \* of a file that is never applied

VARIABLES
  dir,       \* the directory of each instance
  schema,    \* the files applied, in that order
  serving    \* the instances that serve

vars == <<dir, schema, serving>>

Versions == {schema[m].version : m \in DOMAIN schema}

Init ==
  /\ schema = <<>>
  /\ serving = {}

(* What comes before the nth file of i's directory is there. *)
Reached(i, n) ==
  \A m \in DOMAIN dir[i] : m < n => dir[i][m].version \in Versions \cup {NoVersion}

(* An instance that does not serve yet applies the next of its files. *)
Apply(i) ==
  /\ i \notin serving
  /\ \E n \in DOMAIN dir[i] :
       /\ Reached(i, n)
       /\ dir[i][n].version \notin Versions \cup {NoVersion}
       /\ schema' = Append(schema, dir[i][n])
  /\ UNCHANGED <<dir, serving>>

Serve(i) ==
  /\ \A n \in DOMAIN dir[i] : dir[i][n].version \in Versions \cup {NoVersion}
  /\ serving' = serving \cup {i}
  /\ UNCHANGED <<dir, schema>>

Leave(i) ==
  /\ serving' = serving \ {i}
  /\ UNCHANGED <<dir, schema>>

Next == \E i \in Instances : Apply(i) \/ Serve(i) \/ Leave(i)

Spec == Init /\ [][Next]_vars
==============================================================================
