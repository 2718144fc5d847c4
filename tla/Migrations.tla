------------------------------ MODULE Migrations ------------------------------
(***************************************************************************)
(* The scrapper's start: lifespan opens the database, runs                  *)
(* database/migrations.py and only then serves.  Each file is applied in a  *)
(* transaction of its own, with a row of schema_migrations in it.  Several  *)
(* instances may start at once on one database, and each may end anywhere   *)
(* and is started again.                                                    *)
(***************************************************************************)
EXTENDS Integers, Sequences, FiniteSets

CONSTANTS
  Instances,
  Directories,  \* what migrations/ may hold, sorted by file name
  MaxFaults     \* bound on crashes, lost connections and stops

(* The number a file's name begins with, if it begins with one. *)
NoVersion == -1
Files == [version : Nat \cup {NoVersion}, name : STRING]

ASSUME MigrationsAssumption ==
  /\ Directories \subseteq Seq(Files)
  /\ MaxFaults \in Nat

VARIABLES
  dir,      \* the directory of each instance
  rows,     \* versions in schema_migrations
  schema,   \* the files whose statements have been committed, in that order
  at,       \* where each instance is in its start
  seen,     \* applied: the versions it has read
  next,     \* the file it is at
  faults

database == <<rows, schema>>
vars == <<dir, database, at, seen, next, faults>>

Init ==
  /\ dir \in [Instances -> Directories]
  /\ rows = {}
  /\ schema = <<>>
  /\ at = [i \in Instances |-> "down"]
  /\ seen = [i \in Instances |-> {}]
  /\ next = [i \in Instances |-> 1]
  /\ faults = 0

File(i) == dir[i][next[i]]

Become(i, where) == at' = [at EXCEPT ![i] = where]

------------------------------------------------------------------------------

Start(i) ==
  /\ at[i] = "down"
  /\ Become(i, "connected")
  /\ UNCHANGED <<dir, database, seen, next, faults>>

(* CREATE TABLE IF NOT EXISTS schema_migrations, and what it holds now. *)
ReadApplied(i) ==
  /\ at[i] = "connected"
  /\ Become(i, "scanning")
  /\ seen' = [seen EXCEPT ![i] = rows]
  /\ next' = [next EXCEPT ![i] = 1]
  /\ UNCHANGED <<dir, database, faults>>

Scanning(i) == at[i] = "scanning" /\ next[i] \in DOMAIN dir[i]

Skipped(i) == File(i).version \in seen[i] \cup {NoVersion}

Skip(i) ==
  /\ Scanning(i)
  /\ Skipped(i)
  /\ next' = [next EXCEPT ![i] = @ + 1]
  /\ UNCHANGED <<dir, database, at, seen, faults>>

(* Variant: the files in the order the directory lists them. *)
RunSqlUnsorted(i) ==
  /\ Scanning(i)
  /\ \E n \in DOMAIN dir[i] :
       /\ dir[i][n].version \notin seen[i] \cup rows \cup {NoVersion}
       /\ next' = [next EXCEPT ![i] = n]
  /\ Become(i, "inserting")
  /\ UNCHANGED <<dir, database, seen, faults>>

(* Variant: whatever the table says. *)
RunSqlAlways(i) ==
  /\ Scanning(i)
  /\ Become(i, "inserting")
  /\ UNCHANGED <<dir, database, seen, next, faults>>

(* The statements of the file; "IF NOT EXISTS" lets them pass a second time. *)
RunSql(i) ==
  /\ Scanning(i)
  /\ ~Skipped(i)
  /\ Become(i, "inserting")
  /\ UNCHANGED <<dir, database, seen, next, faults>>

(* Whoever has written the same row first is waited for. *)
Waiting(i) ==
  \E j \in Instances \ {i} : at[j] = "committing" /\ File(j).version = File(i).version

(* Variant: no primary key. *)
InsertUnchecked(i) ==
  /\ at[i] = "inserting"
  /\ Become(i, "committing")
  /\ UNCHANGED <<dir, database, seen, next, faults>>

Insert(i) ==
  /\ at[i] = "inserting"
  /\ ~Waiting(i)
  /\ File(i).version \notin rows
  /\ Become(i, "committing")
  /\ UNCHANGED <<dir, database, seen, next, faults>>

(* Variants: the error is swallowed and the file tried again, or passed over *)
(* with all that follow.                                                     *)
ConflictAgain(i) ==
  /\ at[i] = "inserting"
  /\ ~Waiting(i)
  /\ File(i).version \in rows
  /\ Become(i, "scanning")
  /\ UNCHANGED <<dir, database, seen, next, faults>>

ConflictServes(i) ==
  /\ at[i] = "inserting"
  /\ ~Waiting(i)
  /\ File(i).version \in rows
  /\ Become(i, "up")
  /\ UNCHANGED <<dir, database, seen, next, faults>>

(* The primary key: the transaction is rolled back, and lifespan, and the  *)
(* process with it, ends in the exception.                                 *)
Conflict(i) ==
  /\ at[i] = "inserting"
  /\ ~Waiting(i)
  /\ File(i).version \in rows
  /\ Become(i, "down")
  /\ UNCHANGED <<dir, database, seen, next, faults>>

(* The same, where a statement meets another instance's of the same file,   *)
(* under way or committed.                                                  *)
SqlFails(i) ==
  /\ Scanning(i)
  /\ ~Skipped(i)
  /\ \/ File(i).version \in rows
     \/ \E j \in Instances \ {i} : at[j] \in {"inserting", "committing"} /\ File(j) = File(i)
  /\ Become(i, "down")
  /\ UNCHANGED <<dir, database, seen, next, faults>>

Committed(i) ==
  /\ rows' = rows \cup {File(i).version}
  /\ schema' = Append(schema, File(i))

Commit(i) ==
  /\ at[i] = "committing"
  /\ Committed(i)
  /\ Become(i, "scanning")
  /\ next' = [next EXCEPT ![i] = @ + 1]
  /\ UNCHANGED <<dir, seen, faults>>

(* The rest of lifespan: repositories, sender, scheduler. *)
Serve(i) ==
  /\ at[i] = "scanning"
  /\ next[i] \notin DOMAIN dir[i]
  /\ Become(i, "up")
  /\ UNCHANGED <<dir, database, seen, next, faults>>

(* Variant: the statements are committed by themselves, before their row. *)
FailHalfway(i) ==
  /\ at[i] # "down"
  /\ faults < MaxFaults
  /\ faults' = faults + 1
  /\ Become(i, "down")
  /\ schema' = IF at[i] = "committing" THEN Append(schema, File(i)) ELSE schema
  /\ UNCHANGED <<dir, rows, seen, next>>

(* A crash, a lost connection, a stop: an open transaction is rolled back,  *)
(* unless its commit was on the way.                                        *)
Fail(i) ==
  /\ at[i] # "down"
  /\ faults < MaxFaults
  /\ faults' = faults + 1
  /\ Become(i, "down")
  /\ \/ at[i] = "committing" /\ Committed(i)
     \/ UNCHANGED database
  /\ UNCHANGED <<dir, seen, next>>

Step(i) ==
  \/ Start(i) \/ ReadApplied(i) \/ Skip(i) \/ RunSql(i) \/ Insert(i) \/ Conflict(i)
  \/ SqlFails(i) \/ Commit(i) \/ Serve(i)

Next == \E i \in Instances : Step(i) \/ Fail(i)

Spec == Init /\ [][Next]_vars

(* "restart: unless-stopped", and what runs goes on. *)
FairSpec == Spec /\ \A i \in Instances : WF_vars(Step(i))

------------------------------------------------------------------------------
(* Properties *)

(* Every variable holds a value the code can give it; the file at hand is   *)
(* one to apply, and a row is being inserted only by one.                   *)
TypeOK ==
  /\ dir \in [Instances -> Directories]
  /\ rows \subseteq Nat
  /\ schema \in Seq(Files)
  /\ at \in [Instances -> {"down", "connected", "scanning", "inserting", "committing", "up"}]
  /\ seen \in [Instances -> SUBSET Nat]
  /\ next \in [Instances -> Nat \ {0}]
  /\ faults \in 0..MaxFaults
  /\ \A i \in Instances :
       at[i] \in {"inserting", "committing"} => next[i] \in DOMAIN dir[i] /\ ~Skipped(i)

(* No version is applied twice, whichever instances start together and      *)
(* wherever they end: the row and the statements are one transaction, and   *)
(* the primary key decides between two of them.                             *)
AppliedOnce ==
  \A m, n \in DOMAIN schema : m # n => schema[m].version # schema[n].version

(* The files with a number that come before the one at n. *)
Before(s, n) == {s[m] : m \in {k \in DOMAIN s : k < n /\ s[k].version # NoVersion}}

(* Each of s's files with a number is in t as well, after the same ones. *)
IsStartOf(s, t) ==
  \A n \in DOMAIN s : s[n].version # NoVersion =>
    \E m \in DOMAIN t : t[m] = s[n] /\ Before(t, m) = Before(s, n)

(* The directories are stages of one project whose versions are distinct. *)
Consistent ==
  /\ \A i, j \in Instances : IsStartOf(dir[i], dir[j]) \/ IsStartOf(dir[j], dir[i])
  /\ \A i \in Instances : \A m, n \in DOMAIN dir[i] :
       m # n => dir[i][m].version = NoVersion \/ dir[i][m].version # dir[i][n].version

(* The database has the files of the project up to some file, in the order  *)
(* of their names: no file before the ones it builds on, at any moment.     *)
SchemaIsStage ==
  Consistent =>
    \A i \in Instances : IsStartOf(schema, dir[i]) \/ IsStartOf(dir[i], schema)

(* An instance serves only when each of its files, or one of the same       *)
(* number, is in the database.                                              *)
ServesMigrated ==
  \A i \in Instances : at[i] = "up" =>
    {dir[i][n].version : n \in DOMAIN dir[i]}
      \subseteq {schema[m].version : m \in DOMAIN schema} \cup {NoVersion}

(* Together the instances make one history of the schema: a file is applied *)
(* as a whole, once, and after all that come before it in its directory,    *)
(* wherever an instance ends and however the directories differ.            *)
History == INSTANCE SchemaHistory WITH serving <- {i \in Instances : at[i] = "up"}

HistorySpec == History!Spec

(* Every instance serves in the end, though starting together fails all but *)
(* one of them, once and again.                                             *)
EventuallyServes == \A i \in Instances : <>[](at[i] = "up")
==============================================================================
