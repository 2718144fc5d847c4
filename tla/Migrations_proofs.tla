--------------------------- MODULE Migrations_proofs ---------------------------
(***************************************************************************)
(* Theorems about Migrations for any instances, directories and faults.     *)
(***************************************************************************)
EXTENDS Migrations, TLAPS

Places == {"down", "connected", "scanning", "inserting", "committing", "up"}

Versions == {schema[m].version : m \in DOMAIN schema}

(* The table says what has been applied. *)
Recorded == rows = Versions

(* A row under way is new, and nobody else's. *)
RowsApart ==
  \A i \in Instances : at[i] = "committing" =>
    /\ File(i).version \notin rows
    /\ \A j \in Instances \ {i} :
         at[j] = "committing" => File(j).version # File(i).version

(* What an instance has read is still there, and so is what it has passed. *)
PassedApplied ==
  \A i \in Instances :
    /\ seen[i] \subseteq rows
    /\ at[i] \in {"scanning", "inserting", "committing"} =>
         \A n \in DOMAIN dir[i] : n < next[i] => dir[i][n].version \in rows \cup {NoVersion}
    /\ at[i] = "up" =>
         \A n \in DOMAIN dir[i] : dir[i][n].version \in rows \cup {NoVersion}

IInv ==
  /\ TypeOK
  /\ Recorded
  /\ AppliedOnce
  /\ RowsApart
  /\ PassedApplied

------------------------------------------------------------------------------

LEMMA DirectoryType ==
  ASSUME TypeOK, NEW i \in Instances
  PROVE  /\ dir[i] \in Seq(Files)
         /\ next[i] \in Nat \ {0}
         /\ DOMAIN dir[i] = 1..Len(dir[i]) /\ Len(dir[i]) \in Nat
         /\ \A n \in DOMAIN dir[i] : dir[i][n] \in Files
<1>1. dir[i] \in Seq(Files) /\ next[i] \in Nat \ {0}
  BY MigrationsAssumption DEF TypeOK
<1> QED
  BY <1>1

(* A file that is to be applied has a number. *)
LEMMA FileType ==
  ASSUME TypeOK, NEW i \in Instances, at[i] \in {"inserting", "committing"}
  PROVE  File(i) \in Files /\ File(i).version \in Nat
<1>1. next[i] \in DOMAIN dir[i] /\ File(i).version # NoVersion
  BY DEF TypeOK, Skipped
<1>2. File(i) \in Files
  BY <1>1, DirectoryType DEF File
<1> QED
  BY <1>1, <1>2 DEF Files

LEMMA InitInvariant == Init => IInv
<1> SUFFICES ASSUME Init PROVE IInv
  OBVIOUS
<1>1. TypeOK
  BY MigrationsAssumption DEF Init, TypeOK
<1>2. Recorded /\ AppliedOnce /\ RowsApart /\ PassedApplied
  BY DEF Init, Recorded, Versions, AppliedOnce, RowsApart, PassedApplied
<1> QED
  BY <1>1, <1>2 DEF IInv

------------------------------------------------------------------------------
(* Commits *)

(* A commit adds one version to both, and one that was in neither. *)
LEMMA CommitAppends ==
  ASSUME IInv, NEW i \in Instances, at[i] = "committing", Committed(i)
  PROVE  /\ Recorded'
         /\ AppliedOnce'
         /\ rows' \subseteq Nat
         /\ rows \subseteq rows'
         /\ schema' \in Seq(Files)
<1> DEFINE f == File(i)
<1>1. f \in Files /\ f.version \in Nat /\ f.version \notin rows
  BY FileType DEF IInv, RowsApart
<1>2. rows' = rows \cup {f.version} /\ schema' = Append(schema, f)
  BY DEF Committed
<1> HIDE DEF f
<1>3. schema \in Seq(Files) /\ rows \subseteq Nat
  BY DEF IInv, TypeOK
<1>4. /\ schema' \in Seq(Files)
      /\ DOMAIN schema = 1..Len(schema) /\ Len(schema) \in Nat
      /\ DOMAIN schema' = 1..(Len(schema) + 1)
      /\ \A m \in DOMAIN schema : schema'[m] = schema[m]
      /\ schema'[Len(schema) + 1] = f
  BY <1>1, <1>2, <1>3
<1>5. \A m \in DOMAIN schema' : m \in DOMAIN schema \/ m = Len(schema) + 1
  BY <1>4
<1>6. \A m \in DOMAIN schema : m \in DOMAIN schema' /\ schema[m].version \in rows
  BY <1>4 DEF IInv, Recorded, Versions
<1>7. Len(schema) + 1 \in DOMAIN schema'
  BY <1>4
<1>8. Recorded'
  <2>1. rows' \subseteq Versions'
    <3> SUFFICES ASSUME NEW v \in rows' PROVE v \in Versions'
      OBVIOUS
    <3>1. CASE v = f.version
      BY <3>1, <1>4, <1>7 DEF Versions
    <3>2. CASE v \in rows
      <4>1. PICK m \in DOMAIN schema : v = schema[m].version
        BY <3>2 DEF IInv, Recorded, Versions
      <4> QED
        BY <4>1, <1>4, <1>6 DEF Versions
    <3> QED
      BY <1>2, <3>1, <3>2
  <2>2. Versions' \subseteq rows'
    <3> SUFFICES ASSUME NEW m \in DOMAIN schema' PROVE schema'[m].version \in rows'
      BY DEF Versions
    <3> QED
      BY <1>2, <1>4, <1>5, <1>6
  <2> QED
    BY <2>1, <2>2 DEF Recorded
<1>9. AppliedOnce'
  <2> SUFFICES ASSUME NEW m \in DOMAIN schema', NEW n \in DOMAIN schema', m # n
               PROVE  schema'[m].version # schema'[n].version
    BY DEF AppliedOnce
  <2>1. CASE m \in DOMAIN schema /\ n \in DOMAIN schema
    BY <2>1, <1>4 DEF IInv, AppliedOnce
  <2>2. CASE m = Len(schema) + 1 \/ n = Len(schema) + 1
    BY <2>2, <1>1, <1>4, <1>5, <1>6
  <2> QED
    BY <2>1, <2>2, <1>5
<1> QED
  BY <1>1, <1>2, <1>3, <1>4, <1>8, <1>9

(* Other instances notice nothing of it, except that they may be too late. *)
LEMMA CommitKeepsOthers ==
  ASSUME IInv, NEW i \in Instances, at[i] = "committing", Committed(i),
         NEW j \in Instances \ {i}, at[j] = "committing"
  PROVE  File(j).version \notin rows'
BY DEF IInv, RowsApart, Committed

------------------------------------------------------------------------------

(* Where nothing is committed only the instance that moves can matter. *)
LEMMA QuietStep ==
  ASSUME IInv, NEW i \in Instances, UNCHANGED <<dir, database>>, TypeOK',
         \A j \in Instances \ {i} :
           at'[j] = at[j] /\ seen'[j] = seen[j] /\ next'[j] = next[j],
         seen'[i] \subseteq rows,
         at'[i] = "committing" =>
           /\ File(i)'.version \notin rows
           /\ \A j \in Instances \ {i} :
                at[j] = "committing" => File(j).version # File(i)'.version,
         at'[i] \in {"scanning", "inserting", "committing"} =>
           \A n \in DOMAIN dir[i] :
             n < next'[i] => dir[i][n].version \in rows \cup {NoVersion},
         at'[i] = "up" =>
           \A n \in DOMAIN dir[i] : dir[i][n].version \in rows \cup {NoVersion}
  PROVE  IInv'
<1>1. rows' = rows /\ schema' = schema /\ dir' = dir
  BY DEF database
<1>2. Recorded' /\ AppliedOnce'
  BY <1>1 DEF IInv, Recorded, Versions, AppliedOnce
<1>3. \A j \in Instances \ {i} : File(j)' = File(j)
  BY <1>1 DEF File
<1>4. RowsApart'
  <2> SUFFICES ASSUME NEW j \in Instances, at'[j] = "committing",
                      NEW k \in Instances \ {j}
               PROVE  /\ File(j)'.version \notin rows
                      /\ at'[k] = "committing" => File(k)'.version # File(j)'.version
    BY <1>1 DEF RowsApart
  <2>1. CASE j = i
    BY <2>1, <1>3
  <2>2. CASE j # i /\ k = i
    BY <2>2, <1>3 DEF IInv, RowsApart
  <2>3. CASE j # i /\ k # i
    BY <2>3, <1>3 DEF IInv, RowsApart
  <2> QED
    BY <2>1, <2>2, <2>3
<1>5. PassedApplied'
  <2> SUFFICES ASSUME NEW j \in Instances
               PROVE  /\ seen'[j] \subseteq rows
                      /\ at'[j] \in {"scanning", "inserting", "committing"} =>
                           \A n \in DOMAIN dir[j] :
                             n < next'[j] => dir[j][n].version \in rows \cup {NoVersion}
                      /\ at'[j] = "up" =>
                           \A n \in DOMAIN dir[j] : dir[j][n].version \in rows \cup {NoVersion}
    BY <1>1 DEF PassedApplied
  <2>1. CASE j = i
    BY <2>1
  <2>2. CASE j # i
    BY <2>2 DEF IInv, PassedApplied
  <2> QED
    BY <2>1, <2>2
<1> QED
  BY <1>2, <1>4, <1>5 DEF IInv

LEMMA StepInvariant == ASSUME IInv, [Next]_vars PROVE IInv'
<1>1. CASE UNCHANGED vars
  BY <1>1 DEF vars, database, IInv, TypeOK, Recorded, Versions, AppliedOnce, RowsApart,
              PassedApplied, File, Skipped
<1>2. ASSUME NEW i \in Instances, Step(i) \/ Fail(i) PROVE IInv'
  <2> USE <1>2 DEF IInv
  <2>0. TypeOK /\ PassedApplied /\ at \in [Instances -> Places]
    BY DEF TypeOK, Places
  <2>1. CASE Start(i)
    <3>1. TypeOK'
      BY <2>1 DEF TypeOK, Start, Become, database, Skipped, File
    <3> QED
      BY <2>1, <2>0, <3>1, QuietStep DEF Start, Become, PassedApplied
  <2>2. CASE ReadApplied(i)
    <3>1. TypeOK'
      BY <2>2 DEF TypeOK, ReadApplied, Become, database, Skipped, File
    <3>2. next'[i] = 1 /\ seen'[i] = rows
      BY <2>2 DEF ReadApplied, TypeOK
    <3>3. \A n \in DOMAIN dir[i] : ~(n < 1)
      BY DirectoryType
    <3> QED
      BY <2>2, <2>0, <3>1, <3>2, <3>3, QuietStep DEF ReadApplied, Become
  <2>3. CASE Skip(i)
    <3>1. TypeOK'
      BY <2>3 DEF TypeOK, Skip, Scanning, database, Skipped, File
    <3>2. next'[i] = next[i] + 1 /\ at[i] = "scanning"
      BY <2>3 DEF Skip, Scanning, TypeOK
    <3>3. dir[i][next[i]].version \in rows \cup {NoVersion}
      BY <2>3, <2>0 DEF Skip, Skipped, File, PassedApplied
    <3>4. \A n \in DOMAIN dir[i] : n < next[i] + 1 => n < next[i] \/ n = next[i]
      BY DirectoryType
    <3> QED
      BY <2>3, <2>0, <3>1, <3>2, <3>3, <3>4, QuietStep DEF Skip, PassedApplied
  <2>4. CASE RunSql(i)
    <3>1. TypeOK'
      BY <2>4 DEF TypeOK, RunSql, Scanning, Become, database, Skipped, File
    <3> QED
      BY <2>4, <2>0, <3>1, QuietStep DEF RunSql, Scanning, Become, PassedApplied
  <2>5. CASE Insert(i)
    <3>1. TypeOK'
      BY <2>5 DEF TypeOK, Insert, Become, database, Skipped, File
    <3>2. File(i)' = File(i) /\ File(i).version \notin rows
      BY <2>5 DEF Insert, File
    <3>3. \A j \in Instances \ {i} : at[j] = "committing" => File(j).version # File(i).version
      BY <2>5 DEF Insert, Waiting
    <3> QED
      BY <2>5, <2>0, <3>1, <3>2, <3>3, QuietStep DEF Insert, Become, PassedApplied
  <2>6. CASE Conflict(i) \/ SqlFails(i)
    <3>1. /\ at' = [at EXCEPT ![i] = "down"]
          /\ UNCHANGED <<dir, database, seen, next, faults>>
      BY <2>6 DEF Conflict, SqlFails, Become
    <3>2. TypeOK'
      BY <3>1 DEF TypeOK, database, Skipped, File
    <3> QED
      BY <2>0, <3>1, <3>2, QuietStep DEF PassedApplied
  <2>7. CASE Serve(i)
    <3>1. TypeOK'
      BY <2>7 DEF TypeOK, Serve, Become, database, Skipped, File
    <3>2. \A n \in DOMAIN dir[i] : n < next[i]
      BY <2>7, DirectoryType DEF Serve
    <3> QED
      BY <2>7, <2>0, <3>1, <3>2, QuietStep DEF Serve, Become, PassedApplied
  <2>8. CASE Fail(i) /\ UNCHANGED database
    <3>1. TypeOK'
      BY <2>8, MigrationsAssumption DEF TypeOK, Fail, Become, database, Skipped, File
    <3> QED
      BY <2>8, <2>0, <3>1, QuietStep DEF Fail, Become, PassedApplied
  <2>9. CASE at[i] = "committing" /\ Committed(i) /\ (Commit(i) \/ Fail(i))
    <3>1. /\ Recorded' /\ AppliedOnce'
          /\ rows' \subseteq Nat /\ rows \subseteq rows' /\ schema' \in Seq(Files)
      BY <2>9, CommitAppends
    <3>2. /\ dir' = dir /\ seen' = seen
          /\ at' \in [Instances -> Places]
          /\ at'[i] \in {"scanning", "down"}
          /\ next' \in [Instances -> Nat \ {0}]
          /\ faults' \in 0..MaxFaults
          /\ \A j \in Instances \ {i} : at'[j] = at[j] /\ next'[j] = next[j]
      <4>1. CASE Commit(i)
        <5>1. /\ dir' = dir /\ seen' = seen /\ faults' = faults
              /\ at' = [at EXCEPT ![i] = "scanning"]
              /\ next' = [next EXCEPT ![i] = @ + 1]
          BY <4>1 DEF Commit, Become
        <5>2. next[i] + 1 \in Nat \ {0}
          BY DirectoryType
        <5> QED
          BY <5>1, <5>2 DEF TypeOK, Places
      <4>2. CASE Fail(i)
        <5>1. /\ dir' = dir /\ seen' = seen /\ next' = next
              /\ at' = [at EXCEPT ![i] = "down"]
              /\ faults' = faults + 1 /\ faults < MaxFaults
          BY <4>2 DEF Fail, Become
        <5>2. faults' \in 0..MaxFaults
          BY <5>1, MigrationsAssumption DEF TypeOK
        <5> QED
          BY <5>1, <5>2 DEF TypeOK, Places
      <4> QED
        BY <2>9, <4>1, <4>2
    <3>3. TypeOK'
      BY <3>1, <3>2 DEF TypeOK, Places, Skipped, File
    <3>4. RowsApart'
      BY <2>9, <3>2, CommitKeepsOthers DEF RowsApart, File
    <3>5. PassedApplied'
      <4> SUFFICES ASSUME NEW j \in Instances, at'[j] # "down"
                   PROVE  /\ at'[j] \in {"scanning", "inserting", "committing"} =>
                               \A n \in DOMAIN dir[j] :
                                 n < next'[j] => dir[j][n].version \in rows' \cup {NoVersion}
                          /\ at'[j] = "up" =>
                               \A n \in DOMAIN dir[j] :
                                 dir[j][n].version \in rows' \cup {NoVersion}
        BY <2>0, <3>1, <3>2 DEF PassedApplied
      <4>1. CASE j # i
        BY <4>1, <2>0, <3>1, <3>2 DEF PassedApplied
      <4>2. CASE j = i
        <5>1. at'[i] = "scanning" /\ next'[i] = next[i] + 1
          BY <4>2, <3>2, <2>9 DEF Commit, Fail, Become, TypeOK
        <5>2. dir[i][next[i]].version \in rows'
          BY <2>9 DEF Committed, File
        <5>3. \A n \in DOMAIN dir[i] : n < next[i] + 1 => n < next[i] \/ n = next[i]
          BY DirectoryType
        <5> QED
          BY <4>2, <2>0, <2>9, <3>1, <5>1, <5>2, <5>3 DEF PassedApplied
      <4> QED
        BY <4>1, <4>2
    <3> QED
      BY <3>1, <3>3, <3>4, <3>5
  <2>10. CASE Commit(i)
    BY <2>9, <2>10 DEF Commit
  <2>11. CASE Fail(i)
    BY <2>8, <2>9, <2>11 DEF Fail
  <2> QED
    BY <2>1, <2>2, <2>3, <2>4, <2>5, <2>6, <2>7, <2>10, <2>11 DEF Step
<1> QED
  BY <1>1, <1>2 DEF Next

------------------------------------------------------------------------------

THEOREM Invariance == Spec => []IInv
<1>1. IInv /\ [Next]_vars => IInv'
  BY StepInvariant
<1> QED
  BY InitInvariant, <1>1, PTL DEF Spec

(* TypeOK holds throughout, of any number of instances. *)
THEOREM TypeCorrect == Spec => []TypeOK
<1>1. IInv => TypeOK
  BY DEF IInv
<1> QED
  BY Invariance, <1>1, PTL

(* No version is applied twice, however many instances start together. *)
THEOREM MigrationsApplyOnce == Spec => []AppliedOnce
<1>1. IInv => AppliedOnce
  BY DEF IInv
<1> QED
  BY Invariance, <1>1, PTL

(* Who serves has every file of its directory, or one of the same number, in *)
(* the database.                                                            *)
THEOREM ServingIsMigrated == Spec => []ServesMigrated
<1>1. ASSUME IInv PROVE ServesMigrated
  <2> SUFFICES ASSUME NEW i \in Instances, at[i] = "up", NEW n \in DOMAIN dir[i]
               PROVE  dir[i][n].version \in Versions \cup {NoVersion}
    BY DEF ServesMigrated, Versions
  <2> QED
    BY <1>1 DEF IInv, PassedApplied, Recorded
<1> QED
  BY Invariance, <1>1, PTL

------------------------------------------------------------------------------
(* Stages *)

(* A sequence of files whose versions are distinct. *)
Distinct(t) ==
  \A m, n \in DOMAIN t :
    m # n => t[m].version = NoVersion \/ t[m].version # t[n].version

LEMMA StartTransitive ==
  ASSUME NEW s, NEW t, NEW u, IsStartOf(s, t), IsStartOf(t, u) PROVE IsStartOf(s, u)
<1> SUFFICES ASSUME NEW n \in DOMAIN s, s[n].version # NoVersion
             PROVE  \E m \in DOMAIN u : u[m] = s[n] /\ Before(u, m) = Before(s, n)
  BY DEF IsStartOf
<1>1. PICK m \in DOMAIN t : t[m] = s[n] /\ Before(t, m) = Before(s, n)
  BY DEF IsStartOf
<1>2. PICK k \in DOMAIN u : u[k] = t[m] /\ Before(u, k) = Before(t, m)
  BY <1>1 DEF IsStartOf
<1> QED
  BY <1>1, <1>2

(* Of two starts of one sequence one is a start of the other: where a file  *)
(* of a start is in the sequence tells what it comes after.                 *)
LEMMA StartsCompare ==
  ASSUME NEW s, NEW u, NEW t, DOMAIN t \subseteq Int, Distinct(t), IsStartOf(s, t), IsStartOf(u, t)
  PROVE  IsStartOf(s, u) \/ IsStartOf(u, s)
<1>1. ASSUME NEW v, IsStartOf(v, t), NEW n \in DOMAIN v, NEW m \in DOMAIN t, v[n] = t[m],
             t[m].version # NoVersion
      PROVE  Before(v, n) = Before(t, m)
  <2>1. PICK k \in DOMAIN t : t[k] = v[n] /\ Before(t, k) = Before(v, n)
    BY <1>1 DEF IsStartOf
  <2>2. k = m
    BY <1>1, <2>1 DEF Distinct
  <2> QED
    BY <2>1, <2>2
<1>2. SUFFICES ASSUME ~IsStartOf(s, u) PROVE IsStartOf(u, s)
  OBVIOUS
<1>3. PICK n \in DOMAIN s :
        /\ s[n].version # NoVersion
        /\ ~ \E m \in DOMAIN u : u[m] = s[n] /\ Before(u, m) = Before(s, n)
  BY <1>2 DEF IsStartOf
<1>4. PICK p \in DOMAIN t : t[p] = s[n] /\ Before(t, p) = Before(s, n)
  BY <1>3 DEF IsStartOf
<1>5. \A m \in DOMAIN u : u[m] # t[p]
  BY <1>1, <1>3, <1>4
<1>6. SUFFICES ASSUME NEW k \in DOMAIN u, u[k].version # NoVersion
               PROVE  \E l \in DOMAIN s : s[l] = u[k] /\ Before(s, l) = Before(u, k)
  BY DEF IsStartOf
<1>7. PICK q \in DOMAIN t : t[q] = u[k] /\ Before(t, q) = Before(u, k)
  BY <1>6 DEF IsStartOf
<1>8. q < p
  <2>1. q # p
    BY <1>5, <1>7
  <2>2. ~(p < q)
    <3> SUFFICES ASSUME p < q PROVE FALSE
      OBVIOUS
    <3>1. t[p] \in Before(t, q)
      BY <1>3, <1>4 DEF Before
    <3> QED
      BY <1>5, <1>7, <3>1 DEF Before
  <2> QED
    BY <2>1, <2>2
<1>9. t[q] \in Before(s, n)
  BY <1>4, <1>6, <1>7, <1>8 DEF Before
<1>10. PICK l \in DOMAIN s : s[l] = t[q]
  BY <1>9 DEF Before
<1> QED
  BY <1>1, <1>6, <1>7, <1>10

Stage == \A i \in Instances : IsStartOf(schema, dir[i]) \/ IsStartOf(dir[i], schema)

(* The file that is committed comes after those that the database has. *)
LEMMA CommitKeepsStage ==
  ASSUME IInv, Consistent, Stage, NEW i \in Instances, at[i] = "committing", Committed(i),
         UNCHANGED dir
  PROVE  Stage'
<1> DEFINE f == File(i)
           d == dir[i]
           p == next[i]
           last == Len(schema) + 1
<1>1. /\ f.version \in Nat /\ f.version # NoVersion /\ f.version \notin rows
      /\ p \in DOMAIN d /\ f = d[p] /\ DOMAIN d \subseteq Int
  BY FileType, DirectoryType DEF IInv, TypeOK, RowsApart, File, NoVersion
<1>2. /\ \A k \in DOMAIN d : k < p => d[k].version \in rows \cup {NoVersion}
      /\ Distinct(d)
  BY DEF IInv, PassedApplied, Consistent, Distinct
<1>3. /\ schema' = Append(schema, f)
      /\ DOMAIN schema = 1..Len(schema) /\ Len(schema) \in Nat
      /\ DOMAIN schema' = 1..last
      /\ \A m \in DOMAIN schema : schema'[m] = schema[m]
      /\ schema'[last] = f
  BY DEF Committed, IInv, TypeOK
<1>4. /\ \A m \in DOMAIN schema : schema[m].version \in rows /\ schema[m].version # NoVersion
      /\ \A v \in rows : \E m \in DOMAIN schema : schema[m].version = v
  <2>1. rows = Versions /\ NoVersion \notin rows
    BY DEF IInv, Recorded, TypeOK, NoVersion
  <2> QED
    BY <2>1 DEF Versions
<1> HIDE DEF f, d, p, last
<1>5. \A m \in DOMAIN schema : schema[m] # f
  BY <1>1, <1>4
<1>6. IsStartOf(schema, d)
  <2>1. ~IsStartOf(d, schema)
    BY <1>1, <1>5 DEF IsStartOf
  <2> QED
    BY <2>1 DEF Stage, d
<1>7. \A n \in DOMAIN schema : Before(schema', n) = Before(schema, n)
  <2> SUFFICES ASSUME NEW n \in DOMAIN schema
               PROVE  Before(schema', n) = Before(schema, n)
    OBVIOUS
  <2>1. \A k : k \in DOMAIN schema' /\ k < n <=> k \in DOMAIN schema /\ k < n
    BY <1>3 DEF last
  <2> QED
    BY <1>3, <2>1 DEF Before
<1>8. Before(d, p) = {schema[n] : n \in DOMAIN schema}
  <2>1. ASSUME NEW n \in DOMAIN schema PROVE schema[n] \in Before(d, p)
    <3>1. PICK m \in DOMAIN d : d[m] = schema[n] /\ Before(d, m) = Before(schema, n)
      BY <1>4, <1>6 DEF IsStartOf
    <3>2. ~(p < m)
      <4> SUFFICES ASSUME p < m PROVE FALSE
        OBVIOUS
      <4>1. d[p] \in Before(d, m)
        BY <1>1 DEF Before
      <4> QED
        BY <1>1, <1>5, <3>1, <4>1 DEF Before
    <3>3. m # p
      BY <1>1, <1>5, <3>1
    <3>4. m < p
      BY <1>1, <3>2, <3>3
    <3> QED
      BY <1>4, <3>1, <3>4 DEF Before
  <2>2. ASSUME NEW k \in DOMAIN d, k < p, d[k].version # NoVersion
        PROVE  \E n \in DOMAIN schema : schema[n] = d[k]
    <3>1. PICK n \in DOMAIN schema : schema[n].version = d[k].version
      BY <1>2, <1>4, <2>2
    <3>2. PICK m \in DOMAIN d : d[m] = schema[n]
      BY <1>4, <1>6 DEF IsStartOf
    <3>3. m = k
      BY <1>2, <2>2, <3>1, <3>2 DEF Distinct
    <3> QED
      BY <3>2, <3>3
  <2> QED
    BY <2>1, <2>2 DEF Before
<1>9. Before(schema', last) = {schema[n] : n \in DOMAIN schema}
  <2>1. \A k : k \in DOMAIN schema' /\ k < last <=> k \in DOMAIN schema
    BY <1>3 DEF last
  <2> QED
    BY <1>3, <1>4, <2>1 DEF Before
<1>10. IsStartOf(schema', d)
  <2> SUFFICES ASSUME NEW n \in DOMAIN schema', schema'[n].version # NoVersion
               PROVE  \E m \in DOMAIN d : d[m] = schema'[n] /\ Before(d, m) = Before(schema', n)
    BY DEF IsStartOf
  <2>1. CASE n \in DOMAIN schema
    BY <2>1, <1>3, <1>4, <1>6, <1>7 DEF IsStartOf
  <2>2. CASE n = last
    BY <2>2, <1>1, <1>3, <1>8, <1>9
  <2> QED
    BY <2>1, <2>2, <1>3 DEF last
<1> SUFFICES ASSUME NEW j \in Instances
             PROVE  IsStartOf(schema', dir[j]) \/ IsStartOf(dir[j], schema')
  BY DEF Stage
<1>11. CASE IsStartOf(d, dir[j])
  BY <1>10, <1>11, StartTransitive
<1>12. CASE IsStartOf(dir[j], d)
  BY <1>1, <1>2, <1>10, <1>12, StartsCompare
<1> QED
  BY <1>11, <1>12 DEF Consistent, d

LEMMA StageStep ==
  ASSUME IInv, SchemaIsStage, [Next]_vars PROVE SchemaIsStage'
<1>1. UNCHANGED dir
  BY DEF Next, Step, Start, ReadApplied, Skip, RunSql, Insert, Conflict, SqlFails, Commit, Serve,
         Fail, vars
<1>2. Consistent' = Consistent
  BY <1>1 DEF Consistent
<1> SUFFICES ASSUME Consistent PROVE Stage'
  BY <1>2 DEF SchemaIsStage, Stage
<1>3. Stage
  BY DEF SchemaIsStage, Stage
<1>4. CASE UNCHANGED schema
  BY <1>1, <1>3, <1>4 DEF Stage
<1>5. ASSUME NEW i \in Instances, at[i] = "committing", Committed(i) PROVE Stage'
  BY <1>1, <1>3, <1>5, CommitKeepsStage
<1>6. UNCHANGED schema \/ \E i \in Instances : at[i] = "committing" /\ Committed(i)
  BY DEF Next, Step, Start, ReadApplied, Skip, RunSql, Insert, Conflict, SqlFails, Commit, Serve,
         Fail, database, vars
<1> QED
  BY <1>4, <1>5, <1>6

(* Where the directories are stages of one project the database is one at   *)
(* any moment: an instance commits a file only when the database has all    *)
(* that come before it, whoever has put them there.                         *)
THEOREM DatabaseIsStage == Spec => []SchemaIsStage
<1>1. Init => SchemaIsStage
  BY DEF Init, SchemaIsStage, IsStartOf
<1>2. IInv /\ SchemaIsStage /\ [Next]_vars => SchemaIsStage'
  BY StageStep
<1> QED
  BY Invariance, <1>1, <1>2, PTL DEF Spec
------------------------------------------------------------------------------
(* The history of the schema *)

(* A commit applies the file at hand: what precedes it has been passed, and *)
(* its row is nobody's yet.                                                 *)
LEMMA CommitIsApply ==
  ASSUME IInv, NEW i \in Instances, at[i] = "committing", Committed(i), dir' = dir,
         at' = [at EXCEPT ![i] = "scanning"] \/ at' = [at EXCEPT ![i] = "down"]
  PROVE  History!Apply(i)
<1>1. at \in [Instances -> Places] /\ next[i] \in DOMAIN dir[i] /\ ~Skipped(i)
  BY DEF IInv, TypeOK, Places
<1>2. {j \in Instances : at'[j] = "up"} = {j \in Instances : at[j] = "up"}
  BY <1>1
<1>3. rows = History!Versions
  BY DEF IInv, Recorded, Versions, History!Versions
<1>4. History!Reached(i, next[i])
  BY <1>3 DEF IInv, PassedApplied, History!Reached
<1>5. File(i).version \notin rows \cup {NoVersion}
  BY <1>1 DEF IInv, RowsApart, Skipped
<1>6. schema' = Append(schema, dir[i][next[i]]) /\ dir[i][next[i]] = File(i)
  BY DEF Committed, File
<1> QED
  BY <1>1, <1>2, <1>3, <1>4, <1>5, <1>6 DEF History!Apply

(* An instance serves when it has passed all of its directory. *)
LEMMA ServeIsServe ==
  ASSUME IInv, NEW i \in Instances, Serve(i)
  PROVE  History!Serve(i)
<1>1. at \in [Instances -> Places] /\ at' = [at EXCEPT ![i] = "up"]
  BY DEF IInv, TypeOK, Places, Serve, Become
<1>2. {j \in Instances : at'[j] = "up"} = {j \in Instances : at[j] = "up"} \cup {i}
  BY <1>1
<1>3. \A n \in DOMAIN dir[i] : n < next[i]
  BY DirectoryType DEF IInv, Serve
<1>4. \A n \in DOMAIN dir[i] : dir[i][n].version \in rows \cup {NoVersion}
  BY <1>3 DEF IInv, PassedApplied, Serve
<1>5. rows = History!Versions
  BY DEF IInv, Recorded, Versions, History!Versions
<1> QED
  BY <1>2, <1>4, <1>5 DEF History!Serve, Serve, database

LEMMA HistoryStep ==
  ASSUME IInv, [Next]_vars
  PROVE  [History!Next]_(History!vars)
<1>1. CASE UNCHANGED vars
  BY <1>1 DEF vars, database, History!vars
<1>2. ASSUME NEW i \in Instances, Step(i) \/ Fail(i)
      PROVE  [History!Next]_(History!vars)
  <2>1. at \in [Instances -> Places]
    BY DEF IInv, TypeOK, Places
  <2>2. ASSUME NEW p \in Places \ {"up"}, at[i] # "up", at' = [at EXCEPT ![i] = p] \/ at' = at,
               UNCHANGED <<dir, database>>
        PROVE  UNCHANGED History!vars
    <3>1. \A j \in Instances : (at'[j] = "up") <=> (at[j] = "up")
      BY <2>1, <2>2
    <3> QED
      BY <2>2, <3>1 DEF database, History!vars
  <2>3. CASE Start(i) \/ ReadApplied(i) \/ Skip(i) \/ RunSql(i) \/ Insert(i) \/ Conflict(i) \/ SqlFails(i)
    <3>1. at[i] # "up" /\ UNCHANGED <<dir, database>>
      BY <2>3 DEF Start, ReadApplied, Skip, RunSql, Insert, Conflict, SqlFails, Scanning
    <3>2. \E p \in Places \ {"up"} : at' = [at EXCEPT ![i] = p] \/ at' = at
      BY <2>3 DEF Start, ReadApplied, Skip, RunSql, Insert, Conflict, SqlFails, Become, Places
    <3> QED
      BY <2>2, <3>1, <3>2
  <2>4. CASE Commit(i)
    BY <2>4, CommitIsApply DEF Commit, Become, History!Next
  <2>5. CASE Serve(i)
    BY <2>5, ServeIsServe DEF History!Next
  <2>6. CASE Fail(i)
    <3>1. CASE at[i] = "committing" /\ Committed(i)
      BY <2>6, <3>1, CommitIsApply DEF Fail, Become, History!Next
    <3>2. CASE UNCHANGED database
      <4>1. {j \in Instances : at'[j] = "up"} = {j \in Instances : at[j] = "up"} \ {i}
        BY <2>1, <2>6 DEF Fail, Become
      <4> QED
        BY <2>6, <3>2, <4>1 DEF Fail, database, History!Leave, History!Next
    <3> QED
      BY <2>6, <3>1, <3>2 DEF Fail
  <2> QED
    BY <1>2, <2>3, <2>4, <2>5, <2>6 DEF Step
<1> QED
  BY <1>1, <1>2 DEF Next

(* However many instances start together, and wherever they end, what the   *)
(* database goes through is one history of whole files (run_migrations).    *)
THEOREM StartsMakeHistory == Spec => HistorySpec
<1>1. Init => History!Init
  BY DEF Init, History!Init
<1> QED
  BY <1>1, HistoryStep, Invariance, PTL DEF Spec, HistorySpec, History!Spec
=============================================================================
