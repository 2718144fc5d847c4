--------------------------- MODULE Delivery_proofs ---------------------------
(***************************************************************************)
(* Theorems about Delivery for any updates, numbers of workers and attempts,*)
(* threshold and number of recoveries.                                      *)
(***************************************************************************)
EXTENDS Delivery, TLAPS

(* The breaker's lock is held by the thread that posts, and by no other. *)
LockHeld ==
  /\ \A u \in Updates : u \in holder <=> call[u] = "posting"
  /\ \A u, v \in holder : u = v

(* Where a call's requests fall: before its first, between two, after all. *)
TriesInPlace ==
  \A u \in Updates :
    /\ call[u] \in {"none", "queued"} => tries[u] = 0
    /\ call[u] = "posting" => tries[u] < Attempts
    /\ answered[u] <= tries[u]
    /\ notified[u] <= tries[u]

(* The requests of calls that have ended, as the breaker has counted them.  *)
Paid ==
  Attempts * (CASE breaker = "closed" -> failures
                [] breaker = "open"   -> Threshold + elapses
                [] OTHER              -> Threshold + elapses - 1)

(* All requests are either paid for or belong to the thread at work. *)
LoadPaid ==
  /\ breaker = "closed" => failures < Threshold
  /\ breaker \in {"elapsed", "trial"} => elapses >= 1
  /\ breaker \in {"open", "elapsed"} => holder = {}
  /\ holder = {} => posts <= Paid
  /\ \A u \in holder : posts <= Paid + tries[u]

(* A call with subscribers has begun, and none is abandoned before shutdown. *)
Begun ==
  /\ \A u \in addressed : call[u] # "none"
  /\ ~closing => abandoned = {}

IInv ==
  /\ TypeOK
  /\ LockHeld
  /\ TriesInPlace
  /\ LoadPaid
  /\ Begun
  /\ NothingDropped

------------------------------------------------------------------------------

LEMMA Bounds == {Workers, Attempts, Threshold} \subseteq Nat \ {0} /\ MaxElapses \in Nat
BY DeliveryAssumption

LEMMA Product ==
  ASSUME NEW a \in Nat, NEW x \in Nat, NEW y \in Nat, x <= y
  PROVE  /\ a * x \in Nat
         /\ a * (x + 1) = a * x + a
         /\ a * x <= a * y
<1>1. PICK d \in Nat : y = x + d
  <2>1. y - x \in Nat /\ y = x + (y - x)
    OBVIOUS
  <2> QED
    BY <2>1
<1>2. a * (x + d) = a * x + a * d /\ a * d >= 0
  OBVIOUS
<1>3. a * x \in Nat /\ a * y \in Nat /\ a * d \in Nat
  OBVIOUS
<1>4. a * x <= a * y
  BY <1>1, <1>2, <1>3
<1> QED
  BY <1>3, <1>4

LEMMA InitInvariant == Init => IInv
<1> SUFFICES ASSUME Init PROVE IInv
  OBVIOUS
<1> USE Bounds
<1>1. TypeOK
  <2>1. 0 \in 0..Attempts /\ 0 \in 0..MaxElapses
    OBVIOUS
  <2>2. /\ tries \in [Updates -> 0..Attempts] /\ answered \in [Updates -> 0..Attempts]
        /\ notified \in [Updates -> 0..Attempts]
    BY <2>1 DEF Init
  <2>3. /\ call \in [Updates -> Labels]
        /\ record \in [Updates -> {"none", "buffered", "stored", "failed", "lost"}]
    BY DEF Init, Labels
  <2> QED
    BY <2>1, <2>2, <2>3 DEF Init, TypeOK
<1>2. LockHeld /\ TriesInPlace /\ Begun /\ NothingDropped
  BY DEF Init, LockHeld, TriesInPlace, Begun, NothingDropped
<1>3. LoadPaid
  <2>1. /\ breaker = "closed" /\ failures = 0 /\ posts = 0 /\ holder = {}
        /\ Attempts \in Nat /\ 0 < Threshold
    BY DEF Init
  <2>2. Paid = Attempts * 0 /\ Attempts * 0 = 0
    BY <2>1 DEF Paid
  <2> QED
    BY <2>1, <2>2 DEF LoadPaid
<1> QED
  BY <1>1, <1>2, <1>3 DEF IInv

(* The invariant bounds the requests. *)
LEMMA PaidBounded == IInv => LoadBounded
<1> SUFFICES ASSUME IInv PROVE LoadBounded
  OBVIOUS
<1> USE Bounds
<1> DEFINE total == Attempts * (Threshold + elapses)
<1>0. /\ posts \in Nat /\ elapses \in Nat /\ failures \in Nat
      /\ \A u \in holder : tries[u] \in Nat /\ tries[u] < Attempts
  BY DEF IInv, TypeOK, LockHeld, TriesInPlace
<1>1. CASE breaker = "open"
  BY <1>1, <1>0 DEF IInv, LoadPaid, Paid, LoadBounded
<1>2. CASE breaker = "closed"
  <2>1. Attempts * failures + Attempts <= total
    <3>1. failures + 1 <= Threshold + elapses
      BY <1>2, <1>0 DEF IInv, LoadPaid
    <3> QED
      BY <3>1, <1>0, Product
  <2>5. Paid = Attempts * failures /\ Attempts * failures \in Nat
    BY <1>2, <1>0, Product DEF Paid
  <2>6. posts <= Paid \/ \E u \in holder : posts <= Paid + tries[u]
    BY DEF IInv, LoadPaid
  <2>2. posts <= Attempts * failures + Attempts
    BY <2>5, <2>6, <1>0
  <2>3. Attempts * failures \in Nat /\ total \in Nat /\ Attempts \in Nat
    BY <1>0, Product
  <2> QED
    BY <2>1, <2>2, <2>3, <1>0 DEF LoadBounded
<1>3. CASE breaker \in {"elapsed", "trial"}
  <2>1. elapses >= 1 /\ Threshold + elapses - 1 \in Nat
    BY <1>3, <1>0 DEF IInv, LoadPaid
  <2>2. Attempts * (Threshold + elapses - 1) + Attempts = total
    <3>1. Threshold + elapses - 1 + 1 = Threshold + elapses
      BY <1>0
    <3> QED
      BY <2>1, <3>1, Product
  <2>3. posts <= Attempts * (Threshold + elapses - 1) + Attempts
    BY <1>3, <1>0, <2>1, Product DEF IInv, LoadPaid, Paid
  <2> QED
    BY <2>2, <2>3 DEF LoadBounded
<1> QED
  BY <1>1, <1>2, <1>3 DEF IInv, TypeOK

------------------------------------------------------------------------------

(* A call that has failed: its requests are paid for, and the lock is free. *)
LEMMA FailPaid ==
  ASSUME IInv, NEW u \in Updates, u \in holder, Fail(u), posts' \in Nat,
         posts' <= Paid + Attempts, UNCHANGED elapses
  PROVE  LoadPaid' /\ holder' = {}
<1> USE Bounds
<1>0. /\ failures \in Nat /\ elapses \in Nat /\ breaker \in {"closed", "trial"}
      /\ breaker = "trial" => elapses >= 1
      /\ breaker = "closed" => failures < Threshold
  BY DEF IInv, TypeOK, LoadPaid
<1>1. holder' = {} /\ failures' = failures + 1 /\ elapses' = elapses
  BY DEF Fail
<1>2. CASE breaker = "closed"
  <2>1. posts' <= Attempts * (failures + 1)
    BY <1>0, <1>2, Product DEF Paid
  <2>2. CASE failures + 1 >= Threshold
    <3>1. breaker' = "open"
      BY <2>2 DEF Fail
    <3>2. Attempts * (failures + 1) <= Attempts * (Threshold + elapses)
      BY <1>0, <1>2, Product
    <3>3. Attempts * (failures + 1) \in Nat /\ Attempts * (Threshold + elapses) \in Nat
      BY <1>0, Product
    <3> QED
      BY <1>1, <2>1, <3>1, <3>2, <3>3 DEF LoadPaid, Paid
  <2>3. CASE ~(failures + 1 >= Threshold)
    <3>1. breaker' = "closed"
      BY <1>2, <2>3 DEF Fail
    <3> QED
      BY <1>0, <1>1, <2>1, <2>3, <3>1 DEF LoadPaid, Paid
  <2> QED
    BY <2>2, <2>3
<1>3. CASE breaker = "trial"
  <2>1. breaker' = "open"
    BY <1>3 DEF Fail
  <2>2. Threshold + elapses - 1 \in Nat /\ Threshold + elapses - 1 + 1 = Threshold + elapses
    BY <1>0, <1>3
  <2>3. posts' <= Attempts * (Threshold + elapses)
    BY <1>3, <2>2, Product DEF Paid
  <2> QED
    BY <1>1, <2>1, <2>3 DEF LoadPaid, Paid
<1> QED
  BY <1>0, <1>2, <1>3

------------------------------------------------------------------------------

(* Nothing LoadPaid speaks of has changed. *)
LEMMA LoadUntouched ==
  ASSUME LoadPaid, UNCHANGED <<breaker, failures, holder, elapses, posts>>,
         \A u \in holder : tries'[u] = tries[u]
  PROVE  LoadPaid'
BY DEF LoadPaid, Paid

LEMMA PostInvariant == ASSUME IInv, NEW u \in Updates, Post(u) PROVE IInv'
<1> USE Bounds
<1>1. /\ call[u] = "posting" /\ u \in holder /\ tries[u] < Attempts
      /\ tries[u] \in Nat /\ answered[u] \in Nat /\ notified[u] \in Nat
      /\ answered[u] <= tries[u] /\ notified[u] <= tries[u] /\ posts \in Nat
      /\ holder \subseteq Updates
      /\ \A v \in holder : v = u
  BY DEF IInv, TypeOK, LockHeld, TriesInPlace, Post
<1>2. /\ tries' = [tries EXCEPT ![u] = tries[u] + 1] /\ posts' = posts + 1
      /\ answered' = answered \/ answered' = [answered EXCEPT ![u] = answered[u] + 1]
      /\ notified' = notified \/ notified' = [notified EXCEPT ![u] = notified[u] + 1]
      /\ UNCHANGED <<backend, accepts, addressed, elapses, record, closing, abandoned>>
      /\ Fail(u) \/ (~Exhausted(u) /\ UNCHANGED <<call, breaker, failures, holder>>)
  BY DEF Post, RetryOrFail, circuit, settings, shutdown
<1>3. /\ DOMAIN tries = Updates /\ DOMAIN answered = Updates /\ DOMAIN notified = Updates
      /\ DOMAIN call = Updates
  BY DEF IInv, TypeOK
<1>4. /\ tries'[u] = tries[u] + 1
      /\ answered'[u] \in {answered[u], answered[u] + 1}
      /\ notified'[u] \in {notified[u], notified[u] + 1}
      /\ \A v \in Updates \ {u} : /\ tries'[v] = tries[v] /\ answered'[v] = answered[v]
                                  /\ notified'[v] = notified[v]
  BY <1>2, <1>3
<1>5. call' = call \/ \E l \in {"done", "refused", "raised"} : call' = [call EXCEPT ![u] = l]
  BY <1>2 DEF Fail, Outcome, Goto
<1>6. TypeOK'
  <2>1. /\ tries' \in [Updates -> 0..Attempts] /\ answered' \in [Updates -> 0..Attempts]
        /\ notified' \in [Updates -> 0..Attempts]
    <3>1. /\ tries[u] + 1 \in 0..Attempts /\ answered[u] + 1 \in 0..Attempts
          /\ notified[u] + 1 \in 0..Attempts
      BY <1>1
    <3> QED
      BY <3>1, <1>2 DEF IInv, TypeOK
  <2>2. call' \in [Updates -> Labels]
    BY <1>5 DEF IInv, TypeOK, Labels
  <2>3. breaker' \in {"closed", "open", "elapsed", "trial"} /\ failures' \in Nat
        /\ holder' \subseteq Updates
    BY <1>2 DEF Fail, IInv, TypeOK
  <2> QED
    BY <2>1, <2>2, <2>3, <1>1, <1>2 DEF IInv, TypeOK
<1>7. LockHeld'
  <2>1. CASE Fail(u)
    <3>1. holder' = {} /\ call'[u] # "posting"
      BY <2>1, <1>3 DEF Fail, Outcome, Goto
    <3>2. \A v \in Updates \ {u} : call'[v] = call[v]
      BY <1>5, <1>3
    <3> QED
      BY <3>1, <3>2, <1>1 DEF IInv, LockHeld
  <2> QED
    BY <2>1, <1>2 DEF IInv, LockHeld
<1>8. TriesInPlace'
  <2> SUFFICES ASSUME NEW v \in Updates
               PROVE  /\ call'[v] \in {"none", "queued"} => tries'[v] = 0
                      /\ call'[v] = "posting" => tries'[v] < Attempts
                      /\ answered'[v] <= tries'[v]
                      /\ notified'[v] <= tries'[v]
    BY DEF TriesInPlace
  <2>1. CASE v # u
    BY <2>1, <1>3, <1>4, <1>5 DEF IInv, TriesInPlace
  <2>2. CASE v = u
    <3>1. answered'[u] <= tries'[u] /\ notified'[u] <= tries'[u]
      BY <1>1, <1>4
    <3>2. call'[u] \notin {"none", "queued"}
      BY <1>1, <1>3, <1>5
    <3>3. call'[u] = "posting" => ~Exhausted(u)
      BY <1>2, <1>3 DEF Fail, Outcome, Goto
    <3> QED
      BY <2>2, <3>1, <3>2, <3>3, <1>1, <1>4 DEF Exhausted
  <2> QED
    BY <2>1, <2>2
<1>9. LoadPaid'
  <2>0. Paid \in Nat
    <3>1. /\ failures \in Nat /\ elapses \in Nat
          /\ breaker \in {"closed", "open", "elapsed", "trial"}
          /\ breaker \in {"elapsed", "trial"} => Threshold + elapses - 1 \in Nat
      BY DEF IInv, TypeOK, LoadPaid
    <3> QED
      BY <3>1, Product DEF Paid
  <2>1. posts <= Paid + tries[u]
    BY <1>1 DEF IInv, LoadPaid
  <2>2. CASE Fail(u)
    <3>1. posts' \in Nat /\ posts' <= Paid + Attempts
      BY <2>0, <2>1, <1>1, <1>2
    <3> QED
      BY <2>2, <3>1, <1>1, <1>2, FailPaid
  <2>3. CASE ~Exhausted(u) /\ UNCHANGED <<call, breaker, failures, holder>>
    <3>1. Paid' = Paid /\ holder' = {u}
      BY <2>3, <1>1, <1>2 DEF Paid
    <3>2. posts' <= Paid' + tries'[u]
      BY <3>1, <2>0, <2>1, <1>1, <1>2, <1>4
    <3> QED
      BY <3>1, <3>2, <2>3, <1>1, <1>2 DEF IInv, LoadPaid
  <2> QED
    BY <2>2, <2>3, <1>2
<1>10. Begun'
  BY <1>2, <1>3, <1>5 DEF IInv, Begun, TypeOK
<1>11. NothingDropped'
  <2>1. CASE Fail(u)
    <3>1. u \notin abandoned => call'[u] # "done"
      BY <2>1, <1>3 DEF Fail, Outcome, Goto
    <3>2. \A v \in Updates \ {u} : call'[v] = call[v]
      BY <1>5, <1>3
    <3>3. addressed \subseteq Updates
      BY DEF IInv, TypeOK
    <3> QED
      BY <3>1, <3>2, <3>3, <1>2 DEF IInv, NothingDropped
  <2> QED
    BY <2>1, <1>2 DEF IInv, NothingDropped
<1> QED
  BY <1>6, <1>7, <1>8, <1>9, <1>10, <1>11 DEF IInv

LEMMA NextInvariant == IInv /\ [Next]_vars => IInv'
<1> SUFFICES ASSUME IInv, [Next]_vars PROVE IInv'
  OBVIOUS
<1> USE Bounds DEF IInv
<1>0. /\ DOMAIN call = Updates /\ DOMAIN record = Updates /\ holder \subseteq Updates
      /\ addressed \subseteq Updates
  BY DEF TypeOK
<1>1. ASSUME NEW u \in Updates, Begin(u) PROVE IInv'
  <2>1. /\ call[u] = "none" /\ u \notin addressed
        /\ \E l \in {"done", "publishing", "queued"} :
             /\ call' = [call EXCEPT ![u] = l]
             /\ addressed' = IF l = "done" THEN addressed ELSE addressed \cup {u}
    BY <1>1 DEF Begin, Goto, Begun
  <2>2. UNCHANGED <<settings, http, circuit, elapses, record, shutdown>>
    BY <1>1 DEF Begin
  <2> USE <2>1, <2>2, <1>0 DEF settings, http, circuit, shutdown
  <2>3. TypeOK'
    <3>1. call' \in [Updates -> Labels] /\ addressed' \subseteq Updates
      BY DEF TypeOK, Labels
    <3> QED
      BY <3>1 DEF TypeOK
  <2>4. LockHeld'
    BY DEF LockHeld
  <2>5. TriesInPlace'
    BY DEF TriesInPlace
  <2>6. LoadPaid'
    BY LoadUntouched
  <2>7. Begun'
    BY DEF Begun
  <2>8. NothingDropped'
    BY DEF NothingDropped
  <2> QED
    BY <2>3, <2>4, <2>5, <2>6, <2>7, <2>8
<1>2. ASSUME NEW u \in Updates, Enter(u) PROVE IInv'
  <2>1. /\ call[u] = "queued" /\ holder = {} /\ tries[u] = 0
        /\ UNCHANGED <<settings, addressed, http, failures, elapses, record, shutdown>>
    BY <1>2 DEF Enter, TriesInPlace
  <2> USE <2>1, <1>0 DEF settings, http, shutdown
  <2>2. CASE breaker = "open"
    <3>1. /\ \E l \in {"done", "refused"} :
               call' = [call EXCEPT ![u] = l] /\ (l = "done" => u \in abandoned)
          /\ UNCHANGED <<breaker, holder>>
      BY <1>2, <2>2 DEF Enter, Outcome, Goto
    <3>2. TypeOK'
      <4>1. call' \in [Updates -> Labels]
        BY <3>1 DEF TypeOK, Labels
      <4> QED
        BY <4>1, <3>1 DEF TypeOK
    <3>3. LockHeld' /\ TriesInPlace' /\ Begun' /\ NothingDropped'
      BY <3>1 DEF LockHeld, TriesInPlace, Begun, NothingDropped
    <3>4. LoadPaid'
      BY <3>1, LoadUntouched
    <3> QED
      BY <3>2, <3>3, <3>4
  <2>3. CASE breaker # "open"
    <3>1. /\ call' = [call EXCEPT ![u] = "posting"] /\ holder' = {u}
          /\ breaker' = IF breaker = "elapsed" THEN "trial" ELSE breaker
      BY <1>2, <2>3 DEF Enter, Goto
    <3>2. TypeOK'
      <4>1. call' \in [Updates -> Labels]
        BY <3>1 DEF TypeOK, Labels
      <4>2. breaker' \in {"closed", "open", "elapsed", "trial"}
        BY <3>1 DEF TypeOK
      <4> QED
        BY <4>1, <4>2, <3>1 DEF TypeOK
    <3>3. LockHeld' /\ TriesInPlace' /\ Begun' /\ NothingDropped'
      BY <3>1 DEF LockHeld, TriesInPlace, Begun, NothingDropped
    <3>4. LoadPaid'
      <4>1. breaker \in {"closed", "elapsed", "trial"} /\ posts \in Nat /\ posts <= Paid
        BY <2>3 DEF TypeOK, LoadPaid
      <4>2. Paid' = Paid
        BY <4>1, <3>1 DEF Paid
      <4>3. posts' <= Paid' + tries'[u]
        <5>1. Paid \in Int
          BY <4>1 DEF Paid, TypeOK
        <5> QED
          BY <4>1, <4>2, <5>1
      <4> QED
        BY <4>1, <4>3, <3>1 DEF LoadPaid
    <3> QED
      BY <3>2, <3>3, <3>4
  <2> QED
    BY <2>2, <2>3
<1>3. ASSUME NEW u \in Updates, Fallback(u) PROVE IInv'
  <2>1. /\ call[u] \in {"refused", "raised", "publishing"}
        /\ call' = [call EXCEPT ![u] = "done"]
        /\ \E r \in {"buffered", "failed"} : record' = [record EXCEPT ![u] = r]
        /\ UNCHANGED <<settings, addressed, http, circuit, elapses, shutdown>>
    BY <1>3 DEF Fallback, Produce, Goto
  <2> USE <2>1, <1>0 DEF settings, http, circuit, shutdown
  <2>2. TypeOK'
    <3>1. /\ call' \in [Updates -> Labels]
          /\ record' \in [Updates -> {"none", "buffered", "stored", "failed", "lost"}]
      BY DEF TypeOK, Labels
    <3> QED
      BY <3>1 DEF TypeOK
  <2>3. LockHeld' /\ TriesInPlace' /\ Begun' /\ NothingDropped'
    BY DEF LockHeld, TriesInPlace, Begun, NothingDropped
  <2> QED
    BY <2>2, <2>3, LoadUntouched
<1>4. ASSUME NEW u \in Updates, Settle(u) PROVE IInv'
  <2>1. /\ record[u] = "buffered"
        /\ \E r \in {"stored", "lost"} : record' = [record EXCEPT ![u] = r]
        /\ UNCHANGED <<settings, call, addressed, http, circuit, elapses, shutdown>>
    BY <1>4 DEF Settle
  <2> USE <2>1, <1>0 DEF settings, http, circuit, shutdown
  <2>2. TypeOK'
    <3>1. record' \in [Updates -> {"none", "buffered", "stored", "failed", "lost"}]
      BY DEF TypeOK
    <3> QED
      BY <3>1 DEF TypeOK
  <2>3. LockHeld' /\ TriesInPlace' /\ Begun' /\ NothingDropped'
    BY DEF LockHeld, TriesInPlace, Begun, NothingDropped
  <2> QED
    BY <2>2, <2>3, LoadUntouched
<1>5. CASE Elapse
  <2>1. /\ breaker = "open" /\ breaker' = "elapsed" /\ elapses < MaxElapses
        /\ elapses' = elapses + 1 /\ holder = {}
        /\ UNCHANGED <<settings, call, addressed, http, failures, holder, record, shutdown>>
    BY <1>5 DEF Elapse, LoadPaid
  <2> USE <2>1 DEF settings, http, shutdown
  <2>2. TypeOK'
    BY DEF TypeOK
  <2>3. LockHeld' /\ TriesInPlace' /\ Begun' /\ NothingDropped'
    BY DEF LockHeld, TriesInPlace, Begun, NothingDropped
  <2>4. LoadPaid'
    <3>1. elapses \in Nat /\ posts <= Attempts * (Threshold + elapses)
      BY DEF TypeOK, LoadPaid, Paid
    <3>2. Threshold + elapses' - 1 = Threshold + elapses
      BY <3>1
    <3> QED
      BY <3>1, <3>2 DEF LoadPaid, Paid
  <2> QED
    BY <2>2, <2>3, <2>4
<1>6. CASE Shutdown
  <2>1. /\ closing' = TRUE /\ abandoned' = InProgress
        /\ call' = [u \in Updates |->
                      IF call[u] \in {"refused", "raised", "publishing"} THEN "done"
                      ELSE call[u]]
        /\ UNCHANGED <<settings, addressed, http, circuit, elapses, record>>
    BY <1>6 DEF Shutdown
  <2> USE <2>1 DEF settings, http, circuit
  <2>2. TypeOK'
    <3>1. call' \in [Updates -> Labels] /\ abandoned' \subseteq Updates
      BY DEF TypeOK, Labels, InProgress
    <3> QED
      BY <3>1 DEF TypeOK
  <2>3. LockHeld' /\ TriesInPlace' /\ Begun'
    BY <1>0 DEF LockHeld, TriesInPlace, Begun
  <2>4. NothingDropped'
    <3> SUFFICES ASSUME NEW u \in addressed, u \notin InProgress, call'[u] = "done"
                 PROVE  record[u] # "none"
      BY DEF NothingDropped
    <3>1. call[u] = "done" /\ abandoned = {}
      BY <1>0, <1>6 DEF InProgress, Begun, Shutdown
    <3> QED
      BY <3>1, <1>0 DEF NothingDropped
  <2> QED
    BY <2>2, <2>3, <2>4, LoadUntouched
<1>7. CASE UNCHANGED vars
  BY <1>7, LoadUntouched DEF vars, settings, http, circuit, shutdown, TypeOK, LockHeld,
     TriesInPlace, Begun, NothingDropped
<1> QED
  BY <1>1, <1>2, <1>3, <1>4, <1>5, <1>6, <1>7, PostInvariant DEF Next, Threads

LEMMA Invariance == Spec => []IInv
BY InitInvariant, NextInvariant, PTL DEF Spec

------------------------------------------------------------------------------

(* However many calls run, and whatever the breaker makes of their failures, *)
(* no call of send_update makes more than RETRY_MAX_ATTEMPTS requests.       *)
THEOREM TypeCorrect == Spec => []TypeOK
<1>1. IInv => TypeOK
  BY DEF IInv
<1> QED
  BY <1>1, Invariance, PTL

(* send_update leaves no update behind: when it returns to a task that is   *)
(* still there, the update has been offered to Kafka.                       *)
THEOREM NoneDropped == Spec => []NothingDropped
<1>1. IInv => NothingDropped
  BY DEF IInv
<1> QED
  BY <1>1, Invariance, PTL

(* The breaker protects the bot: the requests are bounded by the threshold  *)
(* and the number of recoveries, whatever the number of updates.            *)
THEOREM LoadStaysBounded == Spec => []LoadBounded
BY PaidBounded, Invariance, PTL

------------------------------------------------------------------------------
(* Delivery as deployed *)

(* The bot rejects every post, and no call posts again after that. *)
Rejected ==
  /\ ~accepts
  /\ \A u \in Updates :
       /\ notified[u] = 0
       /\ answered[u] \in {0, 1}
       /\ answered[u] = 1 => call[u] \notin {"none", "queued", "posting"}

LEMMA StepRejected == ASSUME TypeOK, Rejected, [Next]_vars PROVE Rejected'
<1>1. /\ call \in [Updates -> Labels] /\ answered \in [Updates -> 0..Attempts]
      /\ accepts' = accepts /\ ~accepts
  BY DEF TypeOK, Rejected, Next, Begin, Threads, Enter, Post, Fallback, Produce, Settle, Elapse,
         Shutdown, settings, vars
<1>2. CASE UNCHANGED <<answered, notified, call>>
  BY <1>1, <1>2 DEF Rejected
<1>3. ASSUME NEW u \in Updates, Begin(u) \/ Enter(u) \/ Fallback(u) PROVE Rejected'
  <2>1. /\ UNCHANGED <<answered, notified>>
        /\ \A v \in Updates \ {u} : call'[v] = call[v]
        /\ call'[u] \in {"none", "queued", "posting"} =>
             call[u] \in {"none", "queued", "posting"}
    BY <1>1, <1>3 DEF Begin, Enter, Outcome, Fallback, Produce, Goto, http
  <2> QED
    BY <1>1, <2>1 DEF Rejected
<1>4. ASSUME NEW u \in Updates, Post(u) PROVE Rejected'
  <2>1. call[u] = "posting" /\ answered[u] = 0
    BY <1>4 DEF Post, Rejected
  <2>2. /\ notified' = notified
        /\ \A v \in Updates \ {u} : call'[v] = call[v] /\ answered'[v] = answered[v]
    BY <1>1, <1>4 DEF Post, RetryOrFail, Fail, Outcome, Goto
  <2>3. CASE answered' = [answered EXCEPT ![u] = @ + 1] /\ Fail(u)
    <3>1. answered'[u] = 1
      BY <1>1, <2>1, <2>3
    <3>2. call'[u] \in {"done", "refused", "raised"}
      BY <1>1, <2>3 DEF Fail, Outcome, Goto
    <3> QED
      BY <1>1, <2>2, <3>1, <3>2 DEF Rejected
  <2>4. CASE answered' = answered
    BY <1>1, <2>1, <2>2, <2>4 DEF Rejected
  <2> QED
    BY <1>1, <1>4, <2>3, <2>4 DEF Post
<1>5. CASE Shutdown
  BY <1>1, <1>5 DEF Shutdown, http, Rejected
<1>6. \/ UNCHANGED <<answered, notified, call>> \/ Shutdown
      \/ \E u \in Updates : Begin(u) \/ Enter(u) \/ Fallback(u) \/ Post(u)
  BY DEF Next, Threads, Settle, Elapse, http, vars
<1> QED
  BY <1>2, <1>3, <1>4, <1>5, <1>6

(* A call that has returned to its task cost the bot at most one rejected   *)
(* post and left its update to Kafka.                                       *)
LeftToKafka ==
  \A u \in addressed \ abandoned :
    call[u] = "done" => answered[u] <= 1 /\ notified[u] = 0 /\ record[u] # "none"

(* As deployed, with a payload that the bot's model does not validate, no   *)
(* update reaches a user over HTTP: whatever the retries and the breaker    *)
(* make of it, it is rejected at most once and goes to Kafka.               *)
THEOREM DeployedLeavesToKafka == ASSUME Accepting = {FALSE} PROVE Spec => []LeftToKafka
<1>1. Init => Rejected
  BY DEF Init, Rejected
<1>2. TypeOK /\ Rejected /\ [Next]_vars => Rejected'
  BY StepRejected
<1>3. TypeOK /\ Rejected /\ NothingDropped => LeftToKafka
  BY DEF TypeOK, Rejected, NothingDropped, LeftToKafka
<1> QED
  BY TypeCorrect, NoneDropped, <1>1, <1>2, <1>3, PTL DEF Spec
=============================================================================
