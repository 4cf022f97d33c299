----------------------- MODULE BundleLifecycle_proofs -----------------------
(***************************************************************************)
(* Proofs about BundleLifecycle, for every set of bundles, networks and    *)
(* requests and every bound.                                               *)
(***************************************************************************)
EXTENDS BundleLifecycle, TLAPS

USE LifecycleAssumption

-----------------------------------------------------------------------------
(***************************************************************************)
(* The table operators.                                                    *)
(***************************************************************************)

\* The rows a transaction wants, and the rows a flush leaves, are rows.
LEMMA FlushedType ==
    ASSUME rows \in [Bundles -> Row],
           NEW q \in Request, q.bundle \in Bundles
    PROVE  /\ Wanted(q) \in [Bundles -> Row]
           /\ Flushed(q) \in [Bundles -> Row]
<1>1. q.seen \in [Bundles -> Row] /\ q.stamp \in Nat
  BY DEF Request
<1>2. RolledBack(q.seen, q.previous) \in [Bundles -> Row]
  BY <1>1 DEF RolledBack, Row, Status
<1>3. ASSUME NEW table \in [Bundles -> Row]
      PROVE  Activated(table, q.bundle, q.stamp) \in [Bundles -> Row]
  BY <1>1, <1>3 DEF Activated, Row, Status
<1>4. Wanted(q) \in [Bundles -> Row]
  BY <1>1, <1>2, <1>3 DEF Wanted
<1>5. QED
  BY <1>1, <1>4 DEF Flushed, Column, Row

\* A request that has begun knows its bundle; without this the network of a
\* request under way would be undefined.
BusyHasBundle == \A r \in Requests : Busy(r) => req[r].bundle \in Bundles

TypeInv == TypeOK /\ BusyHasBundle

LEMMA TypeInit == Init => TypeInv
  BY DEF Init, TypeInv, TypeOK, BusyHasBundle, Busy, Idle, NoRows, NoRow, Row, Status,
         Pointer, BundleOrNone, Request

LEMMA IdleType == Idle \in Request
  BY DEF Idle, Request, NoRows, NoRow, Row, Status, BundleOrNone

LEMMA TypeStep == TypeInv /\ [Next]_vars => TypeInv'
<1> SUFFICES ASSUME TypeInv, [Next]_vars
             PROVE  TypeInv'
  OBVIOUS
<1> USE IdleType DEF TypeInv, TypeOK, BusyHasBundle, Busy
<1>now. Now \subseteq Nat \ {0}
  BY DEF Now
<1>1. ASSUME NEW r \in Requests, NEW b \in Bundles, ReadForActivation(r, b),
             begun' \in Nat
      PROVE  TypeInv'
  <2>1. PICK prev \in BundleOrNone, now \in Now :
            clock' = now /\ req' = [req EXCEPT ![r] = InTxn("activate", b, prev, now)]
    BY <1>1 DEF ReadForActivation
  <2>2. InTxn("activate", b, prev, now) \in Request
    BY <1>now DEF InTxn, Request, BundleOrNone
  <2>3. InTxn("activate", b, prev, now).bundle = b
    BY DEF InTxn
  <2>4. QED
    BY <1>now, <1>1, <2>1, <2>2, <2>3 DEF ReadForActivation
<1>2. ASSUME NEW r \in Requests, NEW n \in Networks, Rollback(r, n)
      PROVE  TypeInv'
  <2>1. PICK cur \in Bundles, prev \in Bundles, now \in Now :
            clock' = now /\ req' = [req EXCEPT ![r] = InTxn("restore", prev, cur, now)]
    BY <1>2 DEF Rollback
  <2>2. InTxn("restore", prev, cur, now) \in Request
    BY <1>now DEF InTxn, Request, BundleOrNone
  <2>3. InTxn("restore", prev, cur, now).bundle = prev
    BY DEF InTxn
  <2>4. QED
    BY <1>now, <1>2, <2>1, <2>2, <2>3 DEF Rollback
<1>3. ASSUME NEW r \in Requests, TxnCommit(r)
      PROVE  TypeInv'
  <2>1. req[r] \in Request /\ req[r].bundle \in Bundles
    BY <1>3 DEF TxnCommit
  <2>2. rows' \in [Bundles -> Row]
    BY <1>3, <2>1, FlushedType DEF TxnCommit
  <2>3. lastEvent' \in [Networks -> {"none", "activate", "restore"}]
    <3>1. req[r].op \in {"activate", "restore", "none"}
      BY <2>1 DEF Request
    <3>2. QED
      BY <1>3, <3>1 DEF TxnCommit
  <2>4. req' \in [Requests -> Request] /\ BusyHasBundle'
    BY <1>3, <2>1 DEF TxnCommit, Request, NoRows, NoRow, Row, Status
  <2>5. QED
    BY <1>3, <2>2, <2>3, <2>4 DEF TxnCommit
<1>4. ASSUME NEW r \in Requests, WritePointer(r)
      PROVE  TypeInv'
  <2>1. req[r] \in Request /\ req[r].bundle \in Bundles
    BY <1>4 DEF WritePointer
  <2>2. pointer' \in [Networks -> Pointer]
    BY <1>4, <2>1 DEF WritePointer, Request, Pointer, BundleOrNone
  <2>3. req' \in [Requests -> Request] /\ BusyHasBundle'
    BY <1>4, <2>1 DEF WritePointer, Request
  <2>4. QED
    BY <1>4, <2>2, <2>3 DEF WritePointer
<1>5. ASSUME NEW r \in Requests, NEW b \in Bundles, NEW auto \in BOOLEAN,
             PullRemoveOld(r, b, auto)
      PROVE  TypeInv'
  <2>1. [Idle EXCEPT !.pc = "move", !.bundle = b, !.auto = auto] \in Request
    BY DEF Idle, Request, NoRows, NoRow, Row, Status, BundleOrNone
  <2>2. [Idle EXCEPT !.pc = "move", !.bundle = b, !.auto = auto].bundle = b
    BY DEF Idle
  <2>3. QED
    BY <1>5, <2>1, <2>2 DEF PullRemoveOld
<1>6. ASSUME NEW r \in Requests, PullMoveIn(r)
      PROVE  TypeInv'
  BY <1>6 DEF PullMoveIn, Request
<1>7. ASSUME NEW b \in Bundles, upsert_bundle(b)
      PROVE  rows' \in [Bundles -> Row]
  BY <1>7 DEF upsert_bundle, Row, Status
<1>8. ASSUME NEW r \in Requests, PullRegister(r)
      PROVE  TypeInv'
  <2>1. req[r] \in Request /\ req[r].bundle \in Bundles
    BY <1>8 DEF PullRegister
  <2>2. rows' \in [Bundles -> Row]
    BY <1>7, <1>8, <2>1 DEF PullRegister
  <2>3. req' \in [Requests -> Request] /\ BusyHasBundle'
    BY <1>8, <2>1 DEF PullRegister, Request, Idle
  <2>4. QED
    BY <1>8, <2>2, <2>3 DEF PullRegister
<1>9. ASSUME NEW r \in Requests, req' = [req EXCEPT ![r] = Idle],
             UNCHANGED <<rows, onDisk, elsewhere, pointer, lastEvent, clock, begun>>,
             faults' \in Nat
      PROVE  TypeInv'
  BY <1>9 DEF Idle
<1>10. ASSUME NEW r \in Requests, NEW b \in Bundles, RegisterLocal(r, b)
       PROVE  TypeInv'
  BY <1>7, <1>10 DEF RegisterLocal
<1>11. ASSUME NEW r \in Requests, Begin(r)
       PROVE  TypeInv'
  BY <1>1, <1>2, <1>5, <1>10, <1>11 DEF Begin, Activate
<1>12. ASSUME NEW r \in Requests, Continue(r)
       PROVE  TypeInv'
  <2>1. CASE AutoActivate(r)
    BY <1>1, <2>1 DEF AutoActivate
  <2>2. CASE NotifyRuntime(r)
    BY <1>9, <2>2 DEF NotifyRuntime
  <2>3. CASE PullConflict(r)
    BY <1>9, <2>3 DEF PullConflict
  <2>4. QED
    BY <1>3, <1>4, <1>6, <1>8, <1>12, <2>1, <2>2, <2>3 DEF Continue
<1>13. ASSUME NEW r \in Requests, Fail(r)
       PROVE  TypeInv'
  <2>1. faults' \in Nat
    BY <1>13 DEF Fail
  <2>2. QED
    BY <1>9, <1>13, <2>1 DEF Fail
<1>14. CASE Crash
  BY <1>14 DEF Crash, Idle
<1>15. CASE UNCHANGED vars
  BY <1>15 DEF vars
<1>16. QED
  BY <1>11, <1>12, <1>13, <1>14, <1>15 DEF Next

\* Every reachable value of the three stores and of the requests is well formed.
THEOREM TypeCorrect == Spec => []TypeOK
<1>1. Spec => []TypeInv
  BY TypeInit, TypeStep, PTL DEF Spec
<1>2. QED
  BY <1>1, PTL DEF TypeInv
-----------------------------------------------------------------------------
(***************************************************************************)
(* The pointer names an activated bundle, however requests interleave.     *)
(***************************************************************************)

WasActivated(b) == rows[b].status # "none" /\ rows[b].activatedAt # 0

\* Timestamps come from the clock: none is in the future, and a transaction's own is no
\* older than any it has read, and newer where the database keeps microseconds.
StampInv ==
    /\ \A b \in Bundles : /\ rows[b].activatedAt <= clock
                          /\ rows[b].activatedAt # 0 => rows[b].status # "none"
    /\ \A r \in Requests : req[r].pc = "commit" =>
          /\ rows[req[r].bundle].status # "none"
          /\ req[r].stamp # 0
          /\ req[r].stamp <= clock
          /\ \A b \in Bundles :
                /\ req[r].seen[b].activatedAt <= req[r].stamp
                /\ ~WholeSeconds => req[r].seen[b].activatedAt < req[r].stamp

PublishInv ==
    /\ \A r \in Requests : req[r].pc = "pointer" => WasActivated(req[r].bundle)
    /\ PointerWasActivated

PointerInv == TypeInv /\ StampInv /\ PublishInv

\* What a commit does to one row, whatever happened since its reads.
LEMMA CommitEffect ==
    ASSUME rows \in [Bundles -> Row],
           NEW q \in Request, q.bundle \in Bundles,
           NEW x \in Bundles
    PROVE  LET new == Flushed(q)[x] IN
           /\ new.status \in {rows[x].status, "active", "deprecated", "rolled_back"}
           /\ new.activatedAt = IF x = q.bundle THEN q.stamp ELSE rows[x].activatedAt
<1> DEFINE want == Wanted(q)[x]
<1>1. q.seen \in [Bundles -> Row] /\ q.stamp \in Nat
  BY DEF Request
<1>2. RolledBack(q.seen, q.previous) \in [Bundles -> Row]
  <2>1. q.seen \in [Bundles -> Row]
    BY <1>1
  <2>2. QED
    BY <2>1 DEF RolledBack, Row, Status
<1>3. /\ RolledBack(q.seen, q.previous)[x].status \in {q.seen[x].status, "rolled_back"}
      /\ RolledBack(q.seen, q.previous)[x].activatedAt = q.seen[x].activatedAt
  <2>1. CASE x = q.previous
    BY <1>1, <2>1 DEF RolledBack, Row
  <2>2. CASE x # q.previous
    BY <1>1, <2>2 DEF RolledBack, Row
  <2>3. QED
    BY <2>1, <2>2
<1>4. ASSUME NEW table \in [Bundles -> Row]
      PROVE  LET new == Activated(table, q.bundle, q.stamp)[x] IN
             /\ new.status \in {table[x].status, "active", "deprecated"}
             /\ new.activatedAt = IF x = q.bundle THEN q.stamp ELSE table[x].activatedAt
  BY <1>1 DEF Activated, Row
<1>5. /\ want.status \in {q.seen[x].status, "active", "deprecated", "rolled_back"}
      /\ want.activatedAt = IF x = q.bundle THEN q.stamp ELSE q.seen[x].activatedAt
  BY <1>1, <1>2, <1>3, <1>4 DEF Wanted
<1>6. QED
  BY <1>5 DEF Flushed, Column

\* Only a commit and an upsert write the table, only WritePointer writes active.json.
LEMMA Writers ==
    ASSUME [Next]_vars
    PROVE  /\ \/ \E r \in Requests : TxnCommit(r)
              \/ (\E b : upsert_bundle(b)) /\ UNCHANGED lastEvent
              \/ UNCHANGED <<rows, lastEvent>>
           /\ (\E r \in Requests : WritePointer(r)) \/ UNCHANGED pointer
<1> DEFINE Rows == \/ \E r \in Requests : TxnCommit(r)
                   \/ (\E b : upsert_bundle(b)) /\ UNCHANGED lastEvent
                   \/ UNCHANGED <<rows, lastEvent>>
           Ptr == (\E r \in Requests : WritePointer(r)) \/ UNCHANGED pointer
<1>0. ASSUME NEW r, NEW b, ReadForActivation(r, b) PROVE Rows /\ Ptr
  BY <1>0 DEF ReadForActivation
<1>1. ASSUME NEW r \in Requests, Begin(r) PROVE Rows /\ Ptr
  <2>1. ASSUME NEW b \in Bundles, Activate(r, b) PROVE Rows /\ Ptr
    BY <1>0, <2>1 DEF Activate
  <2>2. ASSUME NEW n \in Networks, Rollback(r, n) PROVE Rows /\ Ptr
    BY <2>2 DEF Rollback
  <2>3. ASSUME NEW b \in Bundles, NEW auto \in BOOLEAN, PullRemoveOld(r, b, auto)
        PROVE  Rows /\ Ptr
    BY <2>3 DEF PullRemoveOld
  <2>4. ASSUME NEW b \in Bundles, RegisterLocal(r, b) PROVE Rows /\ Ptr
    BY <2>4 DEF RegisterLocal
  <2> HIDE DEF Rows, Ptr
  <2>5. QED
    BY <1>1, <2>1, <2>2, <2>3, <2>4 DEF Begin
<1>2. ASSUME NEW r \in Requests, Continue(r) PROVE Rows /\ Ptr
  <2>1. CASE AutoActivate(r)
    BY <1>0, <2>1 DEF AutoActivate
  <2>2. CASE TxnCommit(r)
    <3>1. UNCHANGED pointer
      BY <2>2 DEF TxnCommit
    <3>2. QED
      BY <2>2, <3>1
  <2>3. CASE WritePointer(r)
    BY <2>3 DEF WritePointer
  <2>4. CASE NotifyRuntime(r) \/ PullMoveIn(r) \/ PullConflict(r)
    BY <2>4 DEF NotifyRuntime, PullMoveIn, PullConflict
  <2>5. CASE PullRegister(r)
    BY <2>5 DEF PullRegister
  <2>6. QED
    BY <1>2, <2>1, <2>2, <2>3, <2>4, <2>5 DEF Continue
<1>3. ASSUME NEW r \in Requests, Fail(r) PROVE Rows /\ Ptr
  BY <1>3 DEF Fail
<1>4. ASSUME Crash PROVE Rows /\ Ptr
  BY <1>4 DEF Crash
<1>5. ASSUME UNCHANGED vars PROVE Rows /\ Ptr
  BY <1>5 DEF vars
<1> HIDE DEF Rows, Ptr
<1>6. Rows /\ Ptr
  BY <1>1, <1>2, <1>3, <1>4, <1>5 DEF Next
<1>7. QED
  BY <1>6 DEF Rows, Ptr

\* A row never disappears and never forgets that it was active.
LEMMA RowsGrow ==
    ASSUME TypeInv, StampInv, [Next]_vars, NEW b \in Bundles
    PROVE  /\ rows[b].status # "none" => rows'[b].status # "none"
           /\ rows[b].activatedAt # 0 => rows'[b].activatedAt # 0
<1> USE DEF TypeInv, TypeOK
<1>1. ASSUME NEW r \in Requests, TxnCommit(r)
      PROVE  /\ rows[b].status # "none" => rows'[b].status # "none"
             /\ rows[b].activatedAt # 0 => rows'[b].activatedAt # 0
  <2>1. req[r] \in Request /\ req[r].bundle \in Bundles
    BY <1>1 DEF TxnCommit, BusyHasBundle, Busy
  <2>3. req[r].stamp # 0
    BY <1>1 DEF TxnCommit, StampInv
  <2>4. /\ rows'[b].status \in {rows[b].status, "active", "deprecated", "rolled_back"}
        /\ rows'[b].activatedAt = IF b = req[r].bundle THEN req[r].stamp
                                                       ELSE rows[b].activatedAt
    BY <1>1, <2>1, CommitEffect DEF TxnCommit
  <2>5. QED
    BY <2>3, <2>4
<1>2. ASSUME NEW c, upsert_bundle(c)
      PROVE  /\ rows[b].status # "none" => rows'[b].status # "none"
             /\ rows[b].activatedAt # 0 => rows'[b].activatedAt # 0
  BY <1>2 DEF upsert_bundle, Row
<1>3. ASSUME UNCHANGED rows
      PROVE  /\ rows[b].status # "none" => rows'[b].status # "none"
             /\ rows[b].activatedAt # 0 => rows'[b].activatedAt # 0
  BY <1>3
<1>4. QED
  BY <1>1, <1>2, <1>3, Writers

LEMMA PointerInvInit == Init => PointerInv
<1> SUFFICES ASSUME Init PROVE PointerInv
  OBVIOUS
<1>1. TypeInv
  BY TypeInit
<1>2. StampInv /\ PublishInv
  BY DEF Init, StampInv, PublishInv, PointerWasActivated, NoRows, NoRow, Idle
<1>3. QED
  BY <1>1, <1>2 DEF PointerInv

LEMMA PointerInvStep == PointerInv /\ [Next]_vars => PointerInv'
<1> SUFFICES ASSUME PointerInv, [Next]_vars
             PROVE  PointerInv'
  OBVIOUS
<1>0. TypeInv /\ StampInv /\ PublishInv /\ TypeInv'
  BY TypeStep DEF PointerInv
<1>grow. \A b \in Bundles : /\ rows[b].status # "none" => rows'[b].status # "none"
                            /\ WasActivated(b) => WasActivated(b)'
  BY <1>0, RowsGrow DEF WasActivated
<1>1. ASSUME NEW r \in Requests, TxnCommit(r)
      PROVE  StampInv' /\ PublishInv'
  <2>1. req[r] \in Request /\ req[r].bundle \in Bundles
    BY <1>0, <1>1 DEF TxnCommit, TypeInv, TypeOK, BusyHasBundle, Busy
  <2>3. req[r].stamp # 0
    BY <1>0, <1>1 DEF TxnCommit, StampInv
  <2>4. \A x \in Bundles : rows'[x].activatedAt = IF x = req[r].bundle THEN req[r].stamp
                                                                     ELSE rows[x].activatedAt
    BY <1>0, <1>1, <2>1, CommitEffect DEF TxnCommit, TypeInv, TypeOK
  <2>5. rows'[req[r].bundle].status # "none"
    BY <1>0, <1>1, <2>1, <1>grow DEF TxnCommit, StampInv
  <2>6. StampInv'
    <3>1. \A b \in Bundles : /\ rows'[b].activatedAt <= clock'
                             /\ rows'[b].activatedAt # 0 => rows'[b].status # "none"
      BY <1>0, <1>1, <1>grow, <2>4, <2>5 DEF TxnCommit, StampInv
    <3>2. \A q \in Requests : req'[q].pc = "commit" => req'[q] = req[q] /\ req[q].pc = "commit"
      BY <1>0, <1>1 DEF TxnCommit, TypeInv, TypeOK
    <3>3. \A q \in Requests : req[q].pc = "commit" => req[q].bundle \in Bundles
      BY <1>0 DEF TypeInv, BusyHasBundle, Busy
    <3>4. QED
      BY <1>0, <1>1, <1>grow, <3>1, <3>2, <3>3 DEF TxnCommit, StampInv
  <2>7. PublishInv'
    <3>1. \A q \in Requests \ {r} : req'[q] = req[q]
      BY <1>0, <1>1 DEF TxnCommit, TypeInv, TypeOK
    <3>2. req'[r].bundle = req[r].bundle /\ WasActivated(req[r].bundle)'
      BY <1>0, <1>1, <2>1, <2>3, <2>4, <2>5 DEF TxnCommit, WasActivated, TypeInv, TypeOK, Request
    <3>3. \A q \in Requests : req[q].pc = "pointer" => req[q].bundle \in Bundles
      BY <1>0 DEF TypeInv, BusyHasBundle, Busy
    <3>4. \A q \in Requests : req'[q].pc = "pointer" =>
              rows'[req'[q].bundle].status # "none" /\ rows'[req'[q].bundle].activatedAt # 0
      BY <1>0, <1>grow, <3>1, <3>2, <3>3 DEF PublishInv, WasActivated
    <3>5. PointerWasActivated'
      BY <1>0, <1>1, <1>grow
         DEF TxnCommit, PublishInv, PointerWasActivated, WasActivated, TypeInv, TypeOK,
             Pointer, BundleOrNone
    <3>6. QED
      BY <3>4, <3>5 DEF PublishInv, WasActivated
  <2>8. QED
    BY <2>6, <2>7
<1>now. Now \subseteq {clock, clock + 1}
  BY DEF Now
\* Every other step leaves the timestamps alone and only lets the clock grow.
<1>2. ASSUME \A b \in Bundles : rows'[b].activatedAt = rows[b].activatedAt,
             clock' \in {clock, clock + 1},
             \A q \in Requests : req'[q].pc = "commit" =>
                 \/ req'[q] = req[q]
                 \/ /\ rows'[req'[q].bundle].status # "none"
                    /\ req'[q].seen = rows
                    /\ req'[q].stamp = clock'
                    /\ clock' \in Now
      PROVE  StampInv'
  <2>1. \A b \in Bundles : /\ rows'[b].activatedAt <= clock' /\ rows[b].activatedAt <= clock
                           /\ rows'[b].activatedAt # 0 => rows'[b].status # "none"
    BY <1>0, <1>2, <1>grow DEF StampInv, TypeInv, TypeOK, Row
  <2>2. ASSUME NEW q \in Requests, req'[q].pc = "commit", req'[q] = req[q]
        PROVE  /\ rows'[req'[q].bundle].status # "none"
               /\ req'[q].stamp # 0
               /\ req'[q].stamp <= clock'
               /\ \A b \in Bundles :
                     /\ req'[q].seen[b].activatedAt <= req'[q].stamp
                     /\ ~WholeSeconds => req'[q].seen[b].activatedAt < req'[q].stamp
    <3>1. /\ req[q].bundle \in Bundles /\ req[q].stamp \in Nat /\ clock \in Nat
          /\ req[q].pc = "commit"
      BY <1>0, <2>2 DEF TypeInv, TypeOK, BusyHasBundle, Busy, Request
    <3>2. /\ rows[req[q].bundle].status # "none"
          /\ req[q].stamp # 0
          /\ req[q].stamp <= clock
          /\ \A b \in Bundles :
                /\ req[q].seen[b].activatedAt <= req[q].stamp
                /\ ~WholeSeconds => req[q].seen[b].activatedAt < req[q].stamp
      BY <1>0, <3>1 DEF StampInv
    <3>3. req[q].stamp <= clock'
      BY <1>2, <3>1, <3>2
    <3>4. QED
      BY <1>grow, <2>2, <3>1, <3>2, <3>3
  <2>3. ASSUME NEW q \in Requests, req'[q].seen = rows, req'[q].stamp = clock',
               clock' \in Now
        PROVE  /\ req'[q].stamp # 0
               /\ req'[q].stamp <= clock'
               /\ \A b \in Bundles :
                     /\ req'[q].seen[b].activatedAt <= req'[q].stamp
                     /\ ~WholeSeconds => req'[q].seen[b].activatedAt < req'[q].stamp
    BY <1>0, <2>1, <2>3 DEF TypeInv, TypeOK, Row, Now
  <2>4. QED
    BY <1>2, <2>1, <2>2, <2>3 DEF StampInv
<1>3. ASSUME \A q \in Requests : req'[q].pc = "pointer" => req'[q] = req[q],
             UNCHANGED pointer
      PROVE  PublishInv'
  BY <1>0, <1>3, <1>grow
     DEF PublishInv, PointerWasActivated, WasActivated, TypeInv, TypeOK, BusyHasBundle, Busy,
         Pointer, BundleOrNone
<1>4. ASSUME NEW r \in Requests, WritePointer(r)
      PROVE  StampInv' /\ PublishInv'
  <2>1. req[r].bundle \in Bundles /\ WasActivated(req[r].bundle)
    BY <1>0, <1>4 DEF WritePointer, TypeInv, BusyHasBundle, Busy, PublishInv
  <2>2. StampInv'
    BY <1>0, <1>2, <1>4 DEF WritePointer, TypeInv, TypeOK
  <2>3. \A q \in Requests : req'[q].pc = "pointer" => req'[q] = req[q]
    BY <1>0, <1>4 DEF WritePointer, TypeInv, TypeOK
  <2>4. PointerWasActivated'
    BY <1>0, <1>4, <2>1
       DEF WritePointer, TypeInv, TypeOK, PublishInv, PointerWasActivated, WasActivated
  <2>5. QED
    BY <1>0, <1>4, <2>2, <2>3, <2>4, <1>grow
       DEF WritePointer, PublishInv, WasActivated, TypeInv, BusyHasBundle, Busy
<1>5. ASSUME NEW r \in Requests, NEW b \in Bundles, ReadForActivation(r, b)
      PROVE  StampInv' /\ PublishInv'
  <2>1. PICK prev \in BundleOrNone, now \in Now :
            clock' = now /\ req' = [req EXCEPT ![r] = InTxn("activate", b, prev, now)]
    BY <1>5 DEF ReadForActivation
  <2>2. rows[b].status # "none"
    BY <1>5 DEF ReadForActivation, Activatable
  <2>3. QED
    BY <1>0, <1>2, <1>3, <1>5, <1>now, <2>1, <2>2
       DEF ReadForActivation, InTxn, TypeInv, TypeOK
<1>6. ASSUME NEW r \in Requests, NEW n \in Networks, Rollback(r, n)
      PROVE  StampInv' /\ PublishInv'
  <2>1. PICK cur \in Bundles, prev \in Bundles, now \in Now :
            /\ get_previous_active_bundle(rows, n, cur, prev)
            /\ req' = [req EXCEPT ![r] = InTxn("restore", prev, cur, now)]
            /\ clock' = now
    BY <1>6 DEF Rollback
  <2>2. rows[prev].activatedAt # 0
    BY <2>1 DEF get_previous_active_bundle, IsLatest, EverActiveBut
  <2>3. rows[prev].status # "none"
    BY <1>0, <2>2 DEF StampInv
  <2>4. QED
    BY <1>0, <1>2, <1>3, <1>6, <1>now, <2>1, <2>3 DEF Rollback, InTxn, TypeInv, TypeOK
\* The remaining steps move one request to a step that owes nothing.
<1>7. ASSUME NEW r \in Requests, \E v : /\ req' = [req EXCEPT ![r] = v]
                                        /\ v.pc \notin {"commit", "pointer"},
             \A b \in Bundles : rows'[b].activatedAt = rows[b].activatedAt,
             clock' \in {clock, clock + 1}, UNCHANGED pointer
      PROVE  StampInv' /\ PublishInv'
  <2>1. \A q \in Requests : req'[q].pc \in {"commit", "pointer"} => req'[q] = req[q]
    BY <1>0, <1>7 DEF TypeInv, TypeOK
  <2>2. QED
    BY <1>2, <1>3, <1>7, <2>1
<1>idle. Idle.pc = "idle"
  BY DEF Idle
<1>8. ASSUME NEW b, upsert_bundle(b)
      PROVE  \A c \in Bundles : rows'[c].activatedAt = rows[c].activatedAt
  BY <1>0, <1>8 DEF upsert_bundle, TypeInv, TypeOK, Row
<1>9. ASSUME NEW r \in Requests, Begin(r)
      PROVE  StampInv' /\ PublishInv'
  <2>1. ASSUME NEW b \in Bundles, NEW auto \in BOOLEAN, PullRemoveOld(r, b, auto)
        PROVE  StampInv' /\ PublishInv'
    <3>1. [Idle EXCEPT !.pc = "move", !.bundle = b, !.auto = auto].pc = "move"
      BY DEF Idle
    <3>2. QED
      BY <1>7, <2>1, <3>1 DEF PullRemoveOld
  <2>2. ASSUME NEW b \in Bundles, RegisterLocal(r, b)
        PROVE  StampInv' /\ PublishInv'
    BY <1>2, <1>3, <1>8, <2>2 DEF RegisterLocal
  <2>3. QED
    BY <1>5, <1>6, <1>9, <2>1, <2>2 DEF Begin, Activate
<1>10. ASSUME NEW r \in Requests, Continue(r)
       PROVE  StampInv' /\ PublishInv'
  <2>1. CASE AutoActivate(r)
    BY <1>0, <1>5, <2>1 DEF AutoActivate, TypeInv, BusyHasBundle, Busy
  <2>2. CASE NotifyRuntime(r)
    BY <1>7, <1>idle, <2>2 DEF NotifyRuntime
  <2>3. CASE PullMoveIn(r)
    <3>1. req' = [req EXCEPT ![r] = [req[r] EXCEPT !.pc = "register"]]
      BY <2>3 DEF PullMoveIn
    <3>2. [req[r] EXCEPT !.pc = "register"].pc = "register"
      BY <1>0 DEF TypeInv, TypeOK, Request
    <3>3. QED
      BY <1>7, <2>3, <3>1, <3>2 DEF PullMoveIn
  <2>4. CASE PullRegister(r)
    <3>1. req' = [req EXCEPT ![r] = IF req[r].auto THEN [req[r] EXCEPT !.pc = "activate"]
                                                   ELSE Idle]
      BY <1>0, <2>4 DEF PullRegister, TypeInv, TypeOK
    <3>2. [req[r] EXCEPT !.pc = "activate"].pc = "activate"
      BY <1>0 DEF TypeInv, TypeOK, Request
    <3>3. QED
      BY <1>7, <1>8, <1>idle, <2>4, <3>1, <3>2 DEF PullRegister
  <2>5. CASE PullConflict(r)
    BY <1>7, <1>idle, <2>5 DEF PullConflict
  <2>6. QED
    BY <1>1, <1>4, <1>10, <2>1, <2>2, <2>3, <2>4, <2>5 DEF Continue
<1>11. ASSUME NEW r \in Requests, Fail(r)
       PROVE  StampInv' /\ PublishInv'
  BY <1>7, <1>11, <1>idle DEF Fail
<1>12. CASE Crash \/ UNCHANGED vars
  <2>1. \A q \in Requests : req'[q].pc \in {"commit", "pointer"} => req'[q] = req[q]
    BY <1>12, <1>idle DEF Crash, vars
  <2>2. UNCHANGED <<rows, clock, pointer>>
    BY <1>12 DEF Crash, vars
  <2>3. StampInv'
    BY <1>2, <2>1, <2>2
  <2>4. PublishInv'
    BY <1>3, <2>1, <2>2
  <2>5. QED
    BY <1>0, <2>3, <2>4 DEF PointerInv
<1>13. QED
  BY <1>0, <1>9, <1>10, <1>11, <1>12 DEF Next, PointerInv

\* active.json never names a bundle that the table has not registered and
\* activated, for any interleaving of requests, exceptions and crashes.
THEOREM PointerAlwaysActivated == Spec => []PointerWasActivated
<1>1. Spec => []PointerInv
  BY PointerInvInit, PointerInvStep, PTL DEF Spec
<1>2. PointerInv => PointerWasActivated
  BY DEF PointerInv, PublishInv
<1>3. QED
  BY <1>1, <1>2, PTL

-----------------------------------------------------------------------------
(***************************************************************************)
(* When the callers of a network take turns, the table has one active row. *)
(***************************************************************************)

\* Two requests under way on one network are one request.
Alone ==
    \A q, r \in Requests :
        Busy(q) /\ Busy(r) /\ NetOf[req[q].bundle] = NetOf[req[r].bundle] => q = r

\* Nobody has written the network since this request's transaction read it, and
\* the bundle a rollback retires is of that network.
SnapshotIsCurrent ==
    \A r \in Requests : req[r].pc = "commit" =>
        /\ \A b \in OfNet(NetOf[req[r].bundle]) : req[r].seen[b] = rows[b]
        /\ req[r].op = "restore" =>
              req[r].previous \in OfNet(NetOf[req[r].bundle])

\* Until its pointer is written, the bundle a request committed stays active.
CommittedStaysActive ==
    \A r \in Requests : req[r].pc = "pointer" => rows[req[r].bundle].isActive

SerialInv ==
    TypeInv /\ Alone /\ SnapshotIsCurrent /\ CommittedStaysActive /\ AtMostOneActive

\* A commit on an up-to-date snapshot: its bundle is the only active row of the
\* network, and the rows of other networks are as they were.
LEMMA SerialCommit ==
    ASSUME rows \in [Bundles -> Row],
           NEW q \in Request, q.bundle \in Bundles,
           \A b \in OfNet(NetOf[q.bundle]) : q.seen[b] = rows[b],
           q.op = "restore" => q.previous \in OfNet(NetOf[q.bundle]),
           NEW x \in Bundles
    PROVE  LET new == Flushed(q) IN
           /\ NetOf[x] = NetOf[q.bundle] => (new[x].isActive <=> x = q.bundle)
           /\ NetOf[x] # NetOf[q.bundle] => new[x] = rows[x]
<1> DEFINE want == Wanted(q)[x]
           new == Flushed(q)[x]
<1>1. q.seen \in [Bundles -> Row] /\ q.stamp \in Nat /\ Wanted(q) \in [Bundles -> Row]
  BY FlushedType DEF Request
<1>2. RolledBack(q.seen, q.previous) \in [Bundles -> Row]
  <2>1. q.seen \in [Bundles -> Row]
    BY <1>1
  <2>2. QED
    BY <2>1 DEF RolledBack, Row, Status
<1>3. ASSUME NEW table \in [Bundles -> Row]
      PROVE  LET act == Activated(table, q.bundle, q.stamp)[x] IN
             /\ NetOf[x] = NetOf[q.bundle] => (act.isActive <=> x = q.bundle)
             /\ NetOf[x] # NetOf[q.bundle] => act = table[x]
  <2>1. CASE x = q.bundle
    BY <2>1 DEF Activated
  <2>2. CASE x # q.bundle /\ NetOf[x] = NetOf[q.bundle] /\ table[x].isActive
    BY <2>2 DEF Activated
  <2>3. CASE x # q.bundle /\ ~(NetOf[x] = NetOf[q.bundle] /\ table[x].isActive)
    BY <2>3 DEF Activated
  <2>4. QED
    BY <2>1, <2>2, <2>3
<1>4. CASE NetOf[x] = NetOf[q.bundle]
  <2>1. want.isActive <=> x = q.bundle
    BY <1>1, <1>2, <1>3, <1>4 DEF Wanted
  <2>2. q.seen[x] = rows[x]
    BY <1>4 DEF OfNet
  <2>3. new.isActive = want.isActive
    BY <2>2 DEF Flushed, Column
  <2>4. QED
    BY <1>4, <2>1, <2>3
<1>5. CASE NetOf[x] # NetOf[q.bundle]
  <2>1. q.op = "restore" => RolledBack(q.seen, q.previous)[x] = q.seen[x]
    BY <1>1, <1>5 DEF RolledBack, OfNet
  <2>2. want = q.seen[x]
    BY <1>1, <1>2, <1>3, <1>5, <2>1 DEF Wanted
  <2>3. x # q.bundle
    BY <1>5
  <2>4. new = [status |-> rows[x].status, isActive |-> rows[x].isActive,
               activatedAt |-> rows[x].activatedAt]
    BY <2>2, <2>3 DEF Flushed, Column
  <2>5. QED
    BY <1>5, <2>4 DEF Row
<1>6. QED
  BY <1>4, <1>5

LEMMA SerialInit == Init => SerialInv
<1> SUFFICES ASSUME Init PROVE SerialInv
  OBVIOUS
<1>1. TypeInv
  BY TypeInit
<1>2. Alone /\ SnapshotIsCurrent /\ CommittedStaysActive /\ AtMostOneActive
  BY DEF Init, Alone, SnapshotIsCurrent, CommittedStaysActive, AtMostOneActive, Busy, Idle,
         NoRows, NoRow
<1>3. QED
  BY <1>1, <1>2 DEF SerialInv

LEMMA SerialStep ==
    ASSUME Serialized, SerialInv, [Next]_vars
    PROVE  SerialInv'
<1>0. TypeInv /\ TypeInv' /\ Alone /\ SnapshotIsCurrent /\ CommittedStaysActive
      /\ AtMostOneActive
  BY TypeStep DEF SerialInv
<1>type. /\ rows \in [Bundles -> Row] /\ req \in [Requests -> Request]
         /\ \A q \in Requests : Busy(q) => req[q].bundle \in Bundles
  BY <1>0 DEF TypeInv, TypeOK, BusyHasBundle
\* A request stays on its network, ends, or starts where no other is under way.
<1>1. ASSUME NEW r \in Requests, NEW v, req' = [req EXCEPT ![r] = v],
             \/ v.pc = "idle"
             \/ Busy(r) /\ NetOf[v.bundle] = NetOf[req[r].bundle]
             \/ MayBegin(r, NetOf[v.bundle])
      PROVE  Alone'
  <2>1. \A q \in Requests : req'[q] = IF q = r THEN v ELSE req[q]
    BY <1>1, <1>type
  <2>2. \A q \in Requests \ {r} :
            v.pc # "idle" /\ Busy(q) => NetOf[req[q].bundle] # NetOf[v.bundle]
    BY <1>0, <1>1, Serialized DEF Alone, MayBegin, BusyOn
  <2>3. QED
    BY <1>0, <2>1, <2>2 DEF Alone, Busy
\* A step that writes no row and opens or closes no transaction.
<1>2. ASSUME NEW r \in Requests, NEW v, req' = [req EXCEPT ![r] = v],
             v.pc \notin {"commit", "pointer"}, UNCHANGED rows
      PROVE  SnapshotIsCurrent' /\ CommittedStaysActive' /\ AtMostOneActive'
  <2>1. \A q \in Requests : req'[q].pc \in {"commit", "pointer"} => req'[q] = req[q]
    BY <1>2, <1>type
  <2>2. QED
    BY <1>0, <1>2, <2>1 DEF SnapshotIsCurrent, CommittedStaysActive, AtMostOneActive, OfNet
<1>3. ASSUME NEW r \in Requests, NEW b \in Bundles, ReadForActivation(r, b),
             MayBegin(r, NetOf[b]) \/ (Busy(r) /\ req[r].bundle = b)
      PROVE  SerialInv'
  <2>1. PICK prev \in BundleOrNone, now \in Now :
            clock' = now /\ req' = [req EXCEPT ![r] = InTxn("activate", b, prev, now)]
    BY <1>3 DEF ReadForActivation
  <2> DEFINE v == InTxn("activate", b, prev, now)
  <2>2. v.bundle = b /\ v.pc = "commit" /\ v.op = "activate" /\ v.seen = rows
    BY DEF InTxn
  <2>3. rows' = rows
    BY <1>3 DEF ReadForActivation
  <2> HIDE DEF v
  <2>4. Alone'
    BY <1>1, <1>3, <2>1, <2>2 DEF v
  <2>5. \A q \in Requests : req'[q] = IF q = r THEN v ELSE req[q]
    BY <1>type, <2>1 DEF v
  <2>6. SnapshotIsCurrent' /\ CommittedStaysActive' /\ AtMostOneActive'
    BY <1>0, <2>2, <2>3, <2>5
       DEF SnapshotIsCurrent, CommittedStaysActive, AtMostOneActive, OfNet
  <2>7. QED
    BY <1>0, <2>4, <2>6 DEF SerialInv
<1>4. ASSUME NEW r \in Requests, NEW n \in Networks, Rollback(r, n)
      PROVE  SerialInv'
  <2>1. PICK cur \in Bundles, prev \in Bundles, now \in Now :
            /\ get_active_bundle(rows, n, cur)
            /\ get_previous_active_bundle(rows, n, cur, prev)
            /\ req' = [req EXCEPT ![r] = InTxn("restore", prev, cur, now)]
    BY <1>4 DEF Rollback
  <2> DEFINE v == InTxn("restore", prev, cur, now)
  <2>2. v.bundle = prev /\ v.previous = cur /\ v.pc = "commit" /\ v.seen = rows
    BY DEF InTxn
  <2>3. cur \in OfNet(n) /\ prev \in OfNet(n)
    <3>1. cur # NoBundle /\ prev # NoBundle
      BY LifecycleAssumption
    <3>2. QED
      BY <2>1, <3>1 DEF get_active_bundle, get_previous_active_bundle, IsLatest, ActiveRows,
                        EverActiveBut
  <2>4. rows' = rows /\ MayBegin(r, n)
    BY <1>4 DEF Rollback
  <2> HIDE DEF v
  <2>5. NetOf[v.bundle] = n /\ v.previous \in OfNet(NetOf[v.bundle])
    BY <2>2, <2>3 DEF OfNet
  <2>6. Alone'
    BY <1>1, <2>1, <2>4, <2>5 DEF v
  <2>7. \A q \in Requests : req'[q] = IF q = r THEN v ELSE req[q]
    BY <1>type, <2>1 DEF v
  <2>8. SnapshotIsCurrent' /\ CommittedStaysActive' /\ AtMostOneActive'
    BY <1>0, <2>2, <2>4, <2>5, <2>7
       DEF SnapshotIsCurrent, CommittedStaysActive, AtMostOneActive, OfNet
  <2>9. QED
    BY <1>0, <2>6, <2>8 DEF SerialInv
<1>5. ASSUME NEW r \in Requests, TxnCommit(r)
      PROVE  SerialInv'
  <2> DEFINE net == NetOf[req[r].bundle]
             v == [req[r] EXCEPT !.pc = "pointer", !.seen = NoRows, !.stamp = 0]
  <2>1. req[r] \in Request /\ req[r].bundle \in Bundles /\ Busy(r)
    BY <1>5, <1>type DEF TxnCommit, Busy
  <2>2. \A x \in Bundles : /\ NetOf[x] = net => (rows'[x].isActive <=> x = req[r].bundle)
                           /\ NetOf[x] # net => rows'[x] = rows[x]
    <3>1. /\ \A b \in OfNet(net) : req[r].seen[b] = rows[b]
          /\ req[r].op = "restore" => req[r].previous \in OfNet(net)
      BY <1>0, <1>5 DEF TxnCommit, SnapshotIsCurrent
    <3>2. QED
      BY <1>5, <1>type, <2>1, <3>1, SerialCommit DEF TxnCommit
  <2>3. req' = [req EXCEPT ![r] = v]
    BY <1>5, <1>type DEF TxnCommit
  <2>4. v.bundle = req[r].bundle /\ v.pc = "pointer"
    BY <2>1 DEF Request
  <2> HIDE DEF v
  <2>5. Alone'
    BY <1>1, <2>1, <2>3, <2>4
  <2>6. \A q \in Requests : req'[q] = IF q = r THEN v ELSE req[q]
    BY <1>type, <2>3
  <2>7. \A q \in Requests \ {r} : Busy(q) => NetOf[req[q].bundle] # net
    BY <1>0, <2>1 DEF Alone
  <2>8. \A q \in Requests \ {r} :
            Busy(q) => \A b \in OfNet(NetOf[req[q].bundle]) : rows'[b] = rows[b]
    BY <2>2, <2>7 DEF OfNet
  <2>9. SnapshotIsCurrent'
    BY <1>0, <2>4, <2>6, <2>8 DEF SnapshotIsCurrent, Busy, OfNet
  <2>10. CommittedStaysActive'
    <3>1. ASSUME NEW q \in Requests, req'[q].pc = "pointer"
          PROVE  rows'[req'[q].bundle].isActive
      <4>1. CASE q = r
        BY <2>1, <2>2, <2>4, <2>6, <4>1
      <4>2. CASE q # r
        BY <1>0, <1>type, <2>2, <2>6, <2>7, <3>1, <4>2 DEF CommittedStaysActive, Busy
      <4>3. QED
        BY <4>1, <4>2
    <3>2. QED
      BY <3>1 DEF CommittedStaysActive
  <2>11. AtMostOneActive'
    BY <1>0, <2>2 DEF AtMostOneActive
  <2>12. QED
    BY <1>0, <2>5, <2>9, <2>10, <2>11 DEF SerialInv
\* An upsert keeps is_active; on the network it writes, no transaction is open.
<1>6. ASSUME NEW r \in Requests, NEW b \in Bundles, NEW v,
             upsert_bundle(b), req' = [req EXCEPT ![r] = v],
             v.pc \notin {"commit", "pointer"},
             \/ MayBegin(r, NetOf[b])
             \/ Busy(r) /\ req[r].bundle = b
      PROVE  SnapshotIsCurrent' /\ CommittedStaysActive' /\ AtMostOneActive'
  <2>1. \A x \in Bundles : /\ rows'[x].isActive = rows[x].isActive
                           /\ x # b => rows'[x] = rows[x]
    BY <1>6, <1>type DEF upsert_bundle, Row
  <2>2. \A q \in Requests : req'[q] = IF q = r THEN v ELSE req[q]
    BY <1>6, <1>type
  <2>3. \A q \in Requests \ {r} : Busy(q) => NetOf[req[q].bundle] # NetOf[b]
    BY <1>0, <1>6, Serialized DEF Alone, MayBegin, BusyOn
  <2>4. SnapshotIsCurrent'
    <3>1. ASSUME NEW q \in Requests, req'[q].pc = "commit"
          PROVE  /\ req'[q] = req[q] /\ req[q].pc = "commit" /\ Busy(q)
                 /\ \A x \in OfNet(NetOf[req[q].bundle]) : rows'[x] = rows[x]
      BY <1>6, <2>1, <2>2, <2>3, <3>1 DEF Busy, OfNet
    <3>2. QED
      BY <1>0, <3>1 DEF SnapshotIsCurrent, OfNet
  <2>5. CommittedStaysActive'
    BY <1>0, <1>6, <1>type, <2>1, <2>2 DEF CommittedStaysActive, Busy
  <2>6. QED
    BY <1>0, <2>1, <2>4, <2>5 DEF AtMostOneActive
<1>7. ASSUME NEW r \in Requests, NEW b \in Bundles, RegisterLocal(r, b)
      PROVE  SerialInv'
  <2>1. req' = [req EXCEPT ![r] = req[r]] /\ req[r].pc = "idle"
    BY <1>7, <1>type DEF RegisterLocal, MayBegin, Busy
  <2>2. Alone'
    BY <1>1, <2>1
  <2>3. SnapshotIsCurrent' /\ CommittedStaysActive' /\ AtMostOneActive'
    BY <1>6, <1>7, <2>1 DEF RegisterLocal
  <2>4. QED
    BY <1>0, <2>2, <2>3 DEF SerialInv
<1>idle. Idle.pc = "idle"
  BY DEF Idle
\* A request that just ends.
<1>8. ASSUME NEW r \in Requests, req' = [req EXCEPT ![r] = Idle], UNCHANGED rows
      PROVE  SerialInv'
  <2>1. Alone'
    BY <1>1, <1>8, <1>idle
  <2>2. SnapshotIsCurrent' /\ CommittedStaysActive' /\ AtMostOneActive'
    BY <1>2, <1>8, <1>idle
  <2>3. QED
    BY <1>0, <2>1, <2>2 DEF SerialInv
\* A request that moves on, having written no row.
<1>9. ASSUME NEW r \in Requests, NEW pc \in {"notify", "register"}, Busy(r),
             req' = [req EXCEPT ![r].pc = pc], UNCHANGED rows
      PROVE  SerialInv'
  <2> DEFINE v == [req[r] EXCEPT !.pc = pc]
  <2>1. req' = [req EXCEPT ![r] = v]
    BY <1>9, <1>type
  <2>2. v.pc = pc /\ v.bundle = req[r].bundle
    BY <1>type DEF Request
  <2> HIDE DEF v
  <2>3. Alone'
    BY <1>1, <1>9, <2>1, <2>2
  <2>4. SnapshotIsCurrent' /\ CommittedStaysActive' /\ AtMostOneActive'
    BY <1>2, <1>9, <2>1, <2>2
  <2>5. QED
    BY <1>0, <2>3, <2>4 DEF SerialInv
<1>10. ASSUME NEW r \in Requests, NEW b \in Bundles, NEW auto \in BOOLEAN,
              PullRemoveOld(r, b, auto)
       PROVE  SerialInv'
  <2> DEFINE v == [Idle EXCEPT !.pc = "move", !.bundle = b, !.auto = auto]
  <2>1. v.pc = "move" /\ v.bundle = b
    BY DEF Idle
  <2>2. req' = [req EXCEPT ![r] = v] /\ rows' = rows /\ MayBegin(r, NetOf[b])
    BY <1>10 DEF PullRemoveOld
  <2> HIDE DEF v
  <2>3. Alone'
    BY <1>1, <2>1, <2>2
  <2>4. SnapshotIsCurrent' /\ CommittedStaysActive' /\ AtMostOneActive'
    BY <1>2, <2>1, <2>2
  <2>5. QED
    BY <1>0, <2>3, <2>4 DEF SerialInv
<1>11. ASSUME NEW r \in Requests, PullRegister(r)
       PROVE  SerialInv'
  <2> DEFINE v == IF req[r].auto THEN [req[r] EXCEPT !.pc = "activate"] ELSE Idle
  <2>1. req' = [req EXCEPT ![r] = v] /\ Busy(r) /\ req[r].bundle \in Bundles
    BY <1>11, <1>type DEF PullRegister, Busy
  <2>2. v.pc = "idle" \/ (v.pc = "activate" /\ v.bundle = req[r].bundle)
    BY <1>type, <1>idle DEF Request
  <2> HIDE DEF v
  <2>3. Alone'
    BY <1>1, <2>1, <2>2
  <2>4. SnapshotIsCurrent' /\ CommittedStaysActive' /\ AtMostOneActive'
    BY <1>6, <1>11, <2>1, <2>2 DEF PullRegister
  <2>5. QED
    BY <1>0, <2>3, <2>4 DEF SerialInv
<1>12. ASSUME NEW r \in Requests, Begin(r)
       PROVE  SerialInv'
  BY <1>3, <1>4, <1>7, <1>10, <1>12 DEF Begin, Activate
<1>13. ASSUME NEW r \in Requests, Continue(r)
       PROVE  SerialInv'
  <2>1. CASE AutoActivate(r)
    BY <1>3, <1>type, <2>1 DEF AutoActivate, Busy
  <2>2. CASE WritePointer(r)
    BY <1>9, <2>2 DEF WritePointer, Busy
  <2>3. CASE PullMoveIn(r)
    BY <1>9, <2>3 DEF PullMoveIn, Busy
  <2>4. CASE NotifyRuntime(r)
    BY <1>8, <2>4 DEF NotifyRuntime
  <2>5. CASE PullConflict(r)
    BY <1>8, <2>5 DEF PullConflict
  <2>6. QED
    BY <1>5, <1>11, <1>13, <2>1, <2>2, <2>3, <2>4, <2>5 DEF Continue
<1>14. ASSUME NEW r \in Requests, Fail(r)
       PROVE  SerialInv'
  BY <1>8, <1>14 DEF Fail
<1>15. CASE Crash
  <2>1. \A q \in Requests : req'[q].pc = "idle"
    BY <1>15, <1>idle DEF Crash
  <2>2. rows' = rows
    BY <1>15 DEF Crash
  <2>3. QED
    BY <1>0, <2>1, <2>2
       DEF SerialInv, Alone, SnapshotIsCurrent, CommittedStaysActive, AtMostOneActive, Busy
<1>16. CASE UNCHANGED vars
  BY <1>0, <1>16
     DEF vars, SerialInv, Alone, SnapshotIsCurrent, CommittedStaysActive, AtMostOneActive,
         Busy, OfNet
<1>17. QED
  BY <1>12, <1>13, <1>14, <1>15, <1>16 DEF Next

\* When the callers of each network take turns, the deactivation of siblings in
\* repo.activate_bundle leaves at most one active row per network, through
\* rollbacks, re-pulls, exceptions and crashes.
THEOREM SerialCallersOneActive ==
    ASSUME Serialized
    PROVE  Spec => []AtMostOneActive
<1>1. Spec => []SerialInv
  BY SerialInit, SerialStep, PTL DEF Spec
<1>2. QED
  BY <1>1, PTL DEF SerialInv

\* Under the same condition, every write of active.json names the bundle that the
\* table calls active at that moment, even when earlier writes were lost.
THEOREM SerialCallersTruthfulPointer ==
    ASSUME Serialized
    PROVE  Spec => PointerWritesActive
<1>1. SerialInv /\ [Next]_vars
        => [\A n \in Networks :
              pointer'[n] # pointer[n] => rows'[pointer'[n].bundle].isActive]_vars
  <2> SUFFICES ASSUME SerialInv, Next, NEW n \in Networks, pointer'[n] # pointer[n]
               PROVE  rows'[pointer'[n].bundle].isActive
    BY DEF SerialInv
  <2>1. PICK r \in Requests : WritePointer(r)
    BY Writers
  <2>2. pointer'[n].bundle = req[r].bundle
    BY <2>1 DEF WritePointer, SerialInv, TypeInv, TypeOK
  <2>3. QED
    BY <2>1, <2>2 DEF WritePointer, SerialInv, CommittedStaysActive
<1>2. Spec => []SerialInv
  BY SerialInit, SerialStep, PTL DEF Spec
<1>3. QED
  BY <1>1, <1>2, PTL DEF Spec, PointerWritesActive
-----------------------------------------------------------------------------
(***************************************************************************)
(* When the callers of a network take turns, the columns of a row agree,   *)
(* and so do the table and active.json.                                    *)
(***************************************************************************)

\* While nothing failed, active.json names the active row of its network or none, or
\* somebody is about to write it.
SyncInv ==
    faults = 0 => \A n \in Networks :
        \/ \E r \in Requests : req[r].pc = "pointer" /\ NetOf[req[r].bundle] = n
        \/ \A b \in OfNet(n) : rows[b].isActive <=> b = pointer[n].bundle

AgreeInv == SerialInv /\ PointerInv /\ ActiveStatusHasFlag /\ SyncInv

\* On an up-to-date snapshot the flush writes what the transaction wants.
LEMMA SerialFlush ==
    ASSUME rows \in [Bundles -> Row],
           NEW q \in Request, q.bundle \in Bundles,
           NEW x \in Bundles, q.seen[x] = rows[x]
    PROVE  /\ Flushed(q)[x].status = Wanted(q)[x].status
           /\ Flushed(q)[x].isActive = Wanted(q)[x].isActive
  BY DEF Flushed, Column

\* Neither an activation nor a rollback leaves a status "active" without its flag.
LEMMA WantedAgrees ==
    ASSUME NEW q \in Request, NEW x \in Bundles,
           q.seen[x].status = "active" => q.seen[x].isActive
    PROVE  Wanted(q)[x].status = "active" => Wanted(q)[x].isActive
<1>1. q.seen \in [Bundles -> Row]
  BY DEF Request
<1>2. ASSUME NEW table \in [Bundles -> Row], table[x].status = "active" => table[x].isActive
      PROVE  LET act == Activated(table, q.bundle, q.stamp)[x] IN
             act.status = "active" => act.isActive
  <2>1. CASE x = q.bundle
    BY <2>1 DEF Activated
  <2>2. CASE x # q.bundle /\ NetOf[x] = NetOf[q.bundle] /\ table[x].isActive
    BY <2>2 DEF Activated
  <2>3. CASE x # q.bundle /\ ~(NetOf[x] = NetOf[q.bundle] /\ table[x].isActive)
    BY <1>2, <2>3 DEF Activated
  <2>4. QED
    BY <2>1, <2>2, <2>3
<1>3. /\ RolledBack(q.seen, q.previous) \in [Bundles -> Row]
      /\ RolledBack(q.seen, q.previous)[x].status = "active"
            => RolledBack(q.seen, q.previous)[x].isActive
  <2>1. RolledBack(q.seen, q.previous) \in [Bundles -> Row]
    BY <1>1 DEF RolledBack, Row, Status
  <2>2. /\ x = q.previous => RolledBack(q.seen, q.previous)[x].status = "rolled_back"
        /\ x # q.previous => RolledBack(q.seen, q.previous)[x] = q.seen[x]
    BY <1>1 DEF RolledBack, Row
  <2>3. QED
    BY <2>1, <2>2
<1>4. QED
  BY <1>1, <1>2, <1>3 DEF Wanted

\* What a commit does to the network of its bundle, and to the others.
LEMMA CommitAgrees ==
    ASSUME AgreeInv, NEW r \in Requests, TxnCommit(r)
    PROVE  ActiveStatusHasFlag' /\ SyncInv'
<1> DEFINE q == req[r]
<1>1. /\ rows \in [Bundles -> Row] /\ q \in Request /\ q.bundle \in Bundles
      /\ req \in [Requests -> Request]
  BY DEF AgreeInv, SerialInv, TypeInv, TypeOK, BusyHasBundle, Busy, TxnCommit
<1>2. /\ \A b \in OfNet(NetOf[q.bundle]) : q.seen[b] = rows[b]
      /\ q.op = "restore" => q.previous \in OfNet(NetOf[q.bundle])
  BY DEF AgreeInv, SerialInv, SnapshotIsCurrent, TxnCommit
<1>3. rows' = Flushed(q) /\ UNCHANGED <<pointer, faults>>
  BY DEF TxnCommit
<1>4. \A x \in Bundles :
          /\ NetOf[x] = NetOf[q.bundle] => (rows'[x].isActive <=> x = q.bundle)
          /\ NetOf[x] # NetOf[q.bundle] => rows'[x] = rows[x]
  BY <1>1, <1>2, <1>3, SerialCommit
<1>5. /\ req'[r].pc = "pointer" /\ req'[r].bundle = q.bundle
      /\ \A p \in Requests \ {r} : req'[p] = req[p]
  BY <1>1 DEF TxnCommit, Request
<1>6. q.pc = "commit"
  BY DEF TxnCommit
<1> HIDE DEF q
<1>7. ASSUME NEW x \in Bundles PROVE rows'[x].status = "active" => rows'[x].isActive
  <2>1. rows[x].status = "active" => rows[x].isActive
    BY DEF AgreeInv, ActiveStatusHasFlag
  <2>2. CASE NetOf[x] = NetOf[q.bundle]
    <3>1. q.seen[x] = rows[x]
      BY <1>2, <2>2 DEF OfNet
    <3>2. /\ rows'[x].status = Wanted(q)[x].status
          /\ rows'[x].isActive = Wanted(q)[x].isActive
      BY <1>1, <1>3, <3>1, SerialFlush
    <3>3. QED
      BY <1>1, <2>1, <3>1, <3>2, WantedAgrees
  <2>3. CASE NetOf[x] # NetOf[q.bundle]
    BY <1>4, <2>1, <2>3
  <2>4. QED
    BY <2>2, <2>3
<1>8. SyncInv'
  <2> SUFFICES ASSUME faults = 0, NEW n \in Networks,
                      ~ \E p \in Requests : req'[p].pc = "pointer" /\ NetOf[req'[p].bundle] = n
               PROVE  \A b \in OfNet(n) : rows'[b].isActive <=> b = pointer[n].bundle
    BY <1>3 DEF SyncInv, OfNet
  <2>1. n # NetOf[q.bundle]
    BY <1>5
  <2>2. ~ \E p \in Requests : req[p].pc = "pointer" /\ NetOf[req[p].bundle] = n
    BY <1>5, <1>6 DEF q
  <2>3. QED
    BY <1>4, <2>1, <2>2 DEF AgreeInv, SyncInv, OfNet
<1>9. QED
  BY <1>7, <1>8 DEF ActiveStatusHasFlag

LEMMA WriteAgrees ==
    ASSUME AgreeInv, NEW r \in Requests, WritePointer(r)
    PROVE  SyncInv'
<1>1. /\ req[r].bundle \in Bundles /\ rows[req[r].bundle].isActive
      /\ req[r].pc = "pointer" /\ rows' = rows /\ faults' = faults
      /\ pointer \in [Networks -> Pointer] /\ req \in [Requests -> Request]
  BY DEF AgreeInv, SerialInv, TypeInv, TypeOK, BusyHasBundle, Busy, WritePointer,
         CommittedStaysActive
<1>2. /\ pointer'[NetOf[req[r].bundle]].bundle = req[r].bundle
      /\ \A n \in Networks \ {NetOf[req[r].bundle]} : pointer'[n] = pointer[n]
      /\ \A p \in Requests \ {r} : req'[p] = req[p]
  BY <1>1 DEF WritePointer
<1>3. ASSUME NEW n \in Networks, faults = 0
      PROVE  \/ \E p \in Requests : req'[p].pc = "pointer" /\ NetOf[req'[p].bundle] = n
             \/ \A b \in OfNet(n) : rows'[b].isActive <=> b = pointer'[n].bundle
  <2>1. CASE n = NetOf[req[r].bundle]
    BY <1>1, <1>2, <2>1 DEF AgreeInv, SerialInv, AtMostOneActive, OfNet
  <2>2. CASE n # NetOf[req[r].bundle]
    BY <1>1, <1>2, <1>3, <2>2 DEF AgreeInv, SyncInv
  <2>3. QED
    BY <2>1, <2>2
<1>4. QED
  BY <1>1, <1>3 DEF SyncInv, OfNet

\* Without a commit or a pointer write, no request comes to its pointer write, and one that
\* is there stays there unless a fault ends it.
LEMMA PendingStays ==
    ASSUME TypeInv, [Next]_vars,
           ~ \E r \in Requests : TxnCommit(r) \/ WritePointer(r)
    PROVE  /\ \A r \in Requests : req'[r].pc = "pointer" => req'[r] = req[r]
           /\ \/ faults' = faults + 1
              \/ faults' = faults /\ \A r \in Requests : req[r].pc = "pointer" => req'[r] = req[r]
<1> DEFINE Goal ==
        /\ \A r \in Requests : req'[r].pc = "pointer" => req'[r] = req[r]
        /\ \/ faults' = faults + 1
           \/ faults' = faults /\ \A r \in Requests : req[r].pc = "pointer" => req'[r] = req[r]
<1>1. /\ req \in [Requests -> Request]
      /\ \A r \in Requests : Busy(r) => req[r].bundle \in Bundles
  BY DEF TypeInv, TypeOK, BusyHasBundle
<1>2. ASSUME NEW r \in Requests, NEW v, req' = [req EXCEPT ![r] = v],
             req[r].pc # "pointer", v.pc # "pointer", faults' = faults
      PROVE  Goal
  BY <1>1, <1>2
<1>3. ASSUME NEW r \in Requests, NEW b \in Bundles, ReadForActivation(r, b), req[r].pc # "pointer"
      PROVE  Goal
  <2>1. PICK prev \in BundleOrNone, now \in Now :
            req' = [req EXCEPT ![r] = InTxn("activate", b, prev, now)]
    BY <1>3 DEF ReadForActivation
  <2>2. InTxn("activate", b, prev, now).pc # "pointer" /\ faults' = faults
    BY <1>3 DEF InTxn, ReadForActivation
  <2>3. QED
    BY <1>2, <1>3, <2>1, <2>2
<1>4. ASSUME NEW r \in Requests, NEW n \in Networks, Rollback(r, n) PROVE Goal
  <2>1. PICK cur \in Bundles, prev \in Bundles, now \in Now :
            req' = [req EXCEPT ![r] = InTxn("restore", prev, cur, now)]
    BY <1>4 DEF Rollback
  <2>2. InTxn("restore", prev, cur, now).pc # "pointer" /\ faults' = faults /\ req[r].pc # "pointer"
    BY <1>4 DEF InTxn, Rollback, MayBegin, Busy
  <2>3. QED
    BY <1>2, <2>1, <2>2
<1>5. ASSUME NEW r \in Requests, NEW b \in Bundles, NEW auto \in BOOLEAN,
             PullRemoveOld(r, b, auto)
      PROVE  Goal
  BY <1>2, <1>5 DEF PullRemoveOld, MayBegin, Busy, Idle
<1>6. ASSUME NEW r \in Requests, NEW b \in Bundles, RegisterLocal(r, b) PROVE Goal
  BY <1>6 DEF RegisterLocal
<1>7. ASSUME NEW r \in Requests, NotifyRuntime(r) \/ PullConflict(r) PROVE Goal
  <2>1. /\ req' = [req EXCEPT ![r] = Idle] /\ req[r].pc # "pointer" /\ faults' = faults
        /\ Idle.pc # "pointer"
    BY <1>7 DEF NotifyRuntime, PullConflict, Idle
  <2>2. QED
    BY <1>2, <2>1
<1>8. ASSUME NEW r \in Requests, PullMoveIn(r) \/ PullRegister(r) PROVE Goal
  <2>1. PICK v : req' = [req EXCEPT ![r] = v] /\ v.pc # "pointer"
    <3>1. /\ [req[r] EXCEPT !.pc = "register"].pc = "register"
          /\ [req[r] EXCEPT !.pc = "activate"].pc = "activate"
          /\ Idle.pc = "idle"
      BY <1>1 DEF Request, Idle
    <3>2. \/ req' = [req EXCEPT ![r] = [req[r] EXCEPT !.pc = "register"]]
          \/ req' = [req EXCEPT ![r] = [req[r] EXCEPT !.pc = "activate"]]
          \/ req' = [req EXCEPT ![r] = Idle]
      BY <1>8 DEF PullMoveIn, PullRegister
    <3>3. QED
      BY <3>1, <3>2
  <2>2. req[r].pc # "pointer" /\ faults' = faults
    BY <1>8 DEF PullMoveIn, PullRegister
  <2>3. QED
    BY <1>2, <2>1, <2>2
<1>9. ASSUME NEW r \in Requests, Fail(r) PROVE Goal
  <2>1. req' = [req EXCEPT ![r] = Idle] /\ faults' = faults + 1 /\ Idle.pc = "idle"
    BY <1>9 DEF Fail, Idle
  <2>2. QED
    BY <1>1, <2>1
<1>10. ASSUME Crash PROVE Goal
  BY <1>10 DEF Crash, Idle
<1>11. ASSUME UNCHANGED vars PROVE Goal
  BY <1>11 DEF vars
<1> HIDE DEF Goal
<1>12. ASSUME NEW r \in Requests, Begin(r) PROVE Goal
  BY <1>3, <1>4, <1>5, <1>6, <1>12 DEF Begin, Activate, MayBegin, Busy
<1>13. ASSUME NEW r \in Requests, Continue(r) PROVE Goal
  <2>1. CASE AutoActivate(r)
    BY <1>1, <1>3, <2>1 DEF AutoActivate, Busy
  <2>2. QED
    BY <1>7, <1>8, <1>13, <2>1 DEF Continue
<1>14. Goal
  BY <1>9, <1>10, <1>11, <1>12, <1>13 DEF Next
<1>15. QED
  BY <1>14 DEF Goal

\* The other steps leave the flags and active.json alone, and lose no pending write
\* unless they are faults.
LEMMA OthersAgree ==
    ASSUME AgreeInv, [Next]_vars,
           ~ \E r \in Requests : TxnCommit(r) \/ WritePointer(r)
    PROVE  ActiveStatusHasFlag' /\ SyncInv'
<1>1. /\ rows \in [Bundles -> Row] /\ req \in [Requests -> Request] /\ faults \in Nat
      /\ \A r \in Requests : Busy(r) => req[r].bundle \in Bundles
  BY DEF AgreeInv, SerialInv, TypeInv, TypeOK, BusyHasBundle
<1>2. ASSUME NEW b, upsert_bundle(b)
      PROVE  \A x \in Bundles : /\ rows'[x].isActive = rows[x].isActive
                                /\ rows'[x].status = "active" => rows[x].status = "active"
  BY <1>1, <1>2 DEF upsert_bundle, Row
<1>3. \A x \in Bundles : /\ rows'[x].isActive = rows[x].isActive
                         /\ rows'[x].status = "active" => rows[x].status = "active"
  BY <1>2, Writers
<1>4. pointer' = pointer
  BY Writers
<1>5. \/ faults' = faults + 1
      \/ faults' = faults /\ \A r \in Requests : req[r].pc = "pointer" => req'[r] = req[r]
  BY PendingStays DEF AgreeInv, SerialInv
<1>6. ActiveStatusHasFlag'
  BY <1>3 DEF AgreeInv, ActiveStatusHasFlag
<1>7. SyncInv'
  BY <1>1, <1>3, <1>4, <1>5 DEF AgreeInv, SyncInv, OfNet
<1>8. QED
  BY <1>6, <1>7

LEMMA AgreeStep ==
    ASSUME Serialized, AgreeInv, [Next]_vars
    PROVE  AgreeInv'
<1>1. SerialInv' /\ PointerInv'
  BY SerialStep, PointerInvStep DEF AgreeInv
<1>2. CASE \E r \in Requests : TxnCommit(r)
  BY <1>1, <1>2, CommitAgrees DEF AgreeInv
<1>3. CASE \E r \in Requests : WritePointer(r)
  <2>1. ActiveStatusHasFlag'
    BY <1>3 DEF AgreeInv, ActiveStatusHasFlag, WritePointer
  <2>2. QED
    BY <1>1, <1>3, <2>1, WriteAgrees DEF AgreeInv
<1>4. CASE ~ \E r \in Requests : TxnCommit(r) \/ WritePointer(r)
  BY <1>1, <1>4, OthersAgree DEF AgreeInv
<1>5. QED
  BY <1>2, <1>3, <1>4

LEMMA AgreeInit == Init => AgreeInv
<1> SUFFICES ASSUME Init PROVE AgreeInv
  OBVIOUS
<1>1. ActiveStatusHasFlag /\ SyncInv
  BY DEF Init, ActiveStatusHasFlag, SyncInv, NoRows, NoRow, OfNet
<1>2. QED
  BY <1>1, SerialInit, PointerInvInit DEF AgreeInv

\* When callers take turns, the status column of a row and its is_active agree on who is
\* active, through rollbacks, re-pulls, exceptions and crashes.
THEOREM SerialCallersHonestStatus ==
    ASSUME Serialized
    PROVE  Spec => []ActiveStatusHasFlag
<1>1. Spec => []AgreeInv
  BY AgreeInit, AgreeStep, PTL DEF Spec
<1>2. AgreeInv => ActiveStatusHasFlag
  BY DEF AgreeInv
<1>3. QED
  BY <1>1, <1>2, PTL

\* ... and as long as nothing fails, active.json names the active row of its network
\* whenever no request is under way there.
THEOREM SerialCallersInSync ==
    ASSUME Serialized
    PROVE  Spec => []PointerInSync
<1>1. Spec => []AgreeInv
  BY AgreeInit, AgreeStep, PTL DEF Spec
<1>2. AgreeInv => PointerInSync
  <2> SUFFICES ASSUME AgreeInv, NEW n \in Networks, faults = 0,
                      \A r \in Requests : ~BusyOn(r, n)
               PROVE  get_active_bundle(rows, n, pointer[n].bundle)
    BY DEF PointerInSync
  <2>1. \A b \in OfNet(n) : rows[b].isActive <=> b = pointer[n].bundle
    BY DEF AgreeInv, SyncInv, BusyOn, Busy
  <2>2. pointer[n].bundle = NoBundle \/ pointer[n].bundle \in OfNet(n)
    BY DEF AgreeInv, PointerInv, PublishInv, PointerWasActivated, OfNet, SerialInv, TypeInv,
           TypeOK, Pointer, BundleOrNone
  <2>3. rows \in [Bundles -> Row]
    BY DEF AgreeInv, SerialInv, TypeInv, TypeOK
  <2>4. CASE pointer[n].bundle = NoBundle
    <3>1. ActiveRows(rows, n) = {}
      BY <2>1, <2>4 DEF ActiveRows, OfNet
    <3>2. QED
      BY <2>4, <3>1 DEF get_active_bundle, IsLatest
  <2>5. CASE pointer[n].bundle \in OfNet(n)
    <3>1. ActiveRows(rows, n) = {pointer[n].bundle}
      BY <2>1, <2>5 DEF ActiveRows
    <3>2. rows[pointer[n].bundle].activatedAt <= rows[pointer[n].bundle].activatedAt
      BY <2>3, <2>5 DEF OfNet, Row
    <3>3. QED
      BY <3>1, <3>2 DEF get_active_bundle, IsLatest
  <2>6. QED
    BY <2>2, <2>4, <2>5
<1>3. QED
  BY <1>1, <1>2, PTL
-----------------------------------------------------------------------------
(***************************************************************************)
(* The directory that active.json leads to, however requests interleave.   *)
(***************************************************************************)

\* No transaction makes a row of nothing: what it retires has a row.
NoPhantom ==
    /\ \A b \in Bundles : rows[b].isActive => rows[b].status # "none"
    /\ \A r \in Requests : req[r].pc = "commit" =>
          /\ \A b \in Bundles : req[r].seen[b].isActive => rows[b].status # "none"
          /\ req[r].op = "restore" =>
                req[r].previous \in Bundles /\ rows[req[r].previous].status # "none"

Moving(b) == \E r \in Requests : req[r].pc = "move" /\ req[r].bundle = b

Registering(b) == \E r \in Requests : req[r].pc = "register" /\ req[r].bundle = b

\* A row that leads to the model storage.
Stored(b) == rows[b].status # "none" /\ b \notin elsewhere

\* Every bundle registered there has its directory, or is being pulled again.
OnDiskInv ==
    faults = 0 => \A b \in Bundles :
        Stored(b) \/ Registering(b) => b \in onDisk \/ Moving(b)

DiskInv == PointerInv /\ NoPhantom /\ OnDiskInv

\* A row appears by an upsert only.
LEMMA CommitAddsNoRow ==
    ASSUME rows \in [Bundles -> Row], NEW q \in Request, q.bundle \in Bundles,
           NEW x \in Bundles, x # q.bundle, rows[x].status = "none",
           ~q.seen[x].isActive, q.op = "restore" => x # q.previous
    PROVE  Flushed(q)[x].status = "none"
<1>1. q.seen \in [Bundles -> Row]
  BY DEF Request
<1>2. ASSUME NEW table, table[x] = q.seen[x]
      PROVE  Activated(table, q.bundle, q.stamp)[x] = q.seen[x]
  BY <1>2 DEF Activated
<1>3. q.op = "restore" => RolledBack(q.seen, q.previous)[x] = q.seen[x]
  BY <1>1 DEF RolledBack
<1>4. Wanted(q)[x] = q.seen[x]
  BY <1>2, <1>3 DEF Wanted
<1>5. QED
  BY <1>4 DEF Flushed, Column

\* A commit turns no flag on but that of its bundle.
LEMMA CommitFlags ==
    ASSUME rows \in [Bundles -> Row], NEW q \in Request, q.bundle \in Bundles,
           NEW x \in Bundles, x # q.bundle, Flushed(q)[x].isActive
    PROVE  rows[x].isActive
<1>1. q.seen \in [Bundles -> Row]
  BY DEF Request
<1>2. ASSUME NEW table, table[x].isActive \in BOOLEAN
      PROVE  Activated(table, q.bundle, q.stamp)[x].isActive => table[x].isActive
  <2>1. CASE NetOf[x] = NetOf[q.bundle] /\ table[x].isActive
    BY <2>1
  <2>2. CASE ~(NetOf[x] = NetOf[q.bundle] /\ table[x].isActive)
    BY <2>2 DEF Activated
  <2>3. QED
    BY <2>1, <2>2
<1>3. /\ RolledBack(q.seen, q.previous)[x].isActive \in BOOLEAN
      /\ RolledBack(q.seen, q.previous)[x].isActive => q.seen[x].isActive
  <2>1. CASE x = q.previous
    BY <1>1, <2>1 DEF RolledBack, Row
  <2>2. CASE x # q.previous
    BY <1>1, <2>2 DEF RolledBack, Row
  <2>3. QED
    BY <2>1, <2>2
<1>4. q.seen[x].isActive \in BOOLEAN
  BY <1>1 DEF Row
<1>5. Wanted(q)[x].isActive => q.seen[x].isActive
  BY <1>2, <1>3, <1>4 DEF Wanted
<1>6. QED
  BY <1>5 DEF Flushed, Column

LEMMA PhantomStep ==
    ASSUME PointerInv, NoPhantom, [Next]_vars
    PROVE  NoPhantom'
<1>t. /\ rows \in [Bundles -> Row] /\ req \in [Requests -> Request]
      /\ \A r \in Requests : Busy(r) => req[r].bundle \in Bundles
      /\ TypeInv /\ StampInv
  BY DEF PointerInv, TypeInv, TypeOK, BusyHasBundle
<1>grow. \A b \in Bundles : rows[b].status # "none" => rows'[b].status # "none"
  BY <1>t, RowsGrow
\* Where flags only stay, and a transaction that opens sees the table as it is.
<1>1. ASSUME \A b \in Bundles : rows'[b].isActive => rows'[b].status # "none",
             \A r \in Requests : req'[r].pc = "commit" =>
                 \/ req'[r] = req[r]
                 \/ /\ req'[r].seen = rows
                    /\ req'[r].op = "restore" =>
                          req'[r].previous \in Bundles /\ rows[req'[r].previous].status # "none"
      PROVE  NoPhantom'
  BY <1>1, <1>grow DEF NoPhantom
<1>2. ASSUME NEW r \in Requests, NEW v, req' = [req EXCEPT ![r] = v],
             \/ v.pc # "commit"
             \/ /\ v.seen = rows
                /\ v.op = "restore" => v.previous \in Bundles /\ rows[v.previous].status # "none",
             \A b \in Bundles : rows'[b].isActive = rows[b].isActive
      PROVE  NoPhantom'
  <2>1. \A p \in Requests : req'[p] = IF p = r THEN v ELSE req[p]
    BY <1>2, <1>t
  <2>2. QED
    BY <1>1, <1>2, <1>grow, <2>1 DEF NoPhantom
<1>3. ASSUME NEW r \in Requests, NEW b \in Bundles, ReadForActivation(r, b) PROVE NoPhantom'
  <2>1. PICK prev \in BundleOrNone, now \in Now :
            clock' = now /\ req' = [req EXCEPT ![r] = InTxn("activate", b, prev, now)]
    BY <1>3 DEF ReadForActivation
  <2>2. InTxn("activate", b, prev, now).op = "activate" /\ InTxn("activate", b, prev, now).seen = rows
    BY DEF InTxn
  <2>3. rows' = rows
    BY <1>3 DEF ReadForActivation
  <2>4. QED
    BY <1>2, <2>1, <2>2, <2>3
<1>4. ASSUME NEW r \in Requests, NEW n \in Networks, Rollback(r, n) PROVE NoPhantom'
  <2>1. PICK cur \in Bundles, prev \in Bundles, now \in Now :
            /\ get_active_bundle(rows, n, cur)
            /\ req' = [req EXCEPT ![r] = InTxn("restore", prev, cur, now)]
    BY <1>4 DEF Rollback
  <2>2. /\ InTxn("restore", prev, cur, now).previous = cur
        /\ InTxn("restore", prev, cur, now).seen = rows
    BY DEF InTxn
  <2>3. rows[cur].isActive
    BY <2>1 DEF get_active_bundle, IsLatest, ActiveRows
  <2>4. rows' = rows
    BY <1>4 DEF Rollback
  <2>5. QED
    BY <1>2, <2>1, <2>2, <2>3, <2>4 DEF NoPhantom
<1>5. ASSUME NEW r \in Requests, TxnCommit(r) PROVE NoPhantom'
  <2>1. req[r] \in Request /\ req[r].bundle \in Bundles
    BY <1>5, <1>t DEF TxnCommit, Busy
  <2>2. rows[req[r].bundle].status # "none"
    BY <1>5, <1>t DEF TxnCommit, StampInv
  <2>3. \A x \in Bundles : rows'[x].isActive => rows'[x].status # "none"
    BY <1>5, <1>t, <1>grow, <2>1, <2>2, CommitFlags DEF TxnCommit, NoPhantom
  <2>4. \A p \in Requests : req'[p].pc = "commit" => req'[p] = req[p]
    BY <1>5, <1>t DEF TxnCommit
  <2>5. QED
    BY <1>1, <2>3, <2>4
<1>6. ASSUME NEW b, upsert_bundle(b)
      PROVE  \A x \in Bundles : rows'[x].isActive = rows[x].isActive
  BY <1>6, <1>t DEF upsert_bundle, Row
<1>7. ASSUME NEW r \in Requests, req' = [req EXCEPT ![r] = Idle],
             \A b \in Bundles : rows'[b].isActive = rows[b].isActive
      PROVE  NoPhantom'
  BY <1>2, <1>7 DEF Idle
<1>8. ASSUME NEW r \in Requests, NEW pc, pc # "commit", req' = [req EXCEPT ![r].pc = pc],
             \A b \in Bundles : rows'[b].isActive = rows[b].isActive
      PROVE  NoPhantom'
  <2>1. [req[r] EXCEPT !.pc = pc].pc = pc
    BY <1>t DEF Request
  <2>2. QED
    BY <1>2, <1>8, <2>1
<1>9. ASSUME NEW r \in Requests, Begin(r) PROVE NoPhantom'
  <2>1. ASSUME NEW b \in Bundles, NEW auto \in BOOLEAN, PullRemoveOld(r, b, auto)
        PROVE  NoPhantom'
    BY <1>2, <2>1 DEF PullRemoveOld, Idle
  <2>2. ASSUME NEW b \in Bundles, RegisterLocal(r, b) PROVE NoPhantom'
    <3>1. req' = [req EXCEPT ![r] = req[r]] /\ req[r].pc # "commit"
      BY <2>2, <1>t DEF RegisterLocal, MayBegin, Busy
    <3>2. QED
      BY <1>2, <1>6, <2>2, <3>1 DEF RegisterLocal
  <2>3. QED
    BY <1>3, <1>4, <1>9, <2>1, <2>2 DEF Begin, Activate
<1>10. ASSUME NEW r \in Requests, Continue(r) PROVE NoPhantom'
  <2>1. CASE AutoActivate(r)
    BY <1>3, <1>t, <2>1 DEF AutoActivate, Busy
  <2>2. CASE WritePointer(r) \/ PullMoveIn(r)
    BY <1>8, <2>2 DEF WritePointer, PullMoveIn
  <2>3. CASE NotifyRuntime(r) \/ PullConflict(r)
    BY <1>7, <2>3 DEF NotifyRuntime, PullConflict
  <2>4. CASE PullRegister(r)
    <3>1. \A x \in Bundles : rows'[x].isActive = rows[x].isActive
      BY <1>6, <2>4 DEF PullRegister
    <3>2. \/ req' = [req EXCEPT ![r] = Idle]
          \/ req' = [req EXCEPT ![r].pc = "activate"]
      BY <2>4 DEF PullRegister
    <3>3. QED
      BY <1>7, <1>8, <3>1, <3>2
  <2>5. QED
    BY <1>5, <1>10, <2>1, <2>2, <2>3, <2>4 DEF Continue
<1>11. ASSUME NEW r \in Requests, Fail(r) PROVE NoPhantom'
  BY <1>7, <1>11 DEF Fail
<1>12. CASE Crash
  BY <1>1, <1>12 DEF Crash, Idle, NoPhantom
<1>13. CASE UNCHANGED vars
  BY <1>13 DEF vars, NoPhantom
<1>14. QED
  BY <1>9, <1>10, <1>11, <1>12, <1>13 DEF Next

LEMMA OnDiskStep ==
    ASSUME DiskInv, [Next]_vars
    PROVE  OnDiskInv'
<1>t. /\ rows \in [Bundles -> Row] /\ req \in [Requests -> Request] /\ faults \in Nat
      /\ \A r \in Requests : Busy(r) => req[r].bundle \in Bundles
      /\ PointerInv /\ NoPhantom
  BY DEF DiskInv, PointerInv, TypeInv, TypeOK, BusyHasBundle
<1> SUFFICES ASSUME faults' = 0
             PROVE  \A b \in Bundles :
                       Stored(b)' \/ Registering(b)' => b \in onDisk' \/ Moving(b)'
  BY DEF OnDiskInv
<1> DEFINE Goal == \A b \in Bundles :
                       Stored(b)' \/ Registering(b)' => b \in onDisk' \/ Moving(b)'
<1>old. ASSUME faults = 0, NEW b \in Bundles, Stored(b) \/ Registering(b)
        PROVE  b \in onDisk \/ Moving(b)
  BY <1>old DEF DiskInv, OnDiskInv
\* A step of a request that neither comes from the move nor gets to the registration.
<1>1. ASSUME NEW r \in Requests, NEW v, req' = [req EXCEPT ![r] = v], faults = 0,
             req[r].pc # "move", v.pc # "register", onDisk' = onDisk,
             \A b \in Bundles : Stored(b)' => Stored(b) \/ Registering(b) \/ b \in onDisk
      PROVE  Goal
  <2>1. \A p \in Requests : req'[p] = IF p = r THEN v ELSE req[p]
    BY <1>1, <1>t
  <2>2. \A b : (Moving(b) => Moving(b)') /\ (Registering(b)' => Registering(b))
    BY <1>1, <2>1 DEF Moving, Registering
  <2>3. QED
    BY <1>1, <1>old, <2>2
<1>2. ASSUME NEW r \in Requests, NEW b \in Bundles, ReadForActivation(r, b), req[r].pc # "move"
      PROVE  Goal
  <2>1. PICK prev \in BundleOrNone, now \in Now :
            clock' = now /\ req' = [req EXCEPT ![r] = InTxn("activate", b, prev, now)]
    BY <1>2 DEF ReadForActivation
  <2>2. InTxn("activate", b, prev, now).pc # "register"
    BY DEF InTxn
  <2>3. UNCHANGED <<rows, onDisk, elsewhere, faults>>
    BY <1>2 DEF ReadForActivation
  <2>4. QED
    BY <1>1, <1>2, <2>1, <2>2, <2>3 DEF Stored
<1>3. ASSUME NEW r \in Requests, NEW n \in Networks, Rollback(r, n) PROVE Goal
  <2>1. PICK cur \in Bundles, prev \in Bundles, now \in Now :
            req' = [req EXCEPT ![r] = InTxn("restore", prev, cur, now)]
    BY <1>3 DEF Rollback
  <2>2. InTxn("restore", prev, cur, now).pc # "register"
    BY DEF InTxn
  <2>3. UNCHANGED <<rows, onDisk, elsewhere, faults>> /\ req[r].pc # "move"
    BY <1>3 DEF Rollback, MayBegin, Busy
  <2>4. QED
    BY <1>1, <2>1, <2>2, <2>3 DEF Stored
<1>4. ASSUME NEW r \in Requests, TxnCommit(r) PROVE Goal
  <2> DEFINE v == [req[r] EXCEPT !.pc = "pointer", !.seen = NoRows, !.stamp = 0]
  <2>1. req[r] \in Request /\ req[r].bundle \in Bundles /\ req[r].pc = "commit"
    BY <1>4, <1>t DEF TxnCommit, Busy
  <2>2. req' = [req EXCEPT ![r] = v]
    BY <1>4, <1>t DEF TxnCommit
  <2>3. v.pc = "pointer"
    BY <2>1 DEF Request
  <2>4. ASSUME NEW b \in Bundles, rows'[b].status # "none" PROVE rows[b].status # "none"
    <3>1. CASE b = req[r].bundle
      BY <1>t, <2>1, <3>1 DEF PointerInv, StampInv
    <3>2. CASE b # req[r].bundle
      <4>1. SUFFICES ASSUME rows[b].status = "none" PROVE rows'[b].status = "none"
        BY <2>4
      <4>2. ~req[r].seen[b].isActive /\ (req[r].op = "restore" => b # req[r].previous)
        BY <1>t, <2>1, <4>1 DEF NoPhantom
      <4>3. rows' = Flushed(req[r])
        BY <1>4 DEF TxnCommit
      <4>4. QED
        BY <1>t, <2>1, <3>2, <4>1, <4>2, <4>3, CommitAddsNoRow
    <3>3. QED
      BY <3>1, <3>2
  <2>5. UNCHANGED <<onDisk, elsewhere, faults>>
    BY <1>4 DEF TxnCommit
  <2> HIDE DEF v
  <2>6. QED
    BY <1>1, <2>1, <2>2, <2>3, <2>4, <2>5 DEF Stored
<1>5. ASSUME NEW r \in Requests, NEW b \in Bundles, NEW auto \in BOOLEAN, PullRemoveOld(r, b, auto)
      PROVE  Goal
  <2> DEFINE v == [Idle EXCEPT !.pc = "move", !.bundle = b, !.auto = auto]
  <2>1. v.pc = "move" /\ v.bundle = b
    BY DEF Idle
  <2>2. /\ req' = [req EXCEPT ![r] = v] /\ UNCHANGED <<rows, elsewhere, faults>>
        /\ onDisk' = onDisk \ {b} /\ req[r].pc = "idle"
    BY <1>5 DEF PullRemoveOld, MayBegin, Busy
  <2> HIDE DEF v
  <2>3. \A p \in Requests : req'[p] = IF p = r THEN v ELSE req[p]
    BY <2>2, <1>t
  <2>4. /\ \A c : (Moving(c) => Moving(c)') /\ (Registering(c)' => Registering(c))
        /\ Moving(b)'
    BY <2>1, <2>2, <2>3 DEF Moving, Registering
  <2>5. \A c : Stored(c)' => Stored(c)
    BY <2>2 DEF Stored
  <2>6. QED
    BY <1>old, <2>2, <2>4, <2>5
<1>6. ASSUME NEW r \in Requests, PullMoveIn(r) PROVE Goal
  <2> DEFINE v == [req[r] EXCEPT !.pc = "register"]
  <2>1. /\ req' = [req EXCEPT ![r] = v] /\ UNCHANGED <<rows, elsewhere, faults>>
        /\ onDisk' = onDisk \cup {req[r].bundle}
    BY <1>6 DEF PullMoveIn
  <2>2. v.bundle = req[r].bundle /\ v.pc = "register"
    BY <1>t DEF Request
  <2> HIDE DEF v
  <2>3. \A p \in Requests : req'[p] = IF p = r THEN v ELSE req[p]
    BY <2>1, <1>t
  <2>4. \A c : c # req[r].bundle =>
            (Moving(c) => Moving(c)') /\ (Registering(c)' => Registering(c))
    BY <2>2, <2>3 DEF Moving, Registering
  <2>5. \A c : Stored(c)' => Stored(c)
    BY <2>1 DEF Stored
  <2>6. QED
    BY <1>old, <2>1, <2>4, <2>5
<1>7. ASSUME NEW r \in Requests, PullRegister(r) PROVE Goal
  <2> DEFINE v == IF req[r].auto THEN [req[r] EXCEPT !.pc = "activate"] ELSE Idle
  <2>1. /\ req' = [req EXCEPT ![r] = v] /\ UNCHANGED <<onDisk, faults>>
        /\ req[r].pc = "register" /\ upsert_bundle(req[r].bundle)
        /\ elsewhere' = elsewhere \ {req[r].bundle}
    BY <1>7 DEF PullRegister
  <2>2. v.pc # "register"
    BY <1>t DEF Idle, Request
  <2>3. Registering(req[r].bundle)
    BY <2>1 DEF Registering
  <2>4. \A b \in Bundles : Stored(b)' => Stored(b) \/ Registering(b)
    BY <2>1, <2>3, <1>t DEF upsert_bundle, Stored
  <2> HIDE DEF v
  <2>5. QED
    BY <1>1, <2>1, <2>2, <2>4
<1>8. ASSUME NEW r \in Requests, NEW b \in Bundles, RegisterLocal(r, b) PROVE Goal
  <2>1. /\ req' = [req EXCEPT ![r] = req[r]] /\ req[r].pc = "idle"
        /\ UNCHANGED <<onDisk, faults>>
    BY <1>8, <1>t DEF RegisterLocal, MayBegin, Busy
  <2>2. \A c \in Bundles : Stored(c)' => Stored(c) \/ c \in onDisk
    BY <1>8, <1>t DEF RegisterLocal, upsert_bundle, Stored
  <2>3. QED
    BY <1>1, <2>1, <2>2
\* A request that ends, or goes on to its pointer's notification.
<1>9. ASSUME NEW r \in Requests,
             \/ NotifyRuntime(r) \/ PullConflict(r)
             \/ WritePointer(r)
      PROVE  Goal
  <2>1. PICK v : req' = [req EXCEPT ![r] = v] /\ v.pc \in {"idle", "notify"}
    <3>1. [req[r] EXCEPT !.pc = "notify"].pc = "notify" /\ Idle.pc = "idle"
      BY <1>t DEF Request, Idle
    <3>2. \/ req' = [req EXCEPT ![r] = Idle]
          \/ req' = [req EXCEPT ![r] = [req[r] EXCEPT !.pc = "notify"]]
      BY <1>9 DEF NotifyRuntime, PullConflict, WritePointer
    <3>3. QED
      BY <3>1, <3>2
  <2>2. UNCHANGED <<rows, onDisk, elsewhere, faults>> /\ req[r].pc # "move"
    BY <1>9 DEF NotifyRuntime, PullConflict, WritePointer
  <2>3. QED
    BY <1>1, <2>1, <2>2 DEF Stored
<1> HIDE DEF Goal
<1>10. ASSUME NEW r \in Requests, Begin(r) PROVE Goal
  BY <1>2, <1>3, <1>5, <1>8, <1>10 DEF Begin, Activate, MayBegin, Busy
<1>11. ASSUME NEW r \in Requests, Continue(r) PROVE Goal
  <2>1. CASE AutoActivate(r)
    BY <1>2, <1>t, <2>1 DEF AutoActivate, Busy
  <2>2. QED
    BY <1>4, <1>6, <1>7, <1>9, <1>11, <2>1 DEF Continue
<1>12. ~Crash /\ \A r \in Requests : ~Fail(r)
  BY <1>t DEF Fail, Crash
<1>13. CASE UNCHANGED vars
  <2>1. /\ UNCHANGED <<rows, onDisk, elsewhere, req>> /\ faults = 0
        /\ \A b : /\ Moving(b)' <=> Moving(b)
                  /\ Registering(b)' <=> Registering(b)
                  /\ Stored(b)' <=> Stored(b)
    BY <1>13 DEF vars, Moving, Registering, Stored
  <2>2. QED
    BY <1>old, <2>1 DEF Goal
<1>14. CASE \E r \in Requests : Begin(r) \/ Continue(r)
  BY <1>10, <1>11, <1>14 DEF Goal
<1>15. UNCHANGED vars \/ \E r \in Requests : Begin(r) \/ Continue(r)
  BY <1>12 DEF Next
<1>16. QED
  BY <1>13, <1>14, <1>15 DEF Goal

\* Until something fails, the directory that active.json leads ai-runtime to is there or
\* in the middle of a pull of that same bundle, however requests overlap, unless a
\* register-local has left the row of that bundle with some other directory.
THEOREM ServedIsOnDisk == Spec => []ServedBundleOnDisk
<1>1. Init => DiskInv
  <2> SUFFICES ASSUME Init PROVE DiskInv
    OBVIOUS
  <2>1. NoPhantom /\ OnDiskInv
    BY DEF Init, NoPhantom, OnDiskInv, Stored, NoRows, NoRow, Idle, Registering
  <2>2. QED
    BY <2>1, PointerInvInit DEF DiskInv
<1>2. DiskInv /\ [Next]_vars => DiskInv'
  BY PointerInvStep, PhantomStep, OnDiskStep DEF DiskInv
<1>3. DiskInv => ServedBundleOnDisk
  BY DEF DiskInv, OnDiskInv, Stored, Moving, PointerInv, PublishInv, PointerWasActivated,
         TypeInv, TypeOK, Pointer, BundleOrNone, ServedBundleOnDisk
<1>4. QED
  BY <1>1, <1>2, <1>3, PTL DEF Spec
-----------------------------------------------------------------------------
(***************************************************************************)
(* When the callers of a network take turns, the table implements the      *)
(* registers of ActivationHistory.                                         *)
(***************************************************************************)

\* What the flags and timestamps of network n say when x is in service.
Keeps(table, n, x) ==
    /\ x \in OfNet(n) \cup {NoBundle}
    /\ \A b \in OfNet(n) : table[b].isActive <=> b = x
    /\ x # NoBundle => table[x].activatedAt # 0
    /\ \A b \in OfNet(n) :
          IF x = NoBundle THEN table[b].activatedAt = 0
                          ELSE table[b].activatedAt <= table[x].activatedAt
    /\ ~WholeSeconds =>
          \A b, c \in OfNet(n) :
              table[b].activatedAt # 0 /\ table[b].activatedAt = table[c].activatedAt => b = c

LEMMA KeepsCurrent ==
    ASSUME NEW table \in [Bundles -> Row], NEW n \in Networks, NEW x, Keeps(table, n, x)
    PROVE  /\ Latest(table, ActiveRows(table, n)) = x
           /\ \A c : get_active_bundle(table, n, c) => c = x
<1>1. OfNet(n) \in SUBSET Bundles /\ NoBundle \notin Bundles
  BY DEF OfNet
<1>2. ActiveRows(table, n) = IF x = NoBundle THEN {} ELSE {x}
  BY <1>1 DEF Keeps, ActiveRows
<1>3. CASE x = NoBundle
  BY <1>2, <1>3 DEF Latest, get_active_bundle, IsLatest
<1>4. CASE x # NoBundle
  <2>1. x \in Bundles
    BY <1>1, <1>4 DEF Keeps
  <2>2. IsLatest(table, {x}, x) /\ \A c : IsLatest(table, {x}, c) => c = x
    BY <2>1 DEF IsLatest, Row
  <2>3. Latest(table, {x}) = x
    BY <2>2 DEF Latest, IsLatest
  <2>4. QED
    BY <1>2, <1>4, <2>2, <2>3 DEF get_active_bundle
<1>5. QED
  BY <1>3, <1>4

\* The targets are the answers of the query.
LEMMA TargetsAnswer ==
    ASSUME NEW table, NEW n, NEW x, NEW b \in Bundles
    PROVE  get_previous_active_bundle(table, n, x, b) <=> b \in Targets(table, n, x)
<1>1. b # NoBundle
  OBVIOUS
<1>2. QED
  BY <1>1 DEF get_previous_active_bundle, IsLatest, Targets

\* They are the newest rows but x that were ever active.
LEMMA TargetsAre ==
    ASSUME NEW table, NEW n, NEW x
    PROVE  Targets(table, n, x)
             = {b \in EverActiveBut(table, n, x) :
                  \A c \in EverActiveBut(table, n, x) :
                      table[c].activatedAt <= table[b].activatedAt}
  BY DEF Targets, IsLatest

\* The registers depend on the flags and the timestamps of the network's rows only.
LEMMA KeepsStable ==
    ASSUME NEW table, NEW new, NEW n, NEW x,
           \A b \in OfNet(n) : /\ new[b].isActive = table[b].isActive
                               /\ new[b].activatedAt = table[b].activatedAt
    PROVE  /\ Keeps(table, n, x) => Keeps(new, n, x)
           /\ Targets(new, n, x) = Targets(table, n, x)
           /\ Keeps(table, n, x) => (TiedWith(new, n, x) <=> TiedWith(table, n, x))
<1>1. Keeps(table, n, x) => Keeps(new, n, x)
  BY DEF Keeps
<1>2. EverActiveBut(new, n, x) = EverActiveBut(table, n, x)
  BY DEF EverActiveBut
<1>3. EverActiveBut(table, n, x) \subseteq OfNet(n)
  BY DEF EverActiveBut
<1>4. Targets(new, n, x) = Targets(table, n, x)
  BY <1>2, <1>3, TargetsAre
<1>5. Targets(table, n, x) \subseteq OfNet(n)
  BY <1>3, TargetsAre
<1>6. ASSUME x \in OfNet(n) PROVE TiedWith(new, n, x) <=> TiedWith(table, n, x)
  BY <1>4, <1>5, <1>6 DEF TiedWith
<1>7. ASSUME Keeps(table, n, NoBundle) PROVE Targets(table, n, NoBundle) = {}
  BY <1>7, TargetsAre DEF Keeps, EverActiveBut
<1>8. ASSUME Keeps(table, n, x) PROVE TiedWith(new, n, x) <=> TiedWith(table, n, x)
  <2>1. CASE x = NoBundle
    BY <1>4, <1>7, <1>8, <2>1 DEF TiedWith
  <2>2. CASE x \in OfNet(n)
    BY <1>6, <2>2
  <2>3. QED
    BY <1>8, <2>1, <2>2 DEF Keeps
<1>9. QED
  BY <1>1, <1>4, <1>8

\* The table new serves b on network n, with a timestamp that is as new as any in table.
Serves(table, new, n, b, stamp) ==
    \A c \in OfNet(n) :
        /\ new[c].isActive <=> c = b
        /\ new[c].activatedAt = IF c = b THEN stamp ELSE table[c].activatedAt
        /\ table[c].activatedAt <= stamp
        /\ ~WholeSeconds => table[c].activatedAt < stamp

\* What was in service joins those displaced in its second, or replaces them.
Displacing(table, n, x, b) ==
    IF x \in {b, NoBundle} THEN Targets(table, n, x)
    ELSE ((IF TiedWith(table, n, x) THEN Targets(table, n, x) ELSE {}) \cup {x}) \ {b}

\* How the registers of network n change when b comes into service after x.
Follows(table, new, n, x, b) ==
    /\ Targets(new, n, b) = Displacing(table, n, x, b)
    /\ ~WholeSeconds => ~TiedWith(table, n, x) /\ ~TiedWith(new, n, b)
    /\ x = b /\ TiedWith(new, n, b) => TiedWith(table, n, x)

LEMMA KeepsSwitch ==
    ASSUME NEW table \in [Bundles -> Row], NEW new, NEW n \in Networks, NEW x,
           Keeps(table, n, x),
           NEW b \in OfNet(n), NEW stamp \in Nat \ {0},
           Serves(table, new, n, b, stamp)
    PROVE  Keeps(new, n, b)
<1>1. \A c \in OfNet(n) : table[c].activatedAt \in Nat /\ c # NoBundle
  BY DEF OfNet, Row
<1>2. ASSUME ~WholeSeconds, NEW c \in OfNet(n), NEW d \in OfNet(n),
             new[c].activatedAt # 0, new[c].activatedAt = new[d].activatedAt
      PROVE  c = d
  BY <1>1, <1>2 DEF Keeps, Serves
<1>3. QED
  BY <1>1, <1>2 DEF Keeps, Serves

LEMMA TargetsSwitch ==
    ASSUME NEW table \in [Bundles -> Row], NEW new, NEW n \in Networks, NEW x,
           Keeps(table, n, x),
           NEW b \in OfNet(n), NEW stamp \in Nat \ {0},
           Serves(table, new, n, b, stamp)
    PROVE  Follows(table, new, n, x, b)
<1> DEFINE at(c) == table[c].activatedAt
           S == {c \in OfNet(n) : c # x /\ at(c) # 0}
           S1 == {c \in OfNet(n) : c # b /\ at(c) # 0}
<1>1. \A c \in OfNet(n) : c \in Bundles /\ at(c) \in Nat /\ c # NoBundle
  BY DEF OfNet, Row
<1>2. /\ \A c \in OfNet(n) : at(c) <= stamp /\ (~WholeSeconds => at(c) < stamp)
      /\ \A c \in OfNet(n) : new[c].activatedAt = IF c = b THEN stamp ELSE at(c)
  BY DEF Serves
<1>3. Targets(table, n, x) = {c \in S : \A d \in S : at(d) <= at(c)}
  <2>1. EverActiveBut(table, n, x) = S
    BY DEF EverActiveBut
  <2>2. QED
    BY <2>1, TargetsAre
<1>4. Targets(new, n, b) = {c \in S1 : \A d \in S1 : at(d) <= at(c)}
  <2>1. EverActiveBut(new, n, b) = S1
    BY <1>2 DEF EverActiveBut
  <2>2. \A c \in S1 : new[c].activatedAt = at(c)
    BY <1>2
  <2>3. QED
    BY <2>1, <2>2, TargetsAre
<1>5. TiedWith(table, n, x) <=> \E c \in Targets(table, n, x) : at(c) = at(x)
  BY <1>3 DEF TiedWith
<1>6. TiedWith(new, n, b) <=> \E c \in Targets(new, n, b) : at(c) = stamp
  BY <1>2, <1>4 DEF TiedWith
<1>7. /\ x # NoBundle => x \in OfNet(n) /\ at(x) # 0
      /\ \A c \in OfNet(n) : IF x = NoBundle THEN at(c) = 0 ELSE at(c) <= at(x)
      /\ ~WholeSeconds => \A c, d \in OfNet(n) : at(c) # 0 /\ at(c) = at(d) => c = d
  BY DEF Keeps
<1> HIDE DEF at
<1>8. Targets(new, n, b)
        = IF x \in {b, NoBundle} THEN Targets(table, n, x)
          ELSE ((IF TiedWith(table, n, x) THEN Targets(table, n, x) ELSE {}) \cup {x}) \ {b}
  <2>1. CASE x = b
    BY <1>3, <1>4, <2>1
  <2>2. CASE x = NoBundle
    BY <1>3, <1>4, <1>7, <2>2
  <2>3. CASE x \notin {b, NoBundle}
    <3>1. x \in S1 /\ \A c \in S1 : c \in OfNet(n) /\ at(c) <= at(x)
      BY <1>7, <2>3
    <3>2. Targets(new, n, b) = {c \in S1 : at(c) = at(x)}
      BY <1>1, <1>4, <3>1
    <3>3. CASE TiedWith(table, n, x)
      <4>1. Targets(table, n, x) = {c \in S : at(c) = at(x)}
        BY <1>1, <1>3, <1>5, <1>7, <2>3, <3>3
      <4>2. {c \in S1 : at(c) = at(x)} = ({c \in S : at(c) = at(x)} \cup {x}) \ {b}
        BY <1>7, <2>3
      <4>3. QED
        BY <2>3, <3>2, <3>3, <4>1, <4>2
    <3>4. CASE ~TiedWith(table, n, x)
      <4>1. \A c \in S : at(c) # at(x)
        BY <1>1, <1>3, <1>5, <1>7, <2>3, <3>4
      <4>2. {c \in S1 : at(c) = at(x)} = {x}
        BY <1>7, <2>3, <4>1
      <4>3. QED
        BY <2>3, <3>2, <3>4, <4>2
    <3>5. QED
      BY <3>3, <3>4
  <2>4. QED
    BY <2>1, <2>2, <2>3
<1>9. ASSUME ~WholeSeconds PROVE ~TiedWith(table, n, x) /\ ~TiedWith(new, n, b)
  <2>1. ~TiedWith(table, n, x)
    BY <1>3, <1>5, <1>7, <1>9
  <2>2. ~TiedWith(new, n, b)
    BY <1>1, <1>2, <1>4, <1>6, <1>9
  <2>3. QED
    BY <2>1, <2>2
<1>10. ASSUME x = b, TiedWith(new, n, b) PROVE TiedWith(table, n, x)
  <2>1. PICK c \in Targets(new, n, b) : at(c) = stamp
    BY <1>6, <1>10
  <2>2. c \in OfNet(n) /\ c \in Targets(table, n, x)
    BY <1>4, <1>8, <1>10, <2>1
  <2>3. at(c) = at(x)
    BY <1>1, <1>2, <1>7, <1>10, <2>1, <2>2
  <2>4. QED
    BY <1>5, <2>2, <2>3
<1>11. QED
  BY <1>8, <1>9, <1>10 DEF Displacing, Follows

\* What a transaction on network n has read: what is in service there, and for a
\* rollback one of the targets.
HasRead(q, n) ==
    /\ q.op \in {"activate", "restore"}
    /\ Keeps(rows, n, q.previous)
    /\ q.op = "restore" => q.bundle \in Targets(rows, n, q.previous)

HistoryInv ==
    /\ \A n \in Networks : \E x : Keeps(rows, n, x)
    /\ \A r \in Requests : req[r].pc = "commit" => HasRead(req[r], NetOf[req[r].bundle])

HistInv == SerialInv /\ PointerInv /\ HistoryInv

\* What a commit does to the table: it serves its bundle, with a timestamp that is as new
\* as any of the network, and touches no other network.
LEMMA CommitServes ==
    ASSUME SerialInv, PointerInv, NEW r \in Requests, TxnCommit(r)
    PROVE  LET q == req[r]
               n == NetOf[q.bundle]
           IN
           /\ n \in Networks /\ q.bundle \in OfNet(n) /\ q.stamp \in Nat \ {0}
           /\ Serves(rows, rows', n, q.bundle, q.stamp)
           /\ \A c \in Bundles : NetOf[c] # n => rows'[c] = rows[c]
<1> DEFINE q == req[r]
           net == NetOf[req[r].bundle]
<1>1. /\ rows \in [Bundles -> Row] /\ q \in Request /\ q.bundle \in Bundles
      /\ q.stamp \in Nat /\ net \in Networks
  BY DEF SerialInv, TypeInv, TypeOK, BusyHasBundle, Busy, TxnCommit, Request
<1>2. /\ \A b \in OfNet(net) : q.seen[b] = rows[b]
      /\ q.op = "restore" => q.previous \in OfNet(net)
  BY DEF SerialInv, SnapshotIsCurrent, TxnCommit
<1>3. /\ q.stamp # 0
      /\ \A b \in Bundles : /\ q.seen[b].activatedAt <= q.stamp
                            /\ ~WholeSeconds => q.seen[b].activatedAt < q.stamp
  BY DEF PointerInv, StampInv, TxnCommit
<1>4. rows' = Flushed(q)
  BY DEF TxnCommit
<1>5. q.bundle \in OfNet(net)
  BY <1>1 DEF OfNet
<1>6. \A c \in Bundles :
          /\ NetOf[c] = net => (rows'[c].isActive <=> c = q.bundle)
          /\ NetOf[c] # net => rows'[c] = rows[c]
          /\ rows'[c].activatedAt = IF c = q.bundle THEN q.stamp ELSE rows[c].activatedAt
  BY <1>1, <1>2, <1>4, SerialCommit, CommitEffect
<1> HIDE DEF q, net
<1>7. \A c \in OfNet(net) : c \in Bundles /\ NetOf[c] = net
  BY DEF OfNet
<1>8. Serves(rows, rows', net, q.bundle, q.stamp)
  BY <1>2, <1>3, <1>6, <1>7 DEF Serves
<1>9. QED
  BY <1>1, <1>3, <1>5, <1>6, <1>8 DEF q, net

\* So the registers of its network change as ActivationHistory says, and no others.
LEMMA CommitSwitches ==
    ASSUME SerialInv, PointerInv, NEW r \in Requests, TxnCommit(r), NEW x,
           NEW b, b = req[r].bundle, NEW net, net = NetOf[b]
    PROVE  /\ b \in OfNet(net) /\ net \in Networks
           /\ Keeps(rows, net, x) => Keeps(rows', net, b) /\ Follows(rows, rows', net, x, b)
           /\ \A n \in Networks \ {net} : \A c \in OfNet(n) : rows'[c] = rows[c]
<1> DEFINE stamp == req[r].stamp
<1>1. /\ net \in Networks /\ b \in OfNet(net) /\ stamp \in Nat \ {0}
      /\ Serves(rows, rows', net, b, stamp)
      /\ \A c \in Bundles : NetOf[c] # net => rows'[c] = rows[c]
  BY CommitServes
<1>2. rows \in [Bundles -> Row]
  BY DEF SerialInv, TypeInv, TypeOK
<1> HIDE DEF stamp
<1>3. ASSUME Keeps(rows, net, x) PROVE Keeps(rows', net, b)
  BY <1>1, <1>2, <1>3, KeepsSwitch
<1>4. ASSUME Keeps(rows, net, x)
      PROVE  Follows(rows, rows', net, x, b)
  BY <1>1, <1>2, <1>4, TargetsSwitch
<1>5. \A n \in Networks \ {net} : \A c \in OfNet(n) : rows'[c] = rows[c]
  BY <1>1 DEF OfNet
<1>6. QED
  BY <1>1, <1>3, <1>4, <1>5

\* The other steps leave the flags and the timestamps alone.
LEMMA OthersKeep ==
    ASSUME TypeInv, [Next]_vars, ~ \E r \in Requests : TxnCommit(r)
    PROVE  /\ \A b \in Bundles : /\ rows'[b].isActive = rows[b].isActive
                                 /\ rows'[b].activatedAt = rows[b].activatedAt
           /\ UNCHANGED lastEvent
<1>1. rows \in [Bundles -> Row]
  BY DEF TypeInv, TypeOK
<1>2. ASSUME NEW b, upsert_bundle(b)
      PROVE  \A x \in Bundles : /\ rows'[x].isActive = rows[x].isActive
                                /\ rows'[x].activatedAt = rows[x].activatedAt
  BY <1>1, <1>2 DEF upsert_bundle, Row
<1>3. QED
  BY <1>2, Writers

\* A transaction opens with the registers it read.
LEMMA TxnOpens ==
    ASSUME HistInv, [Next]_vars, NEW r \in Requests, req'[r].pc = "commit"
    PROVE  req'[r] = req[r] \/ HasRead(req'[r], NetOf[req'[r].bundle])
<1> DEFINE Goal == req'[r] = req[r] \/ HasRead(req'[r], NetOf[req'[r].bundle])
<1>t. rows \in [Bundles -> Row] /\ req \in [Requests -> Request]
      /\ NetOf \in [Bundles -> Networks]
  BY DEF HistInv, SerialInv, TypeInv, TypeOK
<1>1. ASSUME NEW q \in Requests, NEW v, req' = [req EXCEPT ![q] = v],
             v.pc # "commit" \/ HasRead(v, NetOf[v.bundle])
      PROVE  Goal
  BY <1>1, <1>t
<1>2. ASSUME NEW q \in Requests, NEW b \in Bundles, ReadForActivation(q, b) PROVE Goal
  <2>1. PICK prev \in BundleOrNone, now \in Now :
            /\ get_active_bundle(rows, NetOf[b], prev)
            /\ req' = [req EXCEPT ![q] = InTxn("activate", b, prev, now)]
    BY <1>2 DEF ReadForActivation
  <2> DEFINE v == InTxn("activate", b, prev, now)
  <2>2. v.op = "activate" /\ v.bundle = b /\ v.previous = prev
    BY DEF InTxn
  <2> HIDE DEF v
  <2>3. NetOf[b] \in Networks
    BY <1>t
  <2>4. PICK x : Keeps(rows, NetOf[b], x)
    BY <2>3 DEF HistInv, HistoryInv
  <2>5. prev = x
    BY <1>t, <2>1, <2>3, <2>4, KeepsCurrent
  <2>6. HasRead(v, NetOf[v.bundle])
    BY <2>2, <2>4, <2>5 DEF HasRead
  <2>7. req' = [req EXCEPT ![q] = v]
    BY <2>1 DEF v
  <2>8. QED
    BY <1>1, <2>6, <2>7
<1>3. ASSUME NEW q \in Requests, NEW n \in Networks, Rollback(q, n) PROVE Goal
  <2>1. PICK cur \in Bundles, prev \in Bundles, now \in Now :
            /\ get_active_bundle(rows, n, cur)
            /\ get_previous_active_bundle(rows, n, cur, prev)
            /\ req' = [req EXCEPT ![q] = InTxn("restore", prev, cur, now)]
    BY <1>3 DEF Rollback
  <2> DEFINE v == InTxn("restore", prev, cur, now)
  <2>2. v.op = "restore" /\ v.bundle = prev /\ v.previous = cur
    BY DEF InTxn
  <2> HIDE DEF v
  <2>3. PICK x : Keeps(rows, n, x)
    BY DEF HistInv, HistoryInv
  <2>4. cur = x
    BY <1>t, <2>1, <2>3, KeepsCurrent
  <2>5. prev \in Targets(rows, n, cur)
    BY <2>1, TargetsAnswer
  <2>6. NetOf[prev] = n
    BY <2>5, TargetsAre DEF EverActiveBut, OfNet
  <2>7. HasRead(v, NetOf[v.bundle])
    BY <2>2, <2>3, <2>4, <2>5, <2>6 DEF HasRead
  <2>8. req' = [req EXCEPT ![q] = v]
    BY <2>1 DEF v
  <2>9. QED
    BY <1>1, <2>7, <2>8
<1>4. ASSUME NEW q \in Requests, req' = [req EXCEPT ![q] = Idle] PROVE Goal
  BY <1>1, <1>4 DEF Idle
<1>5. ASSUME NEW q \in Requests, NEW pc, pc # "commit", req' = [req EXCEPT ![q].pc = pc]
      PROVE  Goal
  <2>1. [req[q] EXCEPT !.pc = pc].pc = pc
    BY <1>t DEF Request
  <2>2. QED
    BY <1>1, <1>5, <2>1
<1>6. ASSUME NEW q \in Requests, NEW b \in Bundles, NEW auto \in BOOLEAN,
             PullRemoveOld(q, b, auto)
      PROVE  Goal
  BY <1>1, <1>6 DEF PullRemoveOld, Idle
<1>7. ASSUME NEW q \in Requests, NEW b \in Bundles, RegisterLocal(q, b) PROVE Goal
  BY <1>7 DEF RegisterLocal
<1>8. ASSUME NEW q \in Requests, TxnCommit(q) PROVE Goal
  <2>1. [req[q] EXCEPT !.pc = "pointer", !.seen = NoRows, !.stamp = 0].pc # "commit"
    BY <1>t DEF Request
  <2>2. req' = [req EXCEPT ![q] = [req[q] EXCEPT !.pc = "pointer", !.seen = NoRows, !.stamp = 0]]
    BY <1>t, <1>8 DEF TxnCommit
  <2>3. QED
    BY <1>1, <2>1, <2>2
<1> HIDE DEF Goal
<1>9. ASSUME NEW q \in Requests, Begin(q) PROVE Goal
  BY <1>2, <1>3, <1>6, <1>7, <1>9 DEF Begin, Activate
<1>10. ASSUME NEW q \in Requests, Continue(q) PROVE Goal
  <2>1. CASE AutoActivate(q)
    <3>1. req[q].bundle \in Bundles
      BY <2>1 DEF AutoActivate, HistInv, SerialInv, TypeInv, BusyHasBundle, Busy
    <3>2. QED
      BY <1>2, <2>1, <3>1 DEF AutoActivate
  <2>2. CASE WritePointer(q) \/ PullMoveIn(q)
    BY <1>5, <2>2 DEF WritePointer, PullMoveIn
  <2>3. CASE NotifyRuntime(q) \/ PullConflict(q)
    BY <1>4, <2>3 DEF NotifyRuntime, PullConflict
  <2>4. CASE PullRegister(q)
    <3>1. req' = [req EXCEPT ![q] = Idle] \/ req' = [req EXCEPT ![q].pc = "activate"]
      BY <2>4 DEF PullRegister
    <3>2. QED
      BY <1>4, <1>5, <3>1
  <2>5. QED
    BY <1>8, <1>10, <2>1, <2>2, <2>3, <2>4 DEF Continue
<1>11. ASSUME NEW q \in Requests, Fail(q) PROVE Goal
  BY <1>4, <1>11 DEF Fail
<1>12. ~Crash
  BY DEF Crash, Idle
<1>13. ASSUME UNCHANGED vars PROVE Goal
  BY <1>13 DEF vars, Goal
<1>14. Goal
  BY <1>9, <1>10, <1>11, <1>12, <1>13 DEF Next
<1>15. QED
  BY <1>14 DEF Goal

LEMMA HistInit == Init => HistInv
<1> SUFFICES ASSUME Init PROVE HistInv
  OBVIOUS
<1>1. \A n \in Networks : Keeps(rows, n, NoBundle)
  BY DEF Init, Keeps, NoRows, NoRow, OfNet
<1>2. \A r \in Requests : req[r].pc = "idle"
  BY DEF Init, Idle
<1>3. QED
  BY <1>1, <1>2, SerialInit, PointerInvInit DEF HistInv, HistoryInv

\* Where the flags and the timestamps of its network stay, what a transaction read stays true.
LEMMA ReadStays ==
    ASSUME NEW q, NEW n, HasRead(q, n),
           \A b \in OfNet(n) : /\ rows'[b].isActive = rows[b].isActive
                               /\ rows'[b].activatedAt = rows[b].activatedAt
    PROVE  /\ q.op \in {"activate", "restore"}
           /\ Keeps(rows', n, q.previous)
           /\ q.op = "restore" => q.bundle \in Targets(rows', n, q.previous)
BY KeepsStable DEF HasRead

LEMMA HistStep ==
    ASSUME Serialized, HistInv, [Next]_vars
    PROVE  HistInv'
<1>1. SerialInv' /\ PointerInv'
  BY SerialStep, PointerInvStep DEF HistInv
<1>t. /\ rows \in [Bundles -> Row] /\ req \in [Requests -> Request] /\ TypeInv
      /\ NetOf \in [Bundles -> Networks]
      /\ \A q \in Requests : Busy(q) => req[q].bundle \in Bundles
  BY DEF HistInv, SerialInv, TypeInv, TypeOK, BusyHasBundle
\* The registers of every network, and what a request that stays in its transaction read.
<1>2. ASSUME \A n \in Networks : \E x : Keeps(rows', n, x),
             \A r \in Requests : req'[r].pc = "commit" =>
                LET q == req'[r]  n == NetOf[req'[r].bundle] IN
                HasRead(q, n) /\ \A b \in OfNet(n) : /\ rows'[b].isActive = rows[b].isActive
                                                     /\ rows'[b].activatedAt = rows[b].activatedAt
      PROVE  HistoryInv'
  <2>1. ASSUME NEW r \in Requests, req'[r].pc = "commit"
        PROVE  LET q == req'[r]  n == NetOf[req'[r].bundle] IN
               /\ q.op \in {"activate", "restore"}
               /\ Keeps(rows', n, q.previous)
               /\ q.op = "restore" => q.bundle \in Targets(rows', n, q.previous)
    BY <1>2, <2>1, ReadStays
  <2>2. QED
    BY <1>2, <2>1 DEF HistoryInv, HasRead
<1>3. ASSUME NEW r \in Requests, TxnCommit(r) PROVE HistoryInv'
  <2> DEFINE net == NetOf[req[r].bundle]
  <2>1. ASSUME NEW n \in Networks PROVE \E x : Keeps(rows', n, x)
    <3>1. PICK x : Keeps(rows, n, x)
      BY DEF HistInv, HistoryInv
    <3>2. CASE n = net
      BY <1>3, <3>1, <3>2, CommitSwitches DEF HistInv
    <3>3. CASE n # net
      <4>1. \A c \in OfNet(n) : rows'[c] = rows[c]
        BY <1>3, <3>3, CommitSwitches DEF HistInv
      <4>2. QED
        BY <3>1, <4>1, KeepsStable
    <3>4. QED
      BY <3>2, <3>3
  <2>2. \A q \in Requests : req'[q].pc = "commit" =>
            q # r /\ req'[q] = req[q] /\ Busy(q) /\ req[q].bundle \in Bundles
    BY <1>3, <1>t DEF TxnCommit, Busy
  <2>3. \A q \in Requests \ {r} : Busy(q) => NetOf[req[q].bundle] # net
    BY <1>3 DEF HistInv, SerialInv, Alone, TxnCommit, Busy
  <2>4. ASSUME NEW q \in Requests, req'[q].pc = "commit"
        PROVE  /\ HasRead(req'[q], NetOf[req'[q].bundle])
               /\ \A b \in OfNet(NetOf[req'[q].bundle]) : rows'[b] = rows[b]
    <3>1. HasRead(req[q], NetOf[req[q].bundle]) /\ req'[q] = req[q]
      BY <2>2, <2>4 DEF HistInv, HistoryInv
    <3>2. NetOf[req[q].bundle] \in Networks \ {net}
      BY <1>t, <2>2, <2>3, <2>4
    <3>3. \A b \in OfNet(NetOf[req[q].bundle]) : rows'[b] = rows[b]
      BY <1>3, <3>2, CommitSwitches DEF HistInv
    <3>4. QED
      BY <3>1, <3>3
  <2>5. QED
    BY <1>2, <2>1, <2>4
<1>4. ASSUME ~ \E r \in Requests : TxnCommit(r) PROVE HistoryInv'
  <2>1. \A b \in Bundles : /\ rows'[b].isActive = rows[b].isActive
                           /\ rows'[b].activatedAt = rows[b].activatedAt
    BY <1>4, <1>t, OthersKeep
  <2>2. \A n : \A b \in OfNet(n) : /\ rows'[b].isActive = rows[b].isActive
                                   /\ rows'[b].activatedAt = rows[b].activatedAt
    BY <2>1 DEF OfNet
  <2>3. ASSUME NEW n \in Networks PROVE \E x : Keeps(rows', n, x)
    <3>1. PICK x : Keeps(rows, n, x)
      BY DEF HistInv, HistoryInv
    <3>2. QED
      BY <2>2, <3>1, KeepsStable
  <2>4. ASSUME NEW r \in Requests, req'[r].pc = "commit"
        PROVE  HasRead(req'[r], NetOf[req'[r].bundle])
    <3>1. CASE req'[r] = req[r]
      BY <2>4, <3>1 DEF HistInv, HistoryInv
    <3>2. CASE HasRead(req'[r], NetOf[req'[r].bundle])
      BY <3>2
    <3>3. QED
      BY <2>4, <3>1, <3>2, TxnOpens
  <2>5. QED
    BY <1>2, <2>2, <2>3, <2>4
<1>5. QED
  BY <1>1, <1>3, <1>4 DEF HistInv

\* A commit is a step of ActivationHistory.
LEMMA CommitRefines ==
    ASSUME HistInv, TypeInv', NEW r \in Requests, TxnCommit(r)
    PROVE  History!Next
<1>q. PICK q, b, x, net : q = req[r] /\ b = q.bundle /\ x = q.previous /\ net = NetOf[b]
  OBVIOUS
<1>t. rows \in [Bundles -> Row] /\ rows' \in [Bundles -> Row]
  BY DEF HistInv, SerialInv, TypeInv, TypeOK
<1>1. HasRead(q, net)
  BY <1>q DEF HistInv, HistoryInv, TxnCommit
<1>2. /\ b \in OfNet(net) /\ b \in Bundles /\ net \in Networks
      /\ Keeps(rows, net, x) /\ Keeps(rows', net, b) /\ Follows(rows, rows', net, x, b)
      /\ \A n \in Networks \ {net} : \A c \in OfNet(n) : rows'[c] = rows[c]
  <2>1. Keeps(rows, net, x)
    BY <1>1, <1>q DEF HasRead
  <2>2. /\ b \in OfNet(net) /\ net \in Networks
        /\ Keeps(rows', net, b) /\ Follows(rows, rows', net, x, b)
        /\ \A n \in Networks \ {net} : \A c \in OfNet(n) : rows'[c] = rows[c]
    BY <1>q, <2>1, CommitSwitches DEF HistInv
  <2>3. QED
    BY <2>1, <2>2 DEF OfNet
<1>3. lastEvent' = [lastEvent EXCEPT ![net] = q.op]
  BY <1>q DEF TxnCommit
<1>4. q.op \in {"activate", "restore"} /\ (q.op = "restore" => b \in Targets(rows, net, x))
  BY <1>1, <1>q DEF HasRead
<1>5. Current(net) = x /\ Current(net)' = b
  <2>1. Current(net) = x
    BY <1>2, <1>t, KeepsCurrent DEF Current
  <2>2. Current(net)' = b
    BY <1>2, <1>t, KeepsCurrent DEF Current
  <2>3. QED
    BY <2>1, <2>2
<1>6. ASSUME NEW n \in Networks \ {net}
      PROVE  /\ Current(n)' = Current(n)
             /\ Targets(rows', n, Current(n)') = Targets(rows, n, Current(n))
             /\ TiedWith(rows', n, Current(n)') <=> TiedWith(rows, n, Current(n))
  <2>1. PICK y : Keeps(rows, n, y)
    BY DEF HistInv, HistoryInv
  <2>2. Keeps(rows', n, y) /\ Targets(rows', n, y) = Targets(rows, n, y)
        /\ (TiedWith(rows', n, y) <=> TiedWith(rows, n, y))
    BY <1>2, <2>1, KeepsStable
  <2>3. Current(n) = y /\ Current(n)' = y
    BY <1>t, <2>1, <2>2, KeepsCurrent DEF Current
  <2>4. QED
    BY <2>2, <2>3
<1> DEFINE current == [n \in Networks |-> Current(n)]
           displaced == [n \in Networks |-> Targets(rows, n, Current(n))]
           sameSecond == [n \in Networks |-> TiedWith(rows, n, Current(n))]
<1>7. current[net] = x /\ current' = [current EXCEPT ![net] = b]
  BY <1>2, <1>5, <1>6
<1>8. /\ displaced[net] = Targets(rows, net, x)
      /\ displaced' = [displaced EXCEPT ![net] = Displacing(rows, net, x, b)]
  <2>1. Targets(rows', net, b) = Displacing(rows, net, x, b)
    BY <1>2 DEF Follows
  <2>2. QED
    BY <1>2, <1>5, <1>6, <2>1
<1>9. sameSecond[net] = TiedWith(rows, net, x) /\ sameSecond' = [sameSecond EXCEPT ![net] = TiedWith(rows', net, b)]
  <2>1. \A n \in Networks : TiedWith(rows, n, Current(n))' = IF n = net THEN TiedWith(rows', net, b) ELSE sameSecond[n]
    BY <1>2, <1>5, <1>6 DEF TiedWith
  <2>2. QED
    BY <1>2, <1>5, <2>1
<1>10. Displacing(rows, net, x, b) = History!Displaced(net, b)
  BY <1>7, <1>8, <1>9 DEF Displacing, History!Displaced
<1>11. TiedWith(rows', net, b) \in History!SameSecond(net, b)
  <2>1. TiedWith(rows', net, b) \in BOOLEAN
    BY DEF TiedWith
  <2>2. History!Displaced(net, b) = Targets(rows', net, b)
    BY <1>2, <1>10 DEF Follows
  <2>3. CASE ~WholeSeconds \/ History!Displaced(net, b) = {}
    <3>1. ~TiedWith(rows', net, b)
      BY <1>2, <2>2, <2>3 DEF Follows, TiedWith
    <3>2. TiedWith(rows', net, b) = FALSE
      BY <2>1, <3>1
    <3>3. History!SameSecond(net, b) = {FALSE}
      BY <2>3 DEF History!SameSecond
    <3>4. QED
      BY <3>2, <3>3
  <2>4. ASSUME WholeSeconds, History!Displaced(net, b) # {}, x = b
        PROVE  TiedWith(rows', net, b) \in History!SameSecond(net, b)
    <3>1. History!SameSecond(net, b) = {FALSE, sameSecond[net]}
      BY <1>7, <2>4 DEF History!SameSecond
    <3>2. TiedWith(rows', net, b) = FALSE \/ TiedWith(rows', net, b) = sameSecond[net]
      <4>1. CASE TiedWith(rows', net, b)
        <5>1. TiedWith(rows, net, x)
          BY <1>2, <2>4, <4>1 DEF Follows
        <5>2. TiedWith(rows', net, b) = TiedWith(rows, net, x)
          BY <4>1, <5>1
        <5>3. QED
          BY <1>9, <5>2
      <4>2. CASE ~TiedWith(rows', net, b)
        BY <2>1, <4>2
      <4>3. QED
        BY <4>1, <4>2
    <3>3. QED
      BY <3>1, <3>2
  <2>5. ASSUME WholeSeconds, History!Displaced(net, b) # {}, x # b
        PROVE  TiedWith(rows', net, b) \in History!SameSecond(net, b)
    <3>1. History!SameSecond(net, b) = BOOLEAN
      BY <1>7, <2>5 DEF History!SameSecond
    <3>2. QED
      BY <2>1, <3>1
  <2>6. QED
    BY <2>3, <2>4, <2>5
<1>12. History!Switch(net, b)
  BY <1>7, <1>8, <1>9, <1>10, <1>11 DEF History!Switch
<1>13. CASE q.op = "activate"
  BY <1>2, <1>3, <1>12, <1>13 DEF History!Next, History!Activate
<1>14. CASE q.op = "restore"
  BY <1>2, <1>3, <1>4, <1>8, <1>12, <1>14 DEF History!Next, History!Rollback
<1>15. QED
  BY <1>4, <1>13, <1>14

\* Every other step leaves the registers and the recorded switch as they are.
LEMMA OthersStutter ==
    ASSUME HistInv, TypeInv', [Next]_vars, ~ \E r \in Requests : TxnCommit(r)
    PROVE  UNCHANGED History!vars
<1>t. rows \in [Bundles -> Row] /\ rows' \in [Bundles -> Row] /\ TypeInv
  BY DEF HistInv, SerialInv, TypeInv, TypeOK
<1>1. /\ \A b \in Bundles : /\ rows'[b].isActive = rows[b].isActive
                            /\ rows'[b].activatedAt = rows[b].activatedAt
      /\ UNCHANGED lastEvent
  BY <1>t, OthersKeep
<1>2. ASSUME NEW n \in Networks
      PROVE  /\ Current(n)' = Current(n)
             /\ Targets(rows', n, Current(n)') = Targets(rows, n, Current(n))
             /\ TiedWith(rows', n, Current(n)') <=> TiedWith(rows, n, Current(n))
  <2>1. PICK y : Keeps(rows, n, y)
    BY DEF HistInv, HistoryInv
  <2>2. /\ Keeps(rows', n, y) /\ Targets(rows', n, y) = Targets(rows, n, y)
        /\ TiedWith(rows', n, y) <=> TiedWith(rows, n, y)
    <3>1. \A c \in OfNet(n) : /\ rows'[c].isActive = rows[c].isActive
                              /\ rows'[c].activatedAt = rows[c].activatedAt
      BY <1>1 DEF OfNet
    <3>2. QED
      BY <2>1, <3>1, KeepsStable
  <2>3. Current(n) = y
    BY <1>t, <2>1, KeepsCurrent DEF Current
  <2>4. Current(n)' = y
    BY <1>t, <2>2, KeepsCurrent DEF Current
  <2>5. QED
    BY <2>2, <2>3, <2>4
<1>3. \A n \in Networks : TiedWith(rows, n, Current(n))' = TiedWith(rows, n, Current(n))
  <2>1. \A n \in Networks : TiedWith(rows, n, Current(n))' <=> TiedWith(rows, n, Current(n))
    BY <1>2
  <2>2. QED
    BY <2>1 DEF TiedWith
<1>4. QED
  BY <1>1, <1>2, <1>3 DEF History!vars

\* For every number of bundles, networks and requests: as long as the callers of a
\* network take turns, the columns is_active and activated_at implement the abstract
\* history, in which a rollback returns to a bundle that was displaced in the second of the
\* last displacement, and to the one displaced last where the database keeps fractions of
\* a second, through re-pulls, repeated activations, earlier rollbacks, exceptions and
\* crashes.
THEOREM SerialCallersKeepHistory ==
    ASSUME Serialized
    PROVE  Spec => Refines
<1>1. Spec => []HistInv
  BY HistInit, HistStep, PTL DEF Spec
<1>2. Init => History!Init
  <2> SUFFICES ASSUME Init PROVE History!Init
    OBVIOUS
  <2>1. ASSUME NEW n \in Networks
        PROVE  /\ Current(n) = NoBundle
               /\ Targets(rows, n, Current(n)) = {}
               /\ TiedWith(rows, n, Current(n)) = FALSE
    <3>1. ActiveRows(rows, n) = {} /\ EverActiveBut(rows, n, NoBundle) = {}
      BY DEF Init, NoRows, NoRow, ActiveRows, EverActiveBut, OfNet
    <3>2. Current(n) = NoBundle
      BY <3>1 DEF Current, Latest
    <3>3. Targets(rows, n, NoBundle) = {}
      BY <3>1, TargetsAre
    <3>4. ~TiedWith(rows, n, NoBundle)
      BY <3>3 DEF TiedWith
    <3>5. TiedWith(rows, n, Current(n)) = FALSE
      BY <3>2, <3>4 DEF TiedWith
    <3>6. QED
      BY <3>2, <3>3, <3>5
  <2>2. QED
    BY <2>1 DEF Init, History!Init
<1>3. HistInv /\ HistInv' /\ [Next]_vars => [History!Next]_(History!vars)
  <2> SUFFICES ASSUME HistInv, HistInv', [Next]_vars PROVE [History!Next]_(History!vars)
    OBVIOUS
  <2>1. TypeInv'
    BY DEF HistInv, SerialInv
  <2>2. CASE \E r \in Requests : TxnCommit(r)
    BY <2>1, <2>2, CommitRefines
  <2>3. CASE ~ \E r \in Requests : TxnCommit(r)
    BY <2>1, <2>3, OthersStutter
  <2>4. QED
    BY <2>2, <2>3
<1>4. QED
  BY <1>1, <1>2, <1>3, PTL DEF Spec, Refines, History!Spec
-----------------------------------------------------------------------------
(***************************************************************************)
(* What a rollback returns to, and what active.json records as displaced.  *)
(***************************************************************************)

\* p answers the query of a rollback from b, unless b displaced nothing; no other bundle
\* does where the database keeps fractions of a second.
Undoes(table, n, b, p) ==
    p \notin {NoBundle, b} => /\ p \in Targets(table, n, b)
                              /\ WholeSeconds \/ Targets(table, n, b) = {p}

PendingOn(n) == \E r \in Requests : req[r].pc = "pointer" /\ NetOf[req[r].bundle] = n

\* This is so for what a request is about to write, and for what active.json says where
\* no request is about to write it.
UndoInv ==
    /\ \A r \in Requests : req[r].pc = "pointer" =>
          Undoes(rows, NetOf[req[r].bundle], req[r].bundle, req[r].previous)
    /\ faults = 0 =>
          \A n \in Networks :
              PendingOn(n) \/ Undoes(rows, n, pointer[n].bundle, pointer[n].previous)

\* A commit makes it so for its own request.
LEMMA CommitUndoes ==
    ASSUME HistInv, UndoInv, NEW r \in Requests, TxnCommit(r)
    PROVE  UndoInv'
<1>q. PICK b, x, net : b = req[r].bundle /\ x = req[r].previous /\ net = NetOf[b]
  OBVIOUS
<1>t. /\ req \in [Requests -> Request] /\ req[r].pc = "commit"
      /\ req' = [req EXCEPT ![r] = [req[r] EXCEPT !.pc = "pointer", !.seen = NoRows, !.stamp = 0]]
      /\ pointer' = pointer /\ faults' = faults
      /\ \A p, q \in Requests :
            Busy(p) /\ Busy(q) /\ NetOf[req[p].bundle] = NetOf[req[q].bundle] => p = q
      /\ \A p \in Requests : Busy(p) => NetOf[req[p].bundle] \in Networks
  BY DEF HistInv, SerialInv, TypeInv, TypeOK, TxnCommit, Alone, BusyHasBundle
<1>1. Keeps(rows, net, x)
  BY <1>q DEF HistInv, HistoryInv, HasRead, TxnCommit
<1>2. /\ Follows(rows, rows', net, x, b) /\ b \in OfNet(net)
      /\ \A n \in Networks \ {net} : \A c \in OfNet(n) : rows'[c] = rows[c]
  BY <1>q, <1>1, CommitSwitches DEF HistInv
<1>3. Undoes(rows', net, b, x)
  <2>1. ASSUME x \notin {NoBundle, b}
        PROVE  /\ x \in Targets(rows', net, b)
               /\ WholeSeconds \/ Targets(rows', net, b) = {x}
    <3>1. /\ Targets(rows', net, b) = Displacing(rows, net, x, b)
          /\ WholeSeconds \/ ~TiedWith(rows, net, x)
      BY <1>2 DEF Follows
    <3>2. QED
      BY <2>1, <3>1 DEF Displacing
  <2>2. QED
    BY <2>1 DEF Undoes
<1>4. ASSUME NEW n \in Networks \ {net}, NEW c, NEW p, Undoes(rows, n, c, p)
      PROVE  Undoes(rows', n, c, p)
  <2>1. Targets(rows', n, c) = Targets(rows, n, c)
    BY <1>2, KeepsStable
  <2>2. QED
    BY <1>4, <2>1 DEF Undoes
<1>5. /\ req'[r].pc = "pointer" /\ req'[r].bundle = b /\ req'[r].previous = x
      /\ \A p \in Requests \ {r} : req'[p] = req[p]
  BY <1>q, <1>t DEF Request
<1>6. ASSUME NEW p \in Requests, req'[p].pc = "pointer"
      PROVE  Undoes(rows', NetOf[req'[p].bundle], req'[p].bundle, req'[p].previous)
  <2>1. CASE p = r
    BY <1>q, <1>3, <1>5, <2>1
  <2>2. CASE p # r
    <3>1. NetOf[req[p].bundle] \in Networks \ {net} /\ req[p].pc = "pointer" /\ req'[p] = req[p]
      BY <1>q, <1>t, <1>5, <1>6, <2>2 DEF Busy
    <3>2. QED
      BY <1>4, <3>1 DEF UndoInv
  <2>3. QED
    BY <2>1, <2>2
<1>7. ASSUME NEW n \in Networks, faults' = 0
      PROVE  PendingOn(n)' \/ Undoes(rows', n, pointer'[n].bundle, pointer'[n].previous)
  <2>1. CASE n = net
    BY <1>q, <1>5, <2>1 DEF PendingOn
  <2>2. CASE n # net
    <3>1. PendingOn(n) => PendingOn(n)'
      BY <1>t, <1>5 DEF PendingOn
    <3>2. PendingOn(n) \/ Undoes(rows, n, pointer[n].bundle, pointer[n].previous)
      BY <1>t, <1>7 DEF UndoInv
    <3>3. QED
      BY <1>t, <1>4, <2>2, <3>1, <3>2
  <2>3. QED
    BY <2>1, <2>2
<1>8. QED
  BY <1>6, <1>7 DEF UndoInv, Undoes

\* The write of active.json records what its request committed.
LEMMA WriteUndoes ==
    ASSUME HistInv, UndoInv, NEW r \in Requests, WritePointer(r)
    PROVE  UndoInv'
<1>q. PICK b, x, net : b = req[r].bundle /\ x = req[r].previous /\ net = NetOf[b]
  OBVIOUS
<1>t. /\ req \in [Requests -> Request] /\ pointer \in [Networks -> Pointer]
      /\ req[r].pc = "pointer" /\ rows' = rows /\ faults' = faults /\ net \in Networks
      /\ req' = [req EXCEPT ![r] = [req[r] EXCEPT !.pc = "notify"]]
      /\ pointer' = [pointer EXCEPT ![net] = [bundle |-> b, previous |-> x]]
  BY <1>q DEF HistInv, SerialInv, TypeInv, TypeOK, WritePointer, BusyHasBundle, Busy
<1>1. /\ req'[r].pc = "notify"
      /\ \A p \in Requests \ {r} : req'[p] = req[p]
  BY <1>t DEF Request
<1>2. Undoes(rows, net, b, x)
  BY <1>q, <1>t DEF UndoInv
<1>3. ASSUME NEW p \in Requests, req'[p].pc = "pointer"
      PROVE  Undoes(rows', NetOf[req'[p].bundle], req'[p].bundle, req'[p].previous)
  BY <1>t, <1>1, <1>3 DEF UndoInv
<1>4. ASSUME NEW n \in Networks, faults' = 0
      PROVE  PendingOn(n)' \/ Undoes(rows', n, pointer'[n].bundle, pointer'[n].previous)
  <2>1. CASE n = net
    BY <1>t, <1>2, <2>1
  <2>2. CASE n # net
    <3>1. PendingOn(n) => PendingOn(n)'
      BY <1>q, <1>t, <1>1, <2>2 DEF PendingOn
    <3>2. PendingOn(n) \/ Undoes(rows, n, pointer[n].bundle, pointer[n].previous)
      BY <1>t, <1>4 DEF UndoInv
    <3>3. QED
      BY <1>t, <2>2, <3>1, <3>2
  <2>3. QED
    BY <2>1, <2>2
<1>5. QED
  BY <1>3, <1>4 DEF UndoInv, Undoes

\* The other steps change neither what the query reads nor active.json.
LEMMA OthersUndo ==
    ASSUME HistInv, UndoInv, [Next]_vars,
           ~ \E r \in Requests : TxnCommit(r) \/ WritePointer(r)
    PROVE  UndoInv'
<1>t. TypeInv /\ faults \in Nat
  BY DEF HistInv, SerialInv, TypeInv, TypeOK
<1>1. \A b \in Bundles : /\ rows'[b].isActive = rows[b].isActive
                         /\ rows'[b].activatedAt = rows[b].activatedAt
  BY <1>t, OthersKeep
<1>2. pointer' = pointer
  BY Writers
<1>3. ASSUME NEW n, NEW c, NEW p, Undoes(rows, n, c, p) PROVE Undoes(rows', n, c, p)
  <2>1. Targets(rows', n, c) = Targets(rows, n, c)
    <3>1. \A b \in OfNet(n) : /\ rows'[b].isActive = rows[b].isActive
                              /\ rows'[b].activatedAt = rows[b].activatedAt
      BY <1>1 DEF OfNet
    <3>2. QED
      BY <3>1, KeepsStable
  <2>2. QED
    BY <1>3, <2>1 DEF Undoes
<1>4. /\ \A r \in Requests : req'[r].pc = "pointer" => req'[r] = req[r]
      /\ \/ faults' = faults + 1
         \/ faults' = faults /\ \A r \in Requests : req[r].pc = "pointer" => req'[r] = req[r]
  BY <1>t, PendingStays
<1>5. ASSUME NEW r \in Requests, req'[r].pc = "pointer"
      PROVE  Undoes(rows', NetOf[req'[r].bundle], req'[r].bundle, req'[r].previous)
  BY <1>3, <1>4, <1>5 DEF UndoInv
<1>6. ASSUME NEW n \in Networks, faults' = 0
      PROVE  PendingOn(n)' \/ Undoes(rows', n, pointer'[n].bundle, pointer'[n].previous)
  <2>1. faults = 0 /\ \A r \in Requests : req[r].pc = "pointer" => req'[r] = req[r]
    BY <1>t, <1>4, <1>6
  <2>2. PendingOn(n) => PendingOn(n)'
    BY <2>1 DEF PendingOn
  <2>3. PendingOn(n) \/ Undoes(rows, n, pointer[n].bundle, pointer[n].previous)
    BY <2>1 DEF UndoInv
  <2>4. QED
    BY <1>2, <1>3, <2>2, <2>3
<1>7. QED
  BY <1>5, <1>6 DEF UndoInv, Undoes

\* For every number of bundles, networks and requests: as long as the callers of a network
\* take turns, a rollback that finds nothing under way may go to the bundle that active.json
\* records as displaced, and to no other where activated_at keeps fractions of a second.
\* (In whole seconds it may also go to one activated in the same second as that bundle.)
THEOREM SerialCallersUndoLastSwitch ==
    ASSUME Serialized
    PROVE  Spec => []RollbackUndoesLastSwitch
<1> DEFINE Inv == HistInv /\ UndoInv
<1>1. Init => Inv
  <2> SUFFICES ASSUME Init PROVE UndoInv
    BY HistInit
  <2>1. /\ \A r \in Requests : req[r].pc # "pointer"
        /\ \A n \in Networks : pointer[n].previous = NoBundle
    BY DEF Init, Idle
  <2>2. QED
    BY <2>1 DEF UndoInv, Undoes
<1>2. Inv /\ [Next]_vars => Inv'
  BY HistStep, CommitUndoes, WriteUndoes, OthersUndo
<1>3. Inv => RollbackUndoesLastSwitch
  <2> SUFFICES ASSUME Inv, NEW n \in Networks, faults = 0,
                      \A r \in Requests : ~BusyOn(r, n),
                      pointer[n].previous \notin {NoBundle, pointer[n].bundle}
               PROVE  /\ get_previous_active_bundle(rows, n, pointer[n].bundle,
                                                    pointer[n].previous)
                      /\ \/ WholeSeconds
                         \/ \A b \in Bundles :
                               get_previous_active_bundle(rows, n, pointer[n].bundle, b)
                                  => b = pointer[n].previous
    BY DEF RollbackUndoesLastSwitch
  <2>1. ~PendingOn(n)
    BY DEF PendingOn, BusyOn, Busy
  <2>2. /\ pointer[n].previous \in Targets(rows, n, pointer[n].bundle)
        /\ \/ WholeSeconds
           \/ Targets(rows, n, pointer[n].bundle) = {pointer[n].previous}
    BY <2>1 DEF UndoInv, Undoes
  <2>3. pointer[n].previous \in Bundles
    BY <2>2 DEF Targets, EverActiveBut, OfNet
  <2>4. QED
    BY <2>2, <2>3, TargetsAnswer
<1>4. QED
  BY <1>1, <1>2, <1>3, PTL DEF Spec
=============================================================================
