------------------------- MODULE SimPipeline_proofs -------------------------
(***************************************************************************)
(* Proofs about SimPipeline, for any sim bundles, networks, snapshots,     *)
(* event ids, verdicts and deployments.                                    *)
(***************************************************************************)
EXTENDS SimPipeline, TLAPS

\* p has been delivered, and is a snapshot of n.
Delivered(p, n) ==
    p \in Payloads /\ PayloadNet[p] = n /\ \E e \in Events : event[e] = p

\* p is one that s can be registered with.
Composed(s, p) == Delivered(p, SimNet[s]) /\ Verdict[s][p] = "composed"

(***************************************************************************)
(* The inductive invariant.  Lineage says where a registered bundle comes  *)
(* from; for that, whatever a pull or a sync is about to register must     *)
(* come from there, and so must what the composers' file and the table of  *)
(* snapshots hold.                                                         *)
(***************************************************************************)

Stored ==
    \A n \in Networks :
        /\ snapshot[n] # None => Delivered(snapshot[n], n)
        /\ compiled[n] # None => Delivered(compiled[n], n)

PullGood(w) ==
    LET q == pull[w] IN
    /\ q.pc # "idle" => q.sim \in Sims
    /\ q.pc \in {"compose", "map", "defer", "register"} => simRow[q.sim] # "none"
    /\ q.pc = "map" => compiled[SimNet[q.sim]] # None
    /\ q.pc = "register" => Composed(q.sim, q.built)

SyncGood(c) ==
    LET q == sync[c] IN
    /\ q.pc # "idle" => q.net \in Networks
    /\ \A s \in q.todo : simRow[s] # "none"
    /\ q.pc \in {"map", "register", "mark", "reject"} => q.sim \in Sims /\ simRow[q.sim] # "none"
    /\ q.pc = "map" => compiled[SimNet[q.sim]] # None
    /\ q.pc = "register" => Composed(q.sim, q.built)
    /\ q.pc = "mark" => runtime[q.sim] # None

Inv ==
    /\ TypeOK
    /\ Stored
    /\ \A w \in Pulls : PullGood(w)
    /\ \A c \in Syncs : SyncGood(c)
    /\ Lineage

(***************************************************************************)
(* What auto-sync does where operators keep out of it: no two threads are  *)
(* on one object, and until its row is written nothing else touches it.    *)
(***************************************************************************)
OnlyAutoSync == deployment.pulls \subseteq AutoPulls

AloneOn(w) ==
    pull[w].pc # "idle" =>
        /\ w \in AutoPulls /\ pull[w].sim \in inProgress
        /\ \A v \in Pulls \ {w} : pull[v].pc # "idle" => pull[v].sim # pull[w].sim

FirstPull(w) ==
    pull[w].sim \notin blind =>
        /\ pull[w].pc \in {"download", "store", "stage"} => simRow[pull[w].sim] = "none"
        /\ pull[w].pc = "stage" => pull[w].sim \in simDir

PullsInv ==
    /\ Inv
    /\ OnlyAutoSync => /\ \A w \in Pulls : AloneOn(w) /\ FirstPull(w)
                       /\ KnownSimOnDisk
-----------------------------------------------------------------------------
(***************************************************************************)
(* Types.                                                                  *)
(***************************************************************************)

LEMMA Constants ==
    /\ \A s \in Sims : SimNet[s] \in Networks
    /\ \A p \in Payloads : PayloadNet[p] \in Networks
    /\ None \notin Sims \cup Payloads
    /\ \A d \in Deployments : d.pulls \subseteq Pulls /\ d.syncs \subseteq Syncs
  BY SimPipelineAssumption

LEMMA Locals == NoPull \in Pull /\ NoSync \in Sync
  BY DEF NoPull, NoSync, Pull, Sync

\* Where NextRetry leads.
LEMMA NextRetryType ==
    ASSUME TypeOK, NEW c \in Syncs, NEW todo \in SUBSET Sims, NextRetry(c, todo)
    PROVE  /\ sync' \in [Syncs -> Sync]
           /\ \A d \in Syncs \ {c} : sync'[d] = sync[d]
           /\ sync'[c].pc \in {"idle", "retry"}
           /\ sync'[c].todo \subseteq todo
           /\ sync'[c].pc # "idle" => sync'[c].net = sync[c].net
  <1>1. sync[c] \in Sync /\ sync \in [Syncs -> Sync]
    BY DEF TypeOK
  <1> DEFINE v == IF todo = {} THEN NoSync
                  ELSE [NoSync EXCEPT !.pc = "retry", !.net = sync[c].net, !.todo = todo]
  <1>2. /\ v \in Sync /\ v.pc \in {"idle", "retry"} /\ v.todo \subseteq todo
        /\ v.pc # "idle" => v.net = sync[c].net
    BY <1>1 DEF NoSync, Sync
  <1>3. sync' = [sync EXCEPT ![c] = v]
    BY DEF NextRetry
  <1> HIDE DEF v
  <1> QED BY <1>1, <1>2, <1>3

LEMMA TypeInit == Init => TypeOK
  BY Constants, Locals DEF Init, TypeOK, SimStatus

LEMMA CompileType ==
    ASSUME TypeOK, NEW n \in Networks, snapshot[n] # None
    PROVE  /\ Compile(n) \in [Networks -> Payloads \cup {None}]
           /\ \A m \in Networks : Compile(n)[m] \in {compiled[m], snapshot[m]}
           /\ \A m \in Networks : compiled[m] # None => Compile(n)[m] # None
  BY DEF TypeOK, Compile

LEMMA TypeStep ==
    ASSUME TypeOK, \A w \in Pulls : PullGood(w), \A c \in Syncs : SyncGood(c), [Next]_vars
    PROVE  TypeOK'
<1> USE DEF TypeOK
<1>q. /\ \A w \in Pulls : pull[w] \in Pull /\ (pull[w].pc # "idle" => pull[w].sim \in Sims)
      /\ \A c \in Syncs : /\ sync[c] \in Sync /\ sync[c].todo \subseteq Sims
                          /\ sync[c].pc # "idle" => sync[c].net \in Networks
                          /\ sync[c].pc \in {"map", "register", "mark", "reject"}
                                => sync[c].sim \in Sims
  BY DEF PullGood, SyncGood, Sync
<1>adv. ASSUME NEW w \in Pulls, NEW pc, Advance(w, pc),
               pc \in {"idle", "check", "download", "store", "stage", "compose", "map", "defer",
                       "register", "release"}
        PROVE  pull' \in [Pulls -> Pull]
  BY <1>adv, <1>q DEF Advance, Pull
<1>0. CASE UNCHANGED vars
  BY <1>0 DEF vars
<1>1. ASSUME NEW s \in Sims, Upload(s) PROVE TypeOK'
  BY <1>1 DEF Upload
<1>2. ASSUME NEW w \in Pulls, NEW s \in Sims, Claim(w, s) PROVE TypeOK'
  BY <1>2, Locals DEF Claim, NoPull, Pull
<1>3. ASSUME NEW w \in Pulls, NEW s \in Sims, ApiPull(w, s) PROVE TypeOK'
  BY <1>3, Locals DEF ApiPull, NoPull, Pull
<1>4. ASSUME NEW w \in Pulls, CheckKnown(w) PROVE TypeOK'
  BY <1>4, <1>adv DEF CheckKnown
<1>5. ASSUME NEW w \in Pulls, CheckFails(w) PROVE TypeOK'
  BY <1>5, <1>q, <1>adv DEF CheckFails
<1>6. ASSUME NEW w \in Pulls, Download(w) PROVE TypeOK'
  BY <1>6, <1>q, <1>adv DEF Download
<1>7. ASSUME NEW w \in Pulls, Store(w) PROVE TypeOK'
  BY <1>7, <1>q, <1>adv DEF Store
<1>8. ASSUME NEW w \in Pulls, Stage(w) PROVE TypeOK'
  BY <1>8, <1>q, <1>adv DEF Stage, SimStatus
<1>9. ASSUME NEW w \in Pulls, Compose(w) PROVE TypeOK'
  <2>1. SimNet[pull[w].sim] \in Networks
    BY <1>9, <1>q, Constants DEF Compose
  <2>2. compiled' \in [Networks -> Payloads \cup {None}]
    BY <1>9, <2>1, CompileType DEF Compose
  <2>3. pull' \in [Pulls -> Pull]
    BY <1>9, <1>adv DEF Compose
  <2> QED BY <1>9, <2>2, <2>3 DEF Compose
<1>10. ASSUME NEW w \in Pulls, MapOnto(w) PROVE TypeOK'
  <2>1. compiled[SimNet[pull[w].sim]] \in Payloads \cup {None}
    BY <1>10, <1>q, Constants DEF MapOnto
  <2> DEFINE p == compiled[SimNet[pull[w].sim]]
             pc == IF Verdict[pull[w].sim][p] = "composed" THEN "register" ELSE "release"
             v == [pull[w] EXCEPT !.pc = pc, !.built = p]
  <2>2. v \in Pull
    BY <1>q, <2>1 DEF Pull
  <2>3. pull' = [pull EXCEPT ![w] = v]
    BY <1>10 DEF MapOnto
  <2> HIDE DEF v
  <2> QED BY <1>10, <2>2, <2>3 DEF MapOnto
<1>11. ASSUME NEW w \in Pulls, Defer(w) PROVE TypeOK'
  BY <1>11, <1>q, <1>adv DEF Defer, SimStatus
<1>12. ASSUME NEW w \in Pulls, Register(w) PROVE TypeOK'
  BY <1>12, <1>q, <1>adv DEF Register, Pull
<1>13. ASSUME NEW w \in Pulls, Release(w) PROVE TypeOK'
  BY <1>13, Locals DEF Release
<1>14. ASSUME NEW w \in Pulls, FailPull(w) PROVE TypeOK'
  BY <1>14, <1>adv DEF FailPull
<1>15. ASSUME NEW c \in Syncs, NEW e \in Events, NEW p \in Payloads, Put(c, e, p) PROVE TypeOK'
  BY <1>15, Constants, Locals DEF Put, NoSync, Sync
<1>16. ASSUME NEW c \in Syncs, ListPending(c) PROVE TypeOK'
  BY <1>16, NextRetryType DEF ListPending
<1>17. ASSUME NEW c \in Syncs, NEW s \in Sims, RetryCompose(c, s) PROVE TypeOK'
  <2>1. SimNet[s] \in Networks /\ sync[c].todo \ {s} \in SUBSET Sims
    BY <1>q, Constants
  <2>2. CASE s \notin simDir \/ snapshot[SimNet[s]] = None
    BY <1>17, <2>1, <2>2, NextRetryType DEF RetryCompose
  <2>3. CASE ~(s \notin simDir \/ snapshot[SimNet[s]] = None)
    <3>1. compiled' \in [Networks -> Payloads \cup {None}]
      BY <1>17, <2>1, <2>3, CompileType DEF RetryCompose
    <3>2. sync' \in [Syncs -> Sync]
      <4>1. CASE NextRetry(c, {})
        BY <4>1, NextRetryType
      <4>2. CASE ~NextRetry(c, {})
        <5> DEFINE v == [sync[c] EXCEPT !.pc = "map", !.todo = sync[c].todo \ {s}, !.sim = s]
        <5>1. v \in Sync
          BY <1>q DEF Sync
        <5>2. sync' = [sync EXCEPT ![c] = v]
          BY <1>17, <2>3, <4>2 DEF RetryCompose
        <5> HIDE DEF v
        <5> QED BY <5>1, <5>2
      <4> QED BY <4>1, <4>2
    <3> QED BY <1>17, <3>1, <3>2 DEF RetryCompose
  <2> QED BY <2>2, <2>3
<1>18. ASSUME NEW c \in Syncs, RetryMap(c) PROVE TypeOK'
  <2> DEFINE s == sync[c].sim
             p == compiled[SimNet[s]]
  <2>1. s \in Sims /\ p \in Payloads /\ sync[c].todo \in SUBSET Sims
    BY <1>18, <1>q, Constants DEF RetryMap, SyncGood
  <2>2. Verdict[s][p] \in Verdicts
    BY <2>1, SimPipelineAssumption
  <2>3. sync' \in [Syncs -> Sync]
    <3>1. ASSUME NEW pc \in {"register", "reject"},
                 sync' = [sync EXCEPT ![c] = [@ EXCEPT !.pc = pc, !.built = p]]
          PROVE  sync' \in [Syncs -> Sync]
      BY <3>1, <1>q, <2>1 DEF Sync
    <3>2. CASE NextRetry(c, sync[c].todo) \/ NextRetry(c, {})
      BY <3>2, <2>1, NextRetryType
    <3>3. CASE Verdict[s][p] = "composed"
      BY <1>18, <3>1, <3>3 DEF RetryMap
    <3>4. CASE Verdict[s][p] = "compose_error"
      BY <1>18, <3>1, <3>4 DEF RetryMap
    <3>5. CASE Verdict[s][p] \in {"register_error", "exception"}
      BY <1>18, <3>2, <3>5 DEF RetryMap
    <3> QED BY <2>2, <3>3, <3>4, <3>5 DEF Verdicts
  <2> QED BY <1>18, <2>3 DEF RetryMap
<1>19. ASSUME NEW c \in Syncs, RetryRegister(c) PROVE TypeOK'
  BY <1>19, <1>q DEF RetryRegister, Sync
<1>20. ASSUME NEW c \in Syncs, RetryMark(c) \/ RetryReject(c) PROVE TypeOK'
  BY <1>20, <1>q, NextRetryType DEF RetryMark, RetryReject, SimStatus
<1>21. ASSUME NEW c \in Syncs, FailSync(c) PROVE TypeOK'
  BY <1>21, Locals DEF FailSync
<1>22. CASE Crash
  BY <1>22, Locals DEF Crash
<1> QED
  BY <1>0, <1>1, <1>2, <1>3, <1>4, <1>5, <1>6, <1>7, <1>8, <1>9, <1>10, <1>11, <1>12, <1>13,
     <1>14, <1>15, <1>16, <1>17, <1>18, <1>19, <1>20, <1>21, <1>22, Constants
     DEF Next, PullStep, SyncStep, Pulls
-----------------------------------------------------------------------------
(***************************************************************************)
(* What no step takes back.                                                *)
(***************************************************************************)

\* The steps that change what pulls and syncs share.
LEMMA SharedSteps ==
    ASSUME Inv, [Next]_vars
    PROVE  \/ UNCHANGED <<simRow, runtime, snapshot, compiled, event>>
           \/ \E w \in Pulls : Stage(w) \/ Compose(w) \/ Defer(w) \/ Register(w)
           \/ \E c \in Syncs, e \in Events, p \in Payloads : Put(c, e, p)
           \/ \E c \in Syncs : \/ \E s \in Sims : RetryCompose(c, s)
                               \/ RetryRegister(c) \/ RetryMark(c) \/ RetryReject(c)
  <1> DEFINE Same == UNCHANGED <<simRow, runtime, snapshot, compiled, event>>
  <1>0. CASE UNCHANGED vars
    BY <1>0 DEF vars
  <1>1. ASSUME NEW s \in Sims, NEW w \in Pulls, Upload(s) \/ Claim(w, s) \/ ApiPull(w, s)
        PROVE  Same
    BY <1>1 DEF Upload, Claim, ApiPull
  <1>2. ASSUME NEW s \in Sims, Upload(s) PROVE Same
    BY <1>2 DEF Upload
  <1>3. ASSUME NEW w \in Pulls,
               \/ CheckKnown(w) \/ CheckFails(w) \/ Download(w) \/ Store(w)
               \/ MapOnto(w) \/ Release(w) \/ FailPull(w)
        PROVE  Same
    BY <1>3 DEF CheckKnown, CheckFails, Download, Store, MapOnto, Release, FailPull
  <1>4. ASSUME NEW c \in Syncs, ListPending(c) \/ RetryMap(c) \/ FailSync(c) PROVE Same
    BY <1>4 DEF ListPending, RetryMap, FailSync
  <1>5. CASE Crash
    BY <1>5 DEF Crash
  <1>6. deployment.syncs \subseteq Syncs
    BY Constants DEF Inv, TypeOK
  <1> HIDE DEF Same
  <1>7. \/ Same
        \/ \E w \in Pulls : Stage(w) \/ Compose(w) \/ Defer(w) \/ Register(w)
        \/ \E c \in Syncs, e \in Events, p \in Payloads : Put(c, e, p)
        \/ \E c \in Syncs : \/ \E s \in Sims : RetryCompose(c, s)
                            \/ RetryRegister(c) \/ RetryMark(c) \/ RetryReject(c)
    <2>1. CASE UNCHANGED vars
      BY <2>1, <1>0 DEF Same
    <2>2. CASE Next
      BY <2>2, <1>1, <1>2, <1>3, <1>4, <1>5, <1>6 DEF Next, PullStep, SyncStep, Pulls, Same
    <2> QED BY <2>1, <2>2
  <1> QED BY <1>7 DEF Same

\* A row stays a row, a registered bundle registered, a compiled file a file, and a
\* recorded event the event it was.
NothingLost ==
    /\ \A s \in Sims : simRow[s] # "none" => simRow'[s] # "none"
    /\ \A s \in Sims : runtime[s] # None => runtime'[s] # None
    /\ \A n \in Networks : compiled[n] # None => compiled'[n] # None
    /\ \A p \in Payloads : (\E e \in Events : event[e] = p) => \E e \in Events : event'[e] = p

LEMMA Kept ==
    ASSUME Inv, [Next]_vars
    PROVE  NothingLost
  <1> USE DEF NothingLost
  <1>t. TypeOK
    BY DEF Inv
  <1>q. /\ \A w \in Pulls : /\ pull[w].pc # "idle" => pull[w].sim \in Sims
                            /\ pull[w].pc = "register" => pull[w].built # None
        /\ \A c \in Syncs : /\ sync[c].pc # "idle" => sync[c].net \in Networks
                            /\ sync[c].pc \in {"map", "register", "mark", "reject"}
                                  => sync[c].sim \in Sims
                            /\ sync[c].pc = "register" => sync[c].built # None
    BY Constants DEF Inv, PullGood, SyncGood, Composed, Delivered
  <1>0. CASE UNCHANGED <<simRow, runtime, snapshot, compiled, event>>
    BY <1>0
  <1>1. ASSUME NEW w \in Pulls, Stage(w) \/ Defer(w) PROVE NothingLost
    BY <1>1, <1>t, <1>q DEF Stage, Defer, TypeOK
  <1>2. ASSUME NEW w \in Pulls, Compose(w) PROVE NothingLost
    BY <1>2, <1>t, <1>q, CompileType, Constants DEF Compose
  <1>3. ASSUME NEW w \in Pulls, Register(w) PROVE NothingLost
    BY <1>3, <1>t, <1>q DEF Register, TypeOK
  <1>4. ASSUME NEW c \in Syncs, NEW e \in Events, NEW p \in Payloads, Put(c, e, p)
        PROVE  NothingLost
    BY <1>4, <1>t, Constants DEF Put, TypeOK
  <1>5. ASSUME NEW c \in Syncs, NEW s \in Sims, RetryCompose(c, s) PROVE NothingLost
    BY <1>5, <1>t, CompileType, Constants DEF RetryCompose
  <1>6. ASSUME NEW c \in Syncs, RetryRegister(c) PROVE NothingLost
    BY <1>6, <1>t, <1>q DEF RetryRegister, TypeOK
  <1>7. ASSUME NEW c \in Syncs, RetryMark(c) \/ RetryReject(c) PROVE NothingLost
    BY <1>7, <1>t, <1>q DEF RetryMark, RetryReject, TypeOK
  <1> HIDE DEF NothingLost
  <1> QED BY <1>0, <1>1, <1>2, <1>3, <1>4, <1>5, <1>6, <1>7, SharedSteps

\* Delivered(p, n) and Composed(s, p) in the next state.
DeliveredNext(p, n) ==
    p \in Payloads /\ PayloadNet[p] = n /\ \E e \in Events : event'[e] = p

ComposedNext(s, p) == DeliveredNext(p, SimNet[s]) /\ Verdict[s][p] = "composed"

\* What has been delivered stays delivered.
LEMMA DeliveredKept ==
    ASSUME NothingLost
    PROVE  /\ \A p, n : Delivered(p, n) => DeliveredNext(p, n)
           /\ \A s, p : Composed(s, p) => ComposedNext(s, p)
  BY DEF NothingLost, Delivered, Composed, DeliveredNext, ComposedNext

LEMMA StoredStep ==
    ASSUME Inv, [Next]_vars
    PROVE  Stored'
  <1>t. TypeOK /\ NothingLost
    BY Kept DEF Inv
  <1>k. \A p, n : Delivered(p, n) => DeliveredNext(p, n)
    BY <1>t, DeliveredKept
  <1>1. ASSUME NEW n \in Networks, snapshot'[n] # None PROVE DeliveredNext(snapshot'[n], n)
    <2>1. CASE snapshot'[n] = snapshot[n]
      BY <1>1, <2>1, <1>k DEF Inv, Stored
    <2>2. ASSUME NEW c \in Syncs, NEW e \in Events, NEW p \in Payloads, Put(c, e, p)
          PROVE  DeliveredNext(snapshot'[n], n)
      <3>1. CASE PayloadNet[p] = n
        BY <2>2, <3>1, <1>t DEF Put, DeliveredNext, TypeOK
      <3>2. CASE PayloadNet[p] # n
        BY <2>2, <3>2, <1>t, <2>1 DEF Put, TypeOK
      <3> QED BY <3>1, <3>2
    <2>3. snapshot' = snapshot \/ \E c \in Syncs, e \in Events, p \in Payloads : Put(c, e, p)
      BY SharedSteps DEF Stage, Compose, Defer, Register, RetryCompose, RetryRegister,
                         RetryMark, RetryReject
    <2> QED BY <2>1, <2>2, <2>3
  <1>2. ASSUME NEW n \in Networks, compiled'[n] # None PROVE DeliveredNext(compiled'[n], n)
    <2>1. CASE compiled'[n] \in {compiled[n], snapshot[n]}
      BY <1>2, <2>1, <1>k DEF Inv, Stored
    <2>2. ASSUME NEW w \in Pulls, Compose(w) PROVE compiled'[n] \in {compiled[n], snapshot[n]}
      <3>1. SimNet[pull[w].sim] \in Networks
        BY <2>2, Constants DEF Inv, PullGood, Compose
      <3> QED BY <2>2, <3>1, <1>t, CompileType DEF Compose
    <2>3. ASSUME NEW c \in Syncs, NEW s \in Sims, RetryCompose(c, s)
          PROVE  compiled'[n] \in {compiled[n], snapshot[n]}
      BY <2>3, <1>t, CompileType, Constants DEF RetryCompose
    <2>4. \/ compiled' = compiled
          \/ \E w \in Pulls : Compose(w)
          \/ \E c \in Syncs, s \in Sims : RetryCompose(c, s)
      BY SharedSteps DEF Stage, Defer, Register, Put, RetryRegister, RetryMark, RetryReject
    <2> QED BY <2>1, <2>2, <2>3, <2>4
  <1> QED BY <1>1, <1>2 DEF Stored, Delivered, DeliveredNext
-----------------------------------------------------------------------------
(***************************************************************************)
(* Pulls.                                                                  *)
(***************************************************************************)

\* The steps that move the pull w.
PullMoves(w) ==
    \/ pull'[w] = NoPull
    \/ \E s \in Sims : Claim(w, s) \/ ApiPull(w, s)
    \/ PullStep(w) \/ CheckFails(w) \/ FailPull(w)

LEMMA PullSteps ==
    ASSUME TypeOK, NEW w \in Pulls, [Next]_vars, pull'[w] # pull[w]
    PROVE  PullMoves(w)
  <1>0. ~UNCHANGED vars
    BY DEF vars
  <1>1. ASSUME NEW v \in Pulls, NEW s \in Sims, Claim(v, s) \/ ApiPull(v, s), v # w PROVE FALSE
    BY <1>1 DEF Claim, ApiPull, TypeOK
  <1>2. ASSUME NEW v \in Pulls, PullStep(v) \/ CheckFails(v) \/ FailPull(v), v # w PROVE FALSE
    BY <1>2 DEF PullStep, CheckKnown, CheckFails, Download, Store, Stage, Compose, MapOnto, Defer,
                Register, Release, FailPull, Advance, TypeOK
  <1>3. ASSUME NEW s \in Sims, Upload(s) PROVE FALSE
    BY <1>3 DEF Upload
  <1>4. ASSUME NEW c \in Syncs, NEW e \in Events, NEW p \in Payloads, Put(c, e, p) PROVE FALSE
    BY <1>4 DEF Put
  <1>5. ASSUME NEW c \in Syncs, SyncStep(c) \/ FailSync(c) PROVE FALSE
    BY <1>5 DEF SyncStep, ListPending, RetryCompose, RetryMap, RetryRegister, RetryMark,
                RetryReject, FailSync
  <1>6. CASE Crash
    BY <1>6 DEF Crash, PullMoves
  <1>7. deployment.syncs \subseteq Syncs
    BY Constants DEF TypeOK
  <1> QED BY <1>0, <1>1, <1>2, <1>3, <1>4, <1>5, <1>6, <1>7 DEF Next, Pulls, PullMoves

LEMMA PullGoodStep ==
    ASSUME Inv, NEW w \in Pulls, [Next]_vars
    PROVE  PullGood(w)'
  <1>t. TypeOK /\ NothingLost /\ PullGood(w) /\ pull[w] \in Pull
    BY Kept DEF Inv, TypeOK
  <1>n. pull[w].sim \in Sims => SimNet[pull[w].sim] \in Networks
    BY Constants
  <1>adv. ASSUME NEW pc, Advance(w, pc)
          PROVE  /\ pull'[w].pc = pc
                 /\ pull'[w].sim = pull[w].sim
    BY <1>adv, <1>t DEF Advance, TypeOK, Pull
  <1>pg. ASSUME pull'[w].sim \in Sims,
                pull'[w].pc \in {"compose", "map", "defer", "register"}
                    => simRow'[pull'[w].sim] # "none",
                pull'[w].pc = "map" => compiled'[SimNet[pull'[w].sim]] # None,
                pull'[w].pc = "register" => ComposedNext(pull'[w].sim, pull'[w].built)
         PROVE  PullGood(w)'
    BY <1>pg DEF PullGood, Composed, Delivered, ComposedNext, DeliveredNext
  <1>0. CASE pull'[w] = pull[w]
    <2>1. CASE pull[w].pc = "idle"
      BY <1>0, <2>1 DEF PullGood
    <2>2. CASE pull[w].pc # "idle"
      <3>1. Composed(pull[w].sim, pull[w].built) => ComposedNext(pull[w].sim, pull[w].built)
        BY <1>t, DeliveredKept
      <3> QED BY <1>0, <1>t, <1>n, <1>pg, <2>2, <3>1 DEF PullGood, NothingLost
    <2> QED BY <2>1, <2>2
  <1>1. CASE pull'[w] = NoPull
    BY <1>1 DEF PullGood, NoPull
  <1>2. ASSUME NEW s \in Sims, Claim(w, s) \/ ApiPull(w, s) PROVE PullGood(w)'
    BY <1>2, <1>t, <1>pg DEF Claim, ApiPull, NoPull, TypeOK
  <1>3. CASE CheckKnown(w) \/ CheckFails(w) \/ Download(w) \/ Store(w) \/ FailPull(w)
    BY <1>3, <1>t, <1>adv, <1>pg DEF CheckKnown, CheckFails, Download, Store, FailPull, PullGood
  <1>4. CASE Stage(w)
    BY <1>4, <1>t, <1>adv, <1>pg DEF Stage, PullGood, TypeOK
  <1>5. CASE Compose(w)
    <2>1. /\ pull'[w].sim = pull[w].sim
          /\ pull'[w].pc \in {"defer", "map", "release"}
          /\ pull'[w].pc = "map" => compiled'[SimNet[pull[w].sim]] # None
      BY <1>5, <1>adv DEF Compose
    <2> QED BY <1>5, <2>1, <1>t, <1>pg DEF Compose, PullGood, NothingLost
  <1>6. CASE MapOnto(w)
    <2> DEFINE p == compiled[SimNet[pull[w].sim]]
               pc == IF Verdict[pull[w].sim][p] = "composed" THEN "register" ELSE "release"
    <2>1. pull[w].sim \in Sims /\ simRow[pull[w].sim] # "none" /\ p # None
      BY <1>6, <1>t DEF MapOnto, PullGood
    <2>2. DeliveredNext(p, SimNet[pull[w].sim])
      BY <2>1, <1>n, <1>t, DeliveredKept DEF Inv, Stored
    <2>3. pull'[w].sim = pull[w].sim /\ pull'[w].pc = pc /\ pull'[w].built = p
      BY <1>6, <1>t DEF MapOnto, TypeOK, Pull
    <2>4. simRow' = simRow
      BY <1>6 DEF MapOnto
    <2> HIDE DEF p
    <2> QED BY <2>1, <2>2, <2>3, <2>4, <1>pg DEF ComposedNext
  <1>7. CASE Defer(w) \/ Register(w)
    BY <1>7, <1>t, <1>adv, <1>pg DEF Defer, Register, PullGood
  <1>8. CASE Release(w)
    BY <1>8, <1>t, <1>1 DEF Release, TypeOK
  <1> QED
    BY <1>0, <1>1, <1>2, <1>3, <1>4, <1>5, <1>6, <1>7, <1>8, <1>t, PullSteps DEF PullMoves, PullStep
-----------------------------------------------------------------------------
(***************************************************************************)
(* Syncs.                                                                  *)
(***************************************************************************)

\* The steps that move the sync c.
SyncMoves(c) ==
    \/ sync'[c] = NoSync
    \/ \E e \in Events, p \in Payloads : Put(c, e, p)
    \/ SyncStep(c)

LEMMA SyncSteps ==
    ASSUME Inv, NEW c \in Syncs, [Next]_vars, sync'[c] # sync[c]
    PROVE  SyncMoves(c)
  <1>t. TypeOK /\ \A d \in Syncs : sync[d].todo \subseteq Sims
    BY DEF Inv, TypeOK, Sync
  <1>0. ~UNCHANGED vars
    BY DEF vars
  <1>1. ASSUME NEW d \in Syncs, NEW e \in Events, NEW p \in Payloads, Put(d, e, p), d # c
        PROVE  FALSE
    BY <1>1, <1>t DEF Put, TypeOK
  <1>2. ASSUME NEW d \in Syncs, SyncStep(d) \/ FailSync(d), d # c PROVE FALSE
    <2>1. ASSUME NEW todo, NextRetry(d, todo) PROVE FALSE
      BY <2>1, <1>2, <1>t DEF NextRetry, TypeOK
    <2>2. CASE RetryMap(d)
      <3>1. ASSUME NEW pc, NEW p, sync' = [sync EXCEPT ![d] = [@ EXCEPT !.pc = pc, !.built = p]]
            PROVE FALSE
        BY <3>1, <1>2, <1>t DEF TypeOK
      <3>2. sync[d].sim \in Sims /\ compiled[SimNet[sync[d].sim]] \in Payloads
        BY <2>2, Constants DEF Inv, SyncGood, RetryMap, TypeOK
      <3>3. Verdict[sync[d].sim][compiled[SimNet[sync[d].sim]]] \in Verdicts
        BY <3>2, SimPipelineAssumption
      <3> QED BY <2>2, <3>1, <3>3, <2>1 DEF RetryMap, Verdicts
    <2>3. ASSUME NEW s \in Sims, RetryCompose(d, s) PROVE FALSE
      BY <2>3, <2>1, <1>2, <1>t DEF RetryCompose, TypeOK
    <2> QED BY <1>2, <1>t, <2>1, <2>2, <2>3
            DEF SyncStep, ListPending, RetryRegister, RetryMark, RetryReject, FailSync, TypeOK
  <1>3. ASSUME NEW s \in Sims, Upload(s) PROVE FALSE
    BY <1>3 DEF Upload
  <1>4. ASSUME NEW w \in Pulls, NEW s \in Sims, Claim(w, s) \/ ApiPull(w, s) PROVE FALSE
    BY <1>4 DEF Claim, ApiPull
  <1>5. ASSUME NEW w \in Pulls, PullStep(w) \/ CheckFails(w) \/ FailPull(w) PROVE FALSE
    BY <1>5 DEF PullStep, CheckKnown, CheckFails, Download, Store, Stage, Compose, MapOnto, Defer,
                Register, Release, FailPull
  <1>6. CASE Crash
    BY <1>6 DEF Crash, SyncMoves
  <1>7. CASE FailSync(c)
    BY <1>7, <1>t DEF FailSync, SyncMoves, TypeOK
  <1>8. deployment.syncs \subseteq Syncs
    BY <1>t, Constants DEF TypeOK
  <1> QED
    BY <1>0, <1>1, <1>2, <1>3, <1>4, <1>5, <1>6, <1>7, <1>8 DEF Next, Pulls, SyncMoves

LEMMA SyncGoodStep ==
    ASSUME Inv, NEW c \in Syncs, [Next]_vars
    PROVE  SyncGood(c)'
  <1>t. TypeOK /\ NothingLost /\ SyncGood(c) /\ sync[c] \in Sync /\ sync[c].todo \subseteq Sims
    BY Kept DEF Inv, TypeOK, Sync
  <1>n. sync[c].sim \in Sims => SimNet[sync[c].sim] \in Networks
    BY Constants
  <1>rows. ASSUME NEW todo \in SUBSET Sims, \A s \in todo : simRow[s] # "none"
           PROVE  \A s \in todo : simRow'[s] # "none"
    BY <1>t, <1>rows DEF NothingLost
  \* The loop goes on with bundles that have a row.
  <1>next. ASSUME NEW todo \in SUBSET Sims, NextRetry(c, todo), sync[c].pc # "idle",
                  \A s \in todo : simRow[s] # "none"
           PROVE  SyncGood(c)'
    <2>1. /\ sync'[c].pc \in {"idle", "retry"} /\ sync'[c].todo \subseteq todo
          /\ sync'[c].pc # "idle" => sync'[c].net = sync[c].net
      BY <1>next, <1>t, NextRetryType
    <2> QED BY <2>1, <1>next, <1>rows, <1>t DEF SyncGood
  <1>sg. ASSUME sync'[c].net \in Networks,
                \A s \in sync'[c].todo : simRow'[s] # "none",
                sync'[c].sim \in Sims,
                simRow'[sync'[c].sim] # "none",
                sync'[c].pc = "map" => compiled'[SimNet[sync'[c].sim]] # None,
                sync'[c].pc = "register" => ComposedNext(sync'[c].sim, sync'[c].built),
                sync'[c].pc = "mark" => runtime'[sync'[c].sim] # None
         PROVE  SyncGood(c)'
    BY <1>sg DEF SyncGood, Composed, Delivered, ComposedNext, DeliveredNext
  <1>0. CASE sync'[c] = sync[c]
    <2>1. CASE sync[c].pc \in {"map", "register", "mark", "reject"}
      <3>1. Composed(sync[c].sim, sync[c].built) => ComposedNext(sync[c].sim, sync[c].built)
        BY <1>t, DeliveredKept
      <3> QED BY <1>0, <1>t, <1>n, <1>sg, <2>1, <3>1 DEF SyncGood, NothingLost
    <2>2. CASE sync[c].pc \notin {"map", "register", "mark", "reject"}
      BY <1>0, <1>t, <2>2 DEF SyncGood, NothingLost
    <2> QED BY <2>1, <2>2
  <1>1. CASE sync'[c] = NoSync
    BY <1>1 DEF SyncGood, NoSync
  <1>2. ASSUME NEW e \in Events, NEW p \in Payloads, Put(c, e, p) PROVE SyncGood(c)'
    <2>1. /\ sync'[c].pc = "list" /\ sync'[c].net = PayloadNet[p] /\ sync'[c].todo = {}
      BY <1>2, <1>t DEF Put, NoSync, TypeOK
    <2> QED BY <2>1, Constants DEF SyncGood
  <1>3. CASE ListPending(c)
    BY <1>3, <1>next DEF ListPending
  <1>4. ASSUME NEW s \in Sims, RetryCompose(c, s) PROVE SyncGood(c)'
    <2>1. sync[c].pc = "retry" /\ s \in sync[c].todo /\ simRow' = simRow
      BY <1>4 DEF RetryCompose
    <2>2. \A t \in sync[c].todo : simRow[t] # "none"
      BY <1>t DEF SyncGood
    <2>3. CASE NextRetry(c, sync[c].todo \ {s}) \/ NextRetry(c, {})
      BY <2>1, <2>2, <2>3, <1>t, <1>next
    <2>4. CASE ~(NextRetry(c, sync[c].todo \ {s}) \/ NextRetry(c, {}))
      <3> DEFINE v == [sync[c] EXCEPT !.pc = "map", !.todo = sync[c].todo \ {s}, !.sim = s]
      <3>1. /\ sync' = [sync EXCEPT ![c] = v]
            /\ snapshot[SimNet[s]] # None
            /\ compiled'[SimNet[s]] = snapshot[SimNet[s]]
        BY <1>4, <2>4 DEF RetryCompose
      <3>2. /\ v.pc = "map" /\ v.net = sync[c].net /\ v.todo = sync[c].todo \ {s} /\ v.sim = s
        BY <1>t DEF Sync
      <3>3. sync'[c] = v
        BY <3>1, <1>t DEF TypeOK
      <3> HIDE DEF v
      <3> QED BY <3>1, <3>2, <3>3, <2>1, <2>2, <1>t, <1>sg DEF SyncGood
    <2> QED BY <2>3, <2>4
  <1>5. CASE RetryMap(c)
    <2> DEFINE s == sync[c].sim
               p == compiled[SimNet[s]]
    <2>1. /\ s \in Sims /\ simRow[s] # "none" /\ p # None /\ p \in Payloads
          /\ sync[c].net \in Networks
          /\ \A t \in sync[c].todo : simRow[t] # "none"
          /\ simRow' = simRow
      BY <1>5, <1>t, <1>n DEF RetryMap, SyncGood, TypeOK
    <2>2. DeliveredNext(p, SimNet[s])
      BY <2>1, <1>n, <1>t, DeliveredKept DEF Inv, Stored
    <2>3. Verdict[s][p] \in Verdicts
      BY <2>1, SimPipelineAssumption
    <2>4. ASSUME NEW pc, sync' = [sync EXCEPT ![c] = [@ EXCEPT !.pc = pc, !.built = p]]
          PROVE  /\ sync'[c].pc = pc /\ sync'[c].built = p /\ sync'[c].sim = s
                 /\ sync'[c].net = sync[c].net /\ sync'[c].todo = sync[c].todo
      BY <2>4, <1>t DEF Sync, TypeOK
    <2>5. CASE Verdict[s][p] = "composed"
      <3>1. sync' = [sync EXCEPT ![c] = [@ EXCEPT !.pc = "register", !.built = p]]
        BY <1>5, <2>5 DEF RetryMap
      <3>2. /\ sync'[c].pc = "register" /\ sync'[c].built = p /\ sync'[c].sim = s
            /\ sync'[c].net = sync[c].net /\ sync'[c].todo = sync[c].todo
        BY <2>4, <3>1
      <3> HIDE DEF s, p
      <3> QED BY <3>2, <2>1, <2>2, <2>5, <1>sg DEF ComposedNext
    <2>6. CASE Verdict[s][p] = "compose_error"
      <3>1. sync' = [sync EXCEPT ![c] = [@ EXCEPT !.pc = "reject", !.built = p]]
        BY <1>5, <2>6 DEF RetryMap
      <3>2. /\ sync'[c].pc = "reject" /\ sync'[c].sim = s
            /\ sync'[c].net = sync[c].net /\ sync'[c].todo = sync[c].todo
        BY <2>4, <3>1
      <3> HIDE DEF s, p
      <3> QED BY <3>2, <2>1, <1>sg
    <2>7. CASE Verdict[s][p] \in {"register_error", "exception"}
      <3>1. NextRetry(c, sync[c].todo) \/ NextRetry(c, {})
        BY <1>5, <2>7 DEF RetryMap
      <3>2. sync[c].pc # "idle"
        BY <1>5 DEF RetryMap
      <3> HIDE DEF s, p
      <3> QED BY <3>1, <3>2, <2>1, <1>t, <1>next
    <2> HIDE DEF s, p
    <2> QED BY <2>3, <2>5, <2>6, <2>7 DEF Verdicts
  <1>6. CASE RetryRegister(c)
    <2>1. /\ sync[c].pc = "register" /\ sync[c].sim \in Sims /\ simRow' = simRow
          /\ sync[c].built # None
          /\ runtime'[sync[c].sim] = sync[c].built
      BY <1>6, <1>t, Constants DEF RetryRegister, SyncGood, Composed, Delivered, TypeOK
    <2>2. /\ sync'[c].pc = "mark" /\ sync'[c].sim = sync[c].sim
          /\ sync'[c].net = sync[c].net /\ sync'[c].todo = sync[c].todo
      BY <1>6, <1>t DEF RetryRegister, TypeOK, Sync
    <2> QED BY <2>1, <2>2, <1>t, <1>sg DEF SyncGood
  <1>7. CASE RetryMark(c) \/ RetryReject(c)
    BY <1>7, <1>t, <1>next DEF RetryMark, RetryReject, SyncGood
  <1> QED
    BY <1>0, <1>1, <1>2, <1>3, <1>4, <1>5, <1>6, <1>7, SyncSteps DEF SyncMoves, SyncStep
-----------------------------------------------------------------------------
(***************************************************************************)
(* Lineage, and the invariant.                                             *)
(***************************************************************************)

\* A bundle is registered with what fits it, and a row says "composed" after that.
RegisteredWell(s) ==
    /\ runtime'[s] # runtime[s] => simRow[s] # "none" /\ Composed(s, runtime'[s])
    /\ simRow'[s] = "composed" /\ simRow[s] # "composed" => runtime'[s] # None

\* Who registers a bundle, and who calls its row "composed".
LEMMA Registered ==
    ASSUME Inv, [Next]_vars, NEW s \in Sims
    PROVE  RegisteredWell(s)
  <1> USE DEF RegisteredWell
  <1>t. TypeOK
    BY DEF Inv
  <1>0. CASE UNCHANGED <<simRow, runtime, snapshot, compiled, event>>
    BY <1>0
  <1>1. ASSUME NEW w \in Pulls, Stage(w) \/ Compose(w) \/ Defer(w) PROVE RegisteredWell(s)
    BY <1>1, <1>t DEF Stage, Compose, Defer, TypeOK
  <1>2. ASSUME NEW w \in Pulls, Register(w) PROVE RegisteredWell(s)
    BY <1>2, <1>t DEF Register, TypeOK, Inv, PullGood
  <1>3. ASSUME NEW c \in Syncs, NEW e \in Events, NEW p \in Payloads, Put(c, e, p)
        PROVE  RegisteredWell(s)
    BY <1>3 DEF Put
  <1>4. ASSUME NEW c \in Syncs, NEW t \in Sims, RetryCompose(c, t) PROVE RegisteredWell(s)
    BY <1>4 DEF RetryCompose
  <1>5. ASSUME NEW c \in Syncs, RetryRegister(c) PROVE RegisteredWell(s)
    BY <1>5, <1>t DEF RetryRegister, TypeOK, Inv, SyncGood
  <1>6. ASSUME NEW c \in Syncs, RetryMark(c) \/ RetryReject(c) PROVE RegisteredWell(s)
    BY <1>6, <1>t DEF RetryMark, RetryReject, TypeOK, Inv, SyncGood
  <1> HIDE DEF RegisteredWell
  <1> QED BY <1>0, <1>1, <1>2, <1>3, <1>4, <1>5, <1>6, SharedSteps

LEMMA LineageStep ==
    ASSUME Inv, [Next]_vars
    PROVE  Lineage'
  <1>1. \A s \in Sims : RegisteredWell(s)
    BY Registered
  <1>2. /\ NothingLost
        /\ \A s, p : Composed(s, p) => ComposedNext(s, p)
    BY Kept, DeliveredKept
  <1>3. ASSUME NEW s \in Sims, simRow'[s] = "composed" PROVE runtime'[s] # None
    BY <1>1, <1>2, <1>3 DEF RegisteredWell, NothingLost, Inv, Lineage
  <1>4. ASSUME NEW s \in Sims, runtime'[s] # None
        PROVE  simRow'[s] # "none" /\ ComposedNext(s, runtime'[s])
    <2>1. CASE runtime'[s] = runtime[s]
      <3>1. simRow[s] # "none" /\ Composed(s, runtime[s])
        BY <1>4, <2>1 DEF Inv, Lineage, TypeOK, Composed, Delivered
      <3> QED BY <2>1, <3>1, <1>2 DEF NothingLost
    <2>2. CASE runtime'[s] # runtime[s]
      BY <2>2, <1>1, <1>2 DEF RegisteredWell, NothingLost
    <2> QED BY <2>1, <2>2
  <1> QED BY <1>3, <1>4 DEF Lineage, ComposedNext, DeliveredNext

LEMMA InvInit == Init => Inv
  <1> SUFFICES ASSUME Init PROVE Inv
    OBVIOUS
  <1>1. TypeOK
    BY TypeInit
  <1>2. Stored /\ Lineage
    BY DEF Init, Stored, Lineage
  <1>3. (\A w \in Pulls : PullGood(w)) /\ (\A c \in Syncs : SyncGood(c))
    BY DEF Init, PullGood, SyncGood, NoPull, NoSync
  <1> QED BY <1>1, <1>2, <1>3 DEF Inv

LEMMA InvStep == Inv /\ [Next]_vars => Inv'
  <1> SUFFICES ASSUME Inv, [Next]_vars PROVE Inv'
    OBVIOUS
  <1>1. TypeOK'
    BY TypeStep DEF Inv
  <1>2. \A w \in Pulls : PullGood(w)'
    BY PullGoodStep
  <1>3. \A c \in Syncs : SyncGood(c)'
    BY SyncGoodStep
  <1> QED BY <1>1, <1>2, <1>3, StoredStep, LineageStep DEF Inv

\* The strengthening of Lineage holds in every reachable state: whatever a pull, a retry or
\* a sync carries between its steps was read from rows and files that are still there.
THEOREM Invariance == Spec => []Inv
  BY InvInit, InvStep, PTL DEF Spec

\* Every variable stays what it is meant to be, in every deployment.
THEOREM TypeCorrect == Spec => []TypeOK
  <1>1. Inv => TypeOK
    BY DEF Inv
  <1> QED BY <1>1, Invariance, PTL

\* A registered bundle descends from a sim bundle the table knows and was composed with
\* a snapshot of its own network that was really delivered and fits it, however pulls,
\* syncs, failures and crashes interleave and although composers share a file.
THEOREM LineageHolds == Spec => []Lineage
  <1>1. Inv => Lineage
    BY DEF Inv
  <1> QED BY <1>1, Invariance, PTL
-----------------------------------------------------------------------------
(***************************************************************************)
(* Auto-sync on its own.                                                   *)
(***************************************************************************)

\* The steps of a deployment in which operators do not pull.
LEMMA AutoSyncSteps ==
    ASSUME Inv, OnlyAutoSync, [Next]_vars
    PROVE  \/ UNCHANGED <<pull, inProgress, simRow, simDir, blind>>
           \/ \E w \in AutoPulls, s \in Sims : Claim(w, s)
           \/ \E w \in Pulls : PullStep(w) \/ CheckFails(w) \/ FailPull(w)
           \/ \E c \in Syncs : RetryMark(c) \/ RetryReject(c)
           \/ Crash
  <1> DEFINE Same == UNCHANGED <<pull, inProgress, simRow, simDir, blind>>
  <1>1. CASE UNCHANGED vars
    BY <1>1 DEF vars
  <1>2. ASSUME NEW s \in Sims, Upload(s) PROVE Same
    BY <1>2 DEF Upload
  <1>3. ASSUME NEW c \in Syncs, NEW e \in Events, NEW p \in Payloads, Put(c, e, p) PROVE Same
    BY <1>3 DEF Put
  <1>4. ASSUME NEW c \in Syncs,
               \/ ListPending(c) \/ RetryMap(c) \/ RetryRegister(c) \/ FailSync(c)
               \/ \E s \in Sims : RetryCompose(c, s)
        PROVE  Same
    BY <1>4 DEF ListPending, RetryMap, RetryRegister, FailSync, RetryCompose
  <1>5. deployment.syncs \subseteq Syncs /\ ApiPulls \cap deployment.pulls = {}
    BY Constants, SimPipelineAssumption DEF Inv, TypeOK, OnlyAutoSync
  <1> HIDE DEF Same
  <1>6. CASE Next
    <2>1. \/ Same
          \/ \E w \in AutoPulls, s \in Sims : Claim(w, s)
          \/ \E w \in Pulls : PullStep(w) \/ CheckFails(w) \/ FailPull(w)
          \/ \E c \in Syncs : RetryMark(c) \/ RetryReject(c)
          \/ Crash
      BY <1>2, <1>3, <1>4, <1>5, <1>6 DEF Next, SyncStep
    <2> QED BY <2>1 DEF Same
  <1> QED BY <1>1, <1>6

\* A step of the pull w that is neither its first nor its last.
LEMMA InnerStep ==
    ASSUME TypeOK, NEW w \in Pulls, PullStep(w) \/ CheckFails(w) \/ FailPull(w), ~Release(w)
    PROVE  /\ pull[w].pc # "idle" /\ pull'[w].sim = pull[w].sim
           /\ \A v \in Pulls \ {w} : pull'[v] = pull[v]
           /\ inProgress' = inProgress
  <1>t. pull \in [Pulls -> Pull]
    BY DEF TypeOK
  <1>1. ASSUME NEW pc, Advance(w, pc)
        PROVE  /\ pull'[w].sim = pull[w].sim
               /\ \A v \in Pulls \ {w} : pull'[v] = pull[v]
    BY <1>1, <1>t DEF Advance, Pull
  <1>2. CASE MapOnto(w)
    BY <1>2, <1>t DEF MapOnto, Pull
  <1>3. CASE ~MapOnto(w)
    BY <1>1, <1>3 DEF PullStep, CheckKnown, CheckFails, Download, Store, Stage, Compose, Defer,
                      Register, FailPull
  <1> QED BY <1>2, <1>3

\* No two threads are on one object.
LEMMA AloneStep ==
    ASSUME Inv, OnlyAutoSync, \A w \in Pulls : AloneOn(w), [Next]_vars
    PROVE  \A w \in Pulls : AloneOn(w)'
  <1>t. TypeOK /\ Pulls = AutoPulls \cup ApiPulls
    BY DEF Inv, Pulls
  <1> USE DEF AloneOn
  <1>1. CASE UNCHANGED <<pull, inProgress>>
    BY <1>1
  <1>2. ASSUME NEW u \in AutoPulls, NEW s \in Sims, Claim(u, s) PROVE \A w \in Pulls : AloneOn(w)'
    <2>1. /\ pull'[u].sim = s /\ u \in Pulls
          /\ \A w \in Pulls \ {u} : pull'[w] = pull[w]
          /\ s \notin inProgress /\ inProgress' = inProgress \cup {s}
      BY <1>2, <1>t DEF Claim, NoPull, TypeOK
    <2> QED BY <2>1
  <1>3. ASSUME NEW u \in Pulls, Release(u) PROVE \A w \in Pulls : AloneOn(w)'
    <2>1. /\ pull'[u].pc = "idle" /\ pull[u].pc # "idle"
          /\ \A w \in Pulls \ {u} : pull'[w] = pull[w]
          /\ u \in AutoPulls => inProgress' = inProgress \ {pull[u].sim}
      BY <1>3, <1>t DEF Release, NoPull, TypeOK
    <2> QED BY <2>1
  <1>4. ASSUME NEW u \in Pulls, PullStep(u) \/ CheckFails(u) \/ FailPull(u), ~Release(u)
        PROVE  \A w \in Pulls : AloneOn(w)'
    <2>1. /\ pull[u].pc # "idle" /\ pull'[u].sim = pull[u].sim
          /\ \A w \in Pulls \ {u} : pull'[w] = pull[w]
          /\ inProgress' = inProgress
      BY <1>4, <1>t, InnerStep
    <2> QED BY <2>1
  <1>5. ASSUME NEW c \in Syncs, RetryMark(c) \/ RetryReject(c) PROVE \A w \in Pulls : AloneOn(w)'
    BY <1>5, <1>1 DEF RetryMark, RetryReject
  <1>6. CASE Crash
    BY <1>6 DEF Crash, NoPull
  <1> HIDE DEF AloneOn
  <1>7. ASSUME NEW u \in Pulls, PullStep(u) \/ CheckFails(u) \/ FailPull(u)
        PROVE  \A w \in Pulls : AloneOn(w)'
    BY <1>3, <1>4, <1>7
  <1>8. \/ UNCHANGED <<pull, inProgress>>
        \/ \E w \in AutoPulls, s \in Sims : Claim(w, s)
        \/ \E w \in Pulls : PullStep(w) \/ CheckFails(w) \/ FailPull(w)
        \/ \E c \in Syncs : RetryMark(c) \/ RetryReject(c)
        \/ Crash
    BY AutoSyncSteps
  <1> QED BY <1>1, <1>2, <1>5, <1>6, <1>7, <1>8

\* A pull touches only the row and the directory of the bundle it pulls.
Untouched(s) ==
    simRow'[s] = simRow[s] /\ (s \in simDir' <=> s \in simDir) /\ (s \in blind' <=> s \in blind)

LEMMA TouchesOwn ==
    ASSUME TypeOK, NEW u \in Pulls, PullStep(u) \/ CheckFails(u) \/ FailPull(u),
           NEW s \in Sims, s # pull[u].sim
    PROVE  Untouched(s)
  BY DEF Untouched, TypeOK, PullStep, CheckKnown, CheckFails, Download, Store, Stage, Compose,
         MapOnto, Defer, Register, Release, FailPull

\* What a pull of auto-sync does to the bundle it pulls.
LEMMA OwnStep ==
    ASSUME Inv, NEW w \in Pulls, FirstPull(w), PullStep(w) \/ CheckFails(w) \/ FailPull(w),
           pull[w].sim \notin blind'
    PROVE  LET s == pull[w].sim IN
           /\ s \notin blind
           /\ pull'[w].pc \in {"download", "store", "stage"} => simRow'[s] = "none"
           /\ pull'[w].pc = "stage" => s \in simDir'
           /\ simRow'[s] # "none" /\ (simRow[s] # "none" => s \in simDir) => s \in simDir'
           /\ simRow'[s] = "staged" => simRow[s] \in {"none", "staged"}
  <1>t. TypeOK /\ pull[w] \in Pull /\ (pull[w].pc # "idle" => pull[w].sim \in Sims)
    BY DEF Inv, TypeOK, PullGood
  <1>adv. ASSUME NEW pc, Advance(w, pc) PROVE pull'[w].pc = pc
    BY <1>adv, <1>t DEF Advance, TypeOK, Pull
  <1>1. CASE CheckKnown(w)
    BY <1>1, <1>adv DEF CheckKnown
  <1>2. CASE CheckFails(w)
    BY <1>2 DEF CheckFails
  <1>3. CASE Download(w)
    BY <1>3, <1>adv DEF Download, FirstPull
  <1>4. CASE Store(w)
    BY <1>4, <1>adv DEF Store, FirstPull
  <1>5. CASE Stage(w)
    BY <1>5, <1>t, <1>adv DEF Stage, FirstPull, TypeOK
  <1>6. CASE Compose(w)
    BY <1>6, <1>adv DEF Compose
  <1>7. CASE MapOnto(w)
    <2>1. pull'[w].pc \in {"register", "release"}
      BY <1>7, <1>t DEF MapOnto, TypeOK, Pull
    <2> QED BY <1>7, <2>1 DEF MapOnto
  <1>8. CASE Defer(w)
    <2>1. pull'[w].pc = "release" /\ simRow[pull[w].sim] # "none"
      BY <1>8, <1>adv DEF Defer, Inv, PullGood
    <2>2. simRow'[pull[w].sim] = "pending_real_snapshot"
      BY <1>8, <1>t DEF Defer, TypeOK
    <2> QED BY <1>8, <2>1, <2>2 DEF Defer
  <1>9. CASE Register(w) \/ FailPull(w)
    BY <1>9, <1>adv DEF Register, FailPull
  <1>10. CASE Release(w)
    BY <1>10, <1>t DEF Release, NoPull, TypeOK
  <1> QED BY <1>1, <1>2, <1>3, <1>4, <1>5, <1>6, <1>7, <1>8, <1>9, <1>10 DEF PullStep

\* The retry touches only rows that are there, and none of them becomes "staged".
LEMMA RetryTouches ==
    ASSUME Inv, NEW c \in Syncs, RetryMark(c) \/ RetryReject(c)
    PROVE  /\ UNCHANGED <<pull, inProgress, simDir, blind>>
           /\ \A s \in Sims : \/ simRow'[s] = simRow[s]
                              \/ simRow[s] # "none" /\ simRow'[s] \in {"composed", "rejected"}
  BY DEF Inv, TypeOK, SyncGood, RetryMark, RetryReject

LEMMA FirstPullStep ==
    ASSUME PullsInv, OnlyAutoSync, NEW w \in Pulls, [Next]_vars
    PROVE  FirstPull(w)'
  <1>t. /\ Inv /\ TypeOK /\ AloneOn(w) /\ FirstPull(w)
        /\ pull[w].pc # "idle" => pull[w].sim \in Sims
    BY DEF PullsInv, Inv, PullGood
  <1>1. CASE UNCHANGED <<pull, inProgress, simRow, simDir, blind>>
    BY <1>1, <1>t DEF FirstPull
  <1>2. CASE pull'[w] = NoPull \/ pull'[w].pc = "check"
    BY <1>2 DEF FirstPull, NoPull
  <1>3. ASSUME NEW u \in AutoPulls, NEW s \in Sims, Claim(u, s) PROVE FirstPull(w)'
    <2>1. CASE u = w
      BY <1>3, <2>1, <1>t, <1>2 DEF Claim, NoPull, TypeOK
    <2>2. CASE u # w
      BY <1>3, <2>2, <1>t DEF Claim, TypeOK, FirstPull
    <2> QED BY <2>1, <2>2
  <1>4. ASSUME NEW u \in Pulls, PullStep(u) \/ CheckFails(u) \/ FailPull(u) PROVE FirstPull(w)'
    <2>0. CASE Release(u) /\ u = w
      BY <2>0, <1>t, <1>2 DEF Release, TypeOK
    <2>1. CASE u = w /\ ~Release(u)
      <3>1. pull'[w].sim = pull[w].sim
        BY <1>4, <1>t, <2>1, InnerStep
      <3> QED BY <1>4, <2>1, <3>1, <1>t, OwnStep DEF FirstPull
    <2>2. CASE u # w
      <3>1. pull[u].pc # "idle" /\ pull'[w] = pull[w]
        <4>1. CASE Release(u)
          BY <4>1, <2>2, <1>t DEF Release, TypeOK
        <4>2. CASE ~Release(u)
          BY <4>2, <1>4, <2>2, <1>t, InnerStep
        <4> QED BY <4>1, <4>2
      <3>2. CASE pull[w].pc = "idle"
        BY <3>1, <3>2 DEF FirstPull
      <3>3. CASE pull[w].pc # "idle"
        <4>1. pull[u].sim # pull[w].sim
          BY <3>1, <3>3, <2>2, <1>t DEF AloneOn
        <4>2. Untouched(pull[w].sim)
          BY <4>1, <3>3, <1>4, <1>t, TouchesOwn
        <4> QED BY <4>2, <3>1, <1>t DEF FirstPull, Untouched
      <3> QED BY <3>2, <3>3
    <2> QED BY <2>0, <2>1, <2>2
  <1>5. ASSUME NEW c \in Syncs, RetryMark(c) \/ RetryReject(c) PROVE FirstPull(w)'
    <2>1. CASE pull[w].pc = "idle"
      BY <1>5, <2>1, <1>t, RetryTouches DEF FirstPull
    <2>2. CASE pull[w].pc # "idle"
      BY <1>5, <2>2, <1>t, RetryTouches DEF FirstPull
    <2> QED BY <2>1, <2>2
  <1>6. CASE Crash
    BY <1>6, <1>2 DEF Crash
  <1> QED BY <1>t, <1>1, <1>3, <1>4, <1>5, <1>6, AutoSyncSteps

LEMMA DeploymentFixed == [Next]_vars => deployment' = deployment
  BY DEF Next, vars, Upload, Claim, ApiPull, PullStep, CheckKnown, CheckFails, Download, Store,
         Stage, Compose, MapOnto, Defer, Register, Release, FailPull, Put, SyncStep, ListPending,
         RetryCompose, RetryMap, RetryRegister, RetryMark, RetryReject, FailSync, Crash

\* What a step does to the row and the directory of a bundle, seen from the bundle.
LEMMA RowStep ==
    ASSUME PullsInv, OnlyAutoSync, [Next]_vars, NEW s \in Sims, s \notin blind'
    PROVE  /\ simRow'[s] # "none" => s \in simDir'
           /\ simRow'[s] = "staged" => simRow[s] \in {"none", "staged"}
  <1>t. Inv /\ TypeOK
    BY DEF PullsInv, Inv
  <1>k. s \notin blind /\ simRow[s] # "none" => s \in simDir
    BY DEF PullsInv, KnownSimOnDisk, OnlyAutoSync
  <1>1. CASE UNCHANGED <<pull, inProgress, simRow, simDir, blind>>
    BY <1>1, <1>k
  <1>2. ASSUME NEW w \in AutoPulls, NEW t \in Sims, Claim(w, t)
        PROVE  UNCHANGED <<simRow, simDir, blind>>
    BY <1>2 DEF Claim
  <1>3. ASSUME NEW w \in Pulls, PullStep(w) \/ CheckFails(w) \/ FailPull(w)
        PROVE  /\ simRow'[s] # "none" => s \in simDir'
               /\ simRow'[s] = "staged" => simRow[s] \in {"none", "staged"}
    <2>1. CASE s = pull[w].sim
      <3>1. FirstPull(w)
        BY DEF PullsInv
      <3> QED BY <1>3, <1>t, <1>k, <2>1, <3>1, OwnStep
    <2>2. CASE s # pull[w].sim
      BY <1>3, <1>t, <1>k, <2>2, TouchesOwn DEF Untouched
    <2> QED BY <2>1, <2>2
  <1>4. ASSUME NEW c \in Syncs, RetryMark(c) \/ RetryReject(c)
        PROVE  /\ simRow'[s] # "none" => s \in simDir'
               /\ simRow'[s] = "staged" => simRow[s] \in {"none", "staged"}
    BY <1>4, <1>t, <1>k, RetryTouches
  <1>5. CASE Crash
    BY <1>5, <1>k DEF Crash
  <1> QED BY <1>t, <1>1, <1>2, <1>3, <1>4, <1>5, <1>k, AutoSyncSteps

LEMMA PullsInvStep == PullsInv /\ [Next]_vars => PullsInv'
  <1> SUFFICES ASSUME PullsInv, [Next]_vars PROVE PullsInv'
    OBVIOUS
  <1>1. Inv'
    BY InvStep DEF PullsInv
  <1>2. OnlyAutoSync' = OnlyAutoSync
    BY DeploymentFixed DEF OnlyAutoSync
  <1>3. CASE OnlyAutoSync
    <2>1. \A w \in Pulls : AloneOn(w)'
      BY <1>3, AloneStep DEF PullsInv
    <2>2. \A w \in Pulls : FirstPull(w)'
      BY <1>3, FirstPullStep
    <2>3. KnownSimOnDisk'
      BY <1>3, RowStep DEF KnownSimOnDisk
    <2> QED BY <1>1, <2>1, <2>2, <2>3 DEF PullsInv
  <1>4. CASE ~OnlyAutoSync
    BY <1>1, <1>2, <1>4 DEF PullsInv
  <1> QED BY <1>3, <1>4

\* In a deployment without operators' pulls, what auto-sync needs of its claims holds in
\* every reachable state: one puller per object, and none of an object with a row.
THEOREM PullsInvariance == Spec => []PullsInv
  <1>1. Init => PullsInv
    BY InvInit DEF PullsInv, Init, AloneOn, FirstPull, KnownSimOnDisk, NoPull
  <1> QED BY <1>1, PullsInvStep, PTL DEF Spec

\* Where operators keep out of it, any sim bundle auto-sync has a row for is on disk,
\* ready for the retry, however many listeners and pollers there are.
THEOREM KnownOnDisk == Spec => []KnownSimOnDisk
  <1>1. PullsInv => KnownSimOnDisk
    BY DEF PullsInv, KnownSimOnDisk, OnlyAutoSync
  <1> QED BY <1>1, PullsInvariance, PTL

LEMMA BlindStep == [Next]_vars => blind' = blind \/ simRow' = simRow
  BY DEF Next, vars, Upload, Claim, ApiPull, PullStep, CheckKnown, CheckFails, Download, Store,
         Stage, Compose, MapOnto, Defer, Register, Release, FailPull, Put, SyncStep, ListPending,
         RetryCompose, RetryMap, RetryRegister, RetryMark, RetryReject, FailSync, Crash

\* ... and no listener or poller puts a row back to "staged", unless a look-up failed.
THEOREM PullsOnce == Spec => AutoSyncPullsOnce
  <1>1. PullsInv /\ [Next]_vars
          => [deployment.pulls \subseteq AutoPulls => \A s \in Sims \ blind :
                 simRow[s] \notin {"none", "staged"} => simRow'[s] # "staged"]_vars
    <2> SUFFICES ASSUME PullsInv, [Next]_vars, OnlyAutoSync, NEW s \in Sims, s \notin blind,
                        simRow[s] \notin {"none", "staged"}
                 PROVE  simRow'[s] # "staged"
      BY DEF OnlyAutoSync
    <2>1. CASE simRow' = simRow
      BY <2>1
    <2>2. CASE blind' = blind
      BY <2>2, RowStep
    <2> QED BY <2>1, <2>2, BlindStep
  <1> QED BY <1>1, PullsInvariance, PTL DEF Spec, AutoSyncPullsOnce
-----------------------------------------------------------------------------
(***************************************************************************)
(* Parked bundles, where pulls and syncs do not meet and nothing fails.    *)
(* While a network has a snapshot and a sim bundle waits for it, a sync is *)
(* about to compose that bundle, or there is a reason why it cannot.  For  *)
(* that the sync must find the bundle's files, and map it onto the         *)
(* snapshot it compiled; both need that nobody else is on the network.     *)
(***************************************************************************)
Serial == ~deployment.overlap /\ faults = 0

OneAtATime(n) ==
    /\ \A v, w \in Pulls : PullOn(v, n) /\ PullOn(w, n) => v = w
    /\ \A c, d \in Syncs : SyncOn(c, n) /\ SyncOn(d, n) => c = d
    /\ \A w \in Pulls, c \in Syncs : ~(PullOn(w, n) /\ SyncOn(c, n))

PullCalm(w) ==
    /\ pull[w].pc = "defer" => snapshot[SimNet[pull[w].sim]] = None
    /\ pull[w].pc = "stage" => pull[w].sim \in simDir

SyncCalm(c) ==
    sync[c].pc # "idle" =>
        /\ \A t \in sync[c].todo : SimNet[t] = sync[c].net
        /\ sync[c].pc \in {"map", "register", "mark", "reject"}
             => SimNet[sync[c].sim] = sync[c].net
        /\ sync[c].pc = "map" => compiled[sync[c].net] = snapshot[sync[c].net]

\* The sync c has the bundle s still to compose, or is at it.
Working(c, s) ==
    /\ SyncOn(c, SimNet[s])
    /\ \/ sync[c].pc = "list"
       \/ s \in sync[c].todo
       \/ sync[c].pc \in {"map", "register", "mark", "reject"} /\ sync[c].sim = s

Waits(s) == simRow[s] = "pending_real_snapshot" /\ snapshot[SimNet[s]] # None

OnDisk(s) ==
    simRow[s] # "none" =>
        s \in simDir \/ \E w \in Pulls : pull[w].pc = "store" /\ pull[w].sim = s

Awaited(s) ==
    Waits(s) => Unlucky(s, snapshot[SimNet[s]]) \/ \E c \in Syncs : Working(c, s)

Calm ==
    /\ \A n \in Networks : OneAtATime(n)
    /\ \A w \in Pulls : PullCalm(w)
    /\ \A c \in Syncs : SyncCalm(c)
    /\ \A s \in Sims : OnDisk(s) /\ Awaited(s)

SerialInv == Inv /\ (Serial => Calm)

\* What a step of the pull u does, apart from its first.
PullTurn(u) ==
    LET s == pull[u].sim
        n == SimNet[s]
    IN  /\ pull[u].pc # "idle" /\ s \in Sims
        /\ pull'[u].pc # "idle" => pull'[u].sim = s
        /\ \A v \in Pulls \ {u} : pull'[v] = pull[v]
        /\ sync' = sync /\ snapshot' = snapshot
        /\ \A m \in Networks \ {n} : compiled'[m] = compiled[m]
        /\ \A t \in Sims \ {s} : simRow'[t] = simRow[t] /\ (t \in simDir' <=> t \in simDir)
        /\ simRow'[s] = "pending_real_snapshot" =>
             simRow[s] = "pending_real_snapshot" \/ snapshot[n] = None
        /\ pull'[u].pc = "defer" => snapshot[n] = None
        /\ pull'[u].pc = "stage" => s \in simDir'
        /\ simRow'[s] # "none" => s \in simDir' \/ pull'[u].pc = "store"

LEMMA PullTurns ==
    ASSUME Inv, Calm, NEW u \in Pulls, PullStep(u)
    PROVE  PullTurn(u)
  <1> DEFINE s == pull[u].sim
             n == SimNet[s]
  <1>t. TypeOK /\ pull[u] \in Pull /\ PullCalm(u)
    BY DEF Inv, Calm, TypeOK
  <1>1. pull[u].pc # "idle" /\ s \in Sims /\ n \in Networks
    <2>1. pull[u].pc # "idle"
      BY DEF PullStep, CheckKnown, Download, Store, Stage, Compose, MapOnto, Defer, Register,
             Release
    <2> QED BY <2>1, Constants DEF Inv, PullGood
  <1>2. simRow[s] # "none" => s \in simDir \/ pull[u].pc = "store"
    <2>1. OneAtATime(n) /\ OnDisk(s)
      BY <1>1 DEF Calm
    <2>2. ASSUME NEW w \in Pulls, pull[w].pc = "store", pull[w].sim = s PROVE w = u
      <3>1. PullOn(w, n) /\ PullOn(u, n)
        BY <1>1, <2>2 DEF PullOn
      <3> QED BY <2>1, <3>1 DEF OneAtATime
    <2> QED BY <2>1, <2>2 DEF OnDisk
  <1>adv. ASSUME NEW pc, Advance(u, pc)
          PROVE  /\ pull'[u].pc = pc /\ pull'[u].sim = s
                 /\ \A v \in Pulls \ {u} : pull'[v] = pull[v]
    BY <1>adv, <1>t DEF Advance, TypeOK, Pull
  <1>3. CASE CheckKnown(u)
    BY <1>1, <1>2, <1>3, <1>adv DEF CheckKnown, PullTurn
  <1>4. CASE Download(u)
    BY <1>1, <1>2, <1>4, <1>adv DEF Download, PullTurn
  <1>5. CASE Store(u)
    BY <1>1, <1>2, <1>5, <1>adv DEF Store, PullTurn
  <1>6. CASE Stage(u)
    <2>1. s \in simDir
      BY <1>6, <1>t DEF Stage, PullCalm
    <2> QED BY <1>1, <1>6, <1>t, <1>adv, <2>1 DEF Stage, PullTurn, TypeOK
  <1>7. CASE Compose(u)
    <2>1. \A m \in Networks \ {n} : compiled'[m] = compiled[m]
      BY <1>7, <1>t DEF Compose, Compile, TypeOK
    <2>2. ~ pull[u].pc = "store" /\ simRow' = simRow /\ simDir' = simDir
          /\ sync' = sync /\ snapshot' = snapshot
      BY <1>7 DEF Compose
    <2>3. \/ Advance(u, "defer") /\ snapshot[n] = None
          \/ Advance(u, "map") \/ Advance(u, "release")
      BY <1>7 DEF Compose
    <2>4. /\ pull'[u].sim = s
          /\ \A v \in Pulls \ {u} : pull'[v] = pull[v]
          /\ pull'[u].pc = "defer" => snapshot[n] = None
          /\ pull'[u].pc \in {"defer", "map", "release"}
      BY <2>3, <1>adv
    <2> QED BY <1>1, <1>2, <2>1, <2>2, <2>4 DEF PullTurn
  <1>8. CASE MapOnto(u)
    <2>1. /\ pull'[u].pc \in {"register", "release"} /\ pull'[u].sim = s
          /\ \A v \in Pulls \ {u} : pull'[v] = pull[v]
      BY <1>8, <1>t DEF MapOnto, TypeOK, Pull
    <2> QED BY <1>1, <1>2, <1>8, <2>1 DEF MapOnto, PullTurn
  <1>9. CASE Defer(u)
    <2>1. snapshot[n] = None
      BY <1>9, <1>t DEF Defer, PullCalm
    <2>2. \A t \in Sims \ {s} : simRow'[t] = simRow[t]
      BY <1>9, <1>t DEF Defer, TypeOK
    <2>3. simRow[s] # "none"
      BY <1>9 DEF Defer, Inv, PullGood
    <2> QED BY <1>1, <1>2, <1>9, <1>adv, <2>1, <2>2, <2>3 DEF Defer, PullTurn
  <1>10. CASE Register(u)
    BY <1>1, <1>2, <1>10, <1>adv DEF Register, PullTurn
  <1>11. CASE Release(u)
    <2>1. pull'[u].pc = "idle" /\ \A v \in Pulls \ {u} : pull'[v] = pull[v]
      BY <1>11, <1>t DEF Release, NoPull, TypeOK
    <2> QED BY <1>1, <1>2, <1>11, <2>1 DEF Release, PullTurn
  <1> QED BY <1>3, <1>4, <1>5, <1>6, <1>7, <1>8, <1>9, <1>10, <1>11 DEF PullStep

LEMMA PullTurnCalm ==
    ASSUME Inv, Calm, NEW u \in Pulls, PullTurn(u)
    PROVE  Calm'
  <1> DEFINE s == pull[u].sim
             n == SimNet[s]
  <1>0. s \in Sims /\ n \in Networks /\ PullOn(u, n) /\ OneAtATime(n)
    BY Constants DEF Calm, PullTurn, PullOn
  <1>1. \A m : \A w \in Pulls : PullOn(w, m)' => PullOn(w, m)
    BY DEF PullOn, PullTurn
  <1>2. \A m : \A c \in Syncs : SyncOn(c, m)' <=> SyncOn(c, m)
    BY DEF SyncOn, PullTurn
  <1>3. \A m \in Networks : OneAtATime(m)'
    BY <1>1, <1>2 DEF Calm, OneAtATime
  <1>4. \A c \in Syncs : ~SyncOn(c, n)
    BY <1>0 DEF OneAtATime
  <1>5. ASSUME NEW w \in Pulls PROVE PullCalm(w)'
    <2>1. CASE w = u
      BY <2>1, <1>0 DEF PullCalm, PullTurn
    <2>2. CASE w # u /\ pull[w].pc # "idle"
      <3>1. pull[w].sim \in Sims /\ pull'[w] = pull[w]
        BY <2>2 DEF Inv, PullGood, PullTurn
      <3>2. pull[w].sim # s
        BY <1>0, <2>2 DEF OneAtATime, PullOn
      <3>3. PullCalm(w)
        BY DEF Calm
      <3> QED BY <3>1, <3>2, <3>3 DEF PullCalm, PullTurn
    <2>3. CASE w # u /\ pull[w].pc = "idle"
      BY <2>3 DEF PullCalm, PullTurn
    <2> QED BY <2>1, <2>2, <2>3
  <1>6. ASSUME NEW c \in Syncs PROVE SyncCalm(c)'
    <2>1. CASE sync[c].pc = "idle"
      BY <2>1 DEF SyncCalm, PullTurn
    <2>2. CASE sync[c].pc # "idle"
      <3>1. sync[c].net \in Networks \ {n}
        BY <2>2, <1>4 DEF SyncOn, Inv, SyncGood
      <3>2. compiled'[sync[c].net] = compiled[sync[c].net] /\ sync' = sync /\ snapshot' = snapshot
        BY <3>1 DEF PullTurn
      <3> QED BY <3>2 DEF SyncCalm, Calm
    <2> QED BY <2>1, <2>2
  <1>7. ASSUME NEW t \in Sims PROVE OnDisk(t)'
    <2>1. CASE t = s
      BY <2>1 DEF PullTurn, OnDisk
    <2>2. CASE t # s
      <3>1. simRow'[t] = simRow[t] /\ (t \in simDir' <=> t \in simDir)
        BY <2>2 DEF PullTurn
      <3>2. ASSUME NEW w \in Pulls, pull[w].pc = "store", pull[w].sim = t PROVE pull'[w] = pull[w]
        BY <2>2, <3>2 DEF PullTurn
      <3> QED BY <3>1, <3>2 DEF Calm, OnDisk
    <2> QED BY <2>1, <2>2
  <1>8. ASSUME NEW t \in Sims PROVE Awaited(t)'
    <2>1. \A c \in Syncs : Working(c, t) => Working(c, t)'
      BY DEF Working, SyncOn, PullTurn
    <2>2. Waits(t)' => Waits(t)
      BY DEF Waits, PullTurn
    <2>3. Unlucky(t, snapshot[SimNet[t]]) => Unlucky(t, snapshot[SimNet[t]])'
      BY DEF Unlucky, PullTurn
    <2>4. Awaited(t)
      BY DEF Calm
    <2> QED BY <2>1, <2>2, <2>3, <2>4 DEF Awaited
  <1> QED BY <1>3, <1>5, <1>6, <1>7, <1>8 DEF Calm

\* What a step of the sync c does, apart from its first.
SyncTurn(c) ==
    LET n == sync[c].net IN
    /\ sync[c].pc # "idle" /\ n \in Networks
    /\ sync'[c].pc # "idle" => sync'[c].net = n
    /\ \A d \in Syncs \ {c} : sync'[d] = sync[d]
    /\ pull' = pull /\ snapshot' = snapshot /\ simDir' = simDir
    /\ \A m \in Networks \ {n} : compiled'[m] = compiled[m]
    /\ SyncCalm(c)'
    /\ \A t \in Sims : /\ simRow'[t] = "pending_real_snapshot" => simRow[t] = simRow'[t]
                       /\ simRow'[t] # "none" => simRow[t] # "none"
    /\ \A t \in Sims : Waits(t)' /\ Working(c, t)
                         => Unlucky(t, snapshot[SimNet[t]]) \/ Working(c, t)'

\* A turn that ends in the next one of the loop, with the bundles in todo still to come.
LEMMA NextTurn ==
    ASSUME Inv, Calm, NEW c \in Syncs, sync[c].pc # "idle",
           NEW todo \in SUBSET Sims, NextRetry(c, todo),
           \A t \in todo : SimNet[t] = sync[c].net,
           pull' = pull, snapshot' = snapshot, simDir' = simDir,
           \A m \in Networks \ {sync[c].net} : compiled'[m] = compiled[m],
           \A t \in Sims : /\ simRow'[t] = "pending_real_snapshot" => simRow[t] = simRow'[t]
                           /\ simRow'[t] # "none" => simRow[t] # "none",
           \A t \in Sims : Waits(t)' /\ Working(c, t)
                             => Unlucky(t, snapshot[SimNet[t]]) \/ t \in todo
    PROVE  SyncTurn(c)
  <1>1. TypeOK /\ sync[c].net \in Networks
    BY DEF Inv, SyncGood
  <1>2. /\ \A d \in Syncs \ {c} : sync'[d] = sync[d]
        /\ sync'[c].pc \in {"idle", "retry"} /\ sync'[c].todo \subseteq todo
        /\ sync'[c].pc # "idle" => sync'[c].net = sync[c].net
    BY <1>1, NextRetryType
  <1>3. SyncCalm(c)'
    BY <1>2 DEF SyncCalm
  <1>4. \A t \in todo : SimNet[t] = sync[c].net => Working(c, t)'
    <2>1. SUFFICES ASSUME NEW t \in todo
                   PROVE  /\ sync'[c].pc = "retry" /\ sync'[c].net = sync[c].net
                          /\ t \in sync'[c].todo
      BY DEF Working, SyncOn
    <2>2. sync' = [sync EXCEPT ![c] =
                     [NoSync EXCEPT !.pc = "retry", !.net = sync[c].net, !.todo = todo]]
      BY DEF NextRetry
    <2> QED BY <2>2, <1>1 DEF NoSync, TypeOK
  <1> QED BY <1>1, <1>2, <1>3, <1>4 DEF SyncTurn

\* A turn that goes on with the bundle the sync is at.
LEMMA SameTurn ==
    ASSUME Inv, Calm, NEW c \in Syncs, sync[c].pc # "idle", NEW s \in Sims,
           SimNet[s] = sync[c].net,
           sync'[c].pc \in {"map", "register", "mark", "reject"},
           sync'[c].net = sync[c].net, sync'[c].sim = s,
           sync'[c].todo \subseteq sync[c].todo,
           \A d \in Syncs \ {c} : sync'[d] = sync[d],
           pull' = pull, snapshot' = snapshot, simDir' = simDir, simRow' = simRow,
           \A m \in Networks \ {sync[c].net} : compiled'[m] = compiled[m],
           sync'[c].pc = "map" => compiled'[sync[c].net] = snapshot[sync[c].net],
           \A t \in Sims : Working(c, t) => t = s \/ t \in sync'[c].todo
    PROVE  SyncTurn(c)
  <1>1. TypeOK /\ sync[c].net \in Networks /\ SyncCalm(c)
    BY DEF Inv, SyncGood, Calm
  <1>2. SyncCalm(c)'
    BY <1>1 DEF SyncCalm
  <1>3. \A t \in Sims : Working(c, t) => Working(c, t)'
    BY <1>1 DEF Working, SyncOn
  <1> QED BY <1>1, <1>2, <1>3 DEF SyncTurn

LEMMA SyncTurns ==
    ASSUME Inv, Calm, NEW c \in Syncs, SyncStep(c)
    PROVE  SyncTurn(c)
  <1> DEFINE n == sync[c].net
             todo == sync[c].todo
  <1>t. TypeOK /\ sync[c] \in Sync /\ SyncGood(c) /\ SyncCalm(c) /\ todo \in SUBSET Sims
    BY DEF Inv, Calm, TypeOK, Sync
  <1>1. sync[c].pc # "idle" /\ n \in Networks /\ OneAtATime(n) /\ SyncOn(c, n)
    <2>1. sync[c].pc # "idle"
      BY DEF SyncStep, ListPending, RetryCompose, RetryMap, RetryRegister, RetryMark, RetryReject
    <2>2. n \in Networks
      BY <2>1, <1>t DEF SyncGood
    <2> QED BY <2>1, <2>2 DEF Calm, SyncOn
  <1>2. \A w \in Pulls : ~PullOn(w, n)
    BY <1>1 DEF OneAtATime
  <1>3. \A t \in todo : SimNet[t] = n
    BY <1>1, <1>t DEF SyncCalm
  <1>4. CASE ListPending(c)
    <2> DEFINE all == {s \in Sims : SimNet[s] = n /\ simRow[s] = "pending_real_snapshot"}
    <2>1. NextRetry(c, all) /\ all \in SUBSET Sims /\ \A t \in all : SimNet[t] = n
      BY <1>4 DEF ListPending
    <2>2. \A t \in Sims : Waits(t)' /\ Working(c, t) => t \in all
      BY <1>4 DEF ListPending, Waits, Working, SyncOn
    <2>3. /\ pull' = pull /\ snapshot' = snapshot /\ simDir' = simDir
          /\ compiled' = compiled /\ simRow' = simRow
      BY <1>4 DEF ListPending
    <2> HIDE DEF all
    <2> QED BY <1>1, <2>1, <2>2, <2>3, NextTurn
  <1>5. ASSUME NEW s \in Sims, RetryCompose(c, s) PROVE SyncTurn(c)
    <2> DEFINE rest == todo \ {s}
    <2>1. /\ sync[c].pc = "retry" /\ s \in todo /\ SimNet[s] = n /\ rest \in SUBSET Sims
          /\ \A t \in rest : SimNet[t] = n
      BY <1>5, <1>3, <1>t DEF RetryCompose
    <2>2. /\ pull' = pull /\ snapshot' = snapshot /\ simDir' = simDir /\ simRow' = simRow
      BY <1>5 DEF RetryCompose
    <2>3. \A t \in Sims : Working(c, t) => t = s \/ t \in rest
      BY <2>1 DEF Working
    <2>4. s \in simDir
      <3>1. simRow[s] # "none" /\ OnDisk(s)
        BY <2>1, <1>t DEF SyncGood, Calm
      <3>2. ASSUME NEW w \in Pulls, pull[w].pc = "store", pull[w].sim = s PROVE FALSE
        BY <1>2, <2>1, <3>2 DEF PullOn
      <3> QED BY <3>1, <3>2 DEF OnDisk
    <2>5. CASE snapshot[n] = None
      <3>1. NextRetry(c, rest) /\ compiled' = compiled
        BY <1>5, <2>1, <2>5 DEF RetryCompose
      <3>2. \A t \in Sims : Waits(t)' /\ Working(c, t) => t \in rest
        BY <2>2, <2>5 DEF Waits, Working, SyncOn
      <3> QED BY <1>1, <2>1, <2>2, <3>1, <3>2, NextTurn
    <2>6. CASE snapshot[n] # None
      <3> DEFINE p == snapshot[n]
      <3>1. /\ compiled' = Compile(n)
            /\ IF compiled'[n] # p THEN NextRetry(c, {})
               ELSE sync' = [sync EXCEPT ![c] = [@ EXCEPT !.pc = "map", !.todo = rest, !.sim = s]]
        BY <1>5, <2>1, <2>4, <2>6 DEF RetryCompose
      <3>2. \A m \in Networks \ {n} : compiled'[m] = compiled[m]
        BY <3>1, <1>t DEF Compile, TypeOK
      <3>3. CASE compiled'[n] # p
        <4>1. \A t \in Sims : SimNet[t] = n => Verdict[t][p] = "exception"
          BY <3>1, <3>3, <1>1, <1>t DEF Compile, TypeOK
        <4>2. \A t \in Sims : SimNet[t] = n => Unlucky(t, p)
          BY <4>1, <2>6 DEF Unlucky
        <4>3. \A t \in Sims : Waits(t)' /\ Working(c, t)
                                => Unlucky(t, snapshot[SimNet[t]]) \/ t \in {}
          BY <4>2 DEF Working, SyncOn
        <4>4. NextRetry(c, {}) /\ {} \in SUBSET Sims /\ \A t \in {} : SimNet[t] = n
          BY <3>1, <3>3
        <4> HIDE DEF n
        <4> QED BY <1>1, <2>2, <3>2, <4>3, <4>4, NextTurn DEF n
      <3>4. CASE compiled'[n] = p
        <4> DEFINE v == [sync[c] EXCEPT !.pc = "map", !.todo = rest, !.sim = s]
        <4>1. sync' = [sync EXCEPT ![c] = v]
          BY <3>1, <3>4
        <4>2. v.pc = "map" /\ v.net = n /\ v.todo = rest /\ v.sim = s
          BY <1>t DEF Sync
        <4> HIDE DEF v
        <4>3. sync'[c] = v /\ \A d \in Syncs \ {c} : sync'[d] = sync[d]
          BY <4>1, <1>t DEF TypeOK
        <4>4. /\ sync'[c].pc = "map" /\ sync'[c].net = sync[c].net /\ sync'[c].sim = s
              /\ sync'[c].todo = rest /\ rest \subseteq sync[c].todo
          BY <4>2, <4>3
        <4> QED BY <1>1, <2>1, <2>2, <2>3, <3>2, <3>4, <4>3, <4>4, SameTurn
      <3> QED BY <3>3, <3>4
    <2> QED BY <2>5, <2>6
  <1>6. CASE RetryMap(c)
    <2> DEFINE s == sync[c].sim
               p == compiled[SimNet[s]]
    <2>1. /\ sync[c].pc = "map" /\ s \in Sims /\ SimNet[s] = n /\ p = snapshot[n]
          /\ p # None /\ p \in Payloads
      BY <1>6, <1>1, <1>t DEF RetryMap, SyncGood, SyncCalm, TypeOK
    <2>2. Verdict[s][p] \in Verdicts
      BY <2>1, SimPipelineAssumption
    <2>3. /\ pull' = pull /\ snapshot' = snapshot /\ simDir' = simDir /\ simRow' = simRow
          /\ compiled' = compiled
      BY <1>6 DEF RetryMap
    <2>4. \A t \in Sims : Working(c, t) => t = s \/ t \in todo
      BY <2>1 DEF Working
    <2>to. ASSUME NEW pc \in {"register", "reject"},
                  sync' = [sync EXCEPT ![c] = [@ EXCEPT !.pc = pc, !.built = p]]
           PROVE  SyncTurn(c)
      <3>1. /\ sync'[c].pc = pc /\ sync'[c].net = sync[c].net /\ sync'[c].sim = s
            /\ sync'[c].todo = todo /\ \A d \in Syncs \ {c} : sync'[d] = sync[d]
        BY <2>to, <1>t DEF TypeOK, Sync
      <3> QED BY <1>1, <2>1, <2>3, <2>4, <3>1, SameTurn
    <2>5. CASE Verdict[s][p] = "composed"
      <3>1. sync' = [sync EXCEPT ![c] = [@ EXCEPT !.pc = "register", !.built = p]]
        BY <1>6, <2>5 DEF RetryMap
      <3> QED BY <3>1, <2>to
    <2>6. CASE Verdict[s][p] = "compose_error"
      <3>1. sync' = [sync EXCEPT ![c] = [@ EXCEPT !.pc = "reject", !.built = p]]
        BY <1>6, <2>6 DEF RetryMap
      <3> QED BY <3>1, <2>to
    <2>7. CASE Verdict[s][p] = "register_error"
      <3>1. NextRetry(c, todo)
        BY <1>6, <2>7 DEF RetryMap
      <3>2. Unlucky(s, snapshot[SimNet[s]])
        BY <2>1, <2>7 DEF Unlucky
      <3>3. \A t \in Sims : Waits(t)' /\ Working(c, t)
                              => Unlucky(t, snapshot[SimNet[t]]) \/ t \in todo
        BY <3>2, <2>4
      <3> QED BY <1>1, <1>3, <1>t, <2>3, <3>1, <3>3, NextTurn
    <2>8. CASE Verdict[s][p] = "exception"
      <3>1. NextRetry(c, {}) /\ {} \in SUBSET Sims /\ \A t \in {} : SimNet[t] = n
        BY <1>6, <2>8 DEF RetryMap
      <3>2. \A t \in Sims : SimNet[t] = n => Unlucky(t, snapshot[SimNet[t]])
        BY <2>1, <2>8 DEF Unlucky
      <3>3. \A t \in Sims : Waits(t)' /\ Working(c, t)
                              => Unlucky(t, snapshot[SimNet[t]]) \/ t \in {}
        BY <3>2 DEF Working, SyncOn
      <3> QED BY <1>1, <2>3, <3>1, <3>3, NextTurn
    <2> QED BY <2>2, <2>5, <2>6, <2>7, <2>8 DEF Verdicts
  <1>7. CASE RetryRegister(c)
    <2> DEFINE s == sync[c].sim
    <2>1. sync[c].pc = "register" /\ s \in Sims /\ SimNet[s] = n
      BY <1>7, <1>1, <1>t DEF RetryRegister, SyncGood, SyncCalm
    <2>2. /\ pull' = pull /\ snapshot' = snapshot /\ simDir' = simDir /\ simRow' = simRow
          /\ compiled' = compiled
      BY <1>7 DEF RetryRegister
    <2>3. \A t \in Sims : Working(c, t) => t = s \/ t \in todo
      BY <2>1 DEF Working
    <2>4. /\ sync'[c].pc = "mark" /\ sync'[c].net = sync[c].net /\ sync'[c].sim = s
          /\ sync'[c].todo = todo /\ \A d \in Syncs \ {c} : sync'[d] = sync[d]
      BY <1>7, <1>t DEF RetryRegister, TypeOK, Sync
    <2> QED BY <1>1, <2>1, <2>2, <2>3, <2>4, SameTurn
  <1>8. CASE RetryMark(c) \/ RetryReject(c)
    <2> DEFINE s == sync[c].sim
    <2>1. sync[c].pc \in {"mark", "reject"} /\ s \in Sims /\ simRow[s] # "none"
      BY <1>8, <1>t DEF RetryMark, RetryReject, SyncGood
    <2>2. /\ pull' = pull /\ snapshot' = snapshot /\ simDir' = simDir
          /\ compiled' = compiled /\ NextRetry(c, todo)
      BY <1>8 DEF RetryMark, RetryReject
    <2>3. /\ simRow'[s] \in {"composed", "rejected"}
          /\ \A t \in Sims \ {s} : simRow'[t] = simRow[t]
      BY <1>8, <2>1, <1>t DEF RetryMark, RetryReject, TypeOK
    <2>4. \A t \in Sims : /\ simRow'[t] = "pending_real_snapshot" => simRow[t] = simRow'[t]
                          /\ simRow'[t] # "none" => simRow[t] # "none"
      BY <2>1, <2>3
    <2>5. \A t \in Sims : Waits(t)' /\ Working(c, t) => t \in todo
      BY <2>1, <2>3 DEF Waits, Working
    <2> QED BY <1>1, <1>3, <1>t, <2>2, <2>4, <2>5, NextTurn
  <1> QED BY <1>4, <1>5, <1>6, <1>7, <1>8 DEF SyncStep

LEMMA SyncTurnCalm ==
    ASSUME Inv, Calm, NEW c \in Syncs, SyncTurn(c)
    PROVE  Calm'
  <1> DEFINE n == sync[c].net
  <1>0. n \in Networks /\ SyncOn(c, n) /\ OneAtATime(n)
    BY DEF Calm, SyncTurn, SyncOn
  <1>1. \A m : \A w \in Pulls : PullOn(w, m)' <=> PullOn(w, m)
    BY DEF PullOn, SyncTurn
  <1>2. \A m : \A d \in Syncs : SyncOn(d, m)' => SyncOn(d, m)
    BY DEF SyncOn, SyncTurn
  <1>3. \A m \in Networks : OneAtATime(m)'
    BY <1>1, <1>2 DEF Calm, OneAtATime
  <1>4. \A w \in Pulls : PullCalm(w)'
    BY DEF Calm, PullCalm, SyncTurn
  <1>5. ASSUME NEW d \in Syncs PROVE SyncCalm(d)'
    <2>1. CASE d = c
      BY <2>1 DEF SyncTurn
    <2>2. CASE d # c /\ sync[d].pc = "idle"
      BY <2>2 DEF SyncCalm, SyncTurn
    <2>3. CASE d # c /\ sync[d].pc # "idle"
      <3>1. sync[d].net \in Networks \ {n}
        BY <2>3, <1>0 DEF OneAtATime, SyncOn, Inv, SyncGood
      <3>2. /\ compiled'[sync[d].net] = compiled[sync[d].net] /\ sync'[d] = sync[d]
            /\ snapshot' = snapshot
        BY <2>3, <3>1 DEF SyncTurn
      <3> QED BY <3>2 DEF SyncCalm, Calm
    <2> QED BY <2>1, <2>2, <2>3
  <1>6. \A t \in Sims : OnDisk(t)'
    BY DEF Calm, OnDisk, SyncTurn
  <1>7. ASSUME NEW t \in Sims PROVE Awaited(t)'
    <2>1. Waits(t)' => Waits(t)
      BY DEF Waits, SyncTurn
    <2>2. Unlucky(t, snapshot[SimNet[t]]) => Unlucky(t, snapshot[SimNet[t]])'
      BY DEF Unlucky, SyncTurn
    <2>3. ASSUME NEW d \in Syncs, Working(d, t), Waits(t)'
          PROVE  Unlucky(t, snapshot[SimNet[t]]) \/ Working(d, t)'
      <3>1. CASE d = c
        BY <2>3, <3>1 DEF SyncTurn
      <3>2. CASE d # c
        BY <2>3, <3>2 DEF Working, SyncOn, SyncTurn
      <3> QED BY <3>1, <3>2
    <2>4. Awaited(t)
      BY DEF Calm
    <2> QED BY <2>1, <2>2, <2>3, <2>4 DEF Awaited
  <1> QED BY <1>3, <1>4, <1>5, <1>6, <1>7 DEF Calm

\* A pull begins only where nobody is, and has done nothing yet.
LEMMA PullBegins ==
    ASSUME Inv, Calm, Serial, NEW u \in Pulls, NEW s \in Sims, Claim(u, s) \/ ApiPull(u, s)
    PROVE  Calm'
  <1> DEFINE n == SimNet[s]
  <1>t. TypeOK
    BY DEF Inv
  <1>0. Quiet(n) /\ n \in Networks
    BY Constants DEF Claim, ApiPull, MayBegin, Serial
  <1>1. /\ pull[u].pc = "idle" /\ pull'[u].pc \in {"check", "download"} /\ pull'[u].sim = s
        /\ \A w \in Pulls \ {u} : pull'[w] = pull[w]
        /\ UNCHANGED <<sync, snapshot, compiled, simRow, simDir>>
    BY <1>t DEF Claim, ApiPull, NoPull, TypeOK
  <1>2. \A m : \A w \in Pulls : PullOn(w, m)' => PullOn(w, m) \/ (w = u /\ m = n)
    BY <1>1 DEF PullOn
  <1>3. \A m : \A c \in Syncs : SyncOn(c, m)' <=> SyncOn(c, m)
    BY <1>1 DEF SyncOn
  <1>4. \A m \in Networks : OneAtATime(m)'
    <2>1. \A v, w \in Pulls : \A m \in Networks : PullOn(v, m)' /\ PullOn(w, m)' => v = w
      BY <1>0, <1>2 DEF Calm, OneAtATime, Quiet
    <2>2. \A w \in Pulls, c \in Syncs : \A m \in Networks : ~(PullOn(w, m)' /\ SyncOn(c, m)')
      BY <1>0, <1>2, <1>3 DEF Calm, OneAtATime, Quiet
    <2> QED BY <1>3, <2>1, <2>2 DEF Calm, OneAtATime
  <1>5. \A w \in Pulls : PullCalm(w)'
    BY <1>1 DEF Calm, PullCalm
  <1>6. \A c \in Syncs : SyncCalm(c)'
    BY <1>1 DEF Calm, SyncCalm
  <1>7. \A t \in Sims : OnDisk(t)'
    BY <1>1 DEF Calm, OnDisk
  <1>8. \A t \in Sims : Awaited(t)'
    BY <1>1 DEF Calm, Awaited, Waits, Unlucky, Working, SyncOn
  <1> QED BY <1>4, <1>5, <1>6, <1>7, <1>8 DEF Calm

\* A snapshot arrives only where nobody is, and its sync is to look for what waits.
LEMMA SyncBegins ==
    ASSUME Inv, Calm, Serial, NEW c \in Syncs, NEW e \in Events, NEW p \in Payloads,
           Put(c, e, p)
    PROVE  Calm'
  <1> DEFINE n == PayloadNet[p]
  <1>t. TypeOK
    BY DEF Inv
  <1>0. Quiet(n) /\ n \in Networks
    BY Constants DEF Put, MayBegin, Serial
  <1>1. /\ sync[c].pc = "idle"
        /\ sync'[c].pc = "list" /\ sync'[c].net = n /\ sync'[c].todo = {}
        /\ \A d \in Syncs \ {c} : sync'[d] = sync[d]
        /\ \A m \in Networks \ {n} : snapshot'[m] = snapshot[m]
        /\ UNCHANGED <<pull, compiled, simRow, simDir>>
    BY <1>t DEF Put, NoSync, TypeOK
  <1>2. \A m : \A d \in Syncs : SyncOn(d, m)' => SyncOn(d, m) \/ (d = c /\ m = n)
    BY <1>1 DEF SyncOn
  <1>3. \A m : \A w \in Pulls : PullOn(w, m)' <=> PullOn(w, m)
    BY <1>1 DEF PullOn
  <1>4. \A m \in Networks : OneAtATime(m)'
    <2>1. \A d, b \in Syncs : \A m \in Networks : SyncOn(d, m)' /\ SyncOn(b, m)' => d = b
      BY <1>0, <1>2 DEF Calm, OneAtATime, Quiet
    <2>2. \A w \in Pulls, d \in Syncs : \A m \in Networks : ~(PullOn(w, m)' /\ SyncOn(d, m)')
      BY <1>0, <1>2, <1>3 DEF Calm, OneAtATime, Quiet
    <2> QED BY <1>3, <2>1, <2>2 DEF Calm, OneAtATime
  <1>5. ASSUME NEW w \in Pulls PROVE PullCalm(w)'
    <2>1. CASE pull[w].pc = "idle"
      BY <1>1, <2>1 DEF PullCalm
    <2>2. CASE pull[w].pc # "idle"
      <3>1. SimNet[pull[w].sim] \in Networks \ {n}
        BY <1>0, <2>2, Constants DEF Quiet, PullOn, Inv, PullGood
      <3>2. PullCalm(w)
        BY DEF Calm
      <3> QED BY <1>1, <3>1, <3>2 DEF PullCalm
    <2> QED BY <2>1, <2>2
  <1>6. ASSUME NEW d \in Syncs PROVE SyncCalm(d)'
    <2>1. CASE d = c
      BY <1>1, <2>1 DEF SyncCalm
    <2>2. CASE d # c /\ sync[d].pc = "idle"
      BY <1>1, <2>2 DEF SyncCalm
    <2>3. CASE d # c /\ sync[d].pc # "idle"
      <3>1. sync[d].net \in Networks \ {n}
        BY <1>0, <2>3 DEF Quiet, SyncOn, Inv, SyncGood
      <3>2. snapshot'[sync[d].net] = snapshot[sync[d].net] /\ sync'[d] = sync[d]
        BY <1>1, <2>3, <3>1
      <3> QED BY <1>1, <3>2 DEF Calm, SyncCalm
    <2> QED BY <2>1, <2>2, <2>3
  <1>7. \A t \in Sims : OnDisk(t)'
    BY <1>1 DEF Calm, OnDisk
  <1>8. ASSUME NEW t \in Sims PROVE Awaited(t)'
    <2>1. CASE SimNet[t] = n
      <3>1. Working(c, t)'
        BY <1>1, <2>1 DEF Working, SyncOn
      <3> QED BY <3>1 DEF Awaited
    <2>2. CASE SimNet[t] # n
      <3>1. snapshot'[SimNet[t]] = snapshot[SimNet[t]]
        BY <1>1, <2>2, Constants
      <3>2. \A d \in Syncs : Working(d, t) => Working(d, t)'
        BY <1>1 DEF Working, SyncOn
      <3>3. Waits(t)' => Waits(t)
        BY <1>1, <3>1 DEF Waits
      <3>4. Unlucky(t, snapshot[SimNet[t]]) => Unlucky(t, snapshot[SimNet[t]])'
        BY <3>1 DEF Unlucky
      <3>5. Awaited(t)
        BY DEF Calm
      <3> QED BY <3>2, <3>3, <3>4, <3>5 DEF Awaited
    <2> QED BY <2>1, <2>2
  <1> QED BY <1>4, <1>5, <1>6, <1>7, <1>8 DEF Calm

LEMMA CalmKept ==
    ASSUME UNCHANGED <<pull, sync, snapshot, compiled, simRow, simDir>>, Calm
    PROVE  Calm'
  BY DEF Calm, OneAtATime, PullOn, SyncOn, PullCalm, SyncCalm, OnDisk, Awaited, Waits, Unlucky,
         Working

\* A fault ends the claim, and no step takes one back.
LEMMA FaultsStay ==
    ASSUME TypeOK, [Next]_vars
    PROVE  \/ faults' = faults
           \/ faults' = faults + 1
  BY DEF Next, vars, Upload, Claim, ApiPull, PullStep, CheckKnown, CheckFails, Download, Store,
         Stage, Compose, MapOnto, Defer, Register, Release, FailPull, Put, SyncStep, ListPending,
         RetryCompose, RetryMap, RetryRegister, RetryMark, RetryReject, FailSync, Crash

LEMMA SerialInvStep == SerialInv /\ [Next]_vars => SerialInv'
  <1> SUFFICES ASSUME SerialInv, [Next]_vars PROVE SerialInv'
    OBVIOUS
  <1>1. Inv' /\ Inv /\ TypeOK /\ faults \in Nat
    BY InvStep DEF SerialInv, Inv, TypeOK
  <1>2. Serial' => Serial
    BY <1>1, FaultsStay, DeploymentFixed DEF Serial
  <1>3. ASSUME Serial, Serial', Calm PROVE Calm'
    <2>0. faults' = faults /\ deployment.syncs \subseteq Syncs
      BY <1>1, <1>3, Constants DEF Serial, TypeOK
    <2>1. CASE UNCHANGED vars
      BY <2>1, <1>3, CalmKept DEF vars
    <2>2. ASSUME NEW s \in Sims, Upload(s) PROVE Calm'
      BY <2>2, <1>3, CalmKept DEF Upload
    <2>3. ASSUME NEW u \in Pulls, NEW s \in Sims, Claim(u, s) \/ ApiPull(u, s) PROVE Calm'
      BY <2>3, <1>1, <1>3, PullBegins
    <2>4. ASSUME NEW u \in Pulls, PullStep(u) PROVE Calm'
      BY <2>4, <1>1, <1>3, PullTurns, PullTurnCalm
    <2>5. ASSUME NEW c \in Syncs, NEW e \in Events, NEW p \in Payloads, Put(c, e, p) PROVE Calm'
      BY <2>5, <1>1, <1>3, SyncBegins
    <2>6. ASSUME NEW c \in Syncs, SyncStep(c) PROVE Calm'
      BY <2>6, <1>1, <1>3, SyncTurns, SyncTurnCalm
    <2>7. ASSUME \/ \E w \in Pulls : CheckFails(w) \/ FailPull(w)
                 \/ \E c \in Syncs : FailSync(c)
                 \/ Crash
          PROVE  FALSE
      BY <2>0, <2>7, <1>1 DEF CheckFails, FailPull, FailSync, Crash
    <2> QED BY <2>0, <2>1, <2>2, <2>3, <2>4, <2>5, <2>6, <2>7 DEF Next, Pulls
  <1> QED BY <1>1, <1>2, <1>3 DEF SerialInv

\* Where pulls and syncs do not meet and nothing has failed, a sim bundle that is still
\* parked although its network has a snapshot, and nobody is at work on the network, is
\* parked for a reason: no sync forgets one, whatever was pulled in between.
THEOREM ParkedHasAReason == Spec => []ParkedForAReason
  <1>1. Init => SerialInv
    <2> SUFFICES ASSUME Init PROVE Inv /\ Calm
      BY DEF SerialInv
    <2>1. /\ \A w \in Pulls : pull[w].pc = "idle"
          /\ \A c \in Syncs : sync[c].pc = "idle"
          /\ \A s \in Sims : simRow[s] = "none"
      BY DEF Init, NoPull, NoSync
    <2> QED BY <2>1, InvInit DEF Calm, OneAtATime, PullOn, SyncOn, PullCalm, SyncCalm, OnDisk,
                                 Awaited, Waits
  <1>2. SerialInv => ParkedForAReason
    <2> SUFFICES ASSUME SerialInv, NEW s \in Sims, Serial, Quiet(SimNet[s]),
                        Waits(s)
                 PROVE  Unlucky(s, snapshot[SimNet[s]])
      BY DEF ParkedForAReason, Serial, Waits
    <2>1. Awaited(s)
      BY DEF SerialInv, Calm
    <2>2. \A c \in Syncs : ~Working(c, s)
      BY DEF Quiet, Working
    <2> QED BY <2>1, <2>2 DEF Awaited
  <1> QED BY <1>1, <1>2, SerialInvStep, PTL DEF Spec
=============================================================================
