-------------------------- MODULE SyncEvents_proofs --------------------------
(***************************************************************************)
(* Proofs about SyncEvents, for any callers, deliveries, event ids,        *)
(* databases and number of faults.                                         *)
(***************************************************************************)
EXTENDS SyncEvents, TLAPS

(***************************************************************************)
(* AppliedOnce is not inductive.  On a database that cannot see the other  *)
(* transaction's event it takes that, of an id no two deliveries of which  *)
(* have met, only one delivery is under way, and that this one has found   *)
(* the id unrecorded if it is past the check.                              *)
(***************************************************************************)

IsCall(r) ==
    r = [pc |-> r.pc, job |-> r.job, seen |-> r.seen, data |-> r.data, alone |-> r.alone]

Known(c) ==
    /\ IsCall(call[c])
    /\ Busy(c) /\ IsDelivery(call[c].job) => call[c].job \in setting.deliveries

Types ==
    /\ setting \in Settings
    /\ event \in [Ids -> setting.deliveries \cup {None}]
    /\ applied \in [Ids -> Seq(setting.deliveries)]
    /\ call = [c \in Callers |-> call[c]]
    /\ \A c \in Callers : Known(c)

OnlyOne ==
    \A i \in Ids \ met : \A c, d \in Callers : Delivering(c, i) /\ Delivering(d, i) => c = d

Unrecorded ==
    \A i \in Ids \ met : \A c \in Callers :
        Delivering(c, i) /\ call[c].pc \in {"load", "write"} => event[i] = None

Inv == Types /\ OnlyOne /\ Unrecorded /\ AppliedOnce
-----------------------------------------------------------------------------
\* A delivery has an id and a kind, and is not None.
LEMMA Deliveries ==
    ASSUME setting \in Settings, NEW d \in setting.deliveries
    PROVE  d # None /\ d.id \in Ids /\ d.kind \in {"area", "snapshot", "config", "artifact"}
  <1>1. None \notin Delivery /\ d \in Delivery
    BY SyncAssumption
  <1> QED BY <1>1 DEF Delivery

\* A call that is over, or that goes on with the same job.
Goes(c) ==
    /\ call' = [call EXCEPT ![c] = call'[c]]
    /\ IsCall(call'[c])
    /\ call[c].pc # "idle"
    /\ call'[c].pc = "idle" \/ call'[c].job = call[c].job

\* The steps that leave events alone, and which of them come to load or write.
LEMMA QuietStep ==
    ASSUME Types, NEW c \in Callers,
           \/ Check(c) \/ Load(c) \/ WriteRefused(c) \/ End(c) \/ SaveConfig(c) \/ ReadSnapshot(c)
           \/ WriteCrosses(c) \/ WriteNetwork(c) \/ WriteReport(c) \/ Fail(c)
    PROVE  /\ Goes(c)
           /\ UNCHANGED <<setting, event, applied, met>>
           /\ call'[c].pc \in {"load", "write"} =>
                 event[call[c].job.id] = None \/ call[c].pc = "load"
  <1>t. IsCall(call[c]) /\ call = [d \in Callers |-> call[d]]
    BY DEF Types, Known
  <1>1. ASSUME NEW pc, call' = [call EXCEPT ![c].pc = pc], call[c].pc # "idle"
        PROVE  Goes(c) /\ call'[c].pc = pc
    BY <1>1, <1>t DEF Goes, IsCall
  <1>2. ASSUME call' = [call EXCEPT ![c] = Idle], call[c].pc # "idle"
        PROVE  Goes(c) /\ call'[c].pc = "idle"
    BY <1>2, <1>t DEF Goes, IsCall, Idle
  <1>3. ASSUME NEW pc, call' = [call EXCEPT ![c].pc = pc, ![c].seen = rows], call[c].pc # "idle"
        PROVE  Goes(c) /\ call'[c].pc = pc
    BY <1>3, <1>t DEF Goes, IsCall
  <1>4. ASSUME NEW pc, NEW d, call' = [call EXCEPT ![c].pc = pc, ![c].data = d], call[c].pc # "idle"
        PROVE  Goes(c) /\ call'[c].pc = pc
    BY <1>4, <1>t DEF Goes, IsCall
  <1>5. CASE Check(c)
    <2>1. CASE event[call[c].job.id] # None
      BY <1>5, <2>1, <1>2 DEF Check, Answer
    <2>2. CASE event[call[c].job.id] = None
      BY <1>5, <2>2, <1>1, <1>2, <1>3 DEF Check, Answer
    <2> QED BY <2>1, <2>2
  <1>6. CASE Load(c)
    BY <1>6, <1>2, <1>3 DEF Load, Answer
  <1>7. CASE WriteRefused(c) \/ End(c) \/ SaveConfig(c) \/ WriteReport(c)
    BY <1>7, <1>2 DEF WriteRefused, End, SaveConfig, WriteReport, Answer, Finish
  <1>8. CASE ReadSnapshot(c)
    <2> DEFINE d == rows["snapshot"].data
    <2>1. call' = [call EXCEPT ![c].pc = "crosses", ![c].data = d] /\ call[c].pc # "idle"
      BY <1>8 DEF ReadSnapshot
    <2> HIDE DEF d
    <2>2. Goes(c) /\ call'[c].pc = "crosses"
      BY <2>1, <1>4
    <2> QED BY <1>8, <2>2 DEF ReadSnapshot
  <1>9. CASE WriteCrosses(c) \/ WriteNetwork(c)
    BY <1>9, <1>1 DEF WriteCrosses, WriteNetwork
  <1>10. CASE Fail(c)
    BY <1>10, <1>2 DEF Fail, Answer, Busy
  <1> QED BY <1>5, <1>6, <1>7, <1>8, <1>9, <1>10

\* Nothing of the invariant is disturbed by a call that goes on quietly.
LEMMA QuietKeeps ==
    ASSUME Inv, NEW c \in Callers, Goes(c), UNCHANGED <<setting, event, applied, met>>,
           call'[c].pc \in {"load", "write"} =>
              event[call[c].job.id] = None \/ call[c].pc = "load"
    PROVE  Inv'
  <1>t. call = [d \in Callers |-> call[d]] /\ \A d \in Callers : Known(d)
    BY DEF Inv, Types
  <1>1. call' = [d \in Callers |-> call'[d]] /\ \A d \in Callers \ {c} : call'[d] = call[d]
    BY <1>t DEF Goes
  <1>2. Types'
    BY <1>1, <1>t DEF Inv, Types, Known, Goes, Busy
  <1>3. ASSUME NEW d \in Callers, NEW i \in Ids, Delivering(d, i)'
        PROVE  /\ Delivering(d, i)
               /\ d # c => call'[d] = call[d]
    BY <1>1, <1>3 DEF Goes, Delivering, Busy
  <1>4. OnlyOne'
    BY <1>3 DEF Inv, OnlyOne
  <1>5. Unrecorded'
    <2> SUFFICES ASSUME NEW i \in Ids, i \notin met, NEW d \in Callers, Delivering(d, i)',
                        call'[d].pc \in {"load", "write"}
                 PROVE  event'[i] = None
      BY DEF Unrecorded
    <2>1. Delivering(d, i)
      BY <1>3
    <2>2. CASE d # c
      BY <2>1, <2>2, <1>1 DEF Inv, Unrecorded
    <2>3. CASE d = c
      BY <2>1, <2>3 DEF Inv, Unrecorded, Delivering
    <2> QED BY <2>2, <2>3
  <1>6. AppliedOnce'
    BY DEF Inv, AppliedOnce
  <1> QED BY <1>2, <1>4, <1>5, <1>6 DEF Inv

\* What a begun call looks like, and the others.
LEMMA StartStep ==
    ASSUME Types, NEW c \in Callers, NEW j, NEW pc, Start(c, j, pc)
    PROVE  /\ call' = [d \in Callers |-> call'[d]]
           /\ ~Busy(c) /\ call'[c].pc = pc /\ call'[c].job = j /\ IsCall(call'[c])
           /\ \A d \in Callers \ {c} : /\ IsCall(call'[d])
                                       /\ call'[d].pc = call[d].pc
                                       /\ call'[d].job = call[d].job
  <1>1. IsCall(call'[c]) /\ call'[c].pc = pc /\ call'[c].job = j
    BY DEF Start, Idle, IsCall
  <1>2. ASSUME NEW d \in Callers, d # c
        PROVE  IsCall(call'[d]) /\ call'[d].pc = call[d].pc /\ call'[d].job = call[d].job
    <2>1. IsCall(call[d])
      BY DEF Types, Known
    <2>2. call'[d] = call[d] \/ call'[d] = [call[d] EXCEPT !.alone = FALSE]
      BY <1>2 DEF Start
    <2> QED BY <2>1, <2>2 DEF IsCall
  <1> QED BY <1>1, <1>2 DEF Start

LEMMA DeliverKeeps ==
    ASSUME Inv, NEW c \in Callers, NEW d \in setting.deliveries, Deliver(c, d)
    PROVE  Inv'
  <1>t. Types
    BY DEF Inv
  <1>1. UNCHANGED <<setting, event, applied>>
    BY DEF Deliver
  <1>2. /\ call' = [q \in Callers |-> call'[q]]
        /\ ~Busy(c) /\ call'[c].pc = "check" /\ call'[c].job = d /\ IsCall(call'[c])
        /\ \A q \in Callers \ {c} : /\ IsCall(call'[q])
                                    /\ call'[q].pc = call[q].pc
                                    /\ call'[q].job = call[q].job
    BY <1>t, StartStep DEF Deliver
  <1>3. met' = IF \E q \in Callers : Delivering(q, d.id) THEN met \cup {d.id} ELSE met
    BY DEF Deliver
  <1>4. \A q \in Callers \ {c} : \A i \in Ids : Delivering(q, i)' <=> Delivering(q, i)
    BY <1>2 DEF Delivering, Busy
  <1>5. \A i \in Ids : Delivering(c, i)' => i = d.id
    BY <1>2 DEF Delivering
  <1>6. Types'
    BY <1>1, <1>2, <1>t DEF Types, Known, Busy
  <1>7. OnlyOne'
    BY <1>3, <1>4, <1>5 DEF Inv, OnlyOne
  <1>8. Unrecorded'
    BY <1>1, <1>2, <1>3, <1>4 DEF Inv, Unrecorded
  <1>9. AppliedOnce'
    BY <1>1, <1>3 DEF Inv, AppliedOnce
  <1> QED BY <1>6, <1>7, <1>8, <1>9 DEF Inv

\* A job without an event id.
LEMMA PostKeeps ==
    ASSUME Inv, NEW c \in Callers,
           PostRecompile(c) \/ \E v \in Versions : PostActivate(c, v)
    PROVE  Inv'
  <1>t. Types
    BY DEF Inv
  <1>1. UNCHANGED <<setting, event, applied, met>>
    BY DEF PostRecompile, PostActivate
  <1>2. PICK j, pc : Start(c, j, pc) /\ ~IsDelivery(j)
    <2>1. CASE PostRecompile(c)
      <3>1. Start(c, Recompile, "read") /\ ~IsDelivery(Recompile)
        BY <2>1 DEF PostRecompile, Recompile, IsDelivery
      <3> QED BY <3>1
    <2>2. ASSUME NEW v \in Versions, PostActivate(c, v)
          PROVE  \E j, pc : Start(c, j, pc) /\ ~IsDelivery(j)
      <3>1. Start(c, Activate(v), "load") /\ ~IsDelivery(Activate(v))
        BY <2>2 DEF PostActivate, Activate, IsDelivery
      <3> QED BY <3>1
    <2> QED BY <2>1, <2>2
  <1>3. /\ call' = [q \in Callers |-> call'[q]]
        /\ call'[c].job = j /\ IsCall(call'[c])
        /\ \A q \in Callers \ {c} : /\ IsCall(call'[q])
                                    /\ call'[q].pc = call[q].pc
                                    /\ call'[q].job = call[q].job
    BY <1>t, <1>2, StartStep
  <1>4. \A q \in Callers : \A i \in Ids :
            Delivering(q, i)' => q # c /\ Delivering(q, i) /\ call'[q].pc = call[q].pc
    BY <1>2, <1>3 DEF Delivering, Busy, IsDelivery
  <1>5. Types'
    BY <1>1, <1>2, <1>3, <1>t DEF Types, Known, Busy
  <1>6. OnlyOne' /\ Unrecorded'
    BY <1>1, <1>4 DEF Inv, OnlyOne, Unrecorded
  <1>7. AppliedOnce'
    BY <1>1 DEF Inv, AppliedOnce
  <1> QED BY <1>5, <1>6, <1>7 DEF Inv

LEMMA AppendType ==
    ASSUME NEW S, NEW s \in Seq(S), NEW e \in S
    PROVE  Append(s, e) \in Seq(S)
  OBVIOUS

\* The one step that records an event: it finds none recorded, or says so.
LEMMA WriteKeeps ==
    ASSUME Inv, NEW c \in Callers, Write(c)
    PROVE  Inv'
  <1> DEFINE j == call[c].job
             pc == AfterWrite[j.kind]
  <1>t. /\ Types /\ IsCall(call[c]) /\ call = [d \in Callers |-> call[d]]
        /\ call[c].pc = "write" /\ Busy(c)
    BY DEF Inv, Types, Known, Write, Busy
  <1>1. UNCHANGED <<setting, met>> /\ call' = [call EXCEPT ![c].pc = pc, ![c].seen = None]
    BY DEF Write
  <1>2. /\ call' = [d \in Callers |-> call'[d]]
        /\ \A d \in Callers \ {c} : call'[d] = call[d]
        /\ IsCall(call'[c]) /\ call'[c].pc = pc /\ call'[c].job = j
    BY <1>1, <1>t DEF IsCall
  <1>3. CASE ~IsDelivery(j)
    <2>1. UNCHANGED <<event, applied>>
      BY <1>3 DEF Write
    <2>2. \A d \in Callers : \A i \in Ids : Delivering(d, i)' => d # c /\ Delivering(d, i)
      BY <1>2, <1>3 DEF Delivering, Busy, IsDelivery
    <2>3. Types'
      BY <1>1, <1>2, <1>3, <1>t, <2>1 DEF Types, Known, Busy
    <2>4. OnlyOne' /\ Unrecorded' /\ AppliedOnce'
      BY <1>1, <1>2, <2>1, <2>2 DEF Inv, OnlyOne, Unrecorded, AppliedOnce
    <2> QED BY <2>3, <2>4 DEF Inv
  <1>4. CASE IsDelivery(j)
    <2>1. j \in setting.deliveries
      BY <1>4, <1>t DEF Types, Known
    <2>2. j # None /\ j.id \in Ids /\ pc \in {"end", "file", "read"}
      BY <2>1, <1>t, Deliveries DEF Types, AfterWrite
    <2>3. /\ event' = [event EXCEPT ![j.id] = IF @ = None THEN j ELSE @]
          /\ applied' = [applied EXCEPT ![j.id] = Append(@, j)]
      BY <1>4 DEF Write
    <2>4. setting.database = "mysql" => event[j.id] = None
      BY <1>4 DEF Write, Refused
    <2>5. j.id \notin met => event[j.id] = None
      BY <1>t, <1>4, <2>2 DEF Inv, Unrecorded, Delivering, IsDelivery
    <2>6. \A d \in Callers : \A i \in Ids :
              /\ Delivering(d, i)' => Delivering(d, i)
              /\ Delivering(d, i)' /\ d # c /\ i \notin met => i # j.id
      BY <1>2, <1>4, <1>t, <2>2 DEF Delivering, Busy, IsDelivery, Inv, OnlyOne
    <2> HIDE DEF j, pc
    <2>7. Types'
      <3>1. event' \in [Ids -> setting.deliveries \cup {None}]
        BY <2>1, <2>2, <2>3, <1>t DEF Types
      <3>2. applied' \in [Ids -> Seq(setting.deliveries)]
        <4>1. applied \in [Ids -> Seq(setting.deliveries)]
          BY <1>t DEF Types
        <4>2. applied[j.id] \in Seq(setting.deliveries)
          BY <4>1, <2>2
        <4>3. Append(applied[j.id], j) \in Seq(setting.deliveries)
          BY <4>2, <2>1, AppendType
        <4> QED BY <4>1, <4>3, <2>3
      <3>3. \A d \in Callers : Known(d)'
        BY <1>1, <1>2, <1>t, <2>1 DEF Types, Known, Busy
      <3> QED BY <1>1, <1>2, <1>t, <3>1, <3>2, <3>3 DEF Types
    <2>8. OnlyOne'
      BY <1>1, <2>6 DEF Inv, OnlyOne
    <2>9. Unrecorded'
      BY <1>1, <1>2, <1>t, <2>2, <2>3, <2>6 DEF Inv, Unrecorded, Types
    <2>10. AppliedOnce'
      <3> SUFFICES ASSUME NEW i \in Ids, setting.database = "mysql" \/ i \notin met
                   PROVE  applied'[i] = IF event'[i] = None THEN << >> ELSE <<event'[i]>>
        BY <1>1 DEF AppliedOnce
      <3>1. applied[i] = IF event[i] = None THEN << >> ELSE <<event[i]>>
        BY DEF Inv, AppliedOnce
      <3>2. CASE i = j.id
        <4>1. applied[i] = << >> /\ event[i] = None
          BY <3>1, <3>2, <2>4, <2>5
        <4>2. event'[i] = j /\ applied'[i] = <<j>>
          <5>1. Append(<< >>, j) = <<j>>
            OBVIOUS
          <5>2. /\ applied'[i] = Append(applied[i], j)
                /\ event'[i] = IF event[i] = None THEN j ELSE event[i]
            BY <3>2, <2>3, <1>t DEF Types
          <5> QED BY <4>1, <5>1, <5>2
        <4> QED BY <4>2, <2>2
      <3>3. CASE i # j.id
        BY <3>1, <3>3, <2>3, <1>t DEF Types
      <3> QED BY <3>2, <3>3
    <2> QED BY <2>7, <2>8, <2>9, <2>10 DEF Inv
  <1> QED BY <1>3, <1>4

LEMMA InvInit == Init => Inv
  <1> SUFFICES ASSUME Init PROVE Inv
    OBVIOUS
  <1>1. \A c \in Callers : IsCall(call[c]) /\ ~Busy(c)
    BY DEF Init, IsCall, Idle, Busy
  <1>2. Types
    <2>1. << >> \in Seq(setting.deliveries)
      OBVIOUS
    <2> QED BY <1>1, <2>1 DEF Init, Types, Known
  <1>3. OnlyOne /\ Unrecorded
    BY <1>1 DEF OnlyOne, Unrecorded, Delivering
  <1>4. AppliedOnce
    BY DEF Init, AppliedOnce
  <1> QED BY <1>2, <1>3, <1>4 DEF Inv

LEMMA InvStep == Inv /\ [Next]_vars => Inv'
  <1> SUFFICES ASSUME Inv, [Next]_vars PROVE Inv'
    OBVIOUS
  <1>0. CASE UNCHANGED vars
    BY <1>0 DEF vars, Inv, Types, Known, IsCall, Busy, OnlyOne, Unrecorded, Delivering, AppliedOnce
  <1>1. ASSUME NEW c \in Callers, Step(c) \/ Fail(c) PROVE Inv'
    <2>1. CASE Write(c)
      BY <2>1, WriteKeeps
    <2>2. CASE ~Write(c)
      <3>1. /\ Goes(c)
            /\ UNCHANGED <<setting, event, applied, met>>
            /\ call'[c].pc \in {"load", "write"} =>
                  event[call[c].job.id] = None \/ call[c].pc = "load"
        BY <1>1, <2>2, QuietStep DEF Step, Inv
      <3> QED BY <3>1, QuietKeeps
    <2> QED BY <2>1, <2>2
  <1>2. CASE Crash
    <2>1. UNCHANGED <<setting, event, applied, met>> /\ call' = [c \in Callers |-> Idle]
      BY <1>2 DEF Crash
    <2> QED BY <2>1 DEF Inv, Types, Known, IsCall, Idle, Busy, OnlyOne, Unrecorded, Delivering,
                        AppliedOnce
  <1>3. CASE Next
    <2>1. ASSUME NEW c \in Callers, PostRecompile(c) PROVE Inv'
      BY <2>1, PostKeeps
    <2> QED BY <1>1, <1>2, <1>3, <2>1, DeliverKeeps, PostKeeps DEF Next
  <1> QED BY <1>0, <1>3

\* Deliveries of an id that do not overlap, and on MySQL any deliveries, take effect once
\* and for the payload that is recorded, through any failures and crashes.
THEOREM DeliveredOnce == Spec => []AppliedOnce
  <1>1. Inv => AppliedOnce
    BY DEF Inv
  <1> QED BY <1>1, InvInit, InvStep, PTL DEF Spec
=============================================================================
