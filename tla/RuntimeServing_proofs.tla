------------------------ MODULE RuntimeServing_proofs ------------------------
(***************************************************************************)
(* Proofs about RuntimeServing, for any bundles, requests and bounds.      *)
(***************************************************************************)
EXTENDS RuntimeServing, TLAPS, FiniteSetTheorems

LEMMA AgeFacts ==
    /\ 0 \in Age
    /\ \A a \in Age : Older(a) \in Age /\ Older(a) >= a
    /\ \A a \in Age \cup {Never} : Older(a) \in Age \cup {Never} /\ Older(a) >= a
    /\ \A a \in Age \cup {Never}, b \in Age : a <= b => Older(a) <= Older(b)
    /\ \A a \in Age \cup {Never} : a \in Nat
  BY ServingAssumption DEF Age, Older, Never

LEMMA Records ==
    /\ Nothing \in Loaded
    /\ NoEntry \in ResolverEntry
    /\ NoConfig \in ConfigEntry
    /\ NoPolicy \in [Bundles -> Nat]
    /\ Idle \in Request
  BY AgeFacts DEF Nothing, Loaded, BundleOrNone, NoEntry, ResolverEntry, NoConfig,
                  ConfigEntry, NoPolicy, Idle, Request

LEMMA Entries ==
    /\ \A e \in ResolverEntry : e.bundle \in BundleOrNone /\ e.age \in Age
    /\ \A e \in ConfigEntry : e.value \in Loaded
  <1>1. ASSUME NEW e \in ResolverEntry PROVE e.bundle \in BundleOrNone /\ e.age \in Age
    <2>1. CASE e = NoEntry
      BY <2>1, AgeFacts DEF NoEntry, BundleOrNone
    <2>2. CASE e \in [held : {TRUE}, bundle : BundleOrNone, age : Age]
      BY <2>2
    <2> QED BY <2>1, <2>2 DEF ResolverEntry
  <1>2. ASSUME NEW e \in ConfigEntry PROVE e.value \in Loaded
    <2>1. CASE e = NoConfig
      BY <2>1, Records DEF NoConfig
    <2>2. CASE e \in [held : {TRUE}, value : Loaded]
      BY <2>2
    <2> QED BY <2>1, <2>2 DEF ConfigEntry
  <1> QED BY <1>1, <1>2

LEMMA GotoType ==
    ASSUME TypeOK, NEW r \in Requests,
           NEW stage \in {"idle", "hydrate", "ready", "policy", "map", "audit", "done"},
           NEW pc \in {"get", "resolve", "read", "check", "load", "insert", "end"}
    PROVE  /\ Goto(r, stage, pc) \in Request
           /\ Goto(r, stage, pc).stage = stage
           /\ Goto(r, stage, pc).pc = pc
           /\ Goto(r, stage, pc).settled = req[r].settled
           /\ Goto(r, stage, pc).pol = req[r].pol
           /\ Goto(r, stage, pc).cfg = req[r].cfg
  BY Records DEF TypeOK, Goto, Request

-----------------------------------------------------------------------------
(***************************************************************************)
(* The inductive invariant.  Good says of a request what the properties    *)
(* rest on: a reader that is about to store what it found holds no bundle  *)
(* that active.json had dropped before its time stamp; what it is about to *)
(* insert in the policy cache is a bundle; and a settled request, for      *)
(* which every other bundle has been out of active.json for TTL or more,   *)
(* has found, and loaded, nothing but the active one.                      *)
(***************************************************************************)

Fresh(q) ==
    q.pc = "check" /\ q.found.bundle \notin {NoBundle, pointer}
        => unnamed[q.found.bundle] <= q.at

Insertable(q) ==
    q.pc = "insert" /\ q.stage \in {"policy", "audit"} => q.found.bundle \in Bundles

SettledOnActive(q) ==
    q.settled =>
        /\ \A b \in Bundles \ {pointer} : unnamed[b] >= TTL
        /\ q.pc \in {"check", "load", "insert"} => q.found.bundle \in {NoBundle, pointer}
        /\ q.stage \in {"map", "audit", "done"} => q.pol.bundle = pointer
        /\ q.stage = "done" => q.audit = pointer

Good(q) == Fresh(q) /\ Insertable(q) /\ SettledOnActive(q)

Inv ==
    /\ TypeOK
    /\ OnePolicyPerArea
    /\ StaleOnlyWithinTTL
    /\ \A r \in Requests : Good(req[r])

\* A step of one request, seen from req alone.
LEMMA OneRequest ==
    ASSUME Inv, NEW r \in Requests, NEW q \in Request, Good(q),
           req' = [req EXCEPT ![r] = q], UNCHANGED <<pointer, unnamed>>
    PROVE  req' \in [Requests -> Request] /\ \A x \in Requests : (Good(req[x]))'
  BY DEF Inv, TypeOK, Good, Fresh, Insertable, SettledOnActive

\* A step of one request that leaves the caches alone.
LEMMA RequestStep ==
    ASSUME Inv, NEW r \in Requests, NEW q \in Request, Good(q),
           req' = [req EXCEPT ![r] = q], UNCHANGED <<store, caches, reload, dirty>>
    PROVE  Inv'
  <1>1. req' \in [Requests -> Request] /\ \A x \in Requests : (Good(req[x]))'
    BY OneRequest DEF store
  <1> QED BY <1>1 DEF Inv, TypeOK, OnePolicyPerArea, StaleOnlyWithinTTL, store, caches

\* Where nothing is being looked up, Good asks only for the policy.
LEMMA GoodWhenIdle ==
    ASSUME Inv, NEW q \in Request, q.pc \notin {"check", "load", "insert"},
           q.settled => \A b \in Bundles \ {pointer} : unnamed[b] >= TTL,
           q.settled /\ q.stage \in {"map", "audit", "done"} => q.pol.bundle = pointer,
           q.settled /\ q.stage = "done" => q.audit = pointer
    PROVE  Good(q)
  BY DEF Good, Fresh, Insertable, SettledOnActive

LEMMA RaiseKeeps ==
    ASSUME Inv, NEW r \in Requests, Raise(r), UNCHANGED <<store, caches, reload, dirty>>
    PROVE  Inv'
  <1>1. Idle \in Request /\ Good(Idle)
    BY Records, GoodWhenIdle DEF Idle
  <1> QED BY <1>1, RequestStep DEF Raise

LEMMA BeginKeeps ==
    ASSUME Inv, NEW r \in Requests, Begin(r) PROVE Inv'
  <1> DEFINE settled == \A b \in Bundles \ {pointer} : unnamed[b] >= TTL
             g == Goto(r, "hydrate", "get")
             q == [g EXCEPT !.settled = settled]
  <1>1. settled \in BOOLEAN
    OBVIOUS
  <1>2. g \in Request /\ g.pc = "get" /\ g.stage = "hydrate"
    BY GotoType DEF Inv
  <1>3. q \in Request /\ q.pc = "get" /\ q.stage = "hydrate" /\ q.settled = settled
    <2> HIDE DEF settled, g
    <2> QED BY <1>1, <1>2 DEF Request
  <1>4. Good(q)
    <2> HIDE DEF q
    <2>1. q.settled => \A b \in Bundles \ {pointer} : unnamed[b] >= TTL
      BY <1>3
    <2> QED BY <1>3, <2>1, GoodWhenIdle
  <1>5. req' = [req EXCEPT ![r] = q] /\ UNCHANGED <<store, caches, reload, dirty>>
    BY DEF Begin
  <1> HIDE DEF q
  <1> QED BY <1>3, <1>4, <1>5, RequestStep

\* The two continuations of a request, by what req becomes.
LEMMA WithConfigGood ==
    ASSUME Inv, NEW r \in Requests, NEW value \in Loaded, WithConfig(r, value),
           req[r].stage \in {"hydrate", "map"}
    PROVE  \E q \in Request : Good(q) /\ req' = [req EXCEPT ![r] = q]
  <1>1. CASE req[r].stage = "hydrate"
    <2>1. Goto(r, "ready", "get") \in Request /\ Good(Goto(r, "ready", "get"))
      BY GotoType, GoodWhenIdle DEF Inv, Good, SettledOnActive
    <2> QED BY <1>1, <2>1 DEF WithConfig
  <1>2. CASE req[r].stage = "map"
    <2> DEFINE g == Goto(r, "audit", "resolve")
               q == [g EXCEPT !.cfg = value]
    <2>1. g \in Request /\ g.pc = "resolve" /\ g.stage = "audit"
          /\ g.settled = req[r].settled /\ g.pol = req[r].pol
      BY GotoType DEF Inv
    <2>2. q \in Request /\ q.pc = "resolve" /\ q.stage = "audit"
          /\ q.settled = req[r].settled /\ q.pol = req[r].pol
      <3> HIDE DEF g
      <3> QED BY <2>1 DEF Request
    <2>3. req' = [req EXCEPT ![r] = q]
      BY <1>2 DEF WithConfig
    <2> HIDE DEF q
    <2>4. Good(q)
      BY <1>2, <2>2, GoodWhenIdle DEF Inv, Good, SettledOnActive
    <2> QED BY <2>2, <2>3, <2>4
  <1> QED BY <1>1, <1>2

LEMMA WithPolicyGood ==
    ASSUME Inv, NEW r \in Requests, NEW loaded \in Loaded, WithPolicy(r, loaded),
           req[r].stage \in {"policy", "audit"},
           req[r].settled => loaded.bundle = pointer
    PROVE  \E q \in Request : Good(q) /\ req' = [req EXCEPT ![r] = q]
  <1>1. CASE req[r].stage = "policy"
    <2> DEFINE g == Goto(r, "map", "get")
               q == [g EXCEPT !.pol = loaded]
    <2>1. g \in Request /\ g.pc = "get" /\ g.stage = "map" /\ g.settled = req[r].settled
      BY GotoType DEF Inv
    <2>2. q \in Request /\ q.pc = "get" /\ q.stage = "map"
          /\ q.settled = req[r].settled /\ q.pol = loaded
      <3> HIDE DEF g
      <3> QED BY <2>1 DEF Request
    <2>3. req' = [req EXCEPT ![r] = q]
      BY <1>1 DEF WithPolicy
    <2> HIDE DEF q
    <2>4. Good(q)
      BY <1>1, <2>2, GoodWhenIdle DEF Inv, Good, SettledOnActive
    <2> QED BY <2>2, <2>3, <2>4
  <1>2. CASE req[r].stage = "audit"
    <2> DEFINE g == Goto(r, "done", "end")
               q == [g EXCEPT !.audit = loaded.bundle]
    <2>1. g \in Request /\ g.pc = "end" /\ g.stage = "done"
          /\ g.settled = req[r].settled /\ g.pol = req[r].pol
      BY GotoType DEF Inv
    <2>2. q \in Request /\ q.pc = "end" /\ q.stage = "done"
          /\ q.settled = req[r].settled /\ q.pol = req[r].pol
          /\ q.audit = loaded.bundle
      <3> HIDE DEF g
      <3> QED BY <2>1 DEF Request, Loaded
    <2>3. req' = [req EXCEPT ![r] = q]
      BY <1>2 DEF WithPolicy
    <2> HIDE DEF q
    <2>4. Good(q)
      BY <1>2, <2>2, GoodWhenIdle DEF Inv, Good, SettledOnActive
    <2> QED BY <2>2, <2>3, <2>4
  <1> QED BY <1>1, <1>2

LEMMA GetConfigKeeps ==
    ASSUME Inv, NEW r \in Requests, GetConfig(r) PROVE Inv'
  <1>1. req[r] \in Request /\ req[r].pc = "get" /\ req[r].stage \in {"hydrate", "map"}
    BY DEF GetConfig, Inv, TypeOK
  <1>2. CASE config.held
    <2>1. config.value \in Loaded
      BY Entries DEF Inv, TypeOK
    <2>2. WithConfig(r, config.value) /\ UNCHANGED <<store, caches, reload, dirty>>
      BY <1>2 DEF GetConfig
    <2> QED BY <1>1, <2>1, <2>2, WithConfigGood, RequestStep
  <1>3. CASE ~config.held
    <2> DEFINE q == [req[r] EXCEPT !.pc = "resolve"]
    <2>1. q \in Request /\ q.pc = "resolve" /\ q.stage = req[r].stage
          /\ q.settled = req[r].settled /\ q.pol = req[r].pol /\ q.audit = req[r].audit
      BY <1>1 DEF Request
    <2>2. req' = [req EXCEPT ![r] = q] /\ UNCHANGED <<store, caches, reload, dirty>>
      BY <1>3 DEF GetConfig
    <2> HIDE DEF q
    <2>3. Good(q)
      BY <2>1, GoodWhenIdle DEF Inv, Good, SettledOnActive
    <2> QED BY <2>1, <2>2, <2>3, RequestStep
  <1> QED BY <1>2, <1>3

LEMMA CheckReadyKeeps ==
    ASSUME Inv, NEW r \in Requests, CheckReady(r) PROVE Inv'
  <1>1. CASE pointer # NoBundle /\ disk[pointer] # 0
    <2> DEFINE q == Goto(r, "policy", "resolve")
    <2>1. q \in Request /\ q.pc = "resolve" /\ q.stage = "policy"
          /\ q.settled = req[r].settled
      BY GotoType DEF Inv
    <2>2. req' = [req EXCEPT ![r] = q] /\ UNCHANGED <<store, caches, reload, dirty>>
      BY <1>1 DEF CheckReady
    <2> HIDE DEF q
    <2>3. Good(q)
      BY <2>1, GoodWhenIdle DEF Inv, Good, SettledOnActive
    <2> QED BY <2>1, <2>2, <2>3, RequestStep
  <1>2. CASE ~(pointer # NoBundle /\ disk[pointer] # 0)
    BY <1>2, RaiseKeeps DEF CheckReady
  <1> QED BY <1>1, <1>2

LEMMA FinishKeeps ==
    ASSUME Inv, NEW r \in Requests, Finish(r) PROVE Inv'
  BY RaiseKeeps DEF Finish, Raise

LEMMA ResolveKeeps ==
    ASSUME Inv, NEW r \in Requests, Resolve(r) PROVE Inv'
  <1>1. /\ req[r] \in Request /\ req[r].pc = "resolve"
        /\ resolver \in ResolverEntry
        /\ resolver.bundle \in BundleOrNone /\ resolver.age \in Age
    BY Entries DEF Resolve, Inv, TypeOK
  <1>2. CASE resolver.held /\ resolver.age < TTL
    <2> DEFINE found == [Nothing EXCEPT !.bundle = resolver.bundle]
               q == [req[r] EXCEPT !.pc = "load", !.found = found]
    <2>1. found \in Loaded /\ found.bundle = resolver.bundle
      BY <1>1 DEF Nothing, Loaded
    <2>2. q \in Request /\ q.pc = "load" /\ q.stage = req[r].stage /\ q.found = found
          /\ q.settled = req[r].settled /\ q.pol = req[r].pol /\ q.audit = req[r].audit
      <3> HIDE DEF found
      <3> QED BY <1>1, <2>1 DEF Request
    <2>3. req' = [req EXCEPT ![r] = q] /\ UNCHANGED <<store, caches, reload, dirty>>
      BY <1>2 DEF Resolve
    <2> HIDE DEF q, found
    <2>4. req[r].settled => resolver.bundle \in {NoBundle, pointer}
      <3> SUFFICES ASSUME req[r].settled, resolver.bundle \notin {NoBundle, pointer}
                   PROVE  FALSE
        OBVIOUS
      <3>1. resolver.bundle \in Bundles /\ unnamed[resolver.bundle] \in Age \cup {Never}
        BY <1>1 DEF BundleOrNone, Inv, TypeOK
      <3>2. unnamed[resolver.bundle] >= TTL
        BY <3>1 DEF Inv, Good, SettledOnActive
      <3>3. unnamed[resolver.bundle] <= resolver.age
        BY <1>2 DEF Inv, StaleOnlyWithinTTL
      <3> QED BY <1>1, <1>2, <3>1, <3>2, <3>3, AgeFacts, ServingAssumption
    <2>5. Good(q)
      BY <2>1, <2>2, <2>4 DEF Inv, Good, Fresh, Insertable, SettledOnActive
    <2> QED BY <2>2, <2>3, <2>5, RequestStep
  <1>3. CASE ~(resolver.held /\ resolver.age < TTL)
    <2> DEFINE q == [req[r] EXCEPT !.pc = "read", !.at = 0]
    <2>1. q \in Request /\ q.pc = "read" /\ q.stage = req[r].stage
          /\ q.settled = req[r].settled /\ q.pol = req[r].pol /\ q.audit = req[r].audit
      BY <1>1, AgeFacts DEF Request
    <2>2. req' = [req EXCEPT ![r] = q] /\ UNCHANGED <<store, caches, reload, dirty>>
      BY <1>3 DEF Resolve
    <2> HIDE DEF q
    <2>3. Good(q)
      BY <2>1, GoodWhenIdle DEF Inv, Good, SettledOnActive
    <2> QED BY <2>1, <2>2, <2>3, RequestStep
  <1> QED BY <1>2, <1>3

\* The entry is stored with the age of the call's own time stamp, so that it is no
\* staler than what the call has found.
LEMMA RememberKeeps ==
    ASSUME Inv, NEW r \in Requests, NEW b \in BundleOrNone, Remember(r, b),
           req[r].pc \in {"read", "check"},
           b \notin {NoBundle, pointer} => unnamed[b] <= req[r].at,
           req[r].settled => b \in {NoBundle, pointer},
           UNCHANGED <<store, policy, config, reload, dirty>>
    PROVE  Inv'
  <1>1. req[r] \in Request
    BY DEF Inv, TypeOK
  <1> DEFINE found == [Nothing EXCEPT !.bundle = b]
             q == [req[r] EXCEPT !.pc = "load", !.at = 0, !.found = found]
  <1>2. found \in Loaded /\ found.bundle = b
    BY DEF Nothing, Loaded
  <1>3. q \in Request /\ q.pc = "load" /\ q.stage = req[r].stage /\ q.found = found
        /\ q.settled = req[r].settled /\ q.pol = req[r].pol /\ q.audit = req[r].audit
    <2> HIDE DEF found
    <2> QED BY <1>1, <1>2, AgeFacts DEF Request
  <1>4. req' = [req EXCEPT ![r] = q]
    BY DEF Remember
  <1> HIDE DEF q, found
  <1>5. Good(q)
    BY <1>2, <1>3 DEF Inv, Good, Fresh, Insertable, SettledOnActive
  <1>6. req' \in [Requests -> Request] /\ \A x \in Requests : (Good(req[x]))'
    BY <1>3, <1>4, <1>5, OneRequest DEF store
  <1>7. resolver' = [held |-> TRUE, bundle |-> b, age |-> req[r].at] /\ req[r].at \in Age
    BY <1>1 DEF Remember, Request
  <1>8. resolver' \in ResolverEntry
    BY <1>7 DEF ResolverEntry
  <1>9. StaleOnlyWithinTTL'
    BY <1>7 DEF StaleOnlyWithinTTL, store
  <1> QED BY <1>6, <1>8, <1>9 DEF Inv, TypeOK, OnePolicyPerArea, store

LEMMA ReadPointerKeeps ==
    ASSUME Inv, NEW r \in Requests, ReadPointer(r) PROVE Inv'
  <1>1. req[r] \in Request /\ req[r].pc = "read" /\ pointer \in BundleOrNone
    BY DEF ReadPointer, Inv, TypeOK
  <1>2. CASE pointer = NoBundle
    BY <1>1, <1>2, RememberKeeps DEF ReadPointer, BundleOrNone
  <1>3. CASE pointer # NoBundle
    <2> DEFINE found == [Nothing EXCEPT !.bundle = pointer]
               q == [req[r] EXCEPT !.pc = "check", !.found = found]
    <2>1. found \in Loaded /\ found.bundle = pointer
      BY <1>1 DEF Nothing, Loaded
    <2>2. q \in Request /\ q.pc = "check" /\ q.stage = req[r].stage /\ q.found = found
          /\ q.settled = req[r].settled /\ q.pol = req[r].pol /\ q.audit = req[r].audit
      <3> HIDE DEF found
      <3> QED BY <1>1, <2>1 DEF Request
    <2>3. req' = [req EXCEPT ![r] = q] /\ UNCHANGED <<store, caches, reload, dirty>>
      BY <1>3 DEF ReadPointer, caches
    <2> HIDE DEF q, found
    <2>4. Good(q)
      BY <2>1, <2>2 DEF Inv, Good, Fresh, Insertable, SettledOnActive
    <2> QED BY <2>2, <2>3, <2>4, RequestStep
  <1> QED BY <1>2, <1>3

LEMMA CheckPathKeeps ==
    ASSUME Inv, NEW r \in Requests, CheckPath(r) PROVE Inv'
  <1> DEFINE b == IF disk[req[r].found.bundle] # 0 THEN req[r].found.bundle ELSE NoBundle
  <1>1. req[r].pc = "check" /\ req[r].found.bundle \in BundleOrNone
    BY DEF CheckPath, Inv, TypeOK, Request, Loaded
  <1>2. b \in BundleOrNone /\ b \in {NoBundle, req[r].found.bundle}
    BY <1>1 DEF BundleOrNone
  <1>3. Remember(r, b) /\ UNCHANGED <<store, policy, config, reload, dirty>>
    BY DEF CheckPath
  <1> HIDE DEF b
  <1>4. b \notin {NoBundle, pointer} => unnamed[b] <= req[r].at
    BY <1>1, <1>2 DEF Inv, Good, Fresh
  <1>5. req[r].settled => b \in {NoBundle, pointer}
    BY <1>1, <1>2 DEF Inv, Good, SettledOnActive
  <1> QED BY <1>1, <1>2, <1>3, <1>4, <1>5, RememberKeeps

LEMMA LoadConfigKeeps ==
    ASSUME Inv, NEW r \in Requests, LoadConfig(r) PROVE Inv'
  <1> DEFINE b == req[r].found.bundle
             found == IF b = NoBundle \/ disk[b] = 0 THEN Nothing
                      ELSE [bundle |-> b, version |-> disk[b]]
             q == [req[r] EXCEPT !.pc = "insert", !.found = found]
  <1>1. req[r] \in Request /\ req[r].pc = "load" /\ req[r].stage \in {"hydrate", "map"}
        /\ b \in BundleOrNone
    BY DEF LoadConfig, Inv, TypeOK, Request, Loaded
  <1>2. found \in Loaded /\ found.bundle \in {NoBundle, b}
    BY <1>1, Records DEF Inv, TypeOK, Loaded, BundleOrNone, Nothing
  <1>3. q \in Request /\ q.pc = "insert" /\ q.stage = req[r].stage /\ q.found = found
        /\ q.settled = req[r].settled /\ q.pol = req[r].pol /\ q.audit = req[r].audit
    <2> HIDE DEF found, b
    <2> QED BY <1>1, <1>2 DEF Request
  <1>4. req' = [req EXCEPT ![r] = q] /\ UNCHANGED <<store, caches, reload, dirty>>
    BY DEF LoadConfig
  <1>5. req[r].settled => b \in {NoBundle, pointer}
    BY <1>1 DEF Inv, Good, SettledOnActive
  <1> HIDE DEF q, found, b
  <1>6. Good(q)
    BY <1>1, <1>2, <1>3, <1>5 DEF Inv, Good, Fresh, Insertable, SettledOnActive
  <1> QED BY <1>3, <1>4, <1>6, RequestStep

LEMMA InsertConfigKeeps ==
    ASSUME Inv, NEW r \in Requests, InsertConfig(r) PROVE Inv'
  <1>1. req[r].found \in Loaded /\ req[r].stage \in {"hydrate", "map"}
    BY DEF InsertConfig, Inv, TypeOK, Request
  <1>2. WithConfig(r, req[r].found) /\ config' = [held |-> TRUE, value |-> req[r].found]
        /\ UNCHANGED <<store, resolver, policy, reload, dirty>>
    BY DEF InsertConfig
  <1>3. req' \in [Requests -> Request] /\ \A x \in Requests : (Good(req[x]))'
    BY <1>1, <1>2, WithConfigGood, OneRequest DEF store
  <1>4. config' \in ConfigEntry
    BY <1>1, <1>2 DEF ConfigEntry
  <1> QED BY <1>2, <1>3, <1>4
      DEF Inv, TypeOK, OnePolicyPerArea, StaleOnlyWithinTTL, store

LEMMA LoadPolicyKeeps ==
    ASSUME Inv, NEW r \in Requests, LoadPolicy(r) PROVE Inv'
  <1> DEFINE b == req[r].found.bundle
             loaded == [bundle |-> b, version |-> policy[b]]
             q == [req[r] EXCEPT !.pc = "insert", !.found.version = disk[b]]
  <1>1. req[r] \in Request /\ req[r].pc = "load" /\ req[r].stage \in {"policy", "audit"}
        /\ b \in BundleOrNone /\ req[r].found \in Loaded
    BY DEF LoadPolicy, Inv, TypeOK, Request, Loaded
  <1>2. UNCHANGED <<store, caches, reload, dirty>>
    BY DEF LoadPolicy
  <1>3. CASE Raise(r)
    BY <1>2, <1>3, RaiseKeeps
  <1>4. CASE b # NoBundle /\ policy[b] # 0 /\ WithPolicy(r, loaded)
    <2>1. loaded \in Loaded /\ (req[r].settled => loaded.bundle = pointer)
      BY <1>1, <1>4 DEF Inv, TypeOK, Loaded, BundleOrNone, Good, SettledOnActive
    <2> HIDE DEF loaded
    <2> QED BY <1>1, <1>2, <1>4, <2>1, WithPolicyGood, RequestStep
  <1>5. CASE b # NoBundle /\ req' = [req EXCEPT ![r] = q]
    <2>1. b \in Bundles /\ disk[b] \in Nat
      BY <1>1, <1>5 DEF BundleOrNone, Inv, TypeOK
    <2>2. q \in Request /\ q.pc = "insert" /\ q.stage = req[r].stage
          /\ q.found.bundle = b /\ q.settled = req[r].settled
          /\ q.pol = req[r].pol /\ q.audit = req[r].audit
      BY <1>1, <2>1 DEF Request, Loaded
    <2>3. req[r].settled => b \in {NoBundle, pointer}
      BY <1>1 DEF Inv, Good, SettledOnActive
    <2>4. req' = [req EXCEPT ![r] = q]
      BY <1>5
    <2> HIDE DEF q, b
    <2>5. Good(q)
      BY <1>1, <2>1, <2>2, <2>3 DEF Inv, Good, Fresh, Insertable, SettledOnActive
    <2> QED BY <1>2, <2>2, <2>4, <2>5, RequestStep
  <1> QED BY <1>3, <1>4, <1>5 DEF LoadPolicy

\* A policy cache of at most one bundle.
LEMMA OneEntry ==
    ASSUME NEW b, NEW f, \A x \in Bundles : f[x] # 0 => x = b
    PROVE  Cardinality({x \in Bundles : f[x] # 0}) <= 1
  <1>1. IsFiniteSet({b}) /\ Cardinality({b}) = 1
    BY FS_Singleton
  <1>2. {x \in Bundles : f[x] # 0} \subseteq {b}
    OBVIOUS
  <1> HIDE DEF Cardinality
  <1> QED BY <1>1, <1>2, FS_Subset

LEMMA InsertPolicyKeeps ==
    ASSUME Inv, NEW r \in Requests, InsertPolicy(r) PROVE Inv'
  <1>1. req[r].found \in Loaded /\ req[r].stage \in {"policy", "audit"}
        /\ req[r].pc = "insert"
    BY DEF InsertPolicy, Inv, TypeOK, Request
  <1>2. req[r].found.bundle \in Bundles /\ req[r].found.version \in Nat
        /\ (req[r].settled => req[r].found.bundle \in {NoBundle, pointer})
    BY <1>1 DEF Inv, Good, Insertable, SettledOnActive, Loaded
  <1>3. req[r].settled => req[r].found.bundle = pointer
    BY <1>2, ServingAssumption
  <1>4. /\ policy' = [NoPolicy EXCEPT ![req[r].found.bundle] = req[r].found.version]
        /\ WithPolicy(r, req[r].found)
        /\ UNCHANGED <<store, resolver, config, reload, dirty>>
    BY DEF InsertPolicy
  <1>5. req' \in [Requests -> Request] /\ \A x \in Requests : (Good(req[x]))'
    BY <1>1, <1>3, <1>4, WithPolicyGood, OneRequest DEF store
  <1>6. policy' \in [Bundles -> Nat]
    BY <1>2, <1>4, Records
  <1>7. \A x \in Bundles : policy'[x] # 0 => x = req[r].found.bundle
    BY <1>2, <1>4 DEF NoPolicy
  <1>8. OnePolicyPerArea'
    BY <1>7, OneEntry DEF OnePolicyPerArea
  <1> QED BY <1>4, <1>5, <1>6, <1>8 DEF Inv, TypeOK, StaleOnlyWithinTTL, store

-----------------------------------------------------------------------------
(***************************************************************************)
(* ai-ops, time and the reload.                                            *)
(***************************************************************************)

LEMMA InitHolds == Init => Inv
  <1> SUFFICES ASSUME Init PROVE Inv
    OBVIOUS
  <1>1. TypeOK
    BY Records, AgeFacts DEF Init, TypeOK, BundleOrNone
  <1>2. OnePolicyPerArea
    <2>1. \A x \in Bundles : policy[x] # 0 => x = NoBundle
      BY DEF Init, NoPolicy
    <2> QED BY <2>1, OneEntry DEF OnePolicyPerArea
  <1>3. StaleOnlyWithinTTL
    BY DEF Init, StaleOnlyWithinTTL, NoEntry
  <1>4. \A r \in Requests : Good(req[r])
    BY DEF Init, Idle, Good, Fresh, Insertable, SettledOnActive
  <1> QED BY <1>1, <1>2, <1>3, <1>4 DEF Inv

LEMMA SwitchKeeps ==
    ASSUME Inv, NEW b \in Bundles, Switch(b) PROVE Inv'
  <1> DEFINE Unsettled(r) == [req[r] EXCEPT !.settled = FALSE]
  <1>1. ASSUME NEW r \in Requests
        PROVE  /\ Unsettled(r) \in Request
               /\ Unsettled(r).settled = FALSE
               /\ Unsettled(r).pc = req[r].pc /\ Unsettled(r).stage = req[r].stage
               /\ Unsettled(r).at = req[r].at /\ Unsettled(r).found = req[r].found
               /\ req[r].at \in Age /\ req[r].found.bundle \in BundleOrNone
    BY DEF Inv, TypeOK, Request, Loaded
  <1>2. req' = [r \in Requests |-> Unsettled(r)]
    BY DEF Switch
  <1> HIDE DEF Unsettled
  <1>3. /\ pointer' = b
        /\ unnamed' = [x \in Bundles |-> IF x = pointer THEN 0 ELSE unnamed[x]]
        /\ dirty' = Touched
        /\ UNCHANGED <<disk, written, resolver, policy, config, reload>>
    BY DEF Switch, caches
  <1>4. unnamed' \in [Bundles -> Age \cup {Never}]
    BY <1>3, AgeFacts DEF Inv, TypeOK
  <1>5. TypeOK'
    BY <1>1, <1>2, <1>3, <1>4 DEF Inv, TypeOK, BundleOrNone, Touched
  <1>6. StaleOnlyWithinTTL'
    <2>1. resolver.bundle \in BundleOrNone /\ resolver.age \in Age
      BY Entries DEF Inv, TypeOK
    <2> QED BY <1>3, <2>1, AgeFacts, ServingAssumption
        DEF Inv, StaleOnlyWithinTTL, BundleOrNone, Age
  <1>7. ASSUME NEW r \in Requests PROVE (Good(req[r]))'
    <2>1. req'[r] = Unsettled(r)
      BY <1>2
    <2>2. Fresh(req[r]) /\ Insertable(req[r])
      BY DEF Inv, Good
    <2>3. (Fresh(req[r]))'
      <3> SUFFICES ASSUME req[r].pc = "check", req[r].found.bundle \notin {NoBundle, b}
                   PROVE  unnamed'[req[r].found.bundle] <= req[r].at
        BY <1>1, <1>3, <2>1 DEF Fresh
      <3>1. req[r].found.bundle \in Bundles /\ req[r].at \in Age
        BY <1>1 DEF BundleOrNone
      <3>2. CASE req[r].found.bundle = pointer
        BY <1>3, <3>1, <3>2, AgeFacts DEF Age
      <3>3. CASE req[r].found.bundle # pointer
        BY <1>3, <2>2, <3>1, <3>3 DEF Fresh
      <3> QED BY <3>2, <3>3
    <2>4. (Insertable(req[r]))' /\ (SettledOnActive(req[r]))'
      BY <1>1, <2>1, <2>2 DEF Insertable, SettledOnActive
    <2> QED BY <2>3, <2>4 DEF Good
  <1> QED BY <1>3, <1>5, <1>6, <1>7 DEF Inv, OnePolicyPerArea

LEMMA TickKeeps ==
    ASSUME Inv, Tick PROVE Inv'
  <1>1. /\ unnamed \in [Bundles -> Age \cup {Never}]
        /\ unnamed' = [b \in Bundles |->
                          IF b = pointer THEN unnamed[b] ELSE Older(unnamed[b])]
        /\ UNCHANGED <<pointer, disk, written, policy, config, reload, dirty>>
    BY DEF Tick, Inv, TypeOK
  <1>2. /\ unnamed' \in [Bundles -> Age \cup {Never}]
        /\ \A b \in Bundles : unnamed'[b] >= unnamed[b]
    BY <1>1, AgeFacts
  <1>3. /\ resolver' \in ResolverEntry
        /\ resolver'.held = resolver.held /\ resolver'.bundle = resolver.bundle
        /\ resolver.held => resolver'.age = Older(resolver.age)
    <2>1. CASE resolver = NoEntry
      BY <2>1, Records DEF Tick, NoEntry
    <2>2. CASE resolver \in [held : {TRUE}, bundle : BundleOrNone, age : Age]
      BY <2>2, AgeFacts DEF Tick, ResolverEntry
    <2> QED BY <2>1, <2>2 DEF Inv, TypeOK, ResolverEntry
  <1>4. ASSUME NEW r \in Requests
        PROVE  /\ req'[r] \in Request
               /\ req'[r].stage = req[r].stage /\ req'[r].pc = req[r].pc
               /\ req'[r].settled = req[r].settled
               /\ req'[r].found = req[r].found /\ req'[r].pol = req[r].pol
               /\ req'[r].audit = req[r].audit
               /\ req[r].pc = "check" => req'[r].at = Older(req[r].at)
               /\ req[r].at \in Age /\ req[r].found.bundle \in BundleOrNone
    <2>1. req[r] \in Request
      BY DEF Inv, TypeOK
    <2>2. req'[r] = IF req[r].pc \in {"read", "check"}
                    THEN [req[r] EXCEPT !.at = Older(@)] ELSE req[r]
      BY DEF Tick
    <2> QED BY <2>1, <2>2, AgeFacts DEF Request, Loaded
  <1>5. req' \in [Requests -> Request]
    BY <1>4 DEF Tick
  <1>6. TypeOK'
    BY <1>1, <1>2, <1>3, <1>5 DEF Inv, TypeOK
  <1>7. StaleOnlyWithinTTL'
    <2> SUFFICES ASSUME resolver.held, resolver.bundle \notin {NoBundle, pointer}
                 PROVE  unnamed'[resolver.bundle] <= Older(resolver.age)
      BY <1>1, <1>3 DEF StaleOnlyWithinTTL
    <2>1. resolver.bundle \in Bundles /\ resolver.age \in Age
      BY Entries DEF Inv, TypeOK, BundleOrNone
    <2>2. unnamed'[resolver.bundle] = Older(unnamed[resolver.bundle])
      BY <1>1, <2>1
    <2>3. unnamed[resolver.bundle] <= resolver.age
      BY DEF Inv, StaleOnlyWithinTTL
    <2>4. unnamed[resolver.bundle] \in Age \cup {Never}
      BY <1>1, <2>1
    <2> QED BY <2>1, <2>2, <2>3, <2>4, AgeFacts
  <1>8. ASSUME NEW r \in Requests PROVE (Good(req[r]))'
    <2>1. Fresh(req[r]) /\ Insertable(req[r]) /\ SettledOnActive(req[r])
      BY DEF Inv, Good
    <2>2. (Fresh(req[r]))'
      <3> SUFFICES ASSUME req[r].pc = "check",
                          req[r].found.bundle \notin {NoBundle, pointer}
                   PROVE  unnamed'[req[r].found.bundle] <= Older(req[r].at)
        BY <1>1, <1>4 DEF Fresh
      <3>1. req[r].found.bundle \in Bundles /\ req[r].at \in Age
        BY <1>4 DEF BundleOrNone
      <3>2. unnamed'[req[r].found.bundle] = Older(unnamed[req[r].found.bundle])
        BY <1>1, <3>1
      <3>3. unnamed[req[r].found.bundle] <= req[r].at
        BY <2>1 DEF Fresh
      <3>4. unnamed[req[r].found.bundle] \in Age \cup {Never}
        BY <1>1, <3>1
      <3> QED BY <3>1, <3>2, <3>3, <3>4, AgeFacts
    <2>3. (Insertable(req[r]))'
      BY <1>4, <2>1 DEF Insertable
    <2>4. (SettledOnActive(req[r]))'
      <3>1. (\A b \in Bundles \ {pointer} : unnamed[b] >= TTL)
               => \A b \in Bundles \ {pointer} : unnamed'[b] >= TTL
        <4> SUFFICES ASSUME NEW b \in Bundles, unnamed[b] >= TTL PROVE unnamed'[b] >= TTL
          OBVIOUS
        <4>1. unnamed[b] \in Nat /\ unnamed'[b] \in Nat /\ unnamed'[b] >= unnamed[b]
          BY <1>1, <1>2, AgeFacts
        <4> QED BY <4>1, ServingAssumption
      <3> QED BY <1>1, <1>4, <2>1, <3>1 DEF SettledOnActive
    <2> QED BY <2>2, <2>3, <2>4 DEF Good
  <1> QED BY <1>1, <1>6, <1>7, <1>8 DEF Inv, OnePolicyPerArea

\* Bundles written to and removed from the volume, and steps that only empty
\* caches: what Good reads stays as it is.
LEMMA QuietStep ==
    ASSUME Inv, UNCHANGED <<pointer, unnamed, req>>,
           disk' \in [Bundles -> Nat], written' \in Nat,
           resolver' \in {resolver, NoEntry}, policy' \in {policy, NoPolicy},
           config' \in {config, NoConfig}, dirty' \in {"free", "clean", "dirty"},
           reload' \in {"idle", "resolver", "policy", "config", "preflight"}
    PROVE  Inv'
  <1>1. TypeOK'
    BY Records DEF Inv, TypeOK
  <1>2. OnePolicyPerArea'
    <2>1. CASE policy' = policy
      BY <2>1 DEF Inv, OnePolicyPerArea
    <2>2. CASE policy' = NoPolicy
      <3>1. \A x \in Bundles : policy'[x] # 0 => x = NoBundle
        BY <2>2 DEF NoPolicy
      <3> QED BY <3>1, OneEntry DEF OnePolicyPerArea
    <2> QED BY <2>1, <2>2
  <1>3. StaleOnlyWithinTTL'
    <2>1. CASE resolver' = resolver
      BY <2>1 DEF Inv, StaleOnlyWithinTTL
    <2>2. CASE resolver' = NoEntry
      BY <2>2 DEF StaleOnlyWithinTTL, NoEntry
    <2> QED BY <2>1, <2>2
  <1>4. \A r \in Requests : (Good(req[r]))'
    BY DEF Inv, Good, Fresh, Insertable, SettledOnActive
  <1> QED BY <1>1, <1>2, <1>3, <1>4 DEF Inv

LEMMA NextKeeps == Inv /\ [Next]_vars => Inv'
  <1> SUFFICES ASSUME Inv, [Next]_vars PROVE Inv'
    OBVIOUS
  <1> USE DEF store, caches
  <1>t. TypeOK
    BY DEF Inv
  <1>1. ASSUME NEW b \in Bundles, RemoveDir(b) \/ MoveIn(b) PROVE Inv'
    BY <1>t, <1>1, QuietStep, ServingAssumption DEF RemoveDir, MoveIn, TypeOK, Touched
  <1>2. ASSUME Reload PROVE Inv'
    BY <1>t, <1>2, QuietStep
    DEF Reload, BeginReload, ReloadResolver, ReloadPolicy, ReloadConfig, Preflight,
        ClearCaches, TypeOK
  <1>3. ASSUME NEW r \in Requests, Infer(r) PROVE Inv'
    BY <1>3, BeginKeeps, GetConfigKeeps, CheckReadyKeeps, ResolveKeeps, ReadPointerKeeps,
       CheckPathKeeps, LoadConfigKeeps, InsertConfigKeeps, LoadPolicyKeeps,
       InsertPolicyKeeps, FinishKeeps DEF Infer
  <1>4. CASE UNCHANGED vars
    BY <1>t, <1>4, QuietStep DEF vars, TypeOK
  <1> QED BY <1>1, <1>2, <1>3, <1>4, SwitchKeeps, TickKeeps DEF Next, Ops

LEMMA InvAlways == Spec => []Inv
  BY InitHolds, NextKeeps, PTL DEF Spec

-----------------------------------------------------------------------------
(***************************************************************************)
(* The theorems.                                                           *)
(***************************************************************************)

\* Every cache, and every request in every step, holds values of its type.
THEOREM ServingTypes == Spec => []TypeOK
  <1>1. Inv => TypeOK
    BY DEF Inv
  <1> QED BY <1>1, InvAlways, PTL

\* A bundle that active.json has stopped naming for TTL is not served from the
\* resolver's cache, whatever readers, writers and reloads interleave.
THEOREM ResolverForgetsInTime == Spec => []StaleOnlyWithinTTL
  <1>1. Inv => StaleOnlyWithinTTL
    BY DEF Inv
  <1> QED BY <1>1, InvAlways, PTL

\* A switch needs no notification to take hold: the policy that answers a request
\* begun more than TTL after the last change is the active bundle's, and its audit
\* row says so.
THEOREM SettledRequestsServeActive == Spec => []SettledServesActive
  <1>1. Inv => SettledServesActive
    BY DEF Inv, Good, SettledOnActive, SettledServesActive
  <1> QED BY <1>1, InvAlways, PTL

\* However many bundles an area goes through, its policy cache holds one at most.
THEOREM PolicyCacheStaysSmall == Spec => []OnePolicyPerArea
  <1>1. Inv => OnePolicyPerArea
    BY DEF Inv
  <1> QED BY <1>1, InvAlways, PTL
-----------------------------------------------------------------------------
(***************************************************************************)
(* Where changes and reloads keep to the gaps between requests, every      *)
(* cache entry that a request can meet says what the volume says, and so   *)
(* does whatever the request has found.  During a reload the caches are    *)
(* right from the step on that empties them: Kept names those steps.       *)
(***************************************************************************)

\* What a resolver call that reads the volume now answers, and the bundle at its contents.
Answering == IF pointer # NoBundle /\ disk[pointer] # 0 THEN pointer ELSE NoBundle

Current ==
    IF Answering = NoBundle THEN Nothing
    ELSE [bundle |-> pointer, version |-> disk[pointer]]

ResolverCurrent == resolver.held => resolver.bundle = Answering
PolicyCurrent == \A b \in Bundles : policy[b] # 0 => b = Answering /\ policy[b] = disk[b]
ConfigCurrent == config.held => config.value = Current

Progress(q) ==
    /\ q.pc = "check" => pointer # NoBundle /\ q.found.bundle = pointer
    /\ q.pc = "load" => q.found.bundle = Answering
    /\ q.pc = "insert" => q.found = Current
    /\ q.stage \in {"policy", "map", "audit", "done"} => Answering # NoBundle
    /\ q.stage \in {"map", "audit", "done"} => q.pol = Current
    /\ q.stage \in {"audit", "done"} => q.cfg = Current
    /\ q.stage = "done" => q.audit = pointer

Waiting == \A r \in Requests : req[r].stage = "idle"

Kept(stages) == dirty = "clean" \/ reload \in stages

DrainedInv ==
    Drained =>
        /\ dirty = "dirty" \/ reload # "idle" => Waiting
        /\ Kept({"policy", "config", "preflight"}) => ResolverCurrent
        /\ Kept({"config", "preflight"}) => PolicyCurrent
        /\ Kept({"preflight"}) => ConfigCurrent
        /\ \A r \in Requests :
              IF req[r].stage = "idle" THEN req[r].pc = "end" ELSE Progress(req[r])

LEMMA VolumeFacts ==
    ASSUME TypeOK
    PROVE  /\ Answering \in BundleOrNone /\ Current \in Loaded
           /\ Current.bundle = Answering
           /\ Answering = NoBundle => Current = Nothing
           /\ Answering # NoBundle =>
                 /\ Answering = pointer /\ Answering \in Bundles /\ disk[Answering] # 0
                 /\ Current = [bundle |-> Answering, version |-> disk[Answering]]
  BY Records DEF TypeOK, Answering, Current, BundleOrNone, Loaded, Nothing

\* A request under way finds the caches right.
LEMMA AtWork ==
    ASSUME Inv, DrainedInv, Drained, NEW r \in Requests,
           req[r].stage # "idle" \/ req[r].pc # "end"
    PROVE  /\ req[r] \in Request /\ req[r].stage # "idle" /\ Progress(req[r])
           /\ dirty = "clean" /\ reload = "idle"
           /\ ResolverCurrent /\ PolicyCurrent /\ ConfigCurrent
  <1>1. dirty \in {"clean", "dirty"} /\ req[r] \in Request
    BY DEF Inv, TypeOK, Drained
  <1>2. req[r].stage # "idle" /\ Progress(req[r])
    BY DEF DrainedInv
  <1>3. ~Waiting
    BY <1>2 DEF Waiting
  <1>4. dirty = "clean" /\ reload = "idle"
    BY <1>1, <1>3 DEF DrainedInv
  <1> QED BY <1>1, <1>2, <1>4 DEF DrainedInv, Kept

\* A step of one request that leaves the caches right.
LEMMA Progresses ==
    ASSUME Inv, DrainedInv, NEW r \in Requests, NEW q \in Request,
           IF q.stage = "idle" THEN q.pc = "end" ELSE Progress(q),
           dirty = "clean", reload = "idle",
           req' = [req EXCEPT ![r] = q], UNCHANGED <<store, reload, dirty>>,
           ResolverCurrent', PolicyCurrent', ConfigCurrent'
    PROVE  DrainedInv'
  <1>1. /\ pointer' = pointer /\ disk' = disk /\ Answering' = Answering
        /\ Current' = Current /\ Drained
    BY DEF store, Answering, Current, Drained
  <1>2. ASSUME NEW x \in Requests
        PROVE  IF req'[x].stage = "idle" THEN req'[x].pc = "end" ELSE (Progress(req[x]))'
    <2>1. CASE x = r
      <3>1. req'[x] = q
        BY <2>1 DEF Inv, TypeOK
      <3> QED BY <1>1, <3>1 DEF Progress
    <2>2. CASE x # r
      <3>1. req'[x] = req[x]
        BY <2>2 DEF Inv, TypeOK
      <3> QED BY <1>1, <3>1 DEF DrainedInv, Progress
    <2> QED BY <2>1, <2>2
  <1> QED BY <1>2 DEF DrainedInv

LEMMA ProgressesOnly ==
    ASSUME Inv, DrainedInv, Drained, NEW r \in Requests,
           req[r].stage # "idle" \/ req[r].pc # "end", NEW q \in Request,
           IF q.stage = "idle" THEN q.pc = "end" ELSE Progress(q),
           req' = [req EXCEPT ![r] = q], UNCHANGED <<store, caches, reload, dirty>>
    PROVE  DrainedInv'
  <1>1. /\ dirty = "clean" /\ reload = "idle"
        /\ ResolverCurrent /\ PolicyCurrent /\ ConfigCurrent
    BY AtWork
  <1>2. ResolverCurrent' /\ PolicyCurrent' /\ ConfigCurrent'
    BY <1>1 DEF store, caches, ResolverCurrent, PolicyCurrent, ConfigCurrent, Answering, Current
  <1> QED BY <1>1, <1>2, Progresses

LEMMA RaiseServes ==
    ASSUME Inv, DrainedInv, Drained, NEW r \in Requests,
           req[r].stage # "idle" \/ req[r].pc # "end",
           Raise(r), UNCHANGED <<store, caches, reload, dirty>>
    PROVE  DrainedInv'
  <1>1. Idle \in Request /\ Idle.stage = "idle" /\ Idle.pc = "end"
    BY Records DEF Idle
  <1> QED BY <1>1, ProgressesOnly DEF Raise

LEMMA BeginServes ==
    ASSUME Inv, DrainedInv, Drained, NEW r \in Requests, Begin(r) PROVE DrainedInv'
  <1> DEFINE settled == \A b \in Bundles \ {pointer} : unnamed[b] >= TTL
             g == Goto(r, "hydrate", "get")
             q == [g EXCEPT !.settled = settled]
  <1>1. settled \in BOOLEAN
    OBVIOUS
  <1>2. g \in Request /\ g.pc = "get" /\ g.stage = "hydrate"
    BY GotoType DEF Inv
  <1>3. q \in Request /\ q.pc = "get" /\ q.stage = "hydrate"
    <2> HIDE DEF settled, g
    <2> QED BY <1>1, <1>2 DEF Request
  <1>4. /\ dirty = "clean" /\ reload = "idle"
        /\ req' = [req EXCEPT ![r] = q] /\ UNCHANGED <<store, caches, reload, dirty>>
    BY DEF Begin
  <1> HIDE DEF q
  <1>5. ResolverCurrent /\ PolicyCurrent /\ ConfigCurrent
    BY <1>4 DEF DrainedInv, Kept
  <1>6. ResolverCurrent' /\ PolicyCurrent' /\ ConfigCurrent'
    BY <1>4, <1>5
    DEF store, caches, ResolverCurrent, PolicyCurrent, ConfigCurrent, Answering, Current
  <1>7. Progress(q)
    BY <1>3 DEF Progress
  <1> QED BY <1>3, <1>4, <1>6, <1>7, Progresses

\* The two continuations, once what was asked for has come.
LEMMA WithConfigProgress ==
    ASSUME Inv, NEW r \in Requests, Progress(req[r]), WithConfig(r, Current),
           req[r].stage \in {"hydrate", "map"}
    PROVE  \E q \in Request : Progress(q) /\ q.stage # "idle" /\ req' = [req EXCEPT ![r] = q]
  <1>1. CASE req[r].stage = "hydrate"
    <2>1. /\ Goto(r, "ready", "get") \in Request
          /\ Goto(r, "ready", "get").stage = "ready" /\ Goto(r, "ready", "get").pc = "get"
      BY GotoType DEF Inv
    <2>2. Progress(Goto(r, "ready", "get"))
      BY <2>1 DEF Progress
    <2> QED BY <1>1, <2>1, <2>2 DEF WithConfig
  <1>2. CASE req[r].stage = "map"
    <2> DEFINE g == Goto(r, "audit", "resolve")
               q == [g EXCEPT !.cfg = Current]
    <2>1. g \in Request /\ g.pc = "resolve" /\ g.stage = "audit" /\ g.pol = req[r].pol
      BY GotoType DEF Inv
    <2>2. Current \in Loaded
      BY VolumeFacts DEF Inv
    <2>3. q \in Request /\ q.pc = "resolve" /\ q.stage = "audit" /\ q.pol = req[r].pol
          /\ q.cfg = Current
      <3> HIDE DEF g
      <3> QED BY <2>1, <2>2 DEF Request
    <2>4. req' = [req EXCEPT ![r] = q]
      BY <1>2 DEF WithConfig
    <2> HIDE DEF q
    <2>5. Progress(q)
      BY <1>2, <2>3 DEF Progress
    <2> QED BY <2>3, <2>4, <2>5
  <1> QED BY <1>1, <1>2

LEMMA WithPolicyProgress ==
    ASSUME Inv, NEW r \in Requests, Progress(req[r]), WithPolicy(r, Current),
           req[r].stage \in {"policy", "audit"}
    PROVE  \E q \in Request : Progress(q) /\ q.stage # "idle" /\ req' = [req EXCEPT ![r] = q]
  <1>v. Current \in Loaded /\ Current.bundle = pointer /\ Answering # NoBundle
    BY VolumeFacts DEF Inv, Progress
  <1>1. CASE req[r].stage = "policy"
    <2> DEFINE g == Goto(r, "map", "get")
               q == [g EXCEPT !.pol = Current]
    <2>1. g \in Request /\ g.pc = "get" /\ g.stage = "map"
      BY GotoType DEF Inv
    <2>2. q \in Request /\ q.pc = "get" /\ q.stage = "map" /\ q.pol = Current
      <3> HIDE DEF g
      <3> QED BY <2>1, <1>v DEF Request
    <2>3. req' = [req EXCEPT ![r] = q]
      BY <1>1 DEF WithPolicy
    <2> HIDE DEF q
    <2>4. Progress(q)
      BY <1>v, <2>2 DEF Progress
    <2> QED BY <2>2, <2>3, <2>4
  <1>2. CASE req[r].stage = "audit"
    <2> DEFINE g == Goto(r, "done", "end")
               q == [g EXCEPT !.audit = Current.bundle]
    <2>1. g \in Request /\ g.pc = "end" /\ g.stage = "done" /\ g.pol = req[r].pol
          /\ g.cfg = req[r].cfg
      BY GotoType DEF Inv
    <2>2. q \in Request /\ q.pc = "end" /\ q.stage = "done" /\ q.pol = req[r].pol
          /\ q.cfg = req[r].cfg /\ q.audit = pointer
      <3> HIDE DEF g
      <3> QED BY <2>1, <1>v DEF Request, Loaded
    <2>3. req' = [req EXCEPT ![r] = q]
      BY <1>2 DEF WithPolicy
    <2> HIDE DEF q
    <2>4. Progress(q) /\ q.stage # "idle"
      BY <1>2, <1>v, <2>2 DEF Progress
    <2>5. q \in Request
      BY <2>2
    <2> QED BY <2>3, <2>4, <2>5
  <1> QED BY <1>1, <1>2

LEMMA GetConfigServes ==
    ASSUME Inv, DrainedInv, Drained, NEW r \in Requests, GetConfig(r) PROVE DrainedInv'
  <1>1. req[r].pc = "get" /\ req[r].stage \in {"hydrate", "map"}
        /\ UNCHANGED <<store, caches, reload, dirty>>
    BY DEF GetConfig
  <1>2. req[r] \in Request /\ Progress(req[r]) /\ ConfigCurrent
    BY <1>1, AtWork
  <1>3. CASE config.held
    <2>1. WithConfig(r, Current)
      BY <1>2, <1>3 DEF GetConfig, ConfigCurrent
    <2> QED BY <1>1, <1>2, <2>1, WithConfigProgress, ProgressesOnly
  <1>4. CASE ~config.held
    <2> DEFINE q == [req[r] EXCEPT !.pc = "resolve"]
    <2>1. q \in Request /\ q.pc = "resolve" /\ q.stage = req[r].stage
          /\ q.pol = req[r].pol /\ q.cfg = req[r].cfg /\ q.audit = req[r].audit
      BY <1>2 DEF Request
    <2>2. req' = [req EXCEPT ![r] = q]
      BY <1>4 DEF GetConfig
    <2> HIDE DEF q
    <2>3. Progress(q)
      BY <1>2, <2>1 DEF Progress
    <2> QED BY <1>1, <2>1, <2>2, <2>3, ProgressesOnly
  <1> QED BY <1>3, <1>4

LEMMA CheckReadyServes ==
    ASSUME Inv, DrainedInv, Drained, NEW r \in Requests, CheckReady(r) PROVE DrainedInv'
  <1>1. req[r].stage = "ready" /\ UNCHANGED <<store, caches, reload, dirty>>
    BY DEF CheckReady
  <1>2. CASE pointer # NoBundle /\ disk[pointer] # 0
    <2> DEFINE q == Goto(r, "policy", "resolve")
    <2>1. q \in Request /\ q.pc = "resolve" /\ q.stage = "policy"
      BY GotoType DEF Inv
    <2>2. req' = [req EXCEPT ![r] = q]
      BY <1>2 DEF CheckReady
    <2> HIDE DEF q
    <2>3. Progress(q)
      BY <1>2, <2>1 DEF Progress, Answering
    <2> QED BY <1>1, <2>1, <2>2, <2>3, ProgressesOnly
  <1>3. CASE ~(pointer # NoBundle /\ disk[pointer] # 0)
    BY <1>1, <1>3, RaiseServes DEF CheckReady
  <1> QED BY <1>2, <1>3

LEMMA ResolveServes ==
    ASSUME Inv, DrainedInv, Drained, NEW r \in Requests, Resolve(r) PROVE DrainedInv'
  <1>1. req[r].pc = "resolve" /\ UNCHANGED <<store, caches, reload, dirty>>
    BY DEF Resolve
  <1>2. /\ req[r] \in Request /\ req[r].stage # "idle" /\ Progress(req[r])
        /\ ResolverCurrent
    BY <1>1, AtWork
  <1>3. CASE resolver.held /\ resolver.age < TTL
    <2> DEFINE found == [Nothing EXCEPT !.bundle = resolver.bundle]
               q == [req[r] EXCEPT !.pc = "load", !.found = found]
    <2>1. found \in Loaded /\ found.bundle = Answering
      BY <1>2, <1>3, Entries DEF Inv, TypeOK, Nothing, Loaded, ResolverCurrent
    <2>2. q \in Request /\ q.pc = "load" /\ q.stage = req[r].stage /\ q.found = found
          /\ q.pol = req[r].pol /\ q.cfg = req[r].cfg /\ q.audit = req[r].audit
      <3> HIDE DEF found
      <3> QED BY <1>2, <2>1 DEF Request
    <2>3. req' = [req EXCEPT ![r] = q]
      BY <1>3 DEF Resolve
    <2> HIDE DEF q, found
    <2>4. Progress(q)
      BY <1>2, <2>1, <2>2 DEF Progress
    <2> QED BY <1>1, <1>2, <2>2, <2>3, <2>4, ProgressesOnly
  <1>4. CASE ~(resolver.held /\ resolver.age < TTL)
    <2> DEFINE q == [req[r] EXCEPT !.pc = "read", !.at = 0]
    <2>1. q \in Request /\ q.pc = "read" /\ q.stage = req[r].stage
          /\ q.pol = req[r].pol /\ q.cfg = req[r].cfg /\ q.audit = req[r].audit
      BY <1>2, AgeFacts DEF Request
    <2>2. req' = [req EXCEPT ![r] = q]
      BY <1>4 DEF Resolve
    <2> HIDE DEF q
    <2>3. Progress(q)
      BY <1>2, <2>1 DEF Progress
    <2> QED BY <1>1, <1>2, <2>1, <2>2, <2>3, ProgressesOnly
  <1> QED BY <1>3, <1>4

LEMMA RememberServes ==
    ASSUME Inv, DrainedInv, Drained, NEW r \in Requests,
           req[r].pc \in {"read", "check"}, Remember(r, Answering),
           UNCHANGED <<store, policy, config, reload, dirty>>
    PROVE  DrainedInv'
  <1>1. /\ req[r] \in Request /\ req[r].stage # "idle" /\ Progress(req[r])
        /\ dirty = "clean" /\ reload = "idle" /\ PolicyCurrent /\ ConfigCurrent
    BY AtWork
  <1> DEFINE found == [Nothing EXCEPT !.bundle = Answering]
             q == [req[r] EXCEPT !.pc = "load", !.at = 0, !.found = found]
  <1>2. found \in Loaded /\ found.bundle = Answering
    BY VolumeFacts DEF Inv, Nothing, Loaded
  <1>3. q \in Request /\ q.pc = "load" /\ q.stage = req[r].stage /\ q.found = found
        /\ q.pol = req[r].pol /\ q.cfg = req[r].cfg /\ q.audit = req[r].audit
    <2> HIDE DEF found
    <2> QED BY <1>1, <1>2, AgeFacts DEF Request
  <1>4. req' = [req EXCEPT ![r] = q] /\ resolver'.bundle = Answering
    BY DEF Remember
  <1> HIDE DEF q, found
  <1>5. Progress(q)
    BY <1>1, <1>2, <1>3 DEF Progress
  <1>6. ResolverCurrent' /\ PolicyCurrent' /\ ConfigCurrent'
    BY <1>1, <1>4
    DEF store, ResolverCurrent, PolicyCurrent, ConfigCurrent, Answering, Current
  <1> QED BY <1>1, <1>3, <1>4, <1>5, <1>6, Progresses

LEMMA ReadPointerServes ==
    ASSUME Inv, DrainedInv, Drained, NEW r \in Requests, ReadPointer(r) PROVE DrainedInv'
  <1>1. req[r].pc = "read" /\ UNCHANGED <<store, policy, config, reload, dirty>>
    BY DEF ReadPointer
  <1>2. req[r] \in Request /\ req[r].stage # "idle" /\ Progress(req[r])
    BY <1>1, AtWork
  <1>3. CASE pointer = NoBundle
    <2>1. Answering = NoBundle /\ Remember(r, NoBundle)
      BY <1>3 DEF Answering, ReadPointer
    <2> QED BY <1>1, <2>1, RememberServes
  <1>4. CASE pointer # NoBundle
    <2> DEFINE found == [Nothing EXCEPT !.bundle = pointer]
               q == [req[r] EXCEPT !.pc = "check", !.found = found]
    <2>1. found \in Loaded /\ found.bundle = pointer
      BY DEF Inv, TypeOK, Nothing, Loaded
    <2>2. q \in Request /\ q.pc = "check" /\ q.stage = req[r].stage /\ q.found = found
          /\ q.pol = req[r].pol /\ q.cfg = req[r].cfg /\ q.audit = req[r].audit
      <3> HIDE DEF found
      <3> QED BY <1>2, <2>1 DEF Request
    <2>3. req' = [req EXCEPT ![r] = q] /\ UNCHANGED <<store, caches, reload, dirty>>
      BY <1>1, <1>4 DEF ReadPointer, caches
    <2> HIDE DEF q, found
    <2>4. Progress(q)
      BY <1>2, <1>4, <2>1, <2>2 DEF Progress
    <2> QED BY <1>1, <1>2, <2>2, <2>3, <2>4, ProgressesOnly
  <1> QED BY <1>3, <1>4

LEMMA CheckPathServes ==
    ASSUME Inv, DrainedInv, Drained, NEW r \in Requests, CheckPath(r) PROVE DrainedInv'
  <1>1. req[r].pc = "check" /\ UNCHANGED <<store, policy, config, reload, dirty>>
    BY DEF CheckPath
  <1>2. pointer # NoBundle /\ req[r].found.bundle = pointer
    BY <1>1, AtWork DEF Progress
  <1>3. Remember(r, Answering)
    BY <1>2 DEF CheckPath, Answering
  <1> QED BY <1>1, <1>3, RememberServes

LEMMA LoadConfigServes ==
    ASSUME Inv, DrainedInv, Drained, NEW r \in Requests, LoadConfig(r) PROVE DrainedInv'
  <1> DEFINE b == req[r].found.bundle
             found == IF b = NoBundle \/ disk[b] = 0 THEN Nothing
                      ELSE [bundle |-> b, version |-> disk[b]]
             q == [req[r] EXCEPT !.pc = "insert", !.found = found]
  <1>1. req[r].pc = "load" /\ UNCHANGED <<store, caches, reload, dirty>>
        /\ req' = [req EXCEPT ![r] = q]
    BY DEF LoadConfig
  <1>2. req[r] \in Request /\ req[r].stage # "idle" /\ Progress(req[r])
    BY <1>1, AtWork
  <1>3. b = Answering
    BY <1>1, <1>2 DEF Progress
  <1>4. found = Current /\ Current \in Loaded
    BY <1>3, VolumeFacts DEF Inv
  <1>5. q \in Request /\ q.pc = "insert" /\ q.stage = req[r].stage /\ q.found = Current
        /\ q.pol = req[r].pol /\ q.cfg = req[r].cfg /\ q.audit = req[r].audit
    <2> HIDE DEF found, b
    <2> QED BY <1>2, <1>4 DEF Request
  <1> HIDE DEF q, found, b
  <1>6. Progress(q)
    BY <1>2, <1>5 DEF Progress
  <1> QED BY <1>1, <1>2, <1>5, <1>6, ProgressesOnly

LEMMA InsertConfigServes ==
    ASSUME Inv, DrainedInv, Drained, NEW r \in Requests, InsertConfig(r) PROVE DrainedInv'
  <1>1. /\ req[r].pc = "insert" /\ req[r].stage \in {"hydrate", "map"}
        /\ config' = [held |-> TRUE, value |-> req[r].found]
        /\ WithConfig(r, req[r].found)
        /\ UNCHANGED <<store, resolver, policy, reload, dirty>>
    BY DEF InsertConfig
  <1>2. /\ Progress(req[r]) /\ dirty = "clean" /\ reload = "idle"
        /\ ResolverCurrent /\ PolicyCurrent
    BY <1>1, AtWork
  <1>3. req[r].found = Current
    BY <1>1, <1>2 DEF Progress
  <1>4. ResolverCurrent' /\ PolicyCurrent' /\ ConfigCurrent'
    BY <1>1, <1>2, <1>3
    DEF store, ResolverCurrent, PolicyCurrent, ConfigCurrent, Answering, Current
  <1>5. PICK q \in Request : Progress(q) /\ q.stage # "idle" /\ req' = [req EXCEPT ![r] = q]
    BY <1>1, <1>2, <1>3, WithConfigProgress
  <1> QED BY <1>1, <1>2, <1>4, <1>5, Progresses

LEMMA LoadPolicyServes ==
    ASSUME Inv, DrainedInv, Drained, NEW r \in Requests, LoadPolicy(r) PROVE DrainedInv'
  <1> DEFINE b == req[r].found.bundle
             q == [req[r] EXCEPT !.pc = "insert", !.found.version = disk[b]]
  <1>1. /\ req[r].pc = "load" /\ req[r].stage \in {"policy", "audit"}
        /\ UNCHANGED <<store, caches, reload, dirty>>
    BY DEF LoadPolicy
  <1>2. req[r] \in Request /\ Progress(req[r]) /\ PolicyCurrent
    BY <1>1, AtWork
  <1>3. /\ b = Answering /\ b # NoBundle /\ b \in Bundles /\ disk[b] # 0 /\ disk[b] \in Nat
        /\ Current = [bundle |-> b, version |-> disk[b]]
    BY <1>1, <1>2, VolumeFacts DEF Inv, TypeOK, Progress
  <1>4. CASE policy[b] # 0
    <2>1. [bundle |-> b, version |-> policy[b]] = Current
      BY <1>2, <1>3, <1>4 DEF PolicyCurrent
    <2>2. WithPolicy(r, Current)
      BY <1>3, <1>4, <2>1 DEF LoadPolicy
    <2> QED BY <1>1, <1>2, <2>2, WithPolicyProgress, ProgressesOnly
  <1>5. CASE policy[b] = 0
    <2>1. req' = [req EXCEPT ![r] = q]
      BY <1>3, <1>5 DEF LoadPolicy
    <2>2. q \in Request /\ q.pc = "insert" /\ q.stage = req[r].stage
          /\ q.found = [req[r].found EXCEPT !.version = disk[b]]
          /\ q.pol = req[r].pol /\ q.cfg = req[r].cfg /\ q.audit = req[r].audit
      BY <1>2, <1>3 DEF Request, Loaded
    <2>3. q.found = Current
      BY <1>2, <1>3, <2>2 DEF Request, Loaded
    <2> HIDE DEF q, b
    <2>4. Progress(q)
      BY <1>2, <2>2, <2>3 DEF Progress
    <2> QED BY <1>1, <2>1, <2>2, <2>4, ProgressesOnly
  <1> QED BY <1>4, <1>5

LEMMA InsertPolicyServes ==
    ASSUME Inv, DrainedInv, Drained, NEW r \in Requests, InsertPolicy(r) PROVE DrainedInv'
  <1>1. /\ req[r].pc = "insert" /\ req[r].stage \in {"policy", "audit"}
        /\ policy' = [NoPolicy EXCEPT ![req[r].found.bundle] = req[r].found.version]
        /\ WithPolicy(r, req[r].found)
        /\ UNCHANGED <<store, resolver, config, reload, dirty>>
    BY DEF InsertPolicy
  <1>2. /\ Progress(req[r]) /\ dirty = "clean" /\ reload = "idle"
        /\ ResolverCurrent /\ ConfigCurrent
    BY <1>1, AtWork
  <1>3. /\ req[r].found = Current /\ Answering # NoBundle
        /\ Current = [bundle |-> Answering, version |-> disk[Answering]]
    BY <1>1, <1>2, VolumeFacts DEF Inv, Progress
  <1>4. policy' = [NoPolicy EXCEPT ![Answering] = disk[Answering]]
    BY <1>1, <1>3
  <1>5. ResolverCurrent' /\ ConfigCurrent'
    BY <1>1, <1>2 DEF store, ResolverCurrent, ConfigCurrent, Answering, Current
  <1>6. PolicyCurrent'
    <2>1. Answering' = Answering /\ disk' = disk
      BY <1>1 DEF store, Answering
    <2>2. \A x \in Bundles : policy'[x] # 0 => x = Answering /\ policy'[x] = disk[x]
      BY <1>4 DEF NoPolicy
    <2> QED BY <2>1, <2>2 DEF PolicyCurrent
  <1>7. PICK q \in Request : Progress(q) /\ q.stage # "idle" /\ req' = [req EXCEPT ![r] = q]
    BY <1>1, <1>2, <1>3, WithPolicyProgress
  <1> QED BY <1>1, <1>2, <1>5, <1>6, <1>7, Progresses

LEMMA FinishServes ==
    ASSUME Inv, DrainedInv, Drained, NEW r \in Requests, Finish(r) PROVE DrainedInv'
  BY RaiseServes DEF Finish, Raise

\* While requests wait, bundles change and make the caches dirty.
LEMMA ChangeServes ==
    ASSUME Inv, Drained, MayChange, dirty' = Touched, UNCHANGED <<caches, reload>>,
           \A r \in Requests : req'[r].stage = req[r].stage /\ req'[r].pc = req[r].pc,
           DrainedInv
    PROVE  DrainedInv'
  <1>1. dirty' = "dirty" /\ reload' = "idle" /\ \A r \in Requests : req[r].stage = "idle"
    BY DEF MayChange, Touched
  <1>2. \A r \in Requests : req'[r].stage = "idle" /\ req'[r].pc = "end"
    BY <1>1 DEF DrainedInv
  <1> QED BY <1>1, <1>2 DEF DrainedInv, Kept, Waiting

\* A cache that a step empties is right.
LEMMA EmptyServes ==
    /\ resolver' = NoEntry => ResolverCurrent'
    /\ policy' = NoPolicy => PolicyCurrent'
    /\ config' = NoConfig => ConfigCurrent'
  BY DEF NoEntry, NoPolicy, NoConfig, ResolverCurrent, PolicyCurrent, ConfigCurrent

LEMMA ReloadServes ==
    ASSUME Inv, DrainedInv, Drained, Reload PROVE DrainedInv'
  <1>1. UNCHANGED <<pointer, disk, req>>
    BY DEF Reload, BeginReload, ReloadResolver, ReloadPolicy, ReloadConfig, Preflight,
           ClearCaches, store
  <1>2. /\ dirty \in {"clean", "dirty"}
        /\ Waiting' = Waiting
        /\ \A r \in Requests :
              IF req'[r].stage = "idle" THEN req'[r].pc = "end" ELSE (Progress(req[r]))'
    BY <1>1 DEF Inv, TypeOK, Drained, DrainedInv, Waiting, Progress, Answering, Current
  <1>3. /\ resolver' = resolver => ResolverCurrent' = ResolverCurrent
        /\ policy' = policy => PolicyCurrent' = PolicyCurrent
        /\ config' = config => ConfigCurrent' = ConfigCurrent
    BY <1>1 DEF ResolverCurrent, PolicyCurrent, ConfigCurrent, Answering, Current
  <1>4. CASE BeginReload
    BY <1>2, <1>3, <1>4 DEF BeginReload, caches, DrainedInv, Kept, MayChange, Waiting
  <1>5. CASE ReloadResolver
    BY <1>2, <1>3, <1>5, EmptyServes DEF ReloadResolver, DrainedInv, Kept
  <1>6. CASE ReloadPolicy
    BY <1>2, <1>3, <1>6, EmptyServes DEF ReloadPolicy, DrainedInv, Kept
  <1>7. CASE ReloadConfig
    BY <1>2, <1>3, <1>7, EmptyServes DEF ReloadConfig, DrainedInv, Kept
  <1>8. CASE Preflight
    BY <1>2, <1>3, <1>8 DEF Preflight, caches, DrainedInv, Kept
  <1>9. CASE ClearCaches
    BY <1>2, <1>3, <1>9, EmptyServes DEF ClearCaches, DrainedInv, Kept
  <1> QED BY <1>4, <1>5, <1>6, <1>7, <1>8, <1>9 DEF Reload

LEMMA TickServes ==
    ASSUME Inv, DrainedInv, Drained, Tick PROVE DrainedInv'
  <1>1. UNCHANGED <<pointer, disk, policy, config, reload, dirty>>
    BY DEF Tick
  <1>2. resolver'.held = resolver.held /\ resolver'.bundle = resolver.bundle
    <2>1. resolver = NoEntry \/ resolver \in [held : {TRUE}, bundle : BundleOrNone, age : Age]
      BY DEF Inv, TypeOK, ResolverEntry
    <2> QED BY <2>1 DEF Tick, NoEntry
  <1>3. ASSUME NEW r \in Requests
        PROVE  /\ req'[r].stage = req[r].stage /\ req'[r].pc = req[r].pc
               /\ req'[r].found = req[r].found /\ req'[r].pol = req[r].pol
               /\ req'[r].cfg = req[r].cfg /\ req'[r].audit = req[r].audit
    <2>1. req[r] \in Request
      BY DEF Inv, TypeOK
    <2>2. req'[r] = IF req[r].pc \in {"read", "check"}
                    THEN [req[r] EXCEPT !.at = Older(@)] ELSE req[r]
      BY DEF Tick
    <2> QED BY <2>1, <2>2 DEF Request
  <1>4. /\ ResolverCurrent' = ResolverCurrent /\ PolicyCurrent' = PolicyCurrent
        /\ ConfigCurrent' = ConfigCurrent
    BY <1>1, <1>2 DEF ResolverCurrent, PolicyCurrent, ConfigCurrent, Answering, Current
  <1>5. ASSUME NEW r \in Requests
        PROVE  IF req'[r].stage = "idle" THEN req'[r].pc = "end" ELSE (Progress(req[r]))'
    BY <1>1, <1>3 DEF DrainedInv, Progress, Answering, Current
  <1>6. Waiting => Waiting'
    BY <1>3 DEF Waiting
  <1> QED BY <1>1, <1>4, <1>5, <1>6 DEF DrainedInv, Kept

LEMMA DrainedInit == Init => DrainedInv
  BY DEF Init, DrainedInv, Drained, Waiting, Kept, ResolverCurrent, PolicyCurrent,
         ConfigCurrent, NoEntry, NoPolicy, NoConfig, Idle

LEMMA DrainedNext == Inv /\ DrainedInv /\ [Next]_vars => DrainedInv'
  <1> SUFFICES ASSUME Inv, DrainedInv, [Next]_vars, Drained' PROVE DrainedInv'
    BY DEF DrainedInv
  <1>d. Drained
    <2>1. ASSUME NEW b \in Bundles, Switch(b) \/ RemoveDir(b) \/ MoveIn(b) PROVE Drained
      BY <2>1 DEF Drained, Switch, RemoveDir, MoveIn, Touched
    <2>2. CASE Reload
      BY <2>2 DEF Drained, Reload, BeginReload, ReloadResolver, ReloadPolicy, ReloadConfig,
                  Preflight, ClearCaches
    <2>3. ASSUME NEW r \in Requests, Infer(r) PROVE dirty' = dirty
      BY <2>3 DEF Infer, Begin, GetConfig, CheckReady, Resolve, ReadPointer, CheckPath,
                  LoadConfig, InsertConfig, LoadPolicy, InsertPolicy, Finish
    <2> QED BY <2>1, <2>2, <2>3 DEF Drained, Next, Ops, Tick, vars
  <1>1. ASSUME NEW b \in Bundles, Switch(b) PROVE DrainedInv'
    <2>1. \A r \in Requests : req'[r].stage = req[r].stage /\ req'[r].pc = req[r].pc
      <3>1. \A r \in Requests : req[r] \in Request
        BY DEF Inv, TypeOK
      <3> QED BY <1>1, <3>1 DEF Switch, Request
    <2> QED BY <1>1, <1>d, <2>1, ChangeServes DEF Switch
  <1>2. ASSUME NEW b \in Bundles, RemoveDir(b) \/ MoveIn(b) PROVE DrainedInv'
    BY <1>2, <1>d, ChangeServes DEF RemoveDir, MoveIn
  <1>3. ASSUME NEW r \in Requests, Infer(r) PROVE DrainedInv'
    BY <1>3, <1>d, BeginServes, GetConfigServes, CheckReadyServes, ResolveServes,
       ReadPointerServes, CheckPathServes, LoadConfigServes, InsertConfigServes,
       LoadPolicyServes, InsertPolicyServes, FinishServes DEF Infer
  <1>4. CASE UNCHANGED vars
    BY <1>4 DEF vars, DrainedInv, Drained, Waiting, Kept, ResolverCurrent, PolicyCurrent,
                ConfigCurrent, Progress, Answering, Current
  <1> QED BY <1>1, <1>2, <1>3, <1>4, <1>d, ReloadServes, TickServes DEF Next, Ops

\* One reload is enough: where changes and reloads keep to the gaps between requests, an
\* answer is made from what the volume holds, policy and config alike, and recorded so.
THEOREM DrainedAnswersFromDisk == Spec => []DrainedServesDisk
  <1>1. Inv /\ DrainedInv => DrainedServesDisk
    <2> SUFFICES ASSUME Inv, DrainedInv, Drained, NEW r \in Requests, req[r].stage = "done"
                 PROVE  /\ req[r].pol = [bundle |-> pointer, version |-> disk[pointer]]
                        /\ req[r].cfg = [bundle |-> pointer, version |-> disk[pointer]]
                        /\ req[r].audit = pointer
      BY DEF DrainedServesDisk
    <2>1. Progress(req[r])
      BY AtWork
    <2> QED BY <2>1, VolumeFacts DEF Inv, Progress
  <1>2. Spec => []DrainedInv
    BY InvAlways, DrainedInit, DrainedNext, PTL DEF Spec
  <1> QED BY <1>1, <1>2, InvAlways, PTL
=============================================================================
