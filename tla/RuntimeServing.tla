--------------------------- MODULE RuntimeServing ---------------------------
(***************************************************************************)
(* How ai-runtime serves one area while ai-ops swaps the area's bundle:    *)
(* the TTL cache of runtime/bundle_resolver.py, the policy cache of        *)
(* services/model_manager.py, the config cache of                          *)
(* preprocessing/intersection_registry.py, the hot reload of               *)
(* runtime/api.py that clears them, and the inference requests of          *)
(* services/ai_service.py that fill and read them from a thread pool.      *)
(*                                                                         *)
(* ai-ops appears by its effect on the shared volume: active.json names    *)
(* another bundle, a bundle directory is removed and moved in with new     *)
(* contents (see BundleLifecycle).  There is no legacy layout: without a   *)
(* bundle a policy is not found.                                           *)
(*                                                                         *)
(* Time is kept as ages that Tick increases up to Horizon, so that the     *)
(* model needs no clock.                                                   *)
(***************************************************************************)
EXTENDS Integers, FiniteSets

CONSTANTS
    Bundles,
    NoBundle,
    Requests,     \* inference requests under way at once
    TTL,          \* active_pointer_ttl_seconds, in ticks
    Horizon,      \* bound: ages above it are not told apart
    MaxWrites     \* bound: times a bundle directory is moved in

ASSUME ServingAssumption ==
    /\ NoBundle \notin Bundles
    /\ TTL \in Nat
    /\ Horizon \in Nat /\ TTL <= Horizon
    /\ MaxWrites \in Nat

VARIABLES
    pointer,      \* bundle named by active.json
    disk,         \* contents of each bundle directory; 0: no directory
    written,      \* directories moved in so far: each has contents of its own
    unnamed,      \* how long ago active.json last named a bundle (a history)
    resolver,     \* bundle_resolver._cache of the area
    policy,       \* model_manager._cache: contents loaded per bundle, 0: none
    config,       \* intersection_registry._cache of a cross of the area
    req,          \* the local state of each inference request
    reload,       \* the step a reload takes next
    dirty         \* Drained or not, and whether something changed since the last reload

vars == <<pointer, disk, written, unnamed, resolver, policy, config,
          req, reload, dirty>>

store == <<pointer, disk, written, unnamed>>
caches == <<resolver, policy, config>>
-----------------------------------------------------------------------------
BundleOrNone == Bundles \cup {NoBundle}
Age == 0..Horizon
Never == Horizon + 1

\* A bundle at some contents, as a loaded policy or a loaded config.
Loaded == [bundle : BundleOrNone, version : Nat]
Nothing == [bundle |-> NoBundle, version |-> 0]

\* A cache entry, or the absence of one.
NoEntry == [held |-> FALSE, bundle |-> NoBundle, age |-> 0]
ResolverEntry == {NoEntry} \cup [held : {TRUE}, bundle : BundleOrNone, age : Age]
NoConfig == [held |-> FALSE, value |-> Nothing]
ConfigEntry == {NoConfig} \cup [held : {TRUE}, value : Loaded]

(***************************************************************************)
(* A request looks up the config ("hydrate"), is admitted ("ready"), loads *)
(* the policy, looks up the config again to map actions to stages ("map")  *)
(* and loads the policy again for its audit row.  at is the age of the now *)
(* that its resolver call took; settled says that active.json has not      *)
(* changed since TTL before the request began.                             *)
(***************************************************************************)
Request ==
    [stage : {"idle", "hydrate", "ready", "policy", "map", "audit", "done"},
     pc : {"get", "resolve", "read", "check", "load", "insert", "end"},
     settled : BOOLEAN,
     at : Age,
     found : Loaded,
     pol : Loaded,
     cfg : Loaded,
     audit : BundleOrNone]

Idle ==
    [stage |-> "idle", pc |-> "end", settled |-> FALSE, at |-> 0, found |-> Nothing,
     pol |-> Nothing, cfg |-> Nothing, audit |-> NoBundle]

NoPolicy == [b \in Bundles |-> 0]

Init ==
    /\ pointer = NoBundle
    /\ disk = [b \in Bundles |-> 0]
    /\ written = 0
    /\ unnamed = [b \in Bundles |-> Never]
    /\ resolver = NoEntry
    /\ policy = NoPolicy
    /\ config = NoConfig
    /\ req = [r \in Requests |-> Idle]
    /\ reload = "idle"
    /\ dirty \in {"free", "clean"}
-----------------------------------------------------------------------------
(***************************************************************************)
(* ai-ops and time.                                                        *)
(***************************************************************************)

\* An area is run in one of two ways: bundles change and the reload runs at any time
\* ("free"), or only between requests, which then wait for the reload.
Drained == dirty # "free"

Touched == IF Drained THEN "dirty" ELSE dirty

MayChange ==
    Drained => reload = "idle" /\ \A r \in Requests : req[r].stage = "idle"

\* active.json is replaced.
Switch(b) ==
    /\ MayChange
    /\ disk[b] # 0
    /\ pointer # b
    /\ pointer' = b
    /\ unnamed' = [x \in Bundles |-> IF x = pointer THEN 0 ELSE unnamed[x]]
    /\ req' = [r \in Requests |-> [req[r] EXCEPT !.settled = FALSE]]
    /\ dirty' = Touched
    /\ UNCHANGED <<disk, written, caches, reload>>

\* A pull of b: rmtree, then move.
RemoveDir(b) ==
    /\ MayChange
    /\ written < MaxWrites
    /\ disk[b] # 0
    /\ disk' = [disk EXCEPT ![b] = 0]
    /\ dirty' = Touched
    /\ UNCHANGED <<pointer, written, unnamed, caches, req, reload>>

MoveIn(b) ==
    /\ MayChange
    /\ disk[b] = 0
    /\ written < MaxWrites
    /\ written' = written + 1
    /\ disk' = [disk EXCEPT ![b] = written + 1]
    /\ dirty' = Touched
    /\ UNCHANGED <<pointer, unnamed, caches, req, reload>>

Older(a) == IF a < Horizon THEN a + 1 ELSE a

Tick ==
    /\ unnamed' = [b \in Bundles |->
                      IF b = pointer THEN unnamed[b] ELSE Older(unnamed[b])]
    /\ resolver' = [resolver EXCEPT !.age = IF resolver.held THEN Older(@) ELSE @]
    /\ req' = [r \in Requests |->
                  IF req[r].pc \in {"read", "check"}
                  THEN [req[r] EXCEPT !.at = Older(@)] ELSE req[r]]
    /\ UNCHANGED <<pointer, disk, written, policy, config, reload, dirty>>
-----------------------------------------------------------------------------
(***************************************************************************)
(* reload_network: clear the three caches, then run the preflight.         *)
(***************************************************************************)

\* A notification of ai-ops arrives; any number of them may be lost.
BeginReload ==
    /\ MayChange
    /\ reload = "idle"
    /\ reload' = "resolver"
    /\ UNCHANGED <<store, caches, req, dirty>>

BugEntryKept ==
    /\ reload = "resolver"
    /\ resolver' = [resolver EXCEPT !.held = FALSE]
    /\ reload' = "policy"
    /\ UNCHANGED <<store, policy, config, req, dirty>>

ReloadResolver ==
    /\ reload = "resolver"
    /\ resolver' = NoEntry
    /\ reload' = "policy"
    /\ UNCHANGED <<store, policy, config, req, dirty>>

BugPolicyKept ==
    /\ reload = "policy"
    /\ reload' = "config"
    /\ UNCHANGED <<store, caches, req, dirty>>

ReloadPolicy ==
    /\ reload = "policy"
    /\ policy' = NoPolicy
    /\ reload' = "config"
    /\ UNCHANGED <<store, resolver, config, req, dirty>>

ReloadConfig ==
    /\ reload = "config"
    /\ config' = NoConfig
    /\ reload' = "preflight"
    /\ UNCHANGED <<store, resolver, policy, req, dirty>>

\* The preflight only reads.  Its verdict goes to the caller: after a failure the
\* caches are as empty, and the bundle is as much in service, as after a success.
Preflight ==
    /\ reload = "preflight"
    /\ reload' = "idle"
    /\ dirty' = IF Drained THEN "clean" ELSE dirty
    /\ UNCHANGED <<store, caches, req>>

\* POST /api/algorithm/ai/cache/clear leaves the resolver alone.
ClearCaches ==
    /\ config' = NoConfig
    /\ policy' = NoPolicy
    /\ UNCHANGED <<store, resolver, req, reload, dirty>>
-----------------------------------------------------------------------------
(***************************************************************************)
(* Inference requests.                                                     *)
(***************************************************************************)

Goto(r, stage, pc) == [req[r] EXCEPT !.stage = stage, !.pc = pc, !.found = Nothing]

Raise(r) == req' = [req EXCEPT ![r] = Idle]

Begin(r) ==
    /\ req[r].stage = "idle"
    /\ Drained => reload = "idle" /\ dirty = "clean"
    /\ req' = [req EXCEPT ![r] =
                 [Goto(r, "hydrate", "get") EXCEPT
                    !.settled = \A b \in Bundles \ {pointer} : unnamed[b] >= TTL]]
    /\ UNCHANGED <<store, caches, reload, dirty>>

\* What get_config returns ends the stage that asked for it.
WithConfig(r, value) ==
    req' = [req EXCEPT ![r] =
        IF req[r].stage = "hydrate" THEN Goto(r, "ready", "get")
        ELSE [Goto(r, "audit", "resolve") EXCEPT !.cfg = value]]

\* get_config; the cache has no TTL.
GetConfig(r) ==
    /\ req[r].pc = "get"
    /\ req[r].stage \in {"hydrate", "map"}
    /\ IF config.held THEN WithConfig(r, config.value)
       ELSE req' = [req EXCEPT ![r].pc = "resolve"]
    /\ UNCHANGED <<store, caches, reload, dirty>>

\* check_area reads active.json and the directory, through no cache.
CheckReady(r) ==
    /\ req[r].stage = "ready"
    /\ IF pointer # NoBundle /\ disk[pointer] # 0
       THEN req' = [req EXCEPT ![r] = Goto(r, "policy", "resolve")]
       ELSE Raise(r)
    /\ UNCHANGED <<store, caches, reload, dirty>>

BugNoExpiry(r) ==
    /\ req[r].pc = "resolve"
    /\ req' = [req EXCEPT ![r] =
                 IF resolver.held
                 THEN [@ EXCEPT !.pc = "load", !.found = [Nothing EXCEPT !.bundle = resolver.bundle]]
                 ELSE [@ EXCEPT !.pc = "read", !.at = 0]]
    /\ UNCHANGED <<store, caches, reload, dirty>>

\* resolve_active_bundle_for_area takes its time stamp before it reads anything.
Resolve(r) ==
    /\ req[r].pc = "resolve"
    /\ req' = [req EXCEPT ![r] =
                 IF resolver.held /\ resolver.age < TTL
                 THEN [@ EXCEPT !.pc = "load", !.found = [Nothing EXCEPT !.bundle = resolver.bundle]]
                 ELSE [@ EXCEPT !.pc = "read", !.at = 0]]
    /\ UNCHANGED <<store, caches, reload, dirty>>

\* The entry is stored with the time stamp, whatever happened since.
Remember(r, b) ==
    /\ resolver' = [held |-> TRUE, bundle |-> b, age |-> req[r].at]
    /\ req' = [req EXCEPT ![r].pc = "load", ![r].at = 0,
                          ![r].found = [Nothing EXCEPT !.bundle = b]]

ReadPointer(r) ==
    /\ req[r].pc = "read"
    /\ IF pointer = NoBundle THEN Remember(r, NoBundle)
       ELSE /\ req' = [req EXCEPT ![r].pc = "check",
                                  ![r].found = [Nothing EXCEPT !.bundle = pointer]]
            /\ UNCHANGED resolver
    /\ UNCHANGED <<store, policy, config, reload, dirty>>

BugStampedLate(r) ==
    /\ req[r].pc = "check"
    /\ resolver' = [held |-> TRUE, age |-> 0,
                    bundle |-> IF disk[req[r].found.bundle] # 0
                               THEN req[r].found.bundle ELSE NoBundle]
    /\ req' = [req EXCEPT ![r].pc = "load", ![r].at = 0,
                          ![r].found.bundle = resolver'.bundle]
    /\ UNCHANGED <<store, policy, config, reload, dirty>>

CheckPath(r) ==
    /\ req[r].pc = "check"
    /\ Remember(r, IF disk[req[r].found.bundle] # 0 THEN req[r].found.bundle ELSE NoBundle)
    /\ UNCHANGED <<store, policy, config, reload, dirty>>

\* Without the file of the bundle, the config comes from the other sources.
LoadConfig(r) ==
    /\ req[r].pc = "load"
    /\ req[r].stage \in {"hydrate", "map"}
    /\ LET b == req[r].found.bundle IN
       req' = [req EXCEPT ![r].pc = "insert",
                          ![r].found = IF b = NoBundle \/ disk[b] = 0 THEN Nothing
                                       ELSE [bundle |-> b, version |-> disk[b]]]
    /\ UNCHANGED <<store, caches, reload, dirty>>

InsertConfig(r) ==
    /\ req[r].pc = "insert"
    /\ req[r].stage \in {"hydrate", "map"}
    /\ config' = [held |-> TRUE, value |-> req[r].found]
    /\ WithConfig(r, req[r].found)
    /\ UNCHANGED <<store, resolver, policy, reload, dirty>>

\* What load_policy returns ends the stage that asked for it.
WithPolicy(r, loaded) ==
    req' = [req EXCEPT ![r] =
        IF req[r].stage = "policy" THEN [Goto(r, "map", "get") EXCEPT !.pol = loaded]
        ELSE [Goto(r, "done", "end") EXCEPT !.audit = loaded.bundle]]

\* load_policy up to the creation of the ONNX session.
LoadPolicy(r) ==
    /\ req[r].pc = "load"
    /\ req[r].stage \in {"policy", "audit"}
    /\ LET b == req[r].found.bundle IN
       IF b = NoBundle THEN Raise(r)
       ELSE IF policy[b] # 0 THEN WithPolicy(r, [bundle |-> b, version |-> policy[b]])
       ELSE IF disk[b] = 0 THEN Raise(r)
       ELSE req' = [req EXCEPT ![r].pc = "insert", ![r].found.version = disk[b]]
    /\ UNCHANGED <<store, caches, reload, dirty>>

BugKeepOthers(r) ==
    /\ req[r].pc = "insert"
    /\ req[r].stage \in {"policy", "audit"}
    /\ policy' = [policy EXCEPT ![req[r].found.bundle] = req[r].found.version]
    /\ WithPolicy(r, req[r].found)
    /\ UNCHANGED <<store, resolver, config, reload, dirty>>

\* Under the lock: the area's other entries go, this one comes.
InsertPolicy(r) ==
    /\ req[r].pc = "insert"
    /\ req[r].stage \in {"policy", "audit"}
    /\ policy' = [NoPolicy EXCEPT ![req[r].found.bundle] = req[r].found.version]
    /\ WithPolicy(r, req[r].found)
    /\ UNCHANGED <<store, resolver, config, reload, dirty>>

Finish(r) ==
    /\ req[r].stage = "done"
    /\ req' = [req EXCEPT ![r] = Idle]
    /\ UNCHANGED <<store, caches, reload, dirty>>
-----------------------------------------------------------------------------
Infer(r) ==
    \/ Begin(r)
    \/ GetConfig(r)
    \/ CheckReady(r)
    \/ Resolve(r)
    \/ ReadPointer(r)
    \/ CheckPath(r)
    \/ LoadConfig(r)
    \/ InsertConfig(r)
    \/ LoadPolicy(r)
    \/ InsertPolicy(r)
    \/ Finish(r)

Reload ==
    \/ BeginReload
    \/ ReloadResolver
    \/ ReloadPolicy
    \/ ReloadConfig
    \/ Preflight
    \/ ClearCaches

Ops ==
    \E b \in Bundles : Switch(b) \/ RemoveDir(b) \/ MoveIn(b)

Next ==
    \/ Ops
    \/ Reload
    \/ \E r \in Requests : Infer(r)
    \/ Tick

Spec == Init /\ [][Next]_vars
-----------------------------------------------------------------------------
(***************************************************************************)
(* Properties.                                                             *)
(***************************************************************************)

TypeOK ==
    /\ pointer \in BundleOrNone
    /\ disk \in [Bundles -> Nat]
    /\ written \in Nat
    /\ unnamed \in [Bundles -> Age \cup {Never}]
    /\ resolver \in ResolverEntry
    /\ policy \in [Bundles -> Nat]
    /\ config \in ConfigEntry
    /\ req \in [Requests -> Request]
    /\ reload \in {"idle", "resolver", "policy", "config", "preflight"}
    /\ dirty \in {"free", "clean", "dirty"}

\* The resolver forgets in time: an entry never names a bundle that active.json
\* had stopped naming before the entry's own time stamp, so that an unexpired one
\* is at most TTL out of date, even when a slow reader stores it after a switch
\* or after the reload's invalidation.
StaleOnlyWithinTTL ==
    resolver.held /\ resolver.bundle \notin {NoBundle, pointer}
        => unnamed[resolver.bundle] <= resolver.age

\* A switch takes hold without any notification: a request that began more than
\* TTL after the last change of active.json is answered by the active bundle,
\* and the audit row, which looks the bundle up again, names the same.
SettledServesActive ==
    \A r \in Requests :
        /\ req[r].stage = "done"
        /\ req[r].settled
        => req[r].pol.bundle = pointer /\ req[r].audit = pointer

\* The same of the config that maps the policy's actions to signal stages.
SettledMapsActive ==
    \A r \in Requests :
        /\ req[r].stage = "done"
        /\ req[r].settled
        /\ disk[pointer] # 0
        => req[r].cfg.bundle = pointer

\* Loading another bundle's policy unloads the one before: the cache of an area
\* does not grow with its switches.
OnePolicyPerArea == Cardinality({b \in Bundles : policy[b] # 0}) <= 1

\* When changes and the reload are kept apart from requests, one reload is enough
\* for an answer to be made from what is on disk now, policy and config alike.
DrainedServesDisk ==
    \A r \in Requests :
        Drained /\ req[r].stage = "done" =>
            LET now == [bundle |-> pointer, version |-> disk[pointer]] IN
            req[r].pol = now /\ req[r].cfg = now /\ req[r].audit = pointer
=============================================================================
