------------------------------- MODULE Launch -------------------------------
(***************************************************************************)
(* Service launch and lifecycle, kernel/arch/x86_64/launch.c, composed     *)
(* with the capability broker it drains and re-keys.                       *)
(*                                                                         *)
(* Boot binds the process records to their manifests in order              *)
(* (process64_bind_manifests); only then does syscall64_init bring up the  *)
(* broker.  After that the supervisor's quiesce, drain, restart and stop   *)
(* requests interleave with every broker operation.  The broker reads the  *)
(* runtime identity of a class out of the manifests, so its variable       *)
(* "runtime" is a function of "manifests" here.                            *)
(*                                                                         *)
(* A runtime token is a hash of the generation and of values fixed when    *)
(* the service starts, and both are compared together: the generation      *)
(* stands for the pair, and 0 for "no token".  Denial reasons, request     *)
(* records and counters are telemetry; of the request log only its length  *)
(* is ever read back.                                                      *)
(***************************************************************************)
EXTENDS Integers

CONSTANTS
    TableLimit, Principals, OwnerSystem, NoOwner, OwnerArgs, Classes, NoClass,
    Delegable, Personas, NoPersona, PersonaHosts, RightsArgs, LeaseTicks,
    TickSpace, MaxTick, MaxHandle,
    ManifestCount,     \* g_manifest_count, verified kernel-service manifests
    Bindable,          \* the manifests whose contract matches their process
    ServiceClassOf,    \* the endpoint class of a manifest's process record
    ClassNone,         \* SERVICE_ENDPOINT_CLASS_NONE, which telemetry serves
    RequestLimit,      \* LAUNCH64_REQUEST_LIMIT
    GenerationSpace    \* generations are u32: 0 .. GenerationSpace - 1

Manifests == 0 .. ManifestCount - 1

ASSUME LaunchAssumption ==
    /\ ManifestCount \in Nat
    /\ Bindable \subseteq Manifests
    /\ ServiceClassOf \in [Manifests -> Classes]
    /\ ClassNone \in Classes
    /\ RequestLimit \in Nat
    /\ GenerationSpace \in Nat \ {0, 1}

VARIABLES
    table, nextHandle, tick, persona,   \* the broker and what it reads
    manifests,                          \* g_manifests
    logCount,                           \* g_request_log_count
    bound                               \* process records bound so far

launchVars == <<manifests, logCount, bound>>
brokerVars == <<table, nextHandle, tick, persona>>
vars == <<brokerVars, launchVars>>

\* manifest_by_endpoint_class takes the first manifest whose launched class
\* matches.  A manifest that was never launched has class ClassNone.
ServesFirst(ms, m, c) == /\ ms[m].class = c
                         /\ \A k \in Manifests : k < m => ms[k].class # c

RuntimeOf(ms) ==
    [c \in Classes |->
       IF \E m \in Manifests : ServesFirst(ms, m, c)
       THEN ms[CHOOSE m \in Manifests : ServesFirst(ms, m, c)].generation
       ELSE 0]

Runtime == RuntimeOf(manifests)

Broker == INSTANCE Capability
            WITH runtime <- Runtime, MaxGeneration <- GenerationSpace - 1

ASSUME BrokerAssumption == Broker!CapabilityAssumption

-----------------------------------------------------------------------------
(* Starting services.                                                      *)

Init ==
    /\ table = [s \in Broker!Slots |-> Broker!Free]
    /\ nextHandle = 1
    /\ tick = 0
    /\ persona = [p \in Principals |-> NoPersona]
    /\ manifests = [m \in Manifests |-> [flags |-> {}, class |-> ClassNone,
                                         generation |-> 0, imageGeneration |-> 0]]
    /\ logCount = 0
    /\ bound = 0

Up == bound = ManifestCount

\* refresh_runtime_image: it stamps the image with the runtime generation and
\* drops the old plan first, so a failure leaves no image at all.
KeepOldImage(man, ok) ==
    [man EXCEPT !.imageGeneration = IF ok THEN man.generation ELSE @,
                !.flags = IF ok THEN @ \cup {"image"} ELSE @]

RefreshRuntimeImage(man, ok) ==
    [man EXCEPT !.imageGeneration = man.generation,
                !.flags = IF ok THEN @ \cup {"image"} ELSE @ \ {"image"}]

\* start_service: a failed image leaves the manifest ready, with its class
\* and its first generation set, and not started.
StartedManifest(man, c, ok) ==
    LET ready == [man EXCEPT !.flags = @ \cup {"ready"}, !.class = c, !.generation = 1]
        image == RefreshRuntimeImage(ready, ok)
    IN  [image EXCEPT !.flags = IF ok THEN @ \cup {"started"} ELSE @]

\* One turn of process64_bind_manifests: a record whose contract does not
\* match files no request.
BindManifest ==
    /\ ~Up
    /\ bound' = bound + 1
    /\ \/ /\ bound \in Bindable
          /\ logCount < RequestLimit
          /\ logCount' = logCount + 1
          /\ \E ok \in BOOLEAN : manifests' =
               [manifests EXCEPT ![bound] = StartedManifest(@, ServiceClassOf[bound], ok)]
       \/ /\ bound \notin Bindable \/ logCount >= RequestLimit
          /\ UNCHANGED <<manifests, logCount>>
    /\ UNCHANGED brokerVars

-----------------------------------------------------------------------------
(* Lifecycle requests.  A request enters the log before it is judged, and  *)
(* the log is never recycled: once it is full, every request is denied.    *)

Logged == Up /\ logCount < RequestLimit /\ logCount' = logCount + 1 /\ UNCHANGED bound

\* A request for an unknown manifest, from a principal other than the system
\* or the init supervisor, or for a service that is not started: only logged
\* (stop also leaves its mark, see RequestStop).
RequestRefused ==
    /\ Logged
    /\ UNCHANGED <<brokerVars, manifests>>

Started(m) == "started" \in manifests[m].flags

\* capability64_live_for_endpoint_class: the count, and the reaping it does.
LiveCapabilities(m) == Broker!LiveSlots(manifests[m].class)
CountReaps(m) == Broker!LiveForEndpointClass(manifests[m].class)

WithFlags(m, add, drop) ==
    manifests' = [manifests EXCEPT ![m].flags = (@ \ drop) \cup add]

RequestQuiesce(m) ==
    /\ Logged
    /\ Started(m)
    /\ \/ LiveCapabilities(m) = {} /\ WithFlags(m, {"quiesce_ready"}, {})
       \/ LiveCapabilities(m) # {} /\ WithFlags(m, {}, {"quiesce_ready"})
    /\ CountReaps(m)

\* The drain revokes every handle of the class; the count that follows finds
\* none left.
RequestDrain(m) ==
    /\ Logged
    /\ Started(m)
    /\ WithFlags(m, {"drained"}, {})
    /\ Broker!RevokeEndpointClass(manifests[m].class)

NextGeneration(g) == IF (g + 1) % GenerationSpace = 0 THEN 1 ELSE g + 1

\* A failed image leaves the new generation and both flags in place.
RestartedManifest(man, ok) ==
    LET image == RefreshRuntimeImage(
                   [man EXCEPT !.generation = NextGeneration(@)], ok)
    IN  [image EXCEPT !.flags = IF ok THEN @ \ {"drained", "quiesce_ready"} ELSE @]

\* Restart counts the live handles itself: quiesce_ready may be out of date.
RestartTrustsQuiesce(m) ==
    LiveCapabilities(m) # {} /\ "quiesce_ready" \notin manifests[m].flags
RestartBlocked(m) == LiveCapabilities(m) # {}

RequestRestart(m) ==
    /\ Logged
    /\ Started(m)
    /\ \/ /\ RestartBlocked(m)
          /\ WithFlags(m, {}, {"drained", "quiesce_ready"})
       \/ /\ ~RestartBlocked(m)
          /\ "quiesce_ready" \notin manifests[m].flags
          /\ UNCHANGED manifests
       \/ /\ ~RestartBlocked(m)
          /\ "quiesce_ready" \in manifests[m].flags
          /\ \E ok \in BOOLEAN :
               manifests' = [manifests EXCEPT ![m] = RestartedManifest(@, ok)]
    /\ table' = Broker!Cleared(Broker!ExpiredSlots)
    /\ UNCHANGED <<nextHandle, tick, persona>>

\* Sealed services cannot be stopped: the request is denied either way.
RequestStop(m) ==
    /\ Logged
    /\ WithFlags(m, {"stop_denied"}, {})
    /\ UNCHANGED brokerVars

-----------------------------------------------------------------------------
BrokerStep ==
    /\ Up
    /\ UNCHANGED launchVars
    /\ Broker!BrokerNext

ClockStep ==
    /\ UNCHANGED launchVars
    /\ Broker!Tick

Next ==
    \/ BindManifest
    \/ RequestRefused
    \/ \E m \in Manifests : \/ RequestQuiesce(m)
                            \/ RequestDrain(m)
                            \/ RequestRestart(m)
                            \/ RequestStop(m)
    \/ BrokerStep
    \/ ClockStep

Spec == Init /\ [][Next]_vars

-----------------------------------------------------------------------------
(* Properties.                                                             *)

\* The drain protocol leaves nothing stale behind: an active handle that is
\* bound to a runtime is bound to the current one, whatever grants slip in
\* between quiesce and restart, and also when the generation wraps to a value
\* an old handle could carry.
HandlesNeverStale ==
    \A s \in Broker!Slots :
        Broker!Active(s) => Broker!RecordRuntimeIsCurrent(table[s])

\* A delegated handle never survives its parent: revocation and drain
\* cascade, and the one path that clears a parent alone (a stale runtime) is
\* never taken.
NoOrphans ==
    \A s \in Broker!Slots : Broker!Active(s) /\ table[s].parent # 0 =>
        \E p \in Broker!Slots : Broker!Active(p) /\ table[p].handle = table[s].parent

\* An installed runtime image belongs to the generation that handles are
\* bound to: neither a failed start nor a failed restart leaves the previous
\* generation's image in place.
ImageMatchesGeneration ==
    \A m \in Manifests : "image" \in manifests[m].flags =>
        manifests[m].imageGeneration = manifests[m].generation

\* With restarts and wrapping generations included, no handle is revived or
\* retargeted once it is dead.
HandlesStayDead == Broker!DeadHandlesStayDead
=============================================================================
