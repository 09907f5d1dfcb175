---------------------------- MODULE LaunchProofs ----------------------------
(***************************************************************************)
(* Proofs about service launch composed with the capability broker, for    *)
(* every number of services, every size of the capability table and every  *)
(* width of the generation counter.                                        *)
(*                                                                         *)
(* The broker's inductive invariant holds of the composition too, with the *)
(* generations read out of the manifests: a generation that wraps would    *)
(* break it, but a restart finds no handle of its class.  So every broker  *)
(* operation is covered by the broker's own lemma, and what remains are    *)
(* the requests of launch.c.                                               *)
(***************************************************************************)
EXTENDS Launch, TLAPS

BP == INSTANCE CapabilityProofs
        WITH runtime <- Runtime, MaxGeneration <- GenerationSpace - 1

Flags == {"ready", "started", "image", "quiesce_ready", "drained", "stop_denied"}

Generations == 0 .. GenerationSpace - 1

Manifest == [flags : SUBSET Flags, class : Classes,
             generation : Generations, imageGeneration : Generations]

\* Before the last process record is bound the broker has no handles.
EmptyUntilUp == ~Up => \A s \in Broker!Slots : ~Broker!Active(s)

\* The inductive invariant.
LInv == /\ manifests \in [Manifests -> Manifest]
        /\ bound \in 0 .. ManifestCount
        /\ BP!IInv
        /\ EmptyUntilUp
        /\ HandlesNeverStale
        /\ NoOrphans
        /\ ImageMatchesGeneration

-----------------------------------------------------------------------------
(* The runtime generations the broker reads.                               *)

\* manifest_by_endpoint_class finds one manifest for a class, or none.
LEMMA RuntimeValue ==
  ASSUME NEW ms, NEW c \in Classes
  PROVE  /\ \A m \in Manifests : ServesFirst(ms, m, c) =>
                                   RuntimeOf(ms)[c] = ms[m].generation
         /\ (\A m \in Manifests : ~ServesFirst(ms, m, c)) => RuntimeOf(ms)[c] = 0
  <1>1. ASSUME NEW m \in Manifests, NEW k \in Manifests,
               ServesFirst(ms, m, c), ServesFirst(ms, k, c)
        PROVE  m = k
    BY <1>1, LaunchAssumption DEF ServesFirst, Manifests
  <1> QED
    BY <1>1 DEF RuntimeOf

\* Hence its generation is one of those the manifests hold.
LEMMA RuntimeType ==
  ASSUME NEW ms \in [Manifests -> Manifest]
  PROVE  RuntimeOf(ms) \in [Classes -> Generations]
  <1>1. ASSUME NEW c \in Classes
        PROVE  RuntimeOf(ms)[c] \in Generations
    <2>1. 0 \in Generations
      BY LaunchAssumption DEF Generations
    <2>2. \A m \in Manifests : ms[m].generation \in Generations
      BY DEF Manifest
    <2> QED
      BY <2>1, <2>2, RuntimeValue
  <1> QED
    BY <1>1 DEF RuntimeOf

\* A step that leaves the classes alone and the generations of the manifests
\* that serve c leaves the runtime of c alone.
LEMMA RuntimeKept ==
  ASSUME NEW ms, NEW ns, NEW c \in Classes,
         \A m \in Manifests : ns[m].class = ms[m].class,
         \A m \in Manifests : ms[m].class = c => ns[m].generation = ms[m].generation
  PROVE  RuntimeOf(ns)[c] = RuntimeOf(ms)[c]
  <1>1. \A m \in Manifests : ServesFirst(ns, m, c) <=> ServesFirst(ms, m, c)
    BY DEF ServesFirst
  <1>2. \A m \in Manifests : ServesFirst(ms, m, c) => ns[m].generation = ms[m].generation
    BY DEF ServesFirst
  <1> QED
    BY <1>1, <1>2, RuntimeValue

\* In particular a step that changes only flags changes no runtime.
LEMMA RuntimeSame ==
  ASSUME NEW ms, NEW ns,
         \A m \in Manifests : /\ ns[m].class = ms[m].class
                              /\ ns[m].generation = ms[m].generation
  PROVE  RuntimeOf(ns) = RuntimeOf(ms)
  <1>1. \A c \in Classes : RuntimeOf(ns)[c] = RuntimeOf(ms)[c]
    BY RuntimeKept
  <1> QED
    BY <1>1 DEF RuntimeOf

-----------------------------------------------------------------------------
(* The broker as the proofs of Capability see it.                          *)

\* The two instances of the broker are the same.
LEMMA SameBroker ==
  /\ BP!Slots = Broker!Slots
  /\ \A s : BP!Active(s) <=> Broker!Active(s)
  /\ \A r : BP!RecordExpired(r) <=> Broker!RecordExpired(r)
  /\ \A r : BP!RecordRuntimeIsCurrent(r) <=> Broker!RecordRuntimeIsCurrent(r)
  /\ BP!ExpiredSlots = Broker!ExpiredSlots
  /\ \A S : BP!Cleared(S) = Broker!Cleared(S)
BY DEF BP!Slots, Broker!Slots, BP!Active, Broker!Active, BP!NoHandle, Broker!NoHandle,
   BP!RecordExpired, Broker!RecordExpired, BP!Permanent, Broker!Permanent,
   BP!RecordRuntimeIsCurrent, Broker!RecordRuntimeIsCurrent,
   BP!ExpiredSlots, Broker!ExpiredSlots, BP!Cleared, Broker!Cleared, BP!Free, Broker!Free

\* Written out, an operation of one is the same formula as that of the other.
LEMMA SameSteps == Broker!BrokerNext \/ Broker!Tick => BP!Next
BY DEF BP!Next, BP!BrokerNext, Broker!BrokerNext, BP!Tick, Broker!Tick,
   BP!GrantService, Broker!GrantService, BP!GrantServiceForProcess,
   Broker!GrantServiceForProcess, BP!GrantServiceTagged,
   Broker!GrantServiceTagged, BP!PrincipalIsValid, Broker!PrincipalIsValid,
   BP!NormalizeOwner, Broker!NormalizeOwner, BP!AllowedRights,
   Broker!AllowedRights, BP!TakeHandle, Broker!TakeHandle, BP!FindFree,
   Broker!FindFree, BP!Active, Broker!Active, BP!NoHandle, Broker!NoHandle,
   BP!Slots, Broker!Slots, BP!Permanent, Broker!Permanent, BP!BindRuntime,
   Broker!BindRuntime, BP!Delegate, Broker!Delegate, BP!DelegatePersistent,
   Broker!DelegatePersistent, BP!DelegateWithExpiry, Broker!DelegateWithExpiry,
   BP!LeaseExpiry, Broker!LeaseExpiry, BP!FindLive, Broker!FindLive,
   BP!FindLiveReaps, Broker!FindLiveReaps, BP!RecordExpired,
   Broker!RecordExpired, BP!DelegationAllowed, Broker!DelegationAllowed,
   BP!RecordIsOwnedBy, Broker!RecordIsOwnedBy, BP!RightsAttenuated,
   Broker!RightsAttenuated, BP!DelegatedRights, Broker!DelegatedRights,
   BP!RecordAllowsRecipientPersona, Broker!RecordAllowsRecipientPersona,
   BP!TableFull, Broker!TableFull, BP!Cleared, Broker!Cleared, BP!Free,
   Broker!Free, BP!Route, Broker!Route, BP!RouteAdmits, Broker!RouteAdmits,
   BP!RecordRuntimeIsCurrent, Broker!RecordRuntimeIsCurrent, BP!QueryRuntime,
   Broker!QueryRuntime, BP!QueryAdmits, Broker!QueryAdmits, BP!Query,
   Broker!Query, BP!Revoke, Broker!Revoke, BP!RevokedSlots, Broker!RevokedSlots,
   BP!Children, Broker!Children, BP!LiveForEndpointClass,
   Broker!LiveForEndpointClass, BP!ExpiredSlots, Broker!ExpiredSlots,
   BP!RevokeEndpointClass, Broker!RevokeEndpointClass, BP!LiveSlots,
   Broker!LiveSlots, BP!HandleArgs, Broker!HandleArgs

\* The broker's lemma on its steps, whose assumption on the constants is the
\* one made here.
LEMMA BrokerShape ==
  BP!IInv /\ [BP!Next]_BP!vars => BP!IInv' /\ (BP!ClearStep \/ BP!FillStep \/ BP!OutsideStep)
  <1>1. BP!CapabilityAssumption
    BY BrokerAssumption DEF BP!CapabilityAssumption, Broker!CapabilityAssumption
  <1> QED
    BY <1>1, BP!StepShape

\* What the broker's invariant says of two active records.
LEMMA BrokerFacts ==
  ASSUME BP!IInv
  PROVE  /\ \A s \in Broker!Slots : Broker!Active(s) =>
              /\ table[s].class \in Classes
              /\ table[s].generation \in Nat
              /\ table[s].handle < nextHandle
         /\ \A s \in Broker!Slots : table[s].handle \in Nat
         /\ \A s \in Broker!Slots : ~Broker!Active(s) => table[s] = Broker!Free
         /\ \A s, q \in Broker!Slots :
              /\ Broker!Active(s) /\ Broker!Active(q)
              /\ table[s].handle = table[q].handle
              => s = q
         /\ \A s, p \in Broker!Slots :
              /\ Broker!Active(s) /\ Broker!Active(p)
              /\ table[s].parent # 0 /\ table[p].handle = table[s].parent
              => ~Broker!RecordExpired(table[p])
  <1>1. \A s \in Broker!Slots :
          /\ Broker!Active(s) => table[s] \in BP!Record
          /\ ~Broker!Active(s) => table[s] = Broker!Free
          /\ table[s].handle \in Nat
    BY SameBroker DEF BP!IInv, BP!TypeOK, BP!Active, BP!Record, BP!Free, Broker!Free,
       BP!NoHandle, Broker!NoHandle, BP!Handles
  <1>2. \A s \in Broker!Slots : Broker!Active(s) =>
          /\ table[s].class \in Classes
          /\ table[s].generation \in Nat
    BY <1>1, LaunchAssumption DEF BP!Record
  <1>3. \A s \in Broker!Slots : Broker!Active(s) =>
          /\ table[s].handle < nextHandle
          /\ \A q \in Broker!Slots : Broker!Active(q)
                                      /\ table[q].handle = table[s].handle => q = s
    BY SameBroker DEF BP!IInv, BP!HandlesUnique
  <1>4. ASSUME NEW s \in Broker!Slots, NEW p \in Broker!Slots,
               Broker!Active(s), Broker!Active(p),
               table[s].parent # 0, table[p].handle = table[s].parent
        PROVE  ~Broker!RecordExpired(table[p])
    <2>1. "delegate" \in table[p].rights
      BY <1>4, SameBroker DEF BP!IInv, BP!DelegationAttenuates, BP!NoHandle
    <2>2. table[p].expiry = BP!Permanent
      BY <1>4, <2>1, SameBroker DEF BP!IInv, BP!DelegatorsPermanent
    <2> QED
      BY <2>2, SameBroker DEF BP!RecordExpired
  <1> QED
    BY <1>1, <1>2, <1>3, <1>4

\* A child without its parent is stale, so where nothing is stale there is
\* none.
LEMMA NoneStaleNoOrphans == BP!IInv /\ HandlesNeverStale => NoOrphans
  <1> SUFFICES ASSUME BP!IInv, HandlesNeverStale,
                      NEW s \in Broker!Slots, Broker!Active(s), table[s].parent # 0,
                      ~\E p \in Broker!Slots :
                          Broker!Active(p) /\ table[p].handle = table[s].parent
               PROVE  FALSE
    BY DEF NoOrphans
  <1>1. table[s].generation # 0 /\ table[s].generation < Runtime[table[s].class]
    BY SameBroker DEF BP!IInv, BP!OrphansStale, BP!ParentActive, BP!NoHandle
  <1>2. Runtime[table[s].class] = table[s].generation
    BY <1>1 DEF HandlesNeverStale, Broker!RecordRuntimeIsCurrent
  <1> QED
    BY <1>1, <1>2, BrokerFacts

-----------------------------------------------------------------------------
(* Operations of the broker, on their own or called by a request.          *)

\* Runtimes that do not move leave no handle stale and no child alone.
LEMMA BrokerKeeps ==
  ASSUME BP!IInv, HandlesNeverStale, NoOrphans, Runtime' = Runtime,
         [BP!Next]_BP!vars
  PROVE  BP!IInv' /\ HandlesNeverStale' /\ NoOrphans'
  <1>1. BP!IInv' /\ (BP!ClearStep \/ BP!FillStep \/ BP!OutsideStep)
    BY BrokerShape
  <1>2. HandlesNeverStale'
    <2>1. CASE BP!ClearStep
      BY <2>1, SameBroker DEF BP!ClearStep, HandlesNeverStale, Broker!Cleared,
         Broker!Active, Broker!Free, Broker!RecordRuntimeIsCurrent, Broker!Slots
    <2>2. CASE BP!FillStep
      BY <2>2, SameBroker DEF BP!FillStep, HandlesNeverStale,
         Broker!Active, Broker!RecordRuntimeIsCurrent, Broker!Slots
    <2>3. CASE BP!OutsideStep
      BY <2>3 DEF BP!OutsideStep, HandlesNeverStale,
         Broker!Active, Broker!RecordRuntimeIsCurrent
    <2> QED
      BY <1>1, <2>1, <2>2, <2>3
  <1>3. NoOrphans'
    BY <1>1, <1>2, NoneStaleNoOrphans, PTL
  <1> QED
    BY <1>1, <1>2, <1>3

\* The manifests keep their types, classes and generations, and images that
\* match, when a request only moves flags other than the image's.
LEMMA FlagsOnly ==
  ASSUME manifests \in [Manifests -> Manifest], ImageMatchesGeneration,
         NEW m \in Manifests, NEW add \in SUBSET (Flags \ {"image"}), NEW drop,
         WithFlags(m, add, drop)
  PROVE  /\ manifests' \in [Manifests -> Manifest]
         /\ Runtime' = Runtime
         /\ ImageMatchesGeneration'
  <1>1. manifests' = [manifests EXCEPT ![m].flags = (@ \ drop) \cup add]
    BY DEF WithFlags
  <1>2. manifests' \in [Manifests -> Manifest]
    BY <1>1 DEF Manifest
  <1>3. \A k \in Manifests : /\ manifests'[k].class = manifests[k].class
                             /\ manifests'[k].generation = manifests[k].generation
                             /\ manifests'[k].imageGeneration = manifests[k].imageGeneration
                             /\ "image" \in manifests'[k].flags => "image" \in manifests[k].flags
    BY <1>1 DEF Manifest
  <1>4. Runtime' = Runtime
    BY <1>3, RuntimeSame DEF Runtime
  <1> QED
    BY <1>2, <1>3, <1>4 DEF ImageMatchesGeneration

\* What RefreshRuntimeImage leaves is an image of the runtime generation or
\* none.
LEMMA RefreshedImage ==
  ASSUME NEW man \in Manifest, NEW ok \in BOOLEAN
  PROVE  /\ RefreshRuntimeImage(man, ok) \in Manifest
         /\ RefreshRuntimeImage(man, ok).class = man.class
         /\ RefreshRuntimeImage(man, ok).generation = man.generation
         /\ RefreshRuntimeImage(man, ok).imageGeneration = man.generation
BY DEF RefreshRuntimeImage, Manifest, Flags

\* start_service and restart_service set the generation and the image together.
LEMMA StartedImage ==
  ASSUME NEW man \in Manifest, NEW c \in Classes, NEW ok \in BOOLEAN
  PROVE  /\ StartedManifest(man, c, ok) \in Manifest
         /\ StartedManifest(man, c, ok).imageGeneration
              = StartedManifest(man, c, ok).generation
  <1> DEFINE ready == [man EXCEPT !.flags = @ \cup {"ready"}, !.class = c, !.generation = 1]
  <1>0. 1 \in Generations /\ man.flags \cup {"ready"} \in SUBSET Flags
    BY LaunchAssumption DEF Manifest, Flags, Generations
  <1>1. ready \in Manifest
    BY <1>0 DEF Manifest
  <1> HIDE DEF ready
  <1>2. StartedManifest(man, c, ok) =
          [RefreshRuntimeImage(ready, ok)
             EXCEPT !.flags = IF ok THEN @ \cup {"started"} ELSE @]
    BY DEF StartedManifest, ready
  <1> QED
    BY <1>1, <1>2, RefreshedImage DEF Manifest, Flags

LEMMA RestartedImage ==
  ASSUME NEW man \in Manifest, NEW ok \in BOOLEAN
  PROVE  /\ RestartedManifest(man, ok) \in Manifest
         /\ RestartedManifest(man, ok).class = man.class
         /\ RestartedManifest(man, ok).imageGeneration
              = RestartedManifest(man, ok).generation
  <1> DEFINE next == [man EXCEPT !.generation = NextGeneration(@)]
  <1>1. NextGeneration(man.generation) \in Generations
    BY LaunchAssumption DEF NextGeneration, Manifest, Generations
  <1>2. next \in Manifest /\ next.class = man.class
    BY <1>1 DEF Manifest
  <1> HIDE DEF next
  <1>3. RestartedManifest(man, ok) =
          [RefreshRuntimeImage(next, ok)
             EXCEPT !.flags = IF ok THEN @ \ {"drained", "quiesce_ready"} ELSE @]
    BY DEF RestartedManifest, next
  <1> QED
    BY <1>2, <1>3, RefreshedImage DEF Manifest, Flags

-----------------------------------------------------------------------------
(* The steps of launch.c.                                                  *)

\* The broker's invariant survives a change of the runtimes and a clearing of
\* expired records if nothing is stale or alone afterwards.
LEMMA ReapedUnderNewRuntime ==
  ASSUME BP!IInv, NEW S \in SUBSET Broker!Slots, table' = Broker!Cleared(S),
         UNCHANGED <<nextHandle, tick, persona>>,
         Runtime' \in [Classes -> Generations],
         HandlesNeverStale', NoOrphans'
  PROVE  BP!IInv'
  <1>1. \A s \in BP!Slots :
          /\ s \in S => table'[s] = BP!Free /\ ~BP!Active(s)'
          /\ s \notin S => table'[s] = table[s] /\ (BP!Active(s)' <=> BP!Active(s))
    BY SameBroker DEF BP!Cleared, BP!Active, BP!Free, BP!NoHandle
  <1>2. BP!TypeOK'
    BY <1>1, SameBroker DEF BP!IInv, BP!TypeOK, BP!Cleared, Generations
  <1>3. BP!HandlesUnique'
    BY <1>1 DEF BP!IInv, BP!HandlesUnique
  <1>4. BP!DelegationAttenuates'
    BY <1>1 DEF BP!IInv, BP!DelegationAttenuates
  <1>5. BP!DelegatorsPermanent'
    BY <1>1 DEF BP!IInv, BP!DelegatorsPermanent
  <1>6. BP!StampsReached'
    <2>1. \A s \in BP!Slots : BP!Active(s)' =>
            /\ table'[s].generation \in Nat
            /\ table'[s].class \in Classes
      BY <1>2, LaunchAssumption DEF BP!TypeOK, BP!Record, BP!Active, BP!Free, BP!NoHandle
    <2>2. \A s \in BP!Slots : BP!Active(s)' =>
            table'[s].generation = 0 \/ Runtime'[table'[s].class] = table'[s].generation
      BY DEF HandlesNeverStale, Broker!RecordRuntimeIsCurrent, Broker!Active, BP!Active,
         Broker!NoHandle, BP!NoHandle, BP!Slots, Broker!Slots
    <2>3. \A c \in Classes : Runtime'[c] \in Nat
      BY LaunchAssumption DEF Generations
    <2> QED
      BY <2>1, <2>2, <2>3 DEF BP!StampsReached
  <1>7. BP!OrphansStale'
    BY DEF BP!OrphansStale, BP!ParentActive, NoOrphans, Broker!Active, BP!Active,
       Broker!NoHandle, BP!NoHandle, BP!Slots, Broker!Slots
  <1> QED
    BY <1>2, <1>3, <1>4, <1>5, <1>6, <1>7 DEF BP!IInv

\* Binding a process record happens before there are any handles.
LEMMA BindKeeps ==
  ASSUME LInv, BindManifest
  PROVE  LInv'
  <1>1. /\ bound \in Manifests /\ bound' \in 0 .. ManifestCount
        /\ UNCHANGED <<table, nextHandle, tick, persona>>
    BY LaunchAssumption DEF LInv, BindManifest, Up, Manifests, brokerVars
  <1>2. /\ manifests' \in [Manifests -> Manifest]
        /\ ImageMatchesGeneration'
    <2>1. CASE UNCHANGED manifests
      BY <2>1 DEF LInv, ImageMatchesGeneration
    <2>2. ASSUME NEW ok \in BOOLEAN, manifests' =
               [manifests EXCEPT ![bound] = StartedManifest(@, ServiceClassOf[bound], ok)]
          PROVE  manifests' \in [Manifests -> Manifest] /\ ImageMatchesGeneration'
      <3>1. ServiceClassOf[bound] \in Classes /\ manifests[bound] \in Manifest
        BY <1>1, LaunchAssumption DEF LInv
      <3>2. PICK man \in Manifest : /\ man.imageGeneration = man.generation
                                    /\ manifests' = [manifests EXCEPT ![bound] = man]
        BY <2>2, <3>1, StartedImage
      <3> QED
        BY <3>2 DEF LInv, ImageMatchesGeneration
    <2> QED
      BY <2>1, <2>2 DEF BindManifest
  <1>3. \A s \in Broker!Slots : ~Broker!Active(s) /\ ~Broker!Active(s)'
    BY <1>1 DEF LInv, EmptyUntilUp, BindManifest, Broker!Active
  <1>4. HandlesNeverStale' /\ NoOrphans' /\ EmptyUntilUp'
    BY <1>3 DEF HandlesNeverStale, NoOrphans, EmptyUntilUp, Broker!Slots
  <1>5. table' = Broker!Cleared({})
    <2>1. table = [s \in BP!Slots |-> table[s]]
      BY DEF LInv, BP!IInv, BP!TypeOK
    <2> QED
      BY <1>1, <2>1, SameBroker DEF Broker!Cleared
  <1>6. Runtime' \in [Classes -> Generations]
    BY <1>2, RuntimeType DEF Runtime
  <1>7. BP!IInv'
    BY <1>1, <1>4, <1>5, <1>6, ReapedUnderNewRuntime DEF LInv
  <1> QED
    BY <1>1, <1>2, <1>4, <1>7 DEF LInv

\* A restart moves the runtime of its class only when that class has no live
\* handle, and it has reaped the expired ones.
LEMMA RestartKeeps ==
  ASSUME LInv, NEW m \in Manifests, RequestRestart(m)
  PROVE  /\ LInv'
         /\ \A s \in Broker!Slots : Broker!Active(s)' =>
              /\ Broker!Active(s) /\ table'[s] = table[s]
              /\ ~Broker!RecordExpired(table[s])
  <1>1. /\ table' = Broker!Cleared(Broker!ExpiredSlots)
        /\ UNCHANGED <<nextHandle, tick, persona, bound>> /\ Up
    BY DEF RequestRestart, Logged
  <1>2. ASSUME NEW s \in Broker!Slots
        PROVE  /\ Broker!Active(s)' <=> Broker!Active(s) /\ ~Broker!RecordExpired(table[s])
               /\ Broker!Active(s)' => table'[s] = table[s]
    BY <1>1 DEF Broker!Cleared, Broker!ExpiredSlots, Broker!Active, Broker!Free,
       Broker!NoHandle
  <1>3. \A k \in Manifests : manifests[k] \in Manifest
    BY DEF LInv
  <1>4. /\ manifests' \in [Manifests -> Manifest]
        /\ ImageMatchesGeneration'
        /\ \A c \in Classes :
             RestartBlocked(m) \/ c # manifests[m].class => Runtime'[c] = Runtime[c]
    <2>1. CASE WithFlags(m, {}, {"drained", "quiesce_ready"})
      BY <2>1, FlagsOnly DEF LInv
    <2>2. CASE UNCHANGED manifests
      BY <2>2 DEF LInv, ImageMatchesGeneration, Runtime
    <2>3. ASSUME NEW ok \in BOOLEAN, ~RestartBlocked(m),
                 manifests' = [manifests EXCEPT ![m] = RestartedManifest(@, ok)]
          PROVE  /\ manifests' \in [Manifests -> Manifest]
                 /\ ImageMatchesGeneration'
                 /\ \A c \in Classes : c # manifests[m].class => Runtime'[c] = Runtime[c]
      <3>1. PICK man \in Manifest : /\ man.imageGeneration = man.generation
                                    /\ man.class = manifests[m].class
                                    /\ manifests' = [manifests EXCEPT ![m] = man]
        BY <1>3, <2>3, RestartedImage
      <3>2. manifests' \in [Manifests -> Manifest] /\ ImageMatchesGeneration'
        BY <3>1 DEF LInv, ImageMatchesGeneration
      <3>3. \A k \in Manifests :
              /\ manifests'[k].class = manifests[k].class
              /\ k # m => manifests'[k].generation = manifests[k].generation
        BY <3>1 DEF LInv
      <3> QED
        BY <3>2, <3>3, RuntimeKept DEF Runtime
    <2> QED
      BY <2>1, <2>2, <2>3 DEF RequestRestart
  <1>5. HandlesNeverStale'
    <2> SUFFICES ASSUME NEW s \in Broker!Slots, Broker!Active(s)'
                 PROVE  \/ table'[s].generation = 0
                        \/ Runtime'[table'[s].class] = table'[s].generation
      BY DEF HandlesNeverStale, Broker!RecordRuntimeIsCurrent, Broker!Slots
    <2>1. /\ Broker!Active(s) /\ table'[s] = table[s]
          /\ ~Broker!RecordExpired(table[s]) /\ table[s].class \in Classes
      BY <1>2, BrokerFacts DEF LInv
    <2>2. RestartBlocked(m) \/ table[s].class # manifests[m].class
      BY <2>1 DEF RestartBlocked, LiveCapabilities, Broker!LiveSlots
    <2>3. Runtime'[table[s].class] = Runtime[table[s].class]
      BY <1>4, <2>1, <2>2
    <2> QED
      BY <2>1, <2>3 DEF LInv, HandlesNeverStale, Broker!RecordRuntimeIsCurrent
  <1>6. NoOrphans'
    <2> SUFFICES ASSUME NEW s \in Broker!Slots, Broker!Active(s)', table'[s].parent # 0
                 PROVE  \E p \in Broker!Slots :
                          Broker!Active(p)' /\ table'[p].handle = table'[s].parent
      BY DEF NoOrphans, Broker!Slots
    <2>1. Broker!Active(s) /\ table'[s] = table[s]
      BY <1>2
    <2>2. PICK p \in Broker!Slots : Broker!Active(p) /\ table[p].handle = table[s].parent
      BY <2>1 DEF LInv, NoOrphans
    <2>3. ~Broker!RecordExpired(table[p])
      BY <2>1, <2>2, BrokerFacts DEF LInv
    <2> QED
      BY <1>2, <2>1, <2>2, <2>3
  <1>7. Runtime' \in [Classes -> Generations]
    BY <1>4, RuntimeType DEF Runtime
  <1>8. BP!IInv'
    <2>1. Broker!ExpiredSlots \in SUBSET Broker!Slots
      BY DEF Broker!ExpiredSlots
    <2> QED
      BY <1>1, <1>5, <1>6, <1>7, <2>1, ReapedUnderNewRuntime DEF LInv
  <1>9. bound' \in 0 .. ManifestCount /\ EmptyUntilUp'
    BY <1>1 DEF LInv, EmptyUntilUp, Up
  <1> QED
    BY <1>2, <1>4, <1>5, <1>6, <1>8, <1>9 DEF LInv

\* Every other request is an operation of the broker, or none, on runtimes
\* that stay as they are.
LEMMA OtherSteps ==
  ASSUME LInv, NEW m,
         \/ RequestRefused
         \/ m \in Manifests /\ (RequestQuiesce(m) \/ RequestDrain(m) \/ RequestStop(m))
         \/ BrokerStep
         \/ ClockStep
         \/ UNCHANGED vars
  PROVE  /\ LInv'
         /\ Runtime' = Runtime
         /\ [BP!Next]_BP!vars
  <1>1. bound' = bound
    BY DEF RequestRefused, RequestQuiesce, RequestDrain, RequestStop, Logged, BrokerStep,
       ClockStep, vars, launchVars
  <1>2. /\ manifests' \in [Manifests -> Manifest]
        /\ Runtime' = Runtime
        /\ ImageMatchesGeneration'
    <2>1. CASE m \in Manifests /\ \E add \in SUBSET (Flags \ {"image"}), drop \in SUBSET Flags :
                 WithFlags(m, add, drop)
      BY <2>1, FlagsOnly DEF LInv
    <2>2. CASE UNCHANGED manifests
      BY <2>2 DEF LInv, ImageMatchesGeneration, Runtime
    <2>3. \/ UNCHANGED manifests
          \/ /\ m \in Manifests
             /\ \/ WithFlags(m, {"quiesce_ready"}, {}) \/ WithFlags(m, {}, {"quiesce_ready"})
                \/ WithFlags(m, {"drained"}, {}) \/ WithFlags(m, {"stop_denied"}, {})
      BY DEF RequestRefused, RequestQuiesce, RequestDrain, RequestStop, BrokerStep,
         ClockStep, vars, launchVars
    <2>4. /\ {} \in SUBSET Flags /\ {"quiesce_ready"} \in SUBSET Flags
          /\ {} \in SUBSET (Flags \ {"image"})
          /\ {"quiesce_ready"} \in SUBSET (Flags \ {"image"})
          /\ {"drained"} \in SUBSET (Flags \ {"image"})
          /\ {"stop_denied"} \in SUBSET (Flags \ {"image"})
      BY DEF Flags
    <2> QED
      BY <2>1, <2>2, <2>3, <2>4
  <1>3. [BP!Next]_BP!vars
    <2>1. CASE UNCHANGED brokerVars
      BY <1>2, <2>1 DEF BP!vars, brokerVars
    <2>2. CASE Broker!BrokerNext \/ Broker!Tick
      BY <2>2, SameSteps
    <2>3. \A c \in Classes : Broker!LiveForEndpointClass(c) \/ Broker!RevokeEndpointClass(c)
                               => Broker!BrokerNext
      BY DEF Broker!BrokerNext
    <2>4. m \in Manifests => manifests[m].class \in Classes
      BY DEF LInv, Manifest
    <2> QED
      BY <2>1, <2>2, <2>3, <2>4 DEF RequestRefused, RequestQuiesce, RequestDrain,
         RequestStop, BrokerStep, ClockStep, vars, CountReaps
  <1>4. BP!IInv' /\ HandlesNeverStale' /\ NoOrphans'
    BY <1>2, <1>3, BrokerKeeps DEF LInv
  <1>5. EmptyUntilUp'
    <2>1. CASE Up
      BY <1>1, <2>1 DEF EmptyUntilUp, Up
    <2>2. CASE ~Up
      <3>1. UNCHANGED table
        BY <2>2 DEF RequestRefused, RequestQuiesce, RequestDrain, RequestStop, Logged,
           BrokerStep, ClockStep, vars, brokerVars, Broker!Tick
      <3> QED
        BY <1>1, <3>1 DEF LInv, EmptyUntilUp, Up, Broker!Active, Broker!Slots
    <2> QED
      BY <2>1, <2>2
  <1> QED
    BY <1>1, <1>2, <1>3, <1>4, <1>5 DEF LInv

\* The initial state satisfies the invariant.
LEMMA InitLInv == Init => LInv
  <1> SUFFICES ASSUME Init PROVE LInv
    OBVIOUS
  <1>1. \A s \in Broker!Slots : ~Broker!Active(s)
    BY DEF Init, Broker!Active, Broker!Free, Broker!NoHandle
  <1>2. manifests \in [Manifests -> Manifest]
    <2>1. 0 \in Generations /\ ClassNone \in Classes
      BY LaunchAssumption DEF Generations
    <2> QED
      BY <2>1 DEF Init, Manifest
  <1>3. ImageMatchesGeneration /\ HandlesNeverStale /\ NoOrphans /\ EmptyUntilUp
    BY <1>1 DEF Init, ImageMatchesGeneration, HandlesNeverStale, NoOrphans, EmptyUntilUp
  <1>4. Runtime \in [Classes -> 0 .. GenerationSpace - 1]
    BY <1>2, RuntimeType DEF Runtime, Generations
  <1>5. BP!TypeOK
    <2>1. table \in [BP!Slots -> {BP!Free}]
      BY SameBroker DEF Init, Broker!Free, BP!Free, Broker!NoHandle, BP!NoHandle
    <2>2. nextHandle \in BP!Handles /\ tick \in 0 .. MaxTick
      BY BrokerAssumption DEF Init, BP!Handles, Broker!CapabilityAssumption
    <2> QED
      BY <1>4, <2>1, <2>2 DEF Init, BP!TypeOK
  <1>6. BP!IInv
    BY <1>1, <1>5, SameBroker DEF BP!IInv, BP!HandlesUnique, BP!DelegationAttenuates,
       BP!DelegatorsPermanent, BP!StampsReached, BP!OrphansStale
  <1>7. bound \in 0 .. ManifestCount
    BY LaunchAssumption DEF Init
  <1> QED
    BY <1>2, <1>3, <1>6, <1>7 DEF LInv

-----------------------------------------------------------------------------
(* What follows for every behaviour.                                       *)

\* The inductive invariant holds throughout.
THEOREM LaunchInvariance == Spec => []LInv
  <1>1. ASSUME LInv, [Next]_vars PROVE LInv'
    BY <1>1, BindKeeps, RestartKeeps, OtherSteps DEF Next
  <1> QED
    BY <1>1, InitLInv, PTL DEF Spec

\* The drain protocol of launch.c leaves no handle bound to a runtime that is
\* gone, whatever is granted between quiesce and restart, and also when the
\* generation counter wraps.
THEOREM NoHandleIsStale == Spec => []HandlesNeverStale
BY LaunchInvariance, PTL DEF LInv

\* With launch.c driving the broker no delegated handle outlives its parent.
THEOREM NoHandleIsOrphaned == Spec => []NoOrphans
BY LaunchInvariance, PTL DEF LInv

\* An installed image is the one of the generation that handles are bound to.
THEOREM ImagesMatch == Spec => []ImageMatchesGeneration
BY LaunchInvariance, PTL DEF LInv

\* No handle is revived or retargeted once it is dead, by restarts with
\* wrapping generations as little as by the broker.
THEOREM LaunchNeverRevives == Spec => HandlesStayDead
  <1> DEFINE Kept == /\ \A h \in 1 .. nextHandle - 1 : Broker!Usable(h)' => Broker!Usable(h)
                     /\ \A s, q \in Broker!Slots :
                          Broker!Active(s) /\ Broker!Active(q)' /\ table[s].handle = table'[q].handle
                            => q = s /\ table'[q] = table[s]
  <1>1. ASSUME LInv,
               \A s \in Broker!Slots : Broker!Active(s)' =>
                 \/ /\ Broker!Active(s) /\ table'[s] = table[s]
                    /\ Broker!RecordExpired(table[s]) => Broker!RecordExpired(table[s])'
                 \/ ~Broker!Active(s) /\ table'[s].handle = nextHandle
        PROVE  Kept
    <2>1. nextHandle \in Nat
      BY <1>1, BrokerAssumption DEF LInv, BP!IInv, BP!TypeOK, BP!Handles
    <2>2. ASSUME NEW h \in 1 .. nextHandle - 1, Broker!Usable(h)'
          PROVE  Broker!Usable(h)
      <3>1. PICK s \in Broker!Slots : /\ Broker!Active(s)' /\ table'[s].handle = h
                                      /\ ~Broker!RecordExpired(table[s])'
        BY <2>2 DEF Broker!Usable, Broker!FindLive, Broker!Slots
      <3>2. /\ Broker!Active(s) /\ table'[s] = table[s]
            /\ ~Broker!RecordExpired(table[s])
        BY <1>1, <2>1, <3>1 DEF Broker!RecordExpired
      <3>3. Broker!RecordRuntimeIsCurrent(table[s])
        BY <1>1, <3>2 DEF LInv, HandlesNeverStale
      <3> QED
        BY <3>1, <3>2, <3>3 DEF Broker!Usable, Broker!FindLive
    <2>3. ASSUME NEW s \in Broker!Slots, NEW q \in Broker!Slots, Broker!Active(s),
                 Broker!Active(q)', table[s].handle = table'[q].handle
          PROVE  q = s /\ table'[q] = table[s]
      <3>1. table[s].handle \in Nat /\ table[s].handle < nextHandle
        BY <1>1, <2>3, BrokerFacts DEF LInv
      <3>2. Broker!Active(q) /\ table'[q] = table[q]
        BY <1>1, <2>1, <2>3, <3>1
      <3> QED
        BY <1>1, <2>3, <3>2, BrokerFacts DEF LInv
    <2> QED
      BY <2>2, <2>3
  <1>2. ASSUME LInv, [Next]_vars PROVE Kept
    <2>1. CASE BindManifest
      <3>1. \A s \in Broker!Slots : ~Broker!Active(s)'
        BY <1>2, <2>1 DEF LInv, EmptyUntilUp, BindManifest, brokerVars, Broker!Active
      <3> QED
        BY <1>1, <1>2, <3>1
    <2>2. ASSUME NEW m \in Manifests, RequestRestart(m) PROVE Kept
      <3>1. \A s \in Broker!Slots : Broker!Active(s)' =>
              /\ Broker!Active(s) /\ table'[s] = table[s]
              /\ ~Broker!RecordExpired(table[s])
        BY <1>2, <2>2, RestartKeeps
      <3> QED
        BY <1>1, <1>2, <3>1
    <2>3. ASSUME NEW m,
                 \/ RequestRefused
                 \/ m \in Manifests /\ (RequestQuiesce(m) \/ RequestDrain(m) \/ RequestStop(m))
                 \/ BrokerStep
                 \/ ClockStep
                 \/ UNCHANGED vars
          PROVE  Kept
      <3>1. BP!IInv /\ [BP!Next]_BP!vars
        BY <1>2, <2>3, OtherSteps DEF LInv
      <3>2. BP!IInv' /\ (BP!ClearStep \/ BP!FillStep \/ BP!OutsideStep)
        BY <3>1, BrokerShape
      <3>3. CASE BP!ClearStep
        <4>1. /\ tick' = tick
              /\ \A s \in Broker!Slots : Broker!Active(s)' =>
                    Broker!Active(s) /\ table'[s] = table[s]
          BY <3>3, SameBroker DEF BP!ClearStep, Broker!Cleared, Broker!Active,
             Broker!Free, Broker!NoHandle
        <4> QED
          BY <1>1, <1>2, <4>1 DEF Broker!RecordExpired
      <3>4. CASE BP!FillStep
        <4>1. PICK f \in BP!Slots : /\ ~BP!Active(f)
                                    /\ table'[f].handle = nextHandle
                                    /\ \A s \in BP!Slots \ {f} : table'[s] = table[s]
          BY <3>1, <3>4 DEF BP!FillStep, BP!IInv, BP!TypeOK
        <4>2. tick' = tick
          BY <3>4 DEF BP!FillStep
        <4> QED
          BY <1>1, <1>2, <4>1, <4>2, SameBroker DEF Broker!Active, Broker!RecordExpired
      <3>5. CASE BP!OutsideStep
        <4>1. /\ table' = table /\ tick \in Nat /\ tick' \in Nat /\ tick <= tick'
              /\ \A s \in Broker!Slots : Broker!Active(s) => table[s].expiry \in Nat
          BY <3>1, <3>2, <3>5, SameBroker, BrokerAssumption
             DEF BP!OutsideStep, BP!IInv, BP!TypeOK, BP!Record, BP!Free, BP!Active,
                 BP!NoHandle, Broker!CapabilityAssumption
        <4> QED
          BY <1>1, <1>2, <4>1 DEF Broker!Active, Broker!RecordExpired
      <3> QED
        BY <3>2, <3>3, <3>4, <3>5
    <2> QED
      BY <1>2, <2>1, <2>2, <2>3 DEF Next
  <1>3. LInv /\ [Next]_vars => [Kept]_(Broker!vars)
    BY <1>2
  <1> QED
    BY <1>3, LaunchInvariance, PTL DEF Spec, HandlesStayDead, Broker!DeadHandlesStayDead
=============================================================================
