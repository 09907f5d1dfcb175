----------------------------- MODULE Capability -----------------------------
(***************************************************************************)
(* The x86_64 capability broker, kernel/arch/x86_64/capability.c: a fixed  *)
(* table of principal-scoped handles on service endpoints.                 *)
(*                                                                         *)
(* Every exported function of the broker runs to completion on one CPU     *)
(* with interrupts off, so each is one action.  A slot of the table is     *)
(* either Free or an active record; a cleared record keeps its old handle  *)
(* in memory, but no function reads the handle of an inactive record.      *)
(* The service table gives each endpoint class its own endpoint id, so a   *)
(* class stands for its endpoint here.  The telemetry counters (g_*_count) *)
(* and the audit log are left out: nothing in the broker reads them.       *)
(***************************************************************************)
EXTENDS Integers

CONSTANTS
    TableLimit,       \* CAPABILITY64_TABLE_LIMIT, the slots of the table
    Principals,       \* the active rows of the principal table
    OwnerSystem,      \* CAPABILITY64_OWNER_SYSTEM, the row owner id 0 stands for
    NoOwner,          \* owner id 0
    OwnerArgs,        \* owner ids callers pass: rows, 0, ids without a row
    Classes,          \* the endpoint classes of the service table
    NoClass,          \* a class the service table does not have
    Delegable,        \* the classes whose service record is delegable
    Personas,         \* the persona types (capability mask 1 << type)
    NoPersona,        \* CAPABILITY64_PERSONA_UNTAGGED, mask 0
    PersonaHosts,     \* the principals with a process that may have a persona
    RightsArgs,       \* rights masks callers pass; "other": an undefined bit
    LeaseTicks,       \* CAPABILITY64_DELEGATE_LEASE_TICKS
    TickSpace,        \* ticks are u32: 0 .. TickSpace - 1
    MaxTick,          \* bound: the clock stops here
    MaxHandle,        \* bound: g_next_handle stops here
    MaxGeneration     \* bound: the last runtime generation of a class

ASSUME CapabilityAssumption ==
    /\ TableLimit \in Nat \ {0}
    /\ OwnerSystem \in Principals
    /\ NoOwner \notin Principals
    /\ NoClass \notin Classes
    /\ Delegable \subseteq Classes
    /\ NoPersona \notin Personas
    /\ PersonaHosts \subseteq Principals
    /\ RightsArgs \subseteq SUBSET {"send", "query", "delegate", "other"}
    /\ LeaseTicks \in Nat \ {0}
    /\ TickSpace \in Nat \ {0}
    /\ MaxTick \in 0 .. TickSpace - 1
    /\ MaxHandle \in Nat \ {0}
    /\ MaxGeneration \in Nat

VARIABLES
    table,        \* g_capabilities
    nextHandle,   \* g_next_handle, counted from 1 instead of 0x6400
    tick,         \* pit_get_ticks()
    runtime,      \* the runtime generation launch.c holds for a class, 0: none
    persona       \* the persona of a principal's process (persona.c)

vars == <<table, nextHandle, tick, runtime, persona>>

Slots == 0 .. TableLimit - 1
Rights == {"send", "query", "delegate"}
Handles == 1 .. MaxHandle
NoHandle == 0
Permanent == TickSpace - 1     \* CAPABILITY64_LEASE_PERMANENT, 0xFFFFFFFF

\* "leased" is a history field: the record came from capability64_delegate.
Record ==
    [handle: Handles, class: Classes, rights: SUBSET Rights,
     parent: Handles \cup {NoHandle}, owner: Principals,
     expiry: 0 .. TickSpace - 1, generation: 0 .. MaxGeneration,
     persona: Personas \cup {NoPersona}, leased: BOOLEAN]

Free ==
    [handle |-> NoHandle, class |-> NoClass, rights |-> {},
     parent |-> NoHandle, owner |-> NoOwner, expiry |-> 0, generation |-> 0,
     persona |-> NoPersona, leased |-> FALSE]

-----------------------------------------------------------------------------
(* Helpers of the broker.                                                  *)

Active(s) == table[s].handle # NoHandle

NormalizeOwner(o) == IF o = NoOwner THEN OwnerSystem ELSE o

PrincipalIsValid(o) == NormalizeOwner(o) \in Principals

RecordExpired(r) == r.expiry # Permanent /\ tick >= r.expiry

Cleared(S) == [s \in Slots |-> IF s \in S THEN Free ELSE table[s]]

\* The slot find_live returns for a handle, as a set of at most one slot
\* (handles are unique, see HandlesUnique).
FindLive(h) == {s \in Slots : Active(s) /\ table[s].handle = h
                                        /\ ~RecordExpired(table[s])}

\* What find_live clears on its way: a matching record that has expired.  Its
\* children stay.
FindLiveReaps(h) == {s \in Slots : Active(s) /\ table[s].handle = h
                                             /\ RecordExpired(table[s])}

\* find_free takes the lowest inactive slot and never reaps an expired one.
FindFree(s) == /\ s \in Slots
               /\ ~Active(s)
               /\ \A q \in Slots : q < s => Active(q)

TableFull == \A s \in Slots : Active(s)

RecordIsOwnedBy(r, o) == r.owner = NormalizeOwner(o)

\* bind_runtime stamps a grant with the class's current generation; a class
\* no launched manifest serves leaves generation 0 and token 0.
BindNextRuntime(c) == IF runtime[c] < MaxGeneration THEN runtime[c] + 1 ELSE runtime[c]
BindRuntime(c) == runtime[c]

RecordRuntimeIsCurrent(r) == r.generation = 0 \/ runtime[r.class] = r.generation

RecordAllowsRecipientPersona(r, recipient) ==
    \/ r.persona = NoPersona
    \/ persona[recipient] = r.persona

\* Mutant: revocation forgets the delegated handles.
NoChildren(h) == {}
Children(h) == {s \in Slots : Active(s) /\ table[s].parent = h}

-----------------------------------------------------------------------------
(* Operations.  A denied grant changes nothing but counters.               *)

Init ==
    /\ table = [s \in Slots |-> Free]
    /\ nextHandle = 1
    /\ tick = 0
    /\ runtime \in [Classes -> {0, 1} \cap (0 .. MaxGeneration)]
    /\ persona = [p \in Principals |-> NoPersona]

\* g_next_handle++
TakeHandleAgain == nextHandle < MaxHandle /\ nextHandle' = nextHandle
TakeHandle == nextHandle < MaxHandle /\ nextHandle' = nextHandle + 1

AllowedRights(c) ==
    {"send", "query"} \cup (IF c \in Delegable THEN {"delegate"} ELSE {})

GrantServiceTagged(c, requested, o, tag) ==
    LET rights == IF requested = {} THEN {"send"} ELSE requested
    IN  /\ PrincipalIsValid(o)
        /\ c # NoClass
        /\ rights \subseteq AllowedRights(c)
        /\ TakeHandle
        /\ \E s \in Slots :
             /\ FindFree(s)
             /\ table' = [table EXCEPT ![s] =
                  [handle |-> nextHandle, class |-> c, rights |-> rights,
                   parent |-> NoHandle, owner |-> NormalizeOwner(o),
                   expiry |-> Permanent, generation |-> BindRuntime(c),
                   persona |-> tag, leased |-> FALSE]]
        /\ UNCHANGED <<tick, runtime, persona>>

GrantService(c, requested, o) == GrantServiceTagged(c, requested, o, NoPersona)

\* The process's principal owns the handle; a process without a persona
\* context has mask 0 and is denied.
GrantServiceForProcess(c, requested, o, tag) ==
    /\ o \in Principals
    /\ tag # NoPersona
    /\ GrantServiceTagged(c, requested, o, tag)

DelegatedRights(r, requested) ==
    IF requested = {} THEN r.rights \ {"delegate"} ELSE requested

\* Mutant: delegation passes the delegate right on.
RightsHeld(r, rights) == rights # {} /\ rights \subseteq r.rights
\* Mutant: rights the parent does not have are passed on.
RightsNotDelegate(r, rights) == rights # {} /\ "delegate" \notin rights
RightsAttenuated(r, rights) ==
    rights # {} /\ "delegate" \notin rights /\ rights \subseteq r.rights

DelegationAllowed(r, requested, caller, recipient) ==
    /\ PrincipalIsValid(caller)
    /\ PrincipalIsValid(recipient)
    /\ RecordIsOwnedBy(r, caller)
    /\ "delegate" \in r.rights
    /\ RightsAttenuated(r, DelegatedRights(r, requested))
    /\ RecordAllowsRecipientPersona(r, recipient)
    /\ ~TableFull

\* The owner context packs the caller and the recipient; recipient 0 means
\* the caller itself.  A denied call keeps what find_live reaped.
DelegateWithExpiry(h, requested, callerArg, recipientArg, expiry, leased) ==
    LET caller == NormalizeOwner(callerArg)
        recipient == IF recipientArg # NoOwner THEN recipientArg ELSE caller
    IN  /\ UNCHANGED <<tick, runtime, persona>>
        /\ \/ \E s \in FindLive(h), f \in Slots :
                /\ DelegationAllowed(table[s], requested, caller, recipient)
                /\ TakeHandle
                /\ FindFree(f)
                /\ table' = [table EXCEPT ![f] =
                     [table[s] EXCEPT !.handle = nextHandle,
                                      !.rights = DelegatedRights(table[s], requested),
                                      !.parent = h,
                                      !.owner = recipient,
                                      !.expiry = expiry,
                                      !.leased = leased]]
           \/ /\ \A s \in FindLive(h) :
                   ~DelegationAllowed(table[s], requested, caller, recipient)
              /\ table' = Cleared(FindLiveReaps(h))
              /\ UNCHANGED nextHandle

\* Mutant: a lease that is one tick too long.
LateLeaseExpiry == (tick + LeaseTicks + 1) % TickSpace
LeaseExpiry == (tick + LeaseTicks) % TickSpace

Delegate(h, requested, caller, recipient) ==
    DelegateWithExpiry(h, requested, caller, recipient, LeaseExpiry, TRUE)

DelegatePersistent(h, requested, caller, recipient) ==
    DelegateWithExpiry(h, requested, caller, recipient, Permanent, FALSE)

\* The checks of capability64_route up to the runtime check.
RouteAdmits(r, required, o) ==
    /\ PrincipalIsValid(o)
    /\ (IF required = {} THEN {"send"} ELSE required) \subseteq r.rights
    /\ RecordIsOwnedBy(r, o)

\* A stale record is cleared on its own, without its children.
Route(h, required, o) ==
    /\ table' = Cleared(FindLiveReaps(h) \cup
                  {s \in FindLive(h) : /\ RouteAdmits(table[s], required, o)
                                      /\ ~RecordRuntimeIsCurrent(table[s])})
    /\ UNCHANGED <<nextHandle, tick, runtime, persona>>

\* Whether capability64_route(h, required, o) returns an endpoint.
Routes(h, required, o) ==
    \E s \in FindLive(h) : /\ RouteAdmits(table[s], required, o)
                           /\ RecordRuntimeIsCurrent(table[s])

QueryAdmits(r, o) == PrincipalIsValid(o) /\ RecordIsOwnedBy(r, o)

\* target_endpoint, runtime_generation, runtime_token
QueryRuntime(h, o) ==
    /\ table' = Cleared(FindLiveReaps(h) \cup
                  {s \in FindLive(h) : /\ QueryAdmits(table[s], o)
                                      /\ ~RecordRuntimeIsCurrent(table[s])})
    /\ UNCHANGED <<nextHandle, tick, runtime, persona>>

\* rights, parent, owner, expiry_tick, persona_tag, persona_mask: they read
\* the record, and their only effect is find_live's.
Query(h) ==
    /\ table' = Cleared(FindLiveReaps(h))
    /\ UNCHANGED <<nextHandle, tick, runtime, persona>>

\* Revocation clears the record and its direct children, expired or not.
RevokedSlots(h, o) ==
    LET owned == {s \in FindLive(h) : QueryAdmits(table[s], o)}
    IN  IF owned = {} THEN {} ELSE owned \cup Children(h)

Revoke(h, o) ==
    /\ table' = Cleared(FindLiveReaps(h) \cup RevokedSlots(h, o))
    /\ UNCHANGED <<nextHandle, tick, runtime, persona>>

\* Counting the live records of one class clears the expired of every class.
ExpiredSlots == {s \in Slots : Active(s) /\ RecordExpired(table[s])}
LiveSlots(c) == {s \in Slots : /\ Active(s)
                               /\ ~RecordExpired(table[s])
                               /\ table[s].class = c}

LiveForEndpointClass(c) ==
    /\ c # NoClass
    /\ table' = Cleared(ExpiredSlots)
    /\ UNCHANGED <<nextHandle, tick, runtime, persona>>

\* The drain walks the slots once: an expired record is cleared alone, a live
\* one of the class with its children.
RevokeEndpointClass(c) ==
    /\ c # NoClass
    /\ table' = Cleared(ExpiredSlots \cup LiveSlots(c)
                          \cup UNION {Children(table[s].handle) : s \in LiveSlots(c)})
    /\ UNCHANGED <<nextHandle, tick, runtime, persona>>

-----------------------------------------------------------------------------
(* What the broker reads from its neighbours.                              *)

Tick ==
    /\ tick < MaxTick
    /\ tick' = tick + 1
    /\ UNCHANGED <<table, nextHandle, runtime, persona>>

\* launch.c starts or restarts the service of a class.  The broker itself
\* does not count on the drain that launch.c performs first.
Rekey(c) ==
    /\ runtime[c] < MaxGeneration
    /\ runtime' = [runtime EXCEPT ![c] = @ + 1]
    /\ UNCHANGED <<table, nextHandle, tick, persona>>

\* persona.c attaches a context to, or releases it from, a process.
SetPersona(p, tag) ==
    /\ p \in PersonaHosts
    /\ persona' = [persona EXCEPT ![p] = tag]
    /\ UNCHANGED <<table, nextHandle, tick, runtime>>

\* A handle argument is any u32; nextHandle stands for all never given out.
HandleArgs == 1 .. nextHandle

BrokerNext ==
    \/ \E c \in Classes \cup {NoClass}, o \in OwnerArgs, q \in RightsArgs :
         \/ GrantService(c, q, o)
         \/ \E t \in Personas \cup {NoPersona} : GrantServiceForProcess(c, q, o, t)
    \/ \E h \in HandleArgs, o \in OwnerArgs, q \in RightsArgs :
         \/ \E p \in OwnerArgs : Delegate(h, q, o, p) \/ DelegatePersistent(h, q, o, p)
         \/ Route(h, q, o)
    \/ \E h \in HandleArgs, o \in OwnerArgs : QueryRuntime(h, o) \/ Revoke(h, o)
    \/ \E h \in HandleArgs : Query(h)
    \/ \E c \in Classes \cup {NoClass} : LiveForEndpointClass(c) \/ RevokeEndpointClass(c)

Next ==
    \/ BrokerNext
    \/ Tick
    \/ \E c \in Classes : Rekey(c)
    \/ \E p \in PersonaHosts, t \in Personas \cup {NoPersona} : SetPersona(p, t)

Spec == Init /\ [][Next]_vars

-----------------------------------------------------------------------------
(* Properties.                                                             *)

\* The table, the counter and the clock hold values of their types.
TypeOK ==
    /\ table \in [Slots -> Record \cup {Free}]
    /\ nextHandle \in Handles
    /\ tick \in 0 .. MaxTick
    /\ runtime \in [Classes -> 0 .. MaxGeneration]
    /\ persona \in [Principals -> Personas \cup {NoPersona}]

\* Two active records never share a handle, no active record holds a handle
\* that g_next_handle has yet to give out, and a parent is older than its
\* child: find_live's first match is the only match.
HandlesUnique ==
    \A s \in Slots : Active(s) =>
        /\ table[s].handle < nextHandle
        /\ table[s].parent < table[s].handle
        /\ \A q \in Slots : Active(q) /\ table[q].handle = table[s].handle => q = s

\* Delegation attenuates and stops after one hop: a delegated record can
\* never delegate again, and while its parent lives it names the same
\* service, runtime and persona with strictly fewer rights, and the parent is
\* a root (capability64_delegate_with_expiry).
DelegationAttenuates ==
    \A s \in Slots : Active(s) /\ table[s].parent # NoHandle =>
        /\ "delegate" \notin table[s].rights
        /\ table[s].rights # {}
        /\ \A q \in Slots : Active(q) /\ table[q].handle = table[s].parent =>
             /\ table[s].rights \subseteq table[q].rights
             /\ "delegate" \in table[q].rights
             /\ table[q].parent = NoHandle
             /\ table[q].class = table[s].class
             /\ table[q].generation = table[s].generation
             /\ table[q].persona = table[s].persona

\* No handle outlives the grant it was delegated from: once the parent is
\* gone (revoked, drained, or cleared as stale without a cascade) no
\* principal can route through the child.
OrphansUnroutable ==
    \A s \in Slots, o \in OwnerArgs, q \in RightsArgs :
        /\ Active(s)
        /\ table[s].parent # NoHandle
        /\ ~\E p \in Slots : Active(p) /\ table[p].handle = table[s].parent
        => ~Routes(table[s].handle, q, o)

\* A handle from capability64_delegate is a short lease: while it is live it
\* expires at most LeaseTicks from now.
LeaseIsShort ==
    \A s \in Slots : Active(s) /\ table[s].leased /\ ~RecordExpired(table[s]) =>
        table[s].expiry # Permanent /\ table[s].expiry <= tick + LeaseTicks

\* A handle that still answers: it is live and its runtime is current.
Usable(h) == \E s \in FindLive(h) : RecordRuntimeIsCurrent(table[s])

\* A handle that has been given out and is no longer usable never becomes
\* usable again, and the record behind a handle never changes while it
\* lives: neither slot reuse, nor a later grant, nor a restart of the service
\* revives or retargets a handle.
DeadHandlesStayDead ==
    [][/\ \A h \in 1 .. nextHandle - 1 : Usable(h)' => Usable(h)
       /\ \A s, q \in Slots :
            Active(s) /\ Active(q)' /\ table[s].handle = table'[q].handle
              => q = s /\ table'[q] = table[s]]_vars
=============================================================================
