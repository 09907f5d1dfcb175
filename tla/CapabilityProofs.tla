-------------------------- MODULE CapabilityProofs --------------------------
(***************************************************************************)
(* Proofs about the capability broker, for every size of the table and    *)
(* every set of principals, classes and personas.                          *)
(*                                                                         *)
(* The operations of the broker do only two things to the table: they      *)
(* clear a set of slots, or they fill one free slot with a fresh handle.   *)
(* ClearPreserves and FillPreserves show once that such a step keeps the   *)
(* inductive invariant; each operation is then an instance of one of them. *)
(***************************************************************************)
EXTENDS Capability, TLAPS

-----------------------------------------------------------------------------
(* The inductive invariant.                                                *)

\* Only permanent records may delegate, so a parent never expires.
DelegatorsPermanent ==
    \A s \in Slots : Active(s) /\ "delegate" \in table[s].rights
                       => table[s].expiry = Permanent

\* No record is bound to a runtime its class has not reached.
StampsReached ==
    \A s \in Slots : Active(s) => table[s].generation <= runtime[table[s].class]

ParentActive(s) == \E p \in Slots : Active(p) /\ table[p].handle = table[s].parent

\* A child that has lost its parent is bound to a runtime that is gone.
OrphansStale ==
    \A s \in Slots : Active(s) /\ table[s].parent # NoHandle /\ ~ParentActive(s) =>
        table[s].generation # 0 /\ table[s].generation < runtime[table[s].class]

IInv == /\ TypeOK
        /\ HandlesUnique
        /\ DelegationAttenuates
        /\ DelegatorsPermanent
        /\ StampsReached
        /\ OrphansStale

-----------------------------------------------------------------------------
\* The type of a slot's content follows from whether it is active.
LEMMA ActiveRecord ==
  ASSUME TypeOK, NEW s \in Slots
  PROVE  /\ Active(s) => table[s] \in Record
         /\ ~Active(s) => table[s] = Free
         /\ table[s].handle \in Nat
BY DEF TypeOK, Active, Record, Free, NoHandle, Handles

\* Initially the table is empty.
LEMMA InitIInv == Init => IInv
  <1> SUFFICES ASSUME Init PROVE IInv
    OBVIOUS
  <1>1. \A s \in Slots : ~Active(s)
    BY DEF Init, Active, Free, NoHandle
  <1>2. TypeOK
    BY CapabilityAssumption DEF Init, TypeOK, Handles
  <1> QED
    BY <1>1, <1>2 DEF IInv, HandlesUnique, DelegationAttenuates,
       DelegatorsPermanent, StampsReached, OrphansStale

\* Clearing slots keeps the invariant if every child that is left behind by
\* a cleared parent is bound to a runtime that is gone.
LEMMA ClearPreserves ==
  ASSUME IInv, NEW S \in SUBSET Slots,
         table' = Cleared(S), UNCHANGED <<nextHandle, tick, runtime, persona>>,
         \A s \in Slots \ S, p \in S :
           /\ Active(s) /\ Active(p)
           /\ table[s].parent # NoHandle
           /\ table[p].handle = table[s].parent
           => table[s].generation # 0 /\ table[s].generation < runtime[table[s].class]
  PROVE  IInv'
  <1> USE DEF IInv
  <1>0. \A s \in Slots : /\ s \in S => table'[s] = Free /\ ~Active(s)'
                         /\ s \notin S => table'[s] = table[s] /\ (Active(s)' <=> Active(s))
    BY DEF Cleared, Active, Free, NoHandle
  <1>1. TypeOK'
    BY <1>0 DEF TypeOK, Cleared
  <1>2. HandlesUnique'
    BY <1>0 DEF HandlesUnique
  <1>3. DelegationAttenuates'
    BY <1>0 DEF DelegationAttenuates
  <1>4. DelegatorsPermanent'
    BY <1>0 DEF DelegatorsPermanent
  <1>5. StampsReached'
    BY <1>0 DEF StampsReached
  <1>6. OrphansStale'
    <2> SUFFICES ASSUME NEW s \in Slots, Active(s)', table'[s].parent # NoHandle,
                        ~ParentActive(s)'
                 PROVE  /\ table'[s].generation # 0
                        /\ table'[s].generation < runtime'[table'[s].class]
      BY DEF OrphansStale
    <2>1. s \notin S /\ table'[s] = table[s] /\ Active(s)
      BY <1>0
    <2>2. CASE ParentActive(s)
      <3>1. PICK p \in Slots : Active(p) /\ table[p].handle = table[s].parent
        BY <2>2 DEF ParentActive
      <3>2. p \in S
        BY <1>0, <2>1, <3>1 DEF ParentActive
      <3> QED
        BY <2>1, <3>1, <3>2
    <2>3. CASE ~ParentActive(s)
      BY <2>1, <2>3 DEF OrphansStale
    <2> QED
      BY <2>2, <2>3
  <1> QED
    BY <1>1, <1>2, <1>3, <1>4, <1>5, <1>6

\* Filling a free slot with the next handle keeps the invariant if the record
\* is a permanent root, or an attenuated copy of an active one.
LEMMA FillPreserves ==
  ASSUME IInv, NEW f \in Slots, ~Active(f), TakeHandle,
         NEW r \in Record, r.handle = nextHandle,
         table' = [table EXCEPT ![f] = r], UNCHANGED <<tick, runtime, persona>>,
         r.generation <= runtime[r.class],
         \/ r.parent = NoHandle /\ r.expiry = Permanent
         \/ /\ "delegate" \notin r.rights
            /\ r.rights # {}
            /\ \E s \in Slots : /\ Active(s)
                               /\ table[s].handle = r.parent
                               /\ "delegate" \in table[s].rights
                               /\ r.rights \subseteq table[s].rights
                               /\ table[s].class = r.class
                               /\ table[s].generation = r.generation
                               /\ table[s].persona = r.persona
  PROVE  IInv'
  <1> USE DEF IInv
  <1>0. /\ table'[f] = r /\ Active(f)'
        /\ \A s \in Slots \ {f} : table'[s] = table[s] /\ (Active(s)' <=> Active(s))
        /\ nextHandle' = nextHandle + 1
        /\ nextHandle \in Nat
    BY DEF TypeOK, Active, TakeHandle, Record, Handles, NoHandle
  <1>1. TypeOK'
    BY <1>0, CapabilityAssumption DEF TypeOK, TakeHandle, Handles
  <1>a. \A s \in Slots : Active(s) => /\ table[s].handle \in Nat
                                      /\ table[s].parent \in Nat
                                      /\ table[s].handle < nextHandle
                                      /\ table[s].parent < table[s].handle
    BY ActiveRecord DEF HandlesUnique, Record, Handles, NoHandle
  <1>b. r.parent \in Nat /\ r.parent < nextHandle
    BY <1>0, <1>a DEF NoHandle, TypeOK, Handles
  <1>2. HandlesUnique'
    BY <1>0, <1>a, <1>b DEF HandlesUnique
  <1>3. DelegationAttenuates'
    <2>1. \A s \in Slots : Active(s)' /\ table'[s].parent = nextHandle => FALSE
      BY <1>0, <1>a, <1>b
    <2> QED
      BY <1>0, <2>1 DEF DelegationAttenuates, HandlesUnique
  <1>4. DelegatorsPermanent'
    BY <1>0 DEF DelegatorsPermanent
  <1>5. StampsReached'
    BY <1>0 DEF StampsReached
  <1>6. OrphansStale'
    <2> SUFFICES ASSUME NEW s \in Slots, Active(s)', table'[s].parent # NoHandle,
                        ~ParentActive(s)'
                 PROVE  /\ table'[s].generation # 0
                        /\ table'[s].generation < runtime'[table'[s].class]
      BY DEF OrphansStale
    <2>1. s # f
      BY <1>0 DEF ParentActive
    <2>2. ~ParentActive(s)
      BY <1>0, <2>1 DEF ParentActive
    <2> QED
      BY <1>0, <2>1, <2>2 DEF OrphansStale
  <1> QED
    BY <1>1, <1>2, <1>3, <1>4, <1>5, <1>6

-----------------------------------------------------------------------------
(* The shape of a step.                                                    *)

\* What a step of the broker or of its neighbours does: it clears slots, it
\* fills a free slot with the next handle, or it leaves the table alone while
\* the clock and the generations move forward.
ClearStep == /\ \E S \in SUBSET Slots : table' = Cleared(S)
             /\ UNCHANGED <<nextHandle, tick, runtime, persona>>

FillStep == /\ TakeHandle
            /\ \E f \in Slots, r \in Record :
                 /\ ~Active(f)
                 /\ r.handle = nextHandle
                 /\ r.leased => r.expiry = LeaseExpiry
                 /\ \/ r.generation = runtime[r.class]
                    \/ \E s \in Slots : /\ Active(s) /\ table[s].class = r.class
                                        /\ table[s].generation = r.generation
                 /\ table' = [table EXCEPT ![f] = r]
            /\ UNCHANGED <<tick, runtime, persona>>

OutsideStep == /\ UNCHANGED <<table, nextHandle>>
               /\ tick <= tick'
               /\ \A c \in Classes : runtime[c] <= runtime'[c]

-----------------------------------------------------------------------------
(* Each operation keeps the invariant.                                     *)

\* A parent has the right to delegate, so it is permanent and never expires.
LEMMA ParentsNeverExpire ==
  ASSUME IInv, NEW s \in Slots, NEW p \in Slots, Active(s), Active(p),
         table[s].parent # NoHandle, table[p].handle = table[s].parent
  PROVE  /\ ~RecordExpired(table[p])
         /\ table[p].parent = NoHandle
         /\ table[p].class = table[s].class
         /\ table[p].generation = table[s].generation
BY DEF IInv, DelegationAttenuates, DelegatorsPermanent, RecordExpired

\* Granting fills a slot with a permanent root.
LEMMA GrantPreserves ==
  ASSUME IInv, NEW c \in Classes \cup {NoClass}, NEW requested, NEW o,
         NEW tag \in Personas \cup {NoPersona}, GrantServiceTagged(c, requested, o, tag)
  PROVE  IInv' /\ FillStep
  <1> DEFINE rights == IF requested = {} THEN {"send"} ELSE requested
             r == [handle |-> nextHandle, class |-> c, rights |-> rights,
                   parent |-> NoHandle, owner |-> NormalizeOwner(o),
                   expiry |-> Permanent, generation |-> BindRuntime(c),
                   persona |-> tag, leased |-> FALSE]
  <1>1. PICK f \in Slots : ~Active(f) /\ table' = [table EXCEPT ![f] = r]
    BY DEF GrantServiceTagged, FindFree
  <1>2. /\ TakeHandle /\ UNCHANGED <<tick, runtime, persona>>
        /\ rights \subseteq AllowedRights(c)
        /\ c \in Classes
        /\ NormalizeOwner(o) \in Principals
    BY DEF GrantServiceTagged, PrincipalIsValid
  <1>3. rights \in SUBSET Rights
    BY <1>2 DEF AllowedRights, Rights
  <1>4. Permanent \in 0 .. TickSpace - 1 /\ nextHandle \in Handles
    BY CapabilityAssumption DEF Permanent, IInv, TypeOK
  <1>5. BindRuntime(c) = runtime[c] /\ runtime[c] \in 0 .. MaxGeneration
    BY <1>2 DEF BindRuntime, IInv, TypeOK
  <1>6. r \in Record
    BY <1>2, <1>3, <1>4, <1>5 DEF Record
  <1>7. /\ r.handle = nextHandle /\ r.parent = NoHandle /\ r.expiry = Permanent
        /\ r.generation <= runtime[r.class]
    BY <1>5
  <1> HIDE DEF r
  <1>8. IInv'
    BY <1>1, <1>2, <1>6, <1>7, FillPreserves
  <1>9. FillStep
    <2>1. ~r.leased /\ r.generation = runtime[r.class]
      BY <1>5 DEF r
    <2> QED
      BY <1>1, <1>2, <1>6, <1>7, <2>1 DEF FillStep
  <1> QED
    BY <1>8, <1>9

\* Delegating fills a slot with an attenuated copy of a live record, or only
\* reaps the source.
LEMMA DelegatePreserves ==
  ASSUME IInv, NEW h \in Handles, NEW requested, NEW callerArg, NEW recipientArg,
         NEW expiry \in 0 .. TickSpace - 1, NEW leased \in BOOLEAN,
         leased => expiry = LeaseExpiry,
         DelegateWithExpiry(h, requested, callerArg, recipientArg, expiry, leased)
  PROVE  IInv' /\ (ClearStep \/ FillStep)
  <1> DEFINE caller == NormalizeOwner(callerArg)
             recipient == IF recipientArg # NoOwner THEN recipientArg ELSE caller
  <1>0. UNCHANGED <<tick, runtime, persona>>
    BY DEF DelegateWithExpiry
  <1>1. CASE /\ \A s \in FindLive(h) :
                   ~DelegationAllowed(table[s], requested, caller, recipient)
             /\ table' = Cleared(FindLiveReaps(h))
             /\ UNCHANGED nextHandle
    <2>1. \A p \in FindLiveReaps(h) : p \in Slots /\ RecordExpired(table[p])
      BY DEF FindLiveReaps
    <2>2. FindLiveReaps(h) \in SUBSET Slots
      BY DEF FindLiveReaps
    <2> QED
      BY <1>0, <1>1, <2>1, <2>2, ParentsNeverExpire, ClearPreserves DEF ClearStep
  <1>2. ASSUME NEW s \in FindLive(h), NEW f \in Slots,
               DelegationAllowed(table[s], requested, caller, recipient),
               TakeHandle, FindFree(f),
               table' = [table EXCEPT ![f] =
                     [table[s] EXCEPT !.handle = nextHandle,
                                      !.rights = DelegatedRights(table[s], requested),
                                      !.parent = h,
                                      !.owner = recipient,
                                      !.expiry = expiry,
                                      !.leased = leased]]
        PROVE  IInv' /\ FillStep
    <2> DEFINE rights == DelegatedRights(table[s], requested)
               r == [table[s] EXCEPT !.handle = nextHandle, !.rights = rights,
                                     !.parent = h, !.owner = recipient,
                                     !.expiry = expiry, !.leased = leased]
    <2>1. s \in Slots /\ Active(s) /\ table[s].handle = h
      BY DEF FindLive
    <2>2. table[s] \in Record
      BY <2>1, ActiveRecord DEF IInv
    <2>3. /\ recipient \in Principals
          /\ "delegate" \in table[s].rights
          /\ rights # {} /\ "delegate" \notin rights /\ rights \subseteq table[s].rights
      BY <1>2, CapabilityAssumption
         DEF DelegationAllowed, RightsAttenuated, PrincipalIsValid, NormalizeOwner
    <2>4. nextHandle \in Handles
      BY DEF IInv, TypeOK
    <2>5. /\ r \in Record
          /\ r.handle = nextHandle /\ r.rights = rights /\ r.parent = h
          /\ r.class = table[s].class /\ r.generation = table[s].generation
          /\ r.persona = table[s].persona /\ r.owner = recipient
          /\ r.leased = leased /\ r.expiry = expiry
      BY <2>2, <2>3, <2>4 DEF Record
    <2>6. r.generation <= runtime[r.class]
      BY <2>1, <2>5 DEF IInv, StampsReached
    <2>7. table' = [table EXCEPT ![f] = r] /\ ~Active(f)
      BY <1>2 DEF FindFree
    <2>8. TakeHandle
      BY <1>2
    <2> HIDE DEF r, rights
    <2>9. \E p \in Slots : /\ Active(p)
                           /\ table[p].handle = r.parent
                           /\ "delegate" \in table[p].rights
                           /\ r.rights \subseteq table[p].rights
                           /\ table[p].class = r.class
                           /\ table[p].generation = r.generation
                           /\ table[p].persona = r.persona
      BY <2>1, <2>3, <2>5
    <2>10. "delegate" \notin r.rights /\ r.rights # {} /\ r \in Record
           /\ r.handle = nextHandle
      BY <2>3, <2>5
    <2>11. IInv'
      BY <1>0, <2>6, <2>7, <2>8, <2>9, <2>10, FillPreserves
    <2>12. r.leased => r.expiry = LeaseExpiry
      BY <2>5
    <2>13. FillStep
      BY <1>0, <2>7, <2>8, <2>9, <2>10, <2>12 DEF FillStep
    <2> QED
      BY <2>11, <2>13
  <1> QED
    BY <1>1, <1>2 DEF DelegateWithExpiry

\* Clearing expired records, and records whose runtime is gone, keeps the
\* invariant: an expired record is no parent, and the children of a stale
\* one are as stale as it is.
LEMMA ReapPreserves ==
  ASSUME IInv, NEW S \in SUBSET Slots,
         \A p \in S : RecordExpired(table[p]) \/ ~RecordRuntimeIsCurrent(table[p]),
         table' = Cleared(S), UNCHANGED <<nextHandle, tick, runtime, persona>>
  PROVE  IInv' /\ ClearStep
  <1>1. ASSUME NEW s \in Slots \ S, NEW p \in S, Active(s), Active(p),
               table[s].parent # NoHandle, table[p].handle = table[s].parent
        PROVE  table[s].generation # 0 /\ table[s].generation < runtime[table[s].class]
    <2>1. /\ ~RecordRuntimeIsCurrent(table[p])
          /\ table[p].class = table[s].class
          /\ table[p].generation = table[s].generation
      BY <1>1, ParentsNeverExpire
    <2>2. table[s] \in Record /\ table[s].generation <= runtime[table[s].class]
      BY <1>1, ActiveRecord DEF IInv, StampsReached
    <2>3. table[s].generation \in Nat /\ runtime[table[s].class] \in Nat
      BY <2>2, CapabilityAssumption DEF Record, IInv, TypeOK
    <2> QED
      BY <2>1, <2>2, <2>3 DEF RecordRuntimeIsCurrent
  <1> QED
    BY <1>1, ClearPreserves DEF ClearStep

\* Revoking and draining clear a live record together with its children.
LEMMA CascadePreserves ==
  ASSUME IInv, NEW X \in SUBSET Slots, NEW L \in SUBSET Slots,
         NEW S \in SUBSET Slots,
         \A p \in X : RecordExpired(table[p]),
         \A p \in S : p \in X \/ p \in L \/ \E q \in L : p \in Children(table[q].handle),
         \A q \in L : Active(q) /\ Children(table[q].handle) \subseteq S,
         table' = Cleared(S), UNCHANGED <<nextHandle, tick, runtime, persona>>
  PROVE  IInv' /\ ClearStep
  <1>1. ASSUME NEW s \in Slots \ S, NEW p \in S, Active(s), Active(p),
               table[s].parent # NoHandle, table[p].handle = table[s].parent
        PROVE  FALSE
    <2>1. ~RecordExpired(table[p]) /\ table[p].parent = NoHandle
      BY <1>1, ParentsNeverExpire
    <2>2. p \notin X
      BY <2>1
    <2>3. p \notin L
      BY <1>1 DEF Children
    <2>4. PICK q \in L : p \in Children(table[q].handle)
      BY <2>2, <2>3
    <2>5. table[p].parent = table[q].handle /\ Active(p)
      BY <2>4 DEF Children
    <2>6. table[q].handle = NoHandle
      BY <2>1, <2>5
    <2> QED
      BY <2>6 DEF Active
  <1> QED
    BY <1>1, ClearPreserves DEF ClearStep

\* Every step keeps the invariant and has one of the three shapes.
LEMMA NextIInv ==
  ASSUME IInv, [Next]_vars
  PROVE  IInv' /\ (ClearStep \/ FillStep \/ OutsideStep)
  <1>0. /\ nextHandle \in Handles /\ HandleArgs \subseteq Handles
        /\ tick \in Nat /\ \A c \in Classes : runtime[c] \in Nat
    BY CapabilityAssumption DEF IInv, TypeOK, Handles, HandleArgs
  <1>1. ASSUME NEW c \in Classes \cup {NoClass}, NEW o, NEW q,
               \/ GrantService(c, q, o)
               \/ \E t \in Personas \cup {NoPersona} : GrantServiceForProcess(c, q, o, t)
        PROVE  IInv' /\ FillStep
    BY <1>1, GrantPreserves DEF GrantService, GrantServiceForProcess
  <1>2. ASSUME NEW h \in Handles, NEW q, NEW o, NEW p,
               Delegate(h, q, o, p) \/ DelegatePersistent(h, q, o, p)
        PROVE  IInv' /\ (ClearStep \/ FillStep)
    <2>1. LeaseExpiry \in 0 .. TickSpace - 1 /\ Permanent \in 0 .. TickSpace - 1
      BY <1>0, CapabilityAssumption DEF LeaseExpiry, Permanent
    <2> QED
      BY <1>2, <2>1, DelegatePreserves DEF Delegate, DelegatePersistent
  <1>3. ASSUME NEW h \in Handles, NEW q, NEW o,
               Route(h, q, o) \/ QueryRuntime(h, o) \/ Query(h)
        PROVE  IInv' /\ ClearStep
    BY <1>3, ReapPreserves DEF Route, QueryRuntime, Query, FindLive, FindLiveReaps
  <1>4. ASSUME NEW h \in Handles, NEW o, Revoke(h, o)
        PROVE  IInv' /\ ClearStep
    <2> DEFINE L == IF RevokedSlots(h, o) = {} THEN {} ELSE FindLive(h)
               S == FindLiveReaps(h) \cup RevokedSlots(h, o)
    <2>1. FindLive(h) \subseteq Slots /\ FindLiveReaps(h) \subseteq Slots
          /\ RevokedSlots(h, o) \subseteq Slots
      BY DEF FindLive, FindLiveReaps, RevokedSlots, Children
    <2>2. \A p \in FindLiveReaps(h) : RecordExpired(table[p])
      BY DEF FindLiveReaps
    <2>3. \A s \in L : Active(s) /\ table[s].handle = h /\ Children(h) \subseteq S
      BY DEF FindLive, RevokedSlots
    <2>4. \A p \in S : p \in FindLiveReaps(h) \/ p \in L
                        \/ \E s \in L : p \in Children(table[s].handle)
      BY DEF RevokedSlots, FindLive
    <2>5. table' = Cleared(S) /\ UNCHANGED <<nextHandle, tick, runtime, persona>>
      BY <1>4 DEF Revoke
    <2> HIDE DEF L, S
    <2>6. L \in SUBSET Slots /\ S \in SUBSET Slots /\ FindLiveReaps(h) \in SUBSET Slots
      BY <2>1 DEF L, S
    <2> QED
      BY <2>2, <2>3, <2>4, <2>5, <2>6, CascadePreserves
  <1>5. ASSUME NEW c, LiveForEndpointClass(c)
        PROVE  IInv' /\ ClearStep
    BY <1>5, ReapPreserves DEF LiveForEndpointClass, ExpiredSlots
  <1>6. ASSUME NEW c, RevokeEndpointClass(c)
        PROVE  IInv' /\ ClearStep
    <2> DEFINE L == LiveSlots(c)
               S == ExpiredSlots \cup LiveSlots(c)
                      \cup UNION {Children(table[s].handle) : s \in LiveSlots(c)}
    <2>1. L \in SUBSET Slots /\ S \in SUBSET Slots /\ ExpiredSlots \in SUBSET Slots
      BY DEF LiveSlots, ExpiredSlots, Children
    <2>2. \A p \in ExpiredSlots : RecordExpired(table[p])
      BY DEF ExpiredSlots
    <2>3. \A q \in L : Active(q) /\ Children(table[q].handle) \subseteq S
      BY DEF LiveSlots
    <2>4. \A p \in S : p \in ExpiredSlots \/ p \in L
                        \/ \E q \in L : p \in Children(table[q].handle)
      OBVIOUS
    <2>5. table' = Cleared(S) /\ UNCHANGED <<nextHandle, tick, runtime, persona>>
      BY <1>6 DEF RevokeEndpointClass
    <2> HIDE DEF L, S
    <2> QED
      BY <2>1, <2>2, <2>3, <2>4, <2>5, CascadePreserves
  <1>7. ASSUME \/ Tick
               \/ \E c \in Classes : Rekey(c)
               \/ \E p \in PersonaHosts, t \in Personas \cup {NoPersona} : SetPersona(p, t)
               \/ UNCHANGED vars
        PROVE  IInv' /\ OutsideStep
    <2>1. OutsideStep
      BY <1>0, <1>7 DEF OutsideStep, Tick, Rekey, SetPersona, vars, IInv, TypeOK
    <2>2. TypeOK'
      BY <1>0, <1>7, CapabilityAssumption
         DEF Tick, Rekey, SetPersona, vars, IInv, TypeOK
    <2>3. \A s \in Slots : Active(s)' <=> Active(s)
      BY <2>1 DEF OutsideStep, Active
    <2>4. HandlesUnique' /\ DelegationAttenuates' /\ DelegatorsPermanent'
      BY <2>1, <2>3 DEF OutsideStep, IInv, HandlesUnique, DelegationAttenuates,
         DelegatorsPermanent
    <2>5. \A s \in Slots : Active(s) =>
             /\ table[s].class \in Classes
             /\ table[s].generation \in Nat
             /\ runtime[table[s].class] \in Nat
             /\ runtime'[table[s].class] \in Nat
             /\ runtime[table[s].class] <= runtime'[table[s].class]
      BY <1>0, <2>1, <2>2, ActiveRecord, CapabilityAssumption
         DEF OutsideStep, IInv, Record, TypeOK
    <2>6. StampsReached'
      BY <2>1, <2>3, <2>5 DEF OutsideStep, IInv, StampsReached
    <2>7. \A s \in Slots : ParentActive(s)' <=> ParentActive(s)
      BY <2>1, <2>3 DEF OutsideStep, ParentActive
    <2>8. OrphansStale'
      BY <2>1, <2>3, <2>5, <2>7 DEF OutsideStep, IInv, OrphansStale
    <2> QED
      BY <2>1, <2>2, <2>4, <2>6, <2>8 DEF IInv
  <1> QED
    BY <1>0, <1>1, <1>2, <1>3, <1>4, <1>5, <1>6, <1>7 DEF Next, BrokerNext

\* The same in one formula, for specifications that instantiate the broker.
LEMMA StepShape ==
  IInv /\ [Next]_vars => IInv' /\ (ClearStep \/ FillStep \/ OutsideStep)
BY NextIInv

-----------------------------------------------------------------------------
(* What follows for every behaviour.                                       *)

\* The inductive invariant holds throughout.
THEOREM Invariance == Spec => []IInv
BY InitIInv, NextIInv, PTL DEF Spec

\* The table, the handle counter, the clock and the generations keep their
\* types through every operation of capability.c.
THEOREM TypeCorrect == Spec => []TypeOK
BY Invariance, PTL DEF IInv

\* Handles are unique in the table: capability64_find_live's first match is
\* its only match.
THEOREM HandlesAreUnique == Spec => []HandlesUnique
BY Invariance, PTL DEF IInv

\* capability64_delegate_with_expiry attenuates and stops after one hop.
THEOREM DelegationIsAttenuating == Spec => []DelegationAttenuates
BY Invariance, PTL DEF IInv

\* A child whose parent has gone answers no capability64_route.
THEOREM OrphansAreUnroutable == Spec => []OrphansUnroutable
  <1>1. ASSUME IInv PROVE OrphansUnroutable
    <2> SUFFICES ASSUME NEW s \in Slots, NEW o \in OwnerArgs, NEW q \in RightsArgs,
                        Active(s), table[s].parent # NoHandle,
                        ~\E p \in Slots : Active(p) /\ table[p].handle = table[s].parent,
                        Routes(table[s].handle, q, o)
                 PROVE  FALSE
      BY DEF OrphansUnroutable
    <2>1. PICK f \in FindLive(table[s].handle) : RecordRuntimeIsCurrent(table[f])
      BY DEF Routes
    <2>2. f = s
      BY <1>1, <2>1 DEF FindLive, IInv, HandlesUnique
    <2>3. table[s].generation # 0 /\ table[s].generation < runtime[table[s].class]
      BY <1>1 DEF IInv, OrphansStale, ParentActive
    <2>4. table[s].generation \in Nat /\ runtime[table[s].class] \in Nat
      BY <1>1, ActiveRecord, CapabilityAssumption DEF IInv, TypeOK, Record
    <2> QED
      BY <2>1, <2>2, <2>3, <2>4 DEF RecordRuntimeIsCurrent
  <1> QED
    BY <1>1, Invariance, PTL

\* Until the tick counter comes within LeaseTicks of the value that means
\* "permanent", every lease of capability64_delegate is short.
THEOREM LeasesAreShort ==
  ASSUME MaxTick + LeaseTicks < Permanent
  PROVE  Spec => []LeaseIsShort
  <1>1. Init => LeaseIsShort
    BY DEF Init, LeaseIsShort, Free
  <1>2. ASSUME IInv, LeaseIsShort, [Next]_vars
        PROVE  LeaseIsShort'
    <2>0. /\ tick \in Nat /\ tick' \in Nat /\ LeaseTicks \in Nat
          /\ tick + LeaseTicks < Permanent
      BY <1>2, NextIInv, CapabilityAssumption DEF IInv, TypeOK, Permanent
    <2>1. LeaseExpiry = tick + LeaseTicks
      BY <2>0, CapabilityAssumption DEF LeaseExpiry, Permanent
    <2>2. \A s \in Slots : Active(s) => table[s].expiry \in Nat
      BY <1>2, ActiveRecord, CapabilityAssumption DEF IInv, Record
    <2>3. CASE ClearStep
      BY <1>2, <2>3 DEF ClearStep, Cleared, LeaseIsShort, Active, RecordExpired, Free
    <2>4. CASE FillStep
      BY <1>2, <2>0, <2>1, <2>4
         DEF FillStep, LeaseIsShort, Active, RecordExpired, IInv, TypeOK
    <2>5. CASE OutsideStep
      BY <1>2, <2>0, <2>2, <2>5 DEF OutsideStep, LeaseIsShort, Active, RecordExpired
    <2> QED
      BY <1>2, <2>3, <2>4, <2>5, NextIInv
  <1> QED
    BY <1>1, <1>2, Invariance, PTL DEF Spec

\* No operation revives or retargets a handle that capability.c has given out.
THEOREM DeadHandlesNeverRevive == Spec => DeadHandlesStayDead
  <1>1. ASSUME IInv, [Next]_vars
        PROVE  /\ \A h \in 1 .. nextHandle - 1 : Usable(h)' => Usable(h)
               /\ \A s, q \in Slots :
                    Active(s) /\ Active(q)' /\ table[s].handle = table'[q].handle
                      => q = s /\ table'[q] = table[s]
    <2>0. /\ nextHandle \in Nat /\ tick \in Nat /\ tick' \in Nat
          /\ \A s \in Slots : table[s].handle \in Nat
          /\ \A s \in Slots : Active(s) => table[s].handle < nextHandle
          /\ \A s, q \in Slots : /\ Active(s) /\ Active(q)
                                  /\ table[s].handle = table[q].handle => s = q
      BY <1>1, NextIInv, ActiveRecord, CapabilityAssumption
         DEF IInv, TypeOK, HandlesUnique, Handles
    <2>1. CASE ClearStep
      <3>1. /\ tick' = tick /\ runtime' = runtime
            /\ \A s \in Slots : Active(s)' => Active(s) /\ table'[s] = table[s]
        BY <2>1 DEF ClearStep, Cleared, Active, Free, NoHandle
      <3> QED
        BY <2>0, <3>1 DEF Usable, FindLive, RecordExpired, RecordRuntimeIsCurrent
    <2>2. CASE FillStep
      <3>1. PICK f \in Slots : /\ ~Active(f)
                               /\ table'[f].handle = nextHandle
                               /\ \A s \in Slots \ {f} : table'[s] = table[s]
        BY <1>1, <2>2 DEF FillStep, IInv, TypeOK
      <3>2. tick' = tick /\ runtime' = runtime
        BY <2>2 DEF FillStep
      <3> QED
        BY <2>0, <3>1, <3>2
           DEF Active, Usable, FindLive, RecordExpired, RecordRuntimeIsCurrent
    <2>3. CASE OutsideStep
      <3>1. ASSUME NEW s \in Slots, Active(s),
                   ~RecordExpired(table[s])', RecordRuntimeIsCurrent(table[s])'
            PROVE  ~RecordExpired(table[s]) /\ RecordRuntimeIsCurrent(table[s])
        <4>1. /\ table[s].generation \in Nat /\ table[s].expiry \in Nat
              /\ table[s].class \in Classes
              /\ runtime[table[s].class] \in Nat /\ runtime'[table[s].class] \in Nat
              /\ table[s].generation <= runtime[table[s].class]
          BY <1>1, <3>1, NextIInv, ActiveRecord, CapabilityAssumption
             DEF IInv, TypeOK, Record, StampsReached
        <4> QED
          BY <2>0, <2>3, <3>1, <4>1 DEF OutsideStep, RecordExpired, RecordRuntimeIsCurrent
      <3>2. table' = table
        BY <2>3 DEF OutsideStep
      <3> QED
        BY <2>0, <3>1, <3>2 DEF Usable, FindLive, Active
    <2> QED
      BY <1>1, <2>1, <2>2, <2>3, NextIInv
  <1> QED
    BY <1>1, Invariance, PTL DEF Spec, DeadHandlesStayDead
=============================================================================
