------------------------ MODULE ControlServiceProofs ------------------------
(***************************************************************************)
(* Proofs about the control service, for any clients, items and bounds,    *)
(* and about two services that outlive a call of it.                       *)
(*                                                                         *)
(* ControlService: while a publish is under way the store shows a revision *)
(* that may still go back, so the invariant speaks of the settled version: *)
(* what the store goes back to if the publish fails.                       *)
(*                                                                         *)
(* RequestDedupe: the cache of outcomes stays bounded and answers a retry, *)
(* for any number of requests, any capacity and any window.                *)
(*                                                                         *)
(* WebListener: the HTTP listener runs with the settings of its last call, *)
(* for any callers and settings.                                           *)
(***************************************************************************)
EXTENDS ControlService, RequestDedupe, WebListener, TLAPS

Applying == request # Idle /\ request.phase = "apply"

SettledDoc == IF Applying THEN request.prev ELSE doc
SettledRevision == IF Applying THEN request.prevRevision ELSE revision
SettledItems == IF SettledDoc = NoDoc THEN {} ELSE SettledDoc.items

\* A copy that is not ahead of the settled version, and is level with it only
\* with the same items.
Behind(x) ==
    /\ x.life <= life
    /\ x.life = life => x.revision <= SettledRevision
    /\ SameVersion(x, [life |-> life, revision |-> SettledRevision]) =>
          x.doc.items = SettledItems

Agree == \A x, y \in Holders : SameVersion(x, y) => x.doc.items = y.doc.items

\* What is being published is in the store, one revision above the settled one.
InFlight == Applying => doc = request.next /\ revision = request.prevRevision + 1

FreshIsZero == SettledDoc = NoDoc => SettledRevision = 0

Versions == Agree /\ (\A x \in Holders : Behind(x)) /\ InFlight /\ FreshIsZero

-----------------------------------------------------------------------------
(* Types                                                                    *)

LEMMA DifferType == ASSUME NEW a \in SUBSET Items, NEW b \in SUBSET Items
                    PROVE  Differ(a, b) \in SUBSET Items
BY DEF Differ

LEMMA ToggleType == ASSUME NEW d \in Document, NEW i \in Items
                    PROVE  /\ Toggle(d, i) \in Document
                           /\ Toggle(d, i).items = Differ(d.items, {i})
BY DifferType DEF Document, Toggle

LEMMA PlanType == ASSUME NEW p \in Document \cup {NoDoc}, NEW n \in Document
                  PROVE  Plan(p, n) \in SUBSET Items
<1>1. n.items \in SUBSET Items /\ (p # NoDoc => p.items \in SUBSET Items)
  BY DEF Document
<1>2. QED
  BY <1>1, DifferType DEF Plan

LEMMA EmptyDocType == EmptyDoc \in Document
BY ConstantsAssumption DEF EmptyDoc, Document

LEMMA CopyType == TypeOK => Copy \in Copies /\ Shown \in Document
BY EmptyDocType DEF TypeOK, Copy, Copies, Shown

\* A step of Replace or Mutate has well-typed effects.
LEMMA CommitType ==
    ASSUME TypeOK, NEW c \in Clients, NEW n \in Document, NEW i \in Items,
           NEW guarded \in BOOLEAN, Commit(c, n, i, guarded)
    PROVE  /\ doc' \in Document
           /\ revision' \in 0..MaxRevision
           /\ request' \in Requests
           /\ life' = life
<1>1. revision + 1 \in 0..MaxRevision
  BY ConstantsAssumption DEF TypeOK, Commit
<1>2. Plan(doc, n) \in SUBSET Items
  BY PlanType DEF TypeOK
<1>3. request' \in Requests
  BY <1>2 DEF Commit, TypeOK, Requests
<1>4. QED
  BY <1>1, <1>3 DEF Commit

LEMMA EnsureMixerType ==
    TypeOK /\ EnsureMixer =>
        /\ lifecycle' \in {"Stopped", "Ready", "Failed"}
        /\ mixer' = NoMixer \/ mixer' \subseteq Items
        /\ refused' \subseteq Items
        /\ orphan' \in BOOLEAN
BY DEF TypeOK, EnsureMixer

\* Taking an item off a request's list, or turning it into its way back.
LEMMA TodoType ==
    ASSUME NEW r \in Requests, NEW s \in SUBSET Items, NEW p \in {"apply", "rollback"}
    PROVE  /\ [r EXCEPT !.todo = s] \in Requests
           /\ [r EXCEPT !.phase = p, !.todo = s] \in Requests
BY DEF Requests

LEMMA LeadType ==
    ASSUME TypeOK, request # Idle, NEW i \in Items, NEW d \in Document, Lead(i, d)
    PROVE  /\ request' \in Requests
           /\ mixer' = NoMixer \/ mixer' \subseteq Items
           /\ refused' \subseteq Items
           /\ orphan' = orphan
<1>1. request \in Requests
  BY DEF TypeOK
<1>2. request.todo \ {i} \in SUBSET Items
  BY <1>1 DEF Requests
<1>3. request' = [request EXCEPT !.todo = request.todo \ {i}]
  BY DEF Lead
<1>4. request' \in Requests
  BY <1>1, <1>2, <1>3, TodoType
<1>5. (mixer' = NoMixer \/ mixer' \subseteq Items) /\ refused' \subseteq Items
  BY DEF Lead, TypeOK
<1>6. QED
  BY <1>4, <1>5 DEF Lead, running

\* Every call, event and step of the host preserves the type invariant.
LEMMA TypeStep == TypeOK /\ [Next]_vars => TypeOK'
<1> SUFFICES ASSUME TypeOK, [Next]_vars PROVE TypeOK'
  OBVIOUS
<1>1. ASSUME NEW c \in Clients, Snapshot(c) PROVE TypeOK'
  BY <1>1, CopyType DEF Snapshot, TypeOK, store, running
<1>2. ASSUME NEW c \in Clients, Adopt(c) PROVE TypeOK'
  BY <1>2 DEF Adopt, TypeOK, store, running
<1>3. ASSUME NEW c \in Clients, NEW i \in Items, NEW guarded \in BOOLEAN,
             Replace(c, i, guarded)
      PROVE TypeOK'
  <2>1. Toggle(base[c].doc, i) \in Document
    BY ToggleType DEF TypeOK, Copies
  <2>2. /\ doc' \in Document \cup {NoDoc} /\ revision' \in 0..MaxRevision
        /\ life' \in 0..MaxLives /\ request' \in Requests \cup {Idle}
    BY <1>3, <2>1, CommitType DEF Replace, Reject, TypeOK, store
  <2>3. EnsureMixer /\ UNCHANGED <<tearing, announced, base>>
    BY <1>3 DEF Replace
  <2>4. QED
    BY <2>2, <2>3, EnsureMixerType DEF TypeOK
<1>4. ASSUME NEW c \in Clients, NEW i \in Items, NEW guarded \in BOOLEAN,
             Mutate(c, i, guarded)
      PROVE TypeOK'
  <2>1. Toggle(doc, i) \in Document
    BY <1>4, ToggleType DEF TypeOK, Mutate
  <2>2. /\ doc' \in Document \cup {NoDoc} /\ revision' \in 0..MaxRevision
        /\ life' \in 0..MaxLives /\ request' \in Requests \cup {Idle}
    BY <1>4, <2>1, CommitType DEF Mutate, Reject, TypeOK, store
  <2>3. EnsureMixer /\ UNCHANGED <<tearing, announced, base>>
    BY <1>4 DEF Mutate
  <2>4. QED
    BY <2>2, <2>3, EnsureMixerType DEF TypeOK
<1>5. CASE CreateFails
  BY <1>5 DEF CreateFails, TypeOK, store, running
<1>6. ASSUME NEW i \in Items, Apply(i) PROVE TypeOK'
  <2>1. request # Idle /\ Lead(i, request.next)
    BY <1>6 DEF Apply
  <2>2. request.next \in Document
    BY <2>1 DEF TypeOK, Requests
  <2>3. request' \in Requests /\ (mixer' = NoMixer \/ mixer' \subseteq Items)
        /\ refused' \subseteq Items /\ orphan' = orphan
    BY <2>1, <2>2, LeadType
  <2>4. QED
    BY <1>6, <2>3 DEF Apply, TypeOK, store
<1>7. ASSUME NEW i \in Items, Rollback(i) PROVE TypeOK'
  <2>1. request \in Requests
    BY <1>7 DEF Rollback, TypeOK
  <2>2. request.todo \ {i} \in SUBSET Items
    BY <2>1 DEF Requests
  <2>3. CASE Lead(i, request.prev)
    <3>1. CASE request.prev \in Document
      BY <1>7, <2>3, <3>1, LeadType DEF Rollback, TypeOK, store
    <3>2. CASE request.prev = NoDoc
      <4>1. /\ request' = [request EXCEPT !.todo = request.todo \ {i}]
            /\ mixer' = NoMixer \/ mixer' \subseteq Items
            /\ refused' \subseteq Items /\ orphan' = orphan
        BY <2>3 DEF Lead, TypeOK
      <4>2. request' \in Requests
        BY <2>1, <2>2, <4>1, TodoType
      <4>3. QED
        BY <1>7, <4>1, <4>2 DEF Rollback, TypeOK, store
    <3>3. QED
      BY <2>1, <3>1, <3>2 DEF Requests
  <2>4. CASE /\ request' = [request EXCEPT !.todo = request.todo \ {i}]
             /\ UNCHANGED running
    <3>1. request' \in Requests
      BY <2>1, <2>2, <2>4, TodoType
    <3>2. QED
      BY <1>7, <2>4, <3>1 DEF Rollback, TypeOK, store, running
  <2>5. QED
    BY <1>7, <2>3, <2>4 DEF Rollback
<1>8. CASE Fail
  <2>1. request \in Requests
    BY <1>8 DEF Fail, TypeOK
  <2>2. request.prev \in Document \cup {NoDoc} /\ request.prevRevision \in 0..MaxRevision
    BY <2>1 DEF Requests
  <2>3. request' \in Requests \cup {Idle}
    <3>1. CASE request.prev = NoDoc
      BY <1>8, <3>1 DEF Fail
    <3>2. CASE request.prev # NoDoc
      <4>1. Plan(request.next, request.prev) \in SUBSET Items
        BY <2>1, <2>2, <3>2, PlanType DEF Requests
      <4>2. request' = [request EXCEPT !.phase = "rollback",
                                       !.todo = Plan(request.next, request.prev)]
        BY <1>8, <3>2 DEF Fail
      <4>3. QED
        BY <2>1, <4>1, <4>2, TodoType
    <3>3. QED
      BY <3>1, <3>2
  <2>4. QED
    BY <1>8, <2>2, <2>3 DEF Fail, TypeOK, running
<1>9. CASE RolledBack
  BY <1>9 DEF RolledBack, TypeOK, store, running
<1>10. CASE Announce
  <2>1. request.next \in Document
    BY <1>10 DEF Announce, TypeOK, Requests
  <2>2. QED
    BY <1>10, <2>1 DEF Announce, TypeOK, Copies, store, running
<1>11. CASE FailLate
  BY <1>11 DEF FailLate, TypeOK, store, running
<1>12. ASSUME NEW on \in OnAir, OverlayAuto(on) PROVE TypeOK'
  <2>1. doc' \in Document
    BY <1>12 DEF OverlayAuto, TypeOK, Document
  <2>2. QED
    BY <1>12, <2>1 DEF OverlayAuto, TypeOK, running
<1>13. ASSUME Abandon
       PROVE  /\ doc' = NoDoc /\ revision' = 0 /\ life' \in 0..MaxLives
              /\ lifecycle' = "Stopped" /\ orphan' \in BOOLEAN
  <2>1. life \in Nat /\ MaxLives \in Nat /\ life < MaxLives /\ life' = life + 1
    BY <1>13, ConstantsAssumption DEF Abandon, TypeOK, ConstantsAssumption
  <2>2. life' \in 0..MaxLives
    BY <2>1
  <2>3. QED
    BY <1>13, <2>2 DEF Abandon
<1>14. CASE Shutdown
  BY <1>13, <1>14, ConstantsAssumption DEF ConstantsAssumption, Shutdown, TypeOK
<1>15. CASE DestroyBegin
  BY <1>13, <1>15, ConstantsAssumption DEF ConstantsAssumption, DestroyBegin, TypeOK, store
<1>16. CASE DestroyEnd
  BY <1>16 DEF DestroyEnd, TypeOK, store
<1>17. CASE CreateMixer
  BY <1>17 DEF CreateMixer, TypeOK, store
<1>18. CASE UNCHANGED vars
  BY <1>18 DEF vars, store, running, TypeOK
<1>19. QED
  BY <1>1, <1>2, <1>3, <1>4, <1>5, <1>6, <1>7, <1>8, <1>9, <1>10, <1>11, <1>12,
     <1>14, <1>15, <1>16, <1>17, <1>18 DEF Next

LEMMA InitType == Init => TypeOK
<1>1. 0 \in 0..MaxRevision /\ 0 \in 0..MaxLives
  BY ConstantsAssumption DEF ConstantsAssumption
<1>2. [life |-> 0, revision |-> 0, doc |-> EmptyDoc] \in Copies
  BY <1>1, EmptyDocType DEF Copies
<1>3. QED
  BY <1>1, <1>2 DEF Init, TypeOK

\* TypeOK holds in every reachable state of the service, for any clients,
\* items and bounds.
THEOREM TypeCorrect == Spec => []TypeOK
<1>1. QED
  BY InitType, TypeStep, PTL DEF Spec

-----------------------------------------------------------------------------
(* Versions                                                                 *)

\* If clients only exchange copies that exist, everyone still agrees.
LEMMA HoldersShrink ==
    ASSUME Versions, Holders' \subseteq Holders, InFlight', FreshIsZero',
           life' = life, SettledRevision' = SettledRevision, SettledItems' = SettledItems
    PROVE  Versions'
<1>1. Agree'
  BY DEF Versions, Agree, SameVersion
<1>2. ASSUME NEW x \in Holders' PROVE Behind(x)'
  BY <1>2 DEF Versions, Behind, SameVersion
<1>3. QED
  BY <1>1, <1>2 DEF Versions

\* A reader of the settled version joins those who agree.
LEMMA HoldersReadStore ==
    ASSUME TypeOK, Versions, ~Applying, Holders' \subseteq Holders \cup {Copy},
           InFlight', FreshIsZero', life' = life,
           SettledRevision' = SettledRevision, SettledItems' = SettledItems
    PROVE  Versions'
<1>1. Copy.life = life /\ Copy.revision = SettledRevision /\ Copy.doc.items = SettledItems
  BY DEF Copy, Shown, EmptyDoc, SettledRevision, SettledItems, SettledDoc
<1>2. ASSUME NEW x \in Holders, SameVersion(x, Copy) PROVE x.doc.items = Copy.doc.items
  BY <1>1, <1>2 DEF Versions, Behind, SameVersion
<1>3. Agree'
  BY <1>2 DEF Versions, Agree, SameVersion
<1>4. life \in Nat /\ SettledRevision \in Nat
  BY DEF TypeOK, SettledRevision, Requests
<1>5. Behind(Copy)
  BY <1>1, <1>4 DEF Behind, SameVersion
<1>6. ASSUME NEW x \in Holders' PROVE Behind(x)'
  BY <1>5, <1>6 DEF Versions, Behind, SameVersion
<1>7. QED
  BY <1>3, <1>6 DEF Versions

\* A publish that is under way and has been carried out becomes the settled
\* version, ahead of every copy that anyone holds.
LEMMA HoldersAdvance ==
    ASSUME TypeOK, Versions, Applying, request' = Idle, UNCHANGED store,
           Holders' \subseteq
               Holders \cup {[life |-> life, revision |-> revision, doc |-> request.next]}
    PROVE  Versions'
<1> DEFINE new == [life |-> life, revision |-> revision, doc |-> request.next]
<1>1. /\ doc = request.next /\ revision = request.prevRevision + 1
      /\ request.prevRevision \in Nat /\ SettledRevision = request.prevRevision
  BY DEF Versions, InFlight, Applying, TypeOK, Requests, SettledRevision
<1>2. doc # NoDoc
  BY <1>1, ModelValuesAreDistinct DEF ModelValuesAreDistinct, Applying, TypeOK, Requests
<1>3. ~Applying' /\ SettledRevision' = revision /\ SettledItems' = request.next.items
  BY <1>1, <1>2 DEF Applying, SettledRevision, SettledItems, SettledDoc, store
<1>4. ASSUME NEW x \in Holders PROVE x.life <= life /\ ~SameVersion(x, new)
  <2>1. Behind(x)
    BY DEF Versions
  <2>2. x.life = life => x.revision <= request.prevRevision
    BY <1>1, <2>1 DEF Behind
  <2>3. x.life = life => x.revision \in Nat
    BY DEF TypeOK, Copies, Holders
  <2>4. x.life = life => x.revision # revision
    BY <1>1, <2>2, <2>3
  <2>5. QED
    BY <2>1, <2>4 DEF SameVersion, Behind
<1>5. Agree'
  BY <1>4 DEF Versions, Agree, SameVersion
<1>6. ASSUME NEW x \in Holders' PROVE Behind(x)'
  <2>1. CASE x = new
    <3>1. revision \in Nat /\ life \in Nat
      BY DEF TypeOK
    <3>2. QED
      BY <1>3, <2>1, <3>1 DEF Behind, SameVersion, store
  <2>2. CASE x \in Holders
    <3>1. Behind(x) /\ x.life <= life /\ ~SameVersion(x, new)
      BY <1>4, <2>2 DEF Versions
    <3>2. x.life = life => x.revision <= revision
      <4>1. x.life = life => x.revision <= request.prevRevision /\ x.revision \in Nat
        BY <1>1, <2>2, <3>1 DEF Behind, TypeOK, Copies, Holders
      <4>2. QED
        BY <1>1, <4>1
    <3>3. QED
      BY <1>3, <3>1, <3>2 DEF Behind, SameVersion, store
  <2>3. QED
    BY <1>6, <2>1, <2>2
<1>7. InFlight' /\ FreshIsZero'
  BY <1>2, <1>3 DEF InFlight, FreshIsZero, SettledDoc, store
<1>8. QED
  BY <1>5, <1>6, <1>7 DEF Versions

\* A commit leaves the settled version as it was.
LEMMA CommitSettles ==
    ASSUME TypeOK, Versions, request = Idle, NEW c \in Clients, NEW n \in Document,
           NEW i \in Items, NEW guarded \in BOOLEAN,
           Commit(c, n, i, guarded) \/ Reject, UNCHANGED <<announced, base>>
    PROVE  Versions'
<1>1. Holders' = Holders /\ ~Applying
  BY DEF Holders, Applying
<1>2. CASE Commit(c, n, i, guarded)
  <2>1. request' # Idle
    BY <1>2, CommitType, ModelValuesAreDistinct DEF ModelValuesAreDistinct
  <2>2. /\ request'.prev = doc /\ request'.prevRevision = revision
        /\ request'.next = n /\ request'.phase = "apply" /\ life' = life
        /\ doc' = n /\ revision' = revision + 1
    BY <1>2 DEF Commit
  <2>3. Applying' /\ SettledDoc' = SettledDoc /\ SettledRevision' = SettledRevision
    BY <1>1, <2>1, <2>2 DEF Applying, SettledDoc, SettledRevision
  <2>4. SettledItems' = SettledItems /\ FreshIsZero' /\ InFlight'
    BY <2>2, <2>3 DEF SettledItems, FreshIsZero, InFlight, Versions
  <2>5. QED
    BY <1>1, <2>2, <2>3, <2>4, HoldersShrink
<1>3. CASE Reject
  <2>1. /\ SettledRevision' = SettledRevision /\ SettledItems' = SettledItems
        /\ InFlight' /\ FreshIsZero' /\ life' = life
    BY <1>3 DEF Reject, store, SettledRevision, SettledItems, SettledDoc, InFlight,
                FreshIsZero, Applying, Versions
  <2>2. QED
    BY <1>1, <2>1, HoldersShrink
<1>4. QED
  BY <1>2, <1>3

\* A session that is abandoned leaves every copy behind.
LEMMA AbandonSettles ==
    ASSUME TypeOK, Versions, request = Idle, Abandon, UNCHANGED <<request, announced, base>>
    PROVE  Versions'
<1>1. Holders' = Holders /\ life' = life + 1 /\ ~Applying'
  BY DEF Holders, Applying, Abandon
<1>2. ASSUME NEW x \in Holders PROVE x.life <= life' /\ x.life # life'
  <2>1. x.life \in Nat /\ x.life <= life /\ life \in Nat
    BY DEF TypeOK, Copies, Holders, Versions, Behind
  <2>2. QED
    BY <1>1, <2>1
<1>3. Agree' /\ \A x \in Holders : Behind(x)'
  BY <1>1, <1>2 DEF Agree, Behind, SameVersion, Versions
<1>4. InFlight' /\ FreshIsZero'
  BY <1>1 DEF InFlight, FreshIsZero, SettledDoc, SettledRevision, Abandon
<1>5. QED
  BY <1>1, <1>3, <1>4 DEF Versions

\* A step that touches neither the store nor anyone's copy, and leaves the
\* request in its phase.
LEMMA Elsewhere ==
    ASSUME Versions, UNCHANGED <<store, announced, base>>,
           \/ UNCHANGED request
           \/ ~Applying /\ ~Applying'
           \/ /\ Applying /\ Applying'
              /\ request'.prev = request.prev /\ request'.next = request.next
              /\ request'.prevRevision = request.prevRevision
    PROVE  Versions'
<1>1. Holders' = Holders
  BY DEF Holders
<1>2. /\ SettledRevision' = SettledRevision /\ SettledItems' = SettledItems
      /\ InFlight' /\ FreshIsZero' /\ life' = life
  BY DEF store, SettledRevision, SettledItems, SettledDoc, InFlight, FreshIsZero,
         Applying, Versions
<1>3. QED
  BY <1>1, <1>2, HoldersShrink

\* Every step of the service preserves the agreement about versions.
LEMMA VersionsStep == TypeOK /\ Versions /\ [Next]_vars => Versions'
<1> SUFFICES ASSUME TypeOK, Versions, [Next]_vars PROVE Versions'
  OBVIOUS
<1>1. ASSUME NEW c \in Clients, Snapshot(c) PROVE Versions'
  <2>1. Holders' \subseteq Holders \cup {Copy} /\ ~Applying
    BY <1>1 DEF Snapshot, Holders, Applying, TypeOK
  <2>2. /\ SettledRevision' = SettledRevision /\ SettledItems' = SettledItems
        /\ InFlight' /\ FreshIsZero' /\ life' = life
    BY <1>1 DEF Snapshot, store, SettledRevision, SettledItems, SettledDoc, InFlight,
                FreshIsZero, Applying, Versions
  <2>3. QED
    BY <2>1, <2>2, HoldersReadStore
<1>2. ASSUME NEW c \in Clients, Adopt(c) PROVE Versions'
  <2>1. Holders' \subseteq Holders
    BY <1>2 DEF Adopt, Holders, TypeOK
  <2>2. /\ SettledRevision' = SettledRevision /\ SettledItems' = SettledItems
        /\ InFlight' /\ FreshIsZero' /\ life' = life
    BY <1>2 DEF Adopt, store, SettledRevision, SettledItems, SettledDoc, InFlight,
                FreshIsZero, Applying, Versions
  <2>3. QED
    BY <2>1, <2>2, HoldersShrink
<1>3. ASSUME NEW c \in Clients, NEW i \in Items, NEW guarded \in BOOLEAN,
             Replace(c, i, guarded)
      PROVE Versions'
  <2>1. Toggle(base[c].doc, i) \in Document
    BY ToggleType DEF TypeOK, Copies
  <2>2. /\ Commit(c, Toggle(base[c].doc, i), i, guarded) \/ Reject
        /\ request = Idle /\ UNCHANGED <<announced, base>>
    BY <1>3 DEF Replace
  <2>3. QED
    BY <2>1, <2>2, CommitSettles
<1>4. ASSUME NEW c \in Clients, NEW i \in Items, NEW guarded \in BOOLEAN,
             Mutate(c, i, guarded)
      PROVE Versions'
  <2>1. Toggle(doc, i) \in Document
    BY <1>4, ToggleType DEF TypeOK, Mutate
  <2>2. /\ Commit(c, Toggle(doc, i), i, guarded) \/ Reject
        /\ request = Idle /\ UNCHANGED <<announced, base>>
    BY <1>4 DEF Mutate
  <2>3. QED
    BY <2>1, <2>2, CommitSettles
<1>5. CASE CreateFails
  BY <1>5, Elsewhere DEF CreateFails
<1>6. ASSUME NEW i \in Items, NEW d, request \in Requests, request # Idle, Lead(i, d),
             UNCHANGED <<store, announced, base>>
      PROVE Versions'
  <2>1. request' = [request EXCEPT !.todo = request.todo \ {i}]
    BY <1>6 DEF Lead
  <2>2. /\ request'.phase = request.phase /\ request'.prev = request.prev
        /\ request'.next = request.next /\ request'.prevRevision = request.prevRevision
    BY <1>6, <2>1 DEF Requests
  <2>3. request.todo \ {i} \in SUBSET Items
    BY <1>6 DEF Requests
  <2>4. request' # Idle
    BY <1>6, <2>1, <2>3, TodoType, ModelValuesAreDistinct DEF ModelValuesAreDistinct
  <2>5. QED
    BY <1>6, <2>2, <2>4, Elsewhere DEF Applying
<1>7. ASSUME NEW i \in Items, Apply(i) PROVE Versions'
  BY <1>6, <1>7 DEF Apply, TypeOK
<1>8. ASSUME NEW i \in Items, Rollback(i) PROVE Versions'
  <2>1. CASE Lead(i, request.prev)
    BY <1>6, <1>8, <2>1 DEF Rollback, TypeOK
  <2>2. CASE request' = [request EXCEPT !.todo = request.todo \ {i}]
    <3>1. request'.phase = "rollback"
      BY <1>8, <2>2 DEF Rollback, TypeOK, Requests
    <3>2. QED
      BY <1>8, <3>1, Elsewhere DEF Rollback, Applying
  <2>3. QED
    BY <1>8, <2>1, <2>2 DEF Rollback
<1>9. CASE Fail
  <2>1. Applying /\ Holders' = Holders /\ request \in Requests
    BY <1>9 DEF Fail, Applying, Holders, TypeOK
  <2>2. ~Applying'
    <3>1. CASE request.prev = NoDoc
      BY <1>9, <3>1 DEF Fail, Applying
    <3>2. CASE request.prev # NoDoc
      <4>1. request'.phase = "rollback"
        BY <1>9, <2>1, <3>2 DEF Fail, Requests
      <4>2. QED
        BY <4>1 DEF Applying
    <3>3. QED
      BY <3>1, <3>2
  <2>3. /\ SettledDoc' = SettledDoc /\ SettledRevision' = SettledRevision /\ life' = life
    BY <1>9, <2>1, <2>2 DEF Fail, SettledDoc, SettledRevision
  <2>4. SettledItems' = SettledItems /\ InFlight' /\ FreshIsZero'
    BY <2>2, <2>3 DEF SettledItems, InFlight, FreshIsZero, Versions
  <2>5. QED
    BY <2>1, <2>3, <2>4, HoldersShrink
<1>10. CASE RolledBack
  BY <1>10, Elsewhere DEF RolledBack, Applying
<1>11. CASE Announce
  <2>1. Holders' \subseteq
            Holders \cup {[life |-> life, revision |-> revision, doc |-> request.next]}
    BY <1>11 DEF Announce, Holders
  <2>2. QED
    BY <1>11, <2>1, HoldersAdvance DEF Announce, Applying
<1>12. CASE FailLate
  <2>1. Holders' = Holders
    BY <1>12 DEF FailLate, Holders
  <2>2. QED
    BY <1>12, <2>1, HoldersAdvance DEF FailLate, Applying
<1>13. ASSUME NEW on \in OnAir, OverlayAuto(on) PROVE Versions'
  <2>1. Holders' = Holders /\ ~Applying /\ ~Applying'
    BY <1>13 DEF OverlayAuto, Holders, Applying
  <2>2. doc \in Document /\ doc' \in Document /\ doc'.items = doc.items
    BY <1>13 DEF OverlayAuto, TypeOK, Document
  <2>3. doc # NoDoc /\ doc' # NoDoc
    BY <2>2, ModelValuesAreDistinct DEF ModelValuesAreDistinct
  <2>4. /\ SettledRevision' = SettledRevision /\ SettledItems' = SettledItems
        /\ InFlight' /\ FreshIsZero' /\ life' = life
    BY <1>13, <2>1, <2>2, <2>3
    DEF OverlayAuto, SettledRevision, SettledItems, SettledDoc, InFlight, FreshIsZero
  <2>5. QED
    BY <2>1, <2>4, HoldersShrink
<1>14. CASE Shutdown
  BY <1>14, AbandonSettles DEF Shutdown
<1>15. CASE DestroyBegin
  <2>1. CASE request = Idle
    BY <1>15, <2>1, AbandonSettles DEF DestroyBegin
  <2>2. CASE request # Idle
    BY <1>15, <2>2, Elsewhere DEF DestroyBegin
  <2>3. QED
    BY <2>1, <2>2
<1>16. CASE DestroyEnd
  BY <1>16, Elsewhere DEF DestroyEnd
<1>17. CASE CreateMixer
  BY <1>17, Elsewhere DEF CreateMixer
<1>18. CASE UNCHANGED vars
  BY <1>18, Elsewhere DEF vars
<1>19. QED
  BY <1>1, <1>2, <1>3, <1>4, <1>5, <1>7, <1>8, <1>9, <1>10, <1>11, <1>12, <1>13,
     <1>14, <1>15, <1>16, <1>17, <1>18 DEF Next

LEMMA InitVersions == Init => Versions
<1> SUFFICES ASSUME Init PROVE Versions
  OBVIOUS
<1> DEFINE first == [life |-> 0, revision |-> 0, doc |-> EmptyDoc]
<1>1. Holders \subseteq {first} /\ ~Applying
  BY DEF Init, Holders, Applying
<1>2. SettledRevision = 0 /\ SettledItems = {} /\ life = 0
  BY <1>1 DEF Init, SettledRevision, SettledItems, SettledDoc
<1>3. Behind(first)
  BY <1>2 DEF Behind, EmptyDoc
<1>4. QED
  BY <1>1, <1>2, <1>3 DEF Versions, Agree, InFlight, FreshIsZero

LEMMA VersionsInvariant == Spec => [](TypeOK /\ Versions)
<1>1. QED
  BY InitType, InitVersions, TypeStep, VersionsStep, PTL DEF Spec

\* Within one life of the session a revision names one set of items, whatever
\* publishes fail, go back or fail late, for any number of clients and items.
THEOREM VersionsAgree == Spec => []RevisionNamesItems
<1>1. TypeOK /\ Versions => RevisionNamesItems
  <2> SUFFICES ASSUME TypeOK, Versions PROVE RevisionNamesItems
    OBVIOUS
  <2>1. ASSUME request = Idle, NEW x \in Holders, SameVersion(x, Copy)
        PROVE  x.doc.items = Shown.items
    <3>1. Behind(x) /\ Copy.life = life /\ Copy.revision = SettledRevision
      BY <2>1 DEF Versions, Copy, SettledRevision, Applying
    <3>2. SettledItems = Shown.items
      BY <2>1 DEF SettledItems, SettledDoc, Applying, Shown, EmptyDoc
    <3>3. QED
      BY <2>1, <3>1, <3>2 DEF Behind, SameVersion
  <2>2. QED
    BY <2>1 DEF RevisionNamesItems, Versions, Agree
<1>2. QED
  BY <1>1, VersionsInvariant, PTL

\* A publish guarded by expected_revision changes the item its client edited
\* and no other, as long as the session was not abandoned in between.
THEOREM GuardHolds == Spec => GuardedPublishLosesNothing
<1> DEFINE Kept ==
      Begins /\ request'.guarded /\ base[request'.by].life = life
        => doc'.items = Differ(Shown.items, {request'.item})
<1>1. TypeOK /\ Versions /\ [Next]_vars => [Kept]_vars
  <2> SUFFICES ASSUME TypeOK, Versions, Next, Begins, request'.guarded,
                      base[request'.by].life = life
               PROVE  doc'.items = Differ(Shown.items, {request'.item})
    BY DEF Kept
  <2>1. ASSUME NEW c \in Clients, NEW i \in Items, NEW guarded \in BOOLEAN,
               NEW n \in Document, Commit(c, n, i, guarded)
        PROVE  /\ request'.by = c /\ request'.item = i /\ request'.guarded = guarded
               /\ doc' = n /\ ~Conflict(guarded, base[c].revision)
    BY <2>1 DEF Commit
  <2>2. ASSUME NEW c \in Clients, NEW i \in Items, NEW guarded \in BOOLEAN,
               Replace(c, i, guarded)
        PROVE  doc'.items = Differ(Shown.items, {request'.item})
    <3>1. /\ Toggle(base[c].doc, i) \in Document
          /\ Toggle(base[c].doc, i).items = Differ(base[c].doc.items, {i})
      BY ToggleType DEF TypeOK, Copies
    <3>2. Commit(c, Toggle(base[c].doc, i), i, guarded)
      BY <2>2 DEF Replace, Reject, Begins
    <3>3. guarded /\ request'.item = i /\ base[c].life = life
          /\ ~Conflict(guarded, base[c].revision)
          /\ doc'.items = Differ(base[c].doc.items, {i})
      <4>1. /\ request'.by = c /\ request'.item = i /\ request'.guarded = guarded
            /\ doc' = Toggle(base[c].doc, i) /\ ~Conflict(guarded, base[c].revision)
        BY <2>1, <3>1, <3>2
      <4>2. QED
        BY <3>1, <4>1
    <3>4. Behind(base[c]) /\ base[c].revision \in Nat
      BY DEF Versions, Holders, TypeOK, Copies
    <3>5. SettledRevision = revision /\ SettledItems = Shown.items
      BY DEF Begins, SettledRevision, SettledItems, SettledDoc, Applying, Shown, EmptyDoc
    <3>6. base[c].revision = revision
      <4>1. CASE doc = NoDoc
        <5>1. revision = 0
          BY <4>1 DEF Versions, FreshIsZero, SettledDoc, SettledRevision, Applying, Begins
        <5>2. base[c].revision <= revision
          BY <3>3, <3>4, <3>5 DEF Behind
        <5>3. QED
          BY <3>4, <5>1, <5>2
      <4>2. CASE doc # NoDoc
        BY <3>3, <4>2 DEF Conflict
      <4>3. QED
        BY <4>1, <4>2
    <3>7. base[c].doc.items = Shown.items
      BY <3>3, <3>4, <3>5, <3>6 DEF Behind, SameVersion
    <3>8. QED
      BY <3>3, <3>7
  <2>3. ASSUME NEW c \in Clients, NEW i \in Items, NEW guarded \in BOOLEAN,
               Mutate(c, i, guarded)
        PROVE  doc'.items = Differ(Shown.items, {request'.item})
    <3>1. /\ Toggle(doc, i) \in Document
          /\ Toggle(doc, i).items = Differ(doc.items, {i})
      BY <2>3, ToggleType DEF TypeOK, Mutate
    <3>2. Commit(c, Toggle(doc, i), i, guarded) /\ Shown = doc
      BY <2>3 DEF Mutate, Reject, Begins, Shown
    <3>3. QED
      BY <2>1, <3>1, <3>2
  <2>4. QED
    BY <2>2, <2>3 DEF Next, Begins, Snapshot, Adopt, CreateFails, Apply, Rollback, Fail,
       RolledBack, Announce, FailLate, OverlayAuto, Shutdown, DestroyBegin, DestroyEnd,
       CreateMixer
<1>2. QED
  BY <1>1, VersionsInvariant, PTL DEF Spec, GuardedPublishLosesNothing

-----------------------------------------------------------------------------
(* What runs *)

Carries(items) == mixer # NoMixer /\ items \subseteq mixer \cup refused

\* A publish has led to the new document, and its rollback back to the old one,
\* all items but those that are still to do; and what both documents have is
\* not among these.
Led ==
    ~orphan =>
        /\ request = Idle /\ doc # NoDoc => Carries(doc.items)
        /\ Applying =>
              /\ Carries(request.next.items \ request.todo)
              /\ request.todo \subseteq Plan(request.prev, request.next)
        /\ request # Idle /\ request.phase = "rollback" =>
              /\ doc = request.prev /\ doc # NoDoc
              /\ Carries(doc.items \ request.todo)

\* An operation takes its item off the list, and leaves it running or refused if
\* the document has it.
LEMMA LeadLeads ==
    ASSUME TypeOK, request # Idle, NEW i \in Items, NEW d \in Document, Lead(i, d),
           Carries(d.items \ request.todo)
    PROVE  /\ request' = [request EXCEPT !.todo = request.todo \ {i}]
           /\ request' \in Requests
           /\ mixer' # NoMixer
           /\ d.items \ (request.todo \ {i}) \subseteq mixer' \cup refused'
           /\ orphan' = orphan
<1>1. \A s \in SUBSET Items : s # NoMixer
  BY ConstantsAssumption
<1>2. mixer' # NoMixer /\ d.items \ (request.todo \ {i}) \subseteq mixer' \cup refused'
  BY <1>1 DEF Lead, Carries, TypeOK
<1>3. QED
  BY <1>2, LeadType DEF Lead

\* Replace and Mutate start with a mixer, and with the items that both documents
\* have in it.
LEMMA CommitLeads ==
    ASSUME TypeOK, Led, request = Idle, EnsureMixer,
           NEW c \in Clients, NEW n \in Document, NEW i \in Items, NEW guarded \in BOOLEAN,
           Commit(c, n, i, guarded) \/ Reject
    PROVE  Led'
<1>1. orphan' = orphan
  BY DEF EnsureMixer
<1>2. SUFFICES ASSUME ~orphan PROVE Led'
  BY <1>1 DEF Led
<1>3. mixer' # NoMixer
  BY ConstantsAssumption DEF EnsureMixer
<1>4. doc # NoDoc => doc.items \subseteq mixer' \cup refused'
  BY <1>2 DEF Led, Carries, EnsureMixer
<1>5. CASE Commit(c, n, i, guarded)
  <2>1. /\ request' \in Requests /\ request'.phase = "apply" /\ request'.next = n
        /\ request'.prev = doc /\ request'.todo = Plan(doc, n) /\ doc' = n
    BY <1>5, CommitType DEF Commit
  <2>2. request' # Idle
    BY <2>1, ModelValuesAreDistinct
  <2>3. n.items \ request'.todo \subseteq mixer' \cup refused'
    BY <1>4, <2>1 DEF Plan, Differ
  <2>4. QED
    BY <1>3, <2>1, <2>2, <2>3 DEF Led, Carries, Applying
<1>6. CASE Reject
  BY <1>3, <1>4, <1>6 DEF Reject, store, Led, Carries, Applying
<1>7. QED
  BY <1>5, <1>6

LEMMA LedStep == TypeOK /\ Versions /\ Led /\ [Next]_vars => Led'
<1> SUFFICES ASSUME TypeOK, Versions, Led, [Next]_vars PROVE Led'
  OBVIOUS
<1>1. ASSUME NEW c \in Clients, Snapshot(c) \/ Adopt(c) PROVE Led'
  BY <1>1 DEF Snapshot, Adopt, store, running, Led, Carries, Applying, Plan, Differ
<1>2. ASSUME NEW c \in Clients, NEW i \in Items, NEW guarded \in BOOLEAN,
             Replace(c, i, guarded)
      PROVE Led'
  <2>1. Toggle(base[c].doc, i) \in Document
    BY ToggleType DEF TypeOK, Copies
  <2>2. QED
    BY <1>2, <2>1, CommitLeads DEF Replace
<1>3. ASSUME NEW c \in Clients, NEW i \in Items, NEW guarded \in BOOLEAN,
             Mutate(c, i, guarded)
      PROVE Led'
  <2>1. Toggle(doc, i) \in Document
    BY <1>3, ToggleType DEF TypeOK, Mutate
  <2>2. QED
    BY <1>3, <2>1, CommitLeads DEF Mutate
<1>4. CASE CreateFails
  BY <1>4 DEF CreateFails, store, running, Led, Carries, Applying, Plan, Differ
<1>5. ASSUME NEW i \in Items, Apply(i) PROVE Led'
  <2>1. /\ request # Idle /\ request.phase = "apply" /\ Lead(i, request.next)
        /\ request \in Requests /\ request.next \in Document
    BY <1>5 DEF Apply, TypeOK, Requests
  <2>2. SUFFICES ASSUME ~orphan PROVE Led'
    BY <2>1 DEF Led, Lead
  <2>3. /\ Carries(request.next.items \ request.todo)
        /\ request.todo \subseteq Plan(request.prev, request.next)
    BY <2>1, <2>2 DEF Led, Applying
  <2>4. /\ request' = [request EXCEPT !.todo = request.todo \ {i}]
        /\ request' \in Requests
        /\ mixer' # NoMixer
        /\ request.next.items \ (request.todo \ {i}) \subseteq mixer' \cup refused'
    BY <2>1, <2>3, LeadLeads
  <2>5. /\ request'.phase = "apply" /\ request'.next = request.next
        /\ request'.prev = request.prev /\ request'.todo = request.todo \ {i}
    BY <2>1, <2>4 DEF Requests
  <2>6. request' # Idle
    BY <2>4, ModelValuesAreDistinct
  <2>7. QED
    BY <2>3, <2>4, <2>5, <2>6 DEF Led, Carries, Applying
<1>6. ASSUME NEW i \in Items, Rollback(i) PROVE Led'
  <2>1. /\ request # Idle /\ request.phase = "rollback" /\ request \in Requests
        /\ UNCHANGED <<doc, orphan>>
    BY <1>6 DEF Rollback, TypeOK, store, Lead, running
  <2>2. SUFFICES ASSUME ~orphan PROVE Led'
    BY <2>1 DEF Led
  <2>3. doc = request.prev /\ doc # NoDoc /\ Carries(doc.items \ request.todo) /\ doc \in Document
    BY <2>1, <2>2 DEF Led, TypeOK
  <2>4. Lead(i, doc)
    BY <1>6, <2>3 DEF Rollback, Carries
  <2>5. /\ request' = [request EXCEPT !.todo = request.todo \ {i}]
        /\ request' \in Requests
        /\ mixer' # NoMixer
        /\ doc.items \ (request.todo \ {i}) \subseteq mixer' \cup refused'
    BY <2>1, <2>3, <2>4, LeadLeads
  <2>6. /\ request'.phase = "rollback" /\ request'.prev = request.prev
        /\ request'.todo = request.todo \ {i}
    BY <2>1, <2>5 DEF Requests
  <2>7. request' # Idle
    BY <2>5, ModelValuesAreDistinct
  <2>8. QED
    BY <2>1, <2>3, <2>5, <2>6, <2>7 DEF Led, Carries, Applying
<1>7. CASE Fail
  <2>1. /\ request # Idle /\ request.phase = "apply" /\ request \in Requests
        /\ request.prev \in Document \cup {NoDoc} /\ request.next \in Document
        /\ doc' = request.prev /\ UNCHANGED <<mixer, refused, orphan>>
    BY <1>7 DEF Fail, TypeOK, Requests, running
  <2>2. CASE request.prev = NoDoc
    BY <1>7, <2>1, <2>2 DEF Fail, Led, Applying
  <2>3. CASE request.prev # NoDoc
    <3>1. request' = [request EXCEPT !.phase = "rollback",
                                     !.todo = Plan(request.next, request.prev)]
      BY <1>7, <2>3 DEF Fail
    <3>2. /\ request'.phase = "rollback" /\ request'.prev = request.prev
          /\ request'.todo = Plan(request.next, request.prev)
      BY <2>1, <3>1 DEF Requests
    <3>3. ~orphan => request.prev.items \ Plan(request.next, request.prev)
                        \subseteq request.next.items \ request.todo
      BY <2>1, <2>3 DEF Led, Applying, Plan, Differ, Requests
    <3>4. ~orphan => Carries(request.next.items \ request.todo)
      BY <2>1 DEF Led, Applying
    <3>5. ~orphan => mixer' # NoMixer /\ doc'.items \ request'.todo \subseteq mixer' \cup refused'
      BY <2>1, <3>2, <3>3, <3>4 DEF Carries
    <3>6. ~Applying' /\ doc' = request'.prev /\ doc' # NoDoc
      BY <2>1, <2>3, <3>2 DEF Applying
    <3>7. request' # Idle
      <4>1. Plan(request.next, request.prev) \in SUBSET Items
        BY <2>1, <2>3, PlanType
      <4>2. QED
        BY <2>1, <3>1, <4>1, TodoType, ModelValuesAreDistinct
    <3>8. orphan' = orphan
      BY <2>1
    <3>9. QED
      BY <3>2, <3>5, <3>6, <3>7, <3>8 DEF Led, Carries
  <2>4. QED
    BY <2>2, <2>3
<1>8. CASE RolledBack
  <2>1. /\ request # Idle /\ request.phase = "rollback" /\ request.todo = {} /\ request' = Idle
        /\ UNCHANGED <<doc, mixer, refused, orphan>>
    BY <1>8 DEF RolledBack, store, running
  <2>2. QED
    BY <2>1 DEF Led, Carries, Applying
<1>9. CASE Announce \/ FailLate
  <2>1. /\ Applying /\ request.todo = {} /\ request' = Idle
        /\ UNCHANGED <<doc, mixer, refused, orphan>>
    BY <1>9 DEF Announce, FailLate, store, running, Applying
  <2>2. doc = request.next
    BY <2>1 DEF Versions, InFlight
  <2>3. QED
    BY <2>1, <2>2 DEF Led, Carries, Applying
<1>10. ASSUME NEW on \in OnAir, OverlayAuto(on) PROVE Led'
  <2>1. /\ request = Idle /\ doc # NoDoc /\ doc \in Document
        /\ doc' = [doc EXCEPT !.onair = on]
        /\ UNCHANGED <<request, mixer, refused, orphan>>
    BY <1>10 DEF OverlayAuto, TypeOK, running
  <2>2. doc'.items = doc.items
    BY <2>1 DEF Document
  <2>3. QED
    BY <2>1, <2>2 DEF Led, Carries, Applying
<1>11. CASE Shutdown
  BY <1>11 DEF Shutdown, Abandon, Led, Applying
<1>12. CASE DestroyBegin
  BY <1>12 DEF DestroyBegin, Abandon, Led, Carries, Applying, store
<1>13. CASE DestroyEnd
  BY <1>13 DEF DestroyEnd, Led, Applying, store
<1>14. CASE CreateMixer
  <2>1. mixer = NoMixer /\ UNCHANGED <<request, doc, orphan>>
    BY <1>14 DEF CreateMixer, store
  <2>2. QED
    BY <2>1, ConstantsAssumption DEF Led, Carries, Applying
<1>15. CASE UNCHANGED vars
  BY <1>15 DEF vars, store, running, Led, Carries, Applying, Plan, Differ
<1>16. QED
  BY <1>1, <1>2, <1>3, <1>4, <1>5, <1>6, <1>7, <1>8, <1>9, <1>10, <1>11, <1>12, <1>13,
     <1>14, <1>15 DEF Next

LEMMA InitLed == Init => Led
BY DEF Init, Led, Applying

\* While nobody destroys the mixer under it, every item of the session runs or
\* was refused once no publish is under way, for any clients, items and failures
\* (plan and the rollback of replace_session).
THEOREM SessionRuns == Spec => []EverythingRuns
<1>1. Led => EverythingRuns
  BY DEF Led, EverythingRuns, Carries
<1>2. QED
  BY <1>1, InitType, InitVersions, InitLed, TypeStep, VersionsStep, LedStep, PTL DEF Spec
-----------------------------------------------------------------------------
(* The cache of outcomes (RequestDedupe)                                    *)

(***************************************************************************)
(* A request that ran once has no place in the queue but the one that the  *)
(* number of newer requests gives it: only then does eviction take the     *)
(* oldest, and not a key that was stored again.                            *)
(***************************************************************************)
OnlyPlace ==
    \A i \in 1..Len(order) :
        /\ ran[order[i]] # NotCached
        /\ order[i] \notin repeated => i = Len(order) - newer[order[i]]

DedupeInv == DedupeTypeOK /\ CacheIsBounded /\ KeepsItsPlace /\ OnlyPlace

(***************************************************************************)
(* The queue after k was stored: k is last, what stays moves up by one     *)
(* place if the oldest key made room.                                      *)
(***************************************************************************)
LEMMA QueuedPlaces ==
    ASSUME DedupeTypeOK, Len(order) <= Cap, NEW k \in RequestKeys
    PROVE  /\ Queued(k) \in Seq(RequestKeys)
           /\ Len(Queued(k)) = IF Full THEN Len(order) ELSE Len(order) + 1
           /\ Len(Queued(k)) \in 1..Cap
           /\ Queued(k)[Len(Queued(k))] = k
           /\ \A i \in 1..(Len(Queued(k)) - 1) :
                  Queued(k)[i] = IF Full THEN order[i + 1] ELSE order[i]
           /\ Full => Len(order) = Cap /\ order # <<>>
<1> USE DedupeAssumption DEF DedupeAssumption, DedupeTypeOK
<1>1. CASE Full
  <2>1. Len(order) = Cap /\ order # <<>> /\ Len(order) \in Nat
    BY <1>1 DEF Full
  <2>2. /\ Tail(order) \in Seq(RequestKeys) /\ Len(Tail(order)) = Len(order) - 1
        /\ \A i \in 1..(Len(order) - 1) : Tail(order)[i] = order[i + 1]
    BY <2>1
  <2> QED BY <1>1, <2>1, <2>2 DEF Queued
<1>2. CASE ~Full
  <2>1. Len(order) < Cap /\ Len(order) \in Nat
    BY <1>2 DEF Full
  <2> QED BY <1>2, <2>1 DEF Queued
<1> QED BY <1>1, <1>2

(***************************************************************************)
(* Running a request that the cache does not have keeps the invariant.     *)
(***************************************************************************)
LEMMA ExecuteInductive ==
    ASSUME DedupeInv, NEW k \in RequestKeys, ExecuteRequest(k)
    PROVE  DedupeInv'
<1> USE DedupeAssumption DEF DedupeAssumption
<1> DEFINE len == Len(order)
           len2 == Len(order')
<1>1. /\ DedupeTypeOK /\ len <= Cap /\ len \in Nat /\ order' = Queued(k) /\ now' = now
      /\ dedupe[k] = NotCached
  BY DEF DedupeInv, DedupeTypeOK, CacheIsBounded, ExecuteRequest, Remember
<1>2. /\ order' \in Seq(RequestKeys) /\ len2 \in 1..Cap /\ order'[len2] = k
      /\ len2 = IF Full THEN len ELSE len + 1
      /\ \A i \in 1..(len2 - 1) : order'[i] = IF Full THEN order[i + 1] ELSE order[i]
      /\ Full => len = Cap /\ order # <<>>
  BY <1>1, QueuedPlaces
<1>3. /\ ran' = [ran EXCEPT ![k] = now]
      /\ newer' = [j \in RequestKeys |->
                     IF j = k THEN 0 ELSE IF newer[j] < MaxAge THEN newer[j] + 1 ELSE MaxAge]
      /\ repeated' = IF ran[k] = NotCached THEN repeated ELSE repeated \cup {k}
      /\ dedupe' = [j \in RequestKeys |->
                      IF j = k THEN now
                      ELSE IF j \notin Evicted /\ Fresh(dedupe[j]) THEN dedupe[j] ELSE NotCached]
  BY DEF ExecuteRequest, Ran, Remember
<1>4. now \in 0..MaxTime /\ now # NotCached
  BY <1>1 DEF DedupeTypeOK
<1>5. DedupeTypeOK'
  <2>1. dedupe' \in [RequestKeys -> 0..MaxTime \cup {NotCached}]
    BY <1>1, <1>3, <1>4 DEF DedupeTypeOK
  <2>2. newer' \in [RequestKeys -> 0..MaxAge]
    BY <1>1, <1>3 DEF DedupeTypeOK
  <2>3. ran' \in [RequestKeys -> 0..MaxTime \cup {NotCached}]
    BY <1>1, <1>3, <1>4 DEF DedupeTypeOK
  <2> QED BY <1>1, <1>2, <1>3, <2>1, <2>2, <2>3 DEF DedupeTypeOK
\* A key that keeps its outcome keeps its place: only the oldest key leaves,
\* and its outcome leaves with it.
<1>6. CacheIsBounded'
  <2>1. ASSUME NEW j \in RequestKeys, dedupe'[j] # NotCached
        PROVE  dedupe'[j] = ran'[j] /\ \E i \in 1..len2 : order'[i] = j
    <3>1. CASE j = k
      BY <1>1, <1>2, <1>3, <3>1 DEF DedupeTypeOK
    <3>2. CASE j # k
      <4>1. dedupe[j] # NotCached /\ dedupe'[j] = dedupe[j] /\ j \notin Evicted
        BY <1>3, <2>1, <3>2
      <4>2. PICK i \in 1..len : order[i] = j
        BY <4>1 DEF DedupeInv, CacheIsBounded
      <4>3. dedupe[j] = ran[j] /\ ran'[j] = ran[j]
        BY <1>1, <1>3, <3>2, <4>1 DEF DedupeInv, CacheIsBounded, DedupeTypeOK
      <4>4. CASE Full
        <5>1. i # 1
          BY <1>2, <4>1, <4>2, <4>4 DEF Evicted
        <5>2. i - 1 \in 1..(len2 - 1) /\ (i - 1) + 1 = i
          BY <1>1, <1>2, <4>2, <4>4, <5>1
        <5> QED BY <1>2, <4>1, <4>2, <4>3, <4>4, <5>2
      <4>5. CASE ~Full
        <5>1. i \in 1..(len2 - 1)
          BY <1>1, <1>2, <4>2, <4>5
        <5> QED BY <1>2, <4>1, <4>2, <4>3, <4>5, <5>1
      <4> QED BY <4>4, <4>5
    <3> QED BY <3>1, <3>2
  <2> QED BY <1>2, <2>1 DEF CacheIsBounded
<1>7. OnlyPlace'
  <2>1. ASSUME NEW i \in 1..len2
        PROVE  /\ ran'[order'[i]] # NotCached
               /\ order'[i] \notin repeated' => i = len2 - newer'[order'[i]]
    <3>1. CASE i = len2
      BY <1>1, <1>2, <1>3, <1>4, <3>1 DEF DedupeTypeOK
    <3>2. CASE i # len2
      <4> DEFINE i0 == IF Full THEN i + 1 ELSE i
                 j == order'[i]
      <4>1. i \in 1..(len2 - 1) /\ i0 \in 1..len /\ len2 - i = len - i0 + 1
        <5>1. len \in Nat /\ len2 = (IF Full THEN len ELSE len + 1) /\ i \in 1..len2 /\ i # len2
          BY <1>1, <1>2, <3>2
        <5> HIDE DEF len, len2
        <5> QED BY ONLY <5>1 DEF i0
      <4>2. j = order[i0] /\ j \in RequestKeys
        <5>1. j = order[i0]
          BY <1>2, <4>1
        <5>2. order[i0] \in RequestKeys
          <6> HIDE DEF i0
          <6> QED BY <1>1, <4>1 DEF DedupeTypeOK
        <5> QED BY <5>1, <5>2
      <4>3. ran[j] # NotCached /\ (j \notin repeated => i0 = len - newer[j])
        BY <4>1, <4>2 DEF DedupeInv, OnlyPlace
      <4>4. CASE j = k
        BY <1>1, <1>3, <1>4, <4>2, <4>3, <4>4 DEF DedupeTypeOK
      <4>5. CASE j # k
        <5>1. ran'[j] = ran[j] /\ (j \notin repeated' => j \notin repeated)
          BY <1>1, <1>3, <4>2, <4>5 DEF DedupeTypeOK
        <5>2. newer'[j] = IF newer[j] < MaxAge THEN newer[j] + 1 ELSE MaxAge
          BY <1>3, <4>2, <4>5
        <5>3. ASSUME j \notin repeated' PROVE i = len2 - newer'[j]
          <6>0. i0 = len - newer[j]
            BY <4>3, <5>1, <5>3
          <6> HIDE DEF i0, j
          <6>1. newer[j] \in Nat /\ newer[j] = len - i0
            <7>1. newer[j] \in Nat /\ len \in Nat /\ i0 \in 1..len
              BY <1>1, <4>1, <4>2 DEF DedupeTypeOK
            <7> HIDE DEF len
            <7> QED BY ONLY <6>0, <7>1
          <6>2. newer[j] < MaxAge
            BY <1>1, <4>1, <6>1
          <6>3. newer'[j] = len - i0 + 1
            BY <5>2, <6>1, <6>2
          <6> QED BY <1>1, <1>2, <4>1, <6>3
        <5> QED BY <4>3, <5>1, <5>3
      <4> QED BY <4>4, <4>5
    <3> QED BY <3>1, <3>2
  <2> QED BY <2>1 DEF OnlyPlace
<1>8. KeepsItsPlace'
  <2>1. ASSUME NEW j \in RequestKeys, ran'[j] # NotCached, j \notin repeated', newer'[j] < Cap
        PROVE  /\ newer'[j] < len2 /\ order'[len2 - newer'[j]] = j
               /\ now' - ran'[j] < Window => dedupe'[j] # NotCached
    <3>1. CASE j = k
      BY <1>1, <1>2, <1>3, <1>4, <3>1 DEF DedupeTypeOK
    <3>2. CASE j # k
      <4>1. /\ ran[j] # NotCached /\ j \notin repeated /\ ran'[j] = ran[j]
            /\ newer'[j] = IF newer[j] < MaxAge THEN newer[j] + 1 ELSE MaxAge
            /\ newer[j] \in 0..MaxAge
        BY <1>1, <1>3, <2>1, <3>2 DEF DedupeTypeOK
      <4>2. newer'[j] = newer[j] + 1 /\ newer[j] \in Nat /\ newer[j] + 1 < Cap
        BY <2>1, <4>1
      <4>3. /\ newer[j] < len /\ order[len - newer[j]] = j
            /\ now - ran[j] < Window => dedupe[j] # NotCached
        BY <4>1, <4>2 DEF DedupeInv, KeepsItsPlace
      <4>4. newer[j] + 1 < len2 /\ len2 - (newer[j] + 1) \in 1..(len2 - 1)
        BY <1>1, <1>2, <4>2, <4>3
      <4>5. order'[len2 - (newer[j] + 1)] = j
        <5> DEFINE p == len2 - (newer[j] + 1)
        <5>1. p \in 1..(len2 - 1) /\ (IF Full THEN p + 1 ELSE p) = len - newer[j]
          <6>1. p \in 1..(len2 - 1) /\ newer[j] \in Nat /\ len \in Nat /\ len2 = IF Full THEN len ELSE len + 1
            BY <1>1, <1>2, <4>2, <4>4
          <6> HIDE DEF len, len2
          <6> QED BY ONLY <6>1 DEF p
        <5> HIDE DEF p
        <5>2. order'[p] = order[IF Full THEN p + 1 ELSE p]
          BY <1>2, <5>1
        <5>3. order'[p] = j
          BY <4>3, <5>1, <5>2
        <5> QED BY <5>3 DEF p
      <4>6. ASSUME now' - ran'[j] < Window PROVE dedupe'[j] # NotCached
        <5>1. dedupe[j] # NotCached /\ dedupe[j] = ran[j]
          BY <1>1, <4>1, <4>3, <4>6 DEF DedupeInv, CacheIsBounded
        <5>2. Fresh(dedupe[j])
          BY <1>1, <4>1, <4>6, <5>1 DEF Fresh
        <5>3. j \notin Evicted
          <6>1. SUFFICES ASSUME Full, Head(order) = j PROVE FALSE
            BY DEF Evicted
          <6>2. len = Cap /\ 1 \in 1..len /\ order[1] = j
            BY <1>1, <1>2, <6>1
          <6>3. 1 = len - newer[j]
            BY <4>1, <6>2 DEF DedupeInv, OnlyPlace
          <6> QED BY <1>1, <4>2, <6>2, <6>3
        <5> QED BY <1>3, <3>2, <5>1, <5>2, <5>3
      <4> QED BY <4>2, <4>4, <4>5, <4>6
    <3> QED BY <3>1, <3>2
  <2> QED BY <2>1 DEF KeepsItsPlace
<1> QED BY <1>5, <1>6, <1>7, <1>8 DEF DedupeInv

(***************************************************************************)
(* A cache that holds at most the outcome of one request, just run.        *)
(***************************************************************************)
LEMMA FreshCache ==
    ASSUME now \in 0..MaxTime, now' = now, NEW k \in RequestKeys,
           order' = <<k>>, dedupe' = [Empty EXCEPT ![k] = now],
           ran' = [Empty EXCEPT ![k] = now], newer' = [j \in RequestKeys |-> 0],
           repeated' \subseteq RequestKeys
    PROVE  DedupeInv'
<1> USE DedupeAssumption DEF DedupeAssumption
<1>1. now # NotCached
  OBVIOUS
<1>2. \A j \in RequestKeys : dedupe'[j] = ran'[j] /\ (ran'[j] # NotCached <=> j = k)
  BY <1>1 DEF Empty
<1>3. DedupeTypeOK'
  BY DEF DedupeTypeOK, Empty
<1>4. Len(order') = 1 /\ order'[1] = k
  OBVIOUS
<1>5. CacheIsBounded'
  BY <1>2, <1>4 DEF CacheIsBounded
<1>6. KeepsItsPlace'
  BY <1>2, <1>4 DEF KeepsItsPlace
<1>7. OnlyPlace'
  BY <1>2, <1>4 DEF OnlyPlace
<1> QED BY <1>3, <1>5, <1>6, <1>7 DEF DedupeInv

LEMMA EmptyCache ==
    ASSUME now \in 0..MaxTime, order = <<>>, dedupe = Empty, ran = Empty,
           newer = [k \in RequestKeys |-> 0], repeated = {}
    PROVE  DedupeInv
<1> USE DedupeAssumption DEF DedupeAssumption
<1>1. DedupeTypeOK
  BY DEF DedupeTypeOK, Empty
<1>2. CacheIsBounded /\ KeepsItsPlace /\ OnlyPlace
  BY DEF CacheIsBounded, KeepsItsPlace, OnlyPlace, Empty
<1> QED BY <1>1, <1>2 DEF DedupeInv

(***************************************************************************)
(* The initial state and every step keep the invariant.                    *)
(***************************************************************************)
LEMMA Initial == DedupeInit => DedupeInv
<1> SUFFICES ASSUME DedupeInit PROVE DedupeInv
  OBVIOUS
<1>1. now \in 0..MaxTime
  BY DedupeAssumption DEF DedupeAssumption, DedupeInit
<1> QED BY <1>1, EmptyCache DEF DedupeInit

LEMMA Inductive == DedupeInv /\ [DedupeNext]_dedupeVars => DedupeInv'
<1> SUFFICES ASSUME DedupeInv, [DedupeNext]_dedupeVars PROVE DedupeInv'
  OBVIOUS
<1> USE DedupeAssumption DEF DedupeAssumption
<1>1. ASSUME NEW k \in RequestKeys, ExecuteRequest(k) PROVE DedupeInv'
  BY <1>1, ExecuteInductive
<1>2. ASSUME NEW k \in RequestKeys, Replay(k) PROVE DedupeInv'
  BY <1>2 DEF Replay, dedupeVars, DedupeInv, DedupeTypeOK, CacheIsBounded, KeepsItsPlace, OnlyPlace
<1>3. ASSUME NEW k \in RequestKeys, ShutdownCache(k) PROVE DedupeInv'
  <2>1. now \in 0..MaxTime /\ repeated' \subseteq RequestKeys
    BY <1>3 DEF ShutdownCache, DedupeInv, DedupeTypeOK
  <2> QED BY <1>3, <2>1, FreshCache DEF ShutdownCache
<1>4. CASE TimePasses
  <2>1. /\ now \in Nat /\ now' = now + 1 /\ now' \in 0..MaxTime
        /\ UNCHANGED <<dedupe, order, ran, newer, repeated>>
    BY <1>4 DEF TimePasses, DedupeInv, DedupeTypeOK
  <2>2. DedupeTypeOK' /\ CacheIsBounded' /\ OnlyPlace'
    BY <2>1 DEF DedupeInv, DedupeTypeOK, CacheIsBounded, OnlyPlace
  <2>3. \A k \in RequestKeys : ran[k] # NotCached /\ now' - ran[k] < Window => now - ran[k] < Window
    BY <2>1 DEF DedupeInv, DedupeTypeOK
  <2>4. KeepsItsPlace'
    BY <2>1, <2>3 DEF DedupeInv, KeepsItsPlace
  <2> QED BY <2>2, <2>4 DEF DedupeInv
<1>5. CASE AbandonCache
  <2>1. (now \in 0..MaxTime)' /\ order' = <<>> /\ dedupe' = Empty /\ ran' = Empty
        /\ newer' = [k \in RequestKeys |-> 0] /\ repeated' = {}
    BY <1>5 DEF AbandonCache, DedupeInv, DedupeTypeOK
  <2>2. DedupeTypeOK'
    BY <2>1 DEF DedupeTypeOK, Empty
  <2>3. CacheIsBounded' /\ KeepsItsPlace' /\ OnlyPlace'
    BY <2>1 DEF CacheIsBounded, KeepsItsPlace, OnlyPlace, Empty
  <2> QED BY <2>2, <2>3 DEF DedupeInv
<1>6. CASE UNCHANGED dedupeVars
  BY <1>6 DEF dedupeVars, DedupeInv, DedupeTypeOK, CacheIsBounded, KeepsItsPlace, OnlyPlace
<1> QED BY <1>1, <1>2, <1>3, <1>4, <1>5, <1>6 DEF DedupeNext

-----------------------------------------------------------------------------

THEOREM DedupeInvariant == DedupeSpec => []DedupeInv
BY Initial, Inductive, PTL DEF DedupeSpec

(***************************************************************************)
(* The cache holds at most Cap outcomes, whatever clients send.            *)
(***************************************************************************)
THEOREM Bounded == DedupeSpec => []CacheIsBounded
<1>1. DedupeInv => CacheIsBounded
  BY DEF DedupeInv
<1> QED BY <1>1, DedupeInvariant, PTL

(***************************************************************************)
(* Retrying is safe: a request that ran once is not run again within the   *)
(* window unless Cap newer requests have run.                              *)
(***************************************************************************)
THEOREM RetryIsSafe == DedupeSpec => RetryDoesNotRunAgain
<1> DEFINE Safe == \A k \in repeated' \ repeated : now - ran[k] >= Window \/ newer[k] >= Cap
<1>1. ASSUME DedupeInv, [DedupeNext]_dedupeVars PROVE Safe
  <2> SUFFICES ASSUME NEW k \in repeated', k \notin repeated
               PROVE  now - ran[k] >= Window \/ newer[k] >= Cap
    OBVIOUS
  <2> USE DedupeAssumption DEF DedupeAssumption
  <2>1. k \in RequestKeys /\ dedupe[k] = NotCached /\ ran[k] # NotCached
    <3>1. ASSUME NEW j \in RequestKeys, ExecuteRequest(j)
          PROVE  k = j /\ dedupe[k] = NotCached /\ ran[k] # NotCached
      BY <3>1 DEF ExecuteRequest, Ran
    <3>2. ASSUME NEW j \in RequestKeys, ShutdownCache(j)
          PROVE  k = j /\ dedupe[k] = NotCached /\ ran[k] # NotCached
      BY <3>2 DEF ShutdownCache
    <3> QED BY <1>1, <3>1, <3>2 DEF DedupeNext, Replay, TimePasses, AbandonCache, dedupeVars
  <2>2. newer[k] \in Nat /\ ran[k] \in Nat /\ now \in Nat
    BY <1>1, <2>1 DEF DedupeInv, DedupeTypeOK
  <2>3. newer[k] < Cap => ~(now - ran[k] < Window)
    BY <1>1, <2>1 DEF DedupeInv, KeepsItsPlace
  <2> QED BY <2>2, <2>3
<1>2. DedupeInv /\ [DedupeNext]_dedupeVars => [Safe]_dedupeVars
  BY <1>1
<1> QED BY <1>2, DedupeInvariant, PTL DEF DedupeSpec, RetryDoesNotRunAgain

-----------------------------------------------------------------------------
(* The HTTP listener (WebListener)                                          *)

\* A call has the thread that it took, or none.
Threads == Workers \cup {Nobody}
Running == [at : {"poll", "receive", "ask", "gone"}, settings : Settings, port : Nat]
Calls == [at : {"take", "raise", "join", "install"}, want : Settings \cup {NoApi, Suspend}, thread : Threads]

\* The types of the variables.
WebTypeOK ==
    /\ slot \in [settings : Settings \cup {NoApi}, port : Nat, join : Threads]
    /\ stop \in BOOLEAN
    /\ worker \in [Workers -> {NotSpawned} \cup Running]
    /\ calling \in [WebCallers -> {NotCalling} \cup Calls]
    /\ \A c \in WebCallers : At(c, "install") => calling[c].want # Suspend

\* No two calls are under way.
OneCall == \A c, d \in WebCallers : Busy(c) /\ Busy(d) => c = d

\* The worker in the slot is the one that runs, with the settings in the slot, and
\* has not been told to stop.
SlotServes ==
    /\ ~stop
    /\ Alive = {slot.join} \ {Nobody}
    /\ \A w \in Alive : worker[w].settings = slot.settings /\ worker[w].port = slot.settings.port

\* Where a call is in stop_worker tells whose thread runs, and what it was told.
CallServes(c) ==
    /\ At(c, "take") => SlotServes
    /\ At(c, "raise") => ~stop /\ slot.join = Nobody /\ Alive = {calling[c].thread} \ {Nobody}
    /\ At(c, "join") => stop /\ slot.join = Nobody /\ Alive \subseteq {calling[c].thread}
    /\ At(c, "install") => ~stop /\ slot.join = Nobody /\ Alive = {}

\* LastSettingsServe says nothing while a call is under way, and JoinIsHeard only
\* of one place of it: the invariant says at every place of a call what it has
\* done to the slot, the flag and the worker.  Once two calls overlapped it claims
\* no more than the types.
WebInv ==
    /\ WebTypeOK
    /\ ~raced =>
          /\ OneCall
          /\ (\A c \in WebCallers : ~Busy(c)) => SlotServes
          /\ \A c \in WebCallers : CallServes(c)

\* The record of a call is not the record of no call, nor that of a worker that of none.
LEMMA WebPlaces == (\A x \in Calls : x # NotCalling) /\ NotSpawned.at = "none" /\ \A x \in Running : x.at # "none"
<1>1. \A x \in Calls : x.at # "idle"
  BY DEF Calls
<1>2. NotCalling.at = "idle"
  BY DEF NotCalling
<1>3. NotSpawned.at = "none" /\ \A x \in Running : x.at # "none"
  BY DEF NotSpawned, Running
<1>4. QED
  BY <1>1, <1>2, <1>3

\* A call and a worker are records while they are there.
LEMMA WebRecords ==
    ASSUME WebTypeOK
    PROVE  /\ \A c \in WebCallers : Busy(c) <=> calling[c] \in Calls
           /\ \A w \in Workers : worker[w].at # "none" <=> worker[w] \in Running
           /\ \A w \in Workers : w \in Alive <=> worker[w] \in Running /\ worker[w].at # "gone"
<1>1. (\A c \in WebCallers : calling[c] \in {NotCalling} \cup Calls) /\ \A w \in Workers : worker[w] \in {NotSpawned} \cup Running
  BY DEF WebTypeOK
<1>2. QED
  BY <1>1, WebPlaces DEF Busy, Alive

\* A call moves on to its next place.
LEMMA CallGoes ==
    ASSUME WebTypeOK, NEW c \in WebCallers, Busy(c), NEW place \in {"take", "raise", "join", "install"}, Goes(c, place)
    PROVE  /\ calling' \in [WebCallers -> {NotCalling} \cup Calls] /\ calling'[c] \in Calls
           /\ calling'[c].at = place /\ calling'[c].thread = calling[c].thread /\ calling'[c].want = calling[c].want
           /\ \A d \in WebCallers : d # c => calling'[d] = calling[d]
<1>1. calling[c] \in Calls /\ calling \in [WebCallers -> {NotCalling} \cup Calls]
  BY WebRecords DEF WebTypeOK
<1>2. [calling[c] EXCEPT !.at = place] \in Calls
  BY <1>1 DEF Calls
<1>3. calling' = [calling EXCEPT ![c].at = place]
  BY DEF Goes
<1>4. calling'[c] = [calling[c] EXCEPT !.at = place]
  BY <1>1, <1>3
<1>5. QED
  BY <1>1, <1>2, <1>3, <1>4 DEF Calls

\* The call has the thread of the slot in its hands.
LEMMA CallTakes ==
    ASSUME WebTypeOK, NEW c \in WebCallers, TakeThread(c)
    PROVE  /\ calling' \in [WebCallers -> {NotCalling} \cup Calls] /\ calling'[c] \in Calls
           /\ calling'[c].at = "raise" /\ calling'[c].thread = slot.join
           /\ \A d \in WebCallers : d # c => calling'[d] = calling[d]
           /\ slot' \in [settings : Settings \cup {NoApi}, port : Nat, join : Threads] /\ slot'.join = Nobody
<1> DEFINE t == slot.join
<1>1. calling[c] \in Calls /\ calling \in [WebCallers -> {NotCalling} \cup Calls]
      /\ slot \in [settings : Settings \cup {NoApi}, port : Nat, join : Threads] /\ t \in Threads /\ Nobody \in Threads
  BY WebRecords DEF WebTypeOK, TakeThread, At, Threads
<1>2. calling' = [calling EXCEPT ![c].at = "raise", ![c].thread = t] /\ slot' = [slot EXCEPT !.join = Nobody]
  BY DEF TakeThread
<1>3. slot' \in [settings : Settings \cup {NoApi}, port : Nat, join : Threads] /\ slot'.join = Nobody
  BY <1>1, <1>2
<1> HIDE DEF t
<1>4. [calling[c] EXCEPT !.at = "raise", !.thread = t] \in Calls
  BY <1>1 DEF Calls
<1>5. calling'[c] = [calling[c] EXCEPT !.at = "raise", !.thread = t]
  BY <1>1, <1>2
<1>6. calling' \in [WebCallers -> {NotCalling} \cup Calls] /\ \A d \in WebCallers : d # c => calling'[d] = calling[d]
  BY <1>1, <1>2, <1>4, <1>5
<1>7. calling'[c].at = "raise" /\ calling'[c].thread = t
  BY <1>1, <1>5 DEF Calls
<1>8. QED
  BY <1>3, <1>4, <1>5, <1>6, <1>7 DEF t

\* A worker moves on to its next place.
LEMMA WorkerGoes ==
    ASSUME WebTypeOK, NEW w \in Workers, Works(w)
    PROVE  /\ worker' \in [Workers -> {NotSpawned} \cup Running]
           /\ worker[w] \in Running /\ worker[w].at # "gone" /\ worker'[w] \in Running
           /\ worker'[w].at = "gone" => stop
           /\ worker'[w].settings = worker[w].settings /\ worker'[w].port = worker[w].port
           /\ \A v \in Workers : v # w => worker'[v] = worker[v]
           /\ UNCHANGED <<slot, stop, calling, raced>>
<1>1. PICK place \in {"poll", "receive", "ask", "gone"} : worker' = [worker EXCEPT ![w].at = place] /\ (place = "gone" => stop)
  <2>1. CASE Poll(w)
    BY <2>1 DEF Poll
  <2>2. CASE Receive(w)
    BY <2>2 DEF Receive
  <2>3. CASE Perform(w)
    BY <2>3 DEF Perform
  <2>4. QED
    BY <2>1, <2>2, <2>3 DEF Works
<1>2. worker[w].at \in {"poll", "receive", "ask"} /\ UNCHANGED <<slot, stop, calling, raced>>
  BY DEF Works, Poll, Receive, Perform
<1>3. worker[w] \in Running /\ worker \in [Workers -> {NotSpawned} \cup Running]
  BY <1>2, WebRecords DEF WebTypeOK
<1>4. [worker[w] EXCEPT !.at = place] \in Running
  BY <1>3 DEF Running
<1>5. worker'[w] = [worker[w] EXCEPT !.at = place]
  BY <1>1, <1>3
<1>6. QED
  BY <1>1, <1>2, <1>3, <1>4, <1>5 DEF Running

\* Every step leaves the variables of their types.
LEMMA WebTypesKept == ASSUME WebTypeOK, [WebNext]_webVars PROVE WebTypeOK'
<1> DEFINE Others(c) == \A d \in WebCallers : d # c => calling'[d] = calling[d]
<1>1. ASSUME NEW c \in WebCallers, NEW want \in Settings \cup {NoApi, Suspend}, Enters(c, want) PROVE WebTypeOK'
  <2>1. [at |-> "take", want |-> want, thread |-> Nobody] \in Calls
    BY DEF Calls, Threads
  <2>2. calling' \in [WebCallers -> {NotCalling} \cup Calls] /\ Others(c) /\ calling'[c].at # "install"
    BY <1>1, <2>1 DEF Enters, WebTypeOK
  <2>3. QED
    BY <1>1, <2>2 DEF Enters, WebTypeOK, At, Busy
<1>2. ASSUME NEW c \in WebCallers, TakeThread(c) PROVE WebTypeOK'
  <2>1. /\ slot' \in [settings : Settings \cup {NoApi}, port : Nat, join : Threads]
        /\ calling' \in [WebCallers -> {NotCalling} \cup Calls] /\ Others(c) /\ calling'[c].at = "raise"
    BY <1>2, CallTakes
  <2>2. QED
    BY <1>2, <2>1 DEF TakeThread, WebTypeOK, At, Busy
<1>3. ASSUME NEW c \in WebCallers, Raise(c) PROVE WebTypeOK'
  <2>1. Busy(c) /\ Goes(c, "join")
    BY <1>3 DEF Raise, At
  <2>2. calling' \in [WebCallers -> {NotCalling} \cup Calls] /\ Others(c) /\ calling'[c].at = "join"
    BY <2>1, CallGoes
  <2>3. QED
    BY <1>3, <2>2 DEF Raise, WebTypeOK, At, Busy
<1>4. ASSUME NEW c \in WebCallers, Joined(c) PROVE WebTypeOK'
  <2>1. Busy(c) /\ (calling[c].want # Suspend => Goes(c, "install"))
    BY <1>4 DEF Joined, At
  <2>2. calling' \in [WebCallers -> {NotCalling} \cup Calls] /\ Others(c)
        /\ (calling'[c] = NotCalling \/ calling'[c].want # Suspend)
    <3>1. CASE calling[c].want = Suspend
      BY <1>4, <3>1 DEF Joined, Leaves, WebTypeOK
    <3>2. CASE calling[c].want # Suspend
      BY <2>1, <3>2, CallGoes
    <3>3. QED
      BY <3>1, <3>2
  <2>3. QED
    BY <1>4, <2>2 DEF Joined, WebTypeOK, At, Busy
<1>5. ASSUME NEW c \in WebCallers, Install(c) PROVE WebTypeOK'
  <2>1. calling' \in [WebCallers -> {NotCalling} \cup Calls] /\ stop' = stop /\ Others(c) /\ calling'[c] = NotCalling
    BY <1>5 DEF Install, Leaves, WebTypeOK
  <2>2. slot' \in [settings : Settings \cup {NoApi}, port : Nat, join : Threads]
        /\ worker' \in [Workers -> {NotSpawned} \cup Running]
    <3>1. CASE Serves(calling[c].want)
      <4>1. PICK w \in Workers :
               /\ worker' = [worker EXCEPT ![w] = [at |-> "poll", settings |-> calling[c].want, port |-> calling[c].want.port]]
               /\ slot' = [settings |-> calling[c].want, port |-> calling[c].want.port, join |-> w]
        BY <3>1 DEF Serves, SpawnWorker, Newest
      <4>2. calling[c].want \in Settings /\ calling[c].want.port \in Nat
        <5>1. calling[c] \in Calls /\ calling[c].want # Suspend
          BY <1>5, WebRecords DEF Install, At, WebTypeOK
        <5>2. calling[c].want \in Settings
          BY <3>1, <5>1 DEF Serves, Calls
        <5>3. QED
          BY <5>2, WebAssumption
      <4>3. [at |-> "poll", settings |-> calling[c].want, port |-> calling[c].want.port] \in Running
        BY <4>2 DEF Running
      <4>4. QED
        BY <4>1, <4>2, <4>3 DEF WebTypeOK, Threads
    <3>2. CASE GivesUp
      BY <3>2 DEF GivesUp, Disabled, WebTypeOK
    <3>3. QED
      BY <1>5, <3>1, <3>2 DEF Install
  <2>3. QED
    BY <2>1, <2>2 DEF WebTypeOK, At, Busy
<1>6. ASSUME NEW w \in Workers, Works(w) PROVE WebTypeOK'
  BY <1>6, WorkerGoes DEF WebTypeOK, At, Busy
<1>7. CASE UNCHANGED webVars
  BY <1>7 DEF webVars, WebTypeOK, At, Busy
<1>8. QED
  BY <1>1, <1>2, <1>3, <1>4, <1>5, <1>6, <1>7 DEF WebNext, Continues

\* While calls do not overlap, only the call that a step belongs to moves.
LEMMA OthersIdle ==
    ASSUME WebInv, ~raced, NEW c \in WebCallers, Busy(c),
           \A d \in WebCallers : d # c => calling'[d] = calling[d]
    PROVE  /\ OneCall'
           /\ \A d \in WebCallers : d # c => calling'[d] = NotCalling /\ (CallServes(d))'
<1>1. \A d \in WebCallers : d # c => calling[d] = NotCalling
  BY DEF WebInv, OneCall, Busy
<1>2. \A d \in WebCallers : d # c => calling'[d] = NotCalling
  BY <1>1
<1>3. OneCall'
  BY <1>2 DEF OneCall, Busy
<1>4. \A d \in WebCallers : d # c => (CallServes(d))'
  BY <1>2 DEF CallServes, At, Busy
<1>5. QED
  BY <1>2, <1>3, <1>4

\* A call moves on: what CallServes says of its new place is all there is to show.
LEMMA CallStays ==
    ASSUME WebInv, ~raced, NEW c \in WebCallers, Busy(c), (Busy(c))', (CallServes(c))',
           \A d \in WebCallers : d # c => calling'[d] = calling[d]
    PROVE  /\ OneCall'
           /\ (\A d \in WebCallers : ~Busy(d))' => SlotServes'
           /\ (\A d \in WebCallers : CallServes(d))'
<1>1. OneCall' /\ \A d \in WebCallers : (CallServes(d))'
  BY OthersIdle
<1>2. QED
  BY <1>1

\* A call is over: the slot has to serve again.
LEMMA CallEnds ==
    ASSUME WebInv, ~raced, NEW c \in WebCallers, Busy(c), calling'[c] = NotCalling, SlotServes',
           \A d \in WebCallers : d # c => calling'[d] = calling[d]
    PROVE  /\ OneCall'
           /\ (\A d \in WebCallers : ~Busy(d))' => SlotServes'
           /\ (\A d \in WebCallers : CallServes(d))'
<1>1. (CallServes(c))'
  BY DEF CallServes, At, Busy
<1>2. OneCall' /\ \A d \in WebCallers : (CallServes(d))'
  BY <1>1, OthersIdle
<1>3. QED
  BY <1>2

\* Every step of a caller and of a worker keeps the invariant.
LEMMA WebKeeps == ASSUME WebInv, [WebNext]_webVars PROVE WebInv'
<1> DEFINE Others(c) == \A d \in WebCallers : d # c => calling'[d] = calling[d]
           Kept == /\ OneCall'
                   /\ (\A d \in WebCallers : ~Busy(d))' => SlotServes'
                   /\ (\A d \in WebCallers : CallServes(d))'
<1>0. WebTypeOK /\ WebTypeOK'
  BY WebTypesKept DEF WebInv
<1>a. \A w \in Workers : w # Nobody
  BY WebAssumption
<1>1. ASSUME NEW c \in WebCallers, NEW want \in Settings \cup {NoApi, Suspend}, Enters(c, want), ~raced' PROVE Kept
  <2>1. (\A d \in WebCallers : ~Busy(d)) /\ ~raced
    BY <1>1 DEF Enters
  <2>2. SlotServes
    BY <2>1 DEF WebInv
  <2>3. SlotServes'
    BY <2>2, <1>1 DEF Enters, SlotServes, Alive
  <2>4. Others(c) /\ calling'[c] = [at |-> "take", want |-> want, thread |-> Nobody]
    BY <1>1, <1>0 DEF Enters, WebTypeOK
  <2>5. \A d \in WebCallers : d # c => calling'[d] = NotCalling
    BY <2>1, <2>4 DEF Busy
  <2>6. OneCall'
    BY <2>5 DEF OneCall, Busy
  <2>7. (CallServes(c))'
    BY <2>3, <2>4 DEF CallServes, At
  <2>8. \A d \in WebCallers : d # c => (CallServes(d))'
    BY <2>5 DEF CallServes, At, Busy
  <2>9. QED
    BY <2>3, <2>6, <2>7, <2>8
<1>2. ASSUME NEW c \in WebCallers, TakeThread(c), ~raced' PROVE Kept
  <2>1. ~raced /\ Busy(c) /\ SlotServes
    BY <1>2 DEF TakeThread, At, WebInv, CallServes
  <2>2. Others(c) /\ calling'[c] \in Calls /\ calling'[c].at = "raise" /\ calling'[c].thread = slot.join /\ slot'.join = Nobody
    BY <1>0, <1>2, CallTakes
  <2>3. (Busy(c))'
    BY <2>2, WebPlaces DEF Busy
  <2>4. Alive' = Alive /\ ~stop'
    BY <1>2, <2>1 DEF TakeThread, Alive, SlotServes
  <2>5. (CallServes(c))'
    BY <2>1, <2>2, <2>4 DEF CallServes, At, SlotServes
  <2>6. QED
    BY <2>1, <2>2, <2>3, <2>5, CallStays, Zenon DEF Busy
<1>3. ASSUME NEW c \in WebCallers, Raise(c), ~raced' PROVE Kept
  <2>1. ~raced /\ Busy(c) /\ slot.join = Nobody /\ Alive = {calling[c].thread} \ {Nobody} /\ Goes(c, "join")
    BY <1>3 DEF Raise, At, WebInv, CallServes
  <2>2. Others(c) /\ calling'[c] \in Calls /\ calling'[c].at = "join" /\ calling'[c].thread = calling[c].thread
    BY <1>0, <2>1, CallGoes
  <2>3. (Busy(c))'
    BY <2>2, WebPlaces DEF Busy
  <2>4. Alive' = Alive /\ stop' /\ slot' = slot
    BY <1>3 DEF Raise, Alive
  <2>5. (CallServes(c))'
    BY <2>1, <2>2, <2>4 DEF CallServes, At
  <2>6. QED
    BY <2>1, <2>2, <2>3, <2>5, CallStays, Zenon DEF Busy
<1>4. ASSUME NEW c \in WebCallers, Joined(c), ~raced' PROVE Kept
  <2>1. ~raced /\ Busy(c) /\ slot.join = Nobody /\ Alive \subseteq {calling[c].thread} /\ Gone(calling[c].thread)
    BY <1>4 DEF Joined, At, WebInv, CallServes
  <2>2. Alive = {}
    BY <1>a, <2>1 DEF Alive, Gone
  <2>3. ~stop' /\ slot' = slot /\ Alive' = {}
    BY <1>4, <2>2 DEF Joined, Alive
  <2>4. SlotServes'
    BY <2>1, <2>3 DEF SlotServes
  <2>5. CASE calling[c].want = Suspend
    <3>1. Others(c) /\ calling'[c] = NotCalling
      BY <1>0, <1>4, <2>5 DEF Joined, Leaves, WebTypeOK
    <3>2. QED
      BY <2>1, <2>4, <3>1, CallEnds
  <2>6. CASE calling[c].want # Suspend
    <3>1. Goes(c, "install")
      BY <1>4, <2>6 DEF Joined
    <3>2. Others(c) /\ calling'[c] \in Calls /\ calling'[c].at = "install"
      BY <1>0, <2>1, <3>1, CallGoes
    <3>3. (Busy(c))'
      BY <3>2, WebPlaces DEF Busy
    <3>4. (CallServes(c))'
      BY <2>1, <2>3, <3>2 DEF CallServes, At
    <3>5. QED
      BY <2>1, <3>2, <3>3, <3>4, CallStays, Zenon DEF Busy
  <2>7. QED
    BY <2>5, <2>6
<1>5. ASSUME NEW c \in WebCallers, Install(c), ~raced' PROVE Kept
  <2>1. ~raced /\ Busy(c) /\ slot.join = Nobody /\ Alive = {} /\ ~stop /\ stop' = stop
    BY <1>5 DEF Install, At, WebInv, CallServes
  <2>2. Others(c) /\ calling'[c] = NotCalling
    BY <1>0, <1>5 DEF Install, Leaves, WebTypeOK
  <2>3. SlotServes'
    <3>1. CASE Serves(calling[c].want)
      <4> DEFINE s == calling[c].want
      <4>1. PICK w \in Workers :
               /\ worker' = [worker EXCEPT ![w] = [at |-> "poll", settings |-> s, port |-> s.port]]
               /\ slot' = [settings |-> s, port |-> s.port, join |-> w]
        BY <3>1 DEF Serves, SpawnWorker, Newest
      <4> HIDE DEF s
      <4>2. worker'[w] = [at |-> "poll", settings |-> s, port |-> s.port] /\ \A v \in Workers : v # w => worker'[v] = worker[v]
        BY <1>0, <4>1 DEF WebTypeOK
      <4>3. \A v \in Workers : v # w => v \notin Alive'
        BY <2>1, <4>2 DEF Alive
      <4>4. w \in Alive'
        BY <4>2 DEF Alive
      <4>5. Alive' \subseteq Workers
        BY DEF Alive
      <4>6. Alive' = {w}
        BY <4>3, <4>4, <4>5
      <4>7. w # Nobody /\ slot'.join = w /\ slot'.settings = s
        BY <1>a, <4>1
      <4>8. Alive' = {slot'.join} \ {Nobody}
        BY <4>6, <4>7
      <4>9. worker'[w].settings = s /\ worker'[w].port = s.port
        BY <4>2
      <4>10. QED
        BY <2>1, <4>6, <4>7, <4>8, <4>9 DEF SlotServes
    <3>2. CASE GivesUp
      <4>1. slot'.join = Nobody /\ worker' = worker
        BY <2>1, <3>2 DEF GivesUp, Disabled
      <4>2. Alive' = {}
        BY <2>1, <4>1 DEF Alive
      <4>3. QED
        BY <2>1, <4>1, <4>2 DEF SlotServes
    <3>3. QED
      BY <1>5, <3>1, <3>2 DEF Install
  <2>4. QED
    BY <2>1, <2>2, <2>3, CallEnds
<1>6. ASSUME NEW w \in Workers, Works(w), ~raced' PROVE Kept
  <2>1. /\ w \in Alive
        /\ worker'[w].at = "gone" => stop
        /\ worker'[w] \in Running /\ worker'[w].settings = worker[w].settings /\ worker'[w].port = worker[w].port
        /\ \A v \in Workers : v # w => worker'[v] = worker[v]
        /\ UNCHANGED <<slot, stop, calling, raced>>
    BY <1>0, <1>6, WorkerGoes, WebRecords
  <2>2. Alive' \subseteq Alive
    <3>1. ASSUME NEW v \in Workers, v # w PROVE v \in Alive' <=> v \in Alive
      BY <2>1, <3>1 DEF Alive
    <3>2. Alive' \subseteq Workers
      BY DEF Alive
    <3>3. QED
      BY <2>1, <3>1, <3>2
  <2>3. ~stop => Alive' = Alive
    <3>1. worker'[w].at # "none"
      BY <2>1, WebPlaces
    <3>2. ASSUME NEW v \in Workers, v # w PROVE v \in Alive' <=> v \in Alive
      BY <2>1, <3>2 DEF Alive
    <3>3. ~stop => w \in Alive'
      BY <2>1, <3>1 DEF Alive
    <3>4. Alive \subseteq Workers
      BY DEF Alive
    <3>5. QED
      BY <2>2, <3>2, <3>3, <3>4
  <2>4. SlotServes => SlotServes'
    <3>1. ASSUME SlotServes, NEW v \in Alive' PROVE worker'[v].settings = worker[v].settings /\ worker'[v].port = worker[v].port
      BY <2>1 DEF Alive
    <3>2. QED
      BY <2>1, <2>2, <2>3, <3>1 DEF SlotServes
  <2>5. \A c \in WebCallers : CallServes(c) => (CallServes(c))'
    BY <2>1, <2>2, <2>3, <2>4 DEF CallServes, At, Busy
  <2>6. OneCall' /\ ((\A d \in WebCallers : ~Busy(d))' => SlotServes')
    BY <1>6, <2>1, <2>4 DEF WebInv, OneCall, Busy
  <2>7. QED
    BY <1>6, <2>1, <2>5, <2>6 DEF WebInv
<1>7. CASE UNCHANGED webVars
  BY <1>7, <1>0 DEF webVars, WebInv, OneCall, SlotServes, CallServes, Busy, At, Alive
<1>8. ASSUME ~raced', WebNext PROVE Kept
  BY <1>1, <1>2, <1>3, <1>4, <1>5, <1>6, <1>8 DEF WebNext, Continues
<1>9. QED
  BY <1>0, <1>7, <1>8 DEF WebInv

\* Nothing runs and nothing is asked for at the start.
LEMMA WebStarts == WebInit => WebInv
<1>1. SUFFICES ASSUME WebInit PROVE WebInv
  OBVIOUS
<1>2. \A c \in WebCallers : calling[c] = NotCalling
  BY <1>1 DEF WebInit
<1>3. \A w \in Workers : worker[w] = NotSpawned
  BY <1>1 DEF WebInit
<1>4. WebTypeOK
  BY <1>1, <1>2 DEF WebInit, WebTypeOK, Threads, At, Busy
<1>5. Alive = {}
  BY <1>3 DEF Alive, NotSpawned
<1>6. SlotServes
  BY <1>1, <1>5 DEF WebInit, SlotServes
<1>7. QED
  BY <1>1, <1>2, <1>4, <1>6 DEF WebInv, OneCall, CallServes, At, Busy

\* The invariant holds what the listener promises.
LEMMA WebObeys == WebInv => ListenerObeys
<1>1. WebInv => LastSettingsServe
  BY DEF WebInv, LastSettingsServe, SlotServes
<1>2. WebInv => JoinIsHeard
  BY DEF WebInv, JoinIsHeard, CallServes
<1>3. QED
  BY <1>1, <1>2 DEF ListenerObeys

(***************************************************************************)
(* While calls do not overlap, the one worker that runs serves the         *)
(* settings of the last call on its port, and nobody serves once the API   *)
(* was disabled, suspended or could not be started; and the worker a call  *)
(* joins has the stop flag up until it is gone (configure, suspend and     *)
(* stop_worker of vmix_api.rs).                                            *)
(***************************************************************************)
THEOREM ListenerDoesAsTold == WebSpec => []ListenerObeys
<1>1. WebInv /\ [WebNext]_webVars => WebInv'
  BY WebKeeps
<1>2. QED
  BY <1>1, WebStarts, WebObeys, PTL DEF WebSpec
=============================================================================
