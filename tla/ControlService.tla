--------------------------- MODULE ControlService ---------------------------
(***************************************************************************)
(* The control service: one session document behind one mutex, the clients *)
(* that edit copies of it, and the mixer process that the host may create  *)
(* and destroy without the mutex (eiviz-control/src/service.rs and         *)
(* session/store.rs; mixer_destroy in mixer/src/lib.rs).                   *)
(*                                                                         *)
(* A document is the set of its items (inputs, outputs, units: whatever a  *)
(* publish edits and the mixer runs) and whether its overlay is on air.    *)
(* Every call of the service holds the mutex from start to end.  A publish *)
(* is cut into its operations on the mixer, because mixer_destroy does not *)
(* wait for it; every other call is one step.                              *)
(***************************************************************************)
EXTENDS Naturals, FiniteSets

CONSTANTS
    Clients,     \* hosts, remotes and eivizctl
    Items,       \* what a document can hold
    OnAir,       \* the values of a document's overlay flag
    MaxRevision, \* bound on the revision
    MaxLives,    \* bound on how often the session is abandoned
    NoDoc, NoMixer, Idle

ASSUME ConstantsAssumption ==
    /\ OnAir \subseteq BOOLEAN
    /\ FALSE \in OnAir
    /\ MaxRevision \in Nat
    /\ MaxLives \in Nat
    /\ \A s \in SUBSET Items : NoMixer # s

VARIABLES
    lifecycle,   \* ControlService::lifecycle between two calls
    doc,         \* store.document
    revision,    \* store.revision
    life,        \* how often the session was abandoned; the code keeps no such count
    request,     \* the publish that holds the mutex, or Idle
    mixer,       \* the items that the mixer runs, or NoMixer
    refused,     \* items whose last start the mixer refused
    tearing,     \* mixer_destroy is between abandon and mixer_destroy_inner
    orphan,      \* the mixer was destroyed behind the session's back
    announced,   \* the newest SessionChanged event
    base         \* each client's copy of the document, with its revision

store == <<doc, revision, life>>
running == <<mixer, refused, orphan>>
vars == <<lifecycle, store, request, running, tearing, announced, base>>

Document == [items : SUBSET Items, onair : OnAir]
EmptyDoc == [items |-> {}, onair |-> FALSE]

\* A document as a client gets it: with the revision it belongs to.
Copies == [life : 0..MaxLives, revision : 0..MaxRevision, doc : Document]

Requests ==
    [by : Clients, guarded : BOOLEAN, item : Items,   \* who edits what
     next : Document, prev : Document \cup {NoDoc}, prevRevision : 0..MaxRevision,
     phase : {"apply", "rollback"}, todo : SUBSET Items]

ASSUME ModelValuesAreDistinct ==
    /\ \A d \in Document : d # NoDoc
    /\ \A r \in Requests : r # Idle

\* What the store shows: a missing document is an empty one.
Shown == IF doc = NoDoc THEN EmptyDoc ELSE doc
Copy == [life |-> life, revision |-> revision, doc |-> Shown]

Init ==
    /\ lifecycle = "Stopped"
    /\ doc = NoDoc
    /\ revision = 0
    /\ life = 0
    /\ request = Idle
    /\ mixer = NoMixer
    /\ refused = {}
    /\ tearing = FALSE
    /\ orphan = FALSE
    /\ announced = [life |-> 0, revision |-> 0, doc |-> EmptyDoc]
    /\ base = [c \in Clients |-> [life |-> 0, revision |-> 0, doc |-> EmptyDoc]]

-----------------------------------------------------------------------------
(* What clients read                                                        *)

\* GetSnapshot, Subscribe and the answer to a command.
Snapshot(c) ==
    /\ request = Idle
    /\ lifecycle = "Ready"
    /\ base' = [base EXCEPT ![c] = Copy]
    /\ UNCHANGED <<lifecycle, store, request, running, tearing, announced>>

\* A client applies a SessionChanged event, however late.
Adopt(c) ==
    /\ base' = [base EXCEPT ![c] = announced]
    /\ UNCHANGED <<lifecycle, store, request, running, tearing, announced>>

-----------------------------------------------------------------------------
(* replace_session                                                          *)

Differ(a, b) == (a \ b) \cup (b \ a)

\* The items that plan() touches on the way from one document to another.
Plan(prev, next) == Differ(IF prev = NoDoc THEN {} ELSE prev.items, next.items)

\* Mutant: the revision is not compared.
MutantConflictNever(guarded, expected) == FALSE

\* CanonicalSessionStore::replace
Conflict(guarded, expected) == guarded /\ doc # NoDoc /\ expected # revision

\* create_runtime when the mixer is not there; a publish into a mixer that the
\* host created only sets the lifecycle.
EnsureMixer ==
    /\ mixer' = IF mixer = NoMixer THEN {} ELSE mixer
    /\ refused' = IF mixer = NoMixer THEN {} ELSE refused
    /\ lifecycle' = "Ready"
    /\ UNCHANGED orphan

\* The document is stored before the mixer hears of it.
Commit(c, next, item, guarded) ==
    /\ ~Conflict(guarded, base[c].revision)
    /\ revision < MaxRevision
    /\ doc' = next
    /\ revision' = revision + 1
    /\ request' = [by |-> c, guarded |-> guarded, item |-> item,
                   next |-> next, prev |-> doc, prevRevision |-> revision,
                   phase |-> "apply", todo |-> Plan(doc, next)]
    /\ UNCHANGED life

\* A conflict, or a document that validate() refuses.
Reject == UNCHANGED <<store, request>>

Toggle(d, i) == [d EXCEPT !.items = Differ(@, {i})]

\* ReplaceSession: the client's copy with one edit.
Replace(c, i, guarded) ==
    /\ request = Idle
    /\ EnsureMixer
    /\ \/ Commit(c, Toggle(base[c].doc, i), i, guarded)
       \/ Reject
    /\ UNCHANGED <<tearing, announced, base>>

\* MutateSession: the edit is applied to the store's own document.
Mutate(c, i, guarded) ==
    /\ request = Idle
    /\ lifecycle = "Ready" \/ mixer # NoMixer
    /\ doc # NoDoc
    /\ EnsureMixer
    /\ \/ Commit(c, Toggle(doc, i), i, guarded)
       \/ Reject
    /\ UNCHANGED <<tearing, announced, base>>

\* The mixer cannot be created: nothing else has happened yet.
CreateFails ==
    /\ request = Idle
    /\ mixer = NoMixer
    /\ lifecycle' = "Failed"
    /\ UNCHANGED <<store, request, running, tearing, announced, base>>

\* One operation leads item i to what d says of it.  An add may be refused,
\* and a mixer that is gone refuses every add.
Lead(i, d) ==
    /\ request' = [request EXCEPT !.todo = @ \ {i}]
    /\ \/ /\ mixer # NoMixer
          /\ mixer' = IF i \in d.items THEN mixer \cup {i} ELSE mixer \ {i}
          /\ refused' = refused \ {i}
       \/ /\ i \in d.items
          /\ refused' = refused \cup {i}
          /\ mixer' = IF mixer = NoMixer THEN NoMixer ELSE mixer \ {i}
    /\ UNCHANGED orphan

Apply(i) ==
    /\ request # Idle
    /\ request.phase = "apply"
    /\ i \in request.todo
    /\ Lead(i, request.next)
    /\ UNCHANGED <<lifecycle, store, tearing, announced, base>>

\* Mutant: the store goes back to the old revision but keeps the new document.
MutantFailKeepsDocument ==
    /\ request # Idle
    /\ request.phase = "apply"
    /\ revision' = request.prevRevision
    /\ request' = Idle
    /\ UNCHANGED <<lifecycle, doc, life, running, tearing, announced, base>>

\* Mutant: the store goes back and the mixer does not.
MutantFailSkipsRollback ==
    /\ request # Idle
    /\ request.phase = "apply"
    /\ doc' = request.prev
    /\ revision' = request.prevRevision
    /\ request' = Idle
    /\ UNCHANGED <<lifecycle, life, running, tearing, announced, base>>

\* An operation fails: the store goes back, and so does the mixer if there was
\* a document.
Fail ==
    /\ request # Idle
    /\ request.phase = "apply"
    /\ doc' = request.prev
    /\ revision' = request.prevRevision
    /\ request' = IF request.prev = NoDoc THEN Idle
                  ELSE [request EXCEPT !.phase = "rollback",
                                       !.todo = Plan(request.next, request.prev)]
    /\ UNCHANGED <<lifecycle, life, running, tearing, announced, base>>

\* An operation of the way back; what fails is ignored.
Rollback(i) ==
    /\ request # Idle
    /\ request.phase = "rollback"
    /\ i \in request.todo
    /\ \/ Lead(i, request.prev)
       \/ /\ mixer = NoMixer
          /\ request' = [request EXCEPT !.todo = @ \ {i}]
          /\ UNCHANGED running
    /\ UNCHANGED <<lifecycle, store, tearing, announced, base>>

RolledBack ==
    /\ request # Idle
    /\ request.phase = "rollback"
    /\ request.todo = {}
    /\ request' = Idle
    /\ UNCHANGED <<lifecycle, store, running, tearing, announced, base>>

\* The event carries the document as it was committed.
Announce ==
    /\ request # Idle
    /\ request.phase = "apply"
    /\ request.todo = {}
    /\ announced' = [life |-> life, revision |-> revision, doc |-> request.next]
    /\ request' = Idle
    /\ UNCHANGED <<lifecycle, store, running, tearing, base>>

\* repair_live or publish_session fails: the caller gets an error, nobody an
\* event, and the store keeps the document.
FailLate ==
    /\ request # Idle
    /\ request.phase = "apply"
    /\ request.todo = {}
    /\ request' = Idle
    /\ UNCHANGED <<lifecycle, store, running, tearing, announced, base>>

-----------------------------------------------------------------------------
(* Other calls                                                              *)

\* OverlayAuto: the document is updated under its revision, whatever the mixer
\* then answers.
OverlayAuto(on) ==
    /\ request = Idle
    /\ lifecycle = "Ready" \/ mixer # NoMixer
    /\ doc # NoDoc
    /\ doc' = [doc EXCEPT !.onair = on]
    /\ UNCHANGED <<lifecycle, revision, life, request, running, tearing, announced, base>>

\* ControlService::abandon
Abandon ==
    /\ life < MaxLives
    /\ doc' = NoDoc
    /\ revision' = 0
    /\ life' = life + 1
    /\ lifecycle' = "Stopped"
    /\ orphan' = FALSE

\* Shutdown: destroy_runtime under the mutex.
Shutdown ==
    /\ request = Idle
    /\ Abandon
    /\ mixer' = NoMixer
    /\ refused' = {}
    /\ UNCHANGED <<request, tearing, announced, base>>

\* mixer_destroy of the C ABI, by a host thread: the session is abandoned only
\* if the mutex is free (try_lock).
DestroyBegin ==
    /\ ~tearing
    /\ tearing' = TRUE
    /\ IF request = Idle THEN Abandon ELSE UNCHANGED <<lifecycle, store, orphan>>
    /\ UNCHANGED <<request, mixer, refused, announced, base>>

\* mixer_destroy_inner takes the mixer down without looking at the session.
DestroyEnd ==
    /\ tearing
    /\ tearing' = FALSE
    /\ mixer' = NoMixer
    /\ refused' = {}
    /\ orphan' = (doc # NoDoc \/ request # Idle)
    /\ UNCHANGED <<lifecycle, store, request, announced, base>>

\* mixer_create of the C ABI.
CreateMixer ==
    /\ mixer = NoMixer
    /\ mixer' = {}
    /\ refused' = {}
    /\ UNCHANGED <<lifecycle, store, request, orphan, tearing, announced, base>>

Next ==
    \/ \E c \in Clients : Snapshot(c) \/ Adopt(c)
    \/ \E c \in Clients, i \in Items, guarded \in BOOLEAN :
          Replace(c, i, guarded) \/ Mutate(c, i, guarded)
    \/ CreateFails
    \/ \E i \in Items : Apply(i) \/ Rollback(i)
    \/ Fail \/ RolledBack \/ Announce \/ FailLate
    \/ \E on \in OnAir : OverlayAuto(on)
    \/ Shutdown \/ DestroyBegin \/ DestroyEnd \/ CreateMixer

Spec == Init /\ [][Next]_vars

-----------------------------------------------------------------------------

TypeOK ==
    /\ lifecycle \in {"Stopped", "Ready", "Failed"}
    /\ doc \in Document \cup {NoDoc}
    /\ revision \in 0..MaxRevision
    /\ life \in 0..MaxLives
    /\ request \in Requests \cup {Idle}
    /\ mixer = NoMixer \/ mixer \subseteq Items
    /\ refused \subseteq Items
    /\ tearing \in BOOLEAN
    /\ orphan \in BOOLEAN
    /\ announced \in Copies
    /\ base \in [Clients -> Copies]

SameVersion(x, y) == x.life = y.life /\ x.revision = y.revision

Holders == {base[c] : c \in Clients} \cup {announced}

\* Within one life of the session a revision names one set of items: copies of
\* the same revision agree, and agree with the store, through failed publishes
\* that went back and publishes that failed late (store.replace, rollback).
RevisionNamesItems ==
    /\ \A x, y \in Holders : SameVersion(x, y) => x.doc.items = y.doc.items
    /\ request = Idle =>
          \A x \in Holders : SameVersion(x, Copy) => x.doc.items = Shown.items

\* While nobody destroys the mixer under it, every item of the session runs,
\* or its start was refused, once no publish is under way (plan, its rollback).
EverythingRuns ==
    request = Idle /\ doc # NoDoc /\ ~orphan =>
        mixer # NoMixer /\ doc.items \subseteq mixer \cup refused

Begins == request = Idle /\ request' # Idle

\* A publish guarded by expected_revision, from a copy of this life of the
\* session, changes the item that its client edited and no other.
GuardedPublishLosesNothing ==
    [][Begins /\ request'.guarded /\ base[request'.by].life = life
        => doc'.items = Differ(Shown.items, {request'.item})]_vars

\* expected_revision rejects a publish that would undo an overlay that another
\* client put on air.
GuardedPublishKeepsOverlay ==
    [][Begins /\ request'.guarded /\ base[request'.by].life = life
        => doc'.onair = Shown.onair]_vars
=============================================================================
