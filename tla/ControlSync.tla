----------------------------- MODULE ControlSync -----------------------------
(***************************************************************************)
(* How the clients of the control API follow the session: the service and  *)
(* its event ring (module EventHub), one connection per client with its    *)
(* loop handle_ws (eiviz-api/src/server.rs), and the client's view, kept   *)
(* by session_once and by the tasks that call it (eiviz-api/src/client.rs).*)
(*                                                                         *)
(* A document is named by the revision that made it.  Of the events of one *)
(* command the model publishes one: SessionChanged with the document, or   *)
(* one that carries none.  A client has one call under way at a time; what *)
(* other clients and the vMix API do is done by nobody in particular.      *)
(***************************************************************************)
EXTENDS EventHub, FiniteSets, FiniteSetsExt

CONSTANTS
    MaxRevision   \* bound: the revisions of the session

ASSUME RevisionsAreNumbers == MaxRevision \in Nat

VARIABLES
    revision,   \* the store's revision, and the document it has
    says,       \* per event: the revision of its document, 0 if it has none
    inbox,      \* per client: what the server has sent and it has not read
    call,       \* per client: the call under way
    view,       \* per client: SessionView, and last_seq of its worker
    up,         \* per client: its connection exists
    follows,    \* per client: a Subscribe of it was answered
    overtaken   \* per client: its view was overwritten by an older reply

syncVars == <<revision, says, inbox, call, view, up, follows, overtaken>>
allVars == <<vars, syncVars>>

Kinds == {"subscribe", "read", "live", "edit", "save"}

NoCall == [at |-> "idle"]

\* The answer is in the inbox; is it that of a Subscribe?
Waiting(sub) == [at |-> "answered", sub |-> sub]

\* sequence: SessionView::sequence; last: session_once's last_seq.
NewView == [document |-> 0, documentRevision |-> 0, sequence |-> 0, last |-> 0, lag |-> FALSE]

SyncInit ==
    /\ Init
    /\ revision = 0
    /\ says = <<>>
    /\ inbox = [c \in Subscribers |-> <<>>]
    /\ call = [c \in Subscribers |-> NoCall]
    /\ view = [c \in Subscribers |-> NewView]
    /\ up = [c \in Subscribers |-> TRUE]
    /\ follows = [c \in Subscribers |-> FALSE]
    /\ overtaken = [c \in Subscribers |-> FALSE]

-----------------------------------------------------------------------------
(* The service                                                              *)

\* replace_session, mutate_session: a new document, and an event that has it.
PublishDocument ==
    /\ revision < MaxRevision
    /\ revision' = revision + 1
    /\ Publish
    /\ says' = Append(says, revision')

\* apply_video_op, execute_live and other events without a document.
PublishOther ==
    /\ Publish
    /\ says' = Append(says, 0)
    /\ UNCHANGED revision

\* A replace_session that fails after the commit: no event tells of it.
PublishNothing ==
    /\ revision < MaxRevision
    /\ revision' = revision + 1
    /\ UNCHANGED <<vars, says>>

OthersAct ==
    /\ PublishDocument \/ PublishOther \/ PublishNothing
    /\ UNCHANGED <<inbox, call, view, up, follows, overtaken>>

-----------------------------------------------------------------------------
(* The connection                                                           *)

Send(c, messages) == inbox' = [inbox EXCEPT ![c] = @ \o messages]

\* snapshot(): the document, its revision and the newest event's number.
SnapshotReply == [kind |-> "snapshot", rev |-> revision, seq |-> next - 1]

\* Saving answers with the revision and the sequence alone.
StatusReply == [kind |-> "status", rev |-> revision, seq |-> next - 1]

Refusal == [kind |-> "error", rev |-> 0, seq |-> 0]

\* What becomes of a call that has run: a save is answered in its own way, a
\* subscription is noted, and all others are alike.
Answered(kind) == IF kind \in {"save", "subscribe"} THEN kind ELSE "read"

\* handle_ws takes a request and dispatch executes it; a subscription starts
\* before its snapshot is taken.
Run(c) ==
    /\ call[c].at = "sent"
    /\ CASE call[c].kind = "subscribe" -> Subscribe(c, call[c].after) /\ UNCHANGED <<revision, says>>
         [] call[c].kind = "live" -> PublishOther
         [] call[c].kind = "edit" -> PublishDocument
         [] OTHER -> UNCHANGED <<vars, revision, says>>
    /\ call' = [call EXCEPT ![c] = [at |-> "ran", kind |-> Answered(call[c].kind)]]
    /\ UNCHANGED <<inbox, view, up, follows, overtaken>>

\* A call that is refused, for its role, its arguments or its revision.
Refuse(c) ==
    /\ call[c].at = "sent" /\ call[c].kind # "subscribe"
    /\ Send(c, <<Refusal>>)
    /\ call' = [call EXCEPT ![c] = Waiting(FALSE)]
    /\ UNCHANGED <<vars, revision, says, view, up, follows, overtaken>>

\* exec_cmd takes the answer's snapshot in a section of its own.
Answer(c) ==
    /\ call[c].at = "ran"
    /\ Send(c, <<IF call[c].kind = "save" THEN StatusReply ELSE SnapshotReply>>)
    /\ call' = [call EXCEPT ![c] = Waiting(call[c].kind = "subscribe")]
    /\ UNCHANGED <<vars, revision, says, view, up, follows, overtaken>>

\* What after() returns, as messages: perhaps a Lag, then the events. They are
\* numbered in order, so that the filter leaves the last ones.
Batch(a) ==
    LET lag == IF Missed(a) = 0 THEN <<>> ELSE <<[kind |-> "lag", rev |-> 0, seq |-> a]>>
        newer == SubSeq(ring, Cardinality({i \in 1..Len(ring) : ring[i] <= a}) + 1, Len(ring))
    IN  lag \o [i \in 1..Len(newer) |->
                    [kind |-> "event", rev |-> says[newer[i]], seq |-> newer[i]]]

\* The connection's tick; its loop is not ticking while it serves a request.
Tick(c) ==
    /\ call[c].at # "ran"
    /\ Drain(c)
    /\ Send(c, Batch(feed[c].upTo))
    /\ UNCHANGED <<revision, says, call, view, up, follows, overtaken>>

-----------------------------------------------------------------------------
(* The client                                                               *)

\* apply_response
AfterReply(v, m) ==
    CASE m.kind = "error" -> v
      [] m.kind = "status" -> [v EXCEPT !.sequence = m.seq]
      [] m.kind = "snapshot" ->
            [v EXCEPT !.document = m.rev, !.documentRevision = m.rev, !.sequence = m.seq,
                      !.lag = FALSE]

\* Mutant: only a gap after an event already seen counts as a lag.
MutantAfterEventIgnoresLag(v, m) ==
    LET gap == v.last # 0 /\ m.seq > v.last + 1
        seen == [v EXCEPT !.lag = @ \/ gap, !.last = Max({v.last, m.seq}),
                          !.sequence = Max({v.sequence, m.seq})]
    IN  IF m.rev = 0 THEN seen
        ELSE [seen EXCEPT !.document = m.rev, !.documentRevision = m.rev]

\* apply_event
AfterEvent(v, m) ==
    LET gap == v.last # 0 /\ m.seq > v.last + 1
        seen == [v EXCEPT !.lag = @ \/ gap \/ m.kind = "lag", !.last = Max({v.last, m.seq}),
                          !.sequence = Max({v.sequence, m.seq})]
    IN  IF m.rev = 0 THEN seen
        ELSE [seen EXCEPT !.document = m.rev, !.documentRevision = m.rev]

\* A task of the client sends a request and waits for its reply.  It asks for
\* all events, or for those after what its view has seen.
Call(c, kind, after) ==
    /\ up[c] /\ call[c].at = "idle"
    /\ after = 0 \/ (kind = "subscribe" /\ after = view[c].sequence)
    /\ call' = [call EXCEPT ![c] = [at |-> "sent", kind |-> kind, after |-> after]]
    /\ UNCHANGED <<vars, revision, says, inbox, view, up, follows, overtaken>>

\* The worker reads an event.  `passed` remembers that it came between the two
\* times a reply is applied.
ReceiveEvent(c) ==
    /\ inbox[c] # <<>>
    /\ LET m == Head(inbox[c])
       IN  /\ m.kind \in {"event", "lag"}
           /\ view' = [view EXCEPT ![c] = AfterEvent(@, m)]
           /\ overtaken' = [overtaken EXCEPT ![c] = @ /\ m.rev = 0]
    /\ inbox' = [inbox EXCEPT ![c] = Tail(@)]
    /\ call' = IF call[c].at = "replied" THEN [call EXCEPT ![c].passed = TRUE] ELSE call
    /\ UNCHANGED <<vars, revision, says, up, follows>>

\* The worker reads a reply, applies it and hands it to the task.
ReceiveReply(c) ==
    /\ inbox[c] # <<>>
    /\ LET m == Head(inbox[c])
       IN  /\ m.kind \notin {"event", "lag"}
           /\ view' = [view EXCEPT ![c] = AfterReply(@, m)]
           /\ overtaken' = [overtaken EXCEPT ![c] = @ /\ m.kind # "snapshot"]
           /\ call' = [call EXCEPT ![c] = [at |-> "replied", reply |-> m, passed |-> FALSE]]
    /\ follows' = [follows EXCEPT ![c] = @ \/ call[c].sub]
    /\ inbox' = [inbox EXCEPT ![c] = Tail(@)]
    /\ UNCHANGED <<vars, revision, says, up>>

\* The task wakes up and applies the reply once more.
Return(c) ==
    /\ call[c].at = "replied"
    /\ view' = [view EXCEPT ![c] = AfterReply(@, call[c].reply)]
    /\ overtaken' = [overtaken EXCEPT
                        ![c] = @ \/ (call[c].passed /\ call[c].reply.kind = "snapshot")]
    /\ call' = [call EXCEPT ![c] = NoCall]
    /\ UNCHANGED <<vars, revision, says, inbox, up, follows>>

\* Mutant: calls that wait for a reply wait on.
MutantDropKeepsCalls(c) ==
    /\ up[c]
    /\ up' = [up EXCEPT ![c] = FALSE]
    /\ IF feed[c].on THEN Disconnect(c) ELSE UNCHANGED vars
    /\ inbox' = [inbox EXCEPT ![c] = <<>>]
    /\ call' = IF call[c].at \in {"idle", "replied"} THEN call ELSE [call EXCEPT ![c] = Waiting(FALSE)]
    /\ UNCHANGED <<revision, says, view, follows, overtaken>>

\* The connection breaks: the server's loop ends, what was on its way is lost
\* and the calls that wait for a reply fail (session_once drops `pending`).
Drop(c) ==
    /\ up[c]
    /\ up' = [up EXCEPT ![c] = FALSE]
    /\ IF feed[c].on THEN Disconnect(c) ELSE UNCHANGED vars
    /\ inbox' = [inbox EXCEPT ![c] = <<>>]
    /\ call' = IF call[c].at = "replied" THEN call ELSE [call EXCEPT ![c] = NoCall]
    /\ UNCHANGED <<revision, says, view, follows, overtaken>>

\* session_supervisor opens a new one; nobody subscribes on it.
Reconnect(c) ==
    /\ ~up[c]
    /\ up' = [up EXCEPT ![c] = TRUE]
    /\ view' = [view EXCEPT ![c].lag = FALSE, ![c].last = 0]
    /\ UNCHANGED <<vars, revision, says, inbox, call, follows, overtaken>>

SyncNext ==
    \/ OthersAct
    \/ \E c \in Subscribers :
          \/ \E kind \in Kinds, after \in 0..MaxSeq : Call(c, kind, after)
          \/ Run(c) \/ Refuse(c) \/ Answer(c) \/ Tick(c)
          \/ ReceiveEvent(c) \/ ReceiveReply(c) \/ Return(c)
          \/ Drop(c) \/ Reconnect(c)

SyncSpec == SyncInit /\ [][SyncNext]_allVars

\* The service answers, the worker reads, the task wakes up; the tick comes to
\* its turn between requests (select! takes any branch that is ready).
SyncFairness ==
    \A c \in Subscribers :
        /\ WF_allVars(Run(c) \/ Refuse(c)) /\ WF_allVars(Answer(c))
        /\ WF_allVars(ReceiveEvent(c) \/ ReceiveReply(c)) /\ WF_allVars(Return(c))
        /\ SF_allVars(Tick(c))

FairSyncSpec == SyncSpec /\ SyncFairness

-----------------------------------------------------------------------------

\* documentRevision is the revision of the document beside it, whatever replies
\* and events came in between: it is what a host sends as expected_revision
\* with its edit of that document (SessionView::document_revision).
DocumentMatchesItsRevision ==
    \A c \in Subscribers : view[c].document = view[c].documentRevision

\* The newest document that an event told of.
Announced == Max({0} \cup {says[i] : i \in 1..Len(says)})

\* Nothing is under way between the service and the client.
Settled(c) == up[c] /\ inbox[c] = <<>> /\ call[c].at = "idle" /\ (feed[c].on => feed[c].upTo = next - 1)

\* A subscriber that shows no lag has every document it was told of once all
\* has been read, through gaps, replays and snapshots in between, unless a task
\* that woke up late overwrote its view with an older reply.
CurrentUnlessOvertaken ==
    \A c \in Subscribers :
        Settled(c) /\ feed[c].on /\ ~view[c].lag /\ ~overtaken[c]
        => view[c].documentRevision >= Announced

\* A client's view is what it says it is.
ViewIsHonest == DocumentMatchesItsRevision /\ CurrentUnlessOvertaken

\* A view that shows no lag is current, once its client has subscribed.
FollowsForGood ==
    \A c \in Subscribers :
        Settled(c) /\ follows[c] /\ ~view[c].lag /\ ~overtaken[c]
        => view[c].documentRevision >= Announced

\* A call ends, whatever becomes of its connection (pending, roundtrip).
CallsEnd == \A c \in Subscribers : call[c].at # "idle" ~> call[c].at = "idle"

\* A document that is announced reaches every subscriber, which shows a lag or
\* has lost its connection if it does not.
DocumentsArrive ==
    \A c \in Subscribers, r \in 1..MaxRevision :
        feed[c].on /\ Announced >= r
        ~> view[c].documentRevision >= r \/ view[c].lag \/ overtaken[c] \/ ~feed[c].on

\* Nobody waits for good: neither a task for its answer nor a subscriber for a
\* document.
NobodyWaitsForGood == CallsEnd /\ DocumentsArrive
=============================================================================
