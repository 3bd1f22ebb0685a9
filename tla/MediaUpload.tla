----------------------------- MODULE MediaUpload -----------------------------
(***************************************************************************)
(* Sending a media file to the host: upload_file of the client             *)
(* (eiviz-api/src/client.rs), the upload requests of the server            *)
(* (server.rs) and the files and uploads the host keeps (media.rs).        *)
(*                                                                         *)
(* An upload is one call of upload_file: a client makes the next call when *)
(* it was told that the last one failed.  A connection serves its requests *)
(* one after the other; different connections interleave, also inside a    *)
(* commit, which takes three locks in turn.  A client whose connection     *)
(* breaks goes on with a new one, while the host may still be serving what *)
(* it had received over the old one.                                       *)
(***************************************************************************)
EXTENDS Naturals, Sequences, FiniteSets, Functions

CONSTANTS
    Clients,
    Cap,        \* MediaStorageConfig::max_uploads
    Chunks,     \* bound: the chunks a file is sent in
    MaxTries,   \* bound: the calls of upload_file each client makes
    MaxLinks    \* bound: the connections each client uses

ASSUME ConstantsAssumption ==
    /\ Cap \in Nat \ {0}
    /\ Chunks \in Nat \ {0}
    /\ MaxTries \in Nat
    /\ MaxLinks \in Nat \ {0}

Uploads == Clients \X (1..MaxTries)
Links == Clients \X (1..MaxLinks)

VARIABLES
    client,   \* per client: the request it awaits, its call and connection
    told,     \* per upload: what the caller of upload_file was told
    inbox,    \* per connection: the requests the host has not answered
    doing,    \* per connection: how far the commit it serves has come
    outbox,   \* per client: the answers under way on its connection
    uploads,  \* FileInner::uploads: the bytes received, in chunks
    old,      \* those of them that began longer than STALE_AFTER ago
    pending,  \* State::pending
    staged,   \* the files in .staging
    stuck,    \* those of them that a commit could not hash or move
    media,    \* the files in the media directory
    inputs,   \* how often each upload was added to the session
    verdict   \* per upload: how the publish of its commit ended

caller == <<client, told>>
host == <<uploads, old, pending, staged, stuck, media, inputs, verdict>>
vars == <<caller, inbox, doing, outbox, host>>

Init ==
    /\ client = [c \in Clients |-> [step |-> "idle", try |-> 0, part |-> 0, link |-> 1]]
    /\ told = [u \in Uploads |-> "none"]
    /\ inbox = [k \in Links |-> <<>>]
    /\ doing = [k \in Links |-> "read"]
    /\ outbox = [c \in Clients |-> <<>>]
    /\ uploads = << >>
    /\ old = {}
    /\ pending = {}
    /\ staged = {}
    /\ stuck = {}
    /\ media = {}
    /\ inputs = [u \in Uploads |-> 0]
    /\ verdict = [u \in Uploads |-> "none"]

-----------------------------------------------------------------------------
(* The client.                                                              *)

Mine(c) == <<c, client[c].try>>
Awaited(c) == [op |-> client[c].step, up |-> Mine(c), part |-> client[c].part]

\* The next roundtrip of the client's call, over connection `link`.
Ask(c, op, part, link, box) ==
    /\ client' = [client EXCEPT ![c] = [@ EXCEPT !.step = op, !.part = part, !.link = link]]
    /\ inbox' = [box EXCEPT ![<<c, link>>] =
                    Append(@, [op |-> op, up |-> Mine(c), part |-> part])]
    /\ UNCHANGED told

\* upload_file returns.
Tell(c, what, link) ==
    /\ client' = [client EXCEPT ![c] = [@ EXCEPT !.step = "idle", !.part = 0, !.link = link]]
    /\ told' = [told EXCEPT ![Mine(c)] = what]

Begin(c) ==
    LET u == <<c, client[c].try + 1>>
    IN  /\ client[c].step = "idle"
        /\ client[c].try < MaxTries
        /\ client[c].try > 0 => told[Mine(c)] # "ok"
        /\ client' = [client EXCEPT ![c].step = "begin", ![c].try = @ + 1]
        /\ inbox' = [inbox EXCEPT ![<<c, client[c].link>>] =
                        Append(@, [op |-> "begin", up |-> u, part |-> 0])]
        /\ UNCHANGED <<told, doing, outbox, host>>

\* The awaited answer: the next chunk, the commit after the last one, an abort
\* if a chunk failed, and otherwise the end of the call.
Answered(c, ok) ==
    LET at == client[c]
        ask(op, part) == Ask(c, op, part, at.link, inbox)
        tell(what) == Tell(c, what, at.link) /\ UNCHANGED inbox
    IN  \/ at.step = "begin" /\ ok /\ ask("chunk", 1)
        \/ at.step = "chunk" /\ ok /\ at.part < Chunks /\ ask("chunk", at.part + 1)
        \/ at.step = "chunk" /\ ok /\ at.part = Chunks /\ ask("commit", 0)
        \/ at.step = "chunk" /\ ~ok /\ ask("abort", 0)
        \/ at.step = "begin" /\ ~ok /\ tell("error")
        \/ at.step = "commit" /\ tell(IF ok THEN "ok" ELSE "error")
        \/ at.step = "abort" /\ tell(IF at.part = 0 THEN "error" ELSE "timeout")

\* An answer that arrives: one to a request that was given up is ignored.
Receive(c) ==
    /\ outbox[c] # <<>>
    /\ outbox' = [outbox EXCEPT ![c] = Tail(@)]
    /\ LET m == Head(outbox[c])
       IN  IF [op |-> m.op, up |-> m.up, part |-> m.part] = Awaited(c)
           THEN Answered(c, m.ok)
           ELSE UNCHANGED <<caller, inbox>>
    /\ UNCHANGED <<doing, host>>

\* Chunks, commit and the abort after a failed chunk run against one deadline.
InTransfer(c) ==
    \/ client[c].step \in {"chunk", "commit"}
    \/ client[c].step = "abort" /\ client[c].part = 0

\* Mutant: the deadline returns at once and leaves the upload to itself.
MutantDeadlineNoAbort(c) ==
    /\ InTransfer(c)
    /\ Tell(c, "timeout", client[c].link)
    /\ UNCHANGED <<inbox, doing, outbox, host>>

\* UPLOAD_DEADLINE: the transfer is dropped, with the roundtrip it waits in,
\* and the upload is aborted.
Deadline(c) ==
    /\ InTransfer(c)
    /\ Ask(c, "abort", 1, client[c].link, inbox)
    /\ UNCHANGED <<doing, outbox, host>>

\* Mutant: requests of the broken connection stay pending.
MutantDisconnectKeepsWaiting(c) ==
    /\ client[c].link < MaxLinks
    /\ outbox' = [outbox EXCEPT ![c] = <<>>]
    /\ client' = [client EXCEPT ![c].link = @ + 1]
    /\ UNCHANGED <<told, inbox, doing, host>>

\* The connection breaks: the host may have received some of what was sent, and
\* answers nothing of it.  The awaited roundtrip fails; only a failed chunk is
\* followed by an abort, unless the client is not connected again by then.
Disconnect(c) ==
    LET k == <<c, client[c].link>>
        next == client[c].link + 1
    IN  /\ client[c].link < MaxLinks
        /\ outbox' = [outbox EXCEPT ![c] = <<>>]
        /\ \E n \in 0..Len(inbox[k]) :
              LET kept == [inbox EXCEPT ![k] = SubSeq(@, 1, n)]
              IN  /\ n = 0 => doing[k] = "read"
                  /\ \/ /\ client[c].step = "idle"
                        /\ client' = [client EXCEPT ![c].link = next]
                        /\ inbox' = kept
                        /\ UNCHANGED told
                     \/ client[c].step = "chunk" /\ Ask(c, "abort", 0, next, kept)
                     \/ client[c].step # "idle" /\ Tell(c, "lost", next) /\ inbox' = kept
        /\ UNCHANGED <<doing, host>>

-----------------------------------------------------------------------------
(* The host.  k is the connection whose first request is served.            *)

Serves(k, op) == inbox[k] # <<>> /\ Head(inbox[k]).op = op
Subject(k) == Head(inbox[k]).up

\* The answer goes back, if the connection is still there.
Reply(k, ok) ==
    LET r == Head(inbox[k])
        c == k[1]
        m == [op |-> r.op, up |-> r.up, part |-> r.part, ok |-> ok]
    IN  /\ inbox' = [inbox EXCEPT ![k] = Tail(@)]
        /\ doing' = [doing EXCEPT ![k] = "read"]
        /\ outbox' = IF client[c].link = k[2] THEN [outbox EXCEPT ![c] = Append(@, m)] ELSE outbox
        /\ UNCHANGED caller

\* sweep: what is left of the uploads once the old ones are dropped.
Swept == Restrict(uploads, DOMAIN uploads \ old)

\* An operation that sweeps first leaves these uploads and staging files.
Sweep(now, files) ==
    /\ uploads' = now
    /\ old' = {}
    /\ staged' = files \ old

\* FileMediaStorage::begin, when it takes the upload.
StorageBegin(u) ==
    /\ Cardinality(DOMAIN Swept) < Cap
    /\ Sweep([v \in DOMAIN Swept \cup {u} |-> IF v = u THEN 0 ELSE Swept[v]], staged \cup {u})

\* FileMediaStorage::write_chunk, when the chunk is the next one and is written.
StorageChunk(u, part) ==
    /\ u \in DOMAIN Swept
    /\ Swept[u] + 1 = part
    /\ Sweep([Swept EXCEPT ![u] = part], staged)

\* FileMediaStorage::abort, which does not sweep.
StorageAbort(u) ==
    /\ uploads' = Restrict(uploads, DOMAIN uploads \ {u})
    /\ old' = old \ {u}
    /\ staged' = IF u \in DOMAIN uploads THEN staged \ {u} ELSE staged

\* begin_upload: a refused file changes nothing; otherwise old uploads go and
\* the new one takes a place, unless all are taken or its file fails.
ServeBegin(k) ==
    /\ Serves(k, "begin")
    /\ LET u == Subject(k)
       IN  \/ Reply(k, FALSE) /\ UNCHANGED <<uploads, old, staged, pending>>
           \/ Sweep(Swept, staged) /\ Reply(k, FALSE) /\ UNCHANGED pending
           \/ StorageBegin(u) /\ pending' = pending \cup {u} /\ Reply(k, TRUE)
    /\ UNCHANGED <<stuck, media, inputs, verdict>>

\* write_chunk: the next chunk of an upload, unless the disk refuses it.
ServeChunk(k) ==
    /\ Serves(k, "chunk")
    /\ \/ Sweep(Swept, staged) /\ Reply(k, FALSE)
       \/ StorageChunk(Subject(k), Head(inbox[k]).part) /\ Reply(k, TRUE)
    /\ UNCHANGED <<pending, stuck, media, inputs, verdict>>

\* Mutant: an abort that leaves the entry of the upload behind.
MutantServeAbortKeepsPending(k) ==
    /\ Serves(k, "abort")
    /\ StorageAbort(Subject(k))
    /\ Reply(k, TRUE)
    /\ UNCHANGED <<pending, stuck, media, inputs, verdict>>

\* The AbortMediaUpload arm of dispatch.  An upload of this client is committed
\* over the connection that aborts it, so nothing comes between its two locks.
\* The answer, a snapshot or an error, is the same to the client.
ServeAbort(k) ==
    /\ Serves(k, "abort")
    /\ StorageAbort(Subject(k))
    /\ pending' = pending \ {Subject(k)}
    /\ Reply(k, TRUE)
    /\ UNCHANGED <<stuck, media, inputs, verdict>>

\* commit_upload: whoever removes the entry commits the upload.
Claim(k) ==
    /\ Serves(k, "commit") /\ doing[k] = "read"
    /\ IF Subject(k) \in pending
       THEN doing' = [doing EXCEPT ![k] = "claimed"] /\ UNCHANGED <<caller, inbox, outbox>>
       ELSE Reply(k, FALSE)
    /\ pending' = pending \ {Subject(k)}
    /\ UNCHANGED <<uploads, old, staged, stuck, media, inputs, verdict>>

\* FileMediaStorage::commit: the upload is dropped from the list; its file is
\* removed when it is incomplete or differs from its hash, stays where it is
\* when it cannot be read or moved, and is moved to the media directory.
Seal(k) ==
    /\ Serves(k, "commit") /\ doing[k] = "claimed"
    /\ LET u == Subject(k)
           rest == Restrict(Swept, DOMAIN Swept \ {u})
       IN  \/ /\ u \notin DOMAIN Swept
              /\ Sweep(Swept, staged) /\ Reply(k, FALSE)
              /\ UNCHANGED <<stuck, media>>
           \/ /\ u \in DOMAIN Swept
              /\ Sweep(rest, staged \ {u}) /\ Reply(k, FALSE)
              /\ UNCHANGED <<stuck, media>>
           \/ /\ u \in DOMAIN Swept /\ Swept[u] = Chunks
              /\ Sweep(rest, staged) /\ Reply(k, FALSE)
              /\ stuck' = stuck \cup {u}
              /\ UNCHANGED media
           \/ /\ u \in DOMAIN Swept /\ Swept[u] = Chunks
              /\ Sweep(rest, staged \ {u})
              /\ media' = media \cup {u}
              /\ doing' = [doing EXCEPT ![k] = "sealed"]
              /\ UNCHANGED <<stuck, caller, inbox, outbox>>
    /\ UNCHANGED <<pending, inputs, verdict>>

\* The rest of commit_upload: the session takes the input or refuses it, or it
\* takes it and an error comes after that (replace_session's repair or publish
\* to the mixer, the snapshot of the answer).  With any error the file goes.
Add(k) ==
    /\ Serves(k, "commit") /\ doing[k] = "sealed"
    /\ LET u == Subject(k)
       IN  \E v \in {"ok", "refused", "late"} :
              /\ verdict' = [verdict EXCEPT ![u] = v]
              /\ inputs' = IF v = "refused" THEN inputs ELSE [inputs EXCEPT ![u] = @ + 1]
              /\ media' = IF v = "ok" THEN media ELSE media \ {u}
              /\ Reply(k, v = "ok")
    /\ UNCHANGED <<uploads, old, pending, staged, stuck>>

\* An upload becomes older than STALE_AFTER.
Age(u) ==
    /\ u \in DOMAIN uploads
    /\ old' = old \cup {u}
    /\ UNCHANGED <<caller, inbox, doing, outbox, uploads, pending, staged, stuck,
                   media, inputs, verdict>>

-----------------------------------------------------------------------------

Serve(k) ==
    \/ ServeBegin(k) \/ ServeChunk(k) \/ ServeAbort(k)
    \/ Claim(k) \/ Seal(k) \/ Add(k)

Next ==
    \/ \E c \in Clients : Begin(c) \/ Receive(c) \/ Deadline(c) \/ Disconnect(c)
    \/ \E k \in Links : Serve(k)
    \/ \E u \in Uploads : Age(u)

\* A request that was received is served, and its answer is delivered: neither
\* waits for anything but the locks, which are held for bounded sections.
Fairness ==
    /\ \A k \in Links : WF_vars(Serve(k))
    /\ \A c \in Clients : WF_vars(Receive(c))

Spec == Init /\ [][Next]_vars /\ Fairness

-----------------------------------------------------------------------------

\* The host tracks at most max_uploads uploads; the staging files are those of
\* tracked uploads and the ones a commit failed on (begin, sweep, commit).
TypeOK ==
    /\ DOMAIN uploads \subseteq Uploads
    /\ \A u \in DOMAIN uploads : uploads[u] \in 0..Chunks
    /\ old \subseteq DOMAIN uploads
    /\ Cardinality(DOMAIN uploads) <= Cap
    /\ staged = DOMAIN uploads \cup stuck
    /\ \A k \in Links : doing[k] # "read" => Serves(k, "commit")

\* The file of an upload is in the media directory while its commit is about to
\* add it, and from then on exactly if the session took it without an error:
\* no input of a commit that succeeded lacks its file and no file is left of
\* one that did not (commit_upload).
FilesAgree ==
    \A u \in Uploads :
        u \in media <=> \/ verdict[u] = "ok"
                        \/ \E k \in Links : doing[k] = "sealed" /\ Subject(k) = u

\* What the caller is told is so: an upload that succeeded was added once, and
\* one that the host refused was not added, except by a publish that failed
\* after the session had changed (upload_file, commit_upload).
ToldTruly ==
    \A u \in Uploads :
        /\ told[u] = "ok" => inputs[u] = 1 /\ u \in media
        /\ told[u] = "error" => inputs[u] = 0 \/ verdict[u] = "late"
        /\ inputs[u] <= 1

\* Once the caller is told anything while its connection holds, the host keeps
\* nothing of the upload but its input (upload_file's aborts, commit_upload).
NothingLeftBehind ==
    \A u \in Uploads :
        told[u] \in {"ok", "error", "timeout"} =>
            u \notin DOMAIN uploads \cup pending \cup (staged \ stuck)

\* Every file on the host is accounted for: staged for a tracked upload or stuck
\* after a failed commit, in the media directory for an input, or on its way there;
\* and so is what its caller was told of it.
FilesAccountedFor == TypeOK /\ FilesAgree /\ ToldTruly /\ NothingLeftBehind

\* A caller that was told the end of its upload while its connection held does
\* not see the input appear later: the abort is answered only after a commit
\* that was under way (upload_file: "Abort so a later retry ...").
SettledWhenTold ==
    [][\A u \in Uploads :
          told[u] \in {"ok", "error", "timeout"} => inputs'[u] = inputs[u]]_vars

\* Every call of upload_file returns, whatever is refused or lost on the way.
EveryCallReturns == \A c \in Clients : client[c].step # "idle" ~> client[c].step = "idle"
=============================================================================
