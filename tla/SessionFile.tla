----------------------------- MODULE SessionFile -----------------------------
(* The session file on disk (crates/eiviz-control/src/session/file.rs): a save
   reads the file for its history, writes a temporary file beside it, syncs it
   and renames it over the path; the headless restore and an export write the
   same way without a history.  Savers are the control service (SaveSession,
   under its mutex), a host that calls mixer_session_save, and the command line;
   no lock is common to them, and the name of the temporary file is fixed.

   The file system is modelled by what the code relies on: a name refers to an
   inode, a rename is atomic, the bytes of an inode are safe after sync_all and
   the names are safe after the directory is synced.                          *)
EXTENDS Integers, Sequences, FiniteSets

CONSTANTS
    Savers,
    Docs,       \* documents, told apart by their bytes only
    Limit,      \* HISTORY_LIMIT
    Unix,       \* sync_parent_dir does something
    MaxSaves,   \* bound: saves of a behaviour
    MaxFaults   \* bound: failing file operations and crashes

ASSUME FileAssumption ==
    IsFiniteSet(Savers) /\ Limit \in Nat \ {0} /\ Unix \in BOOLEAN /\ MaxSaves \in Nat /\ MaxFaults \in Nat

None == 0                                \* a name that refers to no file
Inodes == 1..(Cardinality(Savers) + 4)   \* enough for the files that can be reached

Empty == [kind |-> "empty"]
Torn == [kind |-> "torn"]                \* bytes decode_container refuses
Half(n) == [kind |-> "half", by |-> n]   \* the first bytes of save n
File(n, doc, history) == [kind |-> "file", by |-> n, doc |-> doc, history |-> history]

VARIABLES
    path,      \* inode the session path refers to
    tmp,       \* inode `<path>.tmp` refers to
    survives,  \* inodes the path may refer to after a crash
    bytes,     \* what an inode holds
    synced,    \* inodes whose bytes are safe
    saver,     \* what each saver is doing
    saves,     \* saves begun so far
    durable,   \* history: the last save that was reported done with its directory synced
    failed,    \* history: saves whose callers were told of an error
    overlapped,\* history: two saves ran at the same time
    faults

fileVars == <<path, tmp, survives, bytes, synced, saver, saves, durable, failed, overlapped, faults>>

Idle == [pc |-> "idle", op |-> "none", by |-> 0, fd |-> None, new |-> Empty]

FileInit ==
    /\ path = None
    /\ tmp = None
    /\ survives = {None}
    /\ bytes = [i \in Inodes |-> Empty]
    /\ synced = {}
    /\ saver = [s \in Savers |-> Idle]
    /\ saves = 0
    /\ durable = 0
    /\ failed = {}
    /\ overlapped = FALSE
    /\ faults = 0

-----------------------------------------------------------------------------
(* A save *)

\* Mutant: the history stays without the document that is replaced.
MutantHistoryOver(old, doc) == old.history

\* The history a save writes: the document it replaces comes first, unless it is
\* the same document.
HistoryOver(old, doc) ==
    LET newest == IF old.history = <<>> THEN 0 ELSE old.history[1].revision
        all    == <<[revision |-> newest + 1, doc |-> old.doc]>> \o old.history
    IN  IF old.doc = doc THEN old.history
        ELSE SubSeq(all, 1, IF Len(all) < Limit THEN Len(all) ELSE Limit)

At(s, pc) == saver[s].pc = pc

Enters(s, op, doc, history) ==
    /\ saver' = [saver EXCEPT ![s] = [pc |-> "create", op |-> op, by |-> saves + 1, fd |-> None,
                                      new |-> File(saves + 1, doc, history)]]
    /\ saves' = saves + 1
    /\ overlapped' = (overlapped \/ \E t \in Savers \ {s} : ~At(t, "idle"))
    /\ UNCHANGED <<path, tmp, survives, bytes, synced, durable, failed, faults>>

\* write_document_rev up to atomic_write.
Save(s, doc) ==
    /\ At(s, "idle")
    /\ saves < MaxSaves
    /\ IF path = None THEN Enters(s, "save", doc, <<>>)
       ELSE /\ bytes[path].kind = "file"
            /\ Enters(s, "save", doc, HistoryOver(bytes[path], doc))

\* The file is there but does not decode: the save is refused and nothing is written.
RefuseSave(s) ==
    /\ At(s, "idle")
    /\ saves < MaxSaves
    /\ path # None
    /\ bytes[path].kind # "file"
    /\ saves' = saves + 1
    /\ failed' = failed \cup {saves + 1}
    /\ UNCHANGED <<path, tmp, survives, bytes, synced, saver, durable, overlapped, faults>>

\* export_document, and the restore of the command line: no history is kept.
Export(s, doc) == At(s, "idle") /\ saves < MaxSaves /\ Enters(s, "export", doc, <<>>)

Step(s, pc) == saver' = [saver EXCEPT ![s].pc = pc]

\* File::create: the file behind the temporary name is truncated, if there is one.
CreateTmp(s) ==
    LET free  == Inodes \ ({path} \cup survives \cup {saver[t].fd : t \in Savers})
        inode == IF tmp # None THEN tmp ELSE CHOOSE i \in free : TRUE
    IN  /\ At(s, "create")
        /\ tmp # None \/ free # {}
        /\ tmp' = inode
        /\ bytes' = [bytes EXCEPT ![inode] = Empty]
        /\ synced' = synced \ {inode}
        /\ saver' = [saver EXCEPT ![s].pc = "write", ![s].fd = inode]
        /\ UNCHANGED <<path, survives, saves, durable, failed, overlapped, faults>>

\* write_all, in two parts.  Two savers that write the same inode leave a mixture.
WriteFirst(s) ==
    /\ At(s, "write")
    /\ bytes' = [bytes EXCEPT ![saver[s].fd] = IF @ = Empty THEN Half(saver[s].by) ELSE Torn]
    /\ synced' = synced \ {saver[s].fd}
    /\ Step(s, "rest")
    /\ UNCHANGED <<path, tmp, survives, saves, durable, failed, overlapped, faults>>

WriteRest(s) ==
    /\ At(s, "rest")
    /\ bytes' = [bytes EXCEPT ![saver[s].fd] = IF @ = Half(saver[s].by) THEN saver[s].new ELSE Torn]
    /\ synced' = synced \ {saver[s].fd}
    /\ Step(s, "sync")
    /\ UNCHANGED <<path, tmp, survives, saves, durable, failed, overlapped, faults>>

\* Mutant: the file is renamed without having been synced.
MutantSyncFile(s) ==
    /\ At(s, "sync")
    /\ Step(s, "rename")
    /\ UNCHANGED <<path, tmp, survives, bytes, synced, saves, durable, failed, overlapped, faults>>

SyncFile(s) ==
    /\ At(s, "sync")
    /\ synced' = synced \cup {saver[s].fd}
    /\ Step(s, "rename")
    /\ UNCHANGED <<path, tmp, survives, bytes, saves, durable, failed, overlapped, faults>>

\* The name is renamed, whichever file it refers to by now.
Rename(s) ==
    /\ At(s, "rename")
    /\ tmp # None
    /\ path' = tmp
    /\ survives' = survives \cup {tmp}
    /\ tmp' = None
    /\ Step(s, "dir")
    /\ UNCHANGED <<bytes, synced, saves, durable, failed, overlapped, faults>>

\* Mutant: the caller is told before the directory is synced.
MutantSyncParent(s) ==
    /\ At(s, "dir")
    /\ durable' = saver[s].by
    /\ saver' = [saver EXCEPT ![s] = Idle]
    /\ UNCHANGED <<path, tmp, survives, bytes, synced, saves, failed, overlapped, faults>>

\* The caller is told that the session is saved.
Reported(s) ==
    /\ At(s, "dir")
    /\ saver' = [saver EXCEPT ![s] = Idle]
    /\ UNCHANGED <<path, tmp, bytes, synced, saves, failed, overlapped>>

\* sync_parent_dir
SyncParent(s) ==
    /\ Unix
    /\ Reported(s)
    /\ survives' = {path}
    /\ durable' = saver[s].by
    /\ UNCHANGED faults

\* The directory cannot be opened or synced, or sync_parent_dir does nothing on
\* this system: the save is reported all the same.
SyncParentSkipped(s) ==
    /\ Reported(s)
    /\ IF Unix THEN faults < MaxFaults /\ faults' = faults + 1 ELSE UNCHANGED faults
    /\ UNCHANGED <<survives, durable>>

\* atomic_write removes the temporary file and reports the error.
GivesUp(s) ==
    /\ tmp' = None
    /\ failed' = failed \cup {saver[s].by}
    /\ saver' = [saver EXCEPT ![s] = Idle]
    /\ UNCHANGED <<path, survives, bytes, synced, saves, durable, overlapped>>

\* The temporary file is gone: another saver renamed or removed it.
RenameFails(s) == At(s, "rename") /\ tmp = None /\ GivesUp(s) /\ UNCHANGED faults

\* The disk is full, the directory is not writable: an operation before the
\* rename, or the rename itself, fails.
OperationFails(s) ==
    /\ saver[s].pc \in {"create", "write", "rest", "sync", "rename"}
    /\ faults < MaxFaults
    /\ faults' = faults + 1
    /\ GivesUp(s)

\* Power is lost. The path refers to one of the inodes it may have kept, and
\* bytes that were not synced may be missing.
Crash ==
    /\ faults < MaxFaults
    /\ faults' = faults + 1
    /\ \E i \in survives, whole \in BOOLEAN :
          /\ path' = i
          /\ survives' = {i}
          /\ bytes' = [j \in Inodes |-> IF j \in synced \/ whole THEN bytes[j] ELSE Torn]
          /\ synced' = synced \cup {i}
    /\ tmp' = None
    /\ saver' = [s \in Savers |-> Idle]
    /\ UNCHANGED <<saves, durable, failed, overlapped>>

FileNext ==
    \/ \E s \in Savers :
          \/ \E doc \in Docs : Save(s, doc) \/ Export(s, doc)
          \/ RefuseSave(s)
          \/ CreateTmp(s) \/ WriteFirst(s) \/ WriteRest(s) \/ SyncFile(s)
          \/ Rename(s) \/ RenameFails(s)
          \/ SyncParent(s) \/ SyncParentSkipped(s)
          \/ OperationFails(s)
    \/ Crash

FileSpec == FileInit /\ [][FileNext]_fileVars

-----------------------------------------------------------------------------
(* Properties.  Each is about saves that do not overlap: two savers share the
   temporary name, and of theirs none holds. *)

Readable(i) == i = None \/ bytes[i].kind = "file"

\* Whatever operation fails and wherever power is lost, the path refers to a
\* whole session, now and after a crash, unless two savers were at it at once.
WholeUnlessOverlapped ==
    overlapped \/ (Readable(path) /\ \A i \in survives : Readable(i) /\ (i = None \/ i \in synced))

\* A save that was reported done survives a crash, if its directory was synced:
\* every file the path may then refer to is of that save or of a later one.
DurableStays ==
    (~overlapped /\ durable > 0) =>
        \A i \in survives : i # None /\ bytes[i].by >= durable

\* A save that was reported as failed is not in the file, nor will be.
FailedIsNotThere ==
    overlapped \/ \A i \in survives \cup {path} : i # None => bytes[i].by \notin failed

\* What a caller is told of its save stays so, but for a save that was reported
\* done though its directory was not synced: sync_parent_dir tells nobody that it
\* could not, or does nothing (atomic_write).
AnswersHold == DurableStays /\ FailedIsNotThere

\* A save loses no document: what the file held is in the history of the file that
\* replaces it, and so is its history except for the oldest of a full one; the
\* numbers of the entries go down.
HistoryOf(f) == {f.history[k].doc : k \in DOMAIN f.history}
KeepsHistory ==
    [][\A s \in Savers :
          LET old == bytes[path]
              new == bytes[tmp]
          IN  (Rename(s) /\ saver[s].op = "save" /\ ~overlapped /\ path # None) =>
                /\ {old.doc} \subseteq HistoryOf(new) \cup {new.doc}
                /\ Len(old.history) < Limit => HistoryOf(old) \subseteq HistoryOf(new)
                /\ \A j, k \in DOMAIN new.history :
                      j < k => new.history[j].revision > new.history[k].revision]_fileVars
=============================================================================
