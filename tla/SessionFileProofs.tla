------------------------- MODULE SessionFileProofs -------------------------
(* Proofs about the files the host keeps.  SessionFile: for any savers, any
   length of the history and any number of saves, failures and crashes, a save
   leaves a whole session file and what its caller was told of it holds.
   MediaUpload: for any clients, uploads, chunks and connections, every media
   file is accounted for and an upload that was told to be over is over.      *)
EXTENDS SessionFile, MediaUpload, SequenceTheorems, FiniteSetTheorems, TLAPS

Entries == [revision : Nat, doc : Docs]
Files == [kind : {"file"}, by : Nat, doc : Docs, history : Seq(Entries)]
Contents == {Empty, Torn} \cup [kind : {"half"}, by : Nat] \cup Files
Steps == {"idle", "create", "write", "rest", "sync", "rename", "dir"}
SaverStates ==
    [pc : Steps, op : {"none", "save", "export"}, by : Nat, fd : Inodes \cup {None},
     new : {Empty} \cup Files]

\* The types of the variables.
FileTypeOK ==
    /\ path \in Inodes \cup {None}
    /\ tmp \in Inodes \cup {None}
    /\ survives \subseteq Inodes \cup {None}
    /\ path \in survives
    /\ bytes \in [Inodes -> Contents]
    /\ synced \subseteq Inodes \cup {None}
    /\ saver \in [Savers -> SaverStates]
    /\ saves \in Nat /\ durable \in Nat /\ faults \in Nat
    /\ failed \subseteq Nat
    /\ overlapped \in BOOLEAN

Active(s) == saver[s].pc # "idle"
Before(s) == saver[s].pc \in {"create", "write", "rest", "sync", "rename"}
Writing(s) == saver[s].pc \in {"write", "rest", "sync", "rename"}

\* One saver at a time.
Alone == \A s, t \in Savers : Active(s) /\ Active(t) => s = t

\* The temporary file is not one the path may refer to, and it is as far as the
\* saver that writes it.
TmpApart == tmp # None => tmp \notin survives
OwnTmp ==
    \A s \in Savers :
        /\ Active(s) => saver[s].new.kind = "file" /\ saver[s].new.by = saver[s].by
        /\ Writing(s) => tmp # None /\ saver[s].fd = tmp
        /\ saver[s].pc = "write" => bytes[tmp] = Empty
        /\ saver[s].pc = "rest" => bytes[tmp] = Half(saver[s].by)
        /\ saver[s].pc \in {"sync", "rename"} => bytes[tmp] = saver[s].new
        /\ saver[s].pc = "rename" => tmp \in synced
        /\ saver[s].pc = "dir" => path # None /\ bytes[path].by = saver[s].by

\* What the path may refer to is whole and safe.
Whole ==
    \A i \in survives : i # None => i \in synced /\ bytes[i].kind = "file"

\* The numbers of the saves: the files are of saves that have begun, the save under
\* way is later than they are until it is renamed, and no answer is about it.
Numbers ==
    /\ durable <= saves
    /\ \A n \in failed : n <= saves
    /\ \A i \in survives : i # None =>
          bytes[i].by <= saves /\ bytes[i].by \notin failed
    /\ \A s \in Savers : Active(s) =>
          durable < saver[s].by /\ saver[s].by <= saves /\ saver[s].by \notin failed
    /\ \A s \in Savers : Before(s) => \A i \in survives : i # None => bytes[i].by < saver[s].by
    /\ durable > 0 => \A i \in survives : i # None /\ bytes[i].by >= durable

\* While no two saves have overlapped.
Orderly == Alone /\ TmpApart /\ OwnTmp /\ Whole /\ Numbers
FileInv == FileTypeOK /\ (~overlapped => Orderly)

-----------------------------------------------------------------------------
\* Inodes are numbers above None, of which no file is one.
LEMMA NoneIsNoInode == None \notin Inodes
<1>1. Cardinality(Savers) \in Nat
  BY FileAssumption, FS_CardinalityType DEF FileAssumption
<1>2. QED
  BY <1>1 DEF None, Inodes

\* The history a save writes is a list of documents with their numbers.
LEMMA HistoryType ==
    ASSUME NEW file \in Files, NEW doc \in Docs
    PROVE  HistoryOver(file, doc) \in Seq(Entries)
<1> DEFINE newest == IF file.history = <<>> THEN 0 ELSE file.history[1].revision
           first  == [revision |-> newest + 1, doc |-> file.doc]
           all    == <<first>> \o file.history
           n      == IF Len(all) < Limit THEN Len(all) ELSE Limit
<1>1. file.history \in Seq(Entries) /\ file.doc \in Docs
  BY DEF Files
<1>2. newest \in Nat
  <2>1. CASE file.history = <<>>
    BY <2>1
  <2>2. CASE file.history # <<>>
    <3>1. 1 \in 1..Len(file.history)
      BY <1>1, <2>2, EmptySeq
    <3>2. file.history[1] \in Entries
      BY <1>1, <3>1, ElementOfSeq
    <3>3. QED
      BY <2>2, <3>2 DEF Entries
  <2>3. QED
    BY <2>1, <2>2
<1>3. first \in Entries
  BY <1>1, <1>2 DEF Entries
<1>4. <<first>> \in Seq(Entries)
  BY <1>3
<1>5. all \in Seq(Entries)
  BY <1>1, <1>4, ConcatProperties
<1>6. Len(all) \in Nat /\ n \in Nat /\ n <= Len(all)
  BY <1>5, LenProperties, FileAssumption DEF FileAssumption
<1>7. \A i \in 1..n : all[i] \in Entries
  BY <1>5, <1>6, ElementOfSeq
<1>8. SubSeq(all, 1, n) \in Seq(Entries)
  <2> HIDE DEF all, n
  <2> QED
    BY <1>6, <1>7, SubSeqProperties
<1>9. QED
  BY <1>1, <1>8 DEF HistoryOver

LEMMA InitFileInv == FileInit => FileInv
<1> SUFFICES ASSUME FileInit PROVE FileInv
  OBVIOUS
<1>1. FileTypeOK
  BY DEF FileInit, FileTypeOK, SaverStates, Steps, Contents, Idle
<1>2. Orderly
  BY DEF FileInit, Orderly, Alone, TmpApart, OwnTmp, Whole, Numbers, Idle, Active, Before, Writing
<1>3. QED
  BY <1>1, <1>2 DEF FileInv

\* A saver that begins is of its type, whatever history it brings.
LEMMA EntersType ==
    ASSUME FileTypeOK, NEW s \in Savers, NEW op \in {"save", "export"}, NEW doc \in Docs,
           NEW history \in Seq(Entries), Enters(s, op, doc, history)
    PROVE  FileTypeOK'
<1>1. File(saves + 1, doc, history) \in Files
  BY DEF FileTypeOK, File, Files
<1> DEFINE begun == [pc |-> "create", op |-> op, by |-> saves + 1, fd |-> None,
                     new |-> File(saves + 1, doc, history)]
<1>2. begun \in SaverStates
  BY <1>1 DEF FileTypeOK, SaverStates, Steps
<1>3. saver' = [saver EXCEPT ![s] = begun]
  BY DEF Enters
<1>4. saver' \in [Savers -> SaverStates]
  <2> HIDE DEF begun
  <2> QED
    BY <1>2, <1>3 DEF FileTypeOK
<1>5. overlapped' \in BOOLEAN
  BY DEF Enters, FileTypeOK
<1>6. QED
  BY <1>4, <1>5 DEF Enters, FileTypeOK

\* The steps of one saver keep the types.
LEMMA TypeStep == FileTypeOK /\ [FileNext]_fileVars => FileTypeOK'
<1> SUFFICES ASSUME FileTypeOK, [FileNext]_fileVars PROVE FileTypeOK'
  OBVIOUS
<1> USE NoneIsNoInode DEF FileTypeOK, SaverStates, Steps
<1>1. ASSUME NEW s \in Savers, NEW doc \in Docs, Save(s, doc) PROVE FileTypeOK'
  <2>1. CASE path = None
    <3>1. Enters(s, "save", doc, <<>>)
      BY <1>1, <2>1 DEF Save
    <3>2. <<>> \in Seq(Entries)
      BY EmptySeq
    <3>3. QED
      BY <3>1, <3>2, EntersType
  <2>2. CASE path # None
    <3>1. bytes[path] \in Files
      BY <1>1, <2>2 DEF Save, Contents, Empty, Torn
    <3>2. Enters(s, "save", doc, HistoryOver(bytes[path], doc))
      BY <1>1, <2>2 DEF Save
    <3>3. HistoryOver(bytes[path], doc) \in Seq(Entries)
      BY <3>1, HistoryType
    <3>4. QED
      BY <3>2, <3>3, EntersType
  <2>3. QED
    BY <2>1, <2>2
<1>2. ASSUME NEW s \in Savers, NEW doc \in Docs, Export(s, doc) PROVE FileTypeOK'
  <2>1. Enters(s, "export", doc, <<>>)
    BY <1>2 DEF Export
  <2>2. <<>> \in Seq(Entries)
    BY EmptySeq
  <2>3. QED
    BY <2>1, <2>2, EntersType
<1>3. ASSUME NEW s \in Savers, RefuseSave(s) PROVE FileTypeOK'
  BY <1>3 DEF RefuseSave
<1>4. ASSUME NEW s \in Savers, CreateTmp(s) PROVE FileTypeOK'
  <2> DEFINE free  == Inodes \ ({path} \cup survives \cup {saver[t].fd : t \in Savers})
             inode == IF tmp # None THEN tmp ELSE CHOOSE i \in free : TRUE
  <2>1. inode \in Inodes
    BY <1>4 DEF CreateTmp
  <2>2. Empty \in Contents
    BY DEF Contents
  <2>3. /\ tmp' = inode
        /\ bytes' = [bytes EXCEPT ![inode] = Empty]
        /\ synced' = synced \ {inode}
        /\ saver' = [saver EXCEPT ![s].pc = "write", ![s].fd = inode]
        /\ UNCHANGED <<path, survives, saves, durable, failed, overlapped, faults>>
    BY <1>4 DEF CreateTmp
  <2> HIDE DEF inode
  <2>4. bytes' \in [Inodes -> Contents]
    BY <2>1, <2>2, <2>3
  <2>5. saver' \in [Savers -> SaverStates]
    <3>1. saver[s] \in SaverStates
      OBVIOUS
    <3>2. [saver[s] EXCEPT !.pc = "write", !.fd = inode] \in SaverStates
      BY <2>1, <3>1
    <3>3. saver' = [saver EXCEPT ![s] = [saver[s] EXCEPT !.pc = "write", !.fd = inode]]
      BY <2>3
    <3>4. QED
      BY <3>2, <3>3
  <2>6. tmp' \in Inodes \cup {None} /\ synced' \subseteq Inodes \cup {None}
    BY <2>1, <2>3
  <2>7. QED
    BY <2>3, <2>4, <2>5, <2>6
<1>5. ASSUME NEW s \in Savers, WriteFirst(s) PROVE FileTypeOK'
  <2>1. Half(saver[s].by) \in Contents /\ Torn \in Contents
    BY DEF Contents, Half
  <2>2. bytes' \in [Inodes -> Contents]
    BY <1>5, <2>1 DEF WriteFirst
  <2>3. QED
    BY <1>5, <2>2 DEF WriteFirst, Step
<1>6. ASSUME NEW s \in Savers, WriteRest(s) PROVE FileTypeOK'
  <2>1. saver[s].new \in Contents /\ Torn \in Contents
    BY DEF Contents
  <2>2. bytes' \in [Inodes -> Contents]
    BY <1>6, <2>1 DEF WriteRest
  <2>3. QED
    BY <1>6, <2>2 DEF WriteRest, Step
<1>7. ASSUME NEW s \in Savers, SyncFile(s) PROVE FileTypeOK'
  BY <1>7 DEF SyncFile, Step
<1>8. ASSUME NEW s \in Savers, Rename(s) PROVE FileTypeOK'
  BY <1>8 DEF Rename, Step
<1>9. Idle \in SaverStates
  BY DEF Idle
<1>10. ASSUME NEW s \in Savers, GivesUp(s), faults' \in Nat PROVE FileTypeOK'
  BY ZenonT(30), <1>9, <1>10 DEF GivesUp
<1>11. ASSUME NEW s \in Savers, RenameFails(s) PROVE FileTypeOK'
  BY <1>10, <1>11 DEF RenameFails
<1>12. ASSUME NEW s \in Savers, SyncParent(s) \/ SyncParentSkipped(s) PROVE FileTypeOK'
  <2>1. /\ saver' = [saver EXCEPT ![s] = Idle]
        /\ UNCHANGED <<path, tmp, bytes, synced, saves, failed, overlapped>>
    BY <1>12 DEF SyncParent, SyncParentSkipped, Reported
  <2>2. saver' \in [Savers -> SaverStates]
    BY <1>9, <2>1
  <2>3. survives' \in {survives, {path}} /\ durable' \in Nat /\ faults' \in Nat
    BY <1>12 DEF SyncParent, SyncParentSkipped
  <2>4. QED
    BY <2>1, <2>2, <2>3
<1>13. ASSUME NEW s \in Savers, OperationFails(s) PROVE FileTypeOK'
  BY <1>10, <1>13 DEF OperationFails
<1>14. CASE Crash
  <2>1. Torn \in Contents
    BY DEF Contents
  <2>2. bytes' \in [Inodes -> Contents]
    BY <1>14, <2>1 DEF Crash
  <2>3. saver' \in [Savers -> SaverStates]
    BY <1>9, <1>14 DEF Crash
  <2>4. QED
    BY <1>14, <2>2, <2>3 DEF Crash
<1>15. CASE UNCHANGED fileVars
  BY <1>15 DEF fileVars
<1>16. QED
  BY <1>1, <1>2, <1>3, <1>4, <1>5, <1>6, <1>7, <1>8, <1>11, <1>12, <1>13, <1>14, <1>15 DEF FileNext

-----------------------------------------------------------------------------
\* The steps of savers that do not overlap keep the order.
LEMMA OrderStep ==
    FileTypeOK /\ FileTypeOK' /\ Orderly /\ ~overlapped' /\ [FileNext]_fileVars => Orderly'
<1> SUFFICES ASSUME FileTypeOK, FileTypeOK', Orderly, ~overlapped', [FileNext]_fileVars PROVE Orderly'
  OBVIOUS
<1> USE NoneIsNoInode DEF FileTypeOK, SaverStates, Steps
<1>0. \A i \in survives : i # None => bytes[i].by \in Nat
  <2> SUFFICES ASSUME NEW i \in survives, i # None PROVE bytes[i].by \in Nat
    OBVIOUS
  <2>1. bytes[i] \in Contents /\ bytes[i].kind = "file"
    BY DEF Orderly, Whole
  <2>2. bytes[i] \in Files
    BY <2>1 DEF Contents, Empty, Torn
  <2>3. QED
    BY <2>2 DEF Files
<1>1. ASSUME NEW s \in Savers, NEW op \in {"save", "export"}, NEW doc \in Docs,
            NEW history \in Seq(Entries), At(s, "idle"), Enters(s, op, doc, history) PROVE Orderly'
  <2>1. \A t \in Savers : t # s => ~Active(t) /\ saver'[t] = saver[t]
    BY <1>1 DEF Enters, Orderly, Alone, Active, At, Step
  <2>2. /\ saver'[s].pc = "create" /\ saver'[s].by = saves + 1
        /\ saver'[s].new.kind = "file" /\ saver'[s].new.by = saves + 1
    BY <1>1 DEF Enters, Step, At, File
  <2>3. Alone'
    BY <2>1 DEF Alone, Active
  <2>4. TmpApart'
    BY <1>1, <2>1, <2>2 DEF Enters, Orderly, TmpApart, OwnTmp, Writing
  <2>5. OwnTmp'
    BY <1>1, <2>1, <2>2 DEF Enters, Orderly, TmpApart, OwnTmp, Active, Writing, Whole, At
  <2>6. Whole'
    BY <1>1, <2>1, <2>2 DEF Enters, Orderly, TmpApart, OwnTmp, Writing, Active, Whole, At
  <2>7. Numbers'
    <3>1. /\ saves' = saves + 1
          /\ UNCHANGED <<survives, bytes, durable, failed>>
      BY <1>1 DEF Enters
    <3>2. /\ durable <= saves
          /\ \A m \in failed : m <= saves
          /\ \A i \in survives : i # None => bytes[i].by <= saves /\ bytes[i].by \notin failed
          /\ durable > 0 => \A i \in survives : i # None /\ bytes[i].by >= durable
      BY DEF Orderly, Numbers
    <3>3. \A t \in Savers : Before(t)' => t = s
      BY <2>1 DEF Active, Before
    <3>4. \A t \in Savers : saver'[t].pc # "idle" => t = s
      BY <2>1 DEF Active
    <3>5. \A t \in Savers : Active(t)' =>
              durable' < saver'[t].by /\ saver'[t].by <= saves' /\ saver'[t].by \notin failed'
      BY <2>2, <3>1, <3>2, <3>4 DEF Active
    <3>6. \A t \in Savers : Before(t)' => \A i \in survives' : i # None => bytes'[i].by < saver'[t].by
      <4>1. \A i \in survives : i # None => bytes[i].by < saves + 1
        BY <1>0, <3>2
      <4>2. QED
        BY <2>2, <3>1, <3>3, <4>1
    <3>7. durable' <= saves' /\ \A m \in failed' : m <= saves'
      BY <3>1, <3>2
    <3>8. \A i \in survives' : i # None => bytes'[i].by <= saves' /\ bytes'[i].by \notin failed'
      BY <1>0, <3>1, <3>2
    <3>9. QED
      BY <3>1, <3>2, <3>5, <3>6, <3>7, <3>8 DEF Numbers
  <2>8. QED
    BY <2>3, <2>4, <2>5, <2>6, <2>7 DEF Orderly
<1>2. ASSUME NEW s \in Savers, CreateTmp(s) PROVE Orderly'
  <2>1. \A t \in Savers : t # s => ~Active(t) /\ saver'[t] = saver[t]
    BY <1>2 DEF CreateTmp, Orderly, Alone, Active, At, Step
  <2>2. saver[s].pc = "create" /\ saver'[s] = [saver[s] EXCEPT !.pc = "write", !.fd = tmp']
    BY <1>2 DEF CreateTmp, Step, At
  <2>3. /\ saver[s] \in SaverStates /\ bytes \in [Inodes -> Contents] /\ path \in survives
        /\ Alone /\ TmpApart /\ OwnTmp /\ Whole /\ Numbers
    BY <1>2 DEF FileTypeOK, Orderly
  <2>4. /\ saver'[s].pc = "write" /\ saver'[s].fd = tmp' /\ saver'[s].by = saver[s].by /\ saver'[s].new = saver[s].new
        /\ UNCHANGED <<path, survives, saves, durable, failed>>
    BY <1>2, <2>2, <2>3 DEF CreateTmp, SaverStates
  <2>5. tmp' # None /\ bytes'[tmp'] = Empty /\ tmp' \notin survives
    <3>1. tmp' \in Inodes /\ tmp' # None /\ tmp' \notin survives /\ bytes' = [bytes EXCEPT ![tmp'] = Empty]
      <4>1. CASE tmp # None
        <5>1. tmp \in Inodes
          BY <1>2, <4>1 DEF FileTypeOK
        <5>2. QED
          BY <1>2, <2>3, <4>1, <5>1 DEF CreateTmp, TmpApart
      <4>2. CASE tmp = None
        <5> DEFINE free == Inodes \ ({path} \cup survives \cup {saver[t].fd : t \in Savers})
        <5>1. free # {} /\ tmp' = (CHOOSE i \in free : TRUE) /\ bytes' = [bytes EXCEPT ![tmp'] = Empty]
          BY <1>2, <4>2 DEF CreateTmp
        <5>2. tmp' \in free
          BY <5>1
        <5>3. None \notin Inodes
          BY NoneIsNoInode
        <5>4. QED
          BY <5>1, <5>2, <5>3
      <4>3. QED
        BY <4>1, <4>2
    <3>2. QED
      BY <2>3, <3>1
  <2>6. \A i \in survives : i # None => bytes'[i] = bytes[i] /\ (i \in synced => i \in synced')
    <3>1. \A i \in survives : i # tmp'
      BY <2>5
    <3>2. survives \subseteq Inodes \cup {None}
      BY <1>2 DEF FileTypeOK
    <3>3. bytes' = [bytes EXCEPT ![tmp'] = Empty] /\ synced' = synced \ {tmp'}
      BY <1>2 DEF CreateTmp
    <3>4. QED
      BY <2>3, <3>1, <3>2, <3>3
  <2>7. Alone'
    BY <2>1 DEF Alone, Active
  <2>8. TmpApart'
    BY <2>4, <2>5 DEF TmpApart
  <2>9. OwnTmp'
    <3>1. saver[s].new.kind = "file" /\ saver[s].new.by = saver[s].by
      BY <2>2, <2>3 DEF OwnTmp, Active
    <3>2. ASSUME NEW t \in Savers, t # s PROVE saver'[t].pc = "idle"
      BY <2>1, <3>2 DEF Active
    <3>3. QED
      BY <2>4, <2>5, <3>1, <3>2 DEF OwnTmp, Active, Writing
  <2>10. Whole'
    BY <2>3, <2>4, <2>6 DEF Whole
  <2>11. Numbers'
    <3>1. ASSUME NEW t \in Savers, t # s PROVE saver'[t].pc = "idle"
      BY <2>1, <3>1 DEF Active
    <3>2. \A i \in survives : i # None => bytes'[i].by = bytes[i].by
      BY <2>6
    <3>3. /\ durable < saver[s].by /\ saver[s].by <= saves /\ saver[s].by \notin failed
          /\ \A i \in survives : i # None => bytes[i].by < saver[s].by
      BY <2>2, <2>3 DEF Numbers, Active, Before
    <3>4. QED
      BY <2>3, <2>4, <3>1, <3>2, <3>3 DEF Numbers, Active, Before
  <2>12. QED
    BY <2>7, <2>8, <2>9, <2>10, <2>11 DEF Orderly
<1>3. ASSUME NEW s \in Savers, WriteFirst(s) PROVE Orderly'
  <2>1. \A t \in Savers : t # s => ~Active(t) /\ saver'[t] = saver[t]
    BY <1>3 DEF WriteFirst, Orderly, Alone, Active, At, Step
  <2>2. saver[s].pc = "write" /\ saver'[s] = [saver[s] EXCEPT !.pc = "rest"]
    BY <1>3 DEF WriteFirst, Step, At
  <2>3. Alone'
    BY <2>1 DEF Alone, Active
  <2>4. TmpApart'
    BY <1>3, <2>1, <2>2 DEF WriteFirst, Orderly, TmpApart, OwnTmp, Writing
  <2>5. OwnTmp'
    BY <1>3, <2>1, <2>2 DEF WriteFirst, Orderly, TmpApart, OwnTmp, Active, Writing, Whole, At
  <2>6. Whole'
    BY <1>3, <2>1, <2>2 DEF WriteFirst, Orderly, TmpApart, OwnTmp, Writing, Active, Whole, At
  <2>7. Numbers'
    BY <1>3, <2>1, <2>2 DEF WriteFirst, Orderly, TmpApart, OwnTmp, Writing, Active, Before, Whole, Numbers, At
  <2>8. QED
    BY <2>3, <2>4, <2>5, <2>6, <2>7 DEF Orderly
<1>4. ASSUME NEW s \in Savers, WriteRest(s) PROVE Orderly'
  <2>1. \A t \in Savers : t # s => ~Active(t) /\ saver'[t] = saver[t]
    BY <1>4 DEF WriteRest, Orderly, Alone, Active, At, Step
  <2>2. saver[s].pc = "rest" /\ saver'[s] = [saver[s] EXCEPT !.pc = "sync"]
    BY <1>4 DEF WriteRest, Step, At
  <2>3. Alone'
    BY <2>1 DEF Alone, Active
  <2>4. TmpApart'
    BY <1>4, <2>1, <2>2 DEF WriteRest, Orderly, TmpApart, OwnTmp, Writing
  <2>5. OwnTmp'
    BY <1>4, <2>1, <2>2 DEF WriteRest, Orderly, TmpApart, OwnTmp, Active, Writing, Whole, At
  <2>6. Whole'
    BY <1>4, <2>1, <2>2 DEF WriteRest, Orderly, TmpApart, OwnTmp, Writing, Active, Whole, At
  <2>7. Numbers'
    BY <1>4, <2>1, <2>2 DEF WriteRest, Orderly, TmpApart, OwnTmp, Writing, Active, Before, Whole, Numbers, At
  <2>8. QED
    BY <2>3, <2>4, <2>5, <2>6, <2>7 DEF Orderly
<1>5. ASSUME NEW s \in Savers, SyncFile(s) PROVE Orderly'
  <2>1. \A t \in Savers : t # s => ~Active(t) /\ saver'[t] = saver[t]
    BY <1>5 DEF SyncFile, Orderly, Alone, Active, At, Step
  <2>2. saver[s].pc = "sync" /\ saver'[s] = [saver[s] EXCEPT !.pc = "rename"]
    BY <1>5 DEF SyncFile, Step, At
  <2>3. Alone'
    BY <2>1 DEF Alone, Active
  <2>4. TmpApart'
    BY <1>5, <2>1, <2>2 DEF SyncFile, Orderly, TmpApart, OwnTmp, Writing
  <2>5. OwnTmp'
    BY <1>5, <2>1, <2>2 DEF SyncFile, Orderly, TmpApart, OwnTmp, Active, Writing, Whole, At
  <2>6. Whole'
    BY <1>5, <2>1, <2>2 DEF SyncFile, Orderly, TmpApart, OwnTmp, Writing, Active, Whole, At
  <2>7. Numbers'
    BY <1>5, <2>1, <2>2 DEF SyncFile, Orderly, TmpApart, OwnTmp, Writing, Active, Before, Whole, Numbers, At
  <2>8. QED
    BY <2>3, <2>4, <2>5, <2>6, <2>7 DEF Orderly
<1>6. ASSUME NEW s \in Savers, Rename(s) PROVE Orderly'
  <2>1. \A t \in Savers : t # s => ~Active(t) /\ saver'[t] = saver[t]
    BY <1>6 DEF Rename, Orderly, Alone, Active, At, Step
  <2>2. saver[s].pc = "rename" /\ saver'[s] = [saver[s] EXCEPT !.pc = "dir"]
    BY <1>6 DEF Rename, Step, At
  <2>3. Alone'
    BY <2>1 DEF Alone, Active
  <2>4. TmpApart'
    BY <1>6, <2>1, <2>2 DEF Rename, Orderly, TmpApart, OwnTmp, Writing
  <2>5. OwnTmp'
    BY <1>6, <2>1, <2>2 DEF Rename, Orderly, TmpApart, OwnTmp, Active, Writing, Whole, At
  <2>6. Whole'
    BY <1>6, <2>1, <2>2 DEF Rename, Orderly, TmpApart, OwnTmp, Writing, Active, Whole, At
  <2>7. Numbers'
    BY <1>6, <2>1, <2>2 DEF Rename, Orderly, TmpApart, OwnTmp, Writing, Active, Before, Whole, Numbers, At
  <2>8. QED
    BY <2>3, <2>4, <2>5, <2>6, <2>7 DEF Orderly
<1>7. ASSUME NEW s \in Savers, SyncParent(s) \/ SyncParentSkipped(s) PROVE Orderly'
  <2>1. \A t \in Savers : t # s => ~Active(t) /\ saver'[t] = saver[t]
    BY <1>7 DEF SyncParent, SyncParentSkipped, Reported, Orderly, Alone, Active, At, Step
  <2>2. saver[s].pc = "dir" /\ saver'[s] = Idle
    BY <1>7 DEF SyncParent, SyncParentSkipped, Reported, Step, At
  <2>3. Alone'
    BY <2>1 DEF Alone, Active
  <2>4. TmpApart'
    BY <1>7, <2>1, <2>2 DEF SyncParent, SyncParentSkipped, Reported, Orderly, TmpApart, OwnTmp, Writing
  <2>5. \A t \in Savers : saver'[t].pc = "idle"
    BY <2>1, <2>2 DEF Active, Idle
  <2>9. OwnTmp'
    BY <2>5 DEF OwnTmp, Active, Writing
  <2>6. Whole'
    BY <1>7, <2>1, <2>2 DEF SyncParent, SyncParentSkipped, Reported, Orderly, TmpApart, OwnTmp, Writing, Active, Whole, At
  <2>7. Numbers'
    BY <1>7, <2>5 DEF SyncParent, SyncParentSkipped, Reported, Orderly, OwnTmp, Writing, Active, Before, Whole, Numbers, At
  <2>8. QED
    BY <2>3, <2>4, <2>6, <2>7, <2>9 DEF Orderly
<1>8. ASSUME NEW s \in Savers, Before(s), GivesUp(s) PROVE Orderly'
  <2>1. \A t \in Savers : t # s => ~Active(t) /\ saver'[t] = saver[t]
    BY <1>8 DEF GivesUp, Before, Orderly, Alone, Active, At, Step
  <2>2. saver'[s] = Idle /\ Before(s)
    BY <1>8 DEF GivesUp, Before, Step, At
  <2>3. Alone'
    BY <2>1 DEF Alone, Active
  <2>4. TmpApart'
    BY <1>8, <2>1, <2>2 DEF GivesUp, Before, Orderly, TmpApart, OwnTmp, Writing
  <2>5. \A t \in Savers : saver'[t].pc = "idle"
    BY <2>1, <2>2 DEF Active, Idle
  <2>9. OwnTmp'
    BY <2>5 DEF OwnTmp, Active, Writing
  <2>6. Whole'
    BY <1>8, <2>1, <2>2 DEF GivesUp, Before, Orderly, TmpApart, OwnTmp, Writing, Active, Whole, At
  <2>7. Numbers'
    BY <1>8, <2>5 DEF GivesUp, Orderly, OwnTmp, Writing, Active, Before, Whole, Numbers, At
  <2>8. QED
    BY <2>3, <2>4, <2>6, <2>7, <2>9 DEF Orderly
<1>9. ASSUME NEW s \in Savers, RefuseSave(s) PROVE Orderly'
  <2>1. Alone' /\ TmpApart' /\ OwnTmp' /\ Whole'
    BY <1>9 DEF RefuseSave, Orderly, Alone, TmpApart, OwnTmp, Whole, Active, Writing
  <2>2. Numbers'
    BY <1>0, <1>9 DEF RefuseSave, Orderly, Numbers, Active, Before
  <2>3. QED
    BY <2>1, <2>2 DEF Orderly
<1>10. CASE Crash
  <2>1. PICK i \in survives :
            /\ path' = i
            /\ survives' = {i}
            /\ i # None => bytes'[i] = bytes[i]
            /\ synced' = synced \cup {i}
    BY <1>10 DEF Crash, Orderly, Whole
  <2>2. \A t \in Savers : saver'[t].pc = "idle"
    BY <1>10 DEF Crash, Idle
  <2>3. Alone' /\ TmpApart' /\ OwnTmp'
    BY <1>10, <2>2 DEF Crash, Alone, TmpApart, OwnTmp, Active, Writing
  <2>4. Whole'
    BY <2>1 DEF Orderly, Whole
  <2>5. Numbers'
    BY <1>10, <2>1, <2>2 DEF Crash, Orderly, Numbers, Active, Before
  <2>6. QED
    BY <2>3, <2>4, <2>5 DEF Orderly
<1>11. ASSUME NEW s \in Savers, NEW doc \in Docs, Save(s, doc) \/ Export(s, doc) PROVE Orderly'
  <2>1. CASE Enters(s, "save", doc, <<>>) \/ Enters(s, "export", doc, <<>>)
    BY <1>1, <1>11, <2>1, EmptySeq DEF Save, Export
  <2>2. CASE path # None /\ bytes[path].kind = "file" /\ Enters(s, "save", doc, HistoryOver(bytes[path], doc))
    <3>1. bytes[path] \in Files
      BY <2>2 DEF Contents, Empty, Torn
    <3>2. HistoryOver(bytes[path], doc) \in Seq(Entries)
      BY <3>1, HistoryType
    <3>3. At(s, "idle")
      BY <1>11 DEF Save, Export
    <3>4. QED
      BY <1>1, <2>2, <3>2, <3>3
  <2>3. QED
    BY <1>11, <2>1, <2>2 DEF Save, Export
<1>12. ASSUME NEW s \in Savers, OperationFails(s) PROVE Orderly'
  BY <1>8, <1>12 DEF OperationFails, Before
<1>13. ASSUME NEW s \in Savers, RenameFails(s) PROVE Orderly'
  BY <1>8, <1>13 DEF RenameFails, Before, At
<1>14. CASE UNCHANGED fileVars
  BY <1>14 DEF fileVars, Orderly, Alone, TmpApart, OwnTmp, Whole, Numbers, Active, Writing, Before
<1>15. QED
  BY <1>2, <1>3, <1>4, <1>5, <1>6, <1>7, <1>9, <1>10, <1>11, <1>12, <1>13, <1>14 DEF FileNext

\* Saves that have overlapped have done so for good.
LEMMA OverlapLasts == FileTypeOK /\ [FileNext]_fileVars /\ ~overlapped' => ~overlapped
  BY DEF FileTypeOK, FileNext, fileVars, Save, Export, Enters, RefuseSave, CreateTmp, WriteFirst,
         WriteRest, SyncFile, Rename, RenameFails, SyncParent, SyncParentSkipped, Reported, OperationFails, GivesUp, Crash

THEOREM FileInvariance == FileSpec => []FileInv
<1>1. FileInv /\ [FileNext]_fileVars => FileInv'
  BY TypeStep, OrderStep, OverlapLasts DEF FileInv
<1>2. QED
  BY <1>1, InitFileInv, PTL DEF FileSpec

-----------------------------------------------------------------------------
\* Whatever operation of atomic_write fails and wherever power is lost, the path
\* refers to a whole session file, now and after the next crash, as long as no
\* two saves were under way at once.
THEOREM SessionStaysWhole == FileSpec => []WholeUnlessOverlapped
<1>1. FileInv => WholeUnlessOverlapped
  BY DEF FileInv, FileTypeOK, Orderly, Whole, WholeUnlessOverlapped, Readable
<1>2. QED
  BY <1>1, FileInvariance, PTL

\* What a caller was told of its save stays so: a save reported as done survives a
\* crash where directories are synced, one reported as failed is never in the file.
THEOREM AnswersOfSavesHold == FileSpec => []AnswersHold
<1>1. FileInv => AnswersHold
  BY DEF FileInv, FileTypeOK, Orderly, Numbers, AnswersHold, DurableStays, FailedIsNotThere
<1>2. QED
  BY <1>1, FileInvariance, PTL

-----------------------------------------------------------------------------
(* The history of the file *)

\* A history from the newest entry to the oldest, and a file that keeps what
\* another one held.
Descending(history) ==
    \A j, k \in DOMAIN history : j < k => history[j].revision > history[k].revision
Keeps(was, new) ==
    /\ {was.doc} \subseteq HistoryOf(new) \cup {new.doc}
    /\ Len(was.history) < Limit => HistoryOf(was) \subseteq HistoryOf(new)

\* While saves do not overlap: every history is in order, and a save under way
\* keeps what the path refers to.
HistoryInv ==
    /\ \A i \in survives : i # None => Descending(bytes[i].history)
    /\ \A s \in Savers : Active(s) => Descending(saver[s].new.history)
    /\ \A s \in Savers : Before(s) /\ saver[s].op = "save" /\ path # None =>
          Keeps(bytes[path], saver[s].new)

\* What a save writes over a file keeps what the file held.
LEMMA HistoryIsKept ==
    ASSUME NEW file \in Files, NEW doc \in Docs, NEW n, Descending(file.history)
    PROVE  LET new == File(n, doc, HistoryOver(file, doc))
           IN  Descending(new.history) /\ Keeps(file, new)
<1> DEFINE h == file.history
           newest == IF h = <<>> THEN 0 ELSE h[1].revision
           first  == [revision |-> newest + 1, doc |-> file.doc]
           all    == <<first>> \o h
           m      == IF Len(all) < Limit THEN Len(all) ELSE Limit
           new    == File(n, doc, HistoryOver(file, doc))
<1>1. h \in Seq(Entries) /\ Len(h) \in Nat /\ DOMAIN h = 1..Len(h)
  BY DEF Files
<1>2. \A k \in 1..Len(h) : h[k] \in Entries /\ h[k].revision \in Nat
  <2>1. \A k \in 1..Len(h) : h[k] \in Entries
    BY <1>1, ElementOfSeq
  <2>2. QED
    BY <2>1 DEF Entries
<1>3. new.doc = doc /\ new.history = HistoryOver(file, doc)
  BY DEF File
<1>4. CASE file.doc = doc
  <2>1. HistoryOver(file, doc) = h
    BY <1>4 DEF HistoryOver
  <2>2. HistoryOf(new) = HistoryOf(file) /\ new.doc = file.doc /\ Descending(new.history)
    BY <1>3, <1>4, <2>1 DEF HistoryOf
  <2>3. QED
    BY <2>2 DEF Keeps
<1>5. CASE file.doc # doc
  <2>1. HistoryOver(file, doc) = SubSeq(all, 1, m)
    BY <1>5 DEF HistoryOver
  <2>2. newest \in Nat /\ \A k \in 1..Len(h) : newest >= h[k].revision
    <3>1. CASE h = <<>>
      BY <1>1, <3>1
    <3>2. CASE h # <<>>
      <4>1. 1 \in 1..Len(h)
        BY <1>1, <3>2
      <4>2. \A k \in 1..Len(h) : k = 1 \/ h[1].revision > h[k].revision
        BY <1>1, <4>1 DEF Descending
      <4>3. QED
        BY <1>2, <3>2, <4>1, <4>2
    <3>3. QED
      BY <3>1, <3>2
  <2>3. first.revision = newest + 1 /\ first.doc = file.doc
    OBVIOUS
  <2> HIDE DEF newest, first
  <2>4. Len(all) = Len(h) + 1 /\ all[1] = first /\ \A k \in 2..Len(all) : all[k] = h[k - 1]
    BY <1>1
  <2>5. m \in 1..Len(all) /\ Len(all) \in Nat
    BY <1>1, <2>4, FileAssumption
  <2>6. Len(all) <= Limit => m = Len(all)
    BY <2>5, FileAssumption
  <2> HIDE DEF all, m
  <2> DEFINE g == new.history
  <2>7. DOMAIN g = 1..m /\ \A k \in 1..m : g[k] = all[k]
    BY <1>3, <2>1, <2>5
  <2> HIDE DEF g
  <2>8. Descending(g)
    <3> SUFFICES ASSUME NEW j \in 1..m, NEW k \in 1..m, j < k PROVE g[j].revision > g[k].revision
      BY <2>7 DEF Descending
    <3>1. ASSUME NEW i \in 1..m, i # 1 PROVE g[i] = h[i - 1] /\ i - 1 \in 1..Len(h)
      <4> HIDE DEF h
      <4>1. i \in 2..Len(all) /\ i - 1 \in 1..Len(h)
        BY <1>1, <2>4, <2>5, <3>1
      <4>2. QED
        BY <2>4, <2>7, <4>1
    <3>2. k # 1 /\ j - 1 < k - 1
      OBVIOUS
    <3>3. CASE j = 1
      <4>1. g[1] = first
        BY <2>4, <2>5, <2>7
      <4>2. g[j].revision = newest + 1 /\ newest >= h[k - 1].revision /\ h[k - 1].revision \in Nat
        BY <1>2, <2>2, <2>3, <3>1, <3>2, <3>3, <4>1
      <4>3. QED
        BY <2>2, <3>1, <3>2, <4>2
    <3>4. CASE j # 1
      <4>1. g[j] = h[j - 1] /\ j - 1 \in DOMAIN h /\ g[k] = h[k - 1] /\ k - 1 \in DOMAIN h
        BY <1>1, <3>1, <3>2, <3>4
      <4>2. QED
        BY <3>2, <4>1 DEF Descending
    <3>5. QED
      BY <3>3, <3>4
  <2>9. HistoryOf(new) = {g[k].doc : k \in 1..m}
    BY <2>7 DEF HistoryOf, g
  <2>10. file.doc \in HistoryOf(new)
    BY <2>3, <2>4, <2>5, <2>7, <2>9
  <2>11. Len(h) < Limit => HistoryOf(file) \subseteq HistoryOf(new)
    <3> SUFFICES ASSUME Len(h) < Limit, NEW k \in 1..Len(h) PROVE h[k].doc \in HistoryOf(new)
      BY <1>1 DEF HistoryOf
    <3>1. m = Len(h) + 1
      BY <1>1, <2>4, <2>6, FileAssumption
    <3>2. k + 1 \in 1..m /\ k + 1 \in 2..Len(all) /\ (k + 1) - 1 = k
      BY <1>1, <2>4, <3>1
    <3>3. g[k + 1] = h[k]
      BY <2>4, <2>7, <3>2
    <3>4. QED
      BY <2>9, <3>2, <3>3
  <2>12. QED
    BY <2>8, <2>10, <2>11 DEF Keeps, g
<1>6. QED
  BY <1>4, <1>5

\* A step that leaves the file as it is, and what is written as it was begun.
LEMMA HistoryStays ==
    ASSUME HistoryInv, survives' \subseteq survives,
           \A i \in survives : i # None => bytes'[i] = bytes[i],
           path \in survives, path' \in survives',
           \A s \in Savers : Active(s)' =>
              /\ Active(s) /\ saver'[s].new = saver[s].new /\ saver'[s].op = saver[s].op
              /\ Before(s)' => Before(s) /\ path' = path
    PROVE  HistoryInv'
<1>1. \A i \in survives' : i # None => Descending(bytes'[i].history)
  BY DEF HistoryInv
<1>2. \A s \in Savers : Active(s)' => Descending(saver'[s].new.history)
  BY DEF HistoryInv
<1>3. \A s \in Savers : Before(s)' => Active(s)'
  BY DEF Before, Active
<1>4. ASSUME NEW s \in Savers, Before(s)', saver'[s].op = "save", path' # None
      PROVE  Keeps(bytes'[path'], saver'[s].new)
  BY <1>3, <1>4 DEF HistoryInv
<1>5. QED
  BY <1>1, <1>2, <1>4 DEF HistoryInv

\* A saver that begins brings a history that keeps what it read.
LEMMA EnterHistory ==
    ASSUME FileInv, Orderly, Orderly', HistoryInv, NEW s \in Savers, NEW doc \in Docs, Save(s, doc) \/ Export(s, doc)
    PROVE  HistoryInv'
<1>1. /\ UNCHANGED <<path, survives, bytes>>
      /\ \A t \in Savers : t # s => saver'[t] = saver[t]
  BY DEF FileInv, FileTypeOK, Save, Export, Enters
<1>2. ASSUME NEW op, NEW history, Enters(s, op, doc, history)
      PROVE  saver'[s].op = op /\ saver'[s].new = File(saves + 1, doc, history)
  BY <1>2 DEF FileInv, FileTypeOK, Enters
<1>3. \/ saver'[s].new.history = <<>> /\ (saver'[s].op = "save" => path = None)
      \/ /\ path # None /\ bytes[path].kind = "file"
         /\ saver'[s].new = File(saves + 1, doc, HistoryOver(bytes[path], doc))
  <2>1. CASE Enters(s, "export", doc, <<>>)
    <3>1. saver'[s] = [pc |-> "create", op |-> "export", by |-> saves + 1, fd |-> None,
                       new |-> File(saves + 1, doc, <<>>)]
      BY <2>1 DEF FileInv, FileTypeOK, Enters
    <3>2. saver'[s].op = "export" /\ saver'[s].new.history = <<>>
      BY <3>1 DEF File
    <3>3. QED
      BY <2>1, <3>2
  <2>2. CASE path = None /\ Enters(s, "save", doc, <<>>)
    <3>1. saver'[s] = [pc |-> "create", op |-> "save", by |-> saves + 1, fd |-> None,
                       new |-> File(saves + 1, doc, <<>>)]
      BY <2>2 DEF FileInv, FileTypeOK, Enters
    <3>2. saver'[s].op = "save" /\ saver'[s].new.history = <<>>
      BY <3>1 DEF File
    <3>3. QED
      BY <2>2, <3>2
  <2>3. CASE path # None /\ bytes[path].kind = "file" /\ Enters(s, "save", doc, HistoryOver(bytes[path], doc))
    BY <1>2, <2>3
  <2>4. QED
    BY <2>1, <2>2, <2>3 DEF Save, Export
<1>4. /\ Descending(saver'[s].new.history)
      /\ saver'[s].op = "save" /\ path # None => Keeps(bytes[path], saver'[s].new)
  <2>1. CASE saver'[s].new.history = <<>> /\ (saver'[s].op = "save" => path = None)
    BY <2>1 DEF Descending
  <2>2. CASE /\ path # None /\ bytes[path].kind = "file"
             /\ saver'[s].new = File(saves + 1, doc, HistoryOver(bytes[path], doc))
    <3>1. bytes[path] \in Files /\ Descending(bytes[path].history)
      BY <2>2 DEF FileInv, FileTypeOK, HistoryInv, Contents, Empty, Torn
    <3>2. QED
      BY <2>2, <3>1, HistoryIsKept
  <2>3. QED
    BY <1>3, <2>1, <2>2
<1>5. \A t \in Savers : t # s => (Active(t)' <=> Active(t)) /\ (Before(t)' <=> Before(t))
  BY <1>1 DEF Active, Before
<1>6. QED
  BY <1>1, <1>4, <1>5 DEF HistoryInv

\* What is renamed is what the saver began with.
LEMMA RenameHistory ==
    ASSUME FileInv, Orderly, HistoryInv, NEW s \in Savers, Rename(s)
    PROVE  /\ HistoryInv'
           /\ saver[s].op = "save" /\ path # None =>
                 Keeps(bytes[path], bytes[tmp]) /\ Descending(bytes[tmp].history)
<1>1. /\ path' = tmp /\ survives' = survives \cup {tmp} /\ bytes' = bytes
      /\ saver[s].pc = "rename" /\ saver' = [saver EXCEPT ![s].pc = "dir"]
  BY DEF Rename, At, Step
<1>2. bytes[tmp] = saver[s].new /\ Active(s) /\ Before(s)
  BY <1>1 DEF Orderly, OwnTmp, Active, Before
<1>3. Descending(bytes[tmp].history)
  BY <1>2 DEF HistoryInv
<1>4. \A t \in Savers : t # s => ~Active(t)
  BY <1>2 DEF Orderly, Alone
<1>5. \A t \in Savers : saver'[t].new = saver[t].new /\ (Active(t)' => Active(t)) /\ ~Before(t)'
  <2>1. saver \in [Savers -> SaverStates]
    BY DEF FileInv, FileTypeOK
  <2>2. saver'[s].pc = "dir" /\ saver'[s].new = saver[s].new
    BY <1>1, <2>1 DEF SaverStates
  <2>3. \A t \in Savers : t # s => saver'[t] = saver[t]
    BY <1>1, <2>1
  <2>4. QED
    BY <1>2, <1>4, <2>2, <2>3 DEF Active, Before
<1>6. HistoryInv'
  BY <1>1, <1>3, <1>5 DEF HistoryInv
<1>7. QED
  BY <1>2, <1>3, <1>6 DEF HistoryInv

\* The other steps write beside the files the path may refer to.
LEMMA OtherHistory ==
    ASSUME FileInv, FileInv', Orderly, HistoryInv,
           \/ \E s \in Savers : \/ RefuseSave(s) \/ CreateTmp(s) \/ WriteFirst(s) \/ WriteRest(s) \/ SyncFile(s)
                                \/ RenameFails(s) \/ SyncParent(s) \/ SyncParentSkipped(s) \/ OperationFails(s)
           \/ Crash
    PROVE  HistoryInv'
<1>1. /\ saver \in [Savers -> SaverStates] /\ bytes \in [Inodes -> Contents]
      /\ path \in survives /\ path' \in survives'
      /\ TmpApart /\ OwnTmp /\ Whole
  BY DEF FileInv, FileTypeOK, Orderly
<1>2. ASSUME NEW s \in Savers, RefuseSave(s) PROVE HistoryInv'
  BY <1>1, <1>2, HistoryStays DEF RefuseSave, Active, Before
<1>3. ASSUME NEW s \in Savers, NEW pc \in Steps \ {"idle"}, ~At(s, "idle"), Before(s),
             \A t \in Savers : saver'[t].new = saver[t].new /\ saver'[t].op = saver[t].op,
             \A t \in Savers : t # s => saver'[t].pc = saver[t].pc,
             UNCHANGED <<path, survives>>, \A i \in survives : i # None => bytes'[i] = bytes[i]
      PROVE HistoryInv'
  BY <1>1, <1>3, HistoryStays DEF Active, Before, At
<1>4. ASSUME NEW s \in Savers, CreateTmp(s) PROVE HistoryInv'
  <2>1. /\ tmp' \notin survives /\ bytes' = [bytes EXCEPT ![tmp'] = Empty]
        /\ Before(s) /\ ~At(s, "idle") /\ UNCHANGED <<path, survives>>
    <3> DEFINE free == Inodes \ ({path} \cup survives \cup {saver[t].fd : t \in Savers})
    <3>1. tmp = None => tmp' \in free
      BY <1>4 DEF CreateTmp
    <3>2. QED
      BY <1>1, <1>4, <3>1 DEF CreateTmp, TmpApart, At, Before
  <2>2. saver' = [saver EXCEPT ![s].pc = "write", ![s].fd = tmp']
    BY <1>4 DEF CreateTmp
  <2>3. \A t \in Savers : /\ saver'[t].new = saver[t].new /\ saver'[t].op = saver[t].op
                          /\ t # s => saver'[t].pc = saver[t].pc
    BY <1>1, <2>2 DEF SaverStates
  <2>4. \A i \in survives : i # None => bytes'[i] = bytes[i]
    BY <1>1, <2>1
  <2>5. QED
    BY <1>3, <2>1, <2>3, <2>4 DEF Steps
<1>5. ASSUME NEW s \in Savers, WriteFirst(s) \/ WriteRest(s) \/ SyncFile(s) PROVE HistoryInv'
  <2>1. /\ Before(s) /\ ~At(s, "idle") /\ Writing(s) /\ UNCHANGED <<path, survives>>
        /\ \E pc : saver' = [saver EXCEPT ![s].pc = pc]
        /\ \A i \in Inodes : i # saver[s].fd => bytes'[i] = bytes[i]
    BY <1>1, <1>5 DEF WriteFirst, WriteRest, SyncFile, At, Step, Before, Writing
  <2>2. \A t \in Savers : /\ saver'[t].new = saver[t].new /\ saver'[t].op = saver[t].op
                          /\ t # s => saver'[t].pc = saver[t].pc
    BY <1>1, <2>1 DEF SaverStates
  <2>3. saver[s].fd \notin survives /\ survives \subseteq Inodes \cup {None}
    BY <1>1, <2>1 DEF OwnTmp, TmpApart, FileInv, FileTypeOK
  <2>4. \A i \in survives : i # None => bytes'[i] = bytes[i]
    BY <2>1, <2>3
  <2>5. QED
    BY <1>3, <2>1, <2>2, <2>4 DEF Steps
<1>6. ASSUME NEW s \in Savers, RenameFails(s) \/ SyncParent(s) \/ SyncParentSkipped(s) \/ OperationFails(s) PROVE HistoryInv'
  <2>1. /\ path' = path /\ bytes' = bytes /\ saver' = [saver EXCEPT ![s] = Idle]
        /\ survives' \subseteq survives
    BY <1>1, <1>6 DEF RenameFails, SyncParent, SyncParentSkipped, Reported, OperationFails, GivesUp
  <2>2. \A t \in Savers : (t = s => saver'[t].pc = "idle") /\ (t # s => saver'[t] = saver[t])
    BY <1>1, <2>1 DEF Idle
  <2>3. \A t \in Savers : Active(t)' => t # s /\ saver'[t] = saver[t]
    BY <2>2 DEF Active
  <2>4. QED
    BY <1>1, <2>1, <2>3, HistoryStays DEF Active, Before
<1>7. CASE Crash
  <2>1. survives' \subseteq survives /\ \A t \in Savers : ~Active(t)'
    BY <1>7 DEF Crash, Idle, Active
  <2>2. \A i \in survives : i # None => bytes'[i] = bytes[i]
    BY <1>1, <1>7 DEF Crash, Whole, FileInv, FileTypeOK
  <2>3. QED
    BY <1>1, <2>1, <2>2, HistoryStays
<1>8. QED
  BY <1>2, <1>4, <1>5, <1>6, <1>7

\* A save loses no document (KeepsHistory), for any savers, documents, length of
\* the history, failures and crashes, as long as no two saves overlap: what the
\* path refers to stays what the save read until it is renamed over.
THEOREM SavesKeepHistory == FileSpec => KeepsHistory
<1> DEFINE Ok == ~overlapped => HistoryInv
           Kept(s) == (Rename(s) /\ saver[s].op = "save" /\ ~overlapped /\ path # None) =>
                         Keeps(bytes[path], bytes[tmp]) /\ Descending(bytes[tmp].history)
<1>1. FileInit => Ok
  BY DEF FileInit, HistoryInv, Idle, Active, Before
<1>2. FileInv /\ FileInv' /\ Ok /\ [FileNext]_fileVars => Ok'
  <2> SUFFICES ASSUME FileInv, FileInv', Ok, ~overlapped', [FileNext]_fileVars PROVE HistoryInv'
    OBVIOUS
  <2>1. Orderly /\ Orderly' /\ HistoryInv
    BY OverlapLasts DEF FileInv
  <2>2. CASE UNCHANGED fileVars
    BY <2>1, <2>2 DEF fileVars, HistoryInv, Active, Before
  <2>3. CASE FileNext
    BY <2>1, <2>3, EnterHistory, RenameHistory, OtherHistory DEF FileNext
  <2>4. QED
    BY <2>2, <2>3
<1>3. FileInv /\ Ok => \A s \in Savers : Kept(s)
  <2> SUFFICES ASSUME FileInv, Ok, NEW s \in Savers, Rename(s), saver[s].op = "save", ~overlapped, path # None
               PROVE  Keeps(bytes[path], bytes[tmp]) /\ Descending(bytes[tmp].history)
    OBVIOUS
  <2>1. Orderly /\ HistoryInv
    BY DEF FileInv
  <2>2. QED
    BY <2>1, RenameHistory
<1>4. (\A s \in Savers : Kept(s)) =>
        \A s \in Savers :
          LET was == bytes[path]
              new == bytes[tmp]
          IN  (Rename(s) /\ saver[s].op = "save" /\ ~overlapped /\ path # None) =>
                /\ {was.doc} \subseteq HistoryOf(new) \cup {new.doc}
                /\ Len(was.history) < Limit => HistoryOf(was) \subseteq HistoryOf(new)
                /\ \A j, k \in DOMAIN new.history :
                      j < k => new.history[j].revision > new.history[k].revision
  BY DEF Keeps, Descending
<1>5. QED
  BY <1>1, <1>2, <1>3, <1>4, FileInvariance, PTL DEF FileSpec, KeepsHistory

-----------------------------------------------------------------------------
(* The upload of a file: what is asked of the host, and what it does *)

Ops == {"begin", "chunk", "commit", "abort"}
Requests == [op : Ops, up : Uploads, part : Nat]
Answers == [op : Ops, up : Uploads, part : Nat, ok : BOOLEAN]
ClientStates == [step : Ops \cup {"idle"}, try : 0..MaxTries, part : Nat, link : 1..MaxLinks]
Boxes == [Links -> Seq(Requests)]

MediaTypes ==
    /\ client \in [Clients -> ClientStates]
    /\ told \in [Uploads -> {"none", "ok", "error", "timeout", "lost"}]
    /\ inbox \in Boxes
    /\ doing \in [Links -> {"read", "claimed", "sealed"}]
    /\ outbox \in [Clients -> Seq(Answers)]
    /\ inputs \in [Uploads -> Nat]
    /\ verdict \in [Uploads -> {"none", "ok", "refused", "late"}]
    /\ pending \subseteq Uploads /\ stuck \subseteq Uploads
    /\ uploads = [u \in DOMAIN uploads |-> uploads[u]]
    /\ IsFiniteSet(DOMAIN uploads)
    /\ \A c \in Clients : client[c].step = "chunk" => client[c].part \in 1..Chunks
    /\ \A k \in Links : \A i \in 1..Len(inbox[k]) :
          inbox[k][i].op = "chunk" => inbox[k][i].part \in 1..Chunks

\* No request of this kind is about u.
Absent(box, op, u) ==
    \A k \in Links : \A i \in 1..Len(box[k]) : ~(box[k][i].op = op /\ box[k][i].up = u)

NotAsked(op, u) == Absent(inbox, op, u)

\* Of one upload: its begin is alone, and there is one commit, which comes before
\* any abort over the same connection.
Lone(box) ==
    \A k, l \in Links : \A i \in 1..Len(box[k]), j \in 1..Len(box[l]) :
        box[k][i].up = box[l][j].up =>
            /\ box[k][i].op = "begin" => k = l /\ i = j
            /\ box[k][i].op = "commit" /\ box[l][j].op = "commit" => k = l /\ i = j
            /\ box[k][i].op = "commit" /\ box[l][j].op = "abort" => k = l /\ i < j

\* Requests that are left of a box are in order as they were.
LEMMA LeftInOrder ==
    ASSUME NEW box \in Boxes, NEW new \in Boxes, NEW shift \in [Links -> Nat], Lone(box),
           \A l \in Links : \A i \in 1..Len(new[l]) :
              i + shift[l] \in 1..Len(box[l]) /\ new[l][i] = box[l][i + shift[l]]
    PROVE  Lone(new) /\ \A op, u : Absent(box, op, u) => Absent(new, op, u)
<1>1. ASSUME NEW k \in Links, NEW l \in Links, NEW i \in 1..Len(new[k]), NEW j \in 1..Len(new[l]),
             new[k][i].up = new[l][j].up
      PROVE  /\ new[k][i].op = "begin" => k = l /\ i = j
             /\ new[k][i].op = "commit" /\ new[l][j].op = "commit" => k = l /\ i = j
             /\ new[k][i].op = "commit" /\ new[l][j].op = "abort" => k = l /\ i < j
  <2> DEFINE a == i + shift[k]
             b == j + shift[l]
  <2>1. a \in 1..Len(box[k]) /\ b \in 1..Len(box[l]) /\ new[k][i] = box[k][a] /\ new[l][j] = box[l][b]
    OBVIOUS
  <2>2. k = l => (a = b => i = j) /\ (a < b => i < j)
    OBVIOUS
  <2> HIDE DEF a, b
  <2>3. /\ box[k][a].op = "begin" => k = l /\ a = b
        /\ box[k][a].op = "commit" /\ box[l][b].op = "commit" => k = l /\ a = b
        /\ box[k][a].op = "commit" /\ box[l][b].op = "abort" => k = l /\ a < b
    BY <1>1, <2>1 DEF Lone
  <2>4. QED
    BY <2>1, <2>2, <2>3
<1>2. Lone(new)
  BY <1>1 DEF Lone
<1>3. ASSUME NEW op, NEW u, Absent(box, op, u) PROVE Absent(new, op, u)
  BY <1>3 DEF Absent
<1>4. QED
  BY <1>2, <1>3

\* The first message of a box that is not empty.
LEMMA FirstOf ==
    ASSUME NEW q \in Seq(Requests), q # <<>>
    PROVE  /\ Tail(q) \in Seq(Requests) /\ Head(q) \in Requests /\ Head(q) = q[1]
           /\ Len(q) \in Nat /\ Len(q) > 0 /\ 1 \in 1..Len(q) /\ Len(Tail(q)) = Len(q) - 1
           /\ \A i \in 1..Len(Tail(q)) : Tail(q)[i] = q[i + 1] /\ i + 1 \in 1..Len(q)
<1>1. /\ Tail(q) \in Seq(Requests) /\ Head(q) \in Requests /\ Head(q) = q[1]
      /\ Len(q) \in Nat /\ Len(q) > 0 /\ Len(Tail(q)) = Len(q) - 1
      /\ \A i \in 1..Len(Tail(q)) : Tail(q)[i] = q[i + 1]
  BY HeadTailProperties
<1>2. QED
  BY <1>1

\* A box that loses its first request, which was answered.
LEMMA Popping ==
    ASSUME NEW box \in Boxes, NEW k \in Links, Lone(box), box[k] # <<>>,
           NEW new \in Boxes,
           new[k] = Tail(box[k]), \A l \in Links : l # k => new[l] = box[l],
           NEW r, r = Head(box[k])
    PROVE  /\ new \in Boxes /\ Lone(new) /\ r \in Requests
           /\ \A op, u : Absent(box, op, u) => Absent(new, op, u)
           /\ Absent(new, "begin", r.up)
           /\ r.op = "commit" => Absent(new, "commit", r.up)
           /\ r.op # "begin" => Absent(box, "begin", r.up)
<1> DEFINE shift == [l \in Links |-> IF l = k THEN 1 ELSE 0]
<1>1. /\ Tail(box[k]) \in Seq(Requests) /\ r \in Requests /\ r = box[k][1] /\ 1 \in 1..Len(box[k])
      /\ \A i \in 1..Len(Tail(box[k])) : Tail(box[k])[i] = box[k][i + 1] /\ i + 1 \in 1..Len(box[k])
  BY FirstOf DEF Boxes
<1>2. new \in Boxes /\ new[k] = Tail(box[k]) /\ \A l \in Links : l # k => new[l] = box[l]
  BY <1>1 DEF Boxes
<1>3. \A l \in Links : \A i \in 1..Len(new[l]) :
         i + shift[l] \in 1..Len(box[l]) /\ new[l][i] = box[l][i + shift[l]]
  <2>1. ASSUME NEW l \in Links, NEW i \in 1..Len(new[l])
        PROVE  i + shift[l] \in 1..Len(box[l]) /\ new[l][i] = box[l][i + shift[l]]
    <3>1. CASE l = k
      BY <1>1, <1>2, <3>1
    <3>2. CASE l # k
      <4>1. new[l] = box[l] /\ shift[l] = 0 /\ i + 0 = i
        BY <1>2, <3>2
      <4>2. QED
        BY <4>1
    <3>3. QED
      BY <3>1, <3>2
  <2>2. QED
    BY <2>1
<1>4. shift \in [Links -> Nat] /\ shift[k] = 1
  OBVIOUS
<1> HIDE DEF shift
<1>5. Lone(new) /\ \A op, u : Absent(box, op, u) => Absent(new, op, u)
  BY <1>2, <1>3, <1>4, LeftInOrder
<1>6. ASSUME NEW l \in Links, NEW i \in 1..Len(new[l]), new[l][i].up = r.up
      PROVE  new[l][i].op # "begin" /\ (r.op = "commit" => new[l][i].op # "commit")
  <2>1. i + shift[l] \in 1..Len(box[l]) /\ new[l][i] = box[l][i + shift[l]] /\ (l = k => i + shift[l] # 1)
    <3>1. i + shift[l] \in 1..Len(box[l]) /\ new[l][i] = box[l][i + shift[l]]
      BY <1>3
    <3>2. i \in Int /\ i >= 1
      OBVIOUS
    <3>3. i + 1 # 1
      BY <3>2
    <3>4. QED
      BY <1>4, <3>1, <3>3
  <2>2. QED
    BY <1>1, <1>6, <2>1 DEF Lone
<1>7. r.op # "begin" => Absent(box, "begin", r.up)
  BY <1>1 DEF Lone, Absent
<1>8. Absent(new, "begin", r.up) /\ (r.op = "commit" => Absent(new, "commit", r.up))
  BY <1>6 DEF Absent
<1>9. QED
  BY <1>1, <1>2, <1>5, <1>7, <1>8

\* The first messages of a box are some of its messages.
LEMMA FirstPart ==
    ASSUME NEW q \in Seq(Requests), NEW n \in 0..Len(q)
    PROVE  /\ SubSeq(q, 1, n) \in Seq(Requests) /\ Len(SubSeq(q, 1, n)) = n
           /\ \A i \in 1..n : SubSeq(q, 1, n)[i] = q[i]
<1>1. Len(q) \in Nat /\ n \in Nat /\ n <= Len(q)
  OBVIOUS
<1>2. \A i \in 1..n : q[i] \in Requests
  BY <1>1
<1>3. /\ SubSeq(q, 1, n) \in Seq(Requests)
      /\ Len(SubSeq(q, 1, n)) = IF 1 <= n THEN n - 1 + 1 ELSE 0
      /\ \A i \in 1..n - 1 + 1 : SubSeq(q, 1, n)[i] = q[1 + i - 1]
  BY <1>1, <1>2, SubSeqProperties
<1>4. n - 1 + 1 = n /\ \A i \in 1..n : 1 + i - 1 = i
  BY <1>1
<1>5. QED
  BY <1>1, <1>3, <1>4

\* A box that loses its last requests, which a broken connection did not carry.
LEMMA Cutting ==
    ASSUME NEW box \in Boxes, NEW k \in Links, NEW n \in 0..Len(box[k]), Lone(box),
           NEW new \in Boxes,
           Len(new[k]) = n, \A i \in 1..n : new[k][i] = box[k][i],
           \A l \in Links : l # k => new[l] = box[l]
    PROVE  /\ new \in Boxes /\ Lone(new)
           /\ \A op, u : Absent(box, op, u) => Absent(new, op, u)
           /\ \A l \in Links : \A i \in 1..Len(new[l]) : i \in 1..Len(box[l]) /\ new[l][i] = box[l][i]
           /\ n > 0 => new[k] # <<>> /\ Head(new[k]) = Head(box[k])
<1> DEFINE shift == [l \in Links |-> 0]
<1>1. box[k] \in Seq(Requests) /\ Len(box[k]) \in Nat /\ n \in Nat /\ n <= Len(box[k])
  BY DEF Boxes
<1>4. \A l \in Links : \A i \in 1..Len(new[l]) : i \in 1..Len(box[l]) /\ new[l][i] = box[l][i]
  BY <1>1 DEF Boxes
<1>5. \A l \in Links : \A i \in 1..Len(new[l]) :
         i + shift[l] \in 1..Len(box[l]) /\ new[l][i] = box[l][i + shift[l]]
  BY <1>4
<1>6. shift \in [Links -> Nat]
  OBVIOUS
<1> HIDE DEF shift
<1>7. Lone(new) /\ \A op, u : Absent(box, op, u) => Absent(new, op, u)
  BY <1>5, <1>6, LeftInOrder
<1>8. n > 0 => new[k] # <<>> /\ Head(new[k]) = Head(box[k])
  BY <1>1 DEF Boxes
<1>9. QED
  BY <1>4, <1>7, <1>8

\* A box that takes one more request.
LEMMA Pushing ==
    ASSUME NEW box \in Boxes, NEW k \in Links, NEW r \in Requests, Lone(box),
           Absent(box, "begin", r.up),
           r.op = "begin" => \A op \in Ops : Absent(box, op, r.up),
           r.op = "commit" => Absent(box, "commit", r.up) /\ Absent(box, "abort", r.up),
           r.op = "abort" => \A l \in Links : \A i \in 1..Len(box[l]) :
                                box[l][i].op = "commit" /\ box[l][i].up = r.up => l = k,
           NEW new \in Boxes,
           new[k] = Append(box[k], r), \A l \in Links : l # k => new[l] = box[l]
    PROVE  /\ new \in Boxes /\ Lone(new)
           /\ \A op, u : Absent(new, op, u) <=> Absent(box, op, u) /\ ~(op = r.op /\ u = r.up)
           /\ Len(new[k]) = Len(box[k]) + 1 /\ new[k][Len(box[k]) + 1] = r
           /\ \A l \in Links : l # k => new[l] = box[l]
           /\ \A i \in 1..Len(box[k]) : new[k][i] = box[k][i]
           /\ \A l \in Links : \A i \in 1..Len(new[l]) :
                 \/ i \in 1..Len(box[l]) /\ new[l][i] = box[l][i]
                 \/ l = k /\ i = Len(box[k]) + 1 /\ new[l][i] = r
           /\ \A l \in Links : box[l] # <<>> => new[l] # <<>> /\ Head(new[l]) = Head(box[l])
<1> DEFINE top == Len(box[k]) + 1
<1>1. box[k] \in Seq(Requests) /\ Len(box[k]) \in Nat
  BY DEF Boxes
<1>2. /\ Append(box[k], r) \in Seq(Requests) /\ Len(Append(box[k], r)) = top
      /\ Append(box[k], r)[top] = r /\ \A i \in 1..Len(box[k]) : Append(box[k], r)[i] = box[k][i]
  BY <1>1
<1>3. new \in Boxes /\ new[k] = Append(box[k], r) /\ \A l \in Links : l # k => new[l] = box[l]
  BY <1>2 DEF Boxes
<1>4. Len(new[k]) = top /\ new[k][top] = r /\ \A i \in 1..Len(box[k]) : new[k][i] = box[k][i]
  BY <1>2, <1>3
<1>5. ASSUME NEW l \in Links, NEW i \in 1..Len(new[l])
      PROVE  \/ i \in 1..Len(box[l]) /\ new[l][i] = box[l][i]
             \/ l = k /\ i = top /\ new[l][i] = r
  BY SMTT(30), <1>1, <1>3, <1>4
<1>6. ASSUME NEW l \in Links, NEW i \in 1..Len(box[l])
      PROVE  i \in 1..Len(new[l]) /\ new[l][i] = box[l][i]
  BY SMTT(30), <1>1, <1>3, <1>4
<1>7. Lone(new)
  <2>1. ASSUME NEW l \in Links, NEW m \in Links, NEW i \in 1..Len(new[l]), NEW j \in 1..Len(new[m]),
               new[l][i].up = new[m][j].up
        PROVE  /\ new[l][i].op = "begin" => l = m /\ i = j
               /\ new[l][i].op = "commit" /\ new[m][j].op = "commit" => l = m /\ i = j
               /\ new[l][i].op = "commit" /\ new[m][j].op = "abort" => l = m /\ i < j
    <3>1. CASE i \in 1..Len(box[l]) /\ new[l][i] = box[l][i] /\ j \in 1..Len(box[m]) /\ new[m][j] = box[m][j]
      BY <2>1, <3>1 DEF Lone
    <3>2. CASE l = k /\ i = top /\ new[l][i] = r /\ m = k /\ j = top /\ new[m][j] = r
      BY <3>2
    <3>3. CASE i \in 1..Len(box[l]) /\ new[l][i] = box[l][i] /\ m = k /\ j = top /\ new[m][j] = r
      <4>1. new[l][i].op # "begin"
        BY <2>1, <3>3 DEF Absent
      <4>2. r.op = "commit" => new[l][i].op # "commit"
        BY <2>1, <3>3 DEF Absent
      <4>3. r.op = "abort" /\ new[l][i].op = "commit" => l = k /\ i < top
        BY <2>1, <3>3, <1>1
      <4>4. QED
        BY <3>3, <4>1, <4>2, <4>3
    <3>4. CASE j \in 1..Len(box[m]) /\ new[m][j] = box[m][j] /\ l = k /\ i = top /\ new[l][i] = r
      <4>1. box[m][j] \in Requests
        BY <3>4 DEF Boxes
      <4>2. box[m][j].op \in Ops
        BY <4>1 DEF Requests
      <4>3. r.op # "begin"
        BY <2>1, <3>4, <4>2 DEF Absent
      <4>4. r.op = "commit" => new[m][j].op \notin {"commit", "abort"}
        BY <2>1, <3>4 DEF Absent
      <4>5. QED
        BY <3>4, <4>3, <4>4
    <3>5. QED
      BY <1>5, <3>1, <3>2, <3>3, <3>4
  <2>2. QED
    BY <2>1 DEF Lone
<1>8. ASSUME NEW op, NEW u PROVE Absent(new, op, u) <=> Absent(box, op, u) /\ ~(op = r.op /\ u = r.up)
  <2>1. ASSUME Absent(new, op, u) PROVE Absent(box, op, u)
    BY <1>6, <2>1 DEF Absent
  <2>2. ASSUME Absent(new, op, u) PROVE ~(op = r.op /\ u = r.up)
    <3>1. top \in 1..Len(new[k])
      BY <1>1, <1>4
    <3>2. QED
      BY <1>4, <2>2, <3>1 DEF Absent
  <2>3. ASSUME Absent(box, op, u), ~(op = r.op /\ u = r.up) PROVE Absent(new, op, u)
    <3> SUFFICES ASSUME NEW l \in Links, NEW i \in 1..Len(new[l]), new[l][i].op = op, new[l][i].up = u
                 PROVE  FALSE
      BY DEF Absent
    <3>1. ~(i \in 1..Len(box[l]) /\ new[l][i] = box[l][i])
      BY <2>3 DEF Absent
    <3>2. new[l][i] = r
      BY <1>5, <3>1
    <3>3. QED
      BY <2>3, <3>2
  <2>4. QED
    BY <2>1, <2>2, <2>3
<1>9. \A l \in Links : box[l] # <<>> => new[l] # <<>> /\ Head(new[l]) = Head(box[l])
  BY <1>1, <1>2, <1>3
<1>10. QED
  BY <1>3, <1>4, <1>5, <1>7, <1>8, <1>9

\* A commit of u is under way at the host.
Busy(u) == \E k \in Links : doing[k] # "read" /\ Subject(k) = u

\* The host has nothing to do with u, unless it is begun.
Gone(u) == u \notin pending /\ ~Busy(u)

\* Requests come over the connections a client has had, about calls it has made.
Known ==
    \A k \in Links :
        /\ k[2] > client[k[1]].link => inbox[k] = <<>>
        /\ \A i \in 1..Len(inbox[k]) :
              inbox[k][i].up[1] = k[1] /\ inbox[k][i].up[2] <= client[k[1]].try

\* An upload whose publish has ended is done with, and was added if it was taken.
Decided ==
    \A u \in Uploads :
        /\ verdict[u] # "none" => Gone(u) /\ NotAsked("commit", u)
        /\ inputs[u] = IF verdict[u] \in {"ok", "late"} THEN 1 ELSE 0

\* Whoever commits an upload has taken its entry.
Taken == \A k \in Links : doing[k] # "read" => Subject(k) \notin pending

\* Every upload in the list has an entry, or a commit that has just taken it.
Tracked ==
    \A u \in DOMAIN uploads : u \in pending \/ \E k \in Links : doing[k] = "claimed" /\ Subject(k) = u

\* A file that is stuck is of an upload that is over.
StuckIsOver ==
    \A u \in stuck : Gone(u) /\ NotAsked("begin", u) /\ u[2] <= client[u[1]].try

\* What was not begun leaves no trace.
Fresh ==
    \A u \in Uploads :
        /\ ~NotAsked("begin", u) =>
              Gone(u) /\ verdict[u] = "none" /\ told[u] \in {"none", "lost"}
        /\ u[2] > client[u[1]].try => Gone(u) /\ verdict[u] = "none" /\ told[u] = "none"

HostInv ==
    TypeOK /\ FilesAgree /\ Decided /\ Taken /\ Tracked /\ StuckIsOver

(* What is between a client and the host: its answers, then its requests *)

Request(m) == [op |-> m.op, up |-> m.up, part |-> m.part]
Here(c) == <<c, client[c].link>>
Size(c) == Len(outbox[c]) + Len(inbox[Here(c)])
Flow(c, i) ==
    IF i <= Len(outbox[c]) THEN Request(outbox[c][i]) ELSE inbox[Here(c)][i - Len(outbox[c])]

\* A client waits for one answer; after its deadline one it gave up may come first.
Pipe(c) ==
    IF client[c].step = "idle" THEN Size(c) = 0 /\ client[c].part = 0
    ELSE /\ Mine(c) \in Uploads
         /\ Size(c) = 1 \/ (Size(c) = 2 /\ client[c].step = "abort" /\ client[c].part = 1)
         /\ Flow(c, Size(c)) = Awaited(c)
         /\ Size(c) = 2 => Flow(c, 1) # Awaited(c)
         /\ \A i \in 1..Size(c) : Flow(c, i).up = Mine(c)

\* What may have been asked of an upload by the time its call has come to a step.
Asked(c) ==
    CASE client[c].step = "begin" -> {"begin"}
      [] client[c].step = "chunk" -> {"chunk"}
      [] client[c].step = "commit" -> {"chunk", "commit"}
      [] client[c].step = "abort" /\ client[c].part = 0 -> {"chunk", "abort"}
      [] OTHER -> {"chunk", "commit", "abort"}

NoCommitYet(c) ==
    client[c].step \in {"begin", "chunk"} \/ (client[c].step = "abort" /\ client[c].part = 0)

Phase(c) ==
    client[c].step # "idle" =>
        /\ \A op \in Ops : op \notin Asked(c) => NotAsked(op, Mine(c))
        /\ NoCommitYet(c) => verdict[Mine(c)] = "none"

\* An answer that is under way is so.
Means(m) ==
    /\ m.up \in Uploads
    /\ NotAsked("begin", m.up)
    /\ m.op = "begin" /\ ~m.ok => Gone(m.up)
    /\ m.op = "commit" => Gone(m.up) /\ NotAsked("commit", m.up) /\ (m.ok <=> verdict[m.up] = "ok")
    /\ m.op = "abort" => Gone(m.up)

AnswersMean == \A c \in Clients : \A i \in 1..Len(outbox[c]) : Means(outbox[c][i])

\* What a caller was told is so, and the upload is over unless its connection broke.
ToldSo ==
    \A u \in Uploads :
        /\ told[u] = "ok" => verdict[u] = "ok"
        /\ told[u] = "error" => verdict[u] # "ok"
        /\ told[u] \in {"ok", "error", "timeout"} => Gone(u) /\ NotAsked("begin", u)

MediaInv ==
    /\ MediaTypes /\ Lone(inbox) /\ Known /\ HostInv /\ Fresh
    /\ \A c \in Clients : Pipe(c) /\ Phase(c)
    /\ AnswersMean /\ ToldSo

-----------------------------------------------------------------------------
(* Steps of a client *)

\* A connection that commits has the commit first in its inbox.
LEMMA Committing ==
    ASSUME MediaInv, NEW k \in Links, doing[k] # "read"
    PROVE  /\ inbox[k] \in Seq(Requests) /\ inbox[k] # <<>> /\ 1 \in 1..Len(inbox[k])
           /\ inbox[k][1] = Head(inbox[k]) /\ inbox[k][1].op = "commit"
           /\ Subject(k) = inbox[k][1].up /\ Subject(k) \in Uploads
<1>1. inbox[k] \in Seq(Requests) /\ Serves(k, "commit")
  BY DEF MediaInv, MediaTypes, Boxes, HostInv, TypeOK
<1>2. inbox[k] # <<>> /\ Head(inbox[k]).op = "commit" /\ Subject(k) = Head(inbox[k]).up
  BY <1>1 DEF Serves, Subject
<1>3. Head(inbox[k]) = inbox[k][1] /\ 1 \in 1..Len(inbox[k]) /\ Head(inbox[k]) \in Requests
  BY <1>1, <1>2, FirstOf
<1>4. QED
  BY <1>1, <1>2, <1>3 DEF Requests

\* At most one connection commits an upload.
LEMMA OneCommits ==
    ASSUME MediaInv, NEW k \in Links, NEW l \in Links, doing[k] # "read", doing[l] # "read",
           Subject(k) = Subject(l)
    PROVE  k = l
<1>1. /\ 1 \in 1..Len(inbox[k]) /\ inbox[k][1].op = "commit" /\ 1 \in 1..Len(inbox[l])
      /\ inbox[l][1].op = "commit" /\ inbox[k][1].up = inbox[l][1].up
  BY Committing
<1>2. QED
  BY <1>1 DEF MediaInv, Lone

\* Nothing that the host is at is changed by what clients ask.
LEMMA HostAside ==
    ASSUME MediaInv, UNCHANGED <<doing, host>>,
           \A k \in Links : doing[k] # "read" => inbox'[k] # <<>> /\ Head(inbox'[k]) = Head(inbox[k])
    PROVE  /\ \A u : Busy(u)' <=> Busy(u)
           /\ \A u : Gone(u)' <=> Gone(u)
           /\ TypeOK' /\ FilesAgree' /\ Taken' /\ Tracked'
<1>1. /\ doing' = doing /\ uploads' = uploads /\ old' = old /\ pending' = pending /\ staged' = staged
      /\ stuck' = stuck /\ media' = media /\ inputs' = inputs /\ verdict' = verdict
  BY DEF host
<1>2. \A k \in Links : doing[k] # "read" => Subject(k)' = Subject(k) /\ (Serves(k, "commit") <=> Serves(k, "commit")')
  BY Committing DEF Subject, Serves
<1>3. \A u : Busy(u)' <=> Busy(u)
  BY <1>1, <1>2 DEF Busy
<1>4. \A u : Gone(u)' <=> Gone(u)
  BY <1>1, <1>3 DEF Gone
<1>5. TypeOK'
  BY <1>1, <1>2 DEF TypeOK, MediaInv, HostInv
<1>6. FilesAgree'
  BY <1>1, <1>2 DEF FilesAgree, MediaInv, HostInv
<1>7. Taken' /\ Tracked'
  BY <1>1, <1>2 DEF Taken, Tracked, MediaInv, HostInv
<1>8. QED
  BY <1>3, <1>4, <1>5, <1>6, <1>7

\* The numbers of what is between a client and the host.
LEMMA Between ==
    ASSUME MediaInv, NEW c \in Clients
    PROVE  /\ Here(c) \in Links /\ client[c] \in ClientStates
           /\ outbox[c] \in Seq(Answers) /\ inbox[Here(c)] \in Seq(Requests)
           /\ Len(outbox[c]) \in Nat /\ Len(inbox[Here(c)]) \in Nat /\ Size(c) \in Nat
           /\ client[c].try \in 0..MaxTries /\ client[c].link \in 1..MaxLinks /\ client[c].part \in Nat
           /\ client[c].step \in Ops \cup {"idle"}
<1>1. client[c] \in ClientStates /\ outbox[c] \in Seq(Answers)
  BY DEF MediaInv, MediaTypes
<1>2. Here(c) \in Links /\ client[c].try \in 0..MaxTries /\ client[c].link \in 1..MaxLinks
      /\ client[c].part \in Nat /\ client[c].step \in Ops \cup {"idle"}
  BY <1>1 DEF Here, Links, ClientStates
<1>3. inbox[Here(c)] \in Seq(Requests)
  BY <1>2 DEF MediaInv, MediaTypes, Boxes
<1>4. Len(outbox[c]) \in Nat /\ Len(inbox[Here(c)]) \in Nat
  BY <1>1, <1>3
<1>5. Size(c) \in Nat
  <2>1. \A m, n \in Nat : m + n \in Nat
    OBVIOUS
  <2>2. Len(outbox[c]) + Len(inbox[Here(c)]) \in Nat
    BY <1>4, <2>1
  <2>3. QED
    BY <2>2 DEF Size
<1>6. QED
  BY <1>1, <1>2, <1>3, <1>4, <1>5

\* What lies between another client and the host stays if its boxes do.
LEMMA PipeStays ==
    ASSUME NEW d \in Clients, Pipe(d), client'[d] = client[d], outbox'[d] = outbox[d],
           inbox'[Here(d)] = inbox[Here(d)]
    PROVE  Pipe(d)'
<1>1. Here(d)' = Here(d) /\ Mine(d)' = Mine(d) /\ Awaited(d)' = Awaited(d) /\ Size(d)' = Size(d)
  BY DEF Here, Mine, Awaited, Size
<1>2. \A i : Flow(d, i)' = Flow(d, i)
  BY <1>1 DEF Flow, Here
<1>3. QED
  BY <1>1, <1>2 DEF Pipe

\* The answers to a client are about its call.
LEMMA AnswersMine ==
    ASSUME MediaInv, NEW c \in Clients, NEW i \in 1..Len(outbox[c])
    PROVE  /\ outbox[c][i] \in Answers /\ outbox[c][i].up = Mine(c) /\ client[c].step # "idle"
           /\ Mine(c) \in Uploads /\ Flow(c, i) = Request(outbox[c][i]) /\ i \in 1..Size(c)
<1>1. outbox[c][i] \in Answers /\ i \in 1..Size(c) /\ Pipe(c) /\ Size(c) # 0
  <2>1. outbox[c] \in Seq(Answers) /\ Len(outbox[c]) \in Nat /\ Len(inbox[Here(c)]) \in Nat
    BY Between
  <2> DEFINE m == Len(outbox[c])
             n == Len(inbox[Here(c)])
  <2>2. Size(c) = m + n /\ m \in Nat /\ n \in Nat /\ i \in 1..m
    BY <2>1 DEF Size
  <2>3. outbox[c][i] \in Answers
    BY <2>1
  <2> HIDE DEF m, n
  <2>4. i \in 1..m + n /\ m + n # 0
    BY <2>2
  <2>5. Pipe(c)
    BY DEF MediaInv
  <2>6. QED
    BY <2>2, <2>3, <2>4, <2>5
<1>2. Flow(c, i) = Request(outbox[c][i])
  BY Between DEF Flow
<1>3. client[c].step # "idle" /\ Mine(c) \in Uploads /\ Flow(c, i).up = Mine(c)
  BY <1>1 DEF Pipe
<1>4. QED
  BY <1>1, <1>2, <1>3 DEF Request

\* Requests about the upload of a client's call are its own.
LEMMA MineIsMine == \A c : Mine(c)[1] = c /\ Mine(c)[2] = client[c].try
BY DEF Mine

\* A step of a client, which concerns one of its uploads, keeps the invariant if it
\* does where that client and that upload are concerned.
LEMMA ClientStep ==
    ASSUME MediaInv, NEW c \in Clients, NEW u0, UNCHANGED <<doing, host>>,
           MediaTypes', Lone(inbox)', Known',
           \A k \in Links : doing[k] # "read" => inbox'[k] # <<>> /\ Head(inbox'[k]) = Head(inbox[k]),
           u0[1] = c, u0[2] <= client'[c].try, client[c].try <= client'[c].try,
           \A op, u : u # u0 /\ NotAsked(op, u) => NotAsked(op, u)',
           \/ NotAsked("begin", u0)'
           \/ told'[u0] \in {told[u0], "lost"} /\ (u0[2] > client[c].try \/ ~NotAsked("begin", u0)),
           NotAsked("commit", u0)' \/ verdict[u0] = "none",
           \A d \in Clients : d # c => /\ client'[d] = client[d] /\ outbox'[d] = outbox[d]
                                       /\ inbox'[Here(d)] = inbox[Here(d)],
           \A u \in Uploads : u # u0 => told'[u] = told[u],
           \/ told'[u0] \in {told[u0], "lost"}
           \/ /\ NotAsked("begin", u0)' /\ Gone(u0)
              /\ told'[u0] = "ok" => verdict[u0] = "ok"
              /\ told'[u0] = "error" => verdict[u0] # "ok",
           Pipe(c)', Phase(c)',
           \A i \in 1..Len(outbox'[c]) : Means(outbox[c][i])'
    PROVE  MediaInv'
<1>1. /\ \A u : Gone(u)' <=> Gone(u)
      /\ TypeOK' /\ FilesAgree' /\ Taken' /\ Tracked'
  BY HostAside
<1>2. verdict' = verdict /\ inputs' = inputs /\ stuck' = stuck /\ pending' = pending
  BY DEF host
<1>3. /\ Decided /\ StuckIsOver /\ Fresh /\ ToldSo /\ AnswersMean /\ MediaTypes
      /\ \A d \in Clients : Pipe(d) /\ Phase(d)
  BY DEF MediaInv, HostInv
<1>4. \A d \in Clients : client[d].try \in Nat /\ client'[d].try \in Nat
  BY <1>3 DEF MediaTypes, ClientStates
<1>5. Decided'
  BY <1>1, <1>2, <1>3 DEF Decided
<1>6. \A u \in Uploads : u[1] \in Clients /\ u[2] \in Nat
  BY DEF Uploads
<1>7. \A u \in Uploads : client[u[1]].try <= client'[u[1]].try
  BY <1>4, <1>6
<1>8. StuckIsOver'
  <2> SUFFICES ASSUME NEW u \in stuck
               PROVE  Gone(u)' /\ NotAsked("begin", u)' /\ u[2] <= client'[u[1]].try
    BY <1>2 DEF StuckIsOver
  <2>1. u \in Uploads /\ Gone(u) /\ NotAsked("begin", u) /\ u[2] <= client[u[1]].try
    BY <1>3 DEF StuckIsOver, MediaTypes
  <2>2. u[2] <= client'[u[1]].try
    BY <1>4, <1>6, <1>7, <2>1
  <2>3. NotAsked("begin", u)'
    BY <1>4, <1>6, <2>1
  <2>4. QED
    BY <1>1, <2>1, <2>2, <2>3
<1>9. Fresh'
  <2> SUFFICES ASSUME NEW u \in Uploads
               PROVE  /\ ~NotAsked("begin", u)' =>
                            Gone(u)' /\ verdict'[u] = "none" /\ told'[u] \in {"none", "lost"}
                      /\ u[2] > client'[u[1]].try =>
                            Gone(u)' /\ verdict'[u] = "none" /\ told'[u] = "none"
    BY DEF Fresh
  <2>1. CASE u # u0
    <3>1. u[2] > client'[u[1]].try => u[2] > client[u[1]].try
      BY <1>4, <1>6, <1>7
    <3>2. QED
      BY <1>1, <1>2, <1>3, <2>1, <3>1 DEF Fresh
  <2>2. CASE u = u0
    <3>1. ~(u[2] > client'[u[1]].try)
      BY <1>4, <1>6, <2>2
    <3>2. QED
      BY <1>1, <1>2, <1>3, <2>2, <3>1 DEF Fresh
  <2>3. QED
    BY <2>1, <2>2
<1>10. ToldSo'
  <2> SUFFICES ASSUME NEW u \in Uploads
               PROVE  /\ told'[u] = "ok" => verdict'[u] = "ok"
                      /\ told'[u] = "error" => verdict'[u] # "ok"
                      /\ told'[u] \in {"ok", "error", "timeout"} => Gone(u)' /\ NotAsked("begin", u)'
    BY DEF ToldSo
  <2>1. CASE u # u0
    BY <1>1, <1>2, <1>3, <2>1 DEF ToldSo
  <2>2. CASE u = u0 /\ NotAsked("begin", u0)'
    BY <1>1, <1>2, <1>3, <2>2 DEF ToldSo
  <2>3. CASE u = u0 /\ ~NotAsked("begin", u0)'
    <3>1. told'[u] \in {"none", "lost"}
      BY <1>3, <1>4, <1>6, <2>3 DEF Fresh
    <3>2. QED
      BY <3>1
  <2>4. QED
    BY <2>1, <2>2, <2>3
<1>11. ASSUME NEW d \in Clients PROVE Pipe(d)' /\ Phase(d)'
  <2>1. CASE d = c
    BY <2>1
  <2>2. CASE d # c
    <3>1. Pipe(d)'
      BY <1>3, <2>2, PipeStays
    <3>2. Mine(d)' = Mine(d) /\ Asked(d)' = Asked(d) /\ Mine(d) # u0 /\ client'[d] = client[d]
          /\ (NoCommitYet(d)' <=> NoCommitYet(d))
      BY <2>2, MineIsMine DEF Mine, Asked, NoCommitYet
    <3>3. Phase(d)'
      BY <1>2, <1>3, <3>2 DEF Phase
    <3>4. QED
      BY <3>1, <3>3
  <2>3. QED
    BY <2>1, <2>2
<1>12. AnswersMean'
  <2>1. ASSUME NEW d \in Clients, NEW i \in 1..Len(outbox'[d]), d # c, NEW m, m = outbox[d][i]
        PROVE  Means(m)'
    <3>1. outbox'[d] = outbox[d] /\ i \in 1..Len(outbox[d])
      BY <2>1
    <3>2. Means(m) /\ m.up \in Uploads /\ m.up # u0
      BY <1>3, <2>1, <3>1, AnswersMine, MineIsMine DEF AnswersMean
    <3>3. /\ NotAsked("begin", m.up) => NotAsked("begin", m.up)'
          /\ NotAsked("commit", m.up) => NotAsked("commit", m.up)'
      BY <3>2
    <3>4. Gone(m.up) => Gone(m.up)'
      BY <1>1
    <3>5. QED
      BY <1>2, <3>2, <3>3, <3>4 DEF Means
  <2>2. ASSUME NEW d \in Clients, NEW i \in 1..Len(outbox'[d]) PROVE Means(outbox[d][i])'
    <3>1. CASE d = c
      BY <3>1
    <3>2. CASE d # c
      <4>1. outbox'[d] = outbox[d]
        BY <3>2
      <4>2. QED
        BY <2>1, <3>2, <4>1 DEF Means
    <3>3. QED
      BY <3>1, <3>2
  <2>3. QED
    BY <2>2 DEF AnswersMean
<1>13. HostInv'
  BY <1>1, <1>5, <1>8 DEF HostInv
<1>14. QED
  BY <1>9, <1>10, <1>11, <1>12, <1>13 DEF MediaInv

\* A box that keeps of each connection the first requests, and all of those that
\* are not client c's.
Kept(box, c) ==
    /\ box \in Boxes /\ Lone(box)
    /\ \A op, u : NotAsked(op, u) => Absent(box, op, u)
    /\ \A l \in Links : \A i \in 1..Len(box[l]) : i \in 1..Len(inbox[l]) /\ box[l][i] = inbox[l][i]
    /\ \A l \in Links : doing[l] # "read" => box[l] # <<>> /\ Head(box[l]) = Head(inbox[l])
    /\ \A l \in Links : l[1] # c => box[l] = inbox[l]

\* The parts of the invariant that speak of clients, from the client that steps.
LEMMA AllKept == ASSUME MediaInv, NEW c PROVE Kept(inbox, c)
<1>1. inbox \in Boxes /\ Lone(inbox)
  BY DEF MediaInv, MediaTypes
<1>2. \A l \in Links : doing[l] # "read" => inbox[l] # <<>>
  BY Committing
<1>3. QED
  BY <1>1, <1>2 DEF Kept, NotAsked

\* The types after a step of a client.
LEMMA TypesStay ==
    ASSUME MediaInv, NEW c \in Clients, UNCHANGED <<doing, host>>,
           inbox' \in Boxes,
           \A k \in Links : \A i \in 1..Len(inbox'[k]) :
              inbox'[k][i].op = "chunk" => inbox'[k][i].part \in 1..Chunks,
           client' = [client EXCEPT ![c] = client'[c]], client'[c] \in ClientStates,
           client'[c].step = "chunk" => client'[c].part \in 1..Chunks,
           outbox' \in [Clients -> Seq(Answers)],
           told' \in [Uploads -> {"none", "ok", "error", "timeout", "lost"}]
    PROVE  MediaTypes' /\ \A d \in Clients : d # c => client'[d] = client[d] /\ Here(d)' = Here(d)
<1>1. /\ doing' = doing /\ uploads' = uploads /\ pending' = pending /\ stuck' = stuck
      /\ inputs' = inputs /\ verdict' = verdict
  BY DEF host
<1>2. MediaTypes
  BY DEF MediaInv
<1> DEFINE at == client'[c]
<1>3. client' = [client EXCEPT ![c] = at] /\ at \in ClientStates /\ (at.step = "chunk" => at.part \in 1..Chunks)
  OBVIOUS
<1> HIDE DEF at
<1>4. client' \in [Clients -> ClientStates] /\ (\A d \in Clients : d # c => client'[d] = client[d]) /\ client'[c] = at
  BY <1>2, <1>3 DEF MediaTypes
<1>5. \A d \in Clients : client'[d].step = "chunk" => client'[d].part \in 1..Chunks
  BY <1>2, <1>3, <1>4 DEF MediaTypes
<1>6. MediaTypes'
  BY <1>1, <1>2, <1>4, <1>5 DEF MediaTypes
<1>7. QED
  BY <1>4, <1>6 DEF Here

\* The next roundtrip of a call keeps the invariant, if its place is the right one.
LEMMA AskKeeps ==
    ASSUME MediaInv, NEW c \in Clients, NEW box, Kept(box, c), UNCHANGED <<doing, host>>,
           NEW op \in {"chunk", "commit", "abort"}, NEW part \in Nat, NEW link \in 1..MaxLinks,
           Ask(c, op, part, link, box), client[c].step # "idle", link >= client[c].link,
           op = "chunk" => part \in 1..Chunks,
           Absent(box, "begin", Mine(c)),
           op = "commit" => Absent(box, "commit", Mine(c)) /\ Absent(box, "abort", Mine(c)),
           op = "abort" => \A l \in Links : \A i \in 1..Len(box[l]) :
                              box[l][i].op = "commit" /\ box[l][i].up = Mine(c) => l = <<c, link>>,
           op = "commit" => verdict[Mine(c)] = "none" /\ outbox'[c] = <<>>,
           outbox' = [outbox EXCEPT ![c] = outbox'[c]], outbox'[c] \in {<<>>, outbox[c]},
           Pipe(c)', NoCommitYet(c)' => verdict[Mine(c)] = "none",
           \A o \in Ops : o \notin Asked(c)' => o # op /\ NotAsked(o, Mine(c))
    PROVE  MediaInv'
<1> SUFFICES ASSUME NEW u0, u0 = Mine(c) PROVE MediaInv'
  OBVIOUS
<1> DEFINE k == <<c, link>>
           r == [op |-> op, up |-> Mine(c), part |-> part]
<1>1. /\ MediaTypes /\ Known /\ Pipe(c) /\ Phase(c) /\ AnswersMean
      /\ Mine(c) \in Uploads /\ k \in Links
  BY DEF MediaInv, Pipe, Links
<1>2. /\ client' = [client EXCEPT ![c] = [@ EXCEPT !.step = op, !.part = part, !.link = link]]
      /\ inbox' = [box EXCEPT ![k] = Append(@, r)] /\ told' = told
  BY DEF Ask
<1>3. /\ client[c] \in ClientStates /\ client[c].try \in 0..MaxTries /\ client[c].link \in 1..MaxLinks
      /\ outbox[c] \in Seq(Answers)
  BY Between
<1>4. /\ client'[c] = [step |-> op, try |-> client[c].try, part |-> part, link |-> link]
      /\ client'[c] \in ClientStates /\ client' = [client EXCEPT ![c] = client'[c]]
      /\ client'[c].step = op /\ client'[c].part = part /\ client'[c].link = link /\ client'[c].try = client[c].try
  BY <1>1, <1>2, <1>3 DEF MediaTypes, ClientStates, Ops
<1>5. r \in Requests /\ r.op = op /\ r.up = Mine(c) /\ r.part = part
  BY <1>1 DEF Requests, Ops
<1>6. box \in Boxes /\ Lone(box)
  BY DEF Kept
<1> HIDE DEF r
<1>7. /\ inbox' \in Boxes /\ Lone(inbox')
      /\ \A o, u : Absent(inbox', o, u) <=> Absent(box, o, u) /\ ~(o = op /\ u = Mine(c))
      /\ \A l \in Links : l # k => inbox'[l] = box[l]
      /\ \A l \in Links : \A i \in 1..Len(inbox'[l]) :
            \/ i \in 1..Len(box[l]) /\ inbox'[l][i] = box[l][i]
            \/ l = k /\ i = Len(box[k]) + 1 /\ inbox'[l][i] = r
      /\ \A l \in Links : box[l] # <<>> => inbox'[l] # <<>> /\ Head(inbox'[l]) = Head(box[l])
  <2>1. /\ r.op = "begin" => \A o \in Ops : Absent(box, o, r.up)
        /\ r.op = "commit" => Absent(box, "commit", r.up) /\ Absent(box, "abort", r.up)
        /\ r.op = "abort" => \A l \in Links : \A i \in 1..Len(box[l]) :
                                box[l][i].op = "commit" /\ box[l][i].up = r.up => l = k
        /\ Absent(box, "begin", r.up)
    BY <1>5
  <2> DEFINE new == inbox'
  <2>2. new \in Boxes /\ new[k] = Append(box[k], r) /\ \A l \in Links : l # k => new[l] = box[l]
    BY <1>1, <1>2, <1>5, <1>6 DEF Boxes
  <2> HIDE DEF k, new
  <2>3. /\ Lone(new)
        /\ \A o, u : Absent(new, o, u) <=> Absent(box, o, u) /\ ~(o = r.op /\ u = r.up)
        /\ \A l \in Links : l # k => new[l] = box[l]
        /\ \A l \in Links : \A i \in 1..Len(new[l]) :
              \/ i \in 1..Len(box[l]) /\ new[l][i] = box[l][i]
              \/ l = k /\ i = Len(box[k]) + 1 /\ new[l][i] = r
        /\ \A l \in Links : box[l] # <<>> => new[l] # <<>> /\ Head(new[l]) = Head(box[l])
    BY <1>1, <1>5, <1>6, <2>1, <2>2, Pushing
  <2>4. QED
    BY <1>5, <2>2, <2>3 DEF new
<1>8. Lone(inbox)'
  BY <1>7 DEF Lone
<1>9. \A o, u : NotAsked(o, u)' <=> Absent(inbox', o, u)
  BY DEF NotAsked, Absent
<1>10. \A o, u : NotAsked(o, u) => Absent(box, o, u)
  BY DEF Kept
<1>11. \A l \in Links : \A i \in 1..Len(inbox'[l]) :
          \/ \E j \in 1..Len(inbox[l]) : inbox'[l][i] = inbox[l][j]
          \/ l = k /\ inbox'[l][i] = r
  <2>1. \A l \in Links : \A i \in 1..Len(box[l]) : i \in 1..Len(inbox[l]) /\ box[l][i] = inbox[l][i]
    BY DEF Kept
  <2>2. ASSUME NEW l \in Links, NEW i \in 1..Len(inbox'[l])
        PROVE  \/ \E j \in 1..Len(inbox[l]) : inbox'[l][i] = inbox[l][j]
               \/ l = k /\ inbox'[l][i] = r
    <3>1. CASE i \in 1..Len(box[l]) /\ inbox'[l][i] = box[l][i]
      BY <2>1, <3>1
    <3>2. QED
      BY <1>7, <3>1
  <2> HIDE DEF k
  <2>3. QED
    BY <2>2
<1>12. \A l \in Links : \A i \in 1..Len(inbox'[l]) : inbox'[l][i].op = "chunk" => inbox'[l][i].part \in 1..Chunks
  <2>1. \A l \in Links : \A j \in 1..Len(inbox[l]) : inbox[l][j].op = "chunk" => inbox[l][j].part \in 1..Chunks
    BY <1>1 DEF MediaTypes
  <2>2. r.op = "chunk" => r.part \in 1..Chunks
    BY <1>5
  <2> HIDE DEF k
  <2>3. QED
    BY <1>11, <2>1, <2>2
<1>13. outbox' \in [Clients -> Seq(Answers)] /\ \A d \in Clients : d # c => outbox'[d] = outbox[d]
  <2> DEFINE out == outbox'[c]
  <2>1. outbox' = [outbox EXCEPT ![c] = out]
    OBVIOUS
  <2>3. out \in Seq(Answers)
    <3>1. <<>> \in Seq(Answers)
      OBVIOUS
    <3>2. QED
      BY <1>3, <3>1
  <2> HIDE DEF out
  <2>2. QED
    BY <1>1, <2>1, <2>3 DEF MediaTypes
<1>14. MediaTypes' /\ \A d \in Clients : d # c => client'[d] = client[d] /\ Here(d)' = Here(d)
  <2>1. told' \in [Uploads -> {"none", "ok", "error", "timeout", "lost"}]
    BY <1>1, <1>2 DEF MediaTypes
  <2>2. client'[c].step = "chunk" => client'[c].part \in 1..Chunks
    BY <1>4
  <2> HIDE DEF k
  <2>3. QED
    BY <1>4, <1>7, <1>12, <1>13, <2>1, <2>2, TypesStay
<1>15. Known'
  <2> SUFFICES ASSUME NEW l \in Links
               PROVE  /\ l[2] > client'[l[1]].link => inbox'[l] = <<>>
                      /\ \A i \in 1..Len(inbox'[l]) :
                            inbox'[l][i].up[1] = l[1] /\ inbox'[l][i].up[2] <= client'[l[1]].try
    BY DEF Known
  <2>1. l[1] \in Clients /\ l[2] \in 1..MaxLinks
    BY DEF Links
  <2>2. client'[l[1]].try = client[l[1]].try
    BY <1>4, <1>14, <2>1
  <2>3. \A i \in 1..Len(inbox[l]) : inbox[l][i].up[1] = l[1] /\ inbox[l][i].up[2] <= client[l[1]].try
    BY <1>1 DEF Known
  <2>4. ASSUME NEW i \in 1..Len(inbox'[l])
        PROVE  inbox'[l][i].up[1] = l[1] /\ inbox'[l][i].up[2] <= client'[l[1]].try
    <3>1. CASE \E j \in 1..Len(inbox[l]) : inbox'[l][i] = inbox[l][j]
      BY <2>2, <2>3, <3>1
    <3>2. CASE l = k /\ inbox'[l][i] = r
      BY <1>3, <1>5, <2>2, <3>2, MineIsMine
    <3>3. QED
      BY <1>11, <3>1, <3>2
  <2>5. ASSUME l[2] > client'[l[1]].link PROVE inbox'[l] = <<>>
    <3>1. l # k
      BY <1>4, <2>1, <2>5
    <3>2. l[2] > client[l[1]].link
      BY <1>3, <1>4, <1>14, <2>1, <2>5
    <3>3. inbox[l] = <<>> /\ box[l] \in Seq(Requests)
      BY <1>1, <1>6, <3>2 DEF Known, Boxes
    <3>4. \A i \in 1..Len(box[l]) : FALSE
      BY <3>3 DEF Kept
    <3>5. box[l] = <<>>
      BY <3>3, <3>4
    <3>6. QED
      BY <1>7, <3>1, <3>5
  <2>6. QED
    BY <2>4, <2>5
<1>16. \A l \in Links : doing[l] # "read" => inbox'[l] # <<>> /\ Head(inbox'[l]) = Head(inbox[l])
  BY <1>7 DEF Kept
<1>17. \A o, u : u # Mine(c) /\ NotAsked(o, u) => NotAsked(o, u)'
  BY <1>7, <1>9, <1>10
<1>18. NotAsked("begin", u0)'
  <2>1. op # "begin"
    OBVIOUS
  <2>2. Absent(inbox', "begin", u0)
    BY <1>7, <2>1
  <2>3. QED
    BY <1>9, <2>2
<1>19. NotAsked("commit", u0)' \/ verdict[Mine(c)] = "none"
  <2>1. CASE op = "commit"
    BY <2>1
  <2>2. CASE verdict[Mine(c)] # "none" /\ op # "commit"
    <3>1. NotAsked("commit", Mine(c))
      BY <1>1, <2>2 DEF MediaInv, HostInv, Decided
    <3>2. QED
      BY <1>7, <1>9, <1>10, <2>2, <3>1
  <2>3. QED
    BY <2>1, <2>2
<1>20. Mine(c)' = Mine(c)
  BY <1>4 DEF Mine
<1>21. Phase(c)'
  <2>1. verdict' = verdict
    BY DEF host
  <2>2. \A o \in Ops : o \notin Asked(c)' => NotAsked(o, u0)'
    BY <1>7, <1>9, <1>10
  <2>3. QED
    BY <1>1, <1>20, <2>1, <2>2 DEF Phase
<1>22. \A i \in 1..Len(outbox'[c]) : Means(outbox[c][i])'
  <2>1. CASE outbox'[c] = <<>>
    BY <2>1
  <2>2. CASE outbox'[c] = outbox[c]
    <3>1. ASSUME NEW i \in 1..Len(outbox[c]), NEW m, m = outbox[c][i] PROVE Means(m)'
      <4>1. Means(m) /\ m \in Answers /\ m.up = Mine(c)
        BY <1>1, <3>1, AnswersMine DEF AnswersMean
      <4>2. \A u : Gone(u)' <=> Gone(u)
        BY <1>16, HostAside
      <4>3. m.op = "commit" => NotAsked("commit", m.up)'
        <5>1. op # "commit"
          BY <3>1, <2>2
        <5>2. QED
          BY <1>7, <1>9, <1>10, <4>1, <5>1 DEF Means
      <4>4. verdict' = verdict
        BY DEF host
      <4>5. QED
        BY <1>18, <4>1, <4>2, <4>3, <4>4 DEF Means
    <3>2. ASSUME NEW i \in 1..Len(outbox[c]) PROVE Means(outbox[c][i])'
      BY <2>2, <3>1, <3>2 DEF Means
    <3>3. QED
      BY <2>2, <3>2
  <2>3. QED
    BY <2>1, <2>2
<1>23. \A d \in Clients : d # c => inbox'[Here(d)] = inbox[Here(d)]
  <2>1. ASSUME NEW d \in Clients, d # c PROVE inbox'[Here(d)] = inbox[Here(d)]
    <3>1. Here(d) \in Links /\ Here(d) # k /\ Here(d)[1] # c
      BY <2>1, Between DEF Here
    <3>2. QED
      BY <1>7, <3>1 DEF Kept
  <2>2. QED
    BY <2>1
<1>24. Mine(c)[1] = c /\ Mine(c)[2] <= client'[c].try /\ client[c].try <= client'[c].try
  BY <1>3, <1>4, MineIsMine
<1>25. QED
  <2> HIDE DEF k
  <2>1. QED
    BY <1>1, <1>2, <1>8, <1>13, <1>14, <1>15, <1>16, <1>17, <1>18, <1>19, <1>21, <1>22, <1>23, <1>24, ClientStep

\* A client whose call is over, with nothing between it and the host.
LEMMA TellKeeps ==
    ASSUME MediaInv, NEW c \in Clients, Kept(inbox', c), UNCHANGED <<doing, host>>,
           NEW link \in 1..MaxLinks, link >= client[c].link,
           client' = [client EXCEPT ![c] = [@ EXCEPT !.step = "idle", !.part = 0, !.link = link]],
           outbox' = [outbox EXCEPT ![c] = <<>>], inbox'[<<c, link>>] = <<>>,
           told' \in [Uploads -> {"none", "ok", "error", "timeout", "lost"}],
           \A u \in Uploads : u # Mine(c) => told'[u] = told[u],
           \/ told'[Mine(c)] \in {told[Mine(c)], "lost"}
           \/ /\ NotAsked("begin", Mine(c)) /\ Gone(Mine(c))
              /\ told'[Mine(c)] = "ok" => verdict[Mine(c)] = "ok"
              /\ told'[Mine(c)] = "error" => verdict[Mine(c)] # "ok"
    PROVE  MediaInv'
<1> SUFFICES ASSUME NEW u0, u0 = Mine(c) PROVE MediaInv'
  OBVIOUS
<1>1. MediaTypes /\ Known
  BY DEF MediaInv
<1>2. /\ client[c] \in ClientStates /\ client[c].try \in 0..MaxTries /\ client[c].link \in 1..MaxLinks
      /\ outbox[c] \in Seq(Answers)
  BY Between
<1>3. /\ client'[c] = [step |-> "idle", try |-> client[c].try, part |-> 0, link |-> link]
      /\ client'[c] \in ClientStates /\ client' = [client EXCEPT ![c] = client'[c]]
      /\ client'[c].step = "idle" /\ client'[c].part = 0 /\ client'[c].link = link
      /\ client'[c].try = client[c].try
  BY <1>1, <1>2 DEF MediaTypes, ClientStates
<1>4. /\ inbox' \in Boxes /\ Lone(inbox')
      /\ \A o, u : NotAsked(o, u) => Absent(inbox', o, u)
      /\ \A l \in Links : \A i \in 1..Len(inbox'[l]) : i \in 1..Len(inbox[l]) /\ inbox'[l][i] = inbox[l][i]
      /\ \A l \in Links : doing[l] # "read" => inbox'[l] # <<>> /\ Head(inbox'[l]) = Head(inbox[l])
      /\ \A l \in Links : l[1] # c => inbox'[l] = inbox[l]
  BY DEF Kept
<1>5. Lone(inbox)'
  BY <1>4 DEF Lone
<1>6. \A o, u : NotAsked(o, u)' <=> Absent(inbox', o, u)
  BY DEF NotAsked, Absent
<1>7. \A o, u : NotAsked(o, u) => NotAsked(o, u)'
  BY <1>4, <1>6
<1>8. outbox' \in [Clients -> Seq(Answers)] /\ outbox'[c] = <<>> /\ \A d \in Clients : d # c => outbox'[d] = outbox[d]
  BY <1>1 DEF MediaTypes
<1>9. MediaTypes' /\ \A d \in Clients : d # c => client'[d] = client[d] /\ Here(d)' = Here(d)
  <2>1. \A k \in Links : \A i \in 1..Len(inbox'[k]) :
           inbox'[k][i].op = "chunk" => inbox'[k][i].part \in 1..Chunks
    BY <1>1, <1>4 DEF MediaTypes
  <2>2. QED
    BY <1>3, <1>4, <1>8, <2>1, TypesStay
<1>10. Known'
  <2> SUFFICES ASSUME NEW l \in Links
               PROVE  /\ l[2] > client'[l[1]].link => inbox'[l] = <<>>
                      /\ \A i \in 1..Len(inbox'[l]) :
                            inbox'[l][i].up[1] = l[1] /\ inbox'[l][i].up[2] <= client'[l[1]].try
    BY DEF Known
  <2>1. l[1] \in Clients /\ l[2] \in 1..MaxLinks
    BY DEF Links
  <2>2. client'[l[1]].try = client[l[1]].try
    BY <1>3, <1>9, <2>1
  <2>3. \A i \in 1..Len(inbox[l]) : inbox[l][i].up[1] = l[1] /\ inbox[l][i].up[2] <= client[l[1]].try
    BY <1>1 DEF Known
  <2>4. ASSUME l[2] > client'[l[1]].link PROVE inbox'[l] = <<>>
    <3>1. l[2] > client[l[1]].link
      BY <1>2, <1>3, <1>9, <2>1, <2>4
    <3>2. inbox[l] = <<>> /\ inbox'[l] \in Seq(Requests)
      BY <1>1, <1>4, <3>1 DEF Known, Boxes
    <3>3. \A i \in 1..Len(inbox'[l]) : i \in 1..Len(inbox[l])
      BY <1>4
    <3>4. Len(inbox[l]) = 0 /\ Len(inbox'[l]) \in Nat
      BY <3>2
    <3> DEFINE n == Len(inbox'[l])
    <3>5. ~(Len(inbox'[l]) > 0)
      <4>1. n \in Nat /\ \A i \in 1..n : i \in 1..0
        BY <3>3, <3>4
      <4> HIDE DEF n
      <4>2. ~(n > 0)
        BY <4>1
      <4>3. QED
        BY <4>2 DEF n
    <3>6. QED
      BY <3>2, <3>4, <3>5
  <2>5. QED
    BY <1>4, <2>2, <2>3, <2>4
<1>11. Pipe(c)'
  <2>1. Here(c)' = <<c, link>>
    BY <1>3 DEF Here
  <2>2. Len(outbox'[c]) = 0 /\ Len(inbox'[<<c, link>>]) = 0
    BY <1>8
  <2>3. Size(c)' = Len(outbox'[c]) + Len(inbox'[<<c, link>>])
    BY <2>1 DEF Size
  <2>4. QED
    BY <1>3, <2>2, <2>3 DEF Pipe
<1>12. Phase(c)'
  BY <1>3 DEF Phase
<1>13. \A d \in Clients : d # c => inbox'[Here(d)] = inbox[Here(d)]
  <2>1. ASSUME NEW d \in Clients, d # c PROVE inbox'[Here(d)] = inbox[Here(d)]
    <3>1. Here(d) \in Links /\ Here(d)[1] # c
      BY <2>1, Between DEF Here
    <3>2. QED
      BY <1>4, <3>1
  <2>2. QED
    BY <2>1
<1>14. u0[1] = c /\ u0[2] <= client'[c].try /\ client[c].try <= client'[c].try
  BY <1>2, <1>3, MineIsMine
<1>15. NotAsked("commit", u0)' \/ verdict[u0] = "none"
  <2>1. CASE u0 \in Uploads
    BY <1>7, <2>1 DEF MediaInv, HostInv, Decided
  <2>2. CASE u0 \notin Uploads
    <3>1. ASSUME NEW k \in Links, NEW i \in 1..Len(inbox'[k]) PROVE inbox'[k][i].up # u0
      <4>1. inbox'[k][i] \in Requests
        BY <1>4 DEF Boxes
      <4>2. QED
        BY <2>2, <4>1 DEF Requests
    <3>2. QED
      BY <3>1 DEF NotAsked, Absent
  <2>3. QED
    BY <2>1, <2>2
<1>16. \/ NotAsked("begin", u0)'
       \/ told'[u0] \in {told[u0], "lost"} /\ (u0[2] > client[c].try \/ ~NotAsked("begin", u0))
  BY <1>7
<1>17. \/ told'[u0] \in {told[u0], "lost"}
       \/ /\ NotAsked("begin", u0)' /\ Gone(u0)
          /\ told'[u0] = "ok" => verdict[u0] = "ok"
          /\ told'[u0] = "error" => verdict[u0] # "ok"
  BY <1>7
<1>18. \A i \in 1..Len(outbox'[c]) : Means(outbox[c][i])'
  BY <1>8
<1>19. QED
  BY <1>4, <1>5, <1>7, <1>8, <1>9, <1>10, <1>11, <1>12, <1>13, <1>14, <1>15, <1>16, <1>17, <1>18, ClientStep

\* A new call of upload_file begins.
LEMMA BeginKeeps == ASSUME MediaInv, NEW c \in Clients, Begin(c) PROVE MediaInv'
<1> DEFINE u0 == <<c, client[c].try + 1>>
           k == Here(c)
           r == [op |-> "begin", up |-> u0, part |-> 0]
<1>1. /\ MediaTypes /\ Known /\ Pipe(c) /\ Fresh /\ Lone(inbox) /\ inbox \in Boxes
  BY DEF MediaInv, MediaTypes
<1>2. /\ client[c].step = "idle" /\ client[c].try < MaxTries
      /\ client' = [client EXCEPT ![c].step = "begin", ![c].try = @ + 1]
      /\ inbox' = [inbox EXCEPT ![k] = Append(@, r)] /\ told' = told /\ outbox' = outbox
      /\ UNCHANGED <<doing, host>>
  BY DEF Begin, Here
<1>3. /\ client[c] \in ClientStates /\ client[c].try \in 0..MaxTries /\ client[c].link \in 1..MaxLinks
      /\ outbox[c] \in Seq(Answers) /\ k \in Links /\ inbox[k] \in Seq(Requests)
      /\ Len(outbox[c]) \in Nat /\ Len(inbox[k]) \in Nat /\ MaxTries \in Nat
  BY Between, ConstantsAssumption
<1>4. /\ client'[c].step = "begin" /\ client'[c].part = client[c].part /\ client'[c].link = client[c].link
      /\ client'[c].try = client[c].try + 1 /\ client[c].part = 0
  <2>1. client[c].part = 0 /\ client[c].step = "idle"
    BY <1>1, <1>2 DEF Pipe
  <2>2. QED
    BY <1>1, <1>2, <1>3, <2>1 DEF MediaTypes, ClientStates
<1>5. u0 \in Uploads /\ client[c].try + 1 \in 1..MaxTries
  BY <1>2, <1>3 DEF Uploads
<1>6. client'[c] \in ClientStates /\ client' = [client EXCEPT ![c] = client'[c]]
  <2>1. client[c].try + 1 \in 0..MaxTries
    BY <1>5
  <2>2. client \in [Clients -> ClientStates]
    BY <1>1 DEF MediaTypes
  <2>3. client' \in [Clients -> ClientStates]
    BY <1>2, <2>1, <2>2 DEF ClientStates, Ops
  <2>4. \A d \in Clients : d # c => client'[d] = client[d]
    BY <1>2, <2>2
  <2>5. QED
    BY <2>2, <2>3, <2>4
<1>7. r \in Requests /\ r.op = "begin" /\ r.up = u0 /\ r.part = 0
  BY <1>5 DEF Requests, Ops
<1>8. Gone(u0) /\ verdict[u0] = "none" /\ told[u0] = "none" /\ u0[1] = c /\ u0[2] = client[c].try + 1
  <2>1. u0[1] = c /\ u0[2] = client[c].try + 1 /\ u0[2] > client[u0[1]].try
    BY <1>3
  <2>2. QED
    BY <1>1, <1>5, <2>1 DEF Fresh
<1>9. \A o : Absent(inbox, o, u0)
  <2>1. ASSUME NEW l \in Links, NEW i \in 1..Len(inbox[l]), inbox[l][i].up = u0 PROVE FALSE
    <3>1. l[1] = c /\ u0[2] <= client[c].try
      BY <1>1, <1>8, <2>1 DEF Known
    <3>2. QED
      BY <1>3, <1>8, <3>1
  <2>2. QED
    BY <2>1 DEF Absent
<1>10. Len(outbox[c]) = 0 /\ Len(inbox[k]) = 0
  <2>1. \A m, n \in Nat : m + n = 0 => m = 0 /\ n = 0
    OBVIOUS
  <2>2. Len(outbox[c]) + Len(inbox[k]) = 0
    BY <1>1, <1>2 DEF Pipe, Size
  <2>3. QED
    BY <1>3, <2>1, <2>2
<1>11. inbox' \in Boxes /\ inbox'[k] = Append(inbox[k], r) /\ (\A l \in Links : l # k => inbox'[l] = inbox[l])
  BY <1>1, <1>2, <1>3, <1>7 DEF Boxes
<1>12. outbox[c] = <<>> /\ inbox[k] = <<>> /\ inbox'[k] = <<r>>
  <2>1. outbox[c] = <<>> /\ inbox[k] = <<>>
    BY <1>3, <1>10
  <2>2. inbox'[k] = Append(<<>>, r)
    BY <1>11, <2>1
  <2>3. QED
    BY <2>1, <2>2
<1>13. /\ Lone(inbox')
       /\ \A o, u : Absent(inbox', o, u) <=> Absent(inbox, o, u) /\ ~(o = "begin" /\ u = u0)
       /\ \A l \in Links : \A i \in 1..Len(inbox'[l]) :
             \/ i \in 1..Len(inbox[l]) /\ inbox'[l][i] = inbox[l][i]
             \/ l = k /\ inbox'[l][i] = r
       /\ \A l \in Links : inbox[l] # <<>> => inbox'[l] # <<>> /\ Head(inbox'[l]) = Head(inbox[l])
  <2> DEFINE new == inbox'
  <2>1. new \in Boxes /\ new[k] = Append(inbox[k], r) /\ \A l \in Links : l # k => new[l] = inbox[l]
    BY <1>11
  <2>4. \A o : Absent(inbox, o, r.up)
    BY <1>7, <1>9
  <2> HIDE DEF k, new, r, u0
  <2>2. /\ Lone(new)
        /\ \A o, u : Absent(new, o, u) <=> Absent(inbox, o, u) /\ ~(o = r.op /\ u = r.up)
        /\ \A l \in Links : \A i \in 1..Len(new[l]) :
              \/ i \in 1..Len(inbox[l]) /\ new[l][i] = inbox[l][i]
              \/ l = k /\ i = Len(inbox[k]) + 1 /\ new[l][i] = r
        /\ \A l \in Links : inbox[l] # <<>> => new[l] # <<>> /\ Head(new[l]) = Head(inbox[l])
    <3>1. r \in Requests /\ r.op = "begin" /\ Lone(inbox) /\ inbox \in Boxes /\ k \in Links
      BY <1>1, <1>3, <1>7
    <3>2. Absent(inbox, "begin", r.up) /\ \A op \in Ops : Absent(inbox, op, r.up)
      BY <2>4
    <3>3. r.op # "commit" /\ r.op # "abort"
      BY <3>1
    <3>4. QED
      BY <2>1, <3>1, <3>2, <3>3, Pushing
  <2>3. QED
    BY <1>7, <2>2 DEF new
<1> SUFFICES ASSUME NEW w0, w0 = u0 PROVE MediaInv'
  OBVIOUS
<1>14. Lone(inbox)'
  BY <1>13 DEF Lone
<1>15. \A o, u : NotAsked(o, u)' <=> NotAsked(o, u) /\ ~(o = "begin" /\ u = w0)
  <2> HIDE DEF k, r, u0
  <2>1. \A o, u : NotAsked(o, u)' <=> Absent(inbox', o, u)
    BY DEF NotAsked, Absent
  <2>2. \A o, u : NotAsked(o, u)' <=> Absent(inbox, o, u) /\ ~(o = "begin" /\ u = w0)
    BY <1>13, <2>1
  <2>3. QED
    BY <2>2 DEF NotAsked
<1>16. MediaTypes' /\ \A d \in Clients : d # c => client'[d] = client[d] /\ Here(d)' = Here(d)
  <2>1. \A l \in Links : \A i \in 1..Len(inbox'[l]) :
           inbox'[l][i].op = "chunk" => inbox'[l][i].part \in 1..Chunks
    <3>1. \A l \in Links : \A j \in 1..Len(inbox[l]) : inbox[l][j].op = "chunk" => inbox[l][j].part \in 1..Chunks
      BY <1>1 DEF MediaTypes
    <3> HIDE DEF k, r
    <3>2. QED
      BY <1>7, <1>13, <3>1
  <2>2. outbox' \in [Clients -> Seq(Answers)] /\ told' \in [Uploads -> {"none", "ok", "error", "timeout", "lost"}]
    BY <1>1, <1>2 DEF MediaTypes
  <2>3. client'[c].step # "chunk"
    BY <1>4
  <2>4. QED
    BY <1>2, <1>6, <1>11, <2>1, <2>2, <2>3, TypesStay
<1>17. Known'
  <2> SUFFICES ASSUME NEW l \in Links
               PROVE  /\ l[2] > client'[l[1]].link => inbox'[l] = <<>>
                      /\ \A i \in 1..Len(inbox'[l]) :
                            inbox'[l][i].up[1] = l[1] /\ inbox'[l][i].up[2] <= client'[l[1]].try
    BY DEF Known
  <2>1. l[1] \in Clients /\ l[2] \in 1..MaxLinks /\ k = <<c, client[c].link>>
    BY DEF Links, Here
  <2>2. client'[l[1]].link = client[l[1]].link /\ client[l[1]].try \in Nat
        /\ (l[1] = c => client'[l[1]].try = client[l[1]].try + 1)
        /\ (l[1] # c => client'[l[1]].try = client[l[1]].try)
    <3>1. client[l[1]] \in ClientStates
      BY <1>1, <2>1 DEF MediaTypes
    <3>2. client[l[1]].try \in Nat
      BY <3>1 DEF ClientStates
    <3>3. CASE l[1] = c
      BY <1>4, <3>2, <3>3
    <3>4. CASE l[1] # c
      BY <1>16, <2>1, <3>2, <3>4
    <3>5. QED
      BY <3>3, <3>4
  <2>3. \A i \in 1..Len(inbox[l]) : inbox[l][i].up[1] = l[1] /\ inbox[l][i].up[2] <= client[l[1]].try /\ inbox[l][i].up[2] \in Nat
    <3>1. ASSUME NEW i \in 1..Len(inbox[l]) PROVE inbox[l][i].up[2] \in Nat
      <4>1. inbox[l][i] \in Requests
        BY <1>1 DEF Boxes
      <4>2. QED
        BY <4>1 DEF Requests, Uploads
    <3>2. QED
      BY <1>1, <3>1 DEF Known
  <2>4. ASSUME NEW i \in 1..Len(inbox'[l])
        PROVE  inbox'[l][i].up[1] = l[1] /\ inbox'[l][i].up[2] <= client'[l[1]].try
    <3>1. CASE i \in 1..Len(inbox[l]) /\ inbox'[l][i] = inbox[l][i]
      BY SMTT(30), <2>2, <2>3, <3>1
    <3>2. CASE l = k /\ inbox'[l][i] = r
      <4>1. inbox'[l][i].up = u0 /\ l[1] = c
        BY <1>7, <2>1, <3>2
      <4>2. QED
        BY <1>8, <2>2, <4>1
    <3>3. QED
      BY <1>13, <3>1, <3>2
  <2>5. ASSUME l[2] > client'[l[1]].link PROVE inbox'[l] = <<>>
    <3>1. l # k
      BY <1>3, <2>1, <2>2, <2>5
    <3>2. QED
      BY <1>1, <1>11, <2>2, <2>5, <3>1 DEF Known
  <2>6. QED
    BY <2>4, <2>5
<1>18. \A l \in Links : doing[l] # "read" => inbox'[l] # <<>> /\ Head(inbox'[l]) = Head(inbox[l])
  BY <1>13, Committing
<1>19. Mine(c)' = w0 /\ Here(c)' = k
  BY <1>4 DEF Mine, Here
<1>20. Size(c)' = 1 /\ Flow(c, 1)' = r
  <2>1. Len(outbox'[c]) = 0 /\ Len(inbox'[k]) = 1 /\ inbox'[k][1] = r
    BY <1>2, <1>12
  <2>2. Size(c)' = 0 + 1
    BY <1>19, <2>1 DEF Size
  <2>3. ~(1 <= Len(outbox'[c])) /\ 1 - Len(outbox'[c]) = 1
    BY <2>1
  <2>4. Flow(c, 1)' = inbox'[k][1 - Len(outbox'[c])]
    BY <1>19, <2>3 DEF Flow
  <2>5. QED
    BY <2>1, <2>2, <2>3, <2>4
<1>21. Pipe(c)'
  <2>1. Awaited(c)' = r
    BY <1>4, <1>19 DEF Awaited
  <2>2. \A i \in 1..1 : i = 1
    OBVIOUS
  <2>3. r.up = w0 /\ w0 \in Uploads
    BY <1>5, <1>7
  <2> HIDE DEF r
  <2>4. QED
    BY <1>4, <1>19, <1>20, <2>1, <2>2, <2>3 DEF Pipe
<1>22. Phase(c)'
  <2>1. verdict' = verdict
    BY <1>2 DEF host
  <2>2. Asked(c)' = {"begin"}
    BY <1>4 DEF Asked
  <2>3. \A o \in Ops : o \notin Asked(c)' => NotAsked(o, w0)'
    BY <1>9, <1>15, <2>2 DEF NotAsked
  <2>4. QED
    BY <1>8, <1>19, <2>1, <2>3 DEF Phase
<1>23. \A i \in 1..Len(outbox'[c]) : Means(outbox[c][i])'
  BY <1>2, <1>10
<1>24. \A d \in Clients : d # c => inbox'[Here(d)] = inbox[Here(d)]
  <2>1. ASSUME NEW d \in Clients, d # c PROVE Here(d) \in Links /\ Here(d) # k
    BY <2>1, Between DEF Here
  <2>2. QED
    BY <1>11, <2>1
<1>25. /\ w0[1] = c /\ w0[2] <= client'[c].try /\ client[c].try <= client'[c].try
       /\ w0[2] > client[c].try
  BY <1>3, <1>4, <1>8
<1>26. \A o, u : u # w0 /\ NotAsked(o, u) => NotAsked(o, u)'
  BY <1>15
<1>27. verdict[w0] = "none" /\ told'[w0] = told[w0] /\ \A d \in Clients : outbox'[d] = outbox[d]
  BY <1>2, <1>8
<1>28. QED
  <2> HIDE DEF k, r, u0
  <2>1. QED
    BY <1>2, <1>14, <1>16, <1>17, <1>18, <1>21, <1>22, <1>23, <1>24, <1>25, <1>26, <1>27, ClientStep

\* What a client's call and connection are once it has asked.
LEMMA HasAsked ==
    ASSUME MediaInv, NEW c \in Clients, NEW box, NEW op, NEW part, NEW link, Ask(c, op, part, link, box)
    PROVE  /\ client'[c].step = op /\ client'[c].part = part /\ client'[c].link = link
           /\ client'[c].try = client[c].try /\ Mine(c)' = Mine(c) /\ Here(c)' = <<c, link>>
           /\ Awaited(c)' = [op |-> op, up |-> Mine(c), part |-> part]
<1>1. client \in [Clients -> ClientStates]
  BY DEF MediaInv, MediaTypes
<1>2. client' = [client EXCEPT ![c] = [@ EXCEPT !.step = op, !.part = part, !.link = link]]
  BY DEF Ask
<1>3. client'[c].step = op /\ client'[c].part = part /\ client'[c].link = link /\ client'[c].try = client[c].try
  BY <1>1, <1>2 DEF ClientStates
<1>4. Mine(c)' = Mine(c) /\ Here(c)' = <<c, link>>
  BY <1>3 DEF Mine, Here
<1>5. Awaited(c)' = [op |-> op, up |-> Mine(c), part |-> part]
  BY <1>3, <1>4 DEF Awaited
<1>6. QED
  BY <1>3, <1>4, <1>5

\* The only thing between a client and the host is what it has just asked.
LEMMA OnlyAsked ==
    ASSUME MediaInv, NEW c \in Clients, NEW box, NEW op \in Ops, NEW part \in Nat, NEW link \in 1..MaxLinks,
           Ask(c, op, part, link, box), box \in Boxes, box[<<c, link>>] = <<>>, outbox'[c] = <<>>,
           Mine(c) \in Uploads
    PROVE  Pipe(c)'
<1> DEFINE r == [op |-> op, up |-> Mine(c), part |-> part]
           k == <<c, link>>
<1>1. /\ client'[c].step = op /\ client'[c].part = part /\ client'[c].link = link
      /\ Mine(c)' = Mine(c) /\ Here(c)' = k /\ Awaited(c)' = r
  BY HasAsked
<1>2. k \in Links /\ r.up = Mine(c)
  BY DEF Links
<1>3. inbox'[k] = Append(<<>>, r)
  BY <1>1, <1>2 DEF Boxes, Ask
<1> HIDE DEF r, k
<1>4. Len(inbox'[k]) = 1 /\ inbox'[k][1] = r /\ Len(outbox'[c]) = 0
  BY <1>3
<1>5. Size(c)' = 0 + 1
  BY <1>1, <1>4 DEF Size
<1>6. ~(1 <= Len(outbox'[c])) /\ 1 - Len(outbox'[c]) = 1
  BY <1>4
<1>7. Flow(c, 1)' = inbox'[k][1 - Len(outbox'[c])]
  BY <1>1, <1>6 DEF Flow
<1>8. Flow(c, 1)' = r /\ Size(c)' = 1
  BY <1>4, <1>5, <1>6, <1>7
<1>9. \A i \in 1..1 : i = 1
  OBVIOUS
<1>10. op # "idle"
  BY DEF Ops
<1>11. QED
  BY <1>1, <1>2, <1>8, <1>9, <1>10 DEF Pipe

\* With one thing between it and the host, a client waits for that.
LEMMA WaitsForOne ==
    ASSUME MediaInv, NEW c \in Clients, client[c].step # "idle", Size(c) = 1
    PROVE  \/ /\ Len(outbox[c]) = 1 /\ Len(inbox[Here(c)]) = 0 /\ Flow(c, 1) = Request(outbox[c][1])
              /\ Request(outbox[c][1]) = Awaited(c)
           \/ /\ Len(outbox[c]) = 0 /\ Len(inbox[Here(c)]) = 1 /\ Flow(c, 1) = inbox[Here(c)][1]
              /\ inbox[Here(c)][1] = Awaited(c)
<1>1. Pipe(c) /\ Len(outbox[c]) \in Nat /\ Len(inbox[Here(c)]) \in Nat
  BY Between DEF MediaInv
<1>2. Flow(c, 1) = Awaited(c)
  BY <1>1 DEF Pipe
<1>3. Len(outbox[c]) + Len(inbox[Here(c)]) = 1
  BY DEF Size
<1>4. \/ Len(outbox[c]) = 1 /\ Len(inbox[Here(c)]) = 0
      \/ Len(outbox[c]) = 0 /\ Len(inbox[Here(c)]) = 1
  <2>1. \A m, n \in Nat : m + n = 1 => (m = 1 /\ n = 0) \/ (m = 0 /\ n = 1)
    OBVIOUS
  <2>2. QED
    BY <1>1, <1>3, <2>1
<1>5. CASE Len(outbox[c]) = 1 /\ Len(inbox[Here(c)]) = 0
  BY <1>2, <1>5 DEF Flow
<1>6. CASE Len(outbox[c]) = 0 /\ Len(inbox[Here(c)]) = 1
  <2>1. ~(1 <= Len(outbox[c])) /\ 1 - Len(outbox[c]) = 1
    BY <1>6
  <2>2. Flow(c, 1) = inbox[Here(c)][1 - Len(outbox[c])]
    BY <2>1 DEF Flow
  <2>3. QED
    BY <1>2, <1>6, <2>1, <2>2
<1>7. QED
  BY <1>4, <1>5, <1>6

\* The answer a client awaits is all there is between it and the host.
LEMMA AwaitedAlone ==
    ASSUME MediaInv, NEW c \in Clients, outbox[c] # <<>>, Request(Head(outbox[c])) = Awaited(c)
    PROVE  /\ Head(outbox[c]) \in Answers /\ Head(outbox[c]).up = Mine(c) /\ Mine(c) \in Uploads
           /\ Head(outbox[c]).op = client[c].step /\ Head(outbox[c]).part = client[c].part
           /\ Means(Head(outbox[c])) /\ client[c].step \in Ops
           /\ Tail(outbox[c]) = <<>> /\ inbox[Here(c)] = <<>>
<1> DEFINE q == outbox[c]
           m == Head(q)
<1>1. q \in Seq(Answers) /\ q # <<>> /\ client[c].step \in Ops \cup {"idle"}
      /\ Len(inbox[Here(c)]) \in Nat /\ Size(c) = Len(q) + Len(inbox[Here(c)]) /\ inbox[Here(c)] \in Seq(Requests)
  BY Between DEF Size
<1>2. m = q[1] /\ 1 \in 1..Len(q) /\ Len(q) \in Nat /\ Len(q) > 0 /\ Len(Tail(q)) = Len(q) - 1 /\ Tail(q) \in Seq(Answers)
  <2>1. m = q[1] /\ Len(q) \in Nat /\ Len(q) > 0 /\ Len(Tail(q)) = Len(q) - 1 /\ Tail(q) \in Seq(Answers)
    BY <1>1, HeadTailProperties
  <2> HIDE DEF m, q
  <2>2. QED
    BY <2>1
<1>3. m \in Answers /\ m.up = Mine(c) /\ client[c].step # "idle" /\ Mine(c) \in Uploads /\ Flow(c, 1) = Request(m)
  BY <1>2, AnswersMine
<1>4. m.op = client[c].step /\ m.part = client[c].part
  BY <1>3 DEF Request, Awaited
<1>5. Means(m)
  BY <1>2 DEF MediaInv, AnswersMean, Means
<1>6. Size(c) = 1
  BY <1>3 DEF MediaInv, Pipe
<1>7. Tail(q) = <<>> /\ inbox[Here(c)] = <<>>
  <2> DEFINE n == Len(inbox[Here(c)])
             a == Len(q)
  <2>1. a \in Nat /\ n \in Nat /\ a > 0 /\ a + n = 1
    BY <1>1, <1>2, <1>6
  <2> HIDE DEF a, n
  <2>2. a = 1 /\ n = 0
    BY <2>1
  <2>3. Len(Tail(q)) = 0 /\ Len(inbox[Here(c)]) = 0
    BY <1>2, <2>2 DEF a, n
  <2>4. \A t \in Seq(Answers) : Len(t) = 0 => t = <<>>
    OBVIOUS
  <2>5. \A t \in Seq(Requests) : Len(t) = 0 => t = <<>>
    OBVIOUS
  <2>6. QED
    BY <1>1, <1>2, <2>3, <2>4, <2>5
<1>8. QED
  BY <1>1, <1>3, <1>4, <1>5, <1>7

\* The client after its deadline waits for the answer to the abort.
LEMMA DeadlineKeeps == ASSUME MediaInv, NEW c \in Clients, Deadline(c) PROVE MediaInv'
<1> DEFINE r == [op |-> "abort", up |-> Mine(c), part |-> 1]
           k == Here(c)
           O == outbox[c]
           I == inbox[k]
<1>1. /\ InTransfer(c) /\ Ask(c, "abort", 1, client[c].link, inbox)
      /\ UNCHANGED <<doing, host>> /\ outbox' = outbox
  BY DEF Deadline
<1>2. /\ client[c].step \in {"chunk", "commit", "abort"} /\ (client[c].step = "abort" => client[c].part = 0)
      /\ client[c].step # "idle"
  BY <1>1 DEF InTransfer
<1>3. /\ Pipe(c) /\ Phase(c) /\ AnswersMean /\ Kept(inbox, c) /\ inbox \in Boxes /\ Lone(inbox)
  BY AllKept DEF MediaInv, MediaTypes
<1>4. Size(c) = 1 /\ Flow(c, 1) = Awaited(c) /\ Mine(c) \in Uploads /\ Flow(c, 1).up = Mine(c)
  <2>1. Size(c) = 1
    BY <1>2, <1>3 DEF Pipe
  <2>2. 1 \in 1..Size(c)
    BY <2>1
  <2>3. QED
    BY <1>2, <1>3, <2>1, <2>2 DEF Pipe
<1>5. /\ k \in Links /\ k = <<c, client[c].link>> /\ I \in Seq(Requests) /\ O \in Seq(Answers)
      /\ client[c].link \in 1..MaxLinks /\ client[c].link >= client[c].link /\ 1 \in Nat
  BY Between DEF Here
<1>6. NotAsked("begin", Mine(c))
  BY <1>2, <1>3 DEF Phase, Asked, Ops
<1>7. ASSUME NEW l \in Links, NEW i \in 1..Len(inbox[l]), inbox[l][i].op = "commit", inbox[l][i].up = Mine(c)
      PROVE  l = <<c, client[c].link>>
  <2>1. ~NotAsked("commit", Mine(c))
    BY <1>7 DEF NotAsked, Absent
  <2>2. client[c].step = "commit"
    BY <1>2, <1>3, <2>1 DEF Phase, Asked, Ops
  <2>3. CASE Len(O) = 1 /\ Request(O[1]) = Awaited(c)
    <3>1. O[1].op = "commit" /\ O[1].up = Mine(c) /\ 1 \in 1..Len(O)
      BY <2>2, <2>3 DEF Request, Awaited
    <3>2. Means(O[1])
      BY <1>3, <3>1 DEF AnswersMean
    <3>3. QED
      BY <2>1, <3>1, <3>2 DEF Means
  <2>4. CASE Len(I) = 1 /\ I[1] = Awaited(c)
    <3>1. I[1].op = "commit" /\ I[1].up = Mine(c) /\ 1 \in 1..Len(I)
      BY <2>2, <2>4 DEF Awaited
    <3>2. Lone(inbox)
      BY <1>3
    <3>3. inbox[k][1].up = inbox[l][i].up /\ inbox[k][1].op = "commit" /\ 1 \in 1..Len(inbox[k])
      BY <1>7, <3>1
    <3>4. k = l
      BY <1>5, <1>7, <3>2, <3>3 DEF Lone
    <3>5. QED
      BY <1>5, <3>4
  <2>5. QED
    BY <1>2, <1>4, <2>3, <2>4, WaitsForOne
<1>8. /\ client'[c].step = "abort" /\ client'[c].part = 1 /\ Mine(c)' = Mine(c) /\ Here(c)' = k /\ Awaited(c)' = r
  BY <1>1, <1>5, HasAsked
<1>9. inbox'[k] = Append(I, r) /\ O = outbox'[c]
  BY <1>1, <1>3, <1>5 DEF Ask, Boxes
<1>10. r.up = Mine(c) /\ r # Awaited(c)
  <2>1. r.op = "abort" /\ r.part = 1 /\ Awaited(c).op = client[c].step /\ Awaited(c).part = client[c].part
    BY DEF Awaited
  <2>2. QED
    BY <1>2, <2>1
<1>11. Size(c)' = 2 /\ Flow(c, 1)' = Flow(c, 1) /\ Flow(c, 2)' = r
  <2>1. CASE Len(O) = 1 /\ Len(I) = 0
    <3>1. I = <<>>
      BY <1>5, <2>1
    <3>2. inbox'[k] = <<r>>
      BY <1>9, <3>1
    <3> HIDE DEF r
    <3>3. Len(inbox'[k]) = 1 /\ inbox'[k][1] = r
      BY <3>2
    <3>4. 1 <= Len(O) /\ ~(2 <= Len(O)) /\ 2 - Len(O) = 1
      BY <2>1
    <3>5. Size(c)' = Len(O) + Len(inbox'[k]) /\ Flow(c, 1)' = Request(O[1]) /\ Flow(c, 1) = Request(O[1])
      BY <1>8, <1>9, <3>4 DEF Size, Flow, Request
    <3>6. Flow(c, 2)' = inbox'[k][2 - Len(O)]
      BY <1>8, <1>9, <3>4 DEF Flow
    <3>7. QED
      BY <2>1, <3>3, <3>4, <3>5, <3>6
  <2>2. CASE Len(O) = 0 /\ Len(I) = 1
    <3> HIDE DEF r
    <3>1. Len(inbox'[k]) = 2 /\ inbox'[k][1] = I[1] /\ inbox'[k][2] = r
      BY <1>5, <1>9, <2>2
    <3>2. ~(1 <= Len(O)) /\ ~(2 <= Len(O)) /\ 2 - Len(O) = 2 /\ 1 - Len(O) = 1
      BY <2>2
    <3>3. Size(c)' = Len(O) + Len(inbox'[k])
      BY <1>8, <1>9 DEF Size
    <3>4. Flow(c, 2)' = inbox'[k][2 - Len(O)] /\ Flow(c, 1)' = inbox'[k][1 - Len(O)] /\ Flow(c, 1) = I[1 - Len(O)]
      BY <1>8, <1>9, <3>2 DEF Flow
    <3>5. QED
      BY <2>2, <3>1, <3>2, <3>3, <3>4
  <2>3. QED
    BY <1>2, <1>4, <2>1, <2>2, WaitsForOne
<1>12. Pipe(c)'
  <2>1. \A i \in 1..2 : i = 1 \/ i = 2
    OBVIOUS
  <2> HIDE DEF r
  <2>2. QED
    BY <1>4, <1>8, <1>10, <1>11, <2>1 DEF Pipe
<1>13. \A o \in Ops : o \notin Asked(c)' => o # "abort" /\ NotAsked(o, Mine(c))
  <2>1. Asked(c)' = {"chunk", "commit", "abort"}
    BY <1>8 DEF Asked
  <2>2. QED
    BY <1>6, <2>1 DEF Ops
<1>14. ~NoCommitYet(c)'
  BY <1>8 DEF NoCommitYet
<1>15. outbox' = [outbox EXCEPT ![c] = outbox'[c]]
  BY <1>1 DEF MediaInv, MediaTypes
<1>16. Absent(inbox, "begin", Mine(c))
  BY <1>6 DEF NotAsked
<1>17. QED
  <2> HIDE DEF k, r, O, I
  <2>1. QED
    BY <1>1, <1>2, <1>3, <1>5, <1>7, <1>9, <1>12, <1>13, <1>14, <1>15, <1>16, AskKeeps DEF O

\* An answer to a request that was given up.
LEMMA IgnoredKeeps ==
    ASSUME MediaInv, NEW c \in Clients, outbox[c] # <<>>, Request(Head(outbox[c])) # Awaited(c),
           outbox' = [outbox EXCEPT ![c] = Tail(@)], UNCHANGED <<caller, inbox, doing, host>>
    PROVE  MediaInv'
<1> DEFINE O == outbox[c]
           I == inbox[Here(c)]
<1>1. /\ O \in Seq(Answers) /\ O # <<>> /\ Len(I) \in Nat /\ I \in Seq(Requests) /\ Here(c) \in Links
  BY Between
<1>2. /\ Head(O) = O[1] /\ Tail(O) \in Seq(Answers) /\ Len(O) \in Nat /\ Len(O) > 0
      /\ Len(Tail(O)) = Len(O) - 1 /\ \A i \in 1..Len(Tail(O)) : Tail(O)[i] = O[i + 1]
  BY <1>1, HeadTailProperties
<1>3. outbox' \in [Clients -> Seq(Answers)] /\ outbox'[c] = Tail(O) /\ \A d \in Clients : d # c => outbox'[d] = outbox[d]
  BY <1>2 DEF MediaInv, MediaTypes
<1>4. client' = client /\ told' = told /\ inbox' = inbox /\ UNCHANGED <<doing, host>>
  BY DEF caller
<1>5. Here(c)' = Here(c) /\ Mine(c)' = Mine(c) /\ Awaited(c)' = Awaited(c)
  BY <1>4 DEF Here, Mine, Awaited
<1>6. 1 \in 1..Len(O)
  <2> HIDE DEF O
  <2>1. QED
    BY <1>2
<1>7. Flow(c, 1) = Request(O[1]) /\ client[c].step # "idle" /\ Mine(c) \in Uploads
  BY <1>6, AnswersMine
<1>8. Pipe(c) /\ Phase(c) /\ AnswersMean
  BY DEF MediaInv
<1>9. /\ Size(c) = 2 /\ client[c].step = "abort" /\ client[c].part = 1 /\ Flow(c, 2) = Awaited(c)
  BY <1>2, <1>7, <1>8 DEF Pipe
<1>10. Size(c)' = 1 /\ Flow(c, 1)' = Flow(c, 2)
  <2> DEFINE a == Len(O)
             n == Len(I)
  <2>1. a \in Nat /\ n \in Nat /\ a > 0 /\ a + n = 2
    BY <1>1, <1>2, <1>9 DEF Size
  <2>2. Len(outbox'[c]) = a - 1 /\ Len(inbox'[Here(c)]) = n
    BY <1>2, <1>3, <1>4
  <2>3. Size(c)' = (a - 1) + n
    BY <1>5, <2>2 DEF Size
  <2> HIDE DEF n, a
  <2>4. Size(c)' = 1
    BY <2>1, <2>3
  <2>5. CASE a = 2
    <3>1. 1 <= Len(outbox'[c]) /\ 2 <= Len(O)
      BY SMTT(30), <2>2, <2>5 DEF a
    <3>2. Flow(c, 1)' = Request(outbox'[c][1]) /\ Flow(c, 2) = Request(O[2])
      BY <3>1 DEF Flow, Request
    <3>3. 1 \in 1..Len(Tail(O)) /\ 1 + 1 = 2
      <4>1. Len(Tail(O)) = 2 - 1
        BY <1>3, <2>2, <2>5
      <4>2. QED
        BY <4>1
    <3>4. Tail(O)[1] = O[2]
      BY <1>2, <3>3
    <3>5. QED
      BY <1>3, <2>4, <3>2, <3>4
  <2>6. CASE a = 1
    <3>1. ~(1 <= Len(outbox'[c])) /\ ~(2 <= Len(O)) /\ 1 - Len(outbox'[c]) = 1 /\ 2 - Len(O) = 1
      <4>1. Len(outbox'[c]) = 0 /\ Len(O) = 1
        BY <2>2, <2>6 DEF a
      <4>2. \A x, y : x = 0 /\ y = 1 => ~(1 <= x) /\ ~(2 <= y) /\ 1 - x = 1 /\ 2 - y = 1
        OBVIOUS
      <4>3. QED
        BY <4>1, <4>2, Zenon
    <3>2. Flow(c, 1)' = inbox'[Here(c)'][1 - Len(outbox'[c])] /\ Flow(c, 2) = I[2 - Len(O)]
      BY <3>1 DEF Flow
    <3>3. QED
      BY <1>4, <1>5, <2>4, <3>1, <3>2
  <2>7. a = 1 \/ a = 2
    BY <2>1
  <2>8. QED
    BY <2>5, <2>6, <2>7
<1>11. Pipe(c)'
  <2>1. Flow(c, 2).up = Mine(c)
    BY <1>9 DEF Awaited
  <2>2. \A i \in 1..1 : i = 1
    OBVIOUS
  <2>3. QED
    BY <1>4, <1>5, <1>7, <1>9, <1>10, <2>1, <2>2 DEF Pipe
<1>12. \A o, u : NotAsked(o, u)' <=> NotAsked(o, u)
  BY <1>4 DEF NotAsked
<1>13. verdict' = verdict
  BY DEF host
<1> SUFFICES ASSUME NEW u0, u0 = Mine(c) PROVE MediaInv'
  OBVIOUS
<1>14. Phase(c)'
  <2>1. Asked(c)' = Asked(c) /\ (NoCommitYet(c)' <=> NoCommitYet(c))
    BY <1>4 DEF Asked, NoCommitYet
  <2>2. \A o \in Ops : o \notin Asked(c) => NotAsked(o, u0)'
    BY <1>7, <1>8, <1>12 DEF Phase
  <2>3. QED
    BY <1>4, <1>5, <1>8, <1>13, <2>1, <2>2 DEF Phase
<1>15. ASSUME NEW i \in 1..Len(outbox'[c]) PROVE Means(outbox[c][i])'
  <2>1. outbox'[c][i] = O[i + 1] /\ i + 1 \in 1..Len(O)
    <3> DEFINE a == Len(O)
    <3>1. a \in Nat /\ i \in 1..a - 1 /\ outbox'[c][i] = O[i + 1]
      BY <1>2, <1>3
    <3> HIDE DEF a
    <3>2. i + 1 \in 1..a
      BY <3>1
    <3>3. QED
      BY <3>1, <3>2 DEF a
  <2>2. Means(O[i + 1])
    BY <1>8, <2>1 DEF AnswersMean
  <2>3. ASSUME NEW m, m = O[i + 1] PROVE Means(m)'
    <3>1. Means(m)
      BY <2>2, <2>3
    <3>2. Gone(m.up)' <=> Gone(m.up)
      BY <1>4 DEF host, Gone, Busy, Subject
    <3>3. QED
      BY <1>12, <1>13, <3>1, <3>2 DEF Means
  <2>4. QED
    BY <2>1, <2>3 DEF Means
<1>16. MediaTypes' /\ Lone(inbox)' /\ Known'
  BY <1>3, <1>4 DEF MediaInv, MediaTypes, host, Lone, Known
<1>17. \A l \in Links : doing[l] # "read" => inbox'[l] # <<>> /\ Head(inbox'[l]) = Head(inbox[l])
  BY <1>4, Committing
<1>18. /\ u0[1] = c /\ u0[2] <= client'[c].try /\ client[c].try <= client'[c].try
       /\ NotAsked("commit", u0)' \/ verdict[u0] = "none"
       /\ NotAsked("begin", u0)' \/ ~NotAsked("begin", u0)
  <2>1. client[c].try \in 0..MaxTries
    BY Between
  <2>2. u0[1] = c /\ u0[2] = client[c].try
    BY MineIsMine
  <2>3. NotAsked("commit", u0) \/ verdict[u0] = "none"
    BY <1>7 DEF MediaInv, HostInv, Decided
  <2>4. QED
    BY <1>4, <1>12, <2>1, <2>2, <2>3
<1>19. QED
  <2> HIDE DEF O, I
  <2>1. \A d \in Clients : inbox'[Here(d)] = inbox[Here(d)] /\ client'[d] = client[d]
    BY <1>4
  <2>2. \A u \in Uploads : told'[u] = told[u]
    BY <1>4
  <2>3. told'[u0] \in {told[u0], "lost"}
    BY <1>4
  <2>4. QED
    BY <1>3, <1>4, <1>11, <1>12, <1>14, <1>15, <1>16, <1>17, <1>18, <2>1, <2>2, <2>3, ClientStep

\* What a client does with the answer it awaits.
LEMMA AnsweredKeeps ==
    ASSUME MediaInv, NEW c \in Clients, outbox[c] # <<>>, Request(Head(outbox[c])) = Awaited(c),
           outbox' = [outbox EXCEPT ![c] = Tail(@)], Answered(c, Head(outbox[c]).ok),
           UNCHANGED <<doing, host>>
    PROVE  MediaInv'
<1> DEFINE m == Head(outbox[c])
           at == client[c]
<1>1. /\ m \in Answers /\ m.up = Mine(c) /\ Mine(c) \in Uploads /\ m.op = at.step /\ m.part = at.part
      /\ Means(m) /\ at.step \in Ops /\ Tail(outbox[c]) = <<>> /\ inbox[Here(c)] = <<>>
  BY AwaitedAlone
<1>2. /\ at.link \in 1..MaxLinks /\ at.link >= at.link /\ at.part \in Nat /\ at.step # "idle" /\ Chunks \in Nat
      /\ inbox \in Boxes /\ Kept(inbox, c) /\ Phase(c) /\ Here(c) = <<c, at.link>>
      /\ (at.step = "chunk" => at.part \in 1..Chunks)
  BY SMTT(30), <1>1, Between, AllKept, ConstantsAssumption DEF MediaInv, MediaTypes, Here, Ops
<1>3. outbox' = [outbox EXCEPT ![c] = <<>>] /\ outbox'[c] = <<>> /\ outbox' = [outbox EXCEPT ![c] = outbox'[c]]
  BY <1>1 DEF MediaInv, MediaTypes
<1>4. NotAsked("begin", Mine(c)) /\ m.ok \in BOOLEAN
  BY <1>1 DEF Means, Answers
<1>5. /\ NoCommitYet(c) => verdict[Mine(c)] = "none"
      /\ \A o \in Ops : o \notin Asked(c) => NotAsked(o, Mine(c))
  BY <1>2 DEF Phase
<1> HIDE DEF m
<1>6. ASSUME NEW op \in {"chunk", "commit", "abort"}, NEW part \in Nat, Ask(c, op, part, at.link, inbox),
             op = "chunk" => at.step \in {"begin", "chunk"} /\ part \in 1..Chunks,
             op \in {"commit", "abort"} => at.step = "chunk", op = "abort" => part = 0
      PROVE  MediaInv'
  <2>1. client'[c].step = op /\ client'[c].part = part
    BY <1>6, HasAsked
  <2>2. Pipe(c)'
    BY <1>1, <1>2, <1>3, <1>6, OnlyAsked DEF Ops
  <2>3. verdict[Mine(c)] = "none"
    BY <1>5, <1>6 DEF NoCommitYet
  <2>4. NotAsked("commit", Mine(c)) /\ NotAsked("abort", Mine(c))
    BY <1>5, <1>6 DEF Asked, Ops
  <2>5. \A o \in Ops : o \notin Asked(c)' => o # op /\ NotAsked(o, Mine(c))
    <3>1. CASE op = "chunk"
      BY <1>4, <2>1, <2>4, <3>1 DEF Asked, Ops
    <3>2. CASE op = "commit"
      BY <1>4, <2>1, <2>4, <3>2 DEF Asked, Ops
    <3>3. CASE op = "abort"
      BY <1>4, <1>6, <2>1, <2>4, <3>3 DEF Asked, Ops
    <3>4. QED
      BY <3>1, <3>2, <3>3
  <2>6. /\ Absent(inbox, "begin", Mine(c)) /\ Absent(inbox, "commit", Mine(c)) /\ Absent(inbox, "abort", Mine(c))
    BY <1>4, <2>4 DEF NotAsked
  <2>7. \A l \in Links : \A i \in 1..Len(inbox[l]) : inbox[l][i].op = "commit" /\ inbox[l][i].up = Mine(c) => l = <<c, at.link>>
    BY <2>6 DEF Absent
  <2>8. QED
    BY <1>2, <1>3, <1>6, <2>2, <2>3, <2>5, <2>6, <2>7, AskKeeps
<1>7. ASSUME NEW what \in {"ok", "error", "timeout"}, Tell(c, what, at.link), inbox' = inbox,
             Gone(Mine(c)), what = "ok" => verdict[Mine(c)] = "ok", what = "error" => verdict[Mine(c)] # "ok"
      PROVE  MediaInv'
  <2>1. /\ client' = [client EXCEPT ![c] = [@ EXCEPT !.step = "idle", !.part = 0, !.link = at.link]]
        /\ told' = [told EXCEPT ![Mine(c)] = what]
    BY <1>7 DEF Tell
  <2>2. told \in [Uploads -> {"none", "ok", "error", "timeout", "lost"}]
    BY DEF MediaInv, MediaTypes
  <2>3. /\ told' \in [Uploads -> {"none", "ok", "error", "timeout", "lost"}] /\ told'[Mine(c)] = what
        /\ \A u \in Uploads : u # Mine(c) => told'[u] = told[u]
    BY <1>1, <2>1, <2>2
  <2>4. inbox'[<<c, at.link>>] = <<>> /\ Kept(inbox', c)
    BY <1>1, <1>2, <1>7
  <2>5. QED
    BY ZenonT(30), <1>2, <1>3, <1>4, <1>7, <2>1, <2>3, <2>4, TellKeeps
<1>8. \/ at.step = "begin" /\ m.ok /\ Ask(c, "chunk", 1, at.link, inbox)
      \/ at.step = "chunk" /\ m.ok /\ at.part < Chunks /\ Ask(c, "chunk", at.part + 1, at.link, inbox)
      \/ at.step = "chunk" /\ m.ok /\ at.part = Chunks /\ Ask(c, "commit", 0, at.link, inbox)
      \/ at.step = "chunk" /\ ~m.ok /\ Ask(c, "abort", 0, at.link, inbox)
      \/ at.step = "begin" /\ ~m.ok /\ Tell(c, "error", at.link) /\ inbox' = inbox
      \/ at.step = "commit" /\ Tell(c, IF m.ok THEN "ok" ELSE "error", at.link) /\ inbox' = inbox
      \/ at.step = "abort" /\ Tell(c, IF at.part = 0 THEN "error" ELSE "timeout", at.link) /\ inbox' = inbox
  BY DEF Answered, m
<1>9. CASE at.step = "begin" /\ Ask(c, "chunk", 1, at.link, inbox)
  <2>1. 1 \in 1..Chunks /\ 1 \in Nat
    BY ConstantsAssumption
  <2>2. QED
    BY <1>6, <1>9, <2>1
<1>10. CASE at.step = "chunk" /\ at.part < Chunks /\ Ask(c, "chunk", at.part + 1, at.link, inbox)
  <2>1. at.part + 1 \in 1..Chunks /\ at.part + 1 \in Nat
    BY <1>2, <1>10
  <2>2. QED
    BY <1>6, <1>10, <2>1
<1>11. CASE at.step = "chunk" /\ Ask(c, "commit", 0, at.link, inbox)
  <2>1. 0 \in Nat /\ "commit" # "chunk" /\ "commit" # "abort"
    OBVIOUS
  <2>2. QED
    BY <1>6, <1>11, <2>1
<1>12. CASE at.step = "chunk" /\ Ask(c, "abort", 0, at.link, inbox)
  BY <1>6, <1>12
<1>13. CASE at.step = "begin" /\ ~m.ok /\ Tell(c, "error", at.link) /\ inbox' = inbox
  <2>1. Gone(Mine(c)) /\ verdict[Mine(c)] # "ok"
    BY <1>1, <1>5, <1>13 DEF Means, NoCommitYet
  <2>2. QED
    BY <1>7, <1>13, <2>1
<1>14. CASE at.step = "commit" /\ Tell(c, IF m.ok THEN "ok" ELSE "error", at.link) /\ inbox' = inbox
  <2> DEFINE what == IF m.ok THEN "ok" ELSE "error"
  <2>1. Gone(Mine(c)) /\ (m.ok <=> verdict[Mine(c)] = "ok")
    BY <1>1, <1>14 DEF Means
  <2>2. what \in {"ok", "error", "timeout"} /\ (what = "ok" => m.ok) /\ (what = "error" => ~m.ok)
    OBVIOUS
  <2> HIDE DEF what
  <2>3. Tell(c, what, at.link)
    BY <1>14 DEF what
  <2>4. QED
    BY <1>7, <1>14, <2>1, <2>2, <2>3
<1>15. CASE at.step = "abort" /\ Tell(c, IF at.part = 0 THEN "error" ELSE "timeout", at.link) /\ inbox' = inbox
  <2> DEFINE what == IF at.part = 0 THEN "error" ELSE "timeout"
  <2>1. Gone(Mine(c)) /\ (at.part = 0 => verdict[Mine(c)] # "ok")
    BY <1>1, <1>5, <1>15 DEF Means, NoCommitYet
  <2>2. what \in {"ok", "error", "timeout"} /\ what # "ok" /\ (what = "error" => at.part = 0)
    OBVIOUS
  <2> HIDE DEF what
  <2>3. Tell(c, what, at.link)
    BY <1>15 DEF what
  <2>4. QED
    BY <1>7, <1>15, <2>1, <2>2, <2>3
<1>16. QED
  BY <1>8, <1>9, <1>10, <1>11, <1>12, <1>13, <1>14, <1>15

\* A client takes an answer, of the request it waits for or of one it gave up.
LEMMA ReceiveKeeps == ASSUME MediaInv, NEW c \in Clients, Receive(c) PROVE MediaInv'
<1>1. /\ outbox[c] # <<>> /\ outbox' = [outbox EXCEPT ![c] = Tail(@)] /\ UNCHANGED <<doing, host>>
      /\ IF Request(Head(outbox[c])) = Awaited(c) THEN Answered(c, Head(outbox[c]).ok)
                                                  ELSE UNCHANGED <<caller, inbox>>
  BY DEF Receive, Request
<1>2. CASE Request(Head(outbox[c])) = Awaited(c)
  BY <1>1, <1>2, AnsweredKeeps
<1>3. CASE Request(Head(outbox[c])) # Awaited(c)
  BY <1>1, <1>3, IgnoredKeeps
<1>4. QED
  BY <1>2, <1>3

\* A connection breaks.
LEMMA DisconnectKeeps == ASSUME MediaInv, NEW c \in Clients, Disconnect(c) PROVE MediaInv'
<1> DEFINE k == Here(c)
           next == client[c].link + 1
<1>1. /\ MediaTypes /\ Known /\ Pipe(c) /\ Phase(c) /\ inbox \in Boxes /\ Lone(inbox)
  BY DEF MediaInv, MediaTypes
<1>2. /\ client[c] \in ClientStates /\ client[c].link \in 1..MaxLinks /\ k \in Links /\ k = <<c, client[c].link>>
      /\ client[c].step \in Ops \cup {"idle"} /\ MaxLinks \in Nat
  BY Between, ConstantsAssumption DEF Here
<1>3. PICK n \in 0..Len(inbox[k]) :
        LET kept == [inbox EXCEPT ![k] = SubSeq(@, 1, n)]
        IN  /\ n = 0 => doing[k] = "read"
            /\ \/ /\ client[c].step = "idle"
                  /\ client' = [client EXCEPT ![c].link = next]
                  /\ inbox' = kept
                  /\ UNCHANGED told
               \/ client[c].step = "chunk" /\ Ask(c, "abort", 0, next, kept)
               \/ client[c].step # "idle" /\ Tell(c, "lost", next) /\ inbox' = kept
  BY <1>2 DEF Disconnect
<1>4. client[c].link < MaxLinks /\ outbox' = [outbox EXCEPT ![c] = <<>>] /\ UNCHANGED <<doing, host>>
  BY DEF Disconnect
<1> DEFINE kept == [inbox EXCEPT ![k] = SubSeq(@, 1, n)]
<1>5. next \in 1..MaxLinks /\ next >= client[c].link /\ <<c, next>> \in Links /\ <<c, next>> # k /\ next > client[c].link
  BY <1>2, <1>4 DEF Links
<1>6. kept \in Boxes /\ Len(kept[k]) = n /\ (\A i \in 1..n : kept[k][i] = inbox[k][i])
      /\ \A l \in Links : l # k => kept[l] = inbox[l]
  <2> DEFINE cut == SubSeq(inbox[k], 1, n)
  <2>1. inbox[k] \in Seq(Requests) /\ n \in 0..Len(inbox[k])
    BY <1>1, <1>2, <1>3 DEF Boxes
  <2>2. cut \in Seq(Requests) /\ Len(cut) = n /\ \A i \in 1..n : cut[i] = inbox[k][i]
    BY <2>1, FirstPart
  <2>3. kept = [inbox EXCEPT ![k] = cut]
    OBVIOUS
  <2> HIDE DEF kept, cut
  <2>4. kept \in Boxes /\ kept[k] = cut /\ \A l \in Links : l # k => kept[l] = inbox[l]
    BY <1>1, <1>2, <2>2, <2>3 DEF Boxes
  <2>5. QED
    BY <2>2, <2>4
<1>7. kept[<<c, next>>] = <<>>
  <2>1. inbox[<<c, next>>] = <<>>
    BY <1>1, <1>5 DEF Known
  <2>2. QED
    BY <1>5, <1>6, <2>1
<1>8. (n = 0 => doing[k] = "read") /\ n \in Nat
  BY <1>3
<1>9. Kept(kept, c)
  <2> HIDE DEF k, kept
  <2>1. /\ Lone(kept)
        /\ \A op, u : Absent(inbox, op, u) => Absent(kept, op, u)
        /\ \A l \in Links : \A i \in 1..Len(kept[l]) : i \in 1..Len(inbox[l]) /\ kept[l][i] = inbox[l][i]
        /\ n > 0 => kept[k] # <<>> /\ Head(kept[k]) = Head(inbox[k])
    <3>1. n \in 0..Len(inbox[k])
      BY <1>3
    <3>2. QED
      BY SMTT(30), <1>1, <1>2, <1>6, <3>1, Cutting
  <2>2. \A l \in Links : doing[l] # "read" => kept[l] # <<>> /\ Head(kept[l]) = Head(inbox[l])
    <3>1. ASSUME NEW l \in Links, doing[l] # "read" PROVE kept[l] # <<>> /\ Head(kept[l]) = Head(inbox[l])
      <4>1. CASE l = k
        BY <1>8, <2>1, <3>1, <4>1
      <4>2. CASE l # k
        BY <1>6, <3>1, <4>2, Committing
      <4>3. QED
        BY <4>1, <4>2
    <3>2. QED
      BY <3>1
  <2>3. \A l \in Links : l[1] # c => kept[l] = inbox[l]
    <3>1. k[1] = c
      BY <1>2
    <3>2. QED
      BY <1>6, <3>1
  <2>4. QED
    BY <1>6, <2>1, <2>2, <2>3 DEF Kept, NotAsked
<1>10. outbox'[c] = <<>> /\ outbox' = [outbox EXCEPT ![c] = outbox'[c]]
  BY <1>1, <1>4 DEF MediaTypes
<1>11. told \in [Uploads -> {"none", "ok", "error", "timeout", "lost"}]
  BY <1>1 DEF MediaTypes
<1>12. \/ /\ client[c].step = "idle"
          /\ client' = [client EXCEPT ![c].link = next]
          /\ inbox' = kept
          /\ UNCHANGED told
       \/ client[c].step = "chunk" /\ Ask(c, "abort", 0, next, kept)
       \/ client[c].step # "idle" /\ Tell(c, "lost", next) /\ inbox' = kept
  BY <1>3
<1>13. CASE client[c].step = "idle" /\ client' = [client EXCEPT ![c].link = next] /\ inbox' = kept /\ told' = told
  <2>1. client[c].part = 0
    BY <1>1, <1>13 DEF Pipe
  <2>2. client' = [client EXCEPT ![c] = [@ EXCEPT !.step = "idle", !.part = 0, !.link = next]]
    <3> HIDE DEF next
    <3> DEFINE s == client[c]
               t == [s EXCEPT !.step = "idle", !.part = 0, !.link = next]
    <3>1. s \in ClientStates /\ s.step = "idle" /\ s.part = 0
      BY <1>2, <1>13, <2>1
    <3>2. client' = [client EXCEPT ![c] = [s EXCEPT !.link = next]]
      BY <1>13
    <3> HIDE DEF s
    <3>3. [s EXCEPT !.link = next] = t
      BY <1>5, <3>1 DEF ClientStates
    <3>4. client' = [client EXCEPT ![c] = t]
      BY <3>2, <3>3
    <3>5. QED
      BY <3>4 DEF s
  <2>3. inbox'[<<c, next>>] = <<>> /\ Kept(inbox', c)
    BY <1>7, <1>9, <1>13
  <2>4. told'[Mine(c)] \in {told[Mine(c)], "lost"} /\ \A u \in Uploads : u # Mine(c) => told'[u] = told[u]
    BY <1>13
  <2> HIDE DEF next, k, kept
  <2>5. QED
    BY <1>4, <1>5, <1>11, <1>13, <2>2, <2>3, <2>4, TellKeeps
<1>14. CASE client[c].step = "chunk" /\ Ask(c, "abort", 0, next, kept)
  <2> HIDE DEF next, k, kept
  <2>1. client'[c].step = "abort" /\ client'[c].part = 0
    BY <1>14, HasAsked
  <2>2. Mine(c) \in Uploads
    BY <1>1, <1>14 DEF Pipe
  <2>3. Pipe(c)'
    BY <1>5, <1>6, <1>7, <1>10, <1>14, <2>2, OnlyAsked DEF Ops
  <2>4. /\ verdict[Mine(c)] = "none" /\ NotAsked("begin", Mine(c)) /\ NotAsked("commit", Mine(c))
    BY <1>1, <1>14 DEF Phase, Asked, NoCommitYet, Ops
  <2>5. Absent(kept, "begin", Mine(c)) /\ Absent(kept, "commit", Mine(c))
    BY <1>9, <2>4 DEF Kept
  <2>6. \A l \in Links : \A i \in 1..Len(kept[l]) : kept[l][i].op = "commit" /\ kept[l][i].up = Mine(c) => l = <<c, next>>
    BY <2>5 DEF Absent
  <2>7. \A o \in Ops : o \notin Asked(c)' => o # "abort" /\ NotAsked(o, Mine(c))
    BY <2>1, <2>4 DEF Asked, Ops
  <2>8. client[c].step # "idle" /\ 0 \in Nat
    BY <1>14
  <2>9. QED
    BY <1>4, <1>5, <1>9, <1>10, <1>14, <2>3, <2>4, <2>5, <2>6, <2>7, <2>8, AskKeeps
<1>15. CASE Tell(c, "lost", next) /\ inbox' = kept
  <2>1. /\ client' = [client EXCEPT ![c] = [@ EXCEPT !.step = "idle", !.part = 0, !.link = next]]
        /\ told' = [told EXCEPT ![Mine(c)] = "lost"]
    BY <1>15 DEF Tell
  <2>2. inbox'[<<c, next>>] = <<>> /\ Kept(inbox', c)
    BY <1>7, <1>9, <1>15
  <2>3. /\ told' \in [Uploads -> {"none", "ok", "error", "timeout", "lost"}]
        /\ told'[Mine(c)] \in {told[Mine(c)], "lost"} /\ \A u \in Uploads : u # Mine(c) => told'[u] = told[u]
    <3>1. CASE Mine(c) \in Uploads
      BY <1>11, <2>1, <3>1
    <3>2. CASE Mine(c) \notin Uploads
      <4>1. told' = told
        BY <1>11, <2>1, <3>2
      <4>2. QED
        BY <1>11, <4>1
    <3>3. QED
      BY <3>1, <3>2
  <2> HIDE DEF next, k, kept
  <2>4. QED
    BY <1>4, <1>5, <2>1, <2>2, <2>3, TellKeeps
<1>16. QED
  BY <1>12, <1>13, <1>14, <1>15

-----------------------------------------------------------------------------
(* Steps of the host *)

\* The connections that are this far with a commit of u.

\* What an answer changes of the boxes and of the commits under way.
LEMMA AfterReply ==
    ASSUME MediaInv, NEW k \in Links, inbox[k] # <<>>, NEW ok, Reply(k, ok)
    PROVE  /\ caller' = caller /\ client' = client /\ told' = told
           /\ inbox' \in Boxes /\ inbox'[k] = Tail(inbox[k]) /\ \A l \in Links : l # k => inbox'[l] = inbox[l]
           /\ doing' \in [Links -> {"read", "claimed", "sealed"}] /\ doing'[k] = "read"
           /\ \A l \in Links : l # k => doing'[l] = doing[l] /\ Subject(l)' = Subject(l)
           /\ \A l \in Links : doing'[l] # "read" => Serves(l, "commit")'
           /\ \A l \in Links : doing'[l] # "read" => l # k /\ doing[l] = doing'[l] /\ Subject(l)' = Subject(l)
<1>1. MediaTypes /\ inbox \in Boxes /\ TypeOK
  BY DEF MediaInv, MediaTypes, HostInv
<1>2. /\ inbox' = [inbox EXCEPT ![k] = Tail(@)] /\ doing' = [doing EXCEPT ![k] = "read"] /\ UNCHANGED caller
  BY DEF Reply
<1>3. Tail(inbox[k]) \in Seq(Requests)
  BY <1>1, FirstOf DEF Boxes
<1>4. inbox' \in Boxes /\ inbox'[k] = Tail(inbox[k]) /\ \A l \in Links : l # k => inbox'[l] = inbox[l]
  BY <1>1, <1>2, <1>3 DEF Boxes
<1>5. /\ doing' \in [Links -> {"read", "claimed", "sealed"}] /\ doing'[k] = "read"
      /\ \A l \in Links : l # k => doing'[l] = doing[l]
  BY <1>1, <1>2 DEF MediaTypes
<1>6. \A l \in Links : l # k => Subject(l)' = Subject(l) /\ (Serves(l, "commit")' <=> Serves(l, "commit"))
  BY <1>4 DEF Subject, Serves
<1>7. \A l \in Links : doing'[l] # "read" => Serves(l, "commit")'
  BY <1>1, <1>5, <1>6 DEF TypeOK
<1>8. QED
  BY <1>2, <1>4, <1>5, <1>6, <1>7 DEF caller

\* So a connection that answers does no longer commit, and no other is concerned.
LEMMA WorkAfterReply ==
    ASSUME MediaInv, NEW k \in Links, inbox[k] # <<>>, NEW ok, Reply(k, ok), NEW u
    PROVE  /\ Busy(u)' => Busy(u)
           /\ u # Subject(k) \/ doing[k] = "read" => (Busy(u)' <=> Busy(u))
           /\ u = Subject(k) /\ doing[k] # "read" => ~Busy(u)'
<1>1. /\ doing'[k] = "read"
      /\ \A l \in Links : l # k => doing'[l] = doing[l] /\ Subject(l)' = Subject(l)
  BY AfterReply
<1>2. Busy(u)' <=> \E l \in Links : doing'[l] # "read" /\ Subject(l)' = u
  BY DEF Busy
<1>3. Busy(u) <=> \E l \in Links : doing[l] # "read" /\ Subject(l) = u
  BY DEF Busy
<1>4. ASSUME u = Subject(k), doing[k] # "read" PROVE ~Busy(u)'
  <2>1. ASSUME NEW l \in Links, doing'[l] # "read", Subject(l)' = u PROVE FALSE
    <3>1. l # k /\ doing[l] # "read" /\ Subject(l) = Subject(k)
      BY <1>1, <1>4, <2>1
    <3>2. QED
      BY <1>4, <3>1, OneCommits
  <2>2. QED
    BY <1>2, <2>1
<1>5. Busy(u)' => Busy(u)
  BY <1>1, <1>2, <1>3
<1>6. u # Subject(k) \/ doing[k] = "read" => (Busy(u)' <=> Busy(u))
  BY <1>1, <1>2, <1>3
<1>7. QED
  BY <1>4, <1>5, <1>6

\* What lies between a client and the host is the same when an answer took the
\* place of its request.
LEMMA PipeFlows ==
    ASSUME MediaInv, NEW k \in Links, inbox[k] # <<>>, NEW ok \in BOOLEAN, Reply(k, ok), NEW c \in Clients
    PROVE  Pipe(c)'
<1> DEFINE O == outbox[c]
           I == inbox[k]
           r == Head(I)
           m == [op |-> r.op, up |-> r.up, part |-> r.part, ok |-> ok]
<1>1. /\ client' = client /\ inbox'[k] = Tail(I) /\ \A l \in Links : l # k => inbox'[l] = inbox[l]
  BY AfterReply
<1>2. outbox' = IF client[k[1]].link = k[2] THEN [outbox EXCEPT ![k[1]] = Append(@, m)] ELSE outbox
  BY DEF Reply
<1>3. Pipe(c) /\ outbox \in [Clients -> Seq(Answers)] /\ Here(c) \in Links
  BY Between DEF MediaInv, MediaTypes
<1>4. CASE Here(c) # k
  <2>1. inbox'[Here(c)] = inbox[Here(c)]
    BY <1>1, <1>3, <1>4
  <2>2. outbox'[c] = outbox[c]
    <3>1. CASE c # k[1]
      BY <1>2, <1>3, <3>1
    <3>2. CASE c = k[1]
      <4>1. client[k[1]].link # k[2]
        BY <1>4, <3>2 DEF Here, Links
      <4>2. QED
        BY <1>2, <4>1
    <3>3. QED
      BY <3>1, <3>2
  <2>3. QED
    BY <1>1, <1>3, <2>1, <2>2, PipeStays
<1>5. CASE Here(c) = k
  <2>1. k[1] = c /\ client[c].link = k[2]
    BY <1>5 DEF Here
  <2>2. outbox'[c] = Append(O, m)
    BY <1>2, <1>3, <2>1
  <2>3. /\ O \in Seq(Answers) /\ I \in Seq(Requests) /\ r \in Requests /\ r = I[1] /\ Len(O) \in Nat /\ Len(I) \in Nat /\ Len(I) > 0
        /\ Len(Tail(I)) = Len(I) - 1 /\ \A i \in 1..Len(Tail(I)) : Tail(I)[i] = I[i + 1]
    BY <1>3, FirstOf DEF MediaInv, MediaTypes, Boxes
  <2>4. Request(m) = r
    BY <2>3 DEF Request, Requests
  <2> HIDE DEF m, r
  <2>5. Len(outbox'[c]) = Len(O) + 1 /\ outbox'[c][Len(O) + 1] = m /\ \A i \in 1..Len(O) : outbox'[c][i] = O[i]
    BY <2>2, <2>3
  <2>6. Here(c)' = k /\ Mine(c)' = Mine(c) /\ Awaited(c)' = Awaited(c)
    BY <1>1, <1>5 DEF Here, Mine, Awaited
  <2> DEFINE a == Len(O)
             n == Len(I)
  <2>7. a \in Nat /\ n \in Nat /\ n > 0 /\ Size(c) = a + n
    BY <1>5, <2>3 DEF Size
  <2>8. Size(c)' = (a + 1) + (n - 1)
    BY <1>1, <2>3, <2>5, <2>6 DEF Size
  <2>9. \A i \in 1..a + n : Flow(c, i)' = Flow(c, i)
    <3> SUFFICES ASSUME NEW i \in 1..a + n PROVE Flow(c, i)' = Flow(c, i)
      OBVIOUS
    <3>1. Flow(c, i)' = IF i <= a + 1 THEN Request(outbox'[c][i]) ELSE Tail(I)[i - (a + 1)]
      BY <1>1, <2>5, <2>6 DEF Flow, Request
    <3>2. Flow(c, i) = IF i <= a THEN Request(O[i]) ELSE I[i - a]
      BY <1>5 DEF Flow
    <3>3. Len(Tail(I)) = n - 1
      BY <2>3
    <3>4. /\ \A j \in 1..n - 1 : Tail(I)[j] = I[j + 1]
          /\ outbox'[c][a + 1] = m /\ \A j \in 1..a : outbox'[c][j] = O[j]
      BY <2>3, <2>5, <3>3
    <3> HIDE DEF a, n, O, I
    <3>5. CASE i <= a
      <4>1. i \in 1..a /\ i <= a + 1
        BY <2>7, <3>5
      <4>2. QED
        BY <3>1, <3>2, <3>4, <3>5, <4>1
    <3>6. CASE i = a + 1
      <4>1. ~(i <= a) /\ i <= a + 1 /\ i - a = 1
        BY <2>7, <3>6
      <4>2. QED
        BY <2>3, <2>4, <3>1, <3>2, <3>4, <3>6, <4>1
    <3>7. CASE i > a + 1
      <4>1. ~(i <= a) /\ ~(i <= a + 1) /\ i - (a + 1) \in 1..n - 1 /\ (i - (a + 1)) + 1 = i - a
        BY <2>7, <3>7
      <4>2. QED
        BY <3>1, <3>2, <3>4, <4>1
    <3>8. QED
      BY <2>7, <3>5, <3>6, <3>7
  <2> HIDE DEF a, n
  <2>10. Size(c)' = Size(c)
    BY <2>7, <2>8
  <2>11. (Size(c) = 2 => 1 \in 1..Size(c)) /\ (Size(c) = 1 => 1 \in 1..Size(c)) /\ (Size(c) = 2 => 2 \in 1..Size(c))
    OBVIOUS
  <2>12. QED
    BY <1>1, <1>3, <2>6, <2>7, <2>9, <2>10, <2>11 DEF Pipe
<1>6. QED
  BY <1>4, <1>5

\* A step that answers a request keeps the invariant, if what the host holds is in
\* order, the other uploads are left alone and the answer is so.
LEMMA ReplyKeeps ==
    ASSUME MediaInv, NEW k \in Links, inbox[k] # <<>>, NEW ok \in BOOLEAN, Reply(k, ok),
           NEW r, r = Head(inbox[k]), NEW u0, u0 = Subject(k),
           \A u \in Uploads : Gone(u) /\ (u # u0 \/ r.op # "begin") => Gone(u)' /\ verdict'[u] = verdict[u],
           \A u \in Uploads : verdict'[u] # verdict[u] => u = u0 /\ r.op = "commit",
           r.op = "begin" /\ ~ok => Gone(u0)',
           r.op = "commit" => Gone(u0)' /\ (ok <=> verdict'[u0] = "ok"),
           r.op = "abort" => Gone(u0)',
           \A u \in stuck' : u \in stuck \/ (u = u0 /\ Gone(u0)'),
           \A u \in Uploads : inputs'[u] = IF verdict'[u] \in {"ok", "late"} THEN 1 ELSE 0,
           \A u \in pending' : u \in pending \/ (u = u0 /\ r.op = "begin"),
           TypeOK', FilesAgree', Tracked',
           inputs' \in [Uploads -> Nat], verdict' \in [Uploads -> {"none", "ok", "refused", "late"}],
           stuck' \subseteq Uploads,
           uploads' = [u \in DOMAIN uploads' |-> uploads'[u]], IsFiniteSet(DOMAIN uploads')
    PROVE  MediaInv'
<1>1. /\ MediaTypes /\ Lone(inbox) /\ inbox \in Boxes /\ Known /\ Decided /\ Taken /\ StuckIsOver /\ Fresh
      /\ AnswersMean /\ ToldSo /\ \A c \in Clients : Phase(c) /\ Pipe(c)
  BY DEF MediaInv, MediaTypes, HostInv
<1>2. /\ client' = client /\ told' = told
      /\ inbox' \in Boxes /\ inbox'[k] = Tail(inbox[k]) /\ \A l \in Links : l # k => inbox'[l] = inbox[l]
      /\ doing' \in [Links -> {"read", "claimed", "sealed"}]
      /\ \A l \in Links : doing'[l] # "read" => l # k /\ doing[l] = doing'[l] /\ Subject(l)' = Subject(l)
  BY AfterReply
<1>3. u0 = r.up /\ r \in Requests /\ u0 \in Uploads /\ r.op \in Ops /\ r.part \in Nat /\ r = inbox[k][1] /\ 1 \in 1..Len(inbox[k])
  BY <1>1, FirstOf DEF Subject, Requests, Boxes
<1> DEFINE new == inbox'
<1>4. new \in Boxes /\ new[k] = Tail(inbox[k]) /\ \A l \in Links : l # k => new[l] = inbox[l]
  BY <1>2
<1> HIDE DEF new
<1>5. /\ Lone(new)
      /\ \A op, u : Absent(inbox, op, u) => Absent(new, op, u)
      /\ Absent(new, "begin", r.up)
      /\ r.op = "commit" => Absent(new, "commit", r.up)
      /\ r.op # "begin" => Absent(inbox, "begin", r.up)
  <2>1. inbox \in Boxes /\ Lone(inbox) /\ new \in Boxes /\ new[k] = Tail(inbox[k])
        /\ (\A l \in Links : l # k => new[l] = inbox[l]) /\ inbox[k] # <<>> /\ r = Head(inbox[k])
    BY <1>1, <1>4
  <2>2. QED
    BY <2>1, Popping
<1>6. /\ Lone(inbox)'
      /\ \A op, u : NotAsked(op, u) => NotAsked(op, u)'
      /\ NotAsked("begin", u0)' /\ (r.op = "commit" => NotAsked("commit", u0)')
      /\ r.op # "begin" => NotAsked("begin", u0)
  <2>1. \A op, u : NotAsked(op, u)' <=> Absent(new, op, u)
    BY DEF NotAsked, Absent, new
  <2>2. Lone(inbox)'
    BY <1>5 DEF Lone, new
  <2>3. QED
    BY <1>3, <1>5, <2>1, <2>2 DEF NotAsked
<1>7. ~NotAsked(r.op, u0)
  BY <1>3 DEF NotAsked, Absent
<1>8. \A l \in Links : \A i \in 1..Len(inbox'[l]) : \E j \in 1..Len(inbox[l]) : inbox'[l][i] = inbox[l][j]
  <2>1. ASSUME NEW l \in Links, NEW i \in 1..Len(inbox'[l])
        PROVE  \E j \in 1..Len(inbox[l]) : inbox'[l][i] = inbox[l][j]
    <3>1. CASE l = k
      <4>1. i \in 1..Len(Tail(inbox[k])) /\ inbox'[l] = Tail(inbox[k])
        BY <1>2, <2>1, <3>1
      <4>2. Tail(inbox[k])[i] = inbox[k][i + 1] /\ i + 1 \in 1..Len(inbox[k])
        BY <1>1, <4>1, FirstOf DEF Boxes
      <4>3. QED
        BY <3>1, <4>1, <4>2
    <3>2. CASE l # k
      BY <1>2, <3>2
    <3>3. QED
      BY <3>1, <3>2
  <2>2. QED
    BY <2>1
<1>9. MediaTypes'
  <2>1. outbox' \in [Clients -> Seq(Answers)]
    <3> DEFINE m == [op |-> r.op, up |-> r.up, part |-> r.part, ok |-> ok]
    <3>1. outbox' = IF client[k[1]].link = k[2] THEN [outbox EXCEPT ![k[1]] = Append(@, m)] ELSE outbox
      BY DEF Reply
    <3>2. m \in Answers
      BY <1>3 DEF Answers
    <3> HIDE DEF m
    <3>3. k[1] \in Clients /\ outbox \in [Clients -> Seq(Answers)]
      BY <1>1 DEF Links, MediaTypes
    <3>4. Append(outbox[k[1]], m) \in Seq(Answers)
      BY <3>2, <3>3
    <3>5. QED
      BY <3>1, <3>3, <3>4
  <2>2. \A l \in Links : \A i \in 1..Len(inbox'[l]) : inbox'[l][i].op = "chunk" => inbox'[l][i].part \in 1..Chunks
    <3>1. \A l \in Links : \A j \in 1..Len(inbox[l]) : inbox[l][j].op = "chunk" => inbox[l][j].part \in 1..Chunks
      BY <1>1 DEF MediaTypes
    <3>2. ASSUME NEW l \in Links, NEW i \in 1..Len(inbox'[l]), inbox'[l][i].op = "chunk"
          PROVE  inbox'[l][i].part \in 1..Chunks
      BY <1>8, <3>1, <3>2
    <3>3. QED
      BY <3>2
  <2>3. pending' \subseteq Uploads
    BY <1>1, <1>3 DEF MediaTypes
  <2>4. /\ client' \in [Clients -> ClientStates]
        /\ told' \in [Uploads -> {"none", "ok", "error", "timeout", "lost"}]
        /\ \A c \in Clients : client'[c].step = "chunk" => client'[c].part \in 1..Chunks
    BY <1>1, <1>2 DEF MediaTypes
  <2>5. QED
    BY <1>2, <2>1, <2>2, <2>3, <2>4 DEF MediaTypes
<1>10. Known'
  <2>1. \A l \in Links : inbox[l] = <<>> => inbox'[l] = <<>>
    <3>1. ASSUME NEW l \in Links, inbox[l] = <<>> PROVE inbox'[l] = <<>>
      BY <1>2, <3>1
    <3>2. QED
      BY <3>1
  <2>2. QED
    BY <1>1, <1>2, <1>8, <2>1 DEF Known
<1>11. \A u \in Uploads : u[2] > client[u[1]].try => u # u0
  <2>1. u0[1] = k[1] /\ u0[2] <= client[k[1]].try /\ k[1] \in Clients
    BY <1>1, <1>3 DEF Known, Links
  <2>2. client[k[1]].try \in Nat /\ u0[2] \in Nat
    BY <1>1, <1>3, <2>1 DEF MediaTypes, ClientStates, Uploads
  <2>3. QED
    BY <2>1, <2>2
<1>12. Fresh'
  <2> SUFFICES ASSUME NEW u \in Uploads
               PROVE  /\ ~NotAsked("begin", u)' =>
                            Gone(u)' /\ verdict'[u] = "none" /\ told'[u] \in {"none", "lost"}
                      /\ u[2] > client'[u[1]].try =>
                            Gone(u)' /\ verdict'[u] = "none" /\ told'[u] = "none"
    BY DEF Fresh
  <2>1. ~NotAsked("begin", u)' => u # u0 /\ ~NotAsked("begin", u)
    BY <1>6
  <2>2. u[2] > client'[u[1]].try => u # u0 /\ u[2] > client[u[1]].try
    BY <1>2, <1>11
  <2>3. QED
    BY <1>1, <1>2, <2>1, <2>2 DEF Fresh
<1>13. \A u \in Uploads : Gone(u) /\ NotAsked("begin", u) => Gone(u)' /\ verdict'[u] = verdict[u]
  BY <1>7
<1>14. Decided'
  <2> SUFFICES ASSUME NEW u \in Uploads
               PROVE  verdict'[u] # "none" => Gone(u)' /\ NotAsked("commit", u)'
    BY DEF Decided
  <2>1. CASE verdict'[u] = verdict[u] /\ verdict[u] # "none"
    <3>1. Gone(u) /\ NotAsked("commit", u) /\ NotAsked("begin", u)
      BY <1>1, <2>1 DEF Decided, Fresh
    <3>2. QED
      BY <1>6, <1>13, <3>1
  <2>2. CASE verdict'[u] # verdict[u]
    BY <1>6, <2>2
  <2>3. QED
    BY <2>1, <2>2
<1>15. Taken'
  <2>1. ASSUME NEW l \in Links, doing'[l] # "read", Subject(l)' \in pending' PROVE FALSE
    <3>1. l # k /\ doing[l] # "read" /\ Subject(l)' = Subject(l)
      BY <1>2, <2>1
    <3>2. Subject(l) \notin pending
      BY <1>1, <3>1 DEF Taken
    <3>3. Subject(l) = u0 /\ r.op = "begin"
      BY <2>1, <3>1, <3>2
    <3>4. Gone(u0)
      BY <1>1, <1>3, <1>7, <3>3 DEF Fresh
    <3>5. QED
      BY <3>1, <3>3, <3>4 DEF Gone, Busy
  <2>2. QED
    BY <2>1 DEF Taken
<1>16. StuckIsOver'
  <2> SUFFICES ASSUME NEW u \in stuck'
               PROVE  Gone(u)' /\ NotAsked("begin", u)' /\ u[2] <= client'[u[1]].try
    BY DEF StuckIsOver
  <2>1. CASE u \in stuck
    BY <1>1, <1>2, <1>6, <1>13, <2>1 DEF StuckIsOver, MediaTypes
  <2>2. CASE u = u0 /\ Gone(u0)'
    <3>1. u0[1] = k[1] /\ u0[2] <= client[k[1]].try
      BY <1>1, <1>3 DEF Known
    <3>2. QED
      BY <1>2, <1>6, <2>2, <3>1
  <2>3. QED
    BY <2>1, <2>2
<1>17. \A c \in Clients : Phase(c)'
  <2> SUFFICES ASSUME NEW c \in Clients, client[c].step # "idle", NEW v, v = Mine(c) PROVE Phase(c)'
    BY <1>2 DEF Phase
  <2>5. Mine(c)' = v
    BY <1>2 DEF Mine
  <2>1. Asked(c)' = Asked(c) /\ (NoCommitYet(c)' <=> NoCommitYet(c)) /\ client[c].step # "idle"
    BY <1>2 DEF Asked, NoCommitYet
  <2>2. \A op \in Ops : op \notin Asked(c) => NotAsked(op, v)
    BY <1>1, <2>1 DEF Phase
  <2>3. ASSUME NoCommitYet(c) PROVE verdict'[v] = "none"
    <3>1. verdict[v] = "none" /\ NotAsked("commit", v) /\ v \in Uploads
      BY <1>1, <2>1, <2>2, <2>3 DEF Phase, NoCommitYet, Asked, Ops, Pipe
    <3>2. QED
      BY <1>7, <3>1
  <2>4. QED
    BY <1>6, <2>1, <2>2, <2>3, <2>5 DEF Phase
<1>18. AnswersMean'
  <2>1. ASSUME NEW m, Means(m) PROVE Means(m)'
    <3>1. m.up \in Uploads /\ NotAsked("begin", m.up)
      BY <2>1 DEF Means
    <3>2. Gone(m.up) => Gone(m.up)' /\ verdict'[m.up] = verdict[m.up]
      BY <1>13, <3>1
    <3>3. QED
      BY <1>6, <2>1, <3>1, <3>2 DEF Means
  <2>2. ASSUME NEW m, m = [op |-> r.op, up |-> r.up, part |-> r.part, ok |-> ok] PROVE Means(m)'
    BY <1>3, <1>6, <2>2 DEF Means
  <2>4. ASSUME NEW c \in Clients, NEW i \in 1..Len(outbox'[c]), NEW m, m = outbox'[c][i] PROVE Means(m)'
    <3> DEFINE new_m == [op |-> r.op, up |-> r.up, part |-> r.part, ok |-> ok]
               O == outbox[c]
    <3>1. outbox' = IF client[k[1]].link = k[2] THEN [outbox EXCEPT ![k[1]] = Append(@, new_m)] ELSE outbox
      BY DEF Reply
    <3>2. O \in Seq(Answers) /\ outbox \in [Clients -> Seq(Answers)] /\ k[1] \in Clients
      BY <1>1 DEF MediaTypes, Links
    <3> HIDE DEF new_m
    <3>3. outbox'[c] = O \/ outbox'[c] = Append(O, new_m)
      BY <3>1, <3>2
    <3>4. (i \in 1..Len(O) /\ m = O[i]) \/ m = new_m
      <4> HIDE DEF O
      <4>1. CASE outbox'[c] = O
        BY <2>4, <4>1
      <4>2. CASE outbox'[c] = Append(O, new_m)
        BY <2>4, <3>2, <4>2
      <4>3. QED
        BY <3>3, <4>1, <4>2
    <3>5. CASE i \in 1..Len(O) /\ m = O[i]
      <4>1. Means(m)
        BY <1>1, <3>5 DEF AnswersMean
      <4>2. QED
        BY <2>1, <4>1
    <3>6. CASE m = new_m
      BY <2>2, <3>6 DEF new_m
    <3>7. QED
      BY <3>4, <3>5, <3>6
  <2>5. ASSUME NEW c \in Clients, NEW i \in 1..Len(outbox'[c]) PROVE Means(outbox[c][i])'
    BY <2>4, <2>5 DEF Means
  <2>6. QED
    BY <2>5 DEF AnswersMean
<1>19. ToldSo'
  <2> SUFFICES ASSUME NEW u \in Uploads
               PROVE  /\ told'[u] = "ok" => verdict'[u] = "ok"
                      /\ told'[u] = "error" => verdict'[u] # "ok"
                      /\ told'[u] \in {"ok", "error", "timeout"} => Gone(u)' /\ NotAsked("begin", u)'
    BY DEF ToldSo
  <2>1. CASE told[u] \in {"ok", "error", "timeout"}
    BY <1>1, <1>2, <1>6, <1>13, <2>1 DEF ToldSo
  <2>2. CASE told[u] \notin {"ok", "error", "timeout"}
    BY <1>2, <2>2
  <2>3. QED
    BY <2>1, <2>2
<1>20. \A c \in Clients : Pipe(c)'
  BY PipeFlows
<1>21. HostInv'
  BY <1>14, <1>15, <1>16 DEF HostInv
<1>22. QED
  BY <1>6, <1>9, <1>10, <1>12, <1>17, <1>18, <1>19, <1>20, <1>21 DEF MediaInv

\* A step of the host that answers nothing.
LEMMA WorkKeeps ==
    ASSUME MediaInv, UNCHANGED <<caller, inbox, outbox, stuck, inputs, verdict>>,
           \A u : Gone(u)' <=> Gone(u), pending' \subseteq pending,
           doing' \in [Links -> {"read", "claimed", "sealed"}],
           TypeOK', FilesAgree', Taken', Tracked',
           uploads' = [u \in DOMAIN uploads' |-> uploads'[u]], IsFiniteSet(DOMAIN uploads')
    PROVE  MediaInv'
<1>1. /\ client' = client /\ told' = told /\ inbox' = inbox /\ outbox' = outbox /\ stuck' = stuck
      /\ inputs' = inputs /\ verdict' = verdict
  BY DEF caller
<1>2. \A op, u : NotAsked(op, u)' <=> NotAsked(op, u)
  BY <1>1 DEF NotAsked
<1>3. MediaTypes' /\ Lone(inbox)' /\ Known'
  BY <1>1 DEF MediaInv, MediaTypes, Lone, Known
<1>4. Decided' /\ StuckIsOver' /\ Fresh' /\ ToldSo'
  BY <1>1, <1>2 DEF MediaInv, HostInv, Decided, StuckIsOver, Fresh, ToldSo
<1>5. \A c \in Clients : Here(c)' = Here(c) /\ Mine(c)' = Mine(c) /\ Asked(c)' = Asked(c) /\ (NoCommitYet(c)' <=> NoCommitYet(c))
  BY <1>1 DEF Here, Mine, Asked, NoCommitYet
<1>6. \A c \in Clients : Pipe(c)'
  BY <1>1, PipeStays DEF MediaInv
<1>7. \A c \in Clients : Phase(c)'
  BY <1>1, <1>2, <1>5 DEF MediaInv, Phase
<1>8. AnswersMean'
  <2>1. ASSUME NEW m, Means(m) PROVE Means(m)'
    BY <1>1, <1>2, <2>1 DEF Means
  <2>2. ASSUME NEW c \in Clients, NEW i \in 1..Len(outbox[c]), NEW m, m = outbox[c][i] PROVE Means(m)'
    BY <2>1, <2>2 DEF MediaInv, AnswersMean
  <2>3. ASSUME NEW c \in Clients, NEW i \in 1..Len(outbox[c]) PROVE Means(outbox[c][i])'
    BY <1>1, <2>2, <2>3 DEF Means
  <2>4. QED
    BY <1>1, <2>3 DEF AnswersMean
<1>9. QED
  BY <1>3, <1>4, <1>6, <1>7, <1>8 DEF MediaInv, HostInv

\* The uploads and the files that are kept.
LEMMA KnownFiles ==
    ASSUME MediaInv
    PROVE  /\ DOMAIN uploads \subseteq Uploads /\ IsFiniteSet(DOMAIN uploads)
           /\ \A u \in DOMAIN uploads : uploads[u] \in 0..Chunks /\ ~Gone(u)
           /\ old \subseteq DOMAIN uploads /\ staged = DOMAIN uploads \cup stuck
           /\ stuck \cap DOMAIN uploads = {} /\ stuck \subseteq Uploads
           /\ Cardinality(DOMAIN uploads) <= Cap /\ Cardinality(DOMAIN uploads) \in Nat
           /\ Swept = [u \in DOMAIN uploads \ old |-> uploads[u]] /\ DOMAIN Swept = DOMAIN uploads \ old
<1>1. /\ MediaTypes /\ TypeOK /\ Tracked /\ StuckIsOver /\ IsFiniteSet(DOMAIN uploads)
  BY DEF MediaInv, MediaTypes, HostInv
<1>2. /\ DOMAIN uploads \subseteq Uploads /\ (\A u \in DOMAIN uploads : uploads[u] \in 0..Chunks)
      /\ old \subseteq DOMAIN uploads /\ staged = DOMAIN uploads \cup stuck
      /\ Cardinality(DOMAIN uploads) <= Cap
  BY <1>1 DEF TypeOK
<1>3. \A u \in DOMAIN uploads : ~Gone(u)
  BY <1>1 DEF Tracked, Gone, Busy
<1>4. Swept = [u \in DOMAIN uploads \ old |-> uploads[u]]
  BY DEF Swept, Restrict
<1>5. Cardinality(DOMAIN uploads) \in Nat
  BY <1>1, FS_CardinalityType
<1>6. stuck \cap DOMAIN uploads = {} /\ stuck \subseteq Uploads
  BY <1>1, <1>3 DEF StuckIsOver, MediaTypes
<1>7. QED
  BY <1>1, <1>2, <1>3, <1>4, <1>5, <1>6

\* What is kept of the list is in order, if the files go with it.
LEMMA ListInOrder ==
    ASSUME MediaInv, NEW kept, kept \subseteq DOMAIN uploads, DOMAIN uploads' = kept,
           uploads' = [u \in DOMAIN uploads' |-> uploads'[u]],
           \A u \in kept : uploads'[u] \in 0..Chunks, old' \subseteq kept, staged' = kept \cup stuck',
           \A l \in Links : doing'[l] # "read" => Serves(l, "commit")'
    PROVE  TypeOK' /\ IsFiniteSet(DOMAIN uploads')
<1>1. IsFiniteSet(kept) /\ Cardinality(kept) <= Cardinality(DOMAIN uploads) /\ Cardinality(kept) \in Nat
  BY KnownFiles, FS_Subset, FS_CardinalityType
<1>2. Cardinality(kept) <= Cap
  BY <1>1, KnownFiles, ConstantsAssumption
<1>3. QED
  BY <1>1, <1>2, KnownFiles DEF TypeOK

\* A connection whose request is not a commit commits nothing.
LEMMA NotCommitting ==
    ASSUME MediaInv, NEW k \in Links, NEW op, Serves(k, op)
    PROVE  /\ inbox[k] # <<>> /\ Head(inbox[k]).op = op /\ Subject(k) = Head(inbox[k]).up
           /\ Head(inbox[k]) \in Requests /\ Subject(k) \in Uploads
           /\ op # "commit" => doing[k] = "read"
           /\ op = "begin" => Gone(Subject(k)) /\ verdict[Subject(k)] = "none"
           /\ op = "chunk" => Head(inbox[k]).part \in 1..Chunks
<1>1. inbox[k] # <<>> /\ Head(inbox[k]).op = op /\ Subject(k) = Head(inbox[k]).up
  BY DEF Serves, Subject
<1>2. inbox[k] \in Seq(Requests)
  BY DEF MediaInv, MediaTypes, Boxes
<1>3. Head(inbox[k]) \in Requests /\ Head(inbox[k]) = inbox[k][1] /\ 1 \in 1..Len(inbox[k])
  BY <1>1, <1>2, FirstOf
<1>4. Subject(k) \in Uploads
  BY <1>1, <1>3 DEF Requests
<1>5. op # "commit" => doing[k] = "read"
  BY <1>1 DEF MediaInv, HostInv, TypeOK, Serves
<1>6. op = "begin" => ~NotAsked("begin", Subject(k))
  BY <1>1, <1>3 DEF NotAsked, Absent
<1>7. op = "begin" => Gone(Subject(k)) /\ verdict[Subject(k)] = "none"
  BY <1>4, <1>6 DEF MediaInv, Fresh
<1>8. op = "chunk" => Head(inbox[k]).part \in 1..Chunks
  BY <1>1, <1>3 DEF MediaInv, MediaTypes
<1>9. QED
  BY <1>1, <1>3, <1>4, <1>5, <1>7, <1>8

\* A request that is no commit leaves commits and their files as they are.
LEMMA CommitsAside ==
    ASSUME MediaInv, NEW k \in Links, inbox[k] # <<>>, NEW ok, Reply(k, ok), doing[k] = "read",
           UNCHANGED <<media, verdict>>
    PROVE  /\ FilesAgree'
           /\ \A u : Busy(u)' <=> Busy(u)
           /\ \A l \in Links : doing[l] = "claimed" => doing'[l] = "claimed" /\ Subject(l)' = Subject(l)
<1>1. /\ doing'[k] = "read"
      /\ \A l \in Links : l # k => doing'[l] = doing[l] /\ Subject(l)' = Subject(l)
  BY AfterReply
<1>2. \A l \in Links : doing'[l] = doing[l] /\ (doing[l] # "read" => Subject(l)' = Subject(l))
  BY <1>1
<1>3. FilesAgree'
  BY <1>2 DEF MediaInv, HostInv, FilesAgree
<1>4. \A u : Busy(u)' <=> Busy(u)
  BY WorkAfterReply
<1>5. QED
  BY <1>2, <1>3, <1>4

\* A step that answers a request which is no commit.
LEMMA PlainReplyKeeps ==
    ASSUME MediaInv, NEW k \in Links, NEW op \in {"begin", "chunk", "abort"}, Serves(k, op), NEW ok \in BOOLEAN,
           Reply(k, ok), UNCHANGED <<stuck, media, inputs, verdict>>,
           \A u \in pending' : u \in pending \/ (u = Subject(k) /\ op = "begin"),
           op = "begin" /\ ~ok => pending' = pending,
           op = "abort" => Subject(k) \notin pending',
           TypeOK', IsFiniteSet(DOMAIN uploads'), uploads' = [u \in DOMAIN uploads' |-> uploads'[u]],
           \A u \in DOMAIN uploads' : \/ u \in pending'
                                      \/ u \in DOMAIN uploads /\ (u \in pending => u \in pending')
    PROVE  MediaInv'
<1> SUFFICES ASSUME NEW r, r = Head(inbox[k]), NEW u0, u0 = Subject(k) PROVE MediaInv'
  OBVIOUS
<1>1. /\ MediaTypes /\ Decided /\ Tracked /\ Lone(inbox)
  BY DEF MediaInv, HostInv
<1>2. /\ inbox[k] # <<>> /\ r.op = op /\ u0 = r.up /\ u0 \in Uploads /\ doing[k] = "read" /\ r \in Requests
      /\ op = "begin" => Gone(u0)
  BY NotCommitting
<1>3. /\ FilesAgree' /\ \A u : Busy(u)' <=> Busy(u)
      /\ \A l \in Links : doing[l] = "claimed" => doing'[l] = "claimed" /\ Subject(l)' = Subject(l)
  BY <1>2, CommitsAside
<1>4. \A u \in Uploads : Gone(u) /\ (u # u0 \/ r.op # "begin") => Gone(u)' /\ verdict'[u] = verdict[u]
  BY <1>2, <1>3 DEF Gone
<1>5. r.op = "begin" /\ ~ok => Gone(u0)'
  BY <1>2, <1>3 DEF Gone
<1>6. r.op = "abort" => Gone(u0)'
  <2>1. ASSUME r.op = "abort", Busy(u0) PROVE FALSE
    <3>1. PICK l \in Links : doing[l] # "read" /\ Subject(l) = u0
      BY <2>1 DEF Busy
    <3>2. 1 \in 1..Len(inbox[l]) /\ inbox[l][1].op = "commit" /\ inbox[l][1].up = u0
      BY <3>1, Committing
    <3>3. inbox[k] \in Seq(Requests)
      BY <1>1 DEF MediaTypes, Boxes
    <3>4. 1 \in 1..Len(inbox[k]) /\ inbox[k][1] = r
      BY <1>2, <3>3, FirstOf
    <3>5. k = l /\ 1 < 1
      BY <1>1, <1>2, <2>1, <3>2, <3>4 DEF Lone
    <3>6. QED
      BY <3>5
  <2>2. QED
    BY <1>2, <1>3, <2>1 DEF Gone
<1>7. Tracked'
  <2> SUFFICES ASSUME NEW u \in DOMAIN uploads'
               PROVE  u \in pending' \/ \E l \in Links : doing'[l] = "claimed" /\ Subject(l)' = u
    BY DEF Tracked
  <2>1. CASE u \in DOMAIN uploads /\ u \notin pending
    <3>1. PICK l \in Links : doing[l] = "claimed" /\ Subject(l) = u
      BY <1>1, <2>1 DEF Tracked
    <3>2. QED
      BY <1>3, <3>1
  <2>2. QED
    BY <2>1
<1>8. /\ \A u \in stuck' : u \in stuck
      /\ \A u \in Uploads : inputs'[u] = IF verdict'[u] \in {"ok", "late"} THEN 1 ELSE 0
      /\ inputs' \in [Uploads -> Nat] /\ verdict' \in [Uploads -> {"none", "ok", "refused", "late"}] /\ stuck' \subseteq Uploads
      /\ \A u \in Uploads : ~(verdict'[u] # verdict[u])
      /\ r.op # "commit"
  BY <1>1, <1>2 DEF Decided, MediaTypes
<1>9. /\ \A u \in Uploads : verdict'[u] # verdict[u] => u = u0 /\ r.op = "commit"
      /\ \A u \in pending' : u \in pending \/ (u = u0 /\ r.op = "begin")
      /\ \A u \in stuck' : u \in stuck \/ (u = u0 /\ Gone(u0)')
      /\ r.op = "commit" => Gone(u0)' /\ (ok <=> verdict'[u0] = "ok")
  BY <1>2, <1>8
<1>10. r.op = "abort" => Gone(u0)'
  BY <1>6
<1>11. inbox[k] # <<>> /\ Reply(k, ok) /\ r = Head(inbox[k]) /\ u0 = Subject(k)
  BY <1>2
<1>12. IsFiniteSet(DOMAIN uploads') /\ uploads' = [u \in DOMAIN uploads' |-> uploads'[u]] /\ TypeOK'
  OBVIOUS
<1>13. QED
  BY <1>11, <1>3, <1>4, <1>5, <1>6, <1>7, <1>8, <1>9, <1>12, ReplyKeeps

\* begin_upload.
LEMMA ServeBeginKeeps == ASSUME MediaInv, NEW k \in Links, ServeBegin(k) PROVE MediaInv'
<1> DEFINE u == Subject(k)
<1>1. /\ Serves(k, "begin") /\ UNCHANGED <<stuck, media, inputs, verdict>>
      /\ \/ Reply(k, FALSE) /\ UNCHANGED <<uploads, old, staged, pending>>
         \/ Sweep(Swept, staged) /\ Reply(k, FALSE) /\ UNCHANGED pending
         \/ StorageBegin(u) /\ pending' = pending \cup {u} /\ Reply(k, TRUE)
  BY DEF ServeBegin
<1>2. /\ inbox[k] # <<>> /\ u \in Uploads /\ Gone(u) /\ doing[k] = "read"
  BY <1>1, NotCommitting
<1>3. CASE Reply(k, FALSE) /\ UNCHANGED <<uploads, old, staged, pending>>
  <2>1. \A l \in Links : doing'[l] # "read" => Serves(l, "commit")'
    BY <1>2, <1>3, AfterReply
  <2>2. TypeOK' /\ IsFiniteSet(DOMAIN uploads') /\ uploads' = [v \in DOMAIN uploads' |-> uploads'[v]]
    BY <1>1, <1>3, <2>1 DEF MediaInv, MediaTypes, HostInv, TypeOK
  <2>3. QED
    BY <1>1, <1>3, <2>2, PlainReplyKeeps
<1>4. CASE Sweep(Swept, staged) /\ Reply(k, FALSE) /\ UNCHANGED pending
  <2>1. \A l \in Links : doing'[l] # "read" => Serves(l, "commit")'
    BY <1>2, <1>4, AfterReply
  <2>2. /\ uploads' = Swept /\ DOMAIN uploads' = DOMAIN uploads \ old /\ old' = {}
        /\ staged' = (DOMAIN uploads \ old) \cup stuck' /\ uploads' = [v \in DOMAIN uploads' |-> uploads'[v]]
        /\ \A v \in DOMAIN uploads \ old : uploads'[v] \in 0..Chunks
    BY <1>1, <1>4, KnownFiles DEF Sweep
  <2>3. TypeOK' /\ IsFiniteSet(DOMAIN uploads')
    BY <2>1, <2>2, ListInOrder
  <2>4. QED
    BY <1>1, <1>4, <2>2, <2>3, PlainReplyKeeps
<1>5. CASE StorageBegin(u) /\ pending' = pending \cup {u} /\ Reply(k, TRUE)
  <2> DEFINE rest == DOMAIN uploads \ old
  <2>1. \A l \in Links : doing'[l] # "read" => Serves(l, "commit")'
    BY <1>2, <1>5, AfterReply
  <2>2. /\ Cardinality(rest) < Cap /\ uploads' = [v \in rest \cup {u} |-> IF v = u THEN 0 ELSE Swept[v]] /\ old' = {} /\ staged' = (staged \cup {u}) \ old
    BY <1>5, KnownFiles DEF StorageBegin, Sweep
  <2>3. /\ DOMAIN uploads' = rest \cup {u} /\ uploads' = [v \in DOMAIN uploads' |-> uploads'[v]]
        /\ \A v \in rest \cup {u} : uploads'[v] = IF v = u THEN 0 ELSE uploads[v]
    BY <1>2, <2>2, KnownFiles
  <2>4. /\ rest \subseteq DOMAIN uploads /\ u \notin DOMAIN uploads /\ staged' = (rest \cup {u}) \cup stuck'
    BY <1>1, <1>2, <2>2, KnownFiles
  <2>5. IsFiniteSet(rest)
    BY <2>4, KnownFiles, FS_Subset
  <2>6. IsFiniteSet(rest \cup {u}) /\ Cardinality(rest \cup {u}) = Cardinality(rest) + 1 /\ Cardinality(rest) \in Nat
    BY <2>4, <2>5, FS_AddElement, FS_CardinalityType
  <2>7. Cardinality(rest \cup {u}) <= Cap
    BY <2>2, <2>6, ConstantsAssumption
  <2> HIDE DEF rest
  <2>8. TypeOK'
    <3>1. rest \cup {u} \subseteq Uploads
      BY <1>2, <2>4, KnownFiles
    <3>2. \A v \in rest \cup {u} : uploads'[v] \in 0..Chunks
      BY <2>3, <2>4, KnownFiles, ConstantsAssumption
    <3>3. QED
      BY <2>1, <2>2, <2>3, <2>4, <2>7, <3>1, <3>2 DEF TypeOK
  <2>9. IsFiniteSet(DOMAIN uploads')
    BY <2>3, <2>6
  <2>10. \A v \in DOMAIN uploads' : v \in pending' \/ (v \in DOMAIN uploads /\ (v \in pending => v \in pending'))
    BY <1>5, <2>3, <2>4
  <2>11. \A v \in pending' : v \in pending \/ v = u
    BY <1>5
  <2> HIDE DEF u
  <2>12. QED
    BY <1>1, <1>5, <2>3, <2>8, <2>9, <2>10, <2>11, PlainReplyKeeps DEF u
<1>6. QED
  BY <1>1, <1>3, <1>4, <1>5

\* write_chunk.
LEMMA ServeChunkKeeps == ASSUME MediaInv, NEW k \in Links, ServeChunk(k) PROVE MediaInv'
<1> DEFINE u == Subject(k)
           part == Head(inbox[k]).part
<1>1. /\ Serves(k, "chunk") /\ UNCHANGED <<pending, stuck, media, inputs, verdict>>
      /\ \/ Sweep(Swept, staged) /\ Reply(k, FALSE)
         \/ StorageChunk(u, part) /\ Reply(k, TRUE)
  BY DEF ServeChunk
<1>2. inbox[k] # <<>> /\ u \in Uploads /\ part \in 1..Chunks
  BY <1>1, NotCommitting
<1>3. PICK ok \in BOOLEAN : Reply(k, ok)
  BY <1>1
<1>4. \A l \in Links : doing'[l] # "read" => Serves(l, "commit")'
  BY <1>2, <1>3, AfterReply
<1>5. /\ DOMAIN uploads' = DOMAIN uploads \ old /\ old' = {}
      /\ staged' = (DOMAIN uploads \ old) \cup stuck' /\ uploads' = [v \in DOMAIN uploads' |-> uploads'[v]]
      /\ \A v \in DOMAIN uploads \ old : uploads'[v] \in 0..Chunks
  <2>1. staged \ old = (DOMAIN uploads \ old) \cup stuck'
    BY <1>1, KnownFiles
  <2>2. CASE Sweep(Swept, staged)
    BY <2>1, <2>2, KnownFiles DEF Sweep
  <2>3. CASE StorageChunk(u, part)
    <3>1. uploads' = [Swept EXCEPT ![u] = part] /\ old' = {} /\ staged' = staged \ old /\ part \in 0..Chunks
      BY <1>2, <2>3 DEF StorageChunk, Sweep
    <3> HIDE DEF u, part
    <3>2. QED
      BY <2>1, <3>1, KnownFiles
  <2>4. QED
    BY <1>1, <2>2, <2>3
<1>6. TypeOK' /\ IsFiniteSet(DOMAIN uploads')
  BY <1>4, <1>5, ListInOrder
<1>7. QED
  BY <1>1, <1>3, <1>5, <1>6, PlainReplyKeeps

\* The abort of an upload.
LEMMA ServeAbortKeeps == ASSUME MediaInv, NEW k \in Links, ServeAbort(k) PROVE MediaInv'
<1> DEFINE u == Subject(k)
<1>1. /\ Serves(k, "abort") /\ UNCHANGED <<stuck, media, inputs, verdict>>
      /\ StorageAbort(u) /\ pending' = pending \ {u} /\ Reply(k, TRUE)
  BY DEF ServeAbort
<1>2. inbox[k] # <<>> /\ u \in Uploads
  BY <1>1, NotCommitting
<1>3. \A l \in Links : doing'[l] # "read" => Serves(l, "commit")'
  BY <1>1, <1>2, AfterReply
<1>4. /\ uploads' = [v \in DOMAIN uploads \ {u} |-> uploads[v]] /\ old' = old \ {u}
      /\ staged' = IF u \in DOMAIN uploads THEN staged \ {u} ELSE staged
  BY <1>1 DEF StorageAbort, Restrict
<1>5. /\ DOMAIN uploads' = DOMAIN uploads \ {u} /\ old' \subseteq DOMAIN uploads \ {u}
      /\ staged' = (DOMAIN uploads \ {u}) \cup stuck' /\ uploads' = [v \in DOMAIN uploads' |-> uploads'[v]]
      /\ \A v \in DOMAIN uploads \ {u} : uploads'[v] \in 0..Chunks
  BY <1>1, <1>4, KnownFiles
<1>6. TypeOK' /\ IsFiniteSet(DOMAIN uploads')
  BY <1>3, <1>5, ListInOrder
<1>7. QED
  BY <1>1, <1>5, <1>6, PlainReplyKeeps

\* With the answer to its commit the host is done with an upload.
LEMMA CommitOver ==
    ASSUME MediaInv, NEW k \in Links, Serves(k, "commit"), NEW ok, Reply(k, ok), NEW u0, u0 = Subject(k),
           pending' = pending \ {u0}
    PROVE  /\ inbox[k] # <<>> /\ Head(inbox[k]).op = "commit" /\ u0 \in Uploads
           /\ verdict[u0] = "none" /\ inputs[u0] = 0
           /\ Gone(u0)'
           /\ \A u : Gone(u) => Gone(u)'
<1>1. /\ inbox[k] # <<>> /\ Head(inbox[k]).op = "commit" /\ u0 = Head(inbox[k]).up /\ u0 \in Uploads
  BY NotCommitting
<1>2. inbox[k] \in Seq(Requests) /\ Decided /\ Lone(inbox)
  BY DEF MediaInv, MediaTypes, Boxes, HostInv
<1>3. 1 \in 1..Len(inbox[k]) /\ inbox[k][1].op = "commit" /\ inbox[k][1].up = u0
  BY <1>1, <1>2, FirstOf
<1>4. verdict[u0] = "none" /\ inputs[u0] = 0
  <2>1. ~NotAsked("commit", u0)
    BY <1>3 DEF NotAsked, Absent
  <2>2. QED
    BY <1>1, <1>2, <2>1 DEF Decided
<1>5. ~Busy(u0)'
  <2>1. CASE doing[k] # "read"
    BY <1>1, <2>1, WorkAfterReply
  <2>2. CASE doing[k] = "read"
    <3>1. ASSUME Busy(u0) PROVE FALSE
      <4>1. PICK l \in Links : doing[l] # "read" /\ Subject(l) = u0
        BY <3>1 DEF Busy
      <4>2. 1 \in 1..Len(inbox[l]) /\ inbox[l][1].op = "commit" /\ inbox[l][1].up = u0
        BY <4>1, Committing
      <4>3. k = l
        BY <1>2, <1>3, <4>2 DEF Lone
      <4>4. QED
        BY <2>2, <4>1, <4>3
    <3>2. QED
      BY <1>1, <3>1, WorkAfterReply
  <2>3. QED
    BY <2>1, <2>2
<1>6. \A u : Busy(u)' => Busy(u)
  BY <1>1, WorkAfterReply
<1>7. QED
  BY <1>1, <1>4, <1>5, <1>6 DEF Gone

\* A step that answers a commit.
LEMMA CommitReplyKeeps ==
    ASSUME MediaInv, NEW k \in Links, Serves(k, "commit"), NEW ok \in BOOLEAN, Reply(k, ok),
           NEW u0, u0 = Subject(k), pending' = pending \ {u0},
           \A u \in stuck' : u \in stuck \/ u = u0,
           \A u \in Uploads : u # u0 => verdict'[u] = verdict[u] /\ inputs'[u] = inputs[u],
           doing[k] = "read" => verdict' = verdict, ok <=> verdict'[u0] = "ok",
           inputs'[u0] = IF verdict'[u0] \in {"ok", "late"} THEN 1 ELSE 0,
           TypeOK', FilesAgree', Tracked',
           inputs' \in [Uploads -> Nat], verdict' \in [Uploads -> {"none", "ok", "refused", "late"}],
           stuck' \subseteq Uploads,
           uploads' = [u \in DOMAIN uploads' |-> uploads'[u]], IsFiniteSet(DOMAIN uploads')
    PROVE  MediaInv'
<1> SUFFICES ASSUME NEW r, r = Head(inbox[k]) PROVE MediaInv'
  OBVIOUS
<1>1. /\ inbox[k] # <<>> /\ r.op = "commit" /\ u0 \in Uploads /\ Gone(u0)' /\ inputs[u0] = 0
      /\ \A u : Gone(u) => Gone(u)'
  BY CommitOver
<1>2. Decided /\ TypeOK /\ Taken
  BY DEF MediaInv, HostInv
<1>3. \A u \in Uploads : Gone(u) /\ (u # u0 \/ r.op # "begin") => Gone(u)' /\ verdict'[u] = verdict[u]
  <2> SUFFICES ASSUME NEW u \in Uploads, Gone(u) PROVE Gone(u)' /\ verdict'[u] = verdict[u]
    OBVIOUS
  <2>1. CASE u = u0
    <3>1. doing[k] = "read"
      BY <2>1 DEF Gone, Busy
    <3>2. QED
      BY <1>1, <2>1, <3>1
  <2>2. CASE u # u0
    BY <1>1, <2>2
  <2>3. QED
    BY <2>1, <2>2
<1>4. /\ \A u \in Uploads : verdict'[u] # verdict[u] => u = u0 /\ r.op = "commit"
      /\ r.op = "begin" /\ ~ok => Gone(u0)'
      /\ r.op = "commit" => Gone(u0)' /\ (ok <=> verdict'[u0] = "ok")
      /\ r.op = "abort" => Gone(u0)'
      /\ \A u \in stuck' : u \in stuck \/ (u = u0 /\ Gone(u0)')
      /\ \A u \in pending' : u \in pending \/ (u = u0 /\ r.op = "begin")
  BY <1>1
<1>5. \A u \in Uploads : inputs'[u] = IF verdict'[u] \in {"ok", "late"} THEN 1 ELSE 0
  BY <1>1, <1>2 DEF Decided
<1>6. inbox[k] # <<>> /\ Reply(k, ok) /\ r = Head(inbox[k]) /\ u0 = Subject(k)
  BY <1>1
<1>7. IsFiniteSet(DOMAIN uploads') /\ uploads' = [u \in DOMAIN uploads' |-> uploads'[u]] /\ TypeOK' /\ FilesAgree' /\ Tracked'
  OBVIOUS
<1>8. QED
  BY <1>3, <1>4, <1>5, <1>6, <1>7, ReplyKeeps

\* The first lock of commit_upload.
LEMMA ClaimKeeps == ASSUME MediaInv, NEW k \in Links, Claim(k) PROVE MediaInv'
<1> SUFFICES ASSUME NEW u0, u0 = Subject(k) PROVE MediaInv'
  OBVIOUS
<1>1. /\ Serves(k, "commit") /\ doing[k] = "read" /\ pending' = pending \ {u0}
      /\ UNCHANGED <<uploads, old, staged, stuck, media, inputs, verdict>>
      /\ \/ /\ u0 \in pending /\ doing' = [doing EXCEPT ![k] = "claimed"]
            /\ UNCHANGED <<caller, inbox, outbox>>
         \/ u0 \notin pending /\ Reply(k, FALSE)
  BY DEF Claim
<1>2. /\ MediaTypes /\ TypeOK /\ FilesAgree /\ Taken /\ Tracked
      /\ uploads = [u \in DOMAIN uploads |-> uploads[u]] /\ IsFiniteSet(DOMAIN uploads)
      /\ doing \in [Links -> {"read", "claimed", "sealed"}]
      /\ inputs \in [Uploads -> Nat] /\ verdict \in [Uploads -> {"none", "ok", "refused", "late"}] /\ stuck \subseteq Uploads
  BY DEF MediaInv, MediaTypes, HostInv
<1>3. uploads' = [u \in DOMAIN uploads' |-> uploads'[u]] /\ IsFiniteSet(DOMAIN uploads')
  BY <1>1, <1>2
<1>4. CASE u0 \in pending /\ doing' = [doing EXCEPT ![k] = "claimed"] /\ UNCHANGED <<caller, inbox, outbox>>
  <2>1. /\ doing' \in [Links -> {"read", "claimed", "sealed"}] /\ doing'[k] = "claimed"
        /\ \A l \in Links : l # k => doing'[l] = doing[l]
        /\ \A l : Subject(l)' = Subject(l)
        /\ \A l : Serves(l, "commit")' <=> Serves(l, "commit")
    BY <1>2, <1>4 DEF Subject, Serves
  <2>2. \A u : Busy(u)' <=> Busy(u) \/ u = u0
    BY <1>1, <2>1 DEF Busy
  <2>3. \A u : Gone(u)' <=> Gone(u)
    BY <1>1, <1>4, <2>2 DEF Gone
  <2>4. TypeOK'
    BY <1>1, <1>2, <2>1 DEF TypeOK
  <2>5. FilesAgree'
    BY <1>1, <1>2, <2>1 DEF FilesAgree
  <2>6. Taken'
    BY <1>1, <1>2, <2>1 DEF Taken
  <2>7. Tracked'
    BY <1>1, <1>2, <2>1 DEF Tracked
  <2>8. pending' \subseteq pending
    BY <1>1
  <2>9. QED
    BY <1>1, <1>3, <1>4, <2>1, <2>3, <2>4, <2>5, <2>6, <2>7, <2>8, WorkKeeps
<1>5. CASE u0 \notin pending /\ Reply(k, FALSE)
  <2>1. /\ inbox[k] # <<>> /\ u0 \in Uploads /\ verdict[u0] = "none" /\ inputs[u0] = 0
    BY <1>1, <1>5, CommitOver
  <2>2. FilesAgree' /\ \A l \in Links : doing[l] = "claimed" => doing'[l] = "claimed" /\ Subject(l)' = Subject(l)
    BY <1>1, <1>5, <2>1, CommitsAside
  <2>3. \A l \in Links : doing'[l] # "read" => Serves(l, "commit")'
    BY <1>5, <2>1, AfterReply
  <2>4. TypeOK'
    BY <1>1, <1>2, <2>3 DEF TypeOK
  <2>5. Tracked'
    BY <1>1, <1>2, <1>5, <2>2 DEF Tracked
  <2>6. /\ inputs' \in [Uploads -> Nat] /\ verdict' \in [Uploads -> {"none", "ok", "refused", "late"}] /\ stuck' \subseteq Uploads
        /\ \A u \in stuck' : u \in stuck \/ u = u0
        /\ \A u \in Uploads : u # u0 => verdict'[u] = verdict[u] /\ inputs'[u] = inputs[u]
        /\ doing[k] = "read" => verdict' = verdict
        /\ FALSE <=> verdict'[u0] = "ok"
        /\ inputs'[u0] = IF verdict'[u0] \in {"ok", "late"} THEN 1 ELSE 0
    BY <1>1, <1>2, <2>1
  <2>7. QED
    BY <1>1, <1>3, <1>5, <2>2, <2>4, <2>5, <2>6, CommitReplyKeeps
<1>6. QED
  BY <1>1, <1>4, <1>5

\* An upload becomes old.
LEMMA AgeKeeps == ASSUME MediaInv, NEW u0 \in Uploads, Age(u0) PROVE MediaInv'
<1>1. /\ u0 \in DOMAIN uploads /\ old' = old \cup {u0} /\ uploads' = uploads /\ doing' = doing /\ inbox' = inbox
      /\ UNCHANGED <<caller, inbox, doing, outbox, uploads, pending, staged, stuck, media, inputs, verdict>>
  BY DEF Age
<1>2. /\ MediaTypes /\ TypeOK /\ FilesAgree /\ Taken /\ Tracked
      /\ uploads = [u \in DOMAIN uploads |-> uploads[u]] /\ IsFiniteSet(DOMAIN uploads)
      /\ doing \in [Links -> {"read", "claimed", "sealed"}]
  BY DEF MediaInv, MediaTypes, HostInv
<1>3. uploads' = [u \in DOMAIN uploads' |-> uploads'[u]] /\ IsFiniteSet(DOMAIN uploads')
  BY <1>1, <1>2
<1>4. \A l : Subject(l)' = Subject(l) /\ (Serves(l, "commit")' <=> Serves(l, "commit"))
  BY <1>1 DEF Subject, Serves
<1>5. TypeOK'
  BY <1>1, <1>2, <1>4 DEF TypeOK
<1>6. FilesAgree' /\ Taken' /\ Tracked'
  BY <1>1, <1>2, <1>4 DEF FilesAgree, Taken, Tracked
<1>7. \A u : Gone(u)' <=> Gone(u)
  BY <1>1, <1>4 DEF Gone, Busy
<1>8. QED
  BY <1>1, <1>2, <1>3, <1>5, <1>6, <1>7, WorkKeeps

\* A commit that the storage has refused.
LEMMA SealFailsKeeps ==
    ASSUME MediaInv, NEW k \in Links, Serves(k, "commit"), doing[k] = "claimed", Reply(k, FALSE),
           UNCHANGED <<pending, media, inputs, verdict>>,
           stuck' \subseteq stuck \cup {Subject(k)},
           Subject(k) \notin DOMAIN uploads', DOMAIN uploads' \subseteq DOMAIN uploads,
           uploads' = [u \in DOMAIN uploads' |-> uploads'[u]],
           \A u \in DOMAIN uploads' : uploads'[u] \in 0..Chunks,
           old' = {}, staged' = DOMAIN uploads' \cup stuck'
    PROVE  MediaInv'
<1> SUFFICES ASSUME NEW u0, u0 = Subject(k) PROVE MediaInv'
  OBVIOUS
<1>1. /\ MediaTypes /\ TypeOK /\ FilesAgree /\ Taken /\ Tracked
      /\ inputs \in [Uploads -> Nat] /\ verdict \in [Uploads -> {"none", "ok", "refused", "late"}] /\ stuck \subseteq Uploads
  BY DEF MediaInv, MediaTypes, HostInv
<1>2. pending' = pending \ {u0}
  BY <1>1 DEF Taken
<1>3. /\ inbox[k] # <<>> /\ u0 \in Uploads /\ verdict[u0] = "none" /\ inputs[u0] = 0
  BY <1>2, CommitOver
<1>4. /\ doing'[k] = "read"
      /\ \A l \in Links : l # k => doing'[l] = doing[l] /\ Subject(l)' = Subject(l)
      /\ \A l \in Links : doing'[l] # "read" => Serves(l, "commit")'
  BY <1>3, AfterReply
<1>5. FilesAgree'
  <2>1. \A u \in Uploads : (\E l \in Links : doing'[l] = "sealed" /\ Subject(l)' = u)
                              <=> \E l \in Links : doing[l] = "sealed" /\ Subject(l) = u
    BY <1>4
  <2>2. QED
    BY <1>1, <2>1 DEF FilesAgree
<1>6. Tracked'
  BY <1>1, <1>4 DEF Tracked
<1>7. TypeOK' /\ IsFiniteSet(DOMAIN uploads')
  <2> DEFINE kept == DOMAIN uploads'
  <2>1. /\ kept \subseteq DOMAIN uploads /\ DOMAIN uploads' = kept
        /\ (\A u \in kept : uploads'[u] \in 0..Chunks) /\ old' \subseteq kept /\ staged' = kept \cup stuck'
    OBVIOUS
  <2> HIDE DEF kept
  <2>2. QED
    BY <1>4, <2>1, ListInOrder
<1>8. /\ inputs' \in [Uploads -> Nat] /\ verdict' \in [Uploads -> {"none", "ok", "refused", "late"}] /\ stuck' \subseteq Uploads
      /\ \A u \in stuck' : u \in stuck \/ u = u0
      /\ \A u \in Uploads : u # u0 => verdict'[u] = verdict[u] /\ inputs'[u] = inputs[u]
      /\ doing[k] = "read" => verdict' = verdict
      /\ FALSE <=> verdict'[u0] = "ok"
      /\ inputs'[u0] = IF verdict'[u0] \in {"ok", "late"} THEN 1 ELSE 0
  BY <1>1, <1>3
<1>9. QED
  BY <1>2, <1>5, <1>6, <1>7, <1>8, CommitReplyKeeps

\* A commit whose file is moved to the media directory.
LEMMA SealMovesKeeps ==
    ASSUME MediaInv, NEW k \in Links, Serves(k, "commit"), doing[k] = "claimed",
           NEW u0, u0 = Subject(k), u0 \in DOMAIN uploads,
           doing' = [doing EXCEPT ![k] = "sealed"], media' = media \cup {u0},
           UNCHANGED <<stuck, caller, inbox, outbox, pending, inputs, verdict>>,
           u0 \notin DOMAIN uploads', DOMAIN uploads' \subseteq DOMAIN uploads,
           uploads' = [u \in DOMAIN uploads' |-> uploads'[u]],
           \A u \in DOMAIN uploads' : uploads'[u] \in 0..Chunks,
           old' = {}, staged' = DOMAIN uploads' \cup stuck'
    PROVE  MediaInv'
<1>1. /\ MediaTypes /\ TypeOK /\ FilesAgree /\ Taken /\ Tracked /\ doing \in [Links -> {"read", "claimed", "sealed"}]
  BY DEF MediaInv, MediaTypes, HostInv
<1>2. /\ doing' \in [Links -> {"read", "claimed", "sealed"}] /\ doing'[k] = "sealed"
      /\ \A l \in Links : l # k => doing'[l] = doing[l]
      /\ \A l : Subject(l)' = Subject(l)
      /\ \A l : Serves(l, "commit")' <=> Serves(l, "commit")
  BY <1>1 DEF Subject, Serves
<1>3. \A u : Gone(u)' <=> Gone(u)
  BY <1>2 DEF Gone, Busy
<1>4. FilesAgree'
  BY <1>1, <1>2 DEF FilesAgree
<1>5. Taken'
  BY <1>1, <1>2 DEF Taken
<1>6. Tracked'
  BY <1>1, <1>2 DEF Tracked
<1>7. TypeOK' /\ IsFiniteSet(DOMAIN uploads')
  <2> DEFINE kept == DOMAIN uploads'
  <2>1. /\ kept \subseteq DOMAIN uploads /\ DOMAIN uploads' = kept
        /\ (\A u \in kept : uploads'[u] \in 0..Chunks) /\ old' \subseteq kept /\ staged' = kept \cup stuck'
    OBVIOUS
  <2>2. \A l \in Links : doing'[l] # "read" => Serves(l, "commit")'
    BY <1>1, <1>2 DEF TypeOK
  <2> HIDE DEF kept
  <2>3. QED
    BY <2>1, <2>2, ListInOrder
<1>8. pending' \subseteq pending
  OBVIOUS
<1>9. QED
  BY <1>2, <1>3, <1>4, <1>5, <1>6, <1>7, <1>8, WorkKeeps

\* The second lock of commit_upload, in the storage.
LEMMA SealKeeps == ASSUME MediaInv, NEW k \in Links, Seal(k) PROVE MediaInv'
<1> DEFINE u0 == Subject(k)
           rest == Restrict(Swept, DOMAIN Swept \ {u0})
<1>1. /\ Serves(k, "commit") /\ doing[k] = "claimed" /\ UNCHANGED <<pending, inputs, verdict>>
      /\ \/ u0 \notin DOMAIN Swept /\ Sweep(Swept, staged) /\ Reply(k, FALSE) /\ UNCHANGED <<stuck, media>>
         \/ Sweep(rest, staged \ {u0}) /\ Reply(k, FALSE) /\ UNCHANGED <<stuck, media>>
         \/ u0 \in DOMAIN Swept /\ Sweep(rest, staged) /\ Reply(k, FALSE) /\ stuck' = stuck \cup {u0} /\ UNCHANGED media
         \/ /\ u0 \in DOMAIN Swept /\ Sweep(rest, staged \ {u0}) /\ media' = media \cup {u0}
            /\ doing' = [doing EXCEPT ![k] = "sealed"] /\ UNCHANGED <<stuck, caller, inbox, outbox>>
  BY DEF Seal
<1>2. /\ rest = [u \in (DOMAIN uploads \ old) \ {u0} |-> uploads[u]] /\ DOMAIN rest = (DOMAIN uploads \ old) \ {u0}
      /\ DOMAIN Swept = DOMAIN uploads \ old /\ \A u \in DOMAIN Swept : Swept[u] = uploads[u]
      /\ Swept = [u \in DOMAIN Swept |-> Swept[u]]
      /\ staged = DOMAIN uploads \cup stuck /\ stuck \cap DOMAIN uploads = {} /\ old \subseteq DOMAIN uploads
      /\ \A u \in DOMAIN uploads : uploads[u] \in 0..Chunks
  BY KnownFiles DEF Restrict
<1>3. u0 \notin stuck
  <2>1. doing[k] # "read"
    BY <1>1
  <2>2. Busy(u0)
    BY <2>1 DEF Busy
  <2>3. QED
    BY <2>2 DEF MediaInv, HostInv, StuckIsOver, Gone
<1> HIDE DEF u0, rest
<1>4. /\ rest = [u \in DOMAIN rest |-> rest[u]] /\ \A u \in DOMAIN rest : rest[u] \in 0..Chunks
      /\ \A u \in DOMAIN Swept : Swept[u] \in 0..Chunks
  BY <1>2
<1>5. CASE u0 \notin DOMAIN Swept /\ Sweep(Swept, staged) /\ Reply(k, FALSE) /\ UNCHANGED <<stuck, media>>
  <2>1. /\ uploads' = Swept /\ old' = {} /\ staged' = staged \ old /\ stuck' = stuck
    BY <1>5 DEF Sweep
  <2>2. staged' = DOMAIN uploads' \cup stuck' /\ DOMAIN uploads' \subseteq DOMAIN uploads
    BY <1>2, <2>1
  <2>3. /\ uploads' = [u \in DOMAIN uploads' |-> uploads'[u]]
        /\ \A u \in DOMAIN uploads' : uploads'[u] \in 0..Chunks
    BY <1>2, <1>4, <2>1
  <2>4. stuck' \subseteq stuck \cup {u0} /\ u0 \notin DOMAIN uploads' /\ UNCHANGED media
    BY <1>5, <2>1, <2>2
  <2>5. QED
    BY <1>1, <1>5, <2>1, <2>2, <2>3, <2>4, SealFailsKeeps DEF u0
<1>6. CASE Sweep(rest, staged \ {u0}) /\ Reply(k, FALSE) /\ UNCHANGED <<stuck, media>>
  <2>1. /\ uploads' = rest /\ old' = {} /\ staged' = (staged \ {u0}) \ old /\ stuck' = stuck
    BY <1>6 DEF Sweep
  <2>2. staged' = DOMAIN uploads' \cup stuck' /\ DOMAIN uploads' \subseteq DOMAIN uploads /\ u0 \notin DOMAIN uploads'
    BY <1>2, <1>3, <2>1
  <2>3. /\ uploads' = [u \in DOMAIN uploads' |-> uploads'[u]]
        /\ \A u \in DOMAIN uploads' : uploads'[u] \in 0..Chunks
    BY <1>2, <1>4, <2>1
  <2>4. stuck' \subseteq stuck \cup {u0} /\ u0 \notin DOMAIN uploads' /\ UNCHANGED media
    BY <1>6, <2>1, <2>2
  <2>5. QED
    BY <1>1, <1>6, <2>1, <2>2, <2>3, <2>4, SealFailsKeeps DEF u0
<1>7. CASE u0 \in DOMAIN Swept /\ Sweep(rest, staged) /\ Reply(k, FALSE) /\ stuck' = stuck \cup {u0} /\ UNCHANGED media
  <2>1. /\ uploads' = rest /\ old' = {} /\ staged' = staged \ old
    BY <1>7 DEF Sweep
  <2>2. staged' = DOMAIN uploads' \cup stuck' /\ DOMAIN uploads' \subseteq DOMAIN uploads /\ u0 \notin DOMAIN uploads'
    BY <1>2, <1>3, <1>7, <2>1
  <2>3. /\ uploads' = [u \in DOMAIN uploads' |-> uploads'[u]]
        /\ \A u \in DOMAIN uploads' : uploads'[u] \in 0..Chunks
    BY <1>2, <1>4, <2>1
  <2>4. stuck' \subseteq stuck \cup {u0} /\ u0 \notin DOMAIN uploads' /\ UNCHANGED media
    BY <1>7, <2>1, <2>2
  <2>5. QED
    BY <1>1, <1>7, <2>1, <2>2, <2>3, <2>4, SealFailsKeeps DEF u0
<1>8. CASE /\ u0 \in DOMAIN Swept /\ Sweep(rest, staged \ {u0}) /\ media' = media \cup {u0}
           /\ doing' = [doing EXCEPT ![k] = "sealed"] /\ UNCHANGED <<stuck, caller, inbox, outbox>>
  <2>1. /\ uploads' = rest /\ old' = {} /\ staged' = (staged \ {u0}) \ old /\ stuck' = stuck
    BY <1>8 DEF Sweep
  <2>2. staged' = DOMAIN uploads' \cup stuck' /\ DOMAIN uploads' \subseteq DOMAIN uploads /\ u0 \notin DOMAIN uploads' /\ u0 \in DOMAIN uploads
    BY <1>2, <1>3, <1>8, <2>1
  <2>3. QED
    BY <1>1, <1>2, <1>4, <1>8, <2>1, <2>2, SealMovesKeeps DEF u0
<1>9. QED
  BY <1>1, <1>5, <1>6, <1>7, <1>8

\* The third lock of commit_upload, in the session.
LEMMA AddKeeps == ASSUME MediaInv, NEW k \in Links, Add(k) PROVE MediaInv'
<1> SUFFICES ASSUME NEW u0, u0 = Subject(k) PROVE MediaInv'
  OBVIOUS
<1>1. PICK v \in {"ok", "refused", "late"} :
              /\ verdict' = [verdict EXCEPT ![u0] = v]
              /\ inputs' = IF v = "refused" THEN inputs ELSE [inputs EXCEPT ![u0] = @ + 1]
              /\ media' = IF v = "ok" THEN media ELSE media \ {u0}
              /\ Reply(k, v = "ok")
  BY DEF Add
<1>2. Serves(k, "commit") /\ doing[k] = "sealed" /\ UNCHANGED <<uploads, old, pending, staged, stuck>>
  BY DEF Add
<1>3. /\ MediaTypes /\ TypeOK /\ FilesAgree /\ Taken /\ Tracked
      /\ inputs \in [Uploads -> Nat] /\ verdict \in [Uploads -> {"none", "ok", "refused", "late"}] /\ stuck \subseteq Uploads
      /\ uploads = [u \in DOMAIN uploads |-> uploads[u]] /\ IsFiniteSet(DOMAIN uploads)
  BY DEF MediaInv, MediaTypes, HostInv
<1>4. pending' = pending \ {u0}
  BY <1>2, <1>3 DEF Taken
<1> DEFINE ok == v = "ok"
<1>5. ok \in BOOLEAN /\ Reply(k, ok) /\ (ok <=> v = "ok")
  BY <1>1
<1> HIDE DEF ok
<1>6. inbox[k] # <<>> /\ u0 \in Uploads /\ verdict[u0] = "none" /\ inputs[u0] = 0 /\ Gone(u0)'
  BY <1>2, <1>4, <1>5, CommitOver
<1>7. /\ doing'[k] = "read"
      /\ \A l \in Links : l # k => doing'[l] = doing[l] /\ Subject(l)' = Subject(l)
      /\ \A l \in Links : doing'[l] # "read" => Serves(l, "commit")'
  BY <1>5, <1>6, AfterReply
<1>8. /\ verdict'[u0] = v /\ inputs'[u0] = IF v = "refused" THEN 0 ELSE 1
      /\ \A u \in Uploads : u # u0 => verdict'[u] = verdict[u] /\ inputs'[u] = inputs[u]
      /\ inputs' \in [Uploads -> Nat] /\ verdict' \in [Uploads -> {"none", "ok", "refused", "late"}]
  <2>1. verdict'[u0] = v /\ (\A u \in Uploads : u # u0 => verdict'[u] = verdict[u]) /\ verdict' \in [Uploads -> {"none", "ok", "refused", "late"}]
    BY <1>1, <1>3, <1>6
  <2>2. CASE v = "refused"
    BY <1>1, <1>3, <1>6, <2>1, <2>2
  <2>3. CASE v # "refused"
    BY <1>1, <1>3, <1>6, <2>1, <2>3
  <2>4. QED
    BY <2>2, <2>3
<1>9. FilesAgree'
  <2> SUFFICES ASSUME NEW u \in Uploads
               PROVE  u \in media' <=> verdict'[u] = "ok" \/ \E l \in Links : doing'[l] = "sealed" /\ Subject(l)' = u
    BY DEF FilesAgree
  <2>1. CASE u = u0
    <3>1. ~\E l \in Links : doing'[l] = "sealed" /\ Subject(l)' = u0
      BY <1>6 DEF Gone, Busy
    <3>2. u0 \in media
      BY <1>2, <1>3, <1>6 DEF FilesAgree
    <3>3. QED
      BY <1>1, <1>8, <2>1, <3>1, <3>2
  <2>2. CASE u # u0
    <3>1. u \in media' <=> u \in media
      BY <1>1, <2>2
    <3>2. (\E l \in Links : doing'[l] = "sealed" /\ Subject(l)' = u) <=> \E l \in Links : doing[l] = "sealed" /\ Subject(l) = u
      BY <1>7, <2>2
    <3>3. QED
      BY <1>3, <1>8, <2>2, <3>1, <3>2 DEF FilesAgree
  <2>3. QED
    BY <2>1, <2>2
<1>10. Tracked'
  BY <1>2, <1>3, <1>7 DEF Tracked
<1>11. TypeOK'
  BY <1>2, <1>3, <1>7 DEF TypeOK
<1>12. /\ stuck' \subseteq Uploads /\ \A u \in stuck' : u \in stuck \/ u = u0
       /\ doing[k] = "read" => verdict' = verdict
       /\ ok <=> verdict'[u0] = "ok"
       /\ inputs'[u0] = IF verdict'[u0] \in {"ok", "late"} THEN 1 ELSE 0
       /\ uploads' = [u \in DOMAIN uploads' |-> uploads'[u]] /\ IsFiniteSet(DOMAIN uploads')
  BY <1>1, <1>2, <1>3, <1>5, <1>8
<1>13. QED
  BY <1>2, <1>4, <1>5, <1>8, <1>9, <1>10, <1>11, <1>12, CommitReplyKeeps

-----------------------------------------------------------------------------
(* What the runs check of an upload, for every number of clients *)

\* At the start nothing is asked and nothing is kept.
LEMMA MediaStarts == Init => MediaInv
<1> SUFFICES ASSUME Init PROVE MediaInv
  OBVIOUS
<1>1. /\ client = [c \in Clients |-> [step |-> "idle", try |-> 0, part |-> 0, link |-> 1]]
      /\ told = [u \in Uploads |-> "none"] /\ inbox = [k \in Links |-> <<>>] /\ doing = [k \in Links |-> "read"]
      /\ outbox = [c \in Clients |-> <<>>] /\ uploads = << >> /\ old = {} /\ pending = {} /\ staged = {}
      /\ stuck = {} /\ media = {} /\ inputs = [u \in Uploads |-> 0] /\ verdict = [u \in Uploads |-> "none"]
  BY DEF Init
<1>2. DOMAIN uploads = {} /\ uploads = [u \in DOMAIN uploads |-> uploads[u]]
  BY <1>1
<1>3. IsFiniteSet(DOMAIN uploads) /\ Cardinality(DOMAIN uploads) = 0
  BY <1>2, FS_EmptySet
<1>4. /\ \A k \in Links : inbox[k] = <<>> /\ Len(inbox[k]) = 0 /\ doing[k] = "read"
      /\ \A c \in Clients : outbox[c] = <<>> /\ Len(outbox[c]) = 0 /\ client[c].step = "idle" /\ client[c].part = 0
                            /\ client[c].try = 0 /\ client[c].link = 1
      /\ \A c \in Clients : <<c, 1>> \in Links
  BY <1>1, ConstantsAssumption DEF Links
<1>5. MediaTypes
  <2>1. client \in [Clients -> ClientStates]
    <3>1. 1 \in 1..MaxLinks /\ 0 \in 0..MaxTries
      BY ConstantsAssumption
    <3>2. QED
      BY <1>1, <3>1 DEF ClientStates
  <2>2. inbox \in Boxes /\ outbox \in [Clients -> Seq(Answers)]
    BY <1>1 DEF Boxes
  <2>3. \A k \in Links : \A i \in 1..Len(inbox[k]) : FALSE
    BY <1>4
  <2>4. QED
    BY <1>1, <1>2, <1>3, <1>4, <2>1, <2>2, <2>3 DEF MediaTypes
<1>6. \A k \in Links : \A i \in 1..Len(inbox[k]) : FALSE
  BY <1>4
<1>7. (\A op, u : NotAsked(op, u)) /\ Lone(inbox) /\ Known
  BY <1>4, <1>6 DEF NotAsked, Absent, Lone, Known
<1>8. \A u : Gone(u)
  BY <1>1, <1>4 DEF Gone, Busy
<1>9. HostInv
  <2>1. TypeOK
    BY <1>1, <1>2, <1>3, <1>4, ConstantsAssumption DEF TypeOK
  <2>2. FilesAgree /\ Decided /\ Taken /\ Tracked /\ StuckIsOver
    BY <1>1, <1>2, <1>4, <1>7, <1>8 DEF FilesAgree, Decided, Taken, Tracked, StuckIsOver
  <2>3. QED
    BY <2>1, <2>2 DEF HostInv
<1>10. Fresh /\ ToldSo
  BY <1>1, <1>7, <1>8 DEF Fresh, ToldSo
<1>11. \A c \in Clients : Pipe(c) /\ Phase(c)
  <2> SUFFICES ASSUME NEW c \in Clients PROVE Pipe(c) /\ Phase(c)
    OBVIOUS
  <2>1. Here(c) = <<c, 1>> /\ Here(c) \in Links
    BY <1>4 DEF Here
  <2>2. Len(outbox[c]) = 0 /\ Len(inbox[Here(c)]) = 0
    BY <1>4, <2>1
  <2>3. Len(outbox[c]) + Len(inbox[Here(c)]) = 0
    BY <2>2
  <2>4. Size(c) = 0
    BY <2>3 DEF Size
  <2>5. QED
    BY <1>4, <2>4 DEF Pipe, Phase
<1>12. AnswersMean
  BY <1>4 DEF AnswersMean
<1>13. QED
  BY <1>5, <1>7, <1>9, <1>10, <1>11, <1>12 DEF MediaInv

\* A step of anything else changes nothing of this.
LEMMA MediaStutters == MediaInv /\ UNCHANGED vars => MediaInv'
<1> SUFFICES ASSUME MediaInv, UNCHANGED vars PROVE MediaInv'
  OBVIOUS
<1>1. UNCHANGED <<caller, inbox, outbox, stuck, inputs, verdict>> /\ pending' \subseteq pending /\ doing' = doing
      /\ uploads' = uploads /\ old' = old /\ staged' = staged /\ media' = media /\ pending' = pending
      /\ inbox' = inbox /\ verdict' = verdict /\ stuck' = stuck
  BY DEF vars, host
<1>2. /\ MediaTypes /\ TypeOK /\ FilesAgree /\ Taken /\ Tracked
      /\ uploads = [u \in DOMAIN uploads |-> uploads[u]] /\ IsFiniteSet(DOMAIN uploads)
      /\ doing \in [Links -> {"read", "claimed", "sealed"}]
  BY DEF MediaInv, MediaTypes, HostInv
<1>3. \A l : Subject(l)' = Subject(l) /\ (Serves(l, "commit")' <=> Serves(l, "commit"))
  BY <1>1 DEF Subject, Serves
<1>4. TypeOK' /\ FilesAgree' /\ Taken' /\ Tracked'
  BY <1>1, <1>2, <1>3 DEF TypeOK, FilesAgree, Taken, Tracked
<1>5. \A u : Gone(u)' <=> Gone(u)
  BY <1>1, <1>3 DEF Gone, Busy
<1>6. uploads' = [u \in DOMAIN uploads' |-> uploads'[u]] /\ IsFiniteSet(DOMAIN uploads') /\ doing' \in [Links -> {"read", "claimed", "sealed"}]
  BY <1>1, <1>2
<1>7. QED
  BY <1>1, <1>4, <1>5, <1>6, WorkKeeps

\* Every step keeps the invariant.
LEMMA MediaStep == MediaInv /\ [Next]_vars => MediaInv'
<1> SUFFICES ASSUME MediaInv, [Next]_vars PROVE MediaInv'
  OBVIOUS
<1>1. ASSUME NEW c \in Clients, Begin(c) \/ Receive(c) \/ Deadline(c) \/ Disconnect(c) PROVE MediaInv'
  BY <1>1, BeginKeeps, ReceiveKeeps, DeadlineKeeps, DisconnectKeeps
<1>2. ASSUME NEW k \in Links, Serve(k) PROVE MediaInv'
  BY <1>2, ServeBeginKeeps, ServeChunkKeeps, ServeAbortKeeps, ClaimKeeps, SealKeeps, AddKeeps DEF Serve
<1>3. ASSUME NEW u \in Uploads, Age(u) PROVE MediaInv'
  BY <1>3, AgeKeeps
<1>4. CASE UNCHANGED vars
  BY <1>4, MediaStutters
<1>5. QED
  BY <1>1, <1>2, <1>3, <1>4 DEF Next

\* What the invariant says of the files and of what the callers were told.
LEMMA MediaIsAccountedFor == MediaInv => FilesAccountedFor
<1> SUFFICES ASSUME MediaInv PROVE FilesAccountedFor
  OBVIOUS
<1>1. TypeOK /\ FilesAgree /\ Decided /\ ToldSo
  BY DEF MediaInv, HostInv
<1>2. ToldTruly
  BY <1>1 DEF Decided, ToldSo, FilesAgree, ToldTruly
<1>3. NothingLeftBehind
  <2> SUFFICES ASSUME NEW u \in Uploads, told[u] \in {"ok", "error", "timeout"}
               PROVE  u \notin DOMAIN uploads \cup pending \cup (staged \ stuck)
    BY DEF NothingLeftBehind
  <2>1. Gone(u)
    BY <1>1 DEF ToldSo
  <2>2. QED
    BY <2>1, KnownFiles DEF Gone
<1>4. QED
  BY <1>1, <1>2, <1>3 DEF FilesAccountedFor

(***************************************************************************)
(* Every file is accounted for: it is staged for an upload the host tracks *)
(* or stuck after a failed commit, in the media directory for an input, or *)
(* on its way there; what the caller of upload_file was told of it is so;  *)
(* and the host keeps nothing of an upload whose end it told               *)
(* (commit_upload, FileMediaStorage::begin, commit and abort).             *)
(***************************************************************************)
THEOREM UploadIsAccountedFor == Spec => []FilesAccountedFor
<1>1. Init => MediaInv
  BY MediaStarts
<1>2. MediaInv /\ [Next]_vars => MediaInv'
  BY MediaStep
<1>3. MediaInv => FilesAccountedFor
  BY MediaIsAccountedFor
<1>4. QED
  BY <1>1, <1>2, <1>3, PTL DEF Spec

\* An upload the host has nothing to do with is not added to the session.
LEMMA InputsStay ==
    ASSUME MediaInv, Next, NEW u \in Uploads, Gone(u)
    PROVE  inputs'[u] = inputs[u]
<1>1. ASSUME NEW c \in Clients, Begin(c) \/ Receive(c) \/ Deadline(c) \/ Disconnect(c) PROVE inputs' = inputs
  BY <1>1 DEF Begin, Receive, Deadline, Disconnect, host
<1>2. ASSUME NEW k \in Links, ServeBegin(k) \/ ServeChunk(k) \/ ServeAbort(k) \/ Claim(k) \/ Seal(k) PROVE inputs' = inputs
  BY <1>2 DEF ServeBegin, ServeChunk, ServeAbort, Claim, Seal
<1>3. ASSUME NEW k \in Links, Add(k) PROVE inputs'[u] = inputs[u]
  <2>1. doing[k] # "read" /\ \E v : inputs' = IF v = "refused" THEN inputs ELSE [inputs EXCEPT ![Subject(k)] = @ + 1]
    BY <1>3 DEF Add
  <2>2. u # Subject(k)
    BY <2>1 DEF Gone, Busy
  <2>3. inputs \in [Uploads -> Nat]
    BY DEF MediaInv, MediaTypes
  <2>4. QED
    BY <2>1, <2>2, <2>3
<1>4. ASSUME NEW v \in Uploads, Age(v) PROVE inputs' = inputs
  BY <1>4 DEF Age
<1>5. QED
  BY <1>1, <1>2, <1>3, <1>4 DEF Next, Serve

(***************************************************************************)
(* A caller that was told the end of its upload while its connection held  *)
(* does not see the input appear later: the host answers the abort only    *)
(* when a commit before it is over (upload_file, the AbortMediaUpload arm).*)
(***************************************************************************)
THEOREM UploadIsSettled == Spec => SettledWhenTold
<1> DEFINE Settled == \A u \in Uploads : told[u] \in {"ok", "error", "timeout"} => inputs'[u] = inputs[u]
<1>1. Init => MediaInv
  BY MediaStarts
<1>2. MediaInv /\ [Next]_vars => MediaInv'
  BY MediaStep
<1>3. MediaInv /\ [Next]_vars => [Settled]_vars
  <2> SUFFICES ASSUME MediaInv, Next, NEW u \in Uploads, told[u] \in {"ok", "error", "timeout"}
               PROVE  inputs'[u] = inputs[u]
    OBVIOUS
  <2>1. Gone(u)
    BY DEF MediaInv, ToldSo
  <2>2. QED
    BY <2>1, InputsStay
<1>4. QED
  BY <1>1, <1>2, <1>3, PTL DEF Spec, SettledWhenTold
=============================================================================
