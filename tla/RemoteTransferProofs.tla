------------------------- MODULE RemoteTransferProofs -------------------------
(***************************************************************************)
(* TLAPS proofs about RemoteTransfer, for any artifacts and any number of  *)
(* failures: the invariants, the two action properties and the refinement  *)
(* of RemoteCopy.                                                          *)
(***************************************************************************)
EXTENDS RemoteTransfer, TLAPS

Contents == {"none", "part", "foreign", "bytes", "n1", "n2"}
Workers == [op : {"idle", "put", "del"}, todo : SUBSET Files, file : Files \cup {None},
            name : Names, base : {"b1", "b2"}, late : BOOLEAN]
Readers == [op : {"idle", "audit", "recover"}, todo : SUBSET Files]

TransferTypes ==
    /\ proto \in {"ftp", "mounted"}
    /\ base \in {"b1", "b2"}
    /\ path \in {None, "b1", "b2"}
    /\ name \in Names
    /\ final \in [Files -> Contents]
    /\ w \in Workers
    /\ r \in Readers
    /\ faults \in Nat /\ harm \in Nat

\* An operation works on a recorded path.
PathRecorded == w.op # "idle" => path # None

\* Files are in a directory, which an upload that has dealt with one has made.
DirectoryHolds ==
    /\ ~ dir => \A f \in Files : final[f] = "none"
    /\ w.op = "put" /\ (w.todo # Files \/ w.file # None) => dir

\* The file under way is the one whose turn it is, and is not in place: unless
\* others touched it, FTP has nothing and a share a part under its final name.
FileUnderWay ==
    w.file # None =>
        /\ w.op = "put" /\ Turn(w.file) /\ RootReady /\ ValidPath
        /\ final[w.file] \notin Good(w.file)
        /\ w.late \/ final[w.file] = (IF proto = "ftp" THEN "none" ELSE "part")

\* What an upload is through with is in place, unless somebody harmed it since;
\* what a deletion is through with is gone, or somebody else's.
DoneFiles ==
    /\ w.op = "put" /\ intact => \A f \in Files \ w.todo : final[f] \in Good(f)
    /\ w.op = "del" => \A f \in Files \ w.todo : final[f] \in {"none", "foreign"}

\* As long as nobody harmed the copy: what was claimed or is being read is
\* complete, nobody touched the file under way, and a file that is not in place
\* is missing.  On a share it may be a part: the one under way, or one that a
\* fault left.
Unharmed ==
    ~ harmed =>
        /\ intact /\ ~ w.late
        /\ claim = "stored" \/ r.op # "idle" => \A f \in Files : final[f] \in Good(f)
        /\ \A f \in Files : final[f] \in Good(f) \cup {"none", "part"}
        /\ \A f \in Files : final[f] = "part" =>
              proto = "mounted" /\ (faults > 0 \/ w.file = f)

\* Nothing carries the new name before the device has it.
NameKnown == name = "n1" => w.name = "n1" /\ \A f \in Files : final[f] # "n2"

IInv ==
    /\ TransferTypes /\ PathRecorded /\ DirectoryHolds /\ FileUnderWay /\ DoneFiles
    /\ Unharmed /\ NameKnown /\ NoFalseAlarm /\ ConflictMeansForeign

-----------------------------------------------------------------------------
(* Files and contents *)

\* No file has the name of no file, and what a file may contain is never what
\* stands for an absent, an unfinished or a foreign one.
LEMMA FileFacts ==
    ASSUME NEW f \in Files
    PROVE  f # None /\ Good(f) \subseteq {"bytes", "n1", "n2"}
BY TransferAssumption DEF Files, None, Good, Names

\* What an upload writes is good, and carries the name it holds.
LEMMA MineIsGood ==
    ASSUME TransferTypes, NEW f \in Files
    PROVE  Mine(f) \in Good(f) /\ (Mine(f) = "n2" => w.name = "n2")
BY DEF TransferTypes, Workers, Names, Mine, Good

\* A good content is a content, and not one of the others.
LEMMA GoodContents ==
    ASSUME NEW f \in Files, NEW c \in Good(f)
    PROVE  c \in Contents /\ c \notin {"none", "part", "foreign"}
BY FileFacts DEF Contents

\* The idle worker has no file and the first name.
LEMMA IdleFacts ==
    /\ Idle \in Workers /\ Idle.op = "idle" /\ Idle.file = None /\ Idle.name = "n1"
    /\ Idle.late = FALSE
BY DEF Idle, Workers, Names

-----------------------------------------------------------------------------
(* The steps of an upload and of a deletion *)

\* An operation that ends without a claim leaves every file as it is, but for
\* the one under way; one that leaves a part has met a fault or others.
LEMMA EndStep ==
    ASSUME IInv, NEW outcome, End(outcome), dir' = dir,
           final' \in [Files -> Contents],
           \A g \in Files : final'[g] = final[g] \/ (g = w.file /\ final'[g] \in {"none", Mine(g)}),
           faults' \in Nat, faults' >= faults,
           w.file = None \/ faults' > faults \/ harmed,
           outcome \in {"conflict", "unread"} => ConflictMeansForeign'
    PROVE  IInv'
<1>1. /\ w' = Idle /\ last' = outcome
      /\ UNCHANGED <<proto, base, name, attached, path, claim, r, alarm, intact, harm, harmed>>
  BY DEF End, settings, reader, harms
<1>2. TransferTypes BY DEF IInv
<1>3. w.file = None \/ w.file \in Files BY <1>2 DEF TransferTypes, Workers
<1>4. w.file = None => final' = final
  BY <1>2, FileFacts DEF TransferTypes
<1>5. TransferTypes' BY <1>1, <1>2, IdleFacts DEF TransferTypes
<1>6. PathRecorded' BY <1>1, IdleFacts DEF IInv, PathRecorded
<1>7. DirectoryHolds'
  <2>1. ~ dir => w.file = None BY DEF IInv, DirectoryHolds, FileUnderWay
  <2> QED BY <1>1, <1>4, <2>1, IdleFacts DEF IInv, DirectoryHolds
<1>8. FileUnderWay' BY <1>1, IdleFacts DEF FileUnderWay
<1>9. DoneFiles' BY <1>1, IdleFacts DEF DoneFiles
<1>10. Unharmed'
  <2> SUFFICES ASSUME ~ harmed PROVE Unharmed'
    BY <1>1 DEF Unharmed
  <2>1. claim = "stored" \/ r.op # "idle" => w.file = None
    BY <1>3 DEF IInv, Unharmed, FileUnderWay
  <2>2. \A g \in Files : final'[g] \in Good(g) \cup {"none", "part"}
    BY <1>2, MineIsGood DEF IInv, Unharmed
  <2>3. ASSUME NEW g \in Files, final'[g] = "part"
        PROVE  proto = "mounted" /\ faults' > 0
    <3>1. final[g] = "part" BY <1>2, <2>3, MineIsGood, GoodContents
    <3>2. proto = "mounted" /\ (faults > 0 \/ w.file = g)
      BY <3>1 DEF IInv, Unharmed
    <3>3. faults > 0 => faults' > 0 BY <1>2 DEF TransferTypes
    <3>4. w.file = g => faults' > 0
      BY <1>2, FileFacts DEF TransferTypes
    <3> QED BY <3>2, <3>3, <3>4
  <2> QED BY <1>1, <1>4, <2>1, <2>2, <2>3, IdleFacts DEF IInv, Unharmed
<1>11. NameKnown'
  BY <1>1, <1>2, MineIsGood, IdleFacts DEF IInv, NameKnown
<1>12. NoFalseAlarm' BY <1>1 DEF IInv, NoFalseAlarm
<1>13. ConflictMeansForeign' BY <1>1 DEF ConflictMeansForeign
<1> QED BY <1>5, <1>6, <1>7, <1>8, <1>9, <1>10, <1>11, <1>12, <1>13 DEF IInv

\* The operations that end without a claim.  A conflict on FTP means that a file
\* is neither missing nor good; on a share the two excuses are the part that a
\* fault left and the manifest with the old name.
LEMMA EndsStep ==
    IInv /\ (Refused \/ RejectUnknown \/ Failures) => IInv'
<1> SUFFICES ASSUME IInv, Refused \/ RejectUnknown \/ Failures PROVE IInv'
  OBVIOUS
<1>1. TransferTypes BY DEF IInv
<1>2. faults \in Nat /\ final \in [Files -> Contents] BY <1>1 DEF TransferTypes
<1>3. CASE Refused
  <2>1. w.file = None BY <1>3 DEF Refused, IInv, FileUnderWay
  <2> QED BY <1>2, <1>3, <2>1, EndStep DEF Refused, server
<1>4. CASE RejectUnknown
  <2>1. w.file = None BY <1>4 DEF RejectUnknown, Writes, IInv, FileUnderWay
  <2> QED BY <1>2, <1>4, <2>1, EndStep DEF RejectUnknown, server
<1>5. CASE Interrupted
  BY <1>2, <1>5, EndStep DEF Interrupted, Fault, server
<1>6. ASSUME NEW f \in Files, StoreFails(f) PROVE IInv'
  BY <1>2, <1>6, EndStep DEF StoreFails, Fault
<1>7. ASSUME NEW f \in Files, RenameFails(f) PROVE IInv'
  <2>1. Mine(f) \in Contents BY <1>1, MineIsGood, GoodContents
  <2>2. PICK c \in {final[f], Mine(f)} : final' = [final EXCEPT ![f] = c]
    BY <1>7 DEF RenameFails
  <2>3. final' \in [Files -> Contents] BY <1>2, <2>1, <2>2
  <2>4. \A g \in Files : final'[g] = final[g] \/ (g = f /\ final'[g] = Mine(g))
    BY <1>2, <2>2
  <2>5. End("failed") /\ dir' = dir /\ faults' = faults + 1 /\ w.file = f
    BY <1>7 DEF RenameFails, Fault
  <2> QED BY <1>2, <2>3, <2>4, <2>5, EndStep
<1>8. ASSUME NEW f \in Files, WriteFails(f) PROVE IInv'
  <2>1. final' = [final EXCEPT ![f] = "none"] BY <1>8 DEF WriteFails
  <2>2. final' \in [Files -> Contents] BY <1>2, <2>1 DEF Contents
  <2>3. \A g \in Files : final'[g] = final[g] \/ (g = f /\ final'[g] = "none")
    BY <1>2, <2>1
  <2>4. End("failed") /\ dir' = dir /\ faults' = faults + 1 /\ w.file = f
    BY <1>8 DEF WriteFails, Fault
  <2> QED BY <1>2, <2>2, <2>3, <2>4, EndStep
<1>9. ASSUME NEW f \in Files, PutUnreadable(f) PROVE IInv'
  <2>1. /\ UNCHANGED <<dir, final, proto>> /\ w.file = None /\ faults' = faults + 1
        /\ End(IF proto = "ftp" THEN "unread" ELSE "conflict")
    BY <1>9 DEF PutUnreadable, AtFile, Fault, server, End, settings
  <2>2. ConflictMeansForeign'
    BY <1>1, <1>2, <2>1 DEF ConflictMeansForeign, End, TransferTypes
  <2> QED BY <1>2, <2>1, <2>2, EndStep
<1> QED BY <1>3, <1>4, <1>5, <1>6, <1>7, <1>8, <1>9 DEF Failures

\* An upload that finds another file in place.
LEMMA ConflictStep ==
    ASSUME IInv, NEW f \in Files,
           \/ proto = "ftp" /\ PutConflict(f, FtpAccepted(f), {"conflict", "unread"})
           \/ proto = "mounted" /\ PutConflict(f, {Mine(f)}, {"conflict"})
    PROVE  IInv'
<1>1. TransferTypes BY DEF IInv
<1>2. faults \in Nat /\ final \in [Files -> Contents] BY <1>1 DEF TransferTypes
<1> PICK outcome \in {"conflict", "unread"} :
        End(outcome) /\ (outcome = "unread" => proto = "ftp")
  BY DEF PutConflict
<1>3. /\ AtFile(f) /\ dir' = dir /\ final' = final /\ faults' = faults
      /\ final[f] # "none" /\ final[f] # Mine(f)
      /\ proto = "ftp" => final[f] \notin Good(f)
  <2>1. Mine(f) \in Good(f) BY <1>1, MineIsGood
  <2> QED BY <2>1 DEF PutConflict, FtpAccepted, server
<1>4. w.file = None BY <1>3 DEF AtFile
<1>5. harmed \/ (proto = "mounted" /\ (faults > 0 \/ name = "n2"))
  <2> SUFFICES ASSUME ~ harmed PROVE proto = "mounted" /\ (faults > 0 \/ name = "n2")
    OBVIOUS
  <2>1. final[f] = "part" => proto = "mounted" /\ faults > 0
    BY <1>4, FileFacts DEF IInv, Unharmed
  <2>2. final[f] \in Good(f) \/ final[f] = "part" BY <1>3 DEF IInv, Unharmed
  <2>3. proto = "mounted" BY <1>1, <1>3, <2>1, <2>2 DEF TransferTypes
  <2>4. final[f] \in Good(f) => name # "n1"
    BY <1>3 DEF IInv, NameKnown, Good, Mine, Names
  <2> QED BY <1>1, <2>1, <2>2, <2>3, <2>4 DEF TransferTypes, Names
<1>6. ConflictMeansForeign'
  BY <1>3, <1>5 DEF ConflictMeansForeign, End, settings, harms
<1> QED BY <1>2, <1>3, <1>4, <1>6, EndStep

\* A write on a share that others interfered with.
LEMMA UnverifiedStep ==
    ASSUME IInv, NEW f \in Files, WriteUnverified(f)
    PROVE  IInv'
<1>1. /\ End("failed") /\ UNCHANGED <<dir, final, faults>> /\ w.late
  BY DEF WriteUnverified, server
<1>2. faults \in Nat /\ final \in [Files -> Contents] /\ harmed
  BY <1>1 DEF IInv, TransferTypes, Unharmed
<1> QED BY <1>1, <1>2, EndStep

\* An upload that ends with its claim has dealt with every file.
LEMMA FinishUploadStep == IInv /\ FinishUpload => IInv'
<1> SUFFICES ASSUME IInv, FinishUpload PROVE IInv'
  OBVIOUS
<1>1. /\ w' = Idle /\ claim' = "stored" /\ last' = "done" /\ w.op = "put" /\ w.todo = {}
      /\ UNCHANGED <<proto, base, name, attached, path, dir, final, r, alarm, intact, harm, harmed,
                     faults>>
  BY DEF FinishUpload, Writes, settings, server, reader, harms
<1>2. w.file = None BY <1>1, FileFacts DEF IInv, TransferTypes, Workers, FileUnderWay, Turn
<1>3. intact => \A f \in Files : final[f] \in Good(f) BY <1>1 DEF IInv, DoneFiles
<1>4. TransferTypes' BY <1>1, IdleFacts DEF IInv, TransferTypes
<1>5. PathRecorded' /\ FileUnderWay' /\ DoneFiles' /\ DirectoryHolds'
  BY <1>1, IdleFacts DEF IInv, PathRecorded, FileUnderWay, DoneFiles, DirectoryHolds
<1>6. Unharmed' BY <1>1, <1>2, <1>3, FileFacts, IdleFacts DEF IInv, Unharmed
<1>7. NameKnown' /\ NoFalseAlarm' /\ ConflictMeansForeign'
  BY <1>1, IdleFacts DEF IInv, NameKnown, NoFalseAlarm, ConflictMeansForeign
<1> QED BY <1>4, <1>5, <1>6, <1>7 DEF IInv

\* So has a deletion: it claims nothing that is read.
LEMMA CommitDeleteStep == IInv /\ CommitDelete => IInv'
<1> SUFFICES ASSUME IInv, CommitDelete PROVE IInv'
  OBVIOUS
<1>1. /\ w' = Idle /\ claim' = "gone" /\ last' = "done" /\ w.op = "del"
      /\ UNCHANGED <<proto, base, name, attached, path, dir, final, r, alarm, intact, harm, harmed,
                     faults>>
  BY DEF CommitDelete, settings, server, reader, harms
<1>2. w.file = None BY <1>1 DEF IInv, FileUnderWay
<1>3. TransferTypes' BY <1>1, IdleFacts DEF IInv, TransferTypes
<1>4. PathRecorded' /\ FileUnderWay' /\ DoneFiles' /\ DirectoryHolds'
  BY <1>1, IdleFacts DEF IInv, PathRecorded, FileUnderWay, DoneFiles, DirectoryHolds
<1>5. Unharmed' BY <1>1, <1>2, FileFacts, IdleFacts DEF IInv, Unharmed
<1>6. NameKnown' /\ NoFalseAlarm' /\ ConflictMeansForeign'
  BY <1>1, IdleFacts DEF IInv, NameKnown, NoFalseAlarm, ConflictMeansForeign
<1> QED BY <1>3, <1>4, <1>5, <1>6 DEF IInv

\* An operation begins with all files to do.
LEMMA StartStep == IInv /\ (StartUpload \/ StartDelete) => IInv'
<1> SUFFICES ASSUME IInv, StartUpload \/ StartDelete PROVE IInv'
  OBVIOUS
<1>1. TransferTypes BY DEF IInv
<1>2. /\ w' \in Workers /\ w'.todo = Files /\ w'.file = None /\ w'.late = FALSE
      /\ w'.name = "n1" \/ w'.name = name
  <2>1. CASE StartUpload
    BY <1>1, <2>1 DEF StartUpload, TransferTypes, Idle, Workers, Names
  <2>2. CASE StartDelete BY <1>1, <2>2 DEF StartDelete, TransferTypes, Idle, Workers, Names
  <2> QED BY <2>1, <2>2
<1>3. /\ w.op = "idle" /\ path' # None /\ path' \in {path, base}
      /\ path # None => path' = path
      /\ claim' = "none" \/ claim' = claim
      /\ ~ harmed => intact'
      /\ UNCHANGED <<proto, base, name, attached, dir, final, last, r, alarm, harm, harmed, faults>>
  BY <1>1 DEF StartUpload, StartDelete, IInv, TransferTypes, None, Unharmed, settings, server,
              reader, harms
<1>4. w.file = None BY <1>3 DEF IInv, FileUnderWay
<1>5. TransferTypes' BY <1>1, <1>2, <1>3 DEF TransferTypes
<1>6. PathRecorded' BY <1>1, <1>3 DEF IInv, PathRecorded, TransferTypes
<1>7. DirectoryHolds' /\ FileUnderWay' /\ DoneFiles'
  BY <1>2, <1>3 DEF IInv, DirectoryHolds, FileUnderWay, DoneFiles
<1>8. Unharmed' BY <1>2, <1>3, <1>4, FileFacts DEF IInv, Unharmed, None
<1>9. NameKnown' BY <1>2, <1>3 DEF IInv, NameKnown
<1>10. NoFalseAlarm' /\ ConflictMeansForeign' BY <1>3 DEF IInv, NoFalseAlarm, ConflictMeansForeign
<1> QED BY <1>5, <1>6, <1>7, <1>8, <1>9, <1>10 DEF IInv

\* A command that leaves the files under their final names, and the worker but
\* for the file it turns to or is through with.
LEMMA WorkStep ==
    ASSUME IInv, Progress, w.op \in {"put", "del"}, w' \in Workers, w'.op = w.op, w'.name = w.name,
           w'.late = w.late, final' = final, dir => dir', w.op = "put" => dir',
           w.file = None \/ w'.file = w.file,
           FileUnderWay', DoneFiles'
    PROVE  IInv'
<1>1. UNCHANGED <<proto, base, name, attached, path, claim, last, r, alarm, intact, harm, harmed,
                  faults>>
  BY DEF Progress, settings, reader, harms
<1>2. TransferTypes' BY <1>1 DEF IInv, TransferTypes
<1>3. PathRecorded' BY <1>1 DEF IInv, PathRecorded
<1>4. DirectoryHolds' BY DEF IInv, DirectoryHolds
<1>5. Unharmed' BY <1>1, FileFacts DEF IInv, Unharmed
<1>6. NameKnown' /\ NoFalseAlarm' /\ ConflictMeansForeign'
  BY <1>1 DEF IInv, NameKnown, NoFalseAlarm, ConflictMeansForeign
<1> QED BY <1>2, <1>3, <1>4, <1>5, <1>6 DEF IInv

\* The commands of an upload that write nothing under a final name.
LEMMA PrepareStep ==
    ASSUME IInv,
           \/ MakeDirectory
           \/ \E f \in Files :
                 \/ \E accepted \in SUBSET Good(f) : PutSkip(f, accepted)
                 \/ proto = "ftp" /\ PutStore(f)
    PROVE  IInv'
<1>1. TransferTypes BY DEF IInv
<1>2. w \in Workers BY <1>1 DEF TransferTypes
<1>3. CASE MakeDirectory
  <2>1. Progress /\ dir' /\ UNCHANGED <<w, final>> /\ w.op = "put"
    BY <1>3 DEF MakeDirectory, Writes
  <2>2. FileUnderWay' /\ DoneFiles'
    BY <2>1 DEF Progress, settings, IInv, FileUnderWay, DoneFiles, Turn, RootReady, ValidPath
  <2> QED BY <1>2, <2>1, <2>2, WorkStep
<1>4. ASSUME NEW f \in Files, NEW accepted \in SUBSET Good(f), PutSkip(f, accepted) PROVE IInv'
  <2>1. /\ Progress /\ UNCHANGED <<dir, final>> /\ w.op = "put" /\ dir /\ w.file = None
        /\ w' = [w EXCEPT !.todo = @ \ {f}] /\ final[f] \in Good(f)
    BY <1>4 DEF PutSkip, AtFile, Writes, server
  <2>2. /\ w' \in Workers /\ w'.op = w.op /\ w'.name = w.name /\ w'.late = w.late
        /\ w'.file = None /\ w'.todo = w.todo \ {f}
    BY <1>2, <2>1 DEF Workers
  <2>3. FileUnderWay' BY <2>2 DEF FileUnderWay
  <2>4. DoneFiles' BY <2>1, <2>2 DEF Progress, IInv, DoneFiles
  <2> QED BY <2>1, <2>2, <2>3, <2>4, WorkStep
<1>5. ASSUME NEW f \in Files, PutStore(f), proto = "ftp" PROVE IInv'
  <2>1. /\ Progress /\ UNCHANGED <<dir, final>> /\ w.op = "put" /\ dir /\ w.file = None
        /\ w' = [w EXCEPT !.file = f] /\ Turn(f) /\ RootReady /\ ValidPath
    BY <1>5 DEF PutStore, AtFile, Writes
  <2>2. /\ w' \in Workers /\ w'.op = w.op /\ w'.name = w.name /\ w'.late = w.late
        /\ w'.base = w.base /\ w'.file = f /\ w'.todo = w.todo
    BY <1>2, <2>1 DEF Workers
  <2>3. final[f] = "none"
    BY <1>5 DEF PutStore, Concluded, Replies, Concludes
  <2>4. FileUnderWay'
    BY <1>5, <2>1, <2>2, <2>3, FileFacts
    DEF Progress, settings, FileUnderWay, Turn, RootReady, ValidPath
  <2>5. DoneFiles' BY <2>1, <2>2 DEF Progress, IInv, DoneFiles
  <2> QED BY <2>1, <2>2, <2>4, <2>5, WorkStep
<1> QED BY <1>3, <1>4, <1>5

\* On a share the final file appears as a part, under way.
LEMMA CreateFileStep ==
    ASSUME IInv, NEW f \in Files, CreateFile(f), proto = "mounted"
    PROVE  IInv'
<1>1. /\ UNCHANGED <<proto, base, name, attached, path, claim, last, r, alarm, intact, harm, harmed,
                     faults, dir>>
      /\ w.op = "put" /\ dir /\ w.file = None /\ Turn(f) /\ RootReady /\ ValidPath
      /\ final[f] = "none"
      /\ w' = [w EXCEPT !.file = f] /\ final' = [final EXCEPT ![f] = "part"]
  BY DEF CreateFile, AtFile, Writes, Progress, settings, reader, harms
<1>2. TransferTypes BY DEF IInv
<1>3. /\ w' \in Workers /\ w'.op = w.op /\ w'.name = w.name /\ w'.late = w.late
      /\ w'.base = w.base /\ w'.file = f /\ w'.todo = w.todo
  BY <1>1, <1>2 DEF TransferTypes, Workers
<1>4. /\ final' \in [Files -> Contents] /\ final'[f] = "part"
      /\ \A g \in Files : g # f => final'[g] = final[g]
  BY <1>1, <1>2 DEF TransferTypes, Contents
<1>5. f \in w.todo BY <1>1 DEF Turn
<1>6. TransferTypes' BY <1>1, <1>2, <1>3, <1>4 DEF TransferTypes
<1>7. PathRecorded' BY <1>1, <1>3 DEF IInv, PathRecorded
<1>8. DirectoryHolds' BY <1>1 DEF DirectoryHolds
<1>9. FileUnderWay'
  BY <1>1, <1>3, <1>4, FileFacts DEF FileUnderWay, Turn, RootReady, ValidPath
<1>10. DoneFiles' BY <1>1, <1>3, <1>4, <1>5 DEF IInv, DoneFiles
<1>11. Unharmed' BY <1>1, <1>3, <1>4, FileFacts DEF IInv, Unharmed
<1>12. NameKnown' BY <1>1, <1>3, <1>4 DEF IInv, NameKnown
<1>13. NoFalseAlarm' /\ ConflictMeansForeign' BY <1>1 DEF IInv, NoFalseAlarm, ConflictMeansForeign
<1> QED BY <1>6, <1>7, <1>8, <1>9, <1>10, <1>11, <1>12, <1>13 DEF IInv

\* The file under way is completed.
LEMMA CompleteFileStep ==
    ASSUME IInv, NEW f \in Files, PutRename(f) \/ WriteFile(f)
    PROVE  IInv'
<1>1. /\ UNCHANGED <<proto, base, name, attached, path, claim, last, r, alarm, intact, harm, harmed,
                     faults, dir>>
      /\ w.op = "put" /\ w.file = f
      /\ \/ w' = [w EXCEPT !.file = None, !.todo = @ \ {f}]
         \/ w' = [w EXCEPT !.file = None, !.todo = @ \ {f}, !.late = FALSE]
      /\ final' = [final EXCEPT ![f] = Mine(f)]
  BY DEF PutRename, WriteFile, Writes, Progress, settings, reader, harms
<1>2. TransferTypes BY DEF IInv
<1>3. /\ w' \in Workers /\ w'.op = w.op /\ w'.name = w.name /\ w'.file = None
      /\ w'.todo = w.todo \ {f} /\ w'.late \in {w.late, FALSE}
  BY <1>1, <1>2 DEF TransferTypes, Workers
<1>4. /\ Mine(f) \in Good(f) /\ Mine(f) \in Contents /\ Mine(f) # "part"
      /\ Mine(f) = "n2" => w.name = "n2"
  BY <1>2, MineIsGood, GoodContents
<1>5. /\ final' \in [Files -> Contents] /\ final'[f] = Mine(f)
      /\ \A g \in Files : g # f => final'[g] = final[g]
  BY <1>1, <1>2, <1>4 DEF TransferTypes
<1>6. dir BY <1>1, FileFacts DEF IInv, DirectoryHolds
<1>7. TransferTypes' BY <1>1, <1>2, <1>3, <1>5 DEF TransferTypes
<1>8. PathRecorded' BY <1>1, <1>3 DEF IInv, PathRecorded
<1>9. DirectoryHolds' /\ FileUnderWay' BY <1>1, <1>3, <1>6 DEF DirectoryHolds, FileUnderWay
<1>10. DoneFiles' BY <1>1, <1>3, <1>4, <1>5 DEF IInv, DoneFiles
<1>11. Unharmed' BY <1>1, <1>3, <1>4, <1>5 DEF IInv, Unharmed
<1>12. NameKnown' BY <1>1, <1>3, <1>4, <1>5 DEF IInv, NameKnown
<1>13. NoFalseAlarm' /\ ConflictMeansForeign' BY <1>1 DEF IInv, NoFalseAlarm, ConflictMeansForeign
<1> QED BY <1>7, <1>8, <1>9, <1>10, <1>11, <1>12, <1>13 DEF IInv

\* Every step of an upload.
LEMMA UploaderStep == IInv /\ Uploader => IInv'
<1> SUFFICES ASSUME IInv, Uploader PROVE IInv'
  OBVIOUS
<1>1. CASE Refused BY <1>1, EndsStep
<1>2. CASE FinishUpload BY <1>2, FinishUploadStep
<1>3. CASE proto = "ftp" /\ FtpUpload
  BY <1>3, PrepareStep, ConflictStep, CompleteFileStep DEF FtpUpload, FtpAccepted
<1>4. CASE proto = "mounted" /\ MountedUpload
  <2>1. \A f \in Files : {Mine(f)} \in SUBSET Good(f) BY MineIsGood DEF IInv
  <2> QED
    BY <1>4, <2>1, PrepareStep, ConflictStep, CreateFileStep, CompleteFileStep,
       UnverifiedStep
    DEF MountedUpload
<1> QED BY <1>1, <1>2, <1>3, <1>4 DEF Uploader

\* A deletion removes in order, and whatever it removes counts as harm.
LEMMA EraseStep ==
    ASSUME IInv,
           \/ RemoveDirectory
           \/ \E f \in Files : DeleteFile(f)
    PROVE  IInv'
<1>1. /\ harmed' /\ ~ intact' /\ w.op = "del"
      /\ UNCHANGED <<proto, base, name, attached, path, claim, last, r, alarm, harm, faults>>
  BY DEF RemoveDirectory, DeleteFile, Erasing, Writes, settings, reader
<1>2. TransferTypes BY DEF IInv
<1>3. /\ w' \in Workers /\ w'.op = w.op /\ w'.name = w.name /\ w'.file = w.file
      /\ final' \in [Files -> Contents]
      /\ \A g \in Files : final'[g] \in {final[g], "none"}
      /\ \A g \in Files \ w'.todo : g \in w.todo => final'[g] = "none"
      /\ dir' \/ \A g \in Files : final'[g] = "none"
  <2>1. CASE RemoveDirectory
    BY <1>2, <2>1 DEF RemoveDirectory, TransferTypes
  <2>2. ASSUME NEW f \in Files, DeleteFile(f)
        PROVE  /\ w' \in Workers /\ w'.op = w.op /\ w'.name = w.name /\ w'.file = w.file
               /\ final' \in [Files -> Contents]
               /\ \A g \in Files : final'[g] \in {final[g], "none"}
               /\ \A g \in Files \ w'.todo : g \in w.todo => final'[g] = "none"
               /\ dir'
    <3>1. /\ w' = [w EXCEPT !.todo = @ \ {f}] /\ final' = [final EXCEPT ![f] = "none"]
          /\ dir /\ dir' = dir
      BY <2>2 DEF DeleteFile
    <3>2. /\ w' \in Workers /\ w'.op = w.op /\ w'.name = w.name /\ w'.file = w.file
          /\ w'.todo = w.todo \ {f}
      BY <1>2, <3>1 DEF TransferTypes, Workers
    <3>3. /\ final' \in [Files -> Contents] /\ final'[f] = "none"
          /\ \A g \in Files : g # f => final'[g] = final[g]
      BY <1>2, <3>1 DEF TransferTypes, Contents
    <3> QED BY <3>1, <3>2, <3>3
  <2> QED BY <2>1, <2>2
<1>4. w.file = None BY <1>1 DEF IInv, FileUnderWay
<1>5. TransferTypes' BY <1>1, <1>2, <1>3 DEF TransferTypes
<1>6. PathRecorded' BY <1>1, <1>3 DEF IInv, PathRecorded
<1>7. DirectoryHolds' /\ FileUnderWay' BY <1>1, <1>3, <1>4 DEF DirectoryHolds, FileUnderWay
<1>8. DoneFiles' BY <1>1, <1>3 DEF IInv, DoneFiles
<1>9. Unharmed' BY <1>1 DEF Unharmed
<1>10. NameKnown' BY <1>1, <1>3 DEF IInv, NameKnown
<1>11. NoFalseAlarm' /\ ConflictMeansForeign' BY <1>1 DEF NoFalseAlarm, ConflictMeansForeign
<1> QED BY <1>5, <1>6, <1>7, <1>8, <1>9, <1>10, <1>11 DEF IInv

\* Every step of a deletion.
LEMMA DeleterStep == IInv /\ Deleter => IInv'
<1> SUFFICES ASSUME IInv, Deleter PROVE IInv'
  OBVIOUS
<1>1. CASE RejectUnknown BY <1>1, EndsStep
<1>2. CASE CommitDelete BY <1>2, CommitDeleteStep
<1>3. ASSUME NEW f \in Files, DeleteTemp(f) PROVE IInv'
  <2>1. Progress /\ UNCHANGED <<dir, final, w>> /\ w.op = "del" /\ w \in Workers
    BY <1>3 DEF DeleteTemp, Writes, IInv, TransferTypes
  <2>2. FileUnderWay' /\ DoneFiles'
    BY <2>1 DEF Progress, settings, IInv, FileUnderWay, DoneFiles, Turn, RootReady, ValidPath
  <2> QED BY <2>1, <2>2, WorkStep
<1> QED BY <1>1, <1>2, <1>3, EraseStep DEF Deleter, FtpDelete, MountedDelete

-----------------------------------------------------------------------------
(* Readers, the storage form and others *)

\* What the invariant says of the worker and of the server.
workVars == <<proto, path, claim, dir, final, w, last, intact, harm, harmed>>

\* A reader sees good files as long as nobody harms them.
LEMMA ReaderStep == IInv /\ Reader => IInv'
<1> SUFFICES ASSUME IInv, Reader PROVE IInv'
  OBVIOUS
<1>1. UNCHANGED <<workVars, base, name, attached>>
  BY DEF Reader, StartFtpAudit, StartMountedAudit, StartRecovery, Reads, AuditFile, RecoverFile,
         ReadRefused, EndRead, settings, server, harms, workVars
<1>9. faults' \in Nat /\ (faults > 0 => faults' > 0)
  <2>1. faults \in Nat BY DEF IInv, TransferTypes
  <2>2. faults' = faults \/ faults' = faults + 1
    BY DEF Reader, StartFtpAudit, StartMountedAudit, StartRecovery, Reads, AuditFile, RecoverFile,
           ReadRefused, Fault, EndRead
  <2> QED BY <2>1, <2>2
<1>2. r' \in Readers /\ (r'.op # "idle" => claim = "stored" \/ r.op # "idle")
  <2>1. CASE StartFtpAudit \/ StartMountedAudit \/ StartRecovery
    BY <2>1 DEF StartFtpAudit, StartMountedAudit, StartRecovery, Reads, Readers
  <2>2. ASSUME NEW f \in Files, AuditFile(f) \/ RecoverFile(f) \/ ReadRefused(f)
        PROVE  r' \in Readers /\ r'.op \in {"idle", r.op}
    <3>1. r' = [r EXCEPT !.todo = @ \ {f}] \/ r' = NotReading
      BY <2>2 DEF AuditFile, RecoverFile, ReadRefused
    <3> QED BY <3>1 DEF NotReading, IInv, TransferTypes, Readers
  <2>3. CASE EndRead BY <2>3 DEF EndRead, NotReading, Readers
  <2> QED BY <2>1, <2>2, <2>3 DEF Reader
<1>3. NoFalseAlarm'
  <2>1. ASSUME NEW f \in Files, AuditFile(f) \/ RecoverFile(f), ~ harmed PROVE alarm' = alarm
    <3>1. r.op # "idle" BY <2>1 DEF AuditFile, RecoverFile
    <3>2. Verified(f) BY <2>1, <3>1 DEF IInv, Unharmed, Verified
    <3> QED BY <2>1, <3>2 DEF AuditFile, RecoverFile
  <2>3. ASSUME NEW f \in Files, ReadRefused(f), alarm # "damage" PROVE alarm' # "damage"
    BY <2>3 DEF ReadRefused
  <2>2. CASE UNCHANGED alarm BY <1>1, <2>2 DEF workVars, IInv, NoFalseAlarm
  <2> QED
    BY <1>1, <2>1, <2>2, <2>3
    DEF workVars, Reader, StartFtpAudit, StartMountedAudit, StartRecovery, Reads, EndRead, IInv,
        NoFalseAlarm
<1>4. TransferTypes' BY <1>1, <1>2, <1>9 DEF workVars, IInv, TransferTypes
<1>5. PathRecorded' /\ DirectoryHolds' /\ FileUnderWay' /\ DoneFiles'
  BY <1>1 DEF workVars, IInv, PathRecorded, DirectoryHolds, FileUnderWay, DoneFiles, Turn,
              RootReady, ValidPath
<1>6. Unharmed' BY <1>1, <1>2, <1>9 DEF workVars, IInv, Unharmed
<1>7. NameKnown' /\ ConflictMeansForeign'
  BY <1>1, <1>9 DEF workVars, IInv, NameKnown, ConflictMeansForeign
<1> QED BY <1>3, <1>4, <1>5, <1>6, <1>7 DEF IInv

\* The device is renamed, the share remounted, the endpoint edited; somebody
\* adds an entry; or nothing happens.
LEMMA AroundStep ==
    IInv /\ (Rename \/ Remount \/ EditCheck \/ EditSave \/ AddEntry \/ UNCHANGED vars) => IInv'
<1> SUFFICES ASSUME IInv, Rename \/ Remount \/ EditCheck \/ EditSave \/ AddEntry \/ UNCHANGED vars
             PROVE  IInv'
  OBVIOUS
<1>1. UNCHANGED <<proto, path, claim, dir, final, w, last, intact, harmed, faults, r, alarm>>
  BY DEF Rename, Remount, EditCheck, EditSave, AddEntry, Harm, vars, settings, server, reader, harms
<1>2. harm' \in Nat
  BY DEF Rename, Remount, EditCheck, EditSave, AddEntry, Harm, vars, harms, IInv, TransferTypes
<1>3. base' = "b2" \/ base' = base
  BY DEF Rename, Remount, EditCheck, EditSave, AddEntry, Harm, vars, settings
<1>4. name' = "n2" \/ name' = name
  BY DEF Rename, Remount, EditCheck, EditSave, AddEntry, Harm, vars, settings
<1>5. attached' = attached \/ w.op = "idle"
  BY DEF Rename, Remount, EditCheck, EditSave, AddEntry, Harm, vars, settings
<1>6. TransferTypes' BY <1>1, <1>2, <1>3, <1>4 DEF IInv, TransferTypes, Names
<1>7. PathRecorded' BY <1>1 DEF IInv, PathRecorded
<1>8. DirectoryHolds' /\ DoneFiles' BY <1>1 DEF IInv, DirectoryHolds, DoneFiles
<1>9. FileUnderWay' BY <1>1, <1>5 DEF IInv, FileUnderWay, Turn, RootReady, ValidPath
<1>10. Unharmed' BY <1>1 DEF IInv, Unharmed
<1>11. NameKnown' BY <1>1, <1>4 DEF IInv, NameKnown
<1>12. NoFalseAlarm' BY <1>1 DEF IInv, NoFalseAlarm
<1>13. ConflictMeansForeign' BY <1>1, <1>4 DEF IInv, ConflictMeansForeign
<1> QED BY <1>6, <1>7, <1>8, <1>9, <1>10, <1>11, <1>12, <1>13 DEF IInv

\* A file is lost, altered or added: the excuse of everything that follows.
LEMMA TouchStep ==
    ASSUME IInv, NEW f \in Files, LoseFile(f) \/ CreateForeign(f)
    PROVE  IInv'
<1>1. PICK c \in {"none", "foreign"} : Touch(f, c)
  BY DEF LoseFile, CreateForeign
<1>2. /\ UNCHANGED <<proto, base, name, attached, path, claim, last, r, alarm, faults, dir>>
      /\ harmed' = TRUE /\ harm' = harm + 1 /\ dir
      /\ final' = [final EXCEPT ![f] = c]
      /\ w' = IF w.file = f THEN [w EXCEPT !.late = TRUE] ELSE w
  BY <1>1 DEF Touch, Harm, settings, reader
<1>3. TransferTypes BY DEF IInv
<1>4. /\ final' \in [Files -> Contents] /\ final'[f] = c
      /\ \A g \in Files : g # f => final'[g] = final[g]
  BY <1>2, <1>3 DEF TransferTypes, Contents
<1>5. /\ w' \in Workers /\ w'.op = w.op /\ w'.todo = w.todo /\ w'.file = w.file
      /\ w'.name = w.name /\ w'.base = w.base
      /\ w'.late = TRUE \/ (w.file # f /\ w' = w)
  BY <1>2, <1>3 DEF TransferTypes, Workers
<1>6. c \notin Good(f) BY FileFacts
<1>7. TransferTypes' BY <1>2, <1>3, <1>4, <1>5 DEF TransferTypes
<1>8. PathRecorded' /\ DirectoryHolds' BY <1>2, <1>5 DEF IInv, PathRecorded, DirectoryHolds
<1>9. FileUnderWay'
  <2>1. w.file \in Files \cup {None} BY <1>3 DEF TransferTypes, Workers
  <2> QED
    BY <1>2, <1>4, <1>5, <1>6, <2>1 DEF IInv, FileUnderWay, Turn, RootReady, ValidPath
<1>10. DoneFiles'
  <2>1. w.op = "put" /\ intact' /\ f \notin w.todo => FALSE
    <3>1. LoseFile(f) => intact' = FALSE BY DEF LoseFile
    <3>2. CreateForeign(f) => final[f] = "none" /\ intact' = intact BY DEF CreateForeign
    <3> QED BY <3>1, <3>2, FileFacts DEF IInv, DoneFiles
  <2>2. intact' => intact BY DEF LoseFile, CreateForeign
  <2> QED BY <1>4, <1>5, <2>1, <2>2 DEF IInv, DoneFiles
<1>11. Unharmed' BY <1>2 DEF Unharmed
<1>12. NameKnown' BY <1>2, <1>4, <1>5 DEF IInv, NameKnown
<1>13. NoFalseAlarm' /\ ConflictMeansForeign' BY <1>2 DEF NoFalseAlarm, ConflictMeansForeign
<1> QED BY <1>7, <1>8, <1>9, <1>10, <1>11, <1>12, <1>13 DEF IInv

\* The invariant holds throughout.
LEMMA Invariant == Spec => []IInv
<1>1. Init => IInv
  <2> SUFFICES ASSUME Init PROVE IInv
    OBVIOUS
  <2>1. TransferTypes
    BY IdleFacts DEF Init, TransferTypes, Names, Contents, NotReading, Readers
  <2>2. PathRecorded /\ DirectoryHolds /\ FileUnderWay /\ DoneFiles
    BY IdleFacts DEF Init, PathRecorded, DirectoryHolds, FileUnderWay, DoneFiles, None
  <2>3. Unharmed /\ NameKnown
    BY IdleFacts DEF Init, Unharmed, NameKnown, NotReading
  <2> QED BY <2>1, <2>2, <2>3 DEF Init, IInv, NoFalseAlarm, ConflictMeansForeign
<1>2. IInv /\ [Next]_vars => IInv'
  BY StartStep, UploaderStep, DeleterStep, EndsStep, ReaderStep, AroundStep, TouchStep
  DEF Next, Others
<1> QED BY <1>1, <1>2, PTL DEF Spec

\* Neither an audit nor a recovery finds damage in a copy that nobody harmed,
\* although an upload may repair it and the device be renamed while they read,
\* and although the server may refuse to give a file.
THEOREM NoFalseAlarmHolds == Spec => []NoFalseAlarm
<1>1. IInv => NoFalseAlarm BY DEF IInv
<1> QED BY <1>1, Invariant, PTL

\* On FTP the plugin never takes its own files for somebody else's, however
\* often it is interrupted, and a manifest that it could not verify is somebody
\* else's or met a fault; on a share a fault or a rename is needed.
THEOREM ConflictMeansForeignHolds == Spec => []ConflictMeansForeign
<1>1. IInv => ConflictMeansForeign BY DEF IInv
<1> QED BY <1>1, Invariant, PTL

-----------------------------------------------------------------------------
(* Action properties *)

\* What a step can do to the files when nobody else is at work: nothing, one
\* file of the upload under way, or one that the deletion has reached.
FinalSteps ==
    \/ final' = final
    \/ /\ w.op = "put" /\ w.file = None /\ proto = "mounted"
       /\ \E f \in Files : final[f] = "none" /\ final' = [final EXCEPT ![f] = "part"]
    \/ /\ w.op = "put" /\ w.file \in Files
       /\ \/ final' = [final EXCEPT ![w.file] = Mine(w.file)]
          \/ proto = "mounted" /\ final' = [final EXCEPT ![w.file] = "none"]
    \/ /\ w.op = "del"
       /\ \E f \in Files : Turn(f) /\ final' = [final EXCEPT ![f] = "none"]
    \/ harm' = harm + 1

\* Every step is of one of those kinds.
LEMMA FinalChanges == IInv /\ [Next]_vars => FinalSteps
<1> SUFFICES ASSUME IInv, [Next]_vars PROVE FinalSteps
  OBVIOUS
<1> USE DEF FinalSteps
<1>1. TransferTypes BY DEF IInv
<1>2. CASE StartUpload \/ StartDelete \/ Reader \/ UNCHANGED vars
  BY <1>2 DEF StartUpload, StartDelete, Reader, StartFtpAudit, StartMountedAudit, StartRecovery,
              Reads, AuditFile, RecoverFile, ReadRefused, EndRead, server, vars
<1>3. CASE Uploader
  <2>1. ASSUME NEW f \in Files, proto = "mounted", CreateFile(f) PROVE FinalSteps
    BY <2>1 DEF CreateFile, AtFile, Writes
  <2>2. ASSUME NEW f \in Files, PutRename(f) \/ WriteFile(f) PROVE FinalSteps
    BY <2>2 DEF PutRename, WriteFile, Writes
  <2>3. ASSUME NEW f \in Files, NEW accepted, NEW outcomes,
               \/ PutSkip(f, accepted) \/ PutConflict(f, accepted, outcomes)
               \/ PutStore(f) \/ WriteUnverified(f)
        PROVE  FinalSteps
    BY <2>3 DEF PutSkip, PutConflict, PutStore, WriteUnverified, server
  <2>4. CASE Refused \/ MakeDirectory \/ FinishUpload
    BY <2>4 DEF Refused, MakeDirectory, FinishUpload, server
  <2> QED BY <1>3, <2>1, <2>2, <2>3, <2>4 DEF Uploader, FtpUpload, MountedUpload
<1>4. CASE Deleter
  <2>1. ASSUME NEW f \in Files, DeleteFile(f) PROVE FinalSteps
    BY <2>1 DEF DeleteFile, Writes
  <2>2. ASSUME NEW f \in Files, DeleteTemp(f) PROVE FinalSteps
    BY <2>2 DEF DeleteTemp
  <2>3. CASE RejectUnknown \/ RemoveDirectory \/ CommitDelete
    BY <2>3 DEF RejectUnknown, RemoveDirectory, CommitDelete, server
  <2> QED BY <1>4, <2>1, <2>2, <2>3 DEF Deleter, FtpDelete, MountedDelete
<1>5. CASE Failures
  <2>1. ASSUME NEW f \in Files, RenameFails(f) PROVE FinalSteps
    <3>1. PICK c \in {final[f], Mine(f)} : final' = [final EXCEPT ![f] = c]
      BY <2>1 DEF RenameFails
    <3>2. [final EXCEPT ![f] = final[f]] = final BY <1>1 DEF TransferTypes
    <3> QED BY <2>1, <3>1, <3>2 DEF RenameFails, Writes
  <2>2. ASSUME NEW f \in Files, WriteFails(f) PROVE FinalSteps
    BY <2>2 DEF WriteFails, Writes
  <2>3. ASSUME NEW f \in Files, StoreFails(f) \/ PutUnreadable(f) PROVE FinalSteps
    BY <2>3 DEF StoreFails, PutUnreadable, server
  <2>4. CASE Interrupted BY <2>4 DEF Interrupted, server
  <2> QED BY <1>5, <2>1, <2>2, <2>3, <2>4 DEF Failures
<1>6. CASE Others
  BY <1>6 DEF Others, Rename, Remount, EditCheck, EditSave, AddEntry, LoseFile, CreateForeign,
              Touch, Harm, server
<1> QED BY <1>2, <1>3, <1>4, <1>5, <1>6 DEF Next

\* No answer of a server makes an upload write over a file that was there when it
\* looked: what FTP renames to was absent, and on a share it writes to what it
\* has just created; what is left is the window between the two.
THEOREM FinalNeverReplacedHolds == Spec => FinalNeverReplaced
<1>1. ASSUME IInv, [Next]_vars, w.op = "put", harm' = harm,
             NEW f \in Files, final[f] \notin {"none", final'[f]}
      PROVE  w.file = f /\ (w.late \/ (proto = "mounted" /\ final[f] = "part"))
  <2>1. FinalSteps BY <1>1, FinalChanges
  <2>2. final \in [Files -> Contents] /\ proto \in {"ftp", "mounted"} /\ harm \in Nat
    BY <1>1 DEF IInv, TransferTypes
  <2>3. w.file = f => w.late \/ final[f] = (IF proto = "ftp" THEN "none" ELSE "part")
    BY <1>1, FileFacts DEF IInv, FileUnderWay
  <2> QED BY <1>1, <2>1, <2>2, <2>3 DEF FinalSteps
<1>2. IInv /\ [Next]_vars =>
         [w.op = "put" /\ harm' = harm =>
             \A f \in Files : final[f] \notin {"none", final'[f]} =>
                /\ w.file = f
                /\ w.late \/ (proto = "mounted" /\ final[f] = "part")]_vars
  BY <1>1
<1> QED BY <1>2, Invariant, PTL DEF Spec, FinalNeverReplaced

\* A manifest appears when every artifact is in place and goes when none is left.
THEOREM ManifestBracketsHolds == Spec => ManifestBrackets
<1>1. ASSUME IInv, [Next]_vars, harm' = harm, final'[Manifest] # final[Manifest],
             NEW a \in Artifacts
      PROVE  /\ final'[Manifest] = "none" /\ w.op = "del" => final[a] \in {"none", "foreign"}
             /\ final'[Manifest] \in Names /\ ~ harmed => final[a] = "bytes"
  <2>1. FinalSteps BY <1>1, FinalChanges
  <2>2. /\ Manifest \in Files /\ a \in Files /\ a # Manifest /\ Manifest # None
        /\ Good(a) = {"bytes"}
    BY TransferAssumption DEF Files, None, Good
  <2>3. final \in [Files -> Contents] /\ harm \in Nat /\ w \in Workers
    BY <1>1 DEF IInv, TransferTypes
  <2>4. CASE w.op = "del"
    <3>1. Turn(Manifest) /\ final'[Manifest] = "none"
      BY <1>1, <2>1, <2>2, <2>3, <2>4 DEF FinalSteps
    <3>2. a \in Files \ w.todo BY <2>2, <3>1 DEF Turn
    <3> QED BY <1>1, <2>4, <3>1, <3>2 DEF IInv, DoneFiles, Names
  <2>5. CASE w.op # "del" /\ final'[Manifest] \in Names /\ ~ harmed
    <3>1. w.op = "put" /\ w.file = Manifest
      BY <1>1, <2>1, <2>2, <2>3, <2>5 DEF FinalSteps, Names
    <3>2. Turn(Manifest) BY <1>1, <2>2, <3>1 DEF IInv, FileUnderWay
    <3>3. a \in Files \ w.todo BY <2>2, <3>2 DEF Turn
    <3> QED BY <1>1, <2>2, <2>5, <3>1, <3>3 DEF IInv, DoneFiles, Unharmed
  <2> QED BY <2>4, <2>5
<1>2. IInv /\ [Next]_vars =>
         [harm' = harm /\ final'[Manifest] # final[Manifest] =>
             \A a \in Artifacts :
                /\ final'[Manifest] = "none" /\ w.op = "del" => final[a] \in {"none", "foreign"}
                /\ final'[Manifest] \in Names /\ ~ harmed => final[a] = "bytes"]_vars
  BY <1>1
<1> QED BY <1>2, Invariant, PTL DEF Spec, ManifestBrackets

-----------------------------------------------------------------------------
(* The refinement of RemoteCopy *)

Whole == \A f \in Files : final[f] \in Good(f)

\* The copy as RemoteCopy sees it.
LEMMA CopyIs ==
    /\ ~ dir => CopyState = "none"
    /\ dir /\ Whole => CopyState = "whole"
    /\ dir /\ ~ Whole => CopyState = "part"
BY DEF CopyState, Whole

\* A command that changes neither the files nor the claim is no step of the copy.
LEMMA CopyRests ==
    ASSUME UNCHANGED <<dir, final, intact, claim>>
    PROVE  [Abstract!Next]_(Abstract!vars)
BY DEF CopyState, Abstract!vars, Good

\* A file that goes away, or is not the right one, leaves a part of the copy.
LEMMA CopyErased ==
    ASSUME dir, intact' = FALSE, claim' = claim,
           dir' => \E f \in Files : final'[f] \notin Good(f)
    PROVE  [Abstract!Next]_(Abstract!vars)
<1>1. CopyState # "none" BY CopyIs
<1>2. CopyState' \in {"part", "none"} BY DEF CopyState, Good
<1> QED BY <1>1, <1>2 DEF Abstract!Next, Abstract!Erase

\* Uploads: the steps that touch a file under its final name.
LEMMA UploadRefines ==
    ASSUME IInv, UNCHANGED <<intact, claim>>, dir' = dir, dir, NEW f \in Files, NEW c,
           final' = [final EXCEPT ![f] = c],
           c \in Good(f) \/ final[f] \notin Good(f)
    PROVE  [Abstract!Next]_(Abstract!vars)
<1>1. /\ final'[f] = c
      /\ \A g \in Files : g # f => final'[g] = final[g]
  BY DEF IInv, TransferTypes
<1>2. CopyState \in {"part", "whole"} /\ (CopyState = "whole" => Whole)
  BY CopyIs
<1>3. CopyState' \in {"part", "whole"} /\ (CopyState = "whole" => CopyState' = "whole")
  BY <1>1, <1>2 DEF CopyState, Whole, Good
<1> QED BY <1>2, <1>3 DEF Abstract!Next, Abstract!Upload, Abstract!vars

\* The answers of a server never pass for an absent directory when there is one.
LEMMA AbsentIsAbsent == ASSUME NEW p, Concluded(p, "absent") PROVE ~ p
BY DEF Concluded, Replies, Concludes

\* Every command of an upload, a deletion or a reader, and every failure of one,
\* is a step of RemoteCopy or none: "stored" is claimed of a complete copy that
\* nobody has harmed since, "gone" of an absent directory.
THEOREM TransferRefinesRemoteCopy == Spec => TransferImplementsCopy
<1>1. Init => Abstract!Init
  BY CopyIs DEF Init, Abstract!Init
<1>2. IInv /\ [Next]_vars => [Abstract!Next]_(Abstract!vars)
  <2> SUFFICES ASSUME IInv, [Next]_vars PROVE [Abstract!Next]_(Abstract!vars)
    OBVIOUS
  <2>1. CASE StartUpload
    <3>1. CopyState' = CopyState BY <2>1 DEF StartUpload, server, CopyState, Good
    <3> QED BY <2>1, <3>1 DEF StartUpload, Abstract!Next, Abstract!Withdraw
  <2>2. CASE StartDelete \/ Reader \/ UNCHANGED vars
    BY <2>2, CopyRests
    DEF StartDelete, Reader, StartFtpAudit, StartMountedAudit, StartRecovery, Reads, AuditFile,
        RecoverFile, ReadRefused, EndRead, server, vars
  <2>3. CASE MakeDirectory
    <3>1. ~ dir /\ dir' = TRUE /\ UNCHANGED <<final, intact, claim>>
      BY <2>3 DEF MakeDirectory, Progress
    <3>2. CopyState = "none" BY <3>1, CopyIs
    <3>3. CopyState' \in {"part", "whole"} BY <3>1 DEF CopyState
    <3> QED BY <3>1, <3>2, <3>3 DEF Abstract!Next, Abstract!Upload
  <2>4. ASSUME NEW f \in Files, CreateFile(f) PROVE [Abstract!Next]_(Abstract!vars)
    <3>1. final[f] \notin Good(f) BY <2>4, FileFacts DEF CreateFile
    <3> QED BY <2>4, <3>1, UploadRefines DEF CreateFile, AtFile, Progress
  <2>5. ASSUME NEW f \in Files, PutRename(f) \/ WriteFile(f) \/ RenameFails(f) \/ WriteFails(f)
        PROVE  [Abstract!Next]_(Abstract!vars)
    <3>1. w.op = "put" /\ w.file = f /\ UNCHANGED <<dir, intact, claim>>
      BY <2>5 DEF PutRename, WriteFile, RenameFails, WriteFails, Writes, Progress, End
    <3>2. dir /\ final[f] \notin Good(f)
      BY <3>1, FileFacts DEF IInv, DirectoryHolds, FileUnderWay
    <3>3. \E c : final' = [final EXCEPT ![f] = c]
      BY <2>5 DEF PutRename, WriteFile, RenameFails, WriteFails
    <3> QED BY <3>1, <3>2, <3>3, UploadRefines
  <2>6. ASSUME NEW f \in Files, NEW accepted, NEW outcomes,
               \/ PutSkip(f, accepted) \/ PutConflict(f, accepted, outcomes) \/ PutStore(f)
               \/ WriteUnverified(f) \/ StoreFails(f) \/ PutUnreadable(f) \/ DeleteTemp(f)
        PROVE  [Abstract!Next]_(Abstract!vars)
    BY <2>6, CopyRests
    DEF PutSkip, PutConflict, PutStore, WriteUnverified, StoreFails, PutUnreadable, DeleteTemp,
        Progress, End, server
  <2>7. CASE Refused \/ RejectUnknown \/ Interrupted
    BY <2>7, CopyRests DEF Refused, RejectUnknown, Interrupted, End, server
  <2>8. CASE FinishUpload
    <3>1. /\ w.op = "put" /\ w.todo = {} /\ claim' = "stored" /\ UNCHANGED <<dir, final, intact>>
      BY <2>8 DEF FinishUpload, Writes, server
    <3>2. dir BY <3>1 DEF IInv, DirectoryHolds, Files
    <3>3. intact => Whole BY <3>1 DEF IInv, DoneFiles, Whole
    <3>4. CopyState = "whole" \/ ~ intact BY <3>2, <3>3, CopyIs
    <3>5. CopyState' = CopyState BY <3>1 DEF CopyState, Good
    <3> QED BY <3>1, <3>4, <3>5 DEF Abstract!Next, Abstract!Confirm
  <2>9. ASSUME CommitDelete, ~ dir PROVE [Abstract!Next]_(Abstract!vars)
    <3>1. claim' = "gone" /\ UNCHANGED <<dir, final, intact>>
      BY <2>9 DEF CommitDelete, server
    <3>2. CopyState = "none" /\ CopyState' = CopyState
      BY <2>9, <3>1 DEF CopyState, Good
    <3> QED BY <3>1, <3>2 DEF Abstract!Next, Abstract!Bury
  <2>10. ASSUME NEW f \in Files, DeleteFile(f) \/ LoseFile(f)
         PROVE  [Abstract!Next]_(Abstract!vars)
    <3>1. dir /\ intact' = FALSE /\ claim' = claim
      BY <2>10 DEF DeleteFile, Erasing, LoseFile, Touch, Harm
    <3>2. final'[f] \in {"none", "foreign"}
      BY <2>10 DEF DeleteFile, LoseFile, Touch, IInv, TransferTypes
    <3> QED BY <3>1, <3>2, FileFacts, CopyErased
  <2>16. ASSUME NEW f \in Files, CreateForeign(f) PROVE [Abstract!Next]_(Abstract!vars)
    <3>1. /\ UNCHANGED <<dir, intact, claim>> /\ dir /\ final[f] = "none"
          /\ final' = [final EXCEPT ![f] = "foreign"]
      BY <2>16 DEF CreateForeign, Touch, Harm
    <3>2. final[f] \notin Good(f) BY <3>1, FileFacts
    <3> QED BY <3>1, <3>2, UploadRefines
  <2>11. CASE RemoveDirectory
    BY <2>11, CopyErased DEF RemoveDirectory, Erasing
  <2>12. CASE Rename \/ Remount \/ EditCheck \/ EditSave \/ AddEntry
    BY <2>12, CopyRests DEF Rename, Remount, EditCheck, EditSave, AddEntry, Harm, server
  <2>13. CASE Uploader
    BY <2>13, <2>3, <2>4, <2>5, <2>6, <2>7, <2>8 DEF Uploader, FtpUpload, MountedUpload
  <2>14. CASE Deleter
    <3>1. CASE proto = "ftp" /\ Concluded(dir, "absent") /\ CommitDelete
      BY <3>1, <2>9, AbsentIsAbsent
    <3>2. CASE proto = "mounted" /\ RootReady /\ ~ (dir /\ attached) /\ CommitDelete
      BY <3>2, <2>9 DEF RootReady
    <3> QED
      BY <2>14, <3>1, <3>2, <2>6, <2>7, <2>10, <2>11 DEF Deleter, FtpDelete, MountedDelete
  <2>15. CASE Failures
    BY <2>15, <2>5, <2>6, <2>7 DEF Failures
  <2> QED BY <2>1, <2>2, <2>10, <2>12, <2>13, <2>14, <2>15, <2>16 DEF Next, Others
<1> QED BY <1>1, <1>2, Invariant, PTL DEF Spec, TransferImplementsCopy, Abstract!Spec
=============================================================================
