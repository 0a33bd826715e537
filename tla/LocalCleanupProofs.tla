-------------------------- MODULE LocalCleanupProofs --------------------------
(***************************************************************************)
(* TLAPS proofs about LocalCleanup for any number of revisions, artifacts, *)
(* concurrent calls and lost deletions: what the two cleanups may destroy, *)
(* and the chain of revisions that they leave.                             *)
(***************************************************************************)
EXTENDS LocalCleanup, FiniteSetTheorems, WellFoundedInduction, TLAPS

Statuses == {"none", "pending", "active", "retry", "copy", "failed", "expired"}
Places == {"none", "stored", "trash", "lost"}
Calls == InTransaction \cup {"idle", "purge", "restore", "done"}

\* The types of the rows, the files and the calls.
TypeOK ==
    /\ created \in 0..MaxRevision
    /\ rows \in SUBSET (1..created)
    /\ local \in SUBSET (1..created)
    /\ prev \in [Revisions -> 0..MaxRevision]
    /\ replica \in [Revisions -> Statuses]
    /\ place \in [Files -> Places]
    /\ phase \in [Ops -> Calls]
    /\ doomed \in [Ops -> SUBSET (1..created)]
    /\ staged \in [Ops -> SUBSET (FilesOf(1..created))]

\* A call moves the files of the revisions it removes and no other, and by the
\* time it destroys them their revisions are not available locally any more.
Quarantined ==
    \A o \in Ops :
        /\ phase[o] \in InTransaction => staged[o] \subseteq FilesOf(doomed[o])
        /\ phase[o] = "purge" => \A f \in staged[o] : f[1] \notin local
        /\ phase[o] \in {"idle", "done"} => staged[o] = {}

\* What a call decided before it moved the files is still true when it commits:
\* the locks of its transaction keep backups, transfers and operators out.
DecisionHolds ==
    \A o \in Ops : phase[o] \in InTransaction =>
        /\ ~ running
        /\ \A r \in doomed[o] : replica[r] # "active" /\ r \notin protected
        /\ phase[o] = "deleted" => doomed[o] \cap copied = {}

\* A successful replica has its copy, or lost it to a deletion that was rolled
\* back; before the first job there is no path; without a row there is nothing.
PointersTrue ==
    /\ \A r \in rows : /\ replica[r] = "copy" => r \in copied \cup stripped
                       /\ replica[r] \in {"none", "pending"} => r \notin recorded
    /\ \A r \in Revisions \ rows : replica[r] = "none" /\ r \notin recorded

RemoteInv == HasCopy /\ CopyIsTracked /\ PointersTrue

IInv ==
    TypeOK /\ Quarantined /\ DecisionHolds /\ BytesKept /\ Readable /\ RemoteInv /\ LocalChain

-----------------------------------------------------------------------------
(* Newest, the maximum of a set of revisions *)

\* order_by("-created").first() has an answer: a set of revisions that is not
\* empty has a newest.  (The intervals x..n of its members have a smallest.)
LEMMA MaxOfInterval ==
    ASSUME NEW n \in Nat, NEW S \in SUBSET (1..n), S # {}
    PROVE  Max(S) \in S /\ \A x \in S : x <= Max(S)
<1> DEFINE T == {x..n : x \in S}
<1>1. IsWellFoundedOn(StrictSubsetOrdering(Nat), FiniteSubsetsOf(Nat))
  BY FS_StrictSubsetOrderingWellFounded
<1>2. T \subseteq FiniteSubsetsOf(Nat)
  <2> SUFFICES ASSUME NEW x \in S PROVE x..n \in FiniteSubsetsOf(Nat)
    OBVIOUS
  <2>1. IsFiniteSet(x..n) BY FS_Interval
  <2> QED BY <2>1 DEF FiniteSubsetsOf
<1>3. T # {}
  OBVIOUS
<1>4. PICK t \in T : \A u \in T : ~ (<<u, t>> \in StrictSubsetOrdering(Nat))
  <2> HIDE DEF T
  <2> QED BY <1>1, <1>2, <1>3, WFMin
<1>5. PICK m \in S : t = m..n
  OBVIOUS
<1>6. \A y \in S : m >= y
  <2> SUFFICES ASSUME NEW y \in S, y > m PROVE FALSE
    OBVIOUS
  <2>1. y..n \in T OBVIOUS
  <2>2. y..n \in SUBSET Nat /\ m..n \in SUBSET Nat OBVIOUS
  <2>3. y..n \subseteq m..n /\ y..n # m..n OBVIOUS
  <2>4. <<y..n, m..n>> \in StrictSubsetOrdering(Nat)
    BY <2>2, <2>3 DEF StrictSubsetOrdering
  <2> QED BY <2>1, <2>4, <1>4, <1>5
<1> QED BY <1>6 DEF Max

\* Newest is a member of the set, and no member is above it.
LEMMA NewestIsMax ==
    ASSUME NEW n \in Nat, NEW S \in SUBSET (1..n)
    PROVE  /\ Newest(S) \in 0..n
           /\ \A x \in S : x <= Newest(S)
           /\ Newest(S) # 0 => Newest(S) \in S
<1>1. CASE S = {} BY <1>1 DEF Newest
<1>2. CASE S # {}
  <2>1. PICK m \in S : m = Max(S) /\ \A x \in S : x <= m BY <1>2, MaxOfInterval
  <2>2. Newest(S) = m BY <1>2, <2>1 DEF Newest
  <2> QED BY <2>1, <2>2
<1> QED BY <1>1, <1>2

\* In a kept set the predecessors are older members, and different members have
\* different ones: what relink_kept_revisions gives is a chain.
LEMMA RelinkedIsChain ==
    ASSUME NEW n \in Nat, NEW S \in SUBSET (1..n)
    PROVE  /\ \A r \in S : Newest({s \in S : s < r}) \in 0..n
           /\ \A r \in S : Newest({s \in S : s < r}) # 0 =>
                 Newest({s \in S : s < r}) \in S /\ Newest({s \in S : s < r}) < r
           /\ \A r, q \in S : r < q => Newest({s \in S : s < r}) # Newest({s \in S : s < q})
<1>1. ASSUME NEW r \in S
      PROVE  /\ Newest({s \in S : s < r}) \in 0..n
             /\ \A x \in S : x < r => x <= Newest({s \in S : s < r})
             /\ Newest({s \in S : s < r}) # 0 =>
                   Newest({s \in S : s < r}) \in S /\ Newest({s \in S : s < r}) < r
  <2> DEFINE B == {s \in S : s < r}
  <2>1. B \in SUBSET (1..n) OBVIOUS
  <2> HIDE DEF B
  <2>2. /\ Newest(B) \in 0..n
        /\ \A x \in B : x <= Newest(B)
        /\ Newest(B) # 0 => Newest(B) \in B
    BY <2>1, NewestIsMax
  <2> QED BY <2>2 DEF B
<1>2. ASSUME NEW r \in S, NEW q \in S, r < q
      PROVE  Newest({s \in S : s < r}) # Newest({s \in S : s < q})
  <2>1. r <= Newest({s \in S : s < q}) BY <1>1, <1>2
  <2>2. Newest({s \in S : s < r}) < r BY <1>1
  <2>3. Newest({s \in S : s < r}) \in Nat /\ Newest({s \in S : s < q}) \in Nat BY <1>1
  <2> QED BY <2>1, <2>2, <2>3
<1> QED BY <1>1, <1>2

-----------------------------------------------------------------------------
(* The inductive invariant, one lemma per group of actions *)

\* A target without revisions satisfies it.
LEMMA InitIInv == Init => IInv
<1> SUFFICES ASSUME Init PROVE IInv
  OBVIOUS
<1> USE DEF Init
<1>1. TypeOK BY CleanupAssumption DEF TypeOK, Statuses, Places, Calls, Revisions, Files
<1>2. Quarantined /\ DecisionHolds BY DEF Quarantined, DecisionHolds, InTransaction
<1>3. BytesKept /\ Readable /\ LocalChain
  BY DEF BytesKept, Readable, LocalChain, FilesOf
<1>4. RemoteInv BY DEF RemoteInv, HasCopy, CopyIsTracked, PointersTrue
<1> QED BY <1>1, <1>2, <1>3, <1>4 DEF IInv

\* The rows are among the revisions.
LEMMA RowsAreRevisions == IInv => rows \subseteq Revisions
BY CleanupAssumption DEF IInv, TypeOK, Revisions

\* Most steps leave the rows, the replicas and the remote storage alone.
LEMMA RemoteFrame ==
    ASSUME IInv, UNCHANGED <<rows, local, replica, recorded, copied, stripped>>
    PROVE  RemoteInv'
BY DEF IInv, RemoteInv, HasCopy, CopyIsTracked, HasRecordedCopy, PointersTrue

\* A run that starts or ends without a revision, the protection of a revision,
\* a storage switched on or off and a transfer touch neither rows nor files,
\* and wait until no cleanup holds the locks.
LEMMA OutsideIInv ==
    ASSUME IInv,
           \/ RunStarts \/ RunEnds \/ ToggleDestination
           \/ \E r \in Revisions : ToggleProtection(r) \/ CreateReplica(r) \/ TransferStarts(r)
           \/ \E r \in Revisions, started \in BOOLEAN, to \in {"copy", "failed", "retry"} :
                 TransferEnds(r, started, to)
    PROVE  IInv'
<1> USE DEF chainVars, callVars, ReplicaFrame
<1>1. UNCHANGED <<created, rows, local, prev, place, phase, doomed, staged, torn>>
  BY DEF RunStarts, RunEnds, ToggleDestination, ToggleProtection, CreateReplica,
         TransferStarts, TransferEnds
<1>2. \/ UNCHANGED <<replica, recorded, copied, stripped>>
      \/ \E r \in Revisions : CreateReplica(r) \/ TransferStarts(r)
      \/ \E r \in Revisions, started \in BOOLEAN, to \in {"copy", "failed", "retry"} :
            TransferEnds(r, started, to)
  BY DEF replicaVars, remoteVars, RunStarts, RunEnds, ToggleDestination, ToggleProtection
<1>3. replica' \in [Revisions -> Statuses]
  BY <1>2 DEF IInv, TypeOK, Statuses, CreateReplica, TransferStarts, TransferEnds
<1>4. Locked => UNCHANGED <<running, replica, protected, copied>>
  BY DEF RunStarts, RunEnds, ToggleDestination, ToggleProtection, CreateReplica,
         TransferStarts, TransferEnds, remoteVars
<1>5. TypeOK' BY <1>1, <1>3 DEF IInv, TypeOK
<1>6. Quarantined' BY <1>1 DEF IInv, Quarantined
<1>7. DecisionHolds' BY <1>1, <1>4 DEF IInv, DecisionHolds, Locked
<1>8. BytesKept' /\ Readable' /\ LocalChain' BY <1>1 DEF IInv, BytesKept, Readable, LocalChain
<1>9. RemoteInv'
  <2>1. CASE UNCHANGED <<replica, recorded, copied, stripped>>
    BY <2>1, <1>1, RemoteFrame
  <2>2. ASSUME NEW r \in Revisions, CreateReplica(r) \/ TransferStarts(r) PROVE RemoteInv'
    <3>1. UNCHANGED <<recorded, copied, stripped>> /\ r \in rows /\ replica[r] # "expired"
      BY <2>2 DEF CreateReplica, TransferStarts, remoteVars
    <3>2. \/ replica[r] = "none" /\ replica'[r] = "pending"
          \/ replica[r] # "active" /\ replica'[r] = "active"
      BY <2>2 DEF CreateReplica, TransferStarts, IInv, TypeOK
    <3>3. \A s \in Revisions : s # r => replica'[s] = replica[s]
      BY <2>2 DEF CreateReplica, TransferStarts, IInv, TypeOK
    <3> QED BY <1>1, <3>1, <3>2, <3>3, RowsAreRevisions
         DEF IInv, RemoteInv, HasCopy, CopyIsTracked, HasRecordedCopy, PointersTrue
  <2>3. ASSUME NEW r \in Revisions, NEW started \in BOOLEAN,
               NEW to \in {"copy", "failed", "retry"}, TransferEnds(r, started, to)
        PROVE  RemoteInv'
    <3>1. r \in rows /\ replica[r] = "active" /\ replica'[r] = to
      BY <2>3 DEF TransferEnds, IInv, TypeOK
    <3>2. recorded \subseteq recorded' /\ recorded' \subseteq recorded \cup {r}
      BY <2>3 DEF TransferEnds
    <3>3. \/ to = "copy" /\ r \in recorded' /\ copied' = copied \cup {r}
             /\ stripped' = stripped \ {r}
          \/ to # "copy" /\ UNCHANGED <<copied, stripped>>
      BY <2>3 DEF TransferEnds
    <3>4. \A s \in Revisions : s # r => replica'[s] = replica[s]
      BY <2>3 DEF TransferEnds, IInv, TypeOK
    <3>5. HasCopy'
      BY <1>1, <3>1, <3>2, <3>3, <3>4, RowsAreRevisions DEF IInv, RemoteInv, HasCopy
    <3>6. CopyIsTracked'
      BY <1>1, <3>1, <3>2, <3>3, <3>4, RowsAreRevisions
      DEF IInv, RemoteInv, CopyIsTracked, HasRecordedCopy
    <3>7. PointersTrue'
      BY <1>1, <3>1, <3>2, <3>3, <3>4, RowsAreRevisions DEF IInv, RemoteInv, PointersTrue
    <3> QED BY <3>5, <3>6, <3>7 DEF RemoteInv
  <2> QED BY <1>2, <2>1, <2>2, <2>3
<1> QED BY <1>5, <1>6, <1>7, <1>8, <1>9 DEF IInv

\* A new revision is the newest, so that no other has its predecessor, and none
\* of its files was ever in a quarantine.
LEMMA CommitRevisionIInv == ASSUME IInv, CommitRevision PROVE IInv'
<1> USE DEF CommitRevision, callVars, replicaVars, remoteVars
<1> DEFINE new == created + 1
<1>1. /\ created \in Nat /\ new \in Revisions /\ new \notin rows
      /\ rows \subseteq Revisions /\ 1..created \subseteq 1..created'
  BY CleanupAssumption DEF IInv, TypeOK, Revisions
<1>2. /\ Newest(rows) \in 0..created
      /\ \A x \in rows : x <= Newest(rows)
      /\ Newest(rows) # 0 => Newest(rows) \in rows
  BY <1>1, NewestIsMax DEF IInv, TypeOK
<1>3. TypeOK'
  <2>1. /\ created' \in 0..MaxRevision
        /\ rows' \in SUBSET (1..created')
        /\ local' \in SUBSET (1..created')
    BY CleanupAssumption DEF IInv, TypeOK
  <2>2. prev' \in [Revisions -> 0..MaxRevision]
    BY CleanupAssumption, <1>1, <1>2 DEF IInv, TypeOK
  <2>3. replica' \in [Revisions -> Statuses] /\ phase' \in [Ops -> Calls]
    BY DEF IInv, TypeOK
  <2>4. place' \in [Files -> Places]
    BY DEF IInv, TypeOK, Places
  <2>5. doomed' \in [Ops -> SUBSET (1..created')]
    BY <1>1 DEF IInv, TypeOK
  <2>6. staged' \in [Ops -> SUBSET (FilesOf(1..created'))]
    BY <1>1 DEF IInv, TypeOK, FilesOf
  <2> QED BY <2>1, <2>2, <2>3, <2>4, <2>5, <2>6 DEF TypeOK
<1>4. Quarantined'
  <2>1. \A o \in Ops : \A f \in staged[o] : f[1] # new
    BY <1>1 DEF IInv, TypeOK, FilesOf
  <2> QED BY <2>1 DEF IInv, Quarantined
<1>5. DecisionHolds' BY DEF IInv, DecisionHolds, Locked
<1>6. \A r \in Revisions : \A a \in Artifacts :
         place'[<<r, a>>] = IF r = new THEN "stored" ELSE place[<<r, a>>]
  BY DEF Files
<1>7. BytesKept'
  <2> SUFFICES ASSUME NEW f \in FilesOf(rows' \cap local')
               PROVE  \/ place'[f] \in {"stored", "trash"}
                      \/ MaxLost > 0 /\ place'[f] = "lost"
    BY DEF BytesKept
  <2>1. f[1] \in rows' \cap local' /\ f[2] \in Artifacts /\ f = <<f[1], f[2]>>
    BY DEF FilesOf
  <2>2. f[1] \in Revisions /\ (f[1] = new \/ f[1] \in rows \cap local) BY <1>1, <2>1
  <2>3. CASE f[1] = new BY <1>6, <2>1, <2>2, <2>3
  <2>4. CASE f[1] # new
    <3>1. f \in FilesOf(rows \cap local) BY <2>1, <2>2, <2>4 DEF FilesOf
    <3>2. place'[f] = place[f] BY <1>6, <2>1, <2>2, <2>4
    <3> QED BY <3>1, <3>2 DEF IInv, BytesKept
  <2> QED BY <2>3, <2>4
<1>8. Readable' BY <1>1, <1>6 DEF IInv, Readable, FilesOf
<1>9. RemoteInv'
  <2>1. replica[new] = "none" /\ new \notin recorded
    BY <1>1 DEF IInv, RemoteInv, PointersTrue
  <2>2. HasCopy' BY DEF IInv, RemoteInv, HasCopy
  <2>3. CopyIsTracked' BY DEF IInv, RemoteInv, CopyIsTracked, HasRecordedCopy
  <2>4. PointersTrue' BY <2>1 DEF IInv, RemoteInv, PointersTrue
  <2> QED BY <2>2, <2>3, <2>4 DEF RemoteInv
<1>10. LocalChain'
  <2>1. prev'[new] = Newest(rows) /\ \A r \in rows : prev'[r] = prev[r] /\ r < new
    BY <1>1 DEF IInv, TypeOK
  <2>2. \A r \in rows : prev[r] # 0 => prev[r] # Newest(rows)
    BY <1>1, <1>2 DEF IInv, LocalChain, TypeOK, Revisions
  <2>3. \A r \in rows' : r = new \/ r \in rows
    OBVIOUS
  <2>4. \A r \in rows' : prev'[r] # 0 => prev'[r] < r /\ prev'[r] \in rows'
    BY <1>1, <1>2, <2>1, <2>3 DEF IInv, LocalChain
  <2>5. \A r, q \in rows' \cap local' : r # q /\ prev'[r] # 0 => prev'[r] # prev'[q]
    BY <1>1, <1>2, <2>1, <2>2, <2>3 DEF IInv, LocalChain
  <2> QED BY <2>4, <2>5 DEF LocalChain
<1> QED BY <1>3, <1>4, <1>5, <1>7, <1>8, <1>9, <1>10 DEF IInv

\* Remote retention keeps the row of a revision that is in the local storage
\* and takes the links to the rows that it removes.
LEMMA RemoteExpiresIInv ==
    ASSUME IInv, NEW r \in Revisions, RemoteExpires(r)
    PROVE  IInv'
<1> USE DEF RemoteExpires, MayExpire, RowsAfterExpiry, CascadeReplicas, ReplicaFrame, callVars
<1>1. /\ rows' \subseteq rows /\ rows \ rows' \subseteq {r} \ local
      /\ rows \subseteq Revisions
  BY CleanupAssumption DEF IInv, TypeOK, Revisions
<1>2. TypeOK'
  <2>1. replica' \in [Revisions -> Statuses]
    BY DEF IInv, TypeOK, Statuses
  <2>2. prev' \in [Revisions -> 0..MaxRevision]
    BY CleanupAssumption DEF IInv, TypeOK, Unlink
  <2> QED BY <1>1, <2>1, <2>2 DEF IInv, TypeOK
<1>3. Quarantined' BY DEF IInv, Quarantined
<1>4. DecisionHolds' BY DEF IInv, DecisionHolds, Locked
<1>5. BytesKept' BY <1>1 DEF IInv, BytesKept, FilesOf
<1>6. Readable' BY <1>1 DEF IInv, Readable, FilesOf
<1>7. RemoteInv'
  <2>1. recorded' = recorded \ (rows \ rows') /\ stripped' = stripped \ (rows \ rows')
    OBVIOUS
  <2>2. \A s \in Revisions : s # r => replica'[s] = replica[s]
    BY <1>1 DEF IInv, TypeOK
  <2>3. replica'[r] = IF r \in rows' THEN "expired" ELSE "none"
    BY <1>1 DEF IInv, TypeOK, RemoteCandidates
  <2>4. /\ copied' = copied \ {r} /\ UNCHANGED local
        /\ r \in rows' => r \in local
        /\ r \in rows
    BY DEF RemoteCandidates
  <2>5. HasCopy' BY <1>1, <2>1, <2>2, <2>4 DEF IInv, RemoteInv, HasCopy
  <2>6. CopyIsTracked'
    BY <1>1, <2>1, <2>2, <2>4 DEF IInv, RemoteInv, CopyIsTracked, HasRecordedCopy
  <2>7. PointersTrue'
    BY <1>1, <2>1, <2>2, <2>3, <2>4 DEF IInv, RemoteInv, PointersTrue
  <2> QED BY <2>5, <2>6, <2>7 DEF RemoteInv
<1>8. LocalChain'
  <2>1. \A s \in rows' : prev'[s] = IF prev[s] \in rows \ rows' THEN 0 ELSE prev[s]
    BY <1>1 DEF Unlink
  <2> QED BY <1>1, <2>1 DEF IInv, LocalChain
<1> QED BY <1>2, <1>3, <1>4, <1>5, <1>6, <1>7, <1>8 DEF IInv

\* A copy that is deleted by a transaction which fails is remembered as lost.
LEMMA CopyDeletedIInv ==
    ASSUME IInv,
           \/ \E r \in Revisions : RemoteExpiryFails(r)
           \/ \E o \in Ops : DeleteRemote(o)
    PROVE  IInv'
<1> USE DEF chainVars, callVars, ReplicaFrame
<1>1. /\ UNCHANGED <<created, rows, local, prev, place, protected, running, replica, recorded,
                     doomed, staged, torn>>
      /\ copied' \subseteq copied
      /\ copied \cup stripped \subseteq copied' \cup stripped'
      /\ stripped \subseteq stripped'
  BY DEF RemoteExpiryFails, DeleteRemote
<1>2. \/ UNCHANGED phase
      \/ \E o \in Ops : /\ phase[o] = "delete" /\ phase' = [phase EXCEPT ![o] = "deleted"]
                        /\ doomed[o] \cap copied' = {}
  BY DEF RemoteExpiryFails, DeleteRemote
<1>3. /\ phase' \in [Ops -> Calls]
      /\ \A p \in Ops : phase'[p] = phase[p] \/ (phase[p] = "delete" /\ phase'[p] = "deleted"
                                                 /\ doomed[p] \cap copied' = {})
  BY <1>2 DEF IInv, TypeOK, Calls, InTransaction
<1>4. TypeOK' BY <1>1, <1>3 DEF IInv, TypeOK
<1>5. Quarantined' BY <1>1, <1>3 DEF IInv, Quarantined, InTransaction
<1>6. DecisionHolds' BY <1>1, <1>3 DEF IInv, DecisionHolds, InTransaction
<1>7. BytesKept' /\ Readable' /\ LocalChain' BY <1>1 DEF IInv, BytesKept, Readable, LocalChain
<1>8. RemoteInv'
  BY <1>1 DEF IInv, RemoteInv, HasCopy, CopyIsTracked, HasRecordedCopy, PointersTrue
<1> QED BY <1>4, <1>5, <1>6, <1>7, <1>8 DEF IInv

\* A call that begins has moved nothing yet; it decides under the locks.
LEMMA BeginIInv ==
    ASSUME IInv, NEW o \in Ops,
           \/ \E planned \in SUBSET (rows \cap local) : BeginRetention(o, planned)
           \/ \E r \in Revisions : BeginDelete(o, r)
    PROVE  IInv'
<1> USE DEF dbVars, chainVars, replicaVars, remoteVars
<1>1. /\ UNCHANGED <<created, rows, local, prev, protected, running, replica, recorded,
                     copied, stripped, place, staged, torn>>
      /\ ~ running
      /\ phase[o] = "idle"
      /\ phase' \in {[phase EXCEPT ![o] = p] : p \in {"retention", "delete"}}
  BY DEF BeginRetention, BeginDelete, Removable, InTransaction
<1>2. PICK revs \in SUBSET rows :
         /\ doomed' = [doomed EXCEPT ![o] = revs]
         /\ \A r \in revs : replica[r] # "active" /\ r \notin protected
  <2>1. CASE \E planned \in SUBSET (rows \cap local) : BeginRetention(o, planned)
    <3>1. PICK planned \in SUBSET (rows \cap local) : BeginRetention(o, planned) BY <2>1
    <3> DEFINE revs == {r \in planned : ~ Deferred(r)}
    <3>2. revs \in SUBSET rows /\ doomed' = [doomed EXCEPT ![o] = revs]
      BY <3>1 DEF BeginRetention
    <3>3. \A r \in revs : replica[r] # "active" BY DEF Deferred
    <3>4. \A r \in revs : r \notin protected BY <3>1 DEF BeginRetention, Removable
    <3> QED BY <3>2, <3>3, <3>4
  <2>2. CASE \E r \in Revisions : BeginDelete(o, r)
    <3>1. PICK r \in Revisions : BeginDelete(o, r) BY <2>2
    <3>2. /\ {r} \in SUBSET rows /\ doomed' = [doomed EXCEPT ![o] = {r}]
          /\ replica[r] # "active" /\ r \notin protected
      BY <3>1 DEF BeginDelete, Removable
    <3> QED BY <3>2
  <2> QED BY <2>1, <2>2
<1>3. TypeOK'
  <2>1. phase' \in [Ops -> Calls] BY <1>1 DEF IInv, TypeOK, Calls, InTransaction
  <2>2. doomed' \in [Ops -> SUBSET (1..created)] BY <1>2 DEF IInv, TypeOK
  <2> QED BY <1>1, <2>1, <2>2 DEF IInv, TypeOK
<1>4. Quarantined'
  BY <1>1, <1>2 DEF IInv, TypeOK, Quarantined, InTransaction, FilesOf
<1>5. DecisionHolds' BY <1>1, <1>2 DEF IInv, TypeOK, DecisionHolds, InTransaction
<1>6. BytesKept' /\ Readable' /\ LocalChain' BY <1>1 DEF IInv, BytesKept, Readable, LocalChain
<1>7. RemoteInv' BY <1>1, RemoteFrame
<1> QED BY <1>3, <1>4, <1>5, <1>6, <1>7 DEF IInv

\* A file of a removed revision that is moved, or whose deletion is not
\* answered, is in the quarantine, torn or lost.
LEMMA StageIInv ==
    ASSUME IInv, NEW o \in Ops, NEW f \in Files, StageFile(o, f) \/ StageUnanswered(o, f)
    PROVE  IInv'
<1> USE DEF dbVars, chainVars, replicaVars, remoteVars
<1>1. /\ UNCHANGED <<created, rows, local, prev, protected, running, replica, recorded,
                     copied, stripped>>
      /\ phase[o] \in InTransaction
      /\ f \in FilesOf(doomed[o])
      /\ \/ place' = [place EXCEPT ![f] = "trash"]
         \/ place' = [place EXCEPT ![f] = "lost"] /\ MaxLost > 0
  <2>1. IsFiniteSet({g \in Files : place[g] = "lost"})
    <3>1. IsFiniteSet(Revisions) BY CleanupAssumption, FS_Interval DEF Revisions
    <3>2. IsFiniteSet(Files) BY <3>1, CleanupAssumption, FS_Product DEF Files
    <3> QED BY <3>2, FS_Subset
  <2>2. Cardinality({g \in Files : place[g] = "lost"}) \in Nat
    BY <2>1, FS_CardinalityType
  <2> QED BY <2>2, CleanupAssumption DEF StageFile, StageUnanswered, ToStage
<1>2. /\ \/ staged' = [staged EXCEPT ![o] = @ \cup {f}] /\ UNCHANGED <<phase, doomed, torn>>
         \/ /\ UNCHANGED staged
            /\ phase' = [phase EXCEPT ![o] = "restore"]
            /\ doomed' = [doomed EXCEPT ![o] = {}]
            /\ torn \subseteq torn'
            /\ f \in torn' \/ place' = [place EXCEPT ![f] = "lost"]
  BY DEF StageFile, StageUnanswered, Leave
<1>11. \E p \in {"trash", "lost"} :
          place' = [place EXCEPT ![f] = p] /\ (p = "lost" => MaxLost > 0)
  BY <1>1
<1>3. f \in FilesOf(1..created) BY <1>1 DEF IInv, TypeOK, FilesOf
<1>4. TypeOK'
  <2>1. place' \in [Files -> Places] BY <1>1 DEF IInv, TypeOK, Places
  <2>2. phase' \in [Ops -> Calls] BY <1>2 DEF IInv, TypeOK, Calls
  <2>3. doomed' \in [Ops -> SUBSET (1..created)] BY <1>2 DEF IInv, TypeOK
  <2>4. staged' \in [Ops -> SUBSET (FilesOf(1..created))] BY <1>2, <1>3 DEF IInv, TypeOK
  <2> QED BY <1>1, <2>1, <2>2, <2>3, <2>4 DEF IInv, TypeOK
<1>5. Quarantined' BY <1>1, <1>2 DEF IInv, TypeOK, Quarantined, InTransaction
<1>6. DecisionHolds' BY <1>1, <1>2 DEF IInv, TypeOK, DecisionHolds, InTransaction
<1>7. BytesKept'
  <2>1. \A g \in Files : \/ place'[g] = place[g] \/ place'[g] = "trash"
                         \/ (place'[g] = "lost" /\ MaxLost > 0)
    BY <1>11 DEF IInv, TypeOK
  <2>2. FilesOf(rows \cap local) \subseteq Files
    BY RowsAreRevisions DEF Files, FilesOf
  <2> QED BY <1>1, <2>1, <2>2 DEF IInv, BytesKept
<1>8. Readable'
  <2>1. \A g \in FilesOf(rows \cap local) : g # f => place'[g] = place[g]
    BY <1>11, RowsAreRevisions DEF IInv, TypeOK, Files, FilesOf
  <2>2. \A p \in Ops : staged[p] \subseteq staged'[p] BY <1>2 DEF IInv, TypeOK
  <2>3. place'[f] = "lost" \/ f \in torn' \/ f \in staged'[o]
    BY <1>2 DEF IInv, TypeOK
  <2>4. torn \subseteq torn' BY <1>2
  <2> QED BY <1>1, <2>1, <2>2, <2>3, <2>4 DEF IInv, Readable
<1>9. RemoteInv' BY <1>1, RemoteFrame
<1>10. LocalChain' BY <1>1 DEF IInv, LocalChain
<1> QED BY <1>4, <1>5, <1>6, <1>7, <1>8, <1>9, <1>10 DEF IInv

\* A file leaves the quarantine to the storage, or to nobody's hands, or it is
\* destroyed: then its revision is not in the local storage any more.
LEMMA UnstageIInv ==
    ASSUME IInv, NEW o \in Ops, NEW f \in Files,
           RestoreFile(o, f) \/ RestoreFails(o, f) \/ PurgeFile(o, f)
    PROVE  IInv'
<1> USE DEF dbVars, chainVars, replicaVars, remoteVars
<1>1. /\ UNCHANGED <<created, rows, local, prev, protected, running, replica, recorded,
                     copied, stripped, phase, doomed>>
      /\ phase[o] \in {"purge", "restore"}
      /\ f \in staged[o]
      /\ staged' = [staged EXCEPT ![o] = @ \ {f}]
  BY DEF RestoreFile, RestoreFails, PurgeFile, Purging
<1>2. \/ place' = [place EXCEPT ![f] = "stored"] /\ UNCHANGED torn
      \/ UNCHANGED place /\ torn' = torn \cup {f}
      \/ /\ place' = [place EXCEPT ![f] = "none"] /\ UNCHANGED torn
         /\ f[1] \notin local
  BY DEF RestoreFile, RestoreFails, PurgeFile, Purging, IInv, Quarantined
<1>3. TypeOK'
  <2>1. place' \in [Files -> Places] BY <1>2 DEF IInv, TypeOK, Places
  <2>2. staged' \in [Ops -> SUBSET (FilesOf(1..created))] BY <1>1 DEF IInv, TypeOK
  <2> QED BY <1>1, <2>1, <2>2 DEF IInv, TypeOK
<1>4. Quarantined' BY <1>1 DEF IInv, TypeOK, Quarantined, InTransaction
<1>5. DecisionHolds' BY <1>1 DEF IInv, DecisionHolds
<1>6. \A g \in FilesOf(rows \cap local) :
         /\ g \in Files
         /\ place'[g] # place[g] => place'[g] = "stored"
         /\ g = f => place'[f] = "stored" \/ f \in torn'
  <2>1. FilesOf(rows \cap local) \subseteq Files
    BY RowsAreRevisions DEF Files, FilesOf
  <2>2. f \in FilesOf(rows \cap local) =>
           place'[f] = "stored" \/ (f \in torn' /\ place'[f] = place[f])
    BY <1>2 DEF IInv, TypeOK, FilesOf
  <2>3. \A g \in Files : g # f => place'[g] = place[g]
    BY <1>2 DEF IInv, TypeOK
  <2> QED BY <2>1, <2>2, <2>3
<1>7. BytesKept' BY <1>1, <1>6 DEF IInv, BytesKept
<1>8. Readable'
  <2>1. torn \subseteq torn' BY <1>2
  <2>2. \A p \in Ops : \A g \in staged[p] : g # f => g \in staged'[p]
    BY <1>1 DEF IInv, TypeOK
  <2> QED BY <1>1, <1>6, <2>1, <2>2 DEF IInv, Readable
<1>9. RemoteInv' BY <1>1, RemoteFrame
<1>10. LocalChain' BY <1>1 DEF IInv, LocalChain
<1> QED BY <1>3, <1>4, <1>5, <1>7, <1>8, <1>9, <1>10 DEF IInv

\* A call that fails, dies or returns leaves rows and files as they are.
LEMMA LeaveIInv ==
    ASSUME IInv, NEW o \in Ops, Fail(o) \/ Return(o) \/ Crash(o)
    PROVE  IInv'
<1> USE DEF dbVars, chainVars, replicaVars, remoteVars, Leave
<1>1. /\ UNCHANGED <<created, rows, local, prev, protected, running, replica, recorded,
                     copied, stripped, place>>
      /\ phase' \in {[phase EXCEPT ![o] = p] : p \in {"done", "restore"}}
      /\ doomed' = [doomed EXCEPT ![o] = {}] \/ UNCHANGED doomed
  BY DEF Fail, Return, Crash
<1>2. \/ UNCHANGED <<staged, torn>> /\ (phase'[o] = "restore" \/ staged[o] = {})
      \/ staged' = [staged EXCEPT ![o] = {}] /\ torn' = torn \cup staged[o]
  BY DEF Fail, Return, Crash, IInv, TypeOK
<1>3. TypeOK'
  <2>1. phase' \in [Ops -> Calls] BY <1>1 DEF IInv, TypeOK, Calls
  <2>2. doomed' \in [Ops -> SUBSET (1..created)] BY <1>1 DEF IInv, TypeOK
  <2>3. staged' \in [Ops -> SUBSET (FilesOf(1..created))] BY <1>2 DEF IInv, TypeOK
  <2> QED BY <1>1, <2>1, <2>2, <2>3 DEF IInv, TypeOK
<1>4. Quarantined'
  <2>1. \A p \in Ops : staged'[p] \subseteq staged[p] BY <1>2 DEF IInv, TypeOK
  <2>2. phase'[o] = "restore" \/ (phase'[o] = "done" /\ staged'[o] = {})
    BY <1>1, <1>2 DEF IInv, TypeOK
  <2>3. \A p \in Ops : p # o => phase'[p] = phase[p] /\ doomed'[p] = doomed[p]
    BY <1>1 DEF IInv, TypeOK
  <2> QED BY <1>1, <2>1, <2>2, <2>3 DEF IInv, Quarantined, InTransaction
<1>5. DecisionHolds' BY <1>1 DEF IInv, TypeOK, DecisionHolds, InTransaction
<1>6. BytesKept' /\ LocalChain' BY <1>1 DEF IInv, BytesKept, LocalChain
<1>7. Readable'
  <2>1. torn \subseteq torn'
        /\ \A p \in Ops : \A g \in staged[p] : g \in staged'[p] \/ g \in torn'
    BY <1>2 DEF IInv, TypeOK
  <2> QED BY <1>1, <2>1 DEF IInv, Readable
<1>8. RemoteInv' BY <1>1, RemoteFrame
<1> QED BY <1>3, <1>4, <1>5, <1>6, <1>7, <1>8 DEF IInv

\* The transaction commits: the rows and files that go are those it decided on,
\* their revisions leave the local storage before the quarantine is emptied,
\* what stays as metadata has a recorded copy, and the kept ones are a chain.
LEMMA ApplyIInv ==
    ASSUME IInv, NEW o \in Ops, Commit(o) \/ CommitUnconfirmed(o)
    PROVE  IInv'
<1>1. /\ UNCHANGED <<created, protected, running, copied, place, staged, torn>>
      /\ phase' \in {[phase EXCEPT ![o] = p] : p \in {"purge", "restore"}}
      /\ doomed' = [doomed EXCEPT ![o] = {}]
      /\ phase[o] \in InTransaction
      /\ rows' = rows \ RemovedRows(o)
      /\ local' = local \ doomed[o]
  BY DEF Commit, CommitUnconfirmed, ReadyToCommit, InTransaction, Apply, Leave
<1>2. /\ prev' = Unlink(Relinked(prev, Kept(o)), RemovedRows(o))
      /\ replica' = [r \in Revisions |-> IF r \in RemovedRows(o) THEN "none" ELSE replica[r]]
      /\ recorded' = recorded \ RemovedRows(o)
      /\ stripped' = stripped \ RemovedRows(o)
  <2>1. rows \ rows' \subseteq RemovedRows(o) BY <1>1
  <2> QED BY DEF Commit, CommitUnconfirmed, Apply, CascadeReplicas
<1>3. /\ RemovedRows(o) \subseteq doomed[o]
      /\ Kept(o) \subseteq rows \ doomed[o]
      /\ rows' \cap local' \subseteq Kept(o)
  BY <1>1 DEF RemovedRows, Kept
<1>4. rows \subseteq Revisions /\ MaxRevision \in Nat
  BY CleanupAssumption DEF IInv, TypeOK, Revisions
<1> DEFINE K == Kept(o)
<1>5. /\ \A r \in K : Newest({s \in K : s < r}) \in 0..MaxRevision
      /\ \A r \in K : Newest({s \in K : s < r}) # 0 =>
            Newest({s \in K : s < r}) \in K /\ Newest({s \in K : s < r}) < r
      /\ \A r, q \in K : r < q => Newest({s \in K : s < r}) # Newest({s \in K : s < q})
  <2>1. K \in SUBSET (1..MaxRevision) BY <1>3, <1>4 DEF Revisions
  <2> HIDE DEF K
  <2> QED BY <1>4, <2>1, RelinkedIsChain
<1>6. /\ \A r \in Revisions : r \in K => prev'[r] = Newest({s \in K : s < r})
      /\ \A r \in Revisions : r \notin K =>
            prev'[r] = IF prev[r] \in RemovedRows(o) THEN 0 ELSE prev[r]
      /\ prev' \in [Revisions -> 0..MaxRevision]
  <2> DEFINE link == Relinked(prev, K)
  <2>1. /\ \A r \in Revisions : r \in K => link[r] = Newest({s \in K : s < r})
        /\ \A r \in Revisions : r \notin K => link[r] = prev[r]
        /\ \A r \in Revisions : link[r] \in 0..MaxRevision
    BY <1>5 DEF Relinked, IInv, TypeOK
  <2>2. \A r \in K : link[r] # 0 => link[r] \notin RemovedRows(o)
    BY <1>3, <1>4, <1>5, <2>1
  <2>3. \A r \in Revisions : r \in K /\ link[r] = 0 => link[r] \notin RemovedRows(o)
    BY <1>3 DEF IInv, TypeOK
  <2>4. prev' = [r \in Revisions |-> IF link[r] \in RemovedRows(o) THEN 0 ELSE link[r]]
    BY <1>2 DEF Unlink
  <2> HIDE DEF link, K
  <2>5. prev' \in [Revisions -> 0..MaxRevision] BY <1>4, <2>1, <2>4
  <2> QED BY <2>1, <2>2, <2>3, <2>4, <2>5
<1>7. TypeOK'
  <2>1. rows' \in SUBSET (1..created) /\ local' \in SUBSET (1..created)
    BY <1>1 DEF IInv, TypeOK
  <2>2. replica' \in [Revisions -> Statuses] BY <1>2 DEF IInv, TypeOK, Statuses
  <2>3. phase' \in [Ops -> Calls] BY <1>1 DEF IInv, TypeOK, Calls
  <2>4. doomed' \in [Ops -> SUBSET (1..created)] BY <1>1 DEF IInv, TypeOK
  <2> QED BY <1>1, <1>6, <2>1, <2>2, <2>3, <2>4 DEF IInv, TypeOK
<1>8. Quarantined'
  <2>1. \A f \in staged[o] : f[1] \notin local'
    BY <1>1 DEF IInv, Quarantined, FilesOf
  <2>2. local' \subseteq local BY <1>1
  <2> QED BY <1>1, <2>1, <2>2 DEF IInv, TypeOK, Quarantined, InTransaction
<1>9. DecisionHolds'
  <2>1. \A p \in Ops : phase'[p] \in InTransaction =>
           phase'[p] = phase[p] /\ doomed'[p] = doomed[p]
    BY <1>1 DEF IInv, TypeOK, InTransaction
  <2>2. \A r \in Revisions : replica[r] # "active" => replica'[r] # "active"
    BY <1>2
  <2>3. \A p \in Ops : doomed[p] \subseteq Revisions
    BY CleanupAssumption DEF IInv, TypeOK, Revisions
  <2> QED BY <1>1, <2>1, <2>2, <2>3 DEF IInv, DecisionHolds
<1>10. BytesKept' BY <1>1 DEF IInv, BytesKept, FilesOf
<1>11. Readable' BY <1>1 DEF IInv, Readable, FilesOf
<1>12. RemoteInv'
  <2>1. RemovedRows(o) \cap copied = {}
    BY <1>1 DEF RemovedRows, IInv, DecisionHolds, RemoteInv, CopyIsTracked
  <2>2. \A r \in rows' : r \in local => r \in local' \/ HasRecordedCopy(r)
    BY <1>1 DEF RemovedRows
  <2>3. \A r \in rows' : /\ replica'[r] = replica[r] /\ (r \in recorded <=> r \in recorded')
                         /\ (r \in stripped <=> r \in stripped')
    BY <1>1, <1>2, <1>4
  <2>4. HasCopy'
    <3> SUFFICES ASSUME NEW r \in rows', r \in local, r \notin local'
                 PROVE  \/ r \in copied
                        \/ r \in recorded /\ replica[r] \in {"failed", "retry", "active"}
                        \/ r \in stripped
      BY <1>1, <2>3 DEF IInv, RemoteInv, HasCopy
    <3>1. HasRecordedCopy(r) /\ r \in rows BY <1>1, <2>2
    <3>2. replica[r] \in Statuses BY <3>1, <1>4 DEF IInv, TypeOK
    <3> QED BY <3>1, <3>2 DEF Statuses, HasRecordedCopy, IInv, RemoteInv, PointersTrue
  <2>5. CopyIsTracked'
    BY <1>1, <2>1, <2>3 DEF IInv, RemoteInv, CopyIsTracked, HasRecordedCopy
  <2>6. PointersTrue'
    <3>1. \A r \in Revisions \ rows' : replica'[r] = "none" /\ r \notin recorded'
      BY <1>1, <1>2 DEF IInv, RemoteInv, PointersTrue
    <3> QED BY <1>1, <2>3, <3>1 DEF IInv, RemoteInv, PointersTrue
  <2> QED BY <2>4, <2>5, <2>6 DEF RemoteInv
<1>13. LocalChain'
  <2>1. ASSUME NEW r \in rows', prev'[r] # 0
        PROVE  prev'[r] < r /\ prev'[r] \in rows'
    <3>1. CASE r \in K BY <3>1, <1>1, <1>3, <1>4, <1>5, <1>6, <2>1
    <3>2. CASE r \notin K
      <4>1. prev[r] # 0 /\ prev[r] \notin RemovedRows(o) /\ prev'[r] = prev[r]
        BY <3>2, <1>1, <1>4, <1>6, <2>1
      <4> QED BY <4>1, <1>1, <2>1 DEF IInv, LocalChain
    <3> QED BY <3>1, <3>2
  <2>2. ASSUME NEW r \in rows' \cap local', NEW q \in rows' \cap local', r # q, prev'[r] # 0
        PROVE  prev'[r] # prev'[q]
    <3>1. r \in K /\ q \in K /\ r \in Revisions /\ q \in Revisions
      BY <1>1, <1>3, <1>4
    <3>2. r < q \/ q < r BY <3>1, <2>2, <1>4 DEF Revisions
    <3> QED BY <3>1, <3>2, <1>5, <1>6
  <2> QED BY <2>1, <2>2 DEF LocalChain
<1> QED BY <1>7, <1>8, <1>9, <1>10, <1>11, <1>12, <1>13 DEF IInv

\* The invariant holds in every reachable state.
LEMMA Invariant == Spec => []IInv
<1>1. IInv /\ [Next]_vars => IInv'
  <2> SUFFICES ASSUME IInv, [Next]_vars PROVE IInv'
    OBVIOUS
  <2>1. CASE \/ RunStarts \/ RunEnds \/ ToggleDestination
             \/ \E r \in Revisions : ToggleProtection(r) \/ CreateReplica(r) \/ TransferStarts(r)
             \/ \E r \in Revisions, started \in BOOLEAN, to \in {"copy", "failed", "retry"} :
                   TransferEnds(r, started, to)
    BY <2>1, OutsideIInv
  <2>2. CASE CommitRevision BY <2>2, CommitRevisionIInv
  <2>3. ASSUME NEW r \in Revisions, RemoteExpires(r) PROVE IInv'
    BY <2>3, RemoteExpiresIInv
  <2>6. CASE \/ \E r \in Revisions : RemoteExpiryFails(r)
             \/ \E o \in Ops : DeleteRemote(o)
    BY <2>6, CopyDeletedIInv
  <2>4. ASSUME NEW o \in Ops, Call(o) PROVE IInv'
    <3>1. CASE \/ \E planned \in SUBSET (rows \cap local) : BeginRetention(o, planned)
               \/ \E r \in Revisions : BeginDelete(o, r)
      BY <3>1, BeginIInv
    <3>2. ASSUME NEW f \in Files, StageFile(o, f) \/ StageUnanswered(o, f) PROVE IInv'
      BY <3>2, StageIInv
    <3>3. ASSUME NEW f \in Files, RestoreFile(o, f) \/ RestoreFails(o, f) \/ PurgeFile(o, f)
          PROVE  IInv'
      BY <3>3, UnstageIInv
    <3>4. CASE Fail(o) \/ Return(o) \/ Crash(o) BY <3>4, LeaveIInv
    <3>5. CASE Commit(o) \/ CommitUnconfirmed(o) BY <3>5, ApplyIInv
    <3> QED BY <2>4, <2>6, <3>1, <3>2, <3>3, <3>4, <3>5 DEF Call
  <2>5. CASE UNCHANGED vars
    <3>1. UNCHANGED <<created, rows, local, prev, protected, running, replica, recorded,
                      copied, stripped, place, phase, doomed, staged, torn>>
      BY <2>5 DEF vars, dbVars, chainVars, replicaVars, remoteVars, callVars
    <3>2. TypeOK' BY <3>1 DEF IInv, TypeOK
    <3>3. Quarantined' /\ DecisionHolds' BY <3>1 DEF IInv, Quarantined, DecisionHolds
    <3>4. BytesKept' /\ Readable' /\ LocalChain'
      BY <3>1 DEF IInv, BytesKept, Readable, LocalChain
    <3>5. RemoteInv' BY <3>1, RemoteFrame
    <3> QED BY <3>2, <3>3, <3>4, <3>5 DEF IInv
  <2> QED BY <2>1, <2>2, <2>3, <2>4, <2>5, <2>6 DEF Next
<1> QED BY <1>1, InitIInv, PTL DEF Spec

-----------------------------------------------------------------------------
(* What the invariant says about the cleanups *)

\* For any number of overlapping calls, crashes and failed restores, the bytes
\* of a revision whose artifacts say local_available are in the storage or in
\* the quarantine; only S3's unanswered deletion may have taken one.
THEOREM BytesKeptHolds == Spec => []BytesKept
BY Invariant, PTL DEF IInv

\* On a file system, where a file is moved in one step, what the README says of
\* the quarantine is true: no file of a revision that is available is lost.
THEOREM NothingLostOnFileSystem ==
    ASSUME MaxLost = 0
    PROVE  Spec => []NothingLost
<1>1. IInv => NothingLost BY DEF IInv, BytesKept, NothingLost
<1> QED BY <1>1, Invariant, PTL

\* Such a revision can be read in the storage, or its files are known to be in
\* the hands of a call, torn by a crash or a failed restore, or lost by S3.
THEOREM ReadableHolds == Spec => []Readable
BY Invariant, PTL DEF IInv

\* Local retention, remote retention and deletion together never leave a
\* revision in the history without a complete copy, but for the two exceptions
\* the code admits: a recorded upload that did not succeed, and a remote deletion
\* whose transaction was rolled back.
THEOREM HasCopyHolds == Spec => []HasCopy
<1>1. IInv => HasCopy BY DEF IInv, RemoteInv
<1> QED BY <1>1, Invariant, PTL

\* As long as a complete copy is on the remote storage, its revision is in the
\* history with a pointer to it: no cleanup leaves a copy that nobody can find.
THEOREM CopyIsTrackedHolds == Spec => []CopyIsTracked
<1>1. IInv => CopyIsTracked BY DEF IInv, RemoteInv
<1> QED BY <1>1, Invariant, PTL

\* relink_kept_revisions, the foreign keys that become NULL and commit_revision
\* keep the revisions of the local storage a chain in creation order.
THEOREM LocalChainHolds == Spec => []LocalChain
BY Invariant, PTL DEF IInv

\* No step of any cleanup takes away the source of an active transfer, a
\* protected revision or, while a run is active, the revision it compares with.
THEOREM RevisionInUseKeptHolds == Spec => RevisionInUseKept
<1> DEFINE Taken ==
        /\ \A r \in local \ local' : replica[r] # "active"
        /\ \A r \in rows \cap (protected \cup (IF running THEN {Newest(rows)} ELSE {})) :
              r \in rows' /\ (r \in local => r \in local')
<1>1. IInv /\ [Next]_vars => [Taken]_vars
  <2> SUFFICES ASSUME IInv, Next PROVE Taken
    OBVIOUS
  <2> USE DEF dbVars, chainVars, replicaVars, callVars, ReplicaFrame
  <2>1. CASE rows \subseteq rows' /\ local \subseteq local'
    BY <2>1
  <2>2. ASSUME NEW r \in Revisions, RemoteExpires(r) PROVE Taken
    <3>1. ~ running /\ r \notin protected /\ UNCHANGED local
      BY <2>2 DEF RemoteExpires, MayExpire, Removable
    <3>2. rows \ rows' \subseteq {r} BY <2>2 DEF RemoteExpires, RowsAfterExpiry
    <3> QED BY <3>1, <3>2
  <2>3. ASSUME NEW o \in Ops, Commit(o) \/ CommitUnconfirmed(o) PROVE Taken
    <3>1. /\ phase[o] \in InTransaction
          /\ rows' = rows \ RemovedRows(o) /\ local' = local \ doomed[o]
      BY <2>3 DEF Commit, CommitUnconfirmed, ReadyToCommit, InTransaction, Apply
    <3>2. RemovedRows(o) \subseteq doomed[o] BY DEF RemovedRows
    <3>3. ~ running /\ \A r \in doomed[o] : replica[r] # "active" /\ r \notin protected
      BY <3>1 DEF IInv, DecisionHolds
    <3> QED BY <3>1, <3>2, <3>3
  <2>4. CASE \/ RunStarts \/ RunEnds \/ CommitRevision \/ ToggleDestination
             \/ \E r \in Revisions : \/ ToggleProtection(r) \/ CreateReplica(r)
                                     \/ TransferStarts(r) \/ RemoteExpiryFails(r)
             \/ \E r \in Revisions, started \in BOOLEAN, to \in {"copy", "failed", "retry"} :
                   TransferEnds(r, started, to)
    BY <2>1, <2>4 DEF RunStarts, RunEnds, CommitRevision, ToggleDestination, ToggleProtection,
                      CreateReplica, TransferStarts, TransferEnds, RemoteExpiryFails
  <2>5. ASSUME NEW o \in Ops, Call(o), ~ (Commit(o) \/ CommitUnconfirmed(o)) PROVE Taken
    <3>1. UNCHANGED <<rows, local>>
      BY <2>5 DEF Call, BeginRetention, BeginDelete, StageFile, StageUnanswered, RestoreFile,
                  RestoreFails, PurgeFile, DeleteRemote, Fail, Return, Crash
    <3> QED BY <3>1, <2>1
  <2> QED BY <2>2, <2>3, <2>4, <2>5 DEF Next
<1> QED BY <1>1, Invariant, PTL DEF Spec, RevisionInUseKept
=============================================================================
