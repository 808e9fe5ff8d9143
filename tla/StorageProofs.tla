--------------------------- MODULE StorageProofs ---------------------------
(***************************************************************************)
(* Proofs that the safety properties of Storage hold for any set of        *)
(* records, any behaviours and expiries, and any number of restarts.       *)
(***************************************************************************)
EXTENDS Storage, TLAPS

\* A deleted record was put before, and is not put again.
DeletedInv == deleted \subseteq DOMAIN original \ Files

\* A deletion is not in the map before it is noted there.
NotedOnce == deleted_files \cap unrecorded = {}

\* The inductive invariant.
StorageInv == /\ StorageTypeOK /\ DeletedInv /\ NotedOnce
              /\ DiscoveriesAreReal /\ OnlyExpiryEndsLoop

(* An empty disk satisfies the invariant.                                   *)
LEMMA StorageInitOK == Init => StorageInv
BY StorageAssumption
DEF Init, StorageInv, StorageTypeOK, DeletedInv, NotedOnce, DiscoveriesAreReal,
    OnlyExpiryEndsLoop, Files, None

(* What serialize stores is a duration.                                     *)
LEMMA ElapsedIs ==
  ASSUME clock \in Nat, NEW e \in Nat
  PROVE  Elapsed(e) \in Nat
BY DEF Elapsed

(* The end of the process loses its memory and nothing on the disk.         *)
LEMMA StopOK == ASSUME StorageInv, Stop PROVE StorageInv'
<1> USE DEF StorageInv
<1>1. StorageTypeOK'
  BY Zenon DEF Stop, StorageTypeOK, None, history, Files
<1> QED
  BY <1>1 DEF Stop, DeletedInv, NotedOnce, DiscoveriesAreReal,
              OnlyExpiryEndsLoop, None, history, Files

(* LocalStore::put adds a record under a new name.                          *)
LEMMA PutOK == ASSUME StorageInv, NEW k \in Keys, Put(k) PROVE StorageInv'
<1> USE DEF StorageInv
<1> DEFINE e == clock + Ttl
<1>1. /\ disk' = Written(k, e)
      /\ original' = [j \in DOMAIN original \cup {k} |-> IF j = k THEN e ELSE original[j]]
  BY DEF Put
<1>2. clock \in Nat /\ e \in Nat
  BY StorageAssumption DEF StorageTypeOK
<1>3. /\ Files' = Files \cup {k}
      /\ disk'[k] = Elapsed(e)
      /\ \A j \in Files \ {k} : disk'[j] = disk[j]
  BY <1>1 DEF Written, Files
<1>4. /\ DOMAIN original' = DOMAIN original \cup {k}
      /\ original'[k] = e
      /\ \A j \in DOMAIN original \ {k} : original'[j] = original[j]
  BY <1>1
<1>5. Elapsed(e) \in Nat
  BY <1>2, ElapsedIs
<1>6. k \notin DOMAIN original /\ k \notin Files
  BY DEF Put, StorageTypeOK
<1>7. UNCHANGED <<up, behaviour, clock, memory, restarts, deleted, expired, reported>>
  BY DEF Put
<1>8. StorageTypeOK'
  BY <1>2, <1>3, <1>4, <1>5, <1>6, <1>7 DEF StorageTypeOK, memory
<1>9. DeletedInv' /\ NotedOnce'
  BY <1>3, <1>4, <1>5, <1>6, <1>7 DEF StorageTypeOK, DeletedInv, NotedOnce, memory
<1>10. DiscoveriesAreReal' /\ OnlyExpiryEndsLoop'
  BY <1>3, <1>6, <1>7 DEF DeletedInv, DiscoveriesAreReal, OnlyExpiryEndsLoop, memory
<1> QED BY <1>8, <1>9, <1>10

(* LocalStore::get marks at most the record it has read.                    *)
LEMMA GetOK == ASSUME StorageInv, NEW k \in Keys, Get(k) PROVE StorageInv'
<1> USE DEF StorageInv
<1>1. stale' \subseteq Keys
  BY DEF Get, None
<1>2. UNCHANGED <<up, behaviour, clock, disk, unread, pc, listing, unrecorded, deleted_files,
                  restarts, history>>
  BY DEF Get
<1>3. StorageTypeOK'
  BY <1>1, <1>2 DEF StorageTypeOK, history, Files
<1>4. DeletedInv' /\ NotedOnce' /\ DiscoveriesAreReal' /\ OnlyExpiryEndsLoop'
  BY <1>1, <1>2
  DEF DeletedInv, NotedOnce, DiscoveriesAreReal, OnlyExpiryEndsLoop, history, Files
<1> QED BY <1>3, <1>4

(* LocalStore::remove takes a record and notes nothing as deleted.          *)
LEMMA RemoveOK == ASSUME StorageInv, Remove PROVE StorageInv'
<1> USE DEF StorageInv
<1>1. PICK k \in stale : disk' = Removed(k) /\ expired' = expired \cup ({k} \cap Files)
  BY DEF Remove
<1>2. /\ Files' = Files \ {k}
      /\ \A j \in Files \ {k} : disk'[j] = disk[j]
  BY <1>1 DEF Removed, Files
<1>3. /\ stale' = {}
      /\ UNCHANGED <<up, behaviour, clock, unread, pc, listing, unrecorded, deleted_files,
                     restarts, original, deleted, reported>>
  BY DEF Remove, None
<1>4. StorageTypeOK'
  BY <1>1, <1>2, <1>3 DEF StorageTypeOK
<1>5. DeletedInv' /\ NotedOnce'
  BY <1>2, <1>3 DEF DeletedInv, NotedOnce
<1>6. DiscoveriesAreReal' /\ OnlyExpiryEndsLoop'
  BY <1>1, <1>2, <1>3 DEF DiscoveriesAreReal, OnlyExpiryEndsLoop
<1> QED BY <1>4, <1>5, <1>6

(* A verification request reads the disk and changes nothing.               *)
LEMMA VerifyOK == ASSUME StorageInv, NEW k \in Keys, Verify(k) PROVE StorageInv'
<1> USE DEF StorageInv
<1>1. unread' \subseteq Keys
  BY DEF Verify, None
<1> QED
  BY <1>1 DEF Verify, StorageTypeOK, DeletedInv, NotedOnce, DiscoveriesAreReal,
              OnlyExpiryEndsLoop, history, Files

(* A discovery moves an entry from the map to the reports.                  *)
LEMMA LookUpDeletedOK == ASSUME StorageInv, LookUpDeleted PROVE StorageInv'
<1> USE DEF StorageInv
<1>1. PICK k \in unread : /\ deleted_files' = deleted_files \ {k}
                          /\ reported' = reported \cup ({k} \cap deleted_files)
  BY DEF LookUpDeleted, EntryTaken
<1>2. /\ unread' = {}
      /\ UNCHANGED <<up, behaviour, clock, disk, stale, pc, listing, unrecorded, restarts,
                     original, deleted, expired>>
  BY DEF LookUpDeleted, None
<1>3. StorageTypeOK'
  BY <1>1, <1>2 DEF StorageTypeOK, Files
<1>4. DeletedInv' /\ NotedOnce' /\ OnlyExpiryEndsLoop'
  BY <1>1, <1>2 DEF DeletedInv, NotedOnce, OnlyExpiryEndsLoop, Files
<1>5. DiscoveriesAreReal'
  BY <1>1, <1>2 DEF DiscoveriesAreReal, NotedOnce, Files
<1> QED BY <1>3, <1>4, <1>5

(* The deletion loop removes a file that is neither noted nor reported.     *)
LEMMA RemoveListedOK == ASSUME StorageInv, NEW k \in Keys, RemoveListed(k) PROVE StorageInv'
<1> USE DEF StorageInv
<1>1. CASE k \notin Files
  BY <1>1, StopOK DEF RemoveListed
<1>2. CASE k \in Files
  <2>1. /\ disk' = Removed(k) /\ deleted' = deleted \cup {k} /\ listing' = listing \ {k}
        /\ unrecorded' \in {unrecorded, {k}}
        /\ pc' \in {"sleep", "remove", "record"}
        /\ UNCHANGED <<up, behaviour, clock, stale, unread, deleted_files, restarts,
                       original, expired, reported>>
    BY <1>2 DEF RemoveListed, ListingLeft, SleepIfNone
  <2>2. /\ Files' = Files \ {k}
        /\ \A j \in Files \ {k} : disk'[j] = disk[j]
    BY <2>1 DEF Removed, Files
  <2>3. k \notin deleted_files /\ k \notin reported /\ k \in DOMAIN original
    BY <1>2 DEF DiscoveriesAreReal, StorageTypeOK
  <2>4. StorageTypeOK'
    BY <2>1, <2>2 DEF StorageTypeOK
  <2>5. DeletedInv' /\ NotedOnce'
    BY <2>1, <2>2, <2>3 DEF DeletedInv, NotedOnce
  <2>6. DiscoveriesAreReal' /\ OnlyExpiryEndsLoop'
    BY <2>1, <2>2, <2>3 DEF DiscoveriesAreReal, OnlyExpiryEndsLoop
  <2> QED BY <2>4, <2>5, <2>6
<1> QED BY <1>1, <1>2

(* Every step keeps the invariant.                                          *)
LEMMA StorageNextOK == ASSUME StorageInv, [Next]_vars PROVE StorageInv'
<1> USE DEF StorageInv
<1>1. CASE \E k \in Keys : Put(k) \/ Get(k) \/ Verify(k)
  BY <1>1, PutOK, GetOK, VerifyOK
<1>2. CASE Remove \/ LookUpDeleted
  BY <1>2, RemoveOK, LookUpDeletedOK
<1>3. CASE WakeUp
  BY <1>3 DEF WakeUp, StorageTypeOK, DeletedInv, NotedOnce, DiscoveriesAreReal,
              OnlyExpiryEndsLoop, history, Files
<1>4. CASE List
  <2>1. listing' \subseteq Files /\ pc' \in {"sleep", "remove"}
    BY <1>4 DEF List, Targets, SleepIfNone
  <2>2. UNCHANGED <<up, behaviour, clock, disk, stale, unread, unrecorded, deleted_files,
                    restarts, history>>
    BY <1>4 DEF List
  <2>3. StorageTypeOK'
    BY <2>1, <2>2 DEF StorageTypeOK, history, Files
  <2> QED
    BY <2>1, <2>2, <2>3 DEF DeletedInv, NotedOnce, DiscoveriesAreReal,
                            OnlyExpiryEndsLoop, history, Files
<1>5. CASE \E k \in Keys : RemoveListed(k)
  BY <1>5, RemoveListedOK
<1>6. CASE RecordDeletion
  <2>1. pc' \in {"sleep", "remove"}
    BY <1>6 DEF RecordDeletion, SleepIfNone
  <2>2. StorageTypeOK'
    BY <1>6, <2>1 DEF RecordDeletion, StorageTypeOK, history, Files
  <2> QED
    BY <1>6, <2>2 DEF RecordDeletion, DeletedInv, NotedOnce, DiscoveriesAreReal,
                      OnlyExpiryEndsLoop, history, Files
<1>7. CASE Crash
  BY <1>7, StopOK DEF Crash
<1>8. CASE Restart
  <2>1. StorageTypeOK'
    BY <1>8, StorageAssumption DEF Restart, StorageTypeOK, memory, history, Files
  <2> QED
    BY <1>8, <2>1 DEF Restart, DeletedInv, NotedOnce, DiscoveriesAreReal,
                      OnlyExpiryEndsLoop, memory, history, Files
<1>9. CASE Tick
  <2>1. StorageTypeOK'
    BY <1>9, StorageAssumption DEF Tick, StorageTypeOK, memory, history, Files
  <2> QED
    BY <1>9, <2>1 DEF Tick, DeletedInv, NotedOnce, DiscoveriesAreReal,
                      OnlyExpiryEndsLoop, memory, history, Files
<1>10. CASE UNCHANGED vars
  BY <1>10 DEF vars, StorageTypeOK, DeletedInv, NotedOnce, DiscoveriesAreReal,
               OnlyExpiryEndsLoop, memory, history, Files
<1> QED
  BY <1>1, <1>2, <1>3, <1>4, <1>5, <1>6, <1>7, <1>8, <1>9, <1>10 DEF Next, Malice

-----------------------------------------------------------------------------
(* The state of a keeper's storage always satisfies the inductive invariant. *)
THEOREM StorageInvariant == Spec => []StorageInv
BY StorageInitOK, StorageNextOK, PTL DEF Spec

(* What is stored as an expiry is always a duration.                        *)
THEOREM StorageTypeCorrect == Spec => []StorageTypeOK
BY StorageInvariant, PTL DEF StorageInv

(* The benchmark notes and reports deletions that happened, each once.      *)
THEOREM StorageDiscoveries == Spec => []DiscoveriesAreReal
BY StorageInvariant, PTL DEF StorageInv

(* The deletion loop can fail on a file only if kademlia removed it.        *)
THEOREM StorageListings == Spec => []OnlyExpiryEndsLoop
BY StorageInvariant, PTL DEF StorageInv
=============================================================================
