------------------------------ MODULE Storage ------------------------------
(***************************************************************************)
(* The records a keeper has on its disk (src/src/storage/local.rs), and    *)
(* the tasks of its process that use them: kademlia through LocalStore     *)
(* (src/src/p2p/store.rs), the verification requests the swarm answers     *)
(* (src/src/p2p/swarm.rs), and the deletion loops of src/src/malice.  The  *)
(* loops list the files first and remove them one by one; kademlia reads a *)
(* record first and removes it if it has expired; a deletion is noted in   *)
(* the benchmark's map after it was done.  Between any two of these calls  *)
(* the other tasks go on.  The disk outlives the process, its memory does  *)
(* not.                                                                    *)
(***************************************************************************)
EXTENDS Integers

CONSTANTS Keys,        \* the names of the records, ordered as paths.sort() does
          Behaviours,  \* the values settings.malicious_behavior may have
          Ttl,         \* external: the record_ttl kademlia gives a received record
          MaxTime,     \* bound: ticks of the clock
          MaxRestarts  \* bound: restarts of the process

ASSUME StorageAssumption ==
  /\ Keys \subseteq Nat /\ Behaviours \subseteq {"none", "delete_all", "delete_last"}
  /\ Ttl \in Nat \ {0} /\ MaxTime \in Nat /\ MaxRestarts \in Nat

VARIABLES up,             \* the process is running
          behaviour,      \* the malicious behaviour it was started with
          clock,          \* the time, of Instant and of SystemTime
          disk,           \* the files: for each key on the disk, its field expires
          stale,          \* the expired record kademlia has read and goes on to remove
          unread,         \* the file the swarm could not read and goes on to look up
          pc,             \* where the deletion loop is
          listing,        \* the paths the loop has listed and has yet to remove
          unrecorded,     \* the file it has removed and not yet noted
          deleted_files,  \* the benchmark's map of deletions
          restarts,       \* restarts so far
          original,       \* history: the expiry each record was put with
          deleted,        \* history: the files the loop has removed
          expired,        \* history: the files kademlia has removed
          reported        \* history: the files logged as "discovered corrupted"

memory == <<stale, unread, pc, listing, unrecorded, deleted_files>>
history == <<original, deleted, expired, reported>>
vars == <<up, behaviour, clock, disk, memory, restarts, history>>

Files == DOMAIN disk

\* An Option is the empty set, or the set of its value.
None == {}

Init == /\ up = TRUE /\ behaviour \in Behaviours
        /\ clock = 0
        /\ disk = [k \in {} |-> 0]
        /\ stale = None /\ unread = None
        /\ pc = "sleep" /\ listing = {} /\ unrecorded = {}
        /\ deleted_files = {}
        /\ restarts = 0
        /\ original = [k \in {} |-> 0]
        /\ deleted = {} /\ expired = {} /\ reported = {}

\* The process ends, and with it what it had in memory.
Stop == /\ up' = FALSE
        /\ stale' = None /\ unread' = None
        /\ pc' = "sleep" /\ listing' = {} /\ unrecorded' = {}
        /\ deleted_files' = {}
        /\ UNCHANGED <<behaviour, clock, disk, restarts, history>>

-----------------------------------------------------------------------------
(* Records on the disk. *)

\* Serialize stores Instant::elapsed, which is 0 for a time to come.
ElapsedUnsaturated(expires) == clock - expires
Elapsed(expires) == IF expires < clock THEN clock - expires ELSE 0

\* Deserialize adds the stored duration to the time of the reading.
Instant(k) == clock + disk[k]

\* external: Record::is_expired, as kademlia asks after a get.
IsExpired(expires) == expires <= clock

Written(k, expires) == [j \in Files \cup {k} |-> IF j = k THEN Elapsed(expires) ELSE disk[j]]
Removed(k) == [j \in Files \ {k} |-> disk[j]]

-----------------------------------------------------------------------------
(* The swarm task. *)

\* The swarm handles one event at a time.
Idle == stale = None /\ unread = None

\* LocalStore::put of a record kademlia has received, and given an expiry.
\* (A put of the node's own would give none; nothing calls it.)  Every
\* upload has a new uuid.
Put(k) ==
  /\ up /\ Idle /\ k \notin DOMAIN original
  /\ LET expires == clock + Ttl IN
       /\ disk' = Written(k, expires)
       /\ original' = [j \in DOMAIN original \cup {k} |-> IF j = k THEN expires ELSE original[j]]
  /\ UNCHANGED <<up, behaviour, clock, memory, restarts, deleted, expired, reported>>

\* LocalStore::get for kademlia, which goes on to remove an expired record.
Get(k) ==
  /\ up /\ Idle /\ k \in Files
  /\ stale' = IF IsExpired(Instant(k)) THEN {k} ELSE None
  /\ UNCHANGED <<up, behaviour, clock, disk, unread, pc, listing, unrecorded, deleted_files,
                 restarts, history>>

\* LocalStore::remove: a file that is gone already is no error.
Remove ==
  /\ up
  /\ \E k \in stale : disk' = Removed(k) /\ expired' = expired \cup ({k} \cap Files)
  /\ stale' = None
  /\ UNCHANGED <<up, behaviour, clock, unread, pc, listing, unrecorded, deleted_files, restarts,
                 original, deleted, reported>>

\* handle_reqres_message_request: a file that cannot be read is looked up
\* among the deleted ones after that.
Verify(k) ==
  /\ up /\ Idle
  /\ \E readable \in BOOLEAN :
       unread' = IF k \in Files /\ readable THEN None ELSE {k}
  /\ UNCHANGED <<up, behaviour, clock, disk, stale, pc, listing, unrecorded, deleted_files,
                 restarts, history>>

\* A discovery takes the entry out of the map.
EntryKept(k) == deleted_files
EntryTaken(k) == deleted_files \ {k}

LookUpDeleted ==
  /\ up
  /\ \E k \in unread : /\ deleted_files' = EntryTaken(k)
                       /\ reported' = reported \cup ({k} \cap deleted_files)
  /\ unread' = None
  /\ UNCHANGED <<up, behaviour, clock, disk, stale, pc, listing, unrecorded, restarts,
                 original, deleted, expired>>

-----------------------------------------------------------------------------
(* The loops of MaliceDeleteAll and MaliceDeleteLast; MaliceNone has none. *)

\* try_join! polls the tasks in turn.  While kademlia waits for the storage
\* (block_on), only a removal that is under way goes on, in its own thread.
Polled == stale = None

WakeUp ==
  /\ up /\ Polled /\ behaviour # "none" /\ pc = "sleep"
  /\ pc' = "list"
  /\ UNCHANGED <<up, behaviour, clock, disk, stale, unread, listing, unrecorded, deleted_files,
                 restarts, history>>

\* The loop sleeps and lists again if there is nothing to remove.
EndIfNone(paths) == IF paths = {} THEN "end" ELSE "remove"
SleepIfNone(paths) == IF paths = {} THEN "sleep" ELSE "remove"

\* The last of the sorted paths, if there is one.
Last(paths) == {k \in paths : \A j \in paths : j <= k}

\* What the loop of a behaviour is after: all the files, or the last.
Targets == {k \in Files : \/ behaviour = "delete_all"
                          \/ behaviour = "delete_last" /\ k \in Last(Files)}

List ==
  /\ up /\ Polled /\ pc = "list"
  /\ listing' = Targets
  /\ pc' = SleepIfNone(listing')
  /\ UNCHANGED <<up, behaviour, clock, disk, stale, unread, unrecorded, deleted_files,
                 restarts, history>>

\* The paths that are left when k is removed.
ListingKept(k) == listing
ListingLeft(k) == listing \ {k}

\* remove(path)?: a path that is gone is an error, which ends the process.
RemoveListed(k) ==
  /\ up /\ pc = "remove" /\ k \in listing
  /\ IF k \notin Files THEN Stop
     ELSE /\ disk' = Removed(k)
          /\ deleted' = deleted \cup {k}
          /\ listing' = ListingLeft(k)
          /\ IF behaviour = "delete_all"
             THEN pc' = "record" /\ unrecorded' = {k}
             ELSE pc' = SleepIfNone(listing') /\ UNCHANGED unrecorded
          /\ UNCHANGED <<up, behaviour, clock, stale, unread, deleted_files, restarts,
                         original, expired, reported>>

\* MaliceDeleteAll notes the deletion in the map of the benchmark.
RecordDeletion ==
  /\ up /\ Polled /\ pc = "record"
  /\ deleted_files' = deleted_files \cup unrecorded
  /\ unrecorded' = {}
  /\ pc' = SleepIfNone(listing)
  /\ UNCHANGED <<up, behaviour, clock, disk, stale, unread, listing, restarts, history>>

-----------------------------------------------------------------------------
\* Any other error: a refused listing, removal or local put (`?`), a system
\* clock set back (unwrap), or another task of the process (try_join!).
Crash == up /\ Stop

\* The node is started again, with the same disk.
Restart ==
  /\ ~up /\ restarts < MaxRestarts
  /\ up' = TRUE /\ restarts' = restarts + 1
  /\ behaviour' \in Behaviours
  /\ UNCHANGED <<clock, disk, memory, history>>

Tick == /\ clock < MaxTime
        /\ clock' = clock + 1
        /\ UNCHANGED <<up, behaviour, disk, memory, restarts, history>>

Malice == WakeUp \/ List \/ (\E k \in Keys : RemoveListed(k)) \/ RecordDeletion

Next == \/ \E k \in Keys : Put(k) \/ Get(k) \/ Verify(k)
        \/ Remove \/ LookUpDeleted
        \/ Malice
        \/ Crash \/ Restart \/ Tick

\* tokio schedules the tasks while they can go on, the storage returns, and
\* the sleep of the loop ends.
Spec == Init /\ [][Next]_vars /\ WF_vars(Malice) /\ WF_vars(Remove \/ LookUpDeleted)

-----------------------------------------------------------------------------
(* The state keeps its shape: what is stored as an expiry is a duration.    *)
StorageTypeOK ==
  /\ up \in BOOLEAN /\ behaviour \in Behaviours
  /\ clock \in 0 .. MaxTime /\ restarts \in 0 .. MaxRestarts
  /\ Files \subseteq DOMAIN original /\ DOMAIN original \subseteq Keys
  /\ \A k \in Files : disk[k] \in Nat
  /\ \A k \in DOMAIN original : original[k] \in Nat
  /\ stale \subseteq Keys /\ unread \subseteq Keys
  /\ pc \in {"sleep", "list", "remove", "record"}
  /\ listing \subseteq Keys /\ unrecorded \subseteq Keys /\ deleted_files \subseteq Keys
  /\ deleted \subseteq Keys /\ expired \subseteq Keys /\ reported \subseteq Keys

(* What the benchmark has noted or reported as deleted was deleted by the   *)
(* loop and is not on the disk, although deleting and noting are two steps; *)
(* no deletion is reported twice.                                           *)
DiscoveriesAreReal ==
  /\ deleted_files \cup reported \cup unrecorded \subseteq deleted \ Files
  /\ reported \cap (deleted_files \cup unrecorded) = {}

(* The loop's own deletions do not make its listing stale: `?` after remove *)
(* ends the process only if kademlia has removed an expired record since    *)
(* the files were listed.                                                   *)
OnlyExpiryEndsLoop == \A k \in listing \ Files : k \in expired

(* "checks if any new files have been stored on the peer, and deletes       *)
(* them": while the process runs, MaliceDeleteAll removes every file, and   *)
(* MaliceDeleteLast the last of the files unless a later one comes.         *)
EverythingDeleted ==
  \A k \in Keys : (up /\ k \in Targets) ~> (~up \/ k \notin Targets)

(* "it will have only a few milliseconds of error": the expiry of a record  *)
(* that is read back is the one it was put with, but for a tick.            *)
ExpiryKept ==
  \A k \in Files : original[k] - Instant(k) \in -1 .. 1
=============================================================================
