---------------------------- MODULE EpochStateStore ----------------------------
(***************************************************************************)
(* The cached, persistent store of epoch protocol state entries            *)
(* (src/storage/badger/epoch_protocol_state.go, EpochProtocolStateEntries). *)
(*                                                                         *)
(* Two read-through caches sit in front of the database: `cache` maps an  *)
(* entry ID to the entry (filled only on reads), `byBlockIdCache` maps a   *)
(* block ID to the ID of the entry the block proposes (filled on reads and *)
(* by Index, through PutTx, once the writing transaction has committed).   *)
(* ByBlockID opens a read-only transaction, a snapshot of the database at *)
(* that moment, and reads both caches, falling back to that snapshot.      *)
(*                                                                         *)
(* Environment (not under src/, from the contract of the storage cache and *)
(* of badger): a writer inserts blocks one transaction at a time; a        *)
(* transaction runs StoreTx for a new entry and Index for the block,       *)
(* either of which may fail, and then commits or fails (a conflict);       *)
(* PutTx's cache insert is an OnSucceed callback that runs after the       *)
(* commit; caches may evict any key at any time (LRU limit). Entries are   *)
(* immutable, so a value is either missing or the one value.               *)
(***************************************************************************)
EXTENDS FiniteSets

CONSTANTS
  Blocks,    \* block IDs (model values)
  EntryIDs,  \* epoch state entry IDs (model values)
  Readers,   \* goroutines calling ByBlockID (model values)
  None,      \* model value: no entry
  Shape      \* each entry's epochs: previous epoch present, next epoch's state

\* an entry ID is the hash of the entry, so it fixes which epochs it holds
Shapes == [prev : BOOLEAN, next : {"none", "setup", "committed"}]
ASSUME Shape \in [EntryIDs -> Shapes]

VARIABLES
  dbEntries,   \* entry IDs committed to the database
  dbIndex,     \* committed index: block -> entry ID or None
  cache,       \* entry IDs in `cache`
  idxCache,    \* byBlockIdCache: block -> entry ID or None (not cached)
  wtx,         \* the writer's transaction
  rd           \* each reader's ByBlockID call

vars == <<dbEntries, dbIndex, cache, idxCache, wtx, rd>>

OptEntry == EntryIDs \cup {None}
Snapshot == [index : [Blocks -> OptEntry], entries : SUBSET EntryIDs]
NoTx == [state |-> "idle", block |-> None, entry |-> None, cached |-> FALSE]
NoSnap == [index |-> [b \in Blocks |-> None], entries |-> {}]
Events == {"prevSetup", "prevCommit", "curSetup", "curCommit", "nextSetup", "nextCommit"}

TypeOK ==
  /\ dbEntries \subseteq EntryIDs /\ dbIndex \in [Blocks -> OptEntry]
  /\ cache \subseteq EntryIDs /\ idxCache \in [Blocks -> OptEntry]
  /\ wtx.state \in {"idle", "open", "committed"}
  /\ wtx.block \in Blocks \cup {None} /\ wtx.entry \in OptEntry
  /\ wtx.cached \in BOOLEAN
  /\ \A r \in Readers :
       /\ rd[r].pc \in {"idle", "lookup", "entry", "done"}
       /\ rd[r].block \in Blocks \cup {None} /\ rd[r].id \in OptEntry
       /\ rd[r].snap \in Snapshot /\ rd[r].indexedAtStart \in BOOLEAN
       /\ rd[r].pc = "entry" => rd[r].id \in EntryIDs
       /\ rd[r].result \in {"none", "ok", "not found"}
       /\ rd[r].filled \subseteq Events

Init ==
  /\ dbEntries = {} /\ dbIndex = [b \in Blocks |-> None]
  /\ cache = {} /\ idxCache = [b \in Blocks |-> None]
  /\ wtx = NoTx
  /\ rd = [r \in Readers |-> [pc |-> "idle", block |-> None, id |-> None,
                              snap |-> NoSnap, indexedAtStart |-> FALSE,
                              result |-> "none", filled |-> {}]]

-----------------------------------------------------------------------------
(* Writer: StoreTx and Index inside one database transaction               *)

\* the protocol state of a new block: a new entry (StoreTx) or an existing
\* one; Index(blockID, entryID) = byBlockIdCache.PutTx, which fails with
\* ErrAlreadyExists if the block is indexed; the caller aborts on an error
BeginTx ==
  /\ wtx.state = "idle"
  /\ \E b \in Blocks, e \in EntryIDs :
       /\ dbIndex[b] = None
       /\ wtx' = [state |-> "open", block |-> b, entry |-> e, cached |-> FALSE]
  /\ UNCHANGED <<dbEntries, dbIndex, cache, idxCache, rd>>

\* mutant: PutTx inserting into the cache as its operations run, before
\* the transaction commits
IndexCachedEagerly ==
  /\ wtx.state = "open"
  /\ idxCache' = [idxCache EXCEPT ![wtx.block] = wtx.entry]
  /\ wtx' = [wtx EXCEPT !.cached = TRUE]
  /\ UNCHANGED <<dbEntries, dbIndex, cache, rd>>

\* PutTx: the store operation runs in the transaction; the cache insert is
\* registered with tx.OnSucceed
IndexTx ==
  /\ wtx.state = "open" /\ ~wtx.cached
  /\ wtx' = [wtx EXCEPT !.cached = TRUE]
  /\ UNCHANGED <<dbEntries, dbIndex, cache, idxCache, rd>>

\* the transaction commits: the entry (StoreTx: InsertEpochProtocolState)
\* and the index become visible together
CommitTx ==
  /\ wtx.state = "open" /\ wtx.cached
  /\ dbEntries' = dbEntries \cup {wtx.entry}
  /\ dbIndex' = [dbIndex EXCEPT ![wtx.block] = wtx.entry]
  /\ wtx' = [wtx EXCEPT !.state = "committed"]
  /\ UNCHANGED <<cache, idxCache, rd>>

\* OnSucceed callbacks run after the commit: byBlockIdCache.Insert
OnSucceed ==
  /\ wtx.state = "committed"
  /\ idxCache' = [idxCache EXCEPT ![wtx.block] = wtx.entry]
  /\ wtx' = NoTx
  /\ UNCHANGED <<dbEntries, dbIndex, cache, rd>>

\* StoreTx's sanity check (identities not sorted), another write of the
\* block's transaction, or a conflict fails it: nothing is written
FailTx ==
  /\ wtx.state = "open"
  /\ wtx' = NoTx
  /\ UNCHANGED <<dbEntries, dbIndex, cache, idxCache, rd>>

\* an LRU cache evicts a key
Evict ==
  /\ \/ \E e \in cache : cache' = cache \ {e} /\ UNCHANGED idxCache
     \/ \E b \in Blocks : idxCache[b] # None
          /\ idxCache' = [idxCache EXCEPT ![b] = None] /\ UNCHANGED cache
  /\ UNCHANGED <<dbEntries, dbIndex, wtx, rd>>

-----------------------------------------------------------------------------
(* Readers: ByBlockID                                                      *)

\* tx := s.db.NewTransaction(false): a snapshot of the committed state
ByBlockIDStart(r) ==
  /\ rd[r].pc = "idle"
  /\ \E b \in Blocks :
       rd' = [rd EXCEPT ![r] = [pc |-> "lookup", block |-> b, id |-> None,
                                snap |-> [index |-> dbIndex, entries |-> dbEntries],
                                indexedAtStart |-> dbIndex[b] # None,
                                result |-> "none", filled |-> {}]]
  /\ UNCHANGED <<dbEntries, dbIndex, cache, idxCache, wtx>>

\* ByID(entryID): the same snapshot, then straight to cache.Get(entryID)(tx)
ByIDStart(r) ==
  /\ rd[r].pc = "idle"
  /\ \E e \in EntryIDs :
       rd' = [rd EXCEPT ![r] = [pc |-> "entry", block |-> None, id |-> e,
                                snap |-> [index |-> dbIndex, entries |-> dbEntries],
                                indexedAtStart |-> e \in dbEntries,
                                result |-> "none", filled |-> {}]]
  /\ UNCHANGED <<dbEntries, dbIndex, cache, idxCache, wtx>>

\* mutant: the lookup error not checked; the zero ID is looked up
LookupEntryIDIgnoresMiss(r) ==
  /\ rd[r].pc = "lookup"
  /\ LET b == rd[r].block
         id == IF idxCache[b] # None THEN idxCache[b] ELSE rd[r].snap.index[b]
     IN /\ rd' = [rd EXCEPT ![r].pc = "entry", ![r].id = id]
        /\ idxCache' = [idxCache EXCEPT ![b] = id]
  /\ UNCHANGED <<dbEntries, dbIndex, cache, wtx>>

\* byBlockIdCache.Get(blockID)(tx): a hit, or the snapshot's index (then
\* cached); not found ends the call with the wrapped ErrNotFound
LookupEntryID(r) ==
  /\ rd[r].pc = "lookup"
  /\ LET b == rd[r].block
         id == IF idxCache[b] # None THEN idxCache[b] ELSE rd[r].snap.index[b]
     IN IF id = None
          THEN /\ rd' = [rd EXCEPT ![r].pc = "done", ![r].result = "not found"]
               /\ UNCHANGED idxCache
          ELSE /\ rd' = [rd EXCEPT ![r].pc = "entry", ![r].id = id]
               /\ idxCache' = [idxCache EXCEPT ![b] = id]
  /\ UNCHANGED <<dbEntries, dbIndex, cache, wtx>>

\* mutant: the next epoch's commit looked up although its CommitID is ZeroID
NewRichNoZeroIDCheck(shape) ==
  [err |-> shape.next = "setup",
   filled |-> {"curSetup", "curCommit"}
              \cup (IF shape.prev THEN {"prevSetup", "prevCommit"} ELSE {})
              \cup (IF shape.next # "none" THEN {"nextSetup", "nextCommit"} ELSE {})]

\* newRichEpochProtocolStateEntry: the setup and commit of the previous
\* epoch if any, of the current epoch, and of the next epoch if set up,
\* its commit only when CommitID != ZeroID; the events are stored before
\* any entry referencing them, so a lookup of a real ID succeeds, and one of
\* ZeroID is storage.ErrNotFound
NewRichEpochProtocolStateEntry(shape) ==
  [err |-> FALSE,
   filled |-> {"curSetup", "curCommit"}
              \cup (IF shape.prev THEN {"prevSetup", "prevCommit"} ELSE {})
              \cup (IF shape.next # "none" THEN {"nextSetup"} ELSE {})
              \cup (IF shape.next = "committed" THEN {"nextCommit"} ELSE {})]

\* mutant: the resource cached although retrieve failed
RetrieveEntryCachesMiss(r) ==
  /\ rd[r].pc = "entry"
  /\ LET id == rd[r].id
         rich == NewRichEpochProtocolStateEntry(Shape[id])
     IN /\ rd' = [rd EXCEPT ![r].pc = "done", ![r].filled = rich.filled,
                    ![r].result = IF id \in cache \/ id \in rd[r].snap.entries
                                  THEN "ok" ELSE "not found"]
        /\ cache' = cache \cup {id}
  /\ UNCHANGED <<dbEntries, dbIndex, idxCache, wtx>>

\* cache.Get(entryID)(tx): a hit (the rich entry built when it was
\* cached), or the snapshot's entry turned into a rich entry by
\* newRichEpochProtocolStateEntry and cached; a failed build is an error
RetrieveEntry(r) ==
  /\ rd[r].pc = "entry"
  /\ LET id == rd[r].id
         rich == NewRichEpochProtocolStateEntry(Shape[id])
     IN IF id \in cache \/ (id \in rd[r].snap.entries /\ ~rich.err)
          THEN /\ rd' = [rd EXCEPT ![r].pc = "done", ![r].result = "ok",
                                   ![r].filled = rich.filled]
               /\ cache' = cache \cup {id}
          ELSE /\ rd' = [rd EXCEPT ![r].pc = "done", ![r].result = "not found"]
               /\ UNCHANGED cache
  /\ UNCHANGED <<dbEntries, dbIndex, idxCache, wtx>>

\* the caller is done with the result; tx.Discard()
ByBlockIDReturn(r) ==
  /\ rd[r].pc = "done"
  /\ rd' = [rd EXCEPT ![r].pc = "idle"]
  /\ UNCHANGED <<dbEntries, dbIndex, cache, idxCache, wtx>>

Next ==
  \/ BeginTx \/ IndexTx \/ CommitTx \/ OnSucceed \/ FailTx \/ Evict
  \/ \E r \in Readers :
       ByBlockIDStart(r) \/ ByIDStart(r) \/ LookupEntryID(r) \/ RetrieveEntry(r)
       \/ ByBlockIDReturn(r)

Spec == Init /\ [][Next]_vars

-----------------------------------------------------------------------------
(* Properties                                                              *)

\* reference: the events an entry of the given shape references
ReferencedEvents(shape) ==
  {"curSetup", "curCommit"}
  \cup {ev \in {"prevSetup", "prevCommit"} : shape.prev}
  \cup {ev \in {"nextSetup"} : shape.next \in {"setup", "committed"}}
  \cup {ev \in {"nextCommit"} : shape.next = "committed"}

(* Every ByBlockID and ByID call is linearizable against the committed     *)
(* database: an entry it returns is committed, is for ByBlockID the one    *)
(* committed for the block, and carries exactly the epoch events it        *)
(* references (newRichEpochProtocolStateEntry's conditional lookups);      *)
(* ErrNotFound is returned only for a block (an entry) not indexed        *)
(* (stored) when the call began, although the caches are filled after     *)
(* commits and by readers holding older snapshots.                         *)
ByBlockIDLinearizable ==
  \A r \in Readers :
    rd[r].pc = "done" =>
      /\ rd[r].result = "ok" =>
           /\ rd[r].id \in dbEntries
           /\ rd[r].filled = ReferencedEvents(Shape[rd[r].id])
           /\ rd[r].block # None => dbIndex[rd[r].block] = rd[r].id
      /\ rd[r].result = "not found" => ~rd[r].indexedAtStart

(* The caches never hold what the database does not: a cached index entry  *)
(* is committed, and a cached entry is committed.                          *)
CachesCoherent ==
  /\ \A b \in Blocks : idxCache[b] # None => idxCache[b] = dbIndex[b]
  /\ cache \subseteq dbEntries

=============================================================================
