---------------------------- MODULE FluxnodeStore ----------------------------
(***************************************************************************)
(* g_fluxnodeCache over restarts.  The trackers live in memory; the        *)
(* database gets the dirty entries when the coins view is flushed          *)
(* (DumpFluxnodeCache), and the undo data of a block when the block is     *)
(* first connected (csnode/csnodecachedb.cpp).                             *)
(*                                                                         *)
(* A block is identified by the chain that ends with it, as its hash does: *)
(* chainActive is the sequence of its blocks, and the undo records and the *)
(* block index are keyed by such sequences.  Blocks come from a network    *)
(* that follows the rules on an uninterrupted chain (NetworkBlocks); each  *)
(* carries, as history, the cache of a node that did nothing but connect   *)
(* the blocks up to it.                                                    *)
(***************************************************************************)
EXTENDS FluxnodeList

CONSTANTS
    PaymentsStart,  \* Params().StartFluxnodePayments()
    UndoKept,       \* ONE_WEEK_OF_BLOCK_COUNT
    Cleanup,        \* the node runs with -csnode and is out of the initial download
    Rebuild,        \* its operator may call rebuildfluxnodedb
    Reorgs,         \* the network reorganises its chain
    TornFlush,      \* the process may die in the middle of FlushStateToDisk
    MaxConnects     \* bound on the number of blocks connected

ASSUME StoreAssumption ==
    /\ PaymentsStart \in Nat
    /\ UndoKept \in Nat
    /\ Cleanup \in BOOLEAN
    /\ Rebuild \in BOOLEAN
    /\ Reorgs \in BOOLEAN
    /\ TornFlush \in BOOLEAN
    /\ MaxConnects \in Nat

VARIABLES
    cache,            \* the trackers of g_fluxnodeCache
    mapFluxnodeList,  \* its payment lists
    setDirtyOutPoint, \* collaterals whose data the database does not have
    chainActive,      \* the blocks from the first with fluxnode transactions to the tip
    validated,        \* blocks whose index entry is valid and has an undo position
    undoDb,           \* BLOCK_FLUXNODE_UNDO_DATA: block -> CFluxnodeTxBlockUndo
    cacheDb,          \* DB_FLUXNODE_CACHE_DATA: collateral -> FluxnodeCacheData
    coinsDb,          \* the chain whose coins are on disk
    indexDb,          \* "validated", as it is on disk
    connects,         \* number of blocks connected so far
    damage            \* (history) how the database was left behind the chain, if it was

memory == <<cache, mapFluxnodeList, setDirtyOutPoint, chainActive, validated>>
disk   == <<undoDb, cacheDb, coinsDb, indexDb>>
vars   == <<memory, disk, connects, damage>>

EmptyTrackers ==
    [mapStartTxTracker |-> EmptyTracker, mapStartTxDOSTracker |-> EmptyTracker,
     mapConfirmedFluxnodeData |-> EmptyTracker]

EmptyLists == [t \in Tiers |-> EmptyList]

EmptyUndo == BlockUndo(EmptyTrackers, [tx |-> [o \in Outpoints |-> NoTx], spends |-> {}, paid |-> {}], 0)

Spent(chain) == UNION {chain[h].block.spends : h \in DOMAIN chain}

-----------------------------------------------------------------------------
(***************************************************************************)
(* What connecting a block does to a cache, wherever the cache is.         *)
(***************************************************************************)
Payees(lists, g, coinsSpent, h) ==
    IF h >= PaymentsStart THEN UNION {NextPayment(lists[t], g, coinsSpent) : t \in Tiers} ELSE {}

Popped(lists, g, h) ==
    IF h >= PaymentsStart THEN [t \in Tiers |-> PopExpired(lists[t], g)] ELSE lists

\* ConnectBlock and Flush on a pair of trackers and lists.
Connected(st, b, h) ==
    LET local == ConnectCache(st.cache, b, h)
        lists == Popped(st.lists, st.cache, h)
    IN  [cache |-> FlushTrackers(st.cache, local),
         lists |-> [t \in Tiers |-> FlushList(lists[t], t, st.cache, local)]]

\* What ConnectBlock demands of a block on this cache.
Accepts(st, coinsSpent, b, h) ==
    /\ b.spends \cap coinsSpent = {}
    /\ b.paid = Payees(st.lists, st.cache, coinsSpent, h)
    /\ \A o \in Outpoints :
         TxAllowed(st.cache, h, o, b.tx[o], o \notin coinsSpent, CheckListSet(st.lists, o))

\* Mutant: a confirmed node that expires is not marked dirty.
MutTouched(g, l) ==
    {o \in Outpoints :
        \/ Has(l.mapStartTxTracker, o)
        \/ Has(l.mapStartTxDOSTracker, o)
        \/ o \in l.setDosToRemove
        \/ Has(l.mapConfirmedFluxnodeData, o)
        \/ Has(l.setUndoExpireConfirm, o)
        \/ o \in l.setUndoStartTx
        \/ MovesToConfirm(g, l, o)
        \/ MovesToStart(g, l, o)
        \/ o \in DOMAIN l.mapAddToUpdateConfirm /\ FlushUndoConfirm(g, l, o) # NullData
        \/ o \in l.mapPaidNodes /\ FlushExpire(g, l, o) # NullData
        \/ o \in DOMAIN l.mapUndoPaidNodes /\ FlushPaid(g, l, o) # NullData}

\* The collaterals that Flush marks as dirty.
Touched(g, l) ==
    {o \in Outpoints :
        \/ Has(l.mapStartTxTracker, o)
        \/ Has(l.mapStartTxDOSTracker, o)
        \/ o \in l.setDosToRemove
        \/ Has(l.mapConfirmedFluxnodeData, o)
        \/ Has(l.setUndoExpireConfirm, o)
        \/ o \in l.setUndoStartTx
        \/ MovesToConfirm(g, l, o)
        \/ MovesToStart(g, l, o)
        \/ o \in DOMAIN l.mapAddToUpdateConfirm /\ FlushUndoConfirm(g, l, o) # NullData
        \/ o \in l.setExpireConfirmOutPoints /\ FlushUpdate(g, l, o) # NullData
        \/ o \in l.mapPaidNodes /\ FlushExpire(g, l, o) # NullData
        \/ o \in DOMAIN l.mapUndoPaidNodes /\ FlushPaid(g, l, o) # NullData}

\* The cache of a node that has followed the chain block by block, without ever
\* being interrupted.
Follow(chain) ==
    IF chain = << >> THEN [cache |-> EmptyTrackers, lists |-> EmptyLists]
    ELSE Last(chain).followed

\* The blocks that the rest of the network puts on top of this chain.
NetworkBlocks(chain) ==
    LET st == Follow(chain)
        h  == Len(chain) + 1
    IN  {b \in [tx     : [Outpoints -> FluxnodeTxs],
                spends : SUBSET (Outpoints \ Spent(chain)),
                paid   : {Payees(st.lists, st.cache, Spent(chain), h)}] : Accepts(st, Spent(chain), b, h)}

-----------------------------------------------------------------------------
Init ==
    /\ cache = EmptyTrackers
    /\ mapFluxnodeList = EmptyLists
    /\ setDirtyOutPoint = {}
    /\ chainActive = << >>
    /\ validated = {}
    /\ undoDb = [c \in {} |-> EmptyUndo]
    /\ cacheDb = EmptyTracker
    /\ coinsDb = << >>
    /\ indexDb = {}
    /\ connects = 0
    /\ damage = "none"


\* CleanupOldFluxnodeData: only the undo data of recent blocks of the active
\* chain is kept.
CleanedUp(undos, chain) ==
    LET recent == {c \in DOMAIN undos : IsPrefix(c, chain) /\ Len(c) > Len(chain) - UndoKept}
    IN  [c \in recent |-> undos[c]]

\* Mutant: undo data with nothing but expired DoS entries is not written.
MutWithUndo(undos, c, undo) ==
    IF /\ c \notin validated
       /\ [undo EXCEPT !.vecExpiredDosData = EmptyUndo.vecExpiredDosData] # EmptyUndo
    THEN [k \in DOMAIN undos \cup {c} |-> IF k = c THEN undo ELSE undos[k]]
    ELSE undos

\* A block without an undo position (or not yet valid) has its undo data written,
\* unless there is none.
WithUndo(undos, c, undo) ==
    IF c \notin validated /\ undo # EmptyUndo
    THEN [k \in DOMAIN undos \cup {c} |-> IF k = c THEN undo ELSE undos[k]]
    ELSE undos

\* Every ten blocks or more, at random, the node cleans up after connecting one.
ConnectTip(b) ==
    LET h     == Len(chainActive) + 1
        chain == Append(chainActive, [block |-> b, followed |-> Connected(Follow(chainActive), b, h)])
        st    == [cache |-> cache, lists |-> mapFluxnodeList]
        local == ConnectCache(cache, b, h)
        next  == Connected(st, b, h)
        undos == WithUndo(undoDb, chain, BlockUndo(cache, b, h))
    IN  /\ connects < MaxConnects
        /\ Accepts(st, Spent(chainActive), b, h)
        /\ cache' = next.cache
        /\ mapFluxnodeList' = next.lists
        /\ setDirtyOutPoint' = setDirtyOutPoint \cup Touched(cache, local)
        /\ chainActive' = chain
        /\ validated' = validated \cup {chain}
        /\ \/ undoDb' = undos
           \/ Cleanup /\ undoDb' = CleanedUp(undos, chain)
        /\ connects' = connects + 1
        /\ UNCHANGED <<cacheDb, coinsDb, indexDb, damage>>

\* ReadBlockUndoFluxnodeData: no record is read as an empty one.
ReadUndo(c) == IF c \in DOMAIN undoDb THEN undoDb[c] ELSE EmptyUndo

DisconnectTip ==
    LET h     == Len(chainActive)
        local == DisconnectCache(cache, chainActive[h].block, ReadUndo(chainActive), h)
    IN  /\ h > 0
        /\ Reorgs
        /\ cache' = FlushTrackers(cache, local)
        /\ mapFluxnodeList' = [t \in Tiers |-> FlushList(mapFluxnodeList[t], t, cache, local)]
        /\ setDirtyOutPoint' = setDirtyOutPoint \cup Touched(cache, local)
        /\ chainActive' = Front(chainActive)
        /\ UNCHANGED <<validated, disk, connects, damage>>

\* DumpFluxnodeCache, which never empties the dirty set.
DumpFluxnodeCache ==
    [o \in Outpoints |->
        IF o \in setDirtyOutPoint THEN GetFluxnodeData(cache, o) ELSE cacheDb[o]]

\* Mutant: the coins are written without the block index.
MutFlushStateToDisk ==
    /\ coinsDb' = chainActive
    /\ cacheDb' = DumpFluxnodeCache
    /\ UNCHANGED <<memory, undoDb, indexDb, connects, damage>>

\* A full FlushStateToDisk: the block index, the coins, then the fluxnode cache.
FlushStateToDisk ==
    /\ indexDb' = validated
    /\ coinsDb' = chainActive
    /\ cacheDb' = DumpFluxnodeCache
    /\ UNCHANGED <<memory, undoDb, connects, damage>>

\* Mutant: DoS entries are not loaded.
MutLoadData(db) ==
    [mapStartTxTracker        |-> Only(db, {o \in Outpoints : db[o].nStatus = "started"}),
     mapStartTxDOSTracker     |-> EmptyTracker,
     mapConfirmedFluxnodeData |-> Only(db, {o \in Outpoints : db[o].nStatus = "confirmed"})]

\* LoadFluxnodeCacheData: each entry goes where its status says.
LoadData(db) ==
    [mapStartTxTracker        |-> Only(db, {o \in Outpoints : db[o].nStatus = "started"}),
     mapStartTxDOSTracker     |-> Only(db, {o \in Outpoints : db[o].nStatus = "dos"}),
     mapConfirmedFluxnodeData |-> Only(db, {o \in Outpoints : db[o].nStatus = "confirmed"})]

\* Mutant: the lists are not sorted after they are loaded.
MutLoadedLists(g) ==
    [t \in Tiers |-> InsertIntoList(EmptyList, InTier(t, Confirmed(g)),
                                    g.mapConfirmedFluxnodeData)]

LoadedLists(g) ==
    [t \in Tiers |-> SortList(InsertIntoList(EmptyList, InTier(t, Confirmed(g)),
                                             g.mapConfirmedFluxnodeData))]

\* The process starts with these databases.
LoadFrom(coins, index, db) ==
    /\ cache' = LoadData(db)
    /\ mapFluxnodeList' = LoadedLists(LoadData(db))
    /\ setDirtyOutPoint' = {}
    /\ chainActive' = coins
    /\ validated' = index

\* The process dies, at any point between two block operations, and starts again.
Restart ==
    /\ LoadFrom(coinsDb, indexDb, cacheDb)
    /\ UNCHANGED <<disk, connects, damage>>

\* The process dies in FlushStateToDisk: the coins are written, and of the dirty
\* entries those up to collateral k (none, for 0), in the order of the set.
RestartInFlush(k) ==
    LET db == [o \in Outpoints |-> IF o \in setDirtyOutPoint /\ o <= k
                                   THEN GetFluxnodeData(cache, o) ELSE cacheDb[o]]
    IN  /\ TornFlush
        /\ LoadFrom(chainActive, validated, db)
        /\ coinsDb' = chainActive
        /\ indexDb' = validated
        /\ cacheDb' = db
        /\ damage' = IF db = DumpFluxnodeCache THEN damage ELSE "torn"
        /\ UNCHANGED <<undoDb, connects>>

\* rebuildfluxnodedb: the cache and the database are wiped, then the block ten below
\* the activation of KAMATA is looked up to start the rescan.  KAMATA is active from
\* block 0 on every network, so the lookup gives NULL, which is dereferenced at once:
\* the process dies, and starts again on the coins and the index it last flushed and
\* on an empty fluxnode database.
RebuildFluxnodeDb ==
    /\ Rebuild
    /\ LoadFrom(coinsDb, indexDb, EmptyTracker)
    /\ undoDb' = [c \in {} |-> EmptyUndo]
    /\ cacheDb' = EmptyTracker
    /\ damage' = "wiped"
    /\ UNCHANGED <<coinsDb, indexDb, connects>>

\* The database holds, with the dirty entries, the trackers of the coins on disk.
Undamaged == damage = "none"

Next ==
    \/ \E b \in NetworkBlocks(chainActive) : ConnectTip(b)
    \/ DisconnectTip
    \/ FlushStateToDisk
    \/ Restart
    \/ \E k \in Outpoints \cup {0} : RestartInFlush(k)
    \/ RebuildFluxnodeDb

Spec == Init /\ [][Next]_vars

-----------------------------------------------------------------------------
\* Types of the database and of the bookkeeping around it.
TypeOK ==
    /\ cache \in Trackers
    /\ cacheDb \in Tracker
    /\ setDirtyOutPoint \subseteq Outpoints
    /\ \A h \in 1..Len(chainActive) : SubSeq(chainActive, 1, h) \in validated
    /\ \A h \in 1..Len(coinsDb) : SubSeq(coinsDb, 1, h) \in indexDb
    /\ indexDb \subseteq validated

\* However the node got to its tip (reorganisations, crashes, restarts from the
\* database), its trackers are those of a node that connected the blocks of the
\* active chain one after the other and did nothing else.
CacheMatchesChain == cache = Follow(chainActive).cache

\* What the database does not have is marked dirty: the entry of every other
\* collateral is on disk as it is in memory, so that a dump makes the two equal
\* (Flush, DumpFluxnodeCache, LoadData).
DirtyCovers ==
    \A o \in Outpoints \ setDirtyOutPoint : GetFluxnodeData(cache, o) = cacheDb[o]

\* As long as no flush was torn and the database not wiped, the node accepts every
\* block the network builds on its tip: it asks for the same payees and finds the same
\* transactions valid, even after a restart has put its payment lists together anew.
AcceptsNetworkBlocks ==
    Undamaged =>
        \A b \in NetworkBlocks(chainActive) :
            Accepts([cache |-> cache, lists |-> mapFluxnodeList], Spent(chainActive), b,
                    Len(chainActive) + 1)

\* The record the node would read for the block of height h is the undo data of that
\* block on that chain.
CanUndo(h) ==
    ReadUndo(SubSeq(chainActive, 1, h)) =
        BlockUndo(Follow(SubSeq(chainActive, 1, h - 1)).cache, chainActive[h].block, h)

\* Every block of the active chain can be undone, whatever was reorganised, and from
\* whichever flush the node was restarted.
UndoOfChain == \A h \in DOMAIN chainActive : CanUndo(h)


\* A node on which rebuildfluxnodedb was called has the trackers of its chain and can
\* undo its blocks: the help of the call says that it rescans the blockchain to rebuild
\* the database.
RebuildRepairs == damage = "wiped" => CacheMatchesChain /\ UndoOfChain
=============================================================================
