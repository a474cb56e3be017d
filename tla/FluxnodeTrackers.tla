-------------------------- MODULE FluxnodeTrackers --------------------------
(***************************************************************************)
(* The three trackers of the deterministic fluxnode cache (csnode/csnode.h, *)
(* csnode/csnode.cpp) and everything a block does to them: the local cache *)
(* ConnectBlock or DisconnectBlock fills in, the undo data of a block, and *)
(* FluxnodeCache::Flush, which merges a local cache into g_fluxnodeCache.  *)
(*                                                                         *)
(* A tracker is a total function from collateral outpoints to cache data;  *)
(* NullData at an outpoint says that the std::map has no such key.  Keys,  *)
(* signatures, versions, scripts and amounts are left out: what the node   *)
(* decides on here is which tracker holds a collateral, and its heights.   *)
(***************************************************************************)
EXTENDS Integers

CONSTANTS
    Outpoints,          \* collateral outpoints; integers, for COutPoint::operator<
    Ips,                \* addresses a confirm transaction may carry
    NoIp,               \* the empty string
    StartExpiration,    \* FLUXNODE_START_TX_EXPIRATION_HEIGHT (60)
    DosRemoveAmount,    \* FLUXNODE_DOS_REMOVE_AMOUNT (180)
    ConfirmExpiration,  \* what GetFluxnodeExpirationCount returns (80)
    UpdateMin,          \* FLUXNODE_CONFIRM_UPDATE_MIN_HEIGHT_V1 (40)
    IpChangeMin         \* ..._MIN_HEIGHT_IP_CHANGE_V1 (5)

ASSUME OutpointsAssumption == Outpoints \subseteq Nat

ASSUME IpsAssumption == NoIp \notin Ips

ASSUME ExpirationAssumption ==
    /\ StartExpiration \in Nat \ {0}
    /\ DosRemoveAmount \in Nat
    /\ StartExpiration < DosRemoveAmount
    /\ ConfirmExpiration \in Nat
    /\ UpdateMin \in Nat
    /\ IpChangeMin \in Nat

Statuses == {"error", "started", "dos", "confirmed"}

FluxnodeCacheData ==
    [nStatus                   : Statuses,
     nAddedBlockHeight         : Nat,
     nConfirmedBlockHeight     : Nat,
     nLastConfirmedBlockHeight : Nat,
     nLastPaidHeight           : Nat,
     ip                        : Ips \cup {NoIp}]

NullData ==
    [nStatus |-> "error", nAddedBlockHeight |-> 0, nConfirmedBlockHeight |-> 0,
     nLastConfirmedBlockHeight |-> 0, nLastPaidHeight |-> 0, ip |-> NoIp]

Tracker == [Outpoints -> FluxnodeCacheData]

EmptyTracker == [o \in Outpoints |-> NullData]

Trackers ==
    [mapStartTxTracker        : Tracker,
     mapStartTxDOSTracker     : Tracker,
     mapConfirmedFluxnodeData : Tracker]

\* map.count(out)
Has(map, o) == map[o] # NullData

Started(g)   == {o \in Outpoints : Has(g.mapStartTxTracker, o)}
InDoS(g)     == {o \in Outpoints : Has(g.mapStartTxDOSTracker, o)}
Confirmed(g) == {o \in Outpoints : Has(g.mapConfirmedFluxnodeData, o)}

GetFluxnodeData(g, o) ==
    IF Has(g.mapStartTxTracker, o) THEN g.mapStartTxTracker[o]
    ELSE IF Has(g.mapStartTxDOSTracker, o) THEN g.mapStartTxDOSTracker[o]
    ELSE g.mapConfirmedFluxnodeData[o]

-----------------------------------------------------------------------------
(***************************************************************************)
(* Blocks.  CheckBlock admits one fluxnode transaction per collateral, so  *)
(* a block's transactions are a function of the collateral.  "spends" are  *)
(* the collaterals some ordinary transaction of the block spends; such a   *)
(* transaction comes after the collateral's fluxnode transaction, if there *)
(* is one, for otherwise CheckFluxnodeTxInput rejects the block.  "paid"   *)
(* are the nodes the coinbase pays.                                        *)
(***************************************************************************)
NoTx        == [type |-> "none", ip |-> NoIp]
StartTx     == [type |-> "start", ip |-> NoIp]
ConfirmTxs  == [type : {"confirm"}, ip : Ips]
UpdateTxs   == [type : {"update"}, ip : Ips]
FluxnodeTxs == {NoTx, StartTx} \cup ConfirmTxs \cup UpdateTxs

Blocks ==
    [tx     : [Outpoints -> FluxnodeTxs],
     spends : SUBSET Outpoints,
     paid   : SUBSET Outpoints]

TxsOfType(b, type) == {o \in Outpoints : b.tx[o].type = type}

CheckNewStartTx(g, o) ==
    /\ ~Has(g.mapStartTxTracker, o)
    /\ ~Has(g.mapStartTxDOSTracker, o)

CheckConfirmationHeights(g, h, o, ip) ==
    LET data == GetFluxnodeData(g, o)
        age  == h - data.nLastConfirmedBlockHeight
    IN  /\ Has(g.mapConfirmedFluxnodeData, o)
        /\ data # NullData
        /\ \/ ip # data.ip /\ age >= IpChangeMin
           \/ age > UpdateMin

\* Mutant: the collateral of an update is not looked up in the coins view.
MutTxAllowed(g, h, o, tx, coinAvailable, inList) ==
    \/ tx = NoTx
    \/ /\ tx = StartTx
       /\ coinAvailable
       /\ CheckNewStartTx(g, o)
       /\ ~Has(g.mapConfirmedFluxnodeData, o)
    \/ /\ tx \in ConfirmTxs
       /\ coinAvailable
       /\ Has(g.mapStartTxTracker, o)
    \/ /\ tx \in UpdateTxs
       /\ Has(g.mapConfirmedFluxnodeData, o)
       /\ inList
       /\ CheckConfirmationHeights(g, h, o, tx.ip)

\* What ContextualCheckTransaction and ConnectBlock demand of the fluxnode
\* transaction of collateral o; coinAvailable is CheckFluxnodeTxInput and
\* inList is CheckListSet.
TxAllowed(g, h, o, tx, coinAvailable, inList) ==
    \/ tx = NoTx
    \/ /\ tx = StartTx
       /\ coinAvailable
       /\ CheckNewStartTx(g, o)
       /\ ~Has(g.mapConfirmedFluxnodeData, o)
    \/ /\ tx \in ConfirmTxs
       /\ coinAvailable
       /\ Has(g.mapStartTxTracker, o)
    \/ /\ tx \in UpdateTxs
       /\ coinAvailable
       /\ Has(g.mapConfirmedFluxnodeData, o)
       /\ inList
       /\ CheckConfirmationHeights(g, h, o, tx.ip)

-----------------------------------------------------------------------------
(***************************************************************************)
(* What connecting block b at height h makes expire, all of it computed    *)
(* from the global cache g as it is before the block.                      *)
(***************************************************************************)
ExpiredStarts(g, b, h) ==
    {o \in Started(g) : /\ g.mapStartTxTracker[o].nAddedBlockHeight = h - StartExpiration
                        /\ b.tx[o].type # "confirm"}

ExpiredDos(g, h) ==
    {o \in InDoS(g) : g.mapStartTxDOSTracker[o].nAddedBlockHeight = h - DosRemoveAmount}

\* Mutant: confirmed nodes expire one block late.
MutExpiredConfirms(g, b, h) ==
    {o \in Confirmed(g) :
        \/ /\ b.tx[o].type # "update"
           /\ g.mapConfirmedFluxnodeData[o].nLastConfirmedBlockHeight < h - ConfirmExpiration - 1
        \/ o \in b.spends}

ExpiredConfirms(g, b, h) ==
    {o \in Confirmed(g) :
        \/ /\ b.tx[o].type # "update"
           /\ g.mapConfirmedFluxnodeData[o].nLastConfirmedBlockHeight < h - ConfirmExpiration
        \/ o \in b.spends}

\* Entries of a map, as a tracker.
Only(map, S) == [o \in Outpoints |-> IF o \in S THEN map[o] ELSE NullData]

\* Mutant: the paid heights a block overwrites are not kept.
MutBlockUndo(g, b, h) ==
    [vecExpiredDosData          |-> Only(g.mapStartTxDOSTracker, ExpiredDos(g, h)),
     vecExpiredConfirmedData    |-> Only(g.mapConfirmedFluxnodeData, ExpiredConfirms(g, b, h)),
     mapUpdateLastConfirmHeight |-> [o \in TxsOfType(b, "update") |->
                                       GetFluxnodeData(g, o).nLastConfirmedBlockHeight],
     mapLastIpAddress           |-> [o \in TxsOfType(b, "update") |-> GetFluxnodeData(g, o).ip],
     mapLastPaidHeights         |-> [o \in {} |-> 0]]

\* CFluxnodeTxBlockUndo as ConnectBlock fills it in.
BlockUndo(g, b, h) ==
    [vecExpiredDosData          |-> Only(g.mapStartTxDOSTracker, ExpiredDos(g, h)),
     vecExpiredConfirmedData    |-> Only(g.mapConfirmedFluxnodeData, ExpiredConfirms(g, b, h)),
     mapUpdateLastConfirmHeight |-> [o \in TxsOfType(b, "update") |->
                                       GetFluxnodeData(g, o).nLastConfirmedBlockHeight],
     mapLastIpAddress           |-> [o \in TxsOfType(b, "update") |-> GetFluxnodeData(g, o).ip],
     mapLastPaidHeights         |-> [o \in b.paid \cap Confirmed(g) |->
                                       g.mapConfirmedFluxnodeData[o].nLastPaidHeight]]

-----------------------------------------------------------------------------
(***************************************************************************)
(* The local FluxnodeCache that is later flushed.  The pair of maps        *)
(* mapDosExpiredToRemove and mapDOSToUndo is one set here: Flush treats    *)
(* them alike, one right after the other.                                  *)
(***************************************************************************)
EmptyCache ==
    [mapStartTxTracker         |-> EmptyTracker,
     mapStartTxDOSTracker      |-> EmptyTracker,
     setDosToRemove            |-> {},
     mapConfirmedFluxnodeData  |-> EmptyTracker,
     setUndoExpireConfirm      |-> EmptyTracker,
     setUndoStartTx            |-> {},
     mapAddToConfirm           |-> [o \in {} |-> NoIp],
     setUndoAddToConfirm       |-> {},
     mapAddToUpdateConfirm     |-> [o \in {} |-> NoIp],
     setExpireConfirmOutPoints |-> {},
     mapPaidNodes              |-> {},
     mapUndoPaidNodes          |-> [o \in {} |-> 0],
     nHeight                   |-> 0]

\* Mutant: the start is dated back by the expiration.
MutAddNewStart(h) ==
    [NullData EXCEPT !.nStatus = "started", !.nAddedBlockHeight = h - StartExpiration]

AddNewStart(h) ==
    [NullData EXCEPT !.nStatus = "started", !.nAddedBlockHeight = h]

\* The local cache once ConnectBlock has gone through block b of height h.
ConnectCache(g, b, h) ==
    [EmptyCache EXCEPT
       !.mapStartTxTracker =
           [o \in Outpoints |-> IF b.tx[o] = StartTx THEN AddNewStart(h) ELSE NullData],
       !.mapStartTxDOSTracker =
           [o \in Outpoints |-> IF o \in ExpiredStarts(g, b, h)
                                THEN [g.mapStartTxTracker[o] EXCEPT !.nStatus = "dos"]
                                ELSE NullData],
       !.setDosToRemove            = ExpiredDos(g, h),
       !.mapAddToConfirm           = [o \in TxsOfType(b, "confirm") |-> b.tx[o].ip],
       !.mapAddToUpdateConfirm     = [o \in TxsOfType(b, "update") |-> b.tx[o].ip],
       !.setExpireConfirmOutPoints = ExpiredConfirms(g, b, h),
       !.mapPaidNodes              = b.paid,
       !.nHeight                   = h]

\* AddBackUndoData: a confirm update is taken back from the node's global data,
\* if the node is still confirmed; an expired node comes back through
\* setUndoExpireConfirm instead.
UndoneUpdates(g, undo) ==
    [o \in Outpoints |->
        IF o \in DOMAIN undo.mapUpdateLastConfirmHeight \cap Confirmed(g)
        THEN [g.mapConfirmedFluxnodeData[o] EXCEPT
                !.nLastConfirmedBlockHeight = undo.mapUpdateLastConfirmHeight[o],
                !.ip = undo.mapLastIpAddress[o]]
        ELSE NullData]

\* CheckForUndoExpiredStartTx: the starts that this block moved to the DoS tracker.
UndoneStartExpiries(g, h) ==
    {o \in InDoS(g) : g.mapStartTxDOSTracker[o].nAddedBlockHeight = h - StartExpiration}

\* The local cache once DisconnectBlock has gone through block b of height h.
DisconnectCache(g, b, undo, h) ==
    [EmptyCache EXCEPT
       !.mapStartTxTracker =
           [o \in Outpoints |-> IF o \in UndoneStartExpiries(g, h)
                                THEN [g.mapStartTxDOSTracker[o] EXCEPT !.nStatus = "started"]
                                ELSE NullData],
       !.mapStartTxDOSTracker     = undo.vecExpiredDosData,
       !.setDosToRemove           = UndoneStartExpiries(g, h),
       !.mapConfirmedFluxnodeData = UndoneUpdates(g, undo),
       !.setUndoExpireConfirm     = undo.vecExpiredConfirmedData,
       !.setUndoStartTx           = TxsOfType(b, "start"),
       !.setUndoAddToConfirm      = TxsOfType(b, "confirm"),
       !.mapUndoPaidNodes         = undo.mapLastPaidHeights,
       !.nHeight                  = h]

-----------------------------------------------------------------------------
(***************************************************************************)
(* FluxnodeCache::Flush on the trackers.  Every loop of Flush works one    *)
(* collateral at a time, so the new trackers are given collateral by       *)
(* collateral; each operator below is one or more of its loops, applied    *)
(* to what the loops before it leave behind.                               *)
(***************************************************************************)
FlushDos(g, l, o) ==
    IF o \in l.setDosToRemove THEN NullData
    ELSE IF Has(l.mapStartTxDOSTracker, o) THEN l.mapStartTxDOSTracker[o]
    ELSE g.mapStartTxDOSTracker[o]

\* Mutant: a start that moves to the DoS tracker stays in the start tracker.
MutFlushStart(g, l, o) ==
    IF o \in l.setUndoStartTx THEN NullData
    ELSE IF Has(l.mapStartTxTracker, o) THEN l.mapStartTxTracker[o]
    ELSE g.mapStartTxTracker[o]

FlushStart(g, l, o) ==
    IF o \in l.setUndoStartTx \/ Has(l.mapStartTxDOSTracker, o) THEN NullData
    ELSE IF Has(l.mapStartTxTracker, o) THEN l.mapStartTxTracker[o]
    ELSE g.mapStartTxTracker[o]

FlushUndoConfirmed(g, l, o) ==
    IF Has(l.setUndoExpireConfirm, o) THEN l.setUndoExpireConfirm[o]
    ELSE IF Has(l.mapConfirmedFluxnodeData, o)
         THEN [g.mapConfirmedFluxnodeData[o] EXCEPT
                 !.nLastConfirmedBlockHeight = l.mapConfirmedFluxnodeData[o].nLastConfirmedBlockHeight,
                 !.ip = l.mapConfirmedFluxnodeData[o].ip]
         ELSE g.mapConfirmedFluxnodeData[o]

\* mapAddToConfirm: STARTED --> CONFIRMED
MovesToConfirm(g, l, o) == o \in DOMAIN l.mapAddToConfirm /\ FlushStart(g, l, o) # NullData

FlushConfirm(g, l, o) ==
    IF MovesToConfirm(g, l, o)
    THEN [FlushStart(g, l, o) EXCEPT
            !.nStatus = "confirmed", !.nConfirmedBlockHeight = l.nHeight,
            !.nLastConfirmedBlockHeight = l.nHeight, !.nLastPaidHeight = 0,
            !.ip = l.mapAddToConfirm[o]]
    ELSE FlushUndoConfirmed(g, l, o)

\* setUndoAddToConfirm: CONFIRMED --> STARTED
MovesToStart(g, l, o) == o \in l.setUndoAddToConfirm /\ FlushConfirm(g, l, o) # NullData

\* Mutant: a confirm that is taken back leaves its address behind.
MutFlushedStart(g, l, o) ==
    IF MovesToStart(g, l, o)
    THEN [FlushConfirm(g, l, o) EXCEPT
            !.nStatus = "started", !.nConfirmedBlockHeight = 0,
            !.nLastConfirmedBlockHeight = 0, !.nLastPaidHeight = 0]
    ELSE IF MovesToConfirm(g, l, o) THEN NullData ELSE FlushStart(g, l, o)

FlushedStart(g, l, o) ==
    IF MovesToStart(g, l, o)
    THEN [FlushConfirm(g, l, o) EXCEPT
            !.nStatus = "started", !.nConfirmedBlockHeight = 0,
            !.nLastConfirmedBlockHeight = 0, !.nLastPaidHeight = 0, !.ip = NoIp]
    ELSE IF MovesToConfirm(g, l, o) THEN NullData ELSE FlushStart(g, l, o)

FlushUndoConfirm(g, l, o) ==
    IF MovesToStart(g, l, o) THEN NullData ELSE FlushConfirm(g, l, o)

\* mapAddToUpdateConfirm
FlushUpdate(g, l, o) ==
    IF o \in DOMAIN l.mapAddToUpdateConfirm /\ FlushUndoConfirm(g, l, o) # NullData
    THEN [FlushUndoConfirm(g, l, o) EXCEPT
            !.nLastConfirmedBlockHeight = l.nHeight, !.ip = l.mapAddToUpdateConfirm[o]]
    ELSE FlushUndoConfirm(g, l, o)

\* setExpireConfirmOutPoints
FlushExpire(g, l, o) ==
    IF o \in l.setExpireConfirmOutPoints THEN NullData ELSE FlushUpdate(g, l, o)

\* mapPaidNodes
FlushPaid(g, l, o) ==
    IF o \in l.mapPaidNodes /\ FlushExpire(g, l, o) # NullData
    THEN [FlushExpire(g, l, o) EXCEPT !.nLastPaidHeight = l.nHeight]
    ELSE FlushExpire(g, l, o)

\* mapUndoPaidNodes
FlushedConfirmed(g, l, o) ==
    IF o \in DOMAIN l.mapUndoPaidNodes /\ FlushPaid(g, l, o) # NullData
    THEN [FlushPaid(g, l, o) EXCEPT !.nLastPaidHeight = l.mapUndoPaidNodes[o]]
    ELSE FlushPaid(g, l, o)

FlushTrackers(g, l) ==
    [mapStartTxTracker        |-> [o \in Outpoints |-> FlushedStart(g, l, o)],
     mapStartTxDOSTracker     |-> [o \in Outpoints |-> FlushDos(g, l, o)],
     mapConfirmedFluxnodeData |-> [o \in Outpoints |-> FlushedConfirmed(g, l, o)]]
=============================================================================
