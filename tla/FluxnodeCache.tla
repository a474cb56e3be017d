---------------------------- MODULE FluxnodeCache ----------------------------
(***************************************************************************)
(* g_fluxnodeCache as the active chain moves: ConnectTip and DisconnectTip *)
(* (main.cpp) each build a local cache from a block and flush it, and      *)
(* whoever asks for the next payee prunes the payment lists on the way.    *)
(***************************************************************************)
EXTENDS FluxnodeList

CONSTANTS
    PaymentsStart,  \* Params().StartFluxnodePayments()
    MaxReorgDepth,  \* how many blocks below the tip can still be disconnected
    MaxHeight       \* bound on the height of the chain

ASSUME ChainAssumption ==
    /\ PaymentsStart \in Nat
    /\ MaxReorgDepth \in Nat
    /\ MaxHeight \in Nat

VARIABLES
    cache,           \* the trackers of g_fluxnodeCache
    mapFluxnodeList, \* tier -> payment list
    spent,           \* collaterals that are spent in pcoinsTip
    nHeight,         \* height of the tip
    chainActive      \* height -> block, its undo data, and (history) the trackers before it

vars == <<cache, mapFluxnodeList, spent, nHeight, chainActive>>

EmptyTrackers ==
    [mapStartTxTracker |-> EmptyTracker, mapStartTxDOSTracker |-> EmptyTracker,
     mapConfirmedFluxnodeData |-> EmptyTracker]

\* The height below the first block that may hold a fluxnode transaction.
Init ==
    /\ cache = EmptyTrackers
    /\ mapFluxnodeList = [t \in Tiers |-> EmptyList]
    /\ spent = {}
    /\ nHeight = 0
    /\ chainActive = [h \in {} |-> {}]

\* GetNextPayment for every tier, as CheckFluxnodePayout, block assembly and
\* the payee RPC call it.
PoppedLists == [t \in Tiers |-> PopExpired(mapFluxnodeList[t], cache)]

Payees == UNION {NextPayment(mapFluxnodeList[t], cache, spent) : t \in Tiers}

\* A block is assembled, the payees are listed, or a block is rejected after its
\* payout check: nothing is flushed, but expired entries have left the lists.
LookUpPayees ==
    /\ mapFluxnodeList' = PoppedLists
    /\ UNCHANGED <<cache, spent, nHeight, chainActive>>

\* The blocks of height h that ConnectBlock accepts on this tip.  Up to
\* PaymentsStart the coinbase pays no fluxnode.
AcceptedBlocks(h) ==
    {b \in [tx     : [Outpoints -> FluxnodeTxs],
            spends : SUBSET (Outpoints \ spent),
            paid   : {IF h >= PaymentsStart THEN Payees ELSE {}}] :
        \A o \in Outpoints :
            TxAllowed(cache, h, o, b.tx[o], o \notin spent, CheckListSet(mapFluxnodeList, o))}

ConnectTip(b) ==
    LET h == nHeight + 1
        local == ConnectCache(cache, b, h)
        lists == IF h >= PaymentsStart THEN PoppedLists ELSE mapFluxnodeList
        kept  == {k \in DOMAIN chainActive : k > h - MaxReorgDepth}
                    \cup (IF MaxReorgDepth > 0 THEN {h} ELSE {})
        entry == [block |-> b, undo |-> BlockUndo(cache, b, h), before |-> cache]
    IN  /\ h <= MaxHeight
        /\ b \in AcceptedBlocks(h)
        /\ cache' = FlushTrackers(cache, local)
        /\ mapFluxnodeList' = [t \in Tiers |-> FlushList(lists[t], t, cache, local)]
        /\ spent' = spent \cup b.spends
        /\ nHeight' = h
        /\ chainActive' = [k \in kept |-> IF k = h THEN entry ELSE chainActive[k]]

DisconnectTip ==
    /\ nHeight \in DOMAIN chainActive
    /\ LET tip   == chainActive[nHeight]
           local == DisconnectCache(cache, tip.block, tip.undo, nHeight)
       IN  /\ cache' = FlushTrackers(cache, local)
           /\ mapFluxnodeList' = [t \in Tiers |-> FlushList(mapFluxnodeList[t], t, cache, local)]
           /\ spent' = spent \ tip.block.spends
    /\ nHeight' = nHeight - 1
    /\ chainActive' = [k \in DOMAIN chainActive \ {nHeight} |-> chainActive[k]]

Next ==
    \/ \E b \in AcceptedBlocks(nHeight + 1) : ConnectTip(b)
    \/ DisconnectTip
    \/ LookUpPayees

Spec == Init /\ [][Next]_vars

-----------------------------------------------------------------------------
\* Type correctness of the trackers and of the chain bookkeeping.
TypeOK ==
    /\ cache \in Trackers
    /\ nHeight \in 0..MaxHeight
    /\ spent \subseteq Outpoints
    /\ DOMAIN chainActive \subseteq 1..nHeight
    /\ \A h \in DOMAIN chainActive : /\ chainActive[h].before \in Trackers
                                     /\ chainActive[h].block \in Blocks

\* A collateral is in at most one of the start, DoS and confirmed trackers, through
\* every expiry, confirm and reorganisation: GetFluxnodeData and DumpFluxnodeCache
\* look at the trackers in turn and take the first hit.
TrackersDisjoint ==
    /\ Started(cache) \cap InDoS(cache) = {}
    /\ Started(cache) \cap Confirmed(cache) = {}
    /\ InDoS(cache) \cap Confirmed(cache) = {}

\* No entry outlives its deadline: an unconfirmed start leaves for the DoS tracker
\* after StartExpiration blocks, a DoS entry leaves after DosRemoveAmount, and a
\* confirmed node that does not renew leaves after ConfirmExpiration.  All three
\* expiries test one exact height or a bound, once per block.
DeadlinesKept ==
    \A o \in Outpoints :
        /\ o \in Started(cache) =>
             nHeight - cache.mapStartTxTracker[o].nAddedBlockHeight \in 0..(StartExpiration - 1)
        /\ o \in InDoS(cache) =>
             nHeight - cache.mapStartTxDOSTracker[o].nAddedBlockHeight
                 \in StartExpiration..(DosRemoveAmount - 1)
        /\ o \in Confirmed(cache) =>
             nHeight - cache.mapConfirmedFluxnodeData[o].nLastConfirmedBlockHeight
                 \in 0..ConfirmExpiration

\* Disconnecting the tip puts all three trackers back exactly as they were before
\* that block was connected (DisconnectBlock and Flush against ConnectBlock and
\* Flush).
DisconnectRestores ==
    [][nHeight' < nHeight => cache' = chainActive[nHeight].before]_vars

Outs(L) == {L.listConfirmedFluxnodes[i].out : i \in DOMAIN L.listConfirmedFluxnodes}

\* The set of a tier's list holds exactly the outpoints of the list, none twice;
\* ConnectTip only logs an error when the two sizes differ.
ListMatchesSet ==
    \A t \in Tiers :
        LET L == mapFluxnodeList[t]
        IN  /\ L.setConfirmedTxInList = Outs(L)
            /\ Cardinality(Outs(L)) = Len(L.listConfirmedFluxnodes)

\* Every confirmed node is in the payment list of its tier: one that is not is never
\* paid, and CheckListSet refuses its next confirm.
ConfirmedIsListed ==
    \A o \in Confirmed(cache) : InList(mapFluxnodeList[TierOf[o]], o)

\* The next payee as the trackers alone determine it: two nodes on the same chain
\* agree on it only if it does not depend on what else their lists went through.
OldestConfirmed(t) ==
    {o \in InTier(t, Confirmed(cache)) :
        \A p \in InTier(t, Confirmed(cache)) \ {o} :
            ListLess(ListData(o, cache.mapConfirmedFluxnodeData[o]),
                     ListData(p, cache.mapConfirmedFluxnodeData[p]))}

\* The payee that GetNextPayment finds at the front of the list is the confirmed
\* node that was paid (or, never paid, confirmed) longest ago.  The tier has no payee
\* when that node is a P2SH node whose coin is spent, and only then.
PayeeIsOldest ==
    \A t \in Tiers :
        NextPayment(mapFluxnodeList[t], cache, spent)
            = OldestConfirmed(t) \ (P2SHNodes \cap spent)

\* A confirmed node whose collateral is spent (it was confirmed by the very block that
\* spent it) never renews its confirmation: CheckFluxnodeTxInput refuses the update,
\* so the node is gone at most ConfirmExpiration blocks after it was confirmed.
SpentNeverRenews ==
    \A o \in Confirmed(cache) \cap spent :
        cache.mapConfirmedFluxnodeData[o].nLastConfirmedBlockHeight
            = cache.mapConfirmedFluxnodeData[o].nConfirmedBlockHeight

-----------------------------------------------------------------------------
(***************************************************************************)
(* The inductive invariant behind TrackersDisjoint, DeadlinesKept and      *)
(* DisconnectRestores.                                                     *)
(***************************************************************************)

\* An entry of the start or DoS tracker carries nothing but its height.
Unconfirmed(d, status) ==
    d = [NullData EXCEPT !.nStatus = status, !.nAddedBlockHeight = d.nAddedBlockHeight]

\* The trackers as a chain of height h can leave them.
WellFormed(g, h) ==
    \A o \in Outpoints :
        /\ o \in Started(g) =>
             /\ o \notin InDoS(g) /\ o \notin Confirmed(g)
             /\ Unconfirmed(g.mapStartTxTracker[o], "started")
             /\ h - g.mapStartTxTracker[o].nAddedBlockHeight \in 0..(StartExpiration - 1)
        /\ o \in InDoS(g) =>
             /\ o \notin Confirmed(g)
             /\ Unconfirmed(g.mapStartTxDOSTracker[o], "dos")
             /\ h - g.mapStartTxDOSTracker[o].nAddedBlockHeight
                    \in StartExpiration..(DosRemoveAmount - 1)
        /\ o \in Confirmed(g) =>
             /\ g.mapConfirmedFluxnodeData[o].nStatus = "confirmed"
             /\ h - g.mapConfirmedFluxnodeData[o].nLastConfirmedBlockHeight
                    \in 0..ConfirmExpiration

\* Every transaction of b finds its collateral in the tracker it is meant for.
BlockApplies(g, b) ==
    /\ b \in Blocks
    /\ b.paid \subseteq Confirmed(g)
    /\ \A o \in Outpoints :
         /\ b.tx[o].type = "start" =>
              o \notin Started(g) /\ o \notin InDoS(g) /\ o \notin Confirmed(g)
         /\ b.tx[o].type = "confirm" => o \in Started(g)
         /\ b.tx[o].type = "update" => o \in Confirmed(g)

\* The trackers after the block of height k of the active chain.
After(k) == IF k = nHeight THEN cache ELSE chainActive[k + 1].before

\* Each block that can still be disconnected carries the undo data of its own connection.
UndoMatches(k) ==
    LET e == chainActive[k]
    IN  /\ e.before \in Trackers
        /\ WellFormed(e.before, k - 1)
        /\ BlockApplies(e.before, e.block)
        /\ e.undo = BlockUndo(e.before, e.block, k)
        /\ After(k) = FlushTrackers(e.before, ConnectCache(e.before, e.block, k))
        /\ k # nHeight => k + 1 \in DOMAIN chainActive

\* The trackers are well formed at the tip, and every block that can still be
\* disconnected has the undo data, and the trackers on either side, of its connection.
CacheInv ==
    /\ TypeOK
    /\ WellFormed(cache, nHeight)
    /\ \A k \in DOMAIN chainActive : UndoMatches(k)
=============================================================================
