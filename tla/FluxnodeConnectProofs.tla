----------------------- MODULE FluxnodeConnectProofs ------------------------
(***************************************************************************)
(* What connecting a block does to the trackers, one collateral at a       *)
(* time, and that it keeps them well-formed.                               *)
(***************************************************************************)
EXTENDS FluxnodeCache, TLAPS

-----------------------------------------------------------------------------
(***************************************************************************)
(* Types of the data the trackers hold.                                    *)
(***************************************************************************)

\* The null entry is cache data.
LEMMA NullDataType == NullData \in FluxnodeCacheData
  BY DEF NullData, FluxnodeCacheData, Statuses

\* A start entry, as AddNewStart builds it, is cache data and not the null entry.
LEMMA NewStartType ==
  ASSUME NEW h \in Nat
  PROVE  /\ AddNewStart(h) \in FluxnodeCacheData
         /\ AddNewStart(h) # NullData
         /\ AddNewStart(h).nAddedBlockHeight = h
         /\ Unconfirmed(AddNewStart(h), "started")
  BY ZenonT(60) DEF AddNewStart, NullData, FluxnodeCacheData, Statuses, Unconfirmed

-----------------------------------------------------------------------------
(***************************************************************************)
(* What connecting a block does to one collateral.                         *)
(***************************************************************************)

\* The trackers of one collateral have the type of cache data.
LEMMA EntryTypes ==
  ASSUME NEW g \in Trackers, NEW o \in Outpoints
  PROVE  /\ g.mapStartTxTracker[o] \in FluxnodeCacheData
         /\ g.mapStartTxDOSTracker[o] \in FluxnodeCacheData
         /\ g.mapConfirmedFluxnodeData[o] \in FluxnodeCacheData
  BY DEF Trackers, Tracker

\* Membership in a tracker, at one collateral.
LEMMA Membership ==
  ASSUME NEW g, NEW o \in Outpoints
  PROVE  /\ o \in Started(g) <=> g.mapStartTxTracker[o] # NullData
         /\ o \in InDoS(g) <=> g.mapStartTxDOSTracker[o] # NullData
         /\ o \in Confirmed(g) <=> g.mapConfirmedFluxnodeData[o] # NullData
  BY DEF Started, InDoS, Confirmed, Has

\* The types a block's transactions can have.
LEMMA TxTypes ==
  ASSUME NEW b \in Blocks, NEW o \in Outpoints
  PROVE  /\ b.tx[o].type \in {"none", "start", "confirm", "update"}
         /\ b.tx[o] = StartTx <=> b.tx[o].type = "start"
         /\ b.tx[o].type \in {"confirm", "update"} => b.tx[o].ip \in Ips
         /\ \A t : o \in TxsOfType(b, t) <=> b.tx[o].type = t
  BY DEF Blocks, FluxnodeTxs, NoTx, StartTx, ConfirmTxs, UpdateTxs, TxsOfType

\* The local cache of a connected block, at one collateral.
LEMMA ConnectAt ==
  ASSUME NEW g \in Trackers, NEW b \in Blocks, NEW h \in Nat, NEW o \in Outpoints
  PROVE  LET l == ConnectCache(g, b, h)
             s == g.mapStartTxTracker[o]
         IN  /\ l.mapStartTxTracker[o] =
                  IF b.tx[o].type = "start" THEN AddNewStart(h) ELSE NullData
             /\ l.mapStartTxDOSTracker[o] =
                  IF o \in ExpiredStarts(g, b, h) THEN [s EXCEPT !.nStatus = "dos"] ELSE NullData
             /\ Has(l.mapStartTxDOSTracker, o) <=> o \in ExpiredStarts(g, b, h)
             /\ Has(l.mapStartTxTracker, o) <=> b.tx[o].type = "start"
             /\ ~Has(l.mapConfirmedFluxnodeData, o)
             /\ ~Has(l.setUndoExpireConfirm, o)
             /\ o \notin l.setUndoStartTx
             /\ o \notin l.setUndoAddToConfirm
             /\ o \notin DOMAIN l.mapUndoPaidNodes
             /\ o \in l.setDosToRemove <=> o \in ExpiredDos(g, h)
             /\ o \in DOMAIN l.mapAddToConfirm <=> b.tx[o].type = "confirm"
             /\ b.tx[o].type = "confirm" => l.mapAddToConfirm[o] = b.tx[o].ip
             /\ o \in DOMAIN l.mapAddToUpdateConfirm <=> b.tx[o].type = "update"
             /\ b.tx[o].type = "update" => l.mapAddToUpdateConfirm[o] = b.tx[o].ip
<1> DEFINE l == ConnectCache(g, b, h)
           s == g.mapStartTxTracker[o]
<1>1. /\ l.mapStartTxTracker[o] =
           IF b.tx[o].type = "start" THEN AddNewStart(h) ELSE NullData
      /\ l.mapStartTxDOSTracker[o] =
           IF o \in ExpiredStarts(g, b, h) THEN [s EXCEPT !.nStatus = "dos"] ELSE NullData
  BY TxTypes DEF ConnectCache, EmptyCache
<1>2. [s EXCEPT !.nStatus = "dos"] # NullData
  BY EntryTypes DEF NullData, FluxnodeCacheData
<1>3. /\ Has(l.mapStartTxDOSTracker, o) <=> o \in ExpiredStarts(g, b, h)
      /\ Has(l.mapStartTxTracker, o) <=> b.tx[o].type = "start"
  BY <1>1, <1>2, NewStartType DEF Has
<1>4. /\ ~Has(l.mapConfirmedFluxnodeData, o)
      /\ ~Has(l.setUndoExpireConfirm, o)
  BY DEF ConnectCache, EmptyCache, Has, EmptyTracker
<1>5. /\ o \notin l.setUndoStartTx
      /\ o \notin l.setUndoAddToConfirm
      /\ o \notin DOMAIN l.mapUndoPaidNodes
      /\ o \in l.setDosToRemove <=> o \in ExpiredDos(g, h)
  BY DEF ConnectCache, EmptyCache
<1>6. /\ o \in DOMAIN l.mapAddToConfirm <=> b.tx[o].type = "confirm"
      /\ b.tx[o].type = "confirm" => l.mapAddToConfirm[o] = b.tx[o].ip
  BY TxTypes DEF ConnectCache, EmptyCache
<1>7. /\ o \in DOMAIN l.mapAddToUpdateConfirm <=> b.tx[o].type = "update"
      /\ b.tx[o].type = "update" => l.mapAddToUpdateConfirm[o] = b.tx[o].ip
  BY TxTypes DEF ConnectCache, EmptyCache
<1>8. QED
  BY <1>1, <1>3, <1>4, <1>5, <1>6, <1>7
-----------------------------------------------------------------------------
\* Block b can be connected at height h to the trackers g.
Connects(g, b, h) ==
    /\ g \in Trackers
    /\ h \in Nat \ {0}
    /\ WellFormed(g, h - 1)
    /\ BlockApplies(g, b)

\* The trackers after block b.
Connected(g, b, h) == FlushTrackers(g, ConnectCache(g, b, h))

\* The confirmed entry that an initial confirm makes of a start entry.
Confirm(s, h, ip) ==
    [s EXCEPT !.nStatus = "confirmed", !.nConfirmedBlockHeight = h,
              !.nLastConfirmedBlockHeight = h, !.nLastPaidHeight = 0, !.ip = ip]

\* The start entry that taking the confirm back makes of a confirmed entry.
Unconfirm(c) ==
    [c EXCEPT !.nStatus = "started", !.nConfirmedBlockHeight = 0,
              !.nLastConfirmedBlockHeight = 0, !.nLastPaidHeight = 0, !.ip = NoIp]

\* The three trackers at a collateral, after a flush.
LEMMA FlushAt ==
  ASSUME NEW g, NEW l, NEW o \in Outpoints
  PROVE  /\ FlushTrackers(g, l).mapStartTxTracker[o] = FlushedStart(g, l, o)
         /\ FlushTrackers(g, l).mapStartTxDOSTracker[o] = FlushDos(g, l, o)
         /\ FlushTrackers(g, l).mapConfirmedFluxnodeData[o] = FlushedConfirmed(g, l, o)
  BY DEF FlushTrackers

\* A start entry is confirmed by its block, or moves to the DoS tracker when its
\* time is up, or stays.
LEMMA ConnectStarted ==
  ASSUME NEW g, NEW b, NEW h, Connects(g, b, h),
         NEW o \in Outpoints, o \in Started(g)
  PROVE  LET s == g.mapStartTxTracker[o]
             p == Connected(g, b, h)
         IN  /\ b.tx[o].type \in {"none", "confirm"}
             /\ b.tx[o].type = "confirm" =>
                  /\ p.mapStartTxTracker[o] = NullData
                  /\ p.mapStartTxDOSTracker[o] = NullData
                  /\ p.mapConfirmedFluxnodeData[o] = Confirm(s, h, b.tx[o].ip)
             /\ b.tx[o].type = "none" /\ s.nAddedBlockHeight = h - StartExpiration =>
                  /\ p.mapStartTxTracker[o] = NullData
                  /\ p.mapStartTxDOSTracker[o] = [s EXCEPT !.nStatus = "dos"]
                  /\ p.mapConfirmedFluxnodeData[o] = NullData
             /\ b.tx[o].type = "none" /\ s.nAddedBlockHeight # h - StartExpiration =>
                  /\ p.mapStartTxTracker[o] = s
                  /\ p.mapStartTxDOSTracker[o] = NullData
                  /\ p.mapConfirmedFluxnodeData[o] = NullData
<1> DEFINE s == g.mapStartTxTracker[o]
           l == ConnectCache(g, b, h)
           p == Connected(g, b, h)
<1>1. /\ b \in Blocks /\ g \in Trackers /\ h \in Nat
      /\ s # NullData
      /\ g.mapStartTxDOSTracker[o] = NullData
      /\ g.mapConfirmedFluxnodeData[o] = NullData
      /\ b.tx[o].type \in {"none", "confirm"}
      /\ o \notin b.paid
  BY Membership, TxTypes DEF Connects, WellFormed, BlockApplies
<1>2. /\ o \notin ExpiredDos(g, h)
      /\ o \notin ExpiredConfirms(g, b, h)
      /\ o \in ExpiredStarts(g, b, h) <=>
           b.tx[o].type = "none" /\ s.nAddedBlockHeight = h - StartExpiration
  BY <1>1, Membership DEF ExpiredDos, ExpiredConfirms, ExpiredStarts
<1>3. /\ o \notin l.setExpireConfirmOutPoints
      /\ o \notin l.mapPaidNodes
      /\ l.nHeight = h
  BY <1>1, <1>2 DEF ConnectCache, EmptyCache
<1>4. FlushDos(g, l, o) =
        IF o \in ExpiredStarts(g, b, h) THEN [s EXCEPT !.nStatus = "dos"] ELSE NullData
  BY <1>1, <1>2, ConnectAt DEF FlushDos
<1>5. FlushStart(g, l, o) = IF o \in ExpiredStarts(g, b, h) THEN NullData ELSE s
  BY ZenonT(60), <1>1, <1>2, ConnectAt DEF FlushStart
<1>6. MovesToConfirm(g, l, o) <=> b.tx[o].type = "confirm"
  BY ZenonT(60), <1>1, <1>2, <1>5, ConnectAt DEF MovesToConfirm
<1>7. FlushConfirm(g, l, o) =
        IF b.tx[o].type = "confirm" THEN Confirm(s, h, b.tx[o].ip) ELSE NullData
  BY ZenonT(60), <1>1, <1>2, <1>3, <1>5, <1>6, ConnectAt
     DEF FlushConfirm, FlushUndoConfirmed, Confirm
<1>8. ~MovesToStart(g, l, o)
  BY ZenonT(60), <1>1, ConnectAt DEF MovesToStart
<1>9. FlushedStart(g, l, o) =
        IF b.tx[o].type = "confirm" \/ o \in ExpiredStarts(g, b, h) THEN NullData ELSE s
  BY <1>5, <1>6, <1>8 DEF FlushedStart
<1>10. FlushedConfirmed(g, l, o) = FlushConfirm(g, l, o)
  BY ZenonT(60), <1>1, <1>3, <1>8, ConnectAt
     DEF FlushedConfirmed, FlushPaid, FlushExpire, FlushUpdate, FlushUndoConfirm
<1>11. /\ p.mapStartTxTracker[o] = FlushedStart(g, l, o)
       /\ p.mapStartTxDOSTracker[o] = FlushDos(g, l, o)
       /\ p.mapConfirmedFluxnodeData[o] = FlushedConfirmed(g, l, o)
  BY FlushAt DEF Connected
<1>12. QED
  BY <1>1, <1>2, <1>4, <1>7, <1>9, <1>10, <1>11

\* A DoS entry leaves when its time is up, or stays.
LEMMA ConnectDos ==
  ASSUME NEW g, NEW b, NEW h, Connects(g, b, h),
         NEW o \in Outpoints, o \in InDoS(g)
  PROVE  LET d == g.mapStartTxDOSTracker[o]
             p == Connected(g, b, h)
         IN  /\ b.tx[o].type = "none"
             /\ p.mapStartTxTracker[o] = NullData
             /\ p.mapStartTxDOSTracker[o] =
                  IF d.nAddedBlockHeight = h - DosRemoveAmount THEN NullData ELSE d
             /\ p.mapConfirmedFluxnodeData[o] = NullData
<1> DEFINE d == g.mapStartTxDOSTracker[o]
           l == ConnectCache(g, b, h)
           p == Connected(g, b, h)
<1>1. /\ b \in Blocks /\ g \in Trackers /\ h \in Nat
      /\ g.mapStartTxTracker[o] = NullData
      /\ d # NullData
      /\ g.mapConfirmedFluxnodeData[o] = NullData
      /\ b.tx[o].type = "none"
      /\ o \notin b.paid
  BY Membership, TxTypes DEF Connects, WellFormed, BlockApplies
<1>2. /\ o \in ExpiredDos(g, h) <=> d.nAddedBlockHeight = h - DosRemoveAmount
      /\ o \notin ExpiredConfirms(g, b, h)
      /\ o \notin ExpiredStarts(g, b, h)
  BY <1>1, Membership DEF ExpiredDos, ExpiredConfirms, ExpiredStarts
<1>3. /\ o \notin l.setExpireConfirmOutPoints
      /\ o \notin l.mapPaidNodes
  BY <1>1, <1>2 DEF ConnectCache, EmptyCache
<1>4. FlushDos(g, l, o) = IF o \in ExpiredDos(g, h) THEN NullData ELSE d
  BY ZenonT(60), <1>1, <1>2, ConnectAt DEF FlushDos
<1>5. FlushStart(g, l, o) = NullData /\ ~MovesToConfirm(g, l, o)
  BY ZenonT(60), <1>1, <1>2, ConnectAt DEF FlushStart, MovesToConfirm
<1>6. FlushConfirm(g, l, o) = NullData /\ ~MovesToStart(g, l, o)
  BY ZenonT(60), <1>1, <1>5, ConnectAt DEF FlushConfirm, FlushUndoConfirmed, MovesToStart
<1>7. FlushedStart(g, l, o) = NullData
  BY <1>5, <1>6 DEF FlushedStart
<1>8. FlushedConfirmed(g, l, o) = NullData
  BY <1>1, <1>3, <1>6, ConnectAt
     DEF FlushedConfirmed, FlushPaid, FlushExpire, FlushUpdate, FlushUndoConfirm
<1>9. QED
  BY <1>1, <1>2, <1>4, <1>7, <1>8, FlushAt DEF Connected

\* What a block that does not expire it makes of a confirmed entry.
Renewed(c, b, h, o) ==
    [c EXCEPT !.nLastConfirmedBlockHeight = IF b.tx[o].type = "update" THEN h ELSE @,
              !.ip = IF b.tx[o].type = "update" THEN b.tx[o].ip ELSE @,
              !.nLastPaidHeight = IF o \in b.paid THEN h ELSE @]

\* A confirmed entry expires, or is renewed and paid as the block says.
LEMMA ConnectConfirmed ==
  ASSUME NEW g, NEW b, NEW h, Connects(g, b, h),
         NEW o \in Outpoints, o \in Confirmed(g)
  PROVE  LET c == g.mapConfirmedFluxnodeData[o]
             p == Connected(g, b, h)
         IN  /\ b.tx[o].type \in {"none", "update"}
             /\ p.mapStartTxTracker[o] = NullData
             /\ p.mapStartTxDOSTracker[o] = NullData
             /\ p.mapConfirmedFluxnodeData[o] =
                  IF o \in ExpiredConfirms(g, b, h) THEN NullData ELSE Renewed(c, b, h, o)
<1> DEFINE c == g.mapConfirmedFluxnodeData[o]
           l == ConnectCache(g, b, h)
           p == Connected(g, b, h)
<1>1. /\ b \in Blocks /\ g \in Trackers /\ h \in Nat
      /\ g.mapStartTxTracker[o] = NullData
      /\ g.mapStartTxDOSTracker[o] = NullData
      /\ c # NullData
      /\ c.nStatus = "confirmed"
      /\ b.tx[o].type \in {"none", "update"}
      /\ c \in FluxnodeCacheData
  BY Membership, TxTypes, EntryTypes DEF Connects, WellFormed, BlockApplies
<1>2. /\ o \notin ExpiredDos(g, h)
      /\ o \notin ExpiredStarts(g, b, h)
  BY <1>1, Membership DEF ExpiredDos, ExpiredStarts
<1>3. /\ o \in l.setExpireConfirmOutPoints <=> o \in ExpiredConfirms(g, b, h)
      /\ o \in l.mapPaidNodes <=> o \in b.paid
      /\ l.nHeight = h
  BY DEF ConnectCache, EmptyCache
<1>4. FlushDos(g, l, o) = NullData
  BY ZenonT(60), <1>1, <1>2, ConnectAt DEF FlushDos
<1>5. FlushStart(g, l, o) = NullData /\ ~MovesToConfirm(g, l, o)
  BY ZenonT(60), <1>1, <1>2, ConnectAt DEF FlushStart, MovesToConfirm
<1>6. FlushConfirm(g, l, o) = c /\ ~MovesToStart(g, l, o)
  BY ZenonT(60), <1>1, <1>5, ConnectAt DEF FlushConfirm, FlushUndoConfirmed, MovesToStart
<1>7. FlushedStart(g, l, o) = NullData
  BY <1>5, <1>6 DEF FlushedStart
<1>8. FlushUpdate(g, l, o) =
        IF b.tx[o].type = "update"
        THEN [c EXCEPT !.nLastConfirmedBlockHeight = h, !.ip = b.tx[o].ip]
        ELSE c
  BY ZenonT(60), <1>1, <1>3, <1>6, ConnectAt DEF FlushUpdate, FlushUndoConfirm
<1>9. FlushUpdate(g, l, o) # NullData
  <2>1. [c EXCEPT !.nLastConfirmedBlockHeight = h, !.ip = b.tx[o].ip] # NullData
    BY ZenonT(60), <1>1 DEF FluxnodeCacheData, NullData
  <2>2. QED
    BY <1>1, <1>8, <2>1
<1>10. FlushPaid(g, l, o) =
         IF o \in ExpiredConfirms(g, b, h) THEN NullData
         ELSE IF o \in b.paid THEN [FlushUpdate(g, l, o) EXCEPT !.nLastPaidHeight = h]
         ELSE FlushUpdate(g, l, o)
  BY <1>3, <1>9 DEF FlushPaid, FlushExpire
<1>11. FlushPaid(g, l, o) =
         IF o \in ExpiredConfirms(g, b, h) THEN NullData ELSE Renewed(c, b, h, o)
  <2>1. CASE b.tx[o].type = "update"
    BY ZenonT(60), <1>1, <1>8, <1>10, <2>1 DEF Renewed, FluxnodeCacheData
  <2>2. CASE b.tx[o].type # "update"
    BY ZenonT(60), <1>1, <1>8, <1>10, <2>2 DEF Renewed, FluxnodeCacheData
  <2>3. QED
    BY <2>1, <2>2
<1>12. FlushedConfirmed(g, l, o) = FlushPaid(g, l, o)
  BY ZenonT(60), <1>1, ConnectAt DEF FlushedConfirmed
<1>13. QED
  BY <1>1, <1>4, <1>7, <1>11, <1>12, FlushAt DEF Connected

\* A collateral in no tracker is started, or stays out.
LEMMA ConnectAbsent ==
  ASSUME NEW g, NEW b, NEW h, Connects(g, b, h), NEW o \in Outpoints,
         o \notin Started(g), o \notin InDoS(g), o \notin Confirmed(g)
  PROVE  LET p == Connected(g, b, h)
         IN  /\ b.tx[o].type \in {"none", "start"}
             /\ p.mapStartTxTracker[o] =
                  IF b.tx[o].type = "start" THEN AddNewStart(h) ELSE NullData
             /\ p.mapStartTxDOSTracker[o] = NullData
             /\ p.mapConfirmedFluxnodeData[o] = NullData
<1> DEFINE l == ConnectCache(g, b, h)
           p == Connected(g, b, h)
<1>1. /\ b \in Blocks /\ g \in Trackers /\ h \in Nat
      /\ g.mapStartTxTracker[o] = NullData
      /\ g.mapStartTxDOSTracker[o] = NullData
      /\ g.mapConfirmedFluxnodeData[o] = NullData
      /\ b.tx[o].type \in {"none", "start"}
      /\ o \notin b.paid
  BY Membership, TxTypes DEF Connects, BlockApplies
<1>2. /\ o \notin ExpiredDos(g, h)
      /\ o \notin ExpiredStarts(g, b, h)
      /\ o \notin ExpiredConfirms(g, b, h)
  BY <1>1, Membership DEF ExpiredDos, ExpiredStarts, ExpiredConfirms
<1>3. /\ o \notin l.setExpireConfirmOutPoints
      /\ o \notin l.mapPaidNodes
  BY <1>1, <1>2 DEF ConnectCache, EmptyCache
<1>4. FlushDos(g, l, o) = NullData
  BY ZenonT(60), <1>1, <1>2, ConnectAt DEF FlushDos
<1>5. /\ FlushStart(g, l, o) = IF b.tx[o].type = "start" THEN AddNewStart(h) ELSE NullData
      /\ ~MovesToConfirm(g, l, o)
  BY ZenonT(60), <1>1, <1>2, ConnectAt DEF FlushStart, MovesToConfirm
<1>6. FlushConfirm(g, l, o) = NullData /\ ~MovesToStart(g, l, o)
  BY ZenonT(60), <1>1, <1>5, ConnectAt DEF FlushConfirm, FlushUndoConfirmed, MovesToStart
<1>7. FlushedStart(g, l, o) = FlushStart(g, l, o)
  BY <1>5, <1>6 DEF FlushedStart
<1>8. FlushedConfirmed(g, l, o) = NullData
  BY <1>1, <1>3, <1>6, ConnectAt
     DEF FlushedConfirmed, FlushPaid, FlushExpire, FlushUpdate, FlushUndoConfirm
<1>9. QED
  BY <1>1, <1>4, <1>5, <1>7, <1>8, FlushAt DEF Connected

\* The conditions WellFormed puts on one collateral.
WellFormedAt(g, h, o) ==
    /\ g.mapStartTxTracker[o] # NullData =>
         /\ g.mapStartTxDOSTracker[o] = NullData
         /\ g.mapConfirmedFluxnodeData[o] = NullData
         /\ Unconfirmed(g.mapStartTxTracker[o], "started")
         /\ h - g.mapStartTxTracker[o].nAddedBlockHeight \in 0..(StartExpiration - 1)
    /\ g.mapStartTxDOSTracker[o] # NullData =>
         /\ g.mapConfirmedFluxnodeData[o] = NullData
         /\ Unconfirmed(g.mapStartTxDOSTracker[o], "dos")
         /\ h - g.mapStartTxDOSTracker[o].nAddedBlockHeight
                \in StartExpiration..(DosRemoveAmount - 1)
    /\ g.mapConfirmedFluxnodeData[o] # NullData =>
         /\ g.mapConfirmedFluxnodeData[o].nStatus = "confirmed"
         /\ h - g.mapConfirmedFluxnodeData[o].nLastConfirmedBlockHeight
                \in 0..ConfirmExpiration

\* WellFormed, collateral by collateral.
LEMMA WellFormedPointwise ==
  ASSUME NEW g, NEW h
  PROVE  WellFormed(g, h) <=> \A o \in Outpoints : WellFormedAt(g, h, o)
<1>1. ASSUME NEW o \in Outpoints
      PROVE  WellFormedAt(g, h, o) <=>
        /\ o \in Started(g) =>
             /\ o \notin InDoS(g) /\ o \notin Confirmed(g)
             /\ Unconfirmed(g.mapStartTxTracker[o], "started")
             /\ h - g.mapStartTxTracker[o].nAddedBlockHeight \in 0..(StartExpiration - 1)
        /\ o \in InDoS(g) =>
             /\ o \notin Confirmed(g)
             /\ Unconfirmed(g.mapStartTxDOSTracker[o], "dos")
             /\ h - g.mapStartTxDOSTracker[o].nAddedBlockHeight
                    \in StartExpiration..(DosRemoveAmount - 1)
        /\ o \in Confirmed(g) =>
             /\ g.mapConfirmedFluxnodeData[o].nStatus = "confirmed"
             /\ h - g.mapConfirmedFluxnodeData[o].nLastConfirmedBlockHeight
                    \in 0..ConfirmExpiration
  BY Membership DEF WellFormedAt
<1>2. QED
  BY <1>1 DEF WellFormed

\* Connecting a block keeps the trackers well formed at one collateral.
LEMMA ConnectKeepsAt ==
  ASSUME NEW g, NEW b, NEW h, Connects(g, b, h), NEW o \in Outpoints
  PROVE  LET p == Connected(g, b, h)
         IN  /\ p.mapStartTxTracker[o] \in FluxnodeCacheData
             /\ p.mapStartTxDOSTracker[o] \in FluxnodeCacheData
             /\ p.mapConfirmedFluxnodeData[o] \in FluxnodeCacheData
             /\ WellFormedAt(p, h, o)
<1> DEFINE s == g.mapStartTxTracker[o]
           d == g.mapStartTxDOSTracker[o]
           c == g.mapConfirmedFluxnodeData[o]
           p == Connected(g, b, h)
<1>1. /\ g \in Trackers /\ b \in Blocks /\ h \in Nat \ {0}
      /\ WellFormedAt(g, h - 1, o)
      /\ s \in FluxnodeCacheData /\ d \in FluxnodeCacheData /\ c \in FluxnodeCacheData
  BY EntryTypes, WellFormedPointwise DEF Connects, BlockApplies
<1>2. CASE o \in Started(g)
  <2>1. /\ s # NullData
        /\ Unconfirmed(s, "started")
        /\ h - 1 - s.nAddedBlockHeight \in 0..(StartExpiration - 1)
    BY <1>1, <1>2, Membership DEF WellFormedAt
  <2>0. /\ b.tx[o].type \in {"none", "confirm"}
        /\ b.tx[o].type = "confirm" =>
             /\ p.mapStartTxTracker[o] = NullData
             /\ p.mapStartTxDOSTracker[o] = NullData
             /\ p.mapConfirmedFluxnodeData[o] = Confirm(s, h, b.tx[o].ip)
        /\ b.tx[o].type = "none" /\ s.nAddedBlockHeight = h - StartExpiration =>
             /\ p.mapStartTxTracker[o] = NullData
             /\ p.mapStartTxDOSTracker[o] = [s EXCEPT !.nStatus = "dos"]
             /\ p.mapConfirmedFluxnodeData[o] = NullData
        /\ b.tx[o].type = "none" /\ s.nAddedBlockHeight # h - StartExpiration =>
             /\ p.mapStartTxTracker[o] = s
             /\ p.mapStartTxDOSTracker[o] = NullData
             /\ p.mapConfirmedFluxnodeData[o] = NullData
    BY <1>2, ConnectStarted
  <2>2. CASE b.tx[o].type = "confirm"
    <3>1. /\ p.mapStartTxTracker[o] = NullData
          /\ p.mapStartTxDOSTracker[o] = NullData
          /\ p.mapConfirmedFluxnodeData[o] = Confirm(s, h, b.tx[o].ip)
      BY <2>0, <2>2
    <3>2. b.tx[o].ip \in Ips
      BY <1>1, <2>2, TxTypes
    <3>3. /\ Confirm(s, h, b.tx[o].ip) \in FluxnodeCacheData
          /\ Confirm(s, h, b.tx[o].ip).nStatus = "confirmed"
          /\ Confirm(s, h, b.tx[o].ip).nLastConfirmedBlockHeight = h
      BY ZenonT(60), <1>1, <3>2 DEF Confirm, FluxnodeCacheData, Statuses
    <3>4. h - h \in 0..ConfirmExpiration
      BY <1>1, ExpirationAssumption
    <3>5. QED
      BY <3>1, <3>3, <3>4, NullDataType DEF WellFormedAt
  <2>3. CASE b.tx[o].type = "none" /\ s.nAddedBlockHeight = h - StartExpiration
    <3> DEFINE e == [s EXCEPT !.nStatus = "dos"]
    <3>1. /\ p.mapStartTxTracker[o] = NullData
          /\ p.mapStartTxDOSTracker[o] = e
          /\ p.mapConfirmedFluxnodeData[o] = NullData
      BY <2>0, <2>3
    <3>2. e \in FluxnodeCacheData
      BY <1>1 DEF FluxnodeCacheData, Statuses
    <3>3. Unconfirmed(e, "dos") /\ e.nAddedBlockHeight = s.nAddedBlockHeight
      BY ZenonT(60), <1>1, <2>1 DEF Unconfirmed, NullData, FluxnodeCacheData
    <3>4. h - s.nAddedBlockHeight \in StartExpiration..(DosRemoveAmount - 1)
      BY <1>1, <2>3, ExpirationAssumption
    <3>5. QED
      BY <3>1, <3>2, <3>3, <3>4, NullDataType DEF WellFormedAt
  <2>4. CASE b.tx[o].type = "none" /\ s.nAddedBlockHeight # h - StartExpiration
    <3>1. /\ p.mapStartTxTracker[o] = s
          /\ p.mapStartTxDOSTracker[o] = NullData
          /\ p.mapConfirmedFluxnodeData[o] = NullData
      BY <2>0, <2>4
    <3>2. s.nAddedBlockHeight \in Nat
      BY <1>1 DEF FluxnodeCacheData
    <3>3. h - s.nAddedBlockHeight \in 0..(StartExpiration - 1)
      BY <1>1, <2>1, <2>4, <3>2, ExpirationAssumption
    <3>4. QED
      BY <1>1, <2>1, <3>1, <3>3, NullDataType DEF WellFormedAt
  <2>5. QED
    BY <2>0, <2>2, <2>3, <2>4
<1>3. CASE o \in InDoS(g)
  <2>1. /\ d # NullData
        /\ Unconfirmed(d, "dos")
        /\ h - 1 - d.nAddedBlockHeight \in StartExpiration..(DosRemoveAmount - 1)
        /\ d.nAddedBlockHeight \in Nat
    BY <1>1, <1>3, Membership DEF WellFormedAt, FluxnodeCacheData
  <2>2. /\ p.mapStartTxTracker[o] = NullData
        /\ p.mapStartTxDOSTracker[o] =
             IF d.nAddedBlockHeight = h - DosRemoveAmount THEN NullData ELSE d
        /\ p.mapConfirmedFluxnodeData[o] = NullData
    BY <1>3, ConnectDos
  <2>3. d.nAddedBlockHeight # h - DosRemoveAmount =>
          h - d.nAddedBlockHeight \in StartExpiration..(DosRemoveAmount - 1)
    BY <1>1, <2>1, ExpirationAssumption
  <2>4. QED
    BY <1>1, <2>1, <2>2, <2>3, NullDataType DEF WellFormedAt
<1>4. CASE o \in Confirmed(g)
  <2>1. /\ c # NullData
        /\ c.nStatus = "confirmed"
        /\ h - 1 - c.nLastConfirmedBlockHeight \in 0..ConfirmExpiration
        /\ c.nLastConfirmedBlockHeight \in Nat
    BY <1>1, <1>4, Membership DEF WellFormedAt, FluxnodeCacheData
  <2>2. /\ b.tx[o].type \in {"none", "update"}
        /\ p.mapStartTxTracker[o] = NullData
        /\ p.mapStartTxDOSTracker[o] = NullData
        /\ p.mapConfirmedFluxnodeData[o] =
             IF o \in ExpiredConfirms(g, b, h) THEN NullData ELSE Renewed(c, b, h, o)
    BY <1>4, ConnectConfirmed
  <2>3. b.tx[o].type = "update" => b.tx[o].ip \in Ips
    BY <1>1, TxTypes
  <2>4. /\ Renewed(c, b, h, o) \in FluxnodeCacheData
        /\ Renewed(c, b, h, o).nStatus = "confirmed"
        /\ Renewed(c, b, h, o).nLastConfirmedBlockHeight =
             IF b.tx[o].type = "update" THEN h ELSE c.nLastConfirmedBlockHeight
    BY ZenonT(60), <1>1, <2>1, <2>3 DEF Renewed, FluxnodeCacheData, Statuses
  <2>5. o \notin ExpiredConfirms(g, b, h) =>
          h - Renewed(c, b, h, o).nLastConfirmedBlockHeight \in 0..ConfirmExpiration
    BY <1>1, <1>4, <2>1, <2>4, ExpirationAssumption DEF ExpiredConfirms
  <2>6. QED
    BY <2>2, <2>4, <2>5, NullDataType DEF WellFormedAt
<1>5. CASE o \notin Started(g) /\ o \notin InDoS(g) /\ o \notin Confirmed(g)
  <2>1. /\ p.mapStartTxTracker[o] =
             IF b.tx[o].type = "start" THEN AddNewStart(h) ELSE NullData
        /\ p.mapStartTxDOSTracker[o] = NullData
        /\ p.mapConfirmedFluxnodeData[o] = NullData
    BY <1>5, ConnectAbsent
  <2>2. h - h \in 0..(StartExpiration - 1)
    BY <1>1, ExpirationAssumption
  <2>3. QED
    BY <1>1, <2>1, <2>2, NewStartType, NullDataType DEF WellFormedAt
<1>6. QED
  BY <1>2, <1>3, <1>4, <1>5

\* Connecting a block keeps the trackers well formed.
LEMMA ConnectKeeps ==
  ASSUME NEW g, NEW b, NEW h, Connects(g, b, h)
  PROVE  Connected(g, b, h) \in Trackers /\ WellFormed(Connected(g, b, h), h)
<1>1. WellFormed(Connected(g, b, h), h)
  BY ConnectKeepsAt, WellFormedPointwise
<1> DEFINE l == ConnectCache(g, b, h)
<1>2. \A o \in Outpoints : /\ FlushedStart(g, l, o) \in FluxnodeCacheData
                           /\ FlushDos(g, l, o) \in FluxnodeCacheData
                           /\ FlushedConfirmed(g, l, o) \in FluxnodeCacheData
  BY ConnectKeepsAt, FlushAt DEF Connected
<1>3. Connected(g, b, h) \in Trackers
  BY SMTT(60), <1>2 DEF Connected, FlushTrackers, Trackers, Tracker
<1>4. QED
  BY <1>1, <1>3
=============================================================================
