------------------------- MODULE FluxnodeUndoProofs -------------------------
(***************************************************************************)
(* Disconnecting a block takes the trackers back to where they were        *)
(* before it was connected.                                                *)
(***************************************************************************)
EXTENDS FluxnodeConnectProofs

-----------------------------------------------------------------------------
(***************************************************************************)
(* What disconnecting the block does to one collateral.                    *)
(***************************************************************************)

\* The trackers after block b is disconnected again.
Disconnected(g, b, h) ==
    FlushTrackers(Connected(g, b, h),
                  DisconnectCache(Connected(g, b, h), b, BlockUndo(g, b, h), h))

\* The undo data of a block, at one collateral.
LEMMA UndoAt ==
  ASSUME NEW g, NEW b, NEW h, NEW o \in Outpoints
  PROVE  LET undo == BlockUndo(g, b, h)
         IN  /\ undo.vecExpiredDosData[o] =
                  IF o \in ExpiredDos(g, h) THEN g.mapStartTxDOSTracker[o] ELSE NullData
             /\ undo.vecExpiredConfirmedData[o] =
                  IF o \in ExpiredConfirms(g, b, h) THEN g.mapConfirmedFluxnodeData[o]
                  ELSE NullData
             /\ o \in DOMAIN undo.mapUpdateLastConfirmHeight <=> o \in TxsOfType(b, "update")
             /\ o \in TxsOfType(b, "update") =>
                  /\ undo.mapUpdateLastConfirmHeight[o] =
                       GetFluxnodeData(g, o).nLastConfirmedBlockHeight
                  /\ undo.mapLastIpAddress[o] = GetFluxnodeData(g, o).ip
             /\ o \in DOMAIN undo.mapLastPaidHeights <=> o \in b.paid /\ o \in Confirmed(g)
             /\ o \in b.paid /\ o \in Confirmed(g) =>
                  undo.mapLastPaidHeights[o] = g.mapConfirmedFluxnodeData[o].nLastPaidHeight
  BY DEF BlockUndo, Only

\* The local cache of a disconnected block, at one collateral.
LEMMA DisconnectAt ==
  ASSUME NEW p, NEW b, NEW undo, NEW h, NEW o \in Outpoints
  PROVE  LET l == DisconnectCache(p, b, undo, h)
         IN  /\ l.mapStartTxTracker[o] =
                  IF o \in UndoneStartExpiries(p, h)
                  THEN [p.mapStartTxDOSTracker[o] EXCEPT !.nStatus = "started"]
                  ELSE NullData
             /\ l.mapStartTxDOSTracker[o] = undo.vecExpiredDosData[o]
             /\ o \in l.setDosToRemove <=> o \in UndoneStartExpiries(p, h)
             /\ l.mapConfirmedFluxnodeData[o] = UndoneUpdates(p, undo)[o]
             /\ l.setUndoExpireConfirm[o] = undo.vecExpiredConfirmedData[o]
             /\ o \in l.setUndoStartTx <=> o \in TxsOfType(b, "start")
             /\ o \notin DOMAIN l.mapAddToConfirm
             /\ o \in l.setUndoAddToConfirm <=> o \in TxsOfType(b, "confirm")
             /\ o \notin DOMAIN l.mapAddToUpdateConfirm
             /\ o \notin l.setExpireConfirmOutPoints
             /\ o \notin l.mapPaidNodes
             /\ l.mapUndoPaidNodes = undo.mapLastPaidHeights
<1> DEFINE l == DisconnectCache(p, b, undo, h)
<1>1. /\ l.mapStartTxTracker[o] =
           IF o \in UndoneStartExpiries(p, h)
           THEN [p.mapStartTxDOSTracker[o] EXCEPT !.nStatus = "started"]
           ELSE NullData
      /\ l.mapStartTxDOSTracker[o] = undo.vecExpiredDosData[o]
      /\ o \in l.setDosToRemove <=> o \in UndoneStartExpiries(p, h)
  BY DEF DisconnectCache, EmptyCache
<1>2. /\ l.mapConfirmedFluxnodeData[o] = UndoneUpdates(p, undo)[o]
      /\ l.setUndoExpireConfirm[o] = undo.vecExpiredConfirmedData[o]
      /\ o \in l.setUndoStartTx <=> o \in TxsOfType(b, "start")
      /\ o \in l.setUndoAddToConfirm <=> o \in TxsOfType(b, "confirm")
  BY DEF DisconnectCache, EmptyCache
<1>3. /\ o \notin DOMAIN l.mapAddToConfirm
      /\ o \notin DOMAIN l.mapAddToUpdateConfirm
      /\ o \notin l.setExpireConfirmOutPoints
      /\ o \notin l.mapPaidNodes
      /\ l.mapUndoPaidNodes = undo.mapLastPaidHeights
  BY DEF DisconnectCache, EmptyCache
<1>4. QED
  BY <1>1, <1>2, <1>3

\* Flush after DisconnectBlock, at one collateral: the stages that only a connected
\* block uses do nothing.
LEMMA FlushDisconnect ==
  ASSUME NEW p, NEW b, NEW undo, NEW h, NEW o \in Outpoints
  PROVE  LET l == DisconnectCache(p, b, undo, h)
             c == FlushUndoConfirmed(p, l, o)
             unconfirmed == o \in TxsOfType(b, "confirm") /\ c # NullData
         IN  /\ FlushedStart(p, l, o) =
                  IF unconfirmed THEN Unconfirm(c) ELSE FlushStart(p, l, o)
             /\ FlushPaid(p, l, o) = IF unconfirmed THEN NullData ELSE c
<1> DEFINE l == DisconnectCache(p, b, undo, h)
           c == FlushUndoConfirmed(p, l, o)
<1>1. /\ ~MovesToConfirm(p, l, o)
      /\ FlushConfirm(p, l, o) = c
  BY ZenonT(60), DisconnectAt DEF MovesToConfirm, FlushConfirm
<1>2. MovesToStart(p, l, o) <=> o \in TxsOfType(b, "confirm") /\ c # NullData
  BY ZenonT(60), <1>1, DisconnectAt DEF MovesToStart
<1>3. FlushPaid(p, l, o) = FlushUndoConfirm(p, l, o)
  BY ZenonT(60), DisconnectAt DEF FlushPaid, FlushExpire, FlushUpdate
<1>4. QED
  BY <1>1, <1>2, <1>3 DEF FlushedStart, FlushUndoConfirm, Unconfirm

\* Taking a confirm back gives the start entry it was made of.
LEMMA ConfirmUndone ==
  ASSUME NEW s \in FluxnodeCacheData, Unconfirmed(s, "started"), NEW h \in Nat, NEW ip
  PROVE  /\ Confirm(s, h, ip) # NullData
         /\ Unconfirm(Confirm(s, h, ip)) = s
  BY ZenonT(60) DEF Confirm, Unconfirm, Unconfirmed, NullData, FluxnodeCacheData

\* A start entry is back after its block is disconnected.
LEMMA RestoreStarted ==
  ASSUME NEW g, NEW b, NEW h, Connects(g, b, h), NEW o \in Outpoints, o \in Started(g)
  PROVE  LET r == Disconnected(g, b, h)
         IN  /\ r.mapStartTxTracker[o] = g.mapStartTxTracker[o]
             /\ r.mapStartTxDOSTracker[o] = NullData
             /\ r.mapConfirmedFluxnodeData[o] = NullData
<1> DEFINE s == g.mapStartTxTracker[o]
           p == Connected(g, b, h)
           undo == BlockUndo(g, b, h)
           l == DisconnectCache(p, b, undo, h)
           r == Disconnected(g, b, h)
<1>1. /\ g \in Trackers /\ b \in Blocks /\ h \in Nat \ {0}
      /\ WellFormedAt(g, h - 1, o)
      /\ s \in FluxnodeCacheData
      /\ s # NullData
  BY EntryTypes, WellFormedPointwise, Membership DEF Connects, BlockApplies
<1>2. /\ g.mapStartTxDOSTracker[o] = NullData
      /\ g.mapConfirmedFluxnodeData[o] = NullData
      /\ Unconfirmed(s, "started")
      /\ s.nStatus = "started"
  BY ZenonT(60), <1>1 DEF WellFormedAt, Unconfirmed, NullData
<1>3. o \notin ExpiredDos(g, h) /\ o \notin ExpiredConfirms(g, b, h) /\ o \notin Confirmed(g)
  BY <1>1, <1>2, Membership DEF ExpiredDos, ExpiredConfirms
<1>4. /\ undo.vecExpiredDosData[o] = NullData
      /\ undo.vecExpiredConfirmedData[o] = NullData
      /\ o \notin DOMAIN undo.mapLastPaidHeights
  BY <1>3, UndoAt
<1>5. /\ b.tx[o].type \in {"none", "confirm"}
      /\ b.tx[o].type = "confirm" =>
           /\ p.mapStartTxTracker[o] = NullData
           /\ p.mapStartTxDOSTracker[o] = NullData
           /\ p.mapConfirmedFluxnodeData[o] = Confirm(s, h, b.tx[o].ip)
      /\ b.tx[o].type = "none" /\ s.nAddedBlockHeight = h - StartExpiration =>
           /\ p.mapStartTxTracker[o] = NullData
           /\ p.mapStartTxDOSTracker[o] = [s EXCEPT !.nStatus = "dos"]
           /\ p.mapConfirmedFluxnodeData[o] = NullData
      /\ b.tx[o].type = "none" /\ s.nAddedBlockHeight # h - StartExpiration =>
           /\ p.mapStartTxTracker[o] = s
           /\ p.mapStartTxDOSTracker[o] = NullData
           /\ p.mapConfirmedFluxnodeData[o] = NullData
  BY ConnectStarted
<1>6. /\ \A t : o \in TxsOfType(b, t) <=> b.tx[o].type = t
  BY <1>1, TxTypes
<1>7. o \in UndoneStartExpiries(p, h) <=>
        /\ p.mapStartTxDOSTracker[o] # NullData
        /\ p.mapStartTxDOSTracker[o].nAddedBlockHeight = h - StartExpiration
  BY Membership DEF UndoneStartExpiries
<1>8. UndoneUpdates(p, undo)[o] = NullData
  BY <1>5, <1>6, UndoAt DEF UndoneUpdates
<1>9. /\ l.mapStartTxTracker[o] =
           IF o \in UndoneStartExpiries(p, h)
           THEN [p.mapStartTxDOSTracker[o] EXCEPT !.nStatus = "started"]
           ELSE NullData
      /\ l.mapStartTxDOSTracker[o] = NullData
      /\ o \in l.setDosToRemove <=> o \in UndoneStartExpiries(p, h)
      /\ l.mapConfirmedFluxnodeData[o] = NullData
      /\ l.setUndoExpireConfirm[o] = NullData
      /\ o \notin l.setUndoStartTx
      /\ o \notin DOMAIN l.mapUndoPaidNodes
  <2>1. /\ l.mapStartTxTracker[o] =
             IF o \in UndoneStartExpiries(p, h)
             THEN [p.mapStartTxDOSTracker[o] EXCEPT !.nStatus = "started"]
             ELSE NullData
        /\ l.mapStartTxDOSTracker[o] = undo.vecExpiredDosData[o]
        /\ o \in l.setDosToRemove <=> o \in UndoneStartExpiries(p, h)
    BY DEF DisconnectCache, EmptyCache
  <2>2. /\ l.mapConfirmedFluxnodeData[o] = UndoneUpdates(p, undo)[o]
        /\ l.setUndoExpireConfirm[o] = undo.vecExpiredConfirmedData[o]
        /\ o \in l.setUndoStartTx <=> o \in TxsOfType(b, "start")
        /\ l.mapUndoPaidNodes = undo.mapLastPaidHeights
    BY DEF DisconnectCache, EmptyCache
  <2>3. QED
    BY <1>4, <1>5, <1>6, <1>8, <2>1, <2>2
<1>10. FlushUndoConfirmed(p, l, o) = p.mapConfirmedFluxnodeData[o]
  BY <1>9 DEF FlushUndoConfirmed, Has
<1> DEFINE c == p.mapConfirmedFluxnodeData[o]
           unconfirmed == b.tx[o].type = "confirm" /\ c # NullData
<1>11. /\ FlushedStart(p, l, o) =
            IF unconfirmed THEN Unconfirm(c) ELSE FlushStart(p, l, o)
       /\ FlushPaid(p, l, o) = IF unconfirmed THEN NullData ELSE c
  <2>1. LET u == o \in TxsOfType(b, "confirm") /\ FlushUndoConfirmed(p, l, o) # NullData
        IN  /\ FlushedStart(p, l, o) =
                 IF u THEN Unconfirm(FlushUndoConfirmed(p, l, o)) ELSE FlushStart(p, l, o)
            /\ FlushPaid(p, l, o) = IF u THEN NullData ELSE FlushUndoConfirmed(p, l, o)
    BY SMTT(60), FlushDisconnect
  <2>2. QED
    BY <1>6, <1>10, <2>1
<1>12. /\ r.mapStartTxTracker[o] = FlushedStart(p, l, o)
       /\ r.mapStartTxDOSTracker[o] = FlushDos(p, l, o)
       /\ r.mapConfirmedFluxnodeData[o] = FlushPaid(p, l, o)
  <2>1. FlushedConfirmed(p, l, o) = FlushPaid(p, l, o)
    BY <1>9 DEF FlushedConfirmed
  <2>2. /\ FlushTrackers(p, l).mapStartTxTracker[o] = FlushedStart(p, l, o)
        /\ FlushTrackers(p, l).mapStartTxDOSTracker[o] = FlushDos(p, l, o)
        /\ FlushTrackers(p, l).mapConfirmedFluxnodeData[o] = FlushedConfirmed(p, l, o)
    BY FlushAt
  <2>3. QED
    BY <2>1, <2>2 DEF Disconnected
<1>13. CASE b.tx[o].type = "confirm"
  <2> DEFINE e == Confirm(s, h, b.tx[o].ip)
  <2>1. h \in Nat
    BY <1>1
  <2>2. e # NullData /\ Unconfirm(e) = s
    BY <1>1, <1>2, <2>1, ConfirmUndone
  <2>3. FlushDos(p, l, o) = NullData
    BY <1>5, <1>9, <1>13 DEF FlushDos, Has
  <2>4. QED
    BY <1>5, <1>11, <1>12, <1>13, <2>2, <2>3
<1>14. CASE b.tx[o].type = "none" /\ s.nAddedBlockHeight = h - StartExpiration
  <2> DEFINE d == [s EXCEPT !.nStatus = "dos"]
  <2>1. /\ d # NullData
        /\ d.nAddedBlockHeight = h - StartExpiration
        /\ [d EXCEPT !.nStatus = "started"] = s
    BY ZenonT(60), <1>1, <1>2, <1>14 DEF NullData, FluxnodeCacheData
  <2>2. o \in UndoneStartExpiries(p, h)
    BY ZenonT(60), <1>5, <1>7, <1>14, <2>1
  <2>3. l.mapStartTxTracker[o] = s
    BY ZenonT(60), <1>5, <1>9, <1>14, <2>1, <2>2
  <2>4. FlushStart(p, l, o) = s /\ FlushDos(p, l, o) = NullData
    BY <1>1, <1>9, <2>2, <2>3 DEF FlushStart, FlushDos, Has
  <2>5. QED
    BY <1>5, <1>11, <1>12, <1>14, <2>4
<1>15. CASE b.tx[o].type = "none" /\ s.nAddedBlockHeight # h - StartExpiration
  <2>1. o \notin UndoneStartExpiries(p, h)
    BY <1>5, <1>7, <1>15
  <2>2. FlushStart(p, l, o) = s /\ FlushDos(p, l, o) = NullData
    BY <1>5, <1>9, <1>15, <2>1 DEF FlushStart, FlushDos, Has
  <2>3. QED
    BY <1>5, <1>11, <1>12, <1>15, <2>2
<1>16. QED
  BY <1>5, <1>13, <1>14, <1>15

\* A DoS entry is back after its block is disconnected.
LEMMA RestoreDos ==
  ASSUME NEW g, NEW b, NEW h, Connects(g, b, h), NEW o \in Outpoints, o \in InDoS(g)
  PROVE  LET r == Disconnected(g, b, h)
         IN  /\ r.mapStartTxTracker[o] = NullData
             /\ r.mapStartTxDOSTracker[o] = g.mapStartTxDOSTracker[o]
             /\ r.mapConfirmedFluxnodeData[o] = NullData
<1> DEFINE p == Connected(g, b, h)
           undo == BlockUndo(g, b, h)
           l == DisconnectCache(p, b, undo, h)
           r == Disconnected(g, b, h)
<1> DEFINE d == g.mapStartTxDOSTracker[o]
<1>1. /\ b \in Blocks /\ h \in Nat \ {0}
      /\ WellFormedAt(g, h - 1, o)
      /\ d \in FluxnodeCacheData
      /\ d # NullData
      /\ o \notin Confirmed(g)
  BY EntryTypes, WellFormedPointwise, Membership DEF Connects, BlockApplies, WellFormedAt
<1>2. d.nAddedBlockHeight # h - StartExpiration
  BY <1>1, ExpirationAssumption DEF WellFormedAt, FluxnodeCacheData
<1>3. /\ b.tx[o].type = "none"
      /\ p.mapStartTxTracker[o] = NullData
      /\ p.mapStartTxDOSTracker[o] =
           IF d.nAddedBlockHeight = h - DosRemoveAmount THEN NullData ELSE d
      /\ p.mapConfirmedFluxnodeData[o] = NullData
  BY ConnectDos
<1>4. /\ o \in ExpiredDos(g, h) <=> d.nAddedBlockHeight = h - DosRemoveAmount
      /\ o \notin ExpiredConfirms(g, b, h)
  BY <1>1, Membership DEF ExpiredDos, ExpiredConfirms
<1>5. \A t : o \in TxsOfType(b, t) <=> b.tx[o].type = t
  BY SMTT(60), <1>1, TxTypes
<1>6. /\ undo.vecExpiredDosData[o] = IF o \in ExpiredDos(g, h) THEN d ELSE NullData
      /\ undo.vecExpiredConfirmedData[o] = NullData
      /\ o \notin DOMAIN undo.mapUpdateLastConfirmHeight
      /\ o \notin DOMAIN undo.mapLastPaidHeights
  BY <1>1, <1>3, <1>4, <1>5, UndoAt
<1>7. o \notin UndoneStartExpiries(p, h)
  BY <1>2, <1>3, Membership DEF UndoneStartExpiries
<1>8. UndoneUpdates(p, undo)[o] = NullData
  BY <1>6 DEF UndoneUpdates
<1>9. /\ l.mapStartTxTracker[o] =
           IF o \in UndoneStartExpiries(p, h)
           THEN [p.mapStartTxDOSTracker[o] EXCEPT !.nStatus = "started"]
           ELSE NullData
      /\ l.mapStartTxDOSTracker[o] = undo.vecExpiredDosData[o]
      /\ o \in l.setDosToRemove <=> o \in UndoneStartExpiries(p, h)
  BY DEF DisconnectCache, EmptyCache
<1>10. /\ l.mapConfirmedFluxnodeData[o] = UndoneUpdates(p, undo)[o]
       /\ l.setUndoExpireConfirm[o] = undo.vecExpiredConfirmedData[o]
       /\ o \in l.setUndoStartTx <=> o \in TxsOfType(b, "start")
       /\ l.mapUndoPaidNodes = undo.mapLastPaidHeights
  BY DEF DisconnectCache, EmptyCache
<1>11. o \notin TxsOfType(b, "confirm") =>
           /\ FlushedStart(p, l, o) = FlushStart(p, l, o)
           /\ FlushPaid(p, l, o) = FlushUndoConfirmed(p, l, o)
  <2>1. LET c == FlushUndoConfirmed(p, l, o)
            unconfirmed == o \in TxsOfType(b, "confirm") /\ c # NullData
        IN  /\ FlushedStart(p, l, o) =
                 IF unconfirmed THEN Unconfirm(c) ELSE FlushStart(p, l, o)
            /\ FlushPaid(p, l, o) = IF unconfirmed THEN NullData ELSE c
    BY SMTT(60), FlushDisconnect
  <2>2. QED
    BY <2>1
<1>12. /\ r.mapStartTxTracker[o] = FlushedStart(p, l, o)
       /\ r.mapStartTxDOSTracker[o] = FlushDos(p, l, o)
       /\ r.mapConfirmedFluxnodeData[o] = FlushedConfirmed(p, l, o)
  BY FlushAt DEF Disconnected
<1>13. FlushStart(p, l, o) = NullData
  BY <1>3, <1>7, <1>9, <1>10 DEF FlushStart, Has
<1>14. FlushDos(p, l, o) = d
  BY <1>1, <1>3, <1>4, <1>6, <1>7, <1>9 DEF FlushDos, Has
<1>15. FlushUndoConfirmed(p, l, o) = NullData
  BY <1>3, <1>6, <1>8, <1>10 DEF FlushUndoConfirmed, Has
<1>16. FlushedConfirmed(p, l, o) = NullData
  BY <1>3, <1>5, <1>6, <1>10, <1>11, <1>15 DEF FlushedConfirmed
<1>17. QED
  BY <1>3, <1>5, <1>11, <1>12, <1>13, <1>14, <1>16

\* A collateral in no tracker is in none after its block is disconnected.
LEMMA RestoreAbsent ==
  ASSUME NEW g, NEW b, NEW h, Connects(g, b, h), NEW o \in Outpoints,
         o \notin Started(g), o \notin InDoS(g), o \notin Confirmed(g)
  PROVE  LET r == Disconnected(g, b, h)
         IN  /\ r.mapStartTxTracker[o] = NullData
             /\ r.mapStartTxDOSTracker[o] = NullData
             /\ r.mapConfirmedFluxnodeData[o] = NullData
<1> DEFINE p == Connected(g, b, h)
           undo == BlockUndo(g, b, h)
           l == DisconnectCache(p, b, undo, h)
           r == Disconnected(g, b, h)
<1>1. b \in Blocks
  BY DEF Connects, BlockApplies
<1>2. /\ b.tx[o].type \in {"none", "start"}
      /\ p.mapStartTxTracker[o] =
           IF b.tx[o].type = "start" THEN AddNewStart(h) ELSE NullData
      /\ p.mapStartTxDOSTracker[o] = NullData
      /\ p.mapConfirmedFluxnodeData[o] = NullData
  BY ConnectAbsent
<1>3. o \notin ExpiredDos(g, h) /\ o \notin ExpiredConfirms(g, b, h)
  BY DEF ExpiredDos, ExpiredConfirms
<1>4. \A t : o \in TxsOfType(b, t) <=> b.tx[o].type = t
  BY <1>1, TxTypes
<1>5. /\ undo.vecExpiredDosData[o] = NullData
      /\ undo.vecExpiredConfirmedData[o] = NullData
      /\ o \notin DOMAIN undo.mapUpdateLastConfirmHeight
      /\ o \notin DOMAIN undo.mapLastPaidHeights
  BY <1>2, <1>3, <1>4, UndoAt
<1>6. o \notin UndoneStartExpiries(p, h)
  BY <1>2, Membership DEF UndoneStartExpiries
<1>7. UndoneUpdates(p, undo)[o] = NullData
  BY <1>5 DEF UndoneUpdates
<1>8. /\ l.mapStartTxTracker[o] =
           IF o \in UndoneStartExpiries(p, h)
           THEN [p.mapStartTxDOSTracker[o] EXCEPT !.nStatus = "started"]
           ELSE NullData
      /\ l.mapStartTxDOSTracker[o] = undo.vecExpiredDosData[o]
      /\ o \in l.setDosToRemove <=> o \in UndoneStartExpiries(p, h)
  BY DEF DisconnectCache, EmptyCache
<1>9. /\ l.mapConfirmedFluxnodeData[o] = UndoneUpdates(p, undo)[o]
      /\ l.setUndoExpireConfirm[o] = undo.vecExpiredConfirmedData[o]
      /\ o \in l.setUndoStartTx <=> o \in TxsOfType(b, "start")
      /\ l.mapUndoPaidNodes = undo.mapLastPaidHeights
  BY DEF DisconnectCache, EmptyCache
<1>10. o \notin TxsOfType(b, "confirm") =>
           /\ FlushedStart(p, l, o) = FlushStart(p, l, o)
           /\ FlushPaid(p, l, o) = FlushUndoConfirmed(p, l, o)
  <2>1. LET c == FlushUndoConfirmed(p, l, o)
            unconfirmed == o \in TxsOfType(b, "confirm") /\ c # NullData
        IN  /\ FlushedStart(p, l, o) =
                 IF unconfirmed THEN Unconfirm(c) ELSE FlushStart(p, l, o)
            /\ FlushPaid(p, l, o) = IF unconfirmed THEN NullData ELSE c
    BY SMTT(60), FlushDisconnect
  <2>2. QED
    BY <2>1
<1>11. /\ r.mapStartTxTracker[o] = FlushedStart(p, l, o)
       /\ r.mapStartTxDOSTracker[o] = FlushDos(p, l, o)
       /\ r.mapConfirmedFluxnodeData[o] = FlushedConfirmed(p, l, o)
  BY FlushAt DEF Disconnected
<1>12. FlushStart(p, l, o) = NullData
  BY <1>2, <1>4, <1>5, <1>6, <1>8, <1>9 DEF FlushStart, Has
<1>13. FlushDos(p, l, o) = NullData
  BY <1>2, <1>5, <1>6, <1>8 DEF FlushDos, Has
<1>14. FlushUndoConfirmed(p, l, o) = NullData
  BY <1>2, <1>5, <1>7, <1>9 DEF FlushUndoConfirmed, Has
<1>15. FlushedConfirmed(p, l, o) = NullData
  BY <1>2, <1>4, <1>5, <1>9, <1>10, <1>14 DEF FlushedConfirmed
<1>16. QED
  BY <1>2, <1>4, <1>10, <1>11, <1>12, <1>13, <1>15

\* A confirmed entry e with the confirmation, or the payment, of entry c.
UndoRenewal(e, c) ==
    [e EXCEPT !.nLastConfirmedBlockHeight = c.nLastConfirmedBlockHeight, !.ip = c.ip]
UndoPayment(e, c) == [e EXCEPT !.nLastPaidHeight = c.nLastPaidHeight]

\* Taking back the renewal and the payment gives the entry they were made of.
LEMMA RenewalUndone ==
  ASSUME NEW c \in FluxnodeCacheData, c.nStatus = "confirmed", NEW b, NEW h, NEW o
  PROVE  LET e == Renewed(c, b, h, o)
             u == UndoRenewal(e, c)
         IN  /\ e # NullData
             /\ u # NullData
             /\ b.tx[o].type # "update" /\ o \notin b.paid => e = c
             /\ b.tx[o].type # "update" /\ o \in b.paid => UndoPayment(e, c) = c
             /\ b.tx[o].type = "update" /\ o \notin b.paid => u = c
             /\ b.tx[o].type = "update" /\ o \in b.paid => UndoPayment(u, c) = c
<1> DEFINE e == Renewed(c, b, h, o)
<1>1. e # NullData /\ UndoRenewal(e, c) # NullData
  BY ZenonT(60) DEF Renewed, UndoRenewal, NullData, FluxnodeCacheData
<1>2. CASE b.tx[o].type # "update"
  BY ZenonT(60), <1>1, <1>2 DEF Renewed, UndoPayment, FluxnodeCacheData
<1>3. CASE b.tx[o].type = "update"
  BY ZenonT(60), <1>1, <1>3 DEF Renewed, UndoRenewal, UndoPayment, FluxnodeCacheData
<1>4. QED
  BY <1>2, <1>3

\* A confirmed entry is back, renewal and payment undone, after its block is
\* disconnected.
LEMMA RestoreConfirmed ==
  ASSUME NEW g, NEW b, NEW h, Connects(g, b, h), NEW o \in Outpoints, o \in Confirmed(g)
  PROVE  LET r == Disconnected(g, b, h)
         IN  /\ r.mapStartTxTracker[o] = NullData
             /\ r.mapStartTxDOSTracker[o] = NullData
             /\ r.mapConfirmedFluxnodeData[o] = g.mapConfirmedFluxnodeData[o]
<1> DEFINE p == Connected(g, b, h)
           undo == BlockUndo(g, b, h)
           l == DisconnectCache(p, b, undo, h)
           r == Disconnected(g, b, h)
           c == g.mapConfirmedFluxnodeData[o]
           e == Renewed(c, b, h, o)
           u == UndoRenewal(e, c)
<1>1. /\ b \in Blocks
      /\ WellFormedAt(g, h - 1, o)
      /\ c \in FluxnodeCacheData
      /\ c # NullData
      /\ c.nStatus = "confirmed"
      /\ g.mapStartTxTracker[o] = NullData
      /\ g.mapStartTxDOSTracker[o] = NullData
  BY EntryTypes, WellFormedPointwise, Membership DEF Connects, BlockApplies, WellFormedAt
<1>2. /\ b.tx[o].type \in {"none", "update"}
      /\ p.mapStartTxTracker[o] = NullData
      /\ p.mapStartTxDOSTracker[o] = NullData
      /\ p.mapConfirmedFluxnodeData[o] =
           IF o \in ExpiredConfirms(g, b, h) THEN NullData ELSE e
  BY ConnectConfirmed
<1>3. o \notin ExpiredDos(g, h)
  BY <1>1, Membership DEF ExpiredDos
<1>4. \A t : o \in TxsOfType(b, t) <=> b.tx[o].type = t
  BY <1>1, TxTypes
<1>5. GetFluxnodeData(g, o) = c
  BY <1>1 DEF GetFluxnodeData, Has
<1>6. /\ undo.vecExpiredDosData[o] = NullData
      /\ undo.vecExpiredConfirmedData[o] =
           IF o \in ExpiredConfirms(g, b, h) THEN c ELSE NullData
      /\ o \in DOMAIN undo.mapUpdateLastConfirmHeight <=> b.tx[o].type = "update"
      /\ b.tx[o].type = "update" =>
           /\ undo.mapUpdateLastConfirmHeight[o] = c.nLastConfirmedBlockHeight
           /\ undo.mapLastIpAddress[o] = c.ip
      /\ o \in DOMAIN undo.mapLastPaidHeights <=> o \in b.paid
      /\ o \in b.paid => undo.mapLastPaidHeights[o] = c.nLastPaidHeight
  BY <1>3, <1>4, <1>5, UndoAt
<1>7. o \notin UndoneStartExpiries(p, h)
  BY <1>2, Membership DEF UndoneStartExpiries
<1>8. /\ l.mapStartTxTracker[o] =
           IF o \in UndoneStartExpiries(p, h)
           THEN [p.mapStartTxDOSTracker[o] EXCEPT !.nStatus = "started"]
           ELSE NullData
      /\ l.mapStartTxDOSTracker[o] = undo.vecExpiredDosData[o]
      /\ o \in l.setDosToRemove <=> o \in UndoneStartExpiries(p, h)
  BY DEF DisconnectCache, EmptyCache
<1>9. /\ l.mapConfirmedFluxnodeData[o] = UndoneUpdates(p, undo)[o]
      /\ l.setUndoExpireConfirm[o] = undo.vecExpiredConfirmedData[o]
      /\ o \in l.setUndoStartTx <=> o \in TxsOfType(b, "start")
      /\ l.mapUndoPaidNodes = undo.mapLastPaidHeights
  BY DEF DisconnectCache, EmptyCache
<1>10. o \notin TxsOfType(b, "confirm") =>
         /\ FlushedStart(p, l, o) = FlushStart(p, l, o)
         /\ FlushPaid(p, l, o) = FlushUndoConfirmed(p, l, o)
  <2>1. LET f == FlushUndoConfirmed(p, l, o)
            unconfirmed == o \in TxsOfType(b, "confirm") /\ f # NullData
        IN  /\ FlushedStart(p, l, o) =
                 IF unconfirmed THEN Unconfirm(f) ELSE FlushStart(p, l, o)
            /\ FlushPaid(p, l, o) = IF unconfirmed THEN NullData ELSE f
    BY FlushDisconnect
  <2>2. QED
    BY <2>1
<1>11. /\ r.mapStartTxTracker[o] = FlushedStart(p, l, o)
       /\ r.mapStartTxDOSTracker[o] = FlushDos(p, l, o)
       /\ r.mapConfirmedFluxnodeData[o] = FlushedConfirmed(p, l, o)
  BY FlushAt DEF Disconnected
<1>12. FlushStart(p, l, o) = NullData
  BY <1>2, <1>6, <1>7, <1>8 DEF FlushStart, Has
<1>13. FlushDos(p, l, o) = NullData
  BY <1>2, <1>6, <1>7, <1>8 DEF FlushDos, Has
<1>14. FlushedConfirmed(p, l, o) =
         IF o \in b.paid /\ FlushUndoConfirmed(p, l, o) # NullData
         THEN UndoPayment(FlushUndoConfirmed(p, l, o), c)
         ELSE FlushUndoConfirmed(p, l, o)
  BY SMTT(60), <1>2, <1>4, <1>6, <1>9, <1>10 DEF FlushedConfirmed, UndoPayment
<1>15. CASE o \in ExpiredConfirms(g, b, h)
  <2>1. FlushUndoConfirmed(p, l, o) = c
    BY <1>1, <1>6, <1>9, <1>15 DEF FlushUndoConfirmed, Has
  <2>2. UndoPayment(c, c) = c
    BY <1>1 DEF UndoPayment, FluxnodeCacheData
  <2>3. FlushedConfirmed(p, l, o) = c
    BY <1>14, <2>1, <2>2
  <2>4. QED
    BY <1>2, <1>4, <1>10, <1>11, <1>12, <1>13, <2>3
<1>16. CASE o \notin ExpiredConfirms(g, b, h)
  <2>1. /\ e # NullData
        /\ u # NullData
        /\ b.tx[o].type # "update" /\ o \notin b.paid => e = c
        /\ b.tx[o].type # "update" /\ o \in b.paid => UndoPayment(e, c) = c
        /\ b.tx[o].type = "update" /\ o \notin b.paid => u = c
        /\ b.tx[o].type = "update" /\ o \in b.paid => UndoPayment(u, c) = c
    BY <1>1, RenewalUndone
  <2>2. p.mapConfirmedFluxnodeData[o] = e
    BY <1>2, <1>16
  <2>3. o \in Confirmed(p)
    BY <2>1, <2>2, Membership
  <2>4. UndoneUpdates(p, undo)[o] = IF b.tx[o].type = "update" THEN u ELSE NullData
    BY ZenonT(60), <1>6, <2>2, <2>3 DEF UndoneUpdates, UndoRenewal
  <2>5. /\ l.setUndoExpireConfirm[o] = NullData
        /\ l.mapConfirmedFluxnodeData[o] = IF b.tx[o].type = "update" THEN u ELSE NullData
    BY <1>6, <1>9, <1>16, <2>4
  <2>6. /\ u.nLastConfirmedBlockHeight = c.nLastConfirmedBlockHeight
        /\ u.ip = c.ip
    BY <1>1 DEF Renewed, UndoRenewal, FluxnodeCacheData
  <2>7. FlushUndoConfirmed(p, l, o) = IF b.tx[o].type = "update" THEN u ELSE e
    BY ZenonT(60), <2>1, <2>2, <2>5, <2>6 DEF FlushUndoConfirmed, UndoRenewal, Has
  <2>8. FlushedConfirmed(p, l, o) = c
    BY ZenonT(60), <1>14, <2>1, <2>7
  <2>9. QED
    BY <1>2, <1>4, <1>10, <1>11, <1>12, <1>13, <2>8
<1>17. QED
  BY <1>15, <1>16

\* Disconnecting a block takes the trackers back to where they were before it was
\* connected: expiries, confirms, renewals and payments of the block are all undone.
THEOREM RoundTrip ==
  ASSUME NEW g, NEW b, NEW h, Connects(g, b, h)
  PROVE  Disconnected(g, b, h) = g
<1> DEFINE r == Disconnected(g, b, h)
<1>1. g \in Trackers /\ WellFormed(g, h - 1)
  BY DEF Connects
<1>2. ASSUME NEW o \in Outpoints
      PROVE  /\ r.mapStartTxTracker[o] = g.mapStartTxTracker[o]
             /\ r.mapStartTxDOSTracker[o] = g.mapStartTxDOSTracker[o]
             /\ r.mapConfirmedFluxnodeData[o] = g.mapConfirmedFluxnodeData[o]
  <2>1. WellFormedAt(g, h - 1, o)
    BY SMTT(60), <1>1, WellFormedPointwise
  <2>2. CASE o \in Started(g)
    <3>1. /\ r.mapStartTxTracker[o] = g.mapStartTxTracker[o]
          /\ r.mapStartTxDOSTracker[o] = NullData
          /\ r.mapConfirmedFluxnodeData[o] = NullData
      BY SMTT(60), <2>2, RestoreStarted
    <3>2. QED
      BY <2>1, <2>2, <3>1, Membership DEF WellFormedAt
  <2>3. CASE o \in InDoS(g)
    <3>1. /\ r.mapStartTxTracker[o] = NullData
          /\ r.mapStartTxDOSTracker[o] = g.mapStartTxDOSTracker[o]
          /\ r.mapConfirmedFluxnodeData[o] = NullData
      BY <2>3, RestoreDos
    <3>2. QED
      BY <2>1, <2>3, <3>1, Membership DEF WellFormedAt
  <2>4. CASE o \in Confirmed(g)
    <3>1. /\ r.mapStartTxTracker[o] = NullData
          /\ r.mapStartTxDOSTracker[o] = NullData
          /\ r.mapConfirmedFluxnodeData[o] = g.mapConfirmedFluxnodeData[o]
      BY <2>4, RestoreConfirmed
    <3>2. QED
      BY <2>1, <2>4, <3>1, Membership DEF WellFormedAt
  <2>5. CASE o \notin Started(g) /\ o \notin InDoS(g) /\ o \notin Confirmed(g)
    <3>1. /\ r.mapStartTxTracker[o] = NullData
          /\ r.mapStartTxDOSTracker[o] = NullData
          /\ r.mapConfirmedFluxnodeData[o] = NullData
      BY SMTT(60), <2>5, RestoreAbsent
    <3>2. QED
      BY SMTT(60), <2>5, <3>1, Membership
  <2>6. QED
    BY <2>2, <2>3, <2>4, <2>5
<1> DEFINE p == Connected(g, b, h)
           l == DisconnectCache(p, b, BlockUndo(g, b, h), h)
<1>3. \A o \in Outpoints : /\ FlushedStart(p, l, o) = g.mapStartTxTracker[o]
                           /\ FlushDos(p, l, o) = g.mapStartTxDOSTracker[o]
                           /\ FlushedConfirmed(p, l, o) = g.mapConfirmedFluxnodeData[o]
  BY ZenonT(60), <1>2, FlushAt DEF Disconnected
<1>4. /\ [o \in Outpoints |-> FlushedStart(p, l, o)] = g.mapStartTxTracker
      /\ [o \in Outpoints |-> FlushDos(p, l, o)] = g.mapStartTxDOSTracker
      /\ [o \in Outpoints |-> FlushedConfirmed(p, l, o)] = g.mapConfirmedFluxnodeData
  BY <1>1, <1>3 DEF Trackers, Tracker
<1>5. r = [mapStartTxTracker |-> g.mapStartTxTracker,
           mapStartTxDOSTracker |-> g.mapStartTxDOSTracker,
           mapConfirmedFluxnodeData |-> g.mapConfirmedFluxnodeData]
  BY <1>4 DEF Disconnected, FlushTrackers
<1>6. QED
  BY <1>1, <1>5 DEF Trackers
=============================================================================
