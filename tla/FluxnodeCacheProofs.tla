------------------------ MODULE FluxnodeCacheProofs -------------------------
(***************************************************************************)
(* The invariants of FluxnodeCache, for any number of collaterals, any     *)
(* expiry parameters that meet the assumptions, and chains of any length.  *)
(***************************************************************************)
EXTENDS FluxnodeUndoProofs

-----------------------------------------------------------------------------
(***************************************************************************)
(* The invariant of the specification.                                     *)
(***************************************************************************)

\* A block that ConnectBlock accepts on this tip applies to the trackers.
LEMMA AcceptedConnects ==
  ASSUME CacheInv, NEW b \in AcceptedBlocks(nHeight + 1)
  PROVE  Connects(cache, b, nHeight + 1)
<1> DEFINE h == nHeight + 1
<1>1. /\ cache \in Trackers
      /\ nHeight \in Nat
      /\ WellFormed(cache, nHeight)
  BY ChainAssumption DEF CacheInv, TypeOK
<1>2. h \in Nat \ {0} /\ h - 1 = nHeight
  BY <1>1
<1>3. /\ b.tx \in [Outpoints -> FluxnodeTxs]
      /\ b.spends \subseteq Outpoints
      /\ b.paid \in {Payees, {}}
      /\ b = [tx |-> b.tx, spends |-> b.spends, paid |-> b.paid]
  BY DEF AcceptedBlocks
<1>4. Payees \subseteq Confirmed(cache)
  BY DEF Payees, NextPayment
<1>5. b \in Blocks /\ b.paid \subseteq Confirmed(cache)
  BY SMTT(60), <1>3, <1>4 DEF Blocks, Confirmed
<1>6. ASSUME NEW o \in Outpoints
      PROVE  /\ b.tx[o].type = "start" =>
                  o \notin Started(cache) /\ o \notin InDoS(cache) /\ o \notin Confirmed(cache)
             /\ b.tx[o].type = "confirm" => o \in Started(cache)
             /\ b.tx[o].type = "update" => o \in Confirmed(cache)
  <2>1. TxAllowed(cache, h, o, b.tx[o], o \notin spent, CheckListSet(mapFluxnodeList, o))
    BY DEF AcceptedBlocks
  <2>2. QED
    BY <2>1, Membership
       DEF TxAllowed, NoTx, StartTx, ConfirmTxs, UpdateTxs, CheckNewStartTx, Has
<1>7. BlockApplies(cache, b)
  BY <1>5, <1>6 DEF BlockApplies
<1>8. QED
  BY <1>1, <1>2, <1>7 DEF Connects

\* The invariant holds before the first fluxnode transaction.
LEMMA CacheInvInit == Init => CacheInv
<1> SUFFICES ASSUME Init PROVE CacheInv
  OBVIOUS
<1>1. cache \in Trackers
  BY NullDataType DEF Init, EmptyTrackers, EmptyTracker, Trackers, Tracker
<1>2. DOMAIN chainActive = {}
  BY DEF Init
<1>3. TypeOK
  BY <1>1, <1>2, ChainAssumption DEF Init, TypeOK
<1>4. \A o \in Outpoints : WellFormedAt(cache, nHeight, o)
  BY ZenonT(60) DEF Init, EmptyTrackers, EmptyTracker, WellFormedAt
<1>5. QED
  BY <1>2, <1>3, <1>4, WellFormedPointwise DEF CacheInv

\* Connecting a block keeps the invariant.
LEMMA ConnectTipKeeps ==
  ASSUME CacheInv, NEW b \in AcceptedBlocks(nHeight + 1), ConnectTip(b)
  PROVE  CacheInv'
<1> DEFINE h == nHeight + 1
           kept == {k \in DOMAIN chainActive : k > h - MaxReorgDepth}
                      \cup (IF MaxReorgDepth > 0 THEN {h} ELSE {})
           entry == [block |-> b, undo |-> BlockUndo(cache, b, h), before |-> cache]
<1>1. /\ h <= MaxHeight
      /\ cache' = Connected(cache, b, h)
      /\ spent' = spent \cup b.spends
      /\ nHeight' = h
      /\ chainActive' = [k \in kept |-> IF k = h THEN entry ELSE chainActive[k]]
  BY DEF ConnectTip, Connected
<1>2. /\ nHeight \in Nat /\ spent \subseteq Outpoints
      /\ DOMAIN chainActive \subseteq 1..nHeight
      /\ MaxHeight \in Nat /\ MaxReorgDepth \in Nat
  BY ChainAssumption DEF CacheInv, TypeOK
<1>3. Connects(cache, b, h)
  BY AcceptedConnects
<1>4. /\ cache \in Trackers
      /\ b \in Blocks
      /\ b.spends \subseteq Outpoints
  BY SMTT(60), <1>3 DEF Connects, BlockApplies, Blocks
<1>5. cache' \in Trackers /\ WellFormed(cache', h)
  BY <1>1, <1>3, ConnectKeeps
<1>6. /\ DOMAIN chainActive' = kept
      /\ kept \subseteq 1..h
      /\ \A k \in kept : k # h => k \in DOMAIN chainActive /\ chainActive'[k] = chainActive[k]
      /\ h \in kept => chainActive'[h] = entry
  BY SMTT(60), <1>1, <1>2
<1>7. TypeOK'
  <2>1. \A k \in kept : chainActive'[k].before \in Trackers /\ chainActive'[k].block \in Blocks
    BY SMTT(60), <1>4, <1>6 DEF CacheInv, TypeOK
  <2>2. QED
    BY SMTT(60), <1>1, <1>2, <1>4, <1>5, <1>6, <2>1 DEF TypeOK
<1>8. ASSUME NEW k \in kept
      PROVE  UndoMatches(k)'
  <2>1. CASE k = h
    <3>1. After(k)' = cache'
      BY ZenonT(60), <1>1, <2>1 DEF After
    <3>2. /\ chainActive'[k].before = cache
          /\ chainActive'[k].block = b
          /\ chainActive'[k].undo = BlockUndo(cache, b, h)
      BY SMTT(60), <1>6, <2>1
    <3>3. WellFormed(cache, h - 1) /\ BlockApplies(cache, b)
      BY SMTT(60), <1>3 DEF Connects
    <3>4. QED
      BY ZenonT(60), <1>1, <1>4, <2>1, <3>1, <3>2, <3>3 DEF UndoMatches, Connected
  <2>2. CASE k # h
    <3>1. k \in DOMAIN chainActive /\ chainActive'[k] = chainActive[k]
      BY ZenonT(60), <1>6, <2>2
    <3>2. UndoMatches(k)
      BY ZenonT(60), <3>1 DEF CacheInv
    <3>3. k \in 1..nHeight /\ k > h - MaxReorgDepth /\ MaxReorgDepth > 0
      BY <1>2, <2>2, <3>1
    <3>4. k + 1 \in kept
      BY <1>2, <3>2, <3>3 DEF UndoMatches
    <3>5. chainActive'[k + 1].before = After(k)
      <4>1. CASE k = nHeight
        BY <1>6, <3>4, <4>1 DEF After
      <4>2. CASE k # nHeight
        <5>1. k + 1 # h
          BY SMTT(60), <1>2, <3>3, <4>2
        <5>2. QED
          BY <1>6, <3>4, <4>2, <5>1 DEF After
      <4>3. QED
        BY <4>1, <4>2
    <3>6. After(k)' = After(k)
      BY <1>1, <2>2, <3>5 DEF After
    <3>7. QED
      BY ZenonT(60), <1>6, <3>1, <3>2, <3>4, <3>6 DEF UndoMatches
  <2>3. QED
    BY <2>1, <2>2
<1>9. QED
  BY <1>1, <1>5, <1>6, <1>7, <1>8 DEF CacheInv

\* Disconnecting the tip restores the trackers the block was connected to.
LEMMA DisconnectTipRestores ==
  ASSUME CacheInv, DisconnectTip
  PROVE  cache' = chainActive[nHeight].before
<1> DEFINE e == chainActive[nHeight]
<1>1. nHeight \in DOMAIN chainActive /\ nHeight \in Nat \ {0}
  BY ChainAssumption DEF DisconnectTip, CacheInv, TypeOK
<1>2. UndoMatches(nHeight)
  BY <1>1 DEF CacheInv
<1>3. Connects(e.before, e.block, nHeight)
  BY <1>1, <1>2 DEF UndoMatches, Connects
<1>4. /\ cache = Connected(e.before, e.block, nHeight)
      /\ e.undo = BlockUndo(e.before, e.block, nHeight)
  BY SMTT(60), <1>2 DEF UndoMatches, After, Connected
<1>5. cache' = FlushTrackers(cache, DisconnectCache(cache, e.block, e.undo, nHeight))
  BY DEF DisconnectTip
<1>6. cache' = Disconnected(e.before, e.block, nHeight)
  BY <1>4, <1>5 DEF Disconnected
<1>7. QED
  BY SMTT(60), <1>3, <1>6, RoundTrip

\* Disconnecting the tip keeps the invariant.
LEMMA DisconnectTipKeeps ==
  ASSUME CacheInv, DisconnectTip
  PROVE  CacheInv'
<1> DEFINE e == chainActive[nHeight]
           kept == DOMAIN chainActive \ {nHeight}
<1>1. /\ nHeight \in DOMAIN chainActive
      /\ nHeight \in 0..MaxHeight /\ MaxHeight \in Nat
      /\ DOMAIN chainActive \subseteq 1..nHeight
      /\ spent \subseteq Outpoints
  BY ChainAssumption DEF DisconnectTip, CacheInv, TypeOK
<1>2. /\ nHeight' = nHeight - 1
      /\ spent' = spent \ e.block.spends
      /\ chainActive' = [k \in kept |-> chainActive[k]]
  BY DEF DisconnectTip
<1>3. cache' = e.before
  BY DisconnectTipRestores
<1>4. UndoMatches(nHeight)
  BY <1>1 DEF CacheInv
<1>5. cache' \in Trackers /\ WellFormed(cache', nHeight - 1)
  BY SMTT(60), <1>3, <1>4 DEF UndoMatches
<1>6. /\ DOMAIN chainActive' = kept
      /\ kept \subseteq 1..(nHeight - 1)
      /\ \A k \in kept : chainActive'[k] = chainActive[k]
  BY <1>1, <1>2
<1>7. TypeOK'
  <2>1. \A k \in kept : chainActive'[k].before \in Trackers /\ chainActive'[k].block \in Blocks
    BY <1>6 DEF CacheInv, TypeOK
  <2>2. nHeight - 1 \in 0..MaxHeight
    BY <1>1
  <2>3. QED
    BY <1>1, <1>2, <1>5, <1>6, <2>1, <2>2 DEF TypeOK
<1>8. ASSUME NEW k \in kept
      PROVE  UndoMatches(k)'
  <2>1. UndoMatches(k)
    BY DEF CacheInv
  <2>2. k \in 1..(nHeight - 1) /\ k # nHeight /\ k + 1 \in DOMAIN chainActive
    BY <1>6, <2>1 DEF UndoMatches
  <2>3. k # nHeight' => k + 1 \in kept
    BY <1>1, <1>2, <2>2
  <2>4. After(k)' = After(k)
    <3>1. CASE k = nHeight - 1
      <4>1. k + 1 = nHeight
        BY <1>1, <3>1
      <4>2. QED
        BY <1>2, <1>3, <2>2, <3>1, <4>1 DEF After
    <3>2. CASE k # nHeight - 1
      BY <1>2, <1>6, <2>2, <2>3, <3>2 DEF After
    <3>3. QED
      BY <3>1, <3>2
  <2>5. chainActive'[k] = chainActive[k]
    BY <1>6
  <2>6. QED
    BY <1>6, <2>1, <2>3, <2>4, <2>5 DEF UndoMatches
<1>9. QED
  BY <1>2, <1>5, <1>6, <1>7, <1>8 DEF CacheInv

\* Every step keeps the invariant.
LEMMA CacheInvNext == CacheInv /\ [Next]_vars => CacheInv'
<1> SUFFICES ASSUME CacheInv, [Next]_vars PROVE CacheInv'
  OBVIOUS
<1>1. CASE \E b \in AcceptedBlocks(nHeight + 1) : ConnectTip(b)
  BY <1>1, ConnectTipKeeps
<1>2. CASE DisconnectTip
  BY <1>2, DisconnectTipKeeps
<1>3. CASE LookUpPayees
  BY <1>3 DEF LookUpPayees, CacheInv, TypeOK, UndoMatches, After
<1>4. CASE UNCHANGED vars
  BY <1>4 DEF vars, CacheInv, TypeOK, UndoMatches, After
<1>5. QED
  BY <1>1, <1>2, <1>3, <1>4 DEF Next

\* The trackers are well formed at every height, and every block that can still be
\* disconnected carries the undo data of its own connection.
THEOREM CacheInvariant == Spec => []CacheInv
  BY CacheInvInit, CacheInvNext, PTL DEF Spec

\* The trackers and the chain bookkeeping keep their types.
THEOREM TypeCorrect == Spec => []TypeOK
<1>1. CacheInv => TypeOK
  BY SMTT(60) DEF CacheInv
<1>2. QED
  BY <1>1, CacheInvariant, PTL

\* No collateral is ever in two trackers at once, whatever is connected,
\* disconnected, expired or confirmed.
THEOREM Disjointness == Spec => []TrackersDisjoint
<1>1. CacheInv => TrackersDisjoint
  BY DEF CacheInv, WellFormed, TrackersDisjoint, Started, InDoS, Confirmed
<1>2. QED
  BY <1>1, CacheInvariant, PTL

\* No start, DoS or confirmed entry outlives its deadline.
THEOREM Deadlines == Spec => []DeadlinesKept
<1>1. CacheInv => DeadlinesKept
  BY ZenonT(60) DEF CacheInv, WellFormed, DeadlinesKept
<1>2. QED
  BY <1>1, CacheInvariant, PTL

\* Disconnecting the tip puts the trackers back as they were before its block, at
\* every height and for every chain of reorganisations.
THEOREM Restoration == Spec => DisconnectRestores
<1>1. CacheInv /\ [Next]_vars =>
        [nHeight' < nHeight => cache' = chainActive[nHeight].before]_vars
  <2> SUFFICES ASSUME CacheInv, Next, nHeight' < nHeight
               PROVE  cache' = chainActive[nHeight].before
    OBVIOUS
  <2>1. nHeight \in Nat
    BY ChainAssumption DEF CacheInv, TypeOK
  <2>2. CASE \E b \in AcceptedBlocks(nHeight + 1) : ConnectTip(b)
    BY <2>1, <2>2 DEF ConnectTip
  <2>3. CASE DisconnectTip
    BY <2>3, DisconnectTipRestores
  <2>4. CASE LookUpPayees
    BY <2>1, <2>4 DEF LookUpPayees
  <2>5. QED
    BY <2>2, <2>3, <2>4 DEF Next
<1>2. QED
  BY <1>1, CacheInvariant, PTL DEF Spec, DisconnectRestores
=============================================================================
