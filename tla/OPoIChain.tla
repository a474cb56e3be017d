------------------------------ MODULE OPoIChain ------------------------------
(***************************************************************************)
(* The OPoI cache over the life of a node: ConnectBlock, a block rejected  *)
(* half way (OPoIConnectGuard), DisconnectBlock and RebuildOPoICache at    *)
(* start-up (main.cpp, init.cpp).                                          *)
(*                                                                         *)
(* ledger is what the active chain itself says: the outpoints it spent and *)
(* the payments and rewards its coinbases made.                            *)
(***************************************************************************)
EXTENDS OPoIPayments

CONSTANTS
    Txs,             \* the transactions that may be mined
    MaxBlockTxs,     \* bound on the transactions of a block
    MaxReorg,        \* how many blocks a reorganisation may disconnect
    MaxHeight,       \* bound on the height of the chain
    Beginnings,      \* the chains a run may begin with
    MayReject,       \* blocks may fail after their transactions were applied
    MayRestart,      \* the node may be restarted
    EarlyReveals     \* a response may be revealed in the block after its commit

ASSUME TxsAssumption == Txs \subseteq Tx

\* A cooldown is longer than a reorganisation (1440 against at most 29 blocks).
ASSUME ReorgAssumption == MaxReorg \in Nat /\ MaxReorg < UnstakeCooldown

VARIABLES
    cache,           \* g_opoiCache
    replayed,        \* what RebuildOPoICache makes of the active chain
    height,          \* chainActive.Height()
    blocks,          \* the last MaxReorg blocks of chainActive
    ledger

vars == <<cache, replayed, height, blocks, ledger>>

\* MaxBlockTxs stays below the caps of CheckOPoIBlockCaps (3 requests, 5 responses).
Blocks == UNION {[1 .. n -> Txs] : n \in 0 .. MaxBlockTxs}

EmptyLedger == [spent |-> {}, payouts |-> << >>, rewards |-> << >>, treasury |-> 0]

\* What the coinbase must pay is decided on the cache before the block.
LedgerAfter(c, led, txs, outs, h) ==
    [spent    |-> led.spent \cup {tx.collateral : tx \in {t \in ToSet(txs) : t.type = "SPEND"}},
     payouts  |-> led.payouts \o CheckOPoIPayments(c, txs, h),
     rewards  |-> led.rewards \o SelectSeq(DueRewards(c, txs), LAMBDA p : p \in outs),
     treasury |-> led.treasury + TreasuryReward(c, txs)]

CacheAfter(c, txs, h) == BlockTransitions(ApplyTxs(c, txs, h, h - 1), txs, h)

PrefixBlock(s, txs) ==
    LET h == s.height + 1
    IN  [height |-> h, cache |-> CacheAfter(s.cache, txs, h),
         replayed |-> ReplayBlock(s.replayed, txs, h), ledger |-> LedgerAfter(s.cache, s.ledger, txs, {}, h)]

AfterPrefix(prefix) ==
    FoldLeft(PrefixBlock,
             [height |-> 0, cache |-> EmptyCache, replayed |-> EmptyCache, ledger |-> EmptyLedger],
             prefix)

Init ==
    \E start \in {AfterPrefix(prefix) : prefix \in Beginnings} :
        /\ cache = start.cache
        /\ replayed = start.replayed
        /\ height = start.height
        /\ ledger = start.ledger
        /\ blocks = << >>

Acceptable(txs) ==
    /\ CheckBlock(cache, txs)
    /\ CoinsExist(txs, ledger.spent)
    /\ LocksRespected(cache, txs, height + 1)

\* A response revealed in the block after its commit comes too early for the
\* sortition, whose seed is the hash of that very block.
FindsSeed(txs) ==
    \A i \in DOMAIN txs : txs[i].type = "RESPONSE_REVEAL" =>
        cache.mapResponseCommits[<<txs[i].request, txs[i].miner>>].height < height

ConnectBlock(txs) ==
    /\ height < MaxHeight
    /\ Acceptable(txs)
    /\ EarlyReveals \/ FindsSeed(txs)
    /\ height' = height + 1
    /\ cache' = CacheAfter(cache, txs, height + 1)
    /\ replayed' = ReplayBlock(replayed, txs, height + 1)
    /\ \E outs \in SUBSET ToSet(DueRewards(cache, txs)) :
          /\ CheckOPoIChallengerRewards(cache, txs, outs)
          /\ ledger' = LedgerAfter(cache, ledger, txs, outs, height + 1)
    /\ blocks' = LET all == Append(blocks, [txs |-> txs, replayed |-> replayed, ledger |-> ledger])
                 IN  SubSeq(all, Len(all) - (IF Len(all) < MaxReorg THEN Len(all) ELSE MaxReorg) + 1,
                            Len(all))

\* A block fails at its last transaction, which is applied before the coin of
\* a STAKE is looked up, or at a check that follows the transactions.
MayFailAfter(txs) == txs # << >> /\ CheckBlock(cache, txs) /\ Acceptable(Front(txs))

\* OPoIConnectGuard undoes what was applied.
Undone(txs) == UndoTxs(ApplyTxs(cache, txs, height + 1, height), txs)

RejectBlock(txs) ==
    /\ MayReject
    /\ height < MaxHeight
    /\ MayFailAfter(txs)
    /\ cache' = Undone(txs)
    /\ UNCHANGED <<replayed, height, blocks, ledger>>

\* Mutant: only the locks are undone.
MutDisconnectBlock ==
    /\ blocks # << >>
    /\ height' = height - 1
    /\ cache' = [cache EXCEPT !.mapLockedUTXOs = UndoTxs(cache, Last(blocks).txs).mapLockedUTXOs]
    /\ replayed' = Last(blocks).replayed
    /\ ledger' = Last(blocks).ledger
    /\ blocks' = Front(blocks)

\* The transitions at the end of the block are not reversed.
DisconnectBlock ==
    /\ blocks # << >>
    /\ height' = height - 1
    /\ cache' = UndoTxs(cache, Last(blocks).txs)
    /\ replayed' = Last(blocks).replayed
    /\ ledger' = Last(blocks).ledger
    /\ blocks' = Front(blocks)

\* Start-up rebuilds the cache, which is never written to disk.
RebuildOPoICache ==
    /\ MayRestart
    /\ cache' = replayed
    /\ UNCHANGED <<replayed, height, blocks, ledger>>

\* The miner has its block checked: ConnectBlock with fJustCheck leaves the cache
\* alone, and so sees no lock that the block itself would make.
TestBlockValidity(txs) ==
    /\ CheckBlock(cache, txs)
    /\ CoinsExist(txs, ledger.spent)
    /\ \A i \in DOMAIN txs : txs[i].type = "SPEND" => txs[i].collateral \notin cache.mapLockedUTXOs
    /\ UNCHANGED vars

Next ==
    \/ \E txs \in Blocks : ConnectBlock(txs)
    \/ \E txs \in Blocks : RejectBlock(txs)
    \/ \E txs \in Blocks : TestBlockValidity(txs)
    \/ DisconnectBlock
    \/ RebuildOPoICache

Spec == Init /\ [][Next]_vars

-----------------------------------------------------------------------------
(* The types of the maps of the cache and of the ledger.  That responsesTotal is a
   natural number rests on its initialisation in the STAKE branch of
   ProcessOPoITransaction. *)
TypeOK ==
    /\ IsCache(cache)
    /\ IsCache(replayed)
    /\ height \in Nat
    /\ Len(blocks) <= MaxReorg
    /\ ledger.spent \subseteq Utxos
    /\ IsMap(ledger.payouts, Nat, [request : Requests, payee : Miners])
    /\ IsMap(ledger.rewards, Nat, [request : Requests, payee : Challengers])
    /\ ledger.treasury \in Nat

\* What is at stake: the collateral of stakes that are neither released nor
\* replaced, of challenges that did not end in the challenger's favour, and of
\* votes that are undecided or in the minority.
Liable(c) ==
         {[by |-> m, coin |-> c.mapStakes[m].collateralIn] :
             m \in {n \in DOMAIN c.mapStakes : c.mapStakes[n].stakeStatus # "RELEASED"}}
    \cup {[by |-> r, coin |-> c.mapChallenges[r].challengerCollateral] :
             r \in {q \in DOMAIN c.mapChallenges :
                      c.mapChallenges[q].challengeStatus \notin {"SLASHED", "RESOLVED_NO_ORACLE"}}}
    \cup {[by |-> <<r, a>>, coin |-> c.mapAuditorVerifications[r][a].auditorCollateral] :
             <<r, a>> \in {v \in Requests \X Auditors :
                             /\ v[2] \in DOMAIN c.mapAuditorVerifications[v[1]]
                             /\ c.mapAuditorVerifications[v[1]][v[2]].status # "COMPLETE"}}

(* Whatever is at stake is locked, and no coin answers for two things: what
   LockUTXO, UnlockUTXO and the checks of the collaterals are there for. *)
LockedWhileAtStake ==
    /\ \A x \in Liable(cache) : x.coin \in cache.mapLockedUTXOs
    /\ \A x, y \in Liable(cache) : x.coin = y.coin => x.by = y.by

(* A coin that backs a stake is not spent: ConnectBlock looks every input up
   in mapLockedUTXOs, and asks that the coin of a STAKE exists. *)
UnspentWhileStaked ==
    \A m \in DOMAIN cache.mapStakes :
        cache.mapStakes[m].stakeStatus # "RELEASED" =>
            cache.mapStakes[m].collateralIn \notin ledger.spent

(* No stake outlives its deadlines: ProcessExpiredChallenges releases it when
   its cooldown is over, ProcessStakeRenewals suspends it when it is overdue. *)
DeadlinesKept ==
    \A m \in DOMAIN cache.mapStakes :
        LET stake == cache.mapStakes[m]
        IN  /\ stake.stakeStatus = "UNSTAKING" => height - stake.unstakeHeight < UnstakeCooldown
            /\ stake.stakeStatus = "ACTIVE" =>
                  \/ height - stake.blockHeight < RenewalBlocks
                  \/ height - stake.lastRenewalHeight < RenewalBlocks

(* A stake that was active is suspended only because its renewal is overdue or
   it has all its canary strikes. *)
SuspendedForCause ==
    [][\A m \in DOMAIN cache.mapStakes \cap DOMAIN cache'.mapStakes :
         LET stake == cache'.mapStakes[m]
         IN  cache.mapStakes[m].stakeStatus = "ACTIVE" /\ stake.stakeStatus = "SUSPENDED" =>
               \/ stake.canaryStrikes >= MaxCanaryStrikes
               \/ /\ height' - stake.blockHeight >= RenewalBlocks
                  /\ height' - stake.lastRenewalHeight >= RenewalBlocks]_vars

(* Once an answer to a request is public nobody commits to another: the window
   closes for everyone at once, before the first reveal (F10-B). *)
CommitsPrecedeReveals ==
    [][\A r \in DOMAIN cache.mapRequests, m \in Miners :
         cache.mapRequests[r].responseReveals # {} /\ <<r, m>> \in DOMAIN cache'.mapResponseCommits =>
             /\ <<r, m>> \in DOMAIN cache.mapResponseCommits
             /\ cache.mapResponseCommits[<<r, m>>] = cache'.mapResponseCommits[<<r, m>>]]_vars

Paid(p) == \E i \in DOMAIN ledger.payouts : ledger.payouts[i] = p

(* No coinbase pays a miner again for a request it was paid for. *)
PaidAtMostOnce == IsInjective(ledger.payouts)

(* Past the deadline of the sampled response that is on record, its request is
   settled: one of its responders was paid, or the auditors have a majority that
   is not PASS (GetAuditSampledOpenPaymentsForBlock pays on a PASS, and on the
   timeout when there is no majority).  Several miners may answer one request: the
   record, the votes and the paid mark are those of the request, so that a responder
   whose record was replaced, or who came after the payment, gets nothing. *)
SampledIsSettled ==
    \A r \in DOMAIN cache.mapResponses :
        cache.mapResponses[r].auditSelected /\ height > cache.mapResponses[r].auditDeadline =>
            \/ \E m \in Miners : Paid(Payment(r, m))
            \/ GetAuditorMajorityResult(cache, r) \in {"FAIL", "TIMEOUT"}

(* A response that is marked paid was paid: ProcessVerifiableResponsePayments
   and ProcessAuditSampledOpenResponsePayments mark what CheckOPoIPayments
   found in the coinbase. This needs the votes to follow the answer: one that
   finds a PASS quorum waiting is marked by its own block, which does not pay it. *)
MarkedPaidWasPaid ==
    \A r \in cache.setPaidResponses : \E m \in Miners : Paid(Payment(r, m))

\* The verdict of a request was FAIL when ProcessAuditorVerifications resolved it: the
\* votes of the majority were completed then, and later votes stay pending.
ResolvedFail(r) ==
    /\ r \in cache.setResolvedAuditorVerifications
    /\ \E a \in DOMAIN cache.mapAuditorVerifications[r] :
          /\ cache.mapAuditorVerifications[r][a].status = "COMPLETE"
          /\ cache.mapAuditorVerifications[r][a].result = "FAIL"

(* Once the auditors of a response have failed it no block pays for it. *)
FailNeverPaid ==
    [][\A r \in Requests : ResolvedFail(r) =>
           \A i \in DOMAIN ledger'.payouts \ DOMAIN ledger.payouts :
               ledger'.payouts[i].request # r]_vars

(* A reward that is marked paid was paid, once: ProcessChallengerRewardPayments
   marks what CheckOPoIChallengerRewards found in the coinbase. *)
RewardedIffMarked ==
    /\ IsInjective(ledger.rewards)
    /\ {ledger.rewards[i].request : i \in DOMAIN ledger.rewards} = cache.setPaidChallengerRewards

(* A stake is slashed only when a challenge of a response of its miner is
   proven: it was revealed and the auditors failed the response. *)
SlashedIsProven ==
    [][\A m \in DOMAIN cache.mapStakes \cap DOMAIN cache'.mapStakes :
         cache.mapStakes[m].stakeStatus # "SLASHED" /\ cache'.mapStakes[m].stakeStatus = "SLASHED" =>
               \E r \in DOMAIN cache'.mapChallenges \cap DOMAIN cache'.mapResponses :
                   /\ cache'.mapChallenges[r].challengeStatus = "SLASHED"
                   /\ cache'.mapResponses[r].minerAddress = m
                   /\ GetAuditorMajorityResult(cache', r) = "FAIL"]_vars

(* A transaction that meets no earlier record of its kind. *)
Fresh(tx) ==
    CASE tx.type = "STAKE"           -> tx.miner \notin DOMAIN cache.mapStakes
      [] tx.type = "RESPONSE_COMMIT" -> <<tx.request, tx.miner>> \notin DOMAIN cache.mapResponseCommits
      [] tx.type = "RESPONSE_REVEAL" -> tx.request \notin DOMAIN cache.mapResponses
      [] tx.type = "CHALLENGE_COMMIT" -> tx.request \notin DOMAIN cache.mapChallenges
      [] tx.type = "CHALLENGE_REVEAL" ->
            IsActiveStaker(cache, cache.mapResponses[tx.request].minerAddress)
      [] tx.type = "AUDITOR_VERIFY"  ->
            /\ tx.auditor \notin DOMAIN cache.mapAuditorVerifications[tx.request]
            /\ tx.request \notin cache.setResolvedAuditorVerifications
      [] OTHER                       -> tx.type # "RENEW"

(* A block of such transactions that is rejected leaves no trace: the undo
   branch of ProcessOPoITransaction inverts its apply branch. *)
UndoInvertsApply ==
    \A txs \in Blocks : MayFailAfter(txs) /\ (\A i \in DOMAIN txs : Fresh(txs[i])) =>
        Undone(txs) = cache

(* What RebuildOPoICache makes of the chain at start-up is what connecting its
   blocks made of it: a node that restarts agrees with one that did not. *)
RebuildAgrees == cache = replayed
=============================================================================
