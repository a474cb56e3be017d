---------------------------- MODULE OPoIPayments ----------------------------
(***************************************************************************)
(* What a coinbase owes to responders and challengers (CheckOPoIPayments,  *)
(* CheckOPoIChallengerRewards), the marks that keep a payment from being   *)
(* made twice, and the whole effect of a block on the OPoI cache.          *)
(*                                                                         *)
(* A block is a sequence of transactions.  Besides the OPoI transactions   *)
(* it may hold ordinary ones, of which only the outpoint they spend        *)
(* matters here.                                                           *)
(***************************************************************************)
EXTENDS OPoICache, SequencesExt

CONSTANT RequestOrder    \* the requests in the order of their ids

Tx == OPoITx \cup [type : {"SPEND"}, collateral : Utxos]

\* Mutant: the votes of the block itself do not count.
MutWithBlockVotes(c, txs, r) == c.mapAuditorVerifications[r]

\* The votes of the cache and, for auditors it has no vote of, those in txs.
WithBlockVotes(c, txs, r) ==
    LET cached == c.mapAuditorVerifications[r]
        VotesOf(a) == SelectSeq(txs, LAMBDA tx : /\ tx.type = "AUDITOR_VERIFY"
                                                 /\ tx.request = r
                                                 /\ tx.auditor = a)
        voters == {a \in Auditors : VotesOf(a) # << >>}
    IN  cached @@ [a \in voters |-> [result |-> Head(VotesOf(a)).result]]

GetVerifiablePaymentsForBlock(c, txs) ==
    SelectSeq(RequestOrder, LAMBDA r :
        /\ r \in Verifiable \cap DOMAIN c.mapResponses \cap DOMAIN c.mapRequests
        /\ r \notin c.setPaidResponses
        /\ ComputeAuditorMajority(WithBlockVotes(c, txs, r)) = "PASS")

\* Mutant: no payment on the timeout.
MutNoTimeout(c, txs, h) ==
    SelectSeq(RequestOrder, LAMBDA r :
        /\ r \in (DOMAIN c.mapResponses \cap DOMAIN c.mapRequests) \ Verifiable
        /\ c.mapResponses[r].auditSelected
        /\ r \notin c.setPaidResponses
        /\ ComputeAuditorMajority(WithBlockVotes(c, txs, r)) = "PASS")

GetAuditSampledOpenPaymentsForBlock(c, txs, h) ==
    LET Payable(r) ==
            LET majority == ComputeAuditorMajority(WithBlockVotes(c, txs, r))
            IN  \/ majority = "PASS"
                \/ majority = "NONE" /\ h > c.mapResponses[r].auditDeadline
    IN  SelectSeq(RequestOrder, LAMBDA r :
            /\ r \in (DOMAIN c.mapResponses \cap DOMAIN c.mapRequests) \ Verifiable
            /\ c.mapResponses[r].auditSelected
            /\ r \notin c.setPaidResponses
            /\ Payable(r))

\* The reveals of open requests that the audit sortition does not draw.
DirectPayments(c, txs, h) ==
    SelectSeq(txs, LAMBDA tx :
        /\ tx.type = "RESPONSE_REVEAL"
        /\ tx.request \in DOMAIN c.mapRequests \ Verifiable
        /\ ~EvaluateOPoIAuditSample(c, tx.request, tx.miner, h - 1))

Payment(r, m) == [request |-> r, payee |-> m]

First(s, n) == SubSeq(s, 1, IF Len(s) < n THEN Len(s) ELSE n)

\* The payments a coinbase must hold; those beyond the budget are skipped.
CheckOPoIPayments(c, txs, h) ==
    LET direct == DirectPayments(c, txs, h)
        deferred == GetVerifiablePaymentsForBlock(c, txs)
                    \o GetAuditSampledOpenPaymentsForBlock(c, txs, h)
    IN  First([i \in DOMAIN direct |-> Payment(direct[i].request, direct[i].miner)]
              \o [i \in DOMAIN deferred |->
                     Payment(deferred[i], c.mapResponses[deferred[i]].minerAddress)],
              Budget)

\* The proven challenges without a reward: those the cache already has, and
\* those a reveal in txs proves because the verdict was there before the block.
GetChallengerRewardsAtHeight(c, txs) ==
    LET Rewardable(r) ==
            /\ r \notin c.setPaidChallengerRewards
            /\ r \in DOMAIN c.mapResponses
            /\ c.mapResponses[r].minerAddress \in DOMAIN c.mapStakes
        proven == SelectSeq(RequestOrder, LAMBDA r :
                      /\ r \in DOMAIN c.mapChallenges
                      /\ c.mapChallenges[r].challengeStatus = "SLASHED"
                      /\ Rewardable(r))
        revealed == SelectSeq(txs, LAMBDA tx :
                      /\ tx.type = "CHALLENGE_REVEAL"
                      /\ IsOpen(c, tx.request)
                      /\ tx.request \in Verifiable \cap DOMAIN c.mapRequests
                      /\ GetAuditorMajorityResult(c, tx.request) = "FAIL"
                      /\ Rewardable(tx.request))
    IN  [i \in DOMAIN proven |-> Payment(proven[i], c.mapChallenges[proven[i]].challengerAddress)]
        \o [i \in DOMAIN revealed |-> Payment(revealed[i].request, revealed[i].challenger)]

\* The rewards a coinbase is asked for; those it has no room for are skipped.
DueRewards(c, txs) == First(GetChallengerRewardsAtHeight(c, txs), RewardsFit)

\* outs are the rewards the coinbase has an output for.  The output found for a reward
\* is not set aside, so one output does for all the rewards of a challenger.
CheckOPoIChallengerRewards(c, txs, outs) ==
    \A p \in ToSet(DueRewards(c, txs)) : \E q \in outs : q.payee = p.payee

\* The treasury gets the other half of every slashed stake, those whose challenger was
\* skipped included, in one output or, when that has no room, not at all.
TreasuryReward(c, txs) ==
    LET halves == Len(GetChallengerRewardsAtHeight(c, txs))
    IN  IF Len(DueRewards(c, txs)) + halves <= RewardsFit THEN halves ELSE 0

ProcessChallengerRewardPayments(c, txs) ==
    [c EXCEPT !.setPaidChallengerRewards =
        @ \cup {p.request : p \in ToSet(GetChallengerRewardsAtHeight(c, txs))}]

ProcessVerifiableResponsePayments(c, txs) ==
    [c EXCEPT !.setPaidResponses = @ \cup ToSet(GetVerifiablePaymentsForBlock(c, txs))]

ProcessAuditSampledOpenResponsePayments(c, txs, h) ==
    [c EXCEPT !.setPaidResponses = @ \cup ToSet(GetAuditSampledOpenPaymentsForBlock(c, txs, h))]

-----------------------------------------------------------------------------
(* A block. *)

\* CheckBlock checks every transaction against the cache before the block.
CheckBlock(c, txs) ==
    \A i \in DOMAIN txs : txs[i].type # "SPEND" => CheckOPoITransaction(c, txs[i])

ApplyTxs(c, txs, h, tip) ==
    FoldLeft(LAMBDA acc, tx : ApplyOPoITransaction(acc, tx, h, tip), c, txs)

UndoTxs(c, txs) ==
    FoldLeft(LAMBDA acc, tx : UndoOPoITransaction(acc, tx), c, Reverse(txs))

\* Spent outputs cannot be spent again, nor serve as the collateral of a stake.
CoinsExist(txs, spent) ==
    \A i \in DOMAIN txs :
        LET earlier == {t \in ToSet(SubSeq(txs, 1, i - 1)) : t.type = "SPEND"}
        IN  txs[i].type \in {"SPEND", "STAKE"} =>
                txs[i].collateral \notin spent \cup {t.collateral : t \in earlier}

\* Mutant: the locks are not looked at.
MutLocksRespected(c, txs, h) == TRUE

\* No input is locked when its turn comes: the transactions before it have been
\* applied by then.
LocksRespected(c, txs, h) ==
    \A i \in DOMAIN txs : txs[i].type = "SPEND" =>
        txs[i].collateral \notin ApplyTxs(c, SubSeq(txs, 1, i - 1), h, h - 1).mapLockedUTXOs

\* The transitions RebuildOPoICache makes after the transactions of a block.
ReplayTransitions(c, txs, h) ==
    LET c1 == ProcessExpiredChallenges(c, h)
        c2 == ProcessExpiredRequests(c1, h)
        c3 == ProcessResponseCommitWindows(c2, h)
        c4 == ProcessStakeRenewals(c3, h)
        c5 == ProcessCanaryAudits(c4, h)
        c6 == ProcessVerifiableResponsePayments(c5, txs)
        c7 == ProcessAuditSampledOpenResponsePayments(c6, txs, h)
    IN  ProcessAuditorVerifications(c7)

\* ConnectBlock marks the rewards of the challengers before them.
BlockTransitions(c, txs, h) ==
    ReplayTransitions(ProcessChallengerRewardPayments(c, txs), txs, h)

\* One block of the replay.  chainActive holds the whole chain by then.
ReplayBlock(c, txs, h) == ReplayTransitions(ApplyTxs(c, txs, h, h), txs, h)
=============================================================================
