------------------------------ MODULE OPoICache ------------------------------
(***************************************************************************)
(* g_opoiCache (opoi/opoi.h, opoi/opoi.cpp): the state of the optimistic   *)
(* proof of inference, and what a transaction and a block do to it.        *)
(*                                                                         *)
(* A std::map is a function on the keys it holds.  Every transaction       *)
(* record stands for a transaction of its own: redelivery of one that was  *)
(* applied is refused like a conflicting one, so transaction hashes and    *)
(* mapLockingTxHash are left out, and so are signatures, proofs of the     *)
(* VRF, model names, token counts and the reputation counters that only    *)
(* the RPC interface reads.  Every payment is of one unit.                 *)
(***************************************************************************)
EXTENDS Integers, Sequences, FiniteSets, Functions, TLC

CONSTANTS
    Requests, Miners, Challengers, Auditors,
    Utxos,               \* outpoints that may serve as collateral
    Answers,             \* what a response commits to and reveals
    Verifiable,          \* the requests of task type OPOI_TASK_VERIFIABLE
    Canary,              \* those of them flagged opoiIsCanary
    MinerOrder,          \* the miners in the order of their address strings
    SampledNew,          \* pairs the audit sortition draws at the new miner rate
    SampledOld,          \* pairs it draws at the normal rate
    NewMinerResponses,   \* nOPoIAuditSampleNewMinerResponseCount (5)
    MinAuditors,         \* nOPoIMinAuditors (3; 1 on regtest)
    CommitWindow,        \* nOPoIResponseCommitWindowBlocks (144)
    RequestExpiry,       \* nOPoIRequestExpiryBlocks (2016)
    RevealWindow,        \* nOPoIChallengeCommitRevealBlocks (144)
    UnstakeCooldown,     \* nOPoIUnstakeCooldownBlocks (1440)
    RenewalBlocks,       \* nOPoIStakeRenewalBlocks (20160)
    CanaryFrequency,     \* nOPoICanaryAuditFrequency (1000)
    CanaryWindow,        \* nOPoICanaryResponseWindow (200)
    AuditWindow,         \* nOPoIAuditWindowBlocks (200)
    MaxCanaryStrikes,    \* OPOI_MAX_CANARY_STRIKES (3)
    Budget,              \* payments that fit in the OPoI share of the subsidy
    RewardsFit,          \* halves of a stake that fit in the coinbase
    HeightSpace          \* the range of uint32_t (2^32), cut down for TLC

ASSUME RequestsAssumption == Canary \subseteq Verifiable /\ Verifiable \subseteq Requests

ASSUME SamplesAssumption == SampledOld \subseteq SampledNew

ASSUME WindowsAssumption ==
    /\ {CommitWindow, RequestExpiry, RevealWindow, UnstakeCooldown, RenewalBlocks,
        CanaryFrequency, CanaryWindow, AuditWindow, MinAuditors} \subseteq Nat \ {0}
    /\ {CommitWindow, RenewalBlocks} \subseteq 1 .. HeightSpace - 1

Results == {"PASS", "FAIL", "TIMEOUT"}

OPoITx ==
         [type : {"REQUEST"}, request : Requests]
    \cup [type : {"RESPONSE_COMMIT", "RESPONSE_REVEAL"},
          request : Requests, miner : Miners, answer : Answers]
    \cup [type : {"STAKE"}, miner : Miners, collateral : Utxos]
    \cup [type : {"UNSTAKE", "RENEW"}, miner : Miners]
    \cup [type : {"CHALLENGE_COMMIT"},
          request : Requests, challenger : Challengers, collateral : Utxos]
    \cup [type : {"CHALLENGE_REVEAL"}, request : Requests, challenger : Challengers]
    \cup [type : {"AUDITOR_VERIFY"}, request : Requests, auditor : Auditors,
          result : Results, collateral : Utxos]

OPoIRequest ==
    [blockHeight : Nat, status : {"PENDING", "FULFILLED", "EXPIRED"},
     commitWindowClosed : BOOLEAN, responseReveals : SUBSET Miners]

OPoIResponse ==
    [minerAddress : Miners, answer : Answers, auditSelected : BOOLEAN, auditDeadline : Nat]

OPoIStake ==
    [collateralIn : Utxos, blockHeight : Nat, lastRenewalHeight : Nat, unstakeHeight : Nat,
     stakeStatus : {"ACTIVE", "UNSTAKING", "RELEASED", "SLASHED", "SUSPENDED"},
     responsesTotal : Nat, canaryStrikes : Nat, canaryObligationDeadline : Nat]

OPoIChallenge ==
    [challengerAddress : Challengers, challengerCollateral : Utxos, commitHeight : Nat,
     challengeStatus : {"OPEN", "SLASHED", "EXPIRED", "REVEALED_PENDING", "RESOLVED_NO_ORACLE"}]

AuditorVerification ==
    [result : Results, auditorCollateral : Utxos, status : {"PENDING", "COMPLETE", "SLASHED"}]

\* A map from keys in S to values in T.
IsMap(f, S, T) == DOMAIN f \subseteq S /\ \A k \in DOMAIN f : f[k] \in T

IsCache(c) ==
    /\ IsMap(c.mapRequests, Requests, OPoIRequest)
    /\ IsMap(c.mapResponseCommits, Requests \X Miners, [answer : Answers, height : Nat])
    /\ IsMap(c.mapResponses, Requests, OPoIResponse)
    /\ IsMap(c.mapStakes, Miners, OPoIStake)
    /\ IsMap(c.mapChallenges, Requests, OPoIChallenge)
    /\ DOMAIN c.mapAuditorVerifications = Requests
    /\ \A r \in Requests : IsMap(c.mapAuditorVerifications[r], Auditors, AuditorVerification)
    /\ c.setResolvedAuditorVerifications \subseteq Requests
    /\ c.setPaidResponses \subseteq Requests
    /\ c.setPaidChallengerRewards \subseteq Requests
    /\ c.mapLockedUTXOs \subseteq Utxos

\* OPoICache::SetNull
EmptyCache ==
    [mapRequests                     |-> << >>,
     mapResponseCommits              |-> << >>,
     mapResponses                    |-> << >>,
     mapStakes                       |-> << >>,
     mapChallenges                   |-> << >>,
     mapAuditorVerifications         |-> [r \in Requests |-> << >>],
     setResolvedAuditorVerifications |-> {},
     setPaidResponses                |-> {},
     setPaidChallengerRewards        |-> {},
     mapLockedUTXOs                  |-> {}]

Erase(f, k) == Restrict(f, DOMAIN f \ {k})

-----------------------------------------------------------------------------
(* What the checks and the payments read. *)

HasStatus(c, m, statuses) ==
    m \in DOMAIN c.mapStakes /\ c.mapStakes[m].stakeStatus \in statuses

IsActiveStaker(c, m) == HasStatus(c, m, {"ACTIVE"})

IsOpen(c, r) ==
    r \in DOMAIN c.mapChallenges /\ c.mapChallenges[r].challengeStatus = "OPEN"

\* verifs maps an auditor to its vote; "NONE" is the -1 of the code.
ComputeAuditorMajority(verifs) ==
    LET revealed == Cardinality(DOMAIN verifs)
        Wins(res) ==
            Cardinality({a \in DOMAIN verifs : verifs[a].result = res}) > revealed \div 2
    IN  IF revealed >= MinAuditors /\ \E res \in Results : Wins(res)
        THEN CHOOSE res \in Results : Wins(res)
        ELSE "NONE"

GetAuditorMajorityResult(c, r) == ComputeAuditorMajority(c.mapAuditorVerifications[r])

\* The seed is the hash of the block after the commit: tip is the height of
\* chainActive when the sample is evaluated.
EvaluateOPoIAuditSample(c, r, m, tip) ==
    /\ r \in DOMAIN c.mapRequests
    /\ r \notin Verifiable
    /\ <<r, m>> \in DOMAIN c.mapResponseCommits
    /\ c.mapResponseCommits[<<r, m>>].height + 1 <= tip
    /\ LET soFar == IF m \in DOMAIN c.mapStakes THEN c.mapStakes[m].responsesTotal ELSE 0
       IN  <<r, m>> \in IF soFar < NewMinerResponses THEN SampledNew ELSE SampledOld

-----------------------------------------------------------------------------
(* CheckOPoITransaction: what a transaction needs of the cache. *)

CheckRequest(c, tx) == tx.request \notin DOMAIN c.mapRequests

\* Mutant: the commit window never closes.
MutCheckResponseCommit(c, tx) ==
    /\ IsActiveStaker(c, tx.miner)
    /\ tx.request \in DOMAIN c.mapRequests => c.mapRequests[tx.request].status # "EXPIRED"

CheckResponseCommit(c, tx) ==
    /\ IsActiveStaker(c, tx.miner)
    /\ tx.request \in DOMAIN c.mapRequests =>
          /\ c.mapRequests[tx.request].status # "EXPIRED"
          /\ ~c.mapRequests[tx.request].commitWindowClosed

\* Mutant: a miner may reveal again.
MutCheckResponseReveal(c, tx) ==
    /\ IsActiveStaker(c, tx.miner)
    /\ tx.request \in DOMAIN c.mapRequests
    /\ LET req == c.mapRequests[tx.request]
           key == <<tx.request, tx.miner>>
       IN  /\ req.status # "EXPIRED"
           /\ req.commitWindowClosed
           /\ key \in DOMAIN c.mapResponseCommits
           /\ c.mapResponseCommits[key].answer = tx.answer

CheckResponseReveal(c, tx) ==
    /\ IsActiveStaker(c, tx.miner)
    /\ tx.request \in DOMAIN c.mapRequests
    /\ LET req == c.mapRequests[tx.request]
           key == <<tx.request, tx.miner>>
       IN  /\ req.status # "EXPIRED"
           /\ req.commitWindowClosed
           /\ tx.miner \notin req.responseReveals
           /\ key \in DOMAIN c.mapResponseCommits
           /\ c.mapResponseCommits[key].answer = tx.answer

\* Mutant: the lock of the collateral is not looked at.
MutCheckStake(c, tx) == TRUE

CheckStake(c, tx) == tx.collateral \notin c.mapLockedUTXOs

\* Mutant: the lock of the collateral is not looked at.
MutCheckChallengeCommit(c, tx) == tx.request \in DOMAIN c.mapResponses /\ ~IsOpen(c, tx.request)

CheckChallengeCommit(c, tx) ==
    /\ tx.request \in DOMAIN c.mapResponses
    /\ tx.collateral \notin c.mapLockedUTXOs
    /\ ~IsOpen(c, tx.request)

CheckChallengeReveal(c, tx) ==
    /\ tx.request \in DOMAIN c.mapResponses
    /\ IsOpen(c, tx.request)
    /\ c.mapChallenges[tx.request].challengerAddress = tx.challenger

CheckAuditorVerify(c, tx) ==
    /\ tx.request \in DOMAIN c.mapRequests
    /\ tx.request \notin Verifiable =>
          tx.request \in DOMAIN c.mapResponses /\ c.mapResponses[tx.request].auditSelected
    /\ tx.collateral \notin c.mapLockedUTXOs

CheckOPoITransaction(c, tx) ==
    CASE tx.type = "REQUEST"          -> CheckRequest(c, tx)
      [] tx.type = "RESPONSE_COMMIT"  -> CheckResponseCommit(c, tx)
      [] tx.type = "RESPONSE_REVEAL"  -> CheckResponseReveal(c, tx)
      [] tx.type = "STAKE"            -> CheckStake(c, tx)
      [] tx.type = "UNSTAKE"          -> IsActiveStaker(c, tx.miner)
      [] tx.type = "RENEW"            -> HasStatus(c, tx.miner, {"ACTIVE", "SUSPENDED"})
      [] tx.type = "CHALLENGE_COMMIT" -> CheckChallengeCommit(c, tx)
      [] tx.type = "CHALLENGE_REVEAL" -> CheckChallengeReveal(c, tx)
      [] tx.type = "AUDITOR_VERIFY"   -> CheckAuditorVerify(c, tx)

-----------------------------------------------------------------------------
(* ProcessOPoITransaction, fUndo = false. *)

ApplyRequest(c, tx, h) ==
    [c EXCEPT !.mapRequests =
        (tx.request :> [blockHeight |-> h, status |-> "PENDING",
                        commitWindowClosed |-> FALSE, responseReveals |-> {}]) @@ @]

ApplyResponseCommit(c, tx, h) ==
    [c EXCEPT !.mapResponseCommits =
        (<<tx.request, tx.miner>> :> [answer |-> tx.answer, height |-> h]) @@ @]

\* The sample is evaluated before responsesTotal counts this response.
ApplyResponseReveal(c, tx, h, tip) ==
    LET selected == EvaluateOPoIAuditSample(c, tx.request, tx.miner, tip)
        resp == [minerAddress |-> tx.miner, answer |-> tx.answer, auditSelected |-> selected,
                 auditDeadline |-> IF selected THEN h + AuditWindow ELSE 0]
    IN  [c EXCEPT !.mapResponses = (tx.request :> resp) @@ @,
                  !.mapRequests[tx.request].status = "FULFILLED",
                  !.mapRequests[tx.request].responseReveals = @ \cup {tx.miner},
                  !.mapStakes[tx.miner].responsesTotal = @ + 1]

\* Mutant: responsesTotal is left uninitialized.
MutApplyStake(c, tx, h) ==
    [c EXCEPT !.mapStakes =
        (tx.miner :> [collateralIn |-> tx.collateral, blockHeight |-> h,
                      lastRenewalHeight |-> 0, unstakeHeight |-> 0, stakeStatus |-> "ACTIVE",
                      responsesTotal |-> -1, canaryStrikes |-> 0,
                      canaryObligationDeadline |-> 0]) @@ @,
              !.mapLockedUTXOs = @ \cup {tx.collateral}]

ApplyStake(c, tx, h) ==
    [c EXCEPT !.mapStakes =
        (tx.miner :> [collateralIn |-> tx.collateral, blockHeight |-> h,
                      lastRenewalHeight |-> 0, unstakeHeight |-> 0, stakeStatus |-> "ACTIVE",
                      responsesTotal |-> 0, canaryStrikes |-> 0,
                      canaryObligationDeadline |-> 0]) @@ @,
              !.mapLockedUTXOs = @ \cup {tx.collateral}]

StartUnstake(c, tx, h) ==
    IF IsActiveStaker(c, tx.miner)
    THEN [c EXCEPT !.mapStakes[tx.miner].stakeStatus = "UNSTAKING",
                   !.mapStakes[tx.miner].unstakeHeight = h]
    ELSE c

ApplyRenew(c, tx, h) ==
    [c EXCEPT !.mapStakes[tx.miner].lastRenewalHeight = h,
              !.mapStakes[tx.miner].canaryStrikes = 0,
              !.mapStakes[tx.miner].stakeStatus = "ACTIVE"]

ApplyChallengeCommit(c, tx, h) ==
    [c EXCEPT !.mapChallenges =
        (tx.request :> [challengerAddress |-> tx.challenger, challengerCollateral |-> tx.collateral,
                        commitHeight |-> h, challengeStatus |-> "OPEN"]) @@ @,
              !.mapLockedUTXOs = @ \cup {tx.collateral}]

\* The stakes of the miners in ms get a new status.
WithStatus(stakes, ms, status) ==
    [m \in ms |-> [stakes[m] EXCEPT !.stakeStatus = status]] @@ stakes

\* The responder of each request in rs loses its stake, if that is ACTIVE.
SlashResponders(c, rs) ==
    LET slashed == {m \in DOMAIN c.mapStakes :
                      /\ IsActiveStaker(c, m)
                      /\ \E r \in rs \cap DOMAIN c.mapResponses :
                            c.mapResponses[r].minerAddress = m}
    IN  WithStatus(c.mapStakes, slashed, "SLASHED")

ApplyChallengeReveal(c, tx) ==
    LET r == tx.request
        hasOracle == r \in Verifiable \cap DOMAIN c.mapRequests
        majority == GetAuditorMajorityResult(c, r)
        Unlocked == c.mapLockedUTXOs \ {c.mapChallenges[r].challengerCollateral}
        Resolved(status) == [c.mapChallenges EXCEPT ![r].challengeStatus = status]
    IN  CASE ~hasOracle ->
               [c EXCEPT !.mapChallenges = Resolved("RESOLVED_NO_ORACLE"),
                         !.mapLockedUTXOs = Unlocked]
          [] hasOracle /\ majority = "FAIL" ->
               [c EXCEPT !.mapChallenges = Resolved("SLASHED"),
                         !.mapLockedUTXOs = Unlocked,
                         !.mapStakes = SlashResponders(c, {r})]
          [] hasOracle /\ majority = "PASS" ->
               [c EXCEPT !.mapChallenges = Resolved("EXPIRED")]
          [] OTHER -> [c EXCEPT !.mapChallenges = Resolved("REVEALED_PENDING")]

\* One vote per auditor: a second one changes nothing, and locks nothing.
AddAuditorVerification(c, tx) ==
    IF tx.auditor \in DOMAIN c.mapAuditorVerifications[tx.request] THEN c
    ELSE [c EXCEPT
            !.mapAuditorVerifications[tx.request] =
                (tx.auditor :> [result |-> tx.result, auditorCollateral |-> tx.collateral,
                                status |-> "PENDING"]) @@ @,
            !.mapLockedUTXOs = @ \cup {tx.collateral}]

ApplyOPoITransaction(c, tx, h, tip) ==
    CASE tx.type = "REQUEST"          -> ApplyRequest(c, tx, h)
      [] tx.type = "RESPONSE_COMMIT"  -> ApplyResponseCommit(c, tx, h)
      [] tx.type = "RESPONSE_REVEAL"  -> ApplyResponseReveal(c, tx, h, tip)
      [] tx.type = "STAKE"            -> ApplyStake(c, tx, h)
      [] tx.type = "UNSTAKE"          -> StartUnstake(c, tx, h)
      [] tx.type = "RENEW"            -> ApplyRenew(c, tx, h)
      [] tx.type = "CHALLENGE_COMMIT" -> ApplyChallengeCommit(c, tx, h)
      [] tx.type = "CHALLENGE_REVEAL" -> ApplyChallengeReveal(c, tx)
      [] tx.type = "AUDITOR_VERIFY"   -> AddAuditorVerification(c, tx)
      [] OTHER                        -> c

-----------------------------------------------------------------------------
(* ProcessOPoITransaction, fUndo = true. *)

UndoResponseReveal(c, tx) ==
    LET r == tx.request
        stakes == c.mapStakes
    IN  [c EXCEPT
           !.mapResponses = Erase(@, r),
           !.mapRequests =
               IF r \in DOMAIN @
               THEN [@ EXCEPT ![r].status = "PENDING",
                              ![r].responseReveals = @ \ {tx.miner}]
               ELSE @,
           !.setPaidResponses = @ \ {r},
           !.mapStakes =
               IF tx.miner \in DOMAIN stakes /\ stakes[tx.miner].responsesTotal > 0
               THEN [stakes EXCEPT ![tx.miner].responsesTotal = @ - 1]
               ELSE stakes]

UndoStake(c, tx) ==
    [c EXCEPT !.mapStakes = Erase(@, tx.miner),
              !.mapLockedUTXOs = @ \ {tx.collateral}]

\* Mutant: unstakeHeight is not reset.
MutUndoUnstake(c, tx) ==
    IF tx.miner \in DOMAIN c.mapStakes
    THEN [c EXCEPT !.mapStakes[tx.miner].stakeStatus = "ACTIVE"]
    ELSE c

UndoUnstake(c, tx) ==
    IF tx.miner \in DOMAIN c.mapStakes
    THEN [c EXCEPT !.mapStakes[tx.miner].stakeStatus = "ACTIVE",
                   !.mapStakes[tx.miner].unstakeHeight = 0]
    ELSE c

UndoChallengeCommit(c, tx) ==
    [c EXCEPT !.mapChallenges = Erase(@, tx.request),
              !.mapLockedUTXOs = @ \ {tx.collateral}]

UndoChallengeReveal(c, tx) ==
    LET r == tx.request
        ch == c.mapChallenges[r]
        responder == {m \in DOMAIN c.mapStakes :
                        r \in DOMAIN c.mapResponses /\ c.mapResponses[r].minerAddress = m}
        open == [c EXCEPT !.mapChallenges[r].challengeStatus = "OPEN"]
        relocked == [open EXCEPT !.mapLockedUTXOs = @ \cup {ch.challengerCollateral}]
    IN  CASE r \notin DOMAIN c.mapChallenges -> c
          [] r \in DOMAIN c.mapChallenges /\ ch.challengeStatus = "SLASHED" ->
               [relocked EXCEPT
                  !.mapStakes = WithStatus(@, responder, "ACTIVE"),
                  !.setPaidChallengerRewards = @ \ {r}]
          [] r \in DOMAIN c.mapChallenges /\ ch.challengeStatus = "RESOLVED_NO_ORACLE" -> relocked
          [] OTHER -> open

\* The collateral of a vote that was slashed stays locked.
UndoAuditorVerify(c, tx) ==
    LET verifs == c.mapAuditorVerifications[tx.request]
        burned == tx.auditor \in DOMAIN verifs /\ verifs[tx.auditor].status = "SLASHED"
    IN  [c EXCEPT
           !.mapAuditorVerifications[tx.request] = Erase(@, tx.auditor),
           !.mapLockedUTXOs = IF burned THEN @ ELSE @ \ {tx.collateral},
           !.setResolvedAuditorVerifications = @ \ {tx.request}]

\* Undoing a RENEW is a no-op.
UndoOPoITransaction(c, tx) ==
    CASE tx.type = "REQUEST"          -> [c EXCEPT !.mapRequests = Erase(@, tx.request)]
      [] tx.type = "RESPONSE_COMMIT"  ->
            [c EXCEPT !.mapResponseCommits = Erase(@, <<tx.request, tx.miner>>)]
      [] tx.type = "RESPONSE_REVEAL"  -> UndoResponseReveal(c, tx)
      [] tx.type = "STAKE"            -> UndoStake(c, tx)
      [] tx.type = "UNSTAKE"          -> UndoUnstake(c, tx)
      [] tx.type = "CHALLENGE_COMMIT" -> UndoChallengeCommit(c, tx)
      [] tx.type = "CHALLENGE_REVEAL" -> UndoChallengeReveal(c, tx)
      [] tx.type = "AUDITOR_VERIFY"   -> UndoAuditorVerify(c, tx)
      [] OTHER                        -> c

-----------------------------------------------------------------------------
(* The transitions at the end of ConnectBlock and of each replayed block. *)

\* Mutant: a challenge that is not revealed in time costs the miner its stake.
MutProcessExpiredChallenges(c, h) ==
    LET chs == c.mapChallenges
        late == {r \in DOMAIN chs : /\ chs[r].challengeStatus = "OPEN"
                                    /\ h - chs[r].commitHeight >= RevealWindow}
    IN  [c EXCEPT !.mapChallenges = [r \in late |-> [chs[r] EXCEPT !.challengeStatus = "SLASHED"]] @@ @,
                  !.mapStakes = SlashResponders(c, late)]

ProcessExpiredChallenges(c, h) ==
    LET chs == c.mapChallenges
        pending == {r \in DOMAIN chs : chs[r].challengeStatus = "REVEALED_PENDING"}
        proven == {r \in pending : GetAuditorMajorityResult(c, r) = "FAIL"}
        dismissed ==
            {r \in DOMAIN chs : chs[r].challengeStatus = "OPEN"
                                /\ h - chs[r].commitHeight >= RevealWindow}
            \cup {r \in pending : GetAuditorMajorityResult(c, r) = "PASS"}
        slashed == SlashResponders(c, proven)
        released == {m \in DOMAIN slashed : /\ slashed[m].stakeStatus = "UNSTAKING"
                                            /\ h - slashed[m].unstakeHeight >= UnstakeCooldown}
    IN  [c EXCEPT
           !.mapChallenges =
                  [r \in proven |-> [chs[r] EXCEPT !.challengeStatus = "SLASHED"]]
               @@ [r \in dismissed |-> [chs[r] EXCEPT !.challengeStatus = "EXPIRED"]]
               @@ chs,
           !.mapStakes = WithStatus(slashed, released, "RELEASED"),
           !.mapLockedUTXOs = @ \ (     {chs[r].challengerCollateral : r \in proven}
                                   \cup {slashed[m].collateralIn : m \in released})]

ProcessExpiredRequests(c, h) ==
    LET reqs == c.mapRequests
        expired == {r \in DOMAIN reqs : /\ reqs[r].status = "PENDING"
                                        /\ h - reqs[r].blockHeight >= RequestExpiry}
    IN  [c EXCEPT !.mapRequests =
           [r \in expired |-> [reqs[r] EXCEPT !.status = "EXPIRED"]] @@ reqs]

ProcessResponseCommitWindows(c, h) ==
    LET reqs == c.mapRequests
        closed == {r \in DOMAIN reqs : (h - reqs[r].blockHeight) % HeightSpace >= CommitWindow}
    IN  [c EXCEPT !.mapRequests =
           [r \in closed |-> [reqs[r] EXCEPT !.commitWindowClosed = TRUE]] @@ reqs]

\* The difference of two uint32_t.
RenewalAge(stake, h) ==
    LET since == IF stake.blockHeight > stake.lastRenewalHeight
                 THEN stake.blockHeight ELSE stake.lastRenewalHeight
    IN  (h - since) % HeightSpace

\* Mutant: off by one.
MutProcessStakeRenewals(c, h) ==
    LET overdue == {m \in DOMAIN c.mapStakes :
                      IsActiveStaker(c, m) /\ RenewalAge(c.mapStakes[m], h) > RenewalBlocks}
    IN  [c EXCEPT !.mapStakes = WithStatus(@, overdue, "SUSPENDED")]

ProcessStakeRenewals(c, h) ==
    LET overdue == {m \in DOMAIN c.mapStakes :
                      IsActiveStaker(c, m) /\ RenewalAge(c.mapStakes[m], h) >= RenewalBlocks}
    IN  [c EXCEPT !.mapStakes = WithStatus(@, overdue, "SUSPENDED")]

\* Mutant: the stake is suspended a strike early.
MutStrike(stake, n) ==
    [stake EXCEPT
       !.canaryStrikes = @ + n,
       !.canaryObligationDeadline = 0,
       !.stakeStatus = IF @ = "ACTIVE" /\ stake.canaryStrikes + n >= MaxCanaryStrikes - 1
                       THEN "SUSPENDED" ELSE @]

\* n strikes, and the obligation they settle.
Strike(stake, n) ==
    [stake EXCEPT
       !.canaryStrikes = @ + n,
       !.canaryObligationDeadline = 0,
       !.stakeStatus = IF @ = "ACTIVE" /\ stake.canaryStrikes + n >= MaxCanaryStrikes
                       THEN "SUSPENDED" ELSE @]

ProcessCanaryAudits(c, h) ==
    LET stakes == c.mapStakes
        missed == {m \in DOMAIN stakes : /\ stakes[m].canaryObligationDeadline # 0
                                         /\ h > stakes[m].canaryObligationDeadline}
        struck == [m \in missed |-> Strike(stakes[m], 1)] @@ stakes
        IsActive(m) == m \in DOMAIN struck /\ struck[m].stakeStatus = "ACTIVE"
        activeAddrs == SelectSeq(MinerOrder, IsActive)
        chosen == activeAddrs[((h \div CanaryFrequency) % Len(activeAddrs)) + 1]
    IN  [c EXCEPT !.mapStakes =
           IF h % CanaryFrequency # 0 \/ activeAddrs = << >> THEN struck
           ELSE [struck EXCEPT ![chosen].canaryObligationDeadline = h + CanaryWindow]]

\* At the first quorum the majority gets its collateral back, and the responder
\* of a canary request is struck or has discharged its obligation.
ProcessAuditorVerifications(c) ==
    LET Verdict(r) == GetAuditorMajorityResult(c, r)
        now == {r \in Requests \ c.setResolvedAuditorVerifications : Verdict(r) # "NONE"}
        verifs == c.mapAuditorVerifications
        Agrees(r, a) == verifs[r][a].result = Verdict(r)
        Graded(m, res) == {r \in now \cap Canary \cap DOMAIN c.mapResponses :
                             c.mapResponses[r].minerAddress = m /\ Verdict(r) = res}
        failed == {m \in DOMAIN c.mapStakes : Graded(m, "FAIL") # {}}
        passed == {m \in DOMAIN c.mapStakes : Graded(m, "PASS") # {}}
    IN  [c EXCEPT
           !.mapAuditorVerifications =
               [r \in now |-> [a \in DOMAIN verifs[r] |->
                   [verifs[r][a] EXCEPT !.status =
                       IF Agrees(r, a) THEN "COMPLETE" ELSE "SLASHED"]]] @@ verifs,
           !.mapLockedUTXOs = @ \ UNION {{verifs[r][a].auditorCollateral :
                                            a \in {b \in DOMAIN verifs[r] : Agrees(r, b)}} : r \in now},
           !.setResolvedAuditorVerifications = @ \cup now,
           !.mapStakes =
                  [m \in failed |-> Strike(@[m], Cardinality(Graded(m, "FAIL")))]
               @@ [m \in passed |-> [@[m] EXCEPT !.canaryObligationDeadline = 0]]
               @@ @]
=============================================================================
