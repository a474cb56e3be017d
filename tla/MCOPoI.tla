------------------------------- MODULE MCOPoI -------------------------------
(* Small instances of OPoIChain. *)
EXTENDS OPoIChain

CONSTANTS m1, m2, q1, q2, q3, k1, a1, a2, a3, a4, u1, u2, u3, u4, u5, u6, x

MCMinerOrder == SetToSeq(Miners)
MCRequestOrder == SetToSeq(Requests)

NoBlocks == {<< >>}
NoPairs == {}

Request(r)      == [type |-> "REQUEST", request |-> r]
Commit(r, m, a) == [type |-> "RESPONSE_COMMIT", request |-> r, miner |-> m, answer |-> a]
Reveal(r, m, a) == [type |-> "RESPONSE_REVEAL", request |-> r, miner |-> m, answer |-> a]
Stake(m, u)     == [type |-> "STAKE", miner |-> m, collateral |-> u]
Unstake(m)      == [type |-> "UNSTAKE", miner |-> m]
Renew(m)        == [type |-> "RENEW", miner |-> m]
Spend(u)        == [type |-> "SPEND", collateral |-> u]
Vote(r, a, v, u) ==
    [type |-> "AUDITOR_VERIFY", request |-> r, auditor |-> a, result |-> v, collateral |-> u]
Challenge(r, c, u) ==
    [type |-> "CHALLENGE_COMMIT", request |-> r, challenger |-> c, collateral |-> u]
Prove(r, c)     == [type |-> "CHALLENGE_REVEAL", request |-> r, challenger |-> c]

Answered(r, m) == {Request(r)} \cup {Commit(r, m, a) : a \in Answers} \cup {Reveal(r, m, a) : a \in Answers}

\* Stakes come and go; any miner may use any coin.
StakeTxs ==
         {Stake(m, u) : m \in Miners, u \in Utxos} \cup {Unstake(m) : m \in Miners}
    \cup {Renew(m) : m \in Miners} \cup {Spend(u) : u \in Utxos}

\* Everyone has a coin of their own.
OwnCoinTxs ==
    {Stake(m1, u1), Stake(m1, u2), Unstake(m1), Spend(u1), Spend(u2), Stake(m2, u3), Request(q1),
     Commit(q1, m1, x), Commit(q1, m2, x), Vote(q1, a1, "PASS", u4), Vote(q1, a1, "FAIL", u4)}

StakedPrefix == << <<Stake(m1, u1)>>, <<Stake(m2, u2)>> >>

Staked == {StakedPrefix}

\* Two miners answer q1, which the sortition draws, and q2, which it does not.
AuditTxs ==
         Answered(q1, m1) \cup Answered(q1, m2) \cup Answered(q2, m1) \cup Answered(q2, m2)
    \cup {Vote(q1, a1, v, u3) : v \in Results} \cup {Vote(q1, a2, v, u4) : v \in Results}
    \cup {Vote(q1, a3, v, u5) : v \in {"PASS", "FAIL"}}

Sampled == {<<q1, m1>>, <<q1, m2>>}

\* A verifiable request was answered; nobody committed to the open ones in time.
AnsweredPrefix ==
    << <<Stake(m1, u1), Request(q1), Request(q2), Request(q3)>>, <<Commit(q3, m1, x)>>,
       <<Reveal(q3, m1, x)>> >>

Answered3 == {AnsweredPrefix}

\* A challenge of that answer, and the votes on it.
ChallengeTxs ==
         {Challenge(q3, k1, u) : u \in {u1, u2}} \cup {Prove(q3, k1), Unstake(m1)}
    \cup {Vote(q3, a1, v, u4) : v \in Results} \cup {Vote(q3, a2, v, u5) : v \in Results}

\* Either chain: on the first there is no answer to challenge, on the second the open
\* requests can no longer be answered.
StakedOrAnswered == {StakedPrefix, AnsweredPrefix}

AuditAndChallengeTxs == AuditTxs \cup ChallengeTxs

\* The sampled request was answered, and four auditors look at the answer.
SampledPrefix ==
    {<< <<Stake(m1, u1), Request(q1)>>, <<Commit(q1, m1, x)>>, << >>, <<Reveal(q1, m1, x)>> >>}

SplitVotes ==
    {Vote(q1, a1, "FAIL", u3), Vote(q1, a2, "FAIL", u4), Vote(q1, a3, "PASS", u5),
     Vote(q1, a4, "PASS", u6)}

\* One answer to the sampled request.
AnswerTxs == Answered(q1, m1)
=============================================================================
