------------------------------- MODULE Voting -------------------------------
(***************************************************************************)
(* The arithmetic of an ISAAC vote: validators, the threshold policy, the  *)
(* order of ISAAC states, the proposer of a round and the result that a    *)
(* node reads from the ballots it has counted.                             *)
(*                                                                         *)
(* Validators are numbered in the order in which SequentialSelector sorts  *)
(* their addresses.                                                        *)
(***************************************************************************)
EXTENDS Integers, FiniteSets

CONSTANTS N,                \* number of validators
          ThresholdPercent  \* the --threshold option of a node

ASSUME NAssumption == N \in Nat \ {0}

ASSUME ThresholdAssumption == ThresholdPercent \in 1..100

Nodes == 0 .. N - 1

\* ISAACVotingThresholdPolicy.Threshold: math.Ceil of validators * percent.  The
\* code computes in float64; from 25 validators on, a product that should be
\* whole may come out just above it, and the ceiling is then one more than here.
Threshold == (N * ThresholdPercent + 99) \div 100

\* ballot.State
INIT == 1
SIGN == 2
ACCEPT == 3
ALLCONFIRM == 4

BallotStates == INIT .. ALLCONFIRM

\* State.IsValidForVote
IsValidForVote(s) == s \in {SIGN, ACCEPT}

\* voting.Hole
YES == "YES"
NO == "NO"
EXP == "EXPIRED"
NOTYET == "NOT-YET"

Holes == {YES, NO, EXP}

\* consensus.ISAACState: height, round and ballot state.
State(h, r, s) == [height |-> h, round |-> r, state |-> s]

\* s.IsLater(t): t comes after s.
IsLater(s, t) ==
  \/ s.height < t.height
  \/ s.height = t.height /\ s.round < t.round
  \/ s.height = t.height /\ s.round = t.round /\ s.state < t.state

\* SequentialSelector.Select
SelectProposer(h, r) == (h + r) % N

\* Mutants of cannotBeOver: a draw is seen one ballot too early; a ballot for
\* NO is taken for one that may still turn the vote.
cannotBeOverEarly(remain, yes, no) ==
  remain + yes <= Threshold /\ remain + no <= Threshold

cannotBeOverTotal(remain, yes, no) == remain + yes + no < Threshold

\* No hole can get to the threshold with the ballots that are missing.
cannotBeOver(remain, yes, no) ==
  remain + yes < Threshold /\ remain + no < Threshold

\* Mutant of CanGetVotingResult: EXP is counted as YES.
ExpiredIsYes(counted) ==
  LET Count(holes) == Cardinality({b \in counted : b.vote \in holes})
      remain == N - Cardinality(counted)
  IN  IF Count({YES, EXP}) >= Threshold THEN YES
      ELSE IF Count({NO}) >= Threshold THEN NO
      ELSE IF cannotBeOver(remain, Count({YES}), Count({NO})) THEN EXP
      ELSE NOTYET

\* RoundVote.CanGetVotingResult: the result of the ballots counted for one
\* round and ballot state, at most one for each validator.
CanGetVotingResult(counted) ==
  LET Count(hole) == Cardinality({b \in counted : b.vote = hole})
      remain == N - Cardinality(counted)
  IN  IF Count(YES) >= Threshold THEN YES
      ELSE IF Count(NO) >= Threshold THEN NO
      ELSE IF cannotBeOver(remain, Count(YES), Count(NO)) THEN EXP
      ELSE NOTYET
=============================================================================
