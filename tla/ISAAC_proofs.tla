---------------------------- MODULE ISAAC_proofs ----------------------------
(***************************************************************************)
(* Theorems about ISAAC for every number of validators, every threshold    *)
(* and every value of the bounds.                                          *)
(***************************************************************************)
EXTENDS ISAAC, TLAPS

\* A leaf that names no prover is given to Zenon, and then to SMT.
USE Zenon, SMTT(10), SMTT(30)

-----------------------------------------------------------------------------
(***************************************************************************)
(* Types of the operators                                                  *)
(***************************************************************************)

USE DEF INIT, SIGN, ACCEPT, ALLCONFIRM, YES, NO, EXP, NOTYET

Voting3 == {INIT, SIGN, ACCEPT}

\* A vote that has a result has one of the three holes.
LEMMA ResultType ==
  ASSUME NEW counted
  PROVE  CanGetVotingResult(counted) \in Holes \cup {NOTYET}
BY DEF CanGetVotingResult, Holes

\* The ISAACState of a ballot.
LEMMA SlotType ==
  ASSUME NEW b \in Ballot
  PROVE  /\ Slot(b) \in StateType
         /\ Slot(b).height = b.basis.height
         /\ Slot(b).round = b.basis.round
         /\ Slot(b).state = b.state
BY DEF Slot, State, Ballot, Basis, StateType, BallotStates

\* Re-signing a ballot gives a ballot.
LEMMA ResignType ==
  ASSUME TypeOK, NEW n \in Nodes, NEW b \in Ballot, NEW s \in Voting3,
         NEW hole \in Holes
  PROVE  /\ Resign(n, b, s, hole) \in Ballot
         /\ Resign(n, b, s, hole).src = n
         /\ Resign(n, b, s, hole).basis = b.basis
         /\ Resign(n, b, s, hole).state = s
         /\ Resign(n, b, s, hole).body = b.body
         /\ Resign(n, b, s, hole).at = clock
BY DEF TypeOK, Resign, Ballot, Voting3

\* GenerateExpiredBallot gives a ballot.
LEMMA ExpiredType ==
  ASSUME TypeOK, NEW n \in Nodes, NEW basis \in Basis, NEW s \in Voting3
  PROVE  ExpiredBallot(n, basis, s) \in Ballot
BY DEF TypeOK, ExpiredBallot, NewBody, Ballot, Body, Holes, Voting3

\* The voting basis on top of a node's ledger.
LEMMA BasisOfType ==
  ASSUME TypeOK, NEW n \in Nodes, NEW r \in Nat
  PROVE  /\ Height(n) \in Nat \ {0}
         /\ BasisOf(n, r) \in Basis
BY DEF TypeOK, BasisOf, Basis, Height

\* A block is built from the proposed part of a ballot.
LEMMA NewBlockType ==
  ASSUME NEW b \in Ballot
  PROVE  NewBlock(b) \in Block
BY DEF NewBlock, Block, Ballot, Basis

\* Broadcasting nothing, or one ballot.
LEMMA SendNone ==
  ASSUME NEW record
  PROVE  Admitted(record, <<>>) = {} /\ Recorded(record, <<>>) = record
BY DEF Admitted, Recorded

LEMMA SendOne ==
  ASSUME NEW record, NEW x
  PROVE  /\ Admitted(record, <<x>>) =
              IF Slot(x) \in record THEN {} ELSE {x}
         /\ Recorded(record, <<x>>) = record \cup {Slot(x)}
BY DEF Admitted, Recorded

\* Broadcasting some ballots in turn.
LEMMA SendType ==
  ASSUME NEW record \in SUBSET StateType, NEW out \in Seq(Ballot)
  PROVE  /\ Admitted(record, out) \subseteq Ballot
         /\ Recorded(record, out) \in SUBSET StateType
BY SlotType DEF Admitted, Recorded

\* Handing states to the loop of the state manager.
LEMMA TransitType ==
  ASSUME TypeOK, NEW n \in Nodes, NEW targets \in SUBSET StateType,
         TransitISAACState(n, targets)
  PROVE  transit' \in [Nodes -> SUBSET StateType]
BY DEF TypeOK, TransitISAACState, Later

LEMMA NextRoundType ==
  ASSUME TypeOK, NEW n \in Nodes, NEW l \in SUBSET Basis
  PROVE  NextRound(n, l) \in StateType
<1>1. LatestVotingRound(l) \in Nat
  BY DEF LatestVotingRound, Basis
<1>2. QED
  BY <1>1 DEF TypeOK, NextRound, State, StateType, BallotStates

LEMMA StateOfBasis ==
  ASSUME NEW b \in Ballot, NEW s \in BallotStates
  PROVE  State(b.basis.height, b.basis.round, s) \in StateType
BY DEF State, StateType, Ballot, Basis

LEMMA NextHeightType ==
  ASSUME NEW l \in Seq(Block)
  PROVE  NextHeight(l) \in StateType
BY DEF NextHeight, State, StateType, BallotStates

\* The sets that the handlers choose ballots from.
LEMMA ChosenBallots ==
  ASSUME NEW n, NEW votes, NEW b
  PROVE  /\ Received(n) \subseteq msgs
         /\ Votes(n) \subseteq msgs
         /\ FutureVotes(n) \subseteq msgs
         /\ \A W \in Groups(n, votes, b) \cup FutureGroups(n, votes, b) :
              W \subseteq votes
BY DEF Received, Votes, FutureVotes, Groups, FutureGroups, Selections

\* What BallotRenewal does to the votes and the send record.
LEMMA RenewalType ==
  ASSUME TypeOK, NEW n \in Nodes, NEW more \in SUBSET Ballot, NEW b \in Ballot
  PROVE  /\ Counted(n, more, b) \subseteq voted[n] \cup more
         /\ Counted(n, more, b) \in SUBSET Ballot
         /\ Renewal(n, more, b) \in Seq(Ballot)
         /\ RenewedRecord(n, more, b) \in SUBSET StateType
         /\ Admitted(RenewedRecord(n, more, b), Renewal(n, more, b))
              \subseteq Ballot
         /\ RecordAfter(n, more, b) \in SUBSET StateType
<1>1. Counted(n, more, b) \subseteq voted[n] \cup more
  BY DEF Counted, StillInTime
<1>2. Counted(n, more, b) \in SUBSET Ballot
  BY <1>1 DEF TypeOK
<1>3. Renewal(n, more, b) \in Seq(Ballot)
  <2>1. b.basis \in Basis /\ b.state \in Voting3
    BY DEF Ballot, Voting3
  <2>2. ExpiredBallot(n, b.basis, b.state) \in Ballot
    BY <2>1, ExpiredType
  <2>3. QED
    BY <2>2 DEF Renewal
<1>4. RenewedRecord(n, more, b) \in SUBSET StateType
  BY DEF RenewedRecord, TypeOK
<1>5. QED
  BY <1>1, <1>2, <1>3, <1>4, SendType DEF RecordAfter

-----------------------------------------------------------------------------
(***************************************************************************)
(* Type correctness                                                        *)
(***************************************************************************)

LEMMA TypeInit == Init => TypeOK
<1>1. NextHeight(<<>>) \in StateType
  BY DEF NextHeight, State, StateType, BallotStates
<1>2. State(0, 0, INIT) \in StateType
  BY DEF State, StateType, BallotStates
<1>3. QED
  BY <1>1, <1>2 DEF Init, TypeOK

LEMMA TypeHandleBallot ==
  ASSUME TypeOK, NEW n \in Nodes, HandleBallot(n)
  PROVE  TypeOK'
<1>1. ASSUME NEW b \in msgs, HandleOldBallot(n, b)
      PROVE  TypeOK'
  <2> DEFINE out == <<ExpiredBallot(n, b.basis, b.state)>>
  <2>1. b \in Ballot /\ b.basis \in Basis /\ b.state \in Voting3
    BY DEF TypeOK, Ballot, Voting3
  <2>2. out \in Seq(Ballot)
    BY <2>1, ExpiredType
  <2>3. /\ Admitted(sent[n], out) \subseteq Ballot
        /\ Recorded(sent[n], out) \in SUBSET StateType
    BY <2>2, SendType DEF TypeOK
  <2>4. /\ msgs' = msgs \cup Admitted(sent[n], out)
        /\ sent' = [sent EXCEPT ![n] = Recorded(sent[n], out)]
    BY <1>1 DEF HandleOldBallot
  <2> HIDE DEF out
  <2>5. UNCHANGED <<chain, sm, timer, transit, proposing, expiring, expired,
                    sending, lvb, voted, mode, latestBallot, syncHeight,
                    finishing, crashes, clock>>
    BY <1>1 DEF HandleOldBallot, manager, goroutines, rounds, syncer, environment
  <2>6. QED
    BY <2>3, <2>4, <2>5 DEF TypeOK
<1>2. ASSUME NEW b \in Received(n), HandleINITBallot(n, b)
      PROVE  TypeOK'
  <2>1. b \in Ballot
    BY ChosenBallots DEF TypeOK
  <2>2. PICK hole \in IF b.src = n THEN {YES} ELSE InitVotes :
          LET out == <<Resign(n, b, SIGN, hole)>>
          IN  /\ msgs' = msgs \cup Admitted(sent[n], out)
              /\ sent' = [sent EXCEPT ![n] = Recorded(sent[n], out)]
    BY <1>2 DEF HandleINITBallot
  <2>3. hole \in Holes
    BY BoundsAssumption DEF Holes
  <2> DEFINE out == <<Resign(n, b, SIGN, hole)>>
  <2>4. out \in Seq(Ballot)
    BY <2>1, <2>3, ResignType DEF Voting3
  <2>5. /\ Admitted(sent[n], out) \subseteq Ballot
        /\ Recorded(sent[n], out) \in SUBSET StateType
    BY <2>4, SendType DEF TypeOK
  <2>6. {State(b.basis.height, b.basis.round, SIGN)} \in SUBSET StateType
    BY <2>1, StateOfBasis DEF BallotStates
  <2>7. transit' \in [Nodes -> SUBSET StateType]
    BY <1>2, <2>6, TransitType DEF HandleINITBallot
  <2> HIDE DEF out
  <2>8. msgs' \in SUBSET Ballot /\ sent' \in [Nodes -> SUBSET StateType]
    BY <2>2, <2>5 DEF TypeOK, out
  <2>9. QED
    BY <1>2, <2>7, <2>8 DEF TypeOK, HandleINITBallot, goroutines, rounds, syncer,
                               environment
<1>3. ASSUME NEW b \in Votes(n), CountBallot(n, b)
      PROVE  TypeOK'
  <2>1. b \in Ballot /\ {b} \in SUBSET Ballot
    BY ChosenBallots DEF TypeOK
  <2> DEFINE out == Renewal(n, {b}, b)
  <2>2. /\ Counted(n, {b}, b) \in SUBSET Ballot
        /\ out \in Seq(Ballot)
        /\ Admitted(RenewedRecord(n, {b}, b), out) \subseteq Ballot
    BY <2>1, RenewalType
  <2>3. Recorded(RenewedRecord(n, {b}, b), out) \in SUBSET StateType
    <3>1. RenewedRecord(n, {b}, b) \in SUBSET StateType
      BY DEF TypeOK, RenewedRecord
    <3>2. QED
      BY <2>2, <3>1, SendType
  <2>4. /\ msgs' = msgs \cup Admitted(RenewedRecord(n, {b}, b), out)
        /\ sent' = [sent EXCEPT ![n] = Recorded(RenewedRecord(n, {b}, b), out)]
        /\ voted' = [voted EXCEPT ![n] = Counted(n, {b}, b)]
        /\ UNCHANGED <<chain, manager, lvb, latestBallot, mode, syncer,
                       environment>>
    BY <1>3 DEF CountBallot
  <2> HIDE DEF out
  <2>5. /\ msgs' \in SUBSET Ballot
        /\ sent' \in [Nodes -> SUBSET StateType]
        /\ voted' \in [Nodes -> SUBSET Ballot]
    BY <2>2, <2>3, <2>4 DEF TypeOK
  <2>6. QED
    BY <2>4, <2>5 DEF TypeOK, manager, goroutines, syncer, environment
<1>4. ASSUME NEW b \in Votes(n), NEW before \in Groups(n, Votes(n), b),
             HandleSIGNBallot(n, before, b)
      PROVE  TypeOK'
  <2> DEFINE more == before \cup {b}
             result == Result(n, more, b)
             reply == ReplyTo(n, b, result)
             out == Renewal(n, more, b) \o <<reply>>
             record == RenewedRecord(n, more, b)
  <2>1. b \in Ballot /\ more \in SUBSET Ballot /\ b.basis \in Basis
    BY ChosenBallots DEF TypeOK, Ballot
  <2>2. result # NOTYET /\ result \in Holes
    BY <1>4, ResultType DEF HandleSIGNBallot, Result
  <2>3. reply \in Ballot
    BY <2>1, <2>2, ResignType DEF ReplyTo, Voting3, Holes
  <2> HIDE DEF reply, more
  <2>4. /\ Counted(n, more, b) \in SUBSET Ballot
        /\ Renewal(n, more, b) \in Seq(Ballot)
        /\ record \in SUBSET StateType
    BY <2>1, RenewalType
  <2>5. out \in Seq(Ballot)
    BY <2>3, <2>4
  <2> HIDE DEF out, record
  <2>6. /\ Admitted(record, out) \subseteq Ballot
        /\ Recorded(record, out) \in SUBSET StateType
    BY <2>4, <2>5, SendType
  <2>7. /\ msgs' = msgs \cup Admitted(record, out)
        /\ sent' = [sent EXCEPT ![n] = Recorded(record, out)]
        /\ UNCHANGED <<chain, sm, timer, proposing, goroutines,
                       latestBallot, mode, syncer, environment>>
    BY <1>4 DEF HandleSIGNBallot, out, record, reply, more
  <2>8. /\ msgs' \in SUBSET Ballot
        /\ sent' \in [Nodes -> SUBSET StateType]
    BY <2>6, <2>7 DEF TypeOK
  <2>9. /\ lvb' \in [Nodes -> SUBSET Basis]
        /\ voted' \in [Nodes -> SUBSET Ballot]
        /\ transit' \in [Nodes -> SUBSET StateType]
    <3>1. CASE /\ lvb' = [lvb EXCEPT ![n] = {b.basis}]
               /\ voted' = [voted EXCEPT
                              ![n] = AboveBasis(Counted(n, more, b), b.basis)]
               /\ TransitISAACState(n, {NextRound(n, {b.basis})})
      <4>1. NextRound(n, {b.basis}) \in StateType
        BY <2>1, NextRoundType
      <4>2. transit' \in [Nodes -> SUBSET StateType]
        BY <3>1, <4>1, TransitType
      <4>3. AboveBasis(Counted(n, more, b), b.basis) \in SUBSET Ballot
        BY <2>4 DEF AboveBasis
      <4>4. QED
        BY <2>1, <3>1, <4>2, <4>3 DEF TypeOK
    <3>2. CASE /\ voted' = [voted EXCEPT ![n] = Counted(n, more, b)]
               /\ TransitISAACState(n,
                    {State(b.basis.height, b.basis.round, ACCEPT)})
               /\ UNCHANGED lvb
      <4>1. State(b.basis.height, b.basis.round, ACCEPT) \in StateType
        BY <2>1, StateOfBasis DEF BallotStates
      <4>2. transit' \in [Nodes -> SUBSET StateType]
        BY <3>2, <4>1, TransitType
      <4>3. QED
        BY <2>4, <3>2, <4>2 DEF TypeOK
    <3>3. QED
      BY <1>4, <3>1, <3>2 DEF HandleSIGNBallot, more
  <2>10. QED
    BY <2>7, <2>8, <2>9 DEF TypeOK, goroutines, syncer, environment
<1>5. ASSUME NEW b \in Votes(n), NEW before \in Groups(n, Votes(n), b),
             \/ FailToStore(n, before, b)
             \/ StoreBlock(n, before, b)
             \/ RejectRound(n, before, b)
      PROVE  TypeOK'
  <2> DEFINE more == before \cup {b}
  <2>1. b \in Ballot /\ more \in SUBSET Ballot /\ b.basis \in Basis
    BY ChosenBallots DEF TypeOK, Ballot
  <2> HIDE DEF more
  <2>2. /\ Counted(n, more, b) \in SUBSET Ballot
        /\ Admitted(RenewedRecord(n, more, b), Renewal(n, more, b))
             \subseteq Ballot
        /\ RecordAfter(n, more, b) \in SUBSET StateType
    BY <2>1, RenewalType
  <2>3. /\ AboveBasis(Counted(n, more, b), b.basis) \in SUBSET Ballot
        /\ AboveHeight(Counted(n, more, b), b.basis.height) \in SUBSET Ballot
    BY <2>2 DEF AboveBasis, AboveHeight
  <2>4. CountACCEPTBallot(n, more, b)
    BY <1>5 DEF FailToStore, StoreBlock, RejectRound, more
  <2>5. msgs' \in SUBSET Ballot
    BY <2>2, <2>4 DEF TypeOK, CountACCEPTBallot
  <2>6. State(b.basis.height, b.basis.round, ALLCONFIRM) \in StateType
    BY <2>1, StateOfBasis DEF BallotStates
  <2>7. CASE FailToStore(n, before, b)
    <3>1. transit' \in [Nodes -> SUBSET StateType]
      BY <2>6, <2>7, TransitType DEF FailToStore
    <3>2. /\ voted' = [voted EXCEPT ![n] = Counted(n, more, b)]
          /\ sent' = [sent EXCEPT ![n] = RecordAfter(n, more, b)]
          /\ UNCHANGED <<chain, lvb, mode>>
      BY <2>7 DEF FailToStore, more
    <3>3. QED
      BY <2>2, <2>4, <2>5, <3>1, <3>2
      DEF TypeOK, CountACCEPTBallot, goroutines, syncer, environment
  <2>8. CASE StoreBlock(n, before, b)
    <3> DEFINE ledger == Append(chain[n], NewBlock(b))
               kept == {t \in RecordAfter(n, more, b) : t.height > b.basis.height}
    <3>1. ledger \in Seq(Block)
      BY <2>1, NewBlockType DEF TypeOK
    <3>2. kept \in SUBSET StateType
      BY <2>2
    <3>3. /\ chain' = [chain EXCEPT ![n] = ledger]
          /\ mode' = [mode EXCEPT ![n] = "CONSENSUS"]
          /\ lvb' = [lvb EXCEPT ![n] = {b.basis}]
          /\ voted' = [voted EXCEPT
                         ![n] = AboveHeight(Counted(n, more, b), b.basis.height)]
          /\ sent' = [sent EXCEPT ![n] = kept]
          /\ TransitISAACState(n,
               {State(b.basis.height, b.basis.round, ALLCONFIRM),
                NextHeight(ledger)})
      BY <2>8 DEF StoreBlock, more
    <3> HIDE DEF ledger, kept
    <3>4. transit' \in [Nodes -> SUBSET StateType]
      BY <2>6, <3>1, <3>3, NextHeightType, TransitType
    <3>5. QED
      BY <2>1, <2>3, <2>4, <2>5, <3>1, <3>2, <3>3, <3>4
      DEF TypeOK, CountACCEPTBallot, goroutines, syncer, environment
  <2>9. CASE RejectRound(n, before, b)
    <3>1. NextRound(n, {b.basis}) \in StateType
      BY <2>1, NextRoundType
    <3>2. transit' \in [Nodes -> SUBSET StateType]
      BY <2>9, <3>1, TransitType DEF RejectRound
    <3>3. /\ lvb' = [lvb EXCEPT ![n] = {b.basis}]
          /\ voted' = [voted EXCEPT
                         ![n] = AboveBasis(Counted(n, more, b), b.basis)]
          /\ sent' = [sent EXCEPT ![n] = RecordAfter(n, more, b)]
          /\ UNCHANGED <<chain, mode>>
      BY <2>9 DEF RejectRound, more
    <3>4. QED
      BY <2>1, <2>2, <2>3, <2>4, <2>5, <3>2, <3>3
      DEF TypeOK, CountACCEPTBallot, goroutines, syncer, environment
  <2>10. QED
    BY <1>5, <2>7, <2>8, <2>9
<1>6. ASSUME NEW b \in FutureVotes(n), HandleFutureBallot(n, b)
      PROVE  TypeOK'
  <2>1. b \in Ballot
    BY ChosenBallots DEF TypeOK
  <2>2. voted' = [voted EXCEPT ![n] = voted[n] \cup {} \cup {b}]
    BY <1>6 DEF HandleFutureBallot, CountFutureBallot
  <2>3. voted' \in [Nodes -> SUBSET Ballot]
    BY <2>1, <2>2 DEF TypeOK
  <2>4. QED
    BY <1>6, <2>3
    DEF TypeOK, HandleFutureBallot, CountFutureBallot, goroutines, syncer,
        environment
<1>7. ASSUME NEW b \in FutureVotes(n),
             NEW before \in FutureGroups(n, FutureVotes(n), b),
             StartSync(n, before, b) \/ CatchUp(n, before, b)
      PROVE  TypeOK'
  <2>1. b \in Ballot /\ before \in SUBSET Ballot /\ b.basis.height \in Nat
    <3>1. b \in Ballot /\ before \in SUBSET Ballot
      BY ChosenBallots DEF TypeOK
    <3>2. QED
      BY <3>1 DEF Ballot, Basis
  <2>2. CountFutureBallot(n, before, b)
    BY <1>7 DEF StartSync, CatchUp
  <2>3. voted' \in [Nodes -> SUBSET Ballot]
    BY <2>1, <2>2 DEF TypeOK, CountFutureBallot
  <2>4. CASE StartSync(n, before, b)
    <3>1. /\ latestBallot' \in [Nodes -> SUBSET Ballot]
          /\ mode' \in [Nodes -> {"CONSENSUS", "SYNC"}]
          /\ syncHeight' \in [Nodes -> Nat]
          /\ UNCHANGED <<chain, transit, finishing>>
      BY <2>1, <2>4 DEF TypeOK, StartSync
    <3>2. QED
      BY <2>2, <2>3, <3>1 DEF TypeOK, CountFutureBallot, goroutines, environment
  <2>5. CASE CatchUp(n, before, b)
    <3> DEFINE previous == IF latestBallot[n] = {} THEN b
                           ELSE CHOOSE x \in latestBallot[n] : TRUE
               one == Append(chain[n], NewBlock(previous))
               two == Append(one, NewBlock(b))
               confirm(x) == State(x.basis.height, x.basis.round, ALLCONFIRM)
    <3>1. previous \in Ballot
      BY <2>1 DEF TypeOK
    <3> HIDE DEF previous
    <3>2. one \in Seq(Block)
      BY <3>1, NewBlockType DEF TypeOK
    <3> HIDE DEF one
    <3>3. two \in Seq(Block)
      BY <2>1, <3>2, NewBlockType
    <3> HIDE DEF two
    <3>4. {confirm(previous), confirm(b), NextHeight(two)} \in SUBSET StateType
      BY <2>1, <3>1, <3>3, StateOfBasis, NextHeightType DEF BallotStates
    <3> HIDE DEF confirm
    <3>5. /\ latestBallot' = [latestBallot EXCEPT ![n] = {b}]
          /\ \/ /\ TransitISAACState(n, {confirm(previous)})
                /\ UNCHANGED chain
             \/ /\ chain' = [chain EXCEPT ![n] = one]
                /\ TransitISAACState(n, {confirm(previous), confirm(b)})
             \/ /\ chain' = [chain EXCEPT ![n] = two]
                /\ TransitISAACState(n,
                     {confirm(previous), confirm(b), NextHeight(two)})
          /\ UNCHANGED <<mode, syncer>>
      BY <2>5 DEF CatchUp, previous, one, two, confirm
    <3>6. transit' \in [Nodes -> SUBSET StateType]
      BY <3>4, <3>5, TransitType
    <3>7. /\ chain' \in [Nodes -> Seq(Block)]
          /\ latestBallot' \in [Nodes -> SUBSET Ballot]
      BY <2>1, <3>2, <3>3, <3>5 DEF TypeOK
    <3>8. QED
      BY <2>2, <2>3, <3>5, <3>6, <3>7
      DEF TypeOK, CountFutureBallot, goroutines, syncer, environment
  <2>6. QED
    BY <1>7, <2>4, <2>5
<1>8. QED
  BY <1>1, <1>2, <1>3, <1>4, <1>5, <1>6, <1>7 DEF HandleBallot

LEMMA TypeStateManager ==
  ASSUME TypeOK, NEW n \in Nodes, StateManager(n)
  PROVE  TypeOK'
<1>1. ASSUME NEW t \in transit[n], StateTransit(n, t) \/ DropState(n, t)
      PROVE  TypeOK'
  <2>1. t \in StateType
    BY DEF TypeOK
  <2>2. transit' \in [Nodes -> SUBSET StateType]
    <3>1. transit' = [transit EXCEPT ![n] = transit[n] \ {t}]
      BY <1>1 DEF StateTransit, EnterState, DropState
    <3>2. QED
      BY <3>1 DEF TypeOK
  <2>3. /\ sm' \in [Nodes -> StateType]
        /\ proposing' \in [Nodes -> SUBSET StateType]
    <3>1. \/ proposing' = [proposing EXCEPT ![n] = {t}] /\ UNCHANGED sm
          \/ sm' = [sm EXCEPT ![n] = t] /\ UNCHANGED proposing
          \/ UNCHANGED <<sm, proposing>>
      BY <1>1 DEF StateTransit, EnterState, DropState
    <3>2. CASE proposing' = [proposing EXCEPT ![n] = {t}] /\ UNCHANGED sm
      BY <2>1, <3>2 DEF TypeOK
    <3>3. CASE sm' = [sm EXCEPT ![n] = t] /\ UNCHANGED proposing
      BY <2>1, <3>3 DEF TypeOK
    <3>4. CASE UNCHANGED <<sm, proposing>>
      BY <3>4 DEF TypeOK
    <3>5. QED
      BY <3>1, <3>2, <3>3, <3>4
  <2>4. timer' \in [Nodes -> BOOLEAN]
    <3>1. \/ \E x : timer' = [timer EXCEPT ![n] = x] /\ x \in BOOLEAN
          \/ timer' = timer
      <4>1. timer[n] \in BOOLEAN
        BY DEF TypeOK
      <4>2. QED
        BY <1>1, <4>1 DEF StateTransit, EnterState, DropState
    <3>2. QED
      BY <3>1 DEF TypeOK
  <2>5. UNCHANGED <<chain, goroutines, rounds, sent, mode, syncer, environment,
                    msgs>>
    BY <1>1 DEF StateTransit, EnterState, DropState
  <2>6. QED
    BY <2>2, <2>3, <2>4, <2>5
    DEF TypeOK, goroutines, rounds, syncer, environment
<1>2. ASSUME Propose(n)
      PROVE  TypeOK'
  <2> DEFINE proposal(t) ==
        [src |-> n, basis |-> BasisOf(n, t.round), state |-> INIT,
         vote |-> YES, body |-> NewBody(n, INIT), at |-> clock]
  <2>1. PICK t \in proposing[n] :
          /\ \/ /\ msgs' = msgs \cup Admitted(sent[n], <<proposal(t)>>)
                /\ sent' = [sent EXCEPT
                              ![n] = Recorded(sent[n], <<proposal(t)>>)]
             \/ UNCHANGED <<msgs, sent>>
          /\ proposing' = [proposing EXCEPT ![n] = {}]
          /\ sm' = [sm EXCEPT ![n] = t]
          /\ timer' = [timer EXCEPT ![n] = TRUE]
          /\ UNCHANGED <<chain, transit, goroutines, rounds, mode, syncer,
                         environment>>
    BY <1>2 DEF Propose
  <2>2. t \in StateType /\ t.round \in Nat
    BY DEF TypeOK, StateType
  <2>3. NewBody(n, INIT) \in Body
    BY DEF TypeOK, NewBody, Body
  <2>4. proposal(t) \in Ballot
    BY <2>2, <2>3, BasisOfType DEF TypeOK, Ballot, Holes
  <2> HIDE DEF proposal
  <2>5. /\ Admitted(sent[n], <<proposal(t)>>) \subseteq Ballot
        /\ Recorded(sent[n], <<proposal(t)>>) \in SUBSET StateType
    <3>1. sent[n] \in SUBSET StateType /\ <<proposal(t)>> \in Seq(Ballot)
      BY <2>4 DEF TypeOK
    <3>2. QED
      BY <3>1, SendType
  <2>6. msgs' \in SUBSET Ballot /\ sent' \in [Nodes -> SUBSET StateType]
    BY <2>1, <2>5 DEF TypeOK
  <2>7. QED
    BY <2>1, <2>2, <2>6 DEF TypeOK, goroutines, rounds, syncer, environment
<1>3. ASSUME TimeoutINIT(n)
      PROVE  TypeOK'
  <2>1. [sm[n] EXCEPT !.state = SIGN] \in StateType
    <3>1. sm[n] \in [height : Nat, round : Nat, state : BallotStates]
      BY DEF TypeOK, StateType
    <3>2. SIGN \in BallotStates
      BY DEF BallotStates
    <3>3. QED
      BY <3>1, <3>2 DEF StateType
  <2>2. sm' \in [Nodes -> StateType]
    BY <1>3, <2>1 DEF TypeOK, TimeoutINIT
  <2>3. QED
    BY <1>3, <2>2 DEF TypeOK, TimeoutINIT, Fired, rounds, syncer, environment
<1>4. ASSUME TimeoutVote(n)
      PROVE  TypeOK'
  <2>1. sm[n] \in [height : Nat, round : Nat, state : {SIGN, ACCEPT}]
    BY <1>4 DEF TypeOK, TimeoutVote, Fired, StateType
  <2>2. QED
    BY <1>4, <2>1 DEF TypeOK, TimeoutVote, Fired, rounds, syncer, environment
<1>5. ASSUME TimeoutALLCONFIRM(n)
      PROVE  TypeOK'
  <2>1. NextRound(n, lvb[n]) \in StateType
    BY NextRoundType DEF TypeOK
  <2>2. transit' \in [Nodes -> SUBSET StateType]
    BY <1>5, <2>1, TransitType DEF TimeoutALLCONFIRM
  <2>3. QED
    BY <1>5, <2>2 DEF TypeOK, TimeoutALLCONFIRM, Fired, rounds, syncer, environment
<1>6. ASSUME NEW t \in expiring[n], BroadcastExpired(n, t)
      PROVE  TypeOK'
  <2>1. t.round \in Nat /\ t.state \in Voting3
    BY DEF TypeOK, Voting3
  <2>2. ExpiredBallot(n, BasisOf(n, t.round), t.state) \in Ballot
    BY <2>1, BasisOfType, ExpiredType
  <2>3. /\ expiring' = [expiring EXCEPT ![n] = expiring[n] \ {t}]
        /\ expired' \in [Nodes -> SUBSET Ballot]
    BY <1>6, <2>2 DEF TypeOK, BroadcastExpired
  <2>4. expiring' \in [Nodes -> SUBSET [height : Nat, round : Nat,
                                        state : {SIGN, ACCEPT}]]
    BY <2>3 DEF TypeOK
  <2>5. QED
    BY <1>6, <2>3, <2>4 DEF TypeOK, BroadcastExpired, rounds, syncer, environment
<1>7. ASSUME NEW b \in expired[n], LookUpExpired(n, b)
      PROVE  TypeOK'
  <2>1. b \in Ballot
    BY DEF TypeOK
  <2>2. /\ expired' \in [Nodes -> SUBSET Ballot]
        /\ sending' \in [Nodes -> SUBSET Ballot]
    BY <1>7, <2>1 DEF TypeOK, LookUpExpired
  <2>3. QED
    BY <1>7, <2>2 DEF TypeOK, LookUpExpired, rounds, syncer, environment
<1>8. ASSUME NEW b \in sending[n], SendExpired(n, b)
      PROVE  TypeOK'
  <2>1. b \in Ballot /\ Slot(b) \in StateType
    BY SlotType DEF TypeOK
  <2>2. QED
    BY <1>8, <2>1 DEF TypeOK, SendExpired, rounds, syncer, environment
<1>9. QED
  BY <1>1, <1>2, <1>3, <1>4, <1>5, <1>6, <1>7, <1>8 DEF StateManager

\* A ledger with another block at one of its heights, or with one more.
LEMMA StoredAt ==
  ASSUME NEW l \in Seq(Block), NEW h, NEW blk \in Block
  PROVE  /\ [l EXCEPT ![h] = blk] \in Seq(Block)
         /\ Len([l EXCEPT ![h] = blk]) = Len(l)
         /\ Append(l, blk) \in Seq(Block)
         /\ Len(Append(l, blk)) = Len(l) + 1
<1> DEFINE s == [l EXCEPT ![h] = blk]
<1>1. Len(l) \in Nat /\ DOMAIN l = 1 .. Len(l) /\ \A i \in 1 .. Len(l) : l[i] \in Block
  BY SMTT(30)
<1>2. DOMAIN s = 1 .. Len(l) /\ \A i \in 1 .. Len(l) : s[i] \in Block
  BY <1>1
<1>3. s \in [1 .. Len(l) -> Block]
  BY <1>2
<1> HIDE DEF s
<1>4. s \in Seq(Block) /\ Len(s) = Len(l)
  BY <1>1, <1>3, SMTT(30)
<1>5. Append(l, blk) \in Seq(Block) /\ Len(Append(l, blk)) = Len(l) + 1
  BY SMTT(30)
<1>6. QED
  BY <1>4, <1>5 DEF s

LEMMA TypeEnvironment ==
  ASSUME TypeOK
  PROVE  /\ \A n \in Nodes : Syncer(n) => TypeOK'
         /\ \A n \in Nodes : Restart(n) => TypeOK'
         /\ Tick => TypeOK'
<1>1. ASSUME NEW n \in Nodes, NEW m \in Nodes, FindMissing(n, m)
      PROVE  TypeOK'
  <2>1. Height(n) \in 1 .. Len(chain[m])
    BY <1>1 DEF TypeOK, FindMissing, Height
  <2>2. chain[m][Height(n)] \in Block
    BY <2>1 DEF TypeOK
  <2>3. Missing(n, m) \in [height : Nat \ {0}, block : Block]
    BY <2>1, <2>2 DEF Missing
  <2>4. finishing' \in [Nodes -> SUBSET [height : Nat \ {0}, block : Block]]
    BY <1>1, <2>3 DEF TypeOK, FindMissing
  <2>5. QED
    BY <1>1, <2>4
    DEF TypeOK, FindMissing, manager, goroutines, rounds, environment
<1>2. ASSUME NEW n \in Nodes, NEW f \in finishing[n], SyncBlock(n, f)
      PROVE  TypeOK'
  <2>1. chain[n] \in Seq(Block) /\ f.block \in Block
    BY DEF TypeOK
  <2>2. /\ Append(chain[n], f.block) \in Seq(Block)
        /\ [chain[n] EXCEPT ![f.height] = f.block] \in Seq(Block)
    BY <2>1, StoredAt
  <2>3. chain' \in [Nodes -> Seq(Block)]
    BY <1>2, <2>2 DEF TypeOK, SyncBlock
  <2>4. finishing' \in [Nodes -> SUBSET [height : Nat \ {0}, block : Block]]
    BY <1>2 DEF TypeOK, SyncBlock
  <2>5. QED
    BY <1>2, <2>3, <2>4
    DEF TypeOK, SyncBlock, manager, goroutines, rounds, environment
<1>3. ASSUME NEW n \in Nodes, Restart(n)
      PROVE  TypeOK'
  <2>1. NextHeight(chain[n]) \in StateType
    BY NextHeightType DEF TypeOK
  <2>2. State(0, 0, INIT) \in StateType
    BY DEF State, StateType, BallotStates
  <2>3. QED
    BY <1>3, <2>1, <2>2 DEF TypeOK, Restart
<1>4. Tick => TypeOK'
  BY DEF TypeOK, Tick, manager, goroutines, rounds, syncer
<1>5. QED
  BY <1>1, <1>2, <1>3, <1>4 DEF Syncer

LEMMA TypeNext == TypeOK /\ [Next]_vars => TypeOK'
<1> SUFFICES ASSUME TypeOK, [Next]_vars
             PROVE  TypeOK'
  OBVIOUS
<1>1. CASE Next
  BY <1>1, TypeHandleBallot, TypeStateManager, TypeEnvironment DEF Next
<1>2. CASE UNCHANGED vars
  BY <1>2 DEF TypeOK, vars, manager, goroutines, rounds, syncer, environment
<1>3. QED
  BY <1>1, <1>2

\* The state that the ballot handlers, the state manager and the syncer share
\* keeps its shape, for any number of validators, any threshold, any schedule.
THEOREM TypeCorrect == Spec => []TypeOK
BY TypeInit, TypeNext, PTL DEF Spec

-----------------------------------------------------------------------------
(***************************************************************************)
(* The state manager only moves forward                                    *)
(***************************************************************************)

\* What the loop is proposing for is later than the state it is in.
OnlyLater ==
  \A n \in Nodes : \A t \in proposing[n] : IsLater(sm[n], t)

SmForward ==
  \A n \in Nodes : \/ sm'[n] = sm[n]
                   \/ IsLater(sm[n], sm'[n])
                   \/ crashes'[n] # crashes[n]

\* Only the loop itself moves on.
LEMMA OthersLeaveManager ==
  ASSUME NEW n, HandleBallot(n) \/ Syncer(n)
  PROVE  UNCHANGED <<sm, proposing>>
<1>1. ASSUME NEW b, HandleOldBallot(n, b) \/ HandleINITBallot(n, b)
                    \/ CountBallot(n, b) \/ HandleFutureBallot(n, b)
      PROVE  UNCHANGED <<sm, proposing>>
  BY <1>1 DEF HandleOldBallot, HandleINITBallot, CountBallot,
              HandleFutureBallot, CountFutureBallot, manager
<1>2. ASSUME NEW b, NEW before,
             \/ HandleSIGNBallot(n, before, b)
             \/ FailToStore(n, before, b)
             \/ StoreBlock(n, before, b)
             \/ RejectRound(n, before, b)
             \/ StartSync(n, before, b)
             \/ CatchUp(n, before, b)
      PROVE  UNCHANGED <<sm, proposing>>
  BY <1>2 DEF HandleSIGNBallot, FailToStore, StoreBlock, RejectRound,
              CountACCEPTBallot, StartSync, CatchUp, CountFutureBallot
<1>3. ASSUME NEW x, FindMissing(n, x) \/ SyncBlock(n, x)
      PROVE  UNCHANGED <<sm, proposing>>
  BY <1>3 DEF FindMissing, SyncBlock, manager
<1>4. QED
  BY <1>1, <1>2, <1>3 DEF HandleBallot, Syncer

LEMMA OrderStateManager ==
  ASSUME TypeOK, OnlyLater, NEW n \in Nodes, StateManager(n)
  PROVE  OnlyLater' /\ SmForward
<1>1. ASSUME NEW t \in transit[n], StateTransit(n, t)
      PROVE  OnlyLater' /\ SmForward
  <2>1. IsLater(sm[n], t) /\ proposing[n] = {}
    BY <1>1 DEF StateTransit, EnterState
  <2>2. CASE proposing' = [proposing EXCEPT ![n] = {t}] /\ UNCHANGED sm
    BY <2>1, <2>2 DEF TypeOK, OnlyLater, SmForward
  <2>3. CASE sm' = [sm EXCEPT ![n] = t] /\ UNCHANGED proposing
    BY <2>1, <2>3 DEF TypeOK, OnlyLater, SmForward
  <2>4. QED
    BY <1>1, <2>2, <2>3 DEF StateTransit, EnterState
<1>2. ASSUME Propose(n)
      PROVE  OnlyLater' /\ SmForward
  <2>1. PICK t \in proposing[n] :
          /\ proposing' = [proposing EXCEPT ![n] = {}]
          /\ sm' = [sm EXCEPT ![n] = t]
    BY <1>2 DEF Propose
  <2>2. IsLater(sm[n], t)
    BY DEF OnlyLater
  <2>3. QED
    BY <2>1, <2>2 DEF TypeOK, OnlyLater, SmForward
<1>3. ASSUME TimeoutINIT(n)
      PROVE  OnlyLater' /\ SmForward
  <2> DEFINE next == [sm[n] EXCEPT !.state = SIGN]
  <2>1. sm[n] \in [height : Nat, round : Nat, state : BallotStates]
    BY DEF TypeOK, StateType
  <2>2. sm[n].state = INIT /\ proposing[n] = {}
    BY <1>3 DEF TimeoutINIT, Fired
  <2>3. IsLater(sm[n], next)
    BY <2>1, <2>2 DEF IsLater
  <2>4. sm' = [sm EXCEPT ![n] = next] /\ proposing' = proposing
    BY <1>3 DEF TimeoutINIT, Fired
  <2> HIDE DEF next
  <2>5. QED
    BY <2>2, <2>3, <2>4 DEF TypeOK, OnlyLater, SmForward
<1>4. ASSUME UNCHANGED <<sm, proposing>>
      PROVE  OnlyLater' /\ SmForward
  BY <1>4 DEF OnlyLater, SmForward
<1>5. ASSUME TimeoutVote(n) \/ TimeoutALLCONFIRM(n)
      PROVE  UNCHANGED <<sm, proposing>>
  BY <1>5 DEF TimeoutVote, TimeoutALLCONFIRM, Fired
<1>6. ASSUME NEW t, \/ DropState(n, t) \/ BroadcastExpired(n, t)
                    \/ LookUpExpired(n, t) \/ SendExpired(n, t)
      PROVE  UNCHANGED <<sm, proposing>>
  BY <1>6 DEF DropState, BroadcastExpired, LookUpExpired, SendExpired
<1>7. QED
  BY <1>1, <1>2, <1>3, <1>4, <1>5, <1>6 DEF StateManager

LEMMA OrderNext == TypeOK /\ OnlyLater /\ [Next]_vars => OnlyLater' /\ SmForward
<1> SUFFICES ASSUME TypeOK, OnlyLater, [Next]_vars
             PROVE  OnlyLater' /\ SmForward
  OBVIOUS
<1>1. ASSUME UNCHANGED <<sm, proposing>>
      PROVE  OnlyLater' /\ SmForward
  BY <1>1 DEF OnlyLater, SmForward
<1>2. ASSUME NEW n \in Nodes, Restart(n)
      PROVE  OnlyLater' /\ SmForward
  <2>1. /\ crashes' = [crashes EXCEPT ![n] = crashes[n] + 1]
        /\ sm' = [sm EXCEPT ![n] = State(0, 0, INIT)]
        /\ proposing' = [proposing EXCEPT ![n] = {}]
    BY <1>2 DEF Restart
  <2>2. crashes'[n] # crashes[n]
    BY <2>1 DEF TypeOK
  <2>3. QED
    BY <2>1, <2>2 DEF TypeOK, OnlyLater, SmForward
<1>3. CASE Tick \/ UNCHANGED vars
  BY <1>1, <1>3 DEF Tick, vars, manager
<1>4. QED
  BY <1>1, <1>2, <1>3, OthersLeaveManager, OrderStateManager DEF Next

\* Whatever the handlers, timers and goroutines of a validator do, and in
\* whatever order the loop receives what they hand to it, its state manager
\* never returns to a state that it has passed, except on a restart.
THEOREM NeverGoesBack == Spec => StateNeverGoesBack
<1>1. Init => OnlyLater
  BY DEF Init, OnlyLater
<1>2. SmForward => (\A n \in Nodes : \/ sm'[n] = sm[n]
                                     \/ IsLater(sm[n], sm'[n])
                                     \/ crashes'[n] # crashes[n])
  BY DEF SmForward
<1>3. QED
  BY <1>1, <1>2, OrderNext, TypeInit, TypeNext, PTL DEF Spec, StateNeverGoesBack
=============================================================================
