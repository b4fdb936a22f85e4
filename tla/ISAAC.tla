------------------------------- MODULE ISAAC --------------------------------
(***************************************************************************)
(* ISAAC consensus as the validators of a sebak network run it: the ballot *)
(* handlers of node/runner/checker.go, which one goroutine of each node    *)
(* runs one message at a time; the loop of ISAACStateManager and the       *)
(* goroutines that it and TransitISAACState start; and the state that they *)
(* share (running rounds, latest voting basis, ballot send record, ledger).*)
(*                                                                         *)
(* A block is the round that decided it and the proposed part of the       *)
(* ballot it was built from; the hash of a block is the ledger up to and   *)
(* including it, so that equal hashes mean equal histories.  The genesis   *)
(* block is left implicit and has height 1.                                *)
(*                                                                         *)
(* The network is the set of all ballots ever broadcast.  A ballot may     *)
(* reach a node at any time, any number of times, in any order, or never.  *)
(***************************************************************************)
EXTENDS Voting, Sequences

CONSTANTS
  MaxHeight,  \* bound: no ballot is cast above this height
  MaxRound,   \* bound: no round above this one is entered
  MaxClock,   \* bound: how often the one-minute validity window runs out
  MaxCrash,   \* bound: restarts stop once a node has started this often again
  Timeouts,   \* ballot states in which the state manager's timer may fire
  InitVotes,  \* holes that validating a proposal of another node may give
  Lagging,    \* nodes no ballot reaches until the others have reached MaxHeight
  Faults      \* scheduling and storage hazards that are let happen

ASSUME BoundsAssumption ==
  /\ MaxHeight \in Nat \ {0}
  /\ {MaxRound, MaxClock, MaxCrash} \subseteq Nat
  /\ Timeouts \subseteq BallotStates
  /\ InitVotes \subseteq {YES, NO} /\ InitVotes # {}
  /\ Lagging \subseteq Nodes

\* "sleep": ballots are handled while the loop of the state manager sleeps
\*          before it proposes
\* "slow":  the loop and its goroutines may fall behind the message handler
\*          and the timer of their own node
\* "race":  broadcastExpiredBallot may be overtaken by the message handler
\*          between looking at the send record and writing it
\* "fail":  making a proposal, or storing a block, may fail
ASSUME FaultsAssumption ==
  Faults \subseteq {"sleep", "slow", "race", "fail"}

VARIABLES
  chain,         \* ledger of each node, without the genesis block
  sm,            \* ISAACStateManager.state
  timer,         \* is the timer of the state manager running?
  transit,       \* states that goroutines wait to hand to the loop
  proposing,     \* the INIT state the loop is proposing for, while it sleeps
  expiring,      \* broadcastExpiredBallot goroutines that have just started
  expired,       \* expired ballots that BroadcastBallot has not looked up yet
  sending,       \* expired ballots past the Sent check, not yet recorded
  lvb,           \* ISAAC.latestVotingBasis
  voted,         \* ballots counted in ISAAC.RunningRounds
  sent,          \* BallotSendRecord.record
  mode,          \* LocalNode.state
  latestBallot,  \* ISAAC.LatestBallot, as a set of at most one ballot
  syncHeight,    \* ISAAC.latestReqSyncHeight
  finishing,     \* blocks that the syncer found missing and has yet to commit
  crashes,       \* how often each node was restarted
  clock,         \* number of one-minute windows that have passed
  msgs           \* all ballots ever broadcast

goroutines == <<expiring, expired, sending>>
manager == <<sm, timer, transit, proposing, goroutines>>
rounds == <<lvb, voted, latestBallot>>
syncer == <<syncHeight, finishing>>
environment == <<crashes, clock>>
vars == <<chain, manager, rounds, sent, mode, syncer, environment, msgs>>

-----------------------------------------------------------------------------
(***************************************************************************)
(* Data                                                                    *)
(***************************************************************************)

\* BallotBodyProposed: the node that made and signed it, the ballot state it
\* was made for, and when.
Body == [by : Nodes, of : {INIT, SIGN, ACCEPT}, at : Nat, run : Nat]

Block == [round : Nat, body : Body]

Basis == [height : Nat \ {0}, round : Nat, hash : Seq(Block)]

Ballot == [src : Nodes, basis : Basis, state : {INIT, SIGN, ACCEPT},
           vote : Holes, body : Body, at : Nat]

StateType == [height : Nat, round : Nat, state : BallotStates]

\* The ISAACState under which a ballot is recorded as sent.
Slot(b) == State(b.basis.height, b.basis.round, b.state)

Height(n) == Len(chain[n]) + 1

BasisOf(n, r) == [height |-> Height(n), round |-> r, hash |-> chain[n]]

NewBody(n, s) == [by |-> n, of |-> s, at |-> clock, run |-> crashes[n]]

\* finishBallotWithProposedTxs: the block that a ballot is turned into.
NewBlock(b) == [round |-> b.basis.round, body |-> b.body]

\* ISAAC.GenerateExpiredBallot
ExpiredBallot(n, basis, s) ==
  [src |-> n, basis |-> basis, state |-> s, vote |-> EXP,
   body |-> NewBody(n, s), at |-> clock]

\* SetSource, SetVote and Sign on a copy of the ballot in hand.
Resign(n, b, s, hole) ==
  [b EXCEPT !.src = n, !.state = s, !.vote = hole, !.at = clock]

\* CheckHasCorrectTime on the ballot and, unless it is an EXP ballot, on its
\* proposed part.
HasCorrectTime(b) ==
  b.at = clock /\ (b.vote # EXP => b.body.at = clock)

\* Ballot.IsWellFormed beyond the time: only the proposer of the round can
\* have signed the proposed part, which EXP ballots are not checked for.
IsWellFormed(b) ==
  b.vote # EXP => b.body.by = SelectProposer(b.basis.height, b.basis.round)

-----------------------------------------------------------------------------
(***************************************************************************)
(* ISAAC: the voting basis and the running rounds                          *)
(***************************************************************************)

\* Mutant of IsValidVotingBasis: without a latest voting basis only the first
\* height is let through, so that a ledger got by sync is of no use.
IsValidVotingBasisFirst(n, basis) ==
  /\ basis.height = Height(n)
  /\ IF lvb[n] = {} THEN basis.height = 1
     ELSE /\ basis.hash = chain[n]
          /\ \A l \in lvb[n] : l.height = basis.height => l.round < basis.round

\* ISAAC.IsValidVotingBasis.  lvb[n] is empty until a first round is over.
IsValidVotingBasis(n, basis) ==
  /\ basis.height = Height(n)
  /\ \/ lvb[n] = {} /\ basis.height = 1
     \/ /\ basis.hash = chain[n]
        /\ \A l \in lvb[n] : l.height = basis.height => l.round < basis.round

\* ISAAC.IsVoted
IsVoted(n, b) == \E x \in voted[n] : x.src = b.src /\ Slot(x) = Slot(b)

\* Mutant of GetResult: SIGN and ACCEPT ballots are kept in one result.
GetResultOfRound(counted, slot) == {x \in counted : x.basis.round = slot.round}

\* The RoundVoteResult of a slot among counted ballots.
GetResult(counted, slot) == {x \in counted : Slot(x) = slot}

\* Mutant of StillInTime: the ballots of a round stay for as long as it lasts.
AllStay(counted, slot) == counted

\* ISAAC.RemoveOldBallots: what stays of the ballots counted in a slot.
StillInTime(counted, slot) ==
  {x \in counted : Slot(x) = slot => x.at = clock /\ x.body.at = clock}

\* ISAAC.RemoveRunningRoundsLowerOrEqualHeight
AboveHeight(counted, h) == {x \in counted : x.basis.height > h}

\* ISAAC.RemoveRunningRoundsLowerOrEqualBasis
AboveBasis(counted, basis) ==
  {x \in counted : \/ x.basis.height > basis.height
                   \/ /\ x.basis.height = basis.height
                      /\ x.basis.round > basis.round}

-----------------------------------------------------------------------------
(***************************************************************************)
(* The send record, the network and the hand-over to the state manager     *)
(***************************************************************************)

\* Mutant of Admitted: the send record is not looked at.
AdmittedAlways(record, out) == {out[i] : i \in DOMAIN out}

\* NodeRunner.BroadcastBallot, called for `out' in turn while `record' is the
\* send record: a ballot whose slot is recorded is not broadcast.
Admitted(record, out) ==
  {out[i] : i \in {j \in DOMAIN out :
      /\ Slot(out[j]) \notin record
      /\ \A k \in 1 .. j - 1 : Slot(out[k]) # Slot(out[j])}}

Recorded(record, out) == record \cup {Slot(out[i]) : i \in DOMAIN out}

\* The targets that come after the current state.
Later(current, targets) == {t \in targets : IsLater(current, t)}

\* ISAACStateManager.TransitISAACState: a goroutine for each target later than
\* the current state.
TransitISAACState(n, targets) ==
  transit' = [transit EXCEPT ![n] = @ \cup Later(sm[n], targets)]

LatestVotingRound(l) == IF l = {} THEN 0 ELSE (CHOOSE x \in l : TRUE).round

\* ISAACStateManager.NextRound, where l is the latest voting basis.
NextRound(n, l) ==
  State(sm[n].height, LatestVotingRound(l) + 1, INIT)

\* ISAACStateManager.NextHeight, for a ledger of the given length.
NextHeight(ledger) == State(Len(ledger) + 1, 0, INIT)

\* Would the loop of the state manager go to state t, within the bounds?
Within(t) == t.height <= MaxHeight /\ t.round <= MaxRound

\* A restriction of the schedules that the model looks at, not of the code: no
\* goroutine of a state manager has something left to do, or they need not be
\* prompt.  A node that has left the bounds of the model does no more.
Settled(n) ==
  /\ "race" \in Faults \/ \A m \in Nodes : sending[m] = {}
  /\ "sleep" \in Faults \/ \A m \in Nodes : proposing[m] = {}
  /\ \/ "slow" \in Faults
     \/ /\ transit[n] = {} \/ proposing[n] # {}
        /\ \A m \in Nodes :
             /\ expiring[m] = {} /\ expired[m] = {}
             /\ proposing[m] # {} \/ \A t \in transit[m] : ~Within(t)

\* Ballots reach n, and n can handle one.
Receiving(n) ==
  /\ Settled(n)
  /\ n \in Lagging => \A m \in Nodes \ Lagging : Height(m) > MaxHeight

-----------------------------------------------------------------------------
(***************************************************************************)
(* The message goroutine: handleBallotMessage                              *)
(***************************************************************************)

\* BallotCheckBasis, which lets every ballot of the node itself through.
BallotCheckBasis(n, b) ==
  b.src = n \/ IsValidVotingBasis(n, b.basis)

\* The ballots that pass the base checkers at n.
Received(n) ==
  IF ~Receiving(n) THEN {}
  ELSE {b \in msgs : /\ BallotCheckBasis(n, b)
                     /\ HasCorrectTime(b) /\ IsWellFormed(b)}

\* BallotUnmarshal for a ballot that is out of time.
HandleOldBallot(n, b) ==
  /\ IsValidForVote(b.state) /\ ~HasCorrectTime(b)
  /\ Receiving(n)
  /\ LET out == <<ExpiredBallot(n, b.basis, b.state)>>
     IN  /\ msgs' = msgs \cup Admitted(sent[n], out)
         /\ sent' = [sent EXCEPT ![n] = Recorded(@, out)]
  /\ UNCHANGED <<chain, manager, rounds, mode, syncer, environment>>

\* The checkers of INIT ballots: the node validates the proposal and votes.
HandleINITBallot(n, b) ==
  /\ b.state = INIT
  /\ \E hole \in IF b.src = n THEN {YES} ELSE InitVotes :
       LET out == <<Resign(n, b, SIGN, hole)>>
       IN  /\ msgs' = msgs \cup Admitted(sent[n], out)
           /\ sent' = [sent EXCEPT ![n] = Recorded(@, out)]
  /\ TransitISAACState(n, {State(b.basis.height, b.basis.round, SIGN)})
  /\ UNCHANGED <<chain, sm, timer, proposing, goroutines, rounds, mode,
                 syncer, environment>>

(***************************************************************************)
(* A ballot that leaves its round without a result changes only the votes  *)
(* counted by the node that handles it.  Until time passes, the model      *)
(* groups the handling of such ballots, `before', with that of the ballot  *)
(* b that ends the group: the first one to give the round a result.        *)
(***************************************************************************)

\* The ballots counted in the slot of b once those of `more' are, without
\* the ones that RemoveOldBallots drops.
Counted(n, more, b) == StillInTime(voted[n] \cup more, Slot(b))

\* BallotCheckResult
Result(n, more, b) == CanGetVotingResult(GetResult(Counted(n, more, b), Slot(b)))

\* The SIGN and ACCEPT ballots that also pass BallotAlreadyVoted.
Votes(n) == {b \in Received(n) : IsValidForVote(b.state) /\ ~IsVoted(n, b)}

\* Selections, out of some ballots, of ones that go with b.
Selections(votes, b) ==
  {W \in SUBSET {x \in votes : Slot(x) = Slot(b) /\ x.src # b.src} :
     \A x, y \in W : x.src = y.src => x = y}

\* The groups of ballots, out of some, that n may have handled just before b.
Groups(n, votes, b) ==
  {W \in Selections(votes, b) : W # {} => Result(n, W, b) = NOTYET}

\* BallotRenewal: a ballot of the node itself went out of time.  The record
\* of it is cleared (InitSent) and an expired ballot is broadcast.
NeedRenewal(n, more, b) ==
  \E x \in (voted[n] \cup more) \ Counted(n, more, b) : x.src = n

Renewal(n, more, b) ==
  IF NeedRenewal(n, more, b) THEN <<ExpiredBallot(n, b.basis, b.state)>>
  ELSE <<>>

RenewedRecord(n, more, b) ==
  IF NeedRenewal(n, more, b) THEN sent[n] \ {Slot(b)} ELSE sent[n]

\* Ballots may go out of time after these are counted, or have done so.
TimeMatters(n, more, b) ==
  clock < MaxClock \/ Counted(n, more, b) # voted[n] \cup more

\* A ballot that leaves its round without a result, with BallotRenewal.  It is
\* handled on its own if time matters.
CountBallot(n, b) ==
  LET out == Renewal(n, {b}, b)
  IN  /\ TimeMatters(n, {b}, b)
      /\ Result(n, {b}, b) = NOTYET
      /\ voted' = [voted EXCEPT ![n] = Counted(n, {b}, b)]
      /\ msgs' = msgs \cup Admitted(RenewedRecord(n, {b}, b), out)
      /\ sent' = [sent EXCEPT ![n] = Recorded(RenewedRecord(n, {b}, b), out)]
      /\ UNCHANGED <<chain, manager, lvb, latestBallot, mode, syncer,
                     environment>>

\* What a SIGN ballot with a result is answered with.
ReplyTo(n, b, result) ==
  IF result = EXP THEN Resign(n, b, SIGN, EXP) ELSE Resign(n, b, ACCEPT, result)

\* The checkers of SIGN ballots.  Once a round has a result, every further SIGN
\* ballot is counted as well, and repeats the answer and the transition: the
\* model leaves such a ballot out if time does not matter and the answer is
\* recorded, as it only adds to the votes then.
HandleSIGNBallot(n, before, b) ==
  LET more == before \cup {b}
      result == Result(n, more, b)
      out == Renewal(n, more, b) \o <<ReplyTo(n, b, result)>>
  IN  /\ b.state = SIGN
      /\ result # NOTYET
      /\ \/ Result(n, before, b) = NOTYET
         \/ TimeMatters(n, more, b)
         \/ Slot(ReplyTo(n, b, result)) \notin sent[n]
      /\ msgs' = msgs \cup Admitted(RenewedRecord(n, more, b), out)
      /\ sent' = [sent EXCEPT ![n] = Recorded(RenewedRecord(n, more, b), out)]
      /\ \/ /\ result = EXP
            /\ lvb' = [lvb EXCEPT ![n] = {b.basis}]
            /\ voted' = [voted EXCEPT
                           ![n] = AboveBasis(Counted(n, more, b), b.basis)]
            /\ TransitISAACState(n, {NextRound(n, {b.basis})})
         \/ /\ result # EXP
            /\ voted' = [voted EXCEPT ![n] = Counted(n, more, b)]
            /\ TransitISAACState(n,
                 {State(b.basis.height, b.basis.round, ACCEPT)})
            /\ UNCHANGED lvb
      /\ UNCHANGED <<chain, sm, timer, proposing, goroutines,
                     latestBallot, mode, syncer, environment>>

\* Mutant of Extends: a ballot of a later height is let through.
ExtendsLater(ledger, b) == b.basis.height >= Len(ledger) + 1

\* isValidRound: a ballot extends the ledger if it was cast on top of it.
Extends(ledger, b) ==
  b.basis.height = Len(ledger) + 1 /\ b.basis.hash = ledger

\* The checkers of ACCEPT ballots, as far as BallotRenewal.
CountACCEPTBallot(n, more, b) ==
  /\ b.state = ACCEPT
  /\ msgs' = msgs \cup Admitted(RenewedRecord(n, more, b), Renewal(n, more, b))
  /\ UNCHANGED <<sm, timer, proposing, goroutines, latestBallot,
                 syncer, environment>>

RecordAfter(n, more, b) ==
  Recorded(RenewedRecord(n, more, b), Renewal(n, more, b))

\* FinishedBallotStore for YES when the block cannot be stored.
FailToStore(n, before, b) ==
  LET more == before \cup {b}
  IN  /\ CountACCEPTBallot(n, more, b)
      /\ Result(n, more, b) = YES
      /\ "fail" \in Faults \/ ~Extends(chain[n], b)
      /\ TransitISAACState(n,
           {State(b.basis.height, b.basis.round, ALLCONFIRM)})
      /\ voted' = [voted EXCEPT ![n] = Counted(n, more, b)]
      /\ sent' = [sent EXCEPT ![n] = RecordAfter(n, more, b)]
      /\ UNCHANGED <<chain, lvb, mode>>

\* FinishedBallotStore for YES: the block is stored from the ballot in hand.
StoreBlock(n, before, b) ==
  LET more == before \cup {b}
  IN  /\ CountACCEPTBallot(n, more, b)
      /\ Result(n, more, b) = YES
      /\ Extends(chain[n], b)
      /\ chain' = [chain EXCEPT ![n] = Append(@, NewBlock(b))]
      /\ mode' = [mode EXCEPT ![n] = "CONSENSUS"]
      /\ lvb' = [lvb EXCEPT ![n] = {b.basis}]
      /\ voted' = [voted EXCEPT
                     ![n] = AboveHeight(Counted(n, more, b), b.basis.height)]
      /\ sent' = [sent EXCEPT
                    ![n] = {t \in RecordAfter(n, more, b) :
                              t.height > b.basis.height}]
      /\ TransitISAACState(n,
           {State(b.basis.height, b.basis.round, ALLCONFIRM),
            NextHeight(Append(chain[n], NewBlock(b)))})

\* FinishedBallotStore for NO and EXP: on to the next round.
RejectRound(n, before, b) ==
  LET more == before \cup {b}
  IN  /\ CountACCEPTBallot(n, more, b)
      /\ Result(n, more, b) \in {NO, EXP}
      /\ lvb' = [lvb EXCEPT ![n] = {b.basis}]
      /\ voted' = [voted EXCEPT
                     ![n] = AboveBasis(Counted(n, more, b), b.basis)]
      /\ sent' = [sent EXCEPT ![n] = RecordAfter(n, more, b)]
      /\ TransitISAACState(n, {NextRound(n, {b.basis})})
      /\ UNCHANGED <<chain, mode>>

-----------------------------------------------------------------------------
(***************************************************************************)
(* The message goroutine: BallotCheckSYNC                                  *)
(***************************************************************************)

\* The node counts ACCEPT ballots of heights that it has not reached.
FutureVotes(n) ==
  IF ~Receiving(n) THEN {}
  ELSE {b \in msgs : /\ b.state = ACCEPT /\ b.vote \in {YES, EXP}
                     /\ b.basis.height > Height(n) /\ b.src # n
                     /\ HasCorrectTime(b) /\ IsWellFormed(b)
                     /\ ~IsVoted(n, b)}

FutureResult(n, more, b) ==
  CanGetVotingResult(GetResult(voted[n] \cup more, Slot(b)))

\* As with Groups: ballots that call for nothing go with the one that does.
FutureGroups(n, votes, b) ==
  {W \in Selections(votes, b) : W # {} => FutureResult(n, W, b) # YES}

CountFutureBallot(n, before, b) ==
  /\ voted' = [voted EXCEPT ![n] = @ \cup before \cup {b}]
  /\ UNCHANGED <<sm, timer, proposing, goroutines, lvb, sent,
                 environment, msgs>>

\* A ballot that calls for nothing, on its own as long as time can pass.
HandleFutureBallot(n, b) ==
  /\ clock < MaxClock
  /\ FutureResult(n, {b}, b) # YES
  /\ CountFutureBallot(n, {}, b)
  /\ UNCHANGED <<chain, transit, mode, latestBallot, syncer>>

\* More than one block behind: ISAAC.StartSync.
StartSync(n, before, b) ==
  /\ FutureResult(n, before \cup {b}, b) = YES
  /\ Height(n) < b.basis.height - 1
  /\ CountFutureBallot(n, before, b)
  /\ latestBallot' = [latestBallot EXCEPT ![n] = {b}]
  /\ IF syncHeight[n] < b.basis.height
     THEN /\ mode' = [mode EXCEPT ![n] = "SYNC"]
          /\ syncHeight' = [syncHeight EXCEPT ![n] = b.basis.height]
     ELSE UNCHANGED <<mode, syncHeight>>
  /\ UNCHANGED <<chain, transit, finishing>>

\* One block behind: the node stores the ballot that gave it a result before,
\* if there is one, then the one in hand, and goes on to the next height; it
\* stops at the first of the two that does not extend its ledger.
CatchUp(n, before, b) ==
  LET previous == IF latestBallot[n] = {} THEN b
                  ELSE CHOOSE x \in latestBallot[n] : TRUE
      one == Append(chain[n], NewBlock(previous))
      two == Append(one, NewBlock(b))
      confirm(x) == State(x.basis.height, x.basis.round, ALLCONFIRM)
  IN  /\ FutureResult(n, before \cup {b}, b) = YES
      /\ Height(n) = b.basis.height - 1
      /\ CountFutureBallot(n, before, b)
      /\ latestBallot' = [latestBallot EXCEPT ![n] = {b}]
      /\ \/ /\ "fail" \in Faults \/ ~Extends(chain[n], previous)
            /\ TransitISAACState(n, {confirm(previous)})
            /\ UNCHANGED chain
         \/ /\ Extends(chain[n], previous)
            /\ "fail" \in Faults \/ ~Extends(one, b)
            /\ chain' = [chain EXCEPT ![n] = one]
            /\ TransitISAACState(n, {confirm(previous), confirm(b)})
         \/ /\ Extends(chain[n], previous)
            /\ Extends(one, b)
            /\ chain' = [chain EXCEPT ![n] = two]
            /\ TransitISAACState(n,
                 {confirm(previous), confirm(b), NextHeight(two)})
      /\ UNCHANGED <<mode, syncer>>

\* The block of m that the syncer of n would finish next, one of those up to
\* syncHeight.
Missing(n, m) == [height |-> Height(n), block |-> chain[m][Height(n)]]

\* BlockValidator.finishBlock up to the last check that the block is missing, the
\* one that Block.Save makes.
FindMissing(n, m) ==
  /\ Height(n) < Height(m) /\ Height(n) < syncHeight[n]
  /\ SubSeq(chain[m], 1, Len(chain[n])) = chain[n]
  /\ finishing' = [finishing EXCEPT ![n] = @ \cup {Missing(n, m)}]
  /\ UNCHANGED <<chain, manager, rounds, sent, mode, syncHeight, environment,
                 msgs>>

\* The rest of finishBlock: the commit writes over whatever has been stored at
\* that height meanwhile.
SyncBlock(n, f) ==
  /\ f \in finishing[n]
  /\ finishing' = [finishing EXCEPT ![n] = @ \ {f}]
  /\ chain' = [chain EXCEPT ![n] = IF f.height = Len(@) + 1
                                  THEN Append(@, f.block)
                                  ELSE [@ EXCEPT ![f.height] = f.block]]
  /\ UNCHANGED <<manager, rounds, sent, mode, syncHeight, environment, msgs>>

-----------------------------------------------------------------------------
(***************************************************************************)
(* ISAACStateManager                                                       *)
(***************************************************************************)

\* What the loop does with a state that it goes to.  A proposer sleeps first.
EnterState(n, t) ==
  /\ t \in transit[n] /\ proposing[n] = {}
  /\ Within(t)
  /\ transit' = [transit EXCEPT ![n] = @ \ {t}]
  /\ IF /\ t.state = INIT /\ mode[n] = "CONSENSUS"
        /\ SelectProposer(Height(n), t.round) = n
     THEN /\ proposing' = [proposing EXCEPT ![n] = {t}]
          /\ timer' = [timer EXCEPT ![n] = FALSE]
          /\ UNCHANGED sm
     ELSE /\ sm' = [sm EXCEPT ![n] = t]
          /\ timer' = [timer EXCEPT
                         ![n] = @ \/ t.state # INIT \/ mode[n] = "CONSENSUS"]
          /\ UNCHANGED proposing
  /\ UNCHANGED <<chain, goroutines, rounds, sent, mode, syncer, environment,
                 msgs>>

\* Mutant of StateTransit: a state that the loop receives is not compared with
\* the one it is in.
StateTransitUnchecked(n, t) == EnterState(n, t)

\* The loop receives a state that is still later than its own.
StateTransit(n, t) == IsLater(sm[n], t) /\ EnterState(n, t)

\* The loop receives a state that it has passed since the state was handed over.
DropState(n, t) ==
  /\ t \in transit[n] /\ proposing[n] = {}
  /\ ~IsLater(sm[n], t)
  /\ transit' = [transit EXCEPT ![n] = @ \ {t}]
  /\ UNCHANGED <<chain, sm, timer, proposing, goroutines, rounds, sent, mode,
                 syncer, environment, msgs>>

\* proposeNewBallot when the sleep is over, on the block that is then latest.
Propose(n) ==
  \E t \in proposing[n] :
    LET out == <<[src |-> n, basis |-> BasisOf(n, t.round), state |-> INIT,
                  vote |-> YES, body |-> NewBody(n, INIT), at |-> clock]>>
    IN  /\ Height(n) <= MaxHeight
        /\ \/ /\ msgs' = msgs \cup Admitted(sent[n], out)
              /\ sent' = [sent EXCEPT ![n] = Recorded(@, out)]
           \/ "fail" \in Faults /\ UNCHANGED <<msgs, sent>>
        /\ proposing' = [proposing EXCEPT ![n] = {}]
        /\ sm' = [sm EXCEPT ![n] = t]
        /\ timer' = [timer EXCEPT ![n] = TRUE]
        /\ UNCHANGED <<chain, transit, goroutines, rounds, mode, syncer,
                       environment>>

\* The timer fires, and the loop is not busy.
Fired(n, s) ==
  /\ timer[n] /\ sm[n].state = s /\ s \in Timeouts
  /\ proposing[n] = {} /\ Settled(n)
  /\ UNCHANGED <<chain, proposing, expired, sending, rounds, sent, mode, syncer,
                 environment, msgs>>

TimeoutINIT(n) ==
  /\ Fired(n, INIT)
  /\ sm' = [sm EXCEPT ![n].state = SIGN]
  /\ UNCHANGED <<timer, transit, expiring>>

\* Mutants of TimeoutVote: a timeout in SIGN goes on to the next round; a
\* goroutine is started in whatever state the node is.
TimeoutNextRound(n) ==
  /\ Fired(n, SIGN)
  /\ timer' = [timer EXCEPT ![n] = FALSE]
  /\ TransitISAACState(n, {NextRound(n, lvb[n])})
  /\ UNCHANGED <<sm, expiring>>

TimeoutAnyState(n) ==
  /\ \E s \in BallotStates : Fired(n, s)
  /\ timer' = [timer EXCEPT ![n] = FALSE]
  /\ expiring' = [expiring EXCEPT ![n] = @ \cup {sm[n]}]
  /\ UNCHANGED <<sm, transit>>

\* In SIGN and ACCEPT a goroutine is started, unless the node has voted, and
\* the timer is not set again.  A timer that fires to no effect is as good as
\* one that has not fired.
TimeoutVote(n) ==
  /\ \E s \in {SIGN, ACCEPT} : Fired(n, s)
  /\ mode[n] = "CONSENSUS" /\ sm[n] \notin sent[n]
  /\ timer' = [timer EXCEPT ![n] = FALSE]
  /\ expiring' = [expiring EXCEPT ![n] = @ \cup {sm[n]}]
  /\ UNCHANGED <<sm, transit>>

TimeoutALLCONFIRM(n) ==
  /\ Fired(n, ALLCONFIRM)
  /\ timer' = [timer EXCEPT ![n] = FALSE]
  /\ TransitISAACState(n, {NextRound(n, lvb[n])})
  /\ UNCHANGED <<sm, expiring>>

\* broadcastExpiredBallot up to BroadcastBallot: the ballot is for the round it
\* was started with on the block that is then latest.
BroadcastExpired(n, t) ==
  /\ t \in expiring[n]
  /\ Height(n) <= MaxHeight
  /\ expiring' = [expiring EXCEPT ![n] = @ \ {t}]
  /\ expired' = [expired EXCEPT
                   ![n] = @ \cup {ExpiredBallot(n, BasisOf(n, t.round), t.state)}]
  /\ UNCHANGED <<chain, sm, timer, transit, proposing, sending, rounds, sent,
                 mode, syncer, environment, msgs>>

\* BroadcastBallot's look at the send record, in that goroutine.
LookUpExpired(n, b) ==
  /\ b \in expired[n]
  /\ expired' = [expired EXCEPT ![n] = @ \ {b}]
  /\ sending' = IF Slot(b) \in sent[n] THEN sending
                ELSE [sending EXCEPT ![n] = @ \cup {b}]
  /\ UNCHANGED <<chain, sm, timer, transit, proposing, expiring, rounds, sent,
                 mode, syncer, environment, msgs>>

\* BroadcastBallot from SetSent on, in that goroutine.
SendExpired(n, b) ==
  /\ b \in sending[n]
  /\ sending' = [sending EXCEPT ![n] = @ \ {b}]
  /\ sent' = [sent EXCEPT ![n] = @ \cup {Slot(b)}]
  /\ msgs' = msgs \cup {b}
  /\ UNCHANGED <<chain, sm, timer, transit, proposing, expiring, expired, rounds,
                 mode, syncer, environment>>

-----------------------------------------------------------------------------
(***************************************************************************)
(* Time and restarts                                                       *)
(***************************************************************************)

\* More than BallotConfirmedTimeAllowDuration passes.
Tick ==
  /\ clock < MaxClock
  /\ clock' = clock + 1
  /\ UNCHANGED <<chain, manager, rounds, sent, mode, syncer, crashes, msgs>>

\* NewNodeRunner and InitRound: what a node that starts knows is its ledger.
Restart(n) ==
  /\ \A m \in Nodes : crashes[m] < MaxCrash
  /\ crashes' = [crashes EXCEPT ![n] = @ + 1]
  /\ sm' = [sm EXCEPT ![n] = State(0, 0, INIT)]
  /\ timer' = [timer EXCEPT ![n] = FALSE]
  /\ transit' = [transit EXCEPT ![n] = {NextHeight(chain[n])}]
  /\ proposing' = [proposing EXCEPT ![n] = {}]
  /\ expiring' = [expiring EXCEPT ![n] = {}]
  /\ expired' = [expired EXCEPT ![n] = {}]
  /\ sending' = [sending EXCEPT ![n] = {}]
  /\ lvb' = [lvb EXCEPT ![n] = {}]
  /\ voted' = [voted EXCEPT ![n] = {}]
  /\ sent' = [sent EXCEPT ![n] = {}]
  /\ mode' = [mode EXCEPT ![n] = "CONSENSUS"]
  /\ latestBallot' = [latestBallot EXCEPT ![n] = {}]
  /\ syncHeight' = [syncHeight EXCEPT ![n] = 0]
  /\ finishing' = [finishing EXCEPT ![n] = {}]
  /\ UNCHANGED <<chain, clock, msgs>>

-----------------------------------------------------------------------------
(***************************************************************************)
(* The specification                                                       *)
(***************************************************************************)

\* Every validator starts on the genesis block.
Init ==
  /\ chain = [n \in Nodes |-> <<>>]
  /\ sm = [n \in Nodes |-> State(0, 0, INIT)]
  /\ timer = [n \in Nodes |-> FALSE]
  /\ transit = [n \in Nodes |-> {NextHeight(<<>>)}]
  /\ proposing = [n \in Nodes |-> {}]
  /\ expiring = [n \in Nodes |-> {}]
  /\ expired = [n \in Nodes |-> {}]
  /\ sending = [n \in Nodes |-> {}]
  /\ lvb = [n \in Nodes |-> {}]
  /\ voted = [n \in Nodes |-> {}]
  /\ sent = [n \in Nodes |-> {}]
  /\ mode = [n \in Nodes |-> "CONSENSUS"]
  /\ latestBallot = [n \in Nodes |-> {}]
  /\ syncHeight = [n \in Nodes |-> 0]
  /\ finishing = [n \in Nodes |-> {}]
  /\ crashes = [n \in Nodes |-> 0]
  /\ clock = 0
  /\ msgs = {}

HandleBallot(n) ==
  \/ \E b \in msgs : HandleOldBallot(n, b)
  \/ \E b \in Received(n) : HandleINITBallot(n, b)
  \/ \E b \in Votes(n) : CountBallot(n, b)
  \/ LET votes == Votes(n)
     IN  \E b \in votes : \E before \in Groups(n, votes, b) :
           \/ HandleSIGNBallot(n, before, b)
           \/ FailToStore(n, before, b)
           \/ StoreBlock(n, before, b)
           \/ RejectRound(n, before, b)
  \/ \E b \in FutureVotes(n) : HandleFutureBallot(n, b)
  \/ LET votes == FutureVotes(n)
     IN  \E b \in votes : \E before \in FutureGroups(n, votes, b) :
           \/ StartSync(n, before, b)
           \/ CatchUp(n, before, b)

StateManager(n) ==
  \/ \E t \in transit[n] : StateTransit(n, t) \/ DropState(n, t)
  \/ Propose(n)
  \/ TimeoutINIT(n)
  \/ TimeoutVote(n)
  \/ TimeoutALLCONFIRM(n)
  \/ \E t \in expiring[n] : BroadcastExpired(n, t)
  \/ \E b \in expired[n] : LookUpExpired(n, b)
  \/ \E b \in sending[n] : SendExpired(n, b)

Syncer(n) ==
  \/ \E m \in Nodes : FindMissing(n, m)
  \/ \E f \in finishing[n] : SyncBlock(n, f)

Next ==
  \/ \E n \in Nodes : HandleBallot(n)
  \/ \E n \in Nodes : StateManager(n)
  \/ \E n \in Nodes : Syncer(n)
  \/ \E n \in Nodes : Restart(n)
  \/ Tick

Spec == Init /\ [][Next]_vars

\* Ballots are delivered and goroutines run as long as there is work for them.
FairSpec == Spec /\ WF_vars(Next)

-----------------------------------------------------------------------------
(***************************************************************************)
(* Properties                                                              *)
(***************************************************************************)

\* The variables have the shapes of the fields they model.
TypeOK ==
  /\ chain \in [Nodes -> Seq(Block)]
  /\ sm \in [Nodes -> StateType]
  /\ timer \in [Nodes -> BOOLEAN]
  /\ transit \in [Nodes -> SUBSET StateType]
  /\ proposing \in [Nodes -> SUBSET StateType]
  /\ expiring \in [Nodes -> SUBSET [height : Nat, round : Nat,
                                     state : {SIGN, ACCEPT}]]
  /\ expired \in [Nodes -> SUBSET Ballot]
  /\ sending \in [Nodes -> SUBSET Ballot]
  /\ lvb \in [Nodes -> SUBSET Basis]
  /\ voted \in [Nodes -> SUBSET Ballot]
  /\ sent \in [Nodes -> SUBSET StateType]
  /\ mode \in [Nodes -> {"CONSENSUS", "SYNC"}]
  /\ latestBallot \in [Nodes -> SUBSET Ballot]
  /\ syncHeight \in [Nodes -> Nat]
  /\ finishing \in [Nodes -> SUBSET [height : Nat \ {0}, block : Block]]
  /\ crashes \in [Nodes -> Nat]
  /\ clock \in Nat
  /\ msgs \in SUBSET Ballot

\* No two validators store different blocks at one height: of any two ledgers
\* one is a prefix of the other.
Agreement ==
  \A n, m \in Nodes : \A h \in 1 .. Len(chain[n]) :
    h <= Len(chain[m]) => chain[n][h] = chain[m][h]

\* What the send record is for: a validator broadcasts at most one ballot in
\* each ISAACState, whatever its timer and its handlers do.
OneBallotPerState ==
  \A b, c \in msgs : b.src = c.src /\ Slot(b) = Slot(c) => b = c

\* What the record achieves although BroadcastBallot looks at it and writes it in
\* two steps, stored heights are taken out of it and own ballots are handled
\* late: at the height it works on, a validator never says YES and NO, or YES
\* to two proposals, in one ISAACState.  Of two different ballots one is EXP,
\* unless the validator has restarted or a ballot has gone out of time.
OneVotePerState ==
  \A b, c \in msgs :
    b.src = c.src /\ Slot(b) = Slot(c) /\ b # c =>
      \/ EXP \in {b.vote, c.vote}
      \/ b.basis.height < Height(b.src)
      \/ crashes[b.src] > 0 \/ clock > 0

\* GenerateExpiredBallot is for a timeout that occurs in a state: a validator
\* only says EXP of its own accord for a state that it has reached.
ExpiredInReachedState ==
  \A b \in msgs : b.vote = EXP /\ b.body.by = b.src /\ b.body.of # INIT =>
    ~IsLater(sm[b.src], Slot(b))

\* The ballots that were cast in a slot.
Cast(slot, hole) == {b.src : b \in {x \in msgs : Slot(x) = slot /\ x.vote = hole}}

\* An ACCEPT ballot that says YES or NO repeats what a threshold of the
\* validators said in the SIGN ballots of the same round.
AcceptJustified ==
  \A b \in msgs :
    b.state = ACCEPT /\ b.vote # EXP =>
      Cardinality(Cast(State(b.basis.height, b.basis.round, SIGN), b.vote))
        >= Threshold

\* A stored block was accepted by a threshold of the validators in the round
\* that it names.
StoredAccepted ==
  \A n \in Nodes : \A h \in 1 .. Len(chain[n]) :
    Cardinality(Cast(State(h, chain[n][h].round, ACCEPT), YES)) >= Threshold

\* A stored block holds what the proposer of its round proposed.  The block is
\* built from the ballot in hand: if an earlier one failed to be stored, that may
\* be an EXP ballot with a body of its own, and RemoveOldBallots has to see to
\* it that the YES ballots do not count any more.
StoredProposed ==
  \A n \in Nodes : \A h \in 1 .. Len(chain[n]) :
    LET blk == chain[n][h]
    IN  blk.body.by = SelectProposer(h, blk.round) /\ blk.body.of = INIT

\* With the ballots cast in a round so far no validator can ever count a
\* threshold of YES in both of its votes.
Lost(h, r) ==
  \E s \in {SIGN, ACCEPT} :
    LET slot == State(h, r, s)
    IN  Cardinality(Nodes \ (Cast(slot, NO) \cup Cast(slot, EXP))) < Threshold

\* A validator proposes in a later round of a height only after every earlier
\* one of that height is lost.
RoundsFailBeforeNext ==
  \A b \in msgs : b.state = INIT =>
    \A r \in 0 .. b.basis.round - 1 : Lost(b.basis.height, r)

\* ExpiredInSIGN and FinishedBallotStore take a round for failed, and refuse its
\* ballots from then on, only if it is lost, although they count a part of the
\* ballots of the others.
RoundsGivenUpAreLost ==
  \A n \in Nodes : \A l \in lvb[n] :
    l.height = Height(n) => Lost(l.height, l.round)

\* The state manager never goes back to a state that it has passed, except
\* when the node restarts.
StateNeverGoesBack ==
  [][\A n \in Nodes : \/ sm'[n] = sm[n]
                      \/ IsLater(sm[n], sm'[n])
                      \/ crashes'[n] # crashes[n]]_vars

\* If no ballot is lost, every validator gets out of the rounds it is in: it
\* stores a block, or reads from the ballots that the round has failed.
EveryRoundEnds ==
  <>(\A n \in Nodes : \/ chain[n] # <<>>
                      \/ \E l \in lvb[n] : l.round = MaxRound)

\* A validator that no ballot reached while the others decided MaxHeight blocks
\* ends up with the same ledger, by way of sync and of its own votes.
LaggingCatchUp ==
  <>(\A n \in Lagging, m \in Nodes :
       Len(chain[n]) = MaxHeight /\ chain[n] = chain[m])
=============================================================================
