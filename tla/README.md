# A TLA+ verification of SEBAK

SEBAK is a blockchain node. A fixed set of validators agrees on one block after
another with ISAAC, a ballot protocol that goes through the states INIT, SIGN,
ACCEPT and ALLCONFIRM; blocks move balances between accounts. These modules
model the consensus of a network of validators from the code in `src/lib`, TLC
checks it on small networks, and TLAPS proves five of the properties for
networks of every size.

## The system

| part | code (`src/lib/`) | state | operations |
|---|---|---|---|
| voting rules | `consensus/round_vote.go`, `voting_policy.go`, `proposer_selector.go`, `isaac_state.go`, `ballot/ballot_state.go` | none | threshold, proposer of a round, result of a vote, order of states |
| ISAAC | `consensus/isaac.go`, `running_round.go`, `ballot_send_record.go` | running rounds, latest voting basis, latest ballot, requested sync height, send record | vote, remove old ballots, result, expired ballot, start sync |
| ballot handling | `node/runner/checker.go`, `node_runner.go` | none of its own | base, INIT, SIGN and ACCEPT checkers, propose, broadcast |
| state manager | `node/runner/isaac_state_manager.go` | current state, timer, block time buffer | loop, four timeouts, transit, next round, next height |
| ledger | `node/runner/finish_ballot.go`, `block/*` | blocks, accounts, transactions, operations | finish ballot, apply operations, inflation |
| transaction pool | `transaction/pool.go`, `node/runner/checker_message.go` | pool, sources, list of hashes | add from client or node, remove, available transactions |
| transaction validation | `node/runner/checker_ballot_transaction.go`, `transaction/*` | transaction cache | checkers of a proposal |
| saving operations | `node/runner/block_operations.go` | checked height, channel of blocks | save, check, continuous check |
| sync | `sync/*` | progress, work pool, node list | loop, fetch, validate, finish block, watcher |
| connections | `network/validator_connection_manager.go` | connected flags, threshold flag | connect, discover, broadcast, fetch ballots |
| storage | `storage/*` | LevelDB, batches | open batch, commit, discard |
| API, client, commands, metrics | `node/runner/api/*`, `client/*`, `cmd/*`, `metrics/*` | none of the protocol | read-only views |

In each node one goroutine handles ballots one at a time, and another runs the
loop of the state manager. The two meet in the running rounds, the latest voting
basis, the send record, the ledger and the channel `stateTransit`, to which every
transition is sent by a goroutine of its own. A timeout in SIGN or ACCEPT starts
one more goroutine, `broadcastExpiredBallot`. The syncer stores blocks beside
the message goroutine. Everything but the ledger is in memory and lost in a
restart.

What makes this hard: transitions that reach the loop in any order; values read
before a sleep or in one goroutine and used in another; ballots that are late,
repeated or out of the one-minute window; blocks that cannot be stored; nodes
that restart in the middle of a round or lag behind. `PROJECT.json` lists these
hazards at their lines.

## Modules

| module | models |
|---|---|
| `Voting` | the arithmetic of a vote: threshold, states, proposer, result |
| `ISAAC` | N validators and the network between them |
| `Ledgers` | the abstract specification: ledgers that only grow and agree |
| `MCISAAC` | `ISAAC` for TLC, with `Ledgers` instantiated on its ledgers |
| `ISAAC_proofs` | type correctness; the state manager never goes back |
| `Votes_proofs` | what is accepted and stored was voted for; one opinion in each state |

### State

The comment at each variable of `ISAAC` names the field it models. The data is
abstract:

* A ballot is its source, voting basis, state, hole, time and *body*. The body
  stands for the proposed part: who made and signed it, for which ballot state,
  when, and in which run of that node. Two proposals of one node for one round
  differ only if it was restarted or the clock moved in between.
* A block is the round that decided it and the body of the ballot it was built
  from. The hash of a block is the ledger up to it: equal hashes mean equal
  histories. The genesis block, of height 1, is left implicit, so that
  `Height(n)` is `Len(chain[n]) + 1`.
* `clock` counts the windows of one minute in which a ballot is in time.
* The network `msgs` is the set of all ballots ever broadcast. Delivery takes
  none away: every ballot may be late, repeated, reordered or lost.
* Validating a proposal of another node is a choice from `InitVotes`. The check
  of the contents (transactions, fees, inflation) is not modelled; a proposer
  always says YES to its own.
* A node counts a ballot only if the proposed part was signed by the proposer of
  the round, except for EXP ballots (`IsWellFormed`). Signatures are sound.

### Actions

| action | code |
|---|---|
| `HandleOldBallot` | `BallotUnmarshal` on a ballot that is out of time |
| `HandleINITBallot` | INIT checkers: validate, broadcast SIGN, transit |
| `HandleSIGNBallot` | SIGN checkers: count, renew, result, `ExpiredInSIGN` or ACCEPT |
| `StoreBlock`, `FailToStore`, `RejectRound` | ACCEPT checkers with `FinishedBallotStore`: YES stored, YES and the block is refused, NO or EXP |
| `CountBallot` | a SIGN or ACCEPT ballot that leaves its round without a result, with `BallotRenewal` |
| `HandleFutureBallot`, `StartSync`, `CatchUp` | `BallotCheckSYNC` on ballots of later heights |
| `FindMissing`, `SyncBlock` | `finishBlock` of the syncer: up to its last check that the block is missing, and from there to the commit |
| `StateTransit` (`EnterState`), `DropState` | the loop receives a state and compares it with its own once more: it enters a later one and drops any other |
| `Propose` | `proposeNewBallot` after the sleep of `proposeOrWait` |
| `TimeoutINIT`, `TimeoutVote`, `TimeoutALLCONFIRM` | the timer fires |
| `BroadcastExpired`, `LookUpExpired`, `SendExpired` | `broadcastExpiredBallot` reads the latest block, looks at the send record, writes it and sends |
| `Tick`, `Restart` | time, and a node that starts again from its ledger |

Three abstractions keep the state space small.

*Groups.* A ballot that leaves its round without a result only changes the votes
counted by the node that handles it. `Groups` handles such ballots in one step
with the ballot that gives the round a result, in any selection, and
`FutureGroups` does the same for ballots of heights that the node has not
reached. What the model skips are states that differ in one node's `voted` only,
which nothing but the handling of that node's next ballot reads. Time does make a
difference: a counted ballot may go out of its window before the next one comes.
`CountBallot` and `HandleFutureBallot` therefore count ballots one by one as long
as `clock` can still move, and `CountBallot` whenever a counted ballot has gone
out of time. A SIGN ballot that comes after the result is counted too and repeats
the answer and the transition; the model leaves it out when the answer is in the
send record and time does not matter, as it changes nothing but `voted` then.

*Promptness.* `Settled` restricts the schedules that a run looks at; no line of
the code does. Without `"slow"` in `Faults`, a node handles no ballot and fires no
timer while a goroutine of a state manager could still run. Runs without it say
nothing of a loop that lags behind; `"slow"`, `"sleep"` and `"race"` let one kind
of delay in each. The theorems hold for all of them. Own ballots may be handled at
any time, also after their height is over, and the syncer runs at any time.

*Bounds.* `MaxHeight` and `MaxRound` stop a node that leaves them, `MaxClock` and
`MaxCrash` cap time and restarts. A node that leaves the bounds handles no more
ballots.

`Threshold` is the exact ceiling. The code computes it in `float64`; for fewer
than 25 validators the two are equal, from 25 on the code may get one more.

## Runs

| run | instance | checks |
|---|---|---|
| `rounds` | 3 validators, threshold 2, 2 rounds of one height, timeouts in INIT and SIGN, sleeping proposers | `OneBallotPerState`, `RoundsFailBeforeNext`, `ImplementsLedgers` |
| `live` | 3 validators that vote YES or NO, 1 round, timeouts in INIT and SIGN | `RoundsGivenUpAreLost`, `EveryRoundEnds` |
| `lagging` | 4 validators, threshold 3, 3 heights, one is cut off until the others are done | `Agreement`, `LaggingCatchUp` |
| `outdated` | 3 validators, 2 heights, one is cut off until the others are done, blocks that cannot be stored, a minute that passes | `StoredProposed`, `Agreement` |
| `votes` | 2 validators that vote YES or NO, 2 heights, all timeouts, `"race"`, `"sleep"` and `"fail"` | `OneVotePerState` |
| `faults` | 2 validators, a restart, a minute that passes, blocks that cannot be stored, sleeping proposers, all timeouts | `TypeOK`, `AcceptJustified`, `StoredAccepted`, `StateNeverGoesBack` |
| `race` | 3 validators, `"race"` | `OneBallotPerState` is violated |
| `stale` | 3 validators, 2 heights, `"slow"` | `ExpiredInReachedState` is violated |

What the passing runs show:

* A validator proposes in a new round, and gives up an old one, only when the
  old one cannot be accepted any more.
* A validator says one thing in each state as long as nothing comes between the
  check and the write of the send record. With the race, and with own ballots
  that are handled after their record is gone, what is left is that it never has
  two opinions: one of two ballots is EXP (`OneVotePerState`).
* A block holds what the proposer of its round proposed, although it is built
  from whichever ballot is in hand. In `outdated` the ballots for YES go out of
  time after the block could not be stored, EXP ballots replace them, and it is
  `RemoveOldBallots` that keeps an EXP body out of the ledger.
* Ledgers only grow and agree (`Ledgers` is implemented); a validator that missed
  everything gets the same ledger, and a block that failed to be stored comes by
  sync or by a later vote and is the same one.

Bounds. With three validators and threshold two, a result, a draw and a split
vote all occur, and two rounds are what it takes to decide a height twice. Two
heights are what it takes to handle an own ballot whose record is gone. Three
heights are the least at which a lagging node goes through `StartSync`, sync,
`CatchUp` and votes of its own; it asks for sync once. The restart and the clock
need only two validators to get different proposals for one round.
`CHECK_DEADLOCK FALSE` is set as a bounded instance comes to rest, and as a round
with a lost ballot does too: the timer is not set again after SIGN and ACCEPT.

Provisos.

* The validators of `rounds` vote YES or expire; rounds that fail with NO are
  those of `live`, `votes` and `faults`.
* A prompt validator is in ACCEPT only when its ACCEPT ballot is recorded, so that
  the ACCEPT timer has no effect in it. `rounds` and `live` leave that timer out.
* `rounds` has no ALLCONFIRM timeout. When a block cannot be stored, that timeout
  opens the next round of a height whose round was accepted, and
  `RoundsFailBeforeNext` does not hold.
* `RoundsFailBeforeNext` and `ImplementsLedgers` are checked at one height, where
  `NextRound` cannot mix two heights and no block is stored while a proposer
  sleeps. `Agreement` is checked at two and three heights.
* `StoredProposed` does not hold of every schedule, and `outdated` has no timeouts.
  With failing storage and a state manager that falls behind (`"slow"`), an EXP
  ballot for ACCEPT that is still in time may come after a block could not be
  stored, while the counted ballots for YES are a threshold; the block is then
  built from the EXP ballot. It takes three validators and two heights with both
  faults, which is more than TLC can exhaust.
* The message goroutine stores a block in one step. The window between check and
  commit is that of the syncer only.

Fairness. `FairSpec` is weak fairness of the whole next-state relation: the
network does not stop while it can go on. It is weaker than fairness of each
action. It asks that ballots which are still needed arrive, that goroutines run
and that timers fire, as Go's scheduler and timers do. The code sends each ballot
once and has no answer to a lost one, so delivery is an assumption.

### Two disagreements with the comments

* `race`. `BroadcastBallot` reads the send record and writes it in two critical
  sections, and both the message goroutine and `broadcastExpiredBallot` call it.
  Two different ballots of one state go out, which the record is there to avoid
  (`consensus/ballot_send_record.go:10`).
* `stale`. `broadcastExpiredBallot` uses the round of the timeout with the block
  that is latest when it runs. An EXP ballot may go out for a height that the
  node has not begun, although such a ballot is for a timeout that occurs in the
  state (`consensus/isaac.go:90`).

## Proofs

All five theorems hold for every number of validators, threshold, bound and
choice of faults. They use the assumptions on the constants and nothing else.

* `TypeCorrect`: `Spec => []TypeOK`. `TypeOK` is inductive; one lemma for each
  helper and one for each group of actions.
* `NeverGoesBack`: `Spec => StateNeverGoesBack`. Goroutines hand over states in
  any order, and the loop compares each with its own when it receives it. The
  property alone is not inductive, as a proposer enters its state after a sleep;
  `OnlyLater` adds that the state it sleeps for is later than the one it is in.
* `AcceptsAreJustified`: `Spec => []AcceptJustified`, and `StoredWereAccepted`:
  `Spec => []StoredAccepted`. A ballot or a block is the outcome of a count that
  one node made of the ballots that reached it, and repeats it elsewhere. The
  inductive `AcceptedInv` says where every piece comes from: what a node counted
  was broadcast, and one ballot for each source and state (`CountedOnce`); an
  expired ballot on its way says EXP (`SendingExpired`); the ballot remembered for
  catch-up (`LatestAccepted`) and the block that the syncer is about to commit
  (`FinishingAccepted`) were accepted by a threshold. Two counting lemmas carry
  it: a result that a node reads is one that as many validators cast
  (`ResultCast`), and what was cast stays cast (`CastGrows`).
* `OneVote`: `Spec => []OneVotePerState`. The inductive `RecordInv` relates the
  send record to the network: a ballot that does not say EXP is recorded by its
  sender, or one of the reasons to have forgotten it holds, which the property
  names (`VotesRecorded`); until a minute has passed no ballot is out of time
  (`MadeInTime`), so that `BallotRenewal` clears no record. The race needs no
  exception: what it lets through is an expired ballot (`SendingExpired`).

`OneBallotPerState` is not proved: `race` shows that it does not hold in general.
Only model-checked are also the liveness properties, which are out of the
prover's reach, and `StoredProposed`, `RoundsFailBeforeNext`,
`RoundsGivenUpAreLost`, `Agreement` and `ImplementsLedgers`.

## Not modelled, and the plan

Out of scope: transport and HTTP cache (I/O), API, client, commands and metrics
(views and wiring), the unused state database, encodings and signatures.

Next, in this order:

1. `TransactionPool`: concurrent adds against the limits, pool, sources and list
   that agree, replaced transactions of one source, available transactions.
2. `Accounts`: applying a block (payments, creation, freezing, fees, inflation)
   with bounded amounts; conservation of balances as invariant and theorem; what
   a validator checks of a proposal against what applying it does.
3. `SavingBlockOperations`: the saver, the continuous check and restarts; every
   block gets its operations.
4. `Syncer`: progress, work pool, fetch, validate, notification, watcher; an
   abstract syncer that replaces `SyncBlock`.
5. `ConnectionManager`: flags, threshold edge, discovery by most recent time.
6. `Storage`: batches with commit and discard, under `Accounts`.
7. Theorems: `Agreement` and the refinement of `Ledgers` for validators that are
   not disturbed by the race and by restarts; conservation in `Accounts`.
