---------------------------- MODULE Votes_proofs ----------------------------
(***************************************************************************)
(* Theorems about the votes of ISAAC for every number of validators, every *)
(* threshold, every bound and every fault: what they say of the ballots    *)
(* sent and the blocks stored, and how often a validator votes.            *)
(***************************************************************************)
EXTENDS ISAAC_proofs, FiniteSetTheorems

\* A leaf that names no prover is given to Zenon, and then to SMT.
USE Zenon, SMTT(10), SMTT(30)
USE DEF INIT, SIGN, ACCEPT, ALLCONFIRM, YES, NO, EXP, NOTYET

-----------------------------------------------------------------------------
(***************************************************************************)
(* What is accepted and stored was voted for: an ACCEPT ballot repeats     *)
(* what a threshold of the validators signed, and a stored block was       *)
(* accepted by a threshold, under every fault of the model.                *)
(***************************************************************************)

\* At most one ballot of a validator for each state.
OneOfEach(S) ==
  \A x, y \in S : x.src = y.src /\ Slot(x) = Slot(y) => x = y

\* The votes that a node has counted were cast, and counted once.
CountedOnce == \A n \in Nodes : voted[n] \subseteq msgs /\ OneOfEach(voted[n])

\* The goroutines of the state manager send EXP ballots only.
SendingExpired ==
  \A n \in Nodes : \A b \in expired[n] \cup sending[n] : b.vote = EXP

\* A round was signed with a hole, or accepted.
Signed(h, r, hole) == Cardinality(Cast(State(h, r, SIGN), hole)) >= Threshold
Accepted(h, r) == Cardinality(Cast(State(h, r, ACCEPT), YES)) >= Threshold

\* The ballot that BallotCheckSYNC keeps was accepted.
LatestAccepted ==
  \A n \in Nodes : \A x \in latestBallot[n] : Accepted(x.basis.height, x.basis.round)

\* The blocks that the syncer is about to store were accepted.
FinishingAccepted ==
  \A n \in Nodes : \A f \in finishing[n] : Accepted(f.height, f.block.round)

AcceptedInv ==
  /\ CountedOnce /\ SendingExpired /\ LatestAccepted /\ FinishingAccepted
  /\ AcceptJustified /\ StoredAccepted

-----------------------------------------------------------------------------
(***************************************************************************)
(* Counting                                                                *)
(***************************************************************************)

LEMMA ThresholdType == Threshold \in Int
BY NAssumption, ThresholdAssumption DEF Threshold

LEMMA NodesFinite == IsFiniteSet(Nodes)
<1>1. 0 \in Int /\ N - 1 \in Int
  BY NAssumption
<1>2. QED
  BY <1>1, FS_Interval DEF Nodes

\* The validators that cast a hole are a finite set.
LEMMA CastFinite ==
  ASSUME TypeOK, NEW slot, NEW hole
  PROVE  /\ IsFiniteSet(Cast(slot, hole))
         /\ Cardinality(Cast(slot, hole)) \in Nat
<1>1. Cast(slot, hole) \in SUBSET Nodes
  BY SMTT(30) DEF Cast, TypeOK, Ballot
<1>2. QED
  BY <1>1, NodesFinite, FS_Subset, FS_CardinalityType

\* Ballots are not taken back.
LEMMA CastGrows ==
  ASSUME TypeOK, TypeOK', msgs \subseteq msgs', NEW slot, NEW hole,
         Cardinality(Cast(slot, hole)) >= Threshold
  PROVE  Cardinality(Cast(slot, hole))' >= Threshold
<1> DEFINE new == {b.src : b \in {x \in msgs' : Slot(x) = slot /\ x.vote = hole}}
<1>1. Cast(slot, hole)' = new
  BY DEF Cast, Slot
<1>2. Cast(slot, hole) \in SUBSET new
  BY DEF Cast
<1>3. new \in SUBSET Nodes
  BY SMTT(30) DEF TypeOK, Ballot
<1> HIDE DEF new
<1>4. IsFiniteSet(new) /\ Cardinality(new) \in Nat
  BY <1>3, NodesFinite, FS_Subset, FS_CardinalityType
<1>5. Cardinality(Cast(slot, hole)) <= Cardinality(new)
  BY <1>2, <1>4, FS_Subset
<1>6. Cardinality(new) >= Threshold
  BY <1>4, <1>5, CastFinite, ThresholdType
<1>7. QED
  BY <1>1, <1>6

\* A result of YES or NO has a threshold of the votes.
LEMMA ResultVotes ==
  ASSUME NEW counted, CanGetVotingResult(counted) \in {YES, NO}
  PROVE  Cardinality({x \in counted : x.vote = CanGetVotingResult(counted)})
           >= Threshold
<1> DEFINE Count(hole) == Cardinality({x \in counted : x.vote = hole})
           yes == Count(YES)
           no == Count(NO)
           draw == cannotBeOver(N - Cardinality(counted), yes, no)
           result == CanGetVotingResult(counted)
<1>1. result = IF yes >= Threshold THEN YES
               ELSE IF no >= Threshold THEN NO
               ELSE IF draw THEN EXP ELSE NOTYET
  BY DEF CanGetVotingResult
<1>2. result \in {YES, NO}
  OBVIOUS
<1>3. /\ result = YES => Count(result) = yes
      /\ result = NO => Count(result) = no
  <2> HIDE DEF result
  <2>1. QED
    OBVIOUS
<1>4. Count(result) >= Threshold
  <2> HIDE DEF result, yes, no, draw, Count
  <2>1. QED
    BY <1>1, <1>2, <1>3
<1>5. QED
  BY <1>4

\* A result that is read from ballots that were cast, one of each validator,
\* was cast by a threshold of them.
LEMMA ResultCast ==
  ASSUME TypeOK, NEW S \in SUBSET msgs, OneOfEach(S), NEW slot,
         CanGetVotingResult(GetResult(S, slot)) \in {YES, NO}
  PROVE  Cardinality(Cast(slot, CanGetVotingResult(GetResult(S, slot))))
           >= Threshold
<1> DEFINE counted == GetResult(S, slot)
           hole == CanGetVotingResult(counted)
           for == {x \in counted : x.vote = hole}
           f == [x \in for |-> x.src]
<1>1. Cardinality(for) >= Threshold
  BY ResultVotes, SMTT(30)
<1>2. \A x \in for : x \in msgs /\ x \in S /\ Slot(x) = slot /\ x.vote = hole
  BY DEF GetResult
<1> HIDE DEF hole, counted
<1>3. \A x \in for : x.src \in Cast(slot, hole)
  BY <1>2 DEF Cast
<1> HIDE DEF for
<1>4. f \in Injection(for, Cast(slot, hole))
  BY <1>2, <1>3, SMTT(30) DEF Injection, IsInjective, OneOfEach
<1> HIDE DEF f
<1>5. /\ IsFiniteSet(for)
      /\ Cardinality(for) <= Cardinality(Cast(slot, hole))
  BY <1>4, CastFinite, FS_Injection
<1>6. Cardinality(for) \in Nat
  BY <1>5, FS_CardinalityType
<1>7. Cardinality(Cast(slot, hole)) >= Threshold
  BY <1>1, <1>5, <1>6, CastFinite, ThresholdType
<1>8. QED
  BY <1>7 DEF hole, counted

-----------------------------------------------------------------------------
(***************************************************************************)
(* The votes counted, the ballots sent and the blocks stored               *)
(***************************************************************************)

\* A group of ballots, and the one that ends it, are counted for the first
\* time.
LEMMA GroupOnce ==
  ASSUME CountedOnce, NEW n \in Nodes, NEW votes \in SUBSET msgs,
         \A x \in votes : ~IsVoted(n, x),
         NEW b \in votes, NEW before \in Selections(votes, b)
  PROVE  /\ before \cup {b} \in SUBSET msgs
         /\ OneOfEach(voted[n] \cup (before \cup {b}))
<1>1. before \cup {b} \subseteq votes
  BY DEF Selections
<1>2. before \cup {b} \in SUBSET msgs
  BY <1>1
<1>3. \A x \in voted[n], y \in before \cup {b} :
        ~(x.src = y.src /\ Slot(x) = Slot(y))
  BY <1>1 DEF IsVoted
<1>4. OneOfEach(before \cup {b})
  BY DEF OneOfEach, Selections
<1>5. OneOfEach(voted[n])
  BY DEF CountedOnce
<1>6. QED
  BY <1>2, <1>3, <1>4, <1>5 DEF OneOfEach

LEMMA SendsOnly ==
  ASSUME NEW record, NEW x
  PROVE  \A y \in Admitted(record, <<x>>) : y = x
<1>1. Admitted(record, <<x>>) = IF Slot(x) \in record THEN {} ELSE {x}
  BY SendOne
<1>2. QED
  BY <1>1


\* What a step has to do to keep the invariant.
LEMMA AcceptedKept ==
  ASSUME TypeOK, TypeOK', AcceptedInv, msgs \subseteq msgs',
         \A b \in msgs' : b \in msgs \/ b.state # ACCEPT \/ b.vote = EXP
                          \/ Signed(b.basis.height, b.basis.round, b.vote),
         CountedOnce', SendingExpired',
         \A n \in Nodes : \A x \in latestBallot'[n] :
           x \in latestBallot[n] \/ Accepted(x.basis.height, x.basis.round),
         \A n \in Nodes : \A f \in finishing'[n] :
           f \in finishing[n] \/ Accepted(f.height, f.block.round),
         \A n \in Nodes : \A h \in 1 .. Len(chain'[n]) :
           Accepted(h, chain'[n][h].round)
  PROVE  AcceptedInv'
<1>1. \A h, r, hole : Signed(h, r, hole) => Signed(h, r, hole)'
  BY CastGrows DEF Signed
<1>2. \A h, r : Accepted(h, r) => Accepted(h, r)'
  BY CastGrows DEF Accepted
<1>3. LatestAccepted'
  <2>1. \A n \in Nodes : \A x \in latestBallot'[n] :
          Accepted(x.basis.height, x.basis.round)
    BY DEF AcceptedInv, LatestAccepted
  <2>2. QED
    BY <1>2, <2>1 DEF LatestAccepted
<1>4. AcceptJustified'
  <2>1. \A b \in msgs' : b.state = ACCEPT /\ b.vote # EXP =>
          Signed(b.basis.height, b.basis.round, b.vote)
    BY DEF AcceptedInv, AcceptJustified, Signed
  <2>2. QED
    BY <1>1, <2>1 DEF AcceptJustified, Signed
<1>5. StoredAccepted'
  BY <1>2 DEF StoredAccepted, Accepted
<1>6. FinishingAccepted'
  <2>1. \A n \in Nodes : \A f \in finishing'[n] : Accepted(f.height, f.block.round)
    BY DEF AcceptedInv, FinishingAccepted
  <2>2. QED
    BY <1>2, <2>1 DEF FinishingAccepted
<1>7. QED
  BY <1>3, <1>4, <1>5, <1>6 DEF AcceptedInv

\* Of these, RemoveOldBallots and the end of a round only take away.
LEMMA CountedKeeps ==
  ASSUME TypeOK, CountedOnce, msgs \subseteq msgs', NEW n \in Nodes,
         NEW S \in SUBSET msgs, OneOfEach(S), NEW W \in SUBSET S,
         voted' = [voted EXCEPT ![n] = W]
  PROVE  CountedOnce'
<1>1. \A m \in Nodes : voted'[m] = IF m = n THEN W ELSE voted[m]
  BY DEF TypeOK
<1>2. OneOfEach(W)
  BY DEF OneOfEach
<1>3. \A m \in Nodes : voted'[m] \subseteq msgs' /\ OneOfEach(voted'[m])
  BY <1>1, <1>2 DEF CountedOnce
<1>4. QED
  BY <1>3 DEF CountedOnce, OneOfEach, Slot

\* What BallotRenewal broadcasts is an EXP ballot.
LEMMA RenewalSends ==
  ASSUME TypeOK, NEW n \in Nodes, NEW more, NEW b \in Ballot, NEW record,
         NEW x \in Ballot
  PROVE  /\ \A y \in Admitted(record, Renewal(n, more, b)) : y.vote = EXP
         /\ \A y \in Admitted(record, Renewal(n, more, b) \o <<x>>) :
              y.vote = EXP \/ y = x
<1> DEFINE e == ExpiredBallot(n, b.basis, b.state)
           s == Renewal(n, more, b)
<1>1. e.vote = EXP /\ e \in Ballot
  BY ExpiredType DEF ExpiredBallot, Ballot, Voting3
<1>2. s = <<>> \/ s = <<e>>
  BY DEF Renewal
<1> HIDE DEF e, s
<1>3. s \in Seq(Ballot) /\ \A i \in 1 .. Len(s) : s[i] = e
  <2>1. CASE s = <<>>
    BY <2>1
  <2>2. CASE s = <<e>>
    BY <1>1, <2>2
  <2>3. QED
    BY <1>2, <2>1, <2>2
<1> USE <1>3
<1>4. DOMAIN s = 1 .. Len(s) /\ DOMAIN (s \o <<x>>) = 1 .. Len(s) + 1
  OBVIOUS
<1>5. \A i \in 1 .. Len(s) + 1 : (s \o <<x>>)[i] = e \/ (s \o <<x>>)[i] = x
  OBVIOUS
<1>6. \A record1, out : \A y \in Admitted(record1, out) : \E i \in DOMAIN out : y = out[i]
  BY DEF Admitted
<1>7. \A y \in Admitted(record, s) : y = e
  BY <1>4, <1>6
<1>8. \A y \in Admitted(record, s \o <<x>>) : y = e \/ y = x
  <2> DEFINE t == s \o <<x>>
  <2> SUFFICES ASSUME NEW y \in Admitted(record, t)
               PROVE  y = e \/ y = x
    OBVIOUS
  <2> HIDE DEF t
  <2>1. PICK i \in DOMAIN t : y = t[i]
    BY <1>6, SMTT(30)
  <2>2. QED
    BY <1>4, <1>5, <2>1 DEF t
<1>9. QED
  BY <1>1, <1>7, <1>8 DEF s

\* A ledger that was accepted up to here, and its next block.
LEMMA AppendAccepted ==
  ASSUME NEW l \in Seq(Block), \A h \in 1 .. Len(l) : Accepted(h, l[h].round),
         NEW blk \in Block, Accepted(Len(l) + 1, blk.round)
  PROVE  /\ Append(l, blk) \in Seq(Block)
         /\ \A h \in 1 .. Len(Append(l, blk)) : Accepted(h, Append(l, blk)[h].round)
<1>1. Append(l, blk) \in Seq(Block) /\ Len(Append(l, blk)) = Len(l) + 1
  OBVIOUS
<1>2. ASSUME NEW h \in 1 .. Len(l) + 1
      PROVE  Accepted(h, Append(l, blk)[h].round)
  <2>1. CASE h = Len(l) + 1
    BY <2>1
  <2>2. CASE h # Len(l) + 1
    <3>1. h \in 1 .. Len(l) /\ Append(l, blk)[h] = l[h]
      BY <2>2
    <3>2. QED
      BY <3>1
  <2>3. QED
    BY <2>1, <2>2
<1>3. QED
  BY <1>1, <1>2

LEMMA LedgerAccepted ==
  ASSUME TypeOK, StoredAccepted, NEW n \in Nodes, NEW l,
         \A h \in 1 .. Len(l) : Accepted(h, l[h].round),
         chain' = chain \/ chain' = [chain EXCEPT ![n] = l]
  PROVE  \A m \in Nodes : \A h \in 1 .. Len(chain'[m]) :
           Accepted(h, chain'[m][h].round)
<1>1. \A m \in Nodes : chain'[m] = chain[m] \/ chain'[m] = l
  BY DEF TypeOK
<1>2. \A m \in Nodes : \A h \in 1 .. Len(chain[m]) : Accepted(h, chain[m][h].round)
  BY DEF StoredAccepted, Accepted
<1>3. QED
  BY <1>1, <1>2

\* Ledger and latest ballot stay, and no ballot says YES or NO in ACCEPT.
LEMMA NothingAccepted ==
  ASSUME TypeOK, TypeOK', AcceptedInv, msgs \subseteq msgs',
         \A b \in msgs' : b \in msgs \/ b.state # ACCEPT \/ b.vote = EXP,
         CountedOnce', SendingExpired', UNCHANGED <<chain, latestBallot, finishing>>
  PROVE  AcceptedInv'
<1>1. \A n \in Nodes : \A h \in 1 .. Len(chain'[n]) :
        Accepted(h, chain'[n][h].round)
  BY DEF AcceptedInv, StoredAccepted, Accepted
<1>2. QED
  BY <1>1, AcceptedKept

LEMMA AcceptedVotes ==
  ASSUME TypeOK, TypeOK', AcceptedInv, NEW n \in Nodes,
         NEW b \in Votes(n), NEW before \in Groups(n, Votes(n), b),
         \/ HandleSIGNBallot(n, before, b)
         \/ FailToStore(n, before, b)
         \/ StoreBlock(n, before, b)
         \/ RejectRound(n, before, b)
  PROVE  AcceptedInv'
<1> DEFINE more == before \cup {b}
           S == Counted(n, more, b)
<1>1. b \in msgs /\ b \in Ballot
  BY ChosenBallots DEF TypeOK
<1>2. more \in SUBSET msgs /\ OneOfEach(voted[n] \cup more)
  <2>1. Votes(n) \in SUBSET msgs /\ \A x \in Votes(n) : ~IsVoted(n, x)
    BY ChosenBallots DEF Votes
  <2>2. before \in Selections(Votes(n), b)
    BY DEF Groups
  <2>3. QED
    BY <2>1, <2>2, GroupOnce DEF AcceptedInv
<1> HIDE DEF more
<1>3. S \in SUBSET msgs /\ OneOfEach(S)
  <2>1. S \subseteq voted[n] \cup more
    BY DEF Counted, StillInTime
  <2>2. voted[n] \subseteq msgs
    BY DEF AcceptedInv, CountedOnce
  <2>3. QED
    BY <1>2, <2>1, <2>2 DEF OneOfEach
<1> DEFINE result == Result(n, more, b)
<1>4. result \in {YES, NO} => Cardinality(Cast(Slot(b), result)) >= Threshold
  BY <1>3, ResultCast DEF Result
<1>5. \E W \in SUBSET S : voted' = [voted EXCEPT ![n] = W]
  BY DEF HandleSIGNBallot, FailToStore, StoreBlock, RejectRound, AboveBasis,
         AboveHeight, more
<1>6. msgs \subseteq msgs' => CountedOnce'
  <2> SUFFICES ASSUME msgs \subseteq msgs'
               PROVE  CountedOnce'
    OBVIOUS
  <2> HIDE DEF S
  <2>1. PICK W \in SUBSET S : voted' = [voted EXCEPT ![n] = W]
    BY <1>5
  <2>2. QED
    BY <1>3, <2>1, CountedKeeps DEF AcceptedInv
<1>7. UNCHANGED <<expired, sending, latestBallot, finishing>>
  BY DEF HandleSIGNBallot, FailToStore, StoreBlock, RejectRound,
         CountACCEPTBallot, goroutines, syncer
<1>8. SendingExpired'
  BY <1>7 DEF AcceptedInv, SendingExpired
<1> HIDE DEF S, result
<1>9. CASE HandleSIGNBallot(n, before, b)
  <2> DEFINE reply == ReplyTo(n, b, result)
  <2>1. /\ msgs' = msgs \cup Admitted(RenewedRecord(n, more, b),
                                      Renewal(n, more, b) \o <<reply>>)
        /\ chain' = chain /\ b.state = SIGN /\ result # NOTYET
    BY <1>9 DEF HandleSIGNBallot, more, result
  <2> USE <2>1
  <2>2. result \in Holes
    BY ResultType DEF Result, result
  <2>3. /\ reply \in Ballot /\ reply.basis = b.basis
        /\ reply.state = ACCEPT /\ reply.vote # EXP
             => reply.vote = result /\ result \in {YES, NO}
    <3>1. CASE result = EXP
      BY <1>1, <3>1, ResignType, SMTT(30) DEF ReplyTo, Voting3, Holes
    <3>2. CASE result # EXP
      <4>1. reply = Resign(n, b, ACCEPT, result)
        BY <3>2 DEF ReplyTo
      <4>2. reply \in Ballot /\ reply.basis = b.basis
        BY <1>1, <2>2, <4>1, ResignType, SMTT(30) DEF Voting3
      <4>3. reply.vote = result
        BY <1>1, <4>1 DEF Resign, Ballot
      <4>4. QED
        BY <2>2, <3>2, <4>2, <4>3 DEF Holes
    <3>3. QED
      BY <3>1, <3>2
  <2> HIDE DEF reply
  <2>4. reply.state = ACCEPT /\ reply.vote # EXP =>
          Signed(reply.basis.height, reply.basis.round, reply.vote)
    BY <1>4, <2>3 DEF Signed, Slot
  <2>5. \A y \in msgs' : y \in msgs \/ y.vote = EXP \/ y = reply
    BY <1>1, <2>3, RenewalSends
  <2>6. \A y \in msgs' : y \in msgs \/ y.state # ACCEPT \/ y.vote = EXP
          \/ Signed(y.basis.height, y.basis.round, y.vote)
    BY <2>4, <2>5
  <2>7. msgs \subseteq msgs'
    OBVIOUS
  <2>8. \A m \in Nodes : \A h \in 1 .. Len(chain'[m]) :
          Accepted(h, chain'[m][h].round)
    BY DEF AcceptedInv, StoredAccepted, Accepted
  <2>9. QED
    BY <1>6, <1>7, <1>8, <2>6, <2>7, <2>8, AcceptedKept
<1>10. CASE CountACCEPTBallot(n, more, b)
  <2>1. msgs' = msgs \cup Admitted(RenewedRecord(n, more, b), Renewal(n, more, b))
    BY <1>10 DEF CountACCEPTBallot
  <2>2. \A y \in msgs' : y \in msgs \/ y.vote = EXP
    BY <1>1, <2>1, RenewalSends
  <2>3. msgs \subseteq msgs'
    BY <2>1
  <2>4. CASE chain' = chain
    BY <1>6, <1>7, <1>8, <2>2, <2>3, <2>4, NothingAccepted
  <2>5. CASE StoreBlock(n, before, b)
    <3>1. /\ chain' = [chain EXCEPT ![n] = Append(chain[n], NewBlock(b))]
          /\ result = YES /\ b.state = ACCEPT
          /\ b.basis.height = Len(chain[n]) + 1
      BY <2>5 DEF StoreBlock, CountACCEPTBallot, Extends, more, result
    <3>2. Accepted(Len(chain[n]) + 1, NewBlock(b).round)
      BY <1>4, <3>1 DEF Accepted, Slot, NewBlock
    <3>3. /\ chain[n] \in Seq(Block) /\ NewBlock(b) \in Block
          /\ \A h \in 1 .. Len(chain[n]) : Accepted(h, chain[n][h].round)
      BY <1>1, NewBlockType DEF TypeOK, AcceptedInv, StoredAccepted, Accepted
    <3> DEFINE l == Append(chain[n], NewBlock(b))
    <3>4. \A h \in 1 .. Len(l) : Accepted(h, l[h].round)
      BY <3>2, <3>3, AppendAccepted
    <3> HIDE DEF l
    <3>5. chain' = [chain EXCEPT ![n] = l]
      BY <3>1 DEF l
    <3>6. \A m \in Nodes : \A h \in 1 .. Len(chain'[m]) :
            Accepted(h, chain'[m][h].round)
      BY <3>4, <3>5, LedgerAccepted DEF AcceptedInv
    <3>7. QED
      BY <1>6, <1>7, <1>8, <2>2, <2>3, <3>6, AcceptedKept
  <2>6. QED
    <3>1. chain' = chain \/ StoreBlock(n, before, b)
      BY DEF HandleSIGNBallot, FailToStore, RejectRound
    <3>2. QED
      BY <2>4, <2>5, <3>1
<1>11. QED
  BY <1>9, <1>10 DEF FailToStore, StoreBlock, RejectRound, more

\* BallotCheckSYNC: the ballots of a later height.
LEMMA AcceptedFuture ==
  ASSUME TypeOK, TypeOK', AcceptedInv, NEW n \in Nodes, NEW b \in FutureVotes(n),
         NEW before \in Selections(FutureVotes(n), b),
         \/ before = {} /\ HandleFutureBallot(n, b)
         \/ StartSync(n, before, b)
         \/ CatchUp(n, before, b)
  PROVE  AcceptedInv'
<1> DEFINE S == voted[n] \cup (before \cup {b})
<1>1. b \in msgs /\ b \in Ballot /\ b.state = ACCEPT
  BY DEF FutureVotes, TypeOK
<1>2. S \in SUBSET msgs /\ OneOfEach(S)
  <2>1. FutureVotes(n) \in SUBSET msgs /\ \A x \in FutureVotes(n) : ~IsVoted(n, x)
    BY DEF FutureVotes
  <2>2. before \cup {b} \in SUBSET msgs /\ OneOfEach(S)
    BY <2>1, GroupOnce DEF AcceptedInv
  <2>3. voted[n] \subseteq msgs
    BY DEF AcceptedInv, CountedOnce
  <2>4. QED
    BY <2>2, <2>3
<1>3. voted' = [voted EXCEPT ![n] = S] /\ UNCHANGED <<expired, sending, msgs, finishing>>
  <2>1. CountFutureBallot(n, before, b) /\ UNCHANGED finishing
    BY DEF HandleFutureBallot, StartSync, CatchUp, syncer
  <2>2. S = voted[n] \cup before \cup {b}
    OBVIOUS
  <2>3. QED
    BY <2>1, <2>2 DEF CountFutureBallot, goroutines
<1>4. FutureResult(n, before \cup {b}, b) = YES =>
        Accepted(b.basis.height, b.basis.round)
  BY <1>1, <1>2, ResultCast DEF FutureResult, Accepted, Slot
<1> HIDE DEF S
<1>5. CountedOnce'
  BY <1>2, <1>3, CountedKeeps DEF AcceptedInv
<1>6. SendingExpired'
  BY <1>3 DEF AcceptedInv, SendingExpired
<1>7. \A m \in Nodes : \A x \in latestBallot'[m] :
        x \in latestBallot[m] \/ Accepted(x.basis.height, x.basis.round)
  <2>1. CASE latestBallot' = latestBallot
    BY <2>1
  <2>2. CASE /\ latestBallot' = [latestBallot EXCEPT ![n] = {b}]
             /\ FutureResult(n, before \cup {b}, b) = YES
    BY <1>4, <2>2 DEF TypeOK
  <2>3. QED
    BY <2>1, <2>2 DEF HandleFutureBallot, StartSync, CatchUp
<1>8. CASE chain' = chain
  <2>1. \A m \in Nodes : \A h \in 1 .. Len(chain'[m]) :
          Accepted(h, chain'[m][h].round)
    BY <1>8 DEF AcceptedInv, StoredAccepted, Accepted
  <2>2. QED
    BY <1>3, <1>5, <1>6, <1>7, <2>1, AcceptedKept
<1>9. CASE CatchUp(n, before, b)
  <2> DEFINE previous == IF latestBallot[n] = {} THEN b
                         ELSE CHOOSE x \in latestBallot[n] : TRUE
             one == Append(chain[n], NewBlock(previous))
             two == Append(one, NewBlock(b))
  <2>1. previous \in Ballot /\ (previous = b \/ previous \in latestBallot[n])
    BY <1>1 DEF TypeOK
  <2> HIDE DEF previous
  <2>2. Accepted(b.basis.height, b.basis.round)
    BY <1>4, <1>9 DEF CatchUp
  <2>3. Accepted(previous.basis.height, previous.basis.round)
    BY <2>1, <2>2 DEF AcceptedInv, LatestAccepted
  <2>4. /\ chain[n] \in Seq(Block)
        /\ NewBlock(previous) \in Block /\ NewBlock(b) \in Block
        /\ \A h \in 1 .. Len(chain[n]) : Accepted(h, chain[n][h].round)
    BY <1>1, <2>1, NewBlockType DEF TypeOK, AcceptedInv, StoredAccepted, Accepted
  <2>5. Extends(chain[n], previous) =>
          /\ one \in Seq(Block)
          /\ \A h \in 1 .. Len(one) : Accepted(h, one[h].round)
    <3> SUFFICES ASSUME Extends(chain[n], previous)
                 PROVE  /\ one \in Seq(Block)
                        /\ \A h \in 1 .. Len(one) : Accepted(h, one[h].round)
      OBVIOUS
    <3>1. Accepted(Len(chain[n]) + 1, NewBlock(previous).round)
      BY <2>3 DEF Extends, NewBlock
    <3>2. QED
      BY <2>4, <3>1, AppendAccepted
  <2> HIDE DEF one
  <2>6. Extends(chain[n], previous) /\ Extends(one, b) =>
          \A h \in 1 .. Len(two) : Accepted(h, two[h].round)
    <3> SUFFICES ASSUME Extends(chain[n], previous), Extends(one, b)
                 PROVE  \A h \in 1 .. Len(two) : Accepted(h, two[h].round)
      OBVIOUS
    <3>1. Accepted(Len(one) + 1, NewBlock(b).round)
      BY <2>2 DEF Extends, NewBlock
    <3>2. QED
      BY <2>4, <2>5, <3>1, AppendAccepted
  <2> HIDE DEF two
  <2>7. \/ chain' = chain
        \/ Extends(chain[n], previous) /\ chain' = [chain EXCEPT ![n] = one]
        \/ /\ Extends(chain[n], previous) /\ Extends(one, b)
           /\ chain' = [chain EXCEPT ![n] = two]
    BY <1>9 DEF CatchUp, previous, one, two
  <2>8. \A m \in Nodes : \A h \in 1 .. Len(chain'[m]) :
          Accepted(h, chain'[m][h].round)
    <3>1. CASE chain' = chain
      BY <3>1 DEF AcceptedInv, StoredAccepted, Accepted
    <3>2. CASE Extends(chain[n], previous) /\ chain' = [chain EXCEPT ![n] = one]
      BY <2>5, <3>2, LedgerAccepted DEF AcceptedInv
    <3>3. CASE /\ Extends(chain[n], previous) /\ Extends(one, b)
               /\ chain' = [chain EXCEPT ![n] = two]
      BY <2>6, <3>3, LedgerAccepted DEF AcceptedInv
    <3>4. QED
      BY <2>7, <3>1, <3>2, <3>3
  <2>9. QED
    BY <1>3, <1>5, <1>6, <1>7, <2>8, AcceptedKept
<1>10. QED
  BY <1>8, <1>9 DEF HandleFutureBallot, StartSync

LEMMA AcceptedHandleBallot ==
  ASSUME TypeOK, TypeOK', AcceptedInv, NEW n \in Nodes, HandleBallot(n)
  PROVE  AcceptedInv'
<1>1. ASSUME NEW b \in msgs, HandleOldBallot(n, b)
      PROVE  AcceptedInv'
  <2> DEFINE e == ExpiredBallot(n, b.basis, b.state)
  <2>1. /\ msgs' = msgs \cup Admitted(sent[n], <<e>>)
        /\ UNCHANGED <<chain, expired, sending, voted, latestBallot, finishing>>
    BY <1>1 DEF HandleOldBallot, manager, goroutines, rounds, syncer
  <2>2. e.vote = EXP
    BY DEF ExpiredBallot
  <2> HIDE DEF e
  <2> USE <2>1
  <2>3. \A y \in msgs' : y \in msgs \/ y.vote = EXP
    <3>1. \A y \in Admitted(sent[n], <<e>>) : y = e
      BY SendsOnly
    <3>2. QED
      BY <2>2, <3>1
  <2>4. CountedOnce' /\ SendingExpired'
    BY DEF AcceptedInv, CountedOnce, SendingExpired, OneOfEach, Slot
  <2>5. QED
    BY <2>3, <2>4, NothingAccepted
<1>2. ASSUME NEW b \in Received(n), HandleINITBallot(n, b)
      PROVE  AcceptedInv'
  <2>1. b \in Ballot
    BY ChosenBallots DEF TypeOK
  <2>2. PICK hole \in IF b.src = n THEN {YES} ELSE InitVotes :
          msgs' = msgs \cup Admitted(sent[n], <<Resign(n, b, SIGN, hole)>>)
    BY <1>2 DEF HandleINITBallot
  <2>3. hole \in Holes
    BY BoundsAssumption DEF Holes
  <2> DEFINE x == Resign(n, b, SIGN, hole)
  <2>4. x.state # ACCEPT
    BY <2>1, <2>3, ResignType, SMTT(30) DEF Voting3
  <2> HIDE DEF x
  <2>5. \A y \in msgs' : y \in msgs \/ y.state # ACCEPT
    <3>1. \A y \in Admitted(sent[n], <<x>>) : y = x
      BY SendsOnly
    <3>2. QED
      BY <2>2, <2>4, <3>1 DEF x
  <2>6. UNCHANGED <<chain, expired, sending, voted, latestBallot, finishing>>
    BY <1>2 DEF HandleINITBallot, goroutines, rounds, syncer
  <2>7. msgs \subseteq msgs'
    BY <2>2
  <2>8. CountedOnce' /\ SendingExpired'
    BY <2>6, <2>7 DEF AcceptedInv, CountedOnce, SendingExpired, OneOfEach, Slot
  <2>9. QED
    BY <2>5, <2>6, <2>7, <2>8, NothingAccepted
<1>3. ASSUME NEW b \in Votes(n), CountBallot(n, b)
      PROVE  AcceptedInv'
  <2> DEFINE S == Counted(n, {b}, b)
  <2>1. b \in Ballot
    BY ChosenBallots DEF TypeOK
  <2>2. /\ voted' = [voted EXCEPT ![n] = S]
        /\ msgs' = msgs \cup Admitted(RenewedRecord(n, {b}, b), Renewal(n, {b}, b))
        /\ UNCHANGED <<chain, expired, sending, latestBallot, finishing>>
    BY <1>3 DEF CountBallot, manager, goroutines, syncer
  <2>3. {} \in Selections(Votes(n), b)
    BY DEF Selections
  <2>4. {b} \in SUBSET msgs /\ OneOfEach(voted[n] \cup {b})
    <3>1. Votes(n) \in SUBSET msgs /\ \A x \in Votes(n) : ~IsVoted(n, x)
      BY ChosenBallots DEF Votes
    <3>2. QED
      BY <2>3, <3>1, GroupOnce, {} \cup {b} = {b} DEF AcceptedInv
  <2>5. voted[n] \cup {b} \in SUBSET msgs
    BY <2>4 DEF AcceptedInv, CountedOnce
  <2>6. S \in SUBSET (voted[n] \cup {b})
    BY DEF Counted, StillInTime
  <2> HIDE DEF S
  <2> USE <2>2
  <2>7. msgs \subseteq msgs'
    OBVIOUS
  <2>8. CountedOnce'
    BY <2>4, <2>5, <2>6, <2>7, CountedKeeps DEF AcceptedInv
  <2>9. \A y \in msgs' : y \in msgs \/ y.vote = EXP
    BY <2>1, RenewalSends
  <2>10. SendingExpired'
    BY DEF AcceptedInv, SendingExpired
  <2>11. QED
    BY <2>7, <2>8, <2>9, <2>10, NothingAccepted
<1>4. QED
  <2>1. ASSUME NEW b \in FutureVotes(n), HandleFutureBallot(n, b)
        PROVE  AcceptedInv'
    <3>1. {} \in Selections(FutureVotes(n), b)
      BY DEF Selections
    <3>2. QED
      BY <2>1, <3>1, AcceptedFuture
  <2>2. ASSUME NEW b \in FutureVotes(n),
               NEW before \in FutureGroups(n, FutureVotes(n), b),
               StartSync(n, before, b) \/ CatchUp(n, before, b)
        PROVE  AcceptedInv'
    <3>1. before \in Selections(FutureVotes(n), b)
      BY DEF FutureGroups
    <3>2. QED
      BY <2>2, <3>1, AcceptedFuture
  <2>3. QED
    BY <1>1, <1>2, <1>3, <2>1, <2>2, AcceptedVotes DEF HandleBallot

LEMMA AcceptedStateManager ==
  ASSUME TypeOK, TypeOK', AcceptedInv, NEW n \in Nodes, StateManager(n)
  PROVE  AcceptedInv'
<1>1. UNCHANGED <<chain, voted, latestBallot, finishing>>
  BY DEF StateManager, StateTransit, EnterState, DropState, Propose, TimeoutINIT,
         TimeoutVote, TimeoutALLCONFIRM, Fired, BroadcastExpired, LookUpExpired,
         SendExpired, rounds, syncer
<1>2. msgs \subseteq msgs' => CountedOnce'
  BY <1>1 DEF AcceptedInv, CountedOnce, OneOfEach, Slot
<1>3. ASSUME \/ \E t \in transit[n] : StateTransit(n, t) \/ DropState(n, t)
             \/ TimeoutINIT(n) \/ TimeoutVote(n) \/ TimeoutALLCONFIRM(n)
      PROVE  AcceptedInv'
  <2>1. UNCHANGED <<expired, sending, msgs>>
    BY <1>3 DEF StateTransit, EnterState, DropState, TimeoutINIT, TimeoutVote,
                TimeoutALLCONFIRM, Fired, goroutines
  <2>2. SendingExpired'
    BY <2>1 DEF AcceptedInv, SendingExpired
  <2>3. QED
    BY <1>1, <1>2, <2>1, <2>2, NothingAccepted
<1>4. ASSUME Propose(n)
      PROVE  AcceptedInv'
  <2> DEFINE proposal(t) ==
        [src |-> n, basis |-> BasisOf(n, t.round), state |-> INIT,
         vote |-> YES, body |-> NewBody(n, INIT), at |-> clock]
  <2>1. PICK t \in proposing[n] :
          \/ msgs' = msgs \cup Admitted(sent[n], <<proposal(t)>>)
          \/ msgs' = msgs
    BY <1>4 DEF Propose
  <2>2. proposal(t).state # ACCEPT
    OBVIOUS
  <2> HIDE DEF proposal
  <2>3. \A y \in Admitted(sent[n], <<proposal(t)>>) : y = proposal(t)
    BY SendsOnly
  <2>4. \A y \in msgs' : y \in msgs \/ y.state # ACCEPT
    BY <2>1, <2>2, <2>3
  <2>5. SendingExpired'
    BY <1>4 DEF Propose, goroutines, AcceptedInv, SendingExpired
  <2>6. msgs \subseteq msgs'
    BY <2>1
  <2>7. QED
    BY <1>1, <1>2, <2>4, <2>5, <2>6, NothingAccepted
<1>5. ASSUME NEW t \in expiring[n], BroadcastExpired(n, t)
      PROVE  AcceptedInv'
  <2> DEFINE e == ExpiredBallot(n, BasisOf(n, t.round), t.state)
  <2>1. /\ msgs' = msgs /\ sending' = sending
        /\ expired' = [expired EXCEPT ![n] = expired[n] \cup {e}]
    BY <1>5 DEF BroadcastExpired
  <2>2. e.vote = EXP
    BY DEF ExpiredBallot
  <2> HIDE DEF e
  <2>3. \A m \in Nodes : \A y \in expired'[m] : y \in expired[m] \/ y = e
    BY <2>1 DEF TypeOK
  <2>4. SendingExpired'
    BY <2>1, <2>2, <2>3 DEF AcceptedInv, SendingExpired
  <2>5. QED
    BY <1>1, <1>2, <2>1, <2>4, NothingAccepted
<1>6. ASSUME NEW b \in expired[n], LookUpExpired(n, b)
      PROVE  AcceptedInv'
  <2>1. /\ msgs' = msgs
        /\ expired' = [expired EXCEPT ![n] = expired[n] \ {b}]
        /\ sending' = sending \/ sending' = [sending EXCEPT ![n] = sending[n] \cup {b}]
    BY <1>6 DEF LookUpExpired
  <2>2. \A m \in Nodes : /\ expired'[m] \subseteq expired[m]
                         /\ sending'[m] \subseteq expired[m] \cup sending[m]
    <3>1. \A m \in Nodes : expired'[m] \subseteq expired[m]
      BY <2>1 DEF TypeOK
    <3>2. CASE sending' = sending
      BY <3>1, <3>2
    <3>3. CASE sending' = [sending EXCEPT ![n] = sending[n] \cup {b}]
      BY <3>1, <3>3 DEF TypeOK
    <3>4. QED
      BY <2>1, <3>2, <3>3
  <2>3. SendingExpired'
    BY <2>2 DEF AcceptedInv, SendingExpired
  <2>4. QED
    BY <1>1, <1>2, <2>1, <2>3, NothingAccepted
<1>7. ASSUME NEW b \in sending[n], SendExpired(n, b)
      PROVE  AcceptedInv'
  <2>1. /\ msgs' = msgs \cup {b} /\ expired' = expired
        /\ sending' = [sending EXCEPT ![n] = sending[n] \ {b}]
    BY <1>7 DEF SendExpired
  <2>2. b.vote = EXP
    BY DEF AcceptedInv, SendingExpired
  <2>3. \A m \in Nodes : sending'[m] \subseteq sending[m]
    BY <2>1 DEF TypeOK
  <2>4. SendingExpired'
    BY <2>1, <2>3 DEF AcceptedInv, SendingExpired
  <2>5. QED
    BY <1>1, <1>2, <2>1, <2>2, <2>4, NothingAccepted
<1>8. QED
  BY <1>3, <1>4, <1>5, <1>6, <1>7 DEF StateManager

\* The syncer finds a block that another node has stored, and stores it.
LEMMA AcceptedSyncer ==
  ASSUME TypeOK, TypeOK', AcceptedInv, NEW n \in Nodes, Syncer(n)
  PROVE  AcceptedInv'
<1>1. /\ UNCHANGED <<msgs, voted, expired, sending, latestBallot>>
      /\ CountedOnce' /\ SendingExpired'
  <2>1. UNCHANGED <<msgs, voted, expired, sending, latestBallot>>
    BY DEF Syncer, FindMissing, SyncBlock, manager, goroutines, rounds
  <2>2. QED
    BY <2>1 DEF AcceptedInv, CountedOnce, SendingExpired, OneOfEach, Slot
<1>2. /\ \A k \in Nodes : chain[k] \in Seq(Block)
      /\ \A k \in Nodes : \A h \in 1 .. Len(chain[k]) : Accepted(h, chain[k][h].round)
  BY DEF TypeOK, AcceptedInv, StoredAccepted, Accepted
<1>3. ASSUME NEW m \in Nodes, FindMissing(n, m)
      PROVE  AcceptedInv'
  <2>1. /\ finishing' = [finishing EXCEPT ![n] = finishing[n] \cup {Missing(n, m)}]
        /\ chain' = chain /\ Height(n) < Height(m)
    BY <1>3 DEF FindMissing
  <2>2. Height(n) \in 1 .. Len(chain[m])
    BY <1>2, <2>1, SMTT(30) DEF Height
  <2>3. Accepted(Missing(n, m).height, Missing(n, m).block.round)
    BY <1>2, <2>2 DEF Missing
  <2>4. \A k \in Nodes : \A f \in finishing'[k] : f \in finishing[k] \/ f = Missing(n, m)
    BY <2>1 DEF TypeOK
  <2>5. QED
    BY <1>1, <1>2, <2>1, <2>3, <2>4, AcceptedKept
<1>4. ASSUME NEW f \in finishing[n], SyncBlock(n, f)
      PROVE  AcceptedInv'
  <2> DEFINE one == Append(chain[n], f.block)
             other == [chain[n] EXCEPT ![f.height] = f.block]
  <2>1. /\ \/ f.height = Len(chain[n]) + 1 /\ chain' = [chain EXCEPT ![n] = one]
           \/ chain' = [chain EXCEPT ![n] = other]
        /\ finishing' = [finishing EXCEPT ![n] = finishing[n] \ {f}]
    BY <1>4 DEF SyncBlock
  <2>2. f.block \in Block /\ Accepted(f.height, f.block.round)
    BY DEF TypeOK, AcceptedInv, FinishingAccepted
  <2>3. \A k \in Nodes : finishing'[k] \subseteq finishing[k]
    BY <2>1 DEF TypeOK
  <2>4. f.height = Len(chain[n]) + 1 =>
          \A h \in 1 .. Len(one) : Accepted(h, one[h].round)
    BY <1>2, <2>2, AppendAccepted
  <2>5. \A h \in 1 .. Len(other) : Accepted(h, other[h].round)
    <3>1. Len(other) = Len(chain[n]) /\ DOMAIN chain[n] = 1 .. Len(chain[n])
      BY <1>2, <2>2, StoredAt, SMTT(30)
    <3>2. ASSUME NEW h \in 1 .. Len(chain[n])
          PROVE  other[h] = IF h = f.height THEN f.block ELSE chain[n][h]
      BY <3>1, SMTT(30)
    <3> HIDE DEF other
    <3>3. QED
      BY <1>2, <2>2, <3>1, <3>2
  <2> HIDE DEF one, other
  <2>6. \A k \in Nodes : \A h \in 1 .. Len(chain'[k]) : Accepted(h, chain'[k][h].round)
    <3>1. StoredAccepted
      BY DEF AcceptedInv
    <3>2. QED
      BY <2>1, <2>4, <2>5, <3>1, LedgerAccepted
  <2>7. QED
    BY <1>1, <2>3, <2>6, AcceptedKept
<1>5. QED
  BY <1>3, <1>4 DEF Syncer

LEMMA AcceptedNext ==
  ASSUME TypeOK, TypeOK', AcceptedInv, [Next]_vars
  PROVE  AcceptedInv'
<1>1. ASSUME NEW n \in Nodes, Restart(n)
      PROVE  AcceptedInv'
  <2>1. UNCHANGED <<chain, msgs>>
    BY <1>1 DEF Restart
  <2>2. \A m \in Nodes : /\ voted'[m] \subseteq voted[m]
                         /\ expired'[m] \subseteq expired[m]
                         /\ sending'[m] \subseteq sending[m]
                         /\ finishing'[m] \subseteq finishing[m]
                         /\ latestBallot'[m] \subseteq latestBallot[m]
    BY <1>1, SMTT(30) DEF Restart, TypeOK
  <2> USE <2>1, <2>2
  <2>3. \A m \in Nodes : voted'[m] \subseteq msgs' /\ OneOfEach(voted'[m])
    BY DEF AcceptedInv, CountedOnce, OneOfEach
  <2>4. CountedOnce'
    BY <2>3 DEF CountedOnce, OneOfEach, Slot
  <2>5. SendingExpired'
    BY DEF AcceptedInv, SendingExpired
  <2>6. \A m \in Nodes : \A h \in 1 .. Len(chain'[m]) : Accepted(h, chain'[m][h].round)
    BY DEF AcceptedInv, StoredAccepted, Accepted
  <2>7. QED
    BY <2>4, <2>5, <2>6, AcceptedKept
<1>2. CASE Tick \/ UNCHANGED vars
  <2>1. UNCHANGED <<chain, msgs, voted, expired, sending, latestBallot, finishing>>
    BY <1>2 DEF Tick, vars, manager, goroutines, rounds, syncer
  <2>2. CountedOnce' /\ SendingExpired'
    BY <2>1 DEF AcceptedInv, CountedOnce, SendingExpired, OneOfEach, Slot
  <2>3. QED
    BY <2>1, <2>2, NothingAccepted
<1>3. QED
  BY <1>1, <1>2, AcceptedHandleBallot, AcceptedStateManager, AcceptedSyncer DEF Next

-----------------------------------------------------------------------------
(***************************************************************************)
(* The theorems                                                            *)
(***************************************************************************)

LEMMA AcceptedInit == Init => AcceptedInv
<1> SUFFICES ASSUME Init
             PROVE  AcceptedInv
  OBVIOUS
<1>1. /\ msgs = {}
      /\ \A n \in Nodes : /\ chain[n] = <<>> /\ voted[n] = {}
                          /\ expired[n] = {} /\ sending[n] = {}
                          /\ latestBallot[n] = {} /\ finishing[n] = {}
  BY DEF Init
<1> USE <1>1
<1>2. \A n \in Nodes : 1..Len(chain[n]) = {}
  <2>1. 1..Len(<<>>) = {}
    BY SMTT(30)
  <2>2. QED
    BY <2>1
<1>3. CountedOnce
  BY DEF CountedOnce, OneOfEach
<1>4. SendingExpired /\ LatestAccepted /\ FinishingAccepted
  BY DEF SendingExpired, LatestAccepted, FinishingAccepted
<1>5. AcceptJustified
  BY DEF AcceptJustified
<1>6. StoredAccepted
  BY <1>2 DEF StoredAccepted
<1>7. QED
  BY <1>3, <1>4, <1>5, <1>6 DEF AcceptedInv

\* An ACCEPT ballot for YES or NO repeats what a threshold of the validators
\* said in SIGN (SIGNBallotBroadcast), for every number of validators.
THEOREM AcceptsAreJustified == Spec => []AcceptJustified
<1>1. TypeOK /\ AcceptedInv /\ [Next]_vars => AcceptedInv'
  BY TypeNext, AcceptedNext
<1>2. AcceptedInv => AcceptJustified
  BY DEF AcceptedInv
<1>3. QED
  BY <1>1, <1>2, AcceptedInit, TypeInit, TypeNext, PTL DEF Spec

\* A block in the ledger of any validator, stored by consensus, catch-up or
\* sync, was accepted by a threshold of the validators (FinishedBallotStore).
THEOREM StoredWereAccepted == Spec => []StoredAccepted
<1>1. TypeOK /\ AcceptedInv /\ [Next]_vars => AcceptedInv'
  BY TypeNext, AcceptedNext
<1>2. AcceptedInv => StoredAccepted
  BY DEF AcceptedInv
<1>3. QED
  BY <1>1, <1>2, AcceptedInit, TypeInit, TypeNext, PTL DEF Spec

-----------------------------------------------------------------------------
(***************************************************************************)
(* A validator votes once in each ISAACState.  The send record is cleared  *)
(* of the heights that are stored, lost on a restart and cleared of what   *)
(* goes out of time, and a goroutine may broadcast an EXP ballot after     *)
(* having looked at the record long before.  None of that lets a second    *)
(* YES or NO pass at the height that the validator works on.               *)
(***************************************************************************)

\* What a validator may have forgotten.
Forgotten(n, h) == h < Height(n) \/ crashes[n] > 0 \/ clock > 0

\* A vote is recorded, or may have been forgotten.
VotesRecorded ==
  \A b \in msgs : \/ b.vote = EXP
                  \/ Slot(b) \in sent[b.src]
                  \/ Forgotten(b.src, b.basis.height)

\* Until time passes nothing is out of time.
MadeInTime ==
  clock = 0 => /\ \A b \in msgs : b.at = 0 /\ b.body.at = 0
               /\ \A n \in Nodes : \A b \in expired[n] \cup sending[n] :
                    b.at = 0 /\ b.body.at = 0

RecordInv == VotesRecorded /\ MadeInTime /\ OneVotePerState

\* Once time has passed nothing is claimed.
LEMMA RecordLater ==
  ASSUME TypeOK', clock' # 0
  PROVE  RecordInv'
<1>1. clock' > 0
  BY DEF TypeOK
<1>2. QED
  BY <1>1 DEF RecordInv, VotesRecorded, MadeInTime, OneVotePerState, Forgotten

\* Ledgers, restarts and time only grow, and so does what may be forgotten.
LEMMA ForgottenStays ==
  ASSUME TypeOK, TypeOK', NEW n \in Nodes, NEW h \in Nat, Forgotten(n, h),
         Len(chain[n]) <= Len(chain'[n]), crashes[n] <= crashes'[n],
         clock' = clock
  PROVE  Forgotten(n, h)'
<1>1. /\ Len(chain[n]) \in Nat /\ Len(chain'[n]) \in Nat
      /\ crashes[n] \in Nat /\ crashes'[n] \in Nat /\ clock \in Nat
  <2>1. chain[n] \in Seq(Block) /\ chain'[n] \in Seq(Block)
    BY DEF TypeOK
  <2>2. QED
    BY <2>1 DEF TypeOK
<1>2. QED
  BY <1>1, SMTT(30) DEF Forgotten, Height

\* What a step has to do to keep the invariant: it broadcasts one ballot at
\* most, and that is an EXP ballot or one whose slot was not recorded and now
\* is; and it clears no more from the record than may be forgotten.
LEMMA RecordKept ==
  ASSUME TypeOK, TypeOK', RecordInv, NEW new, msgs' = msgs \cup new,
         \A x, y \in new : x = y,
         \A x \in new : \/ x.vote = EXP
                        \/ Slot(x) \notin sent[x.src] /\ Slot(x) \in sent'[x.src],
         \A m \in Nodes : Len(chain[m]) <= Len(chain'[m]),
         \A m \in Nodes : crashes[m] <= crashes'[m],
         clock' = clock,
         \A m \in Nodes : \A t \in sent[m] :
           t \in sent'[m] \/ Forgotten(m, t.height)',
         MadeInTime'
  PROVE  RecordInv'
<1>1. \A b \in msgs' : b \in Ballot /\ b.src \in Nodes /\ b.basis.height \in Nat
  BY DEF TypeOK, Ballot, Basis
<1>2. ASSUME NEW b \in msgs
      PROVE  /\ b.src \in Nodes /\ b.basis.height \in Nat
             /\ Slot(b).height = b.basis.height
  BY <1>1 DEF Slot, State
<1>3. ASSUME NEW b \in msgs, b.vote # EXP, Forgotten(b.src, b.basis.height)
      PROVE  Forgotten(b.src, b.basis.height)'
  BY <1>2, <1>3, ForgottenStays
<1>4. ASSUME NEW b \in msgs, b.vote # EXP, Slot(b) \in sent[b.src]
      PROVE  Slot(b) \in sent'[b.src] \/ Forgotten(b.src, b.basis.height)'
  BY <1>2, <1>4
<1>5. \A b \in msgs' : \/ b.vote = EXP
                       \/ Slot(b) \in sent'[b.src]
                       \/ Forgotten(b.src, b.basis.height)'
  BY <1>3, <1>4 DEF RecordInv, VotesRecorded
<1>6. VotesRecorded'
  BY <1>5 DEF VotesRecorded, Slot, Forgotten, Height
<1>7. ASSUME NEW b \in msgs', NEW c \in msgs', b.src = c.src, Slot(b) = Slot(c),
             b # c, b.vote # EXP, c.vote # EXP
      PROVE  Forgotten(b.src, b.basis.height)'
  <2>1. b.basis.height = c.basis.height
    <3>1. Slot(b).height = b.basis.height /\ Slot(c).height = c.basis.height
      BY DEF Slot, State
    <3>2. QED
      BY <1>7, <3>1
  <2>2. CASE b \in msgs /\ c \in msgs
    BY <1>3, <1>7, <2>2 DEF RecordInv, OneVotePerState, Forgotten
  <2>3. ASSUME NEW x \in msgs, NEW y \in new, x.src = y.src, Slot(x) = Slot(y),
               x.vote # EXP, y.vote # EXP
        PROVE  Forgotten(x.src, x.basis.height)'
    <3>1. Slot(x) \notin sent[x.src]
      BY <2>3
    <3>2. Forgotten(x.src, x.basis.height)
      BY <2>3, <3>1 DEF RecordInv, VotesRecorded
    <3>3. QED
      BY <1>3, <2>3, <3>2
  <2>4. CASE b \in msgs /\ c \in new
    BY <1>7, <2>3, <2>4
  <2>5. CASE b \in new /\ c \in msgs
    <3>1. Forgotten(c.src, c.basis.height)'
      BY <1>7, <2>3, <2>5
    <3>2. QED
      BY <1>7, <2>1, <3>1
  <2>6. QED
    BY <1>7, <2>2, <2>4, <2>5
<1>8. OneVotePerState'
  BY <1>7 DEF OneVotePerState, Forgotten, Slot, Height
<1>9. QED
  BY <1>6, <1>8 DEF RecordInv

\* A step that broadcasts nothing, and may clear the record.
LEMMA RecordCleared ==
  ASSUME TypeOK, TypeOK', RecordInv, UNCHANGED <<msgs, clock>>,
         \A m \in Nodes : Len(chain[m]) <= Len(chain'[m]),
         \A m \in Nodes : crashes[m] <= crashes'[m],
         \A m \in Nodes : \A t \in sent[m] :
           t \in sent'[m] \/ Forgotten(m, t.height)',
         MadeInTime'
  PROVE  RecordInv'
<1>1. ASSUME NEW new, new = {}
      PROVE  RecordInv'
  <2>1. msgs' = msgs \cup new
    BY <1>1
  <2>2. /\ \A x, y \in new : x = y
        /\ \A x \in new : \/ x.vote = EXP
                          \/ Slot(x) \notin sent[x.src] /\ Slot(x) \in sent'[x.src]
    BY <1>1
  <2>3. QED
    BY <2>1, <2>2, RecordKept
<1>2. QED
  BY <1>1

\* A step that broadcasts nothing.
LEMMA RecordQuiet ==
  ASSUME TypeOK, TypeOK', RecordInv, UNCHANGED <<msgs, sent, clock>>,
         \A m \in Nodes : Len(chain[m]) <= Len(chain'[m]),
         \A m \in Nodes : crashes[m] <= crashes'[m],
         UNCHANGED <<expired, sending>>
  PROVE  RecordInv'
<1>1. MadeInTime'
  BY DEF RecordInv, MadeInTime
<1>2. \A m \in Nodes : \A t \in sent[m] : t \in sent'[m] \/ Forgotten(m, t.height)'
  OBVIOUS
<1>3. QED
  BY <1>1, <1>2, RecordCleared

\* A step that calls BroadcastBallot for one ballot of the node itself.
LEMMA RecordSend ==
  ASSUME TypeOK, TypeOK', RecordInv, NEW n \in Nodes, NEW x \in Ballot, x.src = n,
         msgs' = msgs \cup Admitted(sent[n], <<x>>),
         sent' = [sent EXCEPT ![n] = Recorded(sent[n], <<x>>)],
         clock = 0 => x.at = 0 /\ x.body.at = 0,
         UNCHANGED <<chain, crashes, clock, expired, sending>>
  PROVE  RecordInv'
<1>1. /\ Admitted(sent[n], <<x>>) = IF Slot(x) \in sent[n] THEN {} ELSE {x}
      /\ Recorded(sent[n], <<x>>) = sent[n] \cup {Slot(x)}
  BY SendOne
<1> DEFINE new == Admitted(sent[n], <<x>>)
<1>2. \A y \in new : y = x /\ Slot(x) \notin sent[n]
  BY <1>1
<1>3. sent' = [sent EXCEPT ![n] = sent[n] \cup {Slot(x)}]
  BY <1>1
<1>4. /\ \A m \in Nodes : sent[m] \subseteq sent'[m]
      /\ Slot(x) \in sent'[n]
  <2>1. DOMAIN sent = Nodes
    BY DEF TypeOK
  <2>2. QED
    BY <1>3, <2>1
<1>6. msgs' = msgs \cup new
  OBVIOUS
<1> HIDE DEF new
<1>7. MadeInTime'
  BY <1>2, <1>6 DEF RecordInv, MadeInTime
<1>8. \A m \in Nodes : Len(chain[m]) <= Len(chain'[m]) /\ crashes[m] <= crashes'[m]
  <2>1. \A m \in Nodes : chain[m] \in Seq(Block) /\ crashes[m] \in Nat
    BY DEF TypeOK
  <2>2. QED
    BY <2>1, SMTT(30)
<1>9. /\ \A y, z \in new : y = z
      /\ \A y \in new : Slot(y) \notin sent[y.src] /\ Slot(y) \in sent'[y.src]
  BY <1>2, <1>4
<1>10. QED
  BY <1>4, <1>6, <1>7, <1>8, <1>9, RecordKept, Zenon

\* Before time passes, BallotRenewal has nothing to do.
LEMMA NoRenewal ==
  ASSUME TypeOK, RecordInv, CountedOnce, clock = 0, NEW n \in Nodes,
         NEW more \in SUBSET msgs, NEW b
  PROVE  /\ Counted(n, more, b) = voted[n] \cup more
         /\ Renewal(n, more, b) = <<>> /\ RenewedRecord(n, more, b) = sent[n]
<1>1. \A x \in voted[n] \cup more : x.at = clock /\ x.body.at = clock
  BY DEF RecordInv, MadeInTime, CountedOnce
<1>2. Counted(n, more, b) = voted[n] \cup more
  BY <1>1 DEF Counted, StillInTime
<1>3. ~NeedRenewal(n, more, b)
  BY <1>2 DEF NeedRenewal
<1>4. QED
  BY <1>2, <1>3 DEF Renewal, RenewedRecord

LEMMA LengthsStay ==
  ASSUME TypeOK, TypeOK', UNCHANGED <<chain, crashes>>
  PROVE  /\ \A m \in Nodes : Len(chain[m]) <= Len(chain'[m])
         /\ \A m \in Nodes : crashes[m] <= crashes'[m]
<1>1. \A m \in Nodes : chain[m] \in Seq(Block) /\ crashes[m] \in Nat
  BY DEF TypeOK
<1>2. QED
  BY <1>1, SMTT(30)

\* A step that gives one node a ledger that is no shorter.
LEMMA LengthsGrow ==
  ASSUME TypeOK, TypeOK', NEW n \in Nodes, NEW l, chain' = [chain EXCEPT ![n] = l],
         Len(chain[n]) <= Len(l), UNCHANGED crashes
  PROVE  /\ \A m \in Nodes : Len(chain[m]) <= Len(chain'[m])
         /\ \A m \in Nodes : crashes[m] <= crashes'[m]
<1>1. \A m \in Nodes : chain[m] \in Seq(Block) /\ crashes[m] \in Nat
  BY DEF TypeOK
<1>2. \A m \in Nodes : chain'[m] = IF m = n THEN l ELSE chain[m]
  BY DEF TypeOK
<1>3. \A m \in Nodes : Len(chain[m]) \in Nat
  BY <1>1, SMTT(30)
<1>4. \A m \in Nodes : Len(chain[m]) <= Len(chain'[m])
  BY <1>2, <1>3, SMTT(30)
<1>5. QED
  BY <1>1, <1>4, SMTT(30)

LEMMA RecordVotes ==
  ASSUME TypeOK, TypeOK', RecordInv, CountedOnce, clock = 0, NEW n \in Nodes,
         NEW b \in Votes(n), NEW before \in Groups(n, Votes(n), b),
         \/ HandleSIGNBallot(n, before, b)
         \/ FailToStore(n, before, b)
         \/ StoreBlock(n, before, b)
         \/ RejectRound(n, before, b)
  PROVE  RecordInv'
<1> DEFINE more == before \cup {b}
<1>1. b \in Ballot /\ b \in msgs /\ more \in SUBSET msgs
  BY ChosenBallots DEF TypeOK
<1> HIDE DEF more
<1>2. Renewal(n, more, b) = <<>> /\ RenewedRecord(n, more, b) = sent[n]
  BY <1>1, NoRenewal
<1>3. UNCHANGED <<crashes, clock, expired, sending>>
  BY DEF HandleSIGNBallot, FailToStore, StoreBlock, RejectRound,
         CountACCEPTBallot, goroutines, environment
<1>4. CASE HandleSIGNBallot(n, before, b)
  <2> DEFINE result == Result(n, more, b)
             x == ReplyTo(n, b, result)
  <2>1. /\ result # NOTYET /\ chain' = chain
        /\ msgs' = msgs \cup Admitted(RenewedRecord(n, more, b),
                                      Renewal(n, more, b) \o <<x>>)
        /\ sent' = [sent EXCEPT ![n] = Recorded(RenewedRecord(n, more, b),
                                                Renewal(n, more, b) \o <<x>>)]
    BY <1>4 DEF HandleSIGNBallot, more
  <2>2. result \in Holes
    BY <2>1, ResultType DEF Result
  <2> HIDE DEF result
  <2>3. x \in Ballot /\ x.src = n /\ x.at = clock /\ x.body = b.body
    BY <1>1, <2>2, ResignType, SMTT(30) DEF ReplyTo, Voting3, Holes
  <2> HIDE DEF x
  <2>4. <<>> \o <<x>> = <<x>>
    BY <2>3, SMTT(30)
  <2>5. x.at = 0 /\ x.body.at = 0
    BY <1>1, <2>3 DEF RecordInv, MadeInTime
  <2>6. /\ msgs' = msgs \cup Admitted(sent[n], <<x>>)
        /\ sent' = [sent EXCEPT ![n] = Recorded(sent[n], <<x>>)]
    BY <1>2, <2>1, <2>4
  <2>7. QED
    BY <1>3, <2>1, <2>3, <2>5, <2>6, RecordSend
<1>5. CASE CountACCEPTBallot(n, more, b)
  <2>1. msgs' = msgs /\ RecordAfter(n, more, b) = sent[n]
    <3>1. Admitted(sent[n], <<>>) = {} /\ Recorded(sent[n], <<>>) = sent[n]
      BY SendNone
    <3>2. QED
      BY <1>2, <1>5, <3>1 DEF CountACCEPTBallot, RecordAfter
  <2>2. CASE FailToStore(n, before, b) \/ RejectRound(n, before, b)
    <3>1. chain' = chain /\ sent' = [sent EXCEPT ![n] = sent[n]]
      BY <2>1, <2>2 DEF FailToStore, RejectRound, more
    <3>2. sent' = sent
      BY <3>1 DEF TypeOK
    <3>3. QED
      BY <1>3, <2>1, <3>1, <3>2, LengthsStay, RecordQuiet
  <2>3. CASE StoreBlock(n, before, b)
    <3> DEFINE l == Append(chain[n], NewBlock(b))
               kept == {t \in sent[n] : t.height > b.basis.height}
    <3>1. /\ chain' = [chain EXCEPT ![n] = l]
          /\ sent' = [sent EXCEPT ![n] = kept]
          /\ b.basis.height = Len(chain[n]) + 1
      BY <2>1, <2>3 DEF StoreBlock, Extends, more
    <3>2. chain[n] \in Seq(Block) /\ NewBlock(b) \in Block
      BY <1>1, NewBlockType DEF TypeOK
    <3>3. Len(chain[n]) \in Nat /\ Len(l) = Len(chain[n]) + 1
      BY <3>2, SMTT(30)
    <3> HIDE DEF l
    <3>4. /\ \A m \in Nodes : Len(chain[m]) <= Len(chain'[m])
          /\ \A m \in Nodes : crashes[m] <= crashes'[m]
      <4>1. Len(chain[n]) <= Len(l)
        BY <3>3, SMTT(30)
      <4>2. QED
        BY <1>3, <3>1, <4>1, LengthsGrow
    <3>5. \A m \in Nodes : \A t \in sent[m] :
            t \in sent'[m] \/ Forgotten(m, t.height)'
      <4> SUFFICES ASSUME NEW m \in Nodes, NEW t \in sent[m], t \notin sent'[m]
                   PROVE  Forgotten(m, t.height)'
        OBVIOUS
      <4>1. m = n /\ ~(t.height > b.basis.height)
        BY <3>1 DEF TypeOK
      <4>2. chain'[n] = l
        BY <3>1 DEF TypeOK
      <4>3. t.height \in Nat
        BY DEF TypeOK, StateType
      <4>4. t.height < Len(chain'[n]) + 1
        BY <3>1, <3>3, <4>1, <4>2, <4>3, SMTT(30)
      <4>5. QED
        BY <4>1, <4>4 DEF Forgotten, Height
    <3>6. MadeInTime'
      BY <1>3, <2>1 DEF RecordInv, MadeInTime
    <3>7. UNCHANGED <<msgs, clock>>
      BY <1>3, <2>1
    <3>8. QED
      BY <3>4, <3>5, <3>6, <3>7, RecordCleared
  <2>4. ~HandleSIGNBallot(n, before, b)
    <3>1. b.state = ACCEPT
      BY <1>5 DEF CountACCEPTBallot
    <3>2. QED
      BY <3>1 DEF HandleSIGNBallot
  <2>5. QED
    BY <2>2, <2>3, <2>4
<1>6. QED
  BY <1>4, <1>5 DEF FailToStore, StoreBlock, RejectRound, more

LEMMA RecordHandleBallot ==
  ASSUME TypeOK, TypeOK', RecordInv, CountedOnce, clock = 0, NEW n \in Nodes,
         HandleBallot(n)
  PROVE  RecordInv'
<1>1. ASSUME NEW b \in msgs, HandleOldBallot(n, b)
      PROVE  FALSE
  BY <1>1 DEF HandleOldBallot, HasCorrectTime, RecordInv, MadeInTime
<1>2. ASSUME NEW b \in Received(n), HandleINITBallot(n, b)
      PROVE  RecordInv'
  <2>1. b \in Ballot /\ b \in msgs
    BY ChosenBallots DEF TypeOK
  <2>2. PICK hole \in IF b.src = n THEN {YES} ELSE InitVotes :
          /\ msgs' = msgs \cup Admitted(sent[n], <<Resign(n, b, SIGN, hole)>>)
          /\ sent' = [sent EXCEPT
                        ![n] = Recorded(sent[n], <<Resign(n, b, SIGN, hole)>>)]
    BY <1>2 DEF HandleINITBallot
  <2>3. hole \in Holes
    BY BoundsAssumption DEF Holes
  <2> DEFINE x == Resign(n, b, SIGN, hole)
  <2>4. x \in Ballot /\ x.src = n /\ x.at = clock /\ x.body = b.body
    BY <2>1, <2>3, ResignType, SMTT(30) DEF Voting3
  <2> HIDE DEF x
  <2>5. x.at = 0 /\ x.body.at = 0
    BY <2>1, <2>4 DEF RecordInv, MadeInTime
  <2>6. UNCHANGED <<chain, crashes, clock, expired, sending>>
    BY <1>2 DEF HandleINITBallot, goroutines, environment
  <2>7. /\ msgs' = msgs \cup Admitted(sent[n], <<x>>)
        /\ sent' = [sent EXCEPT ![n] = Recorded(sent[n], <<x>>)]
    BY <2>2 DEF x
  <2>8. QED
    BY <2>4, <2>5, <2>6, <2>7, RecordSend
<1>3. ASSUME NEW b \in Votes(n), CountBallot(n, b)
      PROVE  RecordInv'
  <2>1. {b} \in SUBSET msgs
    BY ChosenBallots
  <2>2. Renewal(n, {b}, b) = <<>> /\ RenewedRecord(n, {b}, b) = sent[n]
    BY <2>1, NoRenewal
  <2>3. /\ msgs' = msgs \cup Admitted(sent[n], <<>>)
        /\ sent' = [sent EXCEPT ![n] = Recorded(sent[n], <<>>)]
        /\ UNCHANGED <<chain, crashes, clock, expired, sending>>
    BY <1>3, <2>2 DEF CountBallot, manager, goroutines, environment
  <2>4. msgs' = msgs /\ sent' = sent
    <3>1. Admitted(sent[n], <<>>) = {} /\ Recorded(sent[n], <<>>) = sent[n]
      BY SendNone
    <3>2. QED
      BY <2>3, <3>1 DEF TypeOK
  <2>5. QED
    BY <2>3, <2>4, LengthsStay, RecordQuiet
<1>4. ASSUME NEW b \in FutureVotes(n), NEW before,
             \/ HandleFutureBallot(n, b)
             \/ StartSync(n, before, b)
             \/ CatchUp(n, before, b)
      PROVE  RecordInv'
  <2>1. UNCHANGED <<msgs, sent, crashes, clock, expired, sending>>
    BY <1>4 DEF HandleFutureBallot, StartSync, CatchUp, CountFutureBallot,
                goroutines, environment
  <2>2. CASE chain' = chain
    BY <2>1, <2>2, LengthsStay, RecordQuiet
  <2>3. CASE CatchUp(n, before, b)
    <3> DEFINE previous == IF latestBallot[n] = {} THEN b
                           ELSE CHOOSE x \in latestBallot[n] : TRUE
               one == Append(chain[n], NewBlock(previous))
               two == Append(one, NewBlock(b))
    <3>1. b \in Ballot /\ previous \in Ballot
      BY DEF FutureVotes, TypeOK
    <3>2. NewBlock(b) \in Block /\ NewBlock(previous) \in Block
      BY <3>1, NewBlockType
    <3>3. \E l \in {chain[n], one, two} : chain' = [chain EXCEPT ![n] = l]
      <4>1. \/ chain' = chain
            \/ chain' = [chain EXCEPT ![n] = one]
            \/ chain' = [chain EXCEPT ![n] = two]
        BY <2>3 DEF CatchUp
      <4>2. chain = [chain EXCEPT ![n] = chain[n]]
        BY DEF TypeOK
      <4> HIDE DEF one, two
      <4>3. QED
        BY <4>1, <4>2
    <3> HIDE DEF previous
    <3>4. chain[n] \in Seq(Block)
      BY DEF TypeOK
    <3>5. one \in Seq(Block) /\ Len(one) = Len(chain[n]) + 1 /\ Len(chain[n]) \in Nat
      BY <3>2, <3>4, StoredAt, SMTT(30)
    <3> HIDE DEF one
    <3>6. Len(two) = Len(one) + 1
      BY <3>2, <3>5, StoredAt
    <3> HIDE DEF two
    <3>7. \A l \in {chain[n], one, two} : Len(chain[n]) <= Len(l)
      BY <3>5, <3>6, SMTT(30)
    <3>8. PICK l \in {chain[n], one, two} : chain' = [chain EXCEPT ![n] = l]
      BY <3>3
    <3>9. /\ \A m \in Nodes : Len(chain[m]) <= Len(chain'[m])
          /\ \A m \in Nodes : crashes[m] <= crashes'[m]
      BY <2>1, <3>7, <3>8, LengthsGrow
    <3>10. QED
      BY <2>1, <3>9, RecordQuiet
  <2>4. QED
    BY <1>4, <2>2, <2>3 DEF HandleFutureBallot, StartSync
<1>5. QED
  BY <1>1, <1>2, <1>3, <1>4, RecordVotes DEF HandleBallot

LEMMA RecordStateManager ==
  ASSUME TypeOK, TypeOK', RecordInv, SendingExpired, clock = 0, NEW n \in Nodes,
         StateManager(n)
  PROVE  RecordInv'
<1>1. UNCHANGED <<chain, crashes, clock>>
  BY DEF StateManager, StateTransit, EnterState, DropState, Propose, TimeoutINIT,
         TimeoutVote, TimeoutALLCONFIRM, Fired, BroadcastExpired, LookUpExpired,
         SendExpired, environment
<1>2. /\ \A m \in Nodes : Len(chain[m]) <= Len(chain'[m])
      /\ \A m \in Nodes : crashes[m] <= crashes'[m]
  BY <1>1, LengthsStay
<1>3. ASSUME \/ \E t \in transit[n] : StateTransit(n, t) \/ DropState(n, t)
             \/ TimeoutINIT(n) \/ TimeoutVote(n) \/ TimeoutALLCONFIRM(n)
      PROVE  RecordInv'
  <2>1. UNCHANGED <<expired, sending, msgs, sent>>
    BY <1>3 DEF StateTransit, EnterState, DropState, TimeoutINIT, TimeoutVote,
                TimeoutALLCONFIRM, Fired, goroutines
  <2>2. QED
    BY <1>1, <1>2, <2>1, RecordQuiet
<1>4. ASSUME Propose(n)
      PROVE  RecordInv'
  <2> DEFINE proposal(t) ==
        [src |-> n, basis |-> BasisOf(n, t.round), state |-> INIT,
         vote |-> YES, body |-> NewBody(n, INIT), at |-> clock]
  <2>1. PICK t \in proposing[n] :
          \/ /\ msgs' = msgs \cup Admitted(sent[n], <<proposal(t)>>)
             /\ sent' = [sent EXCEPT ![n] = Recorded(sent[n], <<proposal(t)>>)]
          \/ UNCHANGED <<msgs, sent>>
    BY <1>4 DEF Propose
  <2>2. UNCHANGED <<expired, sending>>
    BY <1>4 DEF Propose, goroutines
  <2>3. /\ NewBody(n, INIT) \in Body /\ NewBody(n, INIT).at = clock
        /\ t.round \in Nat
    BY DEF TypeOK, NewBody, Body, StateType
  <2>4. /\ proposal(t) \in Ballot /\ proposal(t).src = n
        /\ proposal(t).at = 0 /\ proposal(t).body.at = 0
    BY <2>3, BasisOfType DEF TypeOK, Ballot, Holes
  <2> HIDE DEF proposal
  <2>5. CASE UNCHANGED <<msgs, sent>>
    BY <1>1, <1>2, <2>2, <2>5, RecordQuiet
  <2>6. CASE /\ msgs' = msgs \cup Admitted(sent[n], <<proposal(t)>>)
             /\ sent' = [sent EXCEPT ![n] = Recorded(sent[n], <<proposal(t)>>)]
    BY <1>1, <2>2, <2>4, <2>6, RecordSend
  <2>7. QED
    BY <2>1, <2>5, <2>6
<1>5. ASSUME UNCHANGED <<msgs, sent>>, MadeInTime'
      PROVE  RecordInv'
  <2>1. UNCHANGED <<msgs, clock>>
    BY <1>1, <1>5
  <2>2. \A m \in Nodes : \A t \in sent[m] : t \in sent'[m] \/ Forgotten(m, t.height)'
    BY <1>5
  <2>3. QED
    BY <1>2, <1>5, <2>1, <2>2, RecordCleared
<1>6. ASSUME NEW t \in expiring[n], BroadcastExpired(n, t)
      PROVE  RecordInv'
  <2> DEFINE e == ExpiredBallot(n, BasisOf(n, t.round), t.state)
  <2>1. /\ UNCHANGED <<msgs, sent, sending>>
        /\ expired' = [expired EXCEPT ![n] = expired[n] \cup {e}]
    BY <1>6 DEF BroadcastExpired
  <2>2. e.at = 0 /\ e.body.at = 0
    BY DEF ExpiredBallot, NewBody
  <2> HIDE DEF e
  <2>3. \A m \in Nodes : \A y \in expired'[m] : y \in expired[m] \/ y = e
    BY <2>1 DEF TypeOK
  <2>4. MadeInTime'
    BY <1>1, <2>1, <2>2, <2>3 DEF RecordInv, MadeInTime
  <2>5. QED
    BY <1>5, <2>1, <2>4
<1>7. ASSUME NEW b \in expired[n], LookUpExpired(n, b)
      PROVE  RecordInv'
  <2>1. /\ UNCHANGED <<msgs, sent>>
        /\ expired' = [expired EXCEPT ![n] = expired[n] \ {b}]
        /\ sending' = sending \/ sending' = [sending EXCEPT ![n] = sending[n] \cup {b}]
    BY <1>7 DEF LookUpExpired
  <2>2. \A m \in Nodes : expired'[m] \subseteq expired[m]
    BY <2>1 DEF TypeOK
  <2>3. \A m \in Nodes : sending'[m] \subseteq expired[m] \cup sending[m]
    <3>1. CASE sending' = sending
      BY <3>1
    <3>2. CASE sending' = [sending EXCEPT ![n] = sending[n] \cup {b}]
      BY <3>2 DEF TypeOK
    <3>3. QED
      BY <2>1, <3>1, <3>2
  <2>4. MadeInTime'
    BY <1>1, <2>1, <2>2, <2>3 DEF RecordInv, MadeInTime
  <2>5. QED
    BY <1>5, <2>1, <2>4
<1>8. ASSUME NEW b \in sending[n], SendExpired(n, b)
      PROVE  RecordInv'
  <2>1. /\ msgs' = msgs \cup {b} /\ expired' = expired
        /\ sending' = [sending EXCEPT ![n] = sending[n] \ {b}]
        /\ sent' = [sent EXCEPT ![n] = sent[n] \cup {Slot(b)}]
    BY <1>8 DEF SendExpired
  <2>2. b.vote = EXP
    BY DEF SendingExpired
  <2>3. \A m \in Nodes : sending'[m] \subseteq sending[m] /\ sent[m] \subseteq sent'[m]
    BY <2>1 DEF TypeOK
  <2>4. MadeInTime'
    BY <1>1, <2>1, <2>3 DEF RecordInv, MadeInTime
  <2>5. \A m \in Nodes : \A t \in sent[m] : t \in sent'[m] \/ Forgotten(m, t.height)'
    BY <2>3
  <2>6. ASSUME NEW new, new = {b}
        PROVE  RecordInv'
    <3>1. msgs' = msgs \cup new /\ clock' = clock
      BY <1>1, <2>1, <2>6
    <3>2. /\ \A x, y \in new : x = y
          /\ \A x \in new : \/ x.vote = EXP
                            \/ Slot(x) \notin sent[x.src] /\ Slot(x) \in sent'[x.src]
      BY <2>2, <2>6
    <3>3. QED
      BY <1>2, <2>4, <2>5, <3>1, <3>2, RecordKept
  <2>7. QED
    BY <2>6
<1>9. QED
  BY <1>3, <1>4, <1>6, <1>7, <1>8 DEF StateManager

LEMMA RecordNext ==
  ASSUME TypeOK, TypeOK', AcceptedInv, RecordInv, [Next]_vars
  PROVE  RecordInv'
<1>1. CASE clock' # 0
  BY <1>1, RecordLater
<1>2. ASSUME clock' = 0
      PROVE  clock = 0
  <2>1. clock' = clock \/ clock' = clock + 1
    <3>1. ASSUME NEW n \in Nodes, HandleBallot(n) \/ StateManager(n) \/ Syncer(n)
                                  \/ Restart(n)
          PROVE  clock' = clock
      <4>1. CASE HandleBallot(n)
        <5>1. ASSUME NEW b, HandleOldBallot(n, b) \/ HandleINITBallot(n, b)
                            \/ CountBallot(n, b) \/ HandleFutureBallot(n, b)
              PROVE  clock' = clock
          BY <5>1 DEF HandleOldBallot, HandleINITBallot, CountBallot,
                      HandleFutureBallot, CountFutureBallot, environment
        <5>2. ASSUME NEW b, NEW before,
                     \/ HandleSIGNBallot(n, before, b)
                     \/ FailToStore(n, before, b)
                     \/ StoreBlock(n, before, b)
                     \/ RejectRound(n, before, b)
                     \/ StartSync(n, before, b)
                     \/ CatchUp(n, before, b)
              PROVE  clock' = clock
          BY <5>2 DEF HandleSIGNBallot, FailToStore, StoreBlock, RejectRound,
                      CountACCEPTBallot, StartSync, CatchUp, CountFutureBallot,
                      environment
        <5>3. QED
          BY <4>1, <5>1, <5>2 DEF HandleBallot
      <4>2. CASE StateManager(n)
        BY <4>2 DEF StateManager, StateTransit, EnterState, DropState, Propose,
             TimeoutINIT, TimeoutVote, TimeoutALLCONFIRM, Fired, BroadcastExpired,
             LookUpExpired, SendExpired, environment
      <4>3. CASE Syncer(n) \/ Restart(n)
        BY <4>3 DEF Syncer, FindMissing, SyncBlock, Restart, environment
      <4>4. QED
        BY <3>1, <4>1, <4>2, <4>3
    <3>2. CASE Tick \/ UNCHANGED vars
      BY <3>2 DEF Tick, vars, environment
    <3>3. QED
      BY <3>1, <3>2 DEF Next
  <2>2. clock \in Nat
    BY DEF TypeOK
  <2>3. QED
    BY <1>2, <2>1, <2>2
<1>3. ASSUME NEW n \in Nodes, Syncer(n), clock = 0
      PROVE  RecordInv'
  <2>1. UNCHANGED <<msgs, sent, crashes, clock, expired, sending>>
    BY <1>3 DEF Syncer, FindMissing, SyncBlock, manager, goroutines, environment
  <2>2. /\ \A m \in Nodes : Len(chain[m]) <= Len(chain'[m])
        /\ \A m \in Nodes : crashes[m] <= crashes'[m]
    <3>1. CASE chain' = chain
      BY <2>1, <3>1, LengthsStay
    <3>2. ASSUME NEW f \in finishing[n], SyncBlock(n, f)
          PROVE  \E l : chain' = [chain EXCEPT ![n] = l] /\ Len(chain[n]) <= Len(l)
      <4> DEFINE one == Append(chain[n], f.block)
                 other == [chain[n] EXCEPT ![f.height] = f.block]
      <4>1. chain' = [chain EXCEPT ![n] = one] \/ chain' = [chain EXCEPT ![n] = other]
        BY <3>2 DEF SyncBlock
      <4>2. chain[n] \in Seq(Block) /\ f.block \in Block
        BY DEF TypeOK
      <4>3. Len(one) = Len(chain[n]) + 1 /\ Len(other) = Len(chain[n])
        BY <4>2, StoredAt
      <4> HIDE DEF one, other
      <4>4. Len(chain[n]) <= Len(one) /\ Len(chain[n]) <= Len(other)
        BY <4>2, <4>3, SMTT(30)
      <4>5. QED
        BY <4>1, <4>4
    <3>3. QED
      BY <1>3, <2>1, <3>1, <3>2, LengthsGrow DEF Syncer, FindMissing
  <2>3. QED
    BY <2>1, <2>2, RecordQuiet
<1>4. ASSUME NEW n \in Nodes, Restart(n), clock = 0
      PROVE  RecordInv'
  <2>1. /\ UNCHANGED <<chain, clock, msgs>>
        /\ crashes' = [crashes EXCEPT ![n] = crashes[n] + 1]
        /\ sent' = [sent EXCEPT ![n] = {}]
    BY <1>4 DEF Restart
  <2>2. \A m \in Nodes : expired'[m] \subseteq expired[m] /\ sending'[m] \subseteq sending[m]
    BY <1>4, SMTT(30) DEF Restart, TypeOK
  <2>3. MadeInTime'
    BY <2>1, <2>2 DEF RecordInv, MadeInTime
  <2>4. \A m \in Nodes : crashes[m] <= crashes'[m] /\ (m = n => crashes'[m] > 0)
    BY <2>1, SMTT(30) DEF TypeOK
  <2>5. \A m \in Nodes : Len(chain[m]) <= Len(chain'[m])
    <3>1. \A m \in Nodes : chain[m] \in Seq(Block)
      BY DEF TypeOK
    <3>2. QED
      BY <2>1, <3>1, SMTT(30)
  <2>6. \A m \in Nodes : \A t \in sent[m] : t \in sent'[m] \/ Forgotten(m, t.height)'
    <3>1. \A m \in Nodes : m # n => sent'[m] = sent[m]
      BY <2>1 DEF TypeOK
    <3>2. QED
      BY <2>4, <3>1 DEF Forgotten
  <2>7. \A m \in Nodes : crashes[m] <= crashes'[m]
    BY <2>4
  <2>8. QED
    BY <2>1, <2>3, <2>5, <2>6, <2>7, RecordCleared
<1>5. ASSUME Tick \/ UNCHANGED vars, clock = 0, clock' = 0
      PROVE  RecordInv'
  <2>1. UNCHANGED <<chain, crashes, clock, msgs, sent, expired, sending>>
    BY <1>5 DEF Tick, vars, manager, goroutines, environment
  <2>2. QED
    BY <2>1, LengthsStay, RecordQuiet
<1>6. CountedOnce /\ SendingExpired
  BY DEF AcceptedInv
<1>7. QED
  BY <1>1, <1>2, <1>3, <1>4, <1>5, <1>6, RecordHandleBallot, RecordStateManager
  DEF Next

\* A validator that has not restarted does not vote both YES and NO, or YES for
\* two proposals, in one ISAACState of the height it works on while no ballot
\* has gone out of time.  BroadcastBallot achieves it although it looks at the
\* send record and writes it in two steps: with nothing but EXP ballots sent by
\* another goroutine, only EXP ballots can get past a vote of the record.
THEOREM OneVote == Spec => []OneVotePerState
<1>1. Init => RecordInv
  BY DEF Init, RecordInv, VotesRecorded, MadeInTime, OneVotePerState
<1>2. TypeOK /\ AcceptedInv /\ [Next]_vars => AcceptedInv'
  BY TypeNext, AcceptedNext
<1>3. TypeOK /\ AcceptedInv /\ RecordInv /\ [Next]_vars => RecordInv'
  BY TypeNext, RecordNext
<1>4. RecordInv => OneVotePerState
  BY DEF RecordInv
<1>5. QED
  BY <1>1, <1>2, <1>3, <1>4, AcceptedInit, TypeInit, TypeNext, PTL DEF Spec
=============================================================================
