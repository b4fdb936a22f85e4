------------------------------ MODULE Ledgers -------------------------------
(***************************************************************************)
(* What a sebak network promises: every validator has a ledger that only   *)
(* grows, and whatever it appends agrees with what the others have.        *)
(***************************************************************************)
EXTENDS SequencesExt

CONSTANT Validators

VARIABLE ledger

Compatible(l, k) == IsPrefix(l, k) \/ IsPrefix(k, l)

Init == ledger = [v \in Validators |-> <<>>]

\* One or more blocks are appended to the ledger of v.
Extend(v) ==
  /\ ledger' = [ledger EXCEPT ![v] = ledger'[v]]
  /\ IsStrictPrefix(ledger[v], ledger'[v])
  /\ \A w \in Validators : Compatible(ledger'[v], ledger[w])

Next == \E v \in Validators : Extend(v)

Spec == Init /\ [][Next]_ledger
=============================================================================
