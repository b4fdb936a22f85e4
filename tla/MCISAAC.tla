------------------------------ MODULE MCISAAC -------------------------------
(***************************************************************************)
(* ISAAC for TLC, and as an implementation of Ledgers.                     *)
(***************************************************************************)
EXTENDS ISAAC

L == INSTANCE Ledgers WITH Validators <- Nodes, ledger <- chain

\* The validators implement Ledgers: no handler, timer or sync ever takes a
\* block back, and no two validators store different blocks at one height.
ImplementsLedgers == L!Spec
=============================================================================
