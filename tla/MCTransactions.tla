--------------------------- MODULE MCTransactions ---------------------------
(***************************************************************************)
(* Transactions compete for a pool of one connection, as SQLite's, and for *)
(* the pool that follows it after a disconnect(): with three of them a     *)
(* connection is handed on twice while another transaction waits.          *)
(***************************************************************************)
EXTENDS Transactions, TLC

\* hdb with validation; PostgreSQL; SQLite, which does not validate.
MCDeployments ==
    {[closes |-> TRUE, validates |-> TRUE, awaits |-> TRUE],
     [closes |-> FALSE, validates |-> TRUE, awaits |-> TRUE],
     [closes |-> FALSE, validates |-> FALSE, awaits |-> TRUE]}

\* A request handler that fails while its first query is still waiting.
HastyDeployments == {[closes |-> FALSE, validates |-> TRUE, awaits |-> FALSE]}

\* The driver hdb alone.
ClosingDeployments == {[closes |-> TRUE, validates |-> TRUE, awaits |-> TRUE]}

Symmetric == Permutations(Transactions) \cup Permutations(Pools) \cup Permutations(Slots)
=============================================================================
