------------------------------- MODULE Wallet -------------------------------
(***************************************************************************)
(* One wallet on Creditcoin as the programs that submit see it, with the   *)
(* registry's retired queries: mined transactions have the nonces below    *)
(* mined, pool holds the others that the node has accepted.  The operators *)
(* are parts of the actions of the modules that extend this one.           *)
(*                                                                         *)
(* The process is taken to be the only user of its wallet.  Nothing makes  *)
(* it so: relayer, worker and bench all read PRIVATE_KEY of the one .env   *)
(* file (packages/sdk/src/registry.ts:114), and two of them at once would  *)
(* take each other's nonces.  What is said of nonces is said of programs   *)
(* that run with a key of their own.                                       *)
(***************************************************************************)
EXTENDS NonceAllocator, FiniteSets

VARIABLES
  mined,       \* transactions of the wallet that are in a block
  pool,        \* pool[n]: the accepted transaction with nonce n
  processed    \* queries the registry has retired

allocatorVars == <<next, read>>
chainVars == <<mined, pool, processed>>

NO_NONCE == -3
Nobody == {}   \* the caller that sent it no longer waits

WalletInit ==
  /\ AllocatorInit
  /\ mined = 0 /\ pool = [n \in {} |-> 0] /\ processed = {}

\* The first nonce that is neither mined nor in the pool without a gap.
PendingCount ==
  CHOOSE n \in mined..(mined + Cardinality(DOMAIN pool)) :
    /\ n \notin DOMAIN pool
    /\ \A k \in mined..(n - 1) : k \in DOMAIN pool

Acceptable(n) == n >= mined /\ n \notin DOMAIN pool

\* The node takes the transaction with nonce n, for whose receipt waiters wait.
Accept(n, q, waiters) ==
  /\ Acceptable(n)
  /\ pool' = [k \in DOMAIN pool \cup {n} |->
                IF k = n THEN [query |-> q, waiting |-> waiters] ELSE pool[k]]
  /\ UNCHANGED <<mined, processed>>

\* waitForReceipt gives up; the transaction stays in the pool.
StopWaiting(waiter) ==
  /\ pool' = [n \in DOMAIN pool |->
                [pool[n] EXCEPT !.waiting = @ \ {waiter}]]
  /\ UNCHANGED <<mined, processed>>

\* The transaction next in line is executed; it reverts if its query is retired,
\* and may run out of gas.
Execute(ok) ==
  /\ mined \in DOMAIN pool
  /\ ok => pool[mined].query \notin processed
  /\ mined' = mined + 1
  /\ pool' = [n \in DOMAIN pool \ {mined} |-> pool[n]]
  /\ processed' = IF ok THEN processed \cup {pool[mined].query} ELSE processed

\* Another wallet submits the query.
RetireQuery(q) ==
  /\ processed' = processed \cup {q}
  /\ UNCHANGED <<mined, pool>>

=============================================================================
