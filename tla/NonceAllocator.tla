--------------------------- MODULE NonceAllocator ---------------------------
(***************************************************************************)
(* NonceAllocator of packages/sdk/src/submit.ts, shared by the requests of *)
(* the relayer, the lanes of the bench and the batches of the SDK: the     *)
(* next nonce of one wallet, and the one read of the node's pending count  *)
(* that may be in flight.  The operators are parts of the actions of the   *)
(* module that extends this one.                                           *)
(***************************************************************************)
EXTENDS Integers

VARIABLES
  next,   \* the nonce take hands out, or UNKNOWN before the first read
  read    \* pending: NO_READ, ASKED, or the count the node has answered

NO_READ == -1
ASKED == -2
UNKNOWN == -3

AllocatorTypeOK ==
  /\ next \in Nat \cup {UNKNOWN}
  /\ read \in Nat \cup {NO_READ, ASKED}

AllocatorInit == next = UNKNOWN /\ read = NO_READ

\* Callers that find a read in flight share it.
resync ==
  /\ read' = IF read = NO_READ THEN ASKED ELSE read
  /\ UNCHANGED next

\* take up to its first await: it reads only if no nonce is known.
callTake ==
  /\ read' = IF read = NO_READ /\ next = UNKNOWN THEN ASKED ELSE read
  /\ UNCHANGED next

\* take has a nonce to give as soon as no read is in flight.
NonceReady == read = NO_READ /\ next # UNKNOWN

\* Mistake: the counter is advanced later than it is read.
takeWithoutAdvance == NonceReady /\ UNCHANGED <<next, read>>

take ==
  /\ NonceReady
  /\ next' = next + 1
  /\ UNCHANGED read

\* The node evaluates getTransactionCount(address, 'pending').
NodeCounts(count) ==
  /\ read = ASKED
  /\ read' = count
  /\ UNCHANGED next

\* Mistakes: the count is taken for the last nonce used; pending is not cleared
\* (no finally), so take goes on waiting.
ReadResolvesAsLast ==
  /\ read \in Nat
  /\ next' = read - 1
  /\ read' = NO_READ

ReadResolvesKept ==
  /\ read \in Nat
  /\ next' = read
  /\ UNCHANGED read

ReadResolves ==
  /\ read \in Nat
  /\ next' = read
  /\ read' = NO_READ

\* The finally clears pending; every caller that awaits it throws.
ReadRejects ==
  /\ read = ASKED
  /\ read' = NO_READ
  /\ UNCHANGED next

=============================================================================
