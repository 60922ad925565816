----------------------------- MODULE Discovery -----------------------------
(***************************************************************************)
(* What there is to mirror: the clients that submit in bulk read it from   *)
(* easscan, newest first.                                                  *)
(*   worker  worker/src/index.ts, pollMirror: pages until it has enough    *)
(*           rows; a page that fails ends the reading;                     *)
(*   bench   bench/src/index.ts, collectCandidates: some schemas first,    *)
(*           then pages; a page that fails is passed over;                 *)
(*   schema  packages/sdk/src/mirror.ts, mirrorSchema: one page of the     *)
(*           schema's rows, without what the registry has applied.         *)
(* Rows are grouped by their transaction, whose receipt gives the block.   *)
(* The pages are counted from the newest row, and while they are read new  *)
(* rows come in before the first one.                                      *)
(***************************************************************************)
EXTENDS Listings

CONSTANTS
  Rows,        \* bound on the rows easscan has; a row is its number, oldest first
  Page,        \* rows of a page
  Take,        \* on-chain rows that are enough
  MaxPages,
  Margin       \* blocks below the attested height that may still move

ASSUME DiscoveryAssumption ==
  {Rows, Page} \subseteq Nat \ {0} /\ {Take, MaxPages, Margin} \subseteq Nat

VARIABLES
  reader,      \* off, worker, bench, schema
  phase,       \* schemas, pages, hydrate, dedupe, end
  txOf,        \* the transaction of a row, by its block; offchain has none
  newest,      \* the newest row
  head,        \* attestedHeight, read at the start
  skip,
  pageOf,      \* the rows of each page that has come
  enough,      \* on-chain rows, twice those that have come twice; of the bench, admitted ones
  groups,      \* the transactions to mirror
  anyFailed,   \* a page has failed
  known        \* the queries the registry has applied

readVars == <<skip, pageOf, enough>>
discoveryVars == <<reader, phase, txOf, newest, head, readVars, groups, anyFailed, known>>

offchain == 0

DiscoveryStart(which, where) ==
  /\ reader = which /\ phase = where
  /\ skip = 0 /\ pageOf = <<>> /\ enough = 0 /\ groups = <<>>
  /\ anyFailed = FALSE /\ known = {}

\* Attestations of one transaction follow one another.
DiscoveryInit ==
  /\ txOf \in {f \in [1..Rows -> offchain..Rows] :
                 \A r \in 1..Rows :
                   f[r] \in {offchain, r} \cup (IF r = 1 THEN {} ELSE {f[r - 1]})}
  /\ newest \in {1, Rows} /\ head \in {1, Rows}
  /\ \E which \in {"worker", "bench", "schema"} :
       DiscoveryStart(which, IF which = "bench" THEN "schemas" ELSE "pages")

DiscoveryOff ==
  /\ txOf = [r \in 1..Rows |-> offchain] /\ newest = 0 /\ head = 1
  /\ DiscoveryStart("off", "end")

Collected == UNION ToSet(pageOf)

DiscoveryTypeOK ==
  /\ reader \in {"off", "worker", "bench", "schema"}
  /\ phase \in {"schemas", "pages", "hydrate", "dedupe", "end"}
  /\ txOf \in [1..Rows -> offchain..Rows] /\ newest \in 0..Rows /\ head \in 1..Rows
  /\ skip = Page * Len(pageOf) /\ Collected \subseteq 1..newest
  /\ Len(pageOf) <= MaxPages /\ enough <= Page + Page * MaxPages
  /\ ToSet(groups) \cup known \subseteq 1..newest

-----------------------------------------------------------------------------

Slice(behind) ==
  {r \in 1..newest : newest - behind - Page < r /\ r <= newest - behind}

OnChain(rows) == {r \in rows : txOf[r] # offchain}

Ready(tx) == tx <= head - Margin

\* groupByTx keeps the first appearance of each transaction; hydrateBlocks leaves out
\* those whose receipt does not come.
groupByTx(rows, located) == {txOf[r] : r \in OnChain(rows)} \cap located

\* Of them, those that are old enough and not seen yet.
admitted(txs) == {tx \in txs \ ToSet(groups) : Ready(tx)}

\* The rows whose transactions a step has admitted.
Admitted(rows) == Cardinality({r \in rows : txOf[r] \in ToSet(groups') \ ToSet(groups)})

\* The bench reads schemas of its choice until its budget is spent, and puts the
\* transactions with the most rows first.
SchemaRead ==
  /\ reader = "bench" /\ phase = "schemas"
  /\ \/ \E rows \in SUBSET (1..newest) :
          /\ Cardinality(rows) = Page
          /\ LET size(tx) == Cardinality({r \in rows : txOf[r] = tx})
             IN  groups' \in {list \in SetToSeqs(admitted(groupByTx(rows, 1..Rows))) :
                                \A i, j \in DOMAIN list : i < j => size(list[i]) >= size(list[j])}
          /\ enough' = Admitted(rows)
     \/ UNCHANGED <<groups, enough>>
  /\ phase' = "pages"
  /\ UNCHANGED <<reader, txOf, newest, head, skip, pageOf, anyFailed, known>>

Enough ==
  \/ enough >= Take
  \/ Len(pageOf) = MaxPages
  \/ reader = "schema" /\ pageOf # <<>>

\* The bench looks for the blocks page by page; some receipts do not come.
PageRead ==
  /\ phase = "pages" /\ ~Enough /\ Slice(skip) # {}
  /\ pageOf' = Append(pageOf, Slice(skip))
  /\ skip' = skip + Page
  /\ IF reader = "bench"
     THEN /\ \E located \in SUBSET {txOf[r] : r \in Slice(skip)} :
               groups' = groups \o newestFirst(admitted(groupByTx(Slice(skip), located)))
          /\ enough' = enough + Admitted(Slice(skip))
     ELSE /\ enough' = enough + Cardinality(OnChain(Slice(skip)))
          /\ UNCHANGED groups
  /\ UNCHANGED <<reader, phase, txOf, newest, head, anyFailed, known>>

\* Mistake: the worker too passes over a page that fails.
PageFailsPassed ==
  /\ phase = "pages" /\ ~Enough
  /\ skip' = skip + Page /\ pageOf' = Append(pageOf, {}) /\ UNCHANGED phase
  /\ anyFailed' = TRUE
  /\ UNCHANGED <<reader, txOf, newest, head, enough, groups, known>>

PageFails ==
  /\ phase = "pages" /\ ~Enough
  /\ IF reader = "bench"
     THEN skip' = skip + Page /\ pageOf' = Append(pageOf, {}) /\ UNCHANGED phase
     ELSE phase' = "hydrate" /\ UNCHANGED <<skip, pageOf>>
  /\ anyFailed' = TRUE
  /\ UNCHANGED <<reader, txOf, newest, head, enough, groups, known>>

PagesEnd ==
  /\ phase = "pages" /\ (Enough \/ Slice(skip) = {})
  /\ phase' = IF reader = "bench" THEN "end" ELSE "hydrate"
  /\ UNCHANGED <<reader, txOf, newest, head, readVars, groups, anyFailed, known>>

Hydrated ==
  /\ phase = "hydrate"
  /\ \E located \in SUBSET {txOf[r] : r \in Collected} :
       LET txs == groupByTx(Collected, located)
       IN  groups' = newestFirst(IF reader = "worker" THEN admitted(txs) ELSE txs)
  /\ phase' = IF reader = "worker" THEN "end" ELSE "dedupe"
  /\ UNCHANGED <<reader, txOf, newest, head, readVars, anyFailed, known>>

\* skipExisting; the SDK leaves the margin to the wait for each batch.
Skipped ==
  /\ phase = "dedupe"
  /\ groups' = newestFirst(ToSet(groups) \ known)
  /\ phase' = "end"
  /\ UNCHANGED <<reader, txOf, newest, head, readVars, anyFailed, known>>

RowAdded ==
  /\ reader # "off" /\ newest < Rows
  /\ newest' = newest + 1
  /\ UNCHANGED <<reader, phase, txOf, head, readVars, groups, anyFailed, known>>

QueryApplied ==
  /\ reader = "schema" /\ phase # "end"
  /\ \E r \in OnChain(1..newest) : known' = known \cup {txOf[r]}
  /\ UNCHANGED <<reader, phase, txOf, newest, head, readVars, groups, anyFailed>>

DiscoveryStep == SchemaRead \/ PageRead \/ PageFails \/ PagesEnd \/ Hydrated \/ Skipped

DiscoveryNext == DiscoveryStep \/ RowAdded \/ QueryApplied

DiscoveryFairness == WF_discoveryVars(DiscoveryStep)

-----------------------------------------------------------------------------
(* Properties *)

Discovering == reader # "off" /\ phase # "end"

First == IF pageOf = <<>> THEN {} ELSE Head(pageOf)

\* However rows move between the pages while they are read, there is no hole between
\* the first page and the oldest row that was read, unless the bench has passed over a
\* page that failed; and no transaction is handed over twice, though it is on two pages.
PagesLeaveNoHole ==
  /\ \/ reader = "bench" /\ anyFailed
     \/ \A r \in Collected, s \in First : r..s \subseteq Collected
  /\ IsInjective(groups)
=============================================================================
