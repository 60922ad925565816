---------------------------- MODULE ReceiptsView ----------------------------
(***************************************************************************)
(* The page of the mirror log, web/src/routes/Receipts.tsx: it shows the   *)
(* page of the log the visitor wants, fetched by loadReceiptsPage of       *)
(* web/src/lib/receipts.ts, and fetches it again every minute.  One fetch  *)
(* runs at a time, and one that a newer wish has overtaken shows nothing.  *)
(***************************************************************************)
CONSTANTS
  LogPages,   \* the pages of the log, whatever is searched for
  Nothing     \* no page: the answer of a fetch that fails

ASSUME NothingAssumption == Nothing \notin LogPages /\ LogPages # {}

VARIABLES
  viewing,   \* the visitor is on the page
  wanted,    \* page, pageSize and debouncedQuery
  fetching,  \* the page of the fetch that runs
  current,   \* live, of the effect that began that fetch
  loading,
  showing    \* paged

receiptsVars == <<viewing, wanted, fetching, current, loading, showing>>

ReceiptsTypeOK ==
  /\ viewing \in BOOLEAN /\ wanted \in LogPages
  /\ fetching \in LogPages \cup {Nothing} /\ current \in BOOLEAN
  /\ loading \in BOOLEAN /\ showing \in LogPages \cup {Nothing}

ReceiptsInit ==
  /\ viewing = TRUE
  /\ wanted \in LogPages /\ fetching = wanted /\ current = TRUE
  /\ loading = TRUE /\ showing = Nothing

ReceiptsOff ==
  /\ viewing = FALSE
  /\ wanted = CHOOSE p \in LogPages : TRUE
  /\ fetching = Nothing /\ current = FALSE /\ loading = FALSE /\ showing = Nothing

\* The effect of a new wish: the fetch that runs shows nothing any more, and while it
\* runs, no other one begins; the page then stops loading at once.
Want ==
  /\ viewing
  /\ wanted' \in LogPages \ {wanted}
  /\ IF fetching = Nothing
     THEN fetching' = wanted' /\ current' = TRUE /\ loading' = TRUE
     ELSE UNCHANGED fetching /\ current' = FALSE /\ loading' = FALSE
  /\ UNCHANGED <<viewing, showing>>

Answer(answer) == showing' = IF current THEN answer ELSE showing

\* Mistake: refreshingRef is not reset after an answer.
FetchedNotReset ==
  /\ fetching # Nothing
  /\ Answer(fetching)
  /\ loading' = (loading /\ ~current)
  /\ UNCHANGED <<viewing, wanted, fetching, current>>

Fetched ==
  /\ fetching # Nothing
  /\ Answer(fetching)
  /\ fetching' = Nothing /\ loading' = (loading /\ ~current)
  /\ UNCHANGED <<viewing, wanted, current>>

FetchedNothing ==
  /\ fetching # Nothing
  /\ Answer(Nothing)
  /\ fetching' = Nothing /\ loading' = (loading /\ ~current)
  /\ UNCHANGED <<viewing, wanted, current>>

\* The interval of the newest effect.
Poll ==
  /\ viewing /\ fetching = Nothing
  /\ fetching' = wanted /\ current' = TRUE
  /\ UNCHANGED <<viewing, wanted, loading, showing>>

ReceiptsNext == Want \/ Fetched \/ FetchedNothing \/ Poll

\* The interval goes on firing, and the log is not out of reach for ever.
ReceiptsFairness == WF_receiptsVars(Poll) /\ SF_receiptsVars(Fetched)

-----------------------------------------------------------------------------
(* Properties *)

\* A visitor who rests sees the page that was wanted last, though its first fetch may be
\* dropped for the one that runs, and one that comes too late shows nothing.
ViewCatchesUp ==
  []<>(viewing => showing = wanted) \/ []<><<Want>>_receiptsVars
=============================================================================
