------------------------------ MODULE LogScan ------------------------------
(***************************************************************************)
(* The registry has no list: the pages that show its records read its      *)
(* event log backwards in windows, scanMirrorEvents of                     *)
(* web/src/lib/registry.ts.                                                *)
(*   registry    web/src/routes/Registry.tsx shows the events page by      *)
(*               page, for one source chain or for both;                   *)
(*   revocation  web/src/routes/Revocation.tsx looks for the event that    *)
(*               mirrored one uid, findMirrorTxHash.                       *)
(* A window that the node does not answer is cut to a third until it is as *)
(* small as it may be.  A new filter aborts the load that is under way,    *)
(* which may still end afterwards.                                         *)
(***************************************************************************)
EXTENDS Listings

CONSTANTS
  Tip,             \* bound on the blocks of Creditcoin
  LOG_WINDOW, MIN_LOG_WINDOW,
  Limit,           \* rows of one scan
  MaxWindows,      \* windows of one scan
  MaxRounds        \* scans of one look-up

\* The event that is sought has been mined when the look-up begins.
ASSUME ScanAssumption ==
  /\ {LOG_WINDOW, MIN_LOG_WINDOW, Limit, MaxRounds} \subseteq Nat \ {0}
  /\ Tip \in Nat \ {0, 1} /\ MaxWindows \in Nat /\ MIN_LOG_WINDOW <= LOG_WINDOW

VARIABLES
  page,        \* off, registry, revocation
  eventAt,     \* block -> the chain of its AttestationMirrored event, or none
  tip,         \* the newest block
  floor,       \* resolveDeploymentBlock
  filter,      \* chainFilter
  load,        \* the scan of the current controller
  late,        \* the scan of an aborted one
  listed,      \* the rows, as the blocks of their events
  cut,         \* the rows that slice(0, limit) has left out since the filter was set
  top,         \* scannedTo of the first scan
  nextBefore,
  exhausted,
  error,
  rounds,      \* i of findMirrorTxHash
  found        \* its answer, of the event in block sought
viewVars == <<listed, cut, top, nextBefore, exhausted>>
lookupVars == <<rounds, found>>
scanVars == <<page, eventAt, tip, floor, filter, load, late, viewVars, error, lookupVars>>

Chains == {"1", "3"}
Filters == {"all", "3"}
NoScan == [to |-> -2]
sought == 1

ScanStart(which) ==
  /\ page = which /\ filter = "all" /\ load = NoScan /\ late = NoScan
  /\ listed = <<>> /\ cut = {} /\ top = 0 /\ nextBefore = -1 /\ exhausted = FALSE
  /\ error = FALSE /\ rounds = 0 /\ found = "searching"

\* Where deployments.json cannot be read, the floor is 0.
ScanInit ==
  /\ tip = Tip - 1 /\ floor \in {0, 1}
  /\ eventAt \in {f \in [0..Tip -> Chains \cup {"none"}] : f[0] = "none"}
  /\ page \in {"registry", "revocation"} /\ ScanStart(page)

ScanTypeOK ==
  /\ page \in {"off", "registry", "revocation"}
  /\ tip \in 0..Tip /\ floor \in {0, 1} /\ filter \in Filters
  /\ eventAt \in [0..Tip -> Chains \cup {"none"}]
  /\ ToSet(listed) \cup cut \subseteq 0..Tip /\ top \in 0..Tip /\ nextBefore \in -1..Tip
  /\ \A scan \in {load, late} \ {NoScan} :
       /\ scan.window \in MIN_LOG_WINDOW..LOG_WINDOW /\ scan.windows \in 0..MaxWindows
       /\ scan.to \in -1..scan.top
  /\ rounds \in 0..MaxRounds /\ found \in {"searching", "yes", "no"}

ScanOff ==
  /\ tip = 0 /\ floor = 0 /\ eventAt = [b \in 0..Tip |-> "none"] /\ ScanStart("off")

-----------------------------------------------------------------------------
(* One scan *)

NewScan(before, append) ==
  [to |-> before, top |-> before, window |-> LOG_WINDOW, windows |-> 0,
   rows |-> <<>>, exhausted |-> FALSE, append |-> append]

More(scan) ==
  /\ scan # NoScan /\ ~scan.exhausted
  /\ Len(scan.rows) < Limit /\ scan.windows < MaxWindows /\ scan.to >= floor

from(scan) == IF scan.to - scan.window > floor THEN scan.to - scan.window ELSE floor

\* logs.reverse(), of the chain whose topic was asked for.
Logs(scan) ==
  newestFirst({b \in from(scan)..scan.to : eventAt[b] # "none" /\ filter \in {"all", eventAt[b]}})

WindowRead ==
  /\ More(load)
  /\ load' = [load EXCEPT !.rows = @ \o Logs(load), !.windows = @ + 1,
                          !.exhausted = from(load) <= floor, !.to = from(load) - 1]
  /\ UNCHANGED <<page, eventAt, tip, floor, filter, late, viewVars, error, lookupVars>>

\* Mistake: a window is cut to less than the smallest one.
ShrunkFurther(window) == window \div 3

Shrunk(window) == IF window \div 3 > MIN_LOG_WINDOW THEN window \div 3 ELSE MIN_LOG_WINDOW

WindowShrinks ==
  /\ More(load) /\ load.window > MIN_LOG_WINDOW
  /\ load' = [load EXCEPT !.window = Shrunk(@)]
  /\ UNCHANGED <<page, eventAt, tip, floor, filter, late, viewVars, error, lookupVars>>

-----------------------------------------------------------------------------
(* The page of the registry *)

\* The page opens, or its filter changes.
Load(chain) ==
  /\ page = "registry"
  /\ (load = NoScan /\ top = 0) \/ chain # filter
  /\ late' = IF load = NoScan THEN late ELSE load
  /\ filter' = chain
  /\ load' = NewScan(tip, FALSE)
  /\ listed' = <<>> /\ cut' = {} /\ error' = FALSE
  /\ UNCHANGED <<page, eventAt, tip, floor, top, nextBefore, exhausted, lookupVars>>

\* The button stands below the rows, which an error hides.  After an append that a new
\* filter aborted the page's button stays disabled (Registry.tsx:66-69 returns before it
\* resets loadingMore); this one does not, so the model allows more scans than the page.
ScanOlder ==
  /\ page = "registry" /\ load = NoScan /\ listed # <<>> /\ ~error /\ ~exhausted
  /\ load' = NewScan(nextBefore, TRUE)
  /\ UNCHANGED <<page, eventAt, tip, floor, filter, late, viewVars, error, lookupVars>>

Kept(scan) ==
  SubSeq(scan.rows, 1, IF Len(scan.rows) < Limit THEN Len(scan.rows) ELSE Limit)
Dropped(scan) == ToSet(scan.rows) \ ToSet(Kept(scan))

Show(scan) ==
  /\ listed' = IF scan.append THEN listed \o Kept(scan) ELSE Kept(scan)
  /\ cut' = IF scan.append THEN cut \cup Dropped(scan) ELSE Dropped(scan)
  /\ top' = IF scan.append THEN top ELSE scan.top
  /\ nextBefore' = scan.to
  /\ exhausted' = scan.exhausted

LoadReturns ==
  /\ page = "registry" /\ load # NoScan /\ ~More(load)
  /\ Show(load)
  /\ load' = NoScan
  /\ UNCHANGED <<page, eventAt, tip, floor, filter, late, error, lookupVars>>

\* The smallest window fails, or what precedes the first one.
CanFail(scan) ==
  scan # NoScan /\ (scan.window = MIN_LOG_WINDOW \/ scan.windows = 0)

LoadFails ==
  /\ page = "registry" /\ CanFail(load)
  /\ load' = NoScan /\ error' = TRUE
  /\ UNCHANGED <<page, eventAt, tip, floor, filter, late, viewVars, lookupVars>>

\* Mistake: an aborted load shows its rows.
LateShows ==
  /\ late # NoScan
  /\ Show(late)
  /\ late' = NoScan
  /\ UNCHANGED <<page, eventAt, tip, floor, filter, load, error, lookupVars>>

\* An aborted load returns and changes nothing.
LateReturns ==
  /\ late # NoScan
  /\ late' = NoScan
  /\ UNCHANGED <<page, eventAt, tip, floor, filter, load, viewVars, error, lookupVars>>

\* It may also fail, and its error is shown in the place of the rows of the new one.
LateFails ==
  /\ late # NoScan
  /\ late' = NoScan /\ error' = TRUE
  /\ UNCHANGED <<page, eventAt, tip, floor, filter, load, viewVars, lookupVars>>

-----------------------------------------------------------------------------
(* The look-up of the page of revocations *)

Searching == page = "revocation" /\ found = "searching"

Search ==
  /\ Searching /\ load = NoScan
  /\ load' = NewScan(tip, FALSE)
  /\ UNCHANGED <<page, eventAt, tip, floor, filter, late, viewVars, error, lookupVars>>

Searched ==
  /\ Searching /\ load # NoScan /\ ~More(load)
  /\ rounds' = rounds + 1
  /\ cut' = cut \cup Dropped(load)
  /\ exhausted' = load.exhausted
  /\ IF sought \in ToSet(Kept(load))
     THEN found' = "yes" /\ UNCHANGED load
     ELSE IF load.exhausted \/ rounds' = MaxRounds
     THEN found' = "no" /\ UNCHANGED load
     ELSE load' = NewScan(load.to, FALSE) /\ UNCHANGED found
  /\ UNCHANGED <<page, eventAt, tip, floor, filter, late, listed, top, nextBefore, error>>

SearchFails ==
  /\ Searching /\ CanFail(load)
  /\ found' = "no" /\ error' = TRUE
  /\ UNCHANGED <<page, eventAt, tip, floor, filter, load, late, viewVars, rounds>>

-----------------------------------------------------------------------------

\* Creditcoin goes on.
BlockMined ==
  /\ page # "off" /\ tip < Tip
  /\ tip' = tip + 1
  /\ UNCHANGED <<page, eventAt, floor, filter, load, late, viewVars, error, lookupVars>>

ScanStep ==
  \/ WindowRead \/ LoadReturns \/ LoadFails
  \/ Search \/ Searched \/ SearchFails

ScanNext ==
  \/ ScanStep \/ WindowShrinks \/ ScanOlder \/ (\E chain \in Filters : Load(chain))
  \/ LateReturns \/ LateFails \/ BlockMined

ScanFairness == WF_scanVars(ScanStep)

-----------------------------------------------------------------------------
(* Properties *)

Lowest == IF exhausted THEN floor ELSE nextBefore + 1

\* The page shows every event of the range it has scanned once, newest first, and none
\* of another chain, however windows fail, filters change and aborted loads return;
\* only rows beyond the limit of a scan are left out, and those no later scan shows.  A
\* look-up that comes to the floor without an answer has not passed over the event.
ScanLeavesNoGap ==
  /\ listed # <<>> =>
       /\ \A i, j \in 1..Len(listed) : i < j => listed[i] > listed[j]
       /\ ToSet(listed) \cap cut = {}
       /\ ToSet(listed) \cup cut =
            {b \in Lowest..top : eventAt[b] # "none" /\ filter \in {"all", eventAt[b]}}
  /\ found = "no" /\ exhausted /\ ~error /\ sought \notin cut => eventAt[sought] = "none"
=============================================================================
