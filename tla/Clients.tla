------------------------------ MODULE Clients ------------------------------
(***************************************************************************)
(* The programs a user runs: the commands of the command line and the      *)
(* pages of the browser.  One of them runs at a time, for a command is a   *)
(* process of its own, and a page that is left aborts what it was doing;   *)
(* they share nothing but the chains and the services they talk to.        *)
(***************************************************************************)
EXTENDS MirrorClient, BatchRun, LogScan, Discovery, Verify, ReceiptsView

vars == <<clientVars, batchVars, scanVars, discoveryVars, verifyVars, receiptsVars>>

Init ==
  \/ /\ ClientInit
     /\ BatchOff /\ ScanOff /\ DiscoveryOff /\ VerifyOff /\ ReceiptsOff
  \/ /\ BatchInit
     /\ ClientOff /\ ScanOff /\ DiscoveryOff /\ VerifyOff /\ ReceiptsOff
  \/ /\ ScanInit
     /\ ClientOff /\ BatchOff /\ DiscoveryOff /\ VerifyOff /\ ReceiptsOff
  \/ /\ DiscoveryInit
     /\ ClientOff /\ BatchOff /\ ScanOff /\ VerifyOff /\ ReceiptsOff
  \/ /\ VerifyInit
     /\ ClientOff /\ BatchOff /\ ScanOff /\ DiscoveryOff /\ ReceiptsOff
  \/ /\ ReceiptsInit
     /\ ClientOff /\ BatchOff /\ ScanOff /\ DiscoveryOff /\ VerifyOff

Next ==
  \/ /\ ClientNext
     /\ UNCHANGED <<batchVars, scanVars, discoveryVars, verifyVars, receiptsVars>>
  \/ /\ BatchNext
     /\ UNCHANGED <<clientVars, scanVars, discoveryVars, verifyVars, receiptsVars>>
  \/ /\ ScanNext
     /\ UNCHANGED <<clientVars, batchVars, discoveryVars, verifyVars, receiptsVars>>
  \/ /\ DiscoveryNext
     /\ UNCHANGED <<clientVars, batchVars, scanVars, verifyVars, receiptsVars>>
  \/ /\ VerifyNext
     /\ UNCHANGED <<clientVars, batchVars, scanVars, discoveryVars, receiptsVars>>
  \/ /\ ReceiptsNext
     /\ UNCHANGED <<clientVars, batchVars, scanVars, discoveryVars, verifyVars>>

Fairness ==
  /\ ClientFairness /\ BatchFairness /\ ScanFairness /\ DiscoveryFairness
  /\ VerifyFairness /\ ReceiptsFairness

Spec == Init /\ [][Next]_vars /\ Fairness

\* Every variable holds a value of its kind.
TypeOK ==
  /\ ClientTypeOK /\ BatchTypeOK /\ ScanTypeOK /\ DiscoveryTypeOK
  /\ VerifyTypeOK /\ ReceiptsTypeOK

Unfinished == Mirroring \/ Batching \/ Searching \/ Discovering \/ Reading

\* Whatever fails and whenever the visitor leaves: a mirroring, a batch run, a look-up, a
\* reading of easscan and a verification come to an end, and a visitor who rests sees
\* the page of the mirror log that was wanted last.
ProgramsEnd == (Unfinished ~> ~Unfinished) /\ ViewCatchesUp
=============================================================================
