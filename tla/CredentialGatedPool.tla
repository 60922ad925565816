------------------------ MODULE CredentialGatedPool ------------------------
(***************************************************************************)
(* contracts/src/examples/CredentialGatedPool.sol: the lending pool that   *)
(* gates borrow on a credential of the registry.                           *)
(*                                                                         *)
(* The registry is the environment: it takes the steps its promise allows  *)
(* (CredentialLedger), for the attestations that exist on the source       *)
(* chains.  withdraw, borrow and a repay with a refund hand control to the *)
(* receiver before they return; if it has code it may call anything,       *)
(* the pool and the registry included, and may refuse the payment.  So     *)
(* such a call is two steps: its effects, which push a frame, and the      *)
(* return, which pops it (Accept) or reverts the call and all that         *)
(* happened inside it (Reject).  Every other call is one step.  Amounts    *)
(* are far below 2^256; ether forced on the pool is left out.              *)
(***************************************************************************)
EXTENDS Integers, Sequences, FiniteSets, Functions

CONSTANTS
  ChainKeys, Uids, Parties, Schemas, Null,   \* as in CredentialLedger
  Accounts,      \* accounts that call the pool
  Contracts,     \* those of them that run code when they are paid
  Attestations,  \* Attestations[ck][u]: the identity EAS attested under u
  Deployer,
  Requirements,  \* requirements the owner may set
  Caps,          \* borrow caps the owner may set
  Wealth,        \* what each account holds at first
  MaxAmount,     \* bound on the amount of one call
  MaxDepth       \* bound on nested calls in progress

VARIABLES
  owner, requirement, borrowCap, deposits, debt, totalDeposits, totalDebt,
  credentialOf,
  balance,       \* address(this).balance
  wallet,        \* balances of the accounts
  cred,          \* the registry
  maxCap,        \* history: the largest borrow cap so far
  frames         \* calls whose receiver is running, the innermost last

Registry == INSTANCE CredentialLedger

Requirement ==
  [chainKey: ChainKeys \ {0}, attester: Parties \cup {Null}, schemaUid: Schemas \cup {Null}]

PoolAssumption ==
  /\ IsFiniteSet(Accounts)
  /\ Accounts \subseteq Parties /\ Contracts \subseteq Accounts /\ Deployer \in Accounts
  /\ Null \notin Accounts \cup Uids \cup Schemas
  /\ Attestations \in [ChainKeys -> [Uids -> Registry!Identity]]
  /\ Requirements \subseteq Requirement
  /\ Caps \subseteq Nat
  /\ Wealth \in [Accounts -> Nat]
  /\ MaxAmount \in Nat /\ MaxDepth \in Nat

ASSUME PoolAssumption

poolVars == <<owner, requirement, borrowCap, deposits, debt, totalDeposits, totalDebt,
              credentialOf, balance, wallet, cred, maxCap, frames>>
ownedVars == <<owner, requirement, borrowCap, maxCap>>
bookVars == <<deposits, debt, totalDeposits, totalDebt, credentialOf, balance, wallet>>

Amounts == Nat \ {0}
Books == [Accounts -> Nat]

WorldTyped(w) ==
  /\ w.owner \in Accounts /\ w.requirement \in Requirement
  /\ \A p \in Accounts :
       /\ {w.deposits[p], w.debt[p], w.wallet[p]} \subseteq Nat
       /\ w.credentialOf[p] \in Uids \cup {Null}
  /\ {w.borrowCap, w.totalDeposits, w.totalDebt, w.balance, w.maxCap} \subseteq Nat
  /\ \A ck \in ChainKeys, u \in Uids : w.cred[ck][u] \in Registry!Credential

\* The state a revert restores.
Now ==
  [owner |-> owner, requirement |-> requirement, borrowCap |-> borrowCap,
   deposits |-> deposits, debt |-> debt, totalDeposits |-> totalDeposits,
   totalDebt |-> totalDebt, credentialOf |-> credentialOf, balance |-> balance,
   wallet |-> wallet, cred |-> cred, maxCap |-> maxCap]

PoolTypeOK ==
  /\ WorldTyped(Now)
  /\ \A i \in DOMAIN frames :
       /\ frames[i].to \in Contracts /\ frames[i].amount \in Amounts
       /\ WorldTyped(frames[i].before)

-----------------------------------------------------------------------------
(* The credential gate *)

attestationOf(u) == cred[requirement.chainKey][u]

\* Mistake: the recipient of the credential is not compared with the caller.
hasCredentialOfAnyone(who, u) ==
  Registry!isValidFrom(requirement.chainKey, u, requirement.attester, requirement.schemaUid)

\* attester and schema are compared only if the pool requires both.
hasCredential(who, u) ==
  /\ IF requirement.attester # Null /\ requirement.schemaUid # Null
     THEN Registry!isValidFrom(requirement.chainKey, u,
                               requirement.attester, requirement.schemaUid)
     ELSE Registry!isValid(requirement.chainKey, u)
  /\ attestationOf(u).id.recipient = who

\* Mistake: an account exactly at its cap is told that it may borrow.
eligibilityOfAtCap(who, u) ==
  CASE ~(attestationOf(u).mirrored \/ attestationOf(u).revoked) -> "NotMirrored"
    [] ~hasCredential(who, u) -> "NotRecipient"
    [] debt[who] > borrowCap -> "AtBorrowCap"
    [] OTHER -> "Eligible"

\* The first failing condition, in the order of the code.
eligibilityOf(who, u) ==
  LET a == attestationOf(u)
  IN  CASE ~(a.mirrored \/ a.revoked) -> "NotMirrored"
        [] OTHER ->
      CASE a.revoked -> "Revoked"
        [] OTHER ->
      CASE requirement.attester \notin {Null, a.id.attester} -> "WrongAttester"
        [] OTHER ->
      CASE requirement.schemaUid \notin {Null, a.id.schemaUid} -> "WrongSchema"
        [] OTHER ->
      CASE a.id.recipient # who -> "NotRecipient"
        [] OTHER ->
      CASE debt[who] >= borrowCap -> "AtBorrowCap"
        [] OTHER -> "Eligible"

headroom(who, u) == IF eligibilityOf(who, u) = "Eligible" THEN borrowCap - debt[who] ELSE 0

-----------------------------------------------------------------------------
(* Calls *)

PoolInit ==
  /\ owner = Deployer
  /\ requirement \in Requirements
  /\ borrowCap \in Caps
  /\ deposits = [p \in Accounts |-> 0] /\ totalDeposits = 0
  /\ debt = [p \in Accounts |-> 0] /\ totalDebt = 0
  /\ credentialOf = [p \in Accounts |-> Null]
  /\ balance = 0 /\ wallet = Wealth
  /\ Registry!Init
  /\ maxCap = borrowCap
  /\ frames = <<>>

\* While a receiver runs, only it and the contracts it calls act.
MayCall(p) == frames = <<>> \/ p \in Contracts

\* The pool sends amount to p; an account without code just receives it.
Pay(p, amount) ==
  IF amount > 0 /\ p \in Contracts
  THEN /\ Len(frames) < MaxDepth
       /\ frames' = Append(frames, [to |-> p, amount |-> amount, before |-> Now])
  ELSE UNCHANGED frames

deposit(p, amount) ==
  /\ MayCall(p) /\ wallet[p] >= amount
  /\ deposits' = [deposits EXCEPT ![p] = @ + amount]
  /\ totalDeposits' = totalDeposits + amount
  /\ balance' = balance + amount
  /\ wallet' = [wallet EXCEPT ![p] = @ - amount]
  /\ UNCHANGED <<ownedVars, debt, totalDebt, credentialOf, cred, frames>>

withdraw(p, amount) ==
  /\ MayCall(p)
  /\ deposits[p] >= amount
  /\ balance >= amount
  /\ deposits' = [deposits EXCEPT ![p] = @ - amount]
  /\ totalDeposits' = totalDeposits - amount
  /\ balance' = balance - amount
  /\ wallet' = [wallet EXCEPT ![p] = @ + amount]
  /\ Pay(p, amount)
  /\ UNCHANGED <<ownedVars, debt, totalDebt, credentialOf, cred>>

\* Mistake: the cap is tested before the amount is added.
WithinCapSoFar(p, u, amount) ==
  /\ hasCredential(p, u)
  /\ debt[p] < borrowCap
  /\ balance >= amount

\* What borrow requires of a positive amount.
CanBorrow(p, u, amount) ==
  /\ hasCredential(p, u)
  /\ debt[p] + amount <= borrowCap
  /\ balance >= amount

borrow(p, u, amount) ==
  /\ MayCall(p)
  /\ CanBorrow(p, u, amount)
  /\ debt' = [debt EXCEPT ![p] = @ + amount]
  /\ totalDebt' = totalDebt + amount
  /\ credentialOf' = [credentialOf EXCEPT ![p] = u]
  /\ balance' = balance - amount
  /\ wallet' = [wallet EXCEPT ![p] = @ + amount]
  /\ Pay(p, amount)
  /\ UNCHANGED <<ownedVars, deposits, totalDeposits, cred>>

\* Mistake: the whole payment reduces the debt.
AppliedAll(value, owed) == value

Applied(value, owed) == IF value > owed THEN owed ELSE value

repay(p, value) ==
  LET applied == Applied(value, debt[p])
  IN  /\ MayCall(p) /\ wallet[p] >= value
      /\ debt[p] > 0
      /\ debt' = [debt EXCEPT ![p] = @ - applied]
      /\ totalDebt' = totalDebt - applied
      /\ balance' = balance + applied
      /\ wallet' = [wallet EXCEPT ![p] = @ - applied]
      /\ Pay(p, value - applied)
      /\ UNCHANGED <<ownedVars, deposits, totalDeposits, credentialOf, cred>>

presentCredential(p, u) ==
  /\ MayCall(p)
  /\ credentialOf' = [credentialOf EXCEPT ![p] = u]
  /\ UNCHANGED <<ownedVars, deposits, debt, totalDeposits, totalDebt, balance,
                 wallet, cred, frames>>

setCredentialRequirement(p, r) ==
  /\ MayCall(p) /\ p = owner
  /\ requirement' = r
  /\ UNCHANGED <<owner, borrowCap, maxCap, bookVars, cred, frames>>

setBorrowCap(p, cap) ==
  /\ MayCall(p) /\ p = owner
  /\ borrowCap' = cap
  /\ maxCap' = IF cap > maxCap THEN cap ELSE maxCap
  /\ UNCHANGED <<owner, requirement, bookVars, cred, frames>>

transferOwnership(p, newOwner) ==
  /\ MayCall(p) /\ p = owner
  /\ owner' = newOwner
  /\ UNCHANGED <<requirement, borrowCap, maxCap, bookVars, cred, frames>>

Top == frames[Len(frames)]
Pop == frames' = SubSeq(frames, 1, Len(frames) - 1)

\* The receiver returns; the call that paid it has nothing left to do.
AcceptPayment ==
  /\ frames # <<>>
  /\ Pop
  /\ UNCHANGED <<ownedVars, bookVars, cred>>

\* Mistake: the result of the send is ignored, so the refused amount stays in
\* the pool while the books say that it left.
RejectPaymentUnchecked ==
  /\ frames # <<>>
  /\ Pop
  /\ balance' = balance + Top.amount
  /\ wallet' = [wallet EXCEPT ![Top.to] = @ - Top.amount]
  /\ UNCHANGED <<ownedVars, deposits, debt, totalDeposits, totalDebt, credentialOf, cred>>

\* The receiver reverts; require(sent) reverts the call that paid it.
RejectPayment ==
  /\ frames # <<>>
  /\ Pop
  /\ owner' = Top.before.owner
  /\ requirement' = Top.before.requirement
  /\ borrowCap' = Top.before.borrowCap
  /\ deposits' = Top.before.deposits
  /\ debt' = Top.before.debt
  /\ totalDeposits' = Top.before.totalDeposits
  /\ totalDebt' = Top.before.totalDebt
  /\ credentialOf' = Top.before.credentialOf
  /\ balance' = Top.before.balance
  /\ wallet' = Top.before.wallet
  /\ cred' = Top.before.cred
  /\ maxCap' = Top.before.maxCap

\* The registry mirrors or revokes an attestation (anyone may submit proofs).
RegistryStep(ck, u) ==
  /\ \/ /\ ~cred[ck][u].mirrored
        /\ cred' = [cred EXCEPT ![ck][u] = Registry!AsMirrored(@, Attestations[ck][u])]
     \/ /\ ~cred[ck][u].revoked
        /\ cred' = [cred EXCEPT ![ck][u] = Registry!AsRevoked(@, Attestations[ck][u])]
  /\ UNCHANGED <<ownedVars, bookVars, frames>>

PoolNext ==
  \/ \E p \in Accounts :
       \/ \E amount \in 1..MaxAmount :
            \/ deposit(p, amount)
            \/ withdraw(p, amount)
            \/ \E u \in Uids : borrow(p, u, amount)
            \/ repay(p, amount)
       \/ \E u \in Uids : presentCredential(p, u)
       \/ \E r \in Requirements : setCredentialRequirement(p, r)
       \/ \E cap \in Caps : setBorrowCap(p, cap)
       \/ \E newOwner \in Accounts : transferOwnership(p, newOwner)
  \/ AcceptPayment
  \/ RejectPayment
  \/ \E ck \in ChainKeys, u \in Uids : RegistryStep(ck, u)

PoolSpec == PoolInit /\ [][PoolNext]_poolVars

-----------------------------------------------------------------------------
(* Properties *)

\* The pool's ether is what lenders are owed less what borrowers owe, the two
\* totals are the sums of the accounts' books, and no ether appears or is lost:
\* in every state, also while a receiver runs and may call the pool again, and
\* after any of the nested calls was reverted and the others were not.
BooksBalance ==
  /\ balance + totalDebt = totalDeposits
  /\ totalDeposits = SumFunction(deposits)
  /\ totalDebt = SumFunction(debt)
  /\ balance + SumFunction(wallet) = SumFunction(Wealth)

\* No one ever owes more than the largest cap there has been, even by borrowing
\* again from inside the callback of a borrow ("a flat per-borrower cap").
DebtWithinCap == \A p \in Accounts : debt[p] <= maxCap

\* Whoever owes anything is the recipient of an attestation the registry has
\* mirrored; neither a look-alike identity, nor a tombstone, nor someone else's
\* credential opens a loan, whatever the owner required when it was made.
DebtIsWarranted ==
  \A p \in Accounts :
    debt[p] > 0 =>
      \E ck \in ChainKeys, u \in Uids :
        cred[ck][u].mirrored /\ cred[ck][u].id.recipient = p

\* eligibilityOf explains borrow exactly: an amount can be borrowed iff the
\* answer is Eligible, the amount is within the headroom it states and the
\* pool has the liquidity, and Eligible means that some headroom is left
\* ("Explain, in one read-only call, exactly why who may or may not borrow
\* against uid").  The two decide by different tests of the same credential.
EligibilityExplainsBorrow ==
  \A p \in Accounts, u \in Uids :
    /\ eligibilityOf(p, u) = "Eligible" => headroom(p, u) > 0
    /\ \A amount \in 1..MaxAmount :
         CanBorrow(p, u, amount) <=>
           /\ eligibilityOf(p, u) = "Eligible"
           /\ amount <= headroom(p, u)
           /\ amount <= balance

=============================================================================
