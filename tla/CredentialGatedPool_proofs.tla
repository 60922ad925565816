--------------------- MODULE CredentialGatedPool_proofs ---------------------
(***************************************************************************)
(* The pool's loans, for every set of accounts and contracts, every depth  *)
(* of nested calls, and every order in which the receivers accept, call    *)
(* again, or revert.  The invariant is one about a world, that is, about   *)
(* all a revert restores; it holds of the present one and of the one each  *)
(* call in progress would go back to.                                      *)
(***************************************************************************)
EXTENDS CredentialGatedPool, DataLemmas, SequenceTheorems

\* A world, with totals that could be negative: that they are not follows from
\* their being sums.  The requirement is one the owner may set.
LooseWorld ==
  [owner: Accounts, requirement: Requirements, borrowCap: Nat, deposits: Books,
   debt: Books, totalDeposits: Int, totalDebt: Int,
   credentialOf: [Accounts -> Uids \cup {Null}], balance: Nat, wallet: Books,
   cred: [ChainKeys -> [Uids -> Registry!Credential]], maxCap: Nat]

Warranted(w, p) ==
  \E ck \in ChainKeys, u \in Uids :
    w.cred[ck][u].mirrored /\ w.cred[ck][u].id.recipient = p

WorldInv(w) ==
  /\ w \in LooseWorld
  /\ w.balance + w.totalDebt = w.totalDeposits
  /\ w.totalDeposits = SumFunction(w.deposits)
  /\ w.totalDebt = SumFunction(w.debt)
  /\ w.balance + SumFunction(w.wallet) = SumFunction(Wealth)
  /\ w.borrowCap <= w.maxCap
  /\ \A p \in Accounts : w.debt[p] <= w.maxCap
  /\ \A p \in Accounts : w.debt[p] > 0 => Warranted(w, p)

Frame == [to: Contracts, amount: Amounts, before: LooseWorld]

FramesInv ==
  /\ frames \in Seq(Frame)
  /\ \A i \in 1..Len(frames) : WorldInv(frames[i].before)

IInv == WorldInv(Now) /\ FramesInv

\* The invariant of the present world, said of the variables.
Typed ==
  /\ owner \in Accounts /\ requirement \in Requirements
  /\ borrowCap \in Nat /\ maxCap \in Nat
  /\ deposits \in Books /\ debt \in Books /\ wallet \in Books
  /\ totalDeposits \in Int /\ totalDebt \in Int /\ balance \in Nat
  /\ credentialOf \in [Accounts -> Uids \cup {Null}]

CredTyped == cred \in [ChainKeys -> [Uids -> Registry!Credential]]

CapInv == borrowCap <= maxCap /\ DebtWithinCap

LEMMA WorldInvOfNow ==
  WorldInv(Now) <=> Typed /\ CredTyped /\ BooksBalance /\ CapInv /\ DebtIsWarranted
<1>1. Now \in LooseWorld <=> Typed /\ CredTyped
  BY DEF Now, LooseWorld, Typed, CredTyped
<1>2. \A p \in Accounts : Warranted(Now, p) <=>
        \E ck \in ChainKeys, u \in Uids : cred[ck][u].mirrored /\ cred[ck][u].id.recipient = p
  BY DEF Warranted, Now
<1>3. /\ Now.balance = balance /\ Now.totalDebt = totalDebt
      /\ Now.totalDeposits = totalDeposits
      /\ Now.borrowCap = borrowCap /\ Now.maxCap = maxCap /\ Now.debt = debt
      /\ Now.deposits = deposits /\ Now.wallet = wallet
  BY DEF Now
<1> QED
  BY <1>1, <1>2, <1>3 DEF WorldInv, BooksBalance, CapInv, DebtWithinCap, DebtIsWarranted

\* A payment to or from one account moves the sum of a book by its amount.
LEMMA BookUpdate ==
  ASSUME NEW f \in Books, NEW p \in Accounts, NEW d \in Nat
  PROVE  /\ SumFunction(f) \in Nat
         /\ SumFunction([f EXCEPT ![p] = @ + d]) = SumFunction(f) + d
         /\ SumFunction([f EXCEPT ![p] = @ - d]) = SumFunction(f) - d
<1>1. IsFiniteSet(Accounts) /\ f \in [Accounts -> Int]
  BY PoolAssumption DEF PoolAssumption, Books
<1>2. SumFunction(f) \in Nat
  BY <1>1, SumType DEF Books
<1>3. ASSUME NEW e \in Int
      PROVE  SumFunction([f EXCEPT ![p] = @ + e]) = SumFunction(f) + e
  <2> DEFINE h == [f EXCEPT ![p] = @ + e]
  <2>1. /\ h \in [Accounts -> Int]
        /\ h[p] - f[p] = e /\ \A x \in Accounts \ {p} : h[x] = f[x]
    BY <1>1
  <2> HIDE DEF h
  <2>2. SumFunction(h) = SumFunction(f) + e
    BY <1>1, <2>1, SumUpdate
  <2> QED  BY <2>2 DEF h
<1>4. PICK e \in Int : e = -d
  OBVIOUS
<1>5. [f EXCEPT ![p] = @ - d] = [f EXCEPT ![p] = @ + e]
  BY <1>1, <1>4
<1>6. SumFunction([f EXCEPT ![p] = @ + e]) = SumFunction(f) + e
  BY <1>3
<1>7. SumFunction([f EXCEPT ![p] = @ - d]) = SumFunction(f) - d
  BY <1>2, <1>4, <1>5, <1>6
<1>8. d \in Int
  OBVIOUS
<1>9. SumFunction([f EXCEPT ![p] = @ + d]) = SumFunction(f) + d
  BY <1>3, <1>8, Zenon
<1> QED  BY <1>2, <1>7, <1>9

-----------------------------------------------------------------------------
(* Frames *)

LEMMA PushKeepsFrames ==
  ASSUME IInv, NEW p \in Accounts, NEW amount \in Nat, Pay(p, amount)
  PROVE  FramesInv'
<1>1. CASE amount > 0 /\ p \in Contracts
  <2> DEFINE f == [to |-> p, amount |-> amount, before |-> Now]
  <2>1. frames' = Append(frames, f)
    BY <1>1 DEF Pay
  <2>2. f \in Frame /\ f.before = Now
    BY <1>1 DEF IInv, WorldInv, Frame, Amounts
  <2> HIDE DEF f
  <2>3. /\ frames' \in Seq(Frame)
        /\ Len(frames') = Len(frames) + 1
        /\ \A i \in 1..Len(frames) : frames'[i] = frames[i]
        /\ frames'[Len(frames) + 1] = f
    BY <2>1, <2>2, AppendProperties DEF IInv, FramesInv
  <2>4. ASSUME NEW i \in 1..Len(frames')
        PROVE  WorldInv(frames'[i].before)
    <3>1. Len(frames) \in Nat
      BY LenProperties DEF IInv, FramesInv
    <3>2. CASE i \in 1..Len(frames)
      BY <2>3, <3>2 DEF IInv, FramesInv
    <3>3. CASE i = Len(frames) + 1
      BY <2>2, <2>3, <3>3 DEF IInv
    <3> QED  BY <2>3, <2>4, <3>1, <3>2, <3>3
  <2>5. \A i \in 1..Len(frames') : WorldInv(frames'[i].before)
    BY <2>4
  <2> QED  BY <2>3, <2>5 DEF FramesInv, WorldInv, LooseWorld, Warranted
<1>2. CASE ~(amount > 0 /\ p \in Contracts)
  BY <1>2 DEF Pay, IInv, FramesInv, WorldInv, Warranted, LooseWorld
<1> QED  BY <1>1, <1>2

\* A sequence without its last element.
LEMMA ButLast ==
  ASSUME NEW S, NEW s \in Seq(S), Len(s) \in Nat, Len(s) > 0
  PROVE  /\ SubSeq(s, 1, Len(s) - 1) \in Seq(S)
         /\ Len(SubSeq(s, 1, Len(s) - 1)) = Len(s) - 1
         /\ \A i \in 1..Len(s) - 1 : SubSeq(s, 1, Len(s) - 1)[i] = s[i]
<1> DEFINE n == Len(s) - 1
<1>1. n \in Nat /\ \A i \in 1..n : s[i] \in S
  BY ElementOfSeq
<1>2. n - 1 + 1 = n /\ \A i \in 1..n : 1 + i - 1 = i
  BY <1>1
<1> HIDE DEF n
<1>3. /\ SubSeq(s, 1, n) \in Seq(S)
      /\ Len(SubSeq(s, 1, n)) = IF 1 <= n THEN n - 1 + 1 ELSE 0
      /\ \A i \in 1..n - 1 + 1 : SubSeq(s, 1, n)[i] = s[1 + i - 1]
  BY <1>1, SubSeqProperties
<1>4. /\ SubSeq(s, 1, n) \in Seq(S)
      /\ Len(SubSeq(s, 1, n)) = n
      /\ \A i \in 1..n : SubSeq(s, 1, n)[i] = s[i]
  BY <1>1, <1>2, <1>3
<1> QED  BY <1>4 DEF n

LEMMA PopKeepsFrames ==
  ASSUME IInv, frames # <<>>, Pop
  PROVE  FramesInv' /\ WorldInv(Top.before)
<1>1. frames \in Seq(Frame) /\ Len(frames) \in Nat /\ Len(frames) > 0
  BY LenProperties, EmptySeq DEF IInv, FramesInv
<1>2. /\ frames' \in Seq(Frame)
      /\ Len(frames') = Len(frames) - 1
      /\ \A i \in 1..Len(frames') : frames'[i] = frames[i]
  BY <1>1, ButLast DEF Pop
<1>3. \A i \in 1..Len(frames') : WorldInv(frames'[i].before)
  BY <1>1, <1>2 DEF IInv, FramesInv
<1>4. WorldInv(Top.before)
  BY <1>1 DEF IInv, FramesInv, Top
<1> QED  BY <1>2, <1>3, <1>4 DEF FramesInv, WorldInv, LooseWorld, Warranted

-----------------------------------------------------------------------------
(* Steps *)

LEMMA WorldInvOfNext ==
  Typed' /\ CredTyped' /\ BooksBalance' /\ CapInv' /\ DebtIsWarranted' => WorldInv(Now)'
  BY WorldInvOfNow, PTL

LEMMA IInvParts ==
  ASSUME IInv
  PROVE  Typed /\ CredTyped /\ BooksBalance /\ CapInv /\ DebtIsWarranted
  BY WorldInvOfNow DEF IInv

LEMMA SameFrames ==
  ASSUME IInv, UNCHANGED frames
  PROVE  FramesInv'
<1>1. FramesInv
  BY DEF IInv
<1> QED  BY <1>1 DEF FramesInv

\* Who was in debt still has the warrant for it.
LEMMA NoNewDebtor ==
  ASSUME DebtIsWarranted, UNCHANGED cred,
         \A p \in Accounts : debt'[p] > 0 => debt[p] > 0
  PROVE  DebtIsWarranted'
  BY DEF DebtIsWarranted

\* A credential that lets p borrow is one the registry mirrored for p.
LEMMA CredentialWarrants ==
  ASSUME IInv, NEW p \in Accounts, NEW u \in Uids, hasCredential(p, u)
  PROVE  \E ck \in ChainKeys : cred[ck][u].mirrored /\ cred[ck][u].id.recipient = p
<1> DEFINE ck == requirement.chainKey
<1>1. ck \in ChainKeys
  BY IInvParts, PoolAssumption DEF PoolAssumption, Typed, Requirement
<1>2. Registry!isValid(ck, u) /\ cred[ck][u].id.recipient = p
  BY DEF hasCredential, attestationOf, Registry!isValidFrom
<1>3. cred[ck][u].mirrored
  BY <1>2 DEF Registry!isValid
<1> QED  BY <1>1, <1>2, <1>3

LEMMA InitIInv == PoolInit => IInv
<1> SUFFICES ASSUME PoolInit PROVE IInv
  OBVIOUS
<1> USE DEF PoolInit
<1>1. Typed
  BY PoolAssumption DEF PoolAssumption, Typed, Books
<1>2. CredTyped
  BY DEF CredTyped, Registry!Init, Registry!Unknown, Registry!Credential, Registry!Identity
<1>3. CapInv /\ DebtIsWarranted
  BY <1>1 DEF Typed, CapInv, DebtWithinCap, DebtIsWarranted
<1>4. SumFunction(deposits) = 0 /\ SumFunction(debt) = 0
  <2>1. /\ IsFiniteSet(Accounts)
        /\ deposits \in [Accounts -> Int] /\ \A p \in Accounts : deposits[p] = 0
        /\ debt \in [Accounts -> Int] /\ \A p \in Accounts : debt[p] = 0
    BY PoolAssumption DEF PoolAssumption
  <2> QED  BY <2>1, SumType
<1>5. SumFunction(wallet) \in Nat /\ wallet = Wealth
  BY PoolAssumption, SumType DEF PoolAssumption
<1>6. BooksBalance
  BY <1>4, <1>5 DEF BooksBalance
<1>7. FramesInv
  BY EmptySeq DEF FramesInv
<1> QED  BY <1>1, <1>2, <1>3, <1>6, <1>7, WorldInvOfNow DEF IInv

LEMMA DepositIInv ==
  ASSUME IInv, NEW p \in Accounts, NEW amount \in Nat, deposit(p, amount)
  PROVE  IInv'
<1> USE IInvParts DEF deposit, ownedVars
<1>1. Typed'
  BY DEF Typed, Books
<1>2. CredTyped'
  BY DEF Typed, CredTyped
<1>3. /\ SumFunction(deposits') = SumFunction(deposits) + amount
      /\ SumFunction(wallet') = SumFunction(wallet) - amount
      /\ SumFunction(deposits) \in Nat /\ SumFunction(wallet) \in Nat
  BY BookUpdate DEF Typed
<1>4. BooksBalance'
  BY <1>3 DEF Typed, BooksBalance
<1>5. CapInv' /\ DebtIsWarranted'
  BY NoNewDebtor DEF CapInv, DebtWithinCap
<1> QED  BY <1>1, <1>2, <1>4, <1>5, SameFrames, WorldInvOfNext DEF IInv

LEMMA WithdrawIInv ==
  ASSUME IInv, NEW p \in Accounts, NEW amount \in Nat, withdraw(p, amount)
  PROVE  IInv'
<1> USE IInvParts DEF withdraw, ownedVars
<1>1. Typed'
  BY DEF Typed, Books
<1>2. CredTyped'
  BY DEF Typed, CredTyped
<1>3. /\ SumFunction(deposits') = SumFunction(deposits) - amount
      /\ SumFunction(wallet') = SumFunction(wallet) + amount
      /\ SumFunction(deposits) \in Nat /\ SumFunction(wallet) \in Nat
  BY BookUpdate DEF Typed
<1>4. BooksBalance'
  BY <1>3 DEF Typed, BooksBalance
<1>5. CapInv' /\ DebtIsWarranted'
  BY NoNewDebtor DEF CapInv, DebtWithinCap
<1> QED  BY <1>1, <1>2, <1>4, <1>5, PushKeepsFrames, WorldInvOfNext DEF IInv

LEMMA BorrowIInv ==
  ASSUME IInv, NEW p \in Accounts, NEW u \in Uids, NEW amount \in Nat, borrow(p, u, amount)
  PROVE  IInv'
<1> USE IInvParts DEF borrow, CanBorrow, ownedVars
<1>1. Typed'
  BY DEF Typed, Books
<1>2. CredTyped'
  BY DEF Typed, CredTyped
<1>3. /\ SumFunction(debt') = SumFunction(debt) + amount
      /\ SumFunction(wallet') = SumFunction(wallet) + amount
      /\ SumFunction(debt) \in Nat /\ SumFunction(wallet) \in Nat
  BY BookUpdate DEF Typed
<1>4. BooksBalance'
  BY <1>3 DEF Typed, BooksBalance
<1>5. CapInv'
  BY DEF Typed, CapInv, DebtWithinCap, Books
<1>6. DebtIsWarranted'
  <2>1. ASSUME NEW q \in Accounts, debt'[q] > 0
        PROVE  \E ck \in ChainKeys, v \in Uids :
                 cred[ck][v].mirrored /\ cred[ck][v].id.recipient = q
    <3>1. CASE q = p
      BY <3>1, CredentialWarrants
    <3>2. CASE q # p
      BY <2>1, <3>2 DEF Typed, Books, DebtIsWarranted
    <3> QED  BY <3>1, <3>2
  <2> QED  BY <2>1 DEF DebtIsWarranted
<1> QED  BY <1>1, <1>2, <1>4, <1>5, <1>6, PushKeepsFrames, WorldInvOfNext DEF IInv

LEMMA RepayIInv ==
  ASSUME IInv, NEW p \in Accounts, NEW value \in Nat, repay(p, value)
  PROVE  IInv'
<1> DEFINE applied == Applied(value, debt[p])
<1>1. applied \in Nat /\ applied <= value /\ applied <= debt[p] /\ debt[p] \in Nat
  BY IInvParts DEF Applied, Typed, Books
<1>2. /\ wallet[p] >= value
      /\ debt' = [debt EXCEPT ![p] = @ - applied]
      /\ totalDebt' = totalDebt - applied
      /\ balance' = balance + applied
      /\ wallet' = [wallet EXCEPT ![p] = @ - applied]
      /\ Pay(p, value - applied)
      /\ UNCHANGED <<owner, requirement, borrowCap, maxCap, deposits, totalDeposits,
                     credentialOf, cred>>
  BY DEF repay, ownedVars
<1> HIDE DEF applied
<1>3. Typed'
  BY <1>1, <1>2, IInvParts DEF Typed, Books
<1>4. CredTyped'
  BY <1>2, IInvParts DEF CredTyped
<1>5. /\ SumFunction(debt') = SumFunction(debt) - applied
      /\ SumFunction(wallet') = SumFunction(wallet) - applied
      /\ SumFunction(debt) \in Nat /\ SumFunction(wallet) \in Nat
  BY <1>1, <1>2, IInvParts, BookUpdate DEF Typed
<1>6. BooksBalance'
  BY <1>1, <1>2, <1>5, IInvParts DEF Typed, BooksBalance
<1>7. \A q \in Accounts : debt'[q] <= debt[q]
  BY <1>1, <1>2, IInvParts DEF Typed, Books
<1>8. CapInv'
  BY <1>2, <1>3, <1>7, IInvParts DEF Typed, CapInv, DebtWithinCap, Books
<1>9. DebtIsWarranted'
  BY <1>2, <1>3, <1>7, IInvParts, NoNewDebtor DEF Typed, Books
<1>10. FramesInv'
  BY <1>1, <1>2, PushKeepsFrames
<1> QED  BY <1>3, <1>4, <1>6, <1>8, <1>9, <1>10, WorldInvOfNext DEF IInv

LEMMA PresentIInv ==
  ASSUME IInv, NEW p \in Accounts, NEW u \in Uids, presentCredential(p, u)
  PROVE  IInv'
<1> USE IInvParts DEF presentCredential, ownedVars
<1>1. Typed'
  BY DEF Typed
<1>2. CredTyped' /\ BooksBalance' /\ CapInv' /\ DebtIsWarranted'
  BY NoNewDebtor DEF CredTyped, BooksBalance, CapInv, DebtWithinCap
<1> QED  BY <1>1, <1>2, SameFrames, WorldInvOfNext DEF IInv

LEMMA OwnerIInv ==
  ASSUME IInv,
         \/ \E p \in Accounts, r \in Requirements : setCredentialRequirement(p, r)
         \/ \E p \in Accounts, cap \in Caps : setBorrowCap(p, cap)
         \/ \E p, newOwner \in Accounts : transferOwnership(p, newOwner)
  PROVE  IInv'
<1> USE IInvParts DEF bookVars
<1>1. ASSUME NEW p \in Accounts, NEW r \in Requirements, setCredentialRequirement(p, r)
      PROVE  IInv'
  <2>1. Typed'
    BY <1>1, PoolAssumption DEF PoolAssumption, Typed, setCredentialRequirement
  <2>2. CredTyped' /\ BooksBalance' /\ CapInv' /\ DebtIsWarranted' /\ UNCHANGED frames
    BY <1>1, NoNewDebtor
    DEF CredTyped, BooksBalance, CapInv, DebtWithinCap, setCredentialRequirement
  <2> QED  BY <2>1, <2>2, SameFrames, WorldInvOfNext DEF IInv
<1>2. ASSUME NEW p \in Accounts, NEW cap \in Caps, setBorrowCap(p, cap)
      PROVE  IInv'
  <2>1. cap \in Nat
    BY PoolAssumption DEF PoolAssumption
  <2>2. Typed'
    BY <1>2, <2>1 DEF Typed, setBorrowCap
  <2>3. CapInv'
    BY <1>2, <2>1 DEF Typed, Books, CapInv, DebtWithinCap, setBorrowCap
  <2>4. CredTyped' /\ BooksBalance' /\ DebtIsWarranted' /\ UNCHANGED frames
    BY <1>2, NoNewDebtor DEF CredTyped, BooksBalance, setBorrowCap
  <2> QED  BY <2>2, <2>3, <2>4, SameFrames, WorldInvOfNext DEF IInv
<1>3. ASSUME NEW p \in Accounts, NEW newOwner \in Accounts, transferOwnership(p, newOwner)
      PROVE  IInv'
  <2>1. Typed'
    BY <1>3 DEF Typed, transferOwnership
  <2>2. CredTyped' /\ BooksBalance' /\ CapInv' /\ DebtIsWarranted' /\ UNCHANGED frames
    BY <1>3, NoNewDebtor DEF CredTyped, BooksBalance, CapInv, DebtWithinCap, transferOwnership
  <2> QED  BY <2>1, <2>2, SameFrames, WorldInvOfNext DEF IInv
<1> QED  BY <1>1, <1>2, <1>3

LEMMA AcceptIInv ==
  ASSUME IInv, AcceptPayment
  PROVE  IInv'
<1>1. Typed' /\ CredTyped' /\ BooksBalance' /\ CapInv' /\ DebtIsWarranted'
  BY IInvParts, NoNewDebtor
  DEF AcceptPayment, ownedVars, bookVars, Typed, CredTyped, BooksBalance, CapInv, DebtWithinCap
<1>2. FramesInv'
  BY PopKeepsFrames DEF AcceptPayment
<1> QED  BY <1>1, <1>2, WorldInvOfNext DEF IInv

\* A revert goes back to a world of which the invariant holds.
LEMMA RejectIInv ==
  ASSUME IInv, RejectPayment
  PROVE  IInv'
<1>1. FramesInv' /\ WorldInv(Top.before)
  BY PopKeepsFrames DEF RejectPayment
<1>2. Top.before \in LooseWorld
  BY <1>1 DEF WorldInv
<1>3. Now' = Top.before
  BY <1>2 DEF RejectPayment, Now, LooseWorld
<1>4. WorldInv(Now)'
  BY <1>1, <1>3 DEF WorldInv, LooseWorld, Warranted
<1> QED  BY <1>1, <1>4 DEF IInv

LEMMA CredentialGrows ==
  ASSUME NEW c \in Registry!Credential, NEW id \in Registry!Identity
  PROVE  /\ Registry!AsMirrored(c, id) \in Registry!Credential
         /\ Registry!AsRevoked(c, id) \in Registry!Credential
         /\ Registry!AsRevoked(c, id).mirrored = c.mirrored
         /\ c.mirrored => Registry!AsRevoked(c, id).id = c.id
<1>1. c.mirrored \in BOOLEAN /\ c.revoked \in BOOLEAN /\ c.id \in Registry!Identity
  BY DEF Registry!Credential
<1>2. Registry!AsMirrored(c, id) \in Registry!Credential
  BY <1>1 DEF Registry!Credential, Registry!AsMirrored
<1>3. (IF c.mirrored THEN c.id ELSE id) \in Registry!Identity
  BY <1>1
<1>4. Registry!AsRevoked(c, id) \in Registry!Credential
  BY <1>1, <1>3 DEF Registry!Credential, Registry!AsRevoked
<1>5. Registry!AsRevoked(c, id).mirrored = c.mirrored
  BY Zenon DEF Registry!AsRevoked
<1>6. ASSUME c.mirrored PROVE Registry!AsRevoked(c, id).id = c.id
  BY <1>6, Zenon DEF Registry!AsRevoked
<1> QED  BY <1>2, <1>4, <1>5, <1>6

\* A credential that is mirrored stays mirrored, with the recipient it has.
LEMMA RegistryIInv ==
  ASSUME IInv, NEW ck \in ChainKeys, NEW u \in Uids, RegistryStep(ck, u)
  PROVE  IInv'
<1>1. PICK id \in Registry!Identity :
        \/ ~cred[ck][u].mirrored
           /\ cred' = [cred EXCEPT ![ck][u] = Registry!AsMirrored(@, id)]
        \/ cred' = [cred EXCEPT ![ck][u] = Registry!AsRevoked(@, id)]
  BY PoolAssumption DEF PoolAssumption, RegistryStep
<1>2. CredTyped
  BY IInvParts
<1> DEFINE old == cred[ck][u]
           new == cred'[ck][u]
<1>3. /\ old \in Registry!Credential
      /\ \/ ~old.mirrored /\ new = Registry!AsMirrored(old, id)
         \/ new = Registry!AsRevoked(old, id)
      /\ cred' = [cred EXCEPT ![ck] = [cred[ck] EXCEPT ![u] = new]]
  BY <1>1, <1>2 DEF CredTyped
<1> HIDE DEF old, new
<1>4. new \in Registry!Credential /\ (old.mirrored => new.mirrored /\ new.id = old.id)
  BY <1>3, CredentialGrows
<1>5. CredTyped'
  BY <1>2, <1>3, <1>4 DEF CredTyped
<1>6. ASSUME NEW c \in ChainKeys, NEW v \in Uids, cred[c][v].mirrored
      PROVE  cred'[c][v].mirrored /\ cred'[c][v].id = cred[c][v].id
  <2>1. CASE c = ck /\ v = u
    BY <1>6, <1>4, <2>1 DEF old, new
  <2>2. CASE ~(c = ck /\ v = u)
    BY <1>2, <1>3, <1>6, <2>2 DEF CredTyped
  <2> QED  BY <2>1, <2>2
<1>7. DebtIsWarranted'
  BY <1>6, IInvParts DEF DebtIsWarranted, RegistryStep, bookVars
<1>8. Typed' /\ BooksBalance' /\ CapInv' /\ UNCHANGED frames
  BY IInvParts
  DEF RegistryStep, ownedVars, bookVars, Typed, BooksBalance, CapInv, DebtWithinCap
<1> QED  BY <1>5, <1>7, <1>8, SameFrames, WorldInvOfNext DEF IInv

LEMMA NextIInv == IInv /\ [PoolNext]_poolVars => IInv'
<1> SUFFICES ASSUME IInv, [PoolNext]_poolVars PROVE IInv'
  OBVIOUS
<1>1. ASSUME NEW p \in Accounts, NEW amount \in 1..MaxAmount,
             \/ deposit(p, amount) \/ withdraw(p, amount) \/ repay(p, amount)
             \/ \E u \in Uids : borrow(p, u, amount)
      PROVE  IInv'
  <2>1. amount \in Nat
    OBVIOUS
  <2> QED  BY <1>1, <2>1, DepositIInv, WithdrawIInv, BorrowIInv, RepayIInv
<1>2. ASSUME NEW p \in Accounts, NEW u \in Uids, presentCredential(p, u)
      PROVE  IInv'
  BY <1>2, PresentIInv
<1>3. ASSUME NEW p \in Accounts,
             \/ \E r \in Requirements : setCredentialRequirement(p, r)
             \/ \E cap \in Caps : setBorrowCap(p, cap)
             \/ \E newOwner \in Accounts : transferOwnership(p, newOwner)
      PROVE  IInv'
  BY <1>3, OwnerIInv
<1>4. CASE AcceptPayment
  BY <1>4, AcceptIInv
<1>5. CASE RejectPayment
  BY <1>5, RejectIInv
<1>6. ASSUME NEW ck \in ChainKeys, NEW u \in Uids, RegistryStep(ck, u)
      PROVE  IInv'
  BY <1>6, RegistryIInv
<1>7. CASE UNCHANGED poolVars
  <2>1. Typed' /\ CredTyped' /\ BooksBalance' /\ CapInv' /\ DebtIsWarranted'
    BY <1>7, IInvParts, NoNewDebtor
    DEF poolVars, Typed, CredTyped, BooksBalance, CapInv, DebtWithinCap
  <2> QED  BY <1>7, <2>1, SameFrames, WorldInvOfNext DEF IInv, poolVars
<1> QED  BY <1>1, <1>2, <1>3, <1>4, <1>5, <1>6, <1>7 DEF PoolNext

LEMMA PoolInvariant == PoolSpec => []IInv
  BY InitIInv, NextIInv, PTL DEF PoolSpec

-----------------------------------------------------------------------------
\* Every book, total and world to go back to has its type; that no total is
\* negative follows from its being a sum.
THEOREM PoolTypeCorrect == PoolSpec => []PoolTypeOK
<1>1. ASSUME NEW w, WorldInv(w)
      PROVE  WorldTyped(w)
  <2>1. w \in LooseWorld
    BY <1>1 DEF WorldInv
  <2>2. /\ IsFiniteSet(Accounts)
        /\ w.deposits \in Books /\ w.debt \in Books /\ w.wallet \in Books
    BY <2>1, PoolAssumption DEF PoolAssumption, LooseWorld
  <2>3. w.totalDeposits \in Nat /\ w.totalDebt \in Nat
    <3>1. \A f \in Books : f \in [Accounts -> Int]
      BY DEF Books
    <3>2. SumFunction(w.deposits) \in Nat /\ SumFunction(w.debt) \in Nat
      BY <2>2, <3>1, SumType DEF Books
    <3> QED  BY <1>1, <3>2 DEF WorldInv
  <2>4. \A p \in Accounts :
          /\ {w.deposits[p], w.debt[p], w.wallet[p]} \subseteq Nat
          /\ w.credentialOf[p] \in Uids \cup {Null}
    BY <2>1, <2>2 DEF Books, LooseWorld
  <2>5. \A ck \in ChainKeys, u \in Uids : w.cred[ck][u] \in Registry!Credential
    BY <2>1 DEF LooseWorld
  <2>6. w.owner \in Accounts /\ w.requirement \in Requirement
    BY <2>1, PoolAssumption DEF LooseWorld, PoolAssumption
  <2> QED  BY <2>1, <2>3, <2>4, <2>5, <2>6 DEF WorldTyped, LooseWorld
<1>2. ASSUME IInv PROVE PoolTypeOK
  <2>1. WorldTyped(Now)
    BY <1>1, <1>2 DEF IInv
  <2>2. ASSUME NEW i \in DOMAIN frames
        PROVE  /\ frames[i].to \in Contracts /\ frames[i].amount \in Amounts
               /\ WorldTyped(frames[i].before)
    <3>1. frames \in Seq(Frame) /\ i \in 1..Len(frames)
      BY <1>2, <2>2, LenProperties DEF IInv, FramesInv
    <3>2. frames[i] \in Frame
      BY <3>1, ElementOfSeq
    <3>3. WorldTyped(frames[i].before)
      BY <1>1, <1>2, <3>1 DEF IInv, FramesInv
    <3> QED  BY <3>2, <3>3 DEF Frame
  <2> QED  BY <2>1, <2>2 DEF PoolTypeOK
<1> QED  BY <1>2, PoolInvariant, PTL

\* The pool's ether, its two totals and the accounts' books agree in every state,
\* also while a receiver runs: nothing is created, lost or paid twice.
THEOREM PoolBooksBalance == PoolSpec => []BooksBalance
<1>1. IInv => BooksBalance
  BY IInvParts
<1> QED  BY <1>1, PoolInvariant, PTL

\* No borrower exceeds the largest cap there has been, however calls nest.
THEOREM PoolDebtWithinCap == PoolSpec => []DebtWithinCap
<1>1. IInv => DebtWithinCap
  BY IInvParts DEF CapInv
<1> QED  BY <1>1, PoolInvariant, PTL

\* Only the recipient of a mirrored attestation ever owes anything.
THEOREM PoolDebtIsWarranted == PoolSpec => []DebtIsWarranted
<1>1. IInv => DebtIsWarranted
  BY IInvParts
<1> QED  BY <1>1, PoolInvariant, PTL

\* What eligibilityOf has to find to answer Eligible.
LEMMA EligibleIff ==
  ASSUME NEW p \in Accounts, NEW u \in Uids
  PROVE  eligibilityOf(p, u) = "Eligible" <=>
           /\ attestationOf(u).mirrored \/ attestationOf(u).revoked
           /\ ~attestationOf(u).revoked
           /\ requirement.attester \in {Null, attestationOf(u).id.attester}
           /\ requirement.schemaUid \in {Null, attestationOf(u).id.schemaUid}
           /\ attestationOf(u).id.recipient = p
           /\ ~(debt[p] >= borrowCap)
  BY DEF eligibilityOf

LEMMA EligibilityLemma ==
  ASSUME IInv, requirement.attester = Null <=> requirement.schemaUid = Null
  PROVE  EligibilityExplainsBorrow
<1> SUFFICES ASSUME NEW p \in Accounts, NEW u \in Uids
             PROVE  /\ eligibilityOf(p, u) = "Eligible" => headroom(p, u) > 0
                    /\ \A amount \in 1..MaxAmount :
                         CanBorrow(p, u, amount) <=>
                           /\ eligibilityOf(p, u) = "Eligible"
                           /\ amount <= headroom(p, u)
                           /\ amount <= balance
  BY DEF EligibilityExplainsBorrow
<1>1. debt[p] \in Nat /\ borrowCap \in Nat /\ balance \in Nat
  BY IInvParts DEF Typed, Books
<1>2. eligibilityOf(p, u) = "Eligible" <=> hasCredential(p, u) /\ debt[p] < borrowCap
  <2>1. hasCredential(p, u) <=>
          /\ attestationOf(u).mirrored \/ attestationOf(u).revoked
          /\ ~attestationOf(u).revoked
          /\ requirement.attester \in {Null, attestationOf(u).id.attester}
          /\ requirement.schemaUid \in {Null, attestationOf(u).id.schemaUid}
          /\ attestationOf(u).id.recipient = p
    <3> DEFINE a == cred[requirement.chainKey][u]
    <3> HIDE DEF a
    <3>1. CASE requirement.attester = Null
      BY <3>1 DEF hasCredential, attestationOf, Registry!isValid
    <3>2. CASE requirement.attester # Null
      BY <3>2 DEF hasCredential, attestationOf, Registry!isValid, Registry!isValidFrom
    <3> QED  BY <3>1, <3>2
  <2>2. debt[p] < borrowCap <=> ~(debt[p] >= borrowCap)
    BY <1>1
  <2> QED  BY <2>1, <2>2, EligibleIff
<1>3. ASSUME NEW amount \in 1..MaxAmount
      PROVE  CanBorrow(p, u, amount) <=>
               /\ eligibilityOf(p, u) = "Eligible"
               /\ amount <= headroom(p, u)
               /\ amount <= balance
  <2>1. CanBorrow(p, u, amount) <=>
          hasCredential(p, u) /\ debt[p] + amount <= borrowCap /\ balance >= amount
    BY DEF CanBorrow
  <2>2. amount \in Nat /\ amount > 0
    OBVIOUS
  <2> QED  BY <1>1, <1>2, <2>1, <2>2 DEF headroom
<1> QED  BY <1>1, <1>2, <1>3 DEF headroom

\* If the owner only ever requires both an attester and a schema or neither,
\* eligibilityOf and headroom explain borrow exactly.
THEOREM EligibilityIsExact ==
  ASSUME \A r \in Requirements : r.attester = Null <=> r.schemaUid = Null
  PROVE  PoolSpec => []EligibilityExplainsBorrow
<1>1. IInv => EligibilityExplainsBorrow
  BY IInvParts, EligibilityLemma DEF Typed
<1> QED  BY <1>1, PoolInvariant, PTL

=============================================================================
