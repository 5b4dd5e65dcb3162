---------------------------- MODULE GrantProofs ----------------------------
(***************************************************************************)
(* What a signature can and cannot do, for every set of contracts and      *)
(* signatures, every time to live, and any number of cancellations; then a *)
(* migration beside everything else that happens to the account's grants:  *)
(* it takes its own grant back, it is not sent into a market known to be   *)
(* short, and it does nothing to the grants that the account could not     *)
(* have done itself.                                                       *)
(***************************************************************************)
EXTENDS Migration, SequenceTheorems, TLAPS

(* Grants: AuthInv is the inductive invariant of Authorization.            *)

(* The contract takes signatures in the order of their nonces and never    *)
(* looks back; what the cancel builder called consumed is behind it.       *)
NonceIsPast ==
  /\ \A a \in landed : a.nonce < nonce
  /\ \A n \in spent : n < nonce
  /\ cancel.current <= nonce

(* A cancelling signature is for the nonce its caller asked to cancel.     *)
BurnsItsNonce == \A c \in signed : c.burns # NotACancel => c.nonce = c.burns

(* A grant made by the SDK is for no longer than the time to live.         *)
ShortLived ==
  \A a \in signed :
    a.origin = "sdk" /\ a.isAuthorized => a.deadline <= a.signedAt + Ttl

AuthInv == AuthTypeOK /\ NonceIsPast /\ BurnsItsNonce /\ ShortLived
-----------------------------------------------------------------------------
LEMMA InitAuthInv == AuthInit => AuthInv
BY AuthorizationAssumption
   DEF AuthInit, AuthInv, AuthTypeOK, NonceIsPast, BurnsItsNonce, ShortLived

(* One more signature, of a nonce of its own choice.                       *)
LEMMA SignedKeeps ==
  ASSUME AuthInv, NEW a \in Signature, Signed(a),
         a.burns # NotACancel => a.nonce = a.burns,
         a.origin = "sdk" /\ a.isAuthorized => a.deadline <= a.signedAt + Ttl,
         UNCHANGED <<now, granted, nonce, spent, landed>>,
         cancel' \in [asking : BOOLEAN, nonce : Nat, current : Nat],
         cancel'.current = cancel.current
  PROVE  AuthInv'
<1>1. signed' = signed \cup {a}
  BY DEF Signed
<1>2. AuthTypeOK'
  BY <1>1 DEF AuthInv, AuthTypeOK
<1>3. NonceIsPast'
  BY DEF AuthInv, NonceIsPast
<1>4. BurnsItsNonce' /\ ShortLived'
  BY <1>1 DEF AuthInv, BurnsItsNonce, ShortLived
<1> QED
  BY <1>2, <1>3, <1>4 DEF AuthInv

(* What Authorization builds is a signature.                               *)
LEMMA AuthorizationType ==
  ASSUME AuthInv, NEW t \in Target, NEW yes \in BOOLEAN, NEW n \in Nat,
         NEW deadline \in Nat, NEW origin \in {"sdk", "elsewhere"},
         NEW a, a = Authorization(t, yes, n, deadline, origin)
  PROVE  /\ a \in Signature /\ a.burns = NotACancel /\ a.origin = origin
         /\ a.deadline = deadline /\ a.signedAt = now /\ now \in Nat
<1>1. now \in Nat
  BY AuthorizationAssumption DEF AuthInv, AuthTypeOK
<1> QED
  BY <1>1 DEF Authorization, Signature, NotACancel

(* The typed-data builder caps the deadline; elsewhere nobody does.        *)
LEMMA MakeSignatureKeeps == AuthInv /\ MakeSignature => AuthInv'
<1> SUFFICES ASSUME AuthInv, MakeSignature
             PROVE  AuthInv'
  OBVIOUS
<1>1. PICK t \in Target, n \in 0..MaxNonce, deadline \in 0..MaxNow :
        \/ \E yes \in BOOLEAN : Sign(t, yes, n, deadline)
        \/ SignElsewhere(t, n, deadline)
  BY DEF MakeSignature
<1>2. n \in Nat /\ deadline \in Nat
  BY AuthorizationAssumption
<1>3. cancel \in [asking : BOOLEAN, nonce : Nat, current : Nat]
  BY DEF AuthInv, AuthTypeOK
<1>4. ASSUME NEW yes \in BOOLEAN, Sign(t, yes, n, deadline)
      PROVE  AuthInv'
  <2>1. PICK a : a = Authorization(t, yes, n, deadline, "sdk")
    OBVIOUS
  <2>2. /\ BuildAuthorizationTypedData(a, Ttl) /\ Signed(a)
        /\ UNCHANGED <<now, granted, nonce, cancel, spent, landed>>
    BY <1>4, <2>1 DEF Sign
  <2>3. /\ a \in Signature /\ a.burns = NotACancel
        /\ a.deadline = deadline /\ a.signedAt = now /\ now \in Nat
    BY <1>2, <2>1, AuthorizationType
  <2>4. a.deadline <= a.signedAt + Ttl
    BY <1>2, <2>2, <2>3, AuthorizationAssumption DEF BuildAuthorizationTypedData
  <2> QED
    BY <1>3, <2>2, <2>3, <2>4, SignedKeeps
<1>5. ASSUME SignElsewhere(t, n, deadline)
      PROVE  AuthInv'
  <2>1. PICK yes \in BOOLEAN : yes = TRUE
    OBVIOUS
  <2>2. PICK a : a = Authorization(t, yes, n, deadline, "elsewhere")
    OBVIOUS
  <2>3. Signed(a) /\ UNCHANGED <<now, granted, nonce, cancel, spent, landed>>
    BY <1>5, <2>1, <2>2 DEF SignElsewhere
  <2>4. a \in Signature /\ a.burns = NotACancel /\ a.origin = "elsewhere"
    BY <1>2, <2>2, AuthorizationType
  <2> QED
    BY <1>3, <2>3, <2>4, SignedKeeps
<1> QED
  BY <1>1, <1>4, <1>5

(* A signature lands at the nonce of the moment, which is then behind.     *)
LEMMA RelayKeeps == AuthInv /\ Relay => AuthInv'
<1> SUFFICES ASSUME AuthInv, Relay
             PROVE  AuthInv'
  OBVIOUS
<1>1. PICK a \in signed : BuildSetAuthorizationWithSigSteps(a)
  BY DEF Relay
<1>2. /\ nonce = a.nonce /\ nonce' = nonce + 1 /\ landed' = landed \cup {a}
      /\ SetAuthorization(a.authorized, a.isAuthorized)
      /\ a.isAuthorized => a.authorized \in Authorizable
      /\ UNCHANGED <<now, signed, cancel, spent>>
  BY <1>1 DEF BuildSetAuthorizationWithSigSteps, SetAuthorizationWithSig,
              AssertAuthorizable
<1>3. /\ nonce \in Nat /\ spent \subseteq Nat /\ cancel.current \in Nat
      /\ \A b \in landed : b.nonce \in Nat
  BY DEF AuthInv, AuthTypeOK, Signature
<1>4. AuthTypeOK'
  BY <1>2, <1>3, AuthorizationAssumption DEF AuthInv, AuthTypeOK, SetAuthorization
<1>5. NonceIsPast'
  BY <1>2, <1>3 DEF AuthInv, NonceIsPast
<1>6. BurnsItsNonce' /\ ShortLived'
  BY <1>2 DEF AuthInv, BurnsItsNonce, ShortLived
<1> QED
  BY <1>4, <1>5, <1>6 DEF AuthInv

(* The answer is about a nonce that was read, and the nonce only grows.    *)
LEMMA AnswerCancelKeeps == AuthInv /\ AnswerCancel => AuthInv'
<1> SUFFICES ASSUME AuthInv, AnswerCancel
             PROVE  AuthInv'
  OBVIOUS
<1>1. /\ cancel' = [cancel EXCEPT !.asking = FALSE]
      /\ SaysConsumed \/ SaysNotReached \/ SignsCancellation
      /\ UNCHANGED <<now, granted, nonce, landed>>
  BY DEF AnswerCancel
<1>2. /\ cancel \in [asking : BOOLEAN, nonce : Nat, current : Nat]
      /\ nonce \in Nat /\ now \in Nat /\ spent \subseteq Nat
  BY AuthorizationAssumption DEF AuthInv, AuthTypeOK
<1>3. /\ cancel' \in [asking : BOOLEAN, nonce : Nat, current : Nat]
      /\ cancel'.current = cancel.current
  BY <1>1, <1>2
<1>4. CASE SaysConsumed
  <2>1. /\ cancel.current > cancel.nonce /\ spent' = spent \cup {cancel.nonce}
        /\ UNCHANGED signed
    BY <1>4 DEF SaysConsumed, Consumed
  <2>2. AuthTypeOK'
    BY <1>1, <1>2, <1>3, <2>1 DEF AuthInv, AuthTypeOK
  <2>3. cancel.nonce < nonce
    BY <1>2, <2>1 DEF AuthInv, NonceIsPast
  <2>4. NonceIsPast'
    BY <1>1, <1>3, <2>1, <2>3 DEF AuthInv, NonceIsPast
  <2>5. BurnsItsNonce' /\ ShortLived'
    BY <2>1 DEF AuthInv, BurnsItsNonce, ShortLived
  <2> QED
    BY <2>2, <2>4, <2>5 DEF AuthInv
<1>5. CASE SaysNotReached
  <2>1. UNCHANGED <<spent, signed>>
    BY <1>5 DEF SaysNotReached
  <2>2. AuthTypeOK' /\ NonceIsPast'
    BY <1>1, <1>3, <2>1 DEF AuthInv, AuthTypeOK, NonceIsPast
  <2>3. BurnsItsNonce' /\ ShortLived'
    BY <2>1 DEF AuthInv, BurnsItsNonce, ShortLived
  <2> QED
    BY <2>2, <2>3 DEF AuthInv
<1>6. CASE SignsCancellation
  <2>1. PICK c : c = Cancellation(cancel.nonce)
    OBVIOUS
  <2>2. Signed(c) /\ UNCHANGED spent
    BY <1>6, <2>1 DEF SignsCancellation
  <2>3. c \in Signature /\ ~c.isAuthorized /\ c.nonce = c.burns
    BY <1>2, <2>1, AuthorizationAssumption DEF Cancellation, Signature, BurntNonce
  <2> QED
    BY <1>1, <1>3, <2>2, <2>3, SignedKeeps
<1> QED
  BY <1>1, <1>4, <1>5, <1>6

LEMMA AuthNextKeeps == AuthInv /\ [AuthNext]_authVars => AuthInv'
<1> SUFFICES ASSUME AuthInv, [AuthNext]_authVars
             PROVE  AuthInv'
  OBVIOUS
<1>1. CASE Transact
  <2>1. PICK t \in Target :
          BuildSetAuthorizationSteps(t) \/ BuildRevokeAuthorizationSteps(t)
    BY <1>1 DEF Transact
  <2>2. /\ granted' = granted \cup {t} \/ granted' = granted \ {t}
        /\ UNCHANGED <<now, nonce, signed, cancel, spent, landed>>
    BY <2>1 DEF BuildSetAuthorizationSteps, BuildRevokeAuthorizationSteps,
                SetAuthorization
  <2> QED
    BY <2>2 DEF AuthInv, AuthTypeOK, NonceIsPast, BurnsItsNonce, ShortLived
<1>2. CASE AskToCancel
  <2>1. PICK n \in 0..MaxNonce : AskCancel(n)
    BY <1>2 DEF AskToCancel
  <2>2. n \in Nat /\ nonce \in Nat
    BY AuthorizationAssumption DEF AuthInv, AuthTypeOK
  <2>3. /\ cancel' = [asking |-> TRUE, nonce |-> n, current |-> nonce]
        /\ UNCHANGED <<now, granted, nonce, signed, spent, landed>>
    BY <2>1 DEF AskCancel
  <2> QED
    BY <2>2, <2>3 DEF AuthInv, AuthTypeOK, NonceIsPast, BurnsItsNonce, ShortLived
<1>3. CASE Tick
  <2>1. /\ now < MaxNow /\ now' = now + 1
        /\ UNCHANGED <<granted, nonce, signed, cancel, spent, landed>>
    BY <1>3 DEF Tick
  <2>2. now' \in 0..MaxNow
    BY <2>1, AuthorizationAssumption DEF AuthInv, AuthTypeOK
  <2> QED
    BY <2>1, <2>2 DEF AuthInv, AuthTypeOK, NonceIsPast, BurnsItsNonce, ShortLived
<1>4. CASE UNCHANGED authVars
  BY <1>4 DEF authVars, AuthInv, AuthTypeOK, NonceIsPast, BurnsItsNonce, ShortLived
<1> QED
  BY <1>1, <1>2, <1>3, <1>4, MakeSignatureKeeps, RelayKeeps, AnswerCancelKeeps
     DEF AuthNext
-----------------------------------------------------------------------------
(* The theorems.                                                           *)

(* Landed and consumed nonces are behind, cancelling signatures burn the   *)
(* nonce they were asked to: the inductive invariant of grants.            *)
THEOREM AuthInvariance == AuthSpec => []AuthInv
BY InitAuthInv, AuthNextKeeps, PTL DEF AuthSpec

(* Everything signed has a builder's shape, and what landed was signed.    *)
THEOREM AuthTypeCorrect == AuthSpec => []AuthTypeOK
<1>1. AuthInv => AuthTypeOK
  BY DEF AuthInv
<1> QED
  BY <1>1, AuthInvariance, PTL

(* What lands is landed by a relay, at the nonce of the moment and before  *)
(* its deadline.                                                           *)
LEMMA LandsNow ==
  ASSUME AuthInv, [AuthNext]_authVars, NEW a \in landed' \ landed
  PROVE  a \in signed /\ a.nonce = nonce /\ now <= a.deadline
<1>1. CASE Relay
  BY <1>1 DEF Relay, BuildSetAuthorizationWithSigSteps, SetAuthorizationWithSig
<1>2. CASE ~Relay
  <2>1. landed' = landed
    BY <1>2 DEF AuthNext, authVars, Transact, BuildSetAuthorizationSteps,
                BuildRevokeAuthorizationSteps, MakeSignature, Sign, SignElsewhere,
                AskToCancel, AskCancel, AnswerCancel, Tick
  <2> QED
    BY <2>1
<1> QED
  BY <1>1, <1>2

(* A cancellation that has landed has put its nonce behind, so a grant     *)
(* signed for that nonce is refused for good.                              *)
THEOREM CancellationHolds == AuthSpec => CancelledNeverLands
<1>1. AuthInv /\ [AuthNext]_authVars
        => [\A a \in landed' \ landed :
              a.isAuthorized => ~\E c \in landed : c.burns = a.nonce]_authVars
  <2> SUFFICES ASSUME AuthInv, [AuthNext]_authVars,
                      NEW a \in landed' \ landed,
                      NEW c \in landed, c.burns = a.nonce
               PROVE  FALSE
    OBVIOUS
  <2>1. a \in signed /\ a.nonce = nonce
    BY LandsNow
  <2>2. c \in signed /\ nonce \in Nat
    BY DEF AuthInv, AuthTypeOK
  <2>3. c.nonce = nonce
    BY <2>1, <2>2 DEF AuthInv, BurnsItsNonce, NotACancel
  <2>4. c.nonce < nonce
    BY DEF AuthInv, NonceIsPast
  <2> QED
    BY <2>2, <2>3, <2>4
<1> QED
  BY <1>1, AuthInvariance, PTL DEF AuthSpec, CancelledNeverLands

(* A grant of the SDK that lands does so within its time to live.          *)
THEOREM GrantsAreShort == AuthSpec => GrantsExpire
<1>1. AuthInv /\ [AuthNext]_authVars
        => [\A a \in landed' \ landed :
              (a.origin = "sdk" /\ a.isAuthorized) => now <= a.signedAt + Ttl]_authVars
  <2> SUFFICES ASSUME AuthInv, [AuthNext]_authVars,
                      NEW a \in landed' \ landed,
                      a.origin = "sdk", a.isAuthorized
               PROVE  now <= a.signedAt + Ttl
    OBVIOUS
  <2>1. a \in signed /\ now <= a.deadline
    BY LandsNow
  <2>2. a.deadline \in Nat /\ a.signedAt \in Nat /\ now \in Nat
    BY <2>1, AuthorizationAssumption DEF AuthInv, AuthTypeOK, Signature
  <2>3. a.deadline <= a.signedAt + Ttl
    BY <2>1 DEF AuthInv, ShortLived
  <2> QED
    BY <2>1, <2>2, <2>3, AuthorizationAssumption
<1> QED
  BY <1>1, AuthInvariance, PTL DEF AuthSpec, GrantsExpire

(* Whoever signs what and wherever, only the contracts of the address book *)
(* are ever authorized.                                                    *)
THEOREM AddressBookHolds == AuthSpec => OnlyTheAddressBook
<1>1. [AuthNext]_authVars => [granted' \ granted \subseteq Authorizable \ {Zero}]_authVars
  <2> SUFFICES ASSUME [AuthNext]_authVars
               PROVE  granted' \ granted \subseteq Authorizable \ {Zero}
    OBVIOUS
  <2>1. CASE Transact
    BY <2>1 DEF Transact, BuildSetAuthorizationSteps, BuildRevokeAuthorizationSteps,
                SetAuthorization, AssertAuthorizable
  <2>2. CASE Relay
    <3>1. PICK a \in signed : BuildSetAuthorizationWithSigSteps(a)
      BY <2>2 DEF Relay
    <3> QED
      BY <3>1 DEF BuildSetAuthorizationWithSigSteps, SetAuthorizationWithSig,
                  SetAuthorization, AssertAuthorizable
  <2>3. CASE ~Transact /\ ~Relay
    <3>1. granted' = granted
      BY <2>3 DEF AuthNext, authVars, MakeSignature, Sign, SignElsewhere,
                  AskToCancel, AskCancel, AnswerCancel, Tick
    <3> QED
      BY <3>1
  <2> QED
    BY <2>1, <2>2, <2>3
<1> QED
  BY <1>1, PTL DEF AuthSpec, OnlyTheAddressBook

(* What the cancel builder called consumed has been passed by the contract *)
(* and is never accepted again, although the builder answered late.        *)
THEOREM ConsumedIsFinal == AuthSpec => SpentIsFinal
<1>1. AuthInv /\ [AuthNext]_authVars
        => [\A a \in landed' \ landed : a.nonce \notin spent]_authVars
  <2> SUFFICES ASSUME AuthInv, [AuthNext]_authVars,
                      NEW a \in landed' \ landed, a.nonce \in spent
               PROVE  FALSE
    OBVIOUS
  <2>1. a.nonce = nonce /\ nonce \in Nat
    BY LandsNow DEF AuthInv, AuthTypeOK
  <2>2. a.nonce < nonce
    BY DEF AuthInv, NonceIsPast
  <2> QED
    BY <2>1, <2>2
<1> QED
  BY <1>1, AuthInvariance, PTL DEF AuthSpec, SpentIsFinal

-----------------------------------------------------------------------------
(* A migration: MigInv is the inductive invariant of Migration.            *)

Markets  == [created : BOOLEAN, broker : BOOLEAN, supply : Nat, borrow : Nat]
Steps    == [step : {"setAuthorization", "migrateToFixedTerm"}, reversal : BOOLEAN]
Begun    == {"running", "waiting", "undoing", "done", "failed"}
Statuses == {"idle", "reading", "refused"} \cup Begun
Txs      == {"none", "out", "mined", "reverted"}
Undos    == {"none", "out", "mined", "refused"}
Fates    == {"none", "settled", "unauthorized", "illiquid", "refused"}

MigType ==
  mig \in [status : Statuses, mode : {"amount", "shares"}, checks : BOOLEAN,
           reads : SUBSET {"grant", "target"}, sawGrant : BOOLEAN,
           sawTarget : Markets, size : Nat, plan : Seq(Steps), pc : Nat,
           tx : Txs, undo : Undos, ours : BOOLEAN, fate : Fates]

(* The loop stands inside a plan of one step, or of two if nothing was     *)
(* granted when the builder looked.                                        *)
InPlan ==
  /\ mig.status \notin Begun =>
       mig.pc = 1 /\ mig.tx = "none" /\ mig.undo = "none" /\ ~mig.ours
  /\ mig.status \in Begun =>
       /\ mig.plan = MigrationSteps(mig.sawGrant)
       /\ mig.pc \in 1..Len(mig.plan)
       /\ Available(mig.sawTarget) >= mig.size

(* What the loop knows of its own grant: it is the first step's, made when *)
(* that was mined and gone when the undo was, and an undo is sent by every *)
(* loop that gives up beyond the first of two steps.                       *)
Answers ==
  /\ mig.status = "running" => mig.tx = "none"
  /\ mig.ours => mig.status \in Begun /\ ~mig.sawGrant
  /\ (mig.status \in Begun /\ mig.tx \in {"mined", "reverted"}
        /\ mig.pc = Len(mig.plan))
       => mig.fate # "none" /\ (mig.tx = "mined" => mig.fate = "settled")
  /\ mig.status = "done" =>
       /\ mig.pc = Len(mig.plan)
       /\ mig.tx = "mined" \/ (mig.tx = "reverted" /\ ~mig.checks)
  /\ (mig.status = "failed" /\ mig.pc = 2) => mig.undo # "none"
  /\ mig.undo # "none" => mig.status = "failed" /\ mig.pc = 2
  /\ mig.undo = "mined" => ~mig.ours /\ mig.tx # "out"

MigInv == AuthInv /\ target \in Markets /\ due \in Nat /\ MigType /\ InPlan /\ Answers
-----------------------------------------------------------------------------
LEMMA PlanIs ==
  ASSUME NEW sawGrant \in BOOLEAN,
         NEW p, p = MigrationSteps(sawGrant)
  PROVE  /\ p \in Seq(Steps) /\ Len(p) = IF sawGrant THEN 1 ELSE 2
         /\ p[Len(p)] = [step |-> "migrateToFixedTerm", reversal |-> FALSE]
         /\ ~sawGrant => p[1] = [step |-> "setAuthorization", reversal |-> TRUE]
<1>1. PICK grant \in Steps, last \in Steps :
        /\ grant = [step |-> "setAuthorization", reversal |-> TRUE]
        /\ last = [step |-> "migrateToFixedTerm", reversal |-> FALSE]
  BY DEF Steps
<1>2. PICK a : a = IF sawGrant THEN <<>> ELSE <<grant>>
  OBVIOUS
<1>3. PICK b : b = <<last>>
  OBVIOUS
<1>4. /\ a \in Seq(Steps) /\ Len(a) = IF sawGrant THEN 0 ELSE 1
      /\ ~sawGrant => a[1] = grant
      /\ b \in Seq(Steps) /\ Len(b) = 1 /\ b[1] = last
  BY <1>1, <1>2, <1>3
<1>5. p = a \o b
  BY <1>1, <1>2, <1>3 DEF MigrationSteps
<1>6. /\ p \in Seq(Steps) /\ Len(p) = Len(a) + Len(b)
      /\ \A i \in 1..(Len(a) + Len(b)) : p[i] = IF i <= Len(a) THEN a[i] ELSE b[i - Len(a)]
  BY <1>4, <1>5, ConcatProperties
<1>7. CASE sawGrant
  <2>1. Len(a) = 0 /\ Len(b) = 1 /\ Len(p) = 1
    BY <1>4, <1>6, <1>7
  <2>2. p[1] = b[1]
    BY <1>6, <2>1
  <2> QED
    BY <1>1, <1>4, <1>6, <1>7, <2>1, <2>2
<1>8. CASE ~sawGrant
  <2>1. Len(a) = 1 /\ Len(b) = 1 /\ Len(p) = 2
    BY <1>4, <1>6, <1>8
  <2>2. p[1] = a[1] /\ p[2] = b[1]
    BY <1>6, <2>1
  <2> QED
    BY <1>1, <1>4, <1>6, <1>8, <2>1, <2>2
<1> QED
  BY <1>7, <1>8

LEMMA InitMigInv == Init => MigInv
<1> SUFFICES ASSUME Init
             PROVE  MigInv
  OBVIOUS
<1>1. AuthInv
  BY InitAuthInv DEF Init
<1>2. target \in Markets /\ due \in Nat
  BY MigrationAssumption DEF Init, Markets
<1>3. PICK mode \in {"amount", "shares"}, checks \in ChecksReceipt :
        mig = [Idle EXCEPT !.mode = mode, !.checks = checks]
  BY DEF Init
<1>4. <<>> \in Seq(Steps) /\ checks \in BOOLEAN
  BY EmptySeq, MigrationAssumption
<1>5. MigType
  BY <1>2, <1>3, <1>4 DEF MigType, Idle, Statuses, Txs, Undos, Fates
<1>6. InPlan /\ Answers
  BY <1>3 DEF InPlan, Answers, Idle, Begun
<1> QED
  BY <1>1, <1>2, <1>5, <1>6 DEF MigInv

(* The builder leaves the chain alone, and so does a loop that gives up.   *)
LEMMA BuildKeeps == MigInv /\ Build => MigInv'
<1> SUFFICES ASSUME MigInv, Build
             PROVE  MigInv'
  OBVIOUS
<1>1. UNCHANGED <<authVars, target, due>>
  BY DEF Build, Begin, ReadGrant, ReadTarget, BuildMigrateToFixedTermSteps
<1>2. AuthInv'
  BY <1>1, AuthNextKeeps DEF MigInv
<1>3. MigType /\ InPlan /\ Answers /\ target \in Markets /\ due \in Nat
  BY DEF MigInv
<1>4. CASE Begin
  <2>1. mig.status = "idle" /\ mig' = [mig EXCEPT !.status = "reading"]
    BY <1>4 DEF Begin
  <2>2. MigType'
    <3>1. "reading" \in Statuses
      BY DEF Statuses
    <3> QED
      BY <1>3, <2>1, <3>1 DEF MigType
  <2>3. /\ mig.status \notin Begun /\ mig'.status \notin Begun
        /\ mig'.pc = mig.pc /\ mig'.tx = mig.tx /\ mig'.undo = mig.undo
        /\ mig'.ours = mig.ours
    BY <1>3, <2>1 DEF MigType, Begun
  <2>4. InPlan' /\ Answers'
    BY <1>3, <2>3 DEF InPlan, Answers, Begun
  <2> QED
    BY <1>1, <1>2, <1>3, <2>2, <2>4 DEF MigInv
<1>5. CASE ReadGrant
  <2>1. /\ mig.status = "reading"
        /\ mig' = [mig EXCEPT !.reads = @ \cup {"grant"},
                              !.sawGrant = PositionManager \in granted]
    BY <1>5 DEF ReadGrant
  <2>2. MigType'
    <3>1. CASE PositionManager \in granted
      <4>1. (PositionManager \in granted) = TRUE
        BY <3>1
      <4>2. mig' = [mig EXCEPT !.reads = @ \cup {"grant"}, !.sawGrant = TRUE]
        BY <2>1, <4>1
      <4> QED
        BY <1>3, <4>2 DEF MigType
    <3>2. CASE PositionManager \notin granted
      <4>1. (PositionManager \in granted) = FALSE
        BY <3>2
      <4>2. mig' = [mig EXCEPT !.reads = @ \cup {"grant"}, !.sawGrant = FALSE]
        BY <2>1, <4>1
      <4> QED
        BY <1>3, <4>2 DEF MigType
    <3> QED
      BY <3>1, <3>2
  <2>3. /\ mig.status \notin Begun /\ mig'.status \notin Begun
        /\ mig'.pc = mig.pc /\ mig'.tx = mig.tx /\ mig'.undo = mig.undo
        /\ mig'.ours = mig.ours
    BY <1>3, <2>1 DEF MigType, Begun
  <2>4. InPlan' /\ Answers'
    BY <1>3, <2>3 DEF InPlan, Answers, Begun
  <2> QED
    BY <1>1, <1>2, <1>3, <2>2, <2>4 DEF MigInv
<1>6. CASE ReadTarget
  <2>1. /\ mig.status = "reading"
        /\ mig' = [mig EXCEPT !.reads = @ \cup {"target"}, !.sawTarget = target]
    BY <1>6 DEF ReadTarget
  <2>2. MigType'
    BY <1>3, <2>1 DEF MigType
  <2>3. /\ mig.status \notin Begun /\ mig'.status \notin Begun
        /\ mig'.pc = mig.pc /\ mig'.tx = mig.tx /\ mig'.undo = mig.undo
        /\ mig'.ours = mig.ours
    BY <1>3, <2>1 DEF MigType, Begun
  <2>4. InPlan' /\ Answers'
    BY <1>3, <2>3 DEF InPlan, Answers, Begun
  <2> QED
    BY <1>1, <1>2, <1>3, <2>2, <2>4 DEF MigInv
<1>7. CASE BuildMigrateToFixedTermSteps
  <2>1. PICK n \in Sizes :
          mig' = IF mig.sawTarget.created /\ mig.sawTarget.broker
                    /\ Available(mig.sawTarget) >= n
                 THEN [mig EXCEPT !.status = "running", !.size = n,
                                  !.plan = MigrationSteps(mig.sawGrant)]
                 ELSE [mig EXCEPT !.status = "refused"]
    BY <1>7 DEF BuildMigrateToFixedTermSteps
  <2>2. mig.status = "reading" /\ n \in Nat
    BY <1>3, <1>7 DEF BuildMigrateToFixedTermSteps, Sizes
  <2>3. CASE mig' = [mig EXCEPT !.status = "refused"]
    <3>1. MigType'
      BY <1>3, <2>3 DEF MigType, Statuses
    <3>2. InPlan' /\ Answers'
      BY <1>3, <2>2, <2>3 DEF MigType, InPlan, Answers, Begun
    <3> QED
      BY <1>1, <1>2, <1>3, <3>1, <3>2 DEF MigInv
  <2>4. CASE /\ Available(mig.sawTarget) >= n
             /\ mig' = [mig EXCEPT !.status = "running", !.size = n,
                                   !.plan = MigrationSteps(mig.sawGrant)]
    <3>1. mig.sawGrant \in BOOLEAN
      BY <1>3 DEF MigType
    <3>2. PICK p : p = MigrationSteps(mig.sawGrant)
      OBVIOUS
    <3>3. p \in Seq(Steps) /\ Len(p) \in {1, 2}
      BY <3>1, <3>2, PlanIs
    <3>4. mig' = [mig EXCEPT !.status = "running", !.size = n, !.plan = p]
      BY <2>4, <3>2
    <3>5. MigType'
      BY <1>3, <2>2, <3>3, <3>4 DEF MigType, Statuses, Begun
    <3>6. /\ mig'.plan = p /\ mig'.sawGrant = mig.sawGrant /\ mig'.pc = mig.pc
          /\ mig'.sawTarget = mig.sawTarget /\ mig'.size = n
          /\ mig'.status = "running" /\ mig'.tx = mig.tx
          /\ mig'.undo = mig.undo /\ mig'.ours = mig.ours
      BY <1>3, <3>4 DEF MigType
    <3>7. InPlan'
      <4>1. mig.pc = 1
        BY <1>3, <2>2 DEF InPlan, Begun
      <4>2. mig'.pc \in 1..Len(mig'.plan)
        <5>1. mig'.pc = 1 /\ mig'.plan = p
          BY <3>6, <4>1
        <5>2. 1 \in 1..Len(p)
          BY <3>3
        <5> QED
          BY <5>1, <5>2
      <4>5. mig'.plan = MigrationSteps(mig'.sawGrant)
        <5>1. mig'.plan = p /\ mig'.sawGrant = mig.sawGrant
          BY <3>6
        <5> QED
          BY <3>2, <5>1
      <4>3. Available(mig'.sawTarget) >= mig'.size
        BY <2>4, <3>6
      <4>4. mig'.status \in Begun
        BY <3>6 DEF Begun
      <4> QED
        BY <3>6, <4>2, <4>3, <4>4, <4>5 DEF InPlan, Available
    <3>8. Answers'
      BY <1>3, <2>2, <3>6 DEF InPlan, Answers, Begun
    <3> QED
      BY <1>1, <1>2, <1>3, <3>5, <3>7, <3>8 DEF MigInv
  <2> QED
    BY <2>1, <2>3, <2>4
<1> QED
  BY <1>4, <1>5, <1>6, <1>7 DEF Build
-----------------------------------------------------------------------------
(* The loop inside its plan.                                               *)

(* What the loop works on is what the builder left, whatever the chain is. *)
LEMMA PlanHere ==
  ASSUME MigInv, mig.status \in Begun
  PROVE  /\ Len(mig.plan) = IF mig.sawGrant THEN 1 ELSE 2
         /\ mig.pc \in 1..Len(mig.plan) /\ mig.pc \in Nat
         /\ Current.step = "migrateToFixedTerm" => mig.pc = Len(mig.plan)
         /\ Current.step = "setAuthorization"
              => mig.pc = 1 /\ Len(mig.plan) = 2 /\ ~mig.sawGrant
         /\ mig.pc = 1 \/ (mig.pc = 2 /\ ~mig.sawGrant)
         /\ ~mig.sawGrant /\ mig.pc = 1 => Current.step = "setAuthorization"
         /\ mig.pc = 1 => ~HasReversal
         /\ mig.pc = 2 => HasReversal
<1>1. MigType /\ InPlan
  BY DEF MigInv
<1>2. mig.sawGrant \in BOOLEAN /\ mig.plan = MigrationSteps(mig.sawGrant)
  BY <1>1 DEF MigType, InPlan
<1>3. PICK p : p = mig.plan
  OBVIOUS
<1>4. /\ p \in Seq(Steps) /\ Len(p) = IF mig.sawGrant THEN 1 ELSE 2
      /\ p[Len(p)] = [step |-> "migrateToFixedTerm", reversal |-> FALSE]
      /\ ~mig.sawGrant => p[1] = [step |-> "setAuthorization", reversal |-> TRUE]
  BY <1>2, <1>3, PlanIs
<1>5. mig.pc \in 1..Len(p)
  BY <1>1, <1>3 DEF InPlan
<1>6. Current = p[mig.pc]
  BY <1>3 DEF Current
<1>7. CASE mig.sawGrant
  <2>1. Len(p) = 1 /\ mig.pc = 1
    BY <1>4, <1>5, <1>7
  <2>2. Current.step = "migrateToFixedTerm"
    BY <1>4, <1>6, <2>1
  <2>3. mig.pc = 1 /\ mig.pc # 2 /\ (mig.pc = 1 => ~HasReversal)
    BY <2>1 DEF HasReversal
  <2>4. Len(mig.plan) = 1 /\ mig.pc \in 1..Len(mig.plan) /\ mig.pc = Len(mig.plan)
    BY <1>3, <2>1
  <2> QED
    BY <1>7, <2>2, <2>3, <2>4
<1>8. CASE ~mig.sawGrant
  <2>1. Len(p) = 2 /\ (mig.pc = 1 \/ mig.pc = 2)
    BY <1>4, <1>5, <1>8
  <2>2. p[1].step = "setAuthorization" /\ p[1].reversal
    BY <1>4, <1>8
  <2>3. p[2].step = "migrateToFixedTerm"
    BY <1>4, <2>1
  <2>4. (mig.pc = 1 => ~HasReversal) /\ (mig.pc = 2 => HasReversal)
    BY <1>3, <2>1, <2>2 DEF HasReversal
  <2>5. CASE mig.pc = 1
    BY <1>3, <1>6, <1>8, <2>1, <2>2, <2>4, <2>5
  <2>6. CASE mig.pc = 2
    BY <1>3, <1>6, <1>8, <2>1, <2>2, <2>3, <2>4, <2>6
  <2> QED
    BY <2>1, <2>5, <2>6
<1> QED
  BY <1>7, <1>8

(* A step that leaves the plan, and the place in it, alone.                *)
Kept ==
  /\ mig'.plan = mig.plan /\ mig'.pc = mig.pc /\ mig'.size = mig.size
  /\ mig'.sawGrant = mig.sawGrant /\ mig'.sawTarget = mig.sawTarget
  /\ mig'.checks = mig.checks

LEMMA Stays ==
  ASSUME InPlan, mig.status \in Begun, mig'.status \in Begun, Kept
  PROVE  InPlan'
BY DEF InPlan, Kept, Available

(* The grant of a migration is one the account may make any time.          *)
LEMMA GrantIsATransaction ==
  /\ GrantLands => BuildSetAuthorizationSteps(PositionManager)
  /\ UndoLands => BuildRevokeAuthorizationSteps(PositionManager)
<1>1. AssertAuthorizable(PositionManager)
  BY MigrationAssumption DEF AssertAuthorizable
<1> QED
  BY <1>1 DEF GrantLands, UndoLands, BuildSetAuthorizationSteps,
              BuildRevokeAuthorizationSteps

(* What a migration does to the account's grants is a step of its own, or  *)
(* nothing at all.                                                         *)
LEMMA NextIsAuthNext == [Next]_vars => [AuthNext]_authVars
<1>1. PositionManager \in Target
  BY MigrationAssumption, AuthorizationAssumption
<1>2. GrantLands \/ UndoLands => [AuthNext]_authVars
  BY <1>1, GrantIsATransaction DEF AuthNext, Transact
<1>3. Build \/ Loop => UNCHANGED authVars
  BY DEF Build, Begin, ReadGrant, ReadTarget, BuildMigrateToFixedTermSteps,
         Loop, Send, Confirm, Throws, Undo
<1>4. GrantReverts \/ Migrate \/ MigrateReverts => UNCHANGED authVars
  BY DEF GrantReverts, Migrate, MigrateReverts
<1>5. OthersBorrow \/ OthersRepay \/ Accrue => UNCHANGED authVars
  BY DEF OthersBorrow, OthersRepay, Accrue
<1>6. UNCHANGED vars => UNCHANGED authVars
  BY DEF vars
<1> QED
  BY <1>2, <1>3, <1>4, <1>5, <1>6 DEF Next, Mine, OtherGrants

LEMMA LoopKeeps == MigInv /\ Loop => MigInv'
<1> SUFFICES ASSUME MigInv, Loop
             PROVE  MigInv'
  OBVIOUS
<1>1. MigType /\ InPlan /\ Answers /\ target \in Markets /\ due \in Nat
  BY DEF MigInv
<1>2. AuthInv' /\ UNCHANGED <<target, due>>
  BY AuthNextKeeps, NextIsAuthNext
     DEF MigInv, Next, Loop, Send, Confirm, Throws, Undo
<1>3. mig.status \in {"running", "waiting", "undoing"} /\ mig.status \in Begun
  BY DEF Loop, Send, Confirm, Throws, Undo, Begun
<1>4. mig.tx \in Txs /\ mig.undo \in Undos /\ mig.ours \in BOOLEAN /\ mig.fate \in Fates
  BY <1>1 DEF MigType
<1>5. mig.undo = "none"
  BY <1>1, <1>3 DEF Answers, Kept
<1>6. ASSUME MigType', InPlan', Answers'
      PROVE  MigInv'
  BY <1>1, <1>2, <1>6 DEF MigInv
<1>7. CASE Send
  <2>1. mig' = [mig EXCEPT !.status = "waiting", !.tx = "out"]
    BY <1>7 DEF Send
  <2>2. mig' = [mig EXCEPT !.status = "waiting", !.tx = "out", !.undo = mig.undo,
                           !.ours = mig.ours, !.fate = mig.fate]
    BY <1>1, <2>1 DEF MigType
  <2>3. "waiting" \in Begun /\ "out" \in Txs
    BY DEF Begun, Txs
  <2>4. /\ MigType' /\ InPlan' /\ Kept
        /\ mig'.status = "waiting" /\ mig'.tx = "out" /\ mig'.undo = mig.undo
        /\ mig'.ours = mig.ours
    <3>1. MigType'
      BY <1>1, <1>3, <1>4, <2>2, <2>3 DEF MigType, Statuses
    <3>2. Kept
      BY <1>1, <1>3, <1>4, <2>2, <2>3 DEF MigType, Kept
    <3>3. /\ mig'.status = "waiting" /\ mig'.tx = "out" /\ mig'.undo = mig.undo
          /\ mig'.ours = mig.ours
      BY <1>1, <1>3, <1>4, <2>2, <2>3 DEF MigType
    <3>4. InPlan'
      BY <1>1, <1>3, <1>4, <2>2, <2>3, <3>2, <3>3, Stays
    <3> QED
      BY <3>1, <3>2, <3>3, <3>4
  <2>5. Answers'
    BY <1>1, <1>5, <2>3, <2>4 DEF Answers, Kept
  <2> QED
    BY <1>6, <2>4, <2>5
<1>8. CASE Confirm
  <2>1. /\ mig.status = "waiting"
        /\ mig.tx = "mined" \/ (mig.tx = "reverted" /\ ~mig.checks)
        /\ mig' = IF Onward = "done" THEN [mig EXCEPT !.status = "done"]
                  ELSE [mig EXCEPT !.status = "running", !.pc = mig.pc + 1, !.tx = "none"]
    BY <1>8 DEF Confirm
  <2>2. CASE Onward = "done"
    <3>1. mig.pc = Len(mig.plan)
      BY <2>2 DEF Onward
    <3>2. mig' = [mig EXCEPT !.status = "done", !.tx = mig.tx, !.undo = mig.undo,
                             !.ours = mig.ours, !.fate = mig.fate]
      BY <1>1, <2>1, <2>2 DEF MigType
    <3>3. "done" \in Begun
      BY DEF Begun
    <3>4. /\ MigType' /\ InPlan' /\ Kept
          /\ mig'.status = "done" /\ mig'.tx = mig.tx /\ mig'.undo = mig.undo
          /\ mig'.ours = mig.ours /\ mig'.fate = mig.fate
      <4>1. MigType'
        BY <1>1, <1>3, <1>4, <3>2, <3>3 DEF MigType, Statuses
      <4>2. Kept
        BY <1>1, <1>3, <1>4, <3>2, <3>3 DEF MigType, Kept
      <4>3. /\ mig'.status = "done" /\ mig'.tx = mig.tx /\ mig'.undo = mig.undo
            /\ mig'.ours = mig.ours /\ mig'.fate = mig.fate
        BY <1>1, <1>3, <1>4, <3>2, <3>3 DEF MigType
      <4>4. InPlan'
        BY <1>1, <1>3, <1>4, <3>2, <3>3, <4>2, <4>3, Stays
      <4> QED
        BY <4>1, <4>2, <4>3, <4>4
    <3>5. Answers'
      BY <1>1, <1>3, <1>5, <2>1, <3>1, <3>3, <3>4 DEF Answers, Kept
    <3> QED
      BY <1>6, <3>4, <3>5
  <2>3. CASE Onward # "done"
    <3>1. mig.pc # Len(mig.plan)
      BY <2>3 DEF Onward
    <3>2. mig.pc = 1 /\ Len(mig.plan) = 2
      BY <1>3, <3>1, PlanHere
    <3>3. mig' = [mig EXCEPT !.status = "running", !.pc = 2, !.tx = "none"]
      BY <2>1, <2>3, <3>2
    <3>4. "running" \in Begun /\ "none" \in Txs /\ 2 \in 1..Len(mig.plan)
      BY <3>2 DEF Begun, Txs
    <3>5. MigType'
      BY <1>1, <3>3, <3>4 DEF MigType, Statuses
    <3>6. /\ mig'.status = "running" /\ mig'.plan = mig.plan /\ mig'.pc = 2
          /\ mig'.sawGrant = mig.sawGrant /\ mig'.sawTarget = mig.sawTarget
          /\ mig'.size = mig.size /\ mig'.tx = "none" /\ mig'.undo = mig.undo
          /\ mig'.ours = mig.ours
      BY <1>1, <3>3 DEF MigType
    <3>7. mig'.pc \in 1..Len(mig'.plan)
      BY <3>4, <3>6
    <3>8. InPlan'
      BY <1>1, <1>3, <3>4, <3>6, <3>7 DEF InPlan, Available
    <3>9. Answers'
      BY <1>1, <1>5, <3>4, <3>6 DEF Answers, Kept
    <3> QED
      BY <1>6, <3>5, <3>8, <3>9
  <2> QED
    BY <2>2, <2>3
<1>9. CASE Throws
  <2>1. mig' = [mig EXCEPT !.status = "undoing"]
    BY <1>9 DEF Throws
  <2>2. mig' = [mig EXCEPT !.status = "undoing", !.tx = mig.tx, !.undo = mig.undo,
                           !.ours = mig.ours, !.fate = mig.fate]
    BY <1>1, <2>1 DEF MigType
  <2>3. "undoing" \in Begun
    BY DEF Begun
  <2>4. /\ MigType' /\ InPlan' /\ Kept
        /\ mig'.status = "undoing" /\ mig'.tx = mig.tx /\ mig'.undo = mig.undo
        /\ mig'.ours = mig.ours /\ mig'.fate = mig.fate
    <3>1. MigType'
      BY <1>1, <1>3, <1>4, <2>2, <2>3 DEF MigType, Statuses
    <3>2. Kept
      BY <1>1, <1>3, <1>4, <2>2, <2>3 DEF MigType, Kept
    <3>3. /\ mig'.status = "undoing" /\ mig'.tx = mig.tx /\ mig'.undo = mig.undo
          /\ mig'.ours = mig.ours /\ mig'.fate = mig.fate
      BY <1>1, <1>3, <1>4, <2>2, <2>3 DEF MigType
    <3>4. InPlan'
      BY <1>1, <1>3, <1>4, <2>2, <2>3, <3>2, <3>3, Stays
    <3> QED
      BY <3>1, <3>2, <3>3, <3>4
  <2>5. Answers'
    BY <1>1, <1>3, <1>5, <2>3, <2>4 DEF Answers, Kept
  <2> QED
    BY <1>6, <2>4, <2>5
<1>10. CASE Undo
  <2>1. PICK undo \in IF HasReversal THEN {"out", "refused"} ELSE {"none"} :
          mig' = [mig EXCEPT !.status = "failed", !.undo = undo]
    BY <1>10 DEF Undo
  <2>2. mig' = [mig EXCEPT !.status = "failed", !.tx = mig.tx, !.undo = undo,
                           !.ours = mig.ours, !.fate = mig.fate]
    BY <1>1, <2>1 DEF MigType
  <2>3. "failed" \in Begun /\ undo \in Undos /\ undo # "mined"
    BY DEF Begun, Undos
  <2>4. /\ MigType' /\ InPlan' /\ Kept
        /\ mig'.status = "failed" /\ mig'.tx = mig.tx /\ mig'.undo = undo
        /\ mig'.ours = mig.ours /\ mig'.fate = mig.fate
    <3>1. MigType'
      BY <1>1, <1>3, <1>4, <2>2, <2>3 DEF MigType, Statuses
    <3>2. Kept
      BY <1>1, <1>3, <1>4, <2>2, <2>3 DEF MigType, Kept
    <3>3. /\ mig'.status = "failed" /\ mig'.tx = mig.tx /\ mig'.undo = undo
          /\ mig'.ours = mig.ours /\ mig'.fate = mig.fate
      BY <1>1, <1>3, <1>4, <2>2, <2>3 DEF MigType
    <3>4. InPlan'
      BY <1>1, <1>3, <1>4, <2>2, <2>3, <3>2, <3>3, Stays
    <3> QED
      BY <3>1, <3>2, <3>3, <3>4
  <2>5. undo # "none" <=> mig.pc = 2
    BY <1>3, <2>1, PlanHere
  <2>6. Answers'
    BY <1>1, <1>3, <2>3, <2>4, <2>5 DEF Answers, Kept
  <2> QED
    BY <1>6, <2>4, <2>6
<1> QED
  BY <1>7, <1>8, <1>9, <1>10 DEF Loop

LEMMA MineKeeps == MigInv /\ Mine => MigInv'
<1> SUFFICES ASSUME MigInv, Mine
             PROVE  MigInv'
  OBVIOUS
<1>1. MigType /\ InPlan /\ Answers /\ target \in Markets /\ due \in Nat
  BY DEF MigInv
<1>2. AuthInv'
  BY AuthNextKeeps, NextIsAuthNext DEF MigInv, Next
<1>3. mig.status \in Begun
  BY <1>1 DEF InPlan, Mine, Mined, GrantLands, GrantReverts, Migrate,
              MigrateReverts, UndoLands
<1>4. mig.tx \in Txs /\ mig.undo \in Undos /\ mig.ours \in BOOLEAN /\ mig.fate \in Fates
      /\ mig.status \in Statuses
  BY <1>1 DEF MigType
<1>5. ASSUME MigType', InPlan', Answers', target' \in Markets, due' \in Nat
      PROVE  MigInv'
  BY <1>2, <1>5 DEF MigInv
<1>6. ASSUME NEW tx \in {"mined", "reverted"}, NEW ours \in BOOLEAN, NEW fate \in Fates,
             mig.tx = "out",
             mig.pc = Len(mig.plan)
               => ours = mig.ours /\ fate # "none" /\ (tx = "mined" => fate = "settled"),
             ours => ~mig.sawGrant,
             mig.pc = 2 => ours = mig.ours,
             mig' = [mig EXCEPT !.tx = tx, !.ours = ours, !.fate = fate],
             target' \in Markets, due' \in Nat
      PROVE  MigInv'
  <2>1. mig' = [mig EXCEPT !.status = mig.status, !.tx = tx, !.undo = mig.undo,
                           !.ours = ours, !.fate = fate]
    BY <1>1, <1>6 DEF MigType
  <2>2. tx \in Txs
    BY <1>6 DEF Txs
  <2>3. /\ MigType' /\ InPlan' /\ Kept
        /\ mig'.status = mig.status /\ mig'.tx = tx /\ mig'.undo = mig.undo
        /\ mig'.ours = ours /\ mig'.fate = fate
    <3>1. MigType'
      BY <1>1, <1>3, <1>4, <1>6, <2>1, <2>2 DEF MigType, Statuses
    <3>2. Kept
      BY <1>1, <1>3, <1>4, <1>6, <2>1, <2>2 DEF MigType, Kept
    <3>3. /\ mig'.status = mig.status /\ mig'.tx = tx /\ mig'.undo = mig.undo
          /\ mig'.ours = ours /\ mig'.fate = fate
      BY <1>1, <1>3, <1>4, <1>6, <2>1, <2>2 DEF MigType
    <3>4. InPlan'
      BY <1>1, <1>3, <1>4, <1>6, <2>1, <2>2, <3>2, <3>3, Stays
    <3> QED
      BY <3>1, <3>2, <3>3, <3>4
  <2>4. mig.status # "running" /\ mig.status # "done" /\ mig.undo # "mined"
    BY <1>1, <1>6 DEF Answers, Kept
  <2>5. Answers'
    BY <1>1, <1>3, <1>6, <2>3, <2>4 DEF Answers, Kept
  <2> QED
    BY <1>5, <1>6, <2>3, <2>5
<1>7. CASE GrantLands \/ GrantReverts
  <2>1. mig.tx = "out" /\ Current.step = "setAuthorization" /\ UNCHANGED <<target, due>>
    BY <1>7 DEF GrantLands, GrantReverts, Mined
  <2>2. mig.pc # Len(mig.plan) /\ mig.pc # 2 /\ ~mig.sawGrant
    BY <1>3, <2>1, PlanHere
  <2>5. target' \in Markets /\ due' \in Nat
    BY <1>1, <2>1
  <2>3. CASE GrantLands
    <3>1. PICK ours \in BOOLEAN : ours = (PositionManager \notin granted)
      OBVIOUS
    <3>2. mig' = [mig EXCEPT !.tx = "mined", !.ours = ours, !.fate = mig.fate]
      BY <1>1, <2>3, <3>1 DEF GrantLands, MigType
    <3> QED
      BY <1>4, <1>6, <2>1, <2>2, <2>5, <3>1, <3>2
  <2>4. CASE GrantReverts
    <3>1. mig' = [mig EXCEPT !.tx = "reverted", !.ours = mig.ours, !.fate = mig.fate]
      BY <1>1, <2>4 DEF GrantReverts, MigType
    <3> QED
      BY <1>4, <1>6, <2>1, <2>2, <2>5, <3>1
  <2> QED
    BY <1>7, <2>3, <2>4
<1>8. mig.ours => ~mig.sawGrant
  BY <1>1 DEF Answers, Kept
<1>9. CASE Migrate
  <2>1. /\ mig.tx = "out"
        /\ target' = [target EXCEPT !.borrow = target.borrow + due] /\ due' = 0
        /\ mig' = [mig EXCEPT !.tx = "mined", !.fate = "settled"]
    BY <1>9 DEF Migrate, Mined
  <2>2. target' \in Markets
    BY <1>1, <2>1 DEF Markets
  <2>3. "settled" \in Fates
    BY DEF Fates
  <2>4. mig' = [mig EXCEPT !.tx = "mined", !.ours = mig.ours, !.fate = "settled"]
    BY <1>1, <2>1 DEF MigType
  <2> QED
    BY <1>4, <1>6, <1>8, <2>1, <2>2, <2>3, <2>4
<1>10. CASE MigrateReverts
  <2>1. PICK fate \in {"unauthorized", "illiquid", "refused"} :
          mig' = [mig EXCEPT !.tx = "reverted", !.fate = fate]
    BY <1>10 DEF MigrateReverts
  <2>2. mig.tx = "out" /\ UNCHANGED <<target, due>>
    BY <1>10 DEF MigrateReverts, Mined
  <2>3. fate \in Fates /\ fate # "none"
    BY DEF Fates
  <2>4. mig' = [mig EXCEPT !.tx = "reverted", !.ours = mig.ours, !.fate = fate]
    BY <1>1, <2>1 DEF MigType
  <2> QED
    BY <1>1, <1>4, <1>6, <1>8, <2>2, <2>3, <2>4
<1>11. CASE UndoLands
  <2>1. /\ mig.undo = "out" /\ mig.tx # "out" /\ UNCHANGED <<target, due>>
        /\ mig' = [mig EXCEPT !.undo = "mined", !.ours = FALSE]
    BY <1>11 DEF UndoLands
  <2>2. mig' = [mig EXCEPT !.status = mig.status, !.tx = mig.tx, !.undo = "mined",
                           !.ours = FALSE, !.fate = mig.fate]
    BY <1>1, <2>1 DEF MigType
  <2>3. "mined" \in Undos
    BY DEF Undos
  <2>4. /\ MigType' /\ InPlan' /\ Kept
        /\ mig'.status = mig.status /\ mig'.tx = mig.tx /\ mig'.undo = "mined"
        /\ mig'.ours = FALSE /\ mig'.fate = mig.fate
    <3>1. MigType'
      BY <1>1, <1>3, <1>4, <2>2, <2>3 DEF MigType, Statuses
    <3>2. Kept
      BY <1>1, <1>3, <1>4, <2>2, <2>3 DEF MigType, Kept
    <3>3. /\ mig'.status = mig.status /\ mig'.tx = mig.tx /\ mig'.undo = "mined"
          /\ mig'.ours = FALSE /\ mig'.fate = mig.fate
      BY <1>1, <1>3, <1>4, <2>2, <2>3 DEF MigType
    <3>4. InPlan'
      BY <1>1, <1>3, <1>4, <2>2, <2>3, <3>2, <3>3, Stays
    <3> QED
      BY <3>1, <3>2, <3>3, <3>4
  <2>5. mig.status = "failed" /\ mig.pc = 2
    BY <1>1, <2>1 DEF Answers, Kept
  <2>6. Answers'
    BY <1>1, <1>3, <2>1, <2>4, <2>5 DEF Answers, Kept
  <2> QED
    BY <1>1, <1>5, <2>1, <2>4, <2>6
<1> QED
  BY <1>7, <1>9, <1>10, <1>11 DEF Mine

LEMMA NextMigInv == MigInv /\ [Next]_vars => MigInv'
<1> SUFFICES ASSUME MigInv, [Next]_vars
             PROVE  MigInv'
  OBVIOUS
<1>1. AuthInv'
  BY AuthNextKeeps, NextIsAuthNext DEF MigInv
<1>2. target \in Markets /\ due \in Nat
  BY DEF MigInv
<1>3. ASSUME target' \in Markets, due' \in Nat, UNCHANGED mig
      PROVE  MigInv'
  BY <1>1, <1>3 DEF MigInv, MigType, InPlan, Answers, Available
<1>4. CASE OtherGrants
  <2>1. MigType /\ InPlan /\ Answers
    BY DEF MigInv
  <2>2. PICK ours \in BOOLEAN : ours = (mig.ours /\ PositionManager \in granted')
    BY <2>1 DEF MigType
  <2>3. mig' = [mig EXCEPT !.ours = ours] /\ UNCHANGED <<target, due>>
    BY <1>4, <2>2 DEF OtherGrants
  <2>4. MigType'
    BY <2>1, <2>3 DEF MigType
  <2>5. /\ mig'.status = mig.status /\ mig'.plan = mig.plan /\ mig'.pc = mig.pc
        /\ mig'.sawGrant = mig.sawGrant /\ mig'.sawTarget = mig.sawTarget
        /\ mig'.size = mig.size /\ mig'.tx = mig.tx /\ mig'.undo = mig.undo
        /\ mig'.ours = ours /\ mig'.fate = mig.fate /\ mig'.checks = mig.checks
    BY <2>1, <2>3 DEF MigType
  <2>6. ours => mig.ours
    BY <2>1, <2>2 DEF MigType
  <2>7. InPlan'
    BY <2>1, <2>5, <2>6 DEF InPlan, Available
  <2>8. Answers'
    BY <2>1, <2>5, <2>6 DEF Answers, Kept
  <2> QED
    BY <1>1, <1>2, <2>3, <2>4, <2>7, <2>8 DEF MigInv
<1>8. CASE UNCHANGED vars
  BY <1>2, <1>3, <1>8 DEF migVars, vars
<1>5. CASE OthersBorrow
  <2>1. target' = [target EXCEPT !.borrow = target.borrow + 1] /\ UNCHANGED <<due, mig>>
    BY <1>5 DEF OthersBorrow
  <2>2. target' \in Markets
    BY <1>2, <2>1 DEF Markets
  <2> QED
    BY <1>2, <1>3, <2>1, <2>2
<1>6. CASE OthersRepay
  <2>1. /\ target.borrow > 0 /\ UNCHANGED <<due, mig>>
        /\ target' = [target EXCEPT !.borrow = target.borrow - 1]
    BY <1>6 DEF OthersRepay
  <2>2. target.borrow \in Nat
    BY <1>2 DEF Markets
  <2>3. target.borrow - 1 \in Nat
    BY <2>1, <2>2
  <2>4. target' \in Markets
    BY <1>2, <2>1, <2>3 DEF Markets
  <2> QED
    BY <1>2, <1>3, <2>1, <2>4
<1>7. CASE Accrue
  <2>1. due' = due + 1 /\ UNCHANGED <<target, mig>>
    BY <1>7 DEF Accrue
  <2> QED
    BY <1>2, <1>3, <2>1
<1> QED
  BY <1>4, <1>5, <1>6, <1>7, <1>8, BuildKeeps, LoopKeeps, MineKeeps DEF Next
-----------------------------------------------------------------------------
(* The theorems.                                                           *)

(* The loop never leaves the plan the builder made of what it saw, and the *)
(* market it saw had room for the loan.                                    *)
THEOREM MigInvariance == Spec => []MigInv
BY InitMigInv, NextMigInv, PTL DEF Spec

(* Every state of a migration has the builder's shape.                     *)
THEOREM MigTypeCorrect == Spec => []TypeOK
<1>1. MigInv => TypeOK
  <2> SUFFICES ASSUME MigInv
               PROVE  TypeOK
    OBVIOUS
  <2>1. MigType /\ InPlan /\ AuthTypeOK
    BY DEF MigInv, AuthInv
  <2>2. mig.status \in {"running", "waiting"} => mig.pc \in 1..Len(mig.plan)
    BY <2>1 DEF InPlan, Begun
  <2>3. /\ mig.plan \in Seq(Steps) /\ mig.status \in Statuses /\ mig.fate \in Fates
        /\ mig.tx \in Txs /\ mig.undo \in Undos
    BY <2>1 DEF MigType
  <2> QED
    BY <2>1, <2>2, <2>3
       DEF MigInv, MigType, TypeOK, Steps, Statuses, Begun, Txs, Undos, Fates, Markets
<1> QED
  BY <1>1, MigInvariance, PTL

(* Beside a migration the account's grants change in no way they could not *)
(* have changed without it: what is proved of grants holds here too.       *)
THEOREM GrantsAsEver == Spec => AuthSpec
<1>1. Init => AuthInit
  BY DEF Init
<1> QED
  BY <1>1, NextIsAuthNext, PTL DEF Spec, AuthSpec

(* Whatever reverts, is refused or is mined late, and whoever else moves   *)
(* the grant, a loop that is over leaves its own in force only for one of  *)
(* the reasons named.                                                      *)
THEOREM GrantTakenBack == Spec => []NoOrphanGrant
<1>1. MigInv => NoOrphanGrant
  <2> SUFFICES ASSUME MigInv, mig.ours, mig.status \in {"done", "failed"}
               PROVE  NoOrphanGrant
    BY DEF NoOrphanGrant
  <2>1. MigType /\ InPlan /\ Answers /\ mig.status \in Begun
    BY DEF MigInv, Begun
  <2>2. CASE mig.status = "done"
    BY <2>1, <2>2 DEF NoOrphanGrant, Answers
  <2>3. CASE mig.status = "failed"
    <3>1. ~mig.sawGrant /\ mig.undo # "mined" /\ mig.undo \in Undos
      BY <2>1 DEF Answers, MigType
    <3>2. mig.pc = 1 \/ mig.pc = 2
      BY <2>1, <3>1, PlanHere
    <3>3. CASE mig.pc = 1
      BY <2>1, <2>3, <3>1, <3>3, PlanHere DEF NoOrphanGrant
    <3>4. CASE mig.pc = 2
      BY <2>1, <2>3, <3>1, <3>4 DEF NoOrphanGrant, Answers, Undos
    <3> QED
      BY <3>2, <3>3, <3>4
  <2> QED
    BY <2>2, <2>3
<1> QED
  BY <1>1, MigInvariance, PTL

(* Nothing is sent into a market that was short when the builder looked:   *)
(* if the market is short now, it or the debt has moved.                   *)
THEOREM NeverSentShort == Spec => ShortOnlyIfMoved
<1>1. MigInv /\ [Next]_vars
        => [(mig.fate # "illiquid" /\ mig'.fate = "illiquid")
              => \/ due > mig.size
                 \/ Liquidity < mig.sawTarget.supply - mig.sawTarget.borrow]_vars
  <2> SUFFICES ASSUME MigInv, [Next]_vars,
                      mig.fate # "illiquid", mig'.fate = "illiquid"
               PROVE  \/ due > mig.size
                      \/ Liquidity < mig.sawTarget.supply - mig.sawTarget.borrow
    OBVIOUS
  <2>1. MigType /\ InPlan /\ target \in Markets /\ due \in Nat
    BY DEF MigInv
  <2>2. CASE MigrateReverts
    <3>1. PICK fate : /\ fate = "illiquid" => due > Liquidity
                      /\ mig'.fate = fate
      BY <2>1, <2>2 DEF MigrateReverts, MigType
    <3>2. due > Liquidity
      BY <3>1
    <3>3. Available(mig.sawTarget) >= mig.size
      BY <2>1, <2>2 DEF MigrateReverts, Mined, InPlan
    <3>4. /\ mig.size \in Nat /\ target.supply \in Nat /\ target.borrow \in Nat
          /\ mig.sawTarget.supply \in Nat /\ mig.sawTarget.borrow \in Nat
      BY <2>1 DEF MigType, Markets
    <3> QED
      BY <2>1, <3>2, <3>3, <3>4 DEF Liquidity, Available
  <2>3. CASE Migrate
    BY <2>1, <2>3 DEF Migrate, MigType
  <2>4. CASE GrantLands \/ GrantReverts \/ UndoLands \/ OtherGrants
    BY <2>1, <2>4 DEF GrantLands, GrantReverts, UndoLands, OtherGrants, MigType
  <2>5. CASE Build
    <3>1. mig'.fate = mig.fate
      BY <2>1, <2>5 DEF Build, Begin, ReadGrant, ReadTarget,
                        BuildMigrateToFixedTermSteps, MigType
    <3> QED
      BY <3>1
  <2>6. CASE Loop
    <3>1. mig'.fate = mig.fate
      BY <2>1, <2>6 DEF Loop, Send, Confirm, Throws, Undo, MigType
    <3> QED
      BY <3>1
  <2>7. CASE UNCHANGED mig
    BY <2>7
  <2> QED
    BY <2>2, <2>3, <2>4, <2>5, <2>6, <2>7
       DEF Next, Mine, OthersBorrow, OthersRepay, Accrue, migVars, vars
<1> QED
  BY <1>1, MigInvariance, PTL DEF Spec, ShortOnlyIfMoved
=============================================================================
